------------------------------ MODULE ManagerProofs ------------------------------
(***************************************************************************)
(* Proofs about Manager for any callers, roles and operations, any faults  *)
(* and any number of operations and jobs.                                  *)
(*                                                                         *)
(* Both results rest on whose command runs on the PC.  While the bot waits *)
(* for a command, the one that runs is its own; a command that was given   *)
(* up keeps every later one from starting until it has ended.              *)
(***************************************************************************)
EXTENDS Manager, TLAPS

\* An SSH call is under way only in an operation, and a job is asked for only in
\* an operation that is about that job.
ControlFits ==
  /\ lock = Free => at = "idle"
  /\ at = "idle" => op = "none"
  /\ call # "none" => at \in Commands
  /\ at \in Commands /\ (at \in Kinds \/ op \in Kinds) => op = at

\* The command the bot waits for is the one that runs, and a worker that runs
\* holds the lock of the PC.
RemoteFits ==
  /\ call = "running" => remote = [cmd |-> at, op |-> opId]
  /\ \A k \in Kinds : jobs[k].phase = "running" =>
       remote.cmd = "worker" /\ \A j \in Kinds \ {k} : jobs[j].phase # "running"

MayQueue(i) == remote.cmd \in Kinds /\ remote.op = i

\* Whatever may have queued a job was not denied, now or later.
DenialsFit ==
  /\ \A i \in made \cup denied : i <= opId
  /\ remote.op <= opId
  /\ \A i \in denied : i \notin made /\ ~MayQueue(i)
  /\ op \in Kinds => /\ opId \notin denied
                     /\ opId \in made => call \in {"ok", "gone"}
                     /\ MayQueue(opId) => call \in {"running", "gone"}

\* From the reply to the backup to the end of the poweroff no command starts the
\* game.
ArchiveFits ==
  /\ (at = "backup" /\ call = "ok") \/ at = "poweroff" =>
       unsaved # "yes" /\ remote.cmd \notin {"start", "restart"}
  /\ remote.cmd = "poweroff" => unsaved # "yes"

Core == ControlFits /\ RemoteFits /\ DenialsFit /\ ArchiveFits

IInv == TypeOK /\ Core

-----------------------------------------------------------------------------

\* The initial state satisfies the invariant.
LEMMA InitIInv == Init => IInv
<1> SUFFICES ASSUME Init PROVE IInv
  OBVIOUS
<1>1. TypeOK
  BY ConstantsAssumption DEF Init, TypeOK, Nobody, Kinds, Outcomes, JobPhases, Free
<1>2. ControlFits /\ RemoteFits
  BY DEF Init, ControlFits, RemoteFits, Kinds, Commands, AllOps
<1>3. DenialsFit /\ ArchiveFits
  BY DEF Init, DenialsFit, MayQueue, ArchiveFits, Nobody, Kinds
<1> QED
  BY <1>1, <1>2, <1>3 DEF IInv, Core

BotTypeOK ==
  /\ lock \in Callers \cup {Free}
  /\ op \in AllOps \cup {"none"}
  /\ at \in Commands \cup {"idle", "probe", "boot", "reprobe", "players", "verify"}
  /\ call \in {"none", "sent", "running", "ok", "fail", "busy", "gone"}
  /\ tries \in 0..BootPolls
  /\ result \in [Callers -> Outcomes]
  /\ requested \in [Kinds -> Nat]
  /\ opId \in Nat
  /\ denied \subseteq Nat

\* Sending a command, going on and returning keep the types of the manager.
LEMMA BotMoves ==
  ASSUME TypeOK
  PROVE  /\ \A c \in Commands : Send(c) => BotTypeOK'
         /\ \A l \in {"reprobe", "players", "verify"} : GoTo(l) => BotTypeOK'
         /\ \A o \in Outcomes : Return(o) => BotTypeOK'
<1> USE DEF TypeOK, BotTypeOK
<1>1. ASSUME NEW c \in Commands, Send(c) PROVE BotTypeOK'
  BY <1>1 DEF Send
<1>2. ASSUME NEW l \in {"reprobe", "players", "verify"}, GoTo(l) PROVE BotTypeOK'
  BY <1>2 DEF GoTo
<1>3. ASSUME NEW o \in Outcomes, Return(o) PROVE BotTypeOK'
  <2>1. result' \in [Callers -> Outcomes]
    BY <1>3 DEF Return
  <2>2. denied' \subseteq Nat
    BY <1>3 DEF Return
  <2>3. 0 \in 0..BootPolls
    BY ConstantsAssumption
  <2> QED
    BY <1>3, <2>1, <2>2, <2>3 DEF Return
<1> QED
  BY <1>1, <1>2, <1>3

\* The bot keeps its types, and so does what it sees of the PC.
LEMMA BotTypeStep ==
  TypeOK /\ ControlFits /\ (BotStep \/ \E c \in Callers, o \in Ops : Invoke(c, o)) => TypeOK'
<1> SUFFICES ASSUME TypeOK, ControlFits,
                    BotStep \/ \E c \in Callers, o \in Ops : Invoke(c, o)
             PROVE  TypeOK'
  OBVIOUS
<1>1. ASSUME UNCHANGED pcVars, BotTypeOK' PROVE TypeOK'
  BY <1>1 DEF TypeOK, BotTypeOK, pcVars
<1>2. /\ \A c \in Commands : Send(c) => BotTypeOK'
      /\ \A l \in {"reprobe", "players", "verify"} : GoTo(l) => BotTypeOK'
      /\ \A o \in Outcomes : Return(o) => BotTypeOK'
  BY BotMoves
<1>3. /\ {"start", "restart", "shutdown", "backup", "poweroff", "update", "restore"} \subseteq Commands
      /\ {"BUSY", "ALREADY_RUNNING", "UNREACHABLE", "FAILED", "BOOT_TIMEOUT",
          "REFUSED_PLAYERS", "STARTED", "START_FAILED", "RESTARTED",
          "RESTART_FAILED", "STOPPED", "UNKNOWN"} \subseteq Outcomes
  BY DEF Commands, Kinds, Outcomes
<1>4. ASSUME Wake PROVE TypeOK'
  BY <1>4, ConstantsAssumption DEF Wake, TypeOK
<1>5. ASSUME NEW k \in Kinds, JudgeStatus(k) PROVE TypeOK'
  BY <1>1, <1>2, <1>3, <1>5 DEF JudgeStatus, Kinds
<1>6. CASE \E c \in Callers, o \in Ops : Invoke(c, o)
  <2> PICK c \in Callers, o \in Ops : Invoke(c, o)
    BY <1>6
  <2>1. BotTypeOK'
    BY ConstantsAssumption DEF Invoke, Enter, TypeOK, BotTypeOK, Outcomes
  <2> QED
    BY <1>1, <2>1 DEF Invoke, Enter
<1>7. CASE ProbeToStart
  BY <1>1, <1>2, <1>3, <1>4, <1>7 DEF ProbeToStart
<1>8. CASE ProbeToRestart
  BY <1>1, <1>2, <1>3, <1>8 DEF ProbeToRestart
<1>9. CASE ProbeToUpdate
  BY <1>1, <1>2, <1>3, <1>4, <1>5, <1>9 DEF ProbeToUpdate, Kinds
<1>10. CASE ProbeToRestore
  BY <1>1, <1>2, <1>3, <1>5, <1>10 DEF ProbeToRestore, Kinds
<1>11. CASE BootPoll
  <2>1. ASSUME tries > 1, tries' = tries - 1,
               UNCHANGED <<lock, op, at, call, result, requested, opId, denied>>
        PROVE  BotTypeOK'
    BY <2>1, ConstantsAssumption DEF TypeOK, BotTypeOK
  <2> QED
    BY <1>1, <1>2, <1>3, <1>11, <2>1 DEF BootPoll
<1>12. CASE AskPlayersForJob
  BY <1>1, <1>2, <1>3, <1>12 DEF AskPlayersForJob, Kinds
<1>13. CASE AskPlayersForStop
  BY <1>1, <1>2, <1>3, <1>13 DEF AskPlayersForStop
<1>14. CASE Verify
  BY <1>1, <1>2, <1>3, <1>14 DEF Verify
<1>15. CASE Reply
  <2>1. \A c \in Commands : FailureOf[c] \in Outcomes
    <3>1. /\ FailureOf["start"] \in Outcomes /\ FailureOf["restart"] \in Outcomes
          /\ FailureOf["shutdown"] \in Outcomes /\ FailureOf["backup"] \in Outcomes
          /\ FailureOf["poweroff"] \in Outcomes /\ FailureOf["update"] \in Outcomes
          /\ FailureOf["restore"] \in Outcomes
      BY DEF FailureOf, Outcomes
    <3> QED
      BY <3>1 DEF Commands, Kinds
  <2>2. call # "none" => at \in Commands
    BY DEF ControlFits
  <2>3. ASSUME at \in Kinds, Acknowledge PROVE BotTypeOK'
    <3>1. ASSUME requested' = [requested EXCEPT ![at] = jobs[at].id], lock' = Free,
                 op' = "none", at' = "idle", call' = "none", tries' = 0,
                 result' = [result EXCEPT ![lock] = "ACCEPTED"],
                 UNCHANGED <<opId, denied>>
          PROVE  BotTypeOK'
      <4>1. requested' \in [Kinds -> Nat]
        BY <2>3, <3>1 DEF TypeOK
      <4>2. result' \in [Callers -> Outcomes]
        BY <3>1 DEF TypeOK, Outcomes
      <4>3. 0 \in 0..BootPolls
        BY ConstantsAssumption
      <4> QED
        BY <3>1, <4>1, <4>2, <4>3 DEF TypeOK, BotTypeOK
    <3> QED
      BY <2>3, <3>1, <1>2, <1>3 DEF Acknowledge
  <2>4. ASSUME FollowUp PROVE BotTypeOK'
    BY <1>2, <1>3, <2>4 DEF FollowUp
  <2> QED
    BY <1>1, <1>2, <1>3, <1>15, <2>1, <2>2, <2>3, <2>4 DEF Reply
<1> QED
  BY <1>6, <1>7, <1>8, <1>9, <1>10, <1>11, <1>12, <1>13, <1>14, <1>15 DEF BotStep

\* The PC keeps its types.
LEMMA PCTypeStep == TypeOK /\ ControlFits /\ (Deliver \/ TimesOut \/ PCStep) => TypeOK'
<1> SUFFICES ASSUME TypeOK, ControlFits, Deliver \/ TimesOut \/ PCStep PROVE TypeOK'
  OBVIOUS
<1> USE DEF TypeOK, Answer, Nobody, pcVars, botVars, remoteFrame
<1>1. CASE Deliver
  <2>1. remote' \in [cmd: Commands \cup {"none", "worker"}, op: Nat]
    <3>1. UNCHANGED remote \/ (call = "sent" /\ remote' = [cmd |-> at, op |-> opId])
      BY <1>1 DEF Deliver
    <3> QED
      BY <3>1 DEF ControlFits
  <2> QED
    BY <1>1, <2>1 DEF Deliver
<1>2. CASE TimesOut
  BY <1>2 DEF TimesOut
<1>3. CASE RemoteStarts
  BY <1>3 DEF RemoteStarts
<1>9. CASE RemoteStops
  BY <1>9 DEF RemoteStops
<1>10. CASE RemoteArchives
  BY <1>10 DEF RemoteArchives
<1>11. CASE RemoteFails
  BY <1>11 DEF RemoteFails
<1>4. CASE RemotePowersOff
  BY <1>4 DEF RemotePowersOff, Dropped, JobPhases
<1>5. CASE RemoteQueues
  <2>1. /\ remote.cmd \in Kinds /\ remote.op \in Nat
        /\ jobs' = [jobs EXCEPT ![remote.cmd] = [id |-> jobs[remote.cmd].id + 1,
                                                 phase |-> "pending"]]
        /\ made' = made \cup {remote.op}
    BY <1>5 DEF RemoteQueues
  <2>2. [id |-> jobs[remote.cmd].id + 1, phase |-> "pending"] \in [id: Nat, phase: JobPhases]
    BY <2>1 DEF JobPhases
  <2>3. jobs' \in [Kinds -> [id: Nat, phase: JobPhases]] /\ made' \subseteq Nat
    BY <2>1, <2>2
  <2> QED
    BY <1>5, <2>3 DEF RemoteQueues
<1>6. ASSUME NEW k \in Kinds, JobWakes(k) \/ JobBegins(k) \/ JobEnds(k) PROVE TypeOK'
  <2>1. CASE JobWakes(k)
    BY <2>1 DEF JobWakes, JobPhases
  <2>2. CASE JobBegins(k)
    BY <2>2 DEF JobBegins, JobPhases
  <2>3. CASE JobEnds(k)
    BY <2>3 DEF JobEnds, JobPhases
  <2> QED
    BY <1>6, <2>1, <2>2, <2>3
<1>7. CASE Boots \/ GameCrashes \/ GameRestarts
  BY <1>7 DEF Boots, GameCrashes, GameRestarts
<1>8. CASE PlayersComeOrGo
  BY <1>8 DEF PlayersComeOrGo
<1> QED
  BY <1>1, <1>2, <1>3, <1>4, <1>5, <1>6, <1>7, <1>8, <1>9, <1>10, <1>11
  DEF PCStep, Remote, JobStep

-----------------------------------------------------------------------------

\* The bot's calls stay where they belong.
LEMMA ControlStep == TypeOK /\ ControlFits /\ Next => ControlFits'
<1> SUFFICES ASSUME TypeOK, ControlFits, Next PROVE ControlFits'
  OBVIOUS
<1> USE DEF ControlFits
<1>1. CASE \E c \in Callers, o \in Ops : Invoke(c, o)
  BY <1>1, ConstantsAssumption DEF Invoke, Enter, Commands, Kinds, AllOps
<1>2. CASE BotStep
  <2> USE DEF Send, GoTo, Return, Wake, Commands, Kinds, pcVars
  <2>1. CASE ProbeToStart \/ ProbeToRestart
    BY <2>1 DEF ProbeToStart, ProbeToRestart
  <2>2. CASE ProbeToUpdate
    BY <2>2 DEF ProbeToUpdate, JudgeStatus
  <2>3. CASE ProbeToRestore
    BY <2>3 DEF ProbeToRestore, JudgeStatus
  <2>4. CASE BootPoll
    BY <2>4 DEF BootPoll
  <2>5. CASE AskPlayersForJob \/ AskPlayersForStop \/ Verify
    BY <2>5 DEF AskPlayersForJob, AskPlayersForStop, Verify
  <2>6. CASE Reply
    BY <2>6 DEF Reply, FollowUp, Acknowledge
  <2> QED
    BY <1>2, <2>1, <2>2, <2>3, <2>4, <2>5, <2>6 DEF BotStep
<1>3. CASE Deliver \/ TimesOut \/ PCStep
  <2>1. UNCHANGED <<lock, op, at>> /\ (call = "none" => call' = "none")
    BY <1>3 DEF Deliver, TimesOut, PCStep, Remote, RemoteStarts, RemoteStops,
       RemoteArchives, RemotePowersOff, RemoteQueues, RemoteFails, JobStep,
       JobWakes, JobBegins, JobEnds, Boots, GameCrashes, GameRestarts,
       PlayersComeOrGo, Answer, remoteFrame, botVars
  <2> QED
    BY <2>1
<1> QED
  BY <1>1, <1>2, <1>3 DEF Next

\* A step of the bot or of a caller does nothing on the PC but to wake it, and
\* waits for no command that runs already.
LEMMA BotFrame ==
  ASSUME ControlFits, (\E c \in Callers, o \in Ops : Invoke(c, o)) \/ BotStep
  PROVE  /\ UNCHANGED <<remote, jobs, made, unsaved>>
         /\ power # "off" => UNCHANGED power
         /\ call' = "running" => UNCHANGED <<call, at, op, opId>>
<1> USE DEF Send, GoTo, Return, Wake, pcVars, ControlFits, Commands, Kinds
<1>1. CASE \E c \in Callers, o \in Ops : Invoke(c, o)
  BY <1>1 DEF Invoke, Enter
<1>2. CASE ProbeToStart \/ ProbeToRestart
  BY <1>2 DEF ProbeToStart, ProbeToRestart
<1>3. CASE ProbeToUpdate
  BY <1>3 DEF ProbeToUpdate, JudgeStatus
<1>4. CASE ProbeToRestore
  BY <1>4 DEF ProbeToRestore, JudgeStatus
<1>5. CASE BootPoll
  BY <1>5 DEF BootPoll
<1>6. CASE AskPlayersForJob \/ AskPlayersForStop \/ Verify
  BY <1>6 DEF AskPlayersForJob, AskPlayersForStop, Verify
<1>7. CASE Reply
  BY <1>7 DEF Reply, FollowUp, Acknowledge
<1> QED
  BY <1>1, <1>2, <1>3, <1>4, <1>5, <1>6, <1>7 DEF BotStep

\* Every step keeps the command that runs the bot's own.
LEMMA RemoteStep == TypeOK /\ ControlFits /\ RemoteFits /\ Next => RemoteFits'
<1> SUFFICES ASSUME TypeOK, ControlFits, RemoteFits, Next PROVE RemoteFits'
  OBVIOUS
<1> USE DEF RemoteFits
<1>1. CASE (\E c \in Callers, o \in Ops : Invoke(c, o)) \/ BotStep
  BY <1>1, BotFrame
<1>2. CASE Deliver
  BY <1>2 DEF Deliver, Nobody
<1>3. CASE TimesOut
  BY <1>3 DEF TimesOut, pcVars
<1>4. ASSUME UNCHANGED <<at, opId>>, remote.cmd # "worker",
             remote' = Nobody \/ UNCHANGED remote,
             remote' = Nobody => call' # "running",
             call' = "running" => call = "running",
             \A k \in Kinds : jobs'[k].phase = "running" => jobs[k].phase = "running"
      PROVE  RemoteFits'
  BY <1>4 DEF Nobody
<1>5. CASE Remote
  <2>1. /\ UNCHANGED <<at, opId>> /\ remote.cmd # "worker"
        /\ remote' = Nobody \/ UNCHANGED <<remote, call>>
        /\ remote' = Nobody => call' # "running"
        /\ call' = "running" => call = "running"
    <3> USE DEF Answer, Commands, Kinds, remoteFrame
    <3>1. CASE RemoteStarts \/ RemoteArchives
      BY <3>1 DEF RemoteStarts, RemoteArchives
    <3>2. CASE RemoteStops
      <4>1. CASE remote.cmd = "restart"
        BY <3>2, <4>1 DEF RemoteStops, Nobody
      <4>2. CASE remote.cmd # "restart"
        BY <3>2, <4>2 DEF RemoteStops
      <4> QED
        BY <4>1, <4>2
    <3>3. CASE RemotePowersOff
      BY <3>3 DEF RemotePowersOff
    <3>4. CASE RemoteQueues \/ RemoteFails
      BY <3>4 DEF RemoteQueues, RemoteFails
    <3> QED
      BY <1>5, <3>1, <3>2, <3>3, <3>4 DEF Remote
  <2>2. \A k \in Kinds : jobs'[k].phase = "running" => jobs[k].phase = "running"
    <3>1. CASE RemoteQueues
      BY <3>1 DEF RemoteQueues, TypeOK
    <3>2. CASE RemotePowersOff
      BY <3>2 DEF RemotePowersOff, Dropped, TypeOK
    <3>3. CASE ~RemoteQueues /\ ~RemotePowersOff
      BY <1>5, <3>3 DEF Remote, RemoteStarts, RemoteStops, RemoteArchives, RemoteFails
    <3> QED
      BY <3>1, <3>2, <3>3
  <2> QED
    BY <1>4, <2>1, <2>2
<1>6. ASSUME NEW k \in Kinds, JobWakes(k) \/ JobBegins(k) \/ JobEnds(k)
      PROVE  RemoteFits'
  <2>1. UNCHANGED <<call, at, opId>>
    BY <1>6 DEF JobWakes, JobBegins, JobEnds, botVars
  <2>2. CASE JobWakes(k)
    BY <2>1, <2>2 DEF JobWakes, TypeOK
  <2>3. CASE JobBegins(k)
    <3>1. /\ \A j \in Kinds : jobs'[j].phase = "running" => j = k \/ jobs[j].phase = "running"
          /\ jobs'[k].phase = "running" => remote = Nobody /\ remote'.cmd = "worker"
          /\ jobs'[k].phase # "running" => UNCHANGED remote
      BY <2>3 DEF JobBegins, TypeOK
    <3>2. remote = Nobody => call # "running" /\ \A j \in Kinds : jobs[j].phase # "running"
      BY DEF Nobody, ControlFits, Commands, Kinds
    <3>3. \A j \in Kinds : jobs'[j].phase = "running" => remote'.cmd = "worker"
      BY <3>1, <3>2
    <3>4. \A i, j \in Kinds : jobs'[i].phase = "running" /\ jobs'[j].phase = "running" => i = j
      BY <3>1, <3>2, <2>3 DEF JobBegins, TypeOK
    <3> QED
      BY <2>1, <3>1, <3>2, <3>3, <3>4
  <2>4. CASE JobEnds(k)
    <3>1. call # "running"
      BY <2>4 DEF JobEnds, ControlFits, Commands, Kinds
    <3>2. \A j \in Kinds : jobs'[j].phase # "running"
      BY <2>4 DEF JobEnds, TypeOK
    <3> QED
      BY <2>1, <3>1, <3>2
  <2> QED
    BY <1>6, <2>2, <2>3, <2>4
<1>7. CASE Boots \/ GameCrashes \/ GameRestarts \/ PlayersComeOrGo
  BY <1>7 DEF Boots, GameCrashes, GameRestarts, PlayersComeOrGo, botVars
<1> QED
  BY <1>1, <1>2, <1>3, <1>5, <1>6, <1>7 DEF Next, PCStep, JobStep

\* The bot denies a job only while nothing may have queued it.
LEMMA BotDenials ==
  ASSUME TypeOK, ControlFits, BotStep
  PROVE  /\ UNCHANGED opId /\ op' \in {op, "none"}
         /\ \/ UNCHANGED denied
            \/ /\ op \in Kinds /\ op' = "none" /\ denied' = denied \cup {opId}
               /\ call \notin {"ok", "gone", "running"}
         /\ op' \in Kinds => call \notin {"ok", "gone", "running"} \/ UNCHANGED call
<1> USE DEF Send, GoTo, Return, Wake, ControlFits, Commands, Kinds
<1>1. CASE ProbeToStart \/ ProbeToRestart
  BY <1>1 DEF ProbeToStart, ProbeToRestart
<1>2. CASE ProbeToUpdate
  BY <1>2 DEF ProbeToUpdate, JudgeStatus
<1>3. CASE ProbeToRestore
  BY <1>3 DEF ProbeToRestore, JudgeStatus
<1>4. CASE BootPoll
  BY <1>4 DEF BootPoll
<1>5. CASE AskPlayersForJob \/ AskPlayersForStop \/ Verify
  BY <1>5 DEF AskPlayersForJob, AskPlayersForStop, Verify
<1>6. CASE Reply
  BY <1>6 DEF Reply, FollowUp, Acknowledge
<1> QED
  BY <1>1, <1>2, <1>3, <1>4, <1>5, <1>6 DEF BotStep

\* Every step keeps what was denied and what may be queued apart.
LEMMA DenialsStep ==
  TypeOK /\ ControlFits /\ RemoteFits /\ DenialsFit /\ Next => DenialsFit'
<1> SUFFICES ASSUME TypeOK, ControlFits, RemoteFits, DenialsFit, Next
             PROVE  DenialsFit'
  OBVIOUS
<1>0. /\ opId \in Nat /\ remote.op \in Nat /\ made \subseteq Nat /\ denied \subseteq Nat
  BY DEF TypeOK
<1> USE DEF DenialsFit, MayQueue
<1>1. CASE \E c \in Callers, o \in Ops : Invoke(c, o)
  <2>1. /\ UNCHANGED <<remote, made, denied, call>>
        /\ (opId' = opId /\ op' = op) \/ opId' = opId + 1
    BY <1>1 DEF Invoke, Enter, pcVars
  <2>2. \A i \in made \cup denied : i <= opId /\ i \in Nat
    BY <1>0
  <2>3. CASE opId' = opId + 1
    <3>1. \A i \in made' \cup denied' : i <= opId' /\ i # opId'
      BY <1>0, <2>1, <2>2, <2>3
    <3>2. remote'.op <= opId' /\ remote'.op # opId'
      BY <1>0, <2>1, <2>3
    <3> QED
      BY <2>1, <3>1, <3>2
  <2> QED
    BY <2>1, <2>3
<1>2. CASE BotStep
  <2>1. UNCHANGED <<remote, made, opId>>
    BY <1>2, BotDenials, BotFrame
  <2>2. op' \in Kinds => op' = op
    BY <1>2, BotDenials DEF Kinds
  <2>3. \A i \in denied' : i <= opId /\ i \notin made /\ ~MayQueue(i)
    <3>1. CASE UNCHANGED denied
      BY <3>1
    <3>2. CASE /\ op \in Kinds /\ denied' = denied \cup {opId}
               /\ call \notin {"ok", "gone", "running"}
      <4>1. opId <= opId /\ opId \notin made /\ ~MayQueue(opId)
        BY <1>0, <3>2
      <4> QED
        BY <3>2, <4>1
    <3> QED
      BY <1>2, <3>1, <3>2, BotDenials
  <2>4. op' \in Kinds => /\ opId \notin denied'
                         /\ opId \in made => call' \in {"ok", "gone"}
                         /\ MayQueue(opId) => call' \in {"running", "gone"}
    BY <1>2, <2>2, BotDenials DEF Kinds
  <2> QED
    BY <1>0, <2>1, <2>3, <2>4
<1>3. CASE Deliver
  <2>1. /\ call = "sent" /\ UNCHANGED <<op, opId, made, denied, at>>
        /\ \/ call' \in {"gone", "busy"} /\ UNCHANGED remote
           \/ call' = "running" /\ remote' = [cmd |-> at, op |-> opId]
    BY <1>3 DEF Deliver
  <2>2. at \in Kinds => op \in Kinds
    BY <2>1 DEF ControlFits, Commands
  <2> QED
    BY <1>0, <2>1, <2>2
<1>4. CASE TimesOut
  BY <1>4 DEF TimesOut, pcVars
<1>5. ASSUME UNCHANGED <<op, opId, made, denied>>,
             remote' = remote \/ (remote'.cmd \notin Kinds /\ remote'.op = 0),
             \/ call' = call
             \/ call = "running" /\ (remote.cmd \notin Kinds \/ remote'.cmd \notin Kinds)
      PROVE  DenialsFit'
  BY <1>0, <1>5
<1>6. CASE RemoteQueues
  <2>1. /\ remote.cmd \in Kinds /\ made' = made \cup {remote.op} /\ remote' = Nobody
        /\ UNCHANGED <<op, opId, denied>>
        /\ call' = IF call = "running" THEN "ok" ELSE call
    BY <1>6 DEF RemoteQueues, Answer, remoteFrame
  <2> QED
    BY <1>0, <2>1 DEF Nobody, Kinds
<1>7. CASE Remote /\ ~RemoteQueues
  <2>1. /\ UNCHANGED <<op, opId, made, denied>>
        /\ remote' = Nobody \/ UNCHANGED <<remote, call>>
        /\ call' # call => call = "running"
    <3> USE DEF Answer, remoteFrame
    <3>1. CASE RemoteStarts \/ RemoteArchives
      BY <3>1 DEF RemoteStarts, RemoteArchives
    <3>2. CASE RemoteStops
      BY <3>2 DEF RemoteStops
    <3>3. CASE RemotePowersOff
      BY <3>3 DEF RemotePowersOff
    <3>4. CASE RemoteFails
      BY <3>4 DEF RemoteFails
    <3> QED
      BY <1>7, <3>1, <3>2, <3>3, <3>4 DEF Remote
  <2> QED
    BY <1>5, <2>1 DEF Nobody, Kinds
<1>8. ASSUME NEW k \in Kinds, JobWakes(k) \/ JobBegins(k) \/ JobEnds(k)
      PROVE  DenialsFit'
  <2>1. /\ UNCHANGED <<op, opId, made, denied, call>>
        /\ remote' = remote \/ remote' = Nobody \/ remote' = [cmd |-> "worker", op |-> 0]
    BY <1>8 DEF JobWakes, JobBegins, JobEnds, botVars
  <2> QED
    BY <1>5, <2>1 DEF Nobody, Kinds
<1>9. CASE Boots \/ GameCrashes \/ GameRestarts \/ PlayersComeOrGo
  BY <1>5, <1>9 DEF Boots, GameCrashes, GameRestarts, PlayersComeOrGo, botVars
<1> QED
  BY <1>1, <1>2, <1>3, <1>4, <1>6, <1>7, <1>8, <1>9 DEF Next, PCStep, JobStep

\* Every step keeps the archive newer than what commands started.
LEMMA ArchiveStep ==
  TypeOK /\ ControlFits /\ RemoteFits /\ ArchiveFits /\ Next => ArchiveFits'
<1> SUFFICES ASSUME TypeOK, ControlFits, RemoteFits, ArchiveFits, Next
             PROVE  ArchiveFits'
  OBVIOUS
<1> USE DEF ArchiveFits
<1>1. CASE \E c \in Callers, o \in Ops : Invoke(c, o)
  BY <1>1 DEF Invoke, Enter, pcVars, ControlFits
<1>2. CASE BotStep
  <2>1. at' \in {"backup", "poweroff"} =>
          \/ UNCHANGED <<at, call>>
          \/ at' = "backup" /\ call' = "sent"
          \/ at = "backup" /\ call = "ok"
    <3> USE DEF Send, GoTo, Return, Wake, Commands, Kinds
    <3>1. CASE ProbeToStart \/ ProbeToRestart
      BY <3>1 DEF ProbeToStart, ProbeToRestart
    <3>2. CASE ProbeToUpdate \/ ProbeToRestore
      BY <3>2 DEF ProbeToUpdate, ProbeToRestore, JudgeStatus
    <3>3. CASE BootPoll
      BY <3>3 DEF BootPoll
    <3>4. CASE AskPlayersForJob \/ AskPlayersForStop \/ Verify
      BY <3>4 DEF AskPlayersForJob, AskPlayersForStop, Verify
    <3>5. CASE Reply
      BY <3>5 DEF Reply, FollowUp, Acknowledge
    <3> QED
      BY <1>2, <3>1, <3>2, <3>3, <3>4, <3>5 DEF BotStep
  <2> QED
    BY <1>2, <2>1, BotFrame
<1>3. CASE Deliver
  BY <1>3 DEF Deliver
<1>4. CASE TimesOut
  BY <1>4 DEF TimesOut, pcVars
<1>5. CASE Remote
  <2> USE DEF Answer, remoteFrame, RemoteFits, Nobody
  <2>1. CASE RemoteStarts
    BY <2>1 DEF RemoteStarts
  <2>2. CASE RemoteStops
    BY <2>2 DEF RemoteStops
  <2>3. CASE RemoteArchives
    BY <2>3 DEF RemoteArchives
  <2>4. CASE RemotePowersOff
    BY <2>4 DEF RemotePowersOff
  <2>5. CASE RemoteQueues
    BY <2>5 DEF RemoteQueues, Kinds
  <2>6. CASE RemoteFails
    BY <2>6 DEF RemoteFails
  <2> QED
    BY <1>5, <2>1, <2>2, <2>3, <2>4, <2>5, <2>6 DEF Remote
<1>6. ASSUME NEW k \in Kinds, JobWakes(k) \/ JobBegins(k) \/ JobEnds(k)
      PROVE  ArchiveFits'
  BY <1>6 DEF JobWakes, JobBegins, JobEnds, Nobody, botVars
<1>7. CASE Boots \/ GameCrashes \/ GameRestarts \/ PlayersComeOrGo
  BY <1>7 DEF Boots, GameCrashes, GameRestarts, PlayersComeOrGo, botVars
<1> QED
  BY <1>1, <1>2, <1>3, <1>4, <1>5, <1>6, <1>7 DEF Next, PCStep, JobStep

-----------------------------------------------------------------------------

\* The invariant survives every step of the callers, the bot and the PC.
LEMMA IInvStep == IInv /\ [Next]_vars => IInv'
<1>1. ASSUME IInv, Next PROVE IInv'
  <2>1. TypeOK'
    BY <1>1, BotTypeStep, PCTypeStep DEF IInv, Core, Next
  <2> QED
    BY <1>1, <2>1, ControlStep, RemoteStep, DenialsStep, ArchiveStep DEF IInv, Core
<1>2. ASSUME IInv, UNCHANGED vars PROVE IInv'
  BY <1>2 DEF IInv, Core, TypeOK, ControlFits, RemoteFits, DenialsFit, MayQueue,
     ArchiveFits, vars, pcVars, botVars
<1> QED
  BY <1>1, <1>2

\* In every state the bot and the PC can reach, the command that runs, the jobs
\* that were denied and the archive are what the bot takes them for.
THEOREM Invariance == Spec => []IInv
BY InitIInv, IInvStep, PTL DEF Spec

\* For any callers, operations and faults every variable keeps its type.
THEOREM TypeCorrect == Spec => []TypeOK
<1>1. IInv => TypeOK
  BY DEF IInv
<1> QED
  BY Invariance, <1>1, PTL

\* Whoever was told that no job was queued has queued none and never will,
\* however many commands are given up and run on.
THEOREM DeniedForGood == Spec => []DeniedMeansNotQueued
<1>1. IInv => DeniedMeansNotQueued
  BY DEF IInv, Core, DenialsFit, DeniedMeansNotQueued
<1> QED
  BY Invariance, <1>1, PTL

\* The poweroff comes after the archive.
LEMMA SavedStep ==
  IInv /\ [Next]_vars => (power = "on" /\ power' = "off" => unsaved # "yes")
<1> SUFFICES ASSUME IInv, [Next]_vars, power = "on", power' = "off"
             PROVE  unsaved # "yes"
  OBVIOUS
<1>1. RemotePowersOff
  <2>1. ~UNCHANGED vars
    BY DEF vars, pcVars
  <2>2. ~BotStep /\ ~\E c \in Callers, o \in Ops : Invoke(c, o)
    BY BotFrame DEF IInv, Core
  <2> QED
    BY <2>1, <2>2 DEF Next, PCStep, Remote, JobStep, Deliver, TimesOut,
       RemoteStarts, RemoteStops, RemoteArchives, RemoteQueues, RemoteFails,
       JobWakes, JobBegins, JobEnds, Boots, GameCrashes, GameRestarts,
       PlayersComeOrGo, pcVars
<1> QED
  BY <1>1 DEF RemotePowersOff, IInv, Core, ArchiveFits

\* The bot powers the PC off only with an archive of all that was played since a
\* command last started the game, whichever calls were lost and whatever jobs and
\* crashes came between.
THEOREM SavedBeforeOff == Spec => PoweroffIsSaved
BY Invariance, SavedStep, PTL DEF Spec, PoweroffIsSaved

-----------------------------------------------------------------------------
(* One command at a time.                                                    *)

\* A job that is there was asked for.
JobsAsked == \A k \in Kinds : jobs[k].phase # "none" => jobs[k].id > 0

\* The game before and after a step, as others see it.
LEMMA GameSeenIs ==
  /\ game = "inactive" => GameSeen = "down"
  /\ game = "active" => GameSeen = "up"
  /\ game = "activating" => GameSeen = "restarting"
  /\ game' = "inactive" => GameSeen' = "down"
  /\ game' = "active" => GameSeen' = "up"
  /\ game' = "activating" => GameSeen' = "restarting"
BY DEF GameSeen

\* The bot itself does nothing that others on the PC could see.
LEMMA BotUnseen ==
  ASSUME (\E c \in Callers, o \in Ops : Invoke(c, o)) \/ BotStep
  PROVE  UNCHANGED game
<1> USE DEF Wake, pcVars
<1>1. CASE \E c \in Callers, o \in Ops : Invoke(c, o)
  BY <1>1 DEF Invoke, Enter
<1>2. CASE ProbeToStart \/ ProbeToRestart
  BY <1>2 DEF ProbeToStart, ProbeToRestart
<1>3. CASE ProbeToUpdate \/ ProbeToRestore
  BY <1>3 DEF ProbeToUpdate, ProbeToRestore, JudgeStatus
<1>4. CASE BootPoll \/ AskPlayersForJob \/ AskPlayersForStop \/ Verify \/ Reply
  BY <1>4 DEF BootPoll, AskPlayersForJob, AskPlayersForStop, Verify, Reply
<1> QED
  BY <1>1, <1>2, <1>3, <1>4 DEF BotStep

\* Every step keeps the numbers of what was asked for.
LEMMA AskedStep == IInv /\ JobsAsked /\ Next => JobsAsked'
<1> SUFFICES ASSUME TypeOK, ControlFits, JobsAsked, Next PROVE JobsAsked'
  BY DEF IInv, Core
<1> USE DEF JobsAsked
<1>1. ASSUME UNCHANGED jobs PROVE JobsAsked'
  BY <1>1
<1>2. CASE (\E c \in Callers, o \in Ops : Invoke(c, o)) \/ BotStep
  BY <1>1, <1>2, BotFrame
<1>3. CASE Deliver \/ TimesOut
  BY <1>1, <1>3 DEF Deliver, TimesOut, pcVars
<1>4. CASE RemoteQueues
  BY <1>4 DEF RemoteQueues, TypeOK
<1>5. CASE RemotePowersOff
  BY <1>5 DEF RemotePowersOff, Dropped, TypeOK
<1>6. CASE RemoteStarts \/ RemoteStops \/ RemoteArchives \/ RemoteFails
  BY <1>1, <1>6 DEF RemoteStarts, RemoteStops, RemoteArchives, RemoteFails
<1>7. ASSUME NEW k \in Kinds, JobWakes(k) \/ JobBegins(k) \/ JobEnds(k)
      PROVE  JobsAsked'
  <2>1. jobs[k].phase # "none" /\ \E p \in JobPhases : jobs' = [jobs EXCEPT ![k].phase = p]
    BY <1>7 DEF JobWakes, JobBegins, JobEnds, JobPhases
  <2>2. \A j \in Kinds : jobs'[j].id = jobs[j].id
    BY <2>1 DEF TypeOK
  <2>3. \A j \in Kinds \ {k} : jobs'[j] = jobs[j]
    BY <2>1 DEF TypeOK
  <2> QED
    BY <2>1, <2>2, <2>3
<1>8. CASE Boots \/ GameCrashes \/ GameRestarts \/ PlayersComeOrGo
  BY <1>1, <1>8 DEF Boots, GameCrashes, GameRestarts, PlayersComeOrGo
<1> QED
  BY <1>2, <1>3, <1>4, <1>5, <1>6, <1>7, <1>8 DEF Next, PCStep, Remote, JobStep

\* A command that runs on the PC does what it is for.
LEMMA RemoteTurns ==
  ASSUME TypeOK, Remote
  PROVE  [Turns!Next]_(Turns!vars)
<1>0. /\ game \in {"inactive", "active", "activating"}
      /\ remote.cmd \in Commands => remote # Nobody
      /\ Nobody.cmd = "none"
  BY DEF TypeOK, Nobody, Commands, Kinds
<1> USE DEF Turns!Proceeds, Turns!GivesBack, Turns!Next
<1>1. CASE RemoteStarts
  <2>1. /\ remote.cmd \in {"start", "restart"} /\ remote' = Nobody /\ UNCHANGED jobs
        /\ game' = "active"
    BY <1>1 DEF RemoteStarts
  <2>2. GameSeen' = "up" /\ GameSeen # "stopping"
    BY <1>0, <2>1, GameSeenIs
  <2> QED
    BY <1>0, <2>1, <2>2 DEF Turns!StartGame, Asked
<1>2. CASE RemoteStops
  <2>1. /\ remote.cmd \in {"shutdown", "restart"} /\ UNCHANGED jobs
        /\ remote' = Nobody \/ UNCHANGED remote
    BY <1>2 DEF RemoteStops
  <2>2. CASE game = "active"
    <3>1. GameSeen = "up" /\ GameSeen' = "down"
      BY <1>2, <2>2, GameSeenIs DEF RemoteStops
    <3> QED
      BY <1>0, <2>1, <3>1 DEF Turns!StopGame, Asked
  <2>3. CASE game # "active"
    <3>1. remote' = Nobody /\ UNCHANGED GameSeen
      BY <1>2, <2>3 DEF RemoteStops, GameSeen
    <3> QED
      BY <1>0, <2>1, <3>1 DEF Turns!Leave, Commands, Asked
  <2> QED
    BY <2>2, <2>3
<1>3. CASE RemoteArchives \/ RemoteFails
  <2>1. remote.cmd \in Commands /\ remote' = Nobody /\ UNCHANGED <<game, jobs>>
    BY <1>3 DEF RemoteArchives, RemoteFails, Commands
  <2> QED
    BY <1>0, <2>1 DEF Turns!Leave, Asked, GameSeen
<1>4. CASE RemotePowersOff
  <2>1. remote.cmd = "poweroff" /\ remote' = Nobody
    BY <1>4 DEF RemotePowersOff
  <2>2. CASE game = "active"
    BY <1>0, <1>4, <2>1, <2>2 DEF RemotePowersOff, Turns!Leave, Commands, Asked, GameSeen
  <2>3. CASE game # "active"
    <3>1. GameSeen # "up" /\ GameSeen' = "down"
      BY <1>0, <1>4, <2>3, GameSeenIs DEF RemotePowersOff
    <3>2. \A k \in Kinds : jobs'[k].id = jobs[k].id
      BY <1>4, <2>3 DEF RemotePowersOff, Dropped, TypeOK
    <3> QED
      BY <1>0, <2>1, <3>1, <3>2 DEF Turns!GoDown, Asked
  <2> QED
    BY <2>2, <2>3
<1>5. CASE RemoteQueues
  <2>1. /\ remote.cmd \in Kinds /\ remote' = Nobody /\ UNCHANGED game
        /\ jobs' = [jobs EXCEPT ![remote.cmd] = [id |-> jobs[remote.cmd].id + 1,
                                                 phase |-> "pending"]]
    BY <1>5 DEF RemoteQueues
  <2>2. /\ Asked'[remote.cmd] > Asked[remote.cmd]
        /\ \A k \in Kinds \ {remote.cmd} : Asked'[k] = Asked[k]
    BY <2>1 DEF Asked, TypeOK
  <2> QED
    BY <1>0, <2>1, <2>2 DEF Turns!Request, Turns!Kinds, Kinds, GameSeen
<1> QED
  BY <1>1, <1>2, <1>3, <1>4, <1>5 DEF Remote

\* A worker comes for a job that was asked for, and starts or stops the game.
LEMMA JobTurns ==
  ASSUME TypeOK, RemoteFits, JobsAsked, NEW k \in Kinds,
         JobWakes(k) \/ JobBegins(k) \/ JobEnds(k)
  PROVE  [Turns!Next]_(Turns!vars)
<1>0. /\ game \in {"inactive", "active", "activating"}
      /\ Nobody.cmd = "none" /\ [cmd |-> "worker", op |-> 0] # Nobody
  BY DEF TypeOK, Nobody
<1>1. UNCHANGED Asked
  <2>1. \E p \in JobPhases : jobs' = [jobs EXCEPT ![k].phase = p]
    BY DEF JobWakes, JobBegins, JobEnds, JobPhases
  <2>2. \A j \in Kinds : jobs'[j].id = jobs[j].id
    BY <2>1 DEF TypeOK
  <2> QED
    BY <2>2 DEF Asked
<1>2. CASE JobWakes(k) \/ (JobBegins(k) /\ UNCHANGED remote)
  BY <1>1, <1>2 DEF JobWakes, JobBegins, Turns!vars, GameSeen
<1>3. CASE JobBegins(k) /\ ~UNCHANGED remote
  <2>1. remote = Nobody /\ remote' = [cmd |-> "worker", op |-> 0] /\ UNCHANGED game
    BY <1>3 DEF JobBegins
  <2>2. Asked[k] > 0
    BY <1>3 DEF JobBegins, JobsAsked, Asked
  <2> QED
    BY <1>0, <1>1, <2>1, <2>2 DEF Turns!Next, Turns!Take, Turns!Tasks, Turns!Kinds,
       Kinds, GameSeen
<1>4. CASE JobEnds(k)
  <2>1. remote.cmd = "worker" /\ remote # Nobody /\ remote' = Nobody
    BY <1>0, <1>4 DEF JobEnds, RemoteFits
  <2> USE DEF Turns!Next, Turns!Proceeds, Turns!GivesBack
  <2>2. CASE UNCHANGED game
    BY <1>0, <1>1, <2>1, <2>2 DEF Turns!Leave, GameSeen
  <2>3. CASE game # "inactive" /\ game' = "inactive"
    <3>1. GameSeen \in {"up", "restarting"} /\ GameSeen' = "down"
      BY <1>0, <2>3, GameSeenIs
    <3> QED
      BY <1>0, <1>1, <2>1, <3>1 DEF Turns!StopGame
  <2>4. CASE game' = "active"
    <3>1. GameSeen # "stopping" /\ GameSeen' = "up"
      BY <1>0, <2>4, GameSeenIs
    <3> QED
      BY <1>0, <1>1, <2>1, <3>1 DEF Turns!StartGame
  <2> QED
    BY <1>4, <2>2, <2>3, <2>4 DEF JobEnds
<1> QED
  BY <1>2, <1>3, <1>4

\* Every step of anybody is one of OneAtATime, or none of its business.
LEMMA EachTakesTurns ==
  IInv /\ JobsAsked /\ [Next]_vars => [Turns!Next]_(Turns!vars)
<1> SUFFICES ASSUME TypeOK, ControlFits, RemoteFits, JobsAsked, [Next]_vars
             PROVE  [Turns!Next]_(Turns!vars)
  BY DEF IInv, Core
<1>1. ASSUME UNCHANGED <<remote, game, jobs>> PROVE [Turns!Next]_(Turns!vars)
  BY <1>1 DEF Turns!vars, GameSeen, Asked
<1>2. CASE (\E c \in Callers, o \in Ops : Invoke(c, o)) \/ BotStep
  BY <1>1, <1>2, BotFrame, BotUnseen
<1>3. CASE Deliver
  <2>1. UNCHANGED <<game, jobs>>
    BY <1>3 DEF Deliver
  <2>2. CASE remote = Nobody /\ remote' = [cmd |-> at, op |-> opId]
    <3>1. at \in Turns!Tasks /\ at # "worker" /\ at # "none"
      BY <1>3 DEF Deliver, ControlFits, Commands, Kinds, Turns!Tasks, Turns!Kinds
    <3>2. remote' # Nobody /\ remote'.cmd = at
      BY <2>2, <3>1 DEF Nobody
    <3> QED
      BY <2>1, <2>2, <3>1, <3>2 DEF Turns!Next, Turns!Take, GameSeen, Asked
  <2> QED
    BY <1>1, <1>3, <2>1, <2>2 DEF Deliver
<1>4. CASE TimesOut \/ UNCHANGED vars
  BY <1>1, <1>4 DEF TimesOut, vars, pcVars
<1>5. CASE Remote
  BY <1>5, RemoteTurns
<1>6. CASE JobStep
  BY <1>6, JobTurns DEF JobStep
<1>7. CASE Boots \/ PlayersComeOrGo
  BY <1>1, <1>7 DEF Boots, PlayersComeOrGo
<1>8. CASE GameCrashes \/ GameRestarts
  <2>1. <<GameSeen, GameSeen'>> \in {<<"up", "restarting">>, <<"restarting", "up">>}
    BY <1>8, GameSeenIs DEF GameCrashes, GameRestarts
  <2> QED
    BY <1>8, <2>1 DEF GameCrashes, GameRestarts, Turns!Next, Turns!GameAlone, Asked
<1> QED
  BY <1>2, <1>3, <1>4, <1>5, <1>6, <1>7, <1>8 DEF Next, PCStep

\* At the start nothing runs on the PC and nothing was asked for.
LEMMA TurnsInit == Init => Turns!Init /\ JobsAsked
<1> SUFFICES ASSUME Init PROVE Turns!Init /\ JobsAsked
  OBVIOUS
<1>1. /\ remote = Nobody /\ Nobody.cmd = "none" /\ game \in {"inactive", "active"}
      /\ Asked = [k \in Turns!Kinds |-> 0]
  BY DEF Init, Nobody, Turns!Kinds, Kinds, Asked
<1>2. JobsAsked
  BY DEF Init, JobsAsked
<1> QED
  BY <1>1, <1>2, GameSeenIs DEF Turns!Init

\* Whatever clients give up and callers do: one command or worker at a time starts or
\* stops the game, asks for a job or switches the PC off, each only what it is for.
THEOREM BotTakesTurns == Spec => CommandsTakeTurns
<1>1. JobsAsked /\ UNCHANGED vars => JobsAsked'
  BY DEF vars, pcVars, JobsAsked
<1>2. Spec => []JobsAsked
  BY <1>1, TurnsInit, AskedStep, Invariance, PTL DEF Spec
<1> QED
  BY <1>2, TurnsInit, EachTakesTurns, Invariance, PTL
  DEF Spec, CommandsTakeTurns, Turns!Spec

-----------------------------------------------------------------------------
(* An operation only gets nearer to its end.                                 *)

\* The stages, one by one.
LEMMA StageIs ==
  /\ Stage["probe"] = 8 /\ Stage["boot"] = 7 /\ Stage["reprobe"] = 6
  /\ Stage["players"] = 5 /\ Stage["shutdown"] = 4 /\ Stage["backup"] = 3
  /\ Stage["start"] = 2 /\ Stage["restart"] = 2 /\ Stage["update"] = 2
  /\ Stage["restore"] = 2 /\ Stage["poweroff"] = 2 /\ Stage["verify"] = 1
  /\ Stage["idle"] = 0
BY DEF Stage

\* The stages of a call, one by one.
LEMMA CallStageIs ==
  /\ CallStage["sent"] = 3 /\ CallStage["running"] = 2 /\ CallStage["ok"] = 1
  /\ CallStage["fail"] = 1 /\ CallStage["busy"] = 1 /\ CallStage["gone"] = 1
  /\ CallStage["none"] = 0
BY DEF CallStage

\* What remains is counted in whole numbers.
LEMMA StepsLeftType ==
  TypeOK => /\ Stage[at] \in 0..8 /\ CallStage[call] \in 0..3
            /\ tries \in 0..BootPolls /\ BootPolls \in Nat
BY StageIs, CallStageIs, ConstantsAssumption DEF TypeOK, Commands, Kinds

\* A later stage outweighs everything that a call and the polls can still take.
LEMMA StageOutweighs ==
  ASSUME TypeOK, TypeOK', Stage[at'] < Stage[at]
  PROVE  StepsLeft' < StepsLeft
<1>1. /\ Stage[at] \in 0..8 /\ CallStage[call] \in 0..3 /\ tries \in 0..BootPolls
      /\ BootPolls \in Nat
  BY StepsLeftType
<1>2. /\ Stage[at'] \in 0..8 /\ CallStage[call'] \in 0..3 /\ tries' \in 0..BootPolls
  BY StageIs, CallStageIs DEF TypeOK, Commands, Kinds
<1>3. \A a, b \in 0..8, w \in Nat : b < a => b * w + w <= a * w
  OBVIOUS
<1>4. Stage[at'] * (BootPolls + 4) + (BootPolls + 4) <= Stage[at] * (BootPolls + 4)
  BY <1>1, <1>2, <1>3
<1>5. \A x, y, n, c, d, t, v \in Nat :
        y + (n + 4) <= x /\ d <= 3 /\ v <= n => y + d + v < x + c + t
  OBVIOUS
<1>6. /\ Stage[at] * (BootPolls + 4) \in Nat /\ Stage[at'] * (BootPolls + 4) \in Nat
  BY <1>1, <1>2
<1> QED
  BY <1>1, <1>2, <1>4, <1>5, <1>6 DEF StepsLeft

\* With the stage as it was, an answer or a poll counts.
LEMMA CallOutweighs ==
  ASSUME TypeOK, TypeOK', at' = at,
         CallStage[call'] + tries' < CallStage[call] + tries
  PROVE  StepsLeft' < StepsLeft
<1>1. /\ Stage[at] \in 0..8 /\ CallStage[call] \in 0..3 /\ tries \in 0..BootPolls
      /\ BootPolls \in Nat
  BY StepsLeftType
<1>2. CallStage[call'] \in 0..3 /\ tries' \in 0..BootPolls
  BY CallStageIs DEF TypeOK
<1>3. Stage[at] * (BootPolls + 4) \in Nat
  BY <1>1
<1> QED
  BY <1>1, <1>2, <1>3 DEF StepsLeft

\* Every step of the bot goes to a later stage, but for a poll without an answer.
LEMMA BotAdvances ==
  ASSUME TypeOK, ControlFits, BotStep
  PROVE  \/ Stage[at'] < Stage[at]
         \/ at' = at /\ call' = call /\ tries > 1 /\ tries' = tries - 1
<1> USE StageIs DEF Send, GoTo, Return, Wake
<1>1. CASE ProbeToStart \/ ProbeToRestart
  BY <1>1 DEF ProbeToStart, ProbeToRestart
<1>2. CASE ProbeToUpdate
  BY <1>2 DEF ProbeToUpdate, JudgeStatus
<1>3. CASE ProbeToRestore
  BY <1>3 DEF ProbeToRestore, JudgeStatus
<1>4. CASE BootPoll
  BY <1>4 DEF BootPoll
<1>5. CASE AskPlayersForJob \/ AskPlayersForStop \/ Verify
  BY <1>5 DEF AskPlayersForJob, AskPlayersForStop, Verify, Kinds
<1>6. CASE Reply
  <2>1. at \in Commands
    BY <1>6 DEF Reply, FollowUp, Acknowledge, ControlFits
  <2> QED
    BY <1>6, <2>1 DEF Reply, FollowUp, Acknowledge, Commands, Kinds
<1> QED
  BY <1>1, <1>2, <1>3, <1>4, <1>5, <1>6 DEF BotStep

\* A call is answered once, by the PC or by the client's own timeout.
LEMMA CallAdvances ==
  ASSUME TypeOK, Deliver \/ TimesOut \/ PCStep
  PROVE  /\ UNCHANGED <<lock, op, at, tries>>
         /\ call' # call => CallStage[call'] < CallStage[call]
<1> USE CallStageIs DEF Answer, remoteFrame, botVars
<1>1. CASE Deliver \/ TimesOut
  BY <1>1 DEF Deliver, TimesOut
<1>2. CASE RemoteStarts \/ RemoteStops \/ RemoteArchives
  BY <1>2 DEF RemoteStarts, RemoteStops, RemoteArchives
<1>3. CASE RemotePowersOff \/ RemoteQueues \/ RemoteFails
  BY <1>3 DEF RemotePowersOff, RemoteQueues, RemoteFails
<1>4. CASE JobStep \/ Boots \/ GameCrashes \/ GameRestarts \/ PlayersComeOrGo
  BY <1>4 DEF JobStep, JobWakes, JobBegins, JobEnds, Boots, GameCrashes, GameRestarts,
     PlayersComeOrGo
<1> QED
  BY <1>1, <1>2, <1>3, <1>4 DEF PCStep, Remote

\* No step leads an operation back.
LEMMA AdvanceStep ==
  IInv /\ [Next]_vars =>
    (lock # Free => StepsLeft' < StepsLeft \/ UNCHANGED <<lock, op, at, call, tries>>)
<1> SUFFICES ASSUME IInv, IInv', [Next]_vars, lock # Free
             PROVE  StepsLeft' < StepsLeft \/ UNCHANGED <<lock, op, at, call, tries>>
  BY IInvStep
<1>0. TypeOK /\ TypeOK' /\ ControlFits
  BY DEF IInv, Core
<1>1. CASE BotStep
  <2>1. CASE Stage[at'] < Stage[at]
    BY <1>0, <2>1, StageOutweighs
  <2>2. CASE at' = at /\ call' = call /\ tries > 1 /\ tries' = tries - 1
    <3>1. CallStage[call'] + tries' < CallStage[call] + tries
      BY <1>0, <2>2, StepsLeftType
    <3> QED
      BY <1>0, <2>2, <3>1, CallOutweighs
  <2> QED
    BY <1>0, <1>1, <2>1, <2>2, BotAdvances
<1>2. CASE Deliver \/ TimesOut \/ PCStep
  <2>1. CASE call' = call
    BY <1>0, <1>2, <2>1, CallAdvances
  <2>2. CASE call' # call
    <3>1. CallStage[call'] < CallStage[call] /\ UNCHANGED <<at, tries>>
      BY <1>0, <1>2, <2>2, CallAdvances
    <3>2. CallStage[call'] \in 0..3
      BY <1>0, CallStageIs DEF TypeOK
    <3>3. CallStage[call'] + tries' < CallStage[call] + tries
      BY <1>0, <3>1, <3>2, StepsLeftType
    <3> QED
      BY <1>0, <3>1, <3>3, CallOutweighs
  <2> QED
    BY <2>1, <2>2
<1>3. CASE \E c \in Callers, o \in Ops : Invoke(c, o)
  BY <1>3 DEF Invoke, Enter
<1>4. CASE UNCHANGED vars
  BY <1>4 DEF vars, botVars
<1> QED
  BY <1>1, <1>2, <1>3, <1>4 DEF Next

\* However many polls the boot may take and whatever is lost or refused: an operation
\* makes a bounded number of steps, so that it can only end or wait for an answer.
THEOREM NeverBackwards == Spec => OperationsAdvance
BY Invariance, AdvanceStep, PTL DEF Spec, OperationsAdvance

-----------------------------------------------------------------------------
(* What the two refuted claims need to be true.                              *)

\* While no answer is lost, a command that runs is one the bot waits for, and during
\* every command the PC is on until a poweroff is over.
NothingLost ==
  /\ remote.cmd \in Commands => call = "running"
  /\ at \in Commands =>
       IF at = "poweroff" /\ call \in {"ok", "gone"} THEN power = "off" ELSE power = "on"

\* The bot waits for no reply any more when it goes on, and sends a command only to
\* a PC that is on.
LEMMA BotSends ==
  ASSUME ControlFits, NothingLost, BotStep
  PROVE  /\ call # "running"
         /\ at' \in Commands => call' = "sent" /\ power = "on" /\ power' = "on"
<1>0. /\ at \in Commands =>
           IF at = "poweroff" /\ call \in {"ok", "gone"} THEN power = "off" ELSE power = "on"
      /\ call # "none" => at \in Commands
  BY DEF NothingLost, ControlFits
<1> USE DEF Send, GoTo, Return, Wake, Commands, Kinds, Reached, NotOk, pcVars
<1>1. CASE ProbeToStart \/ ProbeToRestart
  BY <1>0, <1>1 DEF ProbeToStart, ProbeToRestart
<1>2. CASE ProbeToUpdate
  BY <1>0, <1>2 DEF ProbeToUpdate, JudgeStatus
<1>3. CASE ProbeToRestore
  BY <1>0, <1>3 DEF ProbeToRestore, JudgeStatus
<1>4. CASE BootPoll
  BY <1>0, <1>4 DEF BootPoll
<1>5. CASE AskPlayersForJob \/ AskPlayersForStop \/ Verify
  BY <1>0, <1>5 DEF AskPlayersForJob, AskPlayersForStop, Verify, SeenEmpty
<1>6. CASE Reply
  BY <1>0, <1>6 DEF Reply, FollowUp, Acknowledge
<1> QED
  BY <1>1, <1>2, <1>3, <1>4, <1>5, <1>6 DEF BotStep

\* Without outages and timeouts nothing gets lost.
LEMMA NothingLostStep ==
  ASSUME Faults \cap {"outage", "timeout"} = {}, IInv, NothingLost, [Next]_vars
  PROVE  NothingLost'
<1>0. TypeOK /\ ControlFits /\ RemoteFits
  BY DEF IInv, Core
<1>1. CASE BotStep
  <2>1. UNCHANGED remote
    BY <1>0, <1>1, BotFrame
  <2> QED
    BY <1>0, <1>1, <2>1, BotSends DEF NothingLost, Commands, Kinds
<1>2. CASE \E c \in Callers, o \in Ops : Invoke(c, o)
  BY <1>2 DEF Invoke, Enter, NothingLost, pcVars, Commands, Kinds
<1>3. CASE Deliver
  BY <1>0, <1>3 DEF Deliver, Gone, NothingLost, ControlFits
<1>4. CASE TimesOut
  BY <1>4 DEF TimesOut
<1>5. CASE Remote
  <2>0. remote.cmd \in Commands /\ Nobody.cmd \notin Commands
    BY <1>5 DEF Remote, RemoteStarts, RemoteStops, RemoteArchives, RemotePowersOff,
       RemoteQueues, RemoteFails, Commands, Kinds, Nobody
  <2>1. call = "running" /\ at = remote.cmd /\ at' = at /\ power = "on"
    BY <1>0, <1>5, <2>0 DEF NothingLost, RemoteFits, Remote, RemoteStarts, RemoteStops,
       RemoteArchives, RemotePowersOff, RemoteQueues, RemoteFails, remoteFrame
  <2> USE DEF Answer
  <2>2. CASE RemotePowersOff
    BY <2>0, <2>1, <2>2 DEF RemotePowersOff, NothingLost
  <2>3. CASE RemoteStops
    BY <2>0, <2>1, <2>3 DEF RemoteStops, NothingLost
  <2>4. CASE RemoteStarts \/ RemoteArchives \/ RemoteQueues
    BY <2>0, <2>1, <2>4 DEF RemoteStarts, RemoteArchives, RemoteQueues, Kinds, NothingLost
  <2>5. CASE RemoteFails
    BY <2>0, <2>1, <2>5 DEF RemoteFails, NothingLost
  <2> QED
    BY <1>5, <2>2, <2>3, <2>4, <2>5 DEF Remote
<1>6. ASSUME NEW k \in Kinds, JobWakes(k) \/ JobBegins(k) \/ JobEnds(k)
      PROVE  NothingLost'
  <2>1. UNCHANGED <<power, at, call>> /\ (UNCHANGED remote \/ remote'.cmd \notin Commands)
    BY <1>6 DEF JobWakes, JobBegins, JobEnds, botVars, Nobody, Commands, Kinds
  <2> QED
    BY <2>1 DEF NothingLost
<1>7. CASE Boots
  BY <1>7 DEF Boots, NothingLost, botVars
<1>8. CASE GameCrashes \/ GameRestarts \/ PlayersComeOrGo \/ UNCHANGED vars
  BY <1>8 DEF GameCrashes, GameRestarts, PlayersComeOrGo, NothingLost, botVars, vars, pcVars
<1> QED
  BY <1>1, <1>2, <1>3, <1>4, <1>5, <1>6, <1>7, <1>8 DEF Next, PCStep, JobStep

\* "STOPPED" is what the end of a poweroff is answered, or its lost connection.
LEMMA StoppedAfterPoweroff ==
  ASSUME IInv, [Next]_vars, NEW c \in Callers, result[c] # "STOPPED", result'[c] = "STOPPED"
  PROVE  at = "poweroff" /\ call \in {"ok", "gone"} /\ UNCHANGED power
<1>0. result \in [Callers -> Outcomes] /\ ControlFits
  BY DEF IInv, Core, TypeOK
<1>1. ASSUME NEW o \in Outcomes, Return(o) PROVE o = "STOPPED"
  BY <1>0, <1>1 DEF Return
<1>2. BotStep
  <2>1. ~\E k \in Callers, o \in Ops : Invoke(k, o)
    BY <1>0 DEF Invoke, Enter
  <2>2. ~(Deliver \/ TimesOut \/ PCStep) /\ ~UNCHANGED vars
    BY DEF Deliver, TimesOut, PCStep, Remote, RemoteStarts, RemoteStops,
       RemoteArchives, RemotePowersOff, RemoteQueues, RemoteFails, JobStep,
       JobWakes, JobBegins, JobEnds, Boots, GameCrashes, GameRestarts,
       PlayersComeOrGo, remoteFrame, botVars, vars
  <2> QED
    BY <2>1, <2>2 DEF Next
<1>3. ~UNCHANGED result
  OBVIOUS
<1>4. {"BUSY", "STARTED", "ALREADY_RUNNING", "BOOT_TIMEOUT", "START_FAILED",
       "REFUSED_PLAYERS", "FAILED", "UNKNOWN", "UNREACHABLE", "RESTARTED",
       "RESTART_FAILED", "STOPPED"} \subseteq Outcomes
  BY DEF Outcomes
<1>5. Reply
  <2> USE DEF Send, GoTo, Wake
  <2>1. ~(ProbeToStart \/ ProbeToRestart \/ BootPoll)
    BY <1>1, <1>3, <1>4 DEF ProbeToStart, ProbeToRestart, BootPoll
  <2>2. ~(ProbeToUpdate \/ ProbeToRestore)
    BY <1>1, <1>3, <1>4 DEF ProbeToUpdate, ProbeToRestore, JudgeStatus
  <2>3. ~(AskPlayersForJob \/ AskPlayersForStop \/ Verify)
    BY <1>1, <1>3, <1>4 DEF AskPlayersForJob, AskPlayersForStop, Verify
  <2> QED
    BY <1>2, <2>1, <2>2, <2>3 DEF BotStep
<1>6. \A a \in Commands : FailureOf[a] \in Outcomes /\ FailureOf[a] # "STOPPED"
  BY DEF FailureOf, Outcomes, Commands, Kinds
<1>7. call # "none" => at \in Commands
  BY <1>0 DEF ControlFits
<1>8. ~Acknowledge
  BY <1>0, <1>1, <1>3, <1>4 DEF Acknowledge
<1>9. FollowUp
  BY <1>1, <1>4, <1>5, <1>6, <1>7, <1>8 DEF Reply
<1> QED
  BY <1>3, <1>5, <1>9 DEF FollowUp, GoTo, Send, Reply, pcVars

\* "STOPPED" means off for any callers, jobs, crashes and refused calls, as long as
\* no call is lost: the claim fails of lost connections and of nothing else.
THEOREM OffUnlessLost ==
  ASSUME Faults \cap {"outage", "timeout"} = {}
  PROVE  Spec => StoppedMeansOff
<1>1. Init => NothingLost
  BY DEF Init, NothingLost, Nobody, Commands, Kinds
<1>2. IInv /\ NothingLost /\ [Next]_vars => NothingLost'
  BY NothingLostStep
<1>3. Spec => []NothingLost
  BY <1>1, <1>2, Invariance, PTL DEF Spec
<1>4. IInv /\ NothingLost /\ [Next]_vars =>
        \A c \in Callers : result[c] # "STOPPED" /\ result'[c] = "STOPPED"
                             => power' = "off" \/ remote'.cmd = "poweroff"
  BY StoppedAfterPoweroff DEF NothingLost, Commands
<1> QED
  BY <1>3, <1>4, Invariance, PTL DEF Spec, StoppedMeansOff

\* While there are neither crashes nor jobs, only commands start and stop the game, and
\* from the reply to a shutdown to the end of the backup none starts it.
OnlyCommands ==
  /\ game # "activating" /\ op \notin Kinds /\ remote.cmd \notin Kinds
  /\ \A k \in Kinds : jobs[k].phase = "none"
  /\ (at = "shutdown" /\ call = "ok") \/ at = "backup" =>
       game # "active" /\ remote.cmd \notin {"start", "restart"}
  /\ remote.cmd = "backup" => game # "active"

\* The bot comes to the backup by the reply to the shutdown.
LEMMA BotArchives ==
  ASSUME ControlFits, BotStep
  PROVE  /\ op' \in {op, "none"}
         /\ ~(at' = "shutdown" /\ call' = "ok")
         /\ at' = "backup" => at = "shutdown" /\ call = "ok"
<1> USE DEF Send, GoTo, Return, Wake, ControlFits, Commands, Kinds
<1>1. CASE ProbeToStart \/ ProbeToRestart
  BY <1>1 DEF ProbeToStart, ProbeToRestart
<1>2. CASE ProbeToUpdate \/ ProbeToRestore
  BY <1>2 DEF ProbeToUpdate, ProbeToRestore, JudgeStatus
<1>3. CASE BootPoll
  BY <1>3 DEF BootPoll
<1>4. CASE AskPlayersForJob \/ AskPlayersForStop \/ Verify
  BY <1>4 DEF AskPlayersForJob, AskPlayersForStop, Verify
<1>5. CASE Reply
  BY <1>5 DEF Reply, FollowUp, Acknowledge
<1> QED
  BY <1>1, <1>2, <1>3, <1>4, <1>5 DEF BotStep

\* Without crashes and jobs it stays that way.
LEMMA OnlyCommandsStep ==
  ASSUME "crash" \notin Faults, Ops \cap Kinds = {}, IInv, OnlyCommands, [Next]_vars
  PROVE  OnlyCommands'
<1>0. TypeOK /\ ControlFits /\ RemoteFits
  BY DEF IInv, Core
<1> USE DEF OnlyCommands
<1>1. CASE BotStep
  BY <1>0, <1>1, BotArchives, BotFrame, BotUnseen DEF Kinds
<1>2. CASE \E c \in Callers, o \in Ops : Invoke(c, o)
  BY <1>0, <1>2 DEF Invoke, Enter, pcVars, Kinds, ControlFits
<1>3. CASE Deliver
  <2>1. at \notin Kinds
    BY <1>0, <1>3 DEF Deliver, ControlFits, Commands
  <2> QED
    BY <1>3, <2>1 DEF Deliver
<1>4. CASE TimesOut
  BY <1>4 DEF TimesOut, pcVars
<1>5. CASE Remote
  <2> USE DEF Answer, remoteFrame, Nobody, Kinds
  <2>1. CASE RemoteStarts
    BY <1>0, <2>1 DEF RemoteStarts, RemoteFits
  <2>2. CASE RemoteStops
    BY <1>0, <2>2 DEF RemoteStops, RemoteFits, TypeOK
  <2>3. CASE RemoteArchives
    BY <1>0, <2>3 DEF RemoteArchives, RemoteFits
  <2>4. CASE RemotePowersOff
    BY <1>0, <2>4 DEF RemotePowersOff, RemoteFits, Dropped, TypeOK
  <2>5. CASE RemoteQueues
    BY <1>0, <2>5 DEF RemoteQueues, RemoteFits
  <2>6. CASE RemoteFails
    BY <1>0, <2>6 DEF RemoteFails, RemoteFits
  <2> QED
    BY <1>5, <2>1, <2>2, <2>3, <2>4, <2>5, <2>6 DEF Remote
<1>6. CASE JobStep
  BY <1>6 DEF JobStep, JobWakes, JobBegins, JobEnds
<1>7. CASE GameCrashes \/ GameRestarts
  BY <1>7 DEF GameCrashes, GameRestarts
<1>8. CASE Boots \/ PlayersComeOrGo \/ UNCHANGED vars
  BY <1>8 DEF Boots, PlayersComeOrGo, vars, pcVars, botVars
<1> QED
  BY <1>1, <1>2, <1>3, <1>4, <1>5, <1>6, <1>7, <1>8 DEF Next, PCStep

\* The backup of a stop reads a world whose game is down for any callers, lost calls and
\* timeouts, as long as the game does not crash and no job is asked for: it is those
\* that start a game which was stopped.
THEOREM StoppedUnlessStarted ==
  ASSUME "crash" \notin Faults, Ops \cap Kinds = {}
  PROVE  Spec => []ArchiveIsConsistent
<1>1. Init => OnlyCommands
  BY DEF Init, OnlyCommands, Nobody, Kinds
<1>2. IInv /\ OnlyCommands /\ [Next]_vars => OnlyCommands'
  BY OnlyCommandsStep
<1>3. OnlyCommands => ArchiveIsConsistent
  BY DEF OnlyCommands, ArchiveIsConsistent
<1> QED
  BY <1>1, <1>2, <1>3, Invariance, PTL DEF Spec
=============================================================================
