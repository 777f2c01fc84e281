--------------------------- MODULE ServerMonitorProofs ---------------------------
(***************************************************************************)
(* Proofs about ServerMonitor: what holds of the manager alone holds next  *)
(* to the monitor and through restarts of the bot, and, as long as every   *)
(* status command that runs answers, no result is told twice and no old    *)
(* result is told at all.                                                  *)
(*                                                                         *)
(* Results only get newer: what the monitor remembers is no newer than     *)
(* what it was reported, and that no newer than what is on the PC.         *)
(***************************************************************************)
EXTENDS ServerMonitor, ManagerProofs

\* The manager is in order (see ManagerProofs).
ManagerFits == IInv

\* A status was answered since the bot started.
Known == report.game # "UNKNOWN"

\* r is the result x, or a later job.
Passed(x, r) == r.id > x.id \/ (r.id = x.id /\ r.phase = x.phase)

\* Only a job that was queued has a state.
JobsFit ==
  /\ \A k \in Kinds : jobs[k].id = 0 <=> jobs[k].phase = "none"
  /\ \A k \in Kinds : report.jobs[k].id = 0 <=> report.jobs[k].phase = "none"
  /\ last \in [Kinds -> [id: Nat, phase: {"none", "active", "ended", "interrupted"}]]

\* Only an answered status says that the PC is on.
ReportFits == report.pc = "ONLINE" => Known

\* What is remembered is not newer than what was reported, nor that than what is.
NewsFit ==
  \A k \in Kinds :
    /\ last[k].id <= jobs[k].id
    /\ Known => /\ last[k].id <= report.jobs[k].id
                /\ report.jobs[k].id <= jobs[k].id
                /\ report.jobs[k].phase = "ended" => Passed(report.jobs[k], jobs[k])

\* Results that stay as they are.
Settled == old \cup {t \in told : t.phase = "ended"}

ResultsFit ==
  \A x \in Settled :
    /\ x.id > 0
    /\ Passed(x, jobs[x.kind])
    /\ Known => Passed(x, report.jobs[x.kind])
    /\ x \in told \/ baselined[x.kind] => Passed(x, last[x.kind])

\* What was asked for in this life of the bot is newer than the old results.
RequestsFit ==
  \A x \in old :
    /\ requested[x.kind] = 0 \/ requested[x.kind] > x.id
    /\ at = x.kind /\ call = "ok" => jobs[x.kind].id > x.id

\* The types, whatever fails.
TypesFit == ManagerFits /\ MonTypeOK /\ JobsFit

\* Results, while every status that is answered makes sense.
NoticesFit == ReportFits /\ NewsFit /\ ResultsFit /\ RequestsFit
              /\ ResultsToldOnce /\ OldResultsStayQuiet

MonIInv == TypesFit /\ NoticesFit

-----------------------------------------------------------------------------
(* The manager next to the monitor.                                          *)

\* The monitor and the restart of the bot keep the manager in order.
LEMMA ManagerStep == ManagerFits /\ [MonitoredNext]_allVars => ManagerFits'
<1> SUFFICES ASSUME IInv, [MonitoredNext]_allVars PROVE IInv'
  BY DEF ManagerFits
<1>1. CASE (\E c \in Callers \ {Monitor}, o \in Ops : Invoke(c, o)) \/ BotStep
           \/ Deliver \/ TimesOut \/ PCStep
  BY <1>1, IInvStep DEF Next
<1>2. CASE UNCHANGED vars
  BY <1>2, IInvStep
<1>3. CASE \E k \in Kinds : ForgetRequest(k)
  <2>1. requested' \in [Kinds -> Nat]
    BY <1>3 DEF ForgetRequest, IInv, TypeOK
  <2>2. UNCHANGED <<pcVars, lock, op, at, call, tries, result, opId, denied>>
    BY <1>3 DEF ForgetRequest
  <2> QED
    BY <2>1, <2>2 DEF IInv, Core, TypeOK, ControlFits, RemoteFits, DenialsFit,
       MayQueue, ArchiveFits, pcVars
<1>4. CASE CloseShop
  <2>1. /\ UNCHANGED <<pcVars, call, tries, requested, opId, denied>>
        /\ result' = [result EXCEPT ![Monitor] = IF lock = Free THEN "none" ELSE "BUSY"]
        /\ \/ lock = Free /\ lock' = Monitor /\ op' = "stop" /\ at' = "players"
           \/ UNCHANGED <<lock, op, at>>
    BY <1>4 DEF CloseShop, Enter
  <2>2. TypeOK'
    BY <2>1, MonitorAssumption DEF IInv, TypeOK, AllOps, Outcomes, pcVars
  <2>3. Core'
    BY <2>1, MonitorAssumption, ConstantsAssumption
    DEF IInv, Core, ControlFits, RemoteFits, DenialsFit, MayQueue, ArchiveFits,
        pcVars, Kinds, Commands
  <2> QED
    BY <2>2, <2>3 DEF IInv
<1>5. CASE BotRestarts
  <2>1. TypeOK'
    BY <1>5, ConstantsAssumption DEF BotRestarts, IInv, TypeOK, Outcomes, pcVars
  <2>2. Core'
    BY <1>5
    DEF BotRestarts, IInv, Core, ControlFits, RemoteFits, DenialsFit, MayQueue,
        ArchiveFits, pcVars, Kinds, Commands
  <2> QED
    BY <2>1, <2>2 DEF IInv
<1>6. CASE MonitorStep /\ ~CloseShop /\ ~\E k \in Kinds : ForgetRequest(k)
  <2>1. UNCHANGED vars
    BY <1>6 DEF MonitorStep, Poll, QueryPlayers, HandleJob, HandleTransition,
       HandleIdle, ShopClosed
  <2> QED
    BY <2>1, IInvStep
<1> QED
  BY <1>1, <1>2, <1>3, <1>4, <1>5, <1>6 DEF MonitoredNext, allVars

\* The manager is in order whatever the monitor does and whenever the bot restarts.
THEOREM ManagerInvariance == MonitoredSpec => []ManagerFits
<1>1. MonitoredInit => ManagerFits
  BY InitIInv DEF MonitoredInit, ManagerFits
<1> QED
  BY <1>1, ManagerStep, PTL DEF MonitoredSpec

\* Next to the monitor and through restarts of the bot, too, whoever was told that
\* no job was queued has queued none and never will.
THEOREM DeniedThroughRestarts == MonitoredSpec => []DeniedMeansNotQueued
<1>1. ManagerFits => DeniedMeansNotQueued
  BY DEF ManagerFits, IInv, Core, DenialsFit, DeniedMeansNotQueued
<1> QED
  BY ManagerInvariance, <1>1, PTL

\* The poweroff comes after the archive when the monitor closes the shop, too, and
\* when the bot restarts in the middle of a stop.
THEOREM SavedThroughRestarts == MonitoredSpec => PoweroffIsSaved
<1>1. ManagerFits /\ [MonitoredNext]_allVars
        => [power = "on" /\ power' = "off" => unsaved # "yes"]_vars
  <2> SUFFICES ASSUME IInv, [MonitoredNext]_allVars, power = "on", power' = "off"
               PROVE  unsaved # "yes"
    BY DEF ManagerFits
  <2>1. CASE [Next]_vars
    BY <2>1, SavedStep
  <2>2. CASE MonitorStep \/ BotRestarts
    BY <2>2 DEF MonitorStep, Poll, QueryPlayers, HandleJob, ForgetRequest,
       HandleTransition, HandleIdle, CloseShop, Enter, ShopClosed, BotRestarts,
       vars, pcVars
  <2> QED
    BY <2>1, <2>2 DEF MonitoredNext, Next, allVars
<1> QED
  BY ManagerInvariance, <1>1, PTL DEF MonitoredSpec, PoweroffIsSaved

\* The monitor and a restart of the bot change nothing on the PC.
LEMMA PCUntouched == MonitorStep \/ BotRestarts => UNCHANGED pcVars
BY DEF MonitorStep, Poll, QueryPlayers, HandleJob, ForgetRequest, HandleTransition,
   HandleIdle, CloseShop, Enter, ShopClosed, BotRestarts, vars

\* Commands and workers on the PC take turns next to the monitor, too, and while a
\* command goes on that the bot asked for before it was restarted.
THEOREM TurnsThroughRestarts == MonitoredSpec => CommandsTakeTurns
<1>1. UNCHANGED pcVars => [Turns!Next]_(Turns!vars) /\ (JobsAsked => JobsAsked')
  BY DEF pcVars, Turns!vars, GameSeen, Asked, JobsAsked
<1>2. [MonitoredNext]_allVars => [Next]_vars \/ UNCHANGED pcVars
  BY PCUntouched DEF MonitoredNext, Next, allVars
<1>3. UNCHANGED vars => UNCHANGED pcVars
  BY DEF vars
<1>4. ManagerFits /\ JobsAsked /\ [MonitoredNext]_allVars
        => JobsAsked' /\ [Turns!Next]_(Turns!vars)
  BY <1>1, <1>2, <1>3, AskedStep, EachTakesTurns DEF ManagerFits
<1>5. MonitoredInit => JobsAsked /\ Turns!Init
  BY TurnsInit DEF MonitoredInit
<1> QED
  BY <1>4, <1>5, ManagerInvariance, PTL DEF MonitoredSpec, CommandsTakeTurns, Turns!Spec

\* Whoever holds the manager's lock is in the middle of an operation.
Operating == lock # Free => at # "idle"

\* It stays that way: the lock is given up with the operation.
LEMMA OperatingStep ==
  ASSUME ManagerFits, Operating, [MonitoredNext]_allVars
  PROVE  Operating'
<1>0. TypeOK /\ ControlFits
  BY DEF ManagerFits, IInv, Core
<1>1. ASSUME UNCHANGED <<lock, at>> PROVE Operating'
  BY <1>1 DEF Operating
<1>2. CASE Deliver \/ TimesOut \/ PCStep
  BY <1>0, <1>1, <1>2, CallAdvances
<1>3. CASE BotStep
  <2> USE DEF Operating, Send, GoTo, Return, Wake, Kinds
  <2>1. CASE ProbeToStart \/ ProbeToRestart
    BY <2>1 DEF ProbeToStart, ProbeToRestart
  <2>2. CASE ProbeToUpdate \/ ProbeToRestore
    BY <2>2 DEF ProbeToUpdate, ProbeToRestore, JudgeStatus
  <2>3. CASE BootPoll
    BY <2>3 DEF BootPoll
  <2>4. CASE AskPlayersForJob \/ AskPlayersForStop \/ Verify
    BY <2>4 DEF AskPlayersForJob, AskPlayersForStop, Verify
  <2>5. CASE Reply
    BY <2>5 DEF Reply, FollowUp, Acknowledge
  <2> QED
    BY <1>3, <2>1, <2>2, <2>3, <2>4, <2>5 DEF BotStep
<1>4. CASE (\E c \in Callers \ {Monitor}, o \in Ops : Invoke(c, o)) \/ CloseShop
  BY <1>4 DEF Invoke, CloseShop, Enter, Operating
<1>5. CASE BotRestarts
  BY <1>5 DEF BotRestarts, Operating
<1>6. CASE MonitorStep /\ ~CloseShop
  BY <1>1, <1>6 DEF MonitorStep, Poll, QueryPlayers, HandleJob, ForgetRequest,
     HandleTransition, HandleIdle, ShopClosed, vars, botVars
<1>7. CASE UNCHANGED allVars
  BY <1>1, <1>7 DEF allVars, vars, botVars
<1> QED
  BY <1>2, <1>3, <1>4, <1>5, <1>6, <1>7 DEF MonitoredNext

\* An operation only gets nearer to its end when the monitor closes the shop, too, and
\* a restart of the bot ends it.
THEOREM AdvanceThroughRestarts == MonitoredSpec => OperationsAdvance
<1>1. ManagerFits /\ Operating /\ [MonitoredNext]_allVars =>
        (lock # Free => StepsLeft' < StepsLeft \/ UNCHANGED <<lock, op, at, call, tries>>)
  <2> SUFFICES ASSUME IInv, Operating, [MonitoredNext]_allVars, lock # Free
               PROVE  StepsLeft' < StepsLeft \/ UNCHANGED <<lock, op, at, call, tries>>
    BY DEF ManagerFits
  <2>1. CASE [Next]_vars
    BY <2>1, AdvanceStep
  <2>2. CASE MonitorStep
    BY <2>2 DEF MonitorStep, Poll, QueryPlayers, HandleJob, ForgetRequest,
       HandleTransition, HandleIdle, CloseShop, Enter, ShopClosed, vars, botVars
  <2>3. CASE BotRestarts
    <3>1. TypeOK /\ TypeOK'
      BY ManagerStep DEF ManagerFits, IInv
    <3>2. at' = "idle" /\ at # "idle"
      BY <2>3 DEF BotRestarts, Operating
    <3>3. Stage[at'] < Stage[at]
      BY <3>1, <3>2, StageIs DEF TypeOK, Commands, Kinds
    <3> QED
      BY <3>1, <3>3, StageOutweighs
  <2> QED
    BY <2>1, <2>2, <2>3 DEF MonitoredNext, Next, allVars
<1>2. MonitoredInit => Operating
  BY DEF MonitoredInit, Init, Operating
<1>3. MonitoredSpec => []Operating
  BY <1>2, OperatingStep, ManagerInvariance, PTL DEF MonitoredSpec
<1> QED
  BY <1>1, <1>3, ManagerInvariance, PTL DEF MonitoredSpec, OperationsAdvance

-----------------------------------------------------------------------------
(* How the jobs on the PC and the manager's memory of them go on.            *)

\* A job goes on, comes to its end, or makes place for the next one.
Grows(k) ==
  \/ jobs'[k] = jobs[k]
  \/ jobs'[k].id = jobs[k].id + 1 /\ jobs'[k].phase = "pending"
  \/ /\ jobs'[k].id = jobs[k].id
     /\ jobs[k].phase \in {"pending", "waiting", "running"}
     /\ jobs'[k].phase \in JobPhases \ {"none"}

\* An acknowledgement is of a new job, and only an acknowledged job is requested.
Acknowledges(k) ==
  /\ at' = k /\ call' = "ok" => \/ at = k /\ call = "ok" /\ jobs'[k].id = jobs[k].id
                                \/ jobs'[k].id = jobs[k].id + 1
  /\ \/ requested'[k] = requested[k]
     \/ at = k /\ call = "ok" /\ requested'[k] = jobs[k].id

\* Jobs only grow, and are acknowledged with their number.
LEMMA ManagerNews ==
  IInv /\ [Next]_vars => \A k \in Kinds : Grows(k) /\ Acknowledges(k)
<1> SUFFICES ASSUME IInv, [Next]_vars, NEW k \in Kinds
             PROVE  Grows(k) /\ Acknowledges(k)
  OBVIOUS
<1> USE DEF IInv, TypeOK, Kinds
<1>1. ASSUME UNCHANGED <<jobs, requested>>, call' = "ok" => (at' = at /\ call = "ok") \/ at' \notin Kinds
      PROVE  Grows(k) /\ Acknowledges(k)
  BY <1>1 DEF Grows, Acknowledges
<1>2. CASE UNCHANGED vars
  BY <1>1, <1>2 DEF vars, pcVars, botVars
<1>3. CASE \E c \in Callers, o \in Ops : Invoke(c, o)
  <2>1. UNCHANGED <<jobs, requested, call>> /\ (at' = at \/ at' \in {"players", "probe"})
    BY <1>3 DEF Invoke, Enter, pcVars
  <2> QED
    BY <1>1, <2>1
<1>4. CASE BotStep /\ ~Reply
  <2>1. UNCHANGED <<jobs, requested>> /\ (call' # "ok" \/ (at' = at /\ call' = call) \/ at' \notin Kinds)
    BY <1>4 DEF BotStep, ProbeToStart, ProbeToRestart, ProbeToUpdate, ProbeToRestore,
       BootPoll, AskPlayersForJob, AskPlayersForStop, Verify, JudgeStatus, Wake, Send,
       GoTo, Return, pcVars
  <2> QED
    BY <1>1, <2>1
<1>5. CASE Reply
  <2>1. UNCHANGED jobs /\ call' # "ok"
    BY <1>5 DEF Reply, FollowUp, Acknowledge, Return, GoTo, Send, pcVars
  <2>2. CASE at \in Kinds /\ Acknowledge
    BY <2>1, <2>2 DEF Acknowledge, Return, Grows, Acknowledges
  <2>3. CASE ~(at \in Kinds /\ Acknowledge)
    <3>1. UNCHANGED requested
      BY <1>5, <2>3 DEF Reply, FollowUp, Return, GoTo, Send
    <3> QED
      BY <1>1, <2>1, <3>1
  <2> QED
    BY <2>2, <2>3
<1>6. CASE Deliver \/ TimesOut
  BY <1>1, <1>6 DEF Deliver, TimesOut, pcVars
<1>7. CASE PCStep /\ ~Remote
  <2>1. UNCHANGED botVars
    BY <1>7 DEF PCStep, JobStep, JobWakes, JobBegins, JobEnds, Boots, GameCrashes,
       GameRestarts, PlayersComeOrGo
  <2>2. Grows(k)
    BY <1>7 DEF PCStep, JobStep, JobWakes, JobBegins, JobEnds, Boots, GameCrashes,
       GameRestarts, PlayersComeOrGo, Grows, JobPhases
  <2> QED
    BY <2>1, <2>2 DEF botVars, Acknowledges, Grows
<1>8. CASE Remote
  <2>1. UNCHANGED <<at, requested>>
    BY <1>8 DEF Remote, RemoteStarts, RemoteStops, RemoteArchives, RemotePowersOff,
       RemoteQueues, RemoteFails, remoteFrame
  <2>2. CASE RemoteQueues
    <3>1. call' # "ok" \/ call = "ok" \/ at = remote.cmd
      BY <2>2 DEF RemoteQueues, Answer, Core, RemoteFits
    <3>2. Grows(k)
      BY <2>2 DEF RemoteQueues, Grows
    <3>3. remote.cmd = k => jobs'[k].id = jobs[k].id + 1
      BY <2>2 DEF RemoteQueues
    <3>4. remote.cmd # k => jobs'[k] = jobs[k]
      BY <2>2 DEF RemoteQueues
    <3>5. call = "ok" => call' = "ok"
      BY <2>2 DEF RemoteQueues, Answer
    <3> QED
      BY <2>1, <3>1, <3>2, <3>3, <3>4, <3>5 DEF Acknowledges
  <2>3. CASE RemotePowersOff
    <3>1. call' # "ok" \/ call = "ok" \/ at \notin Kinds
      BY <2>3 DEF RemotePowersOff, Answer, Core, RemoteFits
    <3>2. \/ jobs'[k] = jobs[k]
          \/ /\ jobs'[k].id = jobs[k].id /\ jobs'[k].phase = "interrupted"
             /\ jobs[k].phase \in {"pending", "waiting"}
      BY <2>3 DEF RemotePowersOff, Dropped
    <3> QED
      BY <2>1, <3>1, <3>2 DEF Grows, Acknowledges, JobPhases
  <2>4. CASE RemoteStarts \/ RemoteStops \/ RemoteArchives \/ RemoteFails
    <3>1. UNCHANGED jobs /\ (call' # "ok" \/ call = "ok" \/ at \notin Kinds)
      BY <2>4 DEF RemoteStarts, RemoteStops, RemoteArchives, RemoteFails, Answer,
         Core, RemoteFits
    <3> QED
      BY <1>1, <2>1, <3>1
  <2> QED
    BY <1>8, <2>2, <2>3, <2>4 DEF Remote
<1> QED
  BY <1>2, <1>3, <1>4, <1>5, <1>6, <1>7, <1>8 DEF Next

-----------------------------------------------------------------------------
(* Types.                                                                    *)

\* What the types need of jobs: an answered status and the results have types.
LEMMA ReportTypes ==
  TypesFit => /\ \A k \in Kinds :
                   /\ JobReport(k) \in [id: Nat, phase: {"none", "active", "ended", "interrupted"}]
                   /\ JobReport(k).id = jobs[k].id
                   /\ JobReport(k).id = 0 <=> JobReport(k).phase = "none"
                   /\ jobs[k].phase \in {"ended", "interrupted"} =>
                        JobReport(k).phase = jobs[k].phase
                   /\ JobReport(k).phase = "ended" => jobs[k].phase = "ended"
              /\ ResultsThere \subseteq Results
<1> SUFFICES ASSUME TypesFit
             PROVE  /\ \A k \in Kinds :
                         /\ JobReport(k) \in [id: Nat, phase: {"none", "active", "ended", "interrupted"}]
                         /\ JobReport(k).id = jobs[k].id
                         /\ JobReport(k).id = 0 <=> JobReport(k).phase = "none"
                         /\ jobs[k].phase \in {"ended", "interrupted"} =>
                              JobReport(k).phase = jobs[k].phase
                         /\ JobReport(k).phase = "ended" => jobs[k].phase = "ended"
                    /\ ResultsThere \subseteq Results
  OBVIOUS
<1>1. \A k \in Kinds : jobs[k].id \in Nat /\ jobs[k].phase \in JobPhases
  BY DEF TypesFit, ManagerFits, IInv, TypeOK
<1>2. \A k \in Kinds : jobs[k].id = 0 <=> jobs[k].phase = "none"
  BY DEF TypesFit, JobsFit
<1> QED
  BY <1>1, <1>2 DEF JobReport, ResultsThere, Results, JobPhases

\* Nothing known is a report of no job.
LEMMA OfflineTypes ==
  /\ Nothing \in [Kinds -> [id: Nat, phase: {"none", "active", "ended", "interrupted"}]]
  /\ \A k \in Kinds : Nothing[k].id = 0 /\ Nothing[k].phase = "none"
  /\ Offline.jobs = Nothing /\ Offline.pc = "OFFLINE" /\ Offline.game = "UNKNOWN"
BY DEF Nothing, NoReport, Offline

\* A job that is told has a result.
LEMMA ToldIsResult ==
  ASSUME TypesFit, NEW k \in Kinds, WorthTelling(k, report.jobs[k])
  PROVE  /\ [kind |-> k, id |-> report.jobs[k].id, phase |-> report.jobs[k].phase] \in Results
         /\ report.jobs[k].id > 0
<1>1. report.jobs[k] \in [id: Nat, phase: {"none", "active", "ended", "interrupted"}]
  BY DEF TypesFit, MonTypeOK
<1>2. report.jobs[k] # NoReport /\ report.jobs[k].phase # "active"
  BY DEF WorthTelling, Active
<1>3. report.jobs[k].phase # "none"
  BY <1>1, <1>2 DEF TypesFit, JobsFit, NoReport
<1> QED
  BY <1>1, <1>2, <1>3 DEF TypesFit, JobsFit, Results

\* Types are kept by every step, whatever fails.
LEMMA TypesStep == TypesFit /\ [MonitoredNext]_allVars => TypesFit'
<1> SUFFICES ASSUME TypesFit, [MonitoredNext]_allVars PROVE TypesFit'
  OBVIOUS
<1>1. ManagerFits'
  BY ManagerStep DEF TypesFit
<1> SUFFICES MonTypeOK' /\ JobsFit'
  BY <1>1 DEF TypesFit
<1> USE DEF TypesFit, MonTypeOK, JobsFit
<1>2. ASSUME UNCHANGED <<vars, report, last>>, MonTypeOK' PROVE MonTypeOK' /\ JobsFit'
  BY <1>2 DEF vars, pcVars
<1>3. After("update") \in Labels /\ After("restore") \in Labels
      /\ Told("update") \in Labels /\ Told("restore") \in Labels
  BY DEF After, Told, Labels, Kinds
<1>4. CASE UNCHANGED allVars
  BY <1>2, <1>4 DEF allVars, monVars, tickVars, history, vars, pcVars
<1>5. CASE /\ \/ \E c \in Callers \ {Monitor}, o \in Ops : Invoke(c, o)
              \/ BotStep \/ Deliver \/ TimesOut \/ PCStep
           /\ UNCHANGED monVars
  <2>1. [Next]_vars /\ IInv
    BY <1>5 DEF Next, ManagerFits
  <2>2. \A k \in Kinds : Grows(k)
    BY <2>1, ManagerNews
  <2>3. \A k \in Kinds : jobs[k].id \in Nat
    BY DEF ManagerFits, IInv, TypeOK
  <2>4. \A k \in Kinds : jobs'[k].id = 0 <=> jobs'[k].phase = "none"
    BY <2>2, <2>3 DEF Grows
  <2> QED
    BY <1>5, <2>4 DEF monVars, tickVars, history
<1>6. CASE BotRestarts
  <2>1. UNCHANGED <<jobs, repeated>> /\ report' = Offline /\ last' = Nothing
    BY <1>6 DEF BotRestarts, pcVars
  <2>2. JobsFit'
    BY <2>1, OfflineTypes
  <2>3. report' \in [pc: {"ONLINE", "OFFLINE"}, game: {"RUNNING", "STOPPED", "UNKNOWN"},
                     players: {"none", "zero", "some"},
                     jobs: [Kinds -> [id: Nat, phase: {"none", "active", "ended", "interrupted"}]]]
    BY <2>1, OfflineTypes DEF Offline
  <2>4. old' \subseteq Results /\ told' \subseteq Results
    BY <1>6, ReportTypes DEF BotRestarts
  <2>5. /\ mon' = "asleep" /\ lastRunning' = "none" /\ idle' = 0 /\ restarts' = restarts + 1
        /\ baselined' \in [Kinds -> BOOLEAN] /\ DOMAIN last' = Kinds
    BY <1>6, <2>2 DEF BotRestarts
  <2>6. mon' \in Labels /\ idle' \in 0..IdlePolls /\ restarts' \in Nat
    <3>1. restarts \in Nat
      OBVIOUS
    <3> HIDE DEF MonTypeOK, JobsFit, TypesFit
    <3> QED
      BY <2>5, <3>1, MonitorAssumption DEF Labels
  <2>7. repeated' \in BOOLEAN
    BY <2>1
  <2> HIDE DEF JobsFit
  <2> QED
    BY <2>2, <2>3, <2>4, <2>5, <2>6, <2>7
<1>7. CASE Poll
  <2>1. UNCHANGED <<jobs, last>>
    BY <1>7 DEF Poll, vars, pcVars
  <2>2. /\ report' \in [pc: {"ONLINE", "OFFLINE"}, game: {"RUNNING", "STOPPED", "UNKNOWN"},
                        players: {"none", "zero", "some"},
                        jobs: [Kinds -> [id: Nat, phase: {"none", "active", "ended", "interrupted"}]]]
        /\ \A k \in Kinds : report'.jobs[k].id = 0 <=> report'.jobs[k].phase = "none"
        /\ mon' \in Labels
    <3>1. CASE report' = Offline /\ mon' = "update"
      BY <3>1, OfflineTypes DEF Offline, Labels, Kinds
    <3>2. CASE report' = [Offline EXCEPT !.pc = "ONLINE"] /\ mon' = "update"
      <4>1. report' = [pc |-> "ONLINE", game |-> "UNKNOWN", players |-> "none", jobs |-> Nothing]
        BY <3>2 DEF Offline
      <4> QED
        BY <3>2, <4>1, OfflineTypes DEF Offline, Labels, Kinds
    <3>3. CASE /\ report' = [pc      |-> "ONLINE",
                             game    |-> IF game = "active" THEN "RUNNING" ELSE "STOPPED",
                             players |-> IF game = "active" THEN "none" ELSE "zero",
                             jobs    |-> [k \in Kinds |-> JobReport(k)]]
               /\ mon' = IF game = "active" THEN "query" ELSE "update"
      BY <3>3, ReportTypes DEF Labels, Kinds
    <3> QED
      BY <1>7, <3>1, <3>2, <3>3 DEF Poll
  <2> QED
    BY <1>7, <2>1, <2>2 DEF Poll, history
<1>8. CASE QueryPlayers
  <2>1. /\ report'.jobs = report.jobs /\ mon' = "update"
        /\ report' \in [pc: {"ONLINE", "OFFLINE"}, game: {"RUNNING", "STOPPED", "UNKNOWN"},
                        players: {"none", "zero", "some"},
                        jobs: [Kinds -> [id: Nat, phase: {"none", "active", "ended", "interrupted"}]]]
    BY <1>8 DEF QueryPlayers
  <2> QED
    BY <1>8, <2>1 DEF QueryPlayers, history, vars, pcVars, Labels, Kinds
<1>9. CASE \E k \in Kinds : HandleJob(k)
  <2> PICK k \in Kinds : HandleJob(k)
    BY <1>9
  <2>1. UNCHANGED <<jobs, report, lastRunning, idle, restarts, old>>
    BY DEF HandleJob, vars, pcVars
  <2>2. last' \in [Kinds -> [id: Nat, phase: {"none", "active", "ended", "interrupted"}]]
    BY DEF HandleJob
  <2>3. baselined' \in [Kinds -> BOOLEAN]
    BY DEF HandleJob
  <2>4. told' \subseteq Results /\ repeated' \in BOOLEAN
    <3>1. CASE told' = told /\ repeated' = repeated
      BY <3>1
    <3>2. CASE WorthTelling(k, report.jobs[k]) /\ Tell(k, report.jobs[k])
      <4>1. [kind |-> k, id |-> report.jobs[k].id, phase |-> report.jobs[k].phase] \in Results
        BY <3>2, ToldIsResult
      <4> QED
        BY <3>2, <4>1 DEF Tell
    <3> QED
      BY <3>1, <3>2 DEF HandleJob
  <2>5. mon' \in Labels
    BY <1>3 DEF HandleJob, Kinds
  <2> QED
    BY <2>1, <2>2, <2>3, <2>4, <2>5
<1>10. CASE \E k \in Kinds : ForgetRequest(k)
  <2> PICK k \in Kinds : ForgetRequest(k)
    BY <1>10
  <2>1. mon' \in Labels
    BY <1>3 DEF ForgetRequest, Kinds
  <2>2. UNCHANGED <<jobs, tickVars, history>>
    BY DEF ForgetRequest, pcVars
  <2> QED
    BY <2>1, <2>2 DEF tickVars, history
<1>11. CASE HandleTransition
  BY <1>2, <1>11 DEF HandleTransition, history, Labels
<1>12. CASE HandleIdle
  <2>1. idle' \in 0..IdlePolls
    <3>1. CASE IdlePolls > 0
      <4>1. (idle + 1) % IdlePolls \in 0..IdlePolls
        BY <3>1, MonitorAssumption
      <4> QED
        BY <1>12, <4>1, MonitorAssumption DEF HandleIdle
    <3>2. CASE ~(IdlePolls > 0)
      BY <1>12, <3>2, MonitorAssumption DEF HandleIdle
    <3> QED
      BY <3>1, <3>2
  <2> QED
    BY <1>2, <1>12, <2>1 DEF HandleIdle, history, Labels
<1>13. CASE CloseShop
  <2>1. UNCHANGED <<jobs, tickVars, history>> /\ mon' = "closed"
    BY <1>13 DEF CloseShop, Enter, pcVars
  <2> QED
    BY <2>1 DEF tickVars, history, Labels
<1>14. CASE ShopClosed
  BY <1>2, <1>14 DEF ShopClosed, history, Labels
<1> QED
  BY <1>4, <1>5, <1>6, <1>7, <1>8, <1>9, <1>10, <1>11, <1>12, <1>13, <1>14
  DEF MonitoredNext, MonitorStep

\* The types hold at the start.
LEMMA TypesInit == MonitoredInit => TypesFit
<1> SUFFICES ASSUME MonitoredInit PROVE TypesFit
  OBVIOUS
<1>1. ManagerFits
  BY InitIInv DEF MonitoredInit, ManagerFits
<1>2. JobsFit
  BY OfflineTypes DEF MonitoredInit, MonInit, Init, JobsFit
<1>3. report \in [pc: {"ONLINE", "OFFLINE"}, game: {"RUNNING", "STOPPED", "UNKNOWN"},
                  players: {"none", "zero", "some"},
                  jobs: [Kinds -> [id: Nat, phase: {"none", "active", "ended", "interrupted"}]]]
  BY OfflineTypes DEF MonitoredInit, MonInit, Offline
<1>4. MonTypeOK
  <2>1. mon \in Labels /\ lastRunning \in {"none", "yes", "no"} /\ idle \in 0..IdlePolls
        /\ restarts \in Nat
    BY MonitorAssumption DEF MonitoredInit, MonInit, Labels
  <2>2. old \subseteq Results /\ told \subseteq Results /\ repeated \in BOOLEAN
        /\ baselined \in [Kinds -> BOOLEAN] /\ DOMAIN last = Kinds
    BY <1>2 DEF MonitoredInit, MonInit, JobsFit
  <2> QED
    BY <1>3, <2>1, <2>2 DEF MonTypeOK
<1> QED
  BY <1>1, <1>2, <1>4 DEF TypesFit

\* Every value the monitor keeps is of its type.
THEOREM MonTypeCorrect == MonitoredSpec => []MonTypeOK
<1>1. TypesFit => MonTypeOK
  BY DEF TypesFit
<1> QED
  BY <1>1, TypesInit, TypesStep, PTL DEF MonitoredSpec

-----------------------------------------------------------------------------
(* Results, while every status that is answered makes sense.                 *)

\* A result stays a result, or makes place for a later job.
LEMMA ResultsStay ==
  ASSUME TypesFit, NEW x \in Results, Passed(x, jobs[x.kind]), Grows(x.kind)
  PROVE  Passed(x, jobs'[x.kind])
<1>1. x.kind \in Kinds /\ x.id \in Nat /\ x.phase \in {"ended", "interrupted"}
  BY DEF Results
<1>2. jobs[x.kind].id \in Nat
  BY <1>1 DEF TypesFit, ManagerFits, IInv, TypeOK
<1> QED
  BY <1>1, <1>2 DEF Passed, Grows

\* The manager next to the monitor leaves the results in order.
LEMMA NoticesNextToManager ==
  ASSUME TypesFit, NoticesFit, [Next]_vars, UNCHANGED monVars
  PROVE  NoticesFit'
<1>1. \A k \in Kinds : Grows(k) /\ Acknowledges(k)
  BY ManagerNews DEF TypesFit, ManagerFits
<1>2. \A k \in Kinds : /\ jobs[k].id \in Nat /\ last[k].id \in Nat /\ report.jobs[k].id \in Nat
                       /\ jobs'[k].id \in Nat /\ jobs'[k].id >= jobs[k].id
  BY <1>1 DEF TypesFit, ManagerFits, IInv, TypeOK, MonTypeOK, JobsFit, Grows
<1>3. UNCHANGED <<report, last, baselined, old, told, repeated>>
  BY DEF monVars, tickVars, history
<1>4. ReportFits' /\ ResultsToldOnce' /\ OldResultsStayQuiet'
  BY <1>3 DEF NoticesFit, ReportFits, Known, ResultsToldOnce, OldResultsStayQuiet
<1>5. NewsFit'
  <2> SUFFICES ASSUME NEW k \in Kinds
               PROVE  /\ last[k].id <= jobs'[k].id
                      /\ Known => /\ last[k].id <= report.jobs[k].id
                                  /\ report.jobs[k].id <= jobs'[k].id
                                  /\ report.jobs[k].phase = "ended" =>
                                       Passed(report.jobs[k], jobs'[k])
    BY <1>3 DEF NewsFit, Known, Passed
  <2>1. last[k].id <= jobs'[k].id
    BY <1>2 DEF NoticesFit, NewsFit
  <2>2. ASSUME Known, report.jobs[k].phase = "ended" PROVE Passed(report.jobs[k], jobs'[k])
    BY <1>1, <1>2, <2>2 DEF NoticesFit, NewsFit, Passed, Grows
  <2> QED
    BY <1>2, <2>1, <2>2 DEF NoticesFit, NewsFit
<1>6. ResultsFit'
  <2> SUFFICES ASSUME NEW x \in Settled
               PROVE  /\ x.id > 0
                      /\ Passed(x, jobs'[x.kind])
                      /\ Known => Passed(x, report.jobs[x.kind])
                      /\ x \in told \/ baselined[x.kind] => Passed(x, last[x.kind])
    BY <1>3 DEF ResultsFit, Settled, Known, Passed
  <2>1. x \in Results /\ x.kind \in Kinds
    BY DEF Settled, TypesFit, MonTypeOK, Results
  <2>2. Passed(x, jobs'[x.kind])
    BY <1>1, <2>1, ResultsStay DEF NoticesFit, ResultsFit
  <2> QED
    BY <2>2 DEF NoticesFit, ResultsFit
<1>7. RequestsFit'
  <2> SUFFICES ASSUME NEW x \in old
               PROVE  /\ requested'[x.kind] = 0 \/ requested'[x.kind] > x.id
                      /\ at' = x.kind /\ call' = "ok" => jobs'[x.kind].id > x.id
    BY <1>3 DEF RequestsFit
  <2>1. x.kind \in Kinds /\ x.id \in Nat /\ x \in Settled
    BY DEF Settled, TypesFit, MonTypeOK, Results
  <2>2. jobs[x.kind].id >= x.id
    BY <1>2, <2>1 DEF NoticesFit, ResultsFit, Passed
  <2>3. Acknowledges(x.kind)
    BY <1>1, <2>1
  <2> QED
    BY <1>2, <2>1, <2>2, <2>3 DEF NoticesFit, RequestsFit, Acknowledges
<1> QED
  BY <1>4, <1>5, <1>6, <1>7 DEF NoticesFit

\* Judging a report leaves the results in order: what is told is told for the
\* first time, and was not there when the bot started.
LEMMA NoticesJudged ==
  ASSUME TypesFit, NoticesFit, NEW k \in Kinds, HandleJob(k)
  PROVE  NoticesFit'
<1> DEFINE r == report.jobs[k]
           news == [kind |-> k, id |-> r.id, phase |-> r.phase]
<1>1. UNCHANGED <<jobs, report, requested, at, call, old>>
  BY DEF HandleJob, vars, pcVars, botVars
<1>2. CASE report.pc # "ONLINE"
  <2>1. UNCHANGED <<last, baselined, told, repeated>>
    BY <1>2 DEF HandleJob
  <2> QED
    BY <1>1, <2>1 DEF NoticesFit, ReportFits, Known, NewsFit, ResultsFit, Settled, Passed,
       RequestsFit, ResultsToldOnce, OldResultsStayQuiet
<1>3. CASE report.pc = "ONLINE"
  <2>1. Known
    BY <1>3 DEF NoticesFit, ReportFits
  <2>2. /\ last' = [last EXCEPT ![k] = r]
        /\ baselined' = [baselined EXCEPT ![k] = TRUE]
    BY <1>3 DEF HandleJob
  <2>3. /\ last' \in [Kinds -> [id: Nat, phase: {"none", "active", "ended", "interrupted"}]]
        /\ last'[k] = r /\ baselined'[k]
        /\ \A j \in Kinds \ {k} : last'[j] = last[j] /\ baselined'[j] = baselined[j]
    BY <2>2 DEF TypesFit, JobsFit, MonTypeOK
  <2>4. /\ \A j \in Kinds : jobs[j].id \in Nat /\ last[j].id \in Nat /\ report.jobs[j].id \in Nat
        /\ r \in [id: Nat, phase: {"none", "active", "ended", "interrupted"}]
        /\ last[k] \in [id: Nat, phase: {"none", "active", "ended", "interrupted"}]
    BY DEF TypesFit, ManagerFits, IInv, TypeOK, MonTypeOK, JobsFit
  <2>5. \A x \in Settled : /\ x.kind \in Kinds /\ x.id \in Nat /\ x \in Results
                           /\ Passed(x, report.jobs[x.kind])
    BY <2>1 DEF Settled, TypesFit, MonTypeOK, Results, NoticesFit, ResultsFit
  <2>6. \/ told' = told /\ repeated' = repeated
        \/ WorthTelling(k, r) /\ Tell(k, r)
    BY <1>3 DEF HandleJob
  <2>7. ASSUME WorthTelling(k, r) PROVE ~(r.phase = "ended" /\ news \in told)
    <3> SUFFICES ASSUME r.phase = "ended", news \in told PROVE FALSE
      OBVIOUS
    <3>1. news \in Settled /\ Passed(news, last[k])
      BY DEF Settled, NoticesFit, ResultsFit
    <3>2. last[k].id <= r.id
      BY <2>1 DEF NoticesFit, NewsFit
    <3>3. last[k].id = r.id /\ last[k].phase = r.phase
      BY <2>4, <3>1, <3>2 DEF Passed
    <3>4. last[k] = r
      BY <2>4, <3>3
    <3> QED
      BY <2>7, <3>4 DEF WorthTelling
  <2>8. ASSUME WorthTelling(k, r) PROVE news \notin old
    <3> SUFFICES ASSUME news \in old PROVE FALSE
      OBVIOUS
    <3>1. baselined[k] => Passed(news, last[k])
      BY DEF Settled, NoticesFit, ResultsFit
    <3>2. last[k].id <= r.id
      BY <2>1 DEF NoticesFit, NewsFit
    <3>3. ~baselined[k]
      <4> SUFFICES ASSUME baselined[k] PROVE FALSE
        OBVIOUS
      <4>1. last[k].id = r.id /\ last[k].phase = r.phase
        BY <2>4, <3>1, <3>2 DEF Passed
      <4>2. last[k] = r
        BY <2>4, <4>1
      <4> QED
        BY <2>8, <4>2 DEF WorthTelling
    <3>4. r.id = requested[k]
      BY <2>8, <3>3 DEF WorthTelling, Requested
    <3>5. news.id > 0
      BY DEF Settled, NoticesFit, ResultsFit
    <3>6. requested[k] = 0 \/ requested[k] > news.id
      BY DEF NoticesFit, RequestsFit
    <3> QED
      BY <2>4, <3>4, <3>5, <3>6
  <2>9. ResultsToldOnce' /\ OldResultsStayQuiet'
    <3>1. ~repeated /\ old \cap told = {} /\ old' = old
      BY <1>1 DEF NoticesFit, ResultsToldOnce, OldResultsStayQuiet
    <3>2. CASE told' = told /\ repeated' = repeated
      BY <3>1, <3>2 DEF ResultsToldOnce, OldResultsStayQuiet
    <3>3. CASE WorthTelling(k, r) /\ Tell(k, r)
      <4>1. repeated' = (repeated \/ (r.phase = "ended" /\ news \in told))
        BY <3>3, Zenon DEF Tell
      <4>2. told' = told \cup {news}
        BY <3>3 DEF Tell
      <4>3. ~repeated'
        BY <2>7, <3>1, <3>3, <4>1
      <4>4. old' \cap told' = {}
        BY <2>8, <3>1, <3>3, <4>2
      <4> QED
        BY <4>3, <4>4 DEF ResultsToldOnce, OldResultsStayQuiet
    <3> QED
      BY <2>6, <3>2, <3>3
  <2>10. ReportFits' /\ RequestsFit'
    BY <1>1 DEF NoticesFit, ReportFits, Known, RequestsFit
  <2>11. NewsFit'
    <3> SUFFICES ASSUME NEW j \in Kinds
                 PROVE  /\ last'[j].id <= jobs[j].id
                        /\ last'[j].id <= report.jobs[j].id
                        /\ report.jobs[j].id <= jobs[j].id
                        /\ report.jobs[j].phase = "ended" => Passed(report.jobs[j], jobs[j])
      BY <1>1 DEF NewsFit, Known, Passed
    <3>1. CASE j = k
      BY <2>1, <2>3, <2>4, <3>1 DEF NoticesFit, NewsFit
    <3>2. CASE j # k
      BY <2>1, <2>3, <3>2 DEF NoticesFit, NewsFit
    <3> QED
      BY <3>1, <3>2
  <2>12. ResultsFit'
    <3> SUFFICES ASSUME NEW x \in Settled'
                 PROVE  /\ x.id > 0
                        /\ Passed(x, jobs[x.kind])
                        /\ Passed(x, report.jobs[x.kind])
                        /\ x \in told' \/ baselined'[x.kind] => Passed(x, last'[x.kind])
      BY <1>1 DEF ResultsFit, Known, Passed
    <3>1. CASE x \in Settled /\ x.kind = k
      BY <2>1, <2>3, <2>5, <3>1 DEF NoticesFit, ResultsFit
    <3>2. CASE x \in Settled /\ x.kind # k
      <4>1. last'[x.kind] = last[x.kind] /\ baselined'[x.kind] = baselined[x.kind]
        BY <2>3, <2>5, <3>2
      <4>2. x \in told' => x \in told
        BY <2>6, <3>2 DEF Tell
      <4> QED
        BY <2>1, <3>2, <4>1, <4>2 DEF NoticesFit, ResultsFit
    <3>3. CASE x \notin Settled
      <4>1. x = news /\ WorthTelling(k, r) /\ r.phase = "ended"
        BY <1>1, <2>6, <3>3 DEF Settled, Tell
      <4>2. r.id > 0
        BY <4>1, ToldIsResult
      <4>3. Passed(r, jobs[k])
        BY <2>1, <4>1 DEF NoticesFit, NewsFit
      <4> QED
        BY <2>3, <4>1, <4>2, <4>3 DEF Passed
    <3> QED
      BY <3>1, <3>2, <3>3
  <2> QED
    BY <2>9, <2>10, <2>11, <2>12 DEF NoticesFit
<1> QED
  BY <1>2, <1>3

\* An answered poll reports the results as they are, and one that fails nothing.
LEMMA NoticesPolled ==
  ASSUME TypesFit, NoticesFit, Poll, "refuse" \notin Faults
  PROVE  NoticesFit'
<1>1. UNCHANGED <<jobs, requested, at, call, last, baselined, old, told, repeated>>
  BY DEF Poll, vars, pcVars, botVars, history
<1>2. ResultsToldOnce' /\ OldResultsStayQuiet' /\ RequestsFit'
  BY <1>1 DEF NoticesFit, ResultsToldOnce, OldResultsStayQuiet, RequestsFit
<1>3. CASE report' = Offline
  <2>1. ~Known' /\ report'.pc = "OFFLINE"
    BY <1>3, OfflineTypes DEF Known
  <2> QED
    BY <1>1, <1>2, <2>1 DEF NoticesFit, ReportFits, NewsFit, ResultsFit, Settled, Passed
<1>4. CASE report' # Offline
  <2>1. \A k \in Kinds : report'.jobs[k] = JobReport(k)
    BY <1>4 DEF Poll, NotOk
  <2>2. Known'
    BY <1>4 DEF Poll, NotOk, Known
  <2>3. \A k \in Kinds : /\ JobReport(k).id = jobs[k].id /\ jobs[k].id \in Nat
                         /\ JobReport(k).phase = "ended" => jobs[k].phase = "ended"
                         /\ jobs[k].phase \in {"ended", "interrupted"} =>
                              JobReport(k).phase = jobs[k].phase
    BY ReportTypes DEF TypesFit, ManagerFits, IInv, TypeOK
  <2>4. NewsFit'
    BY <1>1, <2>1, <2>3 DEF NoticesFit, NewsFit, Passed
  <2>5. \A x \in Settled : x.kind \in Kinds /\ x.phase \in {"ended", "interrupted"}
    BY DEF Settled, TypesFit, MonTypeOK, Results
  <2>6. ResultsFit'
    BY <1>1, <2>1, <2>3, <2>5 DEF NoticesFit, ResultsFit, Settled, Passed
  <2> QED
    BY <1>2, <2>2, <2>4, <2>6 DEF NoticesFit, ReportFits
<1> QED
  BY <1>3, <1>4

\* After a restart of the bot nothing was told, and the results there are old.
LEMMA NoticesRestarted ==
  ASSUME TypesFit, NoticesFit, BotRestarts
  PROVE  NoticesFit'
<1>1. /\ UNCHANGED <<jobs, repeated>>
      /\ report' = Offline /\ last' = Nothing /\ told' = {} /\ old' = ResultsThere
      /\ at' = "idle" /\ requested' = [k \in Kinds |-> 0]
      /\ baselined' = [k \in Kinds |-> FALSE]
  BY DEF BotRestarts, pcVars
<1>2. \A x \in ResultsThere : /\ x.kind \in Kinds /\ x.id = jobs[x.kind].id
                              /\ x.phase = jobs[x.kind].phase /\ x.id > 0
  BY DEF ResultsThere, TypesFit, JobsFit, ManagerFits, IInv, TypeOK
<1>3. ~Known' /\ report'.pc = "OFFLINE"
  BY <1>1, OfflineTypes DEF Known
<1>4. ReportFits' /\ ResultsToldOnce' /\ OldResultsStayQuiet'
  BY <1>1, <1>3 DEF ReportFits, ResultsToldOnce, OldResultsStayQuiet, NoticesFit
<1>5. NewsFit'
  BY <1>1, <1>3, OfflineTypes DEF NewsFit, TypesFit, ManagerFits, IInv, TypeOK
<1>6. ResultsFit'
  BY <1>1, <1>2, <1>3 DEF ResultsFit, Settled, Passed
<1>7. RequestsFit'
  BY <1>1, <1>2 DEF RequestsFit, Kinds
<1> QED
  BY <1>4, <1>5, <1>6, <1>7 DEF NoticesFit

\* Results are kept in order by every step when no status that is answered fails.
LEMMA NoticesStep ==
  ASSUME "refuse" \notin Faults
  PROVE  TypesFit /\ NoticesFit /\ [MonitoredNext]_allVars => NoticesFit'
<1> SUFFICES ASSUME TypesFit, NoticesFit, [MonitoredNext]_allVars PROVE NoticesFit'
  OBVIOUS
<1>1. ASSUME UNCHANGED <<vars, last, baselined, old, told, repeated>>,
             report'.jobs = report.jobs, report'.game = report.game, report'.pc = report.pc
      PROVE  NoticesFit'
  BY <1>1 DEF vars, pcVars, botVars, NoticesFit, ReportFits, Known, NewsFit, ResultsFit,
     Settled, Passed, RequestsFit, ResultsToldOnce, OldResultsStayQuiet
<1>2. CASE UNCHANGED allVars
  BY <1>1, <1>2 DEF allVars, monVars, tickVars, history
<1>3. CASE /\ \/ \E c \in Callers \ {Monitor}, o \in Ops : Invoke(c, o)
              \/ BotStep \/ Deliver \/ TimesOut \/ PCStep
           /\ UNCHANGED monVars
  BY <1>3, NoticesNextToManager DEF Next
<1>4. CASE BotRestarts
  BY <1>4, NoticesRestarted
<1>5. CASE Poll
  BY <1>5, NoticesPolled
<1>6. CASE QueryPlayers
  <2>1. report'.jobs = report.jobs /\ report'.game = report.game /\ report'.pc = report.pc
    BY <1>6 DEF QueryPlayers, TypesFit, MonTypeOK
  <2> QED
    BY <1>1, <1>6, <2>1 DEF QueryPlayers, history
<1>7. CASE \E k \in Kinds : HandleJob(k)
  BY <1>7, NoticesJudged
<1>8. CASE (\E k \in Kinds : ForgetRequest(k)) \/ CloseShop
  <2>1. UNCHANGED <<jobs, call, report, last, baselined, old, told, repeated>>
    BY <1>8 DEF ForgetRequest, CloseShop, Enter, pcVars, tickVars, history
  <2>2. /\ at' = at \/ at' \notin Kinds
        /\ \A k \in Kinds : requested'[k] = requested[k] \/ requested'[k] = 0
    BY <1>8 DEF ForgetRequest, CloseShop, Enter, Kinds, TypesFit, ManagerFits, IInv, TypeOK
  <2>3. \A x \in old : x.kind \in Kinds
    BY DEF TypesFit, MonTypeOK, Results
  <2>4. RequestsFit'
    BY <2>1, <2>2, <2>3 DEF NoticesFit, RequestsFit
  <2> QED
    BY <2>1, <2>4 DEF NoticesFit, ReportFits, Known, NewsFit, ResultsFit, Settled, Passed,
       ResultsToldOnce, OldResultsStayQuiet
<1>9. CASE HandleTransition \/ HandleIdle \/ ShopClosed
  BY <1>1, <1>9 DEF HandleTransition, HandleIdle, ShopClosed, history
<1> QED
  BY <1>2, <1>3, <1>4, <1>5, <1>6, <1>7, <1>8, <1>9 DEF MonitoredNext, MonitorStep

\* Results are in order at the start.
LEMMA NoticesInit == MonitoredInit => NoticesFit
<1> SUFFICES ASSUME MonitoredInit PROVE NoticesFit
  OBVIOUS
<1>1. /\ old = {} /\ told = {} /\ ~repeated /\ at = "idle" /\ report = Offline /\ last = Nothing
      /\ \A k \in Kinds : jobs[k].id = 0
  BY DEF MonitoredInit, MonInit, Init
<1> QED
  BY <1>1, OfflineTypes DEF NoticesFit, ReportFits, Known, NewsFit, ResultsFit, Settled,
     RequestsFit, ResultsToldOnce, OldResultsStayQuiet

\* As long as no status that is answered fails, the results stay in order.
THEOREM NoticesInvariance ==
  ASSUME "refuse" \notin Faults
  PROVE  MonitoredSpec => [](TypesFit /\ NoticesFit)
<1>1. TypesFit /\ NoticesFit /\ [MonitoredNext]_allVars => (TypesFit /\ NoticesFit)'
  BY TypesStep, NoticesStep
<1>2. MonitoredInit => TypesFit /\ NoticesFit
  BY TypesInit, NoticesInit
<1> QED
  BY <1>1, <1>2, PTL DEF MonitoredSpec

\* As long as no status that is answered fails, the channel is told the result of
\* a job once, whatever polls are lost.
THEOREM ToldOnce ==
  ASSUME "refuse" \notin Faults
  PROVE  MonitoredSpec => []ResultsToldOnce
<1>1. NoticesFit => ResultsToldOnce
  BY DEF NoticesFit
<1> QED
  BY <1>1, NoticesInvariance, PTL

\* As long as no status that is answered fails, a result that was there when the
\* bot started is not told.
THEOREM OldOnesQuiet ==
  ASSUME "refuse" \notin Faults
  PROVE  MonitoredSpec => []OldResultsStayQuiet
<1>1. NoticesFit => OldResultsStayQuiet
  BY DEF NoticesFit
<1> QED
  BY <1>1, NoticesInvariance, PTL

=============================================================================
