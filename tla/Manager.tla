-------------------------------- MODULE Manager --------------------------------
(***************************************************************************)
(* ServerManager: the Discord commands of the bot, one at a time under an  *)
(* asyncio lock, each a short program of SSH calls to the game PC.  A call *)
(* may not arrive, its reply may be lost, and a command whose client gave  *)
(* up goes on running on the PC, where it keeps operation.lock.            *)
(*                                                                         *)
(* The PC is seen from outside: a command takes the lock or is told "busy" *)
(* when it arrives, and has its effect later.  ServerPC has the inside.    *)
(***************************************************************************)
EXTENDS Naturals

CONSTANTS
  Callers,    \* coroutines that call the manager
  Members,    \* those with the Player role
  Maintainers,\* those with the Maintainer role
  Players,    \* people who may be in the game
  Ops,        \* the operations used
  Faults,     \* the faults the environment may inject
  MaxOps,     \* bound: how many operations are begun
  MaxJobs,    \* bound: how many jobs of each kind are queued
  BootPolls   \* how many polls fit in server_boot_timeout_seconds

Kinds     == {"update", "restore"}
MaintainerOps == {"force", "restart"} \cup Kinds
AllOps    == {"start", "stop", "force", "restart"} \cup Kinds
AllFaults == {"outage", "timeout", "refuse", "crash"}
Free      == "free"

ASSUME ConstantsAssumption ==
  /\ Ops \subseteq AllOps
  /\ Faults \subseteq AllFaults
  /\ MaxOps \in Nat /\ MaxJobs \in Nat
  /\ BootPolls \in Nat \ {0}
  /\ Free \notin Callers
  /\ Members \cup Maintainers \subseteq Callers

VARIABLES
  power,     \* of the PC
  game,      \* ActiveState of the game's unit: failed counts as inactive
  crowd,     \* who is in the game
  remote,    \* the command or worker that holds operation.lock, and its op
  jobs,      \* the latest update and restore job on the PC
  lock,      \* the caller that holds the manager's lock
  op,        \* its operation
  at,        \* the SSH call it is waiting for
  call,      \* where that call is, if it is one that changes the PC
  tries,     \* polls left in _wait_for_ssh
  result,    \* what each caller was answered last
  requested, \* requested_update_id and requested_restore_id
  opId,      \* the number of the operation
  unsaved,   \* history: has the game been up since the last archive, and was it a
             \* command that started it, or only a job or systemd
  made,      \* history: operations that queued a job
  denied     \* history: operations whose caller was told that no job was queued

pcVars   == <<power, game, crowd, remote, jobs, unsaved, made>>
botVars  == <<lock, op, at, call, tries, result, requested, opId, denied>>
vars     == <<pcVars, botVars>>

Commands == {"start", "restart", "shutdown", "backup", "poweroff"} \cup Kinds

Outcomes == {"none", "BUSY", "STARTED", "ALREADY_RUNNING", "BOOT_TIMEOUT",
             "START_FAILED", "ACCEPTED", "REFUSED_PLAYERS", "FAILED", "UNKNOWN",
             "UNREACHABLE", "RESTARTED", "RESTART_FAILED", "STOPPED",
             "SHUTDOWN_FAILED", "BACKUP_FAILED", "POWEROFF_FAILED"}

\* pending: systemd has not started the worker; waiting: for operation.lock;
\* interrupted: the state file stands at a working phase and no worker runs.
JobPhases == {"none", "pending", "waiting", "running", "ended", "interrupted"}

Nobody == [cmd |-> "none", op |-> 0]

TypeOK ==
  /\ power \in {"off", "booting", "on"}
  /\ game \in {"inactive", "active", "activating"}
  /\ crowd \subseteq Players
  /\ remote \in [cmd: Commands \cup {"none", "worker"}, op: Nat]
  /\ jobs \in [Kinds -> [id: Nat, phase: JobPhases]]
  /\ lock \in Callers \cup {Free}
  /\ op \in AllOps \cup {"none"}
  /\ at \in Commands \cup {"idle", "probe", "boot", "reprobe", "players", "verify"}
  /\ call \in {"none", "sent", "running", "ok", "fail", "busy", "gone"}
  /\ tries \in 0..BootPolls
  /\ result \in [Callers -> Outcomes]
  /\ requested \in [Kinds -> Nat]
  /\ opId \in Nat
  /\ unsaved \in {"no", "itself", "yes"}
  /\ made \subseteq Nat /\ denied \subseteq Nat

Init ==
  /\ \/ power = "off" /\ game = "inactive"
     \/ power = "on" /\ game \in {"inactive", "active"}
  /\ crowd = {}
  /\ remote = Nobody
  /\ jobs = [k \in Kinds |-> [id |-> 0, phase |-> "none"]]
  /\ lock = Free
  /\ op = "none" /\ at = "idle" /\ call = "none" /\ tries = 0
  /\ result = [c \in Callers |-> "none"]
  /\ requested = [k \in Kinds |-> 0]
  /\ opId = 0
  /\ unsaved = IF game = "active" THEN "yes" ELSE "no"
  /\ made = {} /\ denied = {}

-----------------------------------------------------------------------------
(* SSH calls.                                                                *)

\* connection_failed: no connection, or no answer in time.
Gone == power # "on" \/ "outage" \in Faults

Reached == power = "on"

\* The command ran and failed, or its output makes no sense.
NotOk == power = "on" /\ "refuse" \in Faults

\* parse_update and parse_restore find a job that is active: one whose unit is.
JobShown == \E k \in Kinds : jobs[k].phase \in {"waiting", "running"}

\* A command that changes the PC is on its way.
Send(c) ==
  /\ at' = c
  /\ call' = "sent"
  /\ UNCHANGED <<lock, op, tries, result, requested, opId, denied>>

GoTo(label) ==
  /\ at' = label
  /\ call' = "none"
  /\ UNCHANGED <<lock, op, tries, result, requested, opId, denied>>

\* The operation ends and gives up the manager's lock.
Return(o) ==
  /\ lock' = Free
  /\ op' = "none" /\ at' = "idle" /\ call' = "none" /\ tries' = 0
  /\ result' = [result EXCEPT ![lock] = o]
  /\ denied' = IF op \in Kinds /\ o \notin {"ACCEPTED", "UNKNOWN"}
               THEN denied \cup {opId} ELSE denied
  /\ UNCHANGED <<requested, opId>>

-----------------------------------------------------------------------------
(* The operations.                                                           *)

\* Somebody else's operation is under way: nobody waits for the lock.
Enter(c, o) ==
  /\ result' = [result EXCEPT ![c] = IF lock = Free THEN "none" ELSE "BUSY"]
  /\ IF lock = Free
     THEN /\ lock' = c /\ op' = o
          /\ at' = IF o \in {"stop", "force"} THEN "players" ELSE "probe"
     ELSE lock # c /\ UNCHANGED <<lock, op, at>>
  /\ UNCHANGED <<pcVars, call, tries, requested, denied>>

HasPlayerAccess(c) == c \in Members \cup Maintainers
HasMaintainerAccess(c) == c \in Maintainers

\* A Discord command that was acknowledged in time; without the role it gets no
\* further.
Invoke(c, o) ==
  /\ HasPlayerAccess(c) /\ (o \in MaintainerOps => HasMaintainerAccess(c))
  /\ Enter(c, o)
  /\ IF lock = Free THEN opId < MaxOps /\ opId' = opId + 1 ELSE UNCHANGED opId

\* send_magic_packets, then _wait_for_ssh.
Wake ==
  /\ power' = IF power = "off" THEN "booting" ELSE power
  /\ at' = "boot"
  /\ tries' = BootPolls
  /\ UNCHANGED <<game, crowd, remote, jobs, unsaved, made, lock, op, call,
                 result, requested, opId, denied>>

ProbeToStart ==
  /\ at = "probe" /\ op = "start"
  /\ \/ Gone /\ Wake
     \/ /\ Reached /\ JobShown
        /\ Return("BUSY") /\ UNCHANGED pcVars
     \/ /\ Reached /\ ~JobShown /\ game = "active"
        /\ Return("ALREADY_RUNNING") /\ UNCHANGED pcVars
     \/ /\ (Reached /\ ~JobShown /\ game # "active") \/ NotOk
        /\ Send("start") /\ UNCHANGED pcVars

ProbeToRestart ==
  /\ at = "probe" /\ op = "restart"
  /\ \/ Gone /\ Return("UNREACHABLE")
     \/ Reached /\ Send("restart")
  /\ UNCHANGED pcVars

\* What update and restore decide on a status.
JudgeStatus(k) ==
  /\ \/ Reached /\ JobShown /\ Return("BUSY")
     \/ Reached /\ ~JobShown /\ game = "active" /\ GoTo("players")
     \/ Reached /\ ~JobShown /\ game # "active" /\ Send(k)
     \/ NotOk /\ Return("FAILED")
  /\ UNCHANGED pcVars

\* Mutant: a PC that is gone again after its boot is woken again.
ProbeToUpdateWakingAgain ==
  /\ op = "update"
  /\ \/ at \in {"probe", "reprobe"} /\ Gone /\ Wake
     \/ at \in {"probe", "reprobe"} /\ JudgeStatus("update")

ProbeToUpdate ==
  /\ op = "update"
  /\ \/ at = "probe" /\ Gone /\ Wake
     \/ at = "reprobe" /\ Gone /\ Return("FAILED") /\ UNCHANGED pcVars
     \/ at \in {"probe", "reprobe"} /\ JudgeStatus("update")

ProbeToRestore ==
  /\ at = "probe" /\ op = "restore"
  /\ \/ Gone /\ Return("UNREACHABLE") /\ UNCHANGED pcVars
     \/ JudgeStatus("restore")

\* Mutant: only the answers are counted.
BootPollForEver ==
  /\ at = "boot"
  /\ \/ Reached /\ op = "start" /\ Send("start")
     \/ Reached /\ op = "update" /\ GoTo("reprobe")
     \/ Gone /\ GoTo("boot")
  /\ UNCHANGED pcVars

\* Mutant: the polls are not compared with server_boot_timeout_seconds.
BootPollUnbounded ==
  /\ at = "boot"
  /\ \/ Reached /\ op = "start" /\ Send("start")
     \/ Reached /\ op = "update" /\ GoTo("reprobe")
     \/ /\ Gone
        /\ tries' = tries - 1
        /\ UNCHANGED <<lock, op, at, call, result, requested, opId, denied>>
  /\ UNCHANGED pcVars

\* One round of _wait_for_ssh.
BootPoll ==
  /\ at = "boot"
  /\ \/ Reached /\ op = "start" /\ Send("start")
     \/ Reached /\ op = "update" /\ GoTo("reprobe")
     \/ /\ Gone /\ tries > 1
        /\ tries' = tries - 1
        /\ UNCHANGED <<lock, op, at, call, result, requested, opId, denied>>
     \/ Gone /\ tries = 1 /\ Return("BOOT_TIMEOUT")
  /\ UNCHANGED pcVars

\* The query answers only while the game runs.
SeenEmpty == Reached /\ game = "active" /\ crowd = {}
SeenOtherwise == Gone \/ NotOk \/ game # "active" \/ crowd # {}

AskPlayersForJob ==
  /\ at = "players" /\ op \in Kinds
  /\ \/ SeenEmpty /\ Send(op)
     \/ SeenOtherwise /\ Return("REFUSED_PLAYERS")
  /\ UNCHANGED pcVars

\* For anybody but a forcing Maintainer an unknown count is as good as a crowd.
AskPlayersForStop ==
  /\ at = "players" /\ op \in {"stop", "force"}
  /\ \/ Gone /\ Return("UNREACHABLE")
     \/ SeenEmpty /\ Send("shutdown")
     \/ /\ Reached /\ SeenOtherwise
        /\ IF op = "force" THEN Send("shutdown") ELSE Return("REFUSED_PLAYERS")
  /\ UNCHANGED pcVars

Verify ==
  /\ at = "verify"
  /\ \/ /\ Reached /\ game = "active"
        /\ Return(IF op = "start" THEN "STARTED" ELSE "RESTARTED")
     \/ /\ Gone \/ NotOk \/ game # "active"
        /\ Return(IF op = "start" THEN "START_FAILED" ELSE "RESTART_FAILED")
  /\ UNCHANGED pcVars

\* What is answered when a command did not return 0.
FailureOf == [start    |-> "START_FAILED",    restart |-> "RESTART_FAILED",
              shutdown |-> "SHUTDOWN_FAILED", backup  |-> "BACKUP_FAILED",
              poweroff |-> "POWEROFF_FAILED", update  |-> "FAILED",
              restore  |-> "FAILED"]

\* Mutant: only an error that was answered counts as a failed backup.
FollowUpIgnoringLostBackup ==
  \/ call = "ok" /\ at \in {"start", "restart"} /\ GoTo("verify")
  \/ call = "ok" /\ at = "shutdown" /\ Send("backup")
  \/ call \in {"ok", "gone"} /\ at = "backup" /\ Send("poweroff")
  \/ call \in {"ok", "gone"} /\ at = "poweroff" /\ Return("STOPPED")

\* How an operation goes on after a command, for all but the two job requests.
FollowUp ==
  \/ call = "ok" /\ at \in {"start", "restart"} /\ GoTo("verify")
  \/ call = "ok" /\ at = "shutdown" /\ Send("backup")
  \/ call = "ok" /\ at = "backup" /\ Send("poweroff")
  \/ call \in {"ok", "gone"} /\ at = "poweroff" /\ Return("STOPPED")

\* Mutant: a request whose acknowledgement is lost has failed.
AcknowledgeLostAsFailed ==
  \/ /\ call = "ok"
     /\ requested' = [requested EXCEPT ![at] = jobs[at].id]
     /\ lock' = Free
     /\ op' = "none" /\ at' = "idle" /\ call' = "none" /\ tries' = 0
     /\ result' = [result EXCEPT ![lock] = "ACCEPTED"]
     /\ UNCHANGED <<opId, denied>>
  \/ call = "gone" /\ Return("FAILED")

\* The job's id comes with the acknowledgement.
Acknowledge ==
  \/ /\ call = "ok"
     /\ requested' = [requested EXCEPT ![at] = jobs[at].id]
     /\ lock' = Free
     /\ op' = "none" /\ at' = "idle" /\ call' = "none" /\ tries' = 0
     /\ result' = [result EXCEPT ![lock] = "ACCEPTED"]
     /\ UNCHANGED <<opId, denied>>
  \/ call = "gone" /\ Return("UNKNOWN")

Reply ==
  /\ \/ call = "busy" /\ Return("BUSY")
     \/ call = "fail" /\ Return(FailureOf[at])
     \/ call = "gone" /\ at \notin Kinds \cup {"poweroff"} /\ Return(FailureOf[at])
     \/ at \notin Kinds /\ FollowUp
     \/ at \in Kinds /\ Acknowledge
  /\ UNCHANGED pcVars

-----------------------------------------------------------------------------
(* The PC.                                                                   *)

Answer(a) == call' = IF call = "running" THEN a ELSE call

\* operation.lock is held, or the gate sees a worker (one that waits for the
\* lock, too) or restore-block.
Refuses == Reached /\ (remote # Nobody \/ JobShown \/ "refuse" \in Faults)

\* Mutant: that operation.lock is held makes no difference.
DeliverOverlooking ==
  /\ call = "sent"
  /\ \/ Gone /\ call' = "gone" /\ UNCHANGED remote
     \/ Refuses /\ call' = "busy" /\ UNCHANGED remote
     \/ /\ Reached
        /\ call' = "running"
        /\ remote' = [cmd |-> at, op |-> opId]
  /\ UNCHANGED <<power, game, crowd, jobs, unsaved, made, lock, op, at, tries,
                 result, requested, opId, denied>>

\* The command reaches the PC, or not.
Deliver ==
  /\ call = "sent"
  /\ \/ Gone /\ call' = "gone" /\ UNCHANGED remote
     \/ Refuses /\ call' = "busy" /\ UNCHANGED remote
     \/ /\ Reached /\ remote = Nobody
        /\ call' = "running"
        /\ remote' = [cmd |-> at, op |-> opId]
  /\ UNCHANGED <<power, game, crowd, jobs, unsaved, made, lock, op, at, tries,
                 result, requested, opId, denied>>

\* wait_for gives up; the command on the PC does not notice.
TimesOut ==
  /\ "timeout" \in Faults
  /\ call = "running"
  /\ call' = "gone"
  /\ UNCHANGED <<pcVars, lock, op, at, tries, result, requested, opId, denied>>

remoteFrame == <<lock, op, at, tries, result, requested, opId, denied>>

RemoteStarts ==
  /\ remote.cmd = "start" \/ (remote.cmd = "restart" /\ game # "active")
  /\ game' = "active" /\ unsaved' = "yes"
  /\ remote' = Nobody /\ Answer("ok")
  /\ UNCHANGED <<power, crowd, jobs, made, remoteFrame>>

\* cmd_shutdown: whatever is not active is stopped.
RemoteStops ==
  /\ remote.cmd = "shutdown" \/ (remote.cmd = "restart" /\ game = "active")
  /\ game' = IF game = "active" THEN "inactive" ELSE game
  /\ crowd' = {}
  /\ IF remote.cmd = "restart" THEN UNCHANGED <<remote, call>>
                               ELSE remote' = Nobody /\ Answer("ok")
  /\ UNCHANGED <<power, jobs, unsaved, made, remoteFrame>>

RemoteArchives ==
  /\ remote.cmd = "backup"
  /\ unsaved' = IF game = "active" THEN "itself" ELSE "no"
  /\ remote' = Nobody /\ Answer("ok")
  /\ UNCHANGED <<power, game, crowd, jobs, made, remoteFrame>>

\* A job that has not begun does not survive the machine.
Dropped(j) == IF j.phase \in {"pending", "waiting"}
              THEN [j EXCEPT !.phase = "interrupted"] ELSE j

\* The connection goes with the machine; gameserver-safe-poweroff refuses while
\* the game is active.
RemotePowersOff ==
  /\ remote.cmd = "poweroff"
  /\ IF game = "active"
     THEN Answer("fail") /\ UNCHANGED <<power, game, jobs>>
     ELSE /\ power' = "off" /\ game' = "inactive"
          /\ jobs' = [k \in Kinds |-> Dropped(jobs[k])]
          /\ Answer("ok") \/ Answer("gone")
  /\ remote' = Nobody
  /\ UNCHANGED <<crowd, unsaved, made, remoteFrame>>

RemoteQueues ==
  /\ remote.cmd \in Kinds
  /\ LET k == remote.cmd IN
       /\ jobs[k].id < MaxJobs
       /\ jobs' = [jobs EXCEPT ![k] = [id |-> jobs[k].id + 1, phase |-> "pending"]]
  /\ made' = made \cup {remote.op}
  /\ remote' = Nobody /\ Answer("ok")
  /\ UNCHANGED <<power, game, crowd, unsaved, remoteFrame>>

RemoteFails ==
  /\ "refuse" \in Faults
  /\ remote.cmd \in Commands
  /\ remote' = Nobody /\ Answer("fail")
  /\ UNCHANGED <<power, game, crowd, jobs, unsaved, made, remoteFrame>>

Remote == RemoteStarts \/ RemoteStops \/ RemoteArchives \/ RemotePowersOff
          \/ RemoteQueues \/ RemoteFails

\* systemd starts the worker of a job.
JobWakes(k) ==
  /\ power = "on"
  /\ jobs[k].phase = "pending"
  /\ jobs' = [jobs EXCEPT ![k].phase = "waiting"]
  /\ UNCHANGED <<power, game, crowd, remote, unsaved, made, botVars>>

OtherWaits(k) == \E j \in Kinds \ {k} : jobs[j].phase = "waiting"

\* It takes the lock.  It gives up when the lock stays taken, and when the other
\* worker is there too.
JobBegins(k) ==
  /\ jobs[k].phase = "waiting"
  /\ \/ /\ remote = Nobody /\ ~OtherWaits(k)
        /\ remote' = [cmd |-> "worker", op |-> 0]
        /\ jobs' = [jobs EXCEPT ![k].phase = "running"]
     \/ /\ remote # Nobody \/ OtherWaits(k)
        /\ jobs' = [jobs EXCEPT ![k].phase = "interrupted"]
        /\ UNCHANGED remote
  /\ UNCHANGED <<power, game, crowd, unsaved, made, botVars>>

\* Refused at its check, stopped half way with the game down, or done: the world
\* is archived before anything else is touched.
JobEnds(k) ==
  /\ jobs[k].phase = "running"
  /\ jobs' = [jobs EXCEPT ![k].phase = "ended"]
  /\ remote' = Nobody
  /\ \/ UNCHANGED <<game, crowd, unsaved>>
     \/ game' = "inactive" /\ crowd' = {} /\ unsaved' \in {unsaved, "no"}
     \/ game' = "active" /\ crowd' = {} /\ unsaved' = "itself"
  /\ UNCHANGED <<power, made, botVars>>

\* Nothing of the game is started at boot.
Boots ==
  /\ power = "booting"
  /\ power' = "on"
  /\ UNCHANGED <<game, crowd, remote, jobs, unsaved, made, botVars>>

GameCrashes ==
  /\ "crash" \in Faults
  /\ game = "active"
  /\ game' = "activating" /\ crowd' = {}
  /\ UNCHANGED <<power, remote, jobs, unsaved, made, botVars>>

GameRestarts ==
  /\ game = "activating"
  /\ game' = "active" /\ unsaved' = IF unsaved = "no" THEN "itself" ELSE unsaved
  /\ UNCHANGED <<power, crowd, remote, jobs, made, botVars>>

PlayersComeOrGo ==
  /\ game = "active"
  /\ \E p \in Players :
       crowd' = IF p \in crowd THEN crowd \ {p} ELSE crowd \cup {p}
  /\ UNCHANGED <<power, game, remote, jobs, unsaved, made, botVars>>

-----------------------------------------------------------------------------

BotStep == ProbeToStart \/ ProbeToRestart \/ ProbeToUpdate \/ ProbeToRestore
           \/ BootPoll \/ AskPlayersForJob \/ AskPlayersForStop \/ Verify \/ Reply

JobStep == \E k \in Kinds : JobWakes(k) \/ JobBegins(k) \/ JobEnds(k)

PCStep == Remote \/ JobStep \/ Boots \/ GameCrashes \/ GameRestarts \/ PlayersComeOrGo

Next ==
  \/ \E c \in Callers, o \in Ops : Invoke(c, o)
  \/ BotStep \/ Deliver \/ TimesOut
  \/ PCStep

Spec == Init /\ [][Next]_vars

\* The event loop runs what can run, and a command that is running on the PC
\* either ends or, at the latest, times out at the client.
Fairness == WF_vars(BotStep) /\ WF_vars(Deliver) /\ WF_vars(Remote \/ TimesOut)

FairSpec == Spec /\ Fairness

-----------------------------------------------------------------------------
(* Properties. *)

\* When the bot powers the PC off, the newest archive is newer than all that was
\* played since a command last started the game - whatever calls were lost, and
\* whatever jobs and crashes came between.
PoweroffIsSaved == [][power = "on" /\ power' = "off" => unsaved # "yes"]_vars

\* The game and the numbers of the requests, as OneAtATime has them.
GameSeen == [inactive |-> "down", active |-> "up", activating |-> "restarting"][game]
Asked == [k \in Kinds |-> jobs[k].id]

Turns == INSTANCE OneAtATime WITH
  Free       <- Nobody,
  LosesPower <- FALSE,
  holder     <- remote,
  command    <- remote.cmd,
  game       <- GameSeen,
  requested  <- Asked

\* What the PC shows of itself here is what OneAtATime promises of operation.lock,
\* also while clients give up on commands that go on: what the bot relies on is
\* what ServerPC gives.
CommandsTakeTurns == Turns!Spec

\* How many steps an operation has before it at most.
Stage == [probe   |-> 8, boot   |-> 7, reprobe  |-> 6, players |-> 5, shutdown |-> 4,
          backup  |-> 3, start  |-> 2, restart  |-> 2, update  |-> 2, restore  |-> 2,
          poweroff |-> 2, verify |-> 1, idle    |-> 0]

CallStage == [sent |-> 3, running |-> 2, ok |-> 1, fail |-> 1, busy |-> 1, gone |-> 1,
              none |-> 0]

StepsLeft == Stage[at] * (BootPolls + 4) + CallStage[call] + tries

\* Whatever is lost or refused, an operation only gets nearer to its end: no call
\* is repeated, nothing is waited for a second time.
OperationsAdvance ==
  [][lock # Free => \/ StepsLeft' < StepsLeft
                    \/ UNCHANGED <<lock, op, at, call, tries>>]_vars

\* An operation whose caller is told that no job was queued has queued none,
\* not even by a command that reaches its end after the bot gave up on it.
DeniedMeansNotQueued == made \cap denied = {}

\* Every operation comes to an end, whatever is lost, and frees the lock.
OperationsReturn == \A c \in Callers : lock = c ~> lock # c

\* gameserver-backup: it runs after the server has stopped.
ArchiveIsConsistent == remote.cmd = "backup" => game # "active"

\* server_manager.py: a connection that drops at the poweroff means that the
\* machine went down.
StoppedMeansOff ==
  [][\A c \in Callers :
       result[c] # "STOPPED" /\ result'[c] = "STOPPED"
         => power' = "off" \/ remote'.cmd = "poweroff"]_vars

=============================================================================
