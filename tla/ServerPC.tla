------------------------------- MODULE ServerPC -------------------------------
(***************************************************************************)
(* The game PC: the SSH sessions that run `valheim-control` and            *)
(* `gameserver-maintenance`, the two systemd jobs that update the game and *)
(* restore a backup, the game's own systemd unit, and the state they share *)
(* - operation.lock, update-state, restore-state, restore-block and the    *)
(* world directory.                                                        *)
(*                                                                         *)
(* A step ends wherever another process can run in between: after the      *)
(* check that precedes the lock, after the lock, at every systemctl call   *)
(* that waits, and at every stage of a job.                                *)
(***************************************************************************)
EXTENDS Naturals

CONSTANTS
  Sessions,   \* SSH sessions that may run a mutating command concurrently
  Commands,   \* the commands those sessions use
  MaxJobs,    \* bound: how many update and restore requests are ever accepted
  Faults      \* the faults the environment may inject

Units       == {"update", "restore"}
Free        == "free"
AllCommands == {"start", "restart", "shutdown", "backup", "poweroff"} \cup Units
AllFaults   == {"crash", "kill", "power", "io"}

ASSUME ConstantsAssumption ==
  /\ Commands \subseteq AllCommands
  /\ MaxJobs \in Nat
  /\ Faults \subseteq AllFaults
  /\ Sessions \cap (Units \cup {Free}) = {}

VARIABLES
  game,     \* ActiveState of valheim-server.service
  crowd,    \* is somebody connected to the game
  world,    \* is there a complete directory worlds_local
  block,    \* does restore-block exist
  lock,     \* the process holding operation.lock
  pc,       \* where each session and each job's worker is
  cmd,      \* the command each session runs
  unit,     \* ActiveState of the update and restore units
  job,      \* has systemd a start job for the unit that it has not run yet
  jobfile,  \* update-state and restore-state: the job's id and phase
  nextId,   \* ids come from the clock: here, from a counter
  looked    \* history: was the game empty when the worker last looked

vars == <<game, crowd, world, block, lock, pc, cmd, unit, job, jobfile,
          nextId, looked>>

Procs == Sessions \cup Units

GameStates == {"inactive", "failed", "active", "activating", "deactivating"}

\* The states every script accepts as "the game is stopped".
Down == {"inactive", "failed"}

SessionLabels == {"idle", "gated", "locked", "body", "waiting", "archiving",
                  "again", "enqueue"}

WorkerLabels == {"idle", "lockwait", "begin", "checking", "validating",
                 "rechecking", "stopping", "waiting", "backup", "downloading",
                 "mark", "aside", "swap", "undo", "undone", "unmark",
                 "starting", "awaiting"}

ActivePhases == {"queued", "checking", "validating", "stopping", "backup",
                 "downloading", "restoring", "starting"}

FinalPhases == {"none", "succeeded", "refused_players", "invalid_backup",
                "failed_stop", "failed_backup", "failed_download",
                "failed_restore", "failed_start", "interrupted"}

TypeOK ==
  /\ game \in GameStates
  /\ crowd \in BOOLEAN
  /\ world \in {"present", "missing"}
  /\ block \in BOOLEAN
  /\ lock \in Procs \cup {Free}
  /\ pc \in [Procs -> SessionLabels \cup WorkerLabels]
  /\ cmd \in [Sessions -> AllCommands \cup {"none"}]
  /\ unit \in [Units -> {"inactive", "activating"}]
  /\ job \in [Units -> BOOLEAN]
  /\ jobfile \in [Units -> [id: Nat, phase: ActivePhases \cup FinalPhases]]
  /\ nextId \in Nat
  /\ looked \in [Units -> BOOLEAN]

Init ==
  /\ game \in {"inactive", "active"}
  /\ crowd = FALSE
  /\ world = "present"
  /\ block = FALSE
  /\ lock = Free
  /\ pc = [p \in Procs |-> "idle"]
  /\ cmd = [s \in Sessions |-> "none"]
  /\ unit = [u \in Units |-> "inactive"]
  /\ job = [u \in Units |-> FALSE]
  /\ jobfile = [u \in Units |-> [id |-> 0, phase |-> "none"]]
  /\ nextId = 1
  /\ looked = [u \in Units |-> FALSE]

gameVars == <<game, crowd>>
fileVars == <<world, block>>
unitVars == <<unit, job>>
jobVars  == <<unit, job, jobfile, nextId, looked>>

-----------------------------------------------------------------------------
(* Helpers shared by sessions and workers. *)

\* A call that reaches outside the process (systemctl, sudo, tar, a rename, an
\* fsync) reports an error.
CallFails == "io" \in Faults

Goto(p, label) == pc' = [pc EXCEPT ![p] = label]

\* _set_update_phase and phase(): the job's state file is replaced.
Record(u, phase) == jobfile' = [jobfile EXCEPT ![u].phase = phase]

\* Mutant: whoever ends removes operation.lock, also if somebody else holds it.
LeaveDroppingLock(p) ==
  /\ Goto(p, "idle")
  /\ lock' = Free

\* The process ends; the kernel drops the flock with its descriptor.
Leave(p) ==
  /\ Goto(p, "idle")
  /\ lock' = IF lock = p THEN Free ELSE lock

\* _update_active and _restore_active.  A job that is only enqueued is still
\* "inactive", and a `systemctl show` that fails counts as "not active": only
\* the marker is sure to be seen.
UpdateActive  == unit["update"] = "activating"
RestoreActive == block \/ unit["restore"] = "activating"
Overlooked(u) == unit[u] = "inactive" \/ CallFails

Busy == UpdateActive \/ RestoreActive

LooksFree == ~block /\ Overlooked("update") /\ Overlooked("restore")

\* `systemctl start`: blocks while a stop is in progress and cancels a pending
\* automatic restart.
GameUp ==
  /\ game # "deactivating"
  /\ game' = "active"
  /\ UNCHANGED crowd

\* `systemctl stop` of a running game: SIGINT is sent, saving begins.
GameStopping ==
  /\ game = "active"
  /\ game' = "deactivating"
  /\ UNCHANGED crowd

\* The same for a session, which then waits for its next command.
Hangup(s) ==
  /\ Leave(s)
  /\ cmd' = [cmd EXCEPT ![s] = "none"]

-----------------------------------------------------------------------------
(* SSH sessions: the gate in front of every mutating command. *)

\* The check before the lock.  The restore request has no such check.
Arrive(s, c) ==
  /\ pc[s] = "idle"
  /\ c \in Commands
  /\ c # "restore" => LooksFree
  /\ Goto(s, "gated")
  /\ cmd' = [cmd EXCEPT ![s] = c]
  /\ UNCHANGED <<gameVars, fileVars, lock, jobVars>>

\* Mutant: the backup command reads the world without the lock.
TakeLockUnlessBackup(s) ==
  /\ pc[s] = "gated"
  /\ \/ cmd[s] = "backup" /\ Goto(s, "locked") /\ UNCHANGED <<lock, cmd>>
     \/ lock = Free /\ lock' = s /\ Goto(s, "locked") /\ UNCHANGED cmd
     \/ lock # Free /\ Hangup(s)
  /\ UNCHANGED <<gameVars, fileVars, jobVars>>

\* flock -n: a session never waits for the lock.
TakeLock(s) ==
  /\ pc[s] = "gated"
  /\ \/ lock = Free /\ lock' = s /\ Goto(s, "locked") /\ UNCHANGED cmd
     \/ lock # Free /\ Hangup(s)
  /\ UNCHANGED <<gameVars, fileVars, jobVars>>

\* Mutant: the busy session goes away without giving the lock back.
RecheckKeepingLock(s) ==
  /\ pc[s] = "locked"
  /\ IF Busy THEN Goto(s, "idle") /\ cmd' = [cmd EXCEPT ![s] = "none"]
             ELSE Goto(s, "body") /\ UNCHANGED cmd
  /\ UNCHANGED <<gameVars, fileVars, lock, jobVars>>

\* Mutant: the restore request does not look for the marker.
RecheckOverlookingMarker(s) ==
  /\ pc[s] = "locked"
  /\ \/ /\ LooksFree \/ (cmd[s] = "restore" /\ unit = [u \in Units |-> "inactive"])
        /\ Goto(s, "body")
        /\ UNCHANGED <<lock, cmd>>
     \/ Busy /\ Hangup(s)
  /\ UNCHANGED <<gameVars, fileVars, jobVars>>

\* The check repeated under the lock.
Recheck(s) ==
  /\ pc[s] = "locked"
  /\ \/ LooksFree /\ Goto(s, "body") /\ UNCHANGED <<lock, cmd>>
     \/ Busy /\ Hangup(s)
  /\ UNCHANGED <<gameVars, fileVars, jobVars>>

-----------------------------------------------------------------------------
(* SSH sessions: the commands. *)

\* cmd_start, and the second half of cmd_restart.
SessionStart(s) ==
  /\ \/ pc[s] = "body" /\ cmd[s] = "start"
     \/ pc[s] = "again"
  /\ \/ GameUp
     \/ CallFails /\ UNCHANGED gameVars
  /\ Hangup(s)
  /\ UNCHANGED <<fileVars, jobVars>>

\* cmd_shutdown returned 0: a restart goes on, a shutdown is done.
StopSucceeds(s) ==
  IF cmd[s] = "restart" THEN Goto(s, "again") /\ UNCHANGED <<lock, cmd>>
                        ELSE Hangup(s)

\* cmd_shutdown: a game that is not "active" counts as stopped.
SessionStop(s) ==
  /\ pc[s] = "body" /\ cmd[s] \in {"shutdown", "restart"}
  /\ \/ game # "active" /\ StopSucceeds(s) /\ UNCHANGED gameVars
     \/ GameStopping /\ Goto(s, "waiting") /\ UNCHANGED <<lock, cmd>>
     \/ game = "active" /\ CallFails /\ Hangup(s) /\ UNCHANGED gameVars
  /\ UNCHANGED <<fileVars, jobVars>>

\* `systemctl stop` returns once the unit has left "deactivating".
SessionStopped(s) ==
  /\ pc[s] = "waiting"
  /\ game # "deactivating"
  /\ IF game = "active" THEN Hangup(s) ELSE StopSucceeds(s)
  /\ UNCHANGED <<gameVars, fileVars, jobVars>>

\* cmd_backup starts tar; whatever else happens, happens while it reads.
SessionBackup(s) ==
  /\ pc[s] = "body" /\ cmd[s] = "backup"
  /\ Goto(s, "archiving")
  /\ UNCHANGED <<gameVars, fileVars, lock, cmd, jobVars>>

SessionBackedUp(s) ==
  /\ pc[s] = "archiving"
  /\ Hangup(s)
  /\ UNCHANGED <<gameVars, fileVars, jobVars>>

\* The machine goes down and comes back: processes, lock and jobs are gone,
\* files stay, and nothing is started at boot.
Reboot ==
  /\ game' = "inactive"
  /\ crowd' = FALSE
  /\ lock' = Free
  /\ pc' = [p \in Procs |-> "idle"]
  /\ unit' = [u \in Units |-> "inactive"]
  /\ job' = [u \in Units |-> FALSE]
  /\ cmd' = [s \in Sessions |-> "none"]
  /\ UNCHANGED <<fileVars, jobfile, nextId, looked>>

\* cmd_poweroff: the helper refuses while the game is active.
SessionPoweroff(s) ==
  /\ pc[s] = "body" /\ cmd[s] = "poweroff"
  /\ \/ game # "active" /\ Reboot
     \/ /\ game = "active" \/ CallFails
        /\ Hangup(s)
        /\ UNCHANGED <<gameVars, fileVars, jobVars>>

\* cmd_update and request_restore write a fresh id and the phase "queued" first.
SessionQueue(s) ==
  /\ pc[s] = "body" /\ cmd[s] \in Units
  /\ nextId <= MaxJobs
  /\ jobfile' = [jobfile EXCEPT ![cmd[s]] = [id |-> nextId, phase |-> "queued"]]
  /\ nextId' = nextId + 1
  /\ Goto(s, "enqueue")
  /\ UNCHANGED <<gameVars, fileVars, lock, cmd, unitVars, looked>>

\* A request refused before anything is written: the unit is not installed, or
\* the selected backup no longer matches the listing.
SessionRefuse(s) ==
  /\ pc[s] = "body" /\ cmd[s] \in Units
  /\ Hangup(s)
  /\ UNCHANGED <<gameVars, fileVars, jobVars>>

\* systemctl start --no-block: systemd has accepted the job, no more.  A unit
\* that already runs absorbs the request.
SessionEnqueue(s) ==
  LET u == cmd[s] IN
  /\ pc[s] = "enqueue"
  /\ \/ /\ job' = [job EXCEPT ![u] = job[u] \/ unit[u] = "inactive"]
        /\ UNCHANGED jobfile
     \/ /\ CallFails
        /\ Record(u, "interrupted")
        /\ UNCHANGED job
  /\ Hangup(s)
  /\ UNCHANGED <<gameVars, fileVars, unit, nextId, looked>>

-----------------------------------------------------------------------------
(* The update and restore workers, run by systemd.                          *)

\* The worker goes on to its next stage after recording the phase.
Advance(u, label, phase) ==
  /\ Goto(u, label)
  /\ Record(u, phase)
  /\ UNCHANGED lock

\* The worker records how the job ended and exits.
Finish(u, phase) ==
  /\ Leave(u)
  /\ Record(u, phase)

\* Mutant: flock without a timeout.
WorkerLockForever(u) ==
  /\ pc[u] = "lockwait"
  /\ lock = Free /\ lock' = u /\ Goto(u, "begin")
  /\ UNCHANGED <<gameVars, fileVars, cmd, jobVars>>

\* flock -w 60: the worker waits for the lock, but not for ever.
WorkerLock(u) ==
  /\ pc[u] = "lockwait"
  /\ \/ lock = Free /\ lock' = u /\ Goto(u, "begin")
     \/ lock # Free /\ Leave(u)
  /\ UNCHANGED <<gameVars, fileVars, cmd, jobVars>>

\* Under the lock, the worker looks for the other job and for the marker.
UpdateBegin ==
  /\ pc["update"] = "begin"
  /\ \/ /\ ~block /\ Overlooked("restore")
        /\ Advance("update", "checking", "checking")
     \/ RestoreActive /\ Leave("update") /\ UNCHANGED jobfile

RestoreBegin ==
  /\ pc["restore"] = "begin"
  /\ \/ /\ ~block /\ Overlooked("update")
        /\ Advance("restore", "checking", "checking")
     \/ (block \/ UpdateActive) /\ Finish("restore", "interrupted")

WorkerBegin(u) ==
  /\ IF u = "update" THEN UpdateBegin ELSE RestoreBegin
  /\ looked' = [looked EXCEPT ![u] = FALSE]
  /\ UNCHANGED <<gameVars, fileVars, cmd, unitVars, nextId>>

\* Mutant: a query that gets no answer counts as nobody there.
SeenEmptyWithoutAnswer == game \in Down \/ game = "active"

\* The checks before a stop: the game is down, or its query answers zero.
SeenEmpty == game \in Down \/ (game = "active" /\ ~crowd)

\* Somebody is connected, the query got no answer, or the unit is in between.
SeenOtherwise == game \notin Down \/ CallFails

\* A call that raises in the second check of a restore counts as an archive that
\* could not be validated.
CheckRefusals(u) ==
  IF u = "update" /\ game \in {"activating", "deactivating"}
  THEN {"failed_stop"}
  ELSE {"refused_players"} \cup {p \in {"invalid_backup"} : pc[u] = "rechecking" /\ CallFails}

WorkerCheck(u) ==
  /\ pc[u] \in {"checking", "rechecking"}
  /\ \/ /\ SeenEmpty
        /\ looked' = [looked EXCEPT ![u] = ~crowd]
        /\ IF u = "restore" /\ pc[u] = "checking"
           THEN Advance(u, "validating", "validating")
           ELSE Advance(u, "stopping", "stopping")
     \/ /\ SeenOtherwise
        /\ \E phase \in CheckRefusals(u) : Finish(u, phase)
        /\ UNCHANGED looked
  /\ UNCHANGED <<gameVars, fileVars, cmd, unitVars, nextId>>

\* prepare_archive: copy, verify and extract into the staging directory.  It
\* takes long, so what was seen of the players no longer counts.
RestoreValidate ==
  /\ pc["restore"] = "validating"
  /\ \/ /\ world = "present"
        /\ Advance("restore", "rechecking", "validating")
     \/ Finish("restore", "invalid_backup")
  /\ looked' = [looked EXCEPT !["restore"] = FALSE]
  /\ UNCHANGED <<gameVars, fileVars, cmd, unitVars, nextId>>

\* Mutant: is-active is asked once more instead of the state.
ReallyDownByIsActive == game # "active"

\* What both workers require before they touch anything.
ReallyDown == game \in Down

\* Mutant: an update that finds the game down skips the backup.
AfterStopSkippingBackup(u) ==
  IF u = "update" THEN Advance(u, "downloading", "downloading")
                  ELSE Advance(u, "backup", "backup")

AfterStop(u) == Advance(u, "backup", "backup")

\* The update stops the game through cmd_shutdown, which leaves anything but an
\* active game alone; the restore calls systemctl stop whatever the state is.
WorkerStop(u) ==
  /\ pc[u] = "stopping"
  /\ \/ GameStopping /\ Goto(u, "waiting") /\ UNCHANGED <<lock, jobfile>>
     \/ ReallyDown /\ AfterStop(u) /\ UNCHANGED gameVars
     \/ /\ u = "update" /\ game \in {"activating", "deactivating"}
        /\ Finish(u, "failed_stop")
        /\ UNCHANGED gameVars
     \/ /\ u = "restore" /\ game = "activating"
        /\ game' = "inactive" /\ UNCHANGED crowd
        /\ AfterStop(u)
     \/ /\ u = "restore" /\ game = "deactivating"
        /\ Goto(u, "waiting")
        /\ UNCHANGED <<gameVars, lock, jobfile>>
     \/ CallFails /\ Finish(u, "failed_stop") /\ UNCHANGED gameVars
  /\ UNCHANGED <<fileVars, cmd, unitVars, nextId, looked>>

\* The stop returned; only a unit that is really down lets the job go on.
WorkerStopped(u) ==
  /\ pc[u] = "waiting"
  /\ game # "deactivating"
  /\ IF ReallyDown THEN AfterStop(u) ELSE Finish(u, "failed_stop")
  /\ UNCHANGED <<gameVars, fileVars, cmd, unitVars, nextId, looked>>

\* gameserver-backup for an update, safety_backup for a restore.
WorkerBackup(u) ==
  /\ pc[u] = "backup"
  /\ \/ /\ world = "present"
        /\ IF u = "update" THEN Advance(u, "downloading", "downloading")
                           ELSE Advance(u, "mark", "restoring")
     \/ /\ world = "missing" \/ CallFails
        /\ Finish(u, "failed_backup")
  /\ UNCHANGED <<gameVars, fileVars, cmd, unitVars, nextId, looked>>

UpdateDownload ==
  /\ pc["update"] = "downloading"
  /\ \/ Advance("update", "starting", "starting")
     \/ CallFails /\ Finish("update", "failed_download")
  /\ UNCHANGED <<gameVars, fileVars, cmd, unitVars, nextId, looked>>

WorkerStart(u) ==
  /\ pc[u] = "starting"
  /\ \/ GameUp /\ Goto(u, "awaiting") /\ UNCHANGED <<lock, jobfile>>
     \/ CallFails /\ Finish(u, "failed_start") /\ UNCHANGED gameVars
  /\ UNCHANGED <<fileVars, cmd, unitVars, nextId, looked>>

\* Up to 60 polls: the unit is active and the game answers, or it is given up.
WorkerAwait(u) ==
  /\ pc[u] = "awaiting"
  /\ \/ game = "active" /\ Finish(u, "succeeded")
     \/ Finish(u, "failed_start")
  /\ UNCHANGED <<gameVars, fileVars, cmd, unitVars, nextId, looked>>

-----------------------------------------------------------------------------
(* switch_world.  Any call may fail before or after it took effect: a rename *)
(* can be done and the fsync that follows it fail.                           *)

\* Mutant: the world is switched without the marker.
SwitchMarkWithoutMarker ==
  /\ pc["restore"] = "mark"
  /\ Advance("restore", "aside", "restoring")
  /\ UNCHANGED <<world, block>>

\* The marker is written; everything up to it may fail.
SwitchMark ==
  /\ pc["restore"] = "mark"
  /\ \/ block' = TRUE /\ Advance("restore", "aside", "restoring")
     \/ CallFails /\ block' \in BOOLEAN /\ Finish("restore", "failed_restore")
  /\ UNCHANGED world

\* WORLD.rename(old) stands outside the try: its failure is not rolled back.
SwitchAside ==
  /\ pc["restore"] = "aside"
  /\ \/ world' = "missing" /\ Advance("restore", "swap", "restoring")
     \/ /\ CallFails
        /\ world' \in {world, "missing"}
        /\ Finish("restore", "failed_restore")
  /\ UNCHANGED block

SwitchIn ==
  /\ pc["restore"] = "swap"
  /\ \/ world' = "present" /\ Advance("restore", "unmark", "restoring")
     \/ /\ CallFails
        /\ world' \in {"missing", "present"}
        /\ Advance("restore", "undo", "restoring")
  /\ UNCHANGED block

\* old.rename(WORLD) fails when the new world is already in place.
SwitchUndo ==
  /\ pc["restore"] = "undo"
  /\ \/ /\ world = "missing"
        /\ world' = "present"
        /\ Advance("restore", "undone", "restoring")
     \/ /\ world' \in {world, "present"}
        /\ Finish("restore", "failed_restore")
  /\ UNCHANGED block

SwitchUndone ==
  /\ pc["restore"] = "undone"
  /\ block' = FALSE \/ (CallFails /\ block' = block)
  /\ Finish("restore", "failed_restore")
  /\ UNCHANGED world

\* Mutant: the stage "starting" is not recorded.
SwitchUnmarkSilently ==
  /\ pc["restore"] = "unmark"
  /\ block' = FALSE
  /\ Advance("restore", "starting", "restoring")
  /\ UNCHANGED world

SwitchUnmark ==
  /\ pc["restore"] = "unmark"
  /\ \/ block' = FALSE /\ Advance("restore", "starting", "starting")
     \/ CallFails /\ block' \in BOOLEAN /\ Finish("restore", "failed_restore")
  /\ UNCHANGED world

SwitchWorld ==
  /\ \/ SwitchMark \/ SwitchAside \/ SwitchIn
     \/ SwitchUndo \/ SwitchUndone \/ SwitchUnmark
  /\ UNCHANGED <<gameVars, cmd, unitVars, nextId, looked>>

-----------------------------------------------------------------------------
(* systemd, the game, its players, the machine and its owner.                *)

\* The worker is killed (TimeoutStartSec), or its shell exits on an error it
\* does not handle: no handler runs, the phase stays as it was.
WorkerKilled(u) ==
  /\ "kill" \in Faults
  /\ pc[u] # "idle"
  /\ Leave(u)
  /\ UNCHANGED <<gameVars, fileVars, cmd, jobVars>>

UnitRuns(u) ==
  /\ job[u] /\ unit[u] = "inactive"
  /\ unit' = [unit EXCEPT ![u] = "activating"]
  /\ job' = [job EXCEPT ![u] = FALSE]
  /\ Goto(u, "lockwait")
  /\ UNCHANGED <<gameVars, fileVars, lock, cmd, jobfile, nextId, looked>>

\* systemd notices that the worker is gone.
UnitSettles(u) ==
  /\ unit[u] = "activating" /\ pc[u] = "idle"
  /\ unit' = [unit EXCEPT ![u] = "inactive"]
  /\ UNCHANGED <<gameVars, fileVars, lock, pc, cmd, job, jobfile, nextId, looked>>

\* Restart=on-failure: a crash is followed by a restart after RestartSec.
GameCrashes ==
  /\ "crash" \in Faults
  /\ game = "active"
  /\ game' = "activating"
  /\ crowd' = FALSE

GameRestarts ==
  /\ game = "activating"
  /\ game' = "active"
  /\ UNCHANGED crowd

\* Mutant: SubState where ActiveState is meant.
GameStopsDead ==
  /\ game = "deactivating"
  /\ game' = "dead"
  /\ crowd' = FALSE

\* The stop ends: saved and exited, or killed after TimeoutStopSec.
GameStops ==
  /\ game = "deactivating"
  /\ game' \in Down
  /\ crowd' = FALSE

PlayersComeOrGo ==
  /\ game = "active"
  /\ crowd' = ~crowd
  /\ UNCHANGED game

GameStep ==
  /\ GameCrashes \/ GameRestarts \/ GameStops \/ PlayersComeOrGo
  /\ UNCHANGED <<fileVars, lock, pc, cmd, jobVars>>

PowerLoss == "power" \in Faults /\ Reboot

\* The owner puts a world back and then removes the marker.
OwnerRepairs ==
  /\ block /\ unit["restore"] = "inactive"
  /\ world' = "present"
  /\ block' = FALSE
  /\ UNCHANGED <<gameVars, lock, pc, cmd, jobVars>>

-----------------------------------------------------------------------------

SessionStep(s) ==
  \/ TakeLock(s) \/ Recheck(s)
  \/ SessionStart(s) \/ SessionStop(s) \/ SessionStopped(s)
  \/ SessionBackup(s) \/ SessionBackedUp(s) \/ SessionPoweroff(s)
  \/ SessionQueue(s) \/ SessionRefuse(s) \/ SessionEnqueue(s)

WorkerStep(u) ==
  \/ WorkerLock(u) \/ WorkerBegin(u) \/ WorkerCheck(u) \/ WorkerStop(u)
  \/ WorkerStopped(u) \/ WorkerBackup(u) \/ WorkerStart(u) \/ WorkerAwait(u)

JobStep == RestoreValidate \/ UpdateDownload \/ SwitchWorld

Next ==
  \/ \E s \in Sessions : (\E c \in AllCommands : Arrive(s, c)) \/ SessionStep(s)
  \/ \E u \in Units : WorkerStep(u) \/ WorkerKilled(u) \/ UnitRuns(u) \/ UnitSettles(u)
  \/ JobStep
  \/ GameStep
  \/ PowerLoss
  \/ OwnerRepairs

Spec == Init /\ [][Next]_vars

\* systemd runs what it has accepted, waits for no worker longer than
\* TimeoutStartSec and for no stopping game longer than TimeoutStopSec; the
\* calls a script makes return.  Nobody is obliged to send a command, to
\* connect, to crash or to repair anything.
WorkerProgress(u) ==
  \/ WorkerStep(u)
  \/ u = "update" /\ UpdateDownload
  \/ u = "restore" /\ (RestoreValidate \/ SwitchWorld)

Fairness ==
  /\ \A s \in Sessions : WF_vars(SessionStep(s))
  /\ \A u \in Units : /\ WF_vars(WorkerProgress(u))
                      /\ WF_vars(UnitRuns(u))
                      /\ WF_vars(UnitSettles(u))
  /\ WF_vars(GameStep /\ game = "deactivating")

FairSpec == Spec /\ Fairness

-----------------------------------------------------------------------------
(* Properties. *)

\* A missing world is always covered by the marker, and while the marker is
\* there the game is down: not running, not about to restart, not stopping.
\* This holds through kills, power loss and failed calls in switch_world.
RestoreBlockProtects ==
  /\ world = "missing" => block
  /\ block => game \in Down

\* The stages of a job that copy, replace or move game data.
OfflineLabels == {"backup", "downloading", "mark", "aside", "swap", "undo",
                  "undone", "unmark", "starting"}

\* Whatever sessions and crashes do, an update or restore only touches game
\* data while the game is down; no restart brings it up in between.
StagesRunOffline ==
  \A u \in Units : pc[u] \in OfflineLabels => game \in Down

\* The stages inside switch_world.
SwitchLabels == {"mark", "aside", "swap", "undo", "undone", "unmark"}

\* A backup taken over SSH never reads a world that is missing or that a
\* restore is just replacing, not even after a restore died half way.
ArchiveSeesWholeWorld ==
  \A s \in Sessions :
    pc[s] = "archiving" => world = "present" /\ pc["restore"] \notin SwitchLabels

\* Whenever the marker is there, the restore state a reader gets says that a
\* restore is at the switch, was interrupted there, or failed there.
BlockIsReported ==
  block => jobfile["restore"].phase \in {"restoring", "failed_restore"}

\* A job stops a running game only if it found it empty when it last looked,
\* for a restore after the archive was validated.
EmptyBeforeStop ==
  [][\A u \in Units :
       pc[u] = "stopping" /\ game = "active" /\ game' = "deactivating"
         /\ pc'[u] = "waiting"
       => looked[u]]_vars

\* Both jobs keep the promise of JobPipeline.
StageFailures == [queued      |-> {"interrupted"},
                  interrupted |-> {"interrupted"},
                  checking    |-> {"refused_players", "failed_stop"},
                  validating  |-> {"invalid_backup", "refused_players"},
                  stopping    |-> {"failed_stop"},
                  backup      |-> {"failed_backup"},
                  downloading |-> {"failed_download"},
                  restoring   |-> {"failed_restore"},
                  starting    |-> {"failed_start"}]

UpdateStages  == <<"checking", "stopping", "backup", "downloading", "starting">>
RestoreStages == <<"checking", "validating", "stopping", "backup", "restoring",
                   "starting">>

UpdateJob == INSTANCE JobPipeline WITH
  Stages   <- UpdateStages,
  Failures <- StageFailures,
  id       <- jobfile["update"].id,
  phase    <- jobfile["update"].phase,
  running  <- lock = "update"

RestoreJob == INSTANCE JobPipeline WITH
  Stages   <- RestoreStages,
  Failures <- StageFailures,
  id       <- jobfile["restore"].id,
  phase    <- jobfile["restore"].phase,
  running  <- lock = "restore"

\* An update runs checking, stopping, backup, downloading, starting in this
\* order, never skips one, and reports the failure of the stage it was in.
UpdateIsPipeline == UpdateJob!Spec

\* The same for a restore, with validating before and restoring after.
RestoreIsPipeline == RestoreJob!Spec

\* What the holder of operation.lock runs and the state of the game, as OneAtATime
\* has them.
Runs == IF lock \in Sessions THEN cmd[lock]
        ELSE IF lock \in Units THEN "worker" ELSE "none"

GameSeen == CASE game \in Down         -> "down"
              [] game = "active"       -> "up"
              [] game = "activating"   -> "restarting"
              [] OTHER                 -> "stopping"

\* The numbers of the latest requests.
Asked == [u \in Units |-> jobfile[u].id]

Turns == INSTANCE OneAtATime WITH
  LosesPower <- "power" \in Faults,
  holder     <- lock,
  command    <- Runs,
  game       <- GameSeen,
  requested  <- Asked

\* Whatever sessions, workers, kills and power losses come together: one command
\* or job at a time, from its lock to its end, starts or stops the game or asks
\* for a job, each only what it is for.
CommandsTakeTurns == Turns!Spec

\* Every job that systemd accepted comes to an end, also when sessions keep
\* taking the lock: no status stays "running" for ever.
JobsEnd ==
  \A u \in Units :
    job[u] \/ unit[u] = "activating" ~> ~job[u] /\ unit[u] = "inactive"

\* Nobody keeps operation.lock: a session or worker that has it gives it back.
LockReleased == \A p \in Procs : lock = p ~> lock # p

\* What docs/UPDATE_SETUP.md says of the requests: while an update is accepted
\* and not over, another one is refused.
DuplicateUpdateRefused ==
  [][jobfile'["update"].id # jobfile["update"].id
       => ~job["update"] /\ unit["update"] = "inactive"]_vars

=============================================================================
