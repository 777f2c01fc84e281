----------------------------- MODULE PipelineProofs -----------------------------
(***************************************************************************)
(* Proofs that both jobs of ServerPC implement JobPipeline, for any number *)
(* of sessions and requests and any faults: what the state file says is    *)
(* where the worker is, also while requests come in between.               *)
(***************************************************************************)
EXTENDS ServerPCProofs, Sequences

\* The phase that is recorded while the worker is at a label.
PhaseAt ==
  [checking    |-> "checking",    validating |-> "validating", rechecking |-> "validating",
   stopping    |-> "stopping",    waiting    |-> "stopping",   backup     |-> "backup",
   downloading |-> "downloading", mark       |-> "restoring",  aside      |-> "restoring",
   swap        |-> "restoring",   undo       |-> "restoring",  undone     |-> "restoring",
   unmark      |-> "restoring",   starting   |-> "starting",   awaiting   |-> "starting"]

\* A job that has not begun is queued or was rejected, and one that has begun is
\* where its file says; a request that is being handed to systemd is queued.
PhaseFits ==
  /\ \A u \in Units :
       /\ job[u] => unit[u] = "inactive"
       /\ job[u] \/ pc[u] \in {"lockwait", "begin"} =>
            jobfile[u].phase \in {"queued", "interrupted"}
       /\ pc[u] \in DOMAIN PhaseAt => jobfile[u].phase = PhaseAt[pc[u]]
       /\ jobfile[u].id < nextId
       /\ lock = u => pc[u] \in WorkerInside
       /\ pc["update"] # "validating" /\ pc["restore"] # "downloading"
  /\ \A s \in Sessions :
       pc[s] = "enqueue" => cmd[s] \in Units /\ jobfile[cmd[s]].phase = "queued"

-----------------------------------------------------------------------------

\* PhaseAt, label by label.
LEMMA PhaseAtIs ==
  /\ DOMAIN PhaseAt = {"checking", "validating", "rechecking", "stopping", "waiting",
                       "backup", "downloading", "mark", "aside", "swap", "undo", "undone",
                       "unmark", "starting", "awaiting"}
  /\ PhaseAt["checking"] = "checking"
  /\ PhaseAt["validating"] = "validating" /\ PhaseAt["rechecking"] = "validating"
  /\ PhaseAt["stopping"] = "stopping" /\ PhaseAt["waiting"] = "stopping"
  /\ PhaseAt["backup"] = "backup" /\ PhaseAt["downloading"] = "downloading"
  /\ PhaseAt["mark"] = "restoring" /\ PhaseAt["aside"] = "restoring"
  /\ PhaseAt["swap"] = "restoring" /\ PhaseAt["undo"] = "restoring"
  /\ PhaseAt["undone"] = "restoring" /\ PhaseAt["unmark"] = "restoring"
  /\ PhaseAt["starting"] = "starting" /\ PhaseAt["awaiting"] = "starting"
BY DEF PhaseAt

\* Every step keeps file and worker together.
LEMMA PhaseStep == IInv /\ PhaseFits /\ Next => PhaseFits'
<1> SUFFICES ASSUME TypeOK, LabelsFit, LockOwned, PhaseFits, Next
             PROVE  PhaseFits'
  BY DEF IInv, Core
<1> USE ConstantsAssumption
<1> USE PhaseAtIs
<1> USE DEF PhaseFits, LabelsFit, LockOwned, SessionInside, WorkerInside, TypeOK, Procs,
        Units, SessionLabels, WorkerLabels, Free, Goto, Leave, Hangup, CallFails, Record,
        gameVars, fileVars, unitVars, jobVars
<1>1. ASSUME NEW s \in Sessions, NEW c \in AllCommands, Arrive(s, c)
      PROVE PhaseFits'
  BY <1>1 DEF Arrive
<1>2. ASSUME NEW s \in Sessions, SessionStep(s)
      PROVE PhaseFits'
  <2>1. CASE TakeLock(s)
    BY <2>1 DEF TakeLock
  <2>2. CASE Recheck(s)
    BY <2>2 DEF Recheck
  <2>3. CASE SessionStart(s)
    BY <2>3 DEF SessionStart, GameUp
  <2>4. CASE SessionStop(s)
    BY <2>4 DEF SessionStop, GameStopping, StopSucceeds
  <2>5. CASE SessionStopped(s)
    BY <2>5 DEF SessionStopped, StopSucceeds
  <2>6. CASE SessionBackup(s)
    BY <2>6 DEF SessionBackup
  <2>7. CASE SessionBackedUp(s)
    BY <2>7 DEF SessionBackedUp
  <2>8. CASE SessionPoweroff(s)
    BY <2>8 DEF SessionPoweroff, Reboot
  <2>9. CASE SessionQueue(s)
    BY <2>9 DEF SessionQueue
  <2>10. CASE SessionRefuse(s)
    BY <2>10 DEF SessionRefuse
  <2>11. CASE SessionEnqueue(s)
    BY <2>11 DEF SessionEnqueue
  <2> QED
    BY <1>2, <2>1, <2>2, <2>3, <2>4, <2>5, <2>6, <2>7, <2>8, <2>9, <2>10,
       <2>11 DEF SessionStep
<1>3. ASSUME NEW u \in Units, WorkerStep(u)
      PROVE PhaseFits'
  <2> USE DEF Advance, Finish
  <2>1. CASE WorkerLock(u)
    BY <2>1 DEF WorkerLock
  <2>2. CASE WorkerBegin(u)
    BY <2>2 DEF WorkerBegin, UpdateBegin, RestoreBegin
  <2>3. CASE WorkerCheck(u)
    BY <2>3 DEF WorkerCheck, SeenEmpty, CheckRefusals
  <2>4. CASE WorkerStop(u)
    BY <2>4 DEF WorkerStop, AfterStop, ReallyDown, GameStopping
  <2>5. CASE WorkerStopped(u)
    BY <2>5 DEF WorkerStopped, AfterStop, ReallyDown
  <2>6. CASE WorkerBackup(u)
    BY <2>6 DEF WorkerBackup
  <2>7. CASE WorkerStart(u)
    BY <2>7 DEF WorkerStart, GameUp
  <2>8. CASE WorkerAwait(u)
    BY <2>8 DEF WorkerAwait
  <2> QED
    BY <1>3, <2>1, <2>2, <2>3, <2>4, <2>5, <2>6, <2>7, <2>8 DEF WorkerStep
<1>4. ASSUME NEW u \in Units, WorkerKilled(u) \/ UnitRuns(u) \/ UnitSettles(u)
      PROVE PhaseFits'
  BY <1>4 DEF WorkerKilled, UnitRuns, UnitSettles
<1>5. CASE JobStep
  <2> USE DEF Advance, Finish
  <2>1. CASE RestoreValidate
    BY <2>1 DEF RestoreValidate
  <2>2. CASE UpdateDownload
    BY <2>2 DEF UpdateDownload
  <2>3. CASE SwitchWorld
    BY <2>3 DEF SwitchWorld, SwitchMark, SwitchAside, SwitchIn, SwitchUndo,
                SwitchUndone, SwitchUnmark
  <2> QED
    BY <1>5, <2>1, <2>2, <2>3 DEF JobStep
<1>6. CASE GameStep
  BY <1>6 DEF GameStep, GameCrashes, GameRestarts, GameStops, PlayersComeOrGo
<1>7. CASE PowerLoss
  BY <1>7 DEF PowerLoss, Reboot
<1>8. CASE OwnerRepairs
  BY <1>8 DEF OwnerRepairs
<1> QED
  BY <1>1, <1>2, <1>3, <1>4, <1>5, <1>6, <1>7, <1>8 DEF Next

-----------------------------------------------------------------------------
(* The moves of one job.                                                     *)

Successors(u) ==
  IF u = "update"
  THEN {<<"checking", "stopping">>, <<"stopping", "backup">>, <<"backup", "downloading">>,
        <<"downloading", "starting">>}
  ELSE {<<"checking", "validating">>, <<"validating", "stopping">>, <<"stopping", "backup">>,
        <<"backup", "restoring">>, <<"restoring", "starting">>}

\* What JobPipeline allows, in terms of the file and the lock.
Rests(u) == jobfile'[u] = jobfile[u] /\ (lock' = u <=> lock = u)

IsRequested(u) == /\ lock # u /\ lock' # u
                  /\ jobfile'[u].id > jobfile[u].id /\ jobfile'[u].phase = "queued"

IsRejected(u) == /\ lock # u /\ lock' # u
                 /\ jobfile'[u].id = jobfile[u].id
                 /\ jobfile[u].phase = "queued" /\ jobfile'[u].phase = "interrupted"

IsRun(u) == /\ lock # u /\ lock' = u /\ jobfile'[u] = jobfile[u]
            /\ jobfile[u].phase \in {"queued", "interrupted"}

GoesOn(u) == /\ lock = u /\ lock' = u /\ jobfile'[u].id = jobfile[u].id
             /\ \/ /\ jobfile[u].phase \in {"queued", "interrupted"}
                   /\ jobfile'[u].phase = "checking"
                \/ <<jobfile[u].phase, jobfile'[u].phase>> \in Successors(u)

IsOver(u) == /\ lock = u /\ lock' # u /\ jobfile'[u].id = jobfile[u].id
             /\ \/ jobfile'[u] = jobfile[u]
                \/ /\ jobfile[u].phase \in DOMAIN StageFailures
                   /\ jobfile'[u].phase \in StageFailures[jobfile[u].phase]
                \/ jobfile[u].phase = "starting" /\ jobfile'[u].phase = "succeeded"

Moves(u) == \/ Rests(u) \/ IsRequested(u) \/ IsRejected(u) \/ IsRun(u)
            \/ GoesOn(u) \/ IsOver(u)

\* Every stage has failures of its own.
LEMMA FailuresAre ==
  /\ DOMAIN StageFailures = {"queued", "interrupted", "checking", "validating", "stopping",
                             "backup", "downloading", "restoring", "starting"}
  /\ StageFailures["queued"] = {"interrupted"}
  /\ StageFailures["interrupted"] = {"interrupted"}
  /\ StageFailures["checking"] = {"refused_players", "failed_stop"}
  /\ StageFailures["validating"] = {"invalid_backup", "refused_players"}
  /\ StageFailures["stopping"] = {"failed_stop"}
  /\ StageFailures["backup"] = {"failed_backup"}
  /\ StageFailures["downloading"] = {"failed_download"}
  /\ StageFailures["restoring"] = {"failed_restore"}
  /\ StageFailures["starting"] = {"failed_start"}
BY DEF StageFailures

\* Recording a phase changes the phase of one job.
LEMMA Recorded ==
  ASSUME TypeOK, NEW u \in Units, NEW p, Record(u, p)
  PROVE  /\ jobfile'[u].phase = p /\ jobfile'[u].id = jobfile[u].id
         /\ \A v \in Units \ {u} : jobfile'[v] = jobfile[v]
<1>1. jobfile[u] = [id |-> jobfile[u].id, phase |-> jobfile[u].phase]
  BY DEF TypeOK
<1>2. jobfile'[u] = [jobfile[u] EXCEPT !.phase = p]
  BY DEF Record, TypeOK
<1>3. \A v \in Units \ {u} : jobfile'[v] = jobfile[v]
  BY DEF Record, TypeOK
<1> QED
  BY <1>1, <1>2, <1>3

\* A worker goes through its stages and ends in a failure of its stage.
LEMMA WorkerMoves ==
  ASSUME IInv, PhaseFits, NEW u \in Units,
         \/ WorkerStep(u) \/ WorkerKilled(u)
         \/ u = "update" /\ UpdateDownload
         \/ u = "restore" /\ (RestoreValidate \/ SwitchWorld)
  PROVE  Moves(u) /\ \A v \in Units \ {u} : Rests(v)
<1> DEFINE ph == jobfile[u].phase
<1>0. /\ TypeOK
      /\ lock = u => pc[u] \in WorkerInside
      /\ pc[u] \in WorkerInside => lock = u
      /\ pc[u] \in DOMAIN PhaseAt => ph = PhaseAt[pc[u]]
      /\ pc[u] \in {"lockwait", "begin"} => ph \in {"queued", "interrupted"}
      /\ pc["update"] # "rechecking" /\ pc["update"] # "validating"
      /\ Free \notin Units
  BY DEF IInv, Core, LabelsFit, LockOwned, PhaseFits, Free, Units
<1>1. ASSUME UNCHANGED jobfile, lock' = lock PROVE Moves(u) /\ \A v \in Units \ {u} : Rests(v)
  BY <1>1 DEF Moves, Rests
<1>2. ASSUME UNCHANGED jobfile, Leave(u), lock = u
      PROVE  Moves(u) /\ \A v \in Units \ {u} : Rests(v)
  BY <1>0, <1>2 DEF Moves, IsOver, Leave, Rests, Units, Free
<1>3. ASSUME NEW label, NEW p, lock = u, Advance(u, label, p),
             \/ p = ph
             \/ ph \in {"queued", "interrupted"} /\ p = "checking"
             \/ <<ph, p>> \in Successors(u)
      PROVE  Moves(u) /\ \A v \in Units \ {u} : Rests(v)
  <2>1. Record(u, p) /\ lock' = lock
    BY <1>3 DEF Advance
  <2>2. /\ jobfile'[u].phase = p /\ jobfile'[u].id = jobfile[u].id
        /\ \A v \in Units \ {u} : jobfile'[v] = jobfile[v]
    BY <1>0, <2>1, Recorded
  <2>3. CASE p = ph
    <3>1. jobfile'[u] = jobfile[u]
      BY <1>0, <2>1, <2>3 DEF Record, TypeOK
    <3> QED
      BY <2>1, <2>2, <3>1 DEF Moves, Rests
  <2>4. CASE p # ph
    BY <1>3, <2>1, <2>2, <2>4 DEF Moves, GoesOn, Rests
  <2> QED
    BY <2>3, <2>4
<1>4. ASSUME NEW p, lock = u, Finish(u, p),
             \/ ph \in DOMAIN StageFailures /\ p \in StageFailures[ph]
             \/ ph = "starting" /\ p = "succeeded"
      PROVE  Moves(u) /\ \A v \in Units \ {u} : Rests(v)
  <2>1. Record(u, p) /\ lock' = Free
    BY <1>4 DEF Finish, Leave
  <2>2. /\ jobfile'[u].phase = p /\ jobfile'[u].id = jobfile[u].id
        /\ \A v \in Units \ {u} : jobfile'[v] = jobfile[v]
    BY <1>0, <2>1, Recorded
  <2> QED
    BY <1>0, <1>4, <2>1, <2>2 DEF Moves, IsOver, Rests
<1> USE PhaseAtIs, FailuresAre DEF WorkerInside, WorkerLabels
<1> HIDE DEF ph
<1>5. CASE WorkerLock(u)
  <2>1. CASE lock = Free /\ lock' = u
    BY <1>0, <1>5, <2>1 DEF WorkerLock, Moves, IsRun, Rests, jobVars, ph, Units, Free
  <2>2. CASE lock # Free /\ Leave(u)
    BY <1>0, <1>1, <1>5, <2>2 DEF WorkerLock, Leave, jobVars
  <2> QED
    BY <1>5, <2>1, <2>2 DEF WorkerLock
<1>6. CASE WorkerBegin(u)
  <2>1. pc[u] = "begin" /\ lock = u
    BY <1>0, <1>6 DEF WorkerBegin, UpdateBegin, RestoreBegin, Units
  <2>2. \/ Advance(u, "checking", "checking")
        \/ Leave(u) /\ UNCHANGED jobfile
        \/ Finish(u, "interrupted")
    BY <1>6 DEF WorkerBegin, UpdateBegin, RestoreBegin, Units
  <2>3. ph \in {"queued", "interrupted"}
    BY <1>0, <2>1
  <2> QED
    BY <1>2, <1>3, <1>4, <2>1, <2>2, <2>3
<1>7. CASE WorkerCheck(u)
  <2>1. pc[u] \in {"checking", "rechecking"} /\ lock = u
    BY <1>0, <1>7 DEF WorkerCheck
  <2>2. ph = PhaseAt[pc[u]] /\ (pc[u] = "rechecking" => u = "restore")
    BY <1>0, <2>1 DEF Units
  <2>3. \/ u = "restore" /\ pc[u] = "checking" /\ Advance(u, "validating", "validating")
        \/ (u = "update" \/ pc[u] = "rechecking") /\ Advance(u, "stopping", "stopping")
        \/ \E p \in CheckRefusals(u) : Finish(u, p)
    BY <1>7, <2>1 DEF WorkerCheck, Units
  <2>4. \A p \in CheckRefusals(u) : ph \in DOMAIN StageFailures /\ p \in StageFailures[ph]
    BY <2>1, <2>2 DEF CheckRefusals
  <2>5. /\ u = "restore" => <<"checking", "validating">> \in Successors(u)
                            /\ <<"validating", "stopping">> \in Successors(u)
        /\ u = "update" => <<"checking", "stopping">> \in Successors(u)
    BY DEF Successors
  <2>6. CASE u = "restore" /\ pc[u] = "checking" /\ Advance(u, "validating", "validating")
    <3>1. ph = "checking"
      BY <2>2, <2>6
    <3> QED
      BY <1>3, <2>1, <2>5, <2>6, <3>1
  <2>7. CASE (u = "update" \/ pc[u] = "rechecking") /\ Advance(u, "stopping", "stopping")
    <3>1. <<ph, "stopping">> \in Successors(u)
      BY <2>1, <2>2, <2>5, <2>7
    <3> QED
      BY <1>3, <2>1, <2>7, <3>1
  <2>8. CASE \E p \in CheckRefusals(u) : Finish(u, p)
    BY <1>4, <2>1, <2>4, <2>8
  <2> QED
    BY <2>3, <2>6, <2>7, <2>8
<1>8. CASE WorkerStop(u) \/ WorkerStopped(u)
  <2>1. pc[u] \in {"stopping", "waiting"} /\ lock = u /\ ph = "stopping"
    BY <1>0, <1>8 DEF WorkerStop, WorkerStopped
  <2>2. \/ UNCHANGED <<lock, jobfile>> \/ Advance(u, "backup", "backup")
        \/ Finish(u, "failed_stop")
    BY <1>8 DEF WorkerStop, WorkerStopped, AfterStop
  <2>3. <<"stopping", "backup">> \in Successors(u)
    BY DEF Successors
  <2> QED
    BY <1>1, <1>3, <1>4, <2>1, <2>2, <2>3
<1>9. CASE WorkerBackup(u)
  <2>1. pc[u] = "backup" /\ lock = u /\ ph = "backup"
    BY <1>0, <1>9 DEF WorkerBackup
  <2>2. \/ u = "update" /\ Advance(u, "downloading", "downloading")
        \/ u = "restore" /\ Advance(u, "mark", "restoring")
        \/ Finish(u, "failed_backup")
    BY <1>9 DEF WorkerBackup, Units
  <2> QED
    BY <1>3, <1>4, <2>1, <2>2 DEF Successors
<1>10. CASE WorkerStart(u) \/ WorkerAwait(u)
  <2>1. lock = u /\ ph = "starting"
    BY <1>0, <1>10 DEF WorkerStart, WorkerAwait
  <2>2. \/ UNCHANGED <<lock, jobfile>> \/ Finish(u, "failed_start")
        \/ Finish(u, "succeeded")
    BY <1>10 DEF WorkerStart, WorkerAwait
  <2> QED
    BY <1>1, <1>4, <2>1, <2>2
<1>11. CASE WorkerKilled(u)
  <2>1. UNCHANGED jobfile /\ Leave(u)
    BY <1>11 DEF WorkerKilled, jobVars
  <2>2. CASE lock = u
    BY <1>2, <2>1, <2>2
  <2>3. CASE lock # u
    BY <1>1, <2>1, <2>3 DEF Leave
  <2> QED
    BY <2>2, <2>3
<1>12. CASE u = "update" /\ UpdateDownload
  <2>1. lock = u /\ ph = "downloading"
    BY <1>0, <1>12 DEF UpdateDownload
  <2>2. Advance(u, "starting", "starting") \/ Finish(u, "failed_download")
    BY <1>12 DEF UpdateDownload
  <2> QED
    BY <1>3, <1>4, <1>12, <2>1, <2>2 DEF Successors
<1>13. CASE u = "restore" /\ RestoreValidate
  <2>1. lock = u /\ ph = "validating"
    BY <1>0, <1>13 DEF RestoreValidate
  <2>2. Advance(u, "rechecking", "validating") \/ Finish(u, "invalid_backup")
    BY <1>13 DEF RestoreValidate
  <2> QED
    BY <1>3, <1>4, <2>1, <2>2
<1>14. CASE u = "restore" /\ SwitchWorld
  <2>1. lock = u /\ ph = "restoring"
    BY <1>0, <1>14 DEF SwitchWorld, SwitchMark, SwitchAside, SwitchIn, SwitchUndo,
       SwitchUndone, SwitchUnmark
  <2>2. \/ \E l \in {"aside", "swap", "unmark", "undo", "undone"} : Advance(u, l, "restoring")
        \/ Advance(u, "starting", "starting")
        \/ Finish(u, "failed_restore")
    BY <1>14 DEF SwitchWorld, SwitchMark, SwitchAside, SwitchIn, SwitchUndo,
       SwitchUndone, SwitchUnmark
  <2> QED
    BY <1>3, <1>4, <1>14, <2>1, <2>2 DEF Successors
<1> QED
  BY <1>5, <1>6, <1>7, <1>8, <1>9, <1>10, <1>11, <1>12, <1>13, <1>14 DEF WorkerStep

\* A job that is switched off with the PC stops where it is.
LEMMA RebootMoves ==
  ASSUME Reboot, NEW v \in Units
  PROVE  Moves(v)
<1>1. jobfile' = jobfile /\ lock' # v
  BY DEF Reboot, Free, Units
<1>2. CASE lock = v
  BY <1>1, <1>2 DEF Moves, IsOver
<1>3. CASE lock # v
  BY <1>1, <1>3 DEF Moves, Rests
<1> QED
  BY <1>2, <1>3

\* A session requests a job, or takes a request back, and leaves all else alone.
LEMMA SessionMoves ==
  ASSUME IInv, PhaseFits, NEW s \in Sessions, SessionStep(s), NEW v \in Units
  PROVE  Moves(v)
<1>0. /\ TypeOK
      /\ pc[s] \in SessionInside => lock = s
      /\ pc[s] = "enqueue" => cmd[s] \in Units /\ jobfile[cmd[s]].phase = "queued"
      /\ \A u \in Units : jobfile[u].id < nextId
      /\ s # v /\ Free # v
  BY ConstantsAssumption DEF IInv, Core, LockOwned, PhaseFits, Free, Units
<1>1. ASSUME jobfile' = jobfile, lock # v, lock' # v PROVE Moves(v)
  BY <1>1 DEF Moves, Rests
<1>2. ASSUME jobfile' = jobfile, lock' = lock PROVE Moves(v)
  BY <1>2 DEF Moves, Rests
<1>3. ASSUME jobfile' = jobfile, lock' \in {lock, s}, lock = Free PROVE Moves(v)
  BY <1>0, <1>1, <1>3
<1>4. ASSUME jobfile' = jobfile, Hangup(s) PROVE Moves(v)
  <2>1. lock' = lock \/ (lock = s /\ lock' = Free)
    BY <1>4 DEF Hangup, Leave
  <2> QED
    BY <1>0, <1>1, <1>2, <1>4, <2>1
<1>5. CASE TakeLock(s)
  BY <1>3, <1>4, <1>5 DEF TakeLock, jobVars
<1>6. CASE Recheck(s) \/ SessionStart(s) \/ SessionBackup(s) \/ SessionBackedUp(s)
           \/ SessionRefuse(s)
  BY <1>2, <1>4, <1>6 DEF Recheck, SessionStart, SessionBackup, SessionBackedUp,
     SessionRefuse, jobVars
<1>7. CASE SessionStop(s) \/ SessionStopped(s)
  BY <1>2, <1>4, <1>7 DEF SessionStop, SessionStopped, StopSucceeds, jobVars
<1>8. CASE SessionPoweroff(s)
  BY <1>4, <1>8, RebootMoves DEF SessionPoweroff, jobVars
<1>9. CASE SessionQueue(s)
  <2>1. /\ cmd[s] \in Units /\ lock' = lock
        /\ jobfile' = [jobfile EXCEPT ![cmd[s]] = [id |-> nextId, phase |-> "queued"]]
    BY <1>9 DEF SessionQueue
  <2>2. CASE v = cmd[s]
    <3>1. lock = s
      BY <1>0, <1>9 DEF SessionQueue, SessionInside
    <3>2. jobfile'[v].id = nextId /\ jobfile'[v].phase = "queued"
      BY <1>0, <2>1, <2>2 DEF TypeOK
    <3>3. nextId > jobfile[v].id
      BY <1>0 DEF TypeOK
    <3> QED
      BY <1>0, <2>1, <3>1, <3>2, <3>3 DEF Moves, IsRequested
  <2>3. CASE v # cmd[s]
    BY <1>0, <2>1, <2>3 DEF Moves, Rests, TypeOK
  <2> QED
    BY <2>2, <2>3
<1>10. CASE SessionEnqueue(s)
  <2>1. Hangup(s) /\ lock = s /\ cmd[s] \in Units /\ jobfile[cmd[s]].phase = "queued"
    BY <1>0, <1>10 DEF SessionEnqueue, SessionInside
  <2>2. lock' = Free
    BY <2>1 DEF Hangup, Leave
  <2>3. CASE UNCHANGED jobfile
    BY <1>4, <2>1, <2>3
  <2>4. CASE Record(cmd[s], "interrupted")
    BY <1>0, <2>1, <2>2, <2>4, Recorded DEF Moves, IsRejected, Rests
  <2> QED
    BY <1>10, <2>3, <2>4 DEF SessionEnqueue
<1> QED
  BY <1>5, <1>6, <1>7, <1>8, <1>9, <1>10 DEF SessionStep

\* Whatever happens, each job moves as JobPipeline allows or not at all.
LEMMA EachMoves ==
  IInv /\ PhaseFits /\ [Next]_vars => \A v \in Units : Moves(v)
<1> SUFFICES ASSUME IInv, PhaseFits, [Next]_vars, NEW v \in Units
             PROVE  Moves(v)
  OBVIOUS
<1>1. ASSUME UNCHANGED <<lock, jobfile>> PROVE Moves(v)
  BY <1>1 DEF Moves, Rests
<1>2. ASSUME NEW s \in Sessions, NEW c \in AllCommands, Arrive(s, c)
      PROVE  Moves(v)
  BY <1>1, <1>2 DEF Arrive, jobVars
<1>3. ASSUME NEW s \in Sessions, SessionStep(s) PROVE Moves(v)
  BY <1>3, SessionMoves
<1>4. ASSUME NEW u \in Units, WorkerStep(u) \/ WorkerKilled(u) PROVE Moves(v)
  <2>1. Moves(u) /\ \A w \in Units \ {u} : Rests(w)
    BY <1>4, WorkerMoves
  <2> QED
    BY <2>1 DEF Moves
<1>5. ASSUME NEW u \in Units, UnitRuns(u) \/ UnitSettles(u) PROVE Moves(v)
  BY <1>1, <1>5 DEF UnitRuns, UnitSettles
<1>6. CASE JobStep
  <2>1. CASE UpdateDownload
    <3>1. Moves("update") /\ \A w \in Units \ {"update"} : Rests(w)
      BY <2>1, WorkerMoves DEF Units
    <3> QED
      BY <3>1 DEF Moves
  <2>2. CASE RestoreValidate \/ SwitchWorld
    <3>1. Moves("restore") /\ \A w \in Units \ {"restore"} : Rests(w)
      BY <2>2, WorkerMoves DEF Units
    <3> QED
      BY <3>1 DEF Moves
  <2> QED
    BY <1>6, <2>1, <2>2 DEF JobStep
<1>7. CASE GameStep \/ OwnerRepairs
  BY <1>1, <1>7 DEF GameStep, OwnerRepairs, jobVars
<1>8. CASE PowerLoss
  BY <1>8, RebootMoves DEF PowerLoss
<1>9. CASE UNCHANGED vars
  BY <1>1, <1>9 DEF vars
<1> QED
  BY <1>2, <1>3, <1>4, <1>5, <1>6, <1>7, <1>8, <1>9 DEF Next

-----------------------------------------------------------------------------

\* At the start nobody works and nothing was ever requested.
LEMMA PhaseInit == Init => PhaseFits
BY ConstantsAssumption, PhaseAtIs
DEF Init, PhaseFits, Procs, Units, Free, WorkerInside, WorkerLabels

\* File and worker agree at all times, through kills, power losses and requests
\* that come in between.
THEOREM PhaseInvariance == Spec => [](IInv /\ PhaseFits)
<1>1. IInv /\ PhaseFits /\ [Next]_vars => PhaseFits'
  <2>1. CASE UNCHANGED vars
    BY <2>1 DEF vars, PhaseFits
  <2> QED
    BY <2>1, PhaseStep
<1> QED
  BY <1>1, PhaseInit, Invariance, PTL DEF Spec

\* The stages of an update, one by one.
LEMMA UpdateStagesAre ==
  /\ Len(UpdateStages) = 5
  /\ UpdateStages[1] = "checking" /\ UpdateStages[2] = "stopping"
  /\ UpdateStages[3] = "backup" /\ UpdateStages[4] = "downloading"
  /\ UpdateStages[5] = "starting"
BY DEF UpdateStages

\* The stages of a restore, one by one.
LEMMA RestoreStagesAre ==
  /\ Len(RestoreStages) = 6
  /\ RestoreStages[1] = "checking" /\ RestoreStages[2] = "validating"
  /\ RestoreStages[3] = "stopping" /\ RestoreStages[4] = "backup"
  /\ RestoreStages[5] = "restoring" /\ RestoreStages[6] = "starting"
BY DEF RestoreStages

\* What each job starts from.
LEMMA PipelineInit == Init => UpdateJob!Init /\ RestoreJob!Init
BY DEF Init, UpdateJob!Init, RestoreJob!Init, Free, Units

\* A move of the update is a step of its pipeline.
LEMMA UpdateStep == Moves("update") => [UpdateJob!Next]_(UpdateJob!vars)
<1> SUFFICES ASSUME Moves("update") PROVE [UpdateJob!Next]_(UpdateJob!vars)
  OBVIOUS
<1> USE UpdateStagesAre
<1>1. CASE Rests("update")
  BY <1>1 DEF Rests, UpdateJob!vars
<1>2. CASE IsRequested("update")
  BY <1>2 DEF IsRequested, UpdateJob!Next, UpdateJob!Request
<1>3. CASE IsRejected("update")
  BY <1>3 DEF IsRejected, UpdateJob!Next, UpdateJob!Reject
<1>4. CASE IsRun("update")
  BY <1>4 DEF IsRun, UpdateJob!Next, UpdateJob!Run
<1>5. CASE GoesOn("update")
  <2>1. CASE /\ jobfile["update"].phase \in {"queued", "interrupted"}
             /\ jobfile'["update"].phase = "checking"
    BY <1>5, <2>1 DEF GoesOn, UpdateJob!Next, UpdateJob!FirstStage
  <2>2. CASE <<jobfile["update"].phase, jobfile'["update"].phase>> \in Successors("update")
    <3>1. \E i \in 1..Len(UpdateStages) - 1 : /\ jobfile["update"].phase = UpdateStages[i]
                                              /\ jobfile'["update"].phase = UpdateStages[i + 1]
      BY <2>2 DEF Successors
    <3> QED
      BY <1>5, <3>1 DEF GoesOn, UpdateJob!Next, UpdateJob!NextStage
  <2> QED
    BY <1>5, <2>1, <2>2 DEF GoesOn
<1>6. CASE IsOver("update")
  BY <1>6 DEF IsOver, UpdateJob!Next, UpdateJob!Fail, UpdateJob!Succeed, UpdateJob!Die
<1> QED
  BY <1>1, <1>2, <1>3, <1>4, <1>5, <1>6 DEF Moves

\* A move of the restore is a step of its pipeline.
LEMMA RestoreStep == Moves("restore") => [RestoreJob!Next]_(RestoreJob!vars)
<1> SUFFICES ASSUME Moves("restore") PROVE [RestoreJob!Next]_(RestoreJob!vars)
  OBVIOUS
<1> USE RestoreStagesAre
<1>1. CASE Rests("restore")
  BY <1>1 DEF Rests, RestoreJob!vars
<1>2. CASE IsRequested("restore")
  BY <1>2 DEF IsRequested, RestoreJob!Next, RestoreJob!Request
<1>3. CASE IsRejected("restore")
  BY <1>3 DEF IsRejected, RestoreJob!Next, RestoreJob!Reject
<1>4. CASE IsRun("restore")
  BY <1>4 DEF IsRun, RestoreJob!Next, RestoreJob!Run
<1>5. CASE GoesOn("restore")
  <2>1. CASE /\ jobfile["restore"].phase \in {"queued", "interrupted"}
             /\ jobfile'["restore"].phase = "checking"
    BY <1>5, <2>1 DEF GoesOn, RestoreJob!Next, RestoreJob!FirstStage
  <2>2. CASE <<jobfile["restore"].phase, jobfile'["restore"].phase>> \in Successors("restore")
    <3>1. \E i \in 1..Len(RestoreStages) - 1 : /\ jobfile["restore"].phase = RestoreStages[i]
                                               /\ jobfile'["restore"].phase = RestoreStages[i + 1]
      BY <2>2 DEF Successors
    <3> QED
      BY <1>5, <3>1 DEF GoesOn, RestoreJob!Next, RestoreJob!NextStage
  <2> QED
    BY <1>5, <2>1, <2>2 DEF GoesOn
<1>6. CASE IsOver("restore")
  BY <1>6 DEF IsOver, RestoreJob!Next, RestoreJob!Fail, RestoreJob!Succeed, RestoreJob!Die
<1> QED
  BY <1>1, <1>2, <1>3, <1>4, <1>5, <1>6 DEF Moves

\* For any number of sessions and requests and any faults, an update goes through
\* its stages in order and reports the failure of the stage it was in.
THEOREM UpdateRefines == Spec => UpdateIsPipeline
<1>1. IInv /\ PhaseFits /\ [Next]_vars => [UpdateJob!Next]_(UpdateJob!vars)
  BY EachMoves, UpdateStep DEF Units
<1> QED
  BY <1>1, PipelineInit, PhaseInvariance, PTL DEF Spec, UpdateIsPipeline, UpdateJob!Spec

\* The same for a restore, whose archive is validated before the game is stopped.
THEOREM RestoreRefines == Spec => RestoreIsPipeline
<1>1. IInv /\ PhaseFits /\ [Next]_vars => [RestoreJob!Next]_(RestoreJob!vars)
  BY EachMoves, RestoreStep DEF Units
<1> QED
  BY <1>1, PipelineInit, PhaseInvariance, PTL DEF Spec, RestoreIsPipeline, RestoreJob!Spec

-----------------------------------------------------------------------------
(* One command at a time.                                                    *)

\* A session that has arrived has a command, the one in the second half of a
\* restart a restart; the holder of the lock is inside; and what was asked for has
\* a number.
CommandsFit ==
  /\ \A s \in Sessions :
       /\ pc[s] # "idle" => cmd[s] \in AllCommands
       /\ pc[s] = "again" => cmd[s] = "restart"
       /\ lock = s => pc[s] \in SessionInside
  /\ nextId > 0
  /\ \A u \in Units : jobfile[u].phase # "none" => jobfile[u].id > 0

\* At the start there are no commands and no requests.
LEMMA CommandsInit == Init => CommandsFit
BY ConstantsAssumption DEF Init, CommandsFit, Procs, Units, Free

\* Every step keeps commands, holder and numbers together.
LEMMA CommandsStep == IInv /\ PhaseFits /\ CommandsFit /\ Next => CommandsFit'
<1> SUFFICES ASSUME TypeOK, LabelsFit, LockOwned, PhaseFits, CommandsFit, Next
             PROVE  CommandsFit'
  BY DEF IInv, Core
<1> USE ConstantsAssumption
<1> USE DEF CommandsFit, PhaseFits, LabelsFit, LockOwned, SessionInside, WorkerInside,
        TypeOK, Procs, Units, SessionLabels, WorkerLabels, Free, Goto, Leave, Hangup,
        CallFails, Record, gameVars, fileVars, unitVars, jobVars
<1>1. ASSUME NEW s \in Sessions, NEW c \in AllCommands, Arrive(s, c)
      PROVE CommandsFit'
  BY <1>1 DEF Arrive
<1>2. ASSUME NEW s \in Sessions, SessionStep(s)
      PROVE CommandsFit'
  <2>1. CASE TakeLock(s)
    BY <2>1 DEF TakeLock
  <2>2. CASE Recheck(s)
    BY <2>2 DEF Recheck
  <2>3. CASE SessionStart(s)
    BY <2>3 DEF SessionStart, GameUp
  <2>4. CASE SessionStop(s)
    BY <2>4 DEF SessionStop, GameStopping, StopSucceeds
  <2>5. CASE SessionStopped(s)
    BY <2>5 DEF SessionStopped, StopSucceeds
  <2>6. CASE SessionBackup(s)
    BY <2>6 DEF SessionBackup
  <2>7. CASE SessionBackedUp(s)
    BY <2>7 DEF SessionBackedUp
  <2>8. CASE SessionPoweroff(s)
    BY <2>8 DEF SessionPoweroff, Reboot
  <2>9. CASE SessionQueue(s)
    BY <2>9 DEF SessionQueue
  <2>10. CASE SessionRefuse(s)
    BY <2>10 DEF SessionRefuse
  <2>11. CASE SessionEnqueue(s)
    BY <2>11 DEF SessionEnqueue
  <2> QED
    BY <1>2, <2>1, <2>2, <2>3, <2>4, <2>5, <2>6, <2>7, <2>8, <2>9, <2>10,
       <2>11 DEF SessionStep
<1>3. ASSUME NEW u \in Units, UNCHANGED <<cmd, nextId>>,
             \A s \in Sessions : pc'[s] = pc[s] /\ (lock' = s => lock = s),
             \/ UNCHANGED jobfile
             \/ pc[u] \in WorkerInside /\ \E p : Record(u, p)
      PROVE  CommandsFit'
  <2>1. CASE UNCHANGED jobfile
    BY <1>3, <2>1
  <2>2. CASE pc[u] \in WorkerInside /\ \E p : Record(u, p)
    <3>1. jobfile[u].phase # "none"
      BY <2>2, PhaseAtIs
    <3> QED
      BY <1>3, <2>2, <3>1
  <2> QED
    BY <1>3, <2>1, <2>2
<1>4. ASSUME NEW u \in Units, \/ WorkerStep(u) \/ WorkerKilled(u)
                              \/ u = "update" /\ UpdateDownload
                              \/ u = "restore" /\ (RestoreValidate \/ SwitchWorld)
      PROVE  CommandsFit'
  <2> USE DEF Advance, Finish
  <2>1. /\ UNCHANGED <<cmd, nextId>>
        /\ UNCHANGED jobfile \/ (pc[u] \in WorkerInside /\ \E p : Record(u, p))
    BY <1>4 DEF WorkerStep, WorkerLock, WorkerBegin, UpdateBegin, RestoreBegin,
       WorkerCheck, WorkerStop, WorkerStopped, AfterStop, WorkerBackup, WorkerStart,
       WorkerAwait, WorkerKilled, UpdateDownload, RestoreValidate, SwitchWorld,
       SwitchMark, SwitchAside, SwitchIn, SwitchUndo, SwitchUndone, SwitchUnmark
  <2>2. \A s \in Sessions : pc'[s] = pc[s] /\ (lock' = s => lock = s)
    BY <1>4 DEF WorkerStep, WorkerLock, WorkerBegin, UpdateBegin, RestoreBegin,
       WorkerCheck, WorkerStop, WorkerStopped, AfterStop, WorkerBackup, WorkerStart,
       WorkerAwait, WorkerKilled, UpdateDownload, RestoreValidate, SwitchWorld,
       SwitchMark, SwitchAside, SwitchIn, SwitchUndo, SwitchUndone, SwitchUnmark
  <2> QED
    BY <1>3, <2>1, <2>2
<1>5. ASSUME NEW u \in Units, UnitRuns(u) \/ UnitSettles(u) PROVE CommandsFit'
  BY <1>3, <1>5 DEF UnitRuns, UnitSettles
<1>6. CASE GameStep
  BY <1>6 DEF GameStep
<1>7. CASE PowerLoss
  BY <1>7 DEF PowerLoss, Reboot
<1>8. CASE OwnerRepairs
  BY <1>8 DEF OwnerRepairs
<1> QED
  BY <1>1, <1>2, <1>4, <1>5, <1>6, <1>7, <1>8 DEF Next, JobStep

\* What the holder runs, and the game as others see it, before and after a step.
LEMMA RunsAre ==
  /\ lock \in Sessions => Runs = cmd[lock]
  /\ lock \in Units => Runs = "worker"
  /\ lock = Free => Runs = "none"
  /\ lock' \in Sessions => Runs' = cmd'[lock']
  /\ lock' \in Units => Runs' = "worker"
  /\ lock' = Free => Runs' = "none"
BY ConstantsAssumption DEF Runs, Units, Free

LEMMA GameSeenIs ==
  /\ game \in Down => GameSeen = "down"
  /\ game = "active" => GameSeen = "up"
  /\ game = "activating" => GameSeen = "restarting"
  /\ game = "deactivating" => GameSeen = "stopping"
  /\ game' \in Down => GameSeen' = "down"
  /\ game' = "active" => GameSeen' = "up"
  /\ game' = "activating" => GameSeen' = "restarting"
  /\ game' = "deactivating" => GameSeen' = "stopping"
BY DEF GameSeen, Down

\* Recording a phase is no request.
LEMMA RecordAsksNothing ==
  ASSUME TypeOK, NEW u \in Units, NEW p, Record(u, p)
  PROVE  Asked' = Asked
<1>1. \A v \in Units : jobfile'[v].id = jobfile[v].id
  BY Recorded
<1> QED
  BY <1>1 DEF Asked

\* Whoever holds the lock keeps it together with its command, or ends.
LEMMA HolderProceeds ==
  ASSUME NEW p \in Procs, lock = p, UNCHANGED <<lock, cmd>> \/ Leave(p)
  PROVE  Turns!Proceeds
<1>1. CASE UNCHANGED <<lock, cmd>>
  BY <1>1 DEF Turns!Proceeds, Runs
<1>2. CASE Leave(p)
  BY <1>2, RunsAre DEF Leave, Turns!Proceeds, Turns!GivesBack
<1> QED
  BY <1>1, <1>2

\* A holder that only goes on, or ends, is a stutter or gives the lock back.
LEMMA HolderRests ==
  ASSUME NEW p \in Procs, lock = p, UNCHANGED <<lock, cmd>> \/ Leave(p),
         UNCHANGED game, Asked' = Asked
  PROVE  [Turns!Next]_(Turns!vars)
<1>1. Turns!Proceeds
  BY HolderProceeds
<1>2. GameSeen' = GameSeen
  BY DEF GameSeen
<1>3. lock # Free
  BY ConstantsAssumption DEF Procs, Units, Free
<1> QED
  BY <1>1, <1>2, <1>3 DEF Turns!Proceeds, Turns!GivesBack, Turns!Next, Turns!Leave,
     Turns!vars, Asked

\* A step that changes neither holder, command, game nor requests.
LEMMA NothingSeen ==
  ASSUME UNCHANGED <<lock, game>>, Asked' = Asked,
         lock \in Sessions => cmd'[lock] = cmd[lock]
  PROVE  [Turns!Next]_(Turns!vars)
BY DEF Turns!vars, Asked, Runs, GameSeen

\* What a session does with the lock is what its command is for.
LEMMA SessionTurns ==
  ASSUME IInv, PhaseFits, CommandsFit, NEW s \in Sessions, SessionStep(s)
  PROVE  [Turns!Next]_(Turns!vars)
<1>0. /\ TypeOK
      /\ pc[s] \in SessionInside => lock = s
      /\ lock = s => pc[s] \in SessionInside
      /\ pc[s] # "idle" => cmd[s] \in AllCommands
      /\ pc[s] = "again" => cmd[s] = "restart"
      /\ pc[s] = "enqueue" => cmd[s] \in Units
      /\ \A u \in Units : jobfile[u].id < nextId
      /\ s \in Procs /\ s \notin Units /\ s # Free
  BY ConstantsAssumption
  DEF IInv, Core, LockOwned, PhaseFits, CommandsFit, Procs, Units, Free
<1>1. lock = s => Runs = cmd[s]
  BY RunsAre
<1>2. ASSUME lock = s, UNCHANGED <<lock, cmd>> \/ Hangup(s), UNCHANGED <<game, jobfile>>
      PROVE  [Turns!Next]_(Turns!vars)
  BY <1>0, <1>2, HolderRests DEF Hangup, Asked
<1>4. CASE TakeLock(s)
  <2>1. UNCHANGED <<game, jobfile>> /\ pc[s] = "gated"
    BY <1>4 DEF TakeLock, gameVars, jobVars
  <2>2. CASE lock = Free /\ lock' = s /\ UNCHANGED cmd
    <3>1. Runs' = cmd[s] /\ cmd[s] \in Turns!Tasks /\ cmd[s] # "worker"
      BY <1>0, <2>1, <2>2, RunsAre DEF AllCommands, Units, Turns!Tasks, Turns!Kinds
    <3> QED
      BY <1>0, <2>1, <2>2, <3>1 DEF Turns!Next, Turns!Take, GameSeen, Asked
  <2>3. CASE lock # Free /\ Hangup(s)
    <3>1. lock # s
      BY <1>0, <2>1 DEF SessionInside
    <3>2. lock' = lock /\ (lock \in Sessions => cmd'[lock] = cmd[lock])
      BY <1>0, <2>3, <3>1 DEF Hangup, Leave, TypeOK
    <3> QED
      BY <2>1, <3>2, NothingSeen DEF Asked
  <2> QED
    BY <1>4, <2>2, <2>3 DEF TakeLock
<1>5. CASE Recheck(s) \/ SessionStopped(s) \/ SessionBackup(s) \/ SessionBackedUp(s)
           \/ SessionRefuse(s)
  <2>1. lock = s /\ UNCHANGED <<game, jobfile>>
    BY <1>0, <1>5 DEF Recheck, SessionStopped, SessionBackup, SessionBackedUp,
       SessionRefuse, SessionInside, gameVars, jobVars
  <2>2. UNCHANGED <<lock, cmd>> \/ Hangup(s)
    BY <1>5 DEF Recheck, SessionStopped, StopSucceeds, SessionBackup, SessionBackedUp,
       SessionRefuse
  <2> QED
    BY <1>2, <2>1, <2>2
<1>6. CASE SessionStart(s)
  <2>1. lock = s /\ cmd[s] \in {"start", "restart"} /\ Hangup(s) /\ UNCHANGED jobfile
    BY <1>0, <1>6 DEF SessionStart, SessionInside, jobVars
  <2>2. CASE GameUp
    <3>1. GameSeen # "stopping" /\ GameSeen' = "up"
      BY <1>0, <2>2, GameSeenIs DEF GameUp, TypeOK, GameStates, Down
    <3>2. Turns!Proceeds
      BY <1>0, <2>1, HolderProceeds DEF Hangup
    <3> QED
      BY <1>1, <2>1, <3>1, <3>2 DEF Turns!Next, Turns!StartGame, Asked
  <2>3. CASE UNCHANGED gameVars
    BY <1>2, <2>1, <2>3 DEF gameVars
  <2> QED
    BY <1>6, <2>2, <2>3 DEF SessionStart
<1>7. CASE SessionStop(s)
  <2>1. /\ lock = s /\ cmd[s] \in {"shutdown", "restart"} /\ UNCHANGED jobfile
        /\ UNCHANGED <<lock, cmd>> \/ Hangup(s)
    BY <1>0, <1>7 DEF SessionStop, StopSucceeds, SessionInside, jobVars
  <2>2. CASE GameStopping
    <3>1. GameSeen = "up" /\ GameSeen' = "stopping"
      BY <2>2, GameSeenIs DEF GameStopping
    <3>2. Turns!Proceeds
      BY <1>0, <2>1, HolderProceeds DEF Hangup
    <3> QED
      BY <1>1, <2>1, <3>1, <3>2 DEF Turns!Next, Turns!StopGame, Asked
  <2>3. CASE UNCHANGED gameVars
    BY <1>2, <2>1, <2>3 DEF gameVars
  <2> QED
    BY <1>7, <2>2, <2>3 DEF SessionStop
<1>8. CASE SessionPoweroff(s)
  <2>1. lock = s /\ cmd[s] = "poweroff" /\ UNCHANGED jobfile
    BY <1>0, <1>8 DEF SessionPoweroff, SessionInside, Reboot, jobVars
  <2>2. CASE game # "active" /\ Reboot
    <3>1. GameSeen # "up" /\ GameSeen' = "down" /\ lock' = Free /\ Runs' = "none"
      BY <1>0, <2>2, GameSeenIs, RunsAre DEF Reboot, TypeOK, GameStates, Down
    <3> QED
      BY <1>1, <2>1, <3>1 DEF Turns!Next, Turns!GoDown, Turns!GivesBack, Asked
  <2>3. CASE Hangup(s) /\ UNCHANGED gameVars
    BY <1>2, <2>1, <2>3 DEF gameVars
  <2> QED
    BY <1>8, <2>2, <2>3 DEF SessionPoweroff
<1>9. CASE SessionQueue(s)
  <2>1. /\ lock = s /\ cmd[s] \in Units /\ UNCHANGED <<game, lock, cmd>>
        /\ jobfile' = [jobfile EXCEPT ![cmd[s]] = [id |-> nextId, phase |-> "queued"]]
    BY <1>0, <1>9 DEF SessionQueue, SessionInside, gameVars
  <2>2. /\ Asked'[cmd[s]] > Asked[cmd[s]]
        /\ \A k \in Units \ {cmd[s]} : Asked'[k] = Asked[k]
    BY <1>0, <2>1 DEF Asked, TypeOK
  <2> QED
    BY <1>1, <2>1, <2>2 DEF Turns!Next, Turns!Request, Turns!Kinds, Turns!Proceeds, Units,
       Asked, Runs, GameSeen
<1>10. CASE SessionEnqueue(s)
  <2>1. lock = s /\ Hangup(s) /\ UNCHANGED game
    BY <1>0, <1>10 DEF SessionEnqueue, SessionInside, gameVars
  <2>2. Asked' = Asked
    <3>1. cmd[s] \in Units /\ (UNCHANGED jobfile \/ Record(cmd[s], "interrupted"))
      BY <1>0, <1>10 DEF SessionEnqueue
    <3> QED
      BY <1>0, <3>1, RecordAsksNothing DEF Asked
  <2> QED
    BY <1>0, <2>1, <2>2, HolderRests DEF Hangup
<1> QED
  BY <1>4, <1>5, <1>6, <1>7, <1>8, <1>9, <1>10 DEF SessionStep

\* A worker comes for a job that was asked for, and starts and stops the game.
LEMMA WorkerTurns ==
  ASSUME IInv, PhaseFits, CommandsFit, NEW u \in Units,
         \/ WorkerStep(u) \/ WorkerKilled(u)
         \/ u = "update" /\ UpdateDownload
         \/ u = "restore" /\ (RestoreValidate \/ SwitchWorld)
  PROVE  [Turns!Next]_(Turns!vars)
<1>0. /\ TypeOK
      /\ pc[u] \in WorkerInside => lock = u
      /\ lock = u => pc[u] \in WorkerInside
      /\ pc[u] = "lockwait" => jobfile[u].id > 0
      /\ u \in Procs /\ u # Free /\ u \notin Sessions
  BY ConstantsAssumption DEF IInv, Core, LockOwned, PhaseFits, CommandsFit, Procs, Units, Free
<1>1. lock = u => Runs = "worker"
  BY RunsAre
<1>2. CASE WorkerLock(u)
  <2>1. pc[u] = "lockwait" /\ UNCHANGED <<game, cmd, jobfile>>
    BY <1>2 DEF WorkerLock, gameVars, jobVars
  <2>2. CASE lock = Free /\ lock' = u
    <3>1. Runs' = "worker"
      BY <2>2, RunsAre
    <3>2. \E k \in Turns!Kinds : Asked[k] > 0
      BY <1>0, <2>1 DEF Asked, Turns!Kinds, Units
    <3> QED
      BY <1>0, <2>1, <2>2, <3>1, <3>2
      DEF Turns!Next, Turns!Take, Turns!Tasks, GameSeen, Asked
  <2>3. CASE lock # Free /\ Leave(u)
    <3>1. lock' = lock
      BY <1>0, <2>1, <2>3 DEF Leave, WorkerInside, WorkerLabels
    <3> QED
      BY <2>1, <3>1, NothingSeen DEF Asked
  <2> QED
    BY <1>2, <2>2, <2>3 DEF WorkerLock
<1>3. CASE WorkerKilled(u)
  <2>1. Leave(u) /\ UNCHANGED <<game, cmd, jobfile>>
    BY <1>3 DEF WorkerKilled, gameVars, jobVars
  <2>2. CASE lock = u
    BY <1>0, <2>1, <2>2, HolderRests DEF Asked
  <2>3. CASE lock # u
    BY <2>1, <2>3, NothingSeen DEF Leave, Asked
  <2> QED
    BY <2>2, <2>3
<1>4. ASSUME lock = u, UNCHANGED <<lock, cmd>> \/ Leave(u), UNCHANGED gameVars,
             UNCHANGED jobfile \/ \E p : Record(u, p)
      PROVE  [Turns!Next]_(Turns!vars)
  BY <1>0, <1>4, RecordAsksNothing, HolderRests DEF gameVars, Asked
<1> USE DEF Advance, Finish
<1>5. CASE WorkerBegin(u) \/ WorkerCheck(u) \/ WorkerStopped(u) \/ WorkerBackup(u)
           \/ WorkerAwait(u)
  <2>1. lock = u
    BY <1>0, <1>5 DEF WorkerBegin, UpdateBegin, RestoreBegin, WorkerCheck, WorkerStopped,
       WorkerBackup, WorkerAwait, WorkerInside, WorkerLabels, Units
  <2> QED
    BY <1>4, <1>5, <2>1 DEF WorkerBegin, UpdateBegin, RestoreBegin, WorkerCheck,
       WorkerStopped, AfterStop, WorkerBackup, WorkerAwait, Units
<1>6. CASE \/ u = "update" /\ UpdateDownload
           \/ u = "restore" /\ (RestoreValidate \/ SwitchWorld)
  <2>1. lock = u
    BY <1>0, <1>6 DEF UpdateDownload, RestoreValidate, SwitchWorld, SwitchMark, SwitchAside,
       SwitchIn, SwitchUndo, SwitchUndone, SwitchUnmark, WorkerInside, WorkerLabels
  <2> QED
    BY <1>4, <1>6, <2>1 DEF UpdateDownload, RestoreValidate, SwitchWorld, SwitchMark,
       SwitchAside, SwitchIn, SwitchUndo, SwitchUndone, SwitchUnmark
<1>7. CASE WorkerStop(u)
  <2>1. /\ lock = u
        /\ UNCHANGED <<lock, cmd>> \/ Leave(u)
        /\ UNCHANGED jobfile \/ \E p : Record(u, p)
    BY <1>0, <1>7 DEF WorkerStop, AfterStop, WorkerInside, WorkerLabels
  <2>2. Turns!Proceeds /\ Asked' = Asked
    BY <1>0, <2>1, HolderProceeds, RecordAsksNothing DEF Asked
  <2>3. CASE GameStopping
    <3>1. GameSeen = "up" /\ GameSeen' = "stopping"
      BY <2>3, GameSeenIs DEF GameStopping
    <3> QED
      BY <1>1, <2>1, <2>2, <3>1 DEF Turns!Next, Turns!StopGame, Asked
  <2>4. CASE game = "activating" /\ game' = "inactive"
    <3>1. GameSeen = "restarting" /\ GameSeen' = "down"
      BY <2>4, GameSeenIs DEF Down
    <3> QED
      BY <1>1, <2>1, <2>2, <3>1 DEF Turns!Next, Turns!StopGame, Asked
  <2>5. CASE UNCHANGED gameVars
    BY <1>4, <2>1, <2>5
  <2> QED
    BY <1>7, <2>3, <2>4, <2>5 DEF WorkerStop
<1>8. CASE WorkerStart(u)
  <2>1. /\ lock = u
        /\ UNCHANGED <<lock, cmd>> \/ Leave(u)
        /\ UNCHANGED jobfile \/ \E p : Record(u, p)
    BY <1>0, <1>8 DEF WorkerStart, WorkerInside, WorkerLabels
  <2>2. Turns!Proceeds /\ Asked' = Asked
    BY <1>0, <2>1, HolderProceeds, RecordAsksNothing DEF Asked
  <2>3. CASE GameUp
    <3>1. GameSeen # "stopping" /\ GameSeen' = "up"
      BY <1>0, <2>3, GameSeenIs DEF GameUp, TypeOK, GameStates, Down
    <3> QED
      BY <1>1, <2>1, <2>2, <3>1 DEF Turns!Next, Turns!StartGame, Asked
  <2>4. CASE UNCHANGED gameVars
    BY <1>4, <2>1, <2>4
  <2> QED
    BY <1>8, <2>3, <2>4 DEF WorkerStart
<1> QED
  BY <1>2, <1>3, <1>5, <1>6, <1>7, <1>8 DEF WorkerStep

\* Every step of anybody is one of OneAtATime, or none of its business.
LEMMA EachTakesTurns ==
  IInv /\ PhaseFits /\ CommandsFit /\ [Next]_vars => [Turns!Next]_(Turns!vars)
<1> SUFFICES ASSUME IInv, PhaseFits, CommandsFit, [Next]_vars
             PROVE  [Turns!Next]_(Turns!vars)
  OBVIOUS
<1>0. TypeOK
  BY DEF IInv, Core
<1>1. ASSUME NEW s \in Sessions, NEW c \in AllCommands, Arrive(s, c)
      PROVE  [Turns!Next]_(Turns!vars)
  <2>1. lock # s
    BY <1>1 DEF Arrive, CommandsFit, SessionInside, SessionLabels
  <2> QED
    BY <1>0, <1>1, <2>1, NothingSeen DEF Arrive, TypeOK, Asked, gameVars, jobVars
<1>2. ASSUME NEW s \in Sessions, SessionStep(s) PROVE [Turns!Next]_(Turns!vars)
  BY <1>2, SessionTurns
<1>3. ASSUME NEW u \in Units, WorkerStep(u) \/ WorkerKilled(u)
      PROVE  [Turns!Next]_(Turns!vars)
  BY <1>3, WorkerTurns
<1>4. ASSUME NEW u \in Units, UnitRuns(u) \/ UnitSettles(u)
      PROVE  [Turns!Next]_(Turns!vars)
  BY <1>4, NothingSeen DEF UnitRuns, UnitSettles, Asked, gameVars
<1>5. CASE JobStep
  BY <1>5, WorkerTurns DEF JobStep, Units
<1>6. CASE GameStep
  <2>1. UNCHANGED <<lock, cmd, jobfile>>
    BY <1>6 DEF GameStep, jobVars
  <2>2. UNCHANGED <<lock, Runs, Asked>>
    BY <2>1 DEF Runs, Asked
  <2>3. CASE GameCrashes \/ GameRestarts \/ GameStops
    <3>1. <<GameSeen, GameSeen'>> \in {<<"up", "restarting">>, <<"restarting", "up">>,
                                       <<"stopping", "down">>}
      BY <2>3, GameSeenIs DEF GameCrashes, GameRestarts, GameStops
    <3> QED
      BY <2>2, <3>1 DEF Turns!Next, Turns!GameAlone, Asked
  <2>4. CASE PlayersComeOrGo
    BY <2>1, <2>2, <2>4, NothingSeen DEF PlayersComeOrGo
  <2> QED
    BY <1>6, <2>3, <2>4 DEF GameStep
<1>7. CASE PowerLoss
  <2>1. /\ "power" \in Faults /\ game' = "inactive" /\ lock' = Free
        /\ UNCHANGED jobfile
    BY <1>7 DEF PowerLoss, Reboot
  <2>2. GameSeen' = "down" /\ Runs' = "none"
    BY <2>1, GameSeenIs, RunsAre DEF Down
  <2> QED
    BY <2>1, <2>2 DEF Turns!Next, Turns!GoDown, Turns!GivesBack, Asked
<1>8. CASE OwnerRepairs
  BY <1>8, NothingSeen DEF OwnerRepairs, Asked, gameVars, jobVars
<1>9. CASE UNCHANGED vars
  BY <1>9, NothingSeen DEF vars, Asked
<1> QED
  BY <1>1, <1>2, <1>3, <1>4, <1>5, <1>6, <1>7, <1>8, <1>9 DEF Next

\* At the start nobody holds the lock, the game is down or up, and nothing was
\* asked for.
LEMMA TurnsInit == Init => Turns!Init
<1> SUFFICES ASSUME Init PROVE Turns!Init
  OBVIOUS
<1>1. lock = Free /\ game \in {"inactive", "active"}
      /\ Asked = [k \in Turns!Kinds |-> 0]
  BY DEF Init, Turns!Kinds, Units, Asked
<1> QED
  BY <1>1, RunsAre, GameSeenIs DEF Turns!Init, Down

\* The holder of the lock is inside its command, and what it runs is what it came
\* for, at all times.
THEOREM CommandsInvariance == Spec => [](IInv /\ PhaseFits /\ CommandsFit)
<1>1. IInv /\ PhaseFits /\ CommandsFit /\ [Next]_vars => CommandsFit'
  <2>1. CASE UNCHANGED vars
    BY <2>1 DEF vars, CommandsFit
  <2> QED
    BY <2>1, CommandsStep
<1> QED
  BY <1>1, CommandsInit, PhaseInvariance, PTL DEF Spec

\* For any number of sessions and requests and any faults: one command or job at a
\* time, from its lock to its end, starts or stops the game or asks for a job.
THEOREM SessionsTakeTurns == Spec => CommandsTakeTurns
<1>1. IInv /\ PhaseFits /\ CommandsFit /\ [Next]_vars => [Turns!Next]_(Turns!vars)
  BY EachTakesTurns
<1> QED
  BY <1>1, TurnsInit, CommandsInvariance, PTL DEF Spec, CommandsTakeTurns, Turns!Spec

\* The game does not come up by itself, nor by a command that does not start it.
OnlyStartsBringItUp ==
  game \in Down /\ Runs \notin {"start", "restart", "worker"} => game' \in Down

\* A game that is down stays down, whatever crashes and whoever comes, until a start, a
\* restart or a job that holds the lock brings it up: an archive that a session begins
\* with the game down is finished with the game down.
THEOREM StaysDown == Spec => [][OnlyStartsBringItUp]_vars
<1>1. IInv /\ PhaseFits /\ CommandsFit /\ [Next]_vars => OnlyStartsBringItUp
  <2> SUFFICES ASSUME IInv, PhaseFits, CommandsFit, [Next]_vars,
                      game \in Down, Runs \notin {"start", "restart", "worker"}
               PROVE  game' \in Down
    BY DEF OnlyStartsBringItUp
  <2>1. [Turns!Next]_(Turns!vars)
    BY EachTakesTurns
  <2>2. GameSeen = "down"
    BY GameSeenIs
  <2>3. GameSeen' = "down"
    BY <2>1, <2>2 DEF Turns!Next, Turns!Take, Turns!Leave, Turns!StartGame, Turns!StopGame,
       Turns!Request, Turns!GoDown, Turns!GameAlone, Turns!vars
  <2> QED
    BY <2>3 DEF GameSeen, Down
<1> QED
  BY <1>1, CommandsInvariance, PTL DEF Spec

-----------------------------------------------------------------------------
(* Nobody goes back.                                                         *)

\* How far a session or a worker is from its end at most.
Rank ==
  [idle        |-> 0,  gated    |-> 20, locked     |-> 19, body     |-> 18, waiting   |-> 13,
   archiving   |-> 1,  again    |-> 1,  enqueue    |-> 1,  lockwait |-> 20, begin     |-> 19,
   checking    |-> 18, validating |-> 17, rechecking |-> 16, stopping |-> 15, backup  |-> 12,
   downloading |-> 11, mark     |-> 11, aside      |-> 10, swap     |-> 9,  undo      |-> 8,
   undone      |-> 7,  unmark   |-> 8,  starting   |-> 6,  awaiting |-> 5]

\* The ranks, label by label.
LEMMA RankIs ==
  /\ Rank["idle"] = 0 /\ Rank["gated"] = 20 /\ Rank["locked"] = 19 /\ Rank["body"] = 18
  /\ Rank["waiting"] = 13 /\ Rank["archiving"] = 1 /\ Rank["again"] = 1
  /\ Rank["enqueue"] = 1 /\ Rank["lockwait"] = 20 /\ Rank["begin"] = 19
  /\ Rank["checking"] = 18 /\ Rank["validating"] = 17 /\ Rank["rechecking"] = 16
  /\ Rank["stopping"] = 15 /\ Rank["backup"] = 12 /\ Rank["downloading"] = 11
  /\ Rank["mark"] = 11 /\ Rank["aside"] = 10 /\ Rank["swap"] = 9 /\ Rank["undo"] = 8
  /\ Rank["undone"] = 7 /\ Rank["unmark"] = 8 /\ Rank["starting"] = 6
  /\ Rank["awaiting"] = 5
BY DEF Rank

\* Everybody who is under way gets nearer to the end or stays where he is.
NobodyGoesBack ==
  \A p \in Procs : pc[p] # "idle" => pc'[p] = pc[p] \/ Rank[pc'[p]] < Rank[pc[p]]

\* A session goes on to a later point of its command.
LEMMA SessionForward ==
  ASSUME TypeOK, NEW s \in Sessions, SessionStep(s)
  PROVE  NobodyGoesBack
<1>1. ASSUME NEW l, Goto(s, l), Rank[l] < Rank[pc[s]] PROVE NobodyGoesBack
  BY <1>1 DEF Goto, NobodyGoesBack, TypeOK, Procs
<1>2. ASSUME Hangup(s), Rank["idle"] < Rank[pc[s]] PROVE NobodyGoesBack
  BY <1>1, <1>2 DEF Hangup, Leave
<1>3. ASSUME Reboot PROVE NobodyGoesBack
  BY <1>3, RankIs DEF Reboot, NobodyGoesBack, TypeOK, Procs, SessionLabels, WorkerLabels
<1> USE RankIs
<1>4. CASE TakeLock(s) \/ Recheck(s)
  BY <1>1, <1>2, <1>4 DEF TakeLock, Recheck
<1>5. CASE SessionStart(s) \/ SessionBackup(s) \/ SessionBackedUp(s)
  BY <1>1, <1>2, <1>5 DEF SessionStart, SessionBackup, SessionBackedUp
<1>6. CASE SessionStop(s) \/ SessionStopped(s)
  BY <1>1, <1>2, <1>6 DEF SessionStop, SessionStopped, StopSucceeds
<1>7. CASE SessionPoweroff(s)
  BY <1>2, <1>3, <1>7 DEF SessionPoweroff
<1>8. CASE SessionQueue(s) \/ SessionRefuse(s) \/ SessionEnqueue(s)
  BY <1>1, <1>2, <1>8 DEF SessionQueue, SessionRefuse, SessionEnqueue
<1> QED
  BY <1>4, <1>5, <1>6, <1>7, <1>8 DEF SessionStep

\* A worker goes on to a later stage.
LEMMA WorkerForward ==
  ASSUME TypeOK, NEW u \in Units,
         \/ WorkerStep(u) \/ WorkerKilled(u)
         \/ u = "update" /\ UpdateDownload
         \/ u = "restore" /\ (RestoreValidate \/ SwitchWorld)
  PROVE  NobodyGoesBack
<1>1. ASSUME NEW l, Goto(u, l), Rank[l] < Rank[pc[u]] PROVE NobodyGoesBack
  BY <1>1 DEF Goto, NobodyGoesBack, TypeOK, Procs
<1>2. ASSUME Leave(u), Rank["idle"] < Rank[pc[u]] PROVE NobodyGoesBack
  BY <1>1, <1>2 DEF Leave
<1> USE RankIs DEF Advance, Finish
<1>3. CASE WorkerLock(u) \/ WorkerBegin(u)
  BY <1>1, <1>2, <1>3 DEF WorkerLock, WorkerBegin, UpdateBegin, RestoreBegin, Units
<1>4. CASE WorkerCheck(u)
  BY <1>1, <1>2, <1>4 DEF WorkerCheck
<1>5. CASE WorkerStop(u) \/ WorkerStopped(u)
  BY <1>1, <1>2, <1>5 DEF WorkerStop, WorkerStopped, AfterStop
<1>6. CASE WorkerBackup(u) \/ WorkerStart(u) \/ WorkerAwait(u)
  BY <1>1, <1>2, <1>6 DEF WorkerBackup, WorkerStart, WorkerAwait
<1>7. CASE WorkerKilled(u)
  <2>1. Rank["idle"] < Rank[pc[u]]
    BY <1>7 DEF WorkerKilled, TypeOK, Procs, SessionLabels, WorkerLabels
  <2> QED
    BY <1>2, <1>7, <2>1 DEF WorkerKilled
<1>8. CASE \/ u = "update" /\ UpdateDownload
           \/ u = "restore" /\ RestoreValidate
  BY <1>1, <1>2, <1>8 DEF UpdateDownload, RestoreValidate
<1>9. CASE u = "restore" /\ SwitchWorld
  BY <1>1, <1>2, <1>9 DEF SwitchWorld, SwitchMark, SwitchAside, SwitchIn, SwitchUndo,
     SwitchUndone, SwitchUnmark
<1> QED
  BY <1>3, <1>4, <1>5, <1>6, <1>7, <1>8, <1>9 DEF WorkerStep

\* Nobody can keep operation.lock by going round in circles: a session or worker that
\* has it moves at most nineteen times, and the last time gives it back.
THEOREM EverybodyGoesForward == Spec => [][NobodyGoesBack]_vars
<1>1. IInv /\ [Next]_vars => NobodyGoesBack
  <2> SUFFICES ASSUME TypeOK, LabelsFit, [Next]_vars PROVE NobodyGoesBack
    BY DEF IInv, Core
  <2>1. ASSUME UNCHANGED pc PROVE NobodyGoesBack
    BY <2>1 DEF NobodyGoesBack
  <2>2. ASSUME NEW s \in Sessions, NEW c \in AllCommands, Arrive(s, c) PROVE NobodyGoesBack
    BY <2>2 DEF Arrive, Goto, NobodyGoesBack, TypeOK, Procs
  <2>3. ASSUME NEW s \in Sessions, SessionStep(s) PROVE NobodyGoesBack
    BY <2>3, SessionForward
  <2>4. ASSUME NEW u \in Units, WorkerStep(u) \/ WorkerKilled(u) PROVE NobodyGoesBack
    BY <2>4, WorkerForward
  <2>5. CASE JobStep
    BY <2>5, WorkerForward DEF JobStep, Units
  <2>6. ASSUME NEW u \in Units, UnitRuns(u) PROVE NobodyGoesBack
    BY <2>6 DEF UnitRuns, LabelsFit, Goto, NobodyGoesBack, TypeOK, Procs
  <2>7. CASE PowerLoss
    BY <2>7, RankIs DEF PowerLoss, Reboot, NobodyGoesBack, TypeOK, Procs, SessionLabels,
       WorkerLabels
  <2>8. CASE GameStep \/ OwnerRepairs \/ UNCHANGED vars \/ \E u \in Units : UnitSettles(u)
    BY <2>1, <2>8 DEF GameStep, OwnerRepairs, UnitSettles, vars
  <2> QED
    BY <2>2, <2>3, <2>4, <2>5, <2>6, <2>7, <2>8 DEF Next
<1> QED
  BY <1>1, Invariance, PTL DEF Spec
=============================================================================
