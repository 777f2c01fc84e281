---------------------------- MODULE ServerPCProofs ----------------------------
(***************************************************************************)
(* Proofs about ServerPC for every set of sessions, every set of faults    *)
(* and every number of jobs.                                               *)
(*                                                                         *)
(* The properties rest on three facts that support one another: whoever is *)
(* past the lock holds it; whoever is past its check under the lock has no *)
(* restore-block in front of it, except the restore that put it there; and *)
(* a job past its stop keeps the game down because nobody else can be in a *)
(* command that starts it.                                                 *)
(***************************************************************************)
EXTENDS ServerPC, TLAPS

SessionInside == {"locked", "body", "waiting", "archiving", "again", "enqueue"}

WorkerInside == WorkerLabels \ {"idle", "lockwait"}

\* The labels of switch_world between writing the marker and removing it.
Marked == {"aside", "swap", "undo", "undone", "unmark"}

\* Each process is where its program can be.
LabelsFit ==
  /\ \A s \in Sessions : pc[s] \in SessionLabels
  /\ \A u \in Units : pc[u] \in WorkerLabels
  /\ pc["update"] \notin SwitchLabels
  /\ pc["update"] \notin {"validating", "rechecking"}
  /\ \A u \in Units : pc[u] # "idle" => unit[u] = "activating"

\* Whoever is past the lock holds it.
LockOwned ==
  /\ \A s \in Sessions : pc[s] \in SessionInside => lock = s
  /\ \A u \in Units : pc[u] \in WorkerInside => lock = u

\* Past the check there is no marker, inside switch_world there is.
MarkerPlaced ==
  /\ \A s \in Sessions : pc[s] \in SessionInside \ {"locked"} => ~block
  /\ \A u \in Units : pc[u] \in WorkerInside \ ({"begin"} \cup Marked) => ~block
  /\ pc["restore"] \in Marked => block
  /\ pc["restore"] \in {"undone", "unmark"} => world = "present"

Core ==
  /\ LabelsFit
  /\ LockOwned
  /\ MarkerPlaced
  /\ RestoreBlockProtects
  /\ StagesRunOffline

IInv == TypeOK /\ Core

-----------------------------------------------------------------------------

\* The initial state satisfies the invariant.
LEMMA InitIInv == Init => IInv
<1> SUFFICES ASSUME Init PROVE IInv
  OBVIOUS
<1>1. TypeOK
  BY DEF Init, TypeOK, GameStates, Procs, Units, SessionLabels, WorkerLabels,
         AllCommands, ActivePhases, FinalPhases
<1>2. LabelsFit /\ LockOwned /\ MarkerPlaced
  BY DEF Init, LabelsFit, LockOwned, MarkerPlaced, Procs, Units, SessionLabels,
         WorkerLabels, SwitchLabels, SessionInside, WorkerInside, Marked
<1>3. RestoreBlockProtects /\ StagesRunOffline
  BY DEF Init, RestoreBlockProtects, StagesRunOffline, Procs, Units,
         OfflineLabels
<1> QED
  BY <1>1, <1>2, <1>3 DEF IInv, Core

\* A state file keeps its type when a phase is recorded in it.
LEMMA RecordType ==
  ASSUME TypeOK, NEW u, NEW phase \in ActivePhases \cup FinalPhases,
         Record(u, phase)
  PROVE  jobfile' \in [Units -> [id: Nat, phase: ActivePhases \cup FinalPhases]]
<1>1. \A v \in Units : [jobfile[v] EXCEPT !.phase = phase]
                        \in [id: Nat, phase: ActivePhases \cup FinalPhases]
  BY DEF TypeOK
<1>2. jobfile' = [v \in Units |-> IF v = u THEN [jobfile[v] EXCEPT !.phase = phase]
                                          ELSE jobfile[v]]
  BY DEF Record, TypeOK
<1> QED
  BY <1>1, <1>2 DEF TypeOK

\* Every value stays in its type.
LEMMA TypeStep == TypeOK /\ Next => TypeOK'
<1> SUFFICES ASSUME TypeOK, Next PROVE TypeOK'
  OBVIOUS
<1> USE ConstantsAssumption
<1> USE DEF TypeOK, Procs, Units, GameStates, Down, SessionLabels,
        WorkerLabels, AllCommands, AllFaults, ActivePhases, FinalPhases,
        Free, Goto, Leave, Hangup, CallFails, gameVars, fileVars, unitVars,
        jobVars
<1>1. ASSUME NEW s \in Sessions, NEW c \in AllCommands, Arrive(s, c)
      PROVE TypeOK'
  BY <1>1 DEF Arrive
<1>2. ASSUME NEW s \in Sessions, SessionStep(s)
      PROVE TypeOK'
  <2>1. CASE TakeLock(s)
    BY <2>1 DEF TakeLock
  <2>2. CASE Recheck(s)
    BY <2>2 DEF Recheck
  <2>3. CASE SessionStart(s)
    BY <2>3 DEF SessionStart, GameUp
  <2>4. CASE SessionStop(s)
    BY <2>4 DEF SessionStop, GameStopping, StopSucceeds
  <2>5. CASE SessionStopped(s)
    BY <2>5 DEF SessionStopped, StopSucceeds
  <2>6. CASE SessionBackup(s)
    BY <2>6 DEF SessionBackup
  <2>7. CASE SessionBackedUp(s)
    BY <2>7 DEF SessionBackedUp
  <2>8. CASE SessionPoweroff(s)
    <3>1. CASE game # "active" /\ Reboot
      BY <3>1 DEF Reboot
    <3>2. CASE /\ Hangup(s)
               /\ UNCHANGED <<gameVars, fileVars, jobVars>>
      BY <3>2
    <3> QED
      BY <2>8, <3>1, <3>2 DEF SessionPoweroff
  <2>9. CASE SessionQueue(s)
    BY <2>9 DEF SessionQueue
  <2>10. CASE SessionRefuse(s)
    BY <2>10 DEF SessionRefuse
  <2>11. CASE SessionEnqueue(s)
    <3> DEFINE u == cmd[s]
    <3>1. /\ Hangup(s)
          /\ UNCHANGED <<gameVars, fileVars, unit, nextId, looked>>
      BY <2>11 DEF SessionEnqueue
    <3>2. CASE /\ job' = [job EXCEPT ![u] = job[u] \/ unit[u] = "inactive"]
               /\ UNCHANGED jobfile
      BY <3>1, <3>2
    <3>3. CASE Record(u, "interrupted") /\ UNCHANGED job
      BY <3>1, <3>3, RecordType
    <3> QED
      BY <2>11, <3>2, <3>3 DEF SessionEnqueue
  <2> QED
    BY <1>2, <2>1, <2>2, <2>3, <2>4, <2>5, <2>6, <2>7, <2>8, <2>9, <2>10,
       <2>11 DEF SessionStep
<1>3. ASSUME NEW u \in Units, WorkerStep(u)
      PROVE TypeOK'
  <2> USE RecordType DEF Advance, Finish
  <2>1. CASE WorkerLock(u)
    BY <2>1 DEF WorkerLock
  <2>2. CASE WorkerBegin(u)
    BY <2>2 DEF WorkerBegin, UpdateBegin, RestoreBegin
  <2>3. CASE WorkerCheck(u)
    <3>1. UNCHANGED <<gameVars, fileVars, cmd, unitVars, nextId>>
      BY <2>3 DEF WorkerCheck
    <3>2. looked' \in [Units -> BOOLEAN]
      <4>1. looked' = looked \/ looked' = [looked EXCEPT ![u] = ~crowd]
        BY <2>3 DEF WorkerCheck
      <4>2. \A seen \in BOOLEAN : [looked EXCEPT ![u] = seen] \in [Units -> BOOLEAN]
        OBVIOUS
      <4>3. (~crowd) \in BOOLEAN
        OBVIOUS
      <4> QED
        BY <4>1, <4>2, <4>3
    <3>3. \E label \in WorkerLabels, phase \in ActivePhases \cup FinalPhases :
            Goto(u, label) /\ lock' \in {lock, Free} /\ Record(u, phase)
      BY <2>3 DEF WorkerCheck, CheckRefusals
    <3> QED
      BY <3>1, <3>2, <3>3, RecordType
  <2>4. CASE WorkerStop(u)
    BY <2>4 DEF WorkerStop, AfterStop, GameStopping
  <2>5. CASE WorkerStopped(u)
    BY <2>5 DEF WorkerStopped, AfterStop
  <2>6. CASE WorkerBackup(u)
    BY <2>6 DEF WorkerBackup
  <2>7. CASE WorkerStart(u)
    BY <2>7 DEF WorkerStart, GameUp
  <2>8. CASE WorkerAwait(u)
    BY <2>8 DEF WorkerAwait
  <2> QED
    BY <1>3, <2>1, <2>2, <2>3, <2>4, <2>5, <2>6, <2>7, <2>8 DEF WorkerStep
<1>4. ASSUME NEW u \in Units, WorkerKilled(u) \/ UnitRuns(u) \/ UnitSettles(u)
      PROVE TypeOK'
  <2>1. CASE WorkerKilled(u)
    BY <2>1 DEF WorkerKilled
  <2>2. CASE UnitRuns(u)
    BY <2>2 DEF UnitRuns
  <2>3. CASE UnitSettles(u)
    BY <2>3 DEF UnitSettles
  <2> QED
    BY <1>4, <2>1, <2>2, <2>3
<1>5. CASE JobStep
  <2> USE RecordType DEF Advance, Finish
  <2>1. CASE RestoreValidate
    BY <2>1 DEF RestoreValidate
  <2>2. CASE UpdateDownload
    BY <2>2 DEF UpdateDownload
  <2>3. CASE SwitchWorld
    <3>1. UNCHANGED <<gameVars, cmd, unitVars, nextId, looked>>
      BY <2>3 DEF SwitchWorld
    <3>2. /\ world' \in {"present", "missing"}
          /\ block' \in BOOLEAN
      BY <2>3 DEF SwitchWorld, SwitchMark, SwitchAside, SwitchIn, SwitchUndo,
                  SwitchUndone, SwitchUnmark
    <3>3. \E label \in WorkerLabels, phase \in ActivePhases \cup FinalPhases :
            Goto("restore", label) /\ lock' \in {lock, Free}
              /\ Record("restore", phase)
      BY <2>3 DEF SwitchWorld, SwitchMark, SwitchAside, SwitchIn, SwitchUndo,
                  SwitchUndone, SwitchUnmark
    <3> QED
      BY <3>1, <3>2, <3>3
  <2> QED
    BY <1>5, <2>1, <2>2, <2>3 DEF JobStep
<1>6. CASE GameStep
  BY <1>6 DEF GameStep, GameCrashes, GameRestarts, GameStops, PlayersComeOrGo
<1>7. CASE PowerLoss
  BY <1>7 DEF PowerLoss, Reboot
<1>8. CASE OwnerRepairs
  BY <1>8 DEF OwnerRepairs
<1> QED
  BY <1>1, <1>2, <1>3, <1>4, <1>5, <1>6, <1>7, <1>8 DEF Next

\* Every step keeps the facts the properties rest on.
LEMMA CoreStep == IInv /\ Next => Core'
<1> SUFFICES ASSUME TypeOK, Core, Next PROVE Core'
  BY DEF IInv
<1> USE ConstantsAssumption
<1> USE DEF Core, LabelsFit, LockOwned, MarkerPlaced, RestoreBlockProtects,
        StagesRunOffline, SessionInside, WorkerInside, Marked, SwitchLabels,
        OfflineLabels, TypeOK, Procs, Units, GameStates, Down, SessionLabels,
        WorkerLabels, Free, Goto, Leave, Hangup, CallFails, gameVars, fileVars,
        unitVars, jobVars
<1>1. ASSUME NEW s \in Sessions, NEW c \in AllCommands, Arrive(s, c)
      PROVE Core'
  BY <1>1 DEF Arrive
<1>2. ASSUME NEW s \in Sessions, SessionStep(s)
      PROVE Core'
  <2>1. CASE TakeLock(s)
    BY <2>1 DEF TakeLock
  <2>2. CASE Recheck(s)
    BY <2>2 DEF Recheck, LooksFree
  <2>3. CASE SessionStart(s)
    BY <2>3 DEF SessionStart, GameUp
  <2>4. CASE SessionStop(s)
    BY <2>4 DEF SessionStop, GameStopping, StopSucceeds
  <2>5. CASE SessionStopped(s)
    BY <2>5 DEF SessionStopped, StopSucceeds
  <2>6. CASE SessionBackup(s)
    BY <2>6 DEF SessionBackup
  <2>7. CASE SessionBackedUp(s)
    BY <2>7 DEF SessionBackedUp
  <2>8. CASE SessionPoweroff(s)
    BY <2>8 DEF SessionPoweroff, Reboot
  <2>9. CASE SessionQueue(s)
    BY <2>9 DEF SessionQueue
  <2>10. CASE SessionRefuse(s)
    BY <2>10 DEF SessionRefuse
  <2>11. CASE SessionEnqueue(s)
    BY <2>11 DEF SessionEnqueue
  <2> QED
    BY <1>2, <2>1, <2>2, <2>3, <2>4, <2>5, <2>6, <2>7, <2>8, <2>9, <2>10,
       <2>11 DEF SessionStep
<1>3. ASSUME NEW u \in Units, WorkerStep(u)
      PROVE Core'
  <2> USE DEF Advance, Finish
  <2>1. CASE WorkerLock(u)
    BY <2>1 DEF WorkerLock
  <2>2. CASE WorkerBegin(u)
    BY <2>2 DEF WorkerBegin, UpdateBegin, RestoreBegin
  <2>3. CASE WorkerCheck(u)
    BY <2>3 DEF WorkerCheck
  <2>4. CASE WorkerStop(u)
    BY <2>4 DEF WorkerStop, AfterStop, ReallyDown, GameStopping
  <2>5. CASE WorkerStopped(u)
    BY <2>5 DEF WorkerStopped, AfterStop, ReallyDown
  <2>6. CASE WorkerBackup(u)
    BY <2>6 DEF WorkerBackup
  <2>7. CASE WorkerStart(u)
    BY <2>7 DEF WorkerStart, GameUp
  <2>8. CASE WorkerAwait(u)
    BY <2>8 DEF WorkerAwait
  <2> QED
    BY <1>3, <2>1, <2>2, <2>3, <2>4, <2>5, <2>6, <2>7, <2>8 DEF WorkerStep
<1>4. ASSUME NEW u \in Units, WorkerKilled(u) \/ UnitRuns(u) \/ UnitSettles(u)
      PROVE Core'
  <2>1. CASE WorkerKilled(u)
    BY <2>1 DEF WorkerKilled
  <2>2. CASE UnitRuns(u)
    BY <2>2 DEF UnitRuns
  <2>3. CASE UnitSettles(u)
    BY <2>3 DEF UnitSettles
  <2> QED
    BY <1>4, <2>1, <2>2, <2>3
<1>5. CASE JobStep
  <2> USE DEF Advance, Finish
  <2>1. CASE RestoreValidate
    BY <2>1 DEF RestoreValidate
  <2>2. CASE UpdateDownload
    BY <2>2 DEF UpdateDownload
  <2>3. CASE SwitchWorld /\ SwitchMark
    BY <2>3 DEF SwitchWorld, SwitchMark
  <2>4. CASE SwitchWorld /\ SwitchAside
    BY <2>4 DEF SwitchWorld, SwitchAside
  <2>5. CASE SwitchWorld /\ SwitchIn
    BY <2>5 DEF SwitchWorld, SwitchIn
  <2>6. CASE SwitchWorld /\ SwitchUndo
    BY <2>6 DEF SwitchWorld, SwitchUndo
  <2>7. CASE SwitchWorld /\ SwitchUndone
    BY <2>7 DEF SwitchWorld, SwitchUndone
  <2>8. CASE SwitchWorld /\ SwitchUnmark
    BY <2>8 DEF SwitchWorld, SwitchUnmark
  <2> QED
    BY <1>5, <2>1, <2>2, <2>3, <2>4, <2>5, <2>6, <2>7, <2>8
    DEF JobStep, SwitchWorld
<1>6. CASE GameStep
  BY <1>6 DEF GameStep, GameCrashes, GameRestarts, GameStops, PlayersComeOrGo
<1>7. CASE PowerLoss
  BY <1>7 DEF PowerLoss, Reboot
<1>8. CASE OwnerRepairs
  BY <1>8 DEF OwnerRepairs
<1> QED
  BY <1>1, <1>2, <1>3, <1>4, <1>5, <1>6, <1>7, <1>8 DEF Next

-----------------------------------------------------------------------------

\* The inductive invariant survives every step of the PC, and every stutter.
LEMMA IInvStep == IInv /\ [Next]_vars => IInv'
<1>1. ASSUME IInv, Next PROVE IInv'
  BY <1>1, TypeStep, CoreStep DEF IInv
<1>2. ASSUME IInv, UNCHANGED vars PROVE IInv'
  BY <1>2 DEF IInv, Core, vars, TypeOK, LabelsFit, LockOwned, MarkerPlaced,
              RestoreBlockProtects, StagesRunOffline
<1> QED
  BY <1>1, <1>2

\* The inductive invariant holds in every state the PC can reach: the types, who
\* is where while holding operation.lock, where the marker is due, and the two
\* safety properties that lean on each other.
THEOREM Invariance == Spec => []IInv
<1> QED
  BY InitIInv, IInvStep, PTL DEF Spec

\* Every value of every variable is in its type, whatever is accepted, killed
\* or switched off.
THEOREM TypeCorrect == Spec => []TypeOK
<1>1. IInv => TypeOK
  BY DEF IInv
<1> QED
  BY Invariance, <1>1, PTL

\* For any number of sessions and any faults: while the world is missing the
\* marker is there, and while the marker is there the game is down.
THEOREM BlockProtects == Spec => []RestoreBlockProtects
<1>1. IInv => RestoreBlockProtects
  BY DEF IInv, Core
<1> QED
  BY Invariance, <1>1, PTL

\* For any number of sessions and any faults: a job that is past its stop has
\* the game down until it starts it itself.
THEOREM StagesOffline == Spec => []StagesRunOffline
<1>1. IInv => StagesRunOffline
  BY DEF IInv, Core
<1> QED
  BY Invariance, <1>1, PTL

\* For any number of sessions and any faults: a backup over SSH archives a
\* complete world that no restore is replacing.
THEOREM ArchiveWhole == Spec => []ArchiveSeesWholeWorld
<1>1. IInv => ArchiveSeesWholeWorld
  <2> SUFFICES ASSUME IInv, NEW s \in Sessions, pc[s] = "archiving"
               PROVE world = "present" /\ pc["restore"] \notin SwitchLabels
    BY DEF ArchiveSeesWholeWorld
  <2>1. lock = s /\ ~block
    BY DEF IInv, Core, LockOwned, MarkerPlaced, SessionInside
  <2>2. world = "present"
    BY <2>1 DEF IInv, Core, TypeOK, RestoreBlockProtects
  <2>3. pc["restore"] \in SwitchLabels => lock = "restore"
    BY DEF IInv, Core, LockOwned, SwitchLabels, WorkerInside, WorkerLabels, Units
  <2>4. s # "restore"
    BY ConstantsAssumption DEF Units
  <2> QED
    BY <2>1, <2>2, <2>3, <2>4
<1> QED
  BY Invariance, <1>1, PTL

-----------------------------------------------------------------------------
(* Who is in the game when a job stops it. *)

\* Nobody is in a game that is down or about to restart, and a job that is about
\* to stop the game has found it empty.
Lookout ==
  /\ crowd => game \in {"active", "deactivating"}
  /\ \A u \in Units : pc[u] = "stopping" => looked[u]

\* Every step keeps Lookout.
LEMMA LookoutStep == TypeOK /\ Lookout /\ Next => Lookout'
<1> SUFFICES ASSUME TypeOK, Lookout, Next PROVE Lookout'
  OBVIOUS
<1> USE ConstantsAssumption
<1> USE DEF Lookout, TypeOK, Procs, Units, GameStates, Down, SessionLabels,
        WorkerLabels, Free, Goto, Leave, Hangup, CallFails, gameVars, fileVars,
        unitVars, jobVars
<1>1. ASSUME NEW s \in Sessions, NEW c \in AllCommands, Arrive(s, c)
      PROVE Lookout'
  BY <1>1 DEF Arrive
<1>2. ASSUME NEW s \in Sessions, SessionStep(s)
      PROVE Lookout'
  <2>1. CASE TakeLock(s)
    BY <2>1 DEF TakeLock
  <2>2. CASE Recheck(s)
    BY <2>2 DEF Recheck
  <2>3. CASE SessionStart(s)
    BY <2>3 DEF SessionStart, GameUp
  <2>4. CASE SessionStop(s)
    BY <2>4 DEF SessionStop, GameStopping, StopSucceeds
  <2>5. CASE SessionStopped(s)
    BY <2>5 DEF SessionStopped, StopSucceeds
  <2>6. CASE SessionBackup(s)
    BY <2>6 DEF SessionBackup
  <2>7. CASE SessionBackedUp(s)
    BY <2>7 DEF SessionBackedUp
  <2>8. CASE SessionPoweroff(s)
    BY <2>8 DEF SessionPoweroff, Reboot
  <2>9. CASE SessionQueue(s)
    BY <2>9 DEF SessionQueue
  <2>10. CASE SessionRefuse(s)
    BY <2>10 DEF SessionRefuse
  <2>11. CASE SessionEnqueue(s)
    BY <2>11 DEF SessionEnqueue
  <2> QED
    BY <1>2, <2>1, <2>2, <2>3, <2>4, <2>5, <2>6, <2>7, <2>8, <2>9, <2>10,
       <2>11 DEF SessionStep
<1>3. ASSUME NEW u \in Units, WorkerStep(u)
      PROVE Lookout'
  <2> USE DEF Advance, Finish
  <2>1. CASE WorkerLock(u)
    BY <2>1 DEF WorkerLock
  <2>2. CASE WorkerBegin(u)
    BY <2>2 DEF WorkerBegin, UpdateBegin, RestoreBegin
  <2>3. CASE WorkerCheck(u)
    BY <2>3 DEF WorkerCheck, SeenEmpty
  <2>4. CASE WorkerStop(u)
    BY <2>4 DEF WorkerStop, AfterStop, ReallyDown, GameStopping
  <2>5. CASE WorkerStopped(u)
    BY <2>5 DEF WorkerStopped, AfterStop, ReallyDown
  <2>6. CASE WorkerBackup(u)
    BY <2>6 DEF WorkerBackup
  <2>7. CASE WorkerStart(u)
    BY <2>7 DEF WorkerStart, GameUp
  <2>8. CASE WorkerAwait(u)
    BY <2>8 DEF WorkerAwait
  <2> QED
    BY <1>3, <2>1, <2>2, <2>3, <2>4, <2>5, <2>6, <2>7, <2>8 DEF WorkerStep
<1>4. ASSUME NEW u \in Units, WorkerKilled(u) \/ UnitRuns(u) \/ UnitSettles(u)
      PROVE Lookout'
  BY <1>4 DEF WorkerKilled, UnitRuns, UnitSettles
<1>5. CASE JobStep
  <2> USE DEF Advance, Finish
  <2>1. CASE RestoreValidate
    BY <2>1 DEF RestoreValidate
  <2>2. CASE UpdateDownload
    BY <2>2 DEF UpdateDownload
  <2>3. CASE SwitchWorld
    BY <2>3 DEF SwitchWorld, SwitchMark, SwitchAside, SwitchIn, SwitchUndo,
                SwitchUndone, SwitchUnmark
  <2> QED
    BY <1>5, <2>1, <2>2, <2>3 DEF JobStep
<1>6. CASE GameStep
  BY <1>6 DEF GameStep, GameCrashes, GameRestarts, GameStops, PlayersComeOrGo
<1>7. CASE PowerLoss
  BY <1>7 DEF PowerLoss, Reboot
<1>8. CASE OwnerRepairs
  BY <1>8 DEF OwnerRepairs
<1> QED
  BY <1>1, <1>2, <1>3, <1>4, <1>5, <1>6, <1>7, <1>8 DEF Next

\* A job stops a running game only if the game was empty when it last looked,
\* however sessions, players and crashes come between.
THEOREM EmptyBefore == Spec => EmptyBeforeStop
<1>1. Init => Lookout
  BY DEF Init, Lookout, Procs, Units
<1>2. TypeOK /\ Lookout /\ [Next]_vars => Lookout'
  <2>1. ASSUME Lookout, UNCHANGED vars PROVE Lookout'
    BY <2>1 DEF Lookout, vars
  <2> QED
    BY <2>1, LookoutStep
<1>3. Lookout => \A u \in Units :
        pc[u] = "stopping" /\ game = "active" /\ game' = "deactivating"
          /\ pc'[u] = "waiting" => looked[u]
  BY DEF Lookout
<1> QED
  BY TypeCorrect, <1>1, <1>2, <1>3, PTL DEF Spec, EmptyBeforeStop

-----------------------------------------------------------------------------
(* What a reader of restore-state learns of the marker. *)

\* The phase goes with the switch; systemd keeps a start job only for a unit that
\* does not run; and no restore gets near its first check while the marker is
\* there, so none replaces the phase.
SwitchReported ==
  /\ BlockIsReported
  /\ pc["restore"] \in SwitchLabels => jobfile["restore"].phase = "restoring"
  /\ \A u \in Units : job[u] => unit[u] = "inactive"
  /\ block => ~job["restore"] /\ pc["restore"] \notin {"lockwait", "begin"}

\* Every step keeps SwitchReported.
LEMMA ReportedStep == IInv /\ SwitchReported /\ Next => SwitchReported'
<1> SUFFICES ASSUME TypeOK, LabelsFit, LockOwned, MarkerPlaced, SwitchReported, Next
             PROVE  SwitchReported'
  BY DEF IInv, Core
<1> USE ConstantsAssumption
<1> USE DEF SwitchReported, BlockIsReported, LabelsFit, LockOwned, MarkerPlaced,
        SessionInside, WorkerInside, Marked, SwitchLabels, TypeOK, Procs, Units,
        SessionLabels, WorkerLabels, Free, Goto, Leave, Hangup, CallFails,
        Record, gameVars, fileVars, unitVars, jobVars
<1>1. ASSUME NEW s \in Sessions, NEW c \in AllCommands, Arrive(s, c)
      PROVE SwitchReported'
  BY <1>1 DEF Arrive
<1>2. ASSUME NEW s \in Sessions, SessionStep(s)
      PROVE SwitchReported'
  <2>1. CASE TakeLock(s)
    BY <2>1 DEF TakeLock
  <2>2. CASE Recheck(s)
    BY <2>2 DEF Recheck
  <2>3. CASE SessionStart(s)
    BY <2>3 DEF SessionStart, GameUp
  <2>4. CASE SessionStop(s)
    BY <2>4 DEF SessionStop, GameStopping, StopSucceeds
  <2>5. CASE SessionStopped(s)
    BY <2>5 DEF SessionStopped, StopSucceeds
  <2>6. CASE SessionBackup(s)
    BY <2>6 DEF SessionBackup
  <2>7. CASE SessionBackedUp(s)
    BY <2>7 DEF SessionBackedUp
  <2>8. CASE SessionPoweroff(s)
    BY <2>8 DEF SessionPoweroff, Reboot
  <2>9. CASE SessionQueue(s)
    BY <2>9 DEF SessionQueue
  <2>10. CASE SessionRefuse(s)
    BY <2>10 DEF SessionRefuse
  <2>11. CASE SessionEnqueue(s)
    BY <2>11 DEF SessionEnqueue
  <2> QED
    BY <1>2, <2>1, <2>2, <2>3, <2>4, <2>5, <2>6, <2>7, <2>8, <2>9, <2>10,
       <2>11 DEF SessionStep
<1>3. ASSUME NEW u \in Units, WorkerStep(u)
      PROVE SwitchReported'
  <2> USE DEF Advance, Finish
  <2>1. CASE WorkerLock(u)
    BY <2>1 DEF WorkerLock
  <2>2. CASE WorkerBegin(u)
    BY <2>2 DEF WorkerBegin, UpdateBegin, RestoreBegin
  <2>3. CASE WorkerCheck(u)
    BY <2>3 DEF WorkerCheck, SeenEmpty, CheckRefusals
  <2>4. CASE WorkerStop(u)
    BY <2>4 DEF WorkerStop, AfterStop, ReallyDown, GameStopping
  <2>5. CASE WorkerStopped(u)
    BY <2>5 DEF WorkerStopped, AfterStop, ReallyDown
  <2>6. CASE WorkerBackup(u)
    BY <2>6 DEF WorkerBackup
  <2>7. CASE WorkerStart(u)
    BY <2>7 DEF WorkerStart, GameUp
  <2>8. CASE WorkerAwait(u)
    BY <2>8 DEF WorkerAwait
  <2> QED
    BY <1>3, <2>1, <2>2, <2>3, <2>4, <2>5, <2>6, <2>7, <2>8 DEF WorkerStep
<1>4. ASSUME NEW u \in Units, WorkerKilled(u) \/ UnitRuns(u) \/ UnitSettles(u)
      PROVE SwitchReported'
  BY <1>4 DEF WorkerKilled, UnitRuns, UnitSettles
<1>5. CASE JobStep
  <2> USE DEF Advance, Finish
  <2>1. CASE RestoreValidate
    BY <2>1 DEF RestoreValidate
  <2>2. CASE UpdateDownload
    BY <2>2 DEF UpdateDownload
  <2>3. CASE SwitchWorld
    BY <2>3 DEF SwitchWorld, SwitchMark, SwitchAside, SwitchIn, SwitchUndo,
                SwitchUndone, SwitchUnmark
  <2> QED
    BY <1>5, <2>1, <2>2, <2>3 DEF JobStep
<1>6. CASE GameStep
  BY <1>6 DEF GameStep, GameCrashes, GameRestarts, GameStops, PlayersComeOrGo
<1>7. CASE PowerLoss
  BY <1>7 DEF PowerLoss, Reboot
<1>8. CASE OwnerRepairs
  BY <1>8 DEF OwnerRepairs
<1> QED
  BY <1>1, <1>2, <1>3, <1>4, <1>5, <1>6, <1>7, <1>8 DEF Next

\* For any number of sessions and any faults: while the marker is there, the
\* restore state says restoring or failed_restore.
THEOREM BlockReported == Spec => []BlockIsReported
<1>1. Init => SwitchReported
  BY DEF Init, SwitchReported, BlockIsReported, SwitchLabels, Procs, Units
<1>2. IInv /\ SwitchReported /\ [Next]_vars => SwitchReported'
  <2>1. ASSUME SwitchReported, UNCHANGED vars PROVE SwitchReported'
    BY <2>1 DEF SwitchReported, BlockIsReported, vars
  <2> QED
    BY <2>1, ReportedStep
<1>3. SwitchReported => BlockIsReported
  BY DEF SwitchReported
<1> QED
  BY Invariance, <1>1, <1>2, <1>3, PTL DEF Spec

===============================================================================
