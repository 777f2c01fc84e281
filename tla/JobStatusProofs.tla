----------------------------- MODULE JobStatusProofs -----------------------------
(***************************************************************************)
(* Proofs about JobStatus: what a reader was told of a job that is over    *)
(* holds for good, although the file is read and the unit asked without    *)
(* the lock.  It rests on JobPipeline: an id that has a result keeps it,   *)
(* and a new request has a greater id.                                     *)
(***************************************************************************)
EXTENDS JobStatus, PipelineProofs

\* The phases a job does not leave.
Ended == FinalPhases \ {"interrupted"}

\* The state file has not gone back behind an id and a phase that were read.
NotBehind(u, i, p) ==
  /\ i <= jobfile[u].id
  /\ i = jobfile[u].id /\ p \in Ended => jobfile[u].phase = p

ReadersFit ==
  /\ view # NoView => NotBehind(view.unit, view.id, view.phase)
  /\ \A u \in Units, i \in Nat, p \in FinalPhases : <<u, i, p>> \in told => NotBehind(u, i, p)

StatusInv == IInv /\ PhaseFits /\ StatusTypeOK /\ ReadersFit

-----------------------------------------------------------------------------

\* No step of the PC takes a job back behind what was read of it.
LEMMA StaysNotBehind ==
  ASSUME IInv, IInv', PhaseFits, [Next]_vars, NEW u \in Units, NEW i \in Nat, NEW p,
         NotBehind(u, i, p)
  PROVE  NotBehind(u, i, p)'
<1>1. Moves(u)
  BY EachMoves
<1>2. /\ jobfile[u].id \in Nat /\ jobfile'[u].id \in Nat
      /\ jobfile[u].phase \in ActivePhases \cup FinalPhases
  BY DEF IInv, TypeOK
<1>3. /\ jobfile'[u].id >= jobfile[u].id
      /\ jobfile'[u].id = jobfile[u].id /\ jobfile[u].phase \in Ended
           => jobfile'[u].phase = jobfile[u].phase
  <2>1. jobfile[u].phase \in Ended =>
          jobfile[u].phase \notin {"queued", "interrupted", "checking", "validating",
                                   "stopping", "backup", "downloading", "restoring",
                                   "starting"}
    BY DEF Ended, FinalPhases
  <2>2. CASE Rests(u) \/ IsRun(u)
    BY <1>2, <2>2 DEF Rests, IsRun
  <2>3. CASE IsRequested(u)
    BY <1>2, <2>3 DEF IsRequested
  <2>4. CASE IsRejected(u)
    BY <1>2, <2>1, <2>4 DEF IsRejected
  <2>5. CASE GoesOn(u)
    BY <1>2, <2>1, <2>5 DEF GoesOn, Successors
  <2>6. CASE IsOver(u)
    BY <1>2, <2>1, <2>6, FailuresAre DEF IsOver
  <2> QED
    BY <1>1, <2>2, <2>3, <2>4, <2>5, <2>6 DEF Moves
<1> QED
  BY <1>2, <1>3 DEF NotBehind

\* What is printed of a job that is over is what was read.
LEMMA ReportedIs ==
  ASSUME NEW v \in Views
  PROVE  /\ Reported(v) \in ActivePhases \cup FinalPhases
         /\ Reported(v) \in Ended => Reported(v) = v.phase
BY DEF Reported, Views, Ended, ActivePhases, FinalPhases

\* Every step of the PC and every step of a reader keeps the invariant.
LEMMA StatusStep == StatusInv /\ [StatusNext]_allVars => StatusInv'
<1> SUFFICES ASSUME IInv, PhaseFits, StatusTypeOK, ReadersFit, [StatusNext]_allVars
             PROVE  StatusInv'
  BY DEF StatusInv
<1>1. [Next]_vars
  BY DEF StatusNext, allVars, ReadFile, Answer
<1>2. IInv' /\ PhaseFits'
  <2>1. CASE UNCHANGED vars
    BY <2>1, IInvStep DEF vars, PhaseFits
  <2> QED
    BY <1>1, <2>1, IInvStep, PhaseStep
<1>3. NoView \notin Views
  BY DEF NoView, Views, Units
<1>4. CASE UNCHANGED statusVars
  <2>1. StatusTypeOK'
    BY <1>4 DEF statusVars, StatusTypeOK
  <2>2. ASSUME view # NoView PROVE NotBehind(view.unit, view.id, view.phase)'
    <3>1. view' = view /\ view.unit \in Units /\ view.id \in Nat
      BY <1>4, <2>2 DEF statusVars, StatusTypeOK, Views
    <3>2. NotBehind(view.unit, view.id, view.phase)
      BY <2>2 DEF ReadersFit
    <3> QED
      BY <1>1, <1>2, <3>1, <3>2, StaysNotBehind DEF NotBehind
  <2>3. ASSUME NEW u \in Units, NEW i \in Nat, NEW p \in FinalPhases, <<u, i, p>> \in told
        PROVE  NotBehind(u, i, p)'
    BY <1>1, <1>2, <2>3, StaysNotBehind DEF ReadersFit
  <2> QED
    BY <1>2, <1>4, <2>1, <2>2, <2>3 DEF StatusInv, ReadersFit, statusVars
<1>5. ASSUME NEW u \in Units, ReadFile(u) PROVE StatusInv'
  <2>1. /\ view' = [unit |-> u, id |-> jobfile[u].id, phase |-> jobfile[u].phase]
        /\ UNCHANGED told /\ UNCHANGED jobfile
    BY <1>5 DEF ReadFile, vars
  <2>2. view' \in Views
    BY <2>1 DEF IInv, TypeOK, Views
  <2>3. NotBehind(view.unit, view.id, view.phase)'
    BY <2>1 DEF NotBehind, IInv, TypeOK
  <2> QED
    BY <1>2, <2>1, <2>2, <2>3 DEF StatusInv, StatusTypeOK, ReadersFit, NotBehind
<1>6. CASE Answer
  <2>1. /\ view' = NoView /\ UNCHANGED jobfile /\ view \in Views
        /\ told' = IF Reported(view) \in ActivePhases
                   THEN told ELSE told \cup {<<view.unit, view.id, Reported(view)>>}
    BY <1>6 DEF Answer, Tell, vars, StatusTypeOK
  <2>2. /\ view.unit \in Units /\ view.id \in Nat
        /\ NotBehind(view.unit, view.id, view.phase)
    BY <1>6, <2>1 DEF Views, Answer, ReadersFit
  <2>3. NotBehind(view.unit, view.id, Reported(view))
    BY <2>1, <2>2, ReportedIs DEF NotBehind
  <2>4. Reported(view) \in ActivePhases \cup FinalPhases
    BY <2>1, ReportedIs
  <2>5. StatusTypeOK'
    BY <2>1, <2>2, <2>4 DEF StatusTypeOK
  <2>6. ASSUME NEW u \in Units, NEW i \in Nat, NEW p \in FinalPhases, <<u, i, p>> \in told'
        PROVE  NotBehind(u, i, p)'
    <3>1. \/ <<u, i, p>> \in told
          \/ u = view.unit /\ i = view.id /\ p = Reported(view)
      BY <2>1, <2>6
    <3> QED
      BY <2>1, <2>3, <3>1 DEF NotBehind, ReadersFit
  <2> QED
    BY <1>2, <2>1, <2>5, <2>6 DEF StatusInv, ReadersFit
<1>7. CASE UNCHANGED allVars
  BY <1>4, <1>7 DEF allVars
<1> QED
  BY <1>4, <1>5, <1>6, <1>7 DEF StatusNext

\* Readers see what the invariant says, for any number of requests and faults.
THEOREM StatusInvariance == StatusSpec => []StatusInv
<1>1. StatusInit => StatusInv
  BY InitIInv, PhaseInit DEF StatusInit, StatusInv, StatusTypeOK, ReadersFit
<1> QED
  BY <1>1, StatusStep, PTL DEF StatusSpec

\* What a reader has read and what readers were told is of the jobs' types.
THEOREM StatusTypeCorrect == StatusSpec => []StatusTypeOK
<1>1. StatusInv => StatusTypeOK
  BY DEF StatusInv
<1> QED
  BY <1>1, StatusInvariance, PTL

\* A result that a reader was told is never taken back and never passes for the
\* result of another request.
THEOREM ResultsStand == StatusSpec => []ToldResultsStand
<1>1. StatusInv => ToldResultsStand
  BY DEF StatusInv, ReadersFit, NotBehind, ToldResultsStand, Ended, IInv, TypeOK
<1> QED
  BY <1>1, StatusInvariance, PTL

=============================================================================
