------------------------------- MODULE JobStatus -------------------------------
(***************************************************************************)
(* The status command next to the jobs: cmd_update_status and              *)
(* restore_status read the state file first and ask systemd for the unit   *)
(* afterwards, without the lock.                                           *)
(***************************************************************************)
EXTENDS ServerPC

VARIABLES
  view,   \* what a reader has read and not yet answered
  told    \* history: the final phases readers were told, with unit and id

statusVars == <<view, told>>
allVars == <<vars, statusVars>>

NoView == [unit |-> "none", id |-> 0, phase |-> "none"]
Views  == [unit: Units, id: Nat, phase: ActivePhases \cup FinalPhases]

StatusTypeOK ==
  /\ view \in Views \cup {NoView}
  /\ told \subseteq Units \X Nat \X FinalPhases

StatusInit == Init /\ view = NoView /\ told = {}

ReadFile(u) ==
  /\ view = NoView
  /\ jobfile[u].phase # "none"
  /\ view' = [unit |-> u, id |-> jobfile[u].id, phase |-> jobfile[u].phase]
  /\ UNCHANGED <<vars, told>>

\* Mutant: the state of the unit is printed in place of the phase.
ReportedFromUnit(v) ==
  IF v.phase \in ActivePhases /\ unit[v.unit] # "activating"
  THEN unit[v.unit] ELSE v.phase

\* What is printed: an active phase only while the unit runs.
Reported(v) ==
  IF v.phase \in ActivePhases /\ unit[v.unit] # "activating"
  THEN "interrupted" ELSE v.phase

\* Readers keep what they were told unless the job was still running.
Tell(v, id) ==
  told' = IF Reported(v) \in ActivePhases
          THEN told ELSE told \cup {<<v.unit, id, Reported(v)>>}

\* Mutant: the file is opened a second time for the id.
AnswerReadingTwice ==
  /\ view # NoView
  /\ view' = NoView
  /\ Tell(view, jobfile[view.unit].id)
  /\ UNCHANGED vars

Answer ==
  /\ view # NoView
  /\ view' = NoView
  /\ Tell(view, view.id)
  /\ UNCHANGED vars

StatusNext ==
  \/ Next /\ UNCHANGED statusVars
  \/ \E u \in Units : ReadFile(u)
  \/ Answer

StatusSpec == StatusInit /\ [][StatusNext]_allVars

\* With the fairness of ServerPC.  Nobody is obliged to ask for a status.
FairStatusSpec == StatusSpec /\ Fairness

-----------------------------------------------------------------------------

\* A result that a reader was told stays the result of that job for good;
\* ids are never used twice, so it is never mistaken for another job's.
\* "interrupted" is no such result: it is also what a job is called between its
\* enqueueing and its start.
ToldResultsStand ==
  \A u \in Units : \A p \in FinalPhases \ {"interrupted"} :
    <<u, jobfile[u].id, p>> \in told => jobfile[u].phase = p

=============================================================================
