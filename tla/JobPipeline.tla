------------------------------ MODULE JobPipeline ------------------------------
(***************************************************************************)
(* What an update or restore job promises to whoever reads its state file: *)
(* a request gets a fresh id and the phase "queued"; while its worker runs *)
(* the phase goes through the stages in their order, none left out; it     *)
(* ends in a failure that belongs to the stage it was in, or in            *)
(* "succeeded" after the last one; and what has ended stays as it is until *)
(* the next request.  A worker that dies leaves the stage it had reached.  *)
(***************************************************************************)
EXTENDS Naturals, Sequences

CONSTANTS
  Stages,     \* the active phases after "queued", in order
  Failures    \* the final phases each of "queued" and the stages may end in

VARIABLES id, phase, running

vars == <<id, phase, running>>

Init ==
  /\ id = 0
  /\ phase = "none"
  /\ running = FALSE

Request ==
  /\ ~running
  /\ id' > id
  /\ phase' = "queued"
  /\ UNCHANGED running

\* The launcher could not hand the job to systemd.
Reject ==
  /\ ~running
  /\ phase = "queued"
  /\ phase' = "interrupted"
  /\ UNCHANGED <<id, running>>

\* A rejected request may have replaced one that systemd had already accepted.
Run ==
  /\ ~running
  /\ phase \in {"queued", "interrupted"}
  /\ running' = TRUE
  /\ UNCHANGED <<id, phase>>

FirstStage ==
  /\ running
  /\ phase \in {"queued", "interrupted"}
  /\ phase' = Stages[1]
  /\ UNCHANGED <<id, running>>

NextStage ==
  /\ running
  /\ \E i \in 1..Len(Stages) - 1 : phase = Stages[i] /\ phase' = Stages[i + 1]
  /\ UNCHANGED <<id, running>>

Fail ==
  /\ running
  /\ phase \in DOMAIN Failures
  /\ phase' \in Failures[phase]
  /\ running' = FALSE
  /\ UNCHANGED id

Succeed ==
  /\ running
  /\ phase = Stages[Len(Stages)]
  /\ phase' = "succeeded"
  /\ running' = FALSE
  /\ UNCHANGED id

Die ==
  /\ running
  /\ running' = FALSE
  /\ UNCHANGED <<id, phase>>

Next == \/ Request \/ Reject \/ Run \/ FirstStage \/ NextStage
        \/ Fail \/ Succeed \/ Die

Spec == Init /\ [][Next]_vars
=============================================================================
