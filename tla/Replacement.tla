------------------------------ MODULE Replacement ------------------------------
(***************************************************************************)
(* What replacing the world promises to the game: it is shown the old      *)
(* world or the new one, each complete, or nothing; it never sees a world  *)
(* vanish or change under it, because it is hidden in between.             *)
(***************************************************************************)
EXTENDS Naturals

CONSTANT Hidden   \* what the game is shown while it may not start

VARIABLES
  shown,    \* the world the game would start with, or Hidden
  old,      \* the world that was there when the replacement was asked for
  offered   \* the world that was asked for last

vars == <<shown, old, offered>>

Init == shown = 0 /\ old = 0 /\ offered = 0

Offer ==
  /\ shown # Hidden
  /\ old' = shown
  /\ offered' = offered + 1
  /\ UNCHANGED shown

Hide ==
  /\ shown' = Hidden
  /\ UNCHANGED <<old, offered>>

Show ==
  /\ shown = Hidden
  /\ shown' \in {old, offered}
  /\ UNCHANGED <<old, offered>>

Next == Offer \/ Hide \/ Show

Spec == Init /\ [][Next]_vars
=============================================================================
