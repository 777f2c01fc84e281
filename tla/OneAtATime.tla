------------------------------- MODULE OneAtATime -------------------------------
(***************************************************************************)
(* What operation.lock promises to everybody who uses the PC: one command  *)
(* or worker at a time.  Whoever holds the lock does only what its command *)
(* is for and nobody else does it; by itself the game only crashes, comes  *)
(* back after a crash, and ends a stop.                                    *)
(***************************************************************************)
EXTENDS Naturals

CONSTANTS
  Free,        \* the holder while there is none
  LosesPower   \* may the machine go down without a command

VARIABLES
  holder,      \* of the lock
  command,     \* what it runs
  game,        \* down, up, restarting after a crash, or stopping
  requested    \* the latest update and the latest restore that were asked for

vars == <<holder, command, game, requested>>

Kinds == {"update", "restore"}
Tasks == {"start", "restart", "shutdown", "backup", "poweroff", "worker"} \cup Kinds

Init ==
  /\ holder = Free /\ command = "none"
  /\ game \in {"down", "up"}
  /\ requested = [k \in Kinds |-> 0]

\* A worker comes only for a job that was asked for.
Take ==
  /\ holder = Free /\ holder' # Free
  /\ command' \in Tasks
  /\ command' = "worker" => \E k \in Kinds : requested[k] > 0
  /\ UNCHANGED <<game, requested>>

GivesBack == holder' = Free /\ command' = "none"

\* The holder keeps the lock, or this was the last thing it did.
Proceeds == UNCHANGED <<holder, command>> \/ GivesBack

Leave ==
  /\ holder # Free
  /\ GivesBack
  /\ UNCHANGED <<game, requested>>

StartGame ==
  /\ command \in {"start", "restart", "worker"}
  /\ game # "stopping" /\ game' = "up"
  /\ Proceeds
  /\ UNCHANGED requested

\* A worker also calls off the restart of a game that crashed.
StopGame ==
  /\ \/ command \in {"shutdown", "restart", "worker"} /\ game = "up"
     \/ command = "worker" /\ game = "restarting"
  /\ game' \in {"stopping", "down"}
  /\ Proceeds
  /\ UNCHANGED requested

Request ==
  /\ command \in Kinds
  /\ requested'[command] > requested[command]
  /\ \A k \in Kinds \ {command} : requested'[k] = requested[k]
  /\ Proceeds
  /\ UNCHANGED game

\* The machine goes down, by command never with the game up.
GoDown ==
  /\ LosesPower \/ (command = "poweroff" /\ game # "up")
  /\ game' = "down"
  /\ GivesBack
  /\ UNCHANGED requested

GameAlone ==
  /\ <<game, game'>> \in {<<"up", "restarting">>, <<"restarting", "up">>,
                          <<"stopping", "down">>}
  /\ UNCHANGED <<holder, command, requested>>

Next == Take \/ Leave \/ StartGame \/ StopGame \/ Request \/ GoDown \/ GameAlone

Spec == Init /\ [][Next]_vars
=============================================================================
