------------------------------ MODULE WorldSwitch ------------------------------
(***************************************************************************)
(* switch_world on a disk that forgets: the restore worker renames the     *)
(* world aside and the staged one into its place, under a marker, with an  *)
(* fsync of the directory after every step.  A power loss may undo what    *)
(* was not synced; every call may fail; the worker may be killed.          *)
(*                                                                         *)
(* A world is named by the restore that brought it: 0 was there first.     *)
(***************************************************************************)
EXTENDS Naturals

CONSTANTS
  MaxRestores,  \* bound: how many restores are started
  MaxErrors,    \* bound: how many calls fail
  Missing       \* what an entry holds that is not there

ASSUME BoundsAssumption ==
  /\ MaxRestores \in Nat
  /\ MaxErrors \in Nat
  /\ Missing \notin Nat

Jobs    == 1..MaxRestores
Worlds  == 0..MaxRestores
Entries == Worlds \cup {Missing}

VARIABLES
  dir,        \* WORLD.parent: what worlds_local, .before-restore-ID and the
              \* staging directory hold
  mark,       \* STATE: is restore-block there
  dirMaybe,   \* what a power loss may leave of dir
  markMaybe,  \* what a power loss may leave of mark
  pc, job, errors,
  played      \* history: worlds the game has been started with

vars == <<dir, mark, dirMaybe, markMaybe, pc, job, errors, played>>

Dirs == [world: Entries, before: [Jobs -> Entries], staging: Entries]

Labels == {"idle", "mark", "markSync", "aside", "asideSync", "in", "inSync",
           "undo", "undoSync", "undoUnmark", "undoUnmarkSync", "unmark",
           "unmarkSync", "done", "failed"}

TypeOK ==
  /\ dir \in Dirs
  /\ mark \in BOOLEAN
  /\ dirMaybe \subseteq Dirs
  /\ markMaybe \subseteq BOOLEAN
  /\ pc \in Labels
  /\ job \in Worlds
  /\ errors \in 0..MaxErrors
  /\ played \subseteq Worlds

Init ==
  /\ dir = [world |-> 0, before |-> [j \in Jobs |-> Missing], staging |-> Missing]
  /\ mark = FALSE
  /\ dirMaybe = {dir}
  /\ markMaybe = {mark}
  /\ pc = "idle"
  /\ job = 0
  /\ errors = 0
  /\ played = {0}

dirVars  == <<dir, dirMaybe>>
markVars == <<mark, markMaybe>>
histVars == <<job, played>>

-----------------------------------------------------------------------------
(* What the calls do to the disk. *)

\* A rename, seen at once, on disk some time later.
ChangeDir(new) == dir' = new /\ dirMaybe' = dirMaybe \cup {new}

ChangeMark(new) == mark' = new /\ markMaybe' = markMaybe \cup {new}

\* sync_directory.
SyncDir  == dirMaybe' = {dir} /\ UNCHANGED dir
SyncMark == markMaybe' = {mark} /\ UNCHANGED mark

\* A call raises an error, which takes the worker to label.
Raises(label) ==
  /\ errors < MaxErrors
  /\ errors' = errors + 1
  /\ pc' = label
  /\ UNCHANGED <<dirVars, markVars>>

Goes(label) == pc' = label /\ UNCHANGED errors

-----------------------------------------------------------------------------
(* The worker.                                                               *)

\* prepare_archive: a complete world in a staging directory of its own.
Prepare ==
  /\ pc = "idle" /\ ~mark /\ dir.world # Missing
  /\ job < MaxRestores
  /\ job' = job + 1
  /\ ChangeDir([dir EXCEPT !.staging = job + 1])
  /\ Goes("mark")
  /\ UNCHANGED <<markVars, played>>

\* atomic_json up to os.replace.
Mark ==
  /\ pc = "mark"
  /\ \/ ChangeMark(TRUE) /\ Goes("markSync") /\ UNCHANGED dirVars
     \/ Raises("failed")
  /\ UNCHANGED histVars

\* Mutant: the marker is written and not synced.
MarkNotSynced ==
  /\ pc = "markSync"
  /\ Goes("aside")
  /\ UNCHANGED <<dirVars, markVars, histVars>>

\* The sync_directory of atomic_json.
MarkSync ==
  /\ pc = "markSync"
  /\ \/ SyncMark /\ Goes("aside") /\ UNCHANGED dirVars
     \/ Raises("failed")
  /\ UNCHANGED histVars

\* WORLD.rename(old)
Aside ==
  /\ pc = "aside"
  /\ \/ /\ ChangeDir([dir EXCEPT !.world = Missing, !.before[job] = dir.world])
        /\ Goes("asideSync")
        /\ UNCHANGED markVars
     \/ Raises("failed")
  /\ UNCHANGED histVars

\* Outside the try: an error here ends the switch.
AsideSync ==
  /\ pc = "asideSync"
  /\ \/ SyncDir /\ Goes("in") /\ UNCHANGED markVars
     \/ Raises("failed")
  /\ UNCHANGED histVars

\* replacement.rename(WORLD)
In ==
  /\ pc = "in"
  /\ \/ /\ ChangeDir([dir EXCEPT !.world = dir.staging, !.staging = Missing])
        /\ Goes("inSync")
        /\ UNCHANGED markVars
     \/ Raises("undo")
  /\ UNCHANGED histVars

InSync ==
  /\ pc = "inSync"
  /\ \/ SyncDir /\ Goes("unmark") /\ UNCHANGED markVars
     \/ Raises("undo")
  /\ UNCHANGED histVars

\* Mutant: the first world that was ever moved aside is put back.
UndoOldest ==
  /\ pc = "undo"
  /\ \/ /\ dir.world = Missing
        /\ \E j \in Jobs :
             /\ dir.before[j] # Missing
             /\ \A i \in Jobs : i < j => dir.before[i] = Missing
             /\ ChangeDir([dir EXCEPT !.world = dir.before[j], !.before[j] = Missing])
        /\ Goes("undoSync")
        /\ UNCHANGED markVars
     \/ dir.world # Missing /\ Goes("failed") /\ UNCHANGED <<dirVars, markVars>>
     \/ Raises("failed")
  /\ UNCHANGED histVars

\* old.rename(WORLD), which fails when WORLD is there and not empty.
Undo ==
  /\ pc = "undo"
  /\ \/ /\ dir.world = Missing
        /\ ChangeDir([dir EXCEPT !.world = dir.before[job], !.before[job] = Missing])
        /\ Goes("undoSync")
        /\ UNCHANGED markVars
     \/ dir.world # Missing /\ Goes("failed") /\ UNCHANGED <<dirVars, markVars>>
     \/ Raises("failed")
  /\ UNCHANGED <<job, played>>

UndoSync ==
  /\ pc = "undoSync"
  /\ \/ SyncDir /\ Goes("undoUnmark") /\ UNCHANGED markVars
     \/ Raises("failed")
  /\ UNCHANGED histVars

\* marker.unlink, after a rollback and after a switch.
Unmark ==
  /\ \/ /\ pc \in {"undoUnmark", "unmark"}
        /\ ChangeMark(FALSE)
        /\ Goes(IF pc = "unmark" THEN "unmarkSync" ELSE "undoUnmarkSync")
        /\ UNCHANGED dirVars
     \/ pc \in {"undoUnmark", "unmark"} /\ Raises("failed")
  /\ UNCHANGED histVars

\* Mutant: the removal of the marker is not synced.
UnmarkNotSynced ==
  /\ pc \in {"undoUnmarkSync", "unmarkSync"}
  /\ Goes(IF pc = "unmarkSync" THEN "done" ELSE "failed")
  /\ UNCHANGED <<dirVars, markVars, histVars>>

UnmarkSync ==
  /\ pc \in {"undoUnmarkSync", "unmarkSync"}
  /\ \/ /\ SyncMark
        /\ Goes(IF pc = "unmarkSync" THEN "done" ELSE "failed")
        /\ UNCHANGED dirVars
     \/ Raises("failed")
  /\ UNCHANGED histVars

\* Mutant: the world moved aside is deleted once the new one is in place.
LeaveDeletingOld ==
  /\ pc \in {"done", "failed"}
  /\ ChangeDir([dir EXCEPT !.staging = Missing, !.before[job] =
                             IF pc = "done" THEN Missing ELSE dir.before[job]])
  /\ Goes("idle")
  /\ played' = IF pc = "done" THEN played \cup {dir.world} ELSE played
  /\ UNCHANGED <<markVars, job>>

\* Mutant: the worker ends in a state nobody knows.
LeaveForNowhere ==
  /\ pc \in {"done", "failed"}
  /\ ChangeDir([dir EXCEPT !.staging = Missing])
  /\ Goes("gone")
  /\ played' = IF pc = "done" THEN played \cup {dir.world} ELSE played
  /\ UNCHANGED <<markVars, job>>

\* The temporary directory is removed, and the stage "starting" follows only a
\* switch that returned.
Leave ==
  /\ pc \in {"done", "failed"}
  /\ ChangeDir([dir EXCEPT !.staging = Missing])
  /\ Goes("idle")
  /\ played' = IF pc = "done" THEN played \cup {dir.world} ELSE played
  /\ UNCHANGED <<markVars, job>>

-----------------------------------------------------------------------------
(* What happens to the worker and the machine. *)

\* The worker is killed: no handler runs and nothing is cleaned up.
Killed ==
  /\ pc # "idle"
  /\ Goes("idle")
  /\ UNCHANGED <<dirVars, markVars, histVars>>

\* What is found after the boot is on the disk now.
PowerLoss ==
  /\ \E d \in dirMaybe : dir' = d /\ dirMaybe' = {d}
  /\ \E m \in markMaybe : mark' = m /\ markMaybe' = {m}
  /\ Goes("idle")
  /\ UNCHANGED histVars

\* Somebody starts the game: without the marker nothing keeps them from it.
GamePlayed ==
  /\ pc = "idle" /\ ~mark
  /\ dir.world # Missing
  /\ dir.world \notin played
  /\ played' = played \cup {dir.world}
  /\ UNCHANGED <<dirVars, markVars, pc, job, errors>>

\* The owner puts the world that was moved aside back if there is none, has it
\* synced, and removes the marker.
OwnerRepairs ==
  /\ pc = "idle" /\ mark
  /\ LET repaired == IF dir.world = Missing
                     THEN [dir EXCEPT !.world = dir.before[job], !.before[job] = Missing]
                     ELSE dir
     IN dir' = repaired /\ dirMaybe' = {repaired}
  /\ ChangeMark(FALSE)
  /\ UNCHANGED <<pc, job, errors, played>>

Worker == Prepare \/ Mark \/ MarkSync \/ Aside \/ AsideSync \/ In \/ InSync
          \/ Undo \/ UndoSync \/ Unmark \/ UnmarkSync \/ Leave

Next == Worker \/ Killed \/ PowerLoss \/ GamePlayed \/ OwnerRepairs

Spec == Init /\ [][Next]_vars

-----------------------------------------------------------------------------
(* Properties. *)

\* Whenever there is no world, the marker is there, and it would still be there
\* after a power loss at this moment, whichever writes had reached the disk.
GapIsMarked ==
  \A d \in dirMaybe \cup {dir} : \A m \in markMaybe \cup {mark} :
    d.world = Missing => m

\* A world that was ever played is never lost: it is in place or moved aside,
\* through any number of restores, failures and power losses.
PlayedWorldsKept ==
  \A d \in dirMaybe \cup {dir} : \A w \in played :
    d.world = w \/ \E j \in Jobs : d.before[j] = w

\* When switch_world returns without an error, no power loss takes the new
\* world away or brings the marker back.
SuccessIsDurable ==
  pc = "done" => /\ \A d \in dirMaybe : d.world = job
                 /\ markMaybe = {FALSE}

\* The world that was there when the last restore began.
OldWorld(d) == IF job > 0 /\ d.before[job] # Missing THEN d.before[job] ELSE d.world

\* The game is shown the old world, the new one, or nothing (Replacement).
ShownToGame == INSTANCE Replacement WITH
  Hidden  <- Missing,
  shown   <- IF mark THEN Missing ELSE dir.world,
  old     <- OldWorld(dir),
  offered <- job

\* The files implement Replacement, through every failure and power loss.
ReplacesAtomically == ShownToGame!Spec

=============================================================================
