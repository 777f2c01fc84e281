--------------------------- MODULE WorldSwitchProofs ---------------------------
(***************************************************************************)
(* Proofs about WorldSwitch for every number of restores and of errors.    *)
(*                                                                         *)
(* The disk is kept in order by three facts.  While some write of the      *)
(* marker may be missing, every directory a power loss may leave shows the *)
(* same worlds.  Whatever it leaves, the world the last restore found is   *)
(* in place or beside it.  And the place a world is moved to is free.      *)
(***************************************************************************)
EXTENDS WorldSwitch, TLAPS

\* What is seen now is one of the things a power loss may leave.
Seen == dir \in dirMaybe /\ mark \in markMaybe

\* Unless the marker is safe on the disk, all directories agree on the worlds.
AgreeUnmarked ==
  FALSE \in markMaybe => \A d \in dirMaybe :
    d.world # Missing /\ d.world = dir.world /\ d.before = dir.before

\* One world is in place or beside it, and nothing waits under a later job.
DirsFit ==
  \A d \in dirMaybe :
    /\ \A j \in Jobs : j > job => d.before[j] = Missing
    /\ OldWorld(d) = OldWorld(dir)
    /\ d.world \in {Missing, OldWorld(d), job}
    /\ d.world = Missing => job > 0 /\ d.before[job] # Missing

KeptIn(d) == \A w \in played : d.world = w \/ \E j \in Jobs : d.before[j] = w

PlayedKept == \A d \in dirMaybe : KeptIn(d)

\* What the program knows at each of its labels.
PcFits ==
  /\ pc # "idle" => job > 0
  /\ pc \in {"mark", "markSync", "aside"} =>
       /\ \A d \in dirMaybe : d.world # Missing /\ d.before[job] = Missing
       /\ dir.staging = job
  /\ pc = "markSync" => mark
  /\ pc \in {"aside", "asideSync", "in", "inSync", "undo", "undoSync",
             "undoUnmark", "unmark"} => mark /\ markMaybe = {TRUE}
  /\ pc \in {"undoUnmarkSync", "unmarkSync", "done"} => ~mark
  /\ pc \in {"asideSync", "in"} => dir.world = Missing /\ dir.staging = job
  /\ pc = "inSync" => dir.world = job
  /\ pc \in {"undoUnmark", "undoUnmarkSync", "unmark", "unmarkSync", "done"} =>
       dirMaybe = {dir}
  /\ pc \in {"undoSync", "undoUnmark", "undoUnmarkSync"} =>
       dir.world # Missing /\ dir.before[job] = Missing
  /\ pc \in {"unmark", "unmarkSync", "done"} => dir.world = job
  /\ pc = "done" => markMaybe = {FALSE}

\* The disk is in order.
DiskFits == Seen /\ AgreeUnmarked /\ DirsFit /\ PlayedKept

Core == DiskFits /\ PcFits

IInv == TypeOK /\ Core

-----------------------------------------------------------------------------

\* An entry of a directory may be replaced by any other.
LEMMA DirEdits ==
  ASSUME NEW d \in Dirs, NEW e \in Entries, NEW w \in Entries, NEW j \in Jobs
  PROVE  /\ [d EXCEPT !.staging = e] \in Dirs
         /\ [d EXCEPT !.world = e, !.staging = w] \in Dirs
         /\ [d EXCEPT !.world = e, !.before[j] = w] \in Dirs
BY DEF Dirs

\* The initial state satisfies the invariant.
LEMMA InitIInv == Init => IInv
<1> SUFFICES ASSUME Init PROVE IInv
  OBVIOUS
<1>1. dir \in Dirs
  BY BoundsAssumption DEF Init, Dirs, Worlds, Jobs, Entries
<1>2. TypeOK
  <2>1. dirMaybe \subseteq Dirs /\ mark \in BOOLEAN /\ markMaybe \subseteq BOOLEAN
    BY <1>1 DEF Init
  <2>2. pc \in Labels /\ job \in Worlds /\ errors \in 0..MaxErrors /\ played \subseteq Worlds
    BY BoundsAssumption DEF Init, Labels, Worlds
  <2> QED
    BY <1>1, <2>1, <2>2 DEF TypeOK
<1>3. /\ dir.world = 0 /\ dir.staging = Missing /\ dirMaybe = {dir}
      /\ \A j \in Jobs : dir.before[j] = Missing
      /\ mark = FALSE /\ markMaybe = {FALSE} /\ pc = "idle" /\ job = 0 /\ played = {0}
  BY DEF Init
<1>4. Seen /\ AgreeUnmarked
  <2>1. 0 # Missing
    BY BoundsAssumption
  <2> QED
    BY <1>3, <2>1 DEF Seen, AgreeUnmarked
<1>5. PcFits
  BY <1>3 DEF PcFits
<1>6. DirsFit /\ PlayedKept
  BY <1>3, BoundsAssumption DEF DirsFit, OldWorld, PlayedKept, KeptIn
<1> QED
  BY <1>2, <1>4, <1>5, <1>6 DEF IInv, Core, DiskFits

\* The directories keep their type.
LEMMA DirType == IInv /\ Next => dir' \in Dirs /\ dirMaybe' \subseteq Dirs
<1> SUFFICES ASSUME TypeOK, Seen, DirsFit, PcFits, Next
             PROVE  dir' \in Dirs /\ dirMaybe' \subseteq Dirs
  BY DEF IInv, Core, DiskFits
<1>1. /\ dir \in Dirs /\ dirMaybe \subseteq Dirs /\ dir \in dirMaybe
      /\ Missing \in Entries /\ dir.world \in Entries /\ dir.staging \in Entries
      /\ \A j \in Jobs : dir.before[j] \in Entries
  BY DEF TypeOK, Seen, Dirs, Entries
<1>2. pc # "idle" => job \in Jobs
  BY BoundsAssumption DEF TypeOK, PcFits, Worlds, Jobs
<1>3. ASSUME UNCHANGED dirVars \/ SyncDir
      PROVE dir' \in Dirs /\ dirMaybe' \subseteq Dirs
  BY <1>1, <1>3 DEF dirVars, SyncDir
<1>4. ASSUME NEW new \in Dirs, ChangeDir(new)
      PROVE dir' \in Dirs /\ dirMaybe' \subseteq Dirs
  BY <1>1, <1>4 DEF ChangeDir
<1>5. CASE Prepare
  <2>1. job + 1 \in Entries /\ job + 1 \in Jobs
    BY <1>5, BoundsAssumption DEF Prepare, TypeOK, Worlds, Entries, Jobs
  <2> QED
    BY <1>1, <1>4, <1>5, <2>1, DirEdits DEF Prepare
<1>6. CASE Aside
  BY <1>1, <1>2, <1>3, <1>4, <1>6, DirEdits DEF Aside, Raises
<1>7. CASE In
  BY <1>1, <1>2, <1>3, <1>4, <1>7, DirEdits DEF In, Raises
<1>8. CASE Undo
  BY <1>1, <1>2, <1>3, <1>4, <1>8, DirEdits DEF Undo, Raises
<1>9. CASE Leave
  BY <1>1, <1>2, <1>4, <1>9, DirEdits DEF Leave
<1>10. CASE OwnerRepairs
  <2>1. dir.world = Missing => job \in Jobs
    BY <1>1, BoundsAssumption DEF DirsFit, TypeOK, Worlds, Jobs
  <2>2. CASE dir.world = Missing
    <3> DEFINE new == [dir EXCEPT !.world = dir.before[job], !.before[job] = Missing]
    <3>1. new \in Dirs
      BY <1>1, <2>1, <2>2, DirEdits
    <3>2. dir' = new /\ dirMaybe' = {new}
      BY <1>10, <2>2 DEF OwnerRepairs
    <3> QED
      BY <3>1, <3>2
  <2>3. CASE dir.world # Missing
    BY <1>1, <1>10, <2>3 DEF OwnerRepairs
  <2> QED
    BY <2>2, <2>3
<1>11. CASE PowerLoss
  BY <1>1, <1>11 DEF PowerLoss
<1>12. CASE Mark \/ MarkSync \/ AsideSync \/ InSync \/ UndoSync \/ Unmark
            \/ UnmarkSync \/ Killed \/ GamePlayed
  BY <1>3, <1>12 DEF Mark, MarkSync, AsideSync, InSync, UndoSync, Unmark,
     UnmarkSync, Killed, GamePlayed, Raises
<1> QED
  BY <1>5, <1>6, <1>7, <1>8, <1>9, <1>10, <1>11, <1>12 DEF Next, Worker

\* The marker keeps its type.
LEMMA MarkType == IInv /\ Next => mark' \in BOOLEAN /\ markMaybe' \subseteq BOOLEAN
<1> SUFFICES ASSUME TypeOK, Next
             PROVE  mark' \in BOOLEAN /\ markMaybe' \subseteq BOOLEAN
  BY DEF IInv
<1>1. ASSUME UNCHANGED markVars \/ SyncMark \/ ChangeMark(TRUE) \/ ChangeMark(FALSE)
      PROVE  mark' \in BOOLEAN /\ markMaybe' \subseteq BOOLEAN
  BY <1>1 DEF TypeOK, markVars, SyncMark, ChangeMark
<1>2. CASE PowerLoss
  BY <1>2 DEF PowerLoss, TypeOK
<1>3. CASE OwnerRepairs \/ Killed \/ GamePlayed
  BY <1>1, <1>3 DEF OwnerRepairs, Killed, GamePlayed
<1>4. CASE Worker
  BY <1>1, <1>4 DEF Worker, Prepare, Mark, MarkSync, Aside, AsideSync, In,
     InSync, Undo, UndoSync, Unmark, UnmarkSync, Leave, Raises
<1> QED
  BY <1>2, <1>3, <1>4 DEF Next

\* Every value stays in its type.
LEMMA TypeStep == IInv /\ Next => TypeOK'
<1> SUFFICES ASSUME IInv, Next PROVE TypeOK'
  OBVIOUS
<1>1. job' \in Worlds
  <2>1. CASE Prepare
    BY <2>1, BoundsAssumption DEF IInv, TypeOK, Prepare, Worlds
  <2>2. CASE ~Prepare
    BY <2>2 DEF IInv, TypeOK, Next, Worker, Mark, MarkSync, Aside, AsideSync,
       In, InSync, Undo, UndoSync, Unmark, UnmarkSync, Leave, Killed,
       PowerLoss, GamePlayed, OwnerRepairs, histVars
  <2> QED
    BY <2>1, <2>2
<1>2. ASSUME NEW l \in Labels, Goes(l) \/ Raises(l)
      PROVE  pc' \in Labels /\ errors' \in 0..MaxErrors
  BY <1>2, BoundsAssumption DEF IInv, TypeOK, Goes, Raises
<1>3. pc' \in Labels /\ errors' \in 0..MaxErrors
  <2>1. CASE GamePlayed \/ OwnerRepairs
    BY <2>1 DEF GamePlayed, OwnerRepairs, IInv, TypeOK
  <2>2. CASE ~GamePlayed /\ ~OwnerRepairs
    <3>1. \E l \in Labels : Goes(l) \/ Raises(l)
      BY <2>2 DEF Next, Worker, Prepare, Mark, MarkSync, Aside, AsideSync, In,
         InSync, Undo, UndoSync, Unmark, UnmarkSync, Leave, Killed, PowerLoss,
         Labels
    <3> QED
      BY <1>2, <3>1
  <2> QED
    BY <2>1, <2>2
<1>4. played' \subseteq Worlds
  <2>1. dir.world \in Worlds \cup {Missing}
    BY DEF IInv, TypeOK, Dirs, Entries
  <2>2. CASE Leave
    BY <2>1, <2>2, BoundsAssumption DEF IInv, Core, PcFits, TypeOK, Leave, Worlds
  <2>3. CASE GamePlayed
    BY <2>1, <2>3 DEF IInv, TypeOK, GamePlayed
  <2>4. CASE ~Leave /\ ~GamePlayed
    BY <2>4 DEF IInv, TypeOK, Next, Worker, Prepare, Mark, MarkSync, Aside,
       AsideSync, In, InSync, Undo, UndoSync, Unmark, UnmarkSync, Killed,
       PowerLoss, OwnerRepairs, histVars
  <2> QED
    BY <2>2, <2>3, <2>4
<1> QED
  BY <1>1, <1>3, <1>4, DirType, MarkType DEF TypeOK

-----------------------------------------------------------------------------

\* What is found after a sync or a boot was possible before.
LEMMA Fewer ==
  ASSUME DiskFits, dir' \in dirMaybe', dirMaybe' \subseteq dirMaybe,
         mark' \in markMaybe', FALSE \in markMaybe' => FALSE \in markMaybe,
         UNCHANGED <<job, played>>
  PROVE  DiskFits'
<1> USE DEF DiskFits, Seen
<1>1. AgreeUnmarked'
  BY DEF AgreeUnmarked
<1>2. DirsFit'
  BY DEF DirsFit, OldWorld
<1>3. PlayedKept'
  BY DEF PlayedKept, KeptIn
<1> QED
  BY <1>1, <1>2, <1>3

\* A change of the directory that fits keeps the disk in order.
LEMMA OneMore ==
  ASSUME TypeOK, DiskFits, NEW new, ChangeDir(new), mark' \in markMaybe',
         FALSE \in markMaybe' =>
           /\ FALSE \in markMaybe
           /\ new.world = dir.world /\ new.before = dir.before,
         \A j \in Jobs : j > job => new.before[j] = Missing,
         OldWorld(new) = OldWorld(dir),
         new.world \in {Missing, OldWorld(new), job},
         new.world = Missing => job > 0 /\ new.before[job] # Missing,
         KeptIn(new),
         UNCHANGED <<job, played>>
  PROVE  DiskFits'
<1> USE DEF DiskFits, Seen, ChangeDir
<1>1. AgreeUnmarked'
  BY DEF AgreeUnmarked
<1>2. DirsFit'
  BY DEF DirsFit, OldWorld
<1>3. PlayedKept'
  BY DEF PlayedKept, KeptIn
<1> QED
  BY <1>1, <1>2, <1>3

\* With no world in place, the one that was moved aside can be put back.
LEMMA PutBack ==
  ASSUME TypeOK, DiskFits, dir.world = Missing, job \in Jobs, NEW new,
         new.world = dir.before[job], new.before[job] = Missing,
         \A j \in Jobs : j # job => new.before[j] = dir.before[j]
  PROVE  /\ \A j \in Jobs : j > job => new.before[j] = Missing
         /\ OldWorld(new) = OldWorld(dir)
         /\ new.world \in {Missing, OldWorld(new), job}
         /\ new.world # Missing
         /\ KeptIn(new)
<1>1. /\ job > 0 /\ dir.before[job] # Missing
      /\ \A j \in Jobs : j > job => dir.before[j] = Missing
  BY DEF DiskFits, Seen, DirsFit
<1>2. \A j \in Jobs : j > job => new.before[j] = Missing
  BY <1>1, BoundsAssumption DEF Jobs
<1>3. OldWorld(new) = new.world /\ OldWorld(dir) = new.world
  BY <1>1 DEF OldWorld
<1>4. KeptIn(dir) /\ \A w \in played : w # Missing
  BY BoundsAssumption DEF DiskFits, Seen, PlayedKept, TypeOK, Worlds
<1>5. KeptIn(new)
  BY <1>4 DEF KeptIn
<1> QED
  BY <1>1, <1>2, <1>3, <1>5

\* Every step keeps the disk in order.
LEMMA DiskStep == IInv /\ Next => DiskFits'
<1> SUFFICES ASSUME TypeOK, DiskFits, PcFits, Next PROVE DiskFits'
  BY DEF IInv, Core
<1>1. ASSUME \/ UNCHANGED dirVars \/ SyncDir,
             \/ UNCHANGED markVars \/ SyncMark \/ ChangeMark(TRUE)
             \/ ChangeMark(FALSE) /\ FALSE \in markMaybe,
             UNCHANGED histVars
      PROVE  DiskFits'
  <2>1. /\ dir' \in dirMaybe' /\ dirMaybe' \subseteq dirMaybe
        /\ mark' \in markMaybe' /\ (FALSE \in markMaybe' => FALSE \in markMaybe)
        /\ UNCHANGED <<job, played>>
    BY <1>1 DEF DiskFits, Seen, dirVars, markVars, histVars, SyncDir, SyncMark,
       ChangeMark
  <2> QED
    BY <2>1, Fewer
<1>2. dir \in Dirs /\ (pc # "idle" => job \in Jobs)
  BY BoundsAssumption DEF TypeOK, PcFits, Worlds, Jobs
<1>3. CASE Mark \/ MarkSync \/ AsideSync \/ InSync \/ UndoSync \/ UnmarkSync \/ Killed
  BY <1>1, <1>3 DEF Mark, MarkSync, AsideSync, InSync, UndoSync, UnmarkSync,
     Killed, Raises
<1>4. CASE PowerLoss
  <2>1. /\ dir' \in dirMaybe' /\ dirMaybe' \subseteq dirMaybe
        /\ mark' \in markMaybe' /\ (FALSE \in markMaybe' => FALSE \in markMaybe)
        /\ UNCHANGED <<job, played>>
    BY <1>4 DEF PowerLoss, histVars
  <2> QED
    BY <2>1, Fewer
<1>5. CASE Prepare
  <2> DEFINE new == [dir EXCEPT !.staging = job + 1]
  <2>1. new.world = dir.world /\ new.before = dir.before
    BY <1>2 DEF Dirs
  <2>2. /\ FALSE \in markMaybe
        /\ dir' = new /\ dirMaybe' = dirMaybe \cup {new} /\ job' = job + 1
        /\ UNCHANGED <<mark, markMaybe, played>>
    BY <1>5 DEF Prepare, ChangeDir, markVars, DiskFits, Seen, TypeOK
  <2>3. job + 1 \in Jobs /\ job \in Nat
    BY <1>5, BoundsAssumption DEF Prepare, TypeOK, Worlds, Jobs
  <2>4. \A d \in dirMaybe' : /\ d.world = dir.world /\ d.before = dir.before
                              /\ d.world # Missing
    BY <2>1, <2>2 DEF DiskFits, Seen, AgreeUnmarked
  <2>5. \A j \in Jobs : j > job => dir.before[j] = Missing
    BY DEF DiskFits, Seen, DirsFit
  <2> HIDE DEF new
  <2>6. Seen' /\ AgreeUnmarked'
    BY <2>1, <2>2, <2>4 DEF DiskFits, Seen, AgreeUnmarked
  <2>7. \A d \in dirMaybe' : OldWorld(d)' = d.world
    BY <2>2, <2>3, <2>4, <2>5 DEF OldWorld
  <2>8. DirsFit'
    <3>1. \A j \in Jobs : j > job' => j > job
      BY <2>2, <2>3, BoundsAssumption DEF Jobs
    <3>2. dir' \in dirMaybe'
      BY <2>2
    <3> QED
      BY <2>4, <2>5, <2>7, <3>1, <3>2 DEF DirsFit, OldWorld
  <2>9. PlayedKept'
    BY <2>1, <2>2, <2>4 DEF DiskFits, Seen, PlayedKept, KeptIn
  <2> QED
    BY <2>6, <2>8, <2>9 DEF DiskFits
<1>6. CASE Aside
  <2>1. CASE Raises("failed") /\ UNCHANGED histVars
    BY <1>1, <2>1 DEF Raises
  <2>2. CASE ~Raises("failed")
    <3> DEFINE new == [dir EXCEPT !.world = Missing, !.before[job] = dir.world]
    <3>1. /\ new.world = Missing /\ new.before[job] = dir.world
          /\ \A j \in Jobs : j # job => new.before[j] = dir.before[j]
      BY <1>2, <1>6 DEF Aside, Dirs
    <3>2. /\ ChangeDir(new) /\ markMaybe = {TRUE}
          /\ dir.world # Missing /\ dir.before[job] = Missing /\ job > 0
          /\ mark' \in markMaybe' /\ UNCHANGED <<job, played, markMaybe>>
      BY <1>6, <2>2 DEF Aside, markVars, histVars, PcFits, DiskFits, Seen
    <3>3. job \in Jobs /\ \A j \in Jobs : j > job => dir.before[j] = Missing
      BY <1>2, <1>6 DEF Aside, DiskFits, Seen, DirsFit
    <3>4. KeptIn(dir)
      BY DEF DiskFits, Seen, PlayedKept
    <3> HIDE DEF new
    <3>5. KeptIn(new)
      BY <3>1, <3>2, <3>3, <3>4 DEF KeptIn
    <3>6. OldWorld(new) = OldWorld(dir)
      BY <3>1, <3>2 DEF OldWorld
    <3>7. \A j \in Jobs : j > job => new.before[j] = Missing
      BY <3>1, <3>2, <3>3, BoundsAssumption DEF Jobs
    <3> QED
      BY <3>1, <3>2, <3>5, <3>6, <3>7, OneMore
  <2> QED
    BY <1>6, <2>1, <2>2 DEF Aside
<1>7. CASE In
  <2>1. CASE Raises("undo") /\ UNCHANGED histVars
    BY <1>1, <2>1 DEF Raises
  <2>2. CASE ~Raises("undo")
    <3> DEFINE new == [dir EXCEPT !.world = dir.staging, !.staging = Missing]
    <3>1. new.world = dir.staging /\ new.before = dir.before
      BY <1>2 DEF Dirs
    <3>2. /\ ChangeDir(new) /\ UNCHANGED <<mark, markMaybe, job, played>>
          /\ job > 0 /\ dir.world = Missing /\ dir.staging = job
          /\ markMaybe = {TRUE} /\ mark \in markMaybe
      BY <1>7, <2>2 DEF In, markVars, histVars, PcFits, DiskFits, Seen
    <3>7. job # Missing
      BY BoundsAssumption DEF TypeOK, Worlds
    <3>3. /\ \A j \in Jobs : j > job => dir.before[j] = Missing
          /\ dir.before[job] # Missing
      BY <3>2 DEF DiskFits, Seen, DirsFit
    <3>4. KeptIn(dir) /\ \A w \in played : w # Missing
      BY BoundsAssumption DEF DiskFits, Seen, PlayedKept, TypeOK, Worlds
    <3> HIDE DEF new
    <3>5. KeptIn(new)
      BY <3>1, <3>2, <3>4 DEF KeptIn
    <3>6. OldWorld(new) = OldWorld(dir)
      BY <3>1, <3>2, <3>3 DEF OldWorld
    <3> QED
      BY <3>1, <3>2, <3>3, <3>5, <3>6, <3>7, OneMore
  <2> QED
    BY <1>7, <2>1, <2>2 DEF In
<1>8. CASE Undo
  <2>1. CASE Raises("failed") \/ dir.world # Missing
    BY <1>1, <1>8, <2>1 DEF Undo, Raises, histVars
  <2>2. CASE ~Raises("failed") /\ dir.world = Missing
    <3> DEFINE new == [dir EXCEPT !.world = dir.before[job], !.before[job] = Missing]
    <3>1. /\ new.world = dir.before[job] /\ new.before[job] = Missing
          /\ \A j \in Jobs : j # job => new.before[j] = dir.before[j]
      BY <1>2, <1>8 DEF Undo, Dirs
    <3>2. ChangeDir(new) /\ UNCHANGED <<mark, markMaybe, job, played>>
      BY <1>8, <2>2 DEF Undo, markVars
    <3>3. job \in Jobs /\ markMaybe = {TRUE} /\ mark \in markMaybe
      BY <1>2, <1>8 DEF Undo, PcFits, DiskFits, Seen
    <3> HIDE DEF new
    <3> QED
      BY <2>2, <3>1, <3>2, <3>3, PutBack, OneMore
  <2> QED
    BY <2>1, <2>2
<1>9. CASE Unmark
  <2>1. CASE Raises("failed") /\ UNCHANGED histVars
    BY <1>1, <2>1 DEF Raises
  <2>2. CASE ~Raises("failed")
    <3>1. UNCHANGED <<dir, dirMaybe, job, played>> /\ ChangeMark(FALSE)
      BY <1>9, <2>2 DEF Unmark, dirVars, histVars
    <3>2. job # Missing
      BY BoundsAssumption DEF TypeOK, Worlds
    <3>3. dirMaybe = {dir} /\ dir.world # Missing
      BY <1>9, <3>2 DEF Unmark, PcFits
    <3>4. Seen' /\ AgreeUnmarked'
      BY <3>1, <3>3 DEF ChangeMark, DiskFits, Seen, AgreeUnmarked
    <3> QED
      BY <3>1, <3>4 DEF DiskFits, DirsFit, PlayedKept, KeptIn, OldWorld
  <2> QED
    BY <1>9, <2>1, <2>2 DEF Unmark
<1>10. CASE Leave
  <2> DEFINE new == [dir EXCEPT !.staging = Missing]
  <2>1. new.world = dir.world /\ new.before = dir.before
    BY <1>2 DEF Dirs
  <2>2. /\ dir' = new /\ dirMaybe' = dirMaybe \cup {new}
        /\ UNCHANGED <<mark, markMaybe, job>>
        /\ \/ played' = played
           \/ played' = played \cup {dir.world} /\ dirMaybe = {dir}
    BY <1>10 DEF Leave, ChangeDir, markVars, PcFits
  <2>3. /\ \A j \in Jobs : j > job => new.before[j] = Missing
        /\ OldWorld(new) = OldWorld(dir)
        /\ new.world \in {Missing, OldWorld(new), job}
        /\ new.world = Missing => job > 0 /\ new.before[job] # Missing
    BY <2>1 DEF DiskFits, Seen, DirsFit, OldWorld
  <2>4. KeptIn(new)
    BY <2>1 DEF DiskFits, Seen, PlayedKept, KeptIn
  <2> HIDE DEF new
  <2>5. Seen' /\ AgreeUnmarked'
    BY <2>1, <2>2 DEF DiskFits, Seen, AgreeUnmarked
  <2>6. DirsFit'
    BY <2>2, <2>3 DEF DiskFits, Seen, DirsFit, OldWorld
  <2>7. PlayedKept'
    BY <2>1, <2>2, <2>4 DEF DiskFits, Seen, PlayedKept, KeptIn
  <2> QED
    BY <2>5, <2>6, <2>7 DEF DiskFits
<1>11. CASE GamePlayed
  <2>1. Seen' /\ AgreeUnmarked' /\ DirsFit'
    BY <1>11 DEF GamePlayed, dirVars, markVars, DiskFits, Seen, AgreeUnmarked,
       DirsFit, OldWorld
  <2>2. FALSE \in markMaybe
    BY <1>11 DEF GamePlayed, DiskFits, Seen, TypeOK
  <2>3. PlayedKept'
    BY <1>11, <2>2 DEF GamePlayed, dirVars, DiskFits, Seen, AgreeUnmarked,
       PlayedKept, KeptIn
  <2> QED
    BY <2>1, <2>3 DEF DiskFits
<1>12. CASE OwnerRepairs
  <2> DEFINE new == IF dir.world = Missing
                    THEN [dir EXCEPT !.world = dir.before[job], !.before[job] = Missing]
                    ELSE dir
  <2>1. /\ dir' = new /\ dirMaybe' = {new} /\ UNCHANGED <<job, played>>
        /\ mark' = FALSE /\ mark' \in markMaybe'
    BY <1>12 DEF OwnerRepairs, ChangeMark
  <2>2. /\ \A j \in Jobs : j > job => new.before[j] = Missing
        /\ new.world \in {Missing, OldWorld(new), job}
        /\ new.world # Missing /\ KeptIn(new)
    <3>1. CASE dir.world # Missing
      BY <3>1 DEF DiskFits, Seen, DirsFit, PlayedKept
    <3>2. CASE dir.world = Missing
      <4>1. job > 0 /\ job \in Jobs
        BY <3>2, BoundsAssumption DEF DiskFits, Seen, DirsFit, TypeOK, Worlds, Jobs
      <4>2. /\ new.world = dir.before[job] /\ new.before[job] = Missing
            /\ \A j \in Jobs : j # job => new.before[j] = dir.before[j]
        BY <1>2, <3>2, <4>1 DEF Dirs
      <4> HIDE DEF new
      <4> QED
        BY <3>2, <4>1, <4>2, PutBack
    <3> QED
      BY <3>1, <3>2
  <2> HIDE DEF new
  <2>3. Seen' /\ AgreeUnmarked' /\ PlayedKept'
    BY <2>1, <2>2 DEF Seen, AgreeUnmarked, PlayedKept, KeptIn
  <2>4. DirsFit'
    BY <2>1, <2>2 DEF DirsFit, OldWorld
  <2> QED
    BY <2>3, <2>4 DEF DiskFits
<1> QED
  BY <1>3, <1>4, <1>5, <1>6, <1>7, <1>8, <1>9, <1>10, <1>11, <1>12
  DEF Next, Worker

\* Every step leaves the program where what it knows is true.
LEMMA PcStep == IInv /\ Next => PcFits'
<1> SUFFICES ASSUME TypeOK, DiskFits, PcFits, Next PROVE PcFits'
  BY DEF IInv, Core
<1> USE DEF Goes, Raises, dirVars, markVars, histVars
<1>1. dir \in Dirs /\ (pc # "idle" => job \in Jobs)
  BY BoundsAssumption DEF TypeOK, PcFits, Worlds, Jobs
<1>2. job # Missing
  BY BoundsAssumption DEF TypeOK, Worlds
<1>3. CASE Prepare
  <2> DEFINE new == [dir EXCEPT !.staging = job + 1]
  <2>1. new.world = dir.world /\ new.before = dir.before /\ new.staging = job + 1
    BY <1>1 DEF Dirs
  <2>2. /\ FALSE \in markMaybe
        /\ dir' = new /\ dirMaybe' = dirMaybe \cup {new} /\ job' = job + 1
        /\ pc' = "mark"
    BY <1>3 DEF Prepare, ChangeDir, DiskFits, Seen, TypeOK
  <2>3. job + 1 \in Jobs /\ job + 1 > job
    BY <1>3, BoundsAssumption DEF Prepare, TypeOK, Worlds, Jobs
  <2> HIDE DEF new
  <2>4. \A d \in dirMaybe' : d.world # Missing /\ d.before[job'] = Missing
    BY <2>1, <2>2, <2>3 DEF DiskFits, Seen, AgreeUnmarked, DirsFit
  <2> QED
    BY <2>1, <2>2, <2>3, <2>4, BoundsAssumption DEF PcFits, TypeOK, Worlds
<1>4. CASE Mark
  BY <1>4 DEF Mark, ChangeMark, PcFits
<1>5. CASE MarkSync
  BY <1>5 DEF MarkSync, SyncMark, PcFits
<1>6. CASE Aside
  <2> DEFINE new == [dir EXCEPT !.world = Missing, !.before[job] = dir.world]
  <2>1. new.world = Missing /\ new.staging = dir.staging
    BY <1>1 DEF Dirs
  <2> HIDE DEF new
  <2>2. dir' = new \/ pc' = "failed"
    BY <1>6 DEF Aside, ChangeDir, new
  <2> QED
    BY <1>6, <2>1, <2>2 DEF Aside, PcFits
<1>7. CASE AsideSync
  BY <1>7 DEF AsideSync, SyncDir, PcFits
<1>8. CASE In
  <2>1. dir'.world = job \/ pc' = "undo"
    BY <1>1, <1>8 DEF In, ChangeDir, Dirs, PcFits
  <2> QED
    BY <1>8, <2>1 DEF In, PcFits
<1>9. CASE InSync
  BY <1>9 DEF InSync, SyncDir, PcFits
<1>10. CASE Undo
  <2>1. \/ pc' = "failed"
        \/ dir'.world = dir.before[job] /\ dir'.before[job] = Missing
    BY <1>1, <1>10 DEF Undo, ChangeDir, Dirs
  <2>2. dir.world = Missing => dir.before[job] # Missing
    BY DEF DiskFits, Seen, DirsFit
  <2> QED
    BY <1>10, <2>1, <2>2 DEF Undo, PcFits
<1>11. CASE UndoSync
  BY <1>11 DEF UndoSync, SyncDir, PcFits
<1>12. CASE Unmark
  BY <1>12 DEF Unmark, ChangeMark, PcFits
<1>13. CASE UnmarkSync
  BY <1>13 DEF UnmarkSync, SyncMark, PcFits, TypeOK
<1>14. CASE Leave \/ Killed \/ PowerLoss \/ GamePlayed \/ OwnerRepairs
  BY <1>14 DEF Leave, Killed, PowerLoss, GamePlayed, OwnerRepairs, PcFits
<1> QED
  BY <1>3, <1>4, <1>5, <1>6, <1>7, <1>8, <1>9, <1>10, <1>11, <1>12, <1>13,
     <1>14 DEF Next, Worker

-----------------------------------------------------------------------------

\* The invariant survives every step of the worker and of the machine.
LEMMA IInvStep == IInv /\ [Next]_vars => IInv'
<1>1. ASSUME IInv, Next PROVE IInv'
  BY <1>1, TypeStep, DiskStep, PcStep DEF IInv, Core
<1>2. ASSUME IInv, UNCHANGED vars PROVE IInv'
  BY <1>2 DEF IInv, Core, DiskFits, vars, TypeOK, Seen, AgreeUnmarked, DirsFit,
     OldWorld, PlayedKept, KeptIn, PcFits
<1> QED
  BY <1>1, <1>2

\* The disk is in order in every state the switch can reach.
THEOREM Invariance == Spec => []IInv
BY InitIInv, IInvStep, PTL DEF Spec

\* For any number of restores, of failing calls and of power losses, every
\* variable keeps its type.
THEOREM TypeCorrect == Spec => []TypeOK
<1>1. IInv => TypeOK
  BY DEF IInv
<1> QED
  BY Invariance, <1>1, PTL

\* Whenever there is no world, or a power loss could leave none, the marker is
\* there and stays there.
THEOREM GapMarked == Spec => []GapIsMarked
<1>1. IInv => GapIsMarked
  BY DEF IInv, Core, DiskFits, Seen, TypeOK, AgreeUnmarked, GapIsMarked
<1> QED
  BY Invariance, <1>1, PTL

\* No number of restores, errors, kills and power losses loses a world that was
\* ever played.
THEOREM PlayedKeptForever == Spec => []PlayedWorldsKept
<1>1. IInv => PlayedWorldsKept
  BY DEF IInv, Core, DiskFits, Seen, PlayedKept, KeptIn, PlayedWorldsKept
<1> QED
  BY Invariance, <1>1, PTL

\* A switch that returned is on the disk.
THEOREM Durable == Spec => []SuccessIsDurable
<1>1. IInv => SuccessIsDurable
  BY DEF IInv, Core, PcFits, SuccessIsDurable
<1> QED
  BY Invariance, <1>1, PTL

-----------------------------------------------------------------------------
(* The files implement Replacement.                                          *)

\* The first state is one of Replacement.
LEMMA ShownInit == Init => ShownToGame!Init
BY DEF Init, ShownToGame!Init, OldWorld

\* Every step hides the world, shows one of the two, offers another, or changes
\* nothing the game is shown.
LEMMA ShownStep ==
  IInv /\ IInv' /\ [Next]_vars => [ShownToGame!Next]_(ShownToGame!vars)
<1> SUFFICES ASSUME TypeOK, DiskFits, PcFits, TypeOK', DiskFits', [Next]_vars
             PROVE  [ShownToGame!Next]_(ShownToGame!vars)
  BY DEF IInv, Core
<1>1. ASSUME UNCHANGED job, dir \in dirMaybe' \/ dir' \in dirMaybe
      PROVE  OldWorld(dir)' = OldWorld(dir)
  BY <1>1 DEF DiskFits, Seen, DirsFit, OldWorld
<1>2. ASSUME UNCHANGED <<job, mark>>, mark \/ UNCHANGED dir.world,
             dir \in dirMaybe' \/ dir' \in dirMaybe
      PROVE  UNCHANGED ShownToGame!vars
  BY <1>1, <1>2 DEF ShownToGame!vars
<1>3. ASSUME UNCHANGED job, mark' = TRUE, dir \in dirMaybe' \/ dir' \in dirMaybe
      PROVE  ShownToGame!Next
  BY <1>1, <1>3 DEF ShownToGame!Next, ShownToGame!Hide
<1>4. ASSUME UNCHANGED job, mark, mark' = FALSE, OldWorld(dir)' = OldWorld(dir),
             dir'.world \in {OldWorld(dir), job}
      PROVE  ShownToGame!Next
  BY <1>4 DEF ShownToGame!Next, ShownToGame!Show
<1>5. dir \in Dirs /\ (pc # "idle" => job \in Jobs) /\ dir \in dirMaybe
  BY BoundsAssumption DEF TypeOK, PcFits, Worlds, Jobs, DiskFits, Seen
<1>6. CASE Prepare
  <2> DEFINE new == [dir EXCEPT !.staging = job + 1]
  <2>1. new.world = dir.world /\ new.before = dir.before
    BY <1>5 DEF Dirs
  <2>2. /\ ~mark /\ mark' = mark /\ dir' = new /\ job' = job + 1
        /\ dir.world # Missing
    BY <1>6 DEF Prepare, ChangeDir, markVars
  <2>3. job + 1 \in Jobs /\ job + 1 > job
    BY <1>6, BoundsAssumption DEF Prepare, TypeOK, Worlds, Jobs
  <2>4. dir.before[job + 1] = Missing
    BY <1>5, <2>3 DEF DiskFits, DirsFit
  <2> HIDE DEF new
  <2>5. OldWorld(dir)' = dir.world
    BY <2>1, <2>2, <2>4 DEF OldWorld
  <2> QED
    BY <2>1, <2>2, <2>5 DEF ShownToGame!Next, ShownToGame!Offer
<1>7. CASE Mark
  BY <1>2, <1>3, <1>5, <1>7 DEF Mark, ChangeMark, Raises, dirVars, markVars, histVars
<1>8. CASE MarkSync \/ AsideSync \/ InSync \/ UndoSync \/ UnmarkSync \/ Killed
           \/ GamePlayed
  BY <1>2, <1>5, <1>8 DEF MarkSync, AsideSync, InSync, UndoSync, UnmarkSync,
     Killed, GamePlayed, Raises, SyncMark, SyncDir, dirVars, markVars, histVars
<1>9. CASE Aside \/ In \/ Undo
  BY <1>2, <1>5, <1>9 DEF Aside, In, Undo, ChangeDir, Raises, PcFits, dirVars,
     markVars, histVars
<1>10. CASE Leave
  <2>1. dir'.world = dir.world
    BY <1>5, <1>10 DEF Leave, ChangeDir, Dirs
  <2> QED
    BY <1>2, <1>5, <1>10, <2>1 DEF Leave, ChangeDir, markVars
<1>11. CASE Unmark
  <2>1. CASE Raises("failed") /\ UNCHANGED histVars
    BY <1>2, <1>5, <2>1 DEF Raises, dirVars, markVars, histVars
  <2>2. CASE ~Raises("failed")
    <3>1. UNCHANGED <<job, dir>> /\ mark' = FALSE /\ mark
      BY <1>11, <2>2 DEF Unmark, ChangeMark, PcFits, dirVars, histVars
    <3>2. dir.world \in {OldWorld(dir), job}
      BY <1>11 DEF Unmark, PcFits, OldWorld
    <3>3. OldWorld(dir)' = OldWorld(dir)
      BY <3>1 DEF OldWorld
    <3> QED
      BY <1>4, <3>1, <3>2, <3>3
  <2> QED
    BY <1>11, <2>1, <2>2 DEF Unmark
<1>12. CASE PowerLoss
  <2>1. /\ UNCHANGED job /\ dir' \in dirMaybe /\ mark' \in markMaybe
        /\ mark' \in BOOLEAN /\ mark \in BOOLEAN
    BY <1>12 DEF PowerLoss, histVars, TypeOK
  <2>2. CASE mark' = TRUE
    BY <1>3, <2>1, <2>2
  <2>3. CASE mark' = FALSE
    <3>1. dir'.world = dir.world /\ dir.world # Missing
      BY <1>5, <2>1, <2>3 DEF DiskFits, AgreeUnmarked
    <3>2. dir'.world \in {OldWorld(dir), job}
      BY <1>5, <3>1 DEF DiskFits, DirsFit
    <3> QED
      BY <1>1, <1>2, <1>4, <2>1, <2>3, <3>1, <3>2
  <2> QED
    BY <2>1, <2>2, <2>3
<1>13. CASE OwnerRepairs
  <2>1. UNCHANGED job /\ mark /\ mark' = FALSE
    BY <1>13 DEF OwnerRepairs, ChangeMark
  <2>2. CASE dir.world # Missing
    <3>1. dir' = dir
      BY <1>13, <2>2 DEF OwnerRepairs
    <3>2. dir.world \in {OldWorld(dir), job}
      BY <1>5, <2>2 DEF DiskFits, DirsFit
    <3>3. OldWorld(dir)' = OldWorld(dir)
      BY <2>1, <3>1 DEF OldWorld
    <3> QED
      BY <1>4, <2>1, <3>1, <3>2, <3>3
  <2>3. CASE dir.world = Missing
    <3>1. job > 0 /\ job \in Jobs /\ dir.before[job] # Missing
      BY <1>5, <2>3, BoundsAssumption DEF DiskFits, DirsFit, TypeOK, Worlds, Jobs
    <3>2. dir'.world = dir.before[job] /\ dir'.before[job] = Missing
      BY <1>5, <1>13, <2>3, <3>1 DEF OwnerRepairs, Dirs
    <3>3. OldWorld(dir)' = OldWorld(dir) /\ dir'.world = OldWorld(dir)
      BY <2>1, <3>1, <3>2 DEF OldWorld
    <3> QED
      BY <1>4, <2>1, <3>3
  <2> QED
    BY <2>2, <2>3
<1>14. CASE UNCHANGED vars
  BY <1>14 DEF vars, ShownToGame!vars, OldWorld
<1> QED
  BY <1>6, <1>7, <1>8, <1>9, <1>10, <1>11, <1>12, <1>13, <1>14 DEF Next, Worker

\* For any number of restores, errors and power losses the files on the disk
\* implement Replacement: the game is shown the old world, the new one, or
\* nothing, and never sees a world change under it.
THEOREM Atomic == Spec => ReplacesAtomically
BY ShownInit, ShownStep, Invariance, PTL
DEF Spec, ReplacesAtomically, ShownToGame!Spec

=============================================================================
