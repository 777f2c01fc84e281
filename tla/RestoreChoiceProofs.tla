-------------------------- MODULE RestoreChoiceProofs --------------------------
(***************************************************************************)
(* Proofs about RestoreChoice for any users, lists, lifetimes and numbers  *)
(* of archives: a confirmation asks once, the world that is restored is    *)
(* the one that was shown, and archives that count are not lost.           *)
(***************************************************************************)
EXTENDS RestoreChoice, FiniteSetTheorems, TLAPS

\* Everybody who has read something of an archive recognises it: no two archives
\* have the same fingerprint.
Recognised(e) ==
  /\ e \in Entries
  /\ e.print <= prints
  /\ Unchanged(e) => files[e.name].holds = e.holds

FilesFit ==
  /\ files \in [DOMAIN files -> Files]
  /\ \A f \in DOMAIN files :
       /\ files[f].print \in 1..prints
       /\ f.kind = "pre-restore" => f.tag <= prints

View == [user: Users, kind: {"select", "confirm"},
         entries: SUBSET Entries, expires: Nat, used: BOOLEAN]

ViewsFit ==
  /\ views \in Seq(View)
  /\ Len(views) <= MaxViews
  /\ \A i \in DOMAIN views : \A e \in views[i].entries : Recognised(e)
  /\ \A c \in clicks : c.entry \in views[c.view].entries
  /\ Recognised(call) /\ Recognised(request)

\* Only a view that was claimed has asked.
AskedFits ==
  \A i \in 1..MaxViews :
    /\ asked[i] <= 1
    /\ asked[i] = 1 => i \in DOMAIN views /\ views[i].used

\* The stage says whose it is.
StageFits ==
  /\ owner = "nobody" <=> stage = "none"
  /\ owner = "backup" <=> stage \in {"tar", "verify", "rotate"}

\* What a restore has extracted is what was asked for, and before the switch the
\* world is in an archive of its own.
StagedFits ==
  /\ stage \in {"safety", "switch"} => staged = request.holds
  /\ stage = "switch" => \E f \in DOMAIN files :
       f.kind = "pre-restore" /\ files[f].holds = world /\ files[f].good

\* The archive a backup writes is the newest.
TargetFits ==
  owner = "backup" =>
    /\ target.kind = "world" /\ target.tag > 0
    /\ stage = "tar" => target \notin DOMAIN files
    /\ stage \in {"verify", "rotate"} => target \in DOMAIN files
    /\ stage \in {"verify", "rotate"} /\ ~meddled =>
         files[target].print = prints /\ target # secured
    /\ stage = "rotate" /\ ~meddled => files[target].good

SecuredFits == LastBackupStands /\ secured.kind = "world"

Core == FilesFit /\ ViewsFit /\ AskedFits /\ StageFits /\ StagedFits /\ TargetFits
        /\ SecuredFits /\ ReplacedWorldIsKept

IInv == TypeOK /\ Core

-----------------------------------------------------------------------------
(* Archives.                                                                 *)

\* A new archive is recognised by nobody, whatever it is written over.
LEMMA WriteKeeps ==
  ASSUME FilesFit, prints \in Nat, DOMAIN files \subseteq Names,
         NEW name \in Names, name.kind = "pre-restore" => name.tag <= prints + 1,
         NEW new \in Files, new.print = prints + 1, prints' = prints + 1,
         files' = [f \in DOMAIN files \cup {name} |-> IF f = name THEN new ELSE files[f]]
  PROVE  /\ FilesFit'
         /\ DOMAIN files' = DOMAIN files \cup {name}
         /\ files'[name] = new
         /\ \A f \in DOMAIN files \ {name} : files'[f] = files[f]
         /\ \A e : Recognised(e) => Recognised(e)'
<1>1. /\ DOMAIN files' = DOMAIN files \cup {name}
      /\ files'[name] = new
      /\ \A f \in DOMAIN files \ {name} : files'[f] = files[f]
  OBVIOUS
<1>2. files' \in [DOMAIN files' -> Files]
  BY DEF FilesFit
<1>3. \A f \in DOMAIN files' : /\ files'[f].print \in 1..prints'
                               /\ f.kind = "pre-restore" => f.tag <= prints'
  BY <1>1 DEF FilesFit, Names, Files
<1>4. ASSUME NEW e, Recognised(e) PROVE Recognised(e)'
  BY <1>1, <1>4 DEF Recognised, Unchanged, Entries
<1> QED
  BY <1>1, <1>2, <1>3, <1>4 DEF FilesFit

\* Of the archives that are left nothing changes.
LEMMA WithoutKeeps ==
  ASSUME FilesFit, NEW gone, files' = Without(gone), UNCHANGED prints
  PROVE  /\ FilesFit'
         /\ DOMAIN files' = DOMAIN files \ gone
         /\ \A f \in DOMAIN files' : files'[f] = files[f]
         /\ \A e : Recognised(e) => Recognised(e)'
BY DEF FilesFit, Without, Recognised, Unchanged

\* The archives stay as they are but for one that is written or some that go.
LEMMA FilesStep ==
  ASSUME TypeOK, Core, [Next]_vars
  PROVE  /\ FilesFit' /\ prints' \in Nat /\ DOMAIN files' \subseteq Names
         /\ \A e : Recognised(e) => Recognised(e)'
<1> USE DEF Core
<1>0. FilesFit /\ prints \in Nat /\ world \in Nat /\ DOMAIN files \subseteq Names
  BY DEF TypeOK
<1>1. ASSUME UNCHANGED <<files, prints>>
      PROVE  /\ FilesFit' /\ prints' \in Nat /\ DOMAIN files' \subseteq Names
             /\ \A e : Recognised(e) => Recognised(e)'
  BY <1>0, <1>1 DEF FilesFit, Recognised, Unchanged
<1>2. CASE BackupArchives
  <2>1. CASE \E good \in BOOLEAN : Write(target, world, good)
    <3>1. owner = "backup" /\ target.kind = "world" /\ target \in Names
      BY <1>2 DEF BackupArchives, StageFits, TargetFits, TypeOK
    <3>2. PICK good \in BOOLEAN : Write(target, world, good)
      BY <2>1
    <3> DEFINE new == [print |-> prints + 1, holds |-> world, good |-> good]
    <3>3. /\ new \in Files /\ new.print = prints + 1 /\ prints' = prints + 1
          /\ files' = [f \in DOMAIN files \cup {target} |-> IF f = target THEN new ELSE files[f]]
      BY <1>0, <3>2 DEF Write, Files
    <3> HIDE DEF new
    <3> QED
      BY <1>0, <3>1, <3>3, WriteKeeps
  <2>2. CASE UNCHANGED <<files, prints>>
    BY <1>1, <2>2
  <2> QED
    BY <1>2, <2>1, <2>2 DEF BackupArchives
<1>3. CASE BackupVerifies
  BY <1>1, <1>3, WithoutKeeps DEF BackupVerifies, TypeOK
<1>4. CASE BackupRotates
  <2>1. files' = Without(Outdated) /\ UNCHANGED prints
    BY <1>4 DEF BackupRotates
  <2> QED
    BY <2>1, WithoutKeeps DEF TypeOK
<1>5. CASE RestoreSecures
  <2> DEFINE name == [kind |-> "pre-restore", tag |-> prints + 1]
  <2>1. name \in Names /\ name.tag <= prints + 1
    BY <1>0 DEF Names
  <2> DEFINE new == [print |-> prints + 1, holds |-> world, good |-> TRUE]
  <2>2. /\ new \in Files /\ new.print = prints + 1 /\ prints' = prints + 1
        /\ files' = [f \in DOMAIN files \cup {name} |-> IF f = name THEN new ELSE files[f]]
    BY <1>0, <1>5 DEF RestoreSecures, Write, Files
  <2> HIDE DEF name, new
  <2> QED
    BY <1>0, <2>1, <2>2, WriteKeeps
<1>6. CASE \E f \in DOMAIN files : SomebodyReplaces(f)
  <2>1. PICK f \in DOMAIN files : SomebodyReplaces(f)
    BY <1>6
  <2>2. f.kind = "world" /\ f \in Names
    BY <2>1 DEF SomebodyReplaces, WorldArchives, TypeOK
  <2> DEFINE new == [print |-> prints + 1, holds |-> 0, good |-> TRUE]
  <2>3. /\ new \in Files /\ new.print = prints + 1 /\ prints' = prints + 1
        /\ files' = [g \in DOMAIN files \cup {f} |-> IF g = f THEN new ELSE files[g]]
    BY <1>0, <2>1 DEF SomebodyReplaces, Write, Files
  <2> HIDE DEF new
  <2> QED
    BY <1>0, <2>2, <2>3, WriteKeeps
<1>7. CASE ~(BackupArchives \/ BackupVerifies \/ BackupRotates \/ RestoreSecures
             \/ \E f \in DOMAIN files : SomebodyReplaces(f))
  <2>1. UNCHANGED <<files, prints>>
    BY <1>7 DEF Next, Backup, Restore, BackupBegins, RestoreBegins, RestoreOpens,
       RestoreCopies, RestoreSwitches, GivesUp, RestoreCommand, RoleTaken, Click,
       Callback, CallFails, RequestRestore, TimePasses, Play, pcVars, vars
  <2> QED
    BY <1>1, <2>1
<1> QED
  BY <1>2, <1>3, <1>4, <1>5, <1>6, <1>7

-----------------------------------------------------------------------------
(* Views.                                                                    *)

\* What is listed is recognised.
LEMMA ListingRecognised ==
  ASSUME FilesFit, DOMAIN files \subseteq Names
  PROVE  \A e \in Listing : Recognised(e)
<1> SUFFICES ASSUME NEW f \in DOMAIN files
             PROVE  Recognised([name |-> f, print |-> files[f].print, holds |-> files[f].holds])
  BY DEF Listing
<1>1. files[f] \in Files /\ files[f].print <= prints
  BY DEF FilesFit
<1> QED
  BY <1>1 DEF Recognised, Unchanged, Entries, Files

\* No archive is called nobody's.
LEMMA NoneRecognised ==
  ASSUME FilesFit, prints \in Nat
  PROVE  Recognised(None)
BY DEF Recognised, Unchanged, None, Entries, Names, FilesFit

\* Using a view changes nothing else of it.
LEMMA UseKeeps ==
  ASSUME views \in Seq(View), NEW i \in DOMAIN views
  PROVE  /\ Use(i) \in Seq(View) /\ Len(Use(i)) = Len(views)
         /\ DOMAIN Use(i) = DOMAIN views
         /\ \A j \in DOMAIN views : /\ Use(i)[j].entries = views[j].entries
                                    /\ Use(i)[j].user = views[j].user
                                    /\ j # i => Use(i)[j].used = views[j].used
         /\ Use(i)[i].used
<1>1. views[i] \in View
  OBVIOUS
<1>2. [views[i] EXCEPT !.used = TRUE] \in View
  BY <1>1 DEF View
<1>3. Use(i) = [views EXCEPT ![i] = [views[i] EXCEPT !.used = TRUE]]
  BY DEF Use
<1>4. Use(i) \in Seq(View) /\ Len(Use(i)) = Len(views) /\ DOMAIN Use(i) = DOMAIN views
  BY <1>2, <1>3
<1>5. /\ Use(i)[i] = [views[i] EXCEPT !.used = TRUE]
      /\ \A j \in DOMAIN views \ {i} : Use(i)[j] = views[j]
  BY <1>3
<1>6. /\ [views[i] EXCEPT !.used = TRUE].entries = views[i].entries
      /\ [views[i] EXCEPT !.used = TRUE].user = views[i].user
      /\ [views[i] EXCEPT !.used = TRUE].used
  BY <1>1 DEF View
<1> QED
  BY <1>4, <1>5, <1>6

\* One view more.
LEMMA AppendKeeps ==
  ASSUME NEW s \in Seq(View), NEW v \in View
  PROVE  /\ Append(s, v) \in Seq(View) /\ Len(Append(s, v)) = Len(s) + 1
         /\ DOMAIN Append(s, v) = DOMAIN s \cup {Len(s) + 1}
         /\ \A j \in DOMAIN s : Append(s, v)[j] = s[j]
         /\ Append(s, v)[Len(s) + 1] = v
OBVIOUS

ClicksFit == \A c \in clicks : /\ c.view \in DOMAIN views /\ c.user = views[c.view].user
                               /\ c.entry \in views[c.view].entries

\* Views, clicks and requests are of archives as they were shown.
LEMMA ViewsStep ==
  ASSUME TypeOK, Core, [Next]_vars
  PROVE  ViewsFit' /\ ClicksFit'
<1> USE DEF Core
<1>1. /\ \A e : Recognised(e) => Recognised(e)'
      /\ FilesFit /\ prints \in Nat /\ DOMAIN files \subseteq Names
      /\ now \in Nat /\ Lifetime \in Nat /\ MaxViews \in Nat
  BY FilesStep, ChoiceAssumption DEF TypeOK
<1>2. /\ views \in Seq(View) /\ Len(views) <= MaxViews
      /\ \A i \in DOMAIN views : \A e \in views[i].entries : Recognised(e)
      /\ ClicksFit
      /\ Recognised(call) /\ Recognised(request)
  BY DEF ViewsFit, ClicksFit, TypeOK
<1>3. ASSUME views' \in Seq(View), Len(views') <= MaxViews,
             \A i \in DOMAIN views' : \A e \in views'[i].entries : Recognised(e),
             ClicksFit', Recognised(call)', Recognised(request)'
      PROVE  ViewsFit' /\ ClicksFit'
  BY <1>1, <1>3 DEF ViewsFit, ClicksFit
<1>4. ASSUME UNCHANGED views, ClicksFit', Recognised(call)', Recognised(request)'
      PROVE  ViewsFit' /\ ClicksFit'
  BY <1>2, <1>3, <1>4
<1>5. /\ UNCHANGED call => Recognised(call)'
      /\ UNCHANGED request => Recognised(request)'
      /\ UNCHANGED <<views, clicks>> => ClicksFit'
  <2>1. ASSUME UNCHANGED call PROVE Recognised(call)'
    <3>1. \A e : Recognised(e) => Recognised(e)'
      BY <1>1
    <3>2. Recognised(call)
      BY <1>2
    <3> QED
      BY <2>1, <3>1, <3>2 DEF Recognised, Unchanged
  <2>2. ASSUME UNCHANGED request PROVE Recognised(request)'
    BY <1>1, <1>2, <2>2 DEF Recognised, Unchanged
  <2>3. ASSUME UNCHANGED <<views, clicks>> PROVE ClicksFit'
    BY <1>2, <2>3 DEF ClicksFit
  <2> QED
    BY <2>1, <2>2, <2>3
<1>6. CASE \E u \in Users : RestoreCommand(u)
  <2>1. PICK u \in Users : RestoreCommand(u)
    BY <1>6
  <2> DEFINE v == [user |-> u, kind |-> "select", entries |-> Listing,
                   expires |-> now + Lifetime, used |-> FALSE]
  <2>2. /\ Len(views) < MaxViews /\ views' = Append(views, v)
        /\ UNCHANGED <<clicks, call, request>>
    BY <2>1 DEF RestoreCommand, Show, pcVars
  <2>3. \A e \in Listing : Recognised(e)
    BY <1>1, ListingRecognised
  <2>4. v \in View /\ \A e \in v.entries : Recognised(e)
    BY <1>1, <2>3 DEF View, Recognised
  <2> HIDE DEF v
  <2>5. /\ views' \in Seq(View) /\ Len(views') <= MaxViews
        /\ DOMAIN views' = DOMAIN views \cup {Len(views) + 1}
        /\ \A j \in DOMAIN views : views'[j] = views[j]
        /\ views'[Len(views) + 1] = v
    BY <1>1, <1>2, <2>2, <2>4, AppendKeeps
  <2>6. \A i \in DOMAIN views' : \A e \in views'[i].entries : Recognised(e)
    BY <1>2, <2>4, <2>5
  <2>7. ClicksFit'
    BY <1>2, <2>2, <2>5 DEF ClicksFit
  <2> QED
    BY <1>3, <1>5, <2>2, <2>5, <2>6, <2>7
<1>7. CASE \E i \in DOMAIN views, u \in Users : \E e \in views[i].entries : Click(i, u, e)
  <2>1. PICK i \in DOMAIN views, u \in Users : \E e \in views[i].entries : Click(i, u, e)
    BY <1>7
  <2>2. PICK e \in views[i].entries : Click(i, u, e)
    BY <2>1
  <2>3. u = views[i].user /\ UNCHANGED <<views, call, request>>
    BY <2>2 DEF Click, Check, pcVars
  <2>4. PICK n \in 1..MaxClicks :
          clicks' = clicks \cup {[view |-> i, user |-> u, entry |-> e, nth |-> n]}
    BY <2>2 DEF Click
  <2>5. ClicksFit'
    BY <1>2, <2>3, <2>4 DEF ClicksFit
  <2> QED
    BY <1>4, <1>5, <2>3, <2>5
<1>8. CASE \E c \in clicks : Callback(c)
  <2>1. PICK c \in clicks : Callback(c)
    BY <1>8
  <2> DEFINE i == c.view
  <2>2. i \in DOMAIN views /\ c.user = views[i].user /\ c.entry \in views[i].entries
    BY <1>2 DEF ClicksFit
  <2>3. Recognised(c.entry)
    BY <1>2, <2>2
  <2>4. clicks' \subseteq clicks /\ UNCHANGED request
    BY <2>1 DEF Callback, pcVars
  <2>5. /\ Use(i) \in Seq(View) /\ Len(Use(i)) = Len(views)
        /\ DOMAIN Use(i) = DOMAIN views
        /\ \A j \in DOMAIN views : /\ Use(i)[j].entries = views[j].entries
                                   /\ Use(i)[j].user = views[j].user
    BY <1>2, <2>2, UseKeeps
  <2>6. UNCHANGED call \/ call' = c.entry
    BY <2>1 DEF Callback, Select, Confirm, Cancel
  <2>7. Recognised(call)'
    BY <1>1, <1>5, <2>3, <2>6 DEF Recognised, Unchanged
  <2>8. CASE UNCHANGED views
    <3>1. ClicksFit'
      BY <1>2, <2>4, <2>8 DEF ClicksFit
    <3> QED
      BY <1>4, <1>5, <2>4, <2>7, <2>8, <3>1
  <2>9. CASE views' = Use(i)
    <3>1. ClicksFit'
      BY <1>2, <2>4, <2>5, <2>9 DEF ClicksFit
    <3>2. \A j \in DOMAIN views' : \A e \in views'[j].entries : Recognised(e)
      BY <1>2, <2>5, <2>9
    <3> QED
      BY <1>2, <1>3, <1>5, <2>4, <2>5, <2>7, <2>9, <3>1, <3>2
  <2>10. CASE ~UNCHANGED views /\ views' # Use(i)
    <3> DEFINE v == [user |-> c.user, kind |-> "confirm", entries |-> {c.entry},
                     expires |-> now + Lifetime, used |-> FALSE]
    <3>1. Len(views) < MaxViews /\ views' = Append(Use(i), v)
      BY <2>1, <2>10 DEF Callback, Select, Confirm, Cancel
    <3>2. views[i] \in View
      BY <1>2, <2>2
    <3>3. v \in View
      BY <1>1, <2>2, <2>3, <3>2 DEF View, Recognised
    <3>4. v.entries = {c.entry}
      OBVIOUS
    <3> HIDE DEF v
    <3>5. /\ views' \in Seq(View) /\ Len(views') <= MaxViews
          /\ DOMAIN views' = DOMAIN views \cup {Len(views) + 1}
          /\ \A j \in DOMAIN views : views'[j] = Use(i)[j]
          /\ views'[Len(views) + 1] = v
      BY <1>1, <1>2, <2>5, <3>1, <3>3, AppendKeeps
    <3>6. ClicksFit'
      BY <1>2, <2>4, <2>5, <3>5 DEF ClicksFit
    <3>7. \A j \in DOMAIN views' : \A e \in views'[j].entries : Recognised(e)
      BY <1>2, <2>3, <2>5, <3>4, <3>5
    <3> QED
      BY <1>3, <1>5, <2>4, <2>7, <3>5, <3>6, <3>7
  <2> QED
    BY <2>8, <2>9, <2>10
<1>9. CASE CallFails
  <2>1. UNCHANGED <<views, clicks, request, files, prints>> /\ call' = None
    BY <1>9 DEF CallFails, pcVars
  <2>2. Recognised(None)
    BY <1>1, NoneRecognised
  <2>3. Recognised(call)'
    BY <2>1, <2>2 DEF Recognised, Unchanged
  <2> QED
    BY <1>4, <1>5, <2>1, <2>3
<1>10. CASE RequestRestore
  <2>1. UNCHANGED <<views, clicks, files, prints>> /\ call' = None /\ request' = call
    BY <1>10 DEF RequestRestore
  <2>2. Recognised(None)
    BY <1>1, NoneRecognised
  <2>3. Recognised(call)' /\ Recognised(request)'
    BY <1>2, <2>1, <2>2 DEF Recognised, Unchanged
  <2> QED
    BY <1>4, <1>5, <2>1, <2>3
<1>11. CASE UNCHANGED <<views, clicks, call, request>>
  BY <1>4, <1>5, <1>11
<1>12. CASE (\E u \in Users : RoleTaken(u)) \/ GivesUp \/ TimePasses \/ Play \/ Backup \/ Restore
            \/ (\E f \in DOMAIN files : SomebodyReplaces(f)) \/ UNCHANGED vars
  <2>1. UNCHANGED <<views, clicks, call, request>>
    BY <1>12 DEF RoleTaken, GivesUp, TimePasses, Play, Backup, Restore, SomebodyReplaces,
       BackupBegins, BackupArchives, BackupVerifies, BackupRotates, RestoreBegins,
       RestoreOpens, RestoreCopies, RestoreSecures, RestoreSwitches, workerFrame,
       discordVars, pcVars, vars
  <2> QED
    BY <1>11, <2>1
<1> QED
  BY <1>6, <1>7, <1>8, <1>9, <1>10, <1>12 DEF Next

-----------------------------------------------------------------------------
(* A confirmation asks once.                                                 *)

\* Whoever asks has claimed the view.
LEMMA AskedStep ==
  ASSUME TypeOK, Core, [Next]_vars
  PROVE  AskedFits' /\ asked' \in [1..MaxViews -> Nat]
<1> USE DEF Core
<1>1. /\ views \in Seq(View) /\ Len(views) <= MaxViews /\ MaxViews \in Nat
      /\ asked \in [1..MaxViews -> Nat] /\ AskedFits
  BY ChoiceAssumption DEF ViewsFit, TypeOK
<1>2. ASSUME UNCHANGED asked, DOMAIN views \subseteq DOMAIN views',
             \A i \in DOMAIN views : views[i].used => views'[i].used
      PROVE  AskedFits' /\ asked' \in [1..MaxViews -> Nat]
  BY <1>1, <1>2 DEF AskedFits
<1>3. CASE \E u \in Users : RestoreCommand(u)
  <2>1. PICK u \in Users : RestoreCommand(u)
    BY <1>3
  <2> DEFINE v == [user |-> u, kind |-> "select", entries |-> Listing,
                   expires |-> now + Lifetime, used |-> FALSE]
  <2>2. UNCHANGED asked /\ views' = Append(views, v)
    BY <2>1 DEF RestoreCommand, Show
  <2> HIDE DEF v
  <2> QED
    BY <1>1, <1>2, <2>2
<1>4. CASE \E c \in clicks : Callback(c)
  <2>1. PICK c \in clicks : Callback(c)
    BY <1>4
  <2> DEFINE i == c.view
  <2>2. i \in DOMAIN views
    BY DEF TypeOK
  <2>3. /\ DOMAIN Use(i) = DOMAIN views /\ Use(i) \in Seq(View) /\ Use(i)[i].used
        /\ \A j \in DOMAIN views : j # i => Use(i)[j].used = views[j].used
    BY <1>1, <2>2, UseKeeps
  <2>4. \A j \in DOMAIN views : views[j].used => Use(i)[j].used
    BY <2>3
  <2>5. CASE Confirm(c) /\ Check(i, c.user)
    <3>1. views' = Use(i) /\ asked' = [asked EXCEPT ![i] = asked[i] + 1] /\ ~views[i].used
      BY <2>5 DEF Confirm, Check
    <3>2. i \in 1..MaxViews
      BY <1>1, <2>2
    <3>3. asked[i] = 0
      BY <1>1, <3>1, <3>2 DEF AskedFits
    <3>4. asked' \in [1..MaxViews -> Nat]
      BY <1>1, <3>1, <3>2
    <3>5. ASSUME NEW j \in 1..MaxViews
          PROVE  asked'[j] <= 1 /\ (asked'[j] = 1 => j \in DOMAIN views' /\ views'[j].used)
      <4>1. CASE j = i
        BY <1>1, <2>2, <2>3, <3>1, <3>3, <4>1
      <4>2. CASE j # i
        <5>1. asked'[j] = asked[j]
          BY <1>1, <3>1, <4>2
        <5>2. asked[j] <= 1 /\ (asked[j] = 1 => j \in DOMAIN views /\ views[j].used)
          BY <1>1 DEF AskedFits
        <5> QED
          BY <2>3, <2>4, <3>1, <5>1, <5>2
      <4> QED
        BY <4>1, <4>2
    <3> QED
      BY <3>4, <3>5 DEF AskedFits
  <2>6. CASE ~(Confirm(c) /\ Check(i, c.user))
    <3> DEFINE v == [user |-> c.user, kind |-> "confirm", entries |-> {c.entry},
                     expires |-> now + Lifetime, used |-> FALSE]
    <3>1. UNCHANGED asked /\ (UNCHANGED views \/ views' = Use(i) \/ views' = Append(Use(i), v))
      BY <2>1, <2>6 DEF Callback, Select, Confirm, Cancel
    <3> HIDE DEF v
    <3>2. CASE UNCHANGED views
      BY <1>2, <3>1, <3>2
    <3>3. CASE views' = Use(i)
      BY <1>2, <2>3, <2>4, <3>1, <3>3
    <3>4. CASE views' = Append(Use(i), v)
      <4>1. DOMAIN views \subseteq DOMAIN views' /\ \A j \in DOMAIN views : views'[j] = Use(i)[j]
        BY <2>3, <3>4
      <4> QED
        BY <1>2, <2>4, <3>1, <4>1
    <3> QED
      BY <3>1, <3>2, <3>3, <3>4
  <2> QED
    BY <2>5, <2>6
<1>5. CASE ~((\E u \in Users : RestoreCommand(u)) \/ \E c \in clicks : Callback(c))
  <2>1. UNCHANGED <<asked, views>>
    BY <1>5 DEF Next, RoleTaken, GivesUp, TimePasses, Play, Backup, Restore, SomebodyReplaces,
       BackupBegins, BackupArchives, BackupVerifies, BackupRotates, RestoreBegins,
       RestoreOpens, RestoreCopies, RestoreSecures, RestoreSwitches, workerFrame,
       discordVars, pcVars, vars, Click, CallFails, RequestRestore
  <2> QED
    BY <1>2, <2>1
<1> QED
  BY <1>3, <1>4, <1>5

-----------------------------------------------------------------------------
(* The worlds and their archives.                                            *)

PCFits == StageFits /\ StagedFits /\ TargetFits /\ SecuredFits /\ ReplacedWorldIsKept

\* What a backup leaves is newer than what it clears away.
LEMMA NewestStays ==
  ASSUME TypeOK, FilesFit, NEW f \in DOMAIN files, files[f].print = prints
  PROVE  f \notin Outdated
<1>1. prints \in Nat /\ \A g \in DOMAIN files : files[g].print \in 1..prints
  BY DEF TypeOK, FilesFit
<1>2. Newer(f) = {}
  BY <1>1 DEF Newer
<1>3. Cardinality(Newer(f) \cap WorldArchives) = 0
  BY <1>2, FS_EmptySet
<1> QED
  BY <1>3, ChoiceAssumption DEF Outdated

\* The steps of a backup.
LEMMA BackupFits ==
  ASSUME TypeOK, Core, Backup
  PROVE  PCFits'
<1> USE DEF Core, PCFits
<1>0. prints \in Nat /\ FilesFit /\ now \in 1..MaxTime /\ MaxTime \in Nat
  BY ChoiceAssumption DEF TypeOK
<1>1. CASE BackupBegins
  <2>1. /\ UNCHANGED <<files, prints, world, request, replaced, secured, meddled>>
        /\ owner' = "backup" /\ stage' = "tar" /\ target' \notin DOMAIN files
        /\ target'.kind = "world" /\ target'.tag = now
    BY <1>1 DEF BackupBegins, discordVars
  <2> QED
    BY <1>0, <2>1 DEF StageFits, StagedFits, TargetFits, SecuredFits, LastBackupStands,
       ReplacedWorldIsKept
<1>2. CASE BackupArchives /\ stage' = "verify"
  <2>1. PICK good \in BOOLEAN : Write(target, world, good)
    BY <1>2 DEF BackupArchives, Release
  <2>2. /\ UNCHANGED <<world, request, replaced, secured, meddled, target, owner, staged>>
        /\ stage = "tar"
    BY <1>2 DEF BackupArchives, Proceed, Release
  <2>3. /\ prints' = prints + 1
        /\ DOMAIN files' = DOMAIN files \cup {target}
        /\ files'[target].print = prints + 1
        /\ \A f \in DOMAIN files \ {target} : files'[f] = files[f]
    BY <2>1 DEF Write
  <2>4. owner = "backup" /\ target.kind = "world" /\ target \notin DOMAIN files /\ target.tag > 0
    BY <2>2 DEF StageFits, TargetFits
  <2>5. ~meddled => target # secured
    <3>1. None.name.tag = 0
      BY DEF None
    <3>2. secured # None.name /\ ~meddled => secured \in DOMAIN files
      BY DEF SecuredFits, LastBackupStands
    <3> QED
      BY <2>4, <3>1, <3>2
  <2>6. StageFits' /\ TargetFits' /\ StagedFits'
    BY <1>2, <2>2, <2>3, <2>4, <2>5 DEF StageFits, TargetFits, StagedFits
  <2>7. SecuredFits'
    BY <2>2, <2>3, <2>5 DEF SecuredFits, LastBackupStands
  <2>8. ReplacedWorldIsKept'
    BY <2>2, <2>3, <2>4 DEF ReplacedWorldIsKept
  <2> QED
    BY <2>6, <2>7, <2>8
<1>3. CASE (BackupArchives \/ BackupVerifies) /\ stage' # "verify" /\ UNCHANGED files
  <2>1. UNCHANGED <<prints, world, request, replaced, secured, meddled>>
    BY <1>3 DEF BackupArchives, BackupVerifies, Write, Proceed, discordVars
  <2>2. CASE Release
    BY <1>3, <2>1, <2>2 DEF Release, StageFits, StagedFits, TargetFits, SecuredFits,
       LastBackupStands, ReplacedWorldIsKept
  <2>3. CASE ~Release
    <3>1. /\ BackupVerifies /\ stage = "verify" /\ stage' = "rotate"
          /\ UNCHANGED <<owner, target, staged>> /\ files[target].good
      BY <1>3, <2>3 DEF BackupArchives, BackupVerifies, Proceed
    <3> QED
      BY <1>3, <2>1, <3>1 DEF StageFits, StagedFits, TargetFits, SecuredFits,
         LastBackupStands, ReplacedWorldIsKept
  <2> QED
    BY <2>2, <2>3
<1>4. CASE BackupVerifies /\ files' = Without({target}) /\ Release
  <2>1. /\ UNCHANGED <<prints, world, request, replaced, secured, meddled>>
        /\ stage = "verify" /\ ~files[target].good
    <3>1. UNCHANGED <<prints, world, request, replaced, secured, meddled>> /\ stage = "verify"
      BY <1>4 DEF BackupVerifies, discordVars
    <3>2. ~files[target].good
      BY <1>4 DEF BackupVerifies, Release, Proceed
    <3> QED
      BY <3>1, <3>2
  <2>2. target.kind = "world" /\ (~meddled => target # secured)
    BY <2>1 DEF StageFits, TargetFits
  <2>3. /\ DOMAIN files' = DOMAIN files \ {target}
        /\ \A f \in DOMAIN files' : files'[f] = files[f]
    BY <1>4 DEF Without
  <2> QED
    BY <1>4, <2>1, <2>2, <2>3 DEF Release, StageFits, StagedFits, TargetFits, SecuredFits,
       LastBackupStands, ReplacedWorldIsKept
<1>5. CASE BackupRotates
  <2>1. /\ UNCHANGED <<prints, world, request, replaced, meddled>>
        /\ stage = "rotate" /\ secured' = target /\ files' = Without(Outdated) /\ Release
    BY <1>5 DEF BackupRotates, discordVars
  <2>2. /\ DOMAIN files' = DOMAIN files \ Outdated
        /\ \A f \in DOMAIN files' : files'[f] = files[f]
    BY <2>1 DEF Without
  <2>3. /\ owner = "backup" /\ target.kind = "world"
        /\ ~meddled => target \in DOMAIN files /\ files[target].print = prints
                       /\ files[target].good
    BY <2>1 DEF StageFits, TargetFits
  <2>4. ~meddled => target \in DOMAIN files'
    BY <1>0, <2>2, <2>3, NewestStays
  <2>5. SecuredFits'
    BY <2>1, <2>2, <2>3, <2>4 DEF SecuredFits, LastBackupStands
  <2>6. \A f \in DOMAIN files : f.kind = "pre-restore" => f \in DOMAIN files'
    BY <2>2 DEF Outdated, WorldArchives
  <2>7. ReplacedWorldIsKept'
    BY <2>1, <2>2, <2>6 DEF ReplacedWorldIsKept
  <2> QED
    BY <2>1, <2>5, <2>7 DEF Release, StageFits, StagedFits, TargetFits
<1> QED
  BY <1>1, <1>2, <1>3, <1>4, <1>5
  DEF Backup, BackupArchives, BackupVerifies, Release, Proceed

\* The steps of a restore.
LEMMA RestoreFits ==
  ASSUME TypeOK, Core, Restore
  PROVE  PCFits'
<1> USE DEF Core, PCFits
<1>0. prints \in Nat /\ FilesFit /\ ViewsFit
  BY DEF TypeOK
<1>1. CASE RestoreBegins \/ RestoreOpens
  <2>1. UNCHANGED <<files, prints, world, request, replaced, secured, meddled, target, staged>>
    BY <1>1 DEF RestoreBegins, RestoreOpens, workerFrame, Proceed
  <2>2. \/ UNCHANGED <<owner, stage>>
        \/ owner \in {"nobody", "restore"} /\ owner' = "restore" /\ stage' \in {"open", "copy"}
    BY <1>1 DEF RestoreBegins, RestoreOpens, Proceed, StageFits, TypeOK
  <2> QED
    BY <2>1, <2>2 DEF StageFits, StagedFits, TargetFits, SecuredFits, LastBackupStands,
       ReplacedWorldIsKept
<1>2. CASE RestoreCopies
  <2>1. /\ UNCHANGED <<files, prints, world, request, replaced, secured, meddled, target, owner>>
        /\ stage = "copy" /\ stage' = "safety" /\ staged' = files[request.name].holds
        /\ Unchanged(request)
    BY <1>2 DEF RestoreCopies, workerFrame, Proceed
  <2>2. staged' = request.holds
    BY <1>0, <2>1 DEF ViewsFit, Recognised
  <2> QED
    BY <2>1, <2>2 DEF StageFits, StagedFits, TargetFits, SecuredFits, LastBackupStands,
       ReplacedWorldIsKept
<1>3. CASE RestoreSecures
  <2> DEFINE name == [kind |-> "pre-restore", tag |-> prints + 1]
  <2>1. /\ UNCHANGED <<world, request, replaced, secured, meddled, target, staged, owner>>
        /\ stage = "safety" /\ stage' = "switch" /\ Write(name, world, TRUE)
    BY <1>3 DEF RestoreSecures, workerFrame, Proceed
  <2>2. /\ DOMAIN files' = DOMAIN files \cup {name}
        /\ files'[name] = [print |-> prints + 1, holds |-> world, good |-> TRUE]
        /\ \A f \in DOMAIN files \ {name} : files'[f] = files[f]
    BY <2>1 DEF Write
  <2>3. name \notin DOMAIN files /\ name.kind = "pre-restore"
    BY <1>0 DEF FilesFit
  <2>4. files'[name].holds = world /\ files'[name].good
    BY <2>2
  <2> HIDE DEF name
  <2>5. StageFits' /\ TargetFits'
    BY <2>1 DEF StageFits, TargetFits
  <2>6. StagedFits'
    <3>1. staged' = request'.holds
      BY <2>1 DEF StagedFits
    <3>2. name \in DOMAIN files'
      BY <2>2
    <3> QED
      BY <2>1, <2>3, <2>4, <3>1, <3>2 DEF StagedFits
  <2>7. SecuredFits'
    BY <2>1, <2>2, <2>3 DEF SecuredFits, LastBackupStands
  <2>8. ReplacedWorldIsKept'
    BY <2>1, <2>2, <2>3 DEF ReplacedWorldIsKept
  <2> QED
    BY <2>5, <2>6, <2>7, <2>8
<1>4. CASE RestoreSwitches
  <2>1. /\ UNCHANGED <<files, prints, request, secured, meddled>>
        /\ stage = "switch" /\ replaced' = replaced \cup {world} /\ Release
    BY <1>4 DEF RestoreSwitches
  <2>2. \E f \in DOMAIN files : f.kind = "pre-restore" /\ files[f].holds = world /\ files[f].good
    BY <2>1 DEF StagedFits
  <2>3. ReplacedWorldIsKept'
    BY <2>1, <2>2 DEF ReplacedWorldIsKept
  <2> QED
    BY <2>1, <2>3 DEF Release, StageFits, StagedFits, TargetFits, SecuredFits, LastBackupStands
<1> QED
  BY <1>1, <1>2, <1>3, <1>4 DEF Restore

\* Everything else leaves what the archives hold as it should be.
LEMMA OthersFit ==
  ASSUME TypeOK, Core, [Next]_vars, ~Backup, ~Restore
  PROVE  PCFits'
<1> USE DEF Core, PCFits
<1>1. CASE GivesUp
  <2>1. UNCHANGED <<files, prints, world, request, replaced, secured, meddled>> /\ Release
    BY <1>1 DEF GivesUp
  <2> QED
    BY <2>1 DEF Release, StageFits, StagedFits, TargetFits, SecuredFits, LastBackupStands,
       ReplacedWorldIsKept
<1>2. CASE RequestRestore
  <2>1. /\ UNCHANGED <<files, prints, world, replaced, secured, meddled, target, staged, owner,
                       stage>>
        /\ owner = "nobody"
    BY <1>2 DEF RequestRestore
  <2> QED
    BY <2>1 DEF StageFits, StagedFits, TargetFits, SecuredFits, LastBackupStands,
       ReplacedWorldIsKept
<1>3. CASE Play
  <2>1. /\ UNCHANGED <<files, prints, request, replaced, secured, meddled, target, staged, owner,
                       stage>>
        /\ stage # "switch"
    BY <1>3 DEF Play
  <2> QED
    BY <2>1 DEF StageFits, StagedFits, TargetFits, SecuredFits, LastBackupStands,
       ReplacedWorldIsKept
<1>4. CASE \E f \in DOMAIN files : SomebodyReplaces(f)
  <2>1. PICK f \in DOMAIN files : SomebodyReplaces(f)
    BY <1>4
  <2>2. /\ UNCHANGED <<world, request, replaced, secured, target, staged, owner, stage>>
        /\ meddled' /\ f.kind = "world" /\ Write(f, 0, TRUE)
    BY <2>1 DEF SomebodyReplaces, WorldArchives
  <2>3. /\ DOMAIN files' = DOMAIN files
        /\ \A g \in DOMAIN files \ {f} : files'[g] = files[g]
    BY <2>2 DEF Write
  <2>4. StageFits' /\ SecuredFits'
    BY <2>2 DEF StageFits, SecuredFits, LastBackupStands
  <2>5. TargetFits'
    BY <2>2, <2>3 DEF TargetFits
  <2>6. StagedFits' /\ ReplacedWorldIsKept'
    BY <2>2, <2>3 DEF StagedFits, ReplacedWorldIsKept
  <2> QED
    BY <2>4, <2>5, <2>6
<1>5. CASE ~(GivesUp \/ RequestRestore \/ Play \/ \E f \in DOMAIN files : SomebodyReplaces(f))
  <2>1. UNCHANGED <<files, prints, world, request, replaced, secured, meddled, target, staged,
                    owner, stage>>
    BY <1>5 DEF Next, RestoreCommand, RoleTaken, Click, Callback, CallFails, TimePasses,
       pcVars, vars
  <2> QED
    BY <2>1 DEF StageFits, StagedFits, TargetFits, SecuredFits, LastBackupStands,
       ReplacedWorldIsKept
<1> QED
  BY <1>1, <1>2, <1>3, <1>4, <1>5

-----------------------------------------------------------------------------
(* The invariant.                                                            *)

\* Every step keeps the types.
LEMMA TypeStep ==
  ASSUME TypeOK, Core, [Next]_vars
  PROVE  TypeOK'
<1> USE DEF Core
<1>1. /\ FilesFit' /\ prints' \in Nat /\ DOMAIN files' \subseteq Names
      /\ ViewsFit' /\ ClicksFit' /\ asked' \in [1..MaxViews -> Nat]
  BY FilesStep, ViewsStep, AskedStep
<1>2. \A f \in DOMAIN files' : files'[f] \in Files
  BY <1>1 DEF FilesFit
<1>3. /\ \A i \in DOMAIN views' : views'[i] \in View
      /\ \A c \in clicks' : c.view \in DOMAIN views' /\ c.user = views'[c.view].user
      /\ call' \in Entries /\ request' \in Entries
  BY <1>1 DEF ViewsFit, ClicksFit, Recognised
<1>4. now' \in 1..MaxTime /\ roles' \subseteq Users
  <2>1. CASE TimePasses
    BY <2>1, ChoiceAssumption DEF TimePasses, TypeOK, discordVars
  <2>2. CASE ~TimePasses
    <3>1. UNCHANGED now
      BY <2>2 DEF Next, Backup, Restore, BackupBegins, BackupArchives, BackupVerifies,
         BackupRotates, RestoreBegins, RestoreOpens, RestoreCopies, RestoreSecures,
         RestoreSwitches, GivesUp, RestoreCommand, RoleTaken, Click, Callback, CallFails,
         RequestRestore, Play, SomebodyReplaces, workerFrame, discordVars, vars
    <3>2. roles' = roles \/ \E u \in Users : roles' = roles \ {u}
      BY <2>2 DEF Next, Backup, Restore, BackupBegins, BackupArchives, BackupVerifies,
         BackupRotates, RestoreBegins, RestoreOpens, RestoreCopies, RestoreSecures,
         RestoreSwitches, GivesUp, RestoreCommand, RoleTaken, Click, Callback, CallFails,
         RequestRestore, Play, SomebodyReplaces, workerFrame, discordVars, vars
    <3> QED
      BY <3>1, <3>2 DEF TypeOK
  <2> QED
    BY <2>1, <2>2
<1>5. None.name \in Names
  BY DEF None, Names
<1>6. staged' \in Nat
  <2>1. CASE RestoreCopies
    <3>1. staged' = files[request.name].holds /\ request.name \in DOMAIN files
      BY <2>1 DEF RestoreCopies, Unchanged
    <3> QED
      BY <3>1 DEF TypeOK, Files
  <2>2. CASE ~RestoreCopies
    <3>1. staged' = staged \/ staged' = 0
      BY <2>2 DEF Next, Backup, Restore, BackupBegins, BackupArchives, BackupVerifies,
         BackupRotates, RestoreBegins, RestoreOpens, RestoreSecures, RestoreSwitches,
         GivesUp, RestoreCommand, RoleTaken, Click, Callback, CallFails, RequestRestore,
         TimePasses, Play, SomebodyReplaces, Release, Proceed, pcVars, vars
    <3> QED
      BY <3>1 DEF TypeOK
  <2> QED
    BY <2>1, <2>2
<1>7. target' \in Names /\ secured' \in Names
  <2>1. CASE BackupBegins
    BY <2>1, ChoiceAssumption DEF BackupBegins, Names, TypeOK
  <2>2. CASE ~BackupBegins
    <3>1. /\ target' = target \/ target' = None.name
          /\ secured' = secured \/ secured' = target
      BY <2>2 DEF Next, Backup, Restore, BackupArchives, BackupVerifies,
         BackupRotates, RestoreBegins, RestoreOpens, RestoreCopies, RestoreSecures,
         RestoreSwitches, GivesUp, RestoreCommand, RoleTaken, Click, Callback, CallFails,
         RequestRestore, TimePasses, Play, SomebodyReplaces, Release, Proceed, workerFrame,
         pcVars, vars
    <3> QED
      BY <1>5, <3>1 DEF TypeOK
  <2> QED
    BY <2>1, <2>2
<1>8. world' \in Nat /\ worlds' \in Nat /\ replaced' \subseteq Nat
  <2>1. /\ world' = world \/ world' = staged \/ world' = worlds + 1
        /\ worlds' = worlds \/ worlds' = worlds + 1
        /\ replaced' = replaced \/ replaced' = replaced \cup {world}
    BY DEF Next, Backup, Restore, BackupBegins, BackupArchives, BackupVerifies,
       BackupRotates, RestoreBegins, RestoreOpens, RestoreCopies, RestoreSecures,
       RestoreSwitches, GivesUp, RestoreCommand, RoleTaken, Click, Callback, CallFails,
       RequestRestore, TimePasses, Play, SomebodyReplaces, Release, Proceed, workerFrame,
       pcVars, vars
  <2> QED
    BY <2>1 DEF TypeOK
<1>9. owner' \in {"nobody", "backup", "restore"} /\ stage' \in Stages
  BY DEF TypeOK, Stages, Next, Backup, Restore, BackupBegins, BackupArchives, BackupVerifies,
     BackupRotates, RestoreBegins, RestoreOpens, RestoreCopies, RestoreSecures,
     RestoreSwitches, GivesUp, RestoreCommand, RoleTaken, Click, Callback, CallFails,
     RequestRestore, TimePasses, Play, SomebodyReplaces, Release, Proceed, workerFrame,
     pcVars, vars
<1>10. pending' \in BOOLEAN /\ meddled' \in BOOLEAN
  <2>1. /\ pending' = pending \/ pending' = TRUE \/ pending' = FALSE
        /\ meddled' = meddled \/ meddled' = TRUE
    BY DEF Next, Backup, Restore, BackupBegins, BackupArchives, BackupVerifies,
       BackupRotates, RestoreBegins, RestoreOpens, RestoreCopies, RestoreSecures,
       RestoreSwitches, GivesUp, RestoreCommand, RoleTaken, Click, Callback, CallFails,
       RequestRestore, TimePasses, Play, SomebodyReplaces, workerFrame, pcVars, vars
  <2> QED
    BY <2>1 DEF TypeOK
<1> QED
  BY <1>1, <1>2, <1>3, <1>4, <1>6, <1>7, <1>8, <1>9, <1>10 DEF TypeOK, View

\* At first there are no archives and no views.
LEMMA InitIInv == Init => IInv
<1> SUFFICES ASSUME Init PROVE IInv
  OBVIOUS
<1>1. /\ DOMAIN files = {} /\ views = <<>> /\ clicks = {} /\ call = None /\ request = None
      /\ prints = 0 /\ MaxViews \in Nat
  BY ChoiceAssumption DEF Init
<1>2. /\ views \in Seq(View) /\ Len(views) = 0 /\ DOMAIN views = {}
  BY <1>1
<1>3. FilesFit
  <2>1. files = [f \in DOMAIN files |-> files[f]]
    BY DEF Init
  <2> QED
    BY <1>1, <2>1 DEF FilesFit
<1>4. Recognised(None)
  BY <1>1, <1>3, NoneRecognised
<1>5. ViewsFit
  BY <1>1, <1>2, <1>4 DEF ViewsFit
<1>6. AskedFits
  BY DEF Init, AskedFits
<1>7. StageFits /\ StagedFits /\ TargetFits /\ ReplacedWorldIsKept
  BY DEF Init, StageFits, StagedFits, TargetFits, ReplacedWorldIsKept
<1>8. SecuredFits
  BY DEF Init, SecuredFits, LastBackupStands, None
<1>9. TypeOK
  <2>1. None.name \in Names /\ None \in Entries
    BY DEF None, Names, Entries
  <2>2. now \in 1..MaxTime /\ asked \in [1..MaxViews -> Nat]
    BY ChoiceAssumption DEF Init
  <2>3. /\ roles \subseteq Users /\ world \in Nat /\ worlds \in Nat /\ pending \in BOOLEAN
        /\ owner \in {"nobody", "backup", "restore"} /\ stage \in Stages
        /\ target \in Names /\ staged \in Nat /\ replaced \subseteq Nat
        /\ secured \in Names /\ meddled \in BOOLEAN
    BY <2>1 DEF Init, Stages
  <2> QED
    BY <1>1, <1>2, <2>1, <2>2, <2>3 DEF TypeOK
<1> QED
  BY <1>3, <1>5, <1>6, <1>7, <1>8, <1>9 DEF IInv, Core

\* Every step keeps the invariant.
LEMMA IInvStep == IInv /\ [Next]_vars => IInv'
<1> SUFFICES ASSUME TypeOK, Core, [Next]_vars PROVE IInv'
  BY DEF IInv
<1>1. PCFits'
  BY BackupFits, RestoreFits, OthersFit
<1> QED
  BY <1>1, TypeStep, FilesStep, ViewsStep, AskedStep DEF IInv, Core, PCFits

\* In every reachable state the archives, the views and the worker agree.
THEOREM Invariance == Spec => []IInv
BY InitIInv, IInvStep, PTL DEF Spec

\* For any users and bounds every variable keeps its type.
THEOREM TypeCorrect == Spec => []TypeOK
<1>1. IInv => TypeOK
  BY DEF IInv
<1> QED
  BY Invariance, <1>1, PTL

\* However many clicks overlap, a confirmation asks the manager once at most.
THEOREM AsksOnce == Spec => []OneRequestPerView
<1>1. IInv => OneRequestPerView
  BY DEF IInv, Core, AskedFits, OneRequestPerView
<1> QED
  BY Invariance, <1>1, PTL

\* However often archives are replaced, rotated and listed, the world a restore
\* switches to is the one that was shown.
THEOREM AsShown == Spec => RestoresWhatWasShown
<1>1. IInv /\ [Next]_vars
        => [stage = "switch" /\ world' # world => world' = request.holds]_vars
  <2> SUFFICES ASSUME IInv, [Next]_vars, stage = "switch", world' # world
               PROVE  world' = request.holds
    OBVIOUS
  <2>1. RestoreSwitches
    BY DEF Next, Backup, Restore, BackupBegins, BackupArchives, BackupVerifies,
       BackupRotates, RestoreBegins, RestoreOpens, RestoreCopies, RestoreSecures,
       GivesUp, RestoreCommand, RoleTaken, Click, Callback, CallFails,
       RequestRestore, TimePasses, Play, SomebodyReplaces, workerFrame, pcVars, vars
  <2> QED
    BY <2>1 DEF RestoreSwitches, IInv, Core, StagedFits
<1> QED
  BY Invariance, <1>1, PTL DEF Spec, RestoresWhatWasShown

\* A world that was replaced stays in an archive whatever comes later.
THEOREM ReplacedKept == Spec => []ReplacedWorldIsKept
<1>1. IInv => ReplacedWorldIsKept
  BY DEF IInv, Core
<1> QED
  BY Invariance, <1>1, PTL

\* The last backup that was confirmed stands until the next one is, whatever fails.
THEOREM LastStands == Spec => []LastBackupStands
<1>1. IInv => LastBackupStands
  BY DEF IInv, Core, SecuredFits
<1> QED
  BY Invariance, <1>1, PTL

=============================================================================
