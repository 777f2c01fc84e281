----------------------------- MODULE RestoreChoice -----------------------------
(***************************************************************************)
(* From the backups on the PC to the world that is restored: the archives, *)
(* their rotation, the list a Maintainer is shown, the two views that ask  *)
(* for a choice and a confirmation, the request, and the worker that       *)
(* carries it out.  Between any two of these steps archives come and go,   *)
(* time passes, people click and roles are taken away.                     *)
(*                                                                         *)
(* A world is a number: each time the game is played there is a new one.   *)
(* WorldSwitch has the inside of the switch, ServerPC that of the locking. *)
(***************************************************************************)
EXTENDS Naturals, Sequences, FiniteSets

CONSTANTS
  Users,        \* people in the channel
  Keep,         \* GAMESERVER_BACKUP_KEEP
  Listed,       \* how many archives a list shows: 20
  Lifetime,     \* how long a view can be used: 90 s
  MaxTime,      \* bound of the clock
  MaxPrints,    \* bound: how many archives are written
  MaxWorlds,    \* bound: how many worlds there are
  MaxViews,     \* bound: how many views are shown
  MaxClicks     \* bound: how many clicks on the same thing overlap

ASSUME ChoiceAssumption ==
  /\ Keep \in Nat \ {0} /\ Listed \in Nat \ {0} /\ Lifetime \in Nat \ {0}
  /\ MaxTime \in Nat \ {0}
  /\ {MaxPrints, MaxWorlds, MaxViews, MaxClicks} \subseteq Nat

VARIABLES
  now,       \* seconds, from 1: the name with 0 is nobody's
  roles,     \* who has the Maintainer role
  files,     \* the archives, by name
  prints,    \* how many archives were written: the next one's fingerprint
  world,     \* worlds_local
  worlds,    \* how many worlds there have been
  views,     \* the views shown, in order
  clicks,    \* clicks that passed interaction_check and wait for their callback
  call,      \* the entry manager.restore is asking the PC for
  request,   \* restore-request
  pending,   \* is the restore unit enqueued
  owner,     \* who holds operation.lock
  stage,     \* where the owner is
  target,    \* the archive a backup writes
  staged,    \* the world a restore has extracted
  asked,     \* history: calls of manager.restore by view
  replaced,  \* history: worlds a restore has replaced
  secured,   \* history: the archive of the last backup that succeeded
  meddled    \* history: has anybody else written to the directory of archives

discordVars == <<roles, views, clicks, call, asked>>
pcVars      == <<files, prints, world, worlds, request, pending, owner, stage,
                 target, staged, replaced, secured, meddled>>
vars        == <<now, discordVars, pcVars>>

Names   == [kind: {"world", "pre-restore"}, tag: Nat]
Files   == [print: Nat, holds: Nat, good: BOOLEAN]
Entries == [name: Names, print: Nat, holds: Nat]
None    == [name |-> [kind |-> "world", tag |-> 0], print |-> 0, holds |-> 0]

Stages == {"none", "tar", "verify", "rotate", "open", "copy", "safety", "switch"}

TypeOK ==
  /\ now \in 1..MaxTime
  /\ roles \subseteq Users
  /\ DOMAIN files \subseteq Names /\ \A f \in DOMAIN files : files[f] \in Files
  /\ prints \in Nat /\ world \in Nat /\ worlds \in Nat
  /\ \A i \in DOMAIN views :
       views[i] \in [user: Users, kind: {"select", "confirm"},
                     entries: SUBSET Entries, expires: Nat, used: BOOLEAN]
  /\ \A c \in clicks : c.view \in DOMAIN views /\ c.user = views[c.view].user
  /\ call \in Entries /\ request \in Entries
  /\ pending \in BOOLEAN
  /\ owner \in {"nobody", "backup", "restore"}
  /\ stage \in Stages
  /\ target \in Names /\ staged \in Nat
  /\ asked \in [1..MaxViews -> Nat]
  /\ replaced \subseteq Nat /\ secured \in Names
  /\ meddled \in BOOLEAN

Init ==
  /\ now = 1
  /\ roles = Users
  /\ files = [f \in {} |-> {}] /\ prints = 0
  /\ world = 1 /\ worlds = 1
  /\ views = <<>> /\ clicks = {} /\ call = None
  /\ request = None /\ pending = FALSE
  /\ owner = "nobody" /\ stage = "none" /\ target = None.name /\ staged = 0
  /\ asked = [i \in 1..MaxViews |-> 0] /\ replaced = {} /\ secured = None.name
  /\ meddled = FALSE

-----------------------------------------------------------------------------
(* Archives.                                                                 *)

Newer(f) == {g \in DOMAIN files : files[g].print > files[f].print}

\* backup_list, and what parse_backups makes of it: the newest, of both kinds.
\* What an archive holds is not listed; it is kept to say what was meant.
Listing ==
  {[name |-> f, print |-> files[f].print, holds |-> files[f].holds] :
     f \in {g \in DOMAIN files : Cardinality(Newer(g)) < Listed}}

\* The listed archive is still the one of this name.
Unchanged(e) == e.name \in DOMAIN files /\ files[e.name].print = e.print

Without(names) == [f \in DOMAIN files \ names |-> files[f]]

WorldArchives == {f \in DOMAIN files : f.kind = "world"}

\* Mutant: every archive is subject to rotation.
OutdatedOfAnyKind ==
  {f \in DOMAIN files : Cardinality(Newer(f)) >= Keep}

\* Mutant: the listing is cut one line too early.
OutdatedOneTooMany ==
  {f \in WorldArchives : Cardinality(Newer(f) \cap WorldArchives) >= Keep - 1}

\* ls -1t | tail -n +(KEEP + 1)
Outdated ==
  {f \in WorldArchives : Cardinality(Newer(f) \cap WorldArchives) >= Keep}

Write(name, holds, good) ==
  /\ prints < MaxPrints
  /\ prints' = prints + 1
  /\ files' = [f \in DOMAIN files \cup {name} |->
                 IF f = name THEN [print |-> prints + 1, holds |-> holds, good |-> good]
                             ELSE files[f]]

\* The owner of the lock ends.
Release ==
  /\ owner' = "nobody" /\ stage' = "none"
  /\ target' = None.name /\ staged' = 0

Proceed(label) == stage' = label /\ UNCHANGED owner

-----------------------------------------------------------------------------
(* gameserver-backup.                                                        *)

\* An archive is named for the second in which it is begun: no two in one.
BackupBegins ==
  /\ owner = "nobody"
  /\ owner' = "backup" /\ stage' = "tar"
  /\ target' = [kind |-> "world", tag |-> now]
  /\ target' \notin DOMAIN files
  /\ UNCHANGED <<now, discordVars, files, prints, world, worlds, request, pending,
                 staged, replaced, secured, meddled>>

\* tar into a .partial, then mv.
BackupArchives ==
  /\ stage = "tar"
  /\ \/ /\ \E good \in BOOLEAN : Write(target, world, good)
        /\ Proceed("verify") /\ UNCHANGED <<target, staged>>
     \/ Release /\ UNCHANGED <<files, prints>>
  /\ UNCHANGED <<now, discordVars, world, worlds, request, pending, replaced, secured, meddled>>

\* tar -tz: an archive that cannot be read is removed.
BackupVerifies ==
  /\ stage = "verify"
  /\ IF files[target].good THEN Proceed("rotate") /\ UNCHANGED <<files, target, staged>>
                           ELSE Release /\ files' = Without({target})
  /\ UNCHANGED <<now, discordVars, prints, world, worlds, request, pending,
                 replaced, secured, meddled>>

\* rm of the old ones, then "backup ok".
BackupRotates ==
  /\ stage = "rotate"
  /\ files' = Without(Outdated)
  /\ Release
  /\ secured' = target
  /\ UNCHANGED <<now, discordVars, prints, world, worlds, request, pending, replaced,
                 meddled>>

-----------------------------------------------------------------------------
(* The views on Discord.                                                     *)

Show(user, kind, entries) ==
  /\ Len(views) < MaxViews
  /\ views' = Append(views, [user |-> user, kind |-> kind, entries |-> entries,
                             expires |-> now + Lifetime, used |-> FALSE])

\* /server restore, for a Maintainer and if there is anything to choose from.
RestoreCommand(u) ==
  /\ u \in roles
  /\ Listing # {}
  /\ Show(u, "select", Listing)
  /\ UNCHANGED <<now, roles, clicks, call, asked, pcVars>>

\* interaction_check, but for the role: the one an interaction carries is the one
\* its user had at the click.
Check(i, u) ==
  /\ ~views[i].used
  /\ now < views[i].expires
  /\ u = views[i].user

\* discord.py checks, and runs the callback in a task of its own: a second click
\* may come before the first one's callback.
Click(i, u, e) ==
  /\ e \in views[i].entries
  /\ Check(i, u)
  /\ u \in roles
  /\ \E nth \in 1..MaxClicks :
       LET click(k) == [view |-> i, user |-> u, entry |-> e, nth |-> k] IN
         /\ \A k \in 1..nth : click(k) \in clicks <=> k < nth
         /\ clicks' = clicks \cup {click(nth)}
  /\ UNCHANGED <<now, roles, views, call, asked, pcVars>>

Use(i) == [views EXCEPT ![i].used = TRUE]

\* BackupSelect.callback: the choice opens the confirmation.
Select(c) ==
  /\ views[c.view].kind = "select"
  /\ IF Check(c.view, c.user)
     THEN /\ Len(views) < MaxViews
          /\ views' = Append(Use(c.view),
                        [user |-> c.user, kind |-> "confirm", entries |-> {c.entry},
                         expires |-> now + Lifetime, used |-> FALSE])
     ELSE UNCHANGED views
  /\ UNCHANGED <<call, asked>>

\* Mutant: the callback trusts the check made before it was dispatched.
ConfirmTrustingDispatch(c) ==
  /\ views[c.view].kind = "confirm"
  /\ views' = Use(c.view)
  /\ asked' = [asked EXCEPT ![c.view] = @ + 1]
  /\ call' = IF call = None THEN c.entry ELSE call

\* RestoreConfirm.confirm: the view is claimed, then the manager is called, which
\* says BUSY when it is in use.
Confirm(c) ==
  /\ views[c.view].kind = "confirm"
  /\ IF Check(c.view, c.user)
     THEN /\ views' = Use(c.view)
          /\ asked' = [asked EXCEPT ![c.view] = @ + 1]
          /\ call' = IF call = None THEN c.entry ELSE call
     ELSE UNCHANGED <<views, asked, call>>

\* RestoreConfirm.cancel
Cancel(c) ==
  /\ views[c.view].kind = "confirm"
  /\ views' = IF Check(c.view, c.user) THEN Use(c.view) ELSE views
  /\ UNCHANGED <<call, asked>>

Callback(c) ==
  /\ Select(c) \/ Confirm(c) \/ Cancel(c)
  /\ clicks' = clicks \ {c}
  /\ UNCHANGED <<now, roles, pcVars>>

-----------------------------------------------------------------------------
(* The request and its worker on the PC.                                     *)

\* The call was refused, or was lost on the way.
CallFails ==
  /\ call # None
  /\ call' = None
  /\ UNCHANGED <<now, roles, views, clicks, asked, pcVars>>

\* request_restore: what was chosen must still be in the list as it was.
RequestRestore ==
  /\ call # None
  /\ owner = "nobody"
  /\ Unchanged(call) /\ \E e \in Listing : e.name = call.name
  /\ request' = call
  /\ pending' = TRUE
  /\ call' = None
  /\ UNCHANGED <<now, roles, views, clicks, asked, files, prints, world, worlds,
                 owner, stage, target, staged, replaced, secured, meddled>>

workerFrame == <<now, discordVars, worlds, request, target, secured, meddled>>

\* The worker takes the lock, or gives up.
RestoreBegins ==
  /\ pending
  /\ pending' = FALSE
  /\ \/ owner = "nobody" /\ owner' = "restore" /\ stage' = "open"
     \/ owner # "nobody" /\ UNCHANGED <<owner, stage>>
  /\ UNCHANGED <<workerFrame, files, prints, world, staged, replaced>>

\* prepare_archive opens the file and compares its fingerprint.
RestoreOpens ==
  /\ stage = "open"
  /\ Unchanged(request)
  /\ Proceed("copy")
  /\ UNCHANGED <<workerFrame, files, prints, world, pending, staged, replaced>>

\* Mutant: the fingerprint is compared once only, before the copy.
RestoreCopiesUnchecked ==
  /\ stage = "copy"
  /\ request.name \in DOMAIN files
  /\ files[request.name].good
  /\ staged' = files[request.name].holds
  /\ Proceed("safety")
  /\ UNCHANGED <<workerFrame, files, prints, world, pending, replaced>>

\* The private copy: compared again, read to its end, extracted.
RestoreCopies ==
  /\ stage = "copy"
  /\ Unchanged(request)
  /\ files[request.name].good
  /\ staged' = files[request.name].holds
  /\ Proceed("safety")
  /\ UNCHANGED <<workerFrame, files, prints, world, pending, replaced>>

\* Mutant: the name of the phase is taken for the stage.
RestoreSecuresAndStays ==
  /\ stage = "safety"
  /\ Write([kind |-> "pre-restore", tag |-> prints + 1], world, TRUE)
  /\ Proceed("restoring")
  /\ UNCHANGED <<workerFrame, world, pending, staged, replaced>>

\* safety_backup, read back before it counts, under a name of its own.
RestoreSecures ==
  /\ stage = "safety"
  /\ Write([kind |-> "pre-restore", tag |-> prints + 1], world, TRUE)
  /\ Proceed("switch")
  /\ UNCHANGED <<workerFrame, world, pending, staged, replaced>>

\* switch_world, and the end of the job.
RestoreSwitches ==
  /\ stage = "switch"
  /\ world' = staged
  /\ replaced' = replaced \cup {world}
  /\ Release
  /\ UNCHANGED <<now, discordVars, worlds, request, secured, meddled, files,
                 prints, pending>>

\* A backup or a restore fails where it is, or is killed.
GivesUp ==
  /\ owner # "nobody"
  /\ Release
  /\ UNCHANGED <<now, discordVars, files, prints, world, worlds, request, pending,
                 replaced, secured, meddled>>

-----------------------------------------------------------------------------
(* The surroundings.                                                         *)

TimePasses ==
  /\ now < MaxTime
  /\ now' = now + 1
  /\ UNCHANGED <<discordVars, pcVars>>

\* While nobody needs the game down, it may be played.
Play ==
  /\ stage \in {"none", "open", "copy"}
  /\ worlds < MaxWorlds
  /\ world' = worlds + 1 /\ worlds' = worlds + 1
  /\ UNCHANGED <<now, discordVars, files, prints, request, pending, owner, stage,
                 target, staged, replaced, secured, meddled>>

\* Somebody with access to the PC puts another archive in the place of one.
SomebodyReplaces(f) ==
  /\ f \in WorldArchives
  /\ Write(f, 0, TRUE)
  /\ meddled' = TRUE
  /\ UNCHANGED <<now, discordVars, world, worlds, request, pending, owner, stage,
                 target, staged, replaced, secured>>

RoleTaken(u) ==
  /\ roles' = roles \ {u}
  /\ u \in roles
  /\ UNCHANGED <<now, views, clicks, call, asked, pcVars>>

Backup == BackupBegins \/ BackupArchives \/ BackupVerifies \/ BackupRotates

Restore == RestoreBegins \/ RestoreOpens \/ RestoreCopies \/ RestoreSecures
           \/ RestoreSwitches

Next ==
  \/ Backup \/ Restore \/ GivesUp
  \/ \E u \in Users : RestoreCommand(u) \/ RoleTaken(u)
  \/ \E i \in DOMAIN views, u \in Users : \E e \in views[i].entries : Click(i, u, e)
  \/ \E c \in clicks : Callback(c)
  \/ CallFails \/ RequestRestore
  \/ TimePasses \/ Play
  \/ \E f \in DOMAIN files : SomebodyReplaces(f)

Spec == Init /\ [][Next]_vars

-----------------------------------------------------------------------------
(* Properties. *)

\* However often somebody clicks before the first click is answered, a
\* confirmation asks the manager for a restore once at most.
OneRequestPerView == \A i \in 1..MaxViews : asked[i] <= 1

\* The world that comes out of a restore is the one the archive held when the
\* list was shown, whatever became of the archive since.
RestoresWhatWasShown ==
  [][stage = "switch" /\ world' # world => world' = request.holds]_vars

\* A world that a restore has replaced is in an archive, for good.
ReplacedWorldIsKept ==
  \A w \in replaced : \E f \in DOMAIN files :
    f.kind = "pre-restore" /\ files[f].holds = w /\ files[f].good

\* The archive for which "backup ok" was said last is there and good until the
\* next one is, though later backups fail or die at any point, as long as nobody
\* else writes to the directory.
LastBackupStands ==
  secured # None.name /\ ~meddled => secured \in DOMAIN files /\ files[secured].good

=============================================================================
