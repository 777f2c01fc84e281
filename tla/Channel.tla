-------------------------------- MODULE Channel --------------------------------
(***************************************************************************)
(* Channel: what people on Discord are told and shown of the shop.  Each   *)
(* tick of the monitor looks up the public address, asks the PC for its    *)
(* state, for the number of players and for their names - four questions   *)
(* at four moments, any of which may stay without an answer - and compares *)
(* the answers with what it remembers.  A notice may be lost, Discord may  *)
(* refuse a presence or forget it, and the bot may restart.                *)
(*                                                                         *)
(* The results of jobs and the count of quiet polls are in ServerMonitor.  *)
(***************************************************************************)
EXTENDS Naturals, FiniteSets

CONSTANTS
  Names,       \* of people who may be in the game
  Addresses,   \* the provider may give the site
  Endpoints,   \* how many echo services are asked
  CheckPolls,  \* public_ip_check_interval in polls; 0 disables the lookups
  MaxChanges,  \* bound: how often the world around the bot changes
  MaxRestarts  \* bound: how often the bot restarts

None == "none"
Lost == "lost"

ASSUME ChannelAssumption ==
  /\ IsFiniteSet(Names)
  /\ None \notin Addresses /\ Lost \notin Addresses
  /\ Endpoints \in Nat \ {0} /\ CheckPolls \in Nat
  /\ MaxChanges \in Nat /\ MaxRestarts \in Nat

VARIABLES
  up, inside, nameless, address,  \* the game, who is in it, how many are just
                                  \* connecting and have no name yet, the site
  at, endpoint, report,           \* the tick: where it is, what it was answered
  sinceCheck, publicIp,           \* _seconds_since_ip_check, _public_ip
  lastRunning, known, tracked,    \* _last_running, _known_players, _players_tracked
  lastPresence,                   \* _last_presence
  sign, believed, rumours,        \* the sign and the address the channel goes by, in
                                  \* this life of the bot, and who came or left in this tick
  shown,                          \* the presence on Discord; Nothing if it is not the
                                  \* one that was asked for last
  away, awayBefore,               \* history: names absent at some moment since this
                                  \* tick's count, and since that of the last roster;
                                  \* all of them where there is no such count
  changes, restarts

world   == <<up, inside, nameless, address>>
tick    == <<at, endpoint, report>>
lookup  == <<sinceCheck, publicIp>>
roster  == <<known, tracked, away, awayBefore>>
notices == <<sign, believed, rumours>>
profile == <<lastPresence, shown>>
bounds  == <<changes, restarts>>
vars    == <<world, tick, lookup, lastRunning, roster, notices, profile, bounds>>

Quiet     == [came |-> {}, left |-> {}]
Uncounted == Cardinality(Names) + 2
Unheard   == [pc |-> "OFFLINE", game |-> "UNKNOWN", count |-> Uncounted, names |-> {}]
Nothing   == [text |-> None, count |-> Uncounted]

Reports   == [pc: {"OFFLINE", "ONLINE"}, game: {"RUNNING", "STOPPED", "UNKNOWN"},
              count: Nat, names: SUBSET Names]
Presences == [text: {None, "stopped", "starting", "checking", "playing"}, count: Nat]

TypeOK ==
  /\ up \in BOOLEAN /\ inside \subseteq Names /\ nameless \in {0, 1}
  /\ address \in Addresses
  /\ at \in {"asleep", "lookup", "status", "count", "names", "transition",
             "players", "idle", "presence"}
  /\ endpoint \in 1..Endpoints
  /\ report \in Reports
  /\ sinceCheck \in 0..CheckPolls
  /\ publicIp \in Addresses \cup {None}
  /\ lastRunning \in {None, "yes", "no"}
  /\ known \subseteq Names /\ tracked \in BOOLEAN
  /\ away \subseteq Names /\ awayBefore \subseteq Names
  /\ sign \in {None, Lost, "open", "closed"}
  /\ believed \in Addresses \cup {None, Lost}
  /\ rumours \in [came: SUBSET Names, left: SUBSET Names]
  /\ lastPresence \in Presences /\ shown \in Presences
  /\ changes \in Nat /\ restarts \in Nat

Init ==
  /\ up \in BOOLEAN /\ address \in Addresses
  /\ inside \in IF up THEN SUBSET Names ELSE {{}}
  /\ nameless = 0
  /\ at = "asleep" /\ endpoint = 1 /\ report = Unheard
  /\ sinceCheck = CheckPolls /\ publicIp = None
  /\ lastRunning = None
  /\ known = {} /\ tracked = FALSE /\ away = Names /\ awayBefore = Names
  /\ sign = None /\ believed = None /\ rumours = Quiet
  /\ lastPresence = Nothing /\ shown = Nothing
  /\ changes = 0 /\ restarts = 0

\* A notice arrives, or it fails and nobody repeats it.
Delivers(x) == {x, Lost}

-----------------------------------------------------------------------------
(* The public address.                                                       *)

\* Mutant: the time is compared for equality, and begins beyond the interval.
CheckDueExactly == CheckPolls > 0 /\ sinceCheck + 1 = CheckPolls

CheckDue == CheckPolls > 0 /\ sinceCheck + 1 >= CheckPolls

\* A tick begins; the first check is due at once.
Wakes ==
  /\ at = "asleep"
  /\ at' = IF CheckDue THEN "lookup" ELSE "status"
  /\ sinceCheck' = IF CheckDue \/ CheckPolls = 0 THEN 0 ELSE sinceCheck + 1
  /\ UNCHANGED <<world, endpoint, report, publicIp, lastRunning, roster, notices,
                 profile, bounds>>

\* An endpoint names a global address: the first one is the baseline.
AddressFound ==
  /\ at = "lookup"
  /\ publicIp' = address
  /\ believed' \in CASE publicIp = address -> {believed}
                    [] publicIp = None    -> {IF believed = None THEN address ELSE believed}
                    [] OTHER              -> Delivers(address)
  /\ at' = "status" /\ endpoint' = 1
  /\ UNCHANGED <<world, report, sinceCheck, lastRunning, roster, sign, rumours,
                 profile, bounds>>

\* Mutant: a failed lookup forgets the address.
KeptAddressNone == None

\* A failed lookup keeps the last known value.
KeptAddress == publicIp

\* It fails, or names something else: the next one is asked.
EndpointUseless ==
  /\ at = "lookup"
  /\ IF endpoint < Endpoints
     THEN endpoint' = endpoint + 1 /\ UNCHANGED <<at, publicIp>>
     ELSE endpoint' = 1 /\ at' = "status" /\ publicIp' = KeptAddress
  /\ UNCHANGED <<world, report, sinceCheck, lastRunning, roster, notices, profile,
                 bounds>>

-----------------------------------------------------------------------------
(* ServerManager.status: STATUS, then PLAYERS, which asks the game twice.    *)

Asked(label, answer) ==
  /\ at' = label /\ report' = answer
  /\ UNCHANGED <<world, endpoint, lookup, lastRunning, known, tracked, awayBefore,
                 notices, profile, bounds>>

\* A status that raises ends the tick, and the next one comes as usual.
AskStatus ==
  /\ at = "status" /\ UNCHANGED away
  /\ \/ Asked("asleep", Unheard)
     \/ Asked("transition", Unheard)
     \/ Asked("transition", [Unheard EXCEPT !.pc = "ONLINE"])
     \/ ~up /\ Asked("transition", [Unheard EXCEPT !.pc = "ONLINE", !.game = "STOPPED",
                                                   !.count = 0])
     \/ up /\ Asked("count", [Unheard EXCEPT !.pc = "ONLINE", !.game = "RUNNING"])

Headcount == Cardinality(inside) + nameless

AskCount ==
  /\ at = "count"
  /\ \/ Asked("transition", report) /\ UNCHANGED away
     \/ /\ up
        /\ Asked("names", [report EXCEPT !.count = Headcount])
        /\ away' = Names \ inside

\* The names are a bonus: who has none is left out, and no answer is no names.
AskNames ==
  /\ at = "names" /\ UNCHANGED away
  /\ \/ Asked("transition", report)
     \/ up /\ Asked("transition", [report EXCEPT !.names = inside])

-----------------------------------------------------------------------------
(* The tick.                                                                 *)

Running == report.game = "RUNNING"

\* Mutant: an outage is taken for a start of the bot.
JudgedForgetting == IF report.pc = "OFFLINE" THEN None ELSE IF Running THEN "yes" ELSE "no"

Judged == IF Running THEN "yes" ELSE "no"

\* An opening is told with the address, where it is known.
HandleTransition ==
  /\ at = "transition"
  /\ lastRunning' = Judged
  /\ IF lastRunning \in {None, Judged}
     THEN UNCHANGED <<sign, believed>>
     ELSE IF Running
          THEN /\ sign' \in Delivers("open")
               /\ believed' = IF sign' = "open" /\ publicIp # None
                                 THEN publicIp ELSE believed
          ELSE sign' \in Delivers("closed") /\ UNCHANGED believed
  /\ at' = "players"
  /\ UNCHANGED <<world, endpoint, report, lookup, roster, rumours, profile, bounds>>

\* Mutant: the names are taken for complete.
RosterFitsAlways == TRUE

\* The names can fail on their own: they count when there is one for everybody.
RosterFits == Cardinality(report.names) = report.count

\* Without a reliable roster the next one is a baseline, which is not told.
HandlePlayers ==
  /\ at = "players"
  /\ IF ~Running \/ report.count = Uncounted
     THEN known' = {} /\ tracked' = FALSE /\ awayBefore' = Names /\ UNCHANGED rumours
     ELSE IF ~RosterFits THEN UNCHANGED <<known, tracked, rumours, awayBefore>>
     ELSE /\ known' = report.names /\ tracked' = TRUE
          /\ rumours' = IF tracked THEN [came |-> report.names \ known,
                                         left |-> known \ report.names] ELSE Quiet
          /\ awayBefore' = away
  /\ at' = "idle" /\ report' = [report EXCEPT !.names = {}] /\ away' = Names
  /\ UNCHANGED <<world, endpoint, lookup, lastRunning, sign, believed, profile, bounds>>

\* Mutant: the next poll is left to find out that the game is down.
HandleIdleForgetful ==
  /\ at = "idle"
  /\ \/ UNCHANGED <<world, sign>>
     \/ /\ Running /\ report.count = 0
        /\ up' \in {up, FALSE}
        /\ inside' = IF up' THEN inside ELSE {}
        /\ nameless' = IF up' THEN nameless ELSE 0
        /\ sign' \in Delivers("closed")
        /\ UNCHANGED address
  /\ awayBefore' = awayBefore \cup (inside \ inside')
  /\ at' = "presence" /\ rumours' = Quiet
  /\ UNCHANGED <<lastRunning, endpoint, report, lookup, known, tracked, away, believed,
                 profile, bounds>>

\* Nobody has played for long (see ServerMonitor): stop() answers STOPPED, which
\* may be wrong, and this tells the closing; or it fails.
HandleIdle ==
  /\ at = "idle"
  /\ \/ UNCHANGED <<world, lastRunning, sign>>
     \/ /\ Running /\ report.count = 0
        /\ up' \in {up, FALSE}
        /\ inside' = IF up' THEN inside ELSE {}
        /\ nameless' = IF up' THEN nameless ELSE 0
        /\ lastRunning' = "no"
        /\ sign' \in Delivers("closed")
        /\ UNCHANGED address
  /\ awayBefore' = awayBefore \cup (inside \ inside')
  /\ at' = "presence" /\ rumours' = Quiet
  /\ UNCHANGED <<endpoint, report, lookup, known, tracked, away, believed, profile,
                 bounds>>

Presence(text, count) == [text |-> text, count |-> count]

\* _format_presence.
Formatted(r) ==
  CASE r.pc = "OFFLINE" \/ r.game = "STOPPED"             -> Presence("stopped", Uncounted)
    [] r.game = "RUNNING" /\ r.count = Uncounted          -> Presence("starting", Uncounted)
    [] r.game = "RUNNING" /\ r.count # Uncounted          -> Presence("playing", r.count)
    [] r.pc = "ONLINE" /\ r.game = "UNKNOWN"              -> Presence("checking", Uncounted)

\* A change that fails is not tried again: it has been noted before.
ChangePresence(p) == lastPresence' = p /\ shown' \in {p, Nothing}

\* Mutant: only the kind of the presence is compared, not its text.
AlreadySetAlike(p) == p.text = lastPresence.text

AlreadySet(p) == p = lastPresence

UpdatePresence ==
  /\ at = "presence"
  /\ LET p == Formatted(report) IN
       IF AlreadySet(p) THEN UNCHANGED profile
                        ELSE ChangePresence(p)
  /\ at' = "asleep" /\ report' = Unheard
  /\ UNCHANGED <<world, endpoint, lookup, lastRunning, roster, notices, bounds>>

MonitorStep == Wakes \/ AddressFound \/ EndpointUseless \/ AskStatus \/ AskCount
               \/ AskNames \/ HandleTransition \/ HandlePlayers \/ HandleIdle
               \/ UpdatePresence

-----------------------------------------------------------------------------
(* The world around the bot.                                                 *)

Changes ==
  /\ changes < MaxChanges /\ changes' = changes + 1
  /\ UNCHANGED <<tick, lookup, lastRunning, known, tracked, notices, restarts>>

GameOpens ==
  /\ Changes /\ ~up /\ up' = TRUE
  /\ UNCHANGED <<inside, nameless, address, away, awayBefore, profile>>

GoneFrom(who) ==
  /\ inside' = inside \ who
  /\ away' = away \cup who /\ awayBefore' = awayBefore \cup who

GameCloses ==
  /\ Changes /\ up /\ up' = FALSE
  /\ GoneFrom(inside) /\ nameless' = 0
  /\ UNCHANGED <<address, profile>>

SomebodyLeaves ==
  /\ Changes /\ \E n \in inside : GoneFrom({n})
  /\ UNCHANGED <<up, nameless, address, profile>>

SomebodyConnects ==
  /\ Changes /\ up /\ nameless = 0 /\ nameless' = 1
  /\ UNCHANGED <<up, inside, address, away, awayBefore, profile>>

SomebodyArrives ==
  /\ Changes /\ nameless = 1 /\ nameless' = 0
  /\ \E n \in Names \ inside : inside' = inside \cup {n}
  /\ UNCHANGED <<up, address, away, awayBefore, profile>>

AddressChanges ==
  /\ Changes /\ address' \in Addresses \ {address}
  /\ UNCHANGED <<up, inside, nameless, away, awayBefore, profile>>

\* A new session on Discord's gateway starts without a presence; on_ready sets
\* one only where none was ever reported.
SessionReplaced ==
  /\ Changes
  /\ shown' \in IF lastPresence = Nothing
                THEN {Nothing, Presence("checking", Uncounted)} ELSE {Nothing}
  /\ UNCHANGED <<world, lastPresence, away, awayBefore>>

\* All the monitor knows is in memory.
BotRestarts ==
  /\ restarts < MaxRestarts /\ restarts' = restarts + 1
  /\ at' = "asleep" /\ endpoint' = 1 /\ report' = Unheard
  /\ sinceCheck' = CheckPolls /\ publicIp' = None
  /\ lastRunning' = None
  /\ known' = {} /\ tracked' = FALSE
  /\ sign' = None /\ believed' = None /\ rumours' = Quiet
  /\ lastPresence' = Nothing /\ shown' = Nothing
  /\ away' = Names /\ awayBefore' = Names
  /\ UNCHANGED <<world, changes>>

Next ==
  \/ MonitorStep
  \/ GameOpens \/ GameCloses \/ SomebodyLeaves \/ SomebodyConnects \/ SomebodyArrives
  \/ AddressChanges \/ SessionReplaced \/ BotRestarts

Spec == Init /\ [][Next]_vars

\* run(): the loop goes on whatever a tick raises, and every call in it times out.
FairSpec == Spec /\ WF_vars(MonitorStep)

-----------------------------------------------------------------------------
(* Properties. *)

\* Whoever is told to have come or to have gone was out of the game at some
\* moment since the count that belongs to the roster before: no incomplete list,
\* no outage and no restart makes people walk in and out.
RumoursAreTrue ==
  [][rumours' # rumours => rumours'.came \cup rumours'.left \subseteq awayBefore]_vars

\* What the monitor goes by is never what it would still have to tell: no opening
\* and no closing is told twice in a row, also when the idle shutdown tells of the
\* closing and the next poll finds the game down.
SignIsNews ==
  /\ lastRunning = "yes" => sign # "closed"
  /\ lastRunning = "no" => sign # "open"

\* Polls are answered in full again and again.
PollsSucceed == []<>(at = "transition" /\ report.count # Uncounted)

LookupsSucceed == []<><<AddressFound>>_vars

\* README.md: in the end the sign that was told last fits the game, whatever polls
\* failed, unless that notice was lost.
SignArrives == PollsSucceed => []<>(sign \in {None, Lost, IF up THEN "open" ELSE "closed"})

\* README.md: in the end the channel goes by the address of the site, whatever
\* lookups failed, unless that notice was lost.
AddressArrives == LookupsSucceed => []<>(believed \in {None, Lost, address})

Wanted == IF up THEN Presence("playing", Headcount) ELSE Presence("stopped", Uncounted)

\* The presence on Discord becomes that of the game, unless Discord refused the
\* last change or has forgotten it since.
PresenceArrives == PollsSucceed => []<>(shown \in {Wanted, Nothing})

=============================================================================
