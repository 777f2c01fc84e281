------------------------------ MODULE ChannelProofs ------------------------------
(***************************************************************************)
(* Proofs about Channel for any set of names and addresses, any number of  *)
(* echo services, changes and restarts.                                    *)
(*                                                                         *)
(* A rumour is true because both rosters it compares are: a list that is   *)
(* believed names everybody who was inside when the names were asked for,  *)
(* or is empty where nobody was inside when they were counted.             *)
(***************************************************************************)
EXTENDS Channel, FiniteSetTheorems, TLAPS

Absent == Names \ inside

\* The history keeps up with the game, and starts again with every count.
AwayFits ==
  /\ Absent \subseteq away /\ Absent \subseteq awayBefore
  /\ at \notin {"names", "transition", "players"} => away = Names

\* Until the answers are complete there are no names, and no count before one.
ReportFits ==
  /\ at \in {"asleep", "lookup", "status", "count", "names"} => report.names = {}
  /\ at \in {"asleep", "lookup", "status", "count"} => report.count = Uncounted

\* When nobody was counted, everybody was away at that moment.
CountFits ==
  at \in {"names", "transition", "players"} /\ Running /\ report.count = 0 =>
    away = Names /\ awayBefore = Names

\* Whoever is not on a list that is believed was away.
NamesFit ==
  at \in {"transition", "players"} /\ Running /\ report.count # Uncounted /\ RosterFits =>
    Names \ report.names \subseteq away \cap awayBefore

\* The roster before was such a list.
KnownFits == tracked => Names \ known \subseteq awayBefore

Roster == AwayFits /\ ReportFits /\ CountFits /\ NamesFit /\ KnownFits

IInv == TypeOK /\ Roster

-----------------------------------------------------------------------------

\* Counting people gives numbers, and nobody is counted only where nobody is.
LEMMA Counts ==
  ASSUME TypeOK
  PROVE  /\ Headcount \in Nat /\ Uncounted \in Nat \ {0}
         /\ Headcount = 0 => inside = {}
<1>1. IsFiniteSet(inside) /\ IsFiniteSet(Names)
  BY ChannelAssumption, FS_Subset DEF TypeOK
<1>2. /\ Cardinality(inside) \in Nat /\ Cardinality(Names) \in Nat
      /\ Cardinality(inside) = 0 <=> inside = {}
  BY <1>1, FS_CardinalityType, FS_EmptySet
<1> QED
  BY <1>2 DEF TypeOK, Headcount, Uncounted

\* The initial state satisfies the invariant.
LEMMA InitIInv == Init => IInv
<1> SUFFICES ASSUME Init PROVE IInv
  OBVIOUS
<1>1. Uncounted \in Nat
  BY ChannelAssumption, FS_CardinalityType DEF Uncounted
<1>2. TypeOK
  <2>1. report \in Reports /\ lastPresence \in Presences /\ shown \in Presences
    BY <1>1 DEF Init, Unheard, Nothing, Reports, Presences
  <2>2. rumours \in [came: SUBSET Names, left: SUBSET Names]
    BY DEF Init, Quiet
  <2>3. /\ up \in BOOLEAN /\ inside \subseteq Names /\ nameless \in {0, 1}
        /\ address \in Addresses
    BY DEF Init
  <2>4. /\ endpoint \in 1..Endpoints /\ sinceCheck \in 0..CheckPolls
        /\ changes \in Nat /\ restarts \in Nat
    BY ChannelAssumption DEF Init
  <2> QED
    BY <2>1, <2>2, <2>3, <2>4 DEF Init, TypeOK
<1>3. Roster
  BY DEF Init, Roster, AwayFits, Absent, ReportFits, CountFits, NamesFit,
     KnownFits, Unheard
<1> QED
  BY <1>2, <1>3 DEF IInv

\* Every value stays in its type.
LEMMA TypeStep == TypeOK /\ Next => TypeOK'
<1> SUFFICES ASSUME TypeOK, Next PROVE TypeOK'
  OBVIOUS
<1>0. /\ Headcount \in Nat /\ Uncounted \in Nat /\ report.names \subseteq Names
      /\ Unheard \in Reports
      /\ [Unheard EXCEPT !.pc = "ONLINE"] \in Reports
      /\ [Unheard EXCEPT !.pc = "ONLINE", !.game = "STOPPED", !.count = 0] \in Reports
      /\ [Unheard EXCEPT !.pc = "ONLINE", !.game = "RUNNING"] \in Reports
      /\ [report EXCEPT !.count = Headcount] \in Reports
      /\ [report EXCEPT !.names = inside] \in Reports
      /\ [report EXCEPT !.names = {}] \in Reports
  BY Counts DEF TypeOK, Reports, Unheard
<1> USE ChannelAssumption DEF TypeOK, world, tick, lookup, roster, notices, profile, bounds,
        Delivers
<1>1. CASE Wakes
  BY <1>1 DEF Wakes, CheckDue
<1>2. CASE AddressFound
  BY <1>2 DEF AddressFound
<1>3. CASE EndpointUseless
  BY <1>3 DEF EndpointUseless, KeptAddress
<1>4. CASE AskStatus
  <2>1. report' \in Reports
    BY <1>0, <1>4 DEF AskStatus, Asked
  <2>2. at' \in {"asleep", "transition", "count"}
    BY <1>4 DEF AskStatus, Asked
  <2> QED
    BY <1>4, <2>1, <2>2 DEF AskStatus, Asked
<1>5. CASE AskCount
  <2>1. report' \in Reports
    BY <1>0, <1>5 DEF AskCount, Asked
  <2> QED
    BY <1>5, <2>1 DEF AskCount, Asked
<1>6. CASE AskNames
  <2>1. report' \in Reports
    BY <1>0, <1>6 DEF AskNames, Asked
  <2> QED
    BY <1>6, <2>1 DEF AskNames, Asked
<1>7. CASE HandleTransition
  BY <1>7 DEF HandleTransition, Judged
<1>8. CASE HandlePlayers
  <2>1. /\ known' \subseteq Names /\ tracked' \in BOOLEAN
        /\ awayBefore' \subseteq Names
    BY <1>0, <1>8 DEF HandlePlayers
  <2>2. rumours' \in [came: SUBSET Names, left: SUBSET Names]
    <3>1. \/ UNCHANGED rumours \/ rumours' = [came |-> {}, left |-> {}]
          \/ rumours' = [came |-> report.names \ known, left |-> known \ report.names]
      BY <1>8 DEF HandlePlayers, Quiet
    <3> QED
      BY <1>0, <3>1
  <2>3. report' \in Reports /\ away' \subseteq Names /\ at' = "idle"
    BY <1>0, <1>8 DEF HandlePlayers
  <2> QED
    BY <1>8, <2>1, <2>2, <2>3 DEF HandlePlayers
<1>9. CASE HandleIdle
  <2>1. /\ up' \in BOOLEAN /\ inside' \subseteq Names /\ nameless' \in {0, 1}
        /\ address' \in Addresses /\ lastRunning' \in {None, "yes", "no"}
        /\ sign' \in {None, Lost, "open", "closed"}
    BY <1>9 DEF HandleIdle
  <2>2. rumours' \in [came: SUBSET Names, left: SUBSET Names]
    BY <1>9 DEF HandleIdle, Quiet
  <2> QED
    BY <1>9, <2>1, <2>2 DEF HandleIdle
<1>10. CASE UpdatePresence
  <2>1. \A c \in Nat : \A t \in {None, "stopped", "starting", "checking", "playing"} :
          Presence(t, c) \in Presences
    BY DEF Presence, Presences
  <2>2. Formatted(report) \in Presences
    BY <1>0, <2>1 DEF Formatted, Reports
  <2>3. Nothing \in Presences
    BY <1>0 DEF Nothing, Presences
  <2>4. lastPresence' \in Presences /\ shown' \in Presences
    BY <1>10, <2>2, <2>3 DEF UpdatePresence, ChangePresence
  <2> QED
    BY <1>0, <1>10, <2>4 DEF UpdatePresence
<1>11. CASE GameOpens \/ GameCloses \/ SomebodyLeaves
  <2>1. changes' \in Nat
    BY <1>11 DEF GameOpens, GameCloses, SomebodyLeaves, Changes
  <2>2. /\ inside' \subseteq Names /\ away' \subseteq Names /\ awayBefore' \subseteq Names
        /\ up' \in BOOLEAN /\ nameless' \in {0, 1}
    BY <1>11 DEF GameOpens, GameCloses, SomebodyLeaves, GoneFrom
  <2> QED
    BY <1>11, <2>1, <2>2 DEF GameOpens, GameCloses, SomebodyLeaves, Changes
<1>12. CASE SomebodyConnects \/ SomebodyArrives
  BY <1>12 DEF SomebodyConnects, SomebodyArrives, Changes
<1>13. CASE AddressChanges
  BY <1>13 DEF AddressChanges, Changes
<1>14. CASE SessionReplaced
  <2>1. shown' \in Presences
    BY <1>0, <1>14 DEF SessionReplaced, Presence, Presences, Nothing
  <2> QED
    BY <1>14, <2>1 DEF SessionReplaced, Changes
<1>15. CASE BotRestarts
  <2>1. /\ rumours' \in [came: SUBSET Names, left: SUBSET Names]
        /\ lastPresence' \in Presences /\ shown' \in Presences
    BY <1>0, <1>15 DEF BotRestarts, Quiet, Nothing, Presences
  <2>2. endpoint' \in 1..Endpoints /\ sinceCheck' \in 0..CheckPolls /\ restarts' \in Nat
    BY <1>15 DEF BotRestarts
  <2> QED
    BY <1>0, <1>15, <2>1, <2>2 DEF BotRestarts
<1> QED
  BY <1>1, <1>2, <1>3, <1>4, <1>5, <1>6, <1>7, <1>8, <1>9, <1>10, <1>11, <1>12,
     <1>13, <1>14, <1>15 DEF Next, MonitorStep

\* Every step keeps the rosters believable.
LEMMA RosterStep == IInv /\ Next => Roster'
<1> SUFFICES ASSUME TypeOK, Roster, Next PROVE Roster'
  BY DEF IInv
<1> USE DEF Roster, AwayFits, Absent, ReportFits, CountFits, NamesFit, KnownFits,
        Running, RosterFits, world, tick, lookup, roster
<1>1. CASE Wakes \/ AddressFound \/ EndpointUseless
  BY <1>1 DEF Wakes, AddressFound, EndpointUseless
<1>2. CASE AskStatus
  <2>1. UNCHANGED <<inside, known, tracked, away, awayBefore>>
    BY <1>2 DEF AskStatus, Asked
  <2>2. \/ at' = "asleep" /\ report' = Unheard
        \/ at' = "count" /\ report' = [Unheard EXCEPT !.pc = "ONLINE", !.game = "RUNNING"]
        \/ at' = "transition" /\ report' = Unheard
        \/ at' = "transition" /\ report' = [Unheard EXCEPT !.pc = "ONLINE"]
        \/ at' = "transition" /\ report' = [Unheard EXCEPT !.pc = "ONLINE",
                                               !.game = "STOPPED", !.count = 0]
    BY <1>2 DEF AskStatus, Asked
  <2>3. /\ Unheard.names = {} /\ Unheard.count = Uncounted /\ Unheard.game = "UNKNOWN"
        /\ [Unheard EXCEPT !.pc = "ONLINE"].game = "UNKNOWN"
        /\ [Unheard EXCEPT !.pc = "ONLINE", !.game = "RUNNING"].names = {}
        /\ [Unheard EXCEPT !.pc = "ONLINE", !.game = "RUNNING"].count = Uncounted
        /\ [Unheard EXCEPT !.pc = "ONLINE", !.game = "STOPPED", !.count = 0].game = "STOPPED"
    BY DEF Unheard
  <2>4. at = "status"
    BY <1>2 DEF AskStatus
  <2>5. CASE at' = "transition"
    <3>1. report'.game # "RUNNING"
      BY <2>2, <2>3, <2>5
    <3> QED
      BY <2>1, <2>4, <2>5, <3>1
  <2>6. CASE at' # "transition"
    <3>1. report'.names = {} /\ report'.count = Uncounted /\ at' \in {"asleep", "count"}
      BY <2>2, <2>3, <2>6
    <3> QED
      BY <2>1, <2>4, <3>1
  <2> QED
    BY <2>5, <2>6
<1>3. CASE AskCount
  <2>1. CASE at' = "transition"
    <3>1. at = "count" /\ UNCHANGED <<report, inside, known, tracked, away, awayBefore>>
      BY <1>3, <2>1 DEF AskCount, Asked
    <3> QED
      BY <2>1, <3>1, Counts
  <2>2. CASE at' # "transition"
    <3>1. /\ at' = "names" /\ report'.names = {} /\ report'.count = Headcount
          /\ away' = Absent /\ UNCHANGED <<inside, known, tracked, awayBefore>>
      BY <1>3, <2>2 DEF AskCount, Asked, TypeOK, Reports
    <3>2. inside \subseteq Names /\ awayBefore \subseteq Names
      BY DEF TypeOK
    <3> QED
      BY <3>1, <3>2, Counts
  <2> QED
    BY <2>1, <2>2
<1>4. CASE AskNames
  <2>1. Cardinality({}) = 0
    BY FS_EmptySet
  <2>2. /\ at = "names" /\ at' = "transition"
        /\ UNCHANGED <<inside, known, tracked, away, awayBefore>>
        /\ report'.game = report.game /\ report'.count = report.count
        /\ report'.names = {} \/ report'.names = inside
    BY <1>4 DEF AskNames, Asked, TypeOK, Reports
  <2> QED
    BY <2>1, <2>2
<1>5. CASE HandleTransition
  BY <1>5 DEF HandleTransition
<1>6. CASE HandlePlayers
  BY <1>6 DEF HandlePlayers, TypeOK
<1>7. CASE HandleIdle
  BY <1>7 DEF HandleIdle, TypeOK
<1>8. CASE UpdatePresence
  BY <1>8 DEF UpdatePresence, Unheard
<1>9. CASE GameOpens \/ GameCloses \/ SomebodyLeaves
  <2>1. /\ UNCHANGED <<at, report, known, tracked>>
        /\ \E who \in SUBSET Names : inside' = inside \ who
             /\ away' = away \cup who /\ awayBefore' = awayBefore \cup who
    BY <1>9 DEF GameOpens, GameCloses, SomebodyLeaves, Changes, GoneFrom, TypeOK
  <2>2. away \subseteq Names /\ awayBefore \subseteq Names
    BY DEF TypeOK
  <2> QED
    BY <2>1, <2>2
<1>10. CASE SomebodyConnects \/ SomebodyArrives
  BY <1>10 DEF SomebodyConnects, SomebodyArrives, Changes
<1>11. CASE AddressChanges \/ SessionReplaced
  BY <1>11 DEF AddressChanges, SessionReplaced, Changes
<1>12. CASE BotRestarts
  BY <1>12 DEF BotRestarts, Unheard
<1> QED
  BY <1>1, <1>2, <1>3, <1>4, <1>5, <1>6, <1>7, <1>8, <1>9, <1>10, <1>11, <1>12
  DEF Next, MonitorStep

-----------------------------------------------------------------------------

\* The invariant survives every step of the bot and of the world.
LEMMA IInvStep == IInv /\ [Next]_vars => IInv'
<1>1. ASSUME IInv, Next PROVE IInv'
  BY <1>1, TypeStep, RosterStep DEF IInv
<1>2. ASSUME IInv, UNCHANGED vars PROVE IInv'
  BY <1>2 DEF IInv, Roster, TypeOK, AwayFits, Absent, ReportFits, CountFits,
     NamesFit, KnownFits, Running, RosterFits, vars, world, tick, lookup, roster,
     notices, profile, bounds
<1> QED
  BY <1>1, <1>2

\* In every state of the channel the rosters are believable.
THEOREM Invariance == Spec => []IInv
BY InitIInv, IInvStep, PTL DEF Spec

\* For any number of people, addresses and changes every variable keeps its type.
THEOREM TypeCorrect == Spec => []TypeOK
<1>1. IInv => TypeOK
  BY DEF IInv
<1> QED
  BY Invariance, <1>1, PTL

\* Nobody is told to have come or gone who was in the game all the time, however
\* many people there are and whichever answers fail.
THEOREM NoFalseRumour == Spec => RumoursAreTrue
<1>1. IInv /\ [Next]_vars =>
        (rumours' # rumours => rumours'.came \cup rumours'.left \subseteq awayBefore)
  <2> SUFFICES ASSUME TypeOK, Roster, [Next]_vars, rumours' # rumours
               PROVE  rumours'.came \cup rumours'.left \subseteq awayBefore
    BY DEF IInv
  <2>1. CASE HandlePlayers
    <3>1. CASE rumours' = Quiet
      BY <3>1 DEF Quiet
    <3>2. CASE rumours' # Quiet
      <4>1. /\ tracked /\ RosterFits /\ Running /\ report.count # Uncounted
            /\ at = "players"
            /\ rumours' = [came |-> report.names \ known, left |-> known \ report.names]
        BY <2>1, <3>2 DEF HandlePlayers
      <4>2. /\ Names \ report.names \subseteq awayBefore
            /\ Names \ known \subseteq awayBefore
        BY <4>1 DEF Roster, NamesFit, KnownFits
      <4>3. report.names \subseteq Names /\ known \subseteq Names
        BY DEF TypeOK, Reports
      <4> QED
        BY <4>1, <4>2, <4>3
    <3> QED
      BY <3>1, <3>2
  <2>2. CASE ~HandlePlayers
    <3>1. rumours' = Quiet
      BY <2>2 DEF Next, MonitorStep, Wakes, AddressFound, EndpointUseless,
         AskStatus, AskCount, AskNames, Asked, HandleTransition, HandleIdle,
         UpdatePresence, GameOpens, GameCloses, SomebodyLeaves, SomebodyConnects,
         SomebodyArrives, AddressChanges, SessionReplaced, BotRestarts, Changes,
         notices, vars
    <3> QED
      BY <3>1 DEF Quiet
  <2> QED
    BY <2>1, <2>2
<1> QED
  BY Invariance, <1>1, PTL DEF Spec, RumoursAreTrue

-----------------------------------------------------------------------------

\* A bot that has not judged yet has told nothing.
SignFits == SignIsNews /\ (lastRunning = None => sign = None)

\* Only a judgement and a closing touch the sign, or the memory of it.
LEMMA SignStep == SignFits /\ [Next]_vars => SignFits'
<1> SUFFICES ASSUME SignFits, [Next]_vars PROVE SignFits'
  OBVIOUS
<1> USE DEF SignFits, SignIsNews, None, Lost, Delivers
<1>1. CASE HandleTransition
  BY <1>1 DEF HandleTransition, Judged
<1>2. CASE HandleIdle
  BY <1>2 DEF HandleIdle
<1>3. CASE BotRestarts
  BY <1>3 DEF BotRestarts
<1>4. CASE ~(HandleTransition \/ HandleIdle \/ BotRestarts)
  <2>1. UNCHANGED <<lastRunning, sign>>
    BY <1>4 DEF Next, MonitorStep, Wakes, AddressFound, EndpointUseless,
       AskStatus, AskCount, AskNames, Asked, HandlePlayers, UpdatePresence,
       GameOpens, GameCloses, SomebodyLeaves, SomebodyConnects,
       SomebodyArrives, AddressChanges, SessionReplaced, Changes, notices, vars
  <2> QED
    BY <2>1
<1> QED
  BY <1>1, <1>2, <1>3, <1>4

\* The channel is never told what the bot believes to be so already, nor left
\* with a sign the bot has changed its mind about.
THEOREM NoNoticeTwice == Spec => []SignIsNews
<1>1. Init => SignFits
  BY DEF Init, SignFits, SignIsNews, None
<1>2. SignFits => SignIsNews
  BY DEF SignFits
<1> QED
  BY <1>1, <1>2, SignStep, PTL DEF Spec

=============================================================================
