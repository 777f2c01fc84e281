----------------------------- MODULE ServerMonitor -----------------------------
(***************************************************************************)
(* ServerMonitor: the coroutine that polls the PC, tells the channel what  *)
(* it learns and closes the shop when nobody plays.  It shares the manager *)
(* with the Discord commands: every await is a point where they go on, and *)
(* what a poll reported is judged later.  The bot may restart at any point *)
(* and then knows nothing of what it has told.                             *)
(***************************************************************************)
EXTENDS Manager

CONSTANTS
  Monitor,     \* the caller that is the monitor
  IdlePolls,   \* quiet polls in idle_shutdown_minutes; 0 disables the closing
  MaxRestarts  \* bound: how often the bot restarts

ASSUME MonitorAssumption ==
  /\ Monitor \in Callers
  /\ IdlePolls \in Nat /\ MaxRestarts \in Nat

VARIABLES
  mon,         \* where the tick is
  report,      \* its StatusReport
  lastRunning, \* _last_running
  idle,        \* _idle_seconds, in polls
  last,        \* _last_update and _last_restore
  baselined,   \* _update_baselined and _restore_baselined
  restarts,    \* how often the bot was restarted
  old,         \* history: results that were there when the bot started
  told,        \* history: results told since
  repeated     \* history: a worker's result was told twice

tickVars == <<report, lastRunning, idle, last, baselined>>
history  == <<restarts, old, told, repeated>>
monVars  == <<mon, tickVars, history>>
allVars  == <<vars, monVars>>

Labels == {"asleep", "query", "transition", "idle", "closing", "closed"}
          \cup Kinds \cup {"update told", "restore told"}

NoReport == [id |-> 0, phase |-> "none"]

Results == [kind: Kinds, id: Nat, phase: {"ended", "interrupted"}]

MonTypeOK ==
  /\ mon \in Labels
  /\ report \in [pc: {"ONLINE", "OFFLINE"}, game: {"RUNNING", "STOPPED", "UNKNOWN"},
                 players: {"none", "zero", "some"},
                 jobs: [Kinds -> [id: Nat, phase: {"none", "active", "ended", "interrupted"}]]]
  /\ lastRunning \in {"none", "yes", "no"}
  /\ idle \in 0..IdlePolls
  /\ DOMAIN last = Kinds
  /\ baselined \in [Kinds -> BOOLEAN]
  /\ restarts \in Nat
  /\ old \subseteq Results /\ told \subseteq Results
  /\ repeated \in BOOLEAN

Nothing == [k \in Kinds |-> NoReport]

Offline == [pc |-> "OFFLINE", game |-> "UNKNOWN", players |-> "none", jobs |-> Nothing]

MonInit ==
  /\ mon = "asleep"
  /\ report = Offline
  /\ lastRunning = "none" /\ idle = 0
  /\ last = Nothing
  /\ baselined = [k \in Kinds |-> FALSE]
  /\ restarts = 0
  /\ old = {} /\ told = {} /\ repeated = FALSE

-----------------------------------------------------------------------------
(* ServerManager.status, which takes no lock: two calls, not one.            *)

\* cmd_update_status and restore_status: a job whose unit does not run is
\* reported as interrupted, one that systemd is about to start, too.
JobReport(k) ==
  [id    |-> jobs[k].id,
   phase |-> CASE jobs[k].phase \in {"waiting", "running"}     -> "active"
               [] jobs[k].phase \in {"pending", "interrupted"} -> "interrupted"
               [] OTHER                                        -> jobs[k].phase]

Poll ==
  /\ mon = "asleep"
  /\ \/ /\ Gone
        /\ report' = Offline
        /\ mon' = "update"
     \/ /\ NotOk
        /\ report' = [Offline EXCEPT !.pc = "ONLINE"]
        /\ mon' = "update"
     \/ /\ Reached
        /\ report' = [pc      |-> "ONLINE",
                      game    |-> IF game = "active" THEN "RUNNING" ELSE "STOPPED",
                      players |-> IF game = "active" THEN "none" ELSE "zero",
                      jobs    |-> [k \in Kinds |-> JobReport(k)]]
        /\ mon' = IF game = "active" THEN "query" ELSE "update"
  /\ UNCHANGED <<vars, lastRunning, idle, last, baselined, history>>

QueryPlayers ==
  /\ mon = "query"
  /\ \/ SeenEmpty /\ report' = [report EXCEPT !.players = "zero"]
     \/ /\ Reached /\ game = "active" /\ crowd # {}
        /\ report' = [report EXCEPT !.players = "some"]
     \/ (Gone \/ NotOk \/ game # "active") /\ UNCHANGED report
  /\ mon' = "update"
  /\ UNCHANGED <<vars, lastRunning, idle, last, baselined, history>>

-----------------------------------------------------------------------------
(* The tick.                                                                 *)

Running == report.game = "RUNNING"

After(k) == IF k = "update" THEN "restore" ELSE "transition"
Told(k)  == IF k = "update" THEN "update told" ELSE "restore told"

Active(r) == r.phase = "active"
Requested(k, r) == r.id = requested[k]

Tell(k, r) ==
  LET news == [kind |-> k, id |-> r.id, phase |-> r.phase] IN
    /\ told' = told \cup {news}
    /\ repeated' = (repeated \/ (r.phase = "ended" /\ news \in told))

\* Mutant: progress is told as if it were a result.
WorthTellingProgress(k, r) ==
  r # NoReport /\ r # last[k] /\ (baselined[k] \/ Requested(k, r))

\* Mutant: only results asked for in this life of the bot are told.
WorthTellingIfAsked(k, r) ==
  r # NoReport /\ r # last[k] /\ ~Active(r) /\ Requested(k, r)

\* Is there a result to tell: not before the first poll, unless it was asked for.
WorthTelling(k, r) ==
  r # NoReport /\ r # last[k] /\ ~Active(r) /\ (baselined[k] \/ Requested(k, r))

\* Mutant: an outage is a report without a job.
HandleJobInOutage(k) ==
  LET current == report.jobs[k] IN
    /\ mon = k
    /\ last' = [last EXCEPT ![k] = current]
    /\ baselined' = [baselined EXCEPT ![k] = TRUE]
    /\ IF WorthTelling(k, current)
       THEN /\ Tell(k, current)
            /\ mon' = IF Requested(k, current) THEN Told(k) ELSE After(k)
       ELSE UNCHANGED <<told, repeated>> /\ mon' = After(k)
    /\ UNCHANGED <<vars, report, lastRunning, idle, restarts, old>>

\* Mutant: a result that is told is not remembered.
HandleJobTellingWithoutNote(k) ==
  LET current == report.jobs[k] IN
    /\ mon = k
    /\ IF report.pc # "ONLINE"
       THEN mon' = After(k) /\ UNCHANGED <<last, baselined, told, repeated>>
       ELSE /\ baselined' = [baselined EXCEPT ![k] = TRUE]
            /\ IF WorthTelling(k, current)
               THEN /\ Tell(k, current)
                    /\ mon' = IF Requested(k, current) THEN Told(k) ELSE After(k)
                    /\ UNCHANGED last
               ELSE /\ last' = [last EXCEPT ![k] = current]
                    /\ UNCHANGED <<told, repeated>> /\ mon' = After(k)
    /\ UNCHANGED <<vars, report, lastRunning, idle, restarts, old>>

\* _handle_update and _handle_restore, up to the await of the notice.
HandleJob(k) ==
  LET current == report.jobs[k] IN
    /\ mon = k
    /\ IF report.pc # "ONLINE"
       THEN mon' = After(k) /\ UNCHANGED <<last, baselined, told, repeated>>
       ELSE /\ last' = [last EXCEPT ![k] = current]
            /\ baselined' = [baselined EXCEPT ![k] = TRUE]
            /\ IF WorthTelling(k, current)
               THEN /\ Tell(k, current)
                    /\ mon' = IF Requested(k, current) THEN Told(k) ELSE After(k)
               ELSE UNCHANGED <<told, repeated>> /\ mon' = After(k)
    /\ UNCHANGED <<vars, report, lastRunning, idle, restarts, old>>

\* After the await: whatever was requested in between is forgotten as well.
ForgetRequest(k) ==
  /\ mon = Told(k)
  /\ requested' = [requested EXCEPT ![k] = 0]
  /\ mon' = After(k)
  /\ UNCHANGED <<pcVars, lock, op, at, call, tries, result, opId, denied,
                 tickVars, history>>

HandleTransition ==
  /\ mon = "transition"
  /\ lastRunning' = IF Running THEN "yes" ELSE "no"
  /\ mon' = "idle"
  /\ UNCHANGED <<vars, report, idle, last, baselined, history>>

\* This poll counts as quiet.
Quiet == Running /\ report.players = "zero" /\ \A k \in Kinds : ~Active(report.jobs[k])

HandleIdle ==
  /\ mon = "idle"
  /\ idle' = IF IdlePolls > 0 /\ Quiet THEN (idle + 1) % IdlePolls ELSE 0
  /\ mon' = IF IdlePolls > 0 /\ Quiet /\ idle + 1 >= IdlePolls
            THEN "closing" ELSE "asleep"
  /\ UNCHANGED <<vars, report, lastRunning, last, baselined, history>>

\* stop(allow_with_players=False).
CloseShop ==
  /\ mon = "closing"
  /\ Enter(Monitor, "stop") /\ UNCHANGED opId
  /\ mon' = "closed"
  /\ UNCHANGED <<tickVars, history>>

\* Mutant: a closing that was refused ends the coroutine.
ShopClosedOrNeverAgain ==
  /\ mon = "closed" /\ lock # Monitor
  /\ result[Monitor] = "STOPPED"
  /\ lastRunning' = "no"
  /\ mon' = "asleep"
  /\ UNCHANGED <<vars, report, idle, last, baselined, history>>

\* A closing that went through needs no other notice.
ShopClosed ==
  /\ mon = "closed" /\ lock # Monitor
  /\ lastRunning' = IF result[Monitor] = "STOPPED" THEN "no" ELSE lastRunning
  /\ mon' = "asleep"
  /\ UNCHANGED <<vars, report, idle, last, baselined, history>>

MonitorStep ==
  \/ Poll \/ QueryPlayers
  \/ \E k \in Kinds : HandleJob(k) \/ ForgetRequest(k)
  \/ HandleTransition \/ HandleIdle \/ CloseShop \/ ShopClosed

-----------------------------------------------------------------------------

\* Results that a worker has left on the PC for good.
ResultsThere ==
  {[kind |-> k, id |-> jobs[k].id, phase |-> jobs[k].phase] :
     k \in {j \in Kinds : jobs[j].phase \in {"ended", "interrupted"}}}

\* All the bot knows is in memory.  What it has begun on the PC goes on there.
BotRestarts ==
  /\ restarts < MaxRestarts
  /\ restarts' = restarts + 1
  /\ lock' = Free /\ op' = "none" /\ at' = "idle" /\ call' = "none" /\ tries' = 0
  /\ result' = [c \in Callers |-> "none"]
  /\ requested' = [k \in Kinds |-> 0]
  /\ mon' = "asleep" /\ report' = Offline
  /\ lastRunning' = "none" /\ idle' = 0
  /\ last' = Nothing /\ baselined' = [k \in Kinds |-> FALSE]
  /\ old' = ResultsThere /\ told' = {}
  /\ UNCHANGED <<pcVars, opId, denied, repeated>>

MonitoredInit == Init /\ MonInit

MonitoredNext ==
  \/ /\ \/ \E c \in Callers \ {Monitor}, o \in Ops : Invoke(c, o)
        \/ BotStep \/ Deliver \/ TimesOut
        \/ PCStep
     /\ UNCHANGED monVars
  \/ MonitorStep
  \/ BotRestarts

MonitoredSpec == MonitoredInit /\ [][MonitoredNext]_allVars

\* The event loop runs both coroutines, commands and workers on the PC end
\* (systemd gives a worker an hour), the machine boots, and a game that crashed
\* is started again.
MonitoredFairness ==
  /\ WF_allVars(MonitorStep)
  /\ WF_allVars(BotStep /\ UNCHANGED monVars)
  /\ WF_allVars(Deliver /\ UNCHANGED monVars)
  /\ WF_allVars(Remote /\ UNCHANGED monVars)
  /\ WF_allVars(JobStep /\ UNCHANGED monVars)
  /\ WF_allVars(Boots /\ UNCHANGED monVars)
  /\ WF_allVars(GameRestarts /\ UNCHANGED monVars)

MonitoredFairSpec == MonitoredSpec /\ MonitoredFairness

-----------------------------------------------------------------------------
(* Properties. *)

\* The result of a job is told once in the bot's life, whatever polls fail.
ResultsToldOnce == ~repeated

\* UPDATE_SETUP.md: a result that is there when the bot starts is not told.
OldResultsStayQuiet == old \cap told = {}

\* A poll that was answered is judged again and again.
PollsSucceed == []<>(mon = "update" /\ report.game # "UNKNOWN")

Finished(k, i) == jobs[k] = [id |-> i, phase |-> "ended"]

\* Once the monitor has seen the state of the jobs, the result of every later
\* job is told, unless the next job takes its place or the bot restarts before:
\* also of one whose acknowledgement was lost and of one that ended while the
\* polls failed.
ResultsArrive ==
  PollsSucceed =>
    \A k \in Kinds, i \in 1..MaxJobs :
      (Finished(k, i) /\ baselined[k] /\ last[k].id < i)
        ~> \/ ~Finished(k, i) \/ ~baselined[k]
           \/ [kind |-> k, id |-> i, phase |-> "ended"] \in told

\* README.md: when nobody plays any more and the game no longer crashes, a machine
\* whose game is up is off in the end, though Discord commands and crashes get in
\* the way of the monitor.
IdleEndsOff ==
  <>[](crowd = {} /\ game # "activating") => (game = "active" ~> power = "off")

=============================================================================
