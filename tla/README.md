# palserver: specifications, model checking and proofs

A Discord bot on a Raspberry Pi operates a Valheim server on another PC: it wakes the PC,
starts and stops the game, updates it, restores backups, tells the channel what happens and
switches everything off when nobody plays. This directory models the parts of the code that
keep state, run concurrently or have to survive failures. Paths below are those of the
repository.

## Inventory

| component | state it keeps | operations | what must be right |
|---|---|---|---|
| `scripts/server/valheim-control` (gate and commands) | `operation.lock`, `update-state`, the game's unit | start, restart, shutdown, backup, poweroff, update, status | one command or job at a time touches the game; the lock is given back |
| update job (`cmd_update_run`, `valheim-steam-update`) | its phase in `update-state` | checking, stopping, backup, downloading, starting | stages in order, only with the game down, no player thrown out, always an end |
| restore job (`gameserver-maintenance`) | `restore-request`, `restore-state`, `restore-block` | checking, validating, stopping, backup, restoring, starting | as above; the chosen archive and no other |
| `switch_world` | `worlds_local`, `.before-restore-ID`, the marker | two renames, rollback, each with an fsync | never a start without a world, no world lost |
| `gameserver-backup` | `/var/lib/gameserver-backups` | archive, verify, rotate | the last good archive stays |
| `ServerManager` | an asyncio lock, the ids of requested jobs | start, stop, restart, update, restore, status | no poweroff without an archive, no false answer, always an answer |
| SSH transport, Wake-on-LAN | none | one command; magic packets | a lost reply is not a failure |
| `ServerMonitor` | what it knew at the last poll, idle time | poll, notices, idle shutdown | each result told once, none lost, none from before the start; nobody said to have left who is there |
| public address, presence | the last address and presence | look up, announce; change | what the channel was told last becomes true |
| Discord dialogue of a restore | views with an owner, a lifetime and a used flag | choose, confirm, cancel | one request per confirmation |
| systemd units | unit states, jobs | run, restart on failure, time out | - |

How they interact: the bot's coroutines (commands and monitor) share one `ServerManager`; its
methods are sequences of SSH calls. On the PC every call is a process that runs the gate, takes
`operation.lock` and changes state; update and restore are only enqueued and run later as systemd
services under the same lock. Status is read without any lock. State files, the marker and the
archives outlive processes and power; what the bot knows does not outlive the bot.

Hard behaviours: sessions and jobs interleave around the gate; a job is accepted before it is
visible to anybody; a worker is killed or the power fails between two renames; a call fails after
it took effect; an SSH client gives up while the command goes on; the game restarts by itself
after a crash; polls fail between two events; the answers of one poll are of different moments; a notice
or a presence is lost; people click twice. `PROJECT.json` lists them as
hazards, each at its line and with the properties that watch it.

## Modules

| module | models | abstraction |
|---|---|---|
| `ServerPC` | sessions, both jobs, the game's unit, files and lock | archives and worlds are only there or not |
| `JobPipeline` | abstract: what a job promises to readers of its state file | - |
| `OneAtATime` | abstract: what `operation.lock` promises to everybody who uses the PC | - |
| `JobStatus` | extends `ServerPC`: readers of the status | - |
| `WorldSwitch` | `switch_world` call by call on a disk with a volatile cache | a world is a number |
| `Replacement` | abstract: what replacing a world shows to the game | - |
| `Manager` | `ServerManager`, the transport, the Discord commands with their role checks | the PC from outside: a command is busy or has its effect later |
| `ServerMonitor` | extends `Manager`: results of jobs, the idle shutdown, restarts of the bot | notices to the channel always arrive |
| `Channel` | the rest of a tick: public address, transitions, roster, presence; what reaches Discord | jobs and the count of quiet polls left to `ServerMonitor`; closing when idle may happen at any empty poll |
| `RestoreChoice` | archives, rotation, listing, views, request and worker | an archive is a fingerprint and the world it holds |
| `MCServerPC` | symmetry of the sessions, for TLC | - |
| `ServerPCProofs`, `PipelineProofs`, `JobStatusProofs`, `WorldSwitchProofs`, `ManagerProofs`, `ServerMonitorProofs`, `RestoreChoiceProofs`, `ChannelProofs` | theorems (see Proofs) | - |

`PROJECT.json`'s `map` gives the source lines of every definition. The conventions:

* A step of `ServerPC` ends wherever another process can run: after the first check, after the
  lock, at every call that waits, at every stage of a job. `pc` holds these points, `Leave` is the
  end of a process, where the kernel drops the flock.
* Two different actions of the source that only differ in the command they call are one action
  with a parameter: `WorkerBackup("update")` is `cmd_backup`, `WorkerBackup("restore")` is
  `safety_backup`. Where the two jobs differ the action says so (`WorkerStop`, `CheckRefusals`).
* `CallFails` (fault `io`) is any call outside the process reporting an error, also one that was
  carried out: a rename can be done and its fsync fail. `systemctl show` that fails makes
  `_update_active` and `_restore_active` answer "no" (`Overlooked`).
* `unit` and `job` keep apart what systemd calls the unit's state and its pending start job. The
  scripts only look at the first: the window between them is in the model.
* `WorldSwitch` keeps for the directory and for the marker what is seen now (`dir`, `mark`) and
  the set of what a power loss may leave (`dirMaybe`, `markMaybe`). An fsync makes the set a
  singleton.
* In `Manager` an SSH call that changes the PC is sent, delivered, running and answered; its
  client may give up at any point of it. `remote` goes on then and still holds `operation.lock`.
* `ServerMonitor` splits a tick at its awaits. Its idle shutdown calls the same `stop` the
  commands call, through `Enter`.
* `Channel` has the four questions of a tick as four steps - address, STATUS, then the two queries
  behind PLAYERS - and lets the world change between any two. Who is just connecting is counted
  (`nameless`) and has no name yet. `sign`, `believed` and `shown` are what the channel goes by; a
  notice that is not delivered leaves `Lost` there, because from then on nobody can say what people
  believe. Two people do not have the same name.
* In `RestoreChoice` a click that passed `interaction_check` waits in `clicks` until its callback
  runs, where the check is made again. The role is the one the interaction carries, so it is
  checked once.

Definitions marked as mutants are plausible mistakes; no specification uses them. For each property
of a passing run there is one that replaces a definition and violates the property.

## Runs

`tlc -config NAME.cfg MODULE`, with the module `PROJECT.json` names for the run.

| run | what it shows |
|---|---|
| `ServerPC_jobs` | every command, both jobs, every fault. `RestoreBlockProtects`: a missing world is covered by the marker and with the marker the game is down; `StagesRunOffline`: jobs touch data only with the game down; `ArchiveSeesWholeWorld`: a backup over SSH never reads a world a restore is replacing; `BlockIsReported`; `EmptyBeforeStop`: a job stops only a game it last saw empty; both jobs implement `JobPipeline`; `CommandsTakeTurns`: sessions, workers and systemd together implement `OneAtATime` |
| `JobStatus_jobs` | `ToldResultsStand`: a result that a reader was told stays the result of that job; `JobsEnd`, `LockReleased`: jobs end and the lock is given back, with workers killed and calls failing |
| `WorldSwitch_disk` | `GapIsMarked`, `PlayedWorldsKept`, `SuccessIsDurable`, each also for what a power loss would leave; the files implement `Replacement` |
| `Manager_all` | every operation and fault. `DeniedMeansNotQueued`: who is told that no job was queued has queued none; `PoweroffIsSaved`: the bot never powers off a PC whose game a command started after the last archive; `CommandsTakeTurns`: the PC as the bot sees it implements `OneAtATime`, too; `OperationsAdvance`, `OperationsReturn`: an operation only gets nearer to its end, and reaches it |
| `ServerMonitor_results` | `ResultsArrive`, `ResultsToldOnce`, `OldResultsStayQuiet`: a later result is told, once, and not again after a restart of the bot |
| `ServerMonitor_idle` | `IdleEndsOff`: an empty PC is off in the end |
| `RestoreChoice_all` | `OneRequestPerView`, `RestoresWhatWasShown`, `ReplacedWorldIsKept`, `LastBackupStands` |
| `Channel_all` | `SignIsNews`: no opening or closing is told twice in a row; `RumoursAreTrue`: nobody is said to have come or gone who was in the game ever since the count before; `SignArrives`, `AddressArrives`, `PresenceArrives`: the sign, the address and the presence become those of the game |

Runs that refute a sentence of the repository (`findings` in `PROJECT.json` quotes them):

| run | what happens |
|---|---|
| `ServerPC_duplicate` | in the same window a second update is accepted and replaces the id of the first |
| `Manager_archive` | a crashed game between two automatic restarts passes for stopped and comes up under the backup |
| `Manager_stopped` | a poweroff that never arrived is answered with STOPPED |
| `ServerMonitor_forgets` | a first poll that half failed makes old results news |

### Bounds

* Two sessions: the lock admits one, so the second one stands for everybody it competes with; a
  job is a third process. The proofs hold for any set of sessions.
* Two jobs (`MaxJobs = 2`), so that one can follow or meet another: two updates, two restores, or
  one of each, also both pending at once. `JobStatus_jobs`, whose temporal properties cost most,
  has two restores and backups that compete with them for the lock; an update's worker takes and
  leaves the lock through the same actions.
* Three operations of two callers in `Manager`, one of them without the Maintainer role, so that a later one meets a command an earlier one has left on the PC; two
  polls of a boot, one of which may be in vain.
* Three restores and two failing calls in `WorldSwitch` (see the cfg): a failure inside a
  rollback, and a restore after a repaired one.
* In `RestoreChoice` `Keep` is 1 and the list shows 2, so four archives reach both limits; a view
  lives one second of a clock that shows two; two clicks overlap.
* In `Channel` three changes of the world and one restart of the bot: two people can change places
  while a third is connecting, and the address or the presence can change between two polls. Two
  names, two addresses, two echo services, a lookup at every second poll.
* All faults are on unless a property is only claimed without one: `ServerMonitor_results` has no
  failing status command (`ServerMonitor_forgets`); `ServerMonitor_idle` no lost reply (see below).

`CHECK_DEADLOCK FALSE` stands where the bounds, or a PC that stays off, let the system stop.
Symmetry is used for safety only and only over sets whose members are treated alike.

### Fairness

`ServerPC`: sessions and workers go on (their calls return; systemd kills a worker after
`TimeoutStartSec=1h`), systemd runs what it accepted and notices an ended process, and a stopping
game ends after `TimeoutStopSec=120`. Weak fairness for each process; nobody has to send a
command, connect, crash or repair. The worker's `flock -w 60` gives it no right to the lock: it may
give up, and `JobsEnd` holds for that reason.

`Manager`: the event loop runs what is ready; a call that runs is answered or times out at the
client. `ServerMonitor` adds the monitor's own steps, the workers, the boot of the PC
and systemd's restart of a crashed game. `Channel` only has weak fairness of the monitor's own
step: `run()` goes on whatever a tick raises, and every call in it times out.
`ResultsArrive`, `SignArrives` and `PresenceArrives` assume that a poll is answered again and
again, `AddressArrives` that a lookup is, as a premise of the property. The world around `Channel`
changes a bounded number of times, so these speak of the time after its last change.
No strong fairness is used anywhere.

## Proofs

`tlapm M.tla` checks each of the eight proof modules. Every theorem is about a specification with
all its faults and for every value of its constants - sets of sessions, callers, users and names,
bounds on jobs, restores, operations, polls and restarts - from the assumption the module states on
them. Five theorems have a hypothesis about the faults or the operations besides; they are named
below, each with what happens without it. In each module `IInv` is the inductive invariant:
`InitIInv` and a lemma for the step give `Invariance`, and the properties follow from it. Lemmas
about a step have one step per action.

| module | properties proved | what the invariant adds |
|---|---|---|
| `ServerPCProofs` | `TypeOK`, `RestoreBlockProtects`, `StagesRunOffline`, `ArchiveSeesWholeWorld`, `EmptyBeforeStop`, `BlockIsReported` | who holds the lock and where the marker is |
| `PipelineProofs` | `UpdateIsPipeline`, `RestoreIsPipeline`, `CommandsTakeTurns` | the phase that belongs to each label; the command of each session inside |
| `JobStatusProofs` | `StatusTypeOK`, `ToldResultsStand` | no file goes back behind what was read |
| `WorldSwitchProofs` | `TypeOK`, `GapIsMarked`, `PlayedWorldsKept`, `SuccessIsDurable`, `ReplacesAtomically` | all that a power loss may leave |
| `ManagerProofs` | `TypeOK`, `DeniedMeansNotQueued`, `PoweroffIsSaved`, `CommandsTakeTurns`, `OperationsAdvance`; conditions under which `StoppedMeansOff` and `ArchiveIsConsistent` hold | whose command runs on the PC |
| `ServerMonitorProofs` | `MonTypeOK`, `ResultsToldOnce`, `OldResultsStayQuiet`, and `DeniedMeansNotQueued`, `PoweroffIsSaved`, `CommandsTakeTurns`, `OperationsAdvance` of `Manager` again | results only get newer |
| `RestoreChoiceProofs` | `TypeOK`, `OneRequestPerView`, `RestoresWhatWasShown`, `ReplacedWorldIsKept`, `LastBackupStands` | fingerprints are recognised for good |
| `ChannelProofs` | `TypeOK`, `SignIsNews`, `RumoursAreTrue` | a bot that has not judged has told nothing; who is missing on a list was away |

**ServerPC.** A process inside its critical section owns the lock (`LockOwned`), which makes two
jobs, or a job and a session, exclude each other; a job's labels fit its kind (`LabelsFit`); the
marker is where the switch needs it, and nowhere a session or an update is past its checks
(`MarkerPlaced`). With these, the game can only be brought up by its own unit's restart, which
`Down` excludes, by a session inside the lock, or by a job that has passed `unmark`. Two smaller
invariants stand on it. `Lookout`: nobody is in a game that is down or about to restart, so that an
empty look at a game that is down counts. `SwitchReported`: systemd keeps a start job only for a
unit that does not run, hence none for a restore whose worker holds the lock, so that no second
restore overwrites the phase the marker belongs to.

**Pipelines.** `PhaseFits` ties the phase in the state file to the worker's label (`PhaseAt`). Its
hard part is the request that comes in between: it needs the lock, so no worker is inside its stages
then. `Moves` lists what may happen to one job's file and lock in a step; `WorkerMoves` and
`SessionMoves` show that every action is such a move, and `UpdateStep` and `RestoreStep` that every
move is a step of `JobPipeline` or a stutter.

**Turns.** `ServerPC` and `Manager` both implement `OneAtATime`, one from the scripts and the other
from what the bot can see of the PC. In `ServerPC` its holder is whoever owns the flock and its command
is that session's or "worker"; `CommandsFit` adds that a session in its critical section has a
command, that a lock held by a session is held from inside, and that a job with a phase has a number.
`HolderProceeds` is about the steps of the one inside, `NothingSeen` about everybody else's, and
`SessionTurns` and `WorkerTurns` find the action of `OneAtATime` for each. What follows for the game
is stated as `StaysDown`: while no start, restart or worker has the lock, a game that is down stays
down, so an archive that a BACKUP over SSH begins with the game down is finished with the game down. (What
workers do is in `StagesRunOffline`.)

**Nobody goes round in circles.** `Rank` numbers the labels of sessions and workers so that every
step leads to a smaller one (`EverybodyGoesForward`). That is the safety half of `JobsEnd` and
`LockReleased`: whoever has the lock has at most 19 steps to go. That he takes them is fairness.

**Readers.** The same moves show that an id that has a result keeps it and that a new request has a
greater id (`StaysNotBehind`); a reader who has read the file and asks for the unit later is
therefore never contradicted by the file.

**World switch.** The invariant is about every directory a power loss may leave (`dirMaybe`): while
the marker may be missing they all show the same worlds (`AgreeUnmarked`); the world the last restore
found is in place or beside it in each of them, and the place a world is moved to is free
(`DirsFit`); `PcFits` says what the program has made safe at each call. The refinement maps a marked
directory to "hidden".

**Manager.** While the bot waits for a command, the one that runs on the PC is its own
(`RemoteFits`); a command it gave up keeps every later one from starting until it ends. So whatever
may still queue a job has not been denied (`DenialsFit`), and between the archive and the poweroff no
command starts the game (`ArchiveFits`). `CommandsTakeTurns` needs `JobsAsked`, that a job which is
there was asked for, so that a worker comes for something. `StepsLeft` weighs the stage of an operation
against the polls of a boot and the stages of a call: `OperationsAdvance` says that every
step of an operation lowers it, whatever `BootPolls` is, which is the safety half of `OperationsReturn`.

The runs `Manager_stopped` and `Manager_archive` refute two claims; two theorems say what they
depend on. `OffUnlessLost`: with neither `outage` nor `timeout` among the faults STOPPED does mean off,
through crashes, jobs and refused calls, for then a command that runs is always one the bot waits for
(`NothingLost`). `StoppedUnlessStarted`: with neither crashes nor jobs the backup of a stop does find
the game down, whatever is lost (`OnlyCommands`). No hypothesis can be spared: with `outage` or
`timeout` alone TLC refutes the first, with `crash` or an update alone the second.

**Monitor.** Restarts of the bot and the idle shutdown keep the manager's invariant
(`ManagerStep`), the turns on the PC and the progress of operations; a restart ends the operation,
and what it had sent goes on. Results only get newer: what the monitor remembers is no newer than
its report, and that no newer than the PC (`NewsFit`, `ResultsFit`). `ResultsToldOnce` and `OldResultsStayQuiet` are
proved under the assumption `"refuse" \notin Faults`: when a status command that reached the PC
fails, they are false, which is what `ServerMonitor_forgets` shows.

**Restore.** A fingerprint that somebody has read identifies what it was read from
(`Recognised`): archives only come with new fingerprints. What is staged is what was asked for
(`StagedFits`), and the archive a backup writes is the newest, so that rotation cannot take it
(`TargetFits`).

**Channel.** A list of names that is believed names everybody who was inside when the names were
asked for, or is empty where nobody was inside when they were counted (`NamesFit`, `CountFits`); the
roster remembered is such a list (`KnownFits`).

Each `IInv`, `NothingLost` and `OnlyCommands` were model-checked before they were proved (of their
parts all but `ReadersFit`, which ranges over all numbers). Only model-checked: the liveness
properties (`JobsEnd`, `LockReleased`, `OperationsReturn`, `ResultsArrive`, `IdleEndsOff`,
`SignArrives`, `AddressArrives`, `PresenceArrives`), which are beyond the prover, as `ENABLED` is. Of the first three
the part that is safety is proved, see `Rank` and `StepsLeft`; that the steps are taken is TLC's.

## What the properties do not say

* `EmptyBeforeStop` is about the last look; somebody may connect between it and `systemctl stop`.
* `PoweroffIsSaved` speaks of games a command has started. Between BACKUP and POWEROFF the lock is
  free: a job that was pending there, or systemd after a crash, may bring the game up, and if it is
  down again when the helper looks, what was played in that SSH round trip is not in the archive.
* `ReplacedWorldIsKept` and `LastBackupStands` take it that nobody else deletes archives;
  `RestoresWhatWasShown` does not.
* `IdleEndsOff` needs replies that arrive: when the one to SHUTDOWN is lost, `stop()` ends with
  SHUTDOWN_FAILED while the game does stop (`server_manager.py:452`), no later poll is quiet, and
  the PC stays on. The same holds for a PC that boots after `BOOT_TIMEOUT`.
* `WORLD.rename(old)` and its fsync stand before the `try` of `switch_world`: when that fsync fails
  nothing is rolled back. The marker stays, which is all `GapIsMarked` asks.
* With the game down the player query fails, so a Player's stop is refused because of players
  (`server_manager.py:446`); `Manager` has this as it is.
* A job that has been enqueued and whose unit has not started is shown as "interrupted"
  (`valheim-control:248`), which `ToldResultsStand` therefore leaves out of the final results.
* `Channel`: what was played or said before a restart of the bot is a baseline and is not told; a
  notice that is lost is not repeated, and a presence that Discord refused, or forgot with a new
  gateway session, is only set again when it changes (`discord_app.py:474`). The three liveness
  properties except exactly these cases.
* `RumoursAreTrue` is about the truth of what is said, not its completeness: who comes and goes between
  two complete lists is not mentioned.
* Results that a job reached before the very first poll of the monitor may never be told.

## Not modelled

`last-stop`, which only the diagnosis displays; the wording of answers, embeds and help; the packets
of the A2S exchange; `/取引`, one random picture per command; diagnosis, which only reads; the setup
and migration scripts, which the owner runs once and alone; the fields of the configuration, checked
one by one at the start and constant afterwards; line formats of answers (their outcome is
modelled); file ownership and permissions; symbolic links and other precautions about paths; whether
the contents of the staging directory are on the disk (`gameserver-maintenance:351`); a clock of the
PC that is set back, by which names and rotation would disagree (`gameserver-backup:36`).

## Plan

1. Done: the PC (`ServerPC`, `JobStatus`, `JobPipeline`, `WorldSwitch`, `Replacement`,
   `RestoreChoice`), the bot (`Manager`, `ServerMonitor`, `Channel`), and proofs of every safety
   property and refinement the passing runs check. The bot's picture of the PC and the PC itself implement
   one contract, `OneAtATime`.
2. Worth adding: archives whose clock is set back; a PC that boots after `BOOT_TIMEOUT` and stays on
   without a game; the directory entries of a staged world on `WorldSwitch`'s disk.
3. `OneAtATime` leaves out what a command answers and when. A reduced `ServerPC` next to `Manager`
   would also check the answers (`delivered`, `busy`, refused) against the gate's.
