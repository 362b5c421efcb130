# Formal model of the Project Zomboid agent

TLA+ modules that model the control parts of the agent, the TLC configurations that check
them on small instances, and theorems that TLAPS proves for every value of the constants.
Each definition is translated from the lines that `PROJECT.json` names for it under `map`;
paths below are relative to the repository's root, with

    CORE = packages/pz_agent_core/src/pz_agent_core      MOD = pz-mod/42/media/lua/client/PZAgent
    CLI  = packages/pz_agent_cli/src/pz_agent_cli

To run: `tlc -config Journal.cfg MCJournal`, `tlapm JournalProofs.tla`, and so on; section 4
lists every configuration.

## 1. The system

Two programs share one directory of files and nothing else. The **sidecar** (Python)
observes, decides and writes commands; the **mod** (Lua, inside the single-threaded game)
reads them, checks them again, carries them out, and writes observations and acks. Either
side can die, restart, fall silent or be read while it writes. A person can take over at
any moment: by the keyboard, by a panic file, by `pz-agent disarm`.

### Inventory

| component | state it keeps | operations | hard part | what makes it correct |
|---|---|---|---|---|
| Sidecar command queue (`CORE/ipc/queue.py`) | shipped commands, the one in flight, idempotency cache, sequence numbers | `submit`, `send_stop`, `poll_acks`, `record_ack`, `close_in_flight`, recovery | acks late, lost, repeated; restart with a rotated journal; bounded tables | one occupying command at a time; first result stands; sequence numbers never reused |
| Sidecar loop, authority (`CLI/runtime.py`) | mode, pending arm, what a tick read first | `attach`, `arm`, `disarm`, `tick`, `shutdown` | arm confirmed by two files that race its deadline; stale control requests; crash and resume | the two sides agree; withdrawn authority is withdrawn in the game too |
| Sidecar loop, action channel (`CLI/runtime.py`, `ActionChannel`) | waiting submissions, records, keys | `submit`, `take_next`, `settle`, `sweep`, `clear_pending`, `close_open` | two threads | every submission ends once, with one answer per key, in a bounded store |
| Mod authority (`MOD/Safety.lua`, `Runtime.lua`, `Session.lua`) | armed mode, takeover, open session, last sidecar heartbeat | `tick`, `stop`, `noteInput`, `refresh` | session swaps, stale peer, takeover | authority belongs to the open session |
| Mod command path (`MOD/CommandReader.lua`, `ActionRuntime.lua`, `Safety.lua`) | reader cursor and memory, action slot, waiting queue | `tick`, `poll`, `admit`, `step`, `finish`, cancel, stop | redelivery, rotation, bounded memory, a clock that stops | each key executes once; nothing is driven without authority; no command is lost or stuck |
| Command and ack journals (`CORE/ipc/journal.py`) | JSONL files with rotated generations, reader cursors | append, rotate, read | torn tails, rotation under a reader | no committed record is lost or read twice unnoticed |
| Snapshot slots (`CORE/ipc/snapshot.py`, `MOD/Ipc.lua`) | two slots and a pointer | publish, read | read during write | a reader sees a whole, newest snapshot |
| State lock (`CORE/session/lock.py`) | lock file with pid | acquire, release, break | stale lock, pid reuse | one sidecar at a time |
| Session manager (`CORE/session`) | session file, heartbeat | create, resume, close | crash between two writes | a resumed session is the game's |
| Action engine (`CORE/actions/engine.py`) | lifecycle of one dispatched action | dispatch, poll, verify, cancel | deadlines against late acks | every action reaches one terminal state |
| Reflex guard (`CORE/safety`) | rungs, stall counters | evaluate | events that hold the loop back for ever | priority of rungs; no permanent stall |
| Goal queue (`CORE/goals`) | goals, backlog, store on disk | add, start, suspend, finish, load | crash between memory and disk | state machine respected across restarts |
| Planner (`CORE/planner`) | plan, steps, replans | propose, advance, revise | observations change under a plan | bounded replans; no step without its condition |
| Navigation (`CORE/navigation`, `CLI/navigation_planner.py`) | path, stall counters | advance | stall and detour loops | it arrives or gives up |
| Core RPC, MCP server (`CORE/rpc`, `pz_agent_mcp`) | connection, token, idempotency store | call | retries after a lost answer | one effect per key |
| Voice (`pz_agent_voice`) | conversation state, utterance queue | listen, speak, interrupt | barge-in races | nothing acts on a cancelled utterance |
| Supervisor (`CLI/supervisor.py`, `app.py`) | pid files, control file | start, stop, request | stale pid, restart races | one loop runs; requests reach it |
| Arbiter, missions, policies, memory | proposals, remembered containers | choose | mostly pure functions of an observation | the choice respects priority |

Platform discovery, diagnostics, protocol types, capabilities, knowledge, scripts,
installers and the mod's adapters are data, I/O or calls into the game's own API.
`PROJECT.json` lists all 34 components with their status, and 40 hazards, each at its line
with the properties that would catch it going wrong.

### How they interact

                 state lock                +-> GoalQueue, arbiter, missions
                     |                     |          | steps
    MCP, CLI --rpc---+---> ActionChannel --+<---------+
                     |                     v
                 loop tick (guard, authority) --> ActionEngine --> CommandQueue
                  ^       ^                                          |  ^
    control file, |       | slots and pointer              commands.jsonl acks.jsonl
    panic, beats -+       |                                          v  |
      player input --> Observe, Runtime, Safety --> CommandReader --> ActionRuntime

The sidecar's tick thread drives everything but the RPC server, which has a serving thread
of its own. That one reaches the loop only through `ActionChannel` and the goal queue, each
under a lock. The mod is called on each game tick and on input events, never concurrently.

## 2. Modules

| module | models | theorems |
|---|---|---|
| `CommandQueue` | the sidecar's command queue | `CommandQueueProofs` |
| `Arming` | who may act: the loop's authority against the mod's, over files | `ArmingProofs` |
| `ActionChannel` | the remote action channel, its two threads | `ActionChannelProofs` |
| `ModRuntime` | the mod's reader, slot, waiting place and gates | `ModRuntimeProofs` |
| `Stream` | what a journal promises its reader, abstractly | |
| `Journal` | both ends of the two JSONL journals, as an implementation of `Stream` | `JournalProofs` |
| `Dispatch` | guard, engine, slot and mod together: the life of one action | `DispatchProofs` |
| `Goals` | the goal queue with its file, its tick, the arbiter and missions on the channel | `SidecarProofs` |
| `Attach` | the state lock, one system call at a time | `SidecarProofs` |
| `Observations` | the mod's two slots and pointer, and the sidecar that follows them | `ObservationsProofs` |

`MC<module>` extends each with the commands, modes or keys of the instance. Operators named
in a comment as a mutant are plausible bugs of the definition after them; `PROJECT.json`
says which property finds each.

### CommandQueue

`Cmd` are command identities; constants give the key each carries, whether it occupies the
character's queue, its deadline and whether it was built for another session. `submit`'s
gates are `RejectForeign`, `AnsweredWithoutWriting` (no state changes, so it is a guard of
the others), `RejectExpired` and `Ship`, in the code's order; `SendStop` skips them.
`Write` allocates the sequence number and may rotate the file first. `PollTerminalAck` and
`PollProgressAck` take any ack of any command ever written, with any sequence number, which
covers loss, redelivery, lateness and a game that numbers from zero again. `Restart` forgets
the memory and recovers the number from the live file, or the newest rotated one.

### Arming

One clock, two processes. The sidecar's tick is two actions: `BeginTick` latches the panic
file and the game's liveness, `EndTick` does everything the tick derives from them, as a
composition of `AfterStopLevers`, `AfterWatch` and `AfterControl` in the code's order. The
mod's `GameTick` is `Runtime.tick` up to the heartbeat; `GameCommand` then takes words from
the journal, and its ack may not be heard. `PlayerStops` and `GameEnds` are the takeover,
the panic key, death and a crash; `UserAsks` and `UserPanics` are the control file and
`panic.stop`. Only `session.arm` and `session.disarm` are in the journal. `grantor` is a
history variable: the process whose word put the mod into its mode.

Assumed: `ArmTimeout <= BeatTimeout` (both 5000 ms in the code); a game that crashed is not
back before its heartbeat is stale and the sidecar has noticed (guard of `GameStart`); a
person deletes the emptied panic file only when both sides are disarmed, since no code
deletes it. `ObservesAtOnce` says that an observation is stored before the first tick.

### ActionChannel

Every method holds the channel's lock for its whole body, so each is one action; the tick
thread is a walk of `pc` through them and the serving thread may step in between. The
serving thread's check of the attachment (`Call`) and its `submit` (`Admit`,
`AnswerWithoutAdmitting`) are two steps, because the port reads the loop's session before it
enters the channel. There is one request at a time: the RPC server serves one connection.
`_pending` is a set, since ids grow and it is only ever left from its head; the order of
`_records` is a stamp that grows when a record is added or moved to the end. What a request
asks for is abstracted, and the engine's result is any terminal one, or an exception.

### ModRuntime

The game is one thread, so the sidecar, the player and the clock act only at `pc = "idle"`;
a tick walks `BeginTick` (`reconcileSession`), `Step`, `Promote`, `Read` line by line,
`EndRead`, and the admission of each entry of the batch. `inflight` is the action slot;
`waiting` is `runtime.pending`, one place, as shipped (`MAX_PENDING = 1`). `memory.order` is
the reader's bounded list of remembered commands with the result of each; `memory.lost` is
history, the keys it evicted. `Finish` is `finish`: the result is remembered when its ack
was written, and the work is over either way. Adapters are the environment: they go on,
finish or fail at every call. `driven`, `open` and `begun` are history variables.

Abstractions: the lease of a command is the constant `Until`; `gate` stands for what else
`mayStart` looks at (danger, a silent sidecar, a takeover, which is never cleared in a
game); any command may be refused at admission (no adapter, no capability, an exception);
an arm is into a mode that may act (modes are `Arming`'s). A torn or corrupt line counts as
one that is not written yet, and a game loaded again, which forgets the memory, is not
modelled here (it is in `Arming`; what it does to the cursor is in `Journal`).

### Stream and Journal

`Stream` is the promise: a log of generations of records, and a reader that may move on only
when every record it leaves behind was delivered or is one it has been told it will not get.
`Journal` is the file. `stream` says which of the two it is, because the two ends differ:

| | writer | a full file is | reader | position |
|---|---|---|---|---|
| `"commands"` | `JournalWriter` (Python) | renamed away, a new one begun: `MarkRotated`, `MoveAway` or `MoveRefused`, `BeginFile` | `CommandReader.lua` | serial and lines: `SyncGeneration`, then `TakeLines` or `TakeNothing` |
| `"acks"` | `Ipc.lua` | begun again in place: `MarkRotated`, `MoveAway` (truncation) | `JournalReader` (Python) | serial and offset: `ProbeHeader`, then `Consume`; `SeekHeader`, `SeekSize` to the end |

Each open of the file is a step, so the writer acts between a reader's two opens. A writer
may die within a line (`WriterDies`) and come back (`OpenCommands`, `OpenAcks`); a reader may
restart. Lines have one size; a header is written whole; `log`, `at`, `got` and `gone` are
`Stream`'s variables, kept as history, so the refinement is `INSTANCE Stream WITH
Record <- 1..MaxRecords`.

`Faults` names what may go wrong beside crashes and refused opens. `"torn command"` and
`"torn ack"` are on in the run. `"reborn"`, `"unread"`, `"failed"` and `"unsynced"` are
windows in which the code does break the promise (section 5) and are off; a theorem says what
each has to do with it.

### Dispatch

The composition along the path of an action. The tick thread is in one place at a time:
`BeginTick` polls acks and runs the guard (`GuardSpeaks`: lease, stall, panic, an unsafe
world), `Start` enters the engine, and `Send`, `Poll`, `Judge` are its attempt, during which
nobody else reads acks. `Judge` has a disjunct for each way `_observe` goes on or ends, and
`EndAttempt` retries while the budget lasts. Commands that take no slot (`plan.cancel` the
engine withdraws with, disarms) are the asides, of which only the age of the oldest matters.
Ages stop at the value after which nothing depends on them. Not looked at: what the guard's
`cancels_mod_owned_queue` and `cancels_running_action` ask for, since the loop consumes
neither; the panic key, only the panic file.

### Goals

`queue` is the whole of `GoalQueue`: records, their order, digests of idempotency keys,
cancel requests. Submission, eviction, trimming, activation by rank, suspension and wall
budget, `tick`, panic, disarm, `Snapshot` and `Restored` are operators over it. The tick
thread walks `pc`: levers and gates, `TickGoals`, the one remote submission of the tick
(`TakeRemote`, `SettleRemote`), the goal served (`ServeGoal`), the arbiter (`StandDown`,
`Preempt`), the mission's step on the channel (`SubmitStep`), the flush. The serving thread's
`Submit`, `RequestCancel` and `SubmitAction` come in between. `Stop` and `Crash` end the
process at any step; `Adopt` is the next one's `restore`. A need that the arbiter injects has
a key made of the suspended goal, the trigger and a counter. `Kind` says which goals the
wrapper drives as missions and which it hands to the planner.

The queue's records count up to `_now`, its last reading of the clock; what has passed since is
`unread`. An operation that is given the time (`_tick_clock`) works on `TickClock`, the queue
with `unread` added to its ages; one that is not, `RequestCancel`, `ServeGoal` with a goal
already active, and `suspend` out of `Preempt` (the arbiter passes `now_ms=0`), works on
`queue` as it stands. So a remote drive (`Clock` at `"driving"`), which comes after the tick's
reading, is not in what the same tick's `suspend` banks. Two history variables keep
the account: `spent` is the active time of a goal, and `drive` what this tick's submission
took so far, which is added to `spent` at the end of the tick, unless the arbiter suspended
the goal meanwhile: then nobody counts it (section 5). In ASSISTED no goal is served, but the
planner is asked and the arbiter sees the observation (`AskPlanner`). The sweep may drop any of
the waiting submissions, since leases differ. `Adopt` leaves the file as it found it when the first flush,
or the renaming of a refused file, fails.

### Attach

`acquire` system call by system call: `Create` (O_EXCL), `Write`, `Confirm`, else
`ReadHolder`, `Judge` (the second reading of `_break_stale`), `Unlink`; `StopSidecar`,
`Release`, `RemoveOwn`. `Kill` ends a process anywhere; files belong to the process that
created them, so a write into a file that was removed is seen by nobody. `Unlink` and
`RemoveOwn` may be refused, as Windows refuses the removal of an open file; a release that
was refused leaves its record, which is as a kill would leave it. `refresh` has no caller, so records age.

### Observations

The mod's `game` handle walks `Begin`, `OpenSlot`, `FillSlot`, `OpenPointer`, `FillPointer`:
a file it writes is torn between opening and end, and a refused pointer is carried over for
`CommitBudget` ticks. The sidecar's read walks `Ask`, `ReadPointer`, `ReadSlot`, `Take`, and
the store is offered a baseline once. Games and sidecars end between any two steps, opens are
refused, writes fail. `astray` is history: the handle is wrong about what the pointer says
(a commit was dropped, or a lock hid the pointer when the handle first looked).

## 3. Properties

* `SlotIsTheOccupier`, `PendingBounded`, `SeqsIncrease`, `FirstResultStands`,
  `SlotFreedWithAnAnswer` (CommandQueue): backpressure, the table at its bound while a stop
  bypasses every gate, numbering across crashes and rotation, and answers never rewritten
  by late acks.
* `AuthorityWithdrawn`, `ArmedTogether`, `AuthorityIsOfTheSession`, `AskedOfThisProcess`,
  `PendingArmResolves` (Arming): what a disarmed sidecar shipped does not stand once the mod
  has read every word; an armed sidecar is in the mode the game is in; authority is of the
  open session; no process acts on a request left for an earlier one; a pending arm ends.
* `OneRecordPerKey`, `StoreBounded`, `LiveIsRemembered`, `AnswerIsFinal`,
  `StartedBeforeItsDeadline`, `EverySubmissionEnds` (ActionChannel).
* `HandedOutOnce`, `DrivenWithAuthority`, `StoppedStaysStopped`, `NothingVanishes` and the
  liveness property `WorkEnds` (ModRuntime).
* `Promise` (Journal implements Stream), `PassedLinesWereRead`: no line a reader has passed
  is one it was not shown; `RecordsAreAccountedFor`: each committed record is delivered, or
  told as lost, unless a writer's death spoilt its line or the files stop turning over.
* `NoneLeftBehind`: a command the mod has not answered is watched, or withdrawn;
  `SlotComesFree`, `GuardLetsGo`: neither the slot nor the guard's veto is for ever (Dispatch).
* `OpenKeysResolve`: the key of an open goal is never admitted twice, though records and
  digests are trimmed by two rules; `OverIsOver`: no process serves a goal whose record says
  it was started by an earlier one; `WallBudgetButDrives`: a goal's budget holds over all its
  activations, but for the remote drives of the ticks that suspended it, whose time the code
  loses (section 5); `OneStepInFlight`; `EveryGoalEnds` (Goals).
* `OneUnlessRobbed`, `RobbedWhenStaleOrRaced`, `NeverWedged` (Attach): one sidecar holds a
  lock it confirmed, a removal of a live lock has one of two causes, and a lock left behind
  never keeps the last sidecar out.
* `PointedIsWhole`, `BaselineIsOurs`, `ReadSeesTheCommitted`, `BaselineComes` (Observations).

Every module but `Stream` has a type invariant: proved where section 6 lists `TypeCorrect`
(`GoalTypes` and `LockTypesHold` in `SidecarProofs`). Those of `Journal` and
`ModRuntime` document the shapes and are part of no run; add `INVARIANT TypeOK` to
`Journal.cfg` or `ModRuntime.cfg` to check them.

## 4. Runs

State counts are distinct states, times are with two workers.

| run | module, configuration | checks | instance, and what it shows |
|---|---|---|---|
| `command_queue` | MCCommandQueue, CommandQueue.cfg | the five above | two occupying commands, a probe, a stop and a stranger; one restart, cache of two, table of one |
| `arming` | MCArming, Arming.cfg | the five above | two sidecar processes, two games, one request or panic, four ticks of the clock; about 3 minutes |
| `action_channel` | MCActionChannel, ActionChannel.cfg | the six above | three interchangeable keys taken in order, three records in a store of two, so eviction happens; two attachments |
| `mod_runtime` | MCModRuntime, ModRuntime.cfg | the four safety properties | four of seven commands in any order, two sessions, memory of two; 4.6 million states |
| `mod_runtime_ends` | MCModRuntime, ModRuntimeEnds.cfg | `WorkEnds` | holds although the clock may stand still; looks, disarms and both cancels included |
| `journal` | MCJournal, Journal.cfg | the three above | both streams, files of three records, polls of two, five records, three crashes, restarts or refused opens |
| `dispatch` | MCDispatch, Dispatch.cfg | the three above | two commands, two attempts, timers of one to three units, unbounded behaviours; 88 thousand states |
| `goals` | MCGoals, Goals.cfg | `TypeOK`, `OpenKeysResolve`, `OverIsOver` | three goals of two clients and a need, two open, two remembered, one restart; 1.3 million states |
| `goals_end` | MCGoals, GoalsEnd.cfg | `WallBudgetButDrives`, `OneStepInFlight`, `EveryGoalEnds` | a mission and a need that preempts it, a wall budget of two, a channel of two, one restart; 584 thousand states, 2 to 3 minutes |
| `attach` | MCAttach, Attach.cfg | the three above | two processes, two attempts each, a clock that passes the staleness bound three times; 318 thousand states |
| `observations` | MCObservations, Observations.cfg | the four above | two sessions, two ends of a process, two locks or failed writes, three documents of a game; one million states |
| `observations_blind` | MCObservations, ObservationsBlind.cfg | `WorldIsFollowed` | **violated** with no failure at all, section 5 |

**Deadlock.** `dispatch` and the runs of `Goals` check it. The other configurations say
`CHECK_DEADLOCK FALSE`, because their models stop when the bounds on clock, records, requests
or ends are used up, and because both programs may stop.

**State constraints.** `MCKeysInOrder` takes the interchangeable keys of `action_channel` in
one order; no action or property names a key, so this loses only renamings. `MCSomeoneIsLeft`
stops `arming` when the last process is gone, where no property says anything more.

**Why the bounds are enough.** Every table is as small as lets it overflow (table of one,
cache, store, memory and remembered goals of two, files of three records), so eviction,
trimming and rotation fire. Leases and timeouts are a unit or two and the clock reaches beyond
them, so each deadline is before, at and after every other event. One restart (two processes,
two games, two attachments) is what the properties speak of: they relate a process to one
earlier one; journals, locks and slots get two or three hazards, for a second crash in the
window of the first. Two lock processes are enough for the race, which is between a breaker
and a claimant. The safety theorems lift these bounds wherever section 6 has one.

**Fairness.** Only what the schedulers do is fair.

* The loop sleeps a fixed interval and ticks again, the game calls `OnTick`: weak fairness of
  a tick's steps (`BeginTick` and `EndTick`, `TickStep`, `Tick`, `Loop`, `Read`,
  `Offer \/ Publish`, `Poll`, `Rotation`), and of time (`Clock`, `Tick`) where the code
  depends on it. Nobody need ask, submit or disarm.
* `Goals` states that the tick thread makes steps for ever (`[]<><<TickThread>>_vars`, which
  is what a sleeping loop guarantees and which lets a restart intervene), and
  `SF_vars(ServeGoal)`: the gates of an autonomous loop open time and again. Under a guard
  that never lets go, a goal would wait for ever; that it does let go is `GuardLetsGo`.
* `Dispatch`: the mod answers a driven command, or its ack is lost (`WF`); an aside is
  answered unless `"aside"` acks are losable, strongly fair because the mod reads asides
  between others.
* `Attach`: a process within `acquire` goes on, and a user who was refused starts again.
* `mod_runtime_ends` does without a fair clock: the code counts polls that see no advance
  (`MAX_STALLED_POLLS`) because a paused game stops its clock.

## 5. Where the code and its documentation disagree

One disagreement is a run with a counterexample; `PROJECT.json` quotes the lines.

`observations_blind`: the sidecar's feed looks at the snapshots only until it has a baseline
(`CLI/runtime.py:489`), and the journal it reads afterwards carries safety events that the
store is never offered. The observations the mod commits after the first one are never seen.

The others were met while modelling. The models have these behaviours, and the properties are
stated so as to say what does hold beside them.

*Command queue and engine.*

* A redelivery whose lease lapsed while its first copy runs files `LEASE_EXPIRED` under the
  key, and the original result is not replayed afterwards (`CORE/ipc/queue.py:532`).
* A `QUEUE_REJECTED` the mod acks is remembered as the key's terminal answer (`queue.py:697`);
  the tracker's reset for a game that numbers its acks from zero has no caller
  (`queue.py:197`).
* The guard speaks for every expired command in the table, and the loop closes only the one in
  the slot (`CORE/safety/reflex.py:412`, `CLI/runtime.py:2716`): an aside whose ack is lost
  keeps the guard speaking, and the gates shut (`runtime.py:2971`), for good. `GuardLetsGo` is
  checked with asides that are answered (`Losable` is `{"driven"}`).
* `_act` uses the facts of the tick's start although a served action may have lasted long in
  between; a result of the engine and a later `lost` can both be on file for one command; a
  retry may find the slot taken by its own first attempt.

*Authority.*

* An arm into a second mode that times out disarms the game, and the sidecar goes on in the
  first mode. The run has one armable mode, and `ArmedTogether` fails with two.
* The mod clears `panic.stop` by emptying it (`MOD/Ipc.lua:598`); the sidecar asks whether the
  file exists, so the panic never ends for it. `clearTakeover` has no caller
  (`MOD/Safety.lua:189`): a takeover lasts until the game is loaded again.
* An arm abandoned because the game fell silent is not countermanded (`runtime.py:2118`); with
  `ObservesAtOnce = FALSE` this breaks `AuthorityWithdrawn`. A shutdown with only a pending
  arm sends no disarm (`runtime.py:1919`).

*Remote action channel.*

* The serving thread can admit a submission after `shutdown` emptied the channel
  (`runtime.py:1954`); it stays accepted. `EverySubmissionEnds` is stated of a loop that stays
  attached.
* The sweep's grace lets a submission past its lease be dispatched (`runtime.py:2489`); one
  made while disarmed runs if the same tick grants a pending arm first (`runtime.py:2965`).

*Mod.*

* A targeted cancel frees the slot in the middle of a batch, and the next command of the batch
  overtakes the one that waited (`MOD/ActionRuntime.lua:988`), against the comment that
  commands take turns.
* An expired redelivery replaces the result the mod remembers for the command; it does not run
  again for that (`HandedOutOnce`). A disarm and an arm in one batch leave work going.

*Journals.* Windows in which two files share a serial, or a report is lost: a reader without a
serial adopts the file's without resetting its cursor (`MOD/CommandReader.lua:412`, fault
`"unsynced"`); the mod starts at serial zero when it cannot open its journal (`Ipc.lua`,
`journalState`, `"unread"`), and so does a sidecar that died between the rename and the header
(`"reborn"`); a read error after the header was seen drops the report of the rotation
(`CommandReader.lua:496`, `"failed"`). Also: a torn command line is consumed as dropped and
the next process appends to it (exempted by `Spoilt`), and `rotate` closes its handle before a
rename that may be refused.

*Goals.*

* "The budget promise is max_wall_ms of ACTIVE time" (`CORE/goals/queue.py:587`), and a goal may
  be active for longer. `suspend` banks `_now - started_at` (`queue.py:580`) and reads no clock:
  the arbiter passes `now_ms=0`, "your own last reading stands" (`CLI/arbiter.py:376`). The last
  reading is normally the one of `_tick_goals` (`CLI/runtime.py:2522`), before
  `_serve_remote_action` (2526) drove the mission's step, perhaps for long, and
  `_goal_to_serve` does not read for a goal that is active already. With a budget of three: a
  goal is active for one unit; the next tick drives its step for another and suspends it with one
  banked; activated again, it is active for a third, and a tick lets it live with two on its
  record. Each suspension can lose one such drive. The model does what the code does, and
  `WallBudgetButDrives` says that nothing else is lost. To see the promise itself broken, count
  the drive in `Preempt` (`spent' = Spending(drive)` beside `drive' = 0`) and give
  `GoalsEnd.cfg` `Wall = 3`: TLC then finds `WallBudgetButDrives` violated.
* The arbiter suspends the goal the tick has already chosen, and the planner steps it
  (`CLI/navigation_planner.py:1034`, against the comment two lines above); `note_step` may
  then raise.
* The snapshot the queue itself writes can be refused by `restore` ("reuses one idempotency
  digest", `CORE/goals/queue.py:898` against `queue.py:274`), so a process comes up without
  its goals. That no open rank is below `-max_open` (`queue.py:928`) is not so.
* Cancel requests live in memory and are lost by a crash or shutdown before the next tick. A
  crash during a goal's first action leaves it pending on disk, and it is served again. A goal
  submitted after shutdown's flush is told admitted and is not on disk.
* A suspended goal waits after a restart until the loop is armed in AUTONOMOUS. The arbiter's
  counter is not persisted. A channel step of a goal that was cancelled or suspended is
  dispatched all the same. A wall clock stepping back makes `activate_next` raise.

*Lock.* `_break_stale` removes a lock that was filled after its second reading
(`CORE/session/lock.py:290` against lines 21-23), so two sidecars attach; and since `refresh`
has no caller, any lock is stale after 15 s (`lock.py:11`). `OneUnlessRobbed` and
`RobbedWhenStaleOrRaced` say that these are the only two ways.

*Observations.* "The pointer can never name a slot whose write failed" (`Ipc.lua`) is not so
after a dropped commit, or after a lock hid the pointer at the first publication (`astray`).
The mod numbers observations per game process, not per session as `snapshot.py` and the tests
say, so a game loaded again into the same session starts over, and the fallback over both
slots may take the dead game's higher number.

## 6. What is proved

All theorems are `Spec => []Inv`, `Spec => [][A]_vars` or a refinement, for every value of the
constants that meets the named assumptions, whatever the bounds on clock, processes, records
or requests.
Every safety property of a passing run is the statement of a theorem, three of them
(`PassedLinesWereRead`, `AuthorityWithdrawn`, `ArmedTogether`) and the refinement under a named
hypothesis that is given with them.

**CommandQueueProofs** (`CmdAssumption`, `BoundAssumption`). `TypeCorrect`, `Backpressure`,
`PendingStaysBounded`, `SequenceNumbersAreNeverReused`, `AnswersAreNotRewritten`,
`SlotsLeaveAnswers`. Sequence numbers need to know what the journal looks like:
`JournalInv` says that the live and the newest rotated file are adjacent runs of it and the
rotated one is not empty, that sessions succeed one another along it, and that the next number is above every one the current session committed. Without the first,
recovery from an empty live file could miss the last number. The action properties need
`AnswersInv`: the cache holds one entry per key. With it, `Remembered` keeps every entry that
it does not evict, and a command that leaves the slot leaves its entry as the newest.

**ArmingProofs** (`ModeAssumption`, `TimeAssumption`). `TypeCorrect`,
`AuthorityFollowsTheSession`, `NeverRearmsItself`. Lemmas follow a tick through its
composition: the levers and the watch append no arm, so an arm in the journal's new last
place came from the control file, whose request is fresh, hence of this process.

`GivenUpIsWithdrawn` (`AuthorityWithdrawn`, for any modes) assumes `ObservesAtOnce`, without
which it is false (section 5). Its invariant is a ledger kept by both programs. `Accounted`:
every arm of the running process is waited for, or stands, or was followed by a disarm, or is
`Spent`: refused, and no game can take it up any more, because its lease ended or because the
game that refused it has published a heartbeat after it was shipped. `GrantInv`: a mod that is
in a mode has read the arm that put it there and no disarm of its session since, and if the
sidecar was told that this arm was refused (a new game read it again), the sidecar has shipped
a disarm after it. A tick is a composition of three stages and each is one of the five `Moves`
on mode, pending arm and journal, so the ledger is checked once per move and not once per path
through the tick. `TimeAssumption` (an arm's lease is not longer than the time after which a
heartbeat counts as silence) is what makes an arm spent when another game starts.

`GrantedArmStands`, for any modes: while a sidecar is armed or waits, and there is no panic, a
game that granted its last word is where that word put it and has read nothing after it.
`SidesAgree` (`ArmedTogether`) follows when there is one mode to arm into (`OneMode`), because
an armed sidecar then ships no second arm; with two modes `ArmedTogether` is false (section 5),
and `GrantedArmStands` says what is left of it.

**ActionChannelProofs** (`ChannelAssumption`, `ModelAssumption`). `TypeCorrect`,
`StoreStaysBounded`, `LiveWorkIsNeverForgotten`, `KeysAreNotReused`, `AnswersAreFinal`,
`NothingOverdueIsStarted`. The inductive invariant: the waiting submissions are exactly the
accepted records and at most `max_pending`; at most one record is driven, none between
drives; the key of every remembered record leads to it; live records are remembered. The
store fits because what may not be evicted, `max_pending` waiting and one driven, fits below
`max_remembered`: this is where the constructor's `max_remembered > max_pending` is used.

**ModRuntimeProofs** (`RuntimeAssumption`). `Authority`, `StopsHold`, `NoWorkLost`,
`BegunOnceOnly`. The inductive invariant of the first three adds: where the tick is tells what
the slot and the batch hold; what the reader handed out was checked at this very tick (`CheckedOnRead`: the clock and the session
do not move within a tick); and stopped work is only ever met disarmed and before a line is
read (`StopInv`), so an arm read later in the tick finds none of it left. The last is why the
order step, promote, read matters. `BegunOnceOnly` rests on `KeyInv`: the key of a line that
was handed out is borne by an entry of the mod's memory or was evicted (`lost`, history), and
work in the slot, waiting or in the batch of this tick was handed out once. What a tick
finishes is written to the memory in at most three places, so `Finish` is a composition of
three and not a fold.

**JournalProofs** (`JournalAssumption`, and `SerialsTell` as a hypothesis). `StreamIsKept`:
`Journal` implements `Stream`, for both journals, with any number of crashes, torn lines,
restarts and refused opens; `NothingPassedUnsaid` is its inductive half as an invariant. The
argument: the live file is the log's last generation and its serial counts the generations
before it (`FileInv`), so equal serials mean the same file and a different one is told of; a
reader in the middle of a poll stands, or will stand, where its serial says (`PlaceInv`); the
records it leaves are delivered or reported (`PassedInv`). `SerialsTell` excludes `"reborn"`,
`"unread"` and `"failed"`. It does not exclude `"unsynced"`, which breaks
`PassedLinesWereRead` but not the promise, because the reader was told. `PassedWereRead`
(`PassedLinesWereRead`) assumes `PlacesTell`, which is `SerialsTell` without `"unsynced"`: a
reader then has a place only in a file whose header it has seen. Its invariant follows a poll
line by line: what stands before the reader's place in the live file, or before the place a
poll has come to, was delivered, told of, or spoilt; a fragment can only be the last line, so a
line that is read whole is what was appended.

**DispatchProofs** (`DispatchAssumption`). `TypeCorrect` and `NothingIsLeftBehind`, for any
timers and any number of attempts. Beside the types it needs `ApartInv`: commands the mod has
yet to answer are not among those it has answered, and a claim of success means that the
watched command was answered, which is why the branches that end after a claim withdraw
nothing.

**SidecarProofs** is about two modules, whose names are kept apart for it: `Attach`, with
`LockSpec`, and `Goals`, with `Spec`.

Of `Goals` (`GoalsAssumption`, any clients, triggers and bounds): `GoalTypes`,
`RepeatedKeysFindTheirGoal`, `DeadGoalsStayDead`, `BudgetsAreKept`, `StepsGoOneByOne`, all from
`GoalsInductive`, which has four parts; TLC finds the last three kept in the instances of
both runs too.

* `QueueInv` is what the queue, its file, and the loop's mode have in common. `QueueOK` says that
  the order lists exactly the remembered goals, once each, that no key and no id has two
  digests, and that each open goal has its own. This is `OpenKeysResolve` made inductive:
  records and digests are trimmed by two rules, and each finds something that is not open to
  let go only because `MaxOpen <= MaxRemembered` and nothing is listed twice.
* `OverInv`: what is over is not open, is not served, and does not wait in the file that a next
  process would restore.
* `SpentInv` is the account of a goal's active time, the lost drives aside. With the drive under way
  added (`Owed`), it is at most what `suspend` would bank after a reading of the clock; from the
  tick's reading to the arbiter's turn (`Early`), it is at most what `suspend` banks without one, which
  is why only the drive of a suspending tick is lost and not also the sleep before it; and while
  no process runs it is at most what the file has banked.
* `FlightInv`: each goal is at most once in the channel or in the engine's hands, and an open
  one that is there lives and has a drive that waits. Without the drive, a goal that is
  suspended and resumed could send again what is still queued.

Every operation is shown to keep `QueueOK` and to be an evolution (`Evolves`): an open goal is
new, or was open before, has lost none of its active time, and lives if it lived. Steps then
need only their own lines. Time is the one step that is not of this kind, and has a section of
its own. `TerminateAll` recurs over a sequence; instead of induction over data, which is out of
reach, its value is found at the least index at which it would be wrong (`Least`, by the
well-foundedness of `<` on the naturals). Restoring a file, the last process's or an older
one, is where the file's own invariant is used: `restore` refuses what holds two records of one key.

Of `Attach` (`AttachAssumption`, any number of processes): `LockTypesHold`,
`AtMostOneKeepsItsLock`, `RobbedForAReason`. `HoldersHold`: who is attached and not robbed is
the one the lock's record names. A removal by a breaker robs the process it names, and the
history `judged` says what the second reading saw.

**ObservationsProofs** (`ObservationsAssumption`). `TypeCorrect`, `PointerNamesWholeSlots`,
`BaselineOfThisSession`, `ReadsSeeTheCommitted`. `PubInv`: a slot a commit is owed to, or is being made to,
is whole, and a handle that is right about the pointer is on its way to the other slot. `FeedInv`: what
the sidecar met in the slots is of its session, which is checked when it reads a document and
not when it takes one. `ReadsSeeTheCommitted` adds that one of the slots stays still: the
document that was committed when the read began is in a slot that the next publication does
not write to, so until a second one begins either that slot holds it or the pointer already
names a newer one, and the fallback over both slots finds no less.

Only model-checked: every liveness property (`PendingArmResolves`, `EverySubmissionEnds`,
`WorkEnds`, `RecordsAreAccountedFor`, `SlotComesFree`, `GuardLetsGo`, `EveryGoalEnds`,
`NeverWedged`, `BaselineComes`), since ENABLED and fairness are out of the prover's reach.

## 7. Not modelled, and why

The map covers about five per cent of the implementation's lines, and what remains is for
the most part not made of control. Of the 105 thousand lines most turn data into data (the
MCP catalogue, models and validation, policies, combat and loot, routes and the local map,
diff and compaction, knowledge), talk to the outside (capability probes, discovery of
installations, network clients, audio), or read and print (CLI commands, live-test scenarios,
scripts). They keep no state that two actors share and have no order of steps that a property
could be about; a model of them would restate the code. Adapters of the mod call the game's
API, which is not in the repository. What has control of its own and is left out:

* The planner's `PlanExecutor` has no production caller.
* The MCP server's cache of replies by key: one process that serves one request at a time, in
  front of the channel that keeps the keys (`ActionChannel`).
* Voice: a conversation state machine and an utterance queue in a process of their own. They
  reach the loop through the goal port, whose other side is `Goals`.
* The supervisor's pid record, which parent and child both claim. The lock under it is
  `Attach`, the control file is in `Arming`.
* `SnapshotWriter` (Python) is used by tests only; the reader's rewind guard and the store's
  gap rules have nothing to compare as shipped, since the store is offered one observation.
* The command journal's numbering and the queue's are in two modules: no module composes
  `CommandQueue` with the ack stream, so the hazard of acks numbered from zero has no
  property. Likewise a submission that meets a grant (`Arming` with `ActionChannel`), and a
  panic raised and removed between two ticks. `PROJECT.json` lists these hazards with a note.

What could come next, in this order: an abstract `Authority` that `Arming` implements;
`CommandQueue` over `Journal`'s ack stream; a composition of `Arming` with `ActionChannel`;
the voice conversation and the pid record.
