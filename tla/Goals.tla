--------------------------------- MODULE Goals ---------------------------------
(***************************************************************************)
(* The typed goal channel: GoalQueue (pz_agent_core/goals/queue.py), its   *)
(* file (goals/persistence.py), the part of SidecarLoop's tick that serves *)
(* it (pz_agent_cli/runtime.py), and the wrapper that drives the goals the *)
(* project serves without a planner (navigation_planner.py) together with  *)
(* the needs arbiter (arbiter.py), which suspends one goal for another.    *)
(*                                                                         *)
(* Two threads share the queue under goal_lock.  The serving thread        *)
(* submits goals, asks for cancels and submits remote actions at any time; *)
(* the tick thread does everything else, and holds the lock for one of the *)
(* steps below at a time.  A wrapped goal acts through the remote action   *)
(* channel, one step at a time, and the loop takes one submission per tick *)
(* before it asks the planner for anything; see ActionChannel for the      *)
(* records of that channel.                                                *)
(*                                                                         *)
(* A goal is its id; ids are given out in order and never again.  The      *)
(* queue's records count their times up to its last reading of the clock:  *)
(* what has passed since is unread, and not every operation reads.  Ages   *)
(* and budgets stop where they are spent.                                  *)
(***************************************************************************)
EXTENDS Integers, FiniteSets, Sequences, SequencesExt

CONSTANTS
    Key,                \* idempotency keys of clients
    Trigger,            \* needs that may preempt; each has a kind of goal
    Kind,               \* of each client's goal: a need's, "mission" or "planned"
    MaxGoals,           \* bound: ids given out
    MaxOpen,            \* max_open
    MaxRemembered,      \* max_remembered
    MaxSuspensions,     \* MAX_SUSPENSIONS_PER_GOAL
    Wall,               \* budget.max_wall_ms
    Ttl,                \* budget.pending_ttl_ms
    MaxSteps,           \* budget.max_steps
    MaxPending,         \* max_pending of the remote action channel
    MaxInjections,      \* bound: injections of one process
    MaxRestarts         \* bound: crashes and stops

ASSUME GoalsAssumption ==
    /\ {MaxGoals, MaxOpen, MaxRemembered, Wall, Ttl, MaxSteps, MaxPending} \subseteq Nat \ {0}
    /\ {MaxSuspensions, MaxInjections, MaxRestarts} \subseteq Nat
    /\ MaxOpen <= MaxRemembered
    /\ Kind \in [Key -> Trigger \cup {"mission", "planned"}]

VARIABLES
    queue,      \* GoalQueue: its records, their order, its digests, its cancels
    unread,     \* the time since its last reading of the clock, GoalQueue._now
    minted,     \* ids given out
    mode,       \* SidecarLoop._mode while armed, "off" while not
    pc,         \* where the tick thread is
    serving,    \* the goal handed to the planner in this tick, or Nobody
    channel,    \* ActionChannel._pending: the goal each submission is for
    taking,     \* the submission the engine is driving
    step,       \* what each drive knows of its step on the channel
    arbiter,    \* NeedsArbiter: the goal it injected, and its counter
    disk,       \* goals.json: records and order
    restarts,   \* bound
    spent,      \* history: how long each goal has been active, but for the drives of
                \* the ticks that suspended it
    drive,      \* history: how long this tick has driven a submission
    over        \* history: goals a later process may not serve

vars == <<queue, unread, minted, mode, pc, serving, channel, taking, step, arbiter, disk,
          restarts, spent, drive, over>>
goals == <<queue, unread>>
remote == <<channel, taking, step>>
history == <<spent, drive, over>>

Goal == 1..MaxGoals
Nobody == 0                 \* no goal; in channel, a submission of a client
NoKey == <<>>
NoGoal == [state |-> "none", key |-> NoKey, front |-> 0, age |-> 0, banked |-> 0,
           run |-> 0, parked |-> FALSE, turns |-> 0, steps |-> 0]

\* The arbiter's key for its n-th injection, over the goal that was active.
InjectionKey(original, trigger, n) == <<original, trigger, n>>
KindOf(k) == IF k \in Key THEN Kind[k] ELSE k[2]

Smaller(a, b) == IF a < b THEN a ELSE b

\* No budget is longer: a bound of the model.
Horizon == IF Wall < Ttl THEN Ttl ELSE Wall

\* A record when more time has passed: a suspended goal does not age.
Aged(r, t) ==
    CASE r.state = "pending" /\ ~r.parked -> [r EXCEPT !.age = Smaller(@ + t, Ttl)]
      [] r.state = "active" -> [r EXCEPT !.run = Smaller(@ + t, Wall)]
      [] OTHER -> r

Later(f, t) == [f EXCEPT !.goal = [g \in Goal |-> Aged(@[g], t)]]

\* _tick_clock: the queue when it has read the clock.
TickClock == Later(queue, unread)

-----------------------------------------------------------------------------
(* The queue's own operations, from one value of it to the next.           *)

Fresh == [goal |-> [g \in Goal |-> NoGoal], order |-> <<>>, digests |-> <<>>, cancel |-> {}]

In(q, s) == {g \in Goal : q.goal[g].state = s}
Open(q) == In(q, "active") \cup In(q, "pending")
Parked(q) == {g \in In(q, "pending") : q.goal[g].parked}

\* The oldest finished record goes when there are too many.
Evicted(q) ==
    LET i == SelectInSeq(q.order, LAMBDA g : q.goal[g].state = "ended") IN
    IF Len(q.order) <= MaxRemembered \/ i = 0 THEN q
    ELSE [q EXCEPT !.goal[q.order[i]] = NoGoal, !.order = RemoveAt(@, i)]

Remember(q, g, r) ==
    Evicted([q EXCEPT !.goal[g] = r, !.order = Append(RemoveFirst(@, g), g)])

\* Mutant of Trimmed: the oldest digest goes, whatever became of its goal.
TrimmedBlindly(digests, goal) ==
    IF Len(digests) <= MaxRemembered THEN digests ELSE Tail(digests)

\* The oldest digest whose goal is not open goes when there are too many.
Trimmed(digests, goal) ==
    LET i == SelectInSeq(digests, LAMBDA d : goal[d.id].state \notin {"pending", "active"}) IN
    IF Len(digests) <= MaxRemembered \/ i = 0 THEN digests ELSE RemoveAt(digests, i)

Terminate(q, g) ==
    [Remember(q, g, [NoGoal EXCEPT !.state = "ended", !.key = q.goal[g].key])
        EXCEPT !.cancel = @ \ {g}]

\* One after the other.
TerminateAll(q, gs) ==
    LET after[i \in 0..Len(gs)] == IF i = 0 THEN q ELSE Terminate(after[i - 1], gs[i])
    IN  after[Len(gs)]

\* A rank below every waiting one.
NextFrontRank(q) ==
    LET ranks == {0} \cup {q.goal[g].front : g \in In(q, "pending")}
    IN  (CHOOSE r \in ranks : \A s \in ranks : r <= s) - 1

Without(digests, k) == RemoveFirstMatch(digests, LAMBDA d : d.key = k)

\* A key whose goal is remembered resolves to it.  A key submitted with other
\* content is refused; so is a goal when max_open are open, which forgets the
\* key's digest if its goal is not remembered any more.
Resolves(q, k) == {d \in Range(q.digests) : d.key = k /\ q.goal[d.id].state # "none"}
AsDuplicate(q, k) ==
    [q EXCEPT !.digests = Append(Without(@, k), CHOOSE d \in Resolves(q, k) : TRUE)]
AsRefused(q, k) == [q EXCEPT !.digests = Without(@, k)]

\* Mutant of HasRoom: the cap is passed by one.
RoomForOneMore(q) == Cardinality(Open(q)) <= MaxOpen

HasRoom(q) == Cardinality(Open(q)) < MaxOpen
Admitted(q, g, k, front) ==
    LET p == Remember(q, g, [NoGoal EXCEPT !.state = "pending", !.key = k, !.front = front])
    IN  [p EXCEPT !.digests = Trimmed(Append(Without(@, k), [key |-> k, id |-> g]), p.goal)]

\* activate_next: the front of the backlog, of the goals nobody has withdrawn.
Startable(q) == In(q, "pending") \ q.cancel
Ahead(q, g, h) ==
    \/ q.goal[g].front < q.goal[h].front
    \/ q.goal[g].front = q.goal[h].front /\ g <= h
Backlog(q, gs) ==
    CHOOSE s \in SetToSeqs(gs) : \A i, j \in DOMAIN s : i < j => Ahead(q, s[i], s[j])
FrontGoal(q) == CHOOSE g \in Startable(q) : \A h \in Startable(q) : Ahead(q, g, h)
Activated(q, g) ==
    Remember(q, g, [q.goal[g] EXCEPT !.state = "active", !.run = 0, !.parked = FALSE,
                                     !.front = 0, !.age = 0])

\* The active time suspend writes down: up to the last reading.
Bank(r) == Smaller(r.banked + r.run, Wall)

MaySuspend(q, g) == g \notin q.cancel /\ q.goal[g].turns < MaxSuspensions
Suspended(q, g) ==
    LET r == q.goal[g] IN
    Remember(q, g, [r EXCEPT !.state = "pending", !.parked = TRUE, !.turns = @ + 1,
                             !.banked = Bank(r), !.run = 0, !.front = NextFrontRank(q)])

\* Mutant of Overdue: the deadline is taken from the last activation.
OverdueAnew(q) == {g \in In(q, "active") : q.goal[g].run >= Wall}

\* What tick ends: what was withdrawn, then what ran or waited too long.  A
\* suspended goal does not age.
Overdue(q) == {g \in In(q, "active") : q.goal[g].banked + q.goal[g].run >= Wall}

\* Mutant of Stale: what is at the front of the backlog is taken for suspended.
StaleBehind(q) == {g \in In(q, "pending") : q.goal[g].front = 0 /\ q.goal[g].age >= Ttl}

Stale(q) == {g \in In(q, "pending") \ Parked(q) : q.goal[g].age >= Ttl}
Ticked(q, withdrawn) ==
    LET heard == [TerminateAll(q, withdrawn) EXCEPT !.cancel = {}]
        timed == TerminateAll(heard, SetToSeq(Overdue(heard)))
    IN  TerminateAll(timed, Backlog(timed, Stale(timed)))

\* Cancels are heard in the order of the goals' names, which are random.
Withdrawals(q) == SetToSeqs(q.cancel \cap Open(q))

Disarmed(q) == TerminateAll(q, SetToSeq(In(q, "active")) \o Backlog(q, Parked(q)))
Panicked(q) ==
    LET byId == CHOOSE s \in SetToSeqs(Open(q)) : \A i, j \in DOMAIN s : i < j => s[i] < s[j]
    IN  TerminateAll([q EXCEPT !.cancel = {}], byId)

\* note_step, of an active goal.
Stepped(q, g) ==
    LET r == [q.goal[g] EXCEPT !.steps = @ + 1]
        p == Remember(q, g, r)
    IN  IF g \in q.cancel \/ r.steps = MaxSteps THEN Terminate(p, g) ELSE p

-----------------------------------------------------------------------------
(* The file.                                                               *)

\* What is written of a goal that is active does not count: see Restored.
Snapshot(q) ==
    [goal |-> [g \in Goal |-> IF q.goal[g].state = "active"
                              THEN [NoGoal EXCEPT !.state = "active", !.key = q.goal[g].key]
                              ELSE q.goal[g]],
     order |-> q.order]

\* What restore takes: no more waiting goals than max_open, no key twice.
Restorable(f) ==
    /\ Cardinality(In(f, "pending")) <= MaxOpen
    /\ \A g, h \in Range(f.order) : f.goal[g].key = f.goal[h].key => g = h

RestoredDigests(f) ==
    [i \in DOMAIN f.order |-> [key |-> f.goal[f.order[i]].key, id |-> f.order[i]]]

\* Mutant of RestoredState: the goal that was active takes its place again.
WaitsAgain(s) == IF s = "active" THEN "pending" ELSE s

\* The goal that was active has failed: nobody saw how far it got.
RestoredState(s) == IF s = "active" THEN "ended" ELSE s

Restored(f) ==
    [goal |-> [g \in Goal |-> [f.goal[g] EXCEPT !.state = RestoredState(@)]],
     order |-> f.order, digests |-> RestoredDigests(f), cancel |-> {}]

-----------------------------------------------------------------------------
(* The remote action channel, as the goals see it.                         *)

\* The submissions for these goals are answered.
Told(gs) == [g \in Goal |-> IF g \in gs /\ step[g] = "waiting" THEN "told" ELSE step[g]]

\* clear_pending
ChannelCleared == channel' = <<>> /\ step' = Told(Range(channel)) /\ UNCHANGED taking

\* sweep: any submissions may have outlived their leases; the others keep their
\* order, each coming from a place further on.
Swept ==
    \E n \in 0..Len(channel) : \E place \in [1..n -> DOMAIN channel] :
        /\ \A i, j \in 1..n : i < j => place[i] < place[j]
        /\ channel' = [i \in 1..n |-> channel[place[i]]]
        /\ step' = Told({channel[i] : i \in DOMAIN channel \ Range(place)})
        /\ UNCHANGED taking

\* _prune: a drive dies with its goal, and is kept while the goal is parked.
Lives(q, g) == g \in In(q, "active") \cup Parked(q)
Pruned(q, st) == [g \in Goal |-> IF Lives(q, g) THEN st[g] ELSE "none"]

-----------------------------------------------------------------------------
(* The serving thread.                                                     *)

Up == pc # "down"

Submit(k) ==
    /\ Up /\ unread' = 0
    /\ IF Resolves(queue, k) # {} THEN queue' = AsDuplicate(TickClock, k) /\ UNCHANGED minted
       ELSE IF ~HasRoom(queue) THEN queue' = AsRefused(TickClock, k) /\ UNCHANGED minted
       ELSE /\ minted < MaxGoals /\ minted' = minted + 1
            /\ queue' = Admitted(TickClock, minted', k, 0)
    /\ UNCHANGED <<mode, pc, serving, remote, arbiter, disk, restarts, history>>

RequestCancel(g) ==
    /\ Up /\ g \in Open(queue)
    /\ queue' = [queue EXCEPT !.cancel = @ \cup {g}]
    /\ UNCHANGED <<unread, minted, mode, pc, serving, remote, arbiter, disk, restarts, history>>

\* A client submits a remote action of its own.
SubmitAction ==
    /\ Up /\ Len(channel) < MaxPending
    /\ channel' = Append(channel, Nobody)
    /\ UNCHANGED <<goals, minted, mode, pc, serving, taking, step, arbiter, disk, restarts,
                   history>>

-----------------------------------------------------------------------------
(* The tick.                                                               *)

\* The sweep and the levers: guard, panic and control may leave authority as it
\* is, park the active goal for a takeover, disarm, empty the channel of goals,
\* or grant a mode.
BeginTick ==
    /\ pc = "idle" /\ pc' = "ticking"
    /\ \/ Swept /\ UNCHANGED <<goals, mode>>
       \/ /\ Swept /\ UNCHANGED <<mode, unread>>
          /\ queue' = [queue EXCEPT !.cancel = @ \cup In(queue, "active")]
       \/ ChannelCleared /\ mode' = "off" /\ queue' = Disarmed(TickClock) /\ unread' = 0
       \/ ChannelCleared /\ mode' = "off" /\ queue' = Panicked(TickClock) /\ unread' = 0
       \/ Swept /\ mode' \in {"assisted", "autonomous"} \ {mode} /\ UNCHANGED goals
    /\ UNCHANGED <<minted, serving, arbiter, disk, restarts, history>>

\* _tick_goals
TickGoals ==
    /\ pc = "ticking" /\ pc' = "remote"
    /\ \E withdrawn \in Withdrawals(queue) : queue' = Ticked(TickClock, withdrawn)
    /\ unread' = 0
    /\ UNCHANGED <<minted, mode, serving, remote, arbiter, disk, restarts, history>>

\* _serve_remote_action: nothing waits, or a gate is closed.
PassRemote ==
    /\ pc = "remote" /\ pc' = "act"
    /\ IF mode = "off" THEN ChannelCleared ELSE UNCHANGED remote
    /\ UNCHANGED <<goals, minted, mode, serving, arbiter, disk, restarts, history>>

\* It takes the oldest submission, and the engine drives it to its end.
TakeRemote ==
    /\ pc = "remote" /\ mode # "off" /\ channel # <<>> /\ pc' = "driving"
    /\ taking' = Head(channel) /\ channel' = Tail(channel)
    /\ UNCHANGED <<goals, minted, mode, serving, step, arbiter, disk, restarts, history>>

SettleRemote ==
    /\ pc = "driving" /\ pc' = "act"
    /\ step' = Told({taking}) /\ taking' = Nobody
    /\ UNCHANGED <<goals, minted, mode, serving, channel, arbiter, disk, restarts, history>>

\* _act: a gate is closed, or nothing is armed.
Decline ==
    /\ pc = "act" /\ pc' = "flush"
    /\ UNCHANGED <<goals, minted, mode, serving, remote, arbiter, disk, restarts, history>>

\* In ASSISTED the planner is asked for its own initiative: propose.
AskPlanner ==
    /\ pc = "act" /\ mode = "assisted" /\ pc' = "arbiter"
    /\ UNCHANGED <<goals, minted, mode, serving, remote, arbiter, disk, restarts, history>>

\* _goal_to_serve: the clock is read only to activate what waits.
ServeGoal ==
    /\ pc = "act" /\ mode = "autonomous" /\ pc' = "arbiter"
    /\ IF In(queue, "active") # {} THEN serving' \in In(queue, "active") /\ UNCHANGED goals
       ELSE IF In(queue, "pending") = {} THEN serving' = Nobody /\ UNCHANGED goals
       ELSE /\ unread' = 0
            /\ IF Startable(queue) = {} THEN serving' = Nobody /\ queue' = TickClock
               ELSE serving' = FrontGoal(queue) /\ queue' = Activated(TickClock, serving')
    /\ UNCHANGED <<minted, mode, remote, arbiter, disk, restarts, history>>

-----------------------------------------------------------------------------
(* The needs arbiter, which sees the observation before the planner does.  *)

\* The goal it injected has ended, or is forgotten.
ArbiterFree == arbiter.injected = Nobody \/ arbiter.injected \notin Open(queue)

\* No need crosses its threshold, or the arbiter stands down.
StandDown ==
    /\ pc = "arbiter" /\ pc' = "propose"
    /\ arbiter' = [arbiter EXCEPT !.injected = IF ArbiterFree THEN Nobody ELSE @]
    /\ UNCHANGED <<goals, minted, mode, serving, remote, disk, restarts, history>>

\* submit_front, into q, which has room.
Inject(q, key) ==
    IF Resolves(q, key) # {}
    THEN /\ queue' = AsDuplicate(q, key)
         /\ arbiter' = [injected |-> (CHOOSE d \in Resolves(q, key) : TRUE).id, made |-> key[3]]
         /\ UNCHANGED minted
    ELSE /\ minted < MaxGoals /\ minted' = minted + 1
         /\ queue' = Admitted(q, minted', key, NextFrontRank(q))
         /\ arbiter' = [injected |-> minted', made |-> key[3]]

\* A need crosses its threshold: _preempt.  Nothing in it reads the clock, so what
\* this tick has driven so far is never banked for the goal it suspends.
Preempt(trigger) ==
    /\ pc = "arbiter" /\ pc' = "propose"
    /\ ArbiterFree /\ HasRoom(queue) /\ arbiter.made < MaxInjections
    /\ \A a \in In(queue, "active") : KindOf(queue.goal[a].key) # trigger
    /\ \/ /\ In(queue, "active") = {}
          /\ Inject(queue, InjectionKey(Nobody, trigger, arbiter.made + 1))
          /\ UNCHANGED drive
       \/ \E a \in In(queue, "active") :
            IF MaySuspend(queue, a)
            THEN /\ Inject(Suspended(queue, a), InjectionKey(a, trigger, arbiter.made + 1))
                 /\ drive' = 0
            ELSE /\ arbiter' = [injected |-> Nobody, made |-> arbiter.made + 1]
                 /\ UNCHANGED <<queue, minted, drive>>
    /\ UNCHANGED <<unread, mode, serving, remote, disk, restarts, spent, over>>

-----------------------------------------------------------------------------
(* The wrapper: propose_for_goal, after the arbiter.                       *)

\* Served by the wrapper's own missions and journeys.
Wrapped(g) == KindOf(queue.goal[g].key) # "planned"

\* The drives that live, where the one of serving knows s.
Drives(s) ==
    [g \in Goal |-> IF ~Lives(queue, g) THEN "none" ELSE IF g = serving THEN s ELSE step[g]]

Proposing == pc = "propose" /\ UNCHANGED <<minted, mode, serving, taking, arbiter, disk,
                                           restarts, history>>

\* Nothing to serve, a record that is not active, a drive that waits, or a
\* mission or a planner with nothing to ask for.
ProposeNothing ==
    /\ Proposing /\ pc' = "flush"
    /\ step' = Pruned(queue, step)
    /\ UNCHANGED <<goals, channel>>

\* Mutant of MayStep: the drive's step on the channel is forgotten.
StepsAnyway(g) == Wrapped(g) /\ queue.goal[g].state = "active"

\* A wrapped goal is asked for its next step: its record is active and nothing
\* of it is on the channel.
MayStep(g) == Wrapped(g) /\ queue.goal[g].state = "active" /\ step[g] # "waiting"

\* An intermediate step goes to the remote action channel.
SubmitStep ==
    /\ Proposing /\ serving # Nobody /\ MayStep(serving) /\ Len(channel) < MaxPending
    /\ pc' = "flush"
    /\ channel' = Append(channel, serving) /\ step' = Drives("waiting")
    /\ UNCHANGED goals

\* The mission or journey is complete or refused, its step was lost, or could
\* not be admitted.
FinishGoal ==
    /\ Proposing /\ serving # Nobody /\ MayStep(serving)
    /\ pc' = "flush"
    /\ queue' = Terminate(TickClock, serving) /\ unread' = 0 /\ step' = Pruned(queue', step)
    /\ UNCHANGED channel

\* A final leg or a probe, or whatever the planner asks for: it goes to the
\* engine, in the goal's name if one is served.
ProposeRequest ==
    /\ Proposing /\ pc' = "running"
    /\ IF serving = Nobody \/ ~Wrapped(serving) THEN step' = Pruned(queue, step)
       ELSE MayStep(serving) /\ step' = Drives("none")
    /\ UNCHANGED <<goals, channel>>

-----------------------------------------------------------------------------
(* The engine's result, and the end of the tick or of the process.         *)

Gone(f) == {g \in Goal : f.goal[g].state \in {"active", "ended"}}

\* The process is gone and leaves f; a next one shall not serve what f says has
\* started or ended.  Active time that was not written down is lost with it.
Die(f) ==
    /\ pc' = "down" /\ queue' = Fresh /\ unread' = 0 /\ mode' = "off" /\ serving' = Nobody
    /\ channel' = <<>> /\ taking' = Nobody /\ step' = [g \in Goal |-> "none"]
    /\ arbiter' = [injected |-> Nobody, made |-> 0]
    /\ disk' = f /\ over' = over \cup Gone(f)
    /\ spent' = [g \in Goal |-> f.goal[g].banked] /\ drive' = 0

\* shutdown: a last disarm, and a last flush, which may fail.
ShutDown == \E f \in {Snapshot(Disarmed(TickClock)), disk} : Die(f)

\* _settle_goal_step: a success ends the goal, a failure costs it a step.
\* note_step raises for a goal that waits, and the loop goes down with it.
SettleGoalStep ==
    /\ pc = "running"
    /\ UNCHANGED <<minted, restarts>>
    /\ \/ /\ pc' = "flush"
          /\ IF serving \in Open(queue)
             THEN queue' = Terminate(TickClock, serving) /\ unread' = 0
             ELSE UNCHANGED goals
          /\ UNCHANGED <<mode, serving, remote, arbiter, disk, history>>
       \/ /\ serving \notin In(queue, "pending") /\ pc' = "flush"
          /\ IF serving \in Open(queue)
             THEN queue' = Stepped(TickClock, serving) /\ unread' = 0
             ELSE UNCHANGED goals
          /\ UNCHANGED <<mode, serving, remote, arbiter, disk, history>>
       \/ serving \in In(queue, "pending") /\ ShutDown

\* Time passes, and the queue does not notice before it reads the clock.
TimePasses ==
    /\ unread' = IF Up THEN Smaller(unread + 1, Horizon) ELSE unread
    /\ UNCHANGED <<queue, minted, mode, remote, arbiter, restarts, over>>

\* The active goal has been active for t more.
Spending(t) ==
    [g \in Goal |-> IF g \in In(queue, "active") THEN Smaller(spent[g] + t, Wall) ELSE spent[g]]

\* The engine drives a submission for long, or what was proposed, or nothing runs.
Clock ==
    /\ pc \in {"driving", "running", "down"}
    /\ TimePasses /\ disk' = Snapshot(Later(disk, 1))
    /\ IF pc # "driving" THEN spent' = Spending(1) /\ UNCHANGED drive
       ELSE /\ drive' = IF In(queue, "active") = {} THEN drive ELSE Smaller(drive + 1, Wall)
            /\ UNCHANGED spent
    /\ UNCHANGED <<pc, serving>>

\* _flush_goals, and the loop sleeps; a write may fail and is tried again on the
\* next tick.
FlushGoals ==
    /\ pc = "flush" /\ pc' = "idle" /\ serving' = Nobody
    /\ TimePasses /\ disk' \in {Snapshot(Later(queue, unread')), Snapshot(Later(disk, 1))}
    /\ spent' = Spending(drive + 1) /\ drive' = 0

Restarting == restarts < MaxRestarts /\ restarts' = restarts + 1 /\ UNCHANGED minted

Stop == pc = "idle" /\ Restarting /\ ShutDown
Crash == Up /\ Restarting /\ Die(disk)

\* adopt_goal_store; a file that cannot be read or is refused is set aside, which
\* may fail like the first write.
Adopt ==
    /\ pc = "down" /\ pc' = "idle"
    /\ \/ Restorable(disk) /\ queue' = Restored(disk)
       \/ queue' = Fresh
    /\ disk' \in {Snapshot(queue'), disk}
    /\ UNCHANGED <<unread, minted, mode, serving, remote, arbiter, restarts, history>>

-----------------------------------------------------------------------------
Init ==
    /\ queue = Fresh /\ unread = 0 /\ minted = 0 /\ mode = "off" /\ pc = "down" /\ serving = Nobody
    /\ channel = <<>> /\ taking = Nobody /\ step = [g \in Goal |-> "none"]
    /\ arbiter = [injected |-> Nobody, made |-> 0]
    /\ disk = Snapshot(Fresh) /\ restarts = 0
    /\ spent = [g \in Goal |-> 0] /\ drive = 0 /\ over = {}

TickThread ==
    \/ BeginTick \/ TickGoals \/ PassRemote \/ TakeRemote \/ SettleRemote
    \/ Decline \/ AskPlanner \/ ServeGoal \/ StandDown \/ (\E t \in Trigger : Preempt(t))
    \/ ProposeNothing \/ SubmitStep \/ FinishGoal \/ ProposeRequest
    \/ SettleGoalStep \/ FlushGoals \/ Adopt

ServingThread ==
    \/ \E k \in Key : Submit(k)
    \/ \E g \in Goal : RequestCancel(g)
    \/ SubmitAction

Next == TickThread \/ ServingThread \/ Stop \/ Crash \/ Clock

Spec == Init /\ [][Next]_vars

\* The loop ticks, time passes while it sleeps, and the gates of an autonomous
\* loop open time and again; see Dispatch for the gates.
FairSpec == Spec /\ []<><<TickThread>>_vars /\ SF_vars(ServeGoal)

-----------------------------------------------------------------------------
(* Properties.                                                             *)

AnyKey == Key \cup (0..MaxGoals) \X Trigger \X (1..MaxInjections) \cup {NoKey}
Record ==
    [state : {"none", "pending", "active", "ended"}, key : AnyKey, front : {r \in Int : r <= 0},
     age : 0..Ttl, banked : 0..Wall, run : 0..Wall, parked : BOOLEAN,
     turns : 0..MaxSuspensions, steps : 0..MaxSteps]

\* Types and the bounds the queue keeps: one active goal, max_open open ones, and
\* max_remembered records and digests.
TypeOK ==
    /\ queue.goal \in [Goal -> Record] /\ disk.goal \in [Goal -> Record]
    /\ Range(queue.order) = {g \in Goal : queue.goal[g].state # "none"}
    /\ Len(queue.order) <= MaxRemembered /\ Len(queue.digests) <= MaxRemembered
    /\ queue.cancel \subseteq Open(queue)
    /\ Cardinality(In(queue, "active")) <= 1 /\ Cardinality(Open(queue)) <= MaxOpen
    /\ mode \in {"off", "assisted", "autonomous"}
    /\ mode = "off" => In(queue, "active") = {}

\* No key is admitted twice while its goal is open, and a client that repeats
\* the key of an open goal is given that goal.
OpenKeysResolve ==
    \A g \in Open(queue) : \E d \in Resolves(queue, queue.goal[g].key) : d.id = g

\* A goal whose record said that it had started or ended when a process died
\* is not served by the next one.
OverIsOver == serving \notin over

\* max_wall_ms bounds active time over all of a goal's activations, but for the
\* remote drive of a tick that then suspended it: suspend reads no clock and banks
\* up to the tick's start (queue.py).  A goal a tick lets live has not spent more.
WallBudgetButDrives == \A g \in In(queue, "active") : pc = "remote" => spent[g] < Wall

\* "At most one bounded move completes after a cancel" (navigation_planner.py):
\* no goal has two steps on their way through the channel.
OneStepInFlight ==
    \A g \in Goal :
        Cardinality({i \in DOMAIN channel : channel[i] = g}) + (IF taking = g THEN 1 ELSE 0) <= 1

\* "Everything ends" (queue.py): every open goal ends, unless a suspended one waits
\* for ever in a loop that is not armed for AUTONOMOUS, where nothing activates it.
EveryGoalEnds ==
    []<>(mode = "autonomous" \/ Parked(queue) = {})
        => \A g \in Goal : (g \in Open(queue)) ~> (g \notin Open(queue))
=============================================================================
