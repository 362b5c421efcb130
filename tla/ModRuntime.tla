------------------------------ MODULE ModRuntime ------------------------------
(***************************************************************************)
(* The mod's command path: CommandReader.lua reads the command journal and *)
(* remembers what it handed out, ActionRuntime.lua drives at most one      *)
(* command in the character's action slot with one more waiting, and       *)
(* Safety.lua is asked before every start and every step.                  *)
(*                                                                         *)
(* One tick is a walk of pc: work of a closed session is ended, the        *)
(* running command is stepped, a waiting one is promoted, a batch of lines *)
(* is read and classified, and the batch is admitted entry by entry.  The  *)
(* game is one thread, so the sidecar, the player and the clock act only   *)
(* between ticks (pc = "idle").                                            *)
(*                                                                         *)
(* A command is a model value; constants give the fields the code reads.   *)
(* An adapter is the environment: started or polled, it may go on, finish  *)
(* or fail.  Any ack may fail to be written.                               *)
(***************************************************************************)
EXTENDS Integers, FiniteSets, SequencesExt

CONSTANTS
    Cmd,            \* command identities (command_id)
    Key,            \* idempotency keys
    Kind,           \* "work", "look", "arm", "disarm", "stop" or "cancel"
    KeyOf,          \* idempotency_key of each command
    SessionOf,      \* session_id of each command
    Until,          \* issued_at_ms + lease_ms of each command
    TargetOf,       \* args.command_id of each cancel, or NoCmd
    NoCmd, NoWork,  \* absent values
    MaxWork,        \* maxWorkPerTick
    MaxRemembered,  \* maxRemembered
    MaxStalled,     \* maxStalledPolls
    Timeout,        \* timeout_ms of the adapters
    MaxSessions,    \* bound on the sessions opened
    MaxNow,         \* bound of the model's clock
    MaxIssued,      \* bound on the lines written to the journal
    MaxHazards      \* bound on stops, takeovers, gate changes, rotations and
                    \* acks that are not written

ASSUME RuntimeAssumption ==
    /\ NoCmd \notin Cmd
    /\ NoWork \notin [cmd : Cmd, started : Int, polled : Int, stalled : Int, stopped : BOOLEAN]
    /\ Kind \in [Cmd -> {"work", "look", "arm", "disarm", "stop", "cancel"}]
    /\ KeyOf \in [Cmd -> Key] /\ SessionOf \in [Cmd -> Nat \ {0}]
    /\ Until \in [Cmd -> Nat] /\ TargetOf \in [Cmd -> Cmd \cup {NoCmd}]
    /\ {MaxWork, MaxRemembered, MaxStalled} \subseteq Nat \ {0}
    /\ {Timeout, MaxSessions, MaxNow, MaxIssued, MaxHazards} \subseteq Nat

VARIABLES
    now,        \* the millisecond clock the tick is given
    session,    \* agent.session:id(), 0 for nil
    armed,      \* safety.armed (the mode is OFF when it is false)
    gate,       \* what else mayStart looks at
    inbox,      \* journal lines past the reader's cursor
    memory,     \* order: reader.order with the entries of reader.seen, oldest
                \* first; lost (history): the keys of the entries evicted
    inflight,   \* runtime.inflight
    waiting,    \* runtime.pending, which holds MAX_PENDING = 1 work at most
    pc,         \* where the tick is
    budget,     \* work units left in this tick
    batch,      \* entries of the last poll that are still to be acted on
    issued,     \* lines written so far
    hazards,    \* the environment's hazards so far
    driven,     \* history: the work whose adapter the last step called
    open,       \* history: commands admitted for the slot and not ended
    begun       \* history: how often a command of each key was begun

sidecar == <<inbox, issued>>
tick == <<pc, budget, batch>>
slot == <<inflight, waiting>>
history == <<driven, open, begun>>
vars == <<now, session, armed, gate, sidecar, memory, slot, tick,
          hazards, history>>

Terminal == {"succeeded", "ended", "rejected"}
Gate == {"open", "danger", "silent", "taken"}
Work == [cmd : Cmd, started : -1..MaxNow, polled : -1..MaxNow,
         stalled : 0..MaxStalled, stopped : BOOLEAN]
Remembered == [id : Cmd, keyed : BOOLEAN, ack : Terminal \cup {"none"}]
Entry == [kind : {"command", "refused"}, cmd : Cmd]

NewWork(c) == [cmd |-> c, started |-> -1, polled |-> -1, stalled |-> 0, stopped |-> FALSE]
AlwaysAllowed(c) == Kind[c] \in {"stop", "disarm", "cancel"}
Expired(c) == now > Until[c]

-----------------------------------------------------------------------------
(* The reader's memory of commands.                                        *)

\* The oldest entry goes, and its key with it.
Bounded(m) ==
    IF Len(m.order) <= MaxRemembered THEN m
    ELSE [order |-> Tail(m.order),
          lost |-> m.lost \cup {KeyOf[e.id] : e \in {f \in {Head(m.order)} : f.keyed}}]

Joined(m, e) == Bounded([m EXCEPT !.order = Append(@, e)])

\* Mutant of Recalls: the key is not looked at.
RecallsById(e, c) == e.id = c

Recalls(e, c) == e.id = c \/ (e.keyed /\ KeyOf[e.id] = KeyOf[c])

\* The entry classify finds: by command id, and only then by key.
Known(m, c) ==
    LET own == SelectSeq(m.order, LAMBDA e : e.id = c)
    IN  Head(IF own # <<>> THEN own ELSE SelectSeq(m.order, LAMBDA e : Recalls(e, c)))

Tracked(m, c) == Joined(m, [id |-> c, keyed |-> TRUE, ack |-> "none"])

RememberedAs(m, a) ==
    IF \E i \in DOMAIN m.order : m.order[i].id = a.cmd
    THEN [m EXCEPT !.order = [i \in DOMAIN @ |->
            IF @[i].id = a.cmd THEN [@[i] EXCEPT !.ack = a.status] ELSE @[i]]]
    ELSE Joined(m, [id |-> a.cmd, keyed |-> FALSE, ack |-> a.status])

Answer(c, s) == [cmd |-> c, status |-> s]

Written(m, answers, i, unwritten) ==
    IF i \in DOMAIN answers /\ answers[i] \notin unwritten
    THEN RememberedAs(m, answers[i]) ELSE m

\* finish, for each of answers in turn (a tick ends what it finds in the slot and
\* waiting, and the command itself): a result is remembered when its ack was
\* written, and the work is over either way.
Finish(answers) ==
    LET Told(unwritten) ==
            Written(Written(Written(memory, answers, 1, unwritten),
                            answers, 2, unwritten), answers, 3, unwritten)
    IN  \/ memory' = Told({}) /\ UNCHANGED hazards
        \/ /\ hazards < MaxHazards /\ hazards' = hazards + 1
           /\ \E unwritten \in SUBSET Range(answers) \ {{}} : memory' = Told(unwritten)

-----------------------------------------------------------------------------
(* What may start and what may go on.                                      *)

MayStart(c) ==
    \/ AlwaysAllowed(c)
    \/ /\ ~Expired(c) /\ session # 0 /\ armed
       /\ gate \in IF Kind[c] = "look" THEN {"open", "danger"} ELSE {"open"}

\* Mutant of Lapsed: the lease is checked when a line is read, and not again.
LapsedWhenRead(c) == pc = "read" /\ ~AlwaysAllowed(c) /\ Expired(c)

Lapsed(c) == ~AlwaysAllowed(c) /\ Expired(c)

\* interruptionFor
Interrupted(w) ==
    \/ Lapsed(w.cmd)
    \/ SessionOf[w.cmd] # session
    \/ ~armed \/ gate # "open"
    \/ w.started # -1 /\ now - w.started > Timeout
    \/ w.stalled >= MaxStalled

\* Mutant of Polled: every poll is taken for an advance of the clock.
PolledFresh(w) == [w EXCEPT !.stalled = 0, !.polled = now]

Polled(w) ==
    [w EXCEPT !.stalled = IF w.polled # -1 /\ now <= w.polled THEN w.stalled + 1 ELSE 0,
              !.polled = now]

Stopped(w) == IF w = NoWork THEN NoWork ELSE [w EXCEPT !.stopped = TRUE]

Began(c) == begun' = [begun EXCEPT ![KeyOf[c]] = IF @ = 2 THEN 2 ELSE @ + 1]

-----------------------------------------------------------------------------
(* Between ticks: the sidecar, the clock, the session file and the player. *)

Idle == pc = "idle" /\ UNCHANGED <<tick, open, begun>> /\ driven' = NoWork

Issue(c) ==
    /\ Idle /\ issued < MaxIssued
    /\ issued' = issued + 1 /\ inbox' = Append(inbox, c)
    /\ UNCHANGED <<now, session, armed, gate, memory, slot, hazards>>

Advance ==
    /\ Idle /\ now < MaxNow /\ now' = now + 1
    /\ UNCHANGED <<session, armed, gate, sidecar, memory, slot, hazards>>

\* readSession accepts an offer: a new session inherits no authority.
OpenSession ==
    /\ Idle /\ session < MaxSessions
    /\ session' = session + 1 /\ armed' = FALSE
    /\ UNCHANGED <<now, gate, sidecar, memory, slot, hazards>>

Hazard == Idle /\ hazards < MaxHazards /\ hazards' = hazards + 1

\* The sidecar rotates the journal: lines not read yet are out of reach.
Rotate ==
    /\ Hazard /\ inbox # <<>> /\ inbox' = <<>>
    /\ UNCHANGED <<now, session, armed, gate, issued, memory, slot>>

\* The floor of danger, the player's own queue, the sidecar's heartbeat.
ChangeGate(g) ==
    /\ Hazard /\ gate \notin {g, "taken"} /\ g # "taken" /\ gate' = g
    /\ UNCHANGED <<now, session, armed, sidecar, memory, slot>>

\* Runtime.stop for a panic, or for a takeover that noteInput recognised.
StopFromOutside(g) ==
    /\ Hazard /\ g \in {gate, "taken"} /\ gate' = g
    /\ armed' = FALSE
    /\ inflight' = Stopped(inflight) /\ waiting' = Stopped(waiting)
    /\ UNCHANGED <<now, session, sidecar, memory>>

-----------------------------------------------------------------------------
(* The tick.                                                               *)

\* Mutant of AfterStep: a tick that stepped leaves the promotion to the next.
AfterStepLate(work, next, left) ==
    IF left = 0 THEN "idle"
    ELSE IF left = MaxWork /\ work = NoWork /\ next # NoWork THEN "promote" ELSE "read"

AfterStep(work, next, left) ==
    IF left = 0 THEN "idle" ELSE IF work = NoWork /\ next # NoWork THEN "promote" ELSE "read"

Mine(c) == SessionOf[c] = session

Over(gone, w) == IF gone /\ w # NoWork THEN <<Answer(w.cmd, "ended")>> ELSE <<>>

\* cancelInFlight and clearPending, of the places named, and what comes after.
Leave(fromSlot, fromQueue, last) ==
    /\ Finish(Over(fromSlot, inflight) \o Over(fromQueue, waiting) \o last)
    /\ inflight' = IF fromSlot THEN NoWork ELSE inflight
    /\ waiting' = IF fromQueue THEN NoWork ELSE waiting
    /\ open' = open - Len(Over(fromSlot, inflight)) - Len(Over(fromQueue, waiting))

Foreign(w) == w # NoWork /\ ~Mine(w.cmd)

\* reconcileSession
BeginTick ==
    /\ pc = "idle" /\ (inbox # <<>> \/ inflight # NoWork \/ waiting # NoWork)
    /\ Leave(Foreign(inflight), Foreign(waiting), <<>>)
    /\ budget' = MaxWork
    /\ pc' = IF inflight' # NoWork THEN "step" ELSE AfterStep(NoWork, waiting', MaxWork)
    /\ driven' = NoWork
    /\ UNCHANGED <<now, session, armed, gate, sidecar, batch, begun>>

\* applyOutcome: the work goes on in the slot, or it is over.
\* n commands are open while it is not.
Outcome(w, n) ==
    \/ /\ inflight' = w /\ open' = n
       /\ UNCHANGED <<memory, hazards>>
    \/ \E s \in {"succeeded", "ended"} :
          /\ Finish(<<Answer(w.cmd, s)>>)
          /\ inflight' = NoWork /\ open' = n - 1

Begin(w, n) ==
    /\ Began(w.cmd) /\ driven' = w
    /\ Outcome([w EXCEPT !.started = now], n)

\* step, of the command in the slot.
Step ==
    /\ pc = "step" /\ budget' = budget - 1
    /\ \/ /\ Interrupted(inflight)
          /\ Finish(<<Answer(inflight.cmd, "ended")>>)
          /\ inflight' = NoWork /\ open' = open - 1 /\ driven' = NoWork
       \/ /\ ~Interrupted(inflight)
          /\ driven' = Polled(inflight)
          /\ Outcome(Polled(inflight), open)
    /\ pc' = AfterStep(inflight', waiting, budget')
    /\ UNCHANGED <<now, session, armed, gate, sidecar, waiting, batch, begun>>

\* The command that waited moves into the free slot, unless it may not.
Promote ==
    /\ pc = "promote" /\ budget' = budget - 1 /\ waiting' = NoWork
    /\ \/ /\ Interrupted(waiting)
          /\ Finish(<<Answer(waiting.cmd, "rejected")>>)
          /\ open' = open - 1 /\ driven' = NoWork
          /\ UNCHANGED <<inflight, begun>>
       \/ ~Interrupted(waiting) /\ Begin(waiting, open)
    /\ pc' = IF budget' = 0 THEN "idle" ELSE "read"
    /\ UNCHANGED <<now, session, armed, gate, sidecar, batch>>

Entries(m, c) == \E i \in DOMAIN m.order : Recalls(m.order[i], c)

\* classify, of the line c.  A replayed result and a duplicate change nothing;
\* a result of a closed session is refused.
Classify(c) ==
    LET refused == ~Mine(c) \/ Lapsed(c)
        foreign == Known(memory, c).ack # "none" /\ ~Mine(Known(memory, c).id)
    IN  \/ /\ refused \/ (Entries(memory, c) /\ foreign)
           /\ batch' = Append(batch, [kind |-> "refused", cmd |-> c])
           /\ UNCHANGED memory
        \/ /\ ~refused /\ Entries(memory, c) /\ ~foreign
           /\ UNCHANGED <<memory, batch>>
        \/ /\ ~refused /\ ~Entries(memory, c)
           /\ batch' = Append(batch, [kind |-> "command", cmd |-> c])
           /\ memory' = Tracked(memory, c)

\* poll, line by line: the whole batch is classified before any of it is acted
\* on.  Every line costs a unit of the budget.
Read ==
    /\ pc = "read" /\ inbox # <<>> /\ budget > 0
    /\ Classify(Head(inbox))
    /\ inbox' = Tail(inbox) /\ budget' = budget - 1 /\ driven' = NoWork
    /\ UNCHANGED <<now, session, armed, gate, issued, slot, pc, hazards, open, begun>>

EndRead ==
    /\ pc = "read" /\ (inbox = <<>> \/ budget = 0)
    /\ pc' = (IF batch = <<>> THEN "idle" ELSE "admit") /\ budget' = 0 /\ driven' = NoWork
    /\ UNCHANGED <<now, session, armed, gate, sidecar, memory, slot, batch, hazards, open, begun>>

-----------------------------------------------------------------------------
(* Admission of the head of the batch.                                     *)

Take(kind) ==
    /\ pc = "admit" /\ Head(batch).kind = kind
    /\ batch' = Tail(batch)
    /\ pc' = IF Len(batch) = 1 THEN "idle" ELSE "admit"
    /\ UNCHANGED <<now, session, gate, sidecar, budget>>

\* What the reader refused, or a command that has no adapter, no capability
\* or no permission, or whose admission raised.
Refuse(kind) ==
    /\ Take(kind)
    /\ Finish(<<Answer(Head(batch).cmd, "rejected")>>)
    /\ driven' = NoWork
    /\ UNCHANGED <<armed, slot, open, begun>>

\* Mutant of SlotFree: only the waiting place is looked at.
SlotFreeByQueue == waiting = NoWork

SlotFree == inflight = NoWork

AdmitWork(c) ==
    /\ Take("command") /\ Kind[c] = "work" /\ MayStart(c)
    /\ UNCHANGED armed
    /\ \/ /\ SlotFree
          /\ Begin(NewWork(c), open + 1)
          /\ UNCHANGED waiting
       \/ /\ ~SlotFree /\ driven' = NoWork
          /\ UNCHANGED <<inflight, begun>>
          /\ \/ /\ waiting # NoWork
                /\ Finish(<<Answer(c, "rejected")>>)
                /\ UNCHANGED <<waiting, open>>
             \/ /\ waiting = NoWork
                /\ waiting' = NewWork(c) /\ open' = open + 1
                /\ UNCHANGED <<memory, hazards>>

\* A command that ends inside start and never holds the slot.
AtOnce(c, kind) ==
    /\ Take("command") /\ Kind[c] = kind /\ (kind # "arm" => MayStart(c))
    /\ Began(c) /\ driven' = NoWork

Look(c) ==
    /\ AtOnce(c, "look")
    /\ \E s \in {"succeeded", "ended"} : Finish(<<Answer(c, s)>>)
    /\ UNCHANGED <<armed, slot, open>>

\* Safety.arm does not ask for the floor of danger.
Arm(c) ==
    /\ AtOnce(c, "arm")
    /\ \/ gate \in {"open", "danger"} /\ armed' = TRUE /\ Finish(<<Answer(c, "succeeded")>>)
       \/ gate \in {"silent", "taken"} /\ UNCHANGED armed /\ Finish(<<Answer(c, "ended")>>)
    /\ UNCHANGED <<slot, open>>

Disarm(c) ==
    /\ AtOnce(c, "disarm") /\ armed' = FALSE
    /\ Finish(<<Answer(c, "succeeded")>>)
    /\ UNCHANGED <<slot, open>>

InSlot(c) == inflight # NoWork /\ inflight.cmd = c
Waits(c) == waiting # NoWork /\ waiting.cmd = c

Stop(c) ==
    /\ AtOnce(c, "stop") /\ armed' = FALSE
    /\ Leave(TRUE, TRUE, <<Answer(c, "succeeded")>>)

\* plan.cancel of everything, or of the one command it names.
Cancel(c) ==
    LET target == TargetOf[c]
    IN  /\ AtOnce(c, "cancel") /\ UNCHANGED armed
        /\ \/ target = NoCmd /\ Leave(TRUE, TRUE, <<Answer(c, "succeeded")>>)
           \/ InSlot(target) /\ Leave(TRUE, FALSE, <<Answer(c, "succeeded")>>)
           \/ /\ ~InSlot(target) /\ Waits(target)
              /\ Leave(FALSE, TRUE, <<Answer(c, "succeeded")>>)
           \/ /\ target # NoCmd /\ ~InSlot(target) /\ ~Waits(target)
              /\ Leave(FALSE, FALSE, <<Answer(c, "ended")>>)

AdmitNext ==
    LET c == Head(batch).cmd
    IN  \/ Refuse("refused")
        \/ Refuse("command")
        \/ AdmitWork(c) \/ Look(c) \/ Arm(c) \/ Disarm(c) \/ Stop(c) \/ Cancel(c)

-----------------------------------------------------------------------------
Init ==
    /\ now = 0 /\ session = 0 /\ armed = FALSE /\ gate = "open"
    /\ inbox = <<>> /\ issued = 0 /\ hazards = 0
    /\ memory = [order |-> <<>>, lost |-> {}]
    /\ inflight = NoWork /\ waiting = NoWork
    /\ pc = "idle" /\ budget = 0 /\ batch = <<>>
    /\ driven = NoWork /\ open = 0 /\ begun = [k \in Key |-> 0]

Tick == BeginTick \/ Step \/ Promote \/ Read \/ EndRead \/ AdmitNext

Environment ==
    \/ \E c \in Cmd : Issue(c)
    \/ Advance \/ OpenSession \/ Rotate
    \/ \E g \in Gate : ChangeGate(g) \/ StopFromOutside(g)

Next == Tick \/ Environment

Spec == Init /\ [][Next]_vars

\* The game goes on calling OnTick; neither the clock nor anyone else is fair.
FairSpec == Spec /\ WF_vars(Tick)

-----------------------------------------------------------------------------
(* Properties.                                                             *)

\* Types and the bounds of the queue and of the memory.
TypeOK ==
    /\ now \in 0..MaxNow /\ session \in 0..MaxSessions /\ armed \in BOOLEAN /\ gate \in Gate
    /\ inbox \in Seq(Cmd) /\ issued \in 0..MaxIssued /\ hazards \in 0..MaxHazards
    /\ memory.order \in Seq(Remembered) /\ Len(memory.order) <= MaxRemembered
    /\ memory.lost \subseteq Key
    /\ {inflight, waiting} \subseteq Work \cup {NoWork}
    /\ pc \in {"idle", "step", "promote", "read", "admit"}
    /\ budget \in 0..MaxWork /\ batch \in Seq(Entry)
    /\ driven \in Work \cup {NoWork} /\ open \in Int /\ begun \in [Key -> 0..2]

\* No command is handed out twice for execution (CommandReader.lua:4): a key
\* is begun once, however often it is delivered, under whatever command id and
\* in whatever session, as long as the bounded memory has not lost it.
HandedOutOnce == \A k \in Key : begun[k] > 1 => k \in memory.lost

\* Whenever the runtime calls an adapter that drives the character, at its
\* start, at its promotion and at every poll, the agent is armed, nothing else
\* forbids it, and the command is of the open session and inside its lease.
DrivenWithAuthority ==
    driven # NoWork =>
        /\ armed /\ gate = "open"
        /\ SessionOf[driven.cmd] = session
        /\ now <= Until[driven.cmd]

\* Work that was running or waiting when the player stopped the agent is never
\* driven again, even if an arm is admitted in the next tick.
StoppedStaysStopped == driven # NoWork => ~driven.stopped

Load(w) == IF w = NoWork THEN 0 ELSE 1

\* Every command admitted for the slot is in it, waiting for it, or ended.
NothingVanishes == open = Load(inflight) + Load(waiting)

Held(c) == InSlot(c) \/ Waits(c)

\* A command does not hold the slot or its place for ever, even if the clock
\* of the game stands still (ActionRuntime.MAX_STALLED_POLLS).
WorkEnds == \A c \in {d \in Cmd : Kind[d] = "work"} : Held(c) ~> ~Held(c)
=============================================================================
