---------------------------- MODULE ActionChannel ----------------------------
(***************************************************************************)
(* The sidecar's remote action channel, pz_agent_cli/runtime.py class      *)
(* ActionChannel, with the two threads that share it: the Core RPC serving *)
(* thread, which submits, and the loop's tick thread, which sweeps, clears *)
(* on every stop lever, takes the oldest submission, drives the engine and *)
(* settles the record.  Every method of the channel holds its lock for its *)
(* whole body, so each is one step; the tick thread is a sequence of such  *)
(* steps, and the other thread may run between any two of them.            *)
(*                                                                         *)
(* Records are numbered in the order they are minted.  The waiting ones    *)
(* leave _pending oldest first, so _pending is a set whose head is its     *)
(* least member; the order of _records, which eviction follows, is kept as *)
(* a stamp that grows whenever a record is added or moved to the end.      *)
(***************************************************************************)
EXTENDS Integers, Sequences, FiniteSets

CONSTANTS
    Key,            \* idempotency keys
    NoRequest,      \* the serving thread holds no request
    MaxPending,     \* max_pending
    MaxRemembered,  \* max_remembered
    Lease,          \* the lease_ms every request carries
    Grace,          \* sweep_grace_ms
    MaxNow,         \* bound of the model's clock
    MaxIds,         \* bound on records minted
    MaxAttaches     \* bound on attachments of the loop

\* The constructor refuses anything else.
ASSUME ChannelAssumption ==
    /\ MaxPending \in Nat \ {0}
    /\ MaxRemembered \in Nat /\ MaxRemembered > MaxPending
    /\ Lease \in Nat \ {0} /\ Grace \in Nat

ASSUME ModelAssumption ==
    /\ NoRequest \notin Key
    /\ MaxNow \in Nat /\ MaxIds \in Nat /\ MaxAttaches \in Nat

VARIABLES
    now,        \* the clock both threads read
    records,    \* every record ever minted, by action id
    kept,       \* the ids in _records (and _requests)
    pending,    \* the ids in _pending
    byKey,      \* _by_key, 0 for a key it does not hold
    moves,      \* how often a record was added or moved to the end
    pc,         \* where the tick thread is
    tickNow,    \* the clock as read when the current tick began
    lever,      \* what the current tick found: its guard and stop levers
    armed,      \* the loop's _armed
    attaches,   \* attachments so far
    rpc         \* the key of the request past the serving thread's attached check

vars == <<now, records, kept, pending, byKey, moves, pc, tickNow, lever,
          armed, attaches, rpc>>

store == <<records, kept, pending, byKey, moves>>
loop == <<pc, tickNow, lever, armed, attaches>>

Live == {"accepted", "started"}
Terminal == {"succeeded", "failed", "cancelled", "rejected", "lost"}

\* What the engine's result may say: settle takes terminal ones only.
Results == Terminal

Levers == {"quiet", "event", "silent", "disarm", "panic"}

Places == {"down", "between", "levers", "disarm", "authority", "serve", "driving",
           "stopping", "closing"}

\* `lapse` is when the request's own lease is over.
Record == [key : Key, status : Live \cup Terminal, lapse : Nat, stamp : Nat]

Open(recs) == {i \in DOMAIN recs : recs[i].status \in Live}

-----------------------------------------------------------------------------
(* _evict.                                                                 *)

\* Which records may be forgotten.  The mutant forgets live ones too.
VictimsAny(recs, K) == K
Victims(recs, K) == {i \in K : recs[i].status \in Terminal}

\* How many leave: until the store fits its cap or no terminal one is left.
Excess(recs, K) ==
    LET over == Cardinality(K) - MaxRemembered
        ended == Cardinality(Victims(recs, K))
    IN  IF over <= 0 THEN 0 ELSE IF over <= ended THEN over ELSE ended

\* The oldest victims leave the store K, and their keys with them.
Evict(recs, K, keys) ==
    \E V \in SUBSET Victims(recs, K) :
        /\ Cardinality(V) = Excess(recs, K)
        /\ \A v \in V, w \in Victims(recs, K) \ V : recs[v].stamp < recs[w].stamp
        /\ kept' = K \ V
        /\ byKey' = [k \in Key |-> IF keys[k] \in V THEN 0 ELSE keys[k]]

\* The records of S get the terminal status says[i] and move to the end of the
\* store, oldest first.
Ended(S, says) ==
    [i \in DOMAIN records |->
        IF i \in S
        THEN [key |-> records[i].key, status |-> says[i], lapse |-> records[i].lapse,
              stamp |-> moves + Cardinality({j \in S : j <= i})]
        ELSE records[i]]

End(S, says) ==
    /\ records' = Ended(S, says)
    /\ moves' = moves + Cardinality(S)
    /\ Evict(Ended(S, says), kept, byKey)

\* clear_pending: every waiting submission ends with one status; the one the
\* tick thread has taken is not touched.
ClearPending(status) ==
    /\ End(pending, [i \in pending |-> status])
    /\ pending' = {}

-----------------------------------------------------------------------------
(* The serving thread: LoopActionPort.submit, ActionChannel.submit.        *)

\* The port reads the loop's session before it enters the channel.
Call(k) ==
    /\ rpc = NoRequest
    /\ pc # "down"
    /\ rpc' = k
    /\ UNCHANGED <<now, store, loop>>

\* The mutant lets a key whose record has ended start over.
KnownLive(k) == byKey[k] # 0 /\ records[byKey[k]].status \in Live

\* The key names a record the store still holds.
Known(k) == byKey[k] # 0 /\ byKey[k] \in kept

\* The mutant never refuses.
FullNever == FALSE
Full == Cardinality(pending) >= MaxPending

\* A retry is handed the record its key made; a key reused for other work and
\* a full queue are refused.  The channel does not change.
AnswerWithoutAdmitting ==
    /\ rpc # NoRequest
    /\ Known(rpc) \/ Full
    /\ rpc' = NoRequest
    /\ UNCHANGED <<now, store, loop>>

\* The model mints no record whose deadline lies past its last instant.
Admit ==
    /\ rpc # NoRequest
    /\ ~Known(rpc)
    /\ ~Full
    /\ Len(records) < MaxIds
    /\ now + Lease + Grace <= MaxNow
    /\ LET id == Len(records) + 1
           all == Append(records, [key |-> rpc, status |-> "accepted", lapse |-> now + Lease,
                                   stamp |-> moves + 1])
       IN  /\ records' = all
           /\ pending' = pending \cup {id}
           /\ Evict(all, kept \cup {id}, [byKey EXCEPT ![rpc] = id])
    /\ moves' = moves + 1
    /\ rpc' = NoRequest
    /\ UNCHANGED <<now, loop>>

-----------------------------------------------------------------------------
(* The tick thread.                                                        *)

\* Mutant: the deadline itself is still inside it.
OverdueAfter(i) == now > records[i].lapse + Grace

\* sweep's test: now_ms is at or past lease plus grace.
Overdue(i) == now >= records[i].lapse + Grace

\* Mutants: a swept submission stays in the queue; a waiting one is not swept.
SweepQueued ==
    LET over == {i \in kept \cap Open(records) : Overdue(i)}
    IN  /\ End(over, [i \in over |-> "failed"])
        /\ UNCHANGED pending
SweepStarted ==
    LET over == {i \in kept \cap Open(records) : Overdue(i) /\ i \notin pending}
    IN  /\ End(over, [i \in over |-> "failed"])
        /\ UNCHANGED pending

\* sweep: every live record past its deadline ends, waiting or started.
Sweep ==
    LET over == {i \in kept \cap Open(records) : Overdue(i)}
    IN  /\ End(over, [i \in over |-> "failed"])
        /\ pending' = pending \ over

\* The head of tick: one clock reading, then the sweep.
BeginTick ==
    /\ pc = "between"
    /\ tickNow' = now
    /\ Sweep
    /\ pc' = "levers"
    /\ UNCHANGED <<now, lever, armed, attaches, rpc>>

\* _run_guard and the first half of _apply_events.  A panic empties the
\* channel in its own name before the disarm does; a game gone silent disarms
\* a loop that holds authority.
ApplyEvents(l) ==
    /\ pc = "levers"
    /\ lever' = l
    /\ IF l = "panic" THEN ClearPending("cancelled") ELSE UNCHANGED store
    /\ pc' = IF l \in {"disarm", "panic"} \/ (l = "silent" /\ armed) THEN "disarm" ELSE "authority"
    /\ UNCHANGED <<now, tickNow, armed, attaches, rpc>>

\* disarm: authority first, then the channel.
Disarm ==
    /\ pc = "disarm"
    /\ armed' = FALSE
    /\ ClearPending("rejected")
    /\ pc' = "authority"
    /\ UNCHANGED <<now, tickNow, lever, attaches, rpc>>

\* _watch_pending_arm grants what an earlier tick asked for, unless a stop
\* lever of this tick resolved the arm first.
GrantArm ==
    /\ pc = "authority"
    /\ lever \in {"quiet", "event"}
    /\ armed' = TRUE
    /\ pc' = "serve"
    /\ UNCHANGED <<now, store, tickNow, lever, attaches, rpc>>

\* A control request drops the authority, or nothing moves it this tick.
ControlDisarm ==
    /\ pc = "authority"
    /\ armed' = FALSE
    /\ ClearPending("rejected")
    /\ pc' = "serve"
    /\ UNCHANGED <<now, tickNow, lever, attaches, rpc>>

KeepAuthority ==
    /\ pc = "authority"
    /\ pc' = "serve"
    /\ UNCHANGED <<now, store, tickNow, lever, armed, attaches, rpc>>

\* What a tick found is a local of it.
EndTick == pc' = "between" /\ lever' = "quiet"

\* _serve_remote_action with nothing to start: no submission waits, or a
\* transient gate (an event, a silent game, an observation that cannot act, a
\* spent budget) leaves them waiting.
ServeNothing ==
    /\ pc = "serve"
    /\ pending = {} \/ armed
    /\ EndTick
    /\ UNCHANGED <<now, store, tickNow, armed, attaches, rpc>>

\* Without authority the submissions end here.
ServeDisarmed ==
    /\ pc = "serve"
    /\ pending # {} /\ ~armed
    /\ ClearPending("rejected")
    /\ EndTick
    /\ UNCHANGED <<now, tickNow, armed, attaches, rpc>>

\* take_next marks the oldest one started; the engine runs with no lock held.
TakeNext(i) ==
    /\ pc = "serve"
    /\ armed
    /\ lever = "quiet"
    /\ i \in pending
    /\ \A j \in pending : i <= j
    /\ pending' = pending \ {i}
    /\ records' = [records EXCEPT ![i].status = "started"]
    /\ pc' = "driving"
    /\ UNCHANGED <<now, kept, byKey, moves, tickNow, lever, armed, attaches, rpc>>

\* The record the tick thread drives: it settles the one take_next gave it.
Driven == {i \in Open(records) : records[i].status = "started"}

\* settle: the engine's terminal result is filed.
Settle(i, result) ==
    /\ pc = "driving"
    /\ i \in Driven
    /\ End({i}, [j \in {i} |-> result])
    /\ EndTick
    /\ UNCHANGED <<now, pending, tickNow, armed, attaches, rpc>>

\* The engine raises and run() ends by its finally; or run() returns between
\* two ticks: a stop request, the tick budget.
EngineRaises ==
    /\ pc = "driving"
    /\ pc' = "stopping"
    /\ UNCHANGED <<now, store, tickNow, lever, armed, attaches, rpc>>

RunReturns ==
    /\ pc = "between"
    /\ pc' = "stopping"
    /\ UNCHANGED <<now, store, tickNow, lever, armed, attaches, rpc>>

\* shutdown: the channel is cleared while the loop still counts as attached;
\* the queue and the lock are closed before the attachment is dropped.
Shutdown ==
    /\ pc = "stopping"
    /\ armed' = FALSE
    /\ ClearPending("cancelled")
    /\ pc' = "closing"
    /\ UNCHANGED <<now, tickNow, lever, attaches, rpc>>

Detach ==
    /\ pc = "closing"
    /\ pc' = "down"
    /\ UNCHANGED <<now, store, tickNow, lever, armed, attaches, rpc>>

\* close_open: every live record ends, a waiting one as cancelled, a started
\* one as lost.
CloseOpen ==
    LET open == kept \cap Open(records)
    IN  /\ End(open, [i \in open |-> IF i \in pending THEN "cancelled" ELSE "lost"])
        /\ pending' = pending \ open

\* attach ends what the last attachment left open before it serves anything.
Attach ==
    /\ pc = "down"
    /\ attaches < MaxAttaches
    /\ attaches' = attaches + 1
    /\ CloseOpen
    /\ armed' = FALSE
    /\ pc' = "between"
    /\ UNCHANGED <<now, tickNow, lever, rpc>>

Clock ==
    /\ now < MaxNow
    /\ now' = now + 1
    /\ UNCHANGED <<store, loop, rpc>>

-----------------------------------------------------------------------------
Init ==
    /\ now = 0
    /\ records = <<>>
    /\ kept = {}
    /\ pending = {}
    /\ byKey = [k \in Key |-> 0]
    /\ moves = 0
    /\ pc = "down"
    /\ tickNow = 0
    /\ lever = "quiet"
    /\ armed = FALSE
    /\ attaches = 0
    /\ rpc = NoRequest

\* The tick thread's step after a tick has begun, or while it shuts down.
TickStep ==
    \/ \E l \in Levers : ApplyEvents(l)
    \/ Disarm \/ GrantArm \/ ControlDisarm \/ KeepAuthority
    \/ ServeNothing \/ ServeDisarmed
    \/ \E i \in pending : TakeNext(i)
    \/ \E i \in Driven, result \in Results : Settle(i, result)
    \/ EngineRaises \/ Shutdown \/ Detach

Next ==
    \/ \E k \in Key : Call(k)
    \/ AnswerWithoutAdmitting \/ Admit
    \/ BeginTick \/ TickStep \/ RunReturns \/ Attach \/ Clock

Spec == Init /\ [][Next]_vars

\* The loop keeps ticking (run sleeps a fixed interval between two ticks), a
\* tick that began ends (every read is bounded, the engine has its own
\* deadlines) and the clock moves.
FairSpec == Spec /\ WF_vars(BeginTick) /\ WF_vars(TickStep) /\ WF_vars(Clock)

-----------------------------------------------------------------------------
(* Properties.                                                             *)

\* Every variable keeps its type: in particular a record's status is one the
\* action stream knows, and a settled one is terminal.
TypeOK ==
    /\ now \in Nat /\ tickNow \in Nat /\ moves \in Nat /\ attaches \in Nat
    /\ records \in Seq(Record)
    /\ kept \subseteq DOMAIN records
    /\ pending \subseteq DOMAIN records
    /\ byKey \in [Key -> 0..Len(records)]
    /\ pc \in Places
    /\ lever \in Levers
    /\ armed \in BOOLEAN
    /\ rpc \in Key \cup {NoRequest}

\* The store of records stays inside max_remembered although only terminal
\* records are evicted: with the constructor's max_remembered > max_pending a
\* victim exists whenever the cap is exceeded.
StoreBounded == Cardinality(kept) <= MaxRemembered

\* A waiting or started submission is still in the store, so action.status
\* never answers "unknown id" for work that may yet run.
LiveIsRemembered == Open(records) \subseteq kept

\* While a record is remembered no second record of its key exists: a retry
\* whose first answer was lost is never driven beside, or after, the original.
OneRecordPerKey ==
    \A i, j \in kept : records[i].key = records[j].key => i = j

\* A terminal answer a client may have read is never replaced: what was swept,
\* cleared or settled is not taken, swept or settled again.
AnswerIsFinal ==
    [][\A i \in DOMAIN records :
        records[i].status \in Terminal => records'[i].status = records[i].status]_vars

\* What the tick thread starts had not timed out when its tick began, whatever
\* the serving thread admitted since and however long the queue was.
StartedBeforeItsDeadline ==
    [][\A i \in pending : records'[i].status = "started"
        => tickNow < records[i].lapse + Grace]_vars

\* Every submission gets a terminal answer while the loop runs, even one whose
\* gates never open: the sweep ends it.
EverySubmissionEnds ==
    \A i \in 1..MaxIds : i \in Open(records) ~> (i \notin Open(records) \/ pc = "down")
=============================================================================
