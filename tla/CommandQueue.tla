---------------------------- MODULE CommandQueue ----------------------------
(***************************************************************************)
(* The sidecar's command queue, pz_agent_core/ipc/queue.py: the admission  *)
(* gates of submit, the stop that bypasses them, the single backpressure   *)
(* slot, the bounded table of shipped commands, the bounded idempotency    *)
(* cache, the ack stream's sequence check and what a restarted process     *)
(* recovers from the journal's tail.                                       *)
(*                                                                         *)
(* A command is a model value; the constants say which key it carries,     *)
(* whether it occupies the character's queue, when its lease ends and      *)
(* whether it was built for this session.  The mod is the environment: it  *)
(* may ack any command that was ever written, with any sequence number,    *)
(* which covers acks that are lost, redelivered, reordered by a game       *)
(* restart (numbering starts again at zero) or late.                       *)
(***************************************************************************)
EXTENDS Integers, Sequences, FiniteSets

CONSTANTS
    Cmd,            \* command identities (command_id)
    Key,            \* idempotency keys
    KeyOf,          \* the key each command carries
    Occupying,      \* commands in QUEUE_OCCUPYING_ACTIONS
    Stop,           \* safety.stop commands, sent with send_stop
    Foreign,        \* commands built for a session this queue does not serve
    Deadline,       \* issued_at_ms + lease_ms of each command
    NoCmd,          \* the empty slot
    PendingLimit,   \* pending_limit
    CacheCapacity,  \* idempotency_capacity
    MaxNow,         \* bound of the model's clock
    MaxWrites,      \* bound on journal records
    MaxAckSeq,      \* bound on ack sequence numbers
    MaxRestarts     \* bound on sidecar restarts

ASSUME CmdAssumption ==
    /\ KeyOf \in [Cmd -> Key]
    /\ Deadline \in [Cmd -> Nat]
    /\ Occupying \subseteq Cmd /\ Stop \subseteq Cmd /\ Foreign \subseteq Cmd
    /\ Occupying \cap Stop = {}
    /\ NoCmd \notin Cmd

ASSUME BoundAssumption ==
    /\ PendingLimit \in Nat \ {0}
    /\ CacheCapacity \in Nat \ {0}
    /\ MaxNow \in Nat /\ MaxWrites \in Nat /\ MaxAckSeq \in Nat /\ MaxRestarts \in Nat

VARIABLES
    now,        \* the injected clock, in lease units
    session,    \* which session this process serves (a new one per create)
    restarts,   \* sidecar restarts so far
    nextSeq,    \* SequenceTracker._next[COMMAND]
    journal,    \* every command record ever committed, all generations
    liveFrom,   \* index of the first record of the live journal file
    prevFrom,   \* index of the first record of rotated generation .1
    pending,    \* keys of CommandQueue._pending
    since,      \* the sequence stamp that orders _pending, oldest lowest
    inFlight,   \* CommandQueue._in_flight
    cache,      \* IdempotencyCache._entries, oldest first
    lastAck     \* SequenceTracker._last_seen[ACK], -1 for None

vars == <<now, session, restarts, nextSeq, journal, liveFrom, prevFrom,
          pending, since, inFlight, cache, lastAck>>

wire == <<session, restarts, nextSeq, journal, liveFrom, prevFrom>>

Terminal == {"succeeded", "failed"}
Verdict == Terminal \cup {"lost", "lease_expired", "stale_session"}
Record == [cmd : Cmd, seq : Nat, session : Nat]
Entry == [key : Key, verdict : Verdict]

-----------------------------------------------------------------------------
(* The idempotency cache.                                                  *)

Cached(k) == \E i \in DOMAIN cache : cache[i].key = k

\* Mutant of Remembered: the last result wins.
RememberedLast(k, v) ==
    LET others == SelectSeq(cache, LAMBDA e : e.key # k)
        kept == IF Len(others) = CacheCapacity THEN Tail(others) ELSE others
    IN  Append(kept, [key |-> k, verdict |-> v])

\* The cache after remember(k, v): the first terminal result of a key wins
\* and the oldest entry leaves when the bound is exceeded.
Remembered(k, v) ==
    LET entry == [key |-> k, verdict |-> v]
    IN  IF Cached(k) THEN cache
        ELSE IF Len(cache) = CacheCapacity THEN Append(Tail(cache), entry)
        ELSE Append(cache, entry)

(* The table of shipped commands.                                          *)

\* Mutants: the command in the slot may be shed; shedding is given up on
\* while a command holds the slot.
EvictableAny(c, slot) == pending \cup {c}
EvictableNone(c, slot) == IF slot = NoCmd THEN pending \cup {c} ELSE {}

\* The pending commands _track may forget, were c added and slot in flight.
Evictable(c, slot) == (pending \cup {c}) \ {slot}

\* _track: add c, then shed the oldest evictable command past the bound.  A
\* command already in the table keeps its place in the ordering.
Track(c, slot) ==
    LET stamp == [since EXCEPT ![c] = IF c \in pending THEN @ ELSE nextSeq]
        all == pending \cup {c}
    IN  /\ since' = stamp
        /\ IF Cardinality(all) > PendingLimit /\ Evictable(c, slot) # {}
           THEN \E v \in Evictable(c, slot) :
                    /\ \A w \in Evictable(c, slot) : stamp[v] <= stamp[w]
                    /\ pending' = all \ {v}
           ELSE pending' = all

\* _write: the definitive sequence number is allocated as the record is
\* appended; the append may first rotate a live file that holds records.
Write(c) ==
    /\ Len(journal) < MaxWrites
    /\ journal' = Append(journal, [cmd |-> c, seq |-> nextSeq, session |-> session])
    /\ nextSeq' = nextSeq + 1
    /\ \/ UNCHANGED <<liveFrom, prevFrom>>
       \/ /\ liveFrom <= Len(journal)
          /\ liveFrom' = Len(journal) + 1
          /\ prevFrom' = liveFrom
    /\ UNCHANGED <<session, restarts>>

Expired(c) == now > Deadline[c]

-----------------------------------------------------------------------------
(* submit, gate by gate in the order of the code.                          *)

RejectForeign(c) ==
    /\ c \in Foreign
    /\ cache' = Remembered(KeyOf[c], "stale_session")
    /\ UNCHANGED <<now, wire, pending, since, inFlight, lastAck>>

\* A known key is answered from the cache, an occupied slot refuses without
\* caching the refusal (QUEUE_REJECTED is retryable): neither changes state.
AnsweredWithoutWriting(c) ==
    \/ Cached(KeyOf[c])
    \/ c \in Occupying /\ inFlight # NoCmd /\ ~Expired(c)

RejectExpired(c) ==
    /\ c \notin Foreign
    /\ ~Cached(KeyOf[c])
    /\ Expired(c)
    /\ cache' = Remembered(KeyOf[c], "lease_expired")
    /\ UNCHANGED <<now, wire, pending, since, inFlight, lastAck>>

Ship(c) ==
    /\ c \notin Foreign
    /\ ~AnsweredWithoutWriting(c)
    /\ ~Expired(c)
    /\ Write(c)
    /\ inFlight' = IF c \in Occupying THEN c ELSE inFlight
    /\ Track(c, inFlight')
    /\ UNCHANGED <<now, cache, lastAck>>

\* send_stop: no replay, no lease and no backpressure gate.
SendStop(c) ==
    /\ c \in Stop
    /\ Write(c)
    /\ Track(c, inFlight)
    /\ UNCHANGED <<now, inFlight, cache, lastAck>>

-----------------------------------------------------------------------------
(* Acks, and closing the slot.                                             *)

\* record_ack of a terminal result: only a tracked command has a key to file
\* it under, and only the command that holds the slot frees it.
RecordAck(c, v) ==
    /\ IF c \in pending
       THEN cache' = Remembered(KeyOf[c], v)
       ELSE UNCHANGED cache
    /\ pending' = pending \ {c}
    /\ inFlight' = IF inFlight = c THEN NoCmd ELSE inFlight

\* poll_acks of one record; an ack of another session is dropped.  A number at
\* or below the last one seen is a redelivery and is dropped; any other
\* advances the expectation.
PollTerminalAck(c, v, seq) ==
    /\ \E i \in DOMAIN journal : journal[i].cmd = c /\ journal[i].session = session
    /\ seq > lastAck
    /\ lastAck' = seq
    /\ RecordAck(c, v)
    /\ UNCHANGED <<now, wire, since>>

PollProgressAck(seq) ==
    /\ journal # <<>>
    /\ seq > lastAck
    /\ lastAck' = seq
    /\ UNCHANGED <<now, wire, pending, since, inFlight, cache>>

\* Mutant: the lost result is reported but not cached.
CloseInFlightUncached ==
    /\ inFlight # NoCmd
    /\ pending' = pending \ {inFlight}
    /\ inFlight' = NoCmd
    /\ UNCHANGED <<now, wire, since, lastAck, cache>>

\* close_in_flight: the loop ends the command it holds as lost, because the
\* game went silent, a panic file appeared or the guard named the command.
CloseInFlight ==
    /\ inFlight # NoCmd
    /\ cache' = Remembered(KeyOf[inFlight], "lost")
    /\ pending' = pending \ {inFlight}
    /\ inFlight' = NoCmd
    /\ UNCHANGED <<now, wire, since, lastAck>>

-----------------------------------------------------------------------------
(* Restart.                                                                *)

\* The highest sequence number session s committed among journal[a..b], or -1.
HighestSeq(s, a, b) ==
    LET seqs == {journal[i].seq : i \in {j \in a..b : journal[j].session = s}}
    IN  IF seqs = {} THEN -1 ELSE CHOOSE m \in seqs : \A n \in seqs : n <= m

\* Mutant: only the live file is read, as if rotation had not retired one.
RecoveredSeqLiveOnly(s, live, prev) == HighestSeq(s, live, Len(journal)) + 1

\* _recover_next_command_seq: the live file, or the newest rotated one.
RecoveredSeq(s, live, prev) ==
    LET inLive == HighestSeq(s, live, Len(journal))
        inPrev == HighestSeq(s, prev, live - 1)
    IN  (IF inLive >= 0 THEN inLive ELSE inPrev) + 1

\* The process dies and a new one attaches: it resumes the session on disk or
\* creates another.  Nothing in memory survives.  A process that died inside
\* append after the rotation leaves a live file with no record.
Restart(s, rotated) ==
    /\ restarts < MaxRestarts
    /\ rotated => liveFrom <= Len(journal)
    /\ restarts' = restarts + 1
    /\ session' = s
    /\ liveFrom' = IF rotated THEN Len(journal) + 1 ELSE liveFrom
    /\ prevFrom' = IF rotated THEN liveFrom ELSE prevFrom
    /\ nextSeq' = RecoveredSeq(s, liveFrom', prevFrom')
    /\ pending' = {}
    /\ since' = [c \in Cmd |-> 0]
    /\ inFlight' = NoCmd
    /\ cache' = <<>>
    /\ lastAck' = -1
    /\ UNCHANGED <<now, journal>>

Tick ==
    /\ now < MaxNow
    /\ now' = now + 1
    /\ UNCHANGED <<wire, pending, since, inFlight, cache, lastAck>>

-----------------------------------------------------------------------------
Init ==
    /\ now = 0
    /\ session = 0
    /\ restarts = 0
    /\ nextSeq = 0
    /\ journal = <<>>
    /\ liveFrom = 1
    /\ prevFrom = 1
    /\ pending = {}
    /\ since = [c \in Cmd |-> 0]
    /\ inFlight = NoCmd
    /\ cache = <<>>
    /\ lastAck = -1

Next ==
    \/ \E c \in Cmd : RejectForeign(c) \/ RejectExpired(c) \/ Ship(c) \/ SendStop(c)
    \/ \E c \in Cmd, v \in Terminal, seq \in 0..MaxAckSeq : PollTerminalAck(c, v, seq)
    \/ \E seq \in 0..MaxAckSeq : PollProgressAck(seq)
    \/ CloseInFlight
    \/ \E s \in {session, session + 1}, rotated \in BOOLEAN : Restart(s, rotated)
    \/ Tick

Spec == Init /\ [][Next]_vars

-----------------------------------------------------------------------------
(* Properties.                                                             *)

\* Every variable keeps its type, and the bounded tables stay in their bounds:
\* the idempotency cache never exceeds its capacity with one entry per key.
TypeOK ==
    /\ now \in Nat /\ session \in Nat /\ restarts \in Nat /\ nextSeq \in Nat
    /\ journal \in Seq(Record)
    /\ liveFrom \in Nat \ {0} /\ prevFrom \in Nat \ {0}
    /\ pending \subseteq Cmd
    /\ since \in [Cmd -> Nat]
    /\ inFlight \in Cmd \cup {NoCmd}
    /\ cache \in Seq(Entry)
    /\ Len(cache) <= CacheCapacity
    /\ lastAck \in Int

\* Backpressure: of the commands the queue tracks, exactly the one in the slot
\* occupies the character's queue.  A slot whose command was shed could never
\* file its ack under a key; a second occupying command could run beside it.
SlotIsTheOccupier ==
    pending \cap Occupying = IF inFlight = NoCmd THEN {} ELSE {inFlight}

\* The table of shipped commands never exceeds its limit, even when stops
\* bypass every gate while the protected command cannot be shed.
PendingBounded == Cardinality(pending) <= PendingLimit

\* No two records of one session carry the same sequence number and they grow
\* along the journal, across crashes, resumed sessions and rotation: what
\* _recover_next_command_seq reads from the tail is where the stream stopped.
SeqsIncrease ==
    \A i, j \in DOMAIN journal :
        i < j /\ journal[i].session = journal[j].session
            => journal[i].seq < journal[j].seq

\* What the peer was told under a key is never rewritten while it is cached: a
\* late ack of a command closed as lost, or of one rejected, changes nothing.
FirstResultStands ==
    [][restarts' = restarts =>
        \A i \in DOMAIN cache, j \in DOMAIN cache' :
            cache[i].key = cache'[j].key => cache[i] = cache'[j]]_vars

\* The slot is only ever given up with an answer on file for the key of the
\* command that held it, so a redelivery of it replays instead of running.
SlotFreedWithAnAnswer ==
    [][restarts' = restarts /\ inFlight # NoCmd /\ inFlight' # inFlight
        => \E i \in DOMAIN cache' : cache'[i].key = KeyOf[inFlight]]_vars
=============================================================================
