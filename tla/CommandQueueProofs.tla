------------------------- MODULE CommandQueueProofs -------------------------
(***************************************************************************)
(* Proofs about CommandQueue: the types and bounds of its tables, the      *)
(* backpressure invariant, and that sequence numbers are never reused      *)
(* across restarts.  The inductive invariant adds to them what the journal *)
(* looks like: its segments, and where the current session's numbers are.  *)
(***************************************************************************)
EXTENDS CommandQueue, FiniteSetTheorems, TLAPS

USE CmdAssumption, BoundAssumption

\* The live file and the newest rotated one are adjacent runs of the journal,
\* and the rotated one is never empty: append rotates only a file with records.
Segments ==
    /\ liveFrom <= Len(journal) + 1
    /\ prevFrom <= liveFrom
    /\ liveFrom > 1 => prevFrom < liveFrom

\* Sessions succeed one another along the journal; none is from the future.
SessionsInOrder ==
    /\ \A i, j \in DOMAIN journal : i < j => journal[i].session <= journal[j].session
    /\ \A i \in DOMAIN journal : journal[i].session <= session

\* The next number of the current session is above every one it committed.
NextSeqIsFresh ==
    \A i \in DOMAIN journal : journal[i].session = session => journal[i].seq < nextSeq

JournalInv == Segments /\ SessionsInOrder /\ NextSeqIsFresh /\ SeqsIncrease

-----------------------------------------------------------------------------
\* An index of a sequence of length n is the last one or before it.
LEMMA LastOrBefore == ASSUME NEW n \in Nat PROVE \A i \in 1..n : i = n \/ i < n
OBVIOUS

\* A number above n and at most its successor is its successor.
LEMMA OnlySuccessor == ASSUME NEW n \in Nat, NEW m \in Nat, m <= n + 1, m > n PROVE m - 1 = n
OBVIOUS

\* What a record of the journal carries.
LEMMA RecordsTyped ==
    ASSUME TypeOK
    PROVE  \A i \in 1..Len(journal) : journal[i].session \in Nat /\ journal[i].seq \in Nat
<1>1. journal \in [1..Len(journal) -> Record]
  BY DEF TypeOK
<1> QED BY <1>1 DEF Record

\* What remember does to a well-formed cache: it stays well-formed and bounded.
LEMMA RememberedType ==
    ASSUME TypeOK, NEW k \in Key, NEW v \in Verdict
    PROVE  Remembered(k, v) \in Seq(Entry) /\ Len(Remembered(k, v)) <= CacheCapacity
<1> DEFINE e == [key |-> k, verdict |-> v]
<1>1. e \in Entry
  BY DEF Entry
<1>2. CASE Cached(k)
  BY <1>2 DEF TypeOK, Remembered
<1>3. CASE ~Cached(k) /\ Len(cache) = CacheCapacity
  <2>1. cache # <<>> /\ cache \in Seq(Entry)
    BY <1>3 DEF TypeOK
  <2>2. Tail(cache) \in Seq(Entry) /\ Len(Tail(cache)) = Len(cache) - 1
    BY <2>1
  <2>3. /\ Append(Tail(cache), e) \in Seq(Entry)
        /\ Len(Append(Tail(cache), e)) = Len(Tail(cache)) + 1
    BY <2>2, <1>1
  <2> QED BY <2>2, <2>3, <1>3 DEF Remembered
<1>4. CASE ~Cached(k) /\ Len(cache) # CacheCapacity
  <2>1. Append(cache, e) \in Seq(Entry) /\ Len(Append(cache, e)) = Len(cache) + 1
    BY <1>1 DEF TypeOK
  <2> QED BY <2>1, <1>4 DEF Remembered, TypeOK
<1> QED BY <1>2, <1>3, <1>4

\* Shedding touches only evictable commands.
LEMMA TrackKeeps ==
    ASSUME TypeOK, NEW c \in Cmd, NEW slot \in Cmd \cup {NoCmd}, Track(c, slot)
    PROVE  /\ pending' \subseteq pending \cup {c}
           /\ pending \cap {slot} \subseteq pending'
           /\ c = slot => c \in pending'
           /\ since' \in [Cmd -> Nat]
<1>1. since' \in [Cmd -> Nat]
  BY DEF Track, TypeOK
<1>2. /\ pending' \subseteq pending \cup {c}
      /\ \A x \in pending \cup {c} : x \notin Evictable(c, slot) => x \in pending'
  BY DEF Track
<1> QED BY <1>1, <1>2 DEF Evictable

-----------------------------------------------------------------------------
\* The end of the journal decides: over a run of records that reaches it, the
\* highest number of the newest session is above every number of that session.
LEMMA HighestAtTheEnd ==
    ASSUME TypeOK, SessionsInOrder, SeqsIncrease,
           NEW s \in Nat, session <= s, NEW a \in Nat \ {0}
    PROVE  LET h == HighestSeq(s, a, Len(journal))
           IN  /\ h \in Int /\ h >= -1
               /\ a > Len(journal) => h = -1
               /\ a <= Len(journal) =>
                    \A i \in DOMAIN journal : journal[i].session = s => journal[i].seq <= h
<1> DEFINE n == Len(journal)
           I == {j \in a..n : journal[j].session = s}
           seqs == {journal[i].seq : i \in I}
<1>0. n \in Nat /\ DOMAIN journal = 1..n /\ journal \in [1..n -> Record]
  BY DEF TypeOK
<1>1. \A i \in 1..n : journal[i].session \in Nat /\ journal[i].seq \in Nat
  BY <1>0 DEF Record
<1>2. CASE a > n
  <2>1. a..n = {}
    BY <1>2, <1>0
  <2>2. seqs = {}
    BY <2>1
  <2> QED BY <2>2, <1>2, <1>0 DEF HighestSeq
<1>3. CASE a <= n /\ journal[n].session # s
  <2>1. \A i \in 1..n : journal[i].session # s
    <3>0. n \in 1..n /\ journal[n].session \in Nat
      BY <1>3, <1>0, <1>1
    <3>1. journal[n].session <= session
      BY <3>0, <1>0 DEF SessionsInOrder
    <3> HIDE DEF n
    <3>2. n \in 1..n /\ journal[n].session < s
      BY <3>0, <3>1, <1>3 DEF TypeOK
    <3>3. \A i \in 1..n : i < n => journal[i].session <= journal[n].session
      BY <3>2, <1>0 DEF SessionsInOrder
    <3>4. \A i \in 1..n : i = n \/ i < n
      BY <1>0, LastOrBefore
    <3> QED BY <3>2, <3>3, <3>4, <1>1
  <2>2. seqs = {}
    BY <2>1, <1>0
  <2> QED BY <2>1, <2>2, <1>0, <1>3 DEF HighestSeq
<1>4. CASE a <= n /\ journal[n].session = s
  <2>1. n \in I /\ journal[n].seq \in seqs
    BY <1>4, <1>0
  <2>2. \A i \in 1..n : journal[i].session = s => journal[i].seq <= journal[n].seq
    <3>1. n \in 1..n
      BY <1>4, <1>0
    <3>2. \A i \in 1..n : i < n /\ journal[i].session = s => journal[i].seq < journal[n].seq
      BY <3>1, <1>4, <1>0 DEF SeqsIncrease
    <3>3. \A i \in 1..n : i = n \/ i < n
      BY <1>0, LastOrBefore
    <3> HIDE DEF n
    <3> QED BY <3>1, <3>2, <3>3, <1>1
  <2>3. \A x \in seqs : x <= journal[n].seq
    BY <2>2, <1>0
  <2>4. \E m \in seqs : \A x \in seqs : x <= m
    BY <2>1, <2>3
  <2> DEFINE h == CHOOSE m \in seqs : \A x \in seqs : x <= m
  <2>5. h \in seqs /\ \A x \in seqs : x <= h
    BY <2>4
  <2>6. h = HighestSeq(s, a, n)
    <3>1. HighestSeq(s, a, n) = IF seqs = {} THEN -1 ELSE h
      BY DEF HighestSeq
    <3>2. seqs # {}
      BY <2>1
    <3> QED BY <3>1, <3>2
  <2>7. h \in Nat /\ journal[n].seq <= h
    <3>1. h \in seqs /\ journal[n].seq <= h
      BY <2>5, <2>1
    <3>2. seqs \subseteq Nat
      BY <1>1, <1>0
    <3> QED BY <3>1, <3>2
  <2>8. \A i \in 1..n : journal[i].session = s => journal[i].seq <= h
    BY <2>2, <2>7, <1>0, <1>1
  <2> HIDE DEF h
  <2> QED BY <2>6, <2>7, <2>8, <1>0, <1>4
<1> QED BY <1>0, <1>2, <1>3, <1>4

-----------------------------------------------------------------------------
\* Appending a record keeps the journal's invariant: the number allocated is
\* above every number of the session, and rotation moves both segments.
LEMMA WriteKeeps ==
    ASSUME TypeOK, JournalInv, NEW c \in Cmd, Write(c)
    PROVE  JournalInv' /\ journal' \in Seq(Record) /\ nextSeq' \in Nat
           /\ liveFrom' \in Nat \ {0} /\ prevFrom' \in Nat \ {0}
<1> DEFINE r == [cmd |-> c, seq |-> nextSeq, session |-> session]
           n == Len(journal)
<1>1. r \in Record /\ journal' = Append(journal, r) /\ nextSeq' = nextSeq + 1
      /\ session' = session
  BY DEF Write, TypeOK, Record
<1>2. n \in Nat /\ DOMAIN journal = 1..n /\ journal \in Seq(Record)
      /\ nextSeq \in Nat /\ session \in Nat
  BY DEF TypeOK
<1>3. /\ journal' \in Seq(Record) /\ Len(journal') = n + 1 /\ DOMAIN journal' = 1..(n+1)
      /\ journal'[n+1] = r /\ \A i \in 1..n : journal'[i] = journal[i]
  BY <1>1, <1>2
<1>4. \A i \in 1..n : journal[i].session \in Nat /\ journal[i].seq \in Nat
  BY RecordsTyped
<1>5. r.seq = nextSeq /\ r.session = session
  OBVIOUS
<1>6. \A i \in 1..(n+1) : i = n + 1 \/ i \in 1..n
  BY <1>2
<1>7. \A i, j \in 1..(n+1) : i < j => i \in 1..n
  BY <1>2
<1> HIDE DEF n, r
<1>8. NextSeqIsFresh'
  <2>1. \A i \in 1..(n+1) : journal'[i].session = session => journal'[i].seq < nextSeq + 1
    <3>0. \A i \in 1..n : journal[i].session = session => journal[i].seq < nextSeq
      BY <1>2 DEF JournalInv, NextSeqIsFresh
    <3>a. \A x \in Nat : x < nextSeq => x < nextSeq + 1
      BY <1>2
    <3>1. \A i \in 1..n : journal[i].session = session => journal[i].seq < nextSeq + 1
      BY <3>0, <3>a, <1>4
    <3>2. nextSeq < nextSeq + 1
      BY <1>2
    <3> QED BY <3>1, <3>2, <1>3, <1>5, <1>6
  <2> QED BY <2>1, <1>1, <1>3 DEF NextSeqIsFresh
<1>9. SessionsInOrder'
  <2>1. \A i \in 1..(n+1) : journal'[i].session <= session
    BY <1>2, <1>3, <1>5, <1>6 DEF JournalInv, SessionsInOrder
  <2>2. \A i, j \in 1..(n+1) : i < j => journal'[i].session <= journal'[j].session
    BY <1>2, <1>3, <1>5, <1>6, <1>7 DEF JournalInv, SessionsInOrder
  <2> QED BY <2>1, <2>2, <1>1, <1>3 DEF SessionsInOrder
<1>10. SeqsIncrease'
  <2>1. \A i, j \in 1..(n+1) : i < j /\ journal'[i].session = journal'[j].session
            => journal'[i].seq < journal'[j].seq
    BY <1>2, <1>3, <1>5, <1>6, <1>7 DEF JournalInv, NextSeqIsFresh, SeqsIncrease
  <2> QED BY <2>1, <1>3 DEF SeqsIncrease
<1>11. Segments' /\ liveFrom' \in Nat \ {0} /\ prevFrom' \in Nat \ {0}
  <2>1. CASE UNCHANGED <<liveFrom, prevFrom>>
    BY <2>1, <1>2, <1>3 DEF Segments, JournalInv, TypeOK, n
  <2>2. CASE liveFrom <= Len(journal) /\ liveFrom' = Len(journal) + 1 /\ prevFrom' = liveFrom
    BY <2>2, <1>2, <1>3 DEF Segments, JournalInv, TypeOK, n
  <2> QED BY <2>1, <2>2 DEF Write
<1> QED BY <1>1, <1>2, <1>3, <1>8, <1>9, <1>10, <1>11 DEF JournalInv

\* A restarted queue starts above every number its session left on disk,
\* whichever of the two newest files holds the journal's last record.
LEMMA RestartKeeps ==
    ASSUME TypeOK, JournalInv, NEW s \in {session, session + 1}, NEW rotated \in BOOLEAN,
           Restart(s, rotated)
    PROVE  JournalInv' /\ nextSeq' \in Nat /\ session' \in Nat
           /\ liveFrom' \in Nat \ {0} /\ prevFrom' \in Nat \ {0}
<1> DEFINE n == Len(journal)
           live == HighestSeq(s, liveFrom', n)
           prev == HighestSeq(s, prevFrom', liveFrom' - 1)
<1>1. /\ n \in Nat /\ DOMAIN journal = 1..n /\ s \in Nat /\ session <= s
      /\ liveFrom \in Nat \ {0} /\ prevFrom \in Nat \ {0}
  BY DEF TypeOK
<1>2. /\ journal' = journal /\ session' = s
      /\ nextSeq' = (IF live >= 0 THEN live ELSE prev) + 1
  BY DEF Restart, RecoveredSeq
<1>3. /\ liveFrom' \in Nat \ {0} /\ prevFrom' \in Nat \ {0}
      /\ liveFrom' <= n + 1 /\ prevFrom' <= liveFrom'
      /\ liveFrom' > 1 => prevFrom' < liveFrom'
  BY <1>1 DEF Restart, JournalInv, Segments
<1>4. \A i \in 1..n : journal[i].seq \in Nat
  BY RecordsTyped
<1>5. /\ live \in Int /\ live >= -1
      /\ liveFrom' > n => live = -1
      /\ liveFrom' <= n => \A i \in 1..n : journal[i].session = s => journal[i].seq <= live
  BY <1>1, <1>3, HighestAtTheEnd DEF JournalInv
<1>6. /\ nextSeq' \in Nat
      /\ \A i \in 1..n : journal[i].session = s => journal[i].seq < nextSeq'
  <2>1. CASE liveFrom' <= n /\ live >= 0
    <3>1. nextSeq' = live + 1
      BY <2>1, <1>2
    <3>2. \A i \in 1..n : journal[i].session = s => journal[i].seq <= live
      BY <2>1, <1>5
    <3> HIDE DEF live, n
    <3> QED BY <2>1, <3>1, <3>2, <1>4, <1>5
  <2>2. CASE liveFrom' <= n /\ live < 0
    <3>1. \A i \in 1..n : journal[i].session # s
      BY <2>2, <1>4, <1>5
    <3>2. {j \in prevFrom'..(liveFrom' - 1) : journal[j].session = s} = {}
      BY <3>1, <2>2, <1>1, <1>3
    <3>3. prev = -1
      BY <3>2 DEF HighestSeq
    <3>4. ~(live >= 0)
      BY <2>2, <1>5
    <3>5. nextSeq' = prev + 1
      BY <3>4, <1>2
    <3> HIDE DEF live, prev
    <3> QED BY <3>1, <3>3, <3>5
  <2>3. CASE liveFrom' > n
    <3>1. liveFrom' - 1 = n /\ live = -1
      <4>1. live = -1
        BY <2>3, <1>5
      <4>2. liveFrom' - 1 = n
        <5>1. n \in Nat /\ liveFrom' \in Nat /\ liveFrom' <= n + 1 /\ liveFrom' > n
          BY <2>3, <1>1, <1>3
        <5> HIDE DEF n
        <5> QED BY <5>1, OnlySuccessor
      <4> QED BY <4>1, <4>2
    <3>2. prev = HighestSeq(s, prevFrom', n)
      BY <3>1
    <3>3. /\ prev \in Int /\ prev >= -1
          /\ prevFrom' <= n => \A i \in 1..n : journal[i].session = s => journal[i].seq <= prev
      BY <3>2, <1>1, <1>3, HighestAtTheEnd DEF JournalInv
    <3>4. n = 0 \/ prevFrom' <= n
      BY <3>1, <1>1, <1>3
    <3>5. nextSeq' = prev + 1
      BY <3>1, <1>2
    <3> HIDE DEF live, prev, n
    <3> QED BY <3>3, <3>4, <3>5, <1>1, <1>4
  <2>4. liveFrom' <= n \/ liveFrom' > n
    BY <1>1, <1>3
  <2>5. live >= 0 \/ live < 0
    BY <1>5
  <2> HIDE DEF live, n
  <2> QED BY <2>1, <2>2, <2>3, <2>4, <2>5
<1>7. Segments'
  BY <1>2, <1>3 DEF Segments
<1>8. SessionsInOrder' /\ SeqsIncrease'
  <2>1. \A i \in 1..n : journal[i].session \in Nat
    BY RecordsTyped
  <2>2. \A i \in 1..n : journal[i].session <= s
    BY <2>1, <1>1 DEF JournalInv, SessionsInOrder, TypeOK
  <2> QED BY <2>2, <1>1, <1>2 DEF JournalInv, SessionsInOrder, SeqsIncrease
<1>9. NextSeqIsFresh'
  BY <1>1, <1>2, <1>6 DEF NextSeqIsFresh
<1> QED BY <1>1, <1>2, <1>3, <1>6, <1>7, <1>8, <1>9 DEF JournalInv

-----------------------------------------------------------------------------
(* The inductive invariant, and the theorems.                              *)

SlotInv == SlotIsTheOccupier /\ IsFiniteSet(pending) /\ PendingBounded

IInv == TypeOK /\ JournalInv /\ SlotInv

\* Shipping or stopping: shedding never makes the tracked set outgrow its
\* limit, because at most one tracked command is not evictable.
LEMMA TrackBounds ==
    ASSUME TypeOK, IsFiniteSet(pending), PendingBounded,
           NEW c \in Cmd, NEW slot \in Cmd \cup {NoCmd}, Track(c, slot)
    PROVE  IsFiniteSet(pending') /\ PendingBounded'
<1> DEFINE all == pending \cup {c}
<1>1. IsFiniteSet(all) /\ Cardinality(all) \in Nat /\ Cardinality(pending) \in Nat
      /\ Cardinality(all) <= Cardinality(pending) + 1
  <2>1. /\ IsFiniteSet(all)
        /\ Cardinality(all) = Cardinality(pending) \/ Cardinality(all) = Cardinality(pending) + 1
    BY FS_AddElement
  <2>2. Cardinality(all) \in Nat /\ Cardinality(pending) \in Nat
    BY <2>1, FS_CardinalityType
  <2> HIDE DEF all
  <2> QED BY <2>1, <2>2
<1>2. CASE Cardinality(all) > PendingLimit /\ Evictable(c, slot) # {}
  <2>1. PICK v \in Evictable(c, slot) : pending' = all \ {v}
    BY <1>2 DEF Track
  <2>2. v \in all
    BY DEF Evictable
  <2> HIDE DEF all
  <2>3. IsFiniteSet(all \ {v}) /\ Cardinality(all \ {v}) = Cardinality(all) - 1
    BY <2>2, <1>1, FS_RemoveElement
  <2> QED BY <2>1, <2>3, <1>1 DEF PendingBounded
<1>3. CASE Evictable(c, slot) = {}
  <2>1. all = {slot} \/ all = {}
    BY <1>3 DEF Evictable
  <2>2. pending' = all
    BY <1>3 DEF Track
  <2>3. Cardinality(all) <= 1
    <3>1. Cardinality({slot}) = 1 /\ Cardinality({}) = 0
      BY FS_Singleton, FS_EmptySet
    <3> QED BY <2>1, <3>1
  <2> QED BY <2>2, <2>3, <1>1 DEF PendingBounded
<1>4. CASE ~(Cardinality(all) > PendingLimit)
  <2>1. pending' = all
    BY <1>4 DEF Track
  <2> HIDE DEF all
  <2> QED BY <2>1, <1>4, <1>1 DEF PendingBounded
<1> QED BY <1>2, <1>3, <1>4

\* Forgetting a tracked command keeps the bound.
LEMMA ForgetBounds ==
    ASSUME IsFiniteSet(pending), PendingBounded, NEW c, pending' = pending \ {c}
    PROVE  IsFiniteSet(pending') /\ PendingBounded'
<1>1. IsFiniteSet(pending') /\ Cardinality(pending') <= Cardinality(pending)
  BY FS_Subset
<1>2. Cardinality(pending') \in Nat /\ Cardinality(pending) \in Nat
  BY <1>1, FS_CardinalityType
<1> QED BY <1>1, <1>2 DEF PendingBounded

\* The invariant holds at the start.
LEMMA InitIInv == Init => IInv
<1> SUFFICES ASSUME Init PROVE IInv
  OBVIOUS
<1>1. TypeOK
  BY DEF Init, TypeOK
<1>2. JournalInv
  BY DEF Init, JournalInv, Segments, SessionsInOrder, NextSeqIsFresh, SeqsIncrease
<1>3. SlotInv
  BY FS_EmptySet DEF Init, SlotInv, SlotIsTheOccupier, PendingBounded
<1> QED BY <1>1, <1>2, <1>3 DEF IInv

-----------------------------------------------------------------------------
\* The actions that write nothing and leave the slot and the table alone.
LEMMA JournalUntouched ==
    ASSUME JournalInv, UNCHANGED <<session, nextSeq, journal, liveFrom, prevFrom>>
    PROVE  JournalInv'
BY DEF JournalInv, Segments, SessionsInOrder, NextSeqIsFresh, SeqsIncrease

\* Nor does one that touches neither the table nor the slot.
LEMMA SlotUntouched ==
    ASSUME SlotInv, UNCHANGED <<pending, inFlight>>
    PROVE  SlotInv'
BY DEF SlotInv, SlotIsTheOccupier, PendingBounded

\* Every step keeps the invariant, one step of the proof per action.
LEMMA StepIInv == IInv /\ [Next]_vars => IInv'
<1> SUFFICES ASSUME IInv, [Next]_vars PROVE IInv'
  OBVIOUS
<1> USE DEF IInv
<1>1. ASSUME NEW c \in Cmd, RejectForeign(c) PROVE IInv'
  <2>1. TypeOK'
    BY <1>1, RememberedType DEF RejectForeign, wire, TypeOK, Verdict
  <2> QED BY <2>1, <1>1, JournalUntouched, SlotUntouched DEF RejectForeign, wire
<1>2. ASSUME NEW c \in Cmd, RejectExpired(c) PROVE IInv'
  <2>1. TypeOK'
    BY <1>2, RememberedType DEF RejectExpired, wire, TypeOK, Verdict
  <2> QED BY <2>1, <1>2, JournalUntouched, SlotUntouched DEF RejectExpired, wire
<1>3. ASSUME NEW c \in Cmd, Ship(c) PROVE IInv'
  <2>1. /\ Write(c) /\ Track(c, inFlight') /\ UNCHANGED <<now, cache, lastAck>>
        /\ inFlight' \in Cmd \cup {NoCmd}
        /\ inFlight' = IF c \in Occupying THEN c ELSE inFlight
    BY <1>3 DEF Ship, TypeOK
  <2>2. JournalInv' /\ TypeOK'
    BY <2>1, WriteKeeps, TrackKeeps DEF TypeOK, Write
  <2>3. SlotIsTheOccupier'
    <3>1. c \in Occupying => inFlight = NoCmd
      BY <1>3 DEF Ship, AnsweredWithoutWriting
    <3> QED BY <3>1, <2>1, TrackKeeps DEF SlotInv, SlotIsTheOccupier, TypeOK
  <2> QED BY <2>1, <2>2, <2>3, TrackBounds DEF SlotInv
<1>4. ASSUME NEW c \in Cmd, SendStop(c) PROVE IInv'
  <2>1. /\ Write(c) /\ Track(c, inFlight) /\ UNCHANGED <<now, inFlight, cache, lastAck>>
        /\ inFlight \in Cmd \cup {NoCmd} /\ c \notin Occupying
    BY <1>4 DEF SendStop, TypeOK
  <2>2. JournalInv' /\ TypeOK'
    BY <2>1, WriteKeeps, TrackKeeps DEF TypeOK, Write
  <2>3. SlotIsTheOccupier'
    BY <2>1, TrackKeeps DEF SlotInv, SlotIsTheOccupier, TypeOK
  <2> QED BY <2>1, <2>2, <2>3, TrackBounds DEF SlotInv
<1>5. ASSUME NEW c \in Cmd, NEW v \in Terminal, NEW seq \in 0..MaxAckSeq,
             PollTerminalAck(c, v, seq)
      PROVE  IInv'
  <2>1. KeyOf[c] \in Key /\ v \in Verdict
    BY DEF Verdict
  <2>2. TypeOK'
    <3>1. lastAck' \in Int /\ pending' \subseteq Cmd /\ inFlight' \in Cmd \cup {NoCmd}
      BY <1>5 DEF PollTerminalAck, RecordAck, TypeOK
    <3>2. cache' \in Seq(Entry) /\ Len(cache') <= CacheCapacity
      BY <1>5, <2>1, RememberedType DEF PollTerminalAck, RecordAck, TypeOK
    <3> QED BY <1>5, <3>1, <3>2 DEF PollTerminalAck, wire, TypeOK
  <2>3. SlotIsTheOccupier'
    BY <1>5 DEF PollTerminalAck, RecordAck, SlotInv, SlotIsTheOccupier
  <2> QED BY <2>2, <2>3, <1>5, JournalUntouched, ForgetBounds
          DEF PollTerminalAck, RecordAck, wire, SlotInv
<1>6. ASSUME NEW seq \in 0..MaxAckSeq, PollProgressAck(seq) PROVE IInv'
  <2>1. TypeOK'
    BY <1>6 DEF PollProgressAck, wire, TypeOK
  <2> QED BY <2>1, <1>6, JournalUntouched, SlotUntouched DEF PollProgressAck, wire
<1>7. CASE CloseInFlight
  <2>1. inFlight \in Cmd /\ KeyOf[inFlight] \in Key /\ "lost" \in Verdict
    BY <1>7 DEF CloseInFlight, TypeOK, Verdict
  <2>2. TypeOK'
    BY <1>7, <2>1, RememberedType DEF CloseInFlight, wire, TypeOK
  <2>3. SlotIsTheOccupier'
    BY <1>7 DEF CloseInFlight, SlotInv, SlotIsTheOccupier
  <2> QED BY <2>2, <2>3, <1>7, JournalUntouched, ForgetBounds
          DEF CloseInFlight, wire, SlotInv
<1>8. ASSUME NEW s \in {session, session + 1}, NEW rotated \in BOOLEAN, Restart(s, rotated)
      PROVE  IInv'
  <2>1. JournalInv' /\ TypeOK'
    BY <1>8, RestartKeeps DEF Restart, TypeOK
  <2>2. SlotInv'
    BY <1>8, FS_EmptySet DEF Restart, SlotInv, SlotIsTheOccupier, PendingBounded
  <2> QED BY <2>1, <2>2
<1>9. CASE Tick
  <2>1. TypeOK'
    BY <1>9 DEF Tick, wire, TypeOK
  <2> QED BY <2>1, <1>9, JournalUntouched, SlotUntouched DEF Tick, wire
<1>10. CASE UNCHANGED vars
  <2>1. TypeOK'
    BY <1>10 DEF vars, TypeOK
  <2> QED BY <2>1, <1>10, JournalUntouched, SlotUntouched DEF vars
<1> QED BY <1>1, <1>2, <1>3, <1>4, <1>5, <1>6, <1>7, <1>8, <1>9, <1>10 DEF Next

\* The tables of the queue keep their types and the cache its bound.
THEOREM TypeCorrect == Spec => []TypeOK
<1>1. IInv => TypeOK
  BY DEF IInv
<1> QED BY <1>1, InitIInv, StepIInv, PTL DEF Spec

\* Backpressure: the tracked command that occupies the character's queue is
\* the one in the slot, for any limits, keys, leases and stops.
THEOREM Backpressure == Spec => []SlotIsTheOccupier
<1>1. IInv => SlotIsTheOccupier
  BY DEF IInv, SlotInv
<1> QED BY <1>1, InitIInv, StepIInv, PTL DEF Spec

\* The table of shipped commands stays within pending_limit.
THEOREM PendingStaysBounded == Spec => []PendingBounded
<1>1. IInv => PendingBounded
  BY DEF IInv, SlotInv
<1> QED BY <1>1, InitIInv, StepIInv, PTL DEF Spec

\* A restarted sidecar never reuses a sequence number of its session.
THEOREM SequenceNumbersAreNeverReused == Spec => []SeqsIncrease
<1>1. IInv => SeqsIncrease
  BY DEF IInv, JournalInv
<1> QED BY <1>1, InitIInv, StepIInv, PTL DEF Spec
-----------------------------------------------------------------------------
(* The answers on file.                                                    *)

\* A key has one entry in the cache.
OneEntryPerKey == \A i, j \in DOMAIN cache : cache[i].key = cache[j].key => i = j

AnswersInv == IInv /\ OneEntryPerKey

\* No entry under a cached key is another one afterwards.
EntriesStand ==
    \A i \in DOMAIN cache, j \in DOMAIN cache' :
        cache[i].key = cache'[j].key => cache[i] = cache'[j]

AnsweredFor(k) == \E i \in DOMAIN cache' : cache'[i].key = k

\* remember files a key once, keeps what it keeps and leaves an answer for it.
LEMMA RememberedKeeps ==
    ASSUME TypeOK, OneEntryPerKey, NEW k \in Key, NEW v \in Verdict,
           cache' = Remembered(k, v)
    PROVE  OneEntryPerKey' /\ EntriesStand /\ AnsweredFor(k)
<1> DEFINE e == [key |-> k, verdict |-> v]
<1>1. CASE Cached(k)
  BY <1>1 DEF Cached, Remembered, OneEntryPerKey, EntriesStand, AnsweredFor
<1>2. CASE ~Cached(k)
  <2>1. PICK d \in {0, 1} : /\ d = 1 => cache # <<>>
                            /\ cache' = Append(IF d = 1 THEN Tail(cache) ELSE cache, e)
    BY <1>2 DEF Remembered, TypeOK
  <2>2. /\ Len(cache') = Len(cache) - d + 1
        /\ cache'[Len(cache')] = e
        /\ \A j \in 1..(Len(cache') - 1) : cache'[j] = cache[j + d]
        /\ DOMAIN cache' = 1..Len(cache') /\ DOMAIN cache = 1..Len(cache)
        /\ Len(cache) \in Nat /\ Len(cache) >= d
    <3>1. CASE d = 0 BY <2>1, <3>1 DEF TypeOK
    <3>2. CASE d = 1
      <4>1. Tail(cache) \in Seq(Entry) /\ Len(Tail(cache)) = Len(cache) - 1
            /\ \A j \in 1..(Len(cache) - 1) : Tail(cache)[j] = cache[j + 1]
        BY <2>1, <3>2 DEF TypeOK
      <4> QED BY <2>1, <3>2, <4>1 DEF TypeOK
    <3> QED BY <3>1, <3>2
  <2>3. \A i \in DOMAIN cache : cache[i].key # k BY <1>2 DEF Cached
  <2>4. \A j \in DOMAIN cache' :
            (j = Len(cache') /\ cache'[j] = e)
            \/ (j < Len(cache') /\ j + d \in DOMAIN cache /\ cache'[j] = cache[j + d])
    <3> SUFFICES ASSUME NEW j \in DOMAIN cache', j # Len(cache')
                 PROVE  j < Len(cache') /\ j + d \in DOMAIN cache /\ cache'[j] = cache[j + d]
      BY <2>2
    <3>1. j \in 1..(Len(cache') - 1) /\ Len(cache') \in Nat BY <2>2
    <3>2. cache'[j] = cache[j + d] BY <2>2, <3>1
    <3> QED BY <2>2, <3>1, <3>2
  <2>5. OneEntryPerKey'
    <3> SUFFICES ASSUME NEW i \in DOMAIN cache', NEW j \in DOMAIN cache',
                        cache'[i].key = cache'[j].key
                 PROVE  i = j
      BY DEF OneEntryPerKey
    <3>1. CASE i + d \in DOMAIN cache /\ cache'[i] = cache[i + d] /\ i < Len(cache')
               /\ j + d \in DOMAIN cache /\ cache'[j] = cache[j + d] /\ j < Len(cache')
      <4>1. i + d = j + d BY <3>1 DEF OneEntryPerKey
      <4> QED BY <2>2, <4>1
    <3> QED BY <2>3, <2>4, <3>1
  <2>6. EntriesStand
    <3> SUFFICES ASSUME NEW i \in DOMAIN cache, NEW j \in DOMAIN cache',
                        cache[i].key = cache'[j].key
                 PROVE  cache[i] = cache'[j]
      BY DEF EntriesStand
    <3> QED BY <2>3, <2>4 DEF OneEntryPerKey
  <2>7. AnsweredFor(k) BY <2>2 DEF AnsweredFor
  <2> QED BY <2>5, <2>6, <2>7
<1> QED BY <1>1, <1>2

\* What a step does to the answers on file, and to the slot.
StepAnswers ==
    /\ OneEntryPerKey'
    /\ restarts' = restarts =>
          /\ EntriesStand
          /\ inFlight # NoCmd /\ inFlight' # inFlight => AnsweredFor(KeyOf[inFlight])

LEMMA UnchangedAnswers ==
    ASSUME OneEntryPerKey, UNCHANGED cache, inFlight = NoCmd \/ UNCHANGED inFlight
    PROVE  StepAnswers
BY DEF OneEntryPerKey, EntriesStand, StepAnswers

LEMMA StepKeepsAnswers == AnswersInv /\ [Next]_vars => StepAnswers
<1> SUFFICES ASSUME AnswersInv, [Next]_vars PROVE StepAnswers
  OBVIOUS
<1>1. TypeOK /\ OneEntryPerKey /\ SlotIsTheOccupier
  BY DEF AnswersInv, IInv, SlotInv
<1>2. ASSUME NEW c \in Cmd, RejectForeign(c) PROVE StepAnswers
  BY <1>1, <1>2, RememberedKeeps DEF RejectForeign, Verdict, StepAnswers
<1>3. ASSUME NEW c \in Cmd, RejectExpired(c) PROVE StepAnswers
  BY <1>1, <1>3, RememberedKeeps DEF RejectExpired, Verdict, StepAnswers
<1>4. ASSUME NEW c \in Cmd, Ship(c) PROVE StepAnswers
  <2>1. inFlight = NoCmd \/ UNCHANGED inFlight
    BY <1>4 DEF Ship, AnsweredWithoutWriting
  <2> QED BY <1>1, <1>4, <2>1, UnchangedAnswers DEF Ship
<1>5. ASSUME NEW c \in Cmd, SendStop(c) PROVE StepAnswers
  BY <1>1, <1>5, UnchangedAnswers DEF SendStop
<1>6. ASSUME NEW c \in Cmd, NEW v \in Terminal, NEW seq \in 0..MaxAckSeq,
             PollTerminalAck(c, v, seq)
      PROVE  StepAnswers
  <2>1. CASE c \in pending
    <3>1. cache' = Remembered(KeyOf[c], v) BY <1>6, <2>1 DEF PollTerminalAck, RecordAck
    <3>2. OneEntryPerKey' /\ EntriesStand /\ AnsweredFor(KeyOf[c])
      BY <1>1, <3>1, RememberedKeeps DEF Verdict
    <3>3. inFlight' # inFlight => inFlight = c BY <1>6 DEF PollTerminalAck, RecordAck
    <3> QED BY <3>2, <3>3 DEF StepAnswers
  <2>2. CASE c \notin pending
    <3>1. UNCHANGED cache BY <1>6, <2>2 DEF PollTerminalAck, RecordAck
    <3>2. inFlight # c
      BY <1>1, <2>2, CmdAssumption DEF SlotIsTheOccupier
    <3>3. UNCHANGED inFlight BY <1>6, <3>2 DEF PollTerminalAck, RecordAck
    <3> QED BY <1>1, <3>1, <3>3, UnchangedAnswers
  <2> QED BY <2>1, <2>2
<1>7. ASSUME NEW seq \in 0..MaxAckSeq, PollProgressAck(seq) PROVE StepAnswers
  BY <1>1, <1>7, UnchangedAnswers DEF PollProgressAck
<1>8. CASE CloseInFlight
  <2>1. inFlight \in Cmd /\ cache' = Remembered(KeyOf[inFlight], "lost")
    BY <1>1, <1>8 DEF CloseInFlight, TypeOK
  <2> QED BY <1>1, <2>1, RememberedKeeps DEF Verdict, StepAnswers
<1>9. ASSUME NEW s \in {session, session + 1}, NEW rotated \in BOOLEAN, Restart(s, rotated)
      PROVE  StepAnswers
  BY <1>1, <1>9 DEF Restart, TypeOK, OneEntryPerKey, StepAnswers
<1>10. CASE Tick
  BY <1>1, <1>10, UnchangedAnswers DEF Tick
<1>11. CASE UNCHANGED vars
  BY <1>1, <1>11, UnchangedAnswers DEF vars
<1> QED BY <1>2, <1>3, <1>4, <1>5, <1>6, <1>7, <1>8, <1>9, <1>10, <1>11 DEF Next

LEMMA AnswersInvariant == Spec => []AnswersInv
<1>1. Init => AnswersInv
  BY InitIInv DEF Init, AnswersInv, OneEntryPerKey
<1>2. AnswersInv /\ [Next]_vars => AnswersInv'
  BY StepIInv, StepKeepsAnswers DEF AnswersInv, StepAnswers
<1> QED BY <1>1, <1>2, PTL DEF Spec

\* The first terminal result of a key stands while it is cached (queue.py,
\* remember): late acks, rejections and closures rewrite nothing.
THEOREM AnswersAreNotRewritten == Spec => FirstResultStands
<1>1. AnswersInv /\ [Next]_vars =>
        [restarts' = restarts =>
            \A i \in DOMAIN cache, j \in DOMAIN cache' :
                cache[i].key = cache'[j].key => cache[i] = cache'[j]]_vars
  BY StepKeepsAnswers DEF StepAnswers, EntriesStand
<1> QED BY <1>1, AnswersInvariant, PTL DEF Spec, FirstResultStands

\* The slot is given up only with an answer on file for its command's key, so a
\* redelivery replays it instead of running again.
THEOREM SlotsLeaveAnswers == Spec => SlotFreedWithAnAnswer
<1>1. AnswersInv /\ [Next]_vars =>
        [restarts' = restarts /\ inFlight # NoCmd /\ inFlight' # inFlight
            => \E i \in DOMAIN cache' : cache'[i].key = KeyOf[inFlight]]_vars
  BY StepKeepsAnswers DEF StepAnswers, AnsweredFor
<1> QED BY <1>1, AnswersInvariant, PTL DEF Spec, SlotFreedWithAnAnswer
=============================================================================
