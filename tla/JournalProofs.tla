------------------------------ MODULE JournalProofs ------------------------------
(***************************************************************************)
(* What is proved about Journal, for journals and budgets of any size and  *)
(* any number of crashes, restarts and refused opens: it implements the    *)
(* promise of Stream.                                                      *)
(*                                                                         *)
(* The argument: a serial counts the files that came before, so a reader   *)
(* that finds the serial it knows is in the file it knows; and where it    *)
(* finds another it is told of what it has missed.                         *)
(***************************************************************************)
EXTENDS Journal, FiniteSetTheorems, TLAPS

\* The faults under which a serial does not tell one file from another, or a
\* report is lost, do not happen.
SerialsTell == Faults \cap {"reborn", "unread", "failed"} = {}

Sent == StreamOf!Sent
Before(g) == StreamOf!Before(g)

\* The lines whose records have been committed.
Committed ==
    {l \in [kind : {"head", "mark", "torn", "rec", "ruin"}, rec : Nat] :
        /\ l.kind = "rec" => l.rec \in Sent
        /\ l.kind = "ruin" => l.rec \in Sent \cup {0}}

\* The log's records are numbered as they are committed.
LogInv ==
    /\ log \in Seq(SUBSET Nat)
    /\ IsFiniteSet(Sent) /\ Sent = 1..Cardinality(Sent) /\ Cardinality(Sent) <= MaxRecords

\* The live file is the last generation, and its serial counts those before it.
FileInv ==
    /\ live \in [serial : Int, gen : Nat, lines : Seq(Committed)]
    /\ writer \in [pc : {"down", "ready", "marked", "moved", "closed"}, serial : Int]
    /\ live # Absent =>
          Len(log) > 0 /\ live.gen = Len(log) /\ live.serial = Len(log) - 1
    /\ live = Absent => writer.pc = "moved" \/ (writer.pc = "down" /\ log = <<>>)
    /\ writer.pc \in {"marked", "moved"} => writer.serial = Len(log)

\* The reader stands where its serial says, or will at the end of its poll.
PlaceInv ==
    /\ at \in 0..Len(log)
    /\ reader = [serial |-> reader.serial, pos |-> reader.pos, held |-> reader.held]
    /\ reader.serial \in Int /\ reader.pos \in Int
    /\ stream = "commands" => reader.pos \in Nat
    /\ poll.at = "idle" \/ stream = "acks" => at = reader.serial + 1
    /\ poll.at # "idle" =>
          /\ poll.serial \in Int /\ poll.gen = poll.serial + 1
          /\ poll.gen \in {0} \cup at..Len(log) /\ poll.start \in Nat
          /\ stream = "commands" => reader.serial = poll.serial
          /\ ~poll.told => at = 0 \/ poll.gen = at
          /\ poll.at = "seek" => at = 0 /\ stream = "acks"

\* What the reader has left was delivered or reported.
PassedInv == got \subseteq Sent /\ gone \subseteq Sent /\ Before(at) \subseteq got \cup gone

JInv == stream \in {"commands", "acks"} /\ LogInv /\ FileInv /\ PlaceInv /\ PassedInv

Kept == JInv' /\ [StreamOf!Next]_(StreamOf!vars)

LEMMA InitHolds == Init => JInv /\ StreamOf!Init
  <1> SUFFICES ASSUME Init PROVE JInv /\ StreamOf!Init OBVIOUS
  <1>1. Sent = {} BY DEF Init, Sent, StreamOf!Sent
  <1>2. IsFiniteSet({}) /\ Cardinality({}) = 0 BY FS_EmptySet
  <1>3. LogInv
    <2>1. log \in Seq(SUBSET Nat) BY DEF Init
    <2> QED BY <1>1, <1>2, <2>1, JournalAssumption DEF LogInv
  <1>4. FileInv BY DEF Init, Absent, NoSerial, FileInv
  <1>5. PlaceInv BY DEF Init, At, Idle, NoSerial, PlaceInv
  <1>6. PassedInv BY DEF Init, PassedInv, Before, StreamOf!Before
  <1>7. stream \in {"commands", "acks"} BY JournalAssumption DEF Init
  <1>8. StreamOf!Init BY DEF Init, StreamOf!Init
  <1> QED BY <1>3, <1>4, <1>5, <1>6, <1>7, <1>8 DEF JInv

-----------------------------------------------------------------------------
(* The log.                                                                *)

LEMMA NewGeneration ==
    ASSUME LogInv, log' = Append(log, {})
    PROVE  /\ LogInv' /\ Sent' = Sent /\ Len(log') = Len(log) + 1 /\ Committed' = Committed
           /\ \A g \in 0..Len(log) : Before(g)' = Before(g)
  <1>1. log \in Seq(SUBSET Nat) BY DEF LogInv
  <1>2. Len(log) \in Nat /\ Len(log') = Len(log) + 1 /\ log' \in Seq(SUBSET Nat)
    BY <1>1
  <1>3. \A g \in 1..Len(log) : log'[g] = log[g] BY <1>1
  <1>4. log'[Len(log) + 1] = {} BY <1>1
  <1>5. Sent' = Sent
    <2>1. \A x : x \in Sent' => x \in Sent
      BY <1>2, <1>3, <1>4 DEF Sent, StreamOf!Sent
    <2>2. \A x : x \in Sent => x \in Sent'
      BY <1>2, <1>3 DEF Sent, StreamOf!Sent
    <2> QED BY <2>1, <2>2
  <1>6. \A g \in 0..Len(log) : Before(g)' = Before(g)
    BY <1>2, <1>3 DEF Before, StreamOf!Before
  <1>7. LogInv' BY <1>2, <1>5 DEF LogInv
  <1>8. Committed' = Committed BY <1>5 DEF Committed
  <1> QED BY <1>2, <1>5, <1>6, <1>7, <1>8

LEMMA Below ==
    \A n \in Nat : \A g \in 0..n : \A h \in 1..(g - 1) : h \in 1..n /\ h # n
  OBVIOUS

LEMMA AddedToTheLast ==
    ASSUME log \in Seq(SUBSET Nat), Len(log) > 0, NEW r \in Nat,
           log' = [log EXCEPT ![Len(log)] = @ \cup {r}]
    PROVE  /\ log' \in Seq(SUBSET Nat) /\ Len(log') = Len(log) /\ Sent' = Sent \cup {r}
           /\ \A g \in 0..Len(log) : Before(g)' = Before(g)
  <1>1. Len(log) \in Nat /\ Len(log') = Len(log) /\ log' \in Seq(SUBSET Nat) OBVIOUS
  <1>2. \A g \in 1..Len(log) : g # Len(log) => log'[g] = log[g]
    <2>1. log \in [1..Len(log) -> SUBSET Nat] OBVIOUS
    <2> QED BY <2>1, Zenon
  <1>3. Len(log) \in 1..Len(log) /\ log'[Len(log)] = log[Len(log)] \cup {r} BY <1>1
  <1>4. ASSUME NEW x PROVE x \in Sent' <=> x \in Sent \cup {r}
    <2>1. x \in Sent' <=> \E g \in 1..Len(log) : x \in log'[g]
      BY <1>1 DEF Sent, StreamOf!Sent
    <2>2. x \in Sent <=> \E g \in 1..Len(log) : x \in log[g] BY DEF Sent, StreamOf!Sent
    <2>3. x \in Sent' => x \in Sent \cup {r} BY <1>2, <1>3, <2>1, <2>2
    <2>4. x \in Sent => x \in Sent'
      <3>1. SUFFICES ASSUME NEW g \in 1..Len(log), x \in log[g]
                     PROVE  \E h \in 1..Len(log) : x \in log'[h]
        BY <2>1, <2>2
      <3> QED BY <1>2, <1>3, <3>1
    <2>5. r \in Sent' BY <1>1, <1>3 DEF Sent, StreamOf!Sent
    <2> QED BY <2>3, <2>4, <2>5
  <1>5. Sent' = Sent \cup {r} BY <1>4
  <1>6. ASSUME NEW g \in 0..Len(log) PROVE Before(g)' = Before(g)
    <2>1. \A h \in 1..(g - 1) : h \in 1..Len(log) /\ h # Len(log) BY <1>1, Below, Zenon
    <2>2. \A h \in 1..(g - 1) : log'[h] = log[h] BY <1>2, <2>1, Zenon
    <2> QED BY <2>2 DEF Before, StreamOf!Before
  <1> QED BY <1>1, <1>5, <1>6

LEMMA NewRecord ==
    ASSUME LogInv, Len(log) > 0, Cardinality(Sent) < MaxRecords,
           log' = [log EXCEPT ![Len(log)] = @ \cup {Cardinality(Sent) + 1}]
    PROVE  /\ LogInv' /\ Sent' = Sent \cup {Cardinality(Sent) + 1}
           /\ Cardinality(Sent) + 1 \in (1..MaxRecords) \ Sent /\ Len(log') = Len(log)
           /\ \A g \in 0..Len(log) : Before(g)' = Before(g)
  <1> DEFINE r == Cardinality(Sent) + 1
  <1>1. log \in Seq(SUBSET Nat) /\ Cardinality(Sent) \in Nat
    BY FS_CardinalityType DEF LogInv
  <1>2. r \in (1..MaxRecords) \ Sent BY <1>1, JournalAssumption DEF LogInv
  <1>3. log' = [log EXCEPT ![Len(log)] = @ \cup {r}] OBVIOUS
  <1>4. r = Cardinality(Sent) + 1 OBVIOUS
  <1> HIDE DEF r
  <1>9. r \in Nat BY <1>2
  <1>5. /\ log' \in Seq(SUBSET Nat) /\ Len(log') = Len(log) /\ Sent' = Sent \cup {r}
        /\ \A g \in 0..Len(log) : Before(g)' = Before(g)
    BY <1>1, <1>3, <1>9, AddedToTheLast
  <1>6. IsFiniteSet(Sent') /\ Cardinality(Sent') = r
    <2>1. IsFiniteSet(Sent) BY DEF LogInv
    <2>2. IsFiniteSet(Sent \cup {r}) /\ Cardinality(Sent \cup {r}) = Cardinality(Sent) + 1
      BY <1>2, <2>1, FS_AddElement
    <2> QED BY <1>4, <1>5, <2>2
  <1>7. Sent' = 1..r BY <1>1, <1>4, <1>5 DEF LogInv
  <1>8. LogInv'
    <2>1. r <= MaxRecords BY <1>2, <1>9, JournalAssumption
    <2> QED BY <1>5, <1>6, <1>7, <2>1 DEF LogInv
  <1> QED BY <1>2, <1>4, <1>5, <1>8

\* What a fragment and the next line become is a line whose record is committed.
LEMMA JoinedTypes ==
    ASSUME NEW S, S = [kind : {"head", "mark", "torn", "rec", "ruin"}, rec : Nat],
           NEW C \in SUBSET S, NEW lines \in Seq(C), NEW line \in C,
           Ruin(line.rec) \in C
    PROVE  Joined(lines, line) \in Seq(C)
  <1>1. CASE lines # <<>> /\ Last(lines).kind = "torn"
    <2>1. Front(lines) \in Seq(C) BY <1>1 DEF Front
    <2> QED BY <1>1, <2>1 DEF Joined
  <1>2. CASE ~(lines # <<>> /\ Last(lines).kind = "torn")
    BY <1>2 DEF Joined
  <1> QED BY <1>1, <1>2

\* The place of the reader does not depend on what is added to the log.
LEMMA LogGrows ==
    ASSUME JInv, UNCHANGED <<stream, reader, poll, at, got, gone>>, Sent \subseteq Sent',
           log' \in Seq(SUBSET Nat), Len(log') >= Len(log),
           \A g \in 0..Len(log) : Before(g)' = Before(g)
    PROVE  PlaceInv' /\ PassedInv'
  <1>1. Len(log) \in Nat /\ Len(log') \in Nat BY DEF JInv, LogInv
  <1>2. at \in 0..Len(log) BY DEF JInv, PlaceInv
  <1>3. PlaceInv' BY <1>1 DEF JInv, PlaceInv
  <1>4. Before(at)' = Before(at) BY <1>2
  <1>5. PassedInv' BY <1>4 DEF JInv, PassedInv
  <1> QED BY <1>3, <1>5

-----------------------------------------------------------------------------
(* The writers.                                                            *)

LEMMA StreamStutters == UNCHANGED promise => [StreamOf!Next]_(StreamOf!vars)
  BY DEF promise, StreamOf!vars

\* A step that leaves the log, the reader and its poll alone.
LEMMA FileStep ==
    ASSUME JInv, UNCHANGED <<stream, reader, poll, promise>>, FileInv'
    PROVE  Kept
  <1>1. log' = log /\ at' = at /\ got' = got /\ gone' = gone BY DEF promise
  <1>2. LogInv' BY <1>1 DEF JInv, LogInv, Sent, StreamOf!Sent
  <1>3. PlaceInv' BY <1>1 DEF JInv, PlaceInv
  <1>4. PassedInv' BY <1>1 DEF JInv, PassedInv, Sent, Before, StreamOf!Sent, StreamOf!Before
  <1> QED BY <1>2, <1>3, <1>4, StreamStutters DEF JInv, Kept

\* Lines that are added to a file that goes on.
LEMMA MoreLines ==
    ASSUME FileInv, live # Absent, log \in Seq(SUBSET Nat), Len(log') = Len(log),
           Committed \subseteq Committed', live' = [live EXCEPT !.lines = live'.lines],
           live'.lines \in Seq(Committed'),
           writer' \in [pc : {"down", "ready", "marked", "moved", "closed"}, serial : Int],
           \/ writer'.pc \in {"down", "ready", "closed"}
           \/ writer'.pc = "marked" /\ writer'.serial = live.serial + 1
    PROVE  FileInv'
  <1>1. live \in [serial : Int, gen : Nat, lines : Seq(Committed)] /\ Len(log) \in Nat
        /\ Len(log) > 0 /\ live.gen = Len(log) /\ live.serial = Len(log) - 1
    BY DEF FileInv
  <1>2. live'.serial = live.serial /\ live'.gen = live.gen BY <1>1
  <1>3. live' \in [serial : Int, gen : Nat, lines : Seq(Committed')] BY <1>1, <1>2
  <1>4. live' # Absent BY <1>1, <1>2 DEF Absent, NoSerial
  <1>5. writer'.pc \in {"marked", "moved"} => writer'.serial = Len(log')
    BY <1>1
  <1> QED BY <1>1, <1>2, <1>3, <1>4, <1>5 DEF FileInv

\* The next file, whose serial counts the files before it.
LEMMA NextFileStep ==
    ASSUME JInv, StartFile(Len(log)), writer'.pc = "ready",
           writer' \in [pc : {"down", "ready", "marked", "moved", "closed"}, serial : Int],
           UNCHANGED <<stream, reader, poll, at, got, gone>>
    PROVE  Kept
  <1>1. log' = Append(log, {}) BY DEF StartFile
  <1>2. /\ LogInv' /\ Sent' = Sent /\ Len(log') = Len(log) + 1 /\ Committed' = Committed
        /\ \A g \in 0..Len(log) : Before(g)' = Before(g)
    BY <1>1, NewGeneration DEF JInv
  <1>3. Len(log) \in Nat /\ log' \in Seq(SUBSET Nat) BY <1>2 DEF JInv, LogInv
  <1>4. PlaceInv' /\ PassedInv' BY <1>2, <1>3, LogGrows
  <1>5. FileInv'
    <2>1. live' = [serial |-> Len(log), gen |-> Len(log) + 1, lines |-> <<Header>>]
      BY DEF StartFile
    <2>2. Header \in Committed BY DEF Header, Committed
    <2>3. live' \in [serial : Int, gen : Nat, lines : Seq(Committed')]
      BY <1>2, <1>3, <2>1, <2>2
    <2>4. live' # Absent BY <1>3, <2>1 DEF Absent, NoSerial
    <2> QED BY <1>2, <1>3, <2>1, <2>3, <2>4 DEF FileInv
  <1>6. [StreamOf!Next]_(StreamOf!vars)
    BY <1>1 DEF StreamOf!Next, StreamOf!Begin
  <1> QED BY <1>2, <1>4, <1>5, <1>6 DEF JInv, Kept

LEMMA CommittedGrows == Sent \subseteq Sent' => Committed \subseteq Committed'
  BY DEF Committed

LEMMA CommittedTypes ==
    /\ Committed \in SUBSET [kind : {"head", "mark", "torn", "rec", "ruin"}, rec : Nat]
    /\ Mark \in Committed /\ Ruin(0) \in Committed /\ Torn \in Committed
    /\ \A r \in Sent \cap Nat : Rec(r) \in Committed /\ Ruin(r) \in Committed
  BY DEF Committed, Mark, Ruin, Torn, Rec

LEMMA AppendRecordStep == JInv /\ AppendRecord => Kept
  <1> SUFFICES ASSUME JInv, AppendRecord PROVE Kept OBVIOUS
  <1> DEFINE r == Cardinality(Sent) + 1
             lines == Joined(live.lines, Rec(r))
  <1>1. LogInv /\ FileInv /\ live # Absent /\ Len(log) > 0 /\ Cardinality(Sent) < MaxRecords
        /\ writer.pc = "ready"
    BY DEF JInv, AppendRecord, WriteRecord, FileInv, Sent
  <1>2. log' = [log EXCEPT ![Len(log)] = @ \cup {r}] /\ live' = [live EXCEPT !.lines = lines]
    BY DEF AppendRecord, WriteRecord, Sent
  <1>3. /\ LogInv' /\ Sent' = Sent \cup {r} /\ r \in (1..MaxRecords) \ Sent
        /\ Len(log') = Len(log) /\ \A g \in 0..Len(log) : Before(g)' = Before(g)
    BY <1>1, <1>2, NewRecord
  <1>4. r \in Sent' /\ r \in Nat /\ Len(log) \in Nat /\ log' \in Seq(SUBSET Nat)
        /\ log \in Seq(SUBSET Nat)
    BY <1>1, <1>3, FS_CardinalityType DEF LogInv
  <1> HIDE DEF r, lines
  <1>5. Committed \subseteq Committed' BY <1>3, CommittedGrows
  <1>6. Rec(r) \in Committed' /\ Ruin(Rec(r).rec) \in Committed'
    BY <1>4, CommittedTypes DEF Rec, Ruin, Committed
  <1>7. live.lines \in Seq(Committed') BY <1>1, <1>5 DEF FileInv
  <1>8. Committed' \in SUBSET [kind : {"head", "mark", "torn", "rec", "ruin"}, rec : Nat]
    BY DEF Committed
  <1>9. lines \in Seq(Committed') BY <1>6, <1>7, <1>8, JoinedTypes DEF lines
  <1>10. live'.lines = lines BY <1>1, <1>2 DEF FileInv
  <1>11. writer' = writer BY DEF AppendRecord
  <1>12. FileInv' BY <1>1, <1>2, <1>3, <1>4, <1>5, <1>9, <1>10, <1>11, MoreLines DEF FileInv
  <1>13. UNCHANGED <<stream, reader, poll, at, got, gone>> BY DEF AppendRecord
  <1>14. PlaceInv' /\ PassedInv' BY <1>3, <1>4, <1>13, LogGrows
  <1>15. StreamOf!Commit
    <2>1. r \in (1..MaxRecords) \ StreamOf!Sent BY <1>3 DEF Sent
    <2> QED BY <1>1, <1>2, <1>13, <2>1 DEF StreamOf!Commit
  <1> QED BY <1>3, <1>12, <1>13, <1>14, <1>15 DEF JInv, Kept, StreamOf!Next

\* What is added to the file commits nothing.
LEMMA SameLog ==
    JInv /\ UNCHANGED promise =>
        Len(log') = Len(log) /\ Committed' = Committed /\ log \in Seq(SUBSET Nat)
  BY DEF JInv, LogInv, promise, Committed, Sent, StreamOf!Sent

LEMMA MarkRotatedStep == JInv /\ MarkRotated => Kept
  <1> SUFFICES ASSUME JInv, MarkRotated PROVE Kept OBVIOUS
  <1> DEFINE lines == Joined(live.lines, Mark)
  <1>1. FileInv /\ live # Absent /\ UNCHANGED <<stream, reader, poll, promise>>
    BY DEF JInv, MarkRotated
  <1>2. /\ live' = [live EXCEPT !.lines = lines]
        /\ writer' = [pc |-> "marked", serial |-> live.serial + 1]
    BY DEF MarkRotated
  <1>3. Mark \in Committed /\ Ruin(Mark.rec) \in Committed BY CommittedTypes DEF Mark
  <1>4. lines \in Seq(Committed) BY <1>1, <1>3, CommittedTypes, JoinedTypes DEF FileInv
  <1> HIDE DEF lines
  <1>5. live'.lines = lines /\ live.serial \in Int BY <1>1, <1>2 DEF FileInv
  <1>6. Len(log') = Len(log) /\ Committed' = Committed /\ log \in Seq(SUBSET Nat)
    BY <1>1, SameLog
  <1>7. FileInv' BY <1>1, <1>2, <1>4, <1>5, <1>6, MoreLines
  <1> QED BY <1>1, <1>7, FileStep

LEMMA MoveAwayStep == JInv /\ MoveAway => Kept
  <1> SUFFICES ASSUME JInv, MoveAway PROVE Kept OBVIOUS
  <1>1. FileInv /\ UNCHANGED <<stream, reader, poll, promise>> BY DEF JInv, MoveAway
  <1>2. log' = log BY <1>1 DEF promise
  <1>3. Absent \in [serial : Int, gen : Nat, lines : Seq(Committed')] BY DEF Absent, NoSerial
  <1>4. FileInv' BY <1>1, <1>2, <1>3 DEF MoveAway, FileInv
  <1> QED BY <1>1, <1>4, FileStep

\* The writer ends, or is refused, and leaves the file as it is or with a fragment.
LEMMA LeftStep ==
    ASSUME JInv, live # Absent, UNCHANGED <<stream, reader, poll, promise>>,
           writer' \in [pc : {"down", "closed", "ready"}, serial : Int],
           live' \in {live, [live EXCEPT !.lines = Append(@, Torn)]}
    PROVE  Kept
  <1>1. FileInv BY DEF JInv
  <1>2. Len(log') = Len(log) /\ Committed' = Committed /\ log \in Seq(SUBSET Nat)
    BY SameLog
  <1>3. live' = [live EXCEPT !.lines = live'.lines] BY <1>1 DEF FileInv
  <1>4. live'.lines \in Seq(Committed')
    <2>1. Append(live.lines, Torn) \in Seq(Committed)
      BY <1>1, CommittedTypes DEF FileInv
    <2> QED BY <1>1, <1>2, <2>1 DEF FileInv
  <1>5. FileInv' BY <1>1, <1>2, <1>3, <1>4, MoreLines
  <1> QED BY <1>5, FileStep

LEMMA WriterDiesStep == SerialsTell /\ JInv /\ WriterDies => Kept
  <1> SUFFICES ASSUME SerialsTell, JInv, WriterDies PROVE Kept OBVIOUS
  <1>1. live # Absent BY DEF SerialsTell, JInv, FileInv, WriterDies
  <1> QED BY <1>1, LeftStep DEF WriterDies

LEMMA MoveRefusedStep == JInv /\ MoveRefused => Kept
  <1> SUFFICES ASSUME JInv, MoveRefused PROVE Kept OBVIOUS
  <1>1. live # Absent BY DEF JInv, FileInv, MoveRefused
  <1>2. writer' \in [pc : {"down", "closed", "ready"}, serial : Int]
    BY DEF JInv, FileInv, MoveRefused
  <1> QED BY <1>1, <1>2, LeftStep DEF MoveRefused

LEMMA BeginFileStep == JInv /\ BeginFile => Kept
  <1> SUFFICES ASSUME JInv, BeginFile PROVE Kept OBVIOUS
  <1>1. writer.serial = Len(log) BY DEF JInv, FileInv, BeginFile
  <1>2. writer'.pc = "ready"
        /\ writer' \in [pc : {"down", "ready", "marked", "moved", "closed"}, serial : Int]
    BY DEF JInv, FileInv, BeginFile
  <1>3. StartFile(Len(log)) /\ UNCHANGED <<stream, reader, poll, at, got, gone>>
    BY <1>1 DEF BeginFile, NextFile
  <1> QED BY <1>2, <1>3, NextFileStep

LEMMA OpenStep == SerialsTell /\ JInv /\ (OpenCommands \/ OpenAcks) => Kept
  <1> SUFFICES ASSUME SerialsTell, JInv, OpenCommands \/ OpenAcks PROVE Kept OBVIOUS
  <1>1. writer' = [pc |-> "ready", serial |-> 0]
        /\ UNCHANGED <<stream, reader, poll, at, got, gone>> /\ writer.pc = "down"
    BY DEF OpenCommands, OpenAcks
  <1>2. CASE live = Absent
    <2>1. Len(log) = 0 BY <1>1, <1>2 DEF JInv, FileInv
    <2>2. StartFile(Len(log)) BY <1>2, <2>1 DEF OpenCommands, OpenAcks
    <2> QED BY <1>1, <2>2, NextFileStep
  <1>3. CASE live # Absent
    <2>1. live' = live /\ log' = log
      BY <1>3 DEF SerialsTell, OpenCommands, OpenAcks
    <2> QED BY <1>1, <1>3, <2>1, LeftStep DEF promise
  <1> QED BY <1>2, <1>3

-----------------------------------------------------------------------------
(* The readers.                                                            *)

\* A step that moves the reader's poll on, and not yet the reader.
LEMMA PlaceStep ==
    ASSUME JInv, UNCHANGED <<stream, live, writer, promise>>, PlaceInv'
    PROVE  Kept
  <1>1. log' = log /\ at' = at /\ got' = got /\ gone' = gone BY DEF promise
  <1>2. LogInv' BY <1>1 DEF JInv, LogInv, Sent, StreamOf!Sent
  <1>3. Committed' = Committed BY <1>1 DEF Committed, Sent, StreamOf!Sent
  <1>4. FileInv' BY <1>1, <1>3 DEF JInv, FileInv
  <1>5. PassedInv' BY <1>1 DEF JInv, PassedInv, Sent, Before, StreamOf!Sent, StreamOf!Before
  <1> QED BY <1>2, <1>4, <1>5, StreamStutters DEF JInv, Kept

LEMMA FileFacts ==
    JInv /\ live # Absent =>
        /\ Len(log) \in Nat \ {0} /\ live.gen = Len(log) /\ live.serial = Len(log) - 1
        /\ live.gen \in Nat /\ live.serial \in Int
  BY DEF JInv, LogInv, FileInv

LEMMA SyncGenerationStep == JInv /\ SyncGeneration => Kept
  <1> SUFFICES ASSUME JInv, SyncGeneration PROVE Kept OBVIOUS
  <1>1. UNCHANGED <<stream, live, writer, promise>> /\ stream = "commands" /\ poll.at = "idle"
    BY DEF SyncGeneration
  <1>2. at' = at /\ log' = log /\ Len(log) \in Nat /\ at = reader.serial + 1 /\ PlaceInv
    BY <1>1 DEF promise, JInv, LogInv, PlaceInv
  <1>3. PICK f \in {live, Absent} :
        \/ /\ f = Absent /\ reader.serial = NoSerial
           /\ Begun("take", NoSerial, at, FALSE, 0) /\ UNCHANGED reader
        \/ /\ f = Absent /\ reader.serial # NoSerial
           /\ Begun("take", NoSerial, 0, TRUE, 0) /\ reader' = At(NoSerial, 0)
        \/ /\ f # Absent /\ Adopted(f)
           /\ Begun("take", f.serial, f.gen, FALSE, 0)
           /\ reader' = [reader EXCEPT !.serial = f.serial]
        \/ /\ f # Absent /\ ~Adopted(f)
           /\ Begun("take", f.serial, f.gen, TRUE, 0) /\ reader' = At(f.serial, 0)
    BY DEF SyncGeneration
  <1>4. CASE f = Absent /\ reader.serial = NoSerial
             /\ Begun("take", NoSerial, at, FALSE, 0) /\ UNCHANGED reader
    BY <1>1, <1>2, <1>4, PlaceStep DEF Begun, NoSerial, PlaceInv
  <1>5. CASE f = Absent /\ reader.serial # NoSerial
             /\ Begun("take", NoSerial, 0, TRUE, 0) /\ reader' = At(NoSerial, 0)
    BY <1>1, <1>2, <1>5, PlaceStep DEF Begun, At, NoSerial, PlaceInv
  <1>6. CASE f # Absent /\ Adopted(f) /\ Begun("take", f.serial, f.gen, FALSE, 0)
             /\ reader' = [reader EXCEPT !.serial = f.serial]
    <2>1. f = live /\ live # Absent BY <1>6
    <2>2. at = 0 \/ live.gen = at BY <1>2, <1>6, <2>1, FileFacts DEF Adopted, NoSerial
    <2>3. reader' = [serial |-> live.serial, pos |-> reader.pos, held |-> reader.held]
      BY <1>2, <1>6, <2>1 DEF PlaceInv
    <2>4. PlaceInv'
      BY <1>1, <1>2, <1>6, <2>1, <2>2, <2>3, FileFacts DEF Begun, PlaceInv
    <2> QED BY <1>1, <2>4, PlaceStep
  <1>7. CASE f # Absent /\ ~Adopted(f) /\ Begun("take", f.serial, f.gen, TRUE, 0)
             /\ reader' = At(f.serial, 0)
    <2>1. f = live /\ live # Absent BY <1>7
    <2>2. PlaceInv' BY <1>1, <1>2, <1>7, <2>1, FileFacts DEF Begun, At, PlaceInv
    <2> QED BY <1>1, <2>2, PlaceStep
  <1> QED BY <1>3, <1>4, <1>5, <1>6, <1>7

LEMMA ProbeHeaderStep == JInv /\ ProbeHeader => Kept
  <1> SUFFICES ASSUME JInv, ProbeHeader PROVE Kept OBVIOUS
  <1>1. UNCHANGED <<stream, live, writer, reader, promise>> /\ stream = "acks"
        /\ live # Absent
    BY DEF ProbeHeader
  <1>2. at' = at /\ log' = log /\ at = reader.serial + 1 /\ PlaceInv
    BY <1>1 DEF promise, JInv, PlaceInv
  <1>3. Adopted(live) => at = 0 \/ live.gen = at
    BY <1>1, <1>2, FileFacts DEF Adopted, NoSerial
  <1>4. StartIn(live) \in Nat BY <1>2 DEF StartIn, PlaceInv
  <1>5. /\ poll'.at = "take" /\ poll'.gen = live.gen /\ poll'.serial = live.serial
        /\ poll'.start = StartIn(live)
    BY DEF ProbeHeader, Begun
  <1>6. poll'.told = ~Adopted(live) BY Zenon DEF ProbeHeader, Begun
  <1>7. ~poll'.told => at = 0 \/ live.gen = at BY <1>3, <1>6
  <1>8. PlaceInv' BY <1>1, <1>2, <1>4, <1>5, <1>7, FileFacts DEF PlaceInv
  <1> QED BY <1>1, <1>8, PlaceStep

LEMMA SeekHeaderStep == JInv /\ SeekHeader => Kept
  <1> SUFFICES ASSUME JInv, SeekHeader PROVE Kept OBVIOUS
  <1>1. UNCHANGED <<stream, live, writer, reader, promise>> /\ stream = "acks"
        /\ live # Absent /\ reader.serial = NoSerial
    BY DEF SeekHeader
  <1>2. at' = at /\ log' = log /\ at = 0 /\ PlaceInv
    BY <1>1 DEF promise, JInv, PlaceInv, NoSerial
  <1>3. PlaceInv' BY <1>1, <1>2, FileFacts DEF SeekHeader, Begun, PlaceInv
  <1> QED BY <1>1, <1>3, PlaceStep

\* The end of a poll: what was delivered had been committed, and what was passed
\* over without a word had been left before.
LEMMA ArriveStep ==
    ASSUME JInv, poll.at = "take", NEW delivered, NEW dropped,
           delivered \subseteq Sent, dropped \subseteq Sent,
           Arrive(poll.gen, poll.told, delivered, dropped),
           UNCHANGED <<stream, live, writer, log>>, poll' = Idle,
           reader' = [serial |-> poll.serial, pos |-> reader'.pos, held |-> reader'.held],
           reader'.pos \in Nat
    PROVE  Kept
  <1>1. PlaceInv /\ PassedInv /\ Len(log) \in Nat BY DEF JInv, LogInv
  <1>2. poll.gen \in {0} \cup at..Len(log) /\ poll.gen \in Nat /\ at \in Nat
        /\ poll.serial \in Int /\ poll.gen = poll.serial + 1
        /\ (~poll.told => at = 0 \/ poll.gen = at)
    BY <1>1 DEF PlaceInv
  <1>3. at' = poll.gen /\ got' = got \cup delivered
        /\ gone' = gone \cup dropped
                 \cup IF poll.told \/ at = 0 THEN Missed(poll.gen) ELSE {}
    BY DEF Arrive
  <1>4. Before(poll.gen) \subseteq Sent
    BY <1>1, <1>2 DEF Before, Sent, StreamOf!Before, StreamOf!Sent
  <1>5. Sent' = Sent /\ \A g : Before(g)' = Before(g)
    BY DEF Sent, Before, StreamOf!Sent, StreamOf!Before
  <1>6. got \subseteq got' /\ got' \subseteq Sent /\ gone \subseteq gone' /\ gone' \subseteq Sent
    BY <1>1, <1>3, <1>4 DEF PassedInv, Missed, Before
  <1>7. Before(poll.gen) \subseteq got' \cup gone'
    <2>1. CASE poll.told \/ at = 0 BY <1>3, <2>1 DEF Missed, Before
    <2>2. CASE ~(poll.told \/ at = 0)
      BY <1>1, <1>2, <1>6, <2>2 DEF PassedInv
    <2> QED BY <2>1, <2>2
  <1>8. LogInv' BY <1>5 DEF JInv, LogInv
  <1>9. Committed' = Committed BY <1>5 DEF Committed
  <1>10. FileInv' BY <1>9 DEF JInv, FileInv
  <1>11. PlaceInv' BY <1>1, <1>2, <1>3 DEF PlaceInv, Idle
  <1>12. PassedInv'
    <2>1. Before(at)' = Before(poll.gen) BY <1>3 DEF Before, StreamOf!Before
    <2> QED BY <1>5, <1>6, <1>7, <2>1 DEF PassedInv
  <1>13. StreamOf!Read
    BY <1>2, <1>3, <1>6, <1>7 DEF StreamOf!Read, Sent, Before
  <1> QED BY <1>8, <1>10, <1>11, <1>12, <1>13 DEF JInv, Kept, StreamOf!Next

LEMMA LinesTell ==
    ASSUME NEW lines \in Seq(Committed)
    PROVE  RecsOf(lines) \subseteq Sent /\ RuinsOf(lines) \subseteq Sent
  <1>1. \A i \in DOMAIN lines : lines[i] \in Committed OBVIOUS
  <1> QED BY <1>1 DEF RecsOf, RuinsOf, Committed

LEMMA BatchTypes ==
    ASSUME JInv, NEW from \in Nat
    PROVE  Batch(from) \in Seq(Committed)
  <1>1. live.lines \in Seq(Committed) /\ Len(live.lines) \in Nat /\ Budget \in Nat
    BY JournalAssumption DEF JInv, FileInv
  <1> DEFINE last == IF Len(live.lines) < from + Budget THEN Len(live.lines) ELSE from + Budget
  <1>2. last \in Nat /\ last <= Len(live.lines) BY <1>1
  <1> HIDE DEF last
  <1>3. SubSeq(live.lines, from + 1, last) \in Seq(Committed) BY <1>1, <1>2
  <1> QED BY <1>3 DEF Batch, last

LEMMA TakeLinesStep == JInv /\ TakeLines => Kept
  <1> SUFFICES ASSUME JInv, TakeLines PROVE Kept OBVIOUS
  <1> DEFINE batch == Batch(reader.pos)
             taken == IF Holds(batch) THEN Front(batch) ELSE batch
  <1>1. stream = "commands" /\ poll.at = "take" /\ poll' = Idle
        /\ UNCHANGED <<stream, live, writer, log>>
    BY DEF TakeLines
  <1>2. PlaceInv /\ reader.pos \in Nat /\ reader.serial = poll.serial
    BY <1>1 DEF JInv, PlaceInv
  <1>3. batch \in Seq(Committed) BY <1>2, BatchTypes
  <1>4. Arrive(poll.gen, poll.told, RecsOf(taken), RuinsOf(taken)) BY DEF TakeLines
  <1>5. PICK held : reader' = [reader EXCEPT !.pos = @ + Len(taken), !.held = held]
    BY DEF TakeLines
  <1> HIDE DEF batch
  <1>6. taken \in Seq(Committed) BY <1>3 DEF Holds, Front
  <1> HIDE DEF taken
  <1>7. Len(taken) \in Nat BY <1>6
  <1>8. reader' = [serial |-> poll.serial, pos |-> reader.pos + Len(taken), held |-> held]
    BY <1>2, <1>5 DEF PlaceInv
  <1>9. reader'.pos \in Nat BY <1>2, <1>7, <1>8
  <1>10. RecsOf(taken) \subseteq Sent /\ RuinsOf(taken) \subseteq Sent BY <1>6, LinesTell
  <1> QED BY <1>1, <1>4, <1>8, <1>9, <1>10, ArriveStep

LEMMA TakeNothingStep == SerialsTell /\ JInv /\ TakeNothing => Kept
  <1> SUFFICES ASSUME SerialsTell, JInv, TakeNothing PROVE Kept OBVIOUS
  <1>1. stream = "commands" /\ poll.at = "take" /\ poll' = Idle
        /\ UNCHANGED <<stream, live, writer, reader, log>>
    BY DEF TakeNothing
  <1>2. PlaceInv /\ reader.pos \in Nat /\ reader.serial = poll.serial
    BY <1>1 DEF JInv, PlaceInv
  <1>3. Arrive(poll.gen, poll.told, {}, {}) BY DEF TakeNothing, SerialsTell
  <1>4. reader' = [serial |-> poll.serial, pos |-> reader'.pos, held |-> reader'.held]
        /\ reader'.pos \in Nat
    BY <1>1, <1>2 DEF PlaceInv
  <1> QED BY <1>1, <1>3, <1>4, ArriveStep

LEMMA UnprefixedTypes ==
    ASSUME NEW batch \in Seq(Committed)
    PROVE  Unprefixed(batch) \in Seq(Committed)
  <1>1. CASE batch # <<>> /\ Head(batch).kind = "ruin"
    <2>1. Head(batch) \in Committed /\ Tail(batch) \in Seq(Committed) BY <1>1
    <2>2. Head(batch).rec \in Nat /\ (Head(batch).rec # 0 => Head(batch).rec \in Sent)
      BY <1>1, <2>1 DEF Committed
    <2> DEFINE line == IF Head(batch).rec = 0 THEN Mark ELSE Rec(Head(batch).rec)
    <2>3. line \in Committed BY <2>2, CommittedTypes
    <2> HIDE DEF line
    <2>4. <<line>> \o Tail(batch) \in Seq(Committed) BY <2>1, <2>3
    <2> QED BY <2>4 DEF Unprefixed, line
  <1>2. CASE ~(batch # <<>> /\ Head(batch).kind = "ruin") BY <1>2 DEF Unprefixed
  <1> QED BY <1>1, <1>2

LEMMA ConsumeStep == JInv /\ Consume => Kept
  <1> SUFFICES ASSUME JInv, Consume PROVE Kept OBVIOUS
  <1>1. stream = "acks" /\ poll.at = "take" /\ poll' = Idle
        /\ UNCHANGED <<stream, live, writer, log>>
    BY DEF Consume
  <1>2. PlaceInv /\ poll.start \in Nat BY <1>1 DEF JInv, PlaceInv
  <1> DEFINE whole == Unprefixed(Batch(poll.start))
             Taken(batch) ==
                 IF batch # <<>> /\ Last(batch).kind = "torn" THEN Front(batch) ELSE batch
  <1>3. whole \in Seq(Committed) BY <1>2, BatchTypes, UnprefixedTypes
  <1>4. PICK batch \in {whole, <<>>} :
            /\ \E held : reader' = [serial |-> poll.serial,
                                    pos |-> poll.start + Len(Taken(batch)), held |-> held]
            /\ Arrive(poll.gen, poll.told, RecsOf(Taken(batch)), RuinsOf(Taken(batch)))
    BY DEF Consume
  <1> DEFINE taken == Taken(batch)
  <1> HIDE DEF whole
  <1>5. batch \in Seq(Committed)
    <2>1. batch = whole \/ batch = <<>> BY <1>4
    <2>2. <<>> \in Seq(Committed) OBVIOUS
    <2> QED BY <1>3, <2>1, <2>2, Zenon
  <1>6. taken \in Seq(Committed) BY <1>5 DEF Front
  <1>7. PICK held :
            reader' = [serial |-> poll.serial, pos |-> poll.start + Len(taken), held |-> held]
    BY <1>4
  <1> HIDE DEF taken
  <1>8. reader'.pos \in Nat
        /\ reader' = [serial |-> poll.serial, pos |-> reader'.pos, held |-> reader'.held]
    BY <1>2, <1>6, <1>7
  <1>10. Arrive(poll.gen, poll.told, RecsOf(taken), RuinsOf(taken)) BY <1>4 DEF taken
  <1>9. RecsOf(taken) \subseteq Sent /\ RuinsOf(taken) \subseteq Sent BY <1>6, LinesTell
  <1> QED BY <1>1, <1>7, <1>8, <1>9, <1>10, ArriveStep

\* The reader takes a place of its own choosing, with an account of what it left.
LEMMA SeatStep ==
    ASSUME JInv, UNCHANGED <<stream, live, writer, log, got>>, poll' = Idle,
           at' \in {0} \cup at..Len(log), reader'.serial + 1 = at', reader'.serial \in Int,
           reader' = [serial |-> reader'.serial, pos |-> reader'.pos, held |-> reader'.held],
           reader'.pos \in Int, stream = "commands" => reader'.pos \in Nat,
           gone \subseteq gone', gone' \subseteq Sent, Before(at') \subseteq got \cup gone'
    PROVE  Kept
  <1>1. PlaceInv /\ PassedInv /\ Len(log) \in Nat BY DEF JInv, LogInv
  <1>2. Sent' = Sent /\ Before(at)' = Before(at')
    BY DEF Sent, Before, StreamOf!Sent, StreamOf!Before
  <1>3. LogInv' BY <1>2 DEF JInv, LogInv
  <1>4. Committed' = Committed BY <1>2 DEF Committed
  <1>5. FileInv' BY <1>4 DEF JInv, FileInv
  <1>6. PlaceInv' BY <1>1 DEF PlaceInv, Idle
  <1>7. PassedInv' BY <1>1, <1>2 DEF PassedInv
  <1>8. StreamOf!Read BY <1>1 DEF StreamOf!Read, Sent, Before, PassedInv
  <1> QED BY <1>3, <1>5, <1>6, <1>7, <1>8 DEF JInv, Kept, StreamOf!Next

LEMMA SeekSizeStep == JInv /\ SeekSize => Kept
  <1> SUFFICES ASSUME JInv, SeekSize PROVE Kept OBVIOUS
  <1>1. poll.at = "seek" /\ poll' = Idle /\ UNCHANGED <<stream, live, writer, log, got>>
        /\ at' = poll.gen /\ gone' = gone \cup (Before(poll.gen + 1) \ got)
    BY DEF SeekSize, Before
  <1>2. PlaceInv /\ PassedInv /\ Len(log) \in Nat /\ Len(live.lines) \in Nat
    BY DEF JInv, LogInv, FileInv
  <1>3. poll.gen \in {0} \cup at..Len(log) /\ poll.gen \in Nat /\ poll.serial \in Int
        /\ poll.gen = poll.serial + 1 /\ stream = "acks"
    BY <1>1, <1>2 DEF PlaceInv
  <1>4. /\ reader' = [serial |-> poll.serial, pos |-> reader'.pos, held |-> reader'.held]
        /\ reader'.pos \in Int
    <2>1. CASE reader' = At(poll.serial, Len(live.lines))
      <3>1. reader' = [serial |-> poll.serial, pos |-> Len(live.lines), held |-> NotHeld]
        BY <2>1 DEF At
      <3> QED BY <1>2, <3>1
    <2>2. CASE reader' = [At(poll.serial, Len(live.lines) - 1) EXCEPT !.held.line = Torn]
      <3>1. reader' = [[serial |-> poll.serial, pos |-> Len(live.lines) - 1, held |-> NotHeld]
                          EXCEPT !.held.line = Torn]
        BY <2>2 DEF At
      <3>2. reader' = [serial |-> poll.serial, pos |-> Len(live.lines) - 1,
                       held |-> [NotHeld EXCEPT !.line = Torn]]
        BY <3>1
      <3> QED BY <1>2, <3>2
    <2> QED BY <2>1, <2>2 DEF SeekSize
  <1>5. Before(poll.gen + 1) \subseteq Sent /\ Before(poll.gen) \subseteq Before(poll.gen + 1)
    BY <1>2, <1>3 DEF Before, Sent, StreamOf!Before, StreamOf!Sent
  <1>6. gone \subseteq gone' /\ gone' \subseteq Sent /\ Before(at') \subseteq got \cup gone'
    BY <1>1, <1>2, <1>5 DEF PassedInv
  <1>7. reader'.serial = poll.serial BY <1>4
  <1> QED BY <1>1, <1>3, <1>4, <1>6, <1>7, SeatStep

LEMMA ReaderRestartsStep == JInv /\ ReaderRestarts => Kept
  <1> SUFFICES ASSUME JInv, ReaderRestarts PROVE Kept OBVIOUS
  <1>1. at' = 0 /\ reader' = At(NoSerial, 0) /\ poll' = Idle
        /\ UNCHANGED <<stream, live, writer, log, got, gone>>
    BY DEF ReaderRestarts
  <1>2. Before(0) = {} BY DEF Before, StreamOf!Before
  <1>3. gone \subseteq Sent BY DEF JInv, PassedInv
  <1> QED BY <1>1, <1>2, <1>3, SeatStep DEF At, NoSerial

-----------------------------------------------------------------------------
LEMMA StepKeeps == SerialsTell /\ JInv /\ [Next]_vars => Kept
  <1> SUFFICES ASSUME SerialsTell, JInv, [Next]_vars PROVE Kept OBVIOUS
  <1>1. CASE UNCHANGED vars
    <2>1. UNCHANGED <<stream, live, writer, promise>> /\ PlaceInv'
      BY <1>1 DEF vars, promise, JInv, PlaceInv
    <2> QED BY <2>1, PlaceStep
  <1> QED
    BY <1>1, AppendRecordStep, MarkRotatedStep, MoveAwayStep, MoveRefusedStep, BeginFileStep,
       OpenStep, WriterDiesStep, SyncGenerationStep, TakeLinesStep, TakeNothingStep,
       ProbeHeaderStep, ConsumeStep, SeekHeaderStep, SeekSizeStep, ReaderRestartsStep
       DEF Next

\* Both journals keep the promise of a stream that loses nothing unsaid (Stream),
\* for files, budgets and scans of any size and any number of crashes, restarts and
\* refused opens, as long as no fault makes two files share a serial (a sidecar that
\* dies between the rename and the header, a mod that cannot read its header) and
\* no report of a rotation is lost by a failed read.
THEOREM StreamIsKept == SerialsTell => (Spec => Promise)
  <1> SUFFICES ASSUME SerialsTell PROVE Spec => Promise OBVIOUS
  <1>1. Init => JInv /\ StreamOf!Init BY InitHolds
  <1>2. JInv /\ [Next]_vars => JInv' /\ [StreamOf!Next]_(StreamOf!vars)
    BY StepKeeps DEF Kept
  <1> QED BY <1>1, <1>2, PTL DEF Spec, Promise, StreamOf!Spec

\* What a reader has left behind was delivered to it, or it was told (journal.py,
\* CommandReader.lua), under the same condition.
THEOREM NothingPassedUnsaid == SerialsTell => (Spec => []PassedInv)
  <1> SUFFICES ASSUME SerialsTell PROVE Spec => []PassedInv OBVIOUS
  <1>1. JInv /\ [Next]_vars => JInv' BY StepKeeps DEF Kept
  <1> QED BY InitHolds, <1>1, PTL DEF Spec, JInv

-----------------------------------------------------------------------------
(* What stands before the reader in the file that it follows.              *)

\* Nor does the reader take lines of a file whose serial it has not seen.
PlacesTell == SerialsTell /\ "unsynced" \notin Faults

\* A fragment is the last line, and the first line is the header.
LinesInv ==
    /\ \A i \in DOMAIN live.lines :
          live.lines[i].kind = "torn" => i = Len(live.lines) /\ live.lines[i] = Torn
    /\ live # Absent => live.lines # <<>> /\ live.lines[1] = Header

\* The lines up to `pos` of the file with this serial were read: their records were
\* delivered or, in the ack journal, reported.  There, a fragment is never passed.
Covered(serial, pos) ==
    serial = live.serial =>
        /\ pos <= Len(live.lines)
        /\ \A i \in DOMAIN live.lines : i <= pos =>
              /\ live.lines[i].kind = "rec" => live.lines[i].rec \in got \cup gone
              /\ stream = "acks" => /\ live.lines[i].kind # "torn"
                                    /\ live.lines[i].kind = "ruin"
                                         => live.lines[i].rec \in got \cup gone \cup {0}

CoverInv ==
    /\ reader.serial = NoSerial => reader.pos = 0
    /\ Covered(reader.serial, reader.pos)
    /\ stream = "acks" /\ poll.at = "take" => Covered(poll.serial, poll.start)
    /\ stream = "acks" /\ poll.at # "idle" => poll.serial # NoSerial

RInv == JInv /\ LinesInv /\ CoverInv

\* Lines that are added, where a fragment may have become a line that is ruined.
Grown(lines, new) ==
    /\ Len(new) >= Len(lines)
    /\ \A i \in DOMAIN lines :
          new[i] = lines[i] \/ (lines[i].kind = "torn" /\ new[i].kind = "ruin")

\* What a part of a sequence has.
LEMMA PartOf ==
    ASSUME NEW C, NEW q \in Seq(C), NEW m \in Nat \ {0}, NEW n \in Nat, n <= Len(q), m <= n + 1
    PROVE  /\ SubSeq(q, m, n) \in Seq(C) /\ Len(SubSeq(q, m, n)) = n - m + 1
           /\ DOMAIN SubSeq(q, m, n) = 1..n - m + 1
           /\ \A i \in 1..n - m + 1 : SubSeq(q, m, n)[i] = q[i + m - 1]
  <1>1. SubSeq(q, m, n) = [i \in 1..n - m + 1 |-> q[i + m - 1]]
    OBVIOUS
  <1>2. \A i \in 1..n - m + 1 : i + m - 1 \in 1..Len(q) OBVIOUS
  <1>3. \A i \in 1..n - m + 1 : q[i + m - 1] \in C BY <1>2
  <1>4. n - m + 1 \in Nat OBVIOUS
  <1> QED BY <1>1, <1>3, <1>4

LEMMA JoinedGrows ==
    ASSUME NEW C, NEW lines \in Seq(C), lines # <<>>, lines[1].kind # "torn",
           \A i \in DOMAIN lines : lines[i].kind = "torn" => i = Len(lines),
           NEW line, line.kind # "torn"
    PROVE  LET new == Joined(lines, line) IN
           /\ Grown(lines, new) /\ new # <<>> /\ new[1] = lines[1]
           /\ \A i \in DOMAIN new : new[i].kind # "torn"
  <1> DEFINE new == Joined(lines, line)
  <1>1. Len(lines) \in Nat \ {0} /\ Last(lines) = lines[Len(lines)] BY DEF Last
  <1>2. CASE Last(lines).kind = "torn"
    <2>1. new = Append(Front(lines), Ruin(line.rec)) BY <1>2 DEF Joined
    <2>2. /\ Front(lines) \in Seq(C) /\ Len(Front(lines)) = Len(lines) - 1
          /\ \A i \in 1..Len(lines) - 1 : Front(lines)[i] = lines[i]
      <3> DEFINE n == Len(lines) - 1
      <3>1. n \in Nat /\ n <= Len(lines) /\ 1 <= n + 1 BY <1>1
      <3>2. Front(lines) = SubSeq(lines, 1, n) BY DEF Front
      <3>3. n - 1 + 1 = n /\ \A i \in 1..n : i + 1 - 1 = i BY <3>1
      <3> HIDE DEF n
      <3>4. /\ SubSeq(lines, 1, n) \in Seq(C) /\ Len(SubSeq(lines, 1, n)) = n - 1 + 1
            /\ \A i \in 1..n - 1 + 1 : SubSeq(lines, 1, n)[i] = lines[i + 1 - 1]
        BY <3>1, PartOf
      <3>5. Front(lines) \in Seq(C) /\ Len(Front(lines)) = n
            /\ \A i \in 1..n : Front(lines)[i] = lines[i]
        BY <3>2, <3>3, <3>4
      <3> QED BY <3>5 DEF n
    <2> DEFINE S == C \cup {Ruin(line.rec)}
    <2>3. Front(lines) \in Seq(S) /\ Ruin(line.rec) \in S BY <2>2
    <2> HIDE DEF S
    <2>4. /\ Len(new) = Len(lines) /\ new[Len(lines)] = Ruin(line.rec)
          /\ \A i \in 1..Len(lines) - 1 : new[i] = lines[i]
          /\ DOMAIN new = 1..Len(lines) /\ new # <<>>
      BY <1>1, <2>1, <2>2, <2>3
    <2>5. Ruin(line.rec).kind = "ruin" BY DEF Ruin
    <2>6. Len(lines) # 1 BY <1>1, <1>2
    <2> HIDE DEF new
    <2>7. 1 \in 1..Len(lines) - 1
      <3>1. \A n \in Nat \ {0} : n # 1 => 1 \in 1..n - 1 OBVIOUS
      <3> QED BY <1>1, <2>6, <3>1
    <2>8. \A i \in 1..Len(lines) : i \in 1..Len(lines) - 1 \/ i = Len(lines) BY <1>1
    <2>9. DOMAIN lines = 1..Len(lines) OBVIOUS
    <2>10. Grown(lines, new)
      <3>1. Len(new) >= Len(lines) BY <1>1, <2>4
      <3>2. ASSUME NEW i \in DOMAIN lines
            PROVE  new[i] = lines[i] \/ (lines[i].kind = "torn" /\ new[i].kind = "ruin")
        BY <1>1, <1>2, <2>4, <2>5, <2>8, <2>9
      <3> QED BY <3>1, <3>2 DEF Grown
    <2>11. \A i \in DOMAIN new : new[i].kind # "torn"
      BY <1>1, <2>4, <2>5, <2>8, <2>9
    <2> QED BY <2>4, <2>7, <2>10, <2>11 DEF new
  <1>3. CASE Last(lines).kind # "torn"
    <2>1. new = Append(lines, line) BY <1>3 DEF Joined
    <2> DEFINE S == C \cup {line}
    <2>2. lines \in Seq(S) /\ line \in S OBVIOUS
    <2> HIDE DEF S
    <2>3. /\ Len(new) = Len(lines) + 1 /\ new[Len(lines) + 1] = line
          /\ \A i \in 1..Len(lines) : new[i] = lines[i]
          /\ DOMAIN new = 1..Len(lines) + 1 /\ new # <<>>
      BY <1>1, <2>1, <2>2
    <2> HIDE DEF new
    <2>4. DOMAIN lines = 1..Len(lines) /\ 1 \in 1..Len(lines) BY <1>1
    <2>5. \A i \in 1..Len(lines) + 1 : i \in 1..Len(lines) \/ i = Len(lines) + 1 BY <1>1
    <2>6. Grown(lines, new) BY <1>1, <2>3, <2>4 DEF Grown
    <2>7. \A i \in DOMAIN new : new[i].kind # "torn" BY <1>1, <1>3, <2>3, <2>4, <2>5
    <2> QED BY <2>3, <2>4, <2>6, <2>7 DEF new
  <1> QED BY <1>2, <1>3

\* A file that grows leaves the lines that were read as they were.
LEMMA GrowsCovered ==
    ASSUME UNCHANGED <<stream, reader, poll, got, gone>>, CoverInv, JInv,
           live'.serial = live.serial, Grown(live.lines, live'.lines),
           live'.lines \in Seq(Committed')
    PROVE  CoverInv'
  <1>1. live.lines \in Seq(Committed) BY DEF JInv, FileInv
  <1>2. /\ Len(live.lines) \in Nat /\ DOMAIN live.lines = 1..Len(live.lines)
        /\ Len(live'.lines) \in Nat /\ DOMAIN live'.lines = 1..Len(live'.lines)
        /\ Len(live'.lines) >= Len(live.lines)
    BY <1>1 DEF Grown
  <1>3. ASSUME NEW s, NEW p \in Int, Covered(s, p), s = live.serial
        PROVE  /\ p <= Len(live'.lines)
               /\ \A i \in DOMAIN live'.lines : i <= p =>
                    /\ live'.lines[i].kind = "rec" => live'.lines[i].rec \in got \cup gone
                    /\ stream = "acks" => /\ live'.lines[i].kind # "torn"
                                          /\ live'.lines[i].kind = "ruin"
                                               => live'.lines[i].rec \in got \cup gone \cup {0}
    <2>1. p <= Len(live.lines) BY <1>3 DEF Covered
    <2>2. ASSUME NEW i \in DOMAIN live'.lines, i <= p
          PROVE  /\ live'.lines[i].kind = "rec" => live'.lines[i].rec \in got \cup gone
                 /\ stream = "acks" => /\ live'.lines[i].kind # "torn"
                                       /\ live'.lines[i].kind = "ruin"
                                            => live'.lines[i].rec \in got \cup gone \cup {0}
      <3>1. i \in DOMAIN live.lines BY <1>2, <2>1, <2>2
      <3>2. live'.lines[i] = live.lines[i]
            \/ (live.lines[i].kind = "torn" /\ live'.lines[i].kind = "ruin")
        BY <3>1 DEF Grown
      <3> QED BY <1>3, <2>2, <3>1, <3>2 DEF Covered
    <2> QED BY <1>2, <2>1, <2>2
  <1>4. reader.pos \in Int BY DEF JInv, PlaceInv
  <1>5. poll.at = "take" => poll.start \in Int BY DEF JInv, PlaceInv
  <1>6. Covered(reader.serial, reader.pos)'
    BY <1>3, <1>4 DEF Covered, CoverInv
  <1>7. stream = "acks" /\ poll.at = "take" => Covered(poll.serial, poll.start)'
    BY <1>3, <1>5 DEF Covered, CoverInv
  <1> QED BY <1>6, <1>7 DEF CoverInv

\* A serial that the reader knows is that of a file that was begun.
LEMMA SerialsPast ==
    JInv => /\ Len(log) \in Nat /\ reader.serial \in Int /\ reader.serial < Len(log)
            /\ poll.at # "idle" => poll.serial \in Int /\ poll.serial < Len(log)
  <1> SUFFICES ASSUME JInv
               PROVE  /\ Len(log) \in Nat /\ reader.serial \in Int /\ reader.serial < Len(log)
                      /\ poll.at # "idle" => poll.serial \in Int /\ poll.serial < Len(log)
    OBVIOUS
  <1>1. Len(log) \in Nat /\ PlaceInv BY DEF JInv, LogInv
  <1>2. poll.at # "idle" => poll.serial \in Int /\ poll.serial < Len(log)
    BY <1>1 DEF PlaceInv
  <1>3. CASE poll.at = "idle" \/ stream = "acks" BY <1>1, <1>2, <1>3 DEF PlaceInv
  <1>4. CASE poll.at # "idle" /\ stream = "commands" BY <1>1, <1>2, <1>4 DEF PlaceInv
  <1> QED BY <1>1, <1>2, <1>3, <1>4 DEF JInv

\* Nothing was read of a file that is new.
LEMMA NewIsUnread ==
    ASSUME UNCHANGED <<stream, reader, poll, got, gone>>, CoverInv, JInv,
           live'.serial = Len(log)
    PROVE  CoverInv'
  <1>1. reader'.serial # live'.serial BY SerialsPast
  <1>2. poll'.at # "idle" => poll'.serial # live'.serial BY SerialsPast
  <1> QED BY <1>1, <1>2 DEF CoverInv, Covered

LEMMA LinesNotTorn == Header.kind # "torn" /\ Mark.kind # "torn" /\ \A r : Rec(r).kind # "torn"
  BY DEF Header, Mark, Rec

\* A record or a mark is added to the file that is there.
LEMMA AddedStep ==
    ASSUME RInv, JInv', live # Absent, UNCHANGED <<stream, reader, poll, got, gone>>,
           NEW line, line.kind # "torn", live'.lines = Joined(live.lines, line),
           live'.serial = live.serial
    PROVE  RInv'
  <1>1. live.lines \in Seq(Committed) /\ live.lines # <<>> /\ live.lines[1] = Header
        /\ \A i \in DOMAIN live.lines :
              live.lines[i].kind = "torn" => i = Len(live.lines)
    BY DEF RInv, JInv, FileInv, LinesInv
  <1>2. live'.lines \in Seq(Committed') BY DEF JInv, FileInv
  <1> DEFINE new == Joined(live.lines, line)
  <1>3. Grown(live.lines, new) /\ new # <<>> /\ new[1] = live.lines[1]
        /\ \A i \in DOMAIN new : new[i].kind # "torn"
    BY <1>1, LinesNotTorn, JoinedGrows
  <1> HIDE DEF new
  <1>4. live'.lines = new BY DEF new
  <1>5. LinesInv' BY <1>1, <1>3, <1>4 DEF LinesInv
  <1>6. CoverInv' BY <1>2, <1>3, <1>4, GrowsCovered DEF RInv
  <1> QED BY <1>5, <1>6 DEF RInv

\* The writer leaves the file as it is, or with a fragment behind a whole line.
LEMMA LeftLines ==
    ASSUME RInv, JInv', live # Absent, UNCHANGED <<stream, reader, poll, got, gone>>,
           \/ live' = live
           \/ Last(live.lines).kind # "torn" /\ live' = [live EXCEPT !.lines = Append(@, Torn)]
    PROVE  RInv'
  <1>1. live.lines \in Seq(Committed) /\ live.lines # <<>> /\ live.lines[1] = Header
        /\ \A i \in DOMAIN live.lines :
              live.lines[i].kind = "torn" => i = Len(live.lines)
    BY DEF RInv, JInv, FileInv, LinesInv
  <1>2. CASE live' = live
    BY <1>2 DEF RInv, LinesInv, CoverInv, Covered
  <1>3. CASE Last(live.lines).kind # "torn" /\ live' = [live EXCEPT !.lines = Append(@, Torn)]
    <2> DEFINE new == Append(live.lines, Torn)
               n == Len(live.lines)
    <2>1. live'.lines = new /\ live'.serial = live.serial
      BY <1>3 DEF RInv, JInv, FileInv
    <2>2. live'.lines \in Seq(Committed') BY DEF JInv, FileInv
    <2>3. /\ n \in Nat \ {0} /\ Len(new) = n + 1 /\ new[n + 1] = Torn
          /\ DOMAIN new = 1..n + 1 /\ \A i \in 1..n : new[i] = live.lines[i]
          /\ DOMAIN live.lines = 1..n /\ new # <<>> /\ Last(live.lines) = live.lines[n]
      <3>1. Torn \in Committed BY CommittedTypes
      <3>2. n \in Nat \ {0} /\ DOMAIN live.lines = 1..n /\ Last(live.lines) = live.lines[n]
        BY <1>1 DEF Last
      <3> QED BY <1>1, <3>1, <3>2
    <2> HIDE DEF new, n
    <2>4. \A i \in 1..n : live.lines[i].kind # "torn" BY <1>1, <1>3, <2>3 DEF n
    <2>5. 1 \in 1..n /\ \A i \in 1..n + 1 : i \in 1..n \/ i = n + 1 BY <2>3
    <2>6. LinesInv' BY <1>1, <2>1, <2>3, <2>4, <2>5 DEF LinesInv
    <2>7. Grown(live.lines, new) BY <2>3 DEF Grown, n
    <2>8. CoverInv' BY <2>1, <2>2, <2>7, GrowsCovered DEF RInv
    <2> QED BY <2>6, <2>8 DEF RInv
  <1> QED BY <1>2, <1>3

\* A new file has its header, and nobody has read it.
LEMMA StartedLines ==
    ASSUME RInv, JInv', UNCHANGED <<stream, reader, poll, got, gone>>, StartFile(Len(log))
    PROVE  RInv'
  <1>1. live'.serial = Len(log) /\ live'.lines = <<Header>> BY DEF StartFile
  <1>2. CoverInv' BY <1>1, NewIsUnread DEF RInv
  <1>3. LinesInv' BY <1>1, LinesNotTorn DEF LinesInv
  <1> QED BY <1>2, <1>3 DEF RInv

LEMMA WriterLines ==
    ASSUME PlacesTell, RInv, JInv',
           AppendRecord \/ MarkRotated \/ MoveAway \/ MoveRefused \/ BeginFile
              \/ OpenCommands \/ OpenAcks \/ WriterDies
    PROVE  RInv'
  <1>0. JInv /\ live \in [serial : Int, gen : Nat, lines : Seq(Committed)] /\ FileInv
    BY DEF RInv, JInv, FileInv
  <1>1. CASE AppendRecord
    <2>1. PICK r : live' = [live EXCEPT !.lines = Joined(@, Rec(r))]
      BY <1>1 DEF AppendRecord, WriteRecord
    <2>2. live'.lines = Joined(live.lines, Rec(r)) /\ live'.serial = live.serial
      BY <1>0, <2>1
    <2>3. live # Absent /\ UNCHANGED <<stream, reader, poll, got, gone>>
      BY <1>1 DEF AppendRecord, WriteRecord
    <2> QED BY <2>2, <2>3, LinesNotTorn, AddedStep
  <1>2. CASE MarkRotated
    <2>1. live' = [live EXCEPT !.lines = Joined(@, Mark)] BY <1>2 DEF MarkRotated
    <2>2. live'.lines = Joined(live.lines, Mark) /\ live'.serial = live.serial
      BY <1>0, <2>1
    <2>3. live # Absent /\ UNCHANGED <<stream, reader, poll, got, gone>>
      BY <1>2 DEF MarkRotated, promise
    <2> QED BY <2>2, <2>3, LinesNotTorn, AddedStep
  <1>3. CASE MoveAway
    <2>1. live' = Absent /\ UNCHANGED <<stream, reader, poll, got, gone>> /\ stream = "commands"
      BY <1>3 DEF MoveAway, promise
    <2>2. live'.lines = <<>> /\ live'.serial = NoSerial /\ DOMAIN <<>> = {} /\ Len(<<>>) = 0
      BY <2>1 DEF Absent
    <2>3. LinesInv' BY <2>1, <2>2 DEF LinesInv
    <2>4. CoverInv' BY <2>1, <2>2 DEF RInv, CoverInv, Covered
    <2> QED BY <2>3, <2>4 DEF RInv
  <1>4. CASE MoveRefused
    BY <1>0, <1>4, LeftLines DEF MoveRefused, FileInv, promise
  <1>5. CASE BeginFile
    BY <1>0, <1>5, StartedLines DEF BeginFile, NextFile, FileInv
  <1>6. CASE OpenCommands \/ OpenAcks
    <2>1. UNCHANGED <<stream, reader, poll, got, gone>> /\ writer.pc = "down"
      BY <1>6 DEF OpenCommands, OpenAcks
    <2>2. CASE live = Absent
      <3>1. Len(log) = 0 BY <1>0, <2>1, <2>2 DEF FileInv
      <3>2. StartFile(Len(log)) BY <1>6, <2>2, <3>1 DEF OpenCommands, OpenAcks
      <3> QED BY <2>1, <3>2, StartedLines
    <2>3. CASE live # Absent
      <3>1. live' = live BY <1>6, <2>3 DEF PlacesTell, SerialsTell, OpenCommands, OpenAcks
      <3> QED BY <2>1, <2>3, <3>1, LeftLines
    <2> QED BY <2>2, <2>3
  <1>7. CASE WriterDies
    <2>1. live # Absent BY <1>0, <1>7 DEF PlacesTell, SerialsTell, FileInv, WriterDies
    <2> QED BY <1>7, <2>1, LeftLines DEF WriterDies, promise
  <1> QED BY <1>1, <1>2, <1>3, <1>4, <1>5, <1>6, <1>7

\* Lines that were read stay read.
LEMMA StaysCovered ==
    ASSUME RInv, UNCHANGED <<stream, live>>, got \subseteq got', gone \subseteq gone'
    PROVE  /\ LinesInv'
           /\ \A s, p : Covered(s, p) /\ s = live'.serial =>
                    /\ p <= Len(live'.lines)
                    /\ \A i \in DOMAIN live'.lines : i <= p =>
                          /\ live'.lines[i].kind = "rec" => live'.lines[i].rec \in got' \cup gone'
                          /\ stream' = "acks" =>
                                /\ live'.lines[i].kind # "torn"
                                /\ live'.lines[i].kind = "ruin"
                                     => live'.lines[i].rec \in got' \cup gone' \cup {0}
  <1>1. LinesInv' BY DEF RInv, LinesInv
  <1> QED BY <1>1 DEF Covered

\* A place before the first line was read to.
LEMMA NothingRead ==
    ASSUME RInv, NEW s
    PROVE  Covered(s, 0)
  <1>1. live.lines \in Seq(Committed) BY DEF RInv, JInv, FileInv
  <1>2. Len(live.lines) \in Nat /\ DOMAIN live.lines = 1..Len(live.lines) BY <1>1
  <1>3. \A i \in DOMAIN live.lines : ~(i <= 0) BY <1>2
  <1> QED BY <1>2, <1>3 DEF Covered

\* The reader takes a place that it may claim to have read to, or keeps its own.
LEMMA PlacedLines ==
    ASSUME RInv, JInv', UNCHANGED <<stream, live>>, got \subseteq got', gone \subseteq gone',
           \/ reader' = reader
           \/ reader'.pos = 0
           \/ reader'.serial # NoSerial /\ Covered(reader'.serial, reader'.pos),
           \/ stream = "commands" \/ poll'.at # "take"
           \/ poll' = poll \/ Covered(poll'.serial, poll'.start),
           \/ stream = "commands" \/ poll'.at = "idle"
           \/ poll' = poll \/ poll'.serial # NoSerial
    PROVE  RInv'
  <1>1. LinesInv' BY StaysCovered
  <1>2. Covered(reader'.serial, reader'.pos) BY NothingRead DEF RInv, CoverInv
  <1>3. Covered(reader.serial, reader.pos)' BY <1>2, StaysCovered DEF Covered
  <1>4. stream' = "acks" /\ poll'.at = "take" => Covered(poll'.serial, poll'.start)
    BY DEF RInv, JInv, CoverInv
  <1>5. stream' = "acks" /\ poll'.at = "take" => Covered(poll.serial, poll.start)'
    BY <1>4, StaysCovered DEF Covered
  <1>6. reader'.serial = NoSerial => reader'.pos = 0 BY DEF RInv, CoverInv
  <1>7. stream' = "acks" /\ poll'.at # "idle" => poll'.serial # NoSerial
    BY DEF RInv, JInv, CoverInv
  <1> QED BY <1>1, <1>3, <1>5, <1>6, <1>7 DEF RInv, CoverInv

LEMMA PollLines ==
    ASSUME PlacesTell, RInv, JInv',
           SyncGeneration \/ TakeNothing \/ ProbeHeader \/ SeekHeader \/ ReaderRestarts
    PROVE  RInv'
  <1>0. JInv /\ PlaceInv /\ CoverInv BY DEF RInv, JInv
  <1>1. CASE SyncGeneration
    <2>1. UNCHANGED <<stream, live>> /\ got' = got /\ gone' = gone /\ stream = "commands"
      BY <1>1 DEF SyncGeneration, promise
    <2>2. \/ reader' = reader
          \/ reader' = At(NoSerial, 0)
          \/ live # Absent /\ Adopted(live) /\ reader' = [reader EXCEPT !.serial = live.serial]
          \/ reader' = At(live.serial, 0)
      BY <1>1 DEF SyncGeneration
    <2>3. CASE live # Absent /\ Adopted(live)
               /\ reader' = [reader EXCEPT !.serial = live.serial]
      <3>1. reader'.pos = reader.pos /\ reader'.serial = live.serial
        BY <1>0, <2>3 DEF PlaceInv
      <3>2. live.serial # NoSerial BY <1>0, <2>3, FileFacts DEF NoSerial
      <3>3. reader.serial = live.serial \/ reader'.pos = 0
        BY <1>0, <2>3, <3>1 DEF Adopted, CoverInv
      <3>4. reader'.pos = 0 \/ (reader'.serial # NoSerial /\ Covered(reader'.serial, reader'.pos))
        BY <1>0, <3>1, <3>2, <3>3 DEF CoverInv
      <3> QED BY <2>1, <3>4, PlacedLines
    <2>4. CASE reader' = At(NoSerial, 0) \/ reader' = At(live.serial, 0)
      BY <2>1, <2>4, PlacedLines DEF At
    <2>5. CASE reader' = reader BY <2>1, <2>5, PlacedLines
    <2> QED BY <2>2, <2>3, <2>4, <2>5
  <1>2. CASE TakeNothing
    <2>1. UNCHANGED <<stream, live, reader>> /\ got \subseteq got' /\ gone \subseteq gone'
          /\ stream = "commands"
      BY <1>2 DEF TakeNothing, Arrive
    <2> QED BY <2>1, PlacedLines
  <1>3. CASE ProbeHeader
    <2>1. UNCHANGED <<stream, live, reader>> /\ got' = got /\ gone' = gone /\ live # Absent
      BY <1>3 DEF ProbeHeader, promise
    <2>2. poll'.serial = live.serial /\ poll'.start = StartIn(live)
      BY <1>3 DEF ProbeHeader, Begun
    <2>3. live.lines \in Seq(Committed) /\ live.lines # <<>> /\ live.lines[1] = Header
      BY <2>1 DEF RInv, JInv, FileInv, LinesInv
    <2>4. Len(live.lines) \in Nat \ {0} /\ DOMAIN live.lines = 1..Len(live.lines) BY <2>3
    <2>5. Covered(live.serial, 1)
      <3>1. \A i \in DOMAIN live.lines : i <= 1 => live.lines[i].kind = "head"
        BY <2>3, <2>4 DEF Header
      <3> QED BY <2>4, <3>1 DEF Covered
    <2>8. poll'.serial # NoSerial BY <1>0, <2>1, <2>2, FileFacts DEF NoSerial
    <2>6. CASE StartIn(live) = 1 BY <2>1, <2>2, <2>5, <2>6, <2>8, PlacedLines
    <2>7. CASE StartIn(live) # 1
      <3>1. StartIn(live) = reader.pos /\ Adopted(live) /\ reader.pos > 1
        BY <2>7 DEF StartIn
      <3>2. reader.serial = live.serial BY <1>0, <3>1 DEF Adopted, CoverInv
      <3>3. Covered(poll'.serial, poll'.start) BY <1>0, <2>2, <3>1, <3>2 DEF CoverInv
      <3> QED BY <2>1, <2>8, <3>3, PlacedLines
    <2> QED BY <2>6, <2>7
  <1>4. CASE SeekHeader
    <2>1. live # Absent /\ UNCHANGED <<stream, live, reader>> /\ got' = got /\ gone' = gone
          /\ poll'.serial = live.serial /\ poll'.at = "seek"
      BY <1>4 DEF SeekHeader, Begun, promise
    <2>2. poll'.serial # NoSerial BY <1>0, <2>1, FileFacts DEF NoSerial
    <2> QED BY <2>1, <2>2, PlacedLines
  <1>5. CASE ReaderRestarts
    BY <1>5, PlacedLines DEF ReaderRestarts, At, Idle
  <1> QED BY <1>1, <1>2, <1>3, <1>4, <1>5

\* seek_to_end leaves out what is in the file, and says so.
LEMMA SeekLines == RInv /\ JInv' /\ SeekSize => RInv'
  <1> SUFFICES ASSUME RInv, JInv', SeekSize PROVE RInv' OBVIOUS
  <1>1. /\ poll.at = "seek" /\ poll' = Idle /\ UNCHANGED <<stream, live, log, got>>
        /\ gone' = gone \cup (Before(poll.gen + 1) \ got)
    BY DEF SeekSize, Before
  <1>2. PlaceInv /\ stream = "acks" /\ live.lines \in Seq(Committed)
    BY <1>1 DEF RInv, JInv, PlaceInv, FileInv
  <1> DEFINE n == Len(live.lines)
  <1>3. n \in Nat /\ DOMAIN live.lines = 1..n BY <1>2
  <1>4. /\ reader'.serial = poll.serial
        /\ \/ reader'.pos = n /\ ~(Last(live.lines) = Torn)
           \/ reader'.pos = n - 1 /\ Last(live.lines) = Torn
    <2>1. CASE Last(live.lines) = Torn
      <3>1. reader' = [At(poll.serial, n - 1) EXCEPT !.held.line = Torn] BY <2>1 DEF SeekSize
      <3> QED BY <2>1, <3>1 DEF At
    <2>2. CASE ~(Last(live.lines) = Torn)
      <3>1. reader' = At(poll.serial, n) BY <2>2 DEF SeekSize
      <3> QED BY <2>2, <3>1 DEF At
    <2> QED BY <2>1, <2>2
  <1>5. /\ LinesInv'
        /\ poll.serial \in Int /\ poll.gen = poll.serial + 1 /\ poll.gen \in Nat
    BY <1>1, <1>2 DEF RInv, LinesInv, PlaceInv
  <1>6. ASSUME poll.serial = live.serial, NEW i \in DOMAIN live.lines, i <= reader'.pos
        PROVE  /\ live.lines[i].kind = "rec" => live.lines[i].rec \in got' \cup gone'
               /\ live.lines[i].kind # "torn"
               /\ live.lines[i].kind = "ruin" => live.lines[i].rec \in got' \cup gone' \cup {0}
    <2>1. live # Absent BY <1>2, <1>3, <1>6 DEF Absent
    <2>2. poll.gen = Len(log) /\ Len(log) \in Nat
      BY <1>2, <1>5, <1>6, <2>1, FileFacts DEF RInv
    <2>3. Before(poll.gen + 1) = Sent
      BY <2>2 DEF Before, Sent, StreamOf!Before, StreamOf!Sent
    <2>4. Sent \subseteq got' \cup gone' BY <1>1, <2>3
    <2>5. live.lines[i] \in Committed BY <1>2
    <2>6. live.lines[i].kind # "torn"
      <3>1. live.lines[i].kind = "torn" => i = n /\ live.lines[i] = Torn BY DEF RInv, LinesInv
      <3>2. Last(live.lines) = live.lines[n] BY DEF Last
      <3> QED BY <1>3, <1>4, <1>6, <3>1, <3>2
    <2> QED BY <2>4, <2>5, <2>6 DEF Committed
  <1>7. reader'.pos <= n BY <1>3, <1>4
  <1>8. Covered(reader.serial, reader.pos)' BY <1>1, <1>2, <1>4, <1>6, <1>7 DEF Covered
  <1>9. reader'.serial # NoSerial BY <1>1, <1>2, <1>4 DEF RInv, CoverInv
  <1> QED BY <1>1, <1>5, <1>8, <1>9 DEF RInv, CoverInv, Idle

\* A poll's worth of lines is what stands behind the place it begins at.
LEMMA BatchLines ==
    ASSUME JInv, NEW from \in Nat
    PROVE  /\ Batch(from) \in Seq(Committed)
           /\ Len(live.lines) <= from => Batch(from) = <<>>
           /\ from <= Len(live.lines) => from + Len(Batch(from)) <= Len(live.lines)
           /\ \A k \in 1..Len(Batch(from)) : Batch(from)[k] = live.lines[from + k]
  <1> DEFINE q == live.lines
             last == IF Len(q) < from + Budget THEN Len(q) ELSE from + Budget
  <1>1. q \in Seq(Committed) /\ Len(q) \in Nat /\ Budget \in Nat
    BY JournalAssumption DEF JInv, FileInv
  <1>2. last \in Nat /\ last <= Len(q) /\ (Len(q) <= from => from >= last) BY <1>1
  <1>3. Batch(from) = IF from >= last THEN <<>> ELSE SubSeq(q, from + 1, last)
    BY DEF Batch
  <1> HIDE DEF last, q
  <1>4. CASE from >= last
    <2>1. Batch(from) = <<>> BY <1>3, <1>4
    <2>2. Len(<<>>) = 0 /\ <<>> \in Seq(Committed) OBVIOUS
    <2> QED BY <1>1, <2>1, <2>2 DEF q
  <1>5. CASE ~(from >= last)
    <2>1. Batch(from) = SubSeq(q, from + 1, last) BY <1>3, <1>5
    <2>2. from + 1 \in Nat \ {0} /\ from + 1 <= last + 1 BY <1>2, <1>5
    <2>3. /\ Batch(from) \in Seq(Committed) /\ Len(Batch(from)) = last - (from + 1) + 1
          /\ \A k \in 1..last - (from + 1) + 1 : Batch(from)[k] = q[k + (from + 1) - 1]
      BY <1>1, <1>2, <2>1, <2>2, PartOf
    <2>4. last - (from + 1) + 1 = last - from /\ \A k \in Int : k + (from + 1) - 1 = from + k
      BY <1>2
    <2>5. /\ Len(Batch(from)) = last - from
          /\ \A k \in 1..last - from : Batch(from)[k] = q[from + k]
      BY <2>3, <2>4
    <2> QED BY <1>2, <1>5, <2>3, <2>5 DEF q
  <1> QED BY <1>4, <1>5

\* All of a sequence but its last element.
LEMMA FrontLines ==
    ASSUME NEW C, NEW q \in Seq(C), q # <<>>
    PROVE  /\ Front(q) \in Seq(C) /\ Len(Front(q)) = Len(q) - 1 /\ Len(q) \in Nat \ {0}
           /\ \A k \in 1..Len(q) - 1 : Front(q)[k] = q[k]
  <1> DEFINE n == Len(q) - 1
  <1>1. n \in Nat /\ n <= Len(q) /\ 1 <= n + 1 /\ Len(q) \in Nat \ {0} OBVIOUS
  <1>2. Front(q) = SubSeq(q, 1, n) BY DEF Front
  <1>3. n - 1 + 1 = n /\ \A i \in 1..n : i + 1 - 1 = i BY <1>1
  <1> HIDE DEF n
  <1>4. /\ SubSeq(q, 1, n) \in Seq(C) /\ Len(SubSeq(q, 1, n)) = n - 1 + 1
        /\ \A i \in 1..n - 1 + 1 : SubSeq(q, 1, n)[i] = q[i + 1 - 1]
    BY <1>1, PartOf
  <1>5. /\ Front(q) \in Seq(C) /\ Len(Front(q)) = n
        /\ \A i \in 1..n : Front(q)[i] = q[i]
    BY <1>2, <1>3, <1>4
  <1> QED BY <1>1, <1>5 DEF n

\* A poll that read on from what was read, and told of every line it passed, has
\* read to where it stands.
LEMMA ReadOn ==
    ASSUME RInv, NEW from \in Nat, NEW taken, Len(taken) \in Nat, NEW serial,
           UNCHANGED <<stream, live>>, got \subseteq got', gone \subseteq gone',
           Covered(serial, from),
           serial = live.serial =>
              /\ from + Len(taken) <= Len(live.lines)
              /\ \A k \in 1..Len(taken) :
                   LET line == live.lines[from + k] IN
                   /\ line.kind = "rec" => line.rec \in got' \cup gone'
                   /\ stream = "acks" => /\ line.kind # "torn"
                                         /\ line.kind = "ruin"
                                              => line.rec \in got' \cup gone' \cup {0}
    PROVE  serial = live'.serial =>
              /\ from + Len(taken) <= Len(live'.lines)
              /\ \A i \in DOMAIN live'.lines : i <= from + Len(taken) =>
                    /\ live'.lines[i].kind = "rec" => live'.lines[i].rec \in got' \cup gone'
                    /\ stream' = "acks" =>
                          /\ live'.lines[i].kind # "torn"
                          /\ live'.lines[i].kind = "ruin"
                               => live'.lines[i].rec \in got' \cup gone' \cup {0}
  <1> SUFFICES ASSUME serial = live.serial, NEW i \in DOMAIN live.lines,
                      i <= from + Len(taken)
               PROVE  /\ live.lines[i].kind = "rec" => live.lines[i].rec \in got' \cup gone'
                      /\ stream = "acks" =>
                            /\ live.lines[i].kind # "torn"
                            /\ live.lines[i].kind = "ruin"
                                 => live.lines[i].rec \in got' \cup gone' \cup {0}
    OBVIOUS
  <1>1. live.lines \in Seq(Committed) BY DEF RInv, JInv, FileInv
  <1>2. i \in Nat \ {0} BY <1>1
  <1>3. CASE i <= from BY <1>3 DEF Covered
  <1>4. CASE ~(i <= from)
    <2>1. i - from \in 1..Len(taken) /\ from + (i - from) = i BY <1>2, <1>4
    <2> QED BY <2>1
  <1> QED BY <1>3, <1>4

LEMMA TakenLines == PlacesTell /\ RInv /\ JInv' /\ TakeLines => RInv'
  <1> SUFFICES ASSUME PlacesTell, RInv, JInv', TakeLines PROVE RInv' OBVIOUS
  <1> DEFINE batch == Batch(reader.pos)
             taken == IF Holds(batch) THEN Front(batch) ELSE batch
  <1>1. stream = "commands" /\ poll.at = "take" /\ poll' = Idle /\ Agrees
        /\ UNCHANGED <<stream, live, writer, log>>
    BY DEF TakeLines
  <1>2. JInv /\ reader.pos \in Nat /\ reader.serial = poll.serial /\ PlaceInv /\ CoverInv
    BY <1>1 DEF RInv, JInv, PlaceInv
  <1>3. /\ batch \in Seq(Committed)
        /\ Len(live.lines) <= reader.pos => batch = <<>>
        /\ reader.pos <= Len(live.lines) => reader.pos + Len(batch) <= Len(live.lines)
        /\ \A k \in 1..Len(batch) : batch[k] = live.lines[reader.pos + k]
    BY <1>2, BatchLines
  <1>4. got' = got \cup RecsOf(taken) /\ gone \subseteq gone' BY DEF TakeLines, Arrive
  <1>5. PICK held : reader' = [reader EXCEPT !.pos = @ + Len(taken), !.held = held]
    BY DEF TakeLines
  <1>6. reader'.serial = reader.serial /\ reader'.pos = reader.pos + Len(taken)
    BY <1>2, <1>5 DEF PlaceInv
  <1> HIDE DEF batch
  <1>7. /\ taken \in Seq(Committed) /\ Len(taken) \in Nat /\ Len(taken) <= Len(batch)
        /\ \A k \in 1..Len(taken) : taken[k] = batch[k] /\ k \in 1..Len(batch)
    <2>0. Len(batch) \in Nat BY <1>3
    <2>1. CASE Holds(batch)
      <3>1. batch # <<>> BY <2>1 DEF Holds
      <3>2. /\ Front(batch) \in Seq(Committed) /\ Len(Front(batch)) = Len(batch) - 1
            /\ Len(batch) \in Nat \ {0} /\ \A k \in 1..Len(batch) - 1 : Front(batch)[k] = batch[k]
        BY <1>3, <3>1, FrontLines
      <3>3. taken = Front(batch) BY <2>1
      <3> HIDE DEF taken
      <3> QED BY <3>2, <3>3
    <2>2. CASE ~Holds(batch)
      <3>1. taken = batch BY <2>2
      <3> HIDE DEF taken
      <3> QED BY <1>3, <2>0, <3>1
    <2> QED BY <2>1, <2>2
  <1> HIDE DEF taken
  <1>8. \A k \in 1..Len(taken) : taken[k].kind = "rec" => taken[k].rec \in got'
    <2>1. DOMAIN taken = 1..Len(taken) BY <1>7
    <2> QED BY <1>4, <2>1 DEF RecsOf
  <1>9. live.lines \in Seq(Committed) BY DEF RInv, JInv, FileInv
  <1>10. reader.serial = live.serial =>
             /\ reader.pos + Len(taken) <= Len(live.lines)
             /\ \A k \in 1..Len(taken) : live.lines[reader.pos + k] = taken[k]
    <2> SUFFICES ASSUME reader.serial = live.serial
                 PROVE  /\ reader.pos + Len(taken) <= Len(live.lines)
                        /\ \A k \in 1..Len(taken) : live.lines[reader.pos + k] = taken[k]
      OBVIOUS
    <2>1. reader.pos <= Len(live.lines) /\ Len(live.lines) \in Nat /\ Len(batch) \in Nat
      BY <1>2, <1>3, <1>9 DEF CoverInv, Covered
    <2> QED BY <1>2, <1>3, <1>7, <2>1
  <1>11. Covered(reader.serial, reader.pos) BY <1>2 DEF CoverInv
  <1>12. Covered(reader.serial, reader.pos)'
    <2>1. got \subseteq got' /\ UNCHANGED <<stream, live>> BY <1>1, <1>4
    <2>2. reader.serial = live.serial =>
             /\ reader.pos + Len(taken) <= Len(live.lines)
             /\ \A k \in 1..Len(taken) :
                  LET line == live.lines[reader.pos + k] IN
                  /\ line.kind = "rec" => line.rec \in got' \cup gone'
                  /\ stream = "acks" => /\ line.kind # "torn"
                                        /\ line.kind = "ruin"
                                             => line.rec \in got' \cup gone' \cup {0}
      BY <1>1, <1>8, <1>10
    <2>3. reader.serial = live'.serial =>
              /\ reader.pos + Len(taken) <= Len(live'.lines)
              /\ \A i \in DOMAIN live'.lines : i <= reader.pos + Len(taken) =>
                    (live'.lines[i].kind = "rec" => live'.lines[i].rec \in got' \cup gone')
      BY <1>2, <1>4, <1>7, <1>11, <2>1, <2>2, ReadOn
    <2> QED BY <1>1, <1>6, <2>3 DEF Covered
  <1>13. reader'.serial = NoSerial => reader'.pos = 0
    <2> SUFFICES ASSUME reader.serial = NoSerial PROVE reader'.pos = 0
      BY <1>6
    <2>1. live = Absent BY <1>1, <1>2 DEF PlacesTell, Agrees
    <2>2. live.lines = <<>> /\ Len(<<>>) = 0 BY <2>1 DEF Absent
    <2>3. reader.pos = 0 BY <1>2 DEF CoverInv
    <2>4. batch = <<>> BY <1>3, <2>2, <2>3
    <2>5. taken = <<>> BY <2>4 DEF taken, Holds
    <2> QED BY <1>6, <2>2, <2>3, <2>5
  <1>14. LinesInv' BY <1>1 DEF RInv, LinesInv
  <1> QED BY <1>1, <1>12, <1>13, <1>14 DEF RInv, CoverInv, Idle

\* What a reader behind a fragment sees is what is there, but for the first line.
LEMMA UnprefixedLines ==
    ASSUME NEW batch \in Seq(Committed)
    PROVE  /\ Unprefixed(batch) \in Seq(Committed) /\ Len(Unprefixed(batch)) = Len(batch)
           /\ \A k \in 1..Len(batch) :
                 \/ Unprefixed(batch)[k] = batch[k]
                 \/ /\ batch[k].kind = "ruin"
                    /\ batch[k].rec = 0 \/ Unprefixed(batch)[k] = Rec(batch[k].rec)
                    /\ Unprefixed(batch)[k].kind # "torn"
  <1>1. CASE Unprefixed(batch) = batch BY <1>1
  <1>2. CASE Unprefixed(batch) # batch
    <2> DEFINE line == IF Head(batch).rec = 0 THEN Mark ELSE Rec(Head(batch).rec)
               n == Len(batch)
    <2>1. /\ batch # <<>> /\ Head(batch).kind = "ruin"
          /\ Unprefixed(batch) = <<line>> \o Tail(batch)
      BY <1>2 DEF Unprefixed
    <2>2. /\ n \in Nat \ {0} /\ Head(batch) = batch[1]
          /\ Tail(batch) \in Seq(Committed) /\ Len(Tail(batch)) = n - 1
      BY <2>1
    <2>3. \A k \in 1..n - 1 : Tail(batch)[k] = batch[k + 1] BY <2>1, <2>2
    <2>4. line.kind # "torn" /\ (batch[1].rec = 0 \/ line = Rec(batch[1].rec))
      BY <2>2, LinesNotTorn
    <2> HIDE DEF line
    <2>5. Unprefixed(batch) \in Seq(Committed) BY UnprefixedTypes
    <2> DEFINE S == Committed \cup {line}
    <2>6. <<line>> \in Seq(S) /\ Tail(batch) \in Seq(S) /\ Len(<<line>>) = 1 /\ <<line>>[1] = line
      BY <2>2
    <2> HIDE DEF S
    <2>7. /\ Len(<<line>> \o Tail(batch)) = 1 + (n - 1)
          /\ (<<line>> \o Tail(batch))[1] = line
          /\ \A k \in 2..n : (<<line>> \o Tail(batch))[k] = Tail(batch)[k - 1]
      BY <2>2, <2>6
    <2>8. \A k \in 2..n : k - 1 \in 1..n - 1 /\ (k - 1) + 1 = k BY <2>2
    <2>9. \A k \in 2..n : Unprefixed(batch)[k] = batch[k] BY <2>1, <2>3, <2>7, <2>8
    <2>10. \A k \in 1..n : k = 1 \/ k \in 2..n BY <2>2
    <2>11. Len(Unprefixed(batch)) = n BY <2>1, <2>2, <2>7
    <2>12. Unprefixed(batch)[1] = line BY <2>1, <2>7
    <2> QED BY <2>1, <2>2, <2>4, <2>5, <2>9, <2>10, <2>11, <2>12
  <1> QED BY <1>1, <1>2

LEMMA ConsumedLines == RInv /\ JInv' /\ Consume => RInv'
  <1> SUFFICES ASSUME RInv, JInv', Consume PROVE RInv' OBVIOUS
  <1>1. stream = "acks" /\ poll.at = "take" /\ poll' = Idle
        /\ UNCHANGED <<stream, live, writer, log>>
    BY DEF Consume
  <1>2. JInv /\ PlaceInv /\ CoverInv /\ poll.start \in Nat
    BY <1>1 DEF RInv, JInv, PlaceInv
  <1> DEFINE from == poll.start
             seen == Batch(from)
             whole == Unprefixed(seen)
             Taken(batch) ==
                 IF batch # <<>> /\ Last(batch).kind = "torn" THEN Front(batch) ELSE batch
  <1>3. /\ seen \in Seq(Committed)
        /\ from <= Len(live.lines) => from + Len(seen) <= Len(live.lines)
        /\ \A k \in 1..Len(seen) : seen[k] = live.lines[from + k]
    BY <1>2, BatchLines
  <1>4. PICK batch \in {whole, <<>>} :
            /\ \E held : reader' = [serial |-> poll.serial,
                                    pos |-> from + Len(Taken(batch)), held |-> held]
            /\ Arrive(poll.gen, poll.told, RecsOf(Taken(batch)), RuinsOf(Taken(batch)))
    BY DEF Consume
  <1> DEFINE taken == Taken(batch)
  <1>5. reader'.serial = poll.serial /\ reader'.pos = from + Len(taken) BY <1>4
  <1>6. got' = got \cup RecsOf(taken) /\ gone \cup RuinsOf(taken) \subseteq gone'
    BY <1>4 DEF Arrive
  <1> HIDE DEF seen
  <1>7. /\ whole \in Seq(Committed) /\ Len(whole) = Len(seen) /\ Len(seen) \in Nat
        /\ \A k \in 1..Len(seen) :
              \/ whole[k] = seen[k]
              \/ /\ seen[k].kind = "ruin" /\ (seen[k].rec = 0 \/ whole[k] = Rec(seen[k].rec))
                 /\ whole[k].kind # "torn"
    BY <1>3, UnprefixedLines
  <1> HIDE DEF whole
  <1>8. /\ taken \in Seq(Committed) /\ Len(taken) \in Nat /\ Len(taken) <= Len(whole)
        /\ \A k \in 1..Len(taken) : taken[k] = whole[k] /\ k \in 1..Len(whole)
        /\ Len(taken) = Len(whole) /\ whole # <<>> => whole[Len(whole)].kind # "torn"
    <2>1. CASE batch = <<>>
      <3>1. taken = <<>> BY <2>1
      <3> HIDE DEF taken
      <3>2. <<>> \in Seq(Committed) /\ Len(<<>>) = 0 OBVIOUS
      <3>3. whole # <<>> => Len(whole) # 0 BY <1>7
      <3> QED BY <1>7, <3>1, <3>2, <3>3
    <2>2. CASE batch = whole /\ whole # <<>> /\ Last(whole).kind = "torn"
      <3>1. taken = Front(whole) BY <2>2
      <3> HIDE DEF taken
      <3>2. /\ Front(whole) \in Seq(Committed) /\ Len(Front(whole)) = Len(whole) - 1
            /\ Len(whole) \in Nat \ {0} /\ \A k \in 1..Len(whole) - 1 : Front(whole)[k] = whole[k]
        BY <1>7, <2>2, FrontLines
      <3> QED BY <3>1, <3>2
    <2>3. CASE batch = whole /\ ~(whole # <<>> /\ Last(whole).kind = "torn")
      <3>1. taken = whole BY <2>3
      <3> HIDE DEF taken
      <3>2. whole # <<>> => whole[Len(whole)].kind # "torn" BY <2>3 DEF Last
      <3> QED BY <1>7, <3>1, <3>2
    <2> QED BY <1>4, <2>1, <2>2, <2>3
  <1> HIDE DEF taken
  <1>9. ASSUME NEW k \in 1..Len(taken)
        PROVE  /\ taken[k].kind = "rec" => taken[k].rec \in got'
               /\ taken[k].kind = "ruin" => taken[k].rec \in gone' \cup {0}
    <2>1. k \in DOMAIN taken BY <1>8
    <2> QED BY <1>6, <2>1 DEF RecsOf, RuinsOf
  <1>10. live.lines \in Seq(Committed) /\ Len(live.lines) \in Nat
    BY DEF RInv, JInv, FileInv
  <1>11. Covered(poll.serial, from) BY <1>1, <1>2 DEF CoverInv
  <1>12. poll.serial = live.serial =>
             /\ from + Len(taken) <= Len(live.lines)
             /\ \A k \in 1..Len(taken) :
                  LET line == live.lines[from + k] IN
                  /\ line.kind = "rec" => line.rec \in got' \cup gone'
                  /\ stream = "acks" => /\ line.kind # "torn"
                                        /\ line.kind = "ruin"
                                             => line.rec \in got' \cup gone' \cup {0}
    <2> SUFFICES ASSUME poll.serial = live.serial
                 PROVE  /\ from + Len(taken) <= Len(live.lines)
                        /\ \A k \in 1..Len(taken) :
                             LET line == live.lines[from + k] IN
                             /\ line.kind = "rec" => line.rec \in got' \cup gone'
                             /\ stream = "acks" => /\ line.kind # "torn"
                                                   /\ line.kind = "ruin"
                                                        => line.rec \in got' \cup gone' \cup {0}
      OBVIOUS
    <2>1. from + Len(seen) <= Len(live.lines) BY <1>3, <1>11 DEF Covered
    <2>2. from + Len(taken) <= Len(live.lines) BY <1>2, <1>7, <1>8, <1>10, <2>1
    <2>3. ASSUME NEW k \in 1..Len(taken)
          PROVE  /\ live.lines[from + k].kind = "rec"
                        => live.lines[from + k].rec \in got' \cup gone'
                 /\ live.lines[from + k].kind # "torn"
                 /\ live.lines[from + k].kind = "ruin"
                        => live.lines[from + k].rec \in got' \cup gone' \cup {0}
      <3>1. /\ taken[k] = whole[k] /\ k \in 1..Len(seen) /\ seen[k] = live.lines[from + k]
            /\ from + k \in 1..Len(live.lines) /\ k \in Nat
        BY <1>2, <1>3, <1>7, <1>8, <1>10, <2>2
      <3>2. CASE whole[k] = seen[k]
        <4>1. live.lines[from + k].kind = "torn" => FALSE
          <5> SUFFICES ASSUME live.lines[from + k].kind = "torn" PROVE FALSE OBVIOUS
          <5>1. from + k = Len(live.lines) BY <1>10, <3>1 DEF RInv, LinesInv
          <5>2. k = Len(whole) /\ Len(taken) = Len(whole)
            BY <1>2, <1>7, <1>8, <1>10, <2>1, <2>2, <3>1, <5>1
          <5>3. whole # <<>> BY <1>7, <3>1, <5>2
          <5> QED BY <1>8, <3>1, <3>2, <5>2, <5>3
        <4> QED BY <1>9, <3>1, <3>2, <4>1
      <3>3. CASE /\ seen[k].kind = "ruin" /\ (seen[k].rec = 0 \/ whole[k] = Rec(seen[k].rec))
                 /\ whole[k].kind # "torn"
        <4>1. whole[k] = Rec(seen[k].rec) => taken[k].kind = "rec" /\ taken[k].rec = seen[k].rec
          BY <3>1 DEF Rec
        <4> QED BY <1>9, <3>1, <3>3, <4>1
      <3> QED BY <1>7, <3>1, <3>2, <3>3
    <2> QED BY <2>2, <2>3
  <1>13. got \subseteq got' /\ gone \subseteq gone' BY <1>6
  <1>15. Covered(reader.serial, reader.pos)'
    <2>1. poll.serial = live'.serial =>
              /\ from + Len(taken) <= Len(live'.lines)
              /\ \A i \in DOMAIN live'.lines : i <= from + Len(taken) =>
                    /\ live'.lines[i].kind = "rec" => live'.lines[i].rec \in got' \cup gone'
                    /\ stream' = "acks" =>
                          /\ live'.lines[i].kind # "torn"
                          /\ live'.lines[i].kind = "ruin"
                               => live'.lines[i].rec \in got' \cup gone' \cup {0}
      BY <1>1, <1>2, <1>8, <1>11, <1>12, <1>13, ReadOn
    <2> QED BY <1>5, <2>1 DEF Covered
  <1>16. reader'.serial # NoSerial BY <1>1, <1>2, <1>5 DEF CoverInv
  <1>17. LinesInv' BY <1>1 DEF RInv, LinesInv
  <1> QED BY <1>1, <1>15, <1>16, <1>17 DEF RInv, CoverInv, Idle

LEMMA LinesKept == PlacesTell /\ RInv /\ [Next]_vars => RInv'
  <1> SUFFICES ASSUME PlacesTell, RInv, [Next]_vars PROVE RInv' OBVIOUS
  <1>1. JInv' BY StepKeeps DEF PlacesTell, RInv, Kept
  <1>2. CASE UNCHANGED vars
    <2>1. UNCHANGED <<stream, live, reader, poll, got, gone>> BY <1>2 DEF vars
    <2> QED BY <1>1, <2>1, PlacedLines
  <1> QED
    BY <1>1, <1>2, WriterLines, PollLines, SeekLines, TakenLines, ConsumedLines DEF Next

\* The place of a reader counts lines that it has read (CommandReader.lua's cursor,
\* JournalReader's offset): what stands before it in the file it follows was
\* delivered, reported, or spoilt by a fragment, for files, polls and scans of any
\* size, as long as a serial is that of one file and no poll reads lines of a file
\* whose header it has not seen.
THEOREM PassedWereRead == PlacesTell => (Spec => []PassedLinesWereRead)
  <1> SUFFICES ASSUME PlacesTell PROVE Spec => []PassedLinesWereRead OBVIOUS
  <1>1. Init => RInv
    <2> SUFFICES ASSUME Init PROVE RInv OBVIOUS
    <2>1. JInv BY InitHolds
    <2>2. live.lines = <<>> /\ DOMAIN <<>> = {} /\ Len(<<>>) = 0 BY DEF Init, Absent
    <2>3. LinesInv BY <2>2 DEF Init, LinesInv
    <2>4. CoverInv BY <2>2 DEF Init, CoverInv, Covered, At, Idle
    <2> QED BY <2>1, <2>3, <2>4 DEF RInv
  <1>2. RInv => PassedLinesWereRead
    <2> SUFFICES ASSUME RInv, reader.serial = live.serial, NEW i \in DOMAIN live.lines,
                        i <= reader.pos, live.lines[i].kind \in {"rec", "ruin"}
                 PROVE  live.lines[i].rec \in got \cup gone \cup Spoilt
      BY DEF PassedLinesWereRead
    <2>1. /\ live.lines[i].kind = "rec" => live.lines[i].rec \in got \cup gone
          /\ stream = "acks" /\ live.lines[i].kind = "ruin"
                => live.lines[i].rec \in got \cup gone \cup {0}
      BY DEF RInv, CoverInv, Covered
    <2>2. stream \in {"commands", "acks"} BY DEF RInv, JInv
    <2>3. stream = "commands" /\ live.lines[i].kind = "ruin" => live.lines[i].rec \in Spoilt
      BY DEF Spoilt, Damaged
    <2>4. stream = "acks" => 0 \in Spoilt BY DEF Spoilt
    <2> QED BY <2>1, <2>2, <2>3, <2>4
  <1> QED BY <1>1, <1>2, LinesKept, PTL DEF Spec
=============================================================================
