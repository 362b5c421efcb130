-------------------------------- MODULE Journal --------------------------------
(***************************************************************************)
(* One journal file of the exchange directory, its writer and its reader.  *)
(*                                                                         *)
(* Commands are written by the sidecar (JournalWriter: a full file is      *)
(* renamed away and a new one started) and read by the mod                 *)
(* (CommandReader.lua: a cursor that counts lines).  Acks are written by   *)
(* the mod (Ipc.lua: a full file is started again in place) and read by    *)
(* the sidecar (JournalReader: an offset and the serial it belongs to).    *)
(* Both begin every file with a header that carries a serial, and the      *)
(* reader's only way to notice a new file is to compare serials.           *)
(*                                                                         *)
(* The two programs share nothing but the file: every open of it is a step *)
(* of its own, and the other side may act between any two.                 *)
(*                                                                         *)
(* Lines have one size, so a byte offset and a line number are the same.   *)
(* A header is written whole.  Records are numbered as they are committed. *)
(***************************************************************************)
EXTENDS Integers, FiniteSets, SequencesExt

CONSTANTS
    Streams,        \* which of "commands" and "acks" to look at
    Faults,         \* what may go wrong beside crashes and refused opens
    MaxLines,       \* max_bytes / maxJournalBytes, in records
    Budget,         \* max_records / maxRecordsPerPoll
    MaxPartial,     \* MAX_PARTIAL_POLLS
    ScanLines,      \* MAX_SCAN_LINES
    MaxRecords,     \* bound on the records committed
    MaxHazards      \* bound on crashes, restarts and refused opens

\* "torn command", "torn ack": the writer dies within a line.  "reborn": the
\* sidecar dies after it renamed the live file and before the next one has a
\* header.  "unread": a mod that was loaded again cannot open its journal to see
\* the header in it.  "failed": the mod's read of the lines raises after it has
\* read the header.  "unsynced": the mod's first open in a poll finds no file and
\* its second does.
AllFaults == {"torn command", "torn ack", "reborn", "unread", "failed", "unsynced"}

ASSUME JournalAssumption ==
    /\ Streams \subseteq {"commands", "acks"}
    /\ Faults \subseteq AllFaults
    /\ {MaxLines, Budget, MaxPartial, ScanLines} \subseteq Nat \ {0}
    /\ Budget <= ScanLines
    /\ MaxRecords \in Nat /\ MaxHazards \in Nat

VARIABLES
    stream,     \* which stream this is
    live,       \* the file under the journal's name, or Absent
    writer,     \* pc: where the writer is; serial: the one it will write next
    reader,     \* serial and pos: its position; held: the fragment it waits on
    poll,       \* between the two opens of a poll: what the first one found
    log, at, got, gone,     \* history: the stream as its promise sees it
    hazards     \* crashes, restarts and refused opens so far

vars == <<stream, live, writer, reader, poll, log, at, got, gone, hazards>>
promise == <<log, at, got, gone>>

NoSerial == -1
Absent == [serial |-> NoSerial, gen |-> 0, lines |-> <<>>]
Header == [kind |-> "head", rec |-> 0]
Mark == [kind |-> "mark", rec |-> 0]
Torn == [kind |-> "torn", rec |-> 0]
Rec(r) == [kind |-> "rec", rec |-> r]
Ruin(r) == [kind |-> "ruin", rec |-> r]
NotHeld == [line |-> Header, polls |-> 0]
Idle == [at |-> "idle", gen |-> 0, serial |-> NoSerial, start |-> 0, told |-> FALSE]

StreamOf == INSTANCE Stream WITH Record <- 1..MaxRecords

RecsOf(lines) == {lines[i].rec : i \in {j \in DOMAIN lines : lines[j].kind = "rec"}}
Full(f) == Cardinality({i \in DOMAIN f.lines : f.lines[i].kind # "head"}) >= MaxLines
Damaged(line) == line.kind \in {"torn", "ruin"}

-----------------------------------------------------------------------------
(* Writers.                                                                *)

Hazard == hazards < MaxHazards /\ hazards' = hazards + 1

\* A new file under the journal's name, whatever was there.
StartFile(serial) ==
    /\ live' = [serial |-> serial, gen |-> Len(log) + 1, lines |-> <<Header>>]
    /\ log' = Append(log, {})

\* What a line that follows a fragment becomes: the two are one line.
Joined(lines, line) ==
    IF lines # <<>> /\ Last(lines).kind = "torn"
    THEN Append(Front(lines), Ruin(line.rec)) ELSE Append(lines, line)

\* _write_line / writeRaw of a record that fits.
WriteRecord ==
    /\ writer.pc = "ready" /\ live # Absent
    /\ Cardinality(StreamOf!Sent) < MaxRecords
    /\ LET r == Cardinality(StreamOf!Sent) + 1
       IN  /\ live' = [live EXCEPT !.lines = Joined(@, Rec(r))]
           /\ log' = [log EXCEPT ![Len(log)] = @ \cup {r}]

\* append to a file that has room.
AppendRecord ==
    /\ WriteRecord /\ ~Full(live)
    /\ UNCHANGED <<stream, writer, reader, poll, at, got, gone, hazards>>

\* rotate's first act, and appendRecord's: the rotation marker.
MarkRotated ==
    /\ writer.pc = "ready" /\ live # Absent /\ Full(live)
    /\ Cardinality(StreamOf!Sent) < MaxRecords
    /\ live' = [live EXCEPT !.lines = Joined(@, Mark)]
    /\ writer' = [pc |-> "marked", serial |-> live.serial + 1]
    /\ UNCHANGED <<stream, reader, poll, promise, hazards>>

\* The sidecar renames the full file away (_retire_current).
MoveAway ==
    /\ stream = "commands" /\ writer.pc = "marked"
    /\ live' = Absent
    /\ writer' = [writer EXCEPT !.pc = "moved"]
    /\ UNCHANGED <<stream, reader, poll, promise, hazards>>

\* A reader holds the file open past the patience of the rename: the handle is
\* closed already, and every later append of this process fails.
MoveRefused ==
    /\ stream = "commands" /\ writer.pc = "marked" /\ Hazard
    /\ writer' = [writer EXCEPT !.pc = "closed"]
    /\ UNCHANGED <<stream, live, reader, poll, promise>>

\* Mutant of NextFile: the serial is not advanced by a rotation.
NextFileSameSerial == StartFile(writer.serial - 1)

\* The next generation gets the next serial.
NextFile == StartFile(writer.serial)

BeginFile ==
    /\ writer.pc = IF stream = "commands" THEN "moved" ELSE "marked"
    /\ NextFile
    /\ writer' = [writer EXCEPT !.pc = "ready"]
    /\ UNCHANGED <<stream, reader, poll, at, got, gone, hazards>>

\* _recover_next_command_seq gives up on a journal without one readable record
\* if there is something else in it.
Recoverable(f) ==
    RecsOf(f.lines) # {} \/ \A i \in DOMAIN f.lines : ~Damaged(f.lines[i])

\* The sidecar attaches: it goes on in the file it finds, or starts the first.
OpenCommands ==
    /\ stream = "commands" /\ writer.pc = "down"
    /\ Recoverable(live)
    /\ IF live # Absent THEN UNCHANGED <<live, log>> ELSE StartFile(0)
    /\ writer' = [pc |-> "ready", serial |-> 0]
    /\ UNCHANGED <<stream, reader, poll, at, got, gone, hazards>>

\* The mod's first append after it was loaded (journalState): it goes on in the
\* file whose header it can read, and otherwise starts it again at serial 0.
OpenAcks ==
    /\ stream = "acks" /\ writer.pc = "down"
    /\ \/ live = Absent /\ StartFile(0) /\ UNCHANGED hazards
       \/ live # Absent /\ UNCHANGED <<live, log, hazards>>
       \/ "unread" \in Faults /\ live # Absent /\ Hazard /\ StartFile(0)
    /\ writer' = [pc |-> "ready", serial |-> 0]
    /\ UNCHANGED <<stream, reader, poll, at, got, gone>>

Tears == (IF stream = "commands" THEN "torn command" ELSE "torn ack") \in Faults

\* The writing process ends: between two lines, within one, or within a
\* rotation.
WriterDies ==
    /\ writer.pc # "down" /\ Hazard
    /\ writer.pc = "moved" => "reborn" \in Faults
    /\ writer' = [pc |-> "down", serial |-> 0]
    /\ live' \in {live} \cup
            IF Tears /\ writer.pc = "ready" /\ Last(live.lines).kind # "torn"
            THEN {[live EXCEPT !.lines = Append(@, Torn)]} ELSE {}
    /\ UNCHANGED <<stream, reader, poll, promise>>

-----------------------------------------------------------------------------
(* Readers.                                                                *)

\* What the reader has not been given of the generations before g.
Missed(g) == StreamOf!Before(g) \ got

\* The end of a poll: the reader now stands in generation g.  Told, it knows
\* that it has lost what it missed; newly come, it was never owed it.
Arrive(g, told, delivered, dropped) ==
    /\ at' = g
    /\ got' = got \cup delivered
    /\ gone' = gone \cup dropped \cup IF told \/ at = 0 THEN Missed(g) ELSE {}

\* The first open of a poll sees the file, or nothing: there is none, or the
\* open was refused until the reader's patience ran out.
Glimpse(f) ==
    \/ f = live /\ UNCHANGED hazards
    \/ f = Absent /\ live # Absent /\ Hazard

At(serial, pos) == [serial |-> serial, pos |-> pos, held |-> NotHeld]

\* The first open of a poll is over; `what` comes next.
Begun(what, serial, g, told, start) ==
    poll' = [at |-> what, gen |-> g, serial |-> serial, start |-> start, told |-> told]

\* Whether the file's serial says that it is the one read before, or the first.
Adopted(f) == reader.serial \in {NoSerial, f.serial}

\* CommandReader.syncGeneration.
SyncGeneration ==
    /\ stream = "commands" /\ poll.at = "idle"
    /\ \E f \in {live, Absent} :
        /\ Glimpse(f)
        /\ \/ /\ f = Absent /\ reader.serial = NoSerial
              /\ Begun("take", NoSerial, at, FALSE, 0) /\ UNCHANGED reader
           \/ /\ f = Absent /\ reader.serial # NoSerial
              /\ Begun("take", NoSerial, 0, TRUE, 0) /\ reader' = At(NoSerial, 0)
           \/ /\ f # Absent /\ Adopted(f)
              /\ Begun("take", f.serial, f.gen, FALSE, 0)
              /\ reader' = [reader EXCEPT !.serial = f.serial]
           \/ /\ f # Absent /\ ~Adopted(f)
              /\ Begun("take", f.serial, f.gen, TRUE, 0) /\ reader' = At(f.serial, 0)
    /\ UNCHANGED <<stream, live, writer, promise>>

\* Mutant of StartIn: a file begun again is read from where the last one was.
StartInSame(f) == IF reader.pos > 1 THEN reader.pos ELSE 1

\* Where _plan starts in the live file: no earlier than past its header.
StartIn(f) == IF Adopted(f) /\ reader.pos > 1 THEN reader.pos ELSE 1

\* JournalReader.read's probe of the header, and _plan: no other generation of
\* an ack journal is ever kept, so what is not in the live file is lost.
ProbeHeader ==
    /\ stream = "acks" /\ poll.at = "idle" /\ live # Absent
    /\ Begun("take", live.serial, live.gen, ~Adopted(live), StartIn(live))
    /\ UNCHANGED <<stream, live, writer, reader, promise, hazards>>

\* Mutant of Batch: a poll takes a line past the cursor it skips by.
BatchPast(from) ==
    LET last == IF Len(live.lines) < from + Budget THEN Len(live.lines) ELSE from + Budget
    IN  IF from + 1 >= last THEN <<>> ELSE SubSeq(live.lines, from + 2, last)

\* The lines of the file that is there now from line `from` on, a poll's worth.
Batch(from) ==
    LET last == IF Len(live.lines) < from + Budget THEN Len(live.lines) ELSE from + Budget
    IN  IF from >= last THEN <<>> ELSE SubSeq(live.lines, from + 1, last)

\* holdPartial: a last line that does not decode may still be completed, and
\* is waited for while it looks the same for MAX_PARTIAL_POLLS polls.
Holds(batch) ==
    /\ batch # <<>> /\ Damaged(Last(batch))
    /\ ~ /\ Len(batch) = 1 /\ reader.held.line = Last(batch)
         /\ reader.held.polls >= MaxPartial

RuinsOf(lines) == {lines[i].rec : i \in {j \in DOMAIN lines : lines[j].kind = "ruin"}} \ {0}

\* What the second open of the mod's poll finds is what the first one found.
Agrees == poll.serial # NoSerial \/ live = Absent \/ "unsynced" \in Faults

\* The rest of CommandReader.poll: a line that does not decode is reported and
\* passed, unless it is waited for.
TakeLines ==
    /\ stream = "commands" /\ poll.at = "take" /\ Agrees
    /\ reader.pos + Budget <= ScanLines
    /\ LET batch == Batch(reader.pos)
           waits == Holds(batch)
           again == Len(batch) = 1 /\ reader.held.line = Last(batch)
           taken == IF waits THEN Front(batch) ELSE batch
       IN  /\ reader' = [reader EXCEPT
                  !.pos = @ + Len(taken),
                  !.held = IF batch = <<>> THEN @
                           ELSE IF ~waits THEN NotHeld
                           ELSE [line |-> Last(batch),
                                 polls |-> IF again THEN @.polls + 1 ELSE 1]]
           /\ Arrive(poll.gen, poll.told, RecsOf(taken), RuinsOf(taken))
    /\ poll' = Idle
    /\ UNCHANGED <<stream, live, writer, log, hazards>>

\* The second half of the poll takes no line: the cursor is past what a poll may
\* scan, the open was refused (an empty file, to this reader), or the read
\* raised, and then the report of a rotation is not in the poll's answer.
TakeNothing ==
    /\ stream = "commands" /\ poll.at = "take"
    /\ \/ /\ reader.pos + Budget > ScanLines \/ ~Agrees
          /\ Arrive(poll.gen, poll.told, {}, {}) /\ UNCHANGED hazards
       \/ Hazard /\ Arrive(poll.gen, poll.told, {}, {})
       \/ "failed" \in Faults /\ Hazard /\ Arrive(poll.gen, FALSE, {}, {})
    /\ poll' = Idle
    /\ UNCHANGED <<stream, live, writer, reader, log>>

\* A reader that was placed behind a fragment does not see it: what completes
\* the line is, to this reader, a line of its own.
Unprefixed(batch) ==
    IF reader.held.line = Torn /\ ~poll.told /\ batch # <<>> /\ Head(batch).kind = "ruin"
    THEN <<IF Head(batch).rec = 0 THEN Mark ELSE Rec(Head(batch).rec)>> \o Tail(batch)
    ELSE batch

\* _consume: complete lines only, from the file that now has the journal's name.
\* It finds nothing in a file that cannot be opened or is just being started.
Consume ==
    /\ stream = "acks" /\ poll.at = "take"
    /\ \E batch \in {Unprefixed(Batch(poll.start)), <<>>} :
        LET taken == IF batch # <<>> /\ Last(batch).kind = "torn" THEN Front(batch) ELSE batch
        IN  /\ IF batch = Unprefixed(Batch(poll.start)) THEN UNCHANGED hazards ELSE Hazard
            /\ reader' = [serial |-> poll.serial, pos |-> poll.start + Len(taken),
                          held |-> IF poll.told \/ taken # <<>> THEN NotHeld ELSE reader.held]
            /\ Arrive(poll.gen, poll.told, RecsOf(taken), RuinsOf(taken))
    /\ poll' = Idle
    /\ UNCHANGED <<stream, live, writer, log>>

\* The reading process ends and another begins without a position.
ReaderRestarts ==
    /\ Hazard /\ at' = 0
    /\ reader' = At(NoSerial, 0) /\ poll' = Idle
    /\ UNCHANGED <<stream, live, writer, log, got, gone>>

\* seek_to_end, where the sidecar's reader of the observation journal begins:
\* past what is in the file, under the serial in its header.
SeekHeader ==
    /\ stream = "acks" /\ poll.at = "idle" /\ reader.serial = NoSerial /\ live # Absent
    /\ Begun("seek", live.serial, live.gen, FALSE, 0)
    /\ UNCHANGED <<stream, live, writer, reader, promise, hazards>>

SeekSize ==
    /\ poll.at = "seek"
    /\ reader' = IF Last(live.lines) = Torn
                 THEN [At(poll.serial, Len(live.lines) - 1) EXCEPT !.held.line = Torn]
                 ELSE At(poll.serial, Len(live.lines))
    /\ at' = poll.gen
    /\ gone' = gone \cup (StreamOf!Before(poll.gen + 1) \ got)
    /\ poll' = Idle
    /\ UNCHANGED <<stream, live, writer, log, got, hazards>>

-----------------------------------------------------------------------------
Init ==
    /\ stream \in Streams
    /\ live = Absent /\ writer = [pc |-> "down", serial |-> 0]
    /\ reader = At(NoSerial, 0) /\ poll = Idle
    /\ log = <<>> /\ at = 0 /\ got = {} /\ gone = {}
    /\ hazards = 0

Next ==
    \/ AppendRecord \/ MarkRotated \/ MoveAway \/ MoveRefused \/ BeginFile
    \/ OpenCommands \/ OpenAcks \/ WriterDies
    \/ SyncGeneration \/ TakeLines \/ TakeNothing
    \/ ProbeHeader \/ Consume \/ SeekHeader \/ SeekSize
    \/ ReaderRestarts

Spec == Init /\ [][Next]_vars

\* The reading side polls on every tick of its loop; a rotation the sidecar has
\* begun is straight-line code of a process that runs.
Poll == SyncGeneration \/ TakeLines \/ TakeNothing \/ ProbeHeader \/ Consume \/ SeekSize
Rotation == MoveAway \/ (stream = "commands" /\ BeginFile)

FairSpec == Spec /\ WF_vars(Poll) /\ WF_vars(Rotation)

-----------------------------------------------------------------------------
(* Properties.                                                             *)

Line == [kind : {"head", "mark", "torn", "rec", "ruin"}, rec : 0..MaxRecords]

\* Shapes of the state.
TypeOK ==
    /\ stream \in Streams
    /\ live \in [serial : NoSerial..Len(log), gen : 0..Len(log), lines : Seq(Line)]
    /\ writer \in [pc : {"down", "ready", "marked", "moved", "closed"}, serial : 0..Len(log)]
    /\ reader \in [serial : NoSerial..Len(log), pos : Nat,
                   held : [line : Line, polls : 0..MaxPartial]]
    /\ poll \in [at : {"idle", "take", "seek"}, gen : 0..Len(log),
                 serial : NoSerial..Len(log), start : Nat, told : BOOLEAN]
    /\ log \in Seq(SUBSET (1..MaxRecords)) /\ at \in 0..Len(log)
    /\ got \subseteq StreamOf!Sent /\ gone \subseteq StreamOf!Sent
    /\ hazards \in 0..MaxHazards

\* Both streams implement the promise.
Promise == StreamOf!Spec

\* What was appended to a fragment in the command file: no reader can decode it,
\* and one that gave the fragment up is not told.
Spoilt == IF stream = "commands"
          THEN {live.lines[i].rec : i \in {j \in DOMAIN live.lines : Damaged(live.lines[j])}}
          ELSE {0}

\* The reader's position counts lines it has read: what stands before it in the
\* file it follows has been delivered or reported.
PassedLinesWereRead ==
    poll.at = "idle" /\ reader.serial = live.serial =>
        \A i \in DOMAIN live.lines :
            i <= reader.pos /\ live.lines[i].kind \in {"rec", "ruin"} =>
                live.lines[i].rec \in got \cup gone \cup Spoilt

\* A committed record does not stay unread for ever, whatever was rotated,
\* refused or restarted: it is delivered, reported, or the reader has lost its
\* place and said so.
RecordsAreAccountedFor ==
    \A r \in 1..MaxRecords :
        r \in StreamOf!Sent ~> (r \in got \cup gone \cup Spoilt \/ at = 0)
=============================================================================
