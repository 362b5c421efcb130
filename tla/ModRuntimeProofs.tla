-------------------------- MODULE ModRuntimeProofs --------------------------
(***************************************************************************)
(* Theorems about ModRuntime: authority, stops, the slot, and that no key  *)
(* is begun twice, for every set of commands, every lease, timeout, budget *)
(* and size of the reader's memory.                                        *)
(***************************************************************************)
EXTENDS ModRuntime, SequenceTheorems, TLAPS

Worker == {c \in Cmd : Kind[c] = "work"}

Job == [cmd : Worker, started : Int, polled : Int, stalled : Int, stopped : BOOLEAN]

Shape ==
    /\ now \in Int /\ session \in Int /\ budget \in Int /\ open \in Int /\ armed \in BOOLEAN
    /\ inbox \in Seq(Cmd) /\ batch \in Seq(Entry)
    /\ inflight \in Job \cup {NoWork} /\ waiting \in Job \cup {NoWork}
    /\ driven \in Job \cup {NoWork}
    /\ pc \in {"idle", "step", "promote", "read", "admit"}

\* What the place in the tick says of the slot and of the batch.
TickInv ==
    /\ pc \in {"idle", "step", "promote"} => batch = <<>>
    /\ pc = "step" => inflight # NoWork
    /\ pc = "promote" => inflight = NoWork /\ waiting # NoWork
    /\ pc = "admit" => batch # <<>>

\* What the reader handed out was checked at this very tick.
CheckedOnRead ==
    \A i \in DOMAIN batch :
        batch[i].kind = "command" => Mine(batch[i].cmd) /\ ~Lapsed(batch[i].cmd)

\* Stopped work is met disarmed, and it is gone before a line is read.
StopInv ==
    /\ \A w \in {inflight, waiting} : (w # NoWork /\ w.stopped) =>
          ~armed /\ pc \in {"idle", "step", "promote"}
    /\ (waiting # NoWork /\ waiting.stopped /\ inflight # NoWork) => inflight.stopped

IInv ==
    /\ Shape /\ TickInv /\ CheckedOnRead /\ StopInv
    /\ DrivenWithAuthority /\ StoppedStaysStopped /\ NothingVanishes

-----------------------------------------------------------------------------
USE DEF Shape, TickInv, CheckedOnRead, StopInv, DrivenWithAuthority, StoppedStaysStopped,
        NothingVanishes, Load

LEMMA InitInv == Init => IInv
  <1> SUFFICES ASSUME Init PROVE IInv OBVIOUS
  <1>1. <<>> \in Seq(Cmd) /\ <<>> \in Seq(Entry) OBVIOUS
  <1>7. pc \in {"idle", "step", "promote", "read", "admit"} BY DEF Init
  <1>8. now \in Int /\ session \in Int /\ budget \in Int /\ open \in Int BY DEF Init
  <1>9. armed \in BOOLEAN BY DEF Init
  <1>0. Shape BY <1>1, <1>7, <1>8, <1>9 DEF Init
  <1>2. TickInv BY DEF Init
  <1>3. CheckedOnRead BY DEF Init
  <1>4. StopInv BY DEF Init
  <1>5. DrivenWithAuthority /\ StoppedStaysStopped BY DEF Init
  <1>6. NothingVanishes BY DEF Init
  <1> QED BY <1>0, <1>2, <1>3, <1>4, <1>5, <1>6 DEF IInv

\* Work that may go on is of the open session, inside its lease and armed.
LEMMA FitForService ==
    ASSUME Shape, NEW w \in Job, ~Interrupted(w)
    PROVE  /\ armed /\ gate = "open" /\ SessionOf[w.cmd] = session /\ now <= Until[w.cmd]
  <1>1. w.cmd \in Cmd /\ Kind[w.cmd] = "work" BY DEF Job, Worker
  <1>2. ~AlwaysAllowed(w.cmd) BY <1>1 DEF AlwaysAllowed
  <1>3. armed /\ gate = "open" /\ SessionOf[w.cmd] = session BY DEF Interrupted
  <1>4. ~Expired(w.cmd) BY <1>2 DEF Interrupted, Lapsed
  <1>5. Until[w.cmd] \in Nat BY <1>1, RuntimeAssumption
  <1> QED BY <1>3, <1>4, <1>5 DEF Expired

\* A stop marks the work and changes nothing else of it.
LEMMA StoppedIsMarked ==
    ASSUME NEW w \in Job \cup {NoWork}
    PROVE  /\ Stopped(w) \in Job \cup {NoWork}
           /\ Stopped(w) = NoWork <=> w = NoWork
           /\ Stopped(w) # NoWork => Stopped(w).stopped
  <1> USE RuntimeAssumption DEF Stopped
  <1>1. CASE w = NoWork BY <1>1
  <1>2. CASE w # NoWork
    <2>1. Stopped(w) = [w EXCEPT !.stopped = TRUE] BY <1>2
    <2>2. w \in Job BY <1>2
    <2>3. Stopped(w) \in Job /\ Stopped(w).stopped BY <2>1, <2>2 DEF Job
    <2>4. Stopped(w) # NoWork BY <2>3 DEF Job, Worker
    <2> QED BY <1>2, <2>3, <2>4
  <1> QED BY <1>1, <1>2

\* Between ticks nobody touches the batch, the slot or the count of work; a
\* stop disarms and marks what it finds.
LEMMA EnvironmentKeeps == IInv /\ Environment => IInv'
  <1> SUFFICES ASSUME IInv, Environment PROVE IInv' OBVIOUS
  <1> USE RuntimeAssumption DEF IInv, Idle, tick, slot, sidecar
  <1>1. ASSUME NEW c \in Cmd, Issue(c) PROVE IInv'
    <2>1. inbox' \in Seq(Cmd) BY <1>1 DEF Issue
    <2> QED BY <1>1, <2>1 DEF Issue
  <1>2. CASE Advance
    BY <1>2 DEF Advance
  <1>3. CASE OpenSession
    <2>6. session' \in Int BY <1>3 DEF OpenSession
    <2>7. armed' \in BOOLEAN BY <1>3 DEF OpenSession
    <2>8. UNCHANGED <<now, budget, open, inbox, batch, inflight, waiting, pc>> /\ driven' = NoWork
      BY <1>3 DEF OpenSession
    <2>1. Shape' BY <2>6, <2>7, <2>8
    <2>2. TickInv' /\ CheckedOnRead' BY <1>3 DEF OpenSession
    <2>3. StopInv' BY <1>3 DEF OpenSession
    <2>4. NothingVanishes' BY <1>3 DEF OpenSession
    <2>5. DrivenWithAuthority' /\ StoppedStaysStopped' BY <1>3 DEF OpenSession
    <2> QED BY <2>1, <2>2, <2>3, <2>4, <2>5
  <1>4. CASE Rotate
    BY <1>4 DEF Rotate, Hazard
  <1>5. ASSUME NEW g \in Gate, ChangeGate(g) PROVE IInv'
    BY <1>5 DEF ChangeGate, Hazard
  <1>6. ASSUME NEW g \in Gate, StopFromOutside(g) PROVE IInv'
    <2>1. /\ inflight' \in Job \cup {NoWork} /\ (inflight' = NoWork <=> inflight = NoWork)
          /\ waiting' \in Job \cup {NoWork} /\ (waiting' = NoWork <=> waiting = NoWork)
          /\ inflight' # NoWork => inflight'.stopped
      <3>1. inflight' = Stopped(inflight) /\ waiting' = Stopped(waiting) BY <1>6 DEF StopFromOutside
      <3>2. inflight \in Job \cup {NoWork} /\ waiting \in Job \cup {NoWork} BY DEF Shape
      <3> QED BY <3>1, <3>2, StoppedIsMarked
    <2>2. Shape' BY <1>6, <2>1 DEF StopFromOutside, Hazard
    <2>3. TickInv' /\ CheckedOnRead' BY <1>6, <2>1 DEF StopFromOutside, Hazard
    <2>4. StopInv' BY <1>6, <2>1 DEF StopFromOutside, Hazard
    <2>5. NothingVanishes' BY <1>6, <2>1 DEF StopFromOutside, Hazard
    <2>6. DrivenWithAuthority' /\ StoppedStaysStopped' BY <1>6 DEF StopFromOutside, Hazard
    <2> QED BY <2>2, <2>3, <2>4, <2>5, <2>6
  <1> QED BY <1>1, <1>2, <1>3, <1>4, <1>5, <1>6 DEF Environment

LEMMA BeginTickKeeps == IInv /\ BeginTick => IInv'
  <1> SUFFICES ASSUME IInv, BeginTick PROVE IInv' OBVIOUS
  <1> USE RuntimeAssumption DEF IInv, BeginTick, sidecar
  <1>1. /\ inflight' = IF Foreign(inflight) THEN NoWork ELSE inflight
        /\ waiting' = IF Foreign(waiting) THEN NoWork ELSE waiting
    BY DEF Leave
  <1>2. open' = Load(inflight') + Load(waiting') /\ open' \in Int
    BY <1>1 DEF Leave, Over, Foreign
  <1>3. /\ inflight' # NoWork => pc' = "step"
        /\ inflight' = NoWork /\ waiting' # NoWork => pc' = "promote"
        /\ inflight' = NoWork /\ waiting' = NoWork => pc' = "read"
    BY DEF AfterStep
  <1> QED BY <1>1, <1>2, <1>3

\* The slot after an outcome holds the work or nothing.
LEMMA AfterOutcome ==
    ASSUME NEW w, w # NoWork, NEW n \in Int, Outcome(w, n)
    PROVE  /\ inflight' \in {w, NoWork} /\ open' = n - 1 + Load(inflight') /\ open' \in Int
  BY DEF Outcome

LEMMA StepKeeps == IInv /\ Step => IInv'
  <1> SUFFICES ASSUME IInv, Step PROVE IInv' OBVIOUS
  <1> USE RuntimeAssumption DEF IInv, sidecar
  <1>1. inflight \in Job /\ inflight # NoWork BY DEF Step
  <1>2. CASE Interrupted(inflight)
    BY <1>2 DEF Step, AfterStep
  <1>3. CASE ~Interrupted(inflight)
    <2>1. /\ Polled(inflight) \in Job /\ Polled(inflight).cmd = inflight.cmd
          /\ Polled(inflight).stopped = inflight.stopped
      <3> DEFINE n == IF inflight.polled # -1 /\ now <= inflight.polled
                      THEN inflight.stalled + 1 ELSE 0
      <3>1. n \in Int BY <1>1 DEF Job
      <3>2. Polled(inflight) = [inflight EXCEPT !.stalled = n, !.polled = now] BY DEF Polled
      <3> HIDE DEF n
      <3> QED BY <1>1, <3>1, <3>2 DEF Job
    <2>2. armed /\ gate = "open" /\ SessionOf[inflight.cmd] = session /\ now <= Until[inflight.cmd]
      BY <1>1, <1>3, FitForService
    <2>3. Outcome(Polled(inflight), open) /\ driven' = Polled(inflight) BY <1>3 DEF Step
    <2>4. Polled(inflight) # NoWork BY <2>1 DEF Job, Worker
    <2>5. inflight' \in {Polled(inflight), NoWork} /\ open' = open - 1 + Load(inflight')
          /\ open' \in Int
      BY <2>3, <2>4, AfterOutcome
    <2> HIDE DEF Polled
    <2>6. /\ budget' = budget - 1 /\ pc' = AfterStep(inflight', waiting, budget')
          /\ UNCHANGED <<now, session, armed, gate, inbox, waiting, batch>> /\ pc = "step"
      BY DEF Step
    <2>7. Shape' BY <2>1, <2>3, <2>5, <2>6 DEF AfterStep
    <2>8. TickInv' /\ CheckedOnRead' BY <2>6 DEF AfterStep
    <2>9. StopInv' BY <1>1, <2>1, <2>2, <2>5, <2>6
    <2>10. NothingVanishes' BY <1>1, <2>5, <2>6
    <2>11. DrivenWithAuthority' BY <2>1, <2>2, <2>3, <2>6
    <2>12. StoppedStaysStopped' BY <1>1, <2>1, <2>2, <2>3
    <2> QED BY <2>7, <2>8, <2>9, <2>10, <2>11, <2>12
  <1> QED BY <1>2, <1>3

LEMMA PromoteKeeps == IInv /\ Promote => IInv'
  <1> SUFFICES ASSUME IInv, Promote PROVE IInv' OBVIOUS
  <1> USE RuntimeAssumption DEF IInv, sidecar
  <1>1. waiting \in Job /\ waiting # NoWork /\ inflight = NoWork BY DEF Promote
  <1>2. CASE Interrupted(waiting)
    BY <1>1, <1>2 DEF Promote
  <1>3. CASE ~Interrupted(waiting)
    <2> DEFINE w == [waiting EXCEPT !.started = now]
    <2>1. w \in Job /\ w.stopped = waiting.stopped BY <1>1 DEF Job, Worker
    <2>2. armed /\ gate = "open" /\ SessionOf[waiting.cmd] = session /\ now <= Until[waiting.cmd]
      BY <1>1, <1>3, FitForService
    <2>3. Outcome(w, open) /\ driven' = waiting BY <1>3 DEF Promote, Begin
    <2>4. w # NoWork BY <2>1 DEF Job, Worker
    <2> HIDE DEF w
    <2>5. inflight' \in {w, NoWork} /\ open' = open - 1 + Load(inflight') /\ open' \in Int
      BY <2>3, <2>4, AfterOutcome
    <2> QED BY <1>1, <2>1, <2>2, <2>3, <2>5 DEF Promote
  <1> QED BY <1>2, <1>3

\* A command is handed out only when it is of the session and inside its lease.
LEMMA ReadKeeps == IInv /\ (Read \/ EndRead) => IInv'
  <1> SUFFICES ASSUME IInv, Read \/ EndRead PROVE IInv' OBVIOUS
  <1> USE RuntimeAssumption DEF IInv, sidecar, slot
  <1>1. CASE Read
    <2>1. PICK c \in Cmd : c = Head(inbox) BY <1>1 DEF Read
    <2>2. \/ batch' = batch
          \/ batch' = Append(batch, [kind |-> "refused", cmd |-> c])
          \/ /\ batch' = Append(batch, [kind |-> "command", cmd |-> c])
             /\ Mine(c) /\ ~Lapsed(c)
      BY <1>1, <2>1 DEF Read, Classify
    <2>3. ASSUME NEW e \in Entry, batch' = Append(batch, e),
                 e.kind = "command" => Mine(e.cmd) /\ ~Lapsed(e.cmd)
          PROVE  /\ batch' \in Seq(Entry)
                 /\ \A i \in DOMAIN batch' : batch'[i].kind = "command" =>
                        Mine(batch'[i].cmd) /\ ~Lapsed(batch'[i].cmd)
      <3>1. /\ batch' \in Seq(Entry) /\ Len(batch') = Len(batch) + 1
            /\ batch'[Len(batch) + 1] = e
            /\ \A i \in 1..Len(batch) : batch'[i] = batch[i]
        BY <2>3
      <3> QED BY <2>3, <3>1
    <2>4. /\ batch' \in Seq(Entry)
          /\ \A i \in DOMAIN batch' : batch'[i].kind = "command" =>
                 Mine(batch'[i].cmd) /\ ~Lapsed(batch'[i].cmd)
      <3>1. [kind |-> "refused", cmd |-> c] \in Entry /\ [kind |-> "command", cmd |-> c] \in Entry
        BY DEF Entry
      <3>2. CASE batch' = batch BY <3>2
      <3>3. CASE batch' = Append(batch, [kind |-> "refused", cmd |-> c])
        BY <3>1, <3>3, <2>3
      <3>4. CASE batch' = Append(batch, [kind |-> "command", cmd |-> c]) /\ Mine(c) /\ ~Lapsed(c)
        BY <3>1, <3>4, <2>3
      <3> QED BY <2>2, <3>2, <3>3, <3>4
    <2>5. CheckedOnRead'
      BY <1>1, <2>4 DEF Read, Mine, Lapsed, Expired
    <2>6. inbox' \in Seq(Cmd) BY <1>1 DEF Read
    <2> QED BY <1>1, <2>4, <2>5, <2>6 DEF Read
  <1>2. CASE EndRead
    BY <1>2 DEF EndRead, Mine, Lapsed, Expired
  <1> QED BY <1>1, <1>2

-----------------------------------------------------------------------------
\* What taking the head of the batch leaves for the next entry.
LEMMA TakeKeeps ==
    ASSUME IInv, NEW kind, Take(kind)
    PROVE  /\ batch' \in Seq(Entry) /\ pc = "admit" /\ pc' \in {"idle", "admit"}
           /\ pc' = "idle" => batch' = <<>>
           /\ pc' = "admit" => batch' # <<>>
           /\ CheckedOnRead'
           /\ Head(batch).kind = "command" => Mine(Head(batch).cmd) /\ ~Lapsed(Head(batch).cmd)
           /\ Head(batch).cmd \in Cmd
           /\ UNCHANGED <<now, session, gate, inbox, budget>>
  <1> USE DEF IInv, sidecar
  <1>1. batch # <<>> /\ batch \in Seq(Entry) BY DEF Take
  <1>2. Len(batch) \in Nat /\ Len(batch) > 0 /\ 1 \in DOMAIN batch /\ Head(batch) = batch[1]
    BY <1>1
  <1>3. batch' \in Seq(Entry) /\ batch' = Tail(batch) BY <1>1 DEF Take
  <1>4. Len(batch') = Len(batch) - 1 BY <1>1, <1>3
  <1>5. \A i \in DOMAIN batch' : batch'[i] = batch[i + 1] /\ i + 1 \in DOMAIN batch
    BY <1>1, <1>2, <1>3, <1>4
  <1>6. UNCHANGED <<now, session, gate, inbox, budget>> BY DEF Take
  <1>7. CheckedOnRead' BY <1>5, <1>6 DEF Mine, Lapsed, Expired
  <1>8. Head(batch) \in Entry BY <1>1, <1>2
  <1>9. pc = "admit" /\ pc' = IF Len(batch) = 1 THEN "idle" ELSE "admit" BY DEF Take
  <1>10. /\ pc' \in {"idle", "admit"} /\ pc' = "idle" => batch' = <<>>
         /\ pc' = "admit" => batch' # <<>>
    BY <1>2, <1>3, <1>4, <1>9
  <1> QED BY <1>2, <1>3, <1>6, <1>7, <1>8, <1>9, <1>10 DEF Entry

\* An admission that drives nothing keeps IInv when the slot and the waiting
\* place keep their work or lose it, and the count follows.
LEMMA QuietAdmission ==
    ASSUME IInv, NEW kind, Take(kind), driven' = NoWork, armed' \in BOOLEAN,
           inflight' \in {inflight, NoWork}, waiting' \in {waiting, NoWork},
           open' = Load(inflight') + Load(waiting')
    PROVE  IInv'
  <1> USE DEF IInv
  <1>1. /\ batch' \in Seq(Entry) /\ pc = "admit" /\ pc' \in {"idle", "admit"}
        /\ pc' = "idle" => batch' = <<>>
        /\ pc' = "admit" => batch' # <<>>
        /\ CheckedOnRead'
        /\ UNCHANGED <<now, session, gate, inbox, budget>>
    BY TakeKeeps DEF CheckedOnRead
  <1>2. Shape' BY <1>1
  <1>3. TickInv' BY <1>1
  <1>4. StopInv' BY <1>1
  <1>5. DrivenWithAuthority' /\ StoppedStaysStopped' BY DEF DrivenWithAuthority
  <1> HIDE DEF CheckedOnRead
  <1> QED BY <1>1, <1>2, <1>3, <1>4, <1>5

\* Leave empties the places it names, and the count with them.
LEMMA LeaveCounts ==
    ASSUME IInv, NEW s \in BOOLEAN, NEW q \in BOOLEAN, NEW last, Leave(s, q, last)
    PROVE  /\ inflight' \in {inflight, NoWork} /\ waiting' \in {waiting, NoWork}
           /\ open' = Load(inflight') + Load(waiting')
  BY DEF IInv, Leave, Over

LEMMA FreshWork ==
    ASSUME NEW c \in Worker
    PROVE  /\ NewWork(c) \in Job /\ NewWork(c) # NoWork
           /\ NewWork(c).cmd = c /\ ~NewWork(c).stopped
  <1>1. NewWork(c) \in Job BY DEF NewWork, Job
  <1>2. Job \subseteq [cmd : Cmd, started : Int, polled : Int, stalled : Int, stopped : BOOLEAN]
    BY DEF Job, Worker
  <1>3. NewWork(c) # NoWork BY <1>1, <1>2, RuntimeAssumption
  <1> QED BY <1>1, <1>3 DEF NewWork

LEMMA AdmitWorkKeeps ==
    ASSUME IInv, AdmitWork(Head(batch).cmd)
    PROVE  IInv'
  <1> DEFINE c == Head(batch).cmd
             w == NewWork(c)
  <1> USE RuntimeAssumption DEF IInv
  <1>1. Take("command") /\ Kind[c] = "work" /\ MayStart(c) /\ armed' = armed BY DEF AdmitWork
  <1>2. /\ batch' \in Seq(Entry) /\ pc = "admit" /\ pc' \in {"idle", "admit"}
        /\ pc' = "idle" => batch' = <<>>
        /\ pc' = "admit" => batch' # <<>>
        /\ CheckedOnRead' /\ c \in Cmd
        /\ UNCHANGED <<now, session, gate, inbox, budget>>
    BY <1>1, TakeKeeps
  <1>3. Mine(c)
    <2>1. Head(batch).kind = "command" BY <1>1 DEF Take
    <2> QED BY <1>1, <2>1, TakeKeeps
  <1>4. armed /\ gate = "open" /\ SessionOf[c] = session /\ now <= Until[c]
    <2>1. ~AlwaysAllowed(c) BY <1>1 DEF AlwaysAllowed
    <2>2. armed /\ gate = "open" /\ ~Expired(c) BY <1>1, <2>1 DEF MayStart
    <2> QED BY <1>2, <1>3, <2>2 DEF Expired, Mine
  <1>5. w \in Job /\ ~w.stopped /\ w.cmd = c /\ w # NoWork
    BY <1>1, <1>2, FreshWork DEF Worker
  <1> HIDE DEF CheckedOnRead
  <1>6. CASE SlotFree /\ Begin(w, open + 1) /\ waiting' = waiting
    <2> DEFINE v == [w EXCEPT !.started = now]
    <2>1. v \in Job /\ ~v.stopped BY <1>5 DEF Job
    <2>2. Outcome(v, open + 1) /\ driven' = w BY <1>6 DEF Begin
    <2>3. v # NoWork BY <2>1 DEF Job, Worker
    <2> HIDE DEF v, w, c
    <2>4. inflight' \in {v, NoWork} /\ open' = open + Load(inflight') /\ open' \in Int
      BY <2>2, <2>3, AfterOutcome
    <2>5. Shape' BY <1>1, <1>2, <1>5, <1>6, <2>1, <2>2, <2>4
    <2>6. TickInv' BY <1>2
    <2>7. StopInv' BY <1>2, <1>6, <2>1, <2>4
    <2>8. NothingVanishes' BY <1>6, <2>4 DEF SlotFree
    <2>9. DrivenWithAuthority' /\ StoppedStaysStopped' BY <1>1, <1>2, <1>4, <1>5, <2>2
    <2> QED BY <1>2, <2>5, <2>6, <2>7, <2>8, <2>9
  <1>7. CASE /\ ~SlotFree /\ driven' = NoWork /\ inflight' = inflight
             /\ waiting = NoWork /\ waiting' = w /\ open' = open + 1
    <2> HIDE DEF w, c
    <2>1. Shape' BY <1>1, <1>2, <1>5, <1>7
    <2>2. TickInv' BY <1>2
    <2>3. StopInv' BY <1>2, <1>5, <1>7
    <2>4. NothingVanishes' BY <1>5, <1>7
    <2>5. DrivenWithAuthority' /\ StoppedStaysStopped' BY <1>7
    <2> QED BY <1>2, <2>1, <2>2, <2>3, <2>4, <2>5
  <1>8. CASE driven' = NoWork /\ UNCHANGED <<inflight, waiting, open>>
    BY <1>1, <1>8, QuietAdmission
  <1> QED BY <1>6, <1>7, <1>8 DEF AdmitWork

LEMMA AdmitKeeps == IInv /\ AdmitNext => IInv'
  <1> SUFFICES ASSUME IInv, AdmitNext PROVE IInv' OBVIOUS
  <1> DEFINE c == Head(batch).cmd
  <1>0. armed \in BOOLEAN /\ open = Load(inflight) + Load(waiting) BY DEF IInv
  <1>1. ASSUME NEW kind, Refuse(kind) PROVE IInv'
    BY <1>0, <1>1, QuietAdmission DEF Refuse, slot
  <1>2. CASE AdmitWork(c) BY <1>2, AdmitWorkKeeps
  <1>3. CASE Look(c)
    BY <1>0, <1>3, QuietAdmission DEF Look, AtOnce, slot
  <1>4. CASE Arm(c)
    BY <1>0, <1>4, QuietAdmission DEF Arm, AtOnce, slot
  <1>5. CASE Disarm(c)
    BY <1>0, <1>5, QuietAdmission DEF Disarm, AtOnce, slot
  <1>6. CASE Stop(c)
    <2>1. Take("command") /\ driven' = NoWork /\ armed' \in BOOLEAN BY <1>6 DEF Stop, AtOnce
    <2>2. Leave(TRUE, TRUE, <<Answer(c, "succeeded")>>) BY <1>6 DEF Stop
    <2> QED BY <2>1, <2>2, LeaveCounts, QuietAdmission
  <1>7. CASE Cancel(c)
    <2>1. Take("command") /\ driven' = NoWork /\ armed' \in BOOLEAN
      BY <1>0, <1>7 DEF Cancel, AtOnce
    <2>2. \E s \in BOOLEAN, q \in BOOLEAN, last \in {<<Answer(c, "succeeded")>>,
                                                    <<Answer(c, "ended")>>} : Leave(s, q, last)
      BY <1>7 DEF Cancel
    <2> QED BY <2>1, <2>2, LeaveCounts, QuietAdmission
  <1> QED BY <1>1, <1>2, <1>3, <1>4, <1>5, <1>6, <1>7 DEF AdmitNext

LEMMA StutterKeeps == IInv /\ UNCHANGED vars => IInv'
  BY DEF IInv, vars, sidecar, tick, slot, history, Mine, Lapsed, Expired

-----------------------------------------------------------------------------
LEMMA NextKeeps == IInv /\ [Next]_vars => IInv'
  BY EnvironmentKeeps, BeginTickKeeps, StepKeeps, PromoteKeeps, ReadKeeps, AdmitKeeps, StutterKeeps
  DEF Next, Tick

LEMMA Invariance == Spec => []IInv
  BY InitInv, NextKeeps, PTL DEF Spec

\* Whenever ActionRuntime calls an adapter (at a start, a promotion or a poll)
\* the agent is armed, the gate of Safety.lua is open, and the command is of
\* the open session and inside its lease: for any commands, leases and budgets.
THEOREM Authority == Spec => []DrivenWithAuthority
  <1>1. IInv => DrivenWithAuthority BY DEF IInv
  <1> QED BY <1>1, Invariance, PTL

\* Work that a stop of the player or a panic met in the slot or waiting is
\* never driven again, however soon the sidecar arms anew.
THEOREM StopsHold == Spec => []StoppedStaysStopped
  <1>1. IInv => StoppedStaysStopped BY DEF IInv
  <1> QED BY <1>1, Invariance, PTL

\* Every command admitted for the slot is in it, waiting for it, or finished
\* with an ack: no admission, promotion, stop or cancel overwrites one.
THEOREM NoWorkLost == Spec => []NothingVanishes
  <1>1. IInv => NothingVanishes BY DEF IInv
  <1> QED BY <1>1, Invariance, PTL

-----------------------------------------------------------------------------
(* No key is begun twice.                                                  *)

HIDE DEF Shape, TickInv, CheckedOnRead, StopInv, DrivenWithAuthority, StoppedStaysStopped,
         NothingVanishes, Load

Memo == [id : Cmd, keyed : BOOLEAN, ack : Terminal \cup {"none"}]
Memory == [order : Seq(Memo), lost : SUBSET Key]

\* The keys that an entry of the memory bears, or bore before it was evicted.
Borne(m) == {KeyOf[e.id] : e \in {f \in Range(m.order) : f.keyed}} \cup m.lost

ForCommand(e, k) == e.kind = "command" /\ KeyOf[e.cmd] = k
Pends(k) == \E i \in DOMAIN batch : ForCommand(batch[i], k)
Awaits(k) == waiting # NoWork /\ KeyOf[waiting.cmd] = k

MemoryInv == memory \in Memory /\ begun \in [Key -> 0..2]

\* A key that has a command handed out, waiting or begun is in the memory or
\* was lost from it; until it is lost it has one of the three, once.
OnceInv ==
    \A k \in Key :
        /\ Pends(k) \/ Awaits(k) \/ begun[k] # 0 => k \in Borne(memory)
        /\ k \notin memory.lost =>
              /\ begun[k] < 2
              /\ begun[k] = 1 => ~Pends(k) /\ ~Awaits(k)
              /\ Awaits(k) => ~Pends(k)
              /\ \A i, j \in DOMAIN batch :
                    ForCommand(batch[i], k) /\ ForCommand(batch[j], k) => i = j

KeyInv == IInv /\ MemoryInv /\ OnceInv

\* What a memory bears is borne for ever.
Outgrows(n, m) == n \in Memory /\ m.lost \subseteq n.lost /\ Borne(m) \subseteq Borne(n)

LEMMA JoinedOutgrows ==
    ASSUME NEW m \in Memory, NEW e \in Memo
    PROVE  /\ Outgrows(Joined(m, e), m)
           /\ e.keyed => KeyOf[e.id] \in Borne(Joined(m, e))
           /\ Borne(Joined(m, e)) \subseteq Borne(m) \cup {KeyOf[e.id]}
           /\ Joined(m, e).lost \subseteq Borne(m)
  <1> DEFINE o == Append(m.order, e)
             n == [m EXCEPT !.order = o]
  <1>0. KeyOf \in [Cmd -> Key] /\ MaxRemembered \in Nat \ {0} BY RuntimeAssumption
  <1>1. m.order \in Seq(Memo) /\ m.lost \subseteq Key BY DEF Memory
  <1>2. /\ o \in Seq(Memo) /\ Len(o) = Len(m.order) + 1 /\ o[Len(m.order) + 1] = e
        /\ \A i \in 1..Len(m.order) : o[i] = m.order[i]
    BY <1>1
  <1>3. Range(o) = Range(m.order) \cup {e} BY <1>1, <1>2 DEF Range
  <1>4. n.order = o /\ n.lost = m.lost /\ n \in Memory BY <1>1, <1>2 DEF Memory
  <1>5. Joined(m, e) = Bounded(n) BY DEF Joined
  <1> HIDE DEF o, n
  <1>6. CASE Len(o) <= MaxRemembered
    <2>1. Joined(m, e) = n BY <1>4, <1>5, <1>6 DEF Bounded
    <2> QED BY <1>3, <1>4, <2>1 DEF Outgrows, Borne
  <1>7. CASE Len(o) > MaxRemembered
    <2> DEFINE b == Joined(m, e)
    <2>1. /\ b.order = Tail(o)
          /\ b.lost = m.lost \cup {KeyOf[f.id] : f \in {g \in {Head(o)} : g.keyed}}
          /\ b = [order |-> b.order, lost |-> b.lost]
      <3>1. ~(Len(n.order) <= MaxRemembered) BY <1>0, <1>1, <1>2, <1>4, <1>7
      <3>2. Bounded(n) = [order |-> Tail(n.order),
                lost |-> n.lost \cup {KeyOf[f.id] : f \in {g \in {Head(n.order)} : g.keyed}}]
        BY <3>1, Zenon DEF Bounded
      <3>3. b = [order |-> Tail(o),
                lost |-> m.lost \cup {KeyOf[f.id] : f \in {g \in {Head(o)} : g.keyed}}]
        BY <1>4, <1>5, <3>2, Zenon
      <3> QED BY <3>3
    <2>2. /\ Head(o) \in Memo /\ Tail(o) \in Seq(Memo) /\ Head(o) = o[1] /\ Len(m.order) >= 1
          /\ Len(Tail(o)) = Len(m.order) /\ \A i \in 1..Len(m.order) : Tail(o)[i] = o[i + 1]
      <3>1. Len(m.order) >= 1 /\ Len(m.order) \in Nat BY <1>0, <1>1, <1>2, <1>7
      <3>2. o # <<>> /\ Len(o) \in Nat BY <1>2, <3>1
      <3>3. Head(o) = o[1] /\ o[1] \in Memo BY <1>2, <3>1, <3>2
      <3>4. Tail(o) \in Seq(Memo) /\ Len(Tail(o)) = Len(o) - 1 BY <1>2, <3>2
      <3>5. \A i \in 1..Len(Tail(o)) : Tail(o)[i] = o[i + 1] BY <1>2, <3>2, <3>4
      <3> QED BY <1>2, <3>1, <3>3, <3>4, <3>5
    <2>3. Range(o) = Range(Tail(o)) \cup {Head(o)}
      <3>1. ASSUME NEW i \in DOMAIN o PROVE o[i] \in Range(Tail(o)) \cup {Head(o)}
        <4>1. CASE i = 1 BY <2>2, <4>1
        <4>2. CASE i # 1
          <5>2. i \in 1..Len(o) /\ DOMAIN Tail(o) = 1..Len(Tail(o)) BY <1>2, <2>2
          <5>3. i - 1 \in 1..Len(m.order) /\ i - 1 + 1 = i BY <1>2, <2>2, <4>2, <5>2
          <5>1. i - 1 \in DOMAIN Tail(o) /\ Tail(o)[i - 1] = o[i] BY <2>2, <5>2, <5>3
          <5> QED BY <5>1 DEF Range
        <4> QED BY <4>1, <4>2
      <3>2. ASSUME NEW i \in DOMAIN Tail(o) PROVE Tail(o)[i] \in Range(o)
        BY <1>2, <2>2 DEF Range
      <3>3. Head(o) \in Range(o) BY <1>2, <2>2 DEF Range
      <3> QED BY <3>1, <3>2, <3>3 DEF Range
    <2>4. Head(o) \in Range(m.order) BY <1>1, <1>2, <2>2 DEF Range
    <2>5. b.lost \subseteq Key /\ b \in Memory
      <3>1. Head(o).id \in Cmd /\ KeyOf[Head(o).id] \in Key BY <1>0, <2>2 DEF Memo
      <3>2. b.lost \subseteq Key BY <1>1, <2>1, <3>1
      <3> QED BY <2>1, <2>2, <3>2 DEF Memory
    <2>6. Borne(b) = {KeyOf[f.id] : f \in {g \in Range(o) : g.keyed}} \cup m.lost
      BY <2>1, <2>3 DEF Borne
    <2>7. b.lost \subseteq Borne(m) BY <2>1, <2>4 DEF Borne
    <2> HIDE DEF b
    <2>8. m.lost \subseteq b.lost BY <2>1
    <2>9. Borne(m) \subseteq Borne(b) BY <1>3, <2>6 DEF Borne
    <2>10. e.keyed => KeyOf[e.id] \in Borne(b) BY <1>3, <2>6
    <2>11. Borne(b) \subseteq Borne(m) \cup {KeyOf[e.id]} BY <1>3, <2>6 DEF Borne
    <2> QED BY <2>5, <2>7, <2>8, <2>9, <2>10, <2>11 DEF b, Outgrows
  <1> QED BY <1>0, <1>1, <1>2, <1>6, <1>7

Result(a) == a.cmd \in Cmd /\ a.status \in Terminal

LEMMA RememberedOutgrows ==
    ASSUME NEW m \in Memory, NEW a, Result(a)
    PROVE  Outgrows(RememberedAs(m, a), m)
  <1>1. m.order \in Seq(Memo) /\ m.lost \subseteq Key BY DEF Memory
  <1>2. CASE \E i \in DOMAIN m.order : m.order[i].id = a.cmd
    <2> DEFINE o == [i \in DOMAIN m.order |->
                       IF m.order[i].id = a.cmd THEN [m.order[i] EXCEPT !.ack = a.status]
                       ELSE m.order[i]]
    <2>1. RememberedAs(m, a) = [m EXCEPT !.order = o] BY <1>2 DEF RememberedAs
    <2>2. ASSUME NEW i \in DOMAIN m.order
          PROVE  o[i] \in Memo /\ o[i].id = m.order[i].id /\ o[i].keyed = m.order[i].keyed
      <3>1. m.order[i] \in Memo BY <1>1
      <3>2. a.status \in Terminal \cup {"none"} BY DEF Result
      <3> QED BY <3>1, <3>2 DEF Memo
    <2>3. o \in Seq(Memo) /\ DOMAIN o = DOMAIN m.order
      <3>1. DOMAIN o = 1..Len(m.order) /\ Len(m.order) \in Nat BY <1>1
      <3> HIDE DEF o
      <3>2. o \in [1..Len(m.order) -> Memo] BY <3>1, <2>2, <1>1 DEF o
      <3>3. Seq(Memo) = UNION {[1..n -> Memo] : n \in Nat} BY SeqDef
      <3>4. [1..Len(m.order) -> Memo] \in {[1..n -> Memo] : n \in Nat} BY <3>1
      <3>5. o \in Seq(Memo) BY <3>2, <3>3, <3>4
      <3>6. DOMAIN o = DOMAIN m.order BY DEF o
      <3> QED BY <3>5, <3>6
    <2>4. [m EXCEPT !.order = o].order = o /\ [m EXCEPT !.order = o].lost = m.lost
          /\ [m EXCEPT !.order = o] \in Memory
      BY <2>3 DEF Memory
    <2> HIDE DEF o
    <2>5. ASSUME NEW i \in DOMAIN m.order, m.order[i].keyed
          PROVE  KeyOf[m.order[i].id] \in Borne(RememberedAs(m, a))
      <3> DEFINE n == RememberedAs(m, a)
      <3>1. n.order = o BY <2>1, <2>4
      <3> HIDE DEF n
      <3>2. o[i] \in Range(o) BY <2>3 DEF Range
      <3>3. o[i].keyed /\ o[i].id = m.order[i].id BY <2>2, <2>5
      <3>4. o[i] \in {f \in Range(n.order) : f.keyed} BY <3>1, <3>2, <3>3
      <3>5. KeyOf[o[i].id] \in Borne(n) BY <3>4 DEF Borne
      <3> QED BY <3>3, <3>5 DEF n
    <2>6. Borne(m) \subseteq Borne(RememberedAs(m, a))
      BY <2>1, <2>4, <2>5 DEF Borne, Range
    <2> QED BY <2>1, <2>4, <2>6 DEF Outgrows
  <1>3. CASE ~ \E i \in DOMAIN m.order : m.order[i].id = a.cmd
    <2>1. [id |-> a.cmd, keyed |-> FALSE, ack |-> a.status] \in Memo BY DEF Result, Memo
    <2> QED BY <1>3, <2>1, JoinedOutgrows DEF RememberedAs
  <1> QED BY <1>2, <1>3

LEMMA OutgrowsOn ==
    ASSUME NEW l, NEW m, NEW n, Outgrows(m, l), Outgrows(n, m)
    PROVE  Outgrows(n, l)
  BY DEF Outgrows

\* The answers of a tick to one to three commands.
Results(answers) == \A i \in DOMAIN answers : Result(answers[i])

LEMMA WrittenOutgrows ==
    ASSUME NEW m \in Memory, NEW answers, Results(answers), NEW i, NEW unwritten
    PROVE  Outgrows(Written(m, answers, i, unwritten), m)
  <1>1. CASE i \in DOMAIN answers /\ answers[i] \notin unwritten
    BY <1>1, RememberedOutgrows DEF Written, Results
  <1>2. CASE ~(i \in DOMAIN answers /\ answers[i] \notin unwritten)
    BY <1>2 DEF Written, Outgrows
  <1> QED BY <1>1, <1>2

LEMMA FinishOutgrows ==
    ASSUME MemoryInv, NEW answers, Results(answers), Finish(answers)
    PROVE  Outgrows(memory', memory)
  <1>1. PICK unwritten :
            memory' = Written(Written(Written(memory, answers, 1, unwritten),
                                      answers, 2, unwritten), answers, 3, unwritten)
    BY DEF Finish
  <1> DEFINE first == Written(memory, answers, 1, unwritten)
             second == Written(first, answers, 2, unwritten)
  <1>2. memory \in Memory BY DEF MemoryInv
  <1>3. Outgrows(first, memory) BY <1>2, WrittenOutgrows
  <1>4. first \in Memory BY <1>3 DEF Outgrows
  <1> HIDE DEF first
  <1>5. Outgrows(second, first) BY <1>4, WrittenOutgrows
  <1>6. second \in Memory BY <1>5 DEF Outgrows
  <1>7. memory' = Written(second, answers, 3, unwritten) BY <1>1 DEF first
  <1> HIDE DEF second
  <1>8. Outgrows(memory', second) BY <1>6, <1>7, WrittenOutgrows
  <1> QED BY <1>3, <1>5, <1>8, OutgrowsOn

LEMMA ResultsOfOne ==
    ASSUME NEW c \in Cmd, NEW s \in Terminal
    PROVE  Results(<<Answer(c, s)>>)
  BY DEF Results, Result, Answer

LEMMA LeaveOutgrows ==
    ASSUME IInv, MemoryInv, NEW s \in BOOLEAN, NEW q \in BOOLEAN,
           NEW last \in Seq([cmd : Cmd, status : Terminal]), Leave(s, q, last)
    PROVE  Outgrows(memory', memory) /\ waiting' \in {waiting, NoWork}
  <1> DEFINE R == [cmd : Cmd, status : Terminal]
  <1>1. ASSUME NEW gone \in BOOLEAN, NEW w \in Job \cup {NoWork} PROVE Over(gone, w) \in Seq(R)
    <2>1. CASE gone /\ w # NoWork
      <3>1. w.cmd \in Cmd BY <2>1 DEF Job, Worker
      <3>2. Answer(w.cmd, "ended") \in R BY <3>1 DEF Answer, Terminal
      <3> QED BY <2>1, <3>2 DEF Over
    <2>2. CASE ~(gone /\ w # NoWork) BY <2>2 DEF Over
    <2> QED BY <2>1, <2>2
  <1>2. Over(s, inflight) \in Seq(R) /\ Over(q, waiting) \in Seq(R) BY <1>1 DEF IInv, Shape
  <1>3. Over(s, inflight) \o Over(q, waiting) \o last \in Seq(R) BY <1>2
  <1>4. ASSUME NEW t \in Seq(R) PROVE Results(t)
    <2>1. ASSUME NEW i \in DOMAIN t PROVE Result(t[i])
      <3>1. DOMAIN t = 1..Len(t) OBVIOUS
      <3> HIDE DEF R
      <3>2. t[i] \in R BY <2>1, <3>1
      <3> QED BY <3>2 DEF R, Result
    <2> QED BY <2>1 DEF Results
  <1>5. Outgrows(memory', memory) BY <1>3, <1>4, FinishOutgrows DEF Leave
  <1> QED BY <1>5 DEF Leave

-----------------------------------------------------------------------------
\* A step that begins nothing and hands nothing out: what pends or waits was
\* there before it, and an entry of the batch keeps a place of its own.
LEMMA NothingNew ==
    ASSUME KeyInv, Outgrows(memory', memory), begun' = begun,
           \A k \in Key : Awaits(k)' => Awaits(k),
           NEW d \in Nat,
           \A i \in DOMAIN batch' : i \in Nat /\ i + d \in DOMAIN batch /\ batch'[i] = batch[i + d]
    PROVE  MemoryInv' /\ OnceInv'
  <1>1. MemoryInv' BY DEF KeyInv, MemoryInv, Outgrows
  <1>2. ASSUME NEW k \in Key PROVE Pends(k)' => Pends(k) BY DEF Pends, ForCommand
  <1>3. /\ OnceInv /\ memory.lost \subseteq memory'.lost
        /\ Borne(memory) \subseteq Borne(memory')
    BY DEF KeyInv, Outgrows
  <1>4. ASSUME NEW k \in Key, k \notin memory'.lost, NEW i \in DOMAIN batch',
               NEW j \in DOMAIN batch', ForCommand(batch'[i], k), ForCommand(batch'[j], k)
        PROVE  i = j
    <2>1. ForCommand(batch[i + d], k) /\ ForCommand(batch[j + d], k) BY <1>4
    <2>2. k \notin memory.lost BY <1>3, <1>4
    <2>3. i + d \in DOMAIN batch /\ j + d \in DOMAIN batch /\ i \in Nat /\ j \in Nat BY <1>4
    <2>4. i + d = j + d BY <1>3, <2>1, <2>2, <2>3 DEF OnceInv
    <2> QED BY <2>3, <2>4
  <1>5. ASSUME NEW k \in Key
        PROVE  /\ Pends(k)' \/ Awaits(k)' \/ begun'[k] # 0 => k \in Borne(memory')
               /\ k \notin memory'.lost =>
                     /\ begun'[k] < 2
                     /\ begun'[k] = 1 => ~Pends(k)' /\ ~Awaits(k)'
                     /\ Awaits(k)' => ~Pends(k)'
    BY <1>2, <1>3 DEF OnceInv
  <1>6. OnceInv' BY <1>4, <1>5 DEF OnceInv, ForCommand
  <1> QED BY <1>1, <1>6

\* The memory grows and nothing else that counts keys is touched.
LEMMA OnlyMemory ==
    ASSUME KeyInv, Outgrows(memory', memory), begun' = begun, batch' = batch,
           waiting' \in {waiting, NoWork}
    PROVE  MemoryInv' /\ OnceInv'
  <1>1. \A k \in Key : Awaits(k)' => Awaits(k) BY DEF Awaits
  <1>2. batch \in Seq(Entry) BY DEF KeyInv, IInv, Shape
  <1>3. \A i \in DOMAIN batch' : i \in Nat /\ i + 0 \in DOMAIN batch /\ batch'[i] = batch[i + 0]
    BY <1>2
  <1> QED BY <1>1, <1>3, NothingNew

\* A command whose key the reader can tell, and that pends or waits no more,
\* is begun.
LEMMA BegunOnce ==
    ASSUME KeyInv, Outgrows(memory', memory), NEW c \in Cmd, Began(c),
           ~Pends(KeyOf[c])' \/ KeyOf[c] \in memory.lost,
           ~Awaits(KeyOf[c])' \/ KeyOf[c] \in memory.lost,
           Pends(KeyOf[c]) \/ Awaits(KeyOf[c]),
           \A k \in Key : Awaits(k)' => Awaits(k),
           NEW d \in Nat,
           \A i \in DOMAIN batch' : i \in Nat /\ i + d \in DOMAIN batch /\ batch'[i] = batch[i + d]
    PROVE  MemoryInv' /\ OnceInv'
  <1> DEFINE q == KeyOf[c]
  <1>0. q \in Key BY RuntimeAssumption
  <1>a. begun \in [Key -> 0..2] /\ OnceInv BY DEF KeyInv, MemoryInv
  <1>b. /\ begun' \in [Key -> 0..2] /\ begun'[q] = IF begun[q] = 2 THEN 2 ELSE begun[q] + 1
        /\ \A k \in Key : k # q => begun'[k] = begun[k]
    <2>1. begun' = [begun EXCEPT ![q] = IF begun[q] = 2 THEN 2 ELSE begun[q] + 1] BY DEF Began
    <2>2. begun[q] \in 0..2 BY <1>0, <1>a
    <2>3. (IF begun[q] = 2 THEN 2 ELSE begun[q] + 1) \in 0..2 BY <2>2
    <2> QED BY <1>0, <1>a, <2>1, <2>3
  <1>1. MemoryInv' BY <1>b DEF KeyInv, MemoryInv, Outgrows
  <1>2. ASSUME NEW k \in Key PROVE Pends(k)' => Pends(k) BY DEF Pends, ForCommand
  <1>3. memory.lost \subseteq memory'.lost /\ Borne(memory) \subseteq Borne(memory')
    BY DEF Outgrows
  <1>4. ASSUME NEW k \in Key, k \notin memory'.lost, NEW i \in DOMAIN batch',
               NEW j \in DOMAIN batch', ForCommand(batch'[i], k), ForCommand(batch'[j], k)
        PROVE  i = j
    <2>1. ForCommand(batch[i + d], k) /\ ForCommand(batch[j + d], k) BY <1>4
    <2>2. k \notin memory.lost BY <1>3, <1>4
    <2>3. i + d \in DOMAIN batch /\ j + d \in DOMAIN batch /\ i \in Nat /\ j \in Nat BY <1>4
    <2>4. i + d = j + d BY <1>a, <2>1, <2>2, <2>3 DEF OnceInv
    <2> QED BY <2>3, <2>4
  <1> HIDE DEF q
  <1>5. ASSUME NEW k \in Key, k # q
        PROVE  /\ Pends(k)' \/ Awaits(k)' \/ begun'[k] # 0 => k \in Borne(memory')
               /\ k \notin memory'.lost =>
                     /\ begun'[k] < 2
                     /\ begun'[k] = 1 => ~Pends(k)' /\ ~Awaits(k)'
                     /\ Awaits(k)' => ~Pends(k)'
    BY <1>2, <1>3, <1>5, <1>a, <1>b DEF OnceInv
  <1>6. /\ q \in Borne(memory')
        /\ q \notin memory'.lost => begun'[q] = 1 /\ ~Pends(q)' /\ ~Awaits(q)'
    <2>1. q \in Borne(memory') BY <1>0, <1>3, <1>a DEF OnceInv, q
    <2>2. ASSUME q \notin memory'.lost PROVE begun'[q] = 1 /\ ~Pends(q)' /\ ~Awaits(q)'
      <3>1. q \notin memory.lost BY <1>3, <2>2
      <3>2. ~Pends(q)' /\ ~Awaits(q)' BY <3>1 DEF q
      <3>3. begun[q] < 2 /\ begun[q] # 1 /\ begun[q] \in 0..2 BY <1>0, <1>a, <3>1 DEF OnceInv, q
      <3> QED BY <1>b, <3>2, <3>3
    <2> QED BY <2>1, <2>2
  <1>7. OnceInv' BY <1>0, <1>4, <1>5, <1>6 DEF OnceInv, ForCommand
  <1> QED BY <1>1, <1>7

LEMMA StillOutgrows == MemoryInv /\ memory' = memory => Outgrows(memory', memory)
  BY DEF MemoryInv, Outgrows

LEMMA EnvironmentBeginsNone ==
    ASSUME KeyInv, Environment
    PROVE  MemoryInv' /\ OnceInv'
  <1>1. /\ memory' = memory /\ begun' = begun /\ batch' = batch
        /\ waiting' \in {waiting, Stopped(waiting)}
    BY DEF Environment, Issue, Advance, OpenSession, Rotate, ChangeGate, StopFromOutside, Hazard,
           Idle, tick, slot
  <1>2. Outgrows(memory', memory) BY <1>1, StillOutgrows DEF KeyInv
  <1>3. ASSUME NEW k \in Key, Awaits(k)' PROVE Awaits(k)
    <2>1. CASE waiting' = waiting BY <1>3, <2>1 DEF Awaits
    <2>2. CASE waiting' = Stopped(waiting)
      <3>1. waiting # NoWork BY <1>3, <2>2 DEF Awaits, Stopped
      <3>2. waiting \in Job BY <3>1 DEF KeyInv, IInv, Shape
      <3>3. Stopped(waiting).cmd = waiting.cmd BY <3>1, <3>2 DEF Stopped, Job
      <3> QED BY <1>3, <2>2, <3>1, <3>3 DEF Awaits
    <2> QED BY <1>1, <2>1, <2>2
  <1>4. batch \in Seq(Entry) BY DEF KeyInv, IInv, Shape
  <1>5. \A i \in DOMAIN batch' : i \in Nat /\ i + 0 \in DOMAIN batch /\ batch'[i] = batch[i + 0]
    BY <1>1, <1>4
  <1> QED BY <1>1, <1>2, <1>3, <1>5, NothingNew

LEMMA OutcomeOutgrows ==
    ASSUME KeyInv, NEW w, w.cmd \in Cmd, NEW n, Outcome(w, n)
    PROVE  Outgrows(memory', memory)
  <1>1. CASE memory' = memory BY <1>1, StillOutgrows DEF KeyInv
  <1>2. ASSUME NEW s \in {"succeeded", "ended"}, Finish(<<Answer(w.cmd, s)>>)
        PROVE  Outgrows(memory', memory)
    <2>1. Results(<<Answer(w.cmd, s)>>) BY ResultsOfOne DEF Terminal
    <2> QED BY <1>2, <2>1, FinishOutgrows DEF KeyInv
  <1> QED BY <1>1, <1>2 DEF Outcome

LEMMA OneAnswerOutgrows ==
    ASSUME KeyInv, NEW c \in Cmd, NEW s \in Terminal, Finish(<<Answer(c, s)>>)
    PROVE  Outgrows(memory', memory)
  BY ResultsOfOne, FinishOutgrows DEF KeyInv

LEMMA BeginTickBeginsNone ==
    ASSUME KeyInv, BeginTick
    PROVE  MemoryInv' /\ OnceInv'
  <1>1. Leave(Foreign(inflight), Foreign(waiting), <<>>) /\ begun' = begun /\ batch' = batch
    BY DEF BeginTick
  <1>2. Foreign(inflight) \in BOOLEAN /\ Foreign(waiting) \in BOOLEAN BY DEF Foreign
  <1>3. <<>> \in Seq([cmd : Cmd, status : Terminal]) OBVIOUS
  <1>4. Outgrows(memory', memory) /\ waiting' \in {waiting, NoWork}
    BY <1>1, <1>2, <1>3, LeaveOutgrows DEF KeyInv
  <1> QED BY <1>1, <1>4, OnlyMemory

LEMMA StepBeginsNone ==
    ASSUME KeyInv, Step
    PROVE  MemoryInv' /\ OnceInv'
  <1>1. begun' = begun /\ batch' = batch /\ waiting' = waiting BY DEF Step
  <1>2. inflight \in Job BY DEF Step, KeyInv, IInv, Shape, TickInv
  <1>3. inflight.cmd \in Cmd BY <1>2 DEF Job, Worker
  <1>4. CASE Finish(<<Answer(inflight.cmd, "ended")>>)
    BY <1>3, <1>4, OneAnswerOutgrows, OnlyMemory, <1>1 DEF Terminal
  <1>5. CASE Outcome(Polled(inflight), open)
    <2>1. Polled(inflight).cmd = inflight.cmd BY <1>2 DEF Polled, Job
    <2>2. Polled(inflight).cmd \in Cmd BY <1>3, <2>1
    <2>3. Outgrows(memory', memory) BY <1>5, <2>2, OutcomeOutgrows
    <2> QED BY <1>1, <2>3, OnlyMemory
  <1> QED BY <1>4, <1>5 DEF Step

LEMMA PromoteBeginsOnce ==
    ASSUME KeyInv, Promote
    PROVE  MemoryInv' /\ OnceInv'
  <1>1. batch' = batch /\ waiting' = NoWork BY DEF Promote
  <1>2. waiting \in Job /\ waiting # NoWork BY DEF Promote, KeyInv, IInv, Shape, TickInv
  <1>3. waiting.cmd \in Cmd BY <1>2 DEF Job, Worker
  <1>4. CASE Finish(<<Answer(waiting.cmd, "rejected")>>) /\ begun' = begun
    <2>1. Outgrows(memory', memory) BY <1>3, <1>4, OneAnswerOutgrows DEF Terminal
    <2> QED BY <1>1, <1>4, <2>1, OnlyMemory
  <1>5. CASE Begin(waiting, open)
    <2> PICK c \in Cmd : c = waiting.cmd BY <1>3
    <2> DEFINE w == [waiting EXCEPT !.started = now]
               q == KeyOf[c]
    <2>1. Outcome(w, open) /\ Began(c) BY <1>5 DEF Begin
    <2>2. w.cmd \in Cmd BY <1>2, <1>3 DEF Job
    <2> HIDE DEF w
    <2>3. Outgrows(memory', memory) BY <2>1, <2>2, OutcomeOutgrows
    <2>4. Awaits(q) /\ \A k \in Key : ~Awaits(k)' BY <1>1, <1>2 DEF Awaits
    <2>5. q \in Key BY RuntimeAssumption
    <2>6. q \in memory.lost \/ ~Pends(q) BY <2>4, <2>5 DEF KeyInv, OnceInv
    <2>7. q \in memory.lost \/ ~Pends(q)' BY <1>1, <2>6 DEF Pends, ForCommand
    <2>8. batch \in Seq(Entry) BY DEF KeyInv, IInv, Shape
    <2>9. \A i \in DOMAIN batch' : i \in Nat /\ i + 0 \in DOMAIN batch /\ batch'[i] = batch[i + 0]
      BY <1>1, <2>8
    <2> QED BY <2>1, <2>3, <2>4, <2>5, <2>7, <2>9, BegunOnce
  <1> QED BY <1>4, <1>5 DEF Promote

LEMMA EndReadBeginsNone ==
    ASSUME KeyInv, EndRead
    PROVE  MemoryInv' /\ OnceInv'
  <1>1. memory' = memory /\ begun' = begun /\ batch' = batch /\ waiting' = waiting
    BY DEF EndRead, slot
  <1> QED BY <1>1, StillOutgrows, OnlyMemory DEF KeyInv

\* A key that classify does not find pends, waits and was begun nowhere, unless
\* the memory lost it; the entry that it tracks bears it from then on.
LEMMA ReadHandsOutOnce ==
    ASSUME KeyInv, Read
    PROVE  MemoryInv' /\ OnceInv'
  <1>0. begun' = begun /\ waiting' = waiting BY DEF Read, slot
  <1>1. PICK c \in Cmd : c = Head(inbox) BY DEF Read, KeyInv, IInv, Shape
  <1>2. batch \in Seq(Entry) /\ memory \in Memory /\ begun \in [Key -> 0..2]
    BY DEF KeyInv, IInv, Shape, MemoryInv
  <1>3. CASE batch' = batch /\ memory' = memory
    BY <1>0, <1>3, StillOutgrows, OnlyMemory DEF KeyInv
  <1>4. CASE batch' = Append(batch, [kind |-> "refused", cmd |-> c]) /\ memory' = memory
    <2>1. /\ \A i \in DOMAIN batch : i \in DOMAIN batch' /\ batch'[i] = batch[i]
          /\ \A i \in DOMAIN batch' : i \in DOMAIN batch \/ batch'[i].kind = "refused"
      BY <1>2, <1>4
    <2>2. \A i \in DOMAIN batch', k \in Key :
              ForCommand(batch'[i], k) => i \in DOMAIN batch /\ ForCommand(batch[i], k)
      BY <2>1 DEF ForCommand
    <2>3. \A k \in Key : /\ Pends(k)' => Pends(k)
                         /\ Awaits(k)' <=> Awaits(k)
      BY <1>0, <2>2 DEF Pends, ForCommand, Awaits
    <2>4. MemoryInv' BY <1>0, <1>2, <1>4 DEF MemoryInv
    <2>5. OnceInv /\ Borne(memory)' = Borne(memory) BY <1>4 DEF KeyInv, Borne
    <2>6. ASSUME NEW k \in Key
          PROVE  /\ Pends(k)' \/ Awaits(k)' \/ begun'[k] # 0 => k \in Borne(memory)'
                 /\ k \notin memory'.lost =>
                       /\ begun'[k] < 2
                       /\ begun'[k] = 1 => ~Pends(k)' /\ ~Awaits(k)'
                       /\ Awaits(k)' => ~Pends(k)'
                       /\ \A i, j \in DOMAIN batch' :
                             ForCommand(batch'[i], k) /\ ForCommand(batch'[j], k) => i = j
      BY <1>0, <1>4, <2>2, <2>3, <2>5 DEF OnceInv
    <2> QED BY <2>4, <2>6 DEF OnceInv, ForCommand
  <1>5. CASE /\ batch' = Append(batch, [kind |-> "command", cmd |-> c])
             /\ ~Entries(memory, c) /\ memory' = Tracked(memory, c)
    <2> DEFINE q == KeyOf[c]
               e == [id |-> c, keyed |-> TRUE, ack |-> "none"]
    <2>1. e \in Memo /\ e.keyed /\ e.id = c BY DEF Memo
    <2>2. memory' = Joined(memory, e) BY <1>5 DEF Tracked
    <2> HIDE DEF e
    <2>3. /\ Outgrows(memory', memory) /\ q \in Borne(memory')
          /\ Borne(memory') \subseteq Borne(memory) \cup {q}
          /\ memory'.lost \subseteq Borne(memory)
      BY <1>2, <2>1, <2>2, JoinedOutgrows
    <2>4. q \in Key BY RuntimeAssumption
    <2>5. q \notin memory.lost => q \notin Borne(memory)
      <3>1. memory.order \in Seq(Memo) BY <1>2 DEF Memory
      <3>2. \A f \in Range(memory.order) : ~Recalls(f, c) BY <1>5, <3>1 DEF Entries, Range
      <3> QED BY <3>2 DEF Borne, Recalls
    <2>6. /\ \A i \in DOMAIN batch' : i \in DOMAIN batch \/ i = Len(batch) + 1
          /\ batch'[Len(batch) + 1] = [kind |-> "command", cmd |-> c]
          /\ \A i \in DOMAIN batch : batch'[i] = batch[i]
      BY <1>2, <1>5
    <2>7. \A i \in DOMAIN batch', k \in Key : ForCommand(batch'[i], k) =>
              \/ i \in DOMAIN batch /\ ForCommand(batch[i], k)
              \/ k = q /\ i = Len(batch) + 1
      BY <2>6 DEF ForCommand
    <2>8. \A k \in Key : /\ Pends(k)' => Pends(k) \/ k = q
                         /\ Awaits(k)' <=> Awaits(k)
      BY <1>0, <2>7 DEF Pends, ForCommand, Awaits
    <2>9. MemoryInv' BY <1>0, <1>2, <2>3 DEF MemoryInv, Outgrows
    <2>10. OnceInv BY DEF KeyInv
    <2> HIDE DEF q
    <2>11. /\ memory.lost \subseteq memory'.lost
           /\ Borne(memory) \subseteq Borne(memory')
      BY <2>3 DEF Outgrows
    <2>12. ASSUME NEW k \in Key
           PROVE  Pends(k)' \/ Awaits(k)' \/ begun'[k] # 0 => k \in Borne(memory')
      BY <1>0, <2>3, <2>8, <2>10, <2>11 DEF OnceInv
    <2>13. ASSUME q \notin memory.lost
           PROVE  begun[q] = 0 /\ ~Pends(q) /\ ~Awaits(q)
      BY <2>4, <2>5, <2>10, <2>13 DEF OnceInv
    <2>14. ASSUME NEW k \in Key, k \notin memory'.lost
           PROVE  /\ begun'[k] < 2
                  /\ begun'[k] = 1 => ~Pends(k)' /\ ~Awaits(k)'
                  /\ Awaits(k)' => ~Pends(k)'
      <3>1. k \notin memory.lost BY <2>11, <2>14
      <3>2. CASE k = q BY <1>0, <2>8, <2>13, <3>1, <3>2
      <3>3. CASE k # q BY <1>0, <2>8, <2>10, <3>1, <3>3 DEF OnceInv
      <3> QED BY <3>2, <3>3
    <2>15. ASSUME NEW k \in Key, k \notin memory'.lost, NEW i \in DOMAIN batch',
                  NEW j \in DOMAIN batch', ForCommand(batch'[i], k), ForCommand(batch'[j], k)
           PROVE  i = j
      <3>1. k \notin memory.lost BY <2>11, <2>15
      <3>2. CASE k = q
        <4>1. \A n \in DOMAIN batch : ~ForCommand(batch[n], q) BY <2>13, <3>1, <3>2 DEF Pends
        <4> QED BY <2>7, <2>15, <3>2, <4>1
      <3>3. CASE k # q
        <4>1. /\ i \in DOMAIN batch /\ ForCommand(batch[i], k)
              /\ j \in DOMAIN batch /\ ForCommand(batch[j], k)
          BY <2>7, <2>15, <3>3
        <4> QED BY <2>10, <3>1, <4>1 DEF OnceInv
      <3> QED BY <3>2, <3>3
    <2> QED BY <2>9, <2>12, <2>14, <2>15 DEF OnceInv, ForCommand
  <1> QED BY <1>1, <1>3, <1>4, <1>5 DEF Read, Classify

-----------------------------------------------------------------------------
LEMMA TakeShifts ==
    ASSUME KeyInv, NEW kind, Take(kind)
    PROVE  /\ \A i \in DOMAIN batch' :
                  i \in Nat /\ i + 1 \in DOMAIN batch /\ batch'[i] = batch[i + 1]
           /\ 1 \in DOMAIN batch /\ Head(batch) = batch[1]
           /\ Head(batch).cmd \in Cmd /\ Head(batch).kind = kind
  <1>1. batch \in Seq(Entry) BY DEF KeyInv, IInv, Shape
  <1>2. batch # <<>> BY DEF KeyInv, IInv, TickInv, Take
  <1>3. Len(batch) \in Nat \ {0} /\ DOMAIN batch = 1..Len(batch) BY <1>1, <1>2
  <1>4. Head(batch) = batch[1] /\ batch[1] \in Entry BY <1>1, <1>3
  <1>5. batch' = Tail(batch) BY DEF Take
  <1>6. /\ Len(batch') = Len(batch) - 1 /\ DOMAIN batch' = 1..Len(batch')
        /\ \A i \in 1..Len(batch') : batch'[i] = batch[i + 1]
    BY <1>1, <1>2, <1>3, <1>5
  <1>7. \A i \in DOMAIN batch' : i \in Nat /\ i + 1 \in DOMAIN batch /\ batch'[i] = batch[i + 1]
    BY <1>3, <1>6
  <1>8. Head(batch).kind = kind BY DEF Take
  <1> QED BY <1>3, <1>4, <1>7, <1>8 DEF Entry

\* The command taken from the batch pends no more, nor does another of its key.
LEMMA TakenPends ==
    ASSUME KeyInv, Take("command"), NEW c \in Cmd, c = Head(batch).cmd
    PROVE  /\ Pends(KeyOf[c])
           /\ KeyOf[c] \notin memory.lost => ~Pends(KeyOf[c])' /\ ~Awaits(KeyOf[c])
  <1> DEFINE q == KeyOf[c]
  <1>1. q \in Key BY RuntimeAssumption
  <1>2. /\ \A i \in DOMAIN batch' :
              i \in Nat /\ i + 1 \in DOMAIN batch /\ batch'[i] = batch[i + 1]
        /\ 1 \in DOMAIN batch /\ Head(batch) = batch[1] /\ Head(batch).kind = "command"
    BY TakeShifts
  <1>3. ForCommand(batch[1], q) BY <1>2 DEF ForCommand
  <1>4. Pends(q) BY <1>2, <1>3 DEF Pends
  <1>5. OnceInv BY DEF KeyInv
  <1>6. ASSUME q \notin memory.lost, NEW i \in DOMAIN batch', ForCommand(batch'[i], q) PROVE FALSE
    <2>1. i \in Nat /\ i + 1 \in DOMAIN batch /\ ForCommand(batch[i + 1], q) BY <1>2, <1>6
    <2>2. i + 1 = 1 BY <1>1, <1>2, <1>3, <1>5, <1>6, <2>1 DEF OnceInv
    <2>3. i = 0 BY <2>1, <2>2
    <2>4. batch' \in Seq(Entry)
      <3>1. batch \in Seq(Entry) /\ batch # <<>>
        BY DEF KeyInv, IInv, Shape, TickInv, Take
      <3> QED BY <3>1 DEF Take
    <2>5. i >= 1 BY <2>4
    <2> QED BY <2>3, <2>5
  <1>7. q \notin memory.lost => ~Awaits(q) BY <1>1, <1>4, <1>5 DEF OnceInv
  <1> QED BY <1>4, <1>6, <1>7 DEF Pends, ForCommand

\* An admission that begins nothing.
LEMMA RefusedBeginsNone ==
    ASSUME KeyInv, NEW kind, Take(kind), Outgrows(memory', memory), begun' = begun,
           waiting' \in {waiting, NoWork}
    PROVE  MemoryInv' /\ OnceInv'
  <1>1. \A k \in Key : Awaits(k)' => Awaits(k) BY DEF Awaits
  <1>2. \A i \in DOMAIN batch' : i \in Nat /\ i + 1 \in DOMAIN batch /\ batch'[i] = batch[i + 1]
    BY TakeShifts
  <1> QED BY <1>1, <1>2, NothingNew

\* An admission that begins the command.
LEMMA AdmissionBeginsOnce ==
    ASSUME KeyInv, NEW c \in Cmd, c = Head(batch).cmd, Take("command"), Began(c),
           Outgrows(memory', memory), waiting' \in {waiting, NoWork}
    PROVE  MemoryInv' /\ OnceInv'
  <1>1. \A k \in Key : Awaits(k)' => Awaits(k) BY DEF Awaits
  <1>2. \A i \in DOMAIN batch' : i \in Nat /\ i + 1 \in DOMAIN batch /\ batch'[i] = batch[i + 1]
    BY TakeShifts
  <1>3. /\ Pends(KeyOf[c])
        /\ KeyOf[c] \notin memory.lost => ~Pends(KeyOf[c])' /\ ~Awaits(KeyOf[c])
    BY TakenPends
  <1>4. KeyOf[c] \in Key BY RuntimeAssumption
  <1> QED BY <1>1, <1>2, <1>3, <1>4, BegunOnce

\* The command moves from the batch to the place behind the slot.
LEMMA QueuedOnce ==
    ASSUME KeyInv, NEW c \in Cmd, c = Head(batch).cmd, Take("command"), begun' = begun,
           memory' = memory, waiting' = NewWork(c)
    PROVE  MemoryInv' /\ OnceInv'
  <1> DEFINE q == KeyOf[c]
  <1>1. \A i \in DOMAIN batch' : i \in Nat /\ i + 1 \in DOMAIN batch /\ batch'[i] = batch[i + 1]
    BY TakeShifts
  <1>2. Pends(q) /\ (q \notin memory.lost => ~Pends(q)') BY TakenPends
  <1>3. q \in Key BY RuntimeAssumption
  <1>4. \A k \in Key : Awaits(k)' => k = q BY DEF Awaits, NewWork
  <1>5. ASSUME NEW k \in Key PROVE Pends(k)' => Pends(k) BY <1>1 DEF Pends, ForCommand
  <1>6. OnceInv BY DEF KeyInv
  <1>7. MemoryInv' BY DEF KeyInv, MemoryInv
  <1>8. Borne(memory)' = Borne(memory) BY DEF Borne
  <1>9. ASSUME NEW k \in Key, k \notin memory.lost, NEW i \in DOMAIN batch',
               NEW j \in DOMAIN batch', ForCommand(batch'[i], k), ForCommand(batch'[j], k)
        PROVE  i = j
    <2>1. ForCommand(batch[i + 1], k) /\ ForCommand(batch[j + 1], k) BY <1>1, <1>9
    <2>2. i + 1 \in DOMAIN batch /\ j + 1 \in DOMAIN batch /\ i \in Nat /\ j \in Nat BY <1>1
    <2>3. i + 1 = j + 1 BY <1>6, <1>9, <2>1, <2>2 DEF OnceInv
    <2> QED BY <2>2, <2>3
  <1> HIDE DEF q
  <1>10. ASSUME NEW k \in Key
         PROVE  /\ Pends(k)' \/ Awaits(k)' \/ begun'[k] # 0 => k \in Borne(memory)'
                /\ k \notin memory'.lost =>
                      /\ begun'[k] < 2
                      /\ begun'[k] = 1 => ~Pends(k)' /\ ~Awaits(k)'
                      /\ Awaits(k)' => ~Pends(k)'
    BY <1>2, <1>3, <1>4, <1>5, <1>6, <1>8 DEF OnceInv
  <1> QED BY <1>7, <1>9, <1>10 DEF OnceInv, ForCommand

LEMMA AdmitWorkBeginsOnce ==
    ASSUME KeyInv, NEW c \in Cmd, c = Head(batch).cmd, AdmitWork(c)
    PROVE  MemoryInv' /\ OnceInv'
  <1>1. Take("command") BY DEF AdmitWork
  <1>2. CASE Begin(NewWork(c), open + 1) /\ waiting' = waiting
    <2> DEFINE w == [NewWork(c) EXCEPT !.started = now]
    <2>1. NewWork(c).cmd = c /\ w.cmd = c BY DEF NewWork
    <2>2. Began(c) /\ Outcome(w, open + 1) BY <1>2, <2>1 DEF Begin
    <2> HIDE DEF w
    <2>3. Outgrows(memory', memory) BY <2>1, <2>2, OutcomeOutgrows
    <2> QED BY <1>1, <1>2, <2>2, <2>3, AdmissionBeginsOnce
  <1>3. CASE Finish(<<Answer(c, "rejected")>>) /\ UNCHANGED <<waiting, begun>>
    <2>1. Outgrows(memory', memory) BY <1>3, OneAnswerOutgrows DEF Terminal
    <2> QED BY <1>1, <1>3, <2>1, RefusedBeginsNone
  <1>4. CASE waiting' = NewWork(c) /\ UNCHANGED <<memory, begun>>
    BY <1>1, <1>4, QueuedOnce
  <1> QED BY <1>2, <1>3, <1>4 DEF AdmitWork

LEMMA AdmitBeginsOnce ==
    ASSUME KeyInv, AdmitNext
    PROVE  MemoryInv' /\ OnceInv'
  <1>1. PICK c \in Cmd : c = Head(batch).cmd
    <2>1. \E kind : Take(kind)
      BY DEF AdmitNext, Refuse, AdmitWork, AtOnce, Look, Arm, Disarm, Stop, Cancel
    <2> QED BY <2>1, TakeShifts
  <1>2. ASSUME NEW kind, Refuse(kind) PROVE MemoryInv' /\ OnceInv'
    <2>1. Take(kind) /\ Finish(<<Answer(c, "rejected")>>) /\ UNCHANGED <<begun, waiting>>
      BY <1>1, <1>2 DEF Refuse, slot
    <2>2. Outgrows(memory', memory) BY <2>1, OneAnswerOutgrows DEF Terminal
    <2> QED BY <2>1, <2>2, RefusedBeginsNone
  <1>3. CASE AdmitWork(c) BY <1>1, <1>3, AdmitWorkBeginsOnce
  <1>4. ASSUME NEW kind, AtOnce(c, kind), NEW s \in Terminal, Finish(<<Answer(c, s)>>),
               waiting' = waiting
        PROVE  MemoryInv' /\ OnceInv'
    <2>1. Outgrows(memory', memory) BY <1>4, OneAnswerOutgrows
    <2>2. Take("command") /\ Began(c) BY <1>4 DEF AtOnce
    <2> QED BY <1>1, <1>4, <2>1, <2>2, AdmissionBeginsOnce
  <1>5. CASE Look(c) BY <1>4, <1>5 DEF Look, slot, Terminal
  <1>6. CASE Arm(c) BY <1>4, <1>6 DEF Arm, slot, Terminal
  <1>7. CASE Disarm(c) BY <1>4, <1>7 DEF Disarm, slot, Terminal
  <1>8. ASSUME NEW kind, AtOnce(c, kind), NEW s \in BOOLEAN, NEW r \in BOOLEAN,
               NEW t \in Terminal, Leave(s, r, <<Answer(c, t)>>)
        PROVE  MemoryInv' /\ OnceInv'
    <2>1. Take("command") /\ Began(c) BY <1>8 DEF AtOnce
    <2>2. Answer(c, t) \in [cmd : Cmd, status : Terminal] BY DEF Answer
    <2>3. <<Answer(c, t)>> \in Seq([cmd : Cmd, status : Terminal]) BY <2>2
    <2>4. Outgrows(memory', memory) /\ waiting' \in {waiting, NoWork}
      BY <1>8, <2>3, LeaveOutgrows DEF KeyInv
    <2> QED BY <1>1, <2>1, <2>4, AdmissionBeginsOnce
  <1>9. CASE Stop(c) BY <1>8, <1>9 DEF Stop, Terminal
  <1>10. CASE Cancel(c) BY <1>8, <1>10 DEF Cancel, Terminal
  <1> QED BY <1>1, <1>2, <1>3, <1>5, <1>6, <1>7, <1>9, <1>10 DEF AdmitNext

LEMMA KeysKept == KeyInv /\ [Next]_vars => KeyInv'
  <1> SUFFICES ASSUME KeyInv, [Next]_vars PROVE KeyInv' OBVIOUS
  <1>1. IInv' BY NextKeeps DEF KeyInv
  <1>2. CASE UNCHANGED vars
    <2>1. UNCHANGED <<memory, begun, batch, waiting>>
      BY <1>2 DEF vars, slot, tick, history
    <2> QED BY <1>1, <2>1, StillOutgrows, OnlyMemory DEF KeyInv
  <1> QED
    BY <1>1, <1>2, EnvironmentBeginsNone, BeginTickBeginsNone, StepBeginsNone, PromoteBeginsOnce,
       ReadHandsOutOnce, EndReadBeginsNone, AdmitBeginsOnce DEF KeyInv, Next, Tick

LEMMA KeysInitially == Init => KeyInv
  <1> SUFFICES ASSUME Init PROVE KeyInv OBVIOUS
  <1>1. memory = [order |-> <<>>, lost |-> {}] /\ begun = [k \in Key |-> 0] BY DEF Init
  <1>2. batch = <<>> /\ waiting = NoWork BY DEF Init
  <1>3. memory \in Memory BY <1>1 DEF Memory
  <1>4. begun \in [Key -> 0..2] BY <1>1
  <1>5. \A k \in Key : ~Pends(k) /\ ~Awaits(k) /\ begun[k] = 0
    BY <1>1, <1>2 DEF Pends, Awaits
  <1>6. OnceInv BY <1>2, <1>5 DEF OnceInv
  <1> QED BY <1>3, <1>4, <1>6, InitInv DEF KeyInv, MemoryInv

\* No command is handed out twice for execution (CommandReader.lua:4): however
\* often a key is delivered, under whatever command id, in whatever session,
\* across waiting, promotion and admission, it is begun once unless the bounded
\* memory evicted it; for every size of the memory and of the tick's budget.
THEOREM BegunOnceOnly == Spec => []HandedOutOnce
  <1>1. KeyInv => HandedOutOnce BY DEF KeyInv, OnceInv, MemoryInv, HandedOutOnce
  <1> QED BY <1>1, KeysInitially, KeysKept, PTL DEF Spec
=============================================================================
