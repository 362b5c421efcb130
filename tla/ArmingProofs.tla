---------------------------- MODULE ArmingProofs ----------------------------
(***************************************************************************)
(* What is proved about Arming for every set of modes, every timeout and   *)
(* every bound.                                                            *)
(***************************************************************************)
EXTENDS Arming, SequenceTheorems, TLAPS

\* The state of the two sides as it is inside a tick: a mode, the place of the
\* arm that is waited for and a journal that grew from the one on disk.
Grown(js) == /\ js \in Seq(Word)
             /\ Len(journal) <= Len(js)
             /\ \A i \in 1..Len(journal) : js[i] = journal[i]

Tick(st) == /\ st.mode \in Mode \cup {OBSERVE}
            /\ Grown(st.journal)
            /\ st.pending \in 0..Len(st.journal)
            /\ st.pending # 0 => st.journal[st.pending].kind = "arm"

\* No arm is added to the journal on disk by the levers and the watch.
NoNewArm(st) == \A i \in 1..Len(st.journal) : st.journal[i].kind = "arm" => i <= Len(journal)

\* The words are of the type the journal holds.
LEMMA WordTypes ==
    ASSUME TypeOK
    PROVE  /\ DisarmWord \in Word
           /\ \A m \in Mode : ArmWord(m) \in Word
  BY DEF TypeOK, DisarmWord, ArmWord, Word

\* Appending a word grows the journal by its last place only.
LEMMA AppendGrows ==
    ASSUME TypeOK, NEW js, Grown(js), NEW w \in Word
    PROVE  /\ Grown(Append(js, w))
           /\ Len(Append(js, w)) = Len(js) + 1
           /\ Append(js, w)[Len(js) + 1] = w
           /\ \A i \in 1..Len(js) : Append(js, w)[i] = js[i]
  <1>1. js \in Seq(Word) /\ journal \in Seq(Word) BY DEF Grown, TypeOK
  <1>2. /\ Append(js, w) \in Seq(Word)
        /\ Len(Append(js, w)) = Len(js) + 1
        /\ Append(js, w)[Len(js) + 1] = w
        /\ \A i \in 1..Len(js) : Append(js, w)[i] = js[i]
    BY <1>1, AppendProperties
  <1>3. Len(js) \in Nat /\ Len(journal) \in Nat BY <1>1, LenProperties
  <1> QED BY <1>1, <1>2, <1>3 DEF Grown

\* disarm keeps the types and adds no arm.
LEMMA DisarmedTick ==
    ASSUME TypeOK, NEW st, Tick(st), NoNewArm(st)
    PROVE  Tick(Disarmed(st)) /\ NoNewArm(Disarmed(st)) /\ Disarmed(st).pending = 0
  <1>1. DisarmWord \in Word /\ DisarmWord.kind # "arm"
    BY WordTypes DEF DisarmWord
  <1>2. Len(st.journal) \in Nat /\ Len(journal) \in Nat
    BY LenProperties DEF Tick, Grown, TypeOK
  <1>3. /\ Grown(Append(st.journal, DisarmWord))
        /\ Len(Append(st.journal, DisarmWord)) = Len(st.journal) + 1
        /\ Append(st.journal, DisarmWord)[Len(st.journal) + 1] = DisarmWord
        /\ \A i \in 1..Len(st.journal) : Append(st.journal, DisarmWord)[i] = st.journal[i]
    BY <1>1, AppendGrows DEF Tick
  <1>4. CASE st.mode # OBSERVE \/ st.pending # 0
    <2>1. Disarmed(st) = [mode |-> OBSERVE, pending |-> 0,
                          journal |-> Append(st.journal, DisarmWord)]
      BY <1>4 DEF Disarmed
    <2>2. NoNewArm(Disarmed(st)) BY <2>1, <1>1, <1>2, <1>3 DEF NoNewArm
    <2> QED BY <2>1, <2>2, <1>2, <1>3 DEF Tick
  <1>5. CASE ~(st.mode # OBSERVE \/ st.pending # 0)
    <2>1. Disarmed(st) = [mode |-> OBSERVE, pending |-> 0, journal |-> st.journal]
      BY <1>5 DEF Disarmed
    <2> QED BY <2>1, <1>2 DEF Tick, NoNewArm
  <1> QED BY <1>4, <1>5

\* The stop levers keep the types and add no arm, and what they leave pending
\* is in the journal on disk.
LEMMA LeversTick ==
    ASSUME TypeOK, NEW forced \in BOOLEAN
    PROVE  LET st == AfterStopLevers([mode |-> mode, pending |-> pending, journal |-> journal],
                                     forced)
           IN  Tick(st) /\ NoNewArm(st) /\ st.pending \in 0..Len(journal)
  <1> DEFINE here == [mode |-> mode, pending |-> pending, journal |-> journal]
  <1>1. Len(journal) \in Nat BY LenProperties DEF TypeOK
  <1>2. Tick(here) /\ NoNewArm(here) BY <1>1 DEF TypeOK, Tick, Grown, NoNewArm
  <1>3. Tick(Disarmed(here)) /\ NoNewArm(Disarmed(here)) /\ Disarmed(here).pending = 0
    BY <1>2, DisarmedTick
  <1> QED BY <1>1, <1>2, <1>3 DEF AfterStopLevers, TypeOK

\* The watch over a pending arm keeps the types and adds no arm.
LEMMA WatchTick ==
    ASSUME TypeOK, NEW st, Tick(st), NoNewArm(st), st.pending \in 0..Len(journal),
           st = [mode |-> st.mode, pending |-> st.pending, journal |-> st.journal]
    PROVE  Tick(AfterWatch(st)) /\ NoNewArm(AfterWatch(st))
  <1>1. DisarmWord \in Word /\ DisarmWord.kind # "arm"
    BY WordTypes DEF DisarmWord
  <1>2. Len(st.journal) \in Nat /\ Len(journal) \in Nat
    BY LenProperties DEF Tick, Grown, TypeOK
  <1>3. /\ Grown(Append(st.journal, DisarmWord))
        /\ Len(Append(st.journal, DisarmWord)) = Len(st.journal) + 1
        /\ Append(st.journal, DisarmWord)[Len(st.journal) + 1] = DisarmWord
        /\ \A i \in 1..Len(st.journal) : Append(st.journal, DisarmWord)[i] = st.journal[i]
    BY <1>1, AppendGrows DEF Tick
  <1> DEFINE w == journal[st.pending]
             dropped == [st EXCEPT !.pending = 0]
             agreed == [st EXCEPT !.pending = 0, !.mode = w.mode]
             told == [st EXCEPT !.pending = 0, !.journal = Append(@, DisarmWord)]
  <1>4. Tick(dropped) /\ NoNewArm(dropped)
    <2>1. dropped.mode = st.mode /\ dropped.pending = 0 /\ dropped.journal = st.journal
      OBVIOUS
    <2> QED BY <2>1, <1>2 DEF Tick, NoNewArm
  <1>5. ASSUME st.pending # 0 PROVE Tick(agreed) /\ NoNewArm(agreed)
    <2>1. agreed.mode = w.mode /\ agreed.pending = 0 /\ agreed.journal = st.journal
      OBVIOUS
    <2>2. st.pending \in 1..Len(journal) BY <1>5, <1>2
    <2>3. w = st.journal[st.pending] /\ w \in Word /\ w.kind = "arm"
      <3>1. journal \in [1..Len(journal) -> Word] BY DEF TypeOK
      <3>2. w \in Word BY <3>1, <2>2
      <3>3. w = st.journal[st.pending] BY <2>2 DEF Tick, Grown
      <3> QED BY <3>2, <3>3, <1>5 DEF Tick
    <2>4. w.mode \in Mode BY <2>3 DEF Word
    <2> HIDE DEF agreed, w
    <2> QED BY <2>1, <2>4, <1>2 DEF Tick, NoNewArm
  <1>6. Tick(told) /\ NoNewArm(told)
    <2>1. /\ told.mode = st.mode /\ told.pending = 0
          /\ told.journal = Append(st.journal, DisarmWord)
      OBVIOUS
    <2> HIDE DEF told
    <2>2. NoNewArm(told) BY <2>1, <1>1, <1>2, <1>3 DEF NoNewArm
    <2> QED BY <2>1, <2>2, <1>2, <1>3 DEF Tick
  <1>7. AfterWatch(st) \in {st, dropped, told} \/ (st.pending # 0 /\ AfterWatch(st) = agreed)
    BY DEF AfterWatch
  <1> HIDE DEF dropped, agreed, told
  <1> QED BY <1>4, <1>5, <1>6, <1>7

\* The control file keeps the types, and an arm is shipped only for a request
\* that is not older than this process's attachment.
LEMMA ControlTick ==
    ASSUME TypeOK, NEW st, Tick(st), NoNewArm(st),
           st = [mode |-> st.mode, pending |-> st.pending, journal |-> st.journal],
           NEW forced \in BOOLEAN, NEW barred \in BOOLEAN
    PROVE  LET after == AfterControl(st, forced, barred)
           IN  /\ Tick(after)
               /\ ~(control.kind = "arm" /\ Fresh) => NoNewArm(after)
  <1> DEFINE w == ArmWord(control.mode)
             asks == [st EXCEPT !.pending = Len(st.journal) + 1, !.journal = Append(@, w)]
  <1>1. CASE control.kind = "disarm"
    <2>1. AfterControl(st, forced, barred) = Disarmed(st) BY <1>1 DEF AfterControl
    <2> QED BY <2>1, DisarmedTick
  <1>2. CASE control.kind = "arm" /\ MayAsk(st, forced, barred)
    <2>1. AfterControl(st, forced, barred) = asks /\ Fresh
      BY <1>2 DEF AfterControl, MayAsk
    <2>2. control.mode \in Mode BY <1>2 DEF TypeOK, Request
    <2>3. w \in Word /\ w.kind = "arm" BY <2>2, WordTypes DEF ArmWord
    <2>4. /\ asks.mode = st.mode /\ asks.pending = Len(st.journal) + 1
          /\ asks.journal = Append(st.journal, w)
      OBVIOUS
    <2>5. Len(st.journal) \in Nat BY LenProperties DEF Tick, Grown
    <2> HIDE DEF asks, w
    <2>6. /\ Grown(Append(st.journal, w))
          /\ Len(Append(st.journal, w)) = Len(st.journal) + 1
          /\ Append(st.journal, w)[Len(st.journal) + 1] = w
      BY <2>3, AppendGrows DEF Tick
    <2>7. Tick(asks) BY <2>3, <2>4, <2>5, <2>6 DEF Tick
    <2> QED BY <1>2, <2>1, <2>7
  <1>3. CASE control.kind # "disarm" /\ ~(control.kind = "arm" /\ MayAsk(st, forced, barred))
    BY <1>3 DEF AfterControl
  <1> QED BY <1>1, <1>2, <1>3

\* The levers and the watch hand on a record of the three fields.
LEMMA TickIsARecord ==
    ASSUME NEW forced \in BOOLEAN
    PROVE  LET st == AfterStopLevers([mode |-> mode, pending |-> pending, journal |-> journal],
                                     forced)
           IN  /\ st = [mode |-> st.mode, pending |-> st.pending, journal |-> st.journal]
               /\ AfterWatch(st) = [mode |-> AfterWatch(st).mode,
                                    pending |-> AfterWatch(st).pending,
                                    journal |-> AfterWatch(st).journal]
  <1> DEFINE st == AfterStopLevers([mode |-> mode, pending |-> pending, journal |-> journal],
                                   forced)
  <1>1. \E m, p, j : st = [mode |-> m, pending |-> p, journal |-> j]
    BY DEF AfterStopLevers, Disarmed
  <1> HIDE DEF st
  <1>2. PICK m, p, j : st = [mode |-> m, pending |-> p, journal |-> j] BY <1>1
  <1>3. \E m2, p2, j2 : AfterWatch(st) = [mode |-> m2, pending |-> p2, journal |-> j2]
    BY <1>2 DEF AfterWatch
  <1> QED BY <1>2, <1>3 DEF st

-----------------------------------------------------------------------------
(* A request is of this process, or it is older than its attachment.       *)

RequestInv ==
    /\ control.at <= now /\ attachedAt <= now
    /\ control.kind = "arm" => control.of = proc \/ control.at < attachedAt

IInv == TypeOK /\ RequestInv /\ AuthorityIsOfTheSession

\* What EndTick does to the journal, the mode and the pending arm.
LEMMA EndTickKeeps ==
    ASSUME IInv, NEW alarm \in BOOLEAN, NEW barred \in BOOLEAN, EndTick(alarm, barred)
    PROVE  /\ Tick([mode |-> mode', pending |-> pending', journal |-> journal'])
           /\ \/ control.kind = "arm" /\ control.of = proc
              \/ \A i \in 1..Len(journal') : journal'[i].kind = "arm" => i <= Len(journal)
  <1> DEFINE forced == observed /\ (alarm \/ look.panic \/ look.silent)
             st1 == AfterStopLevers([mode |-> mode, pending |-> pending, journal |-> journal],
                                    forced)
             st2 == AfterWatch(st1)
             st3 == AfterControl(st2, forced, barred)
  <1>1. TypeOK /\ forced \in BOOLEAN BY DEF IInv, TypeOK
  <1>2. mode' = st3.mode /\ pending' = st3.pending /\ journal' = st3.journal
    BY DEF EndTick
  <1> HIDE DEF forced
  <1>3. /\ st1 = [mode |-> st1.mode, pending |-> st1.pending, journal |-> st1.journal]
        /\ st2 = [mode |-> st2.mode, pending |-> st2.pending, journal |-> st2.journal]
    BY <1>1, TickIsARecord
  <1>4. Tick(st1) /\ NoNewArm(st1) /\ st1.pending \in 0..Len(journal)
    BY <1>1, LeversTick
  <1> HIDE DEF st1
  <1>5. Tick(st2) /\ NoNewArm(st2) BY <1>1, <1>3, <1>4, WatchTick
  <1> HIDE DEF st2
  <1>6. Tick(st3) /\ (~(control.kind = "arm" /\ Fresh) => NoNewArm(st3))
    BY <1>1, <1>3, <1>5, ControlTick
  <1> HIDE DEF st3
  <1>7. Fresh => control.at >= attachedAt BY DEF Fresh
  <1>8. control.kind = "arm" /\ Fresh => control.of = proc
    BY <1>7 DEF IInv, RequestInv, TypeOK, Request
  <1> QED BY <1>2, <1>6, <1>8 DEF Tick, NoNewArm, Grown

\* The invariant holds at the start.
LEMMA InitIInv == Init => IInv
  <1> SUFFICES ASSUME Init PROVE IInv OBVIOUS
  <1>1. journal \in Seq(Word) /\ Len(journal) = 0 BY DEF Init
  <1>2. /\ NoLook \in [panic : BOOLEAN, silent : BOOLEAN, at : Nat \cup {-1}]
        /\ NoRequest \in Request
        /\ NoBeat \in [at : Nat \cup {-1}, session : Nat, mode : Mode \cup {OFF}]
    BY DEF NoLook, NoRequest, NoBeat, Request
  <1>3. TypeOK
    <2>1. /\ granted = {} /\ refused = {} /\ pending = 0 /\ pos = 0
          /\ control \in Request /\ look = NoLook /\ beat = NoBeat
      BY <1>2 DEF Init
    <2>2. /\ granted \subseteq 1..Len(journal) /\ refused \subseteq 1..Len(journal)
          /\ pending \in 0..Len(journal) /\ pos \in 0..Len(journal)
      BY <2>1, <1>1
    <2> QED BY <1>1, <1>2, <2>1, <2>2 DEF Init, TypeOK
  <1>4. RequestInv BY DEF Init, RequestInv, NoRequest
  <1>5. AuthorityIsOfTheSession BY DEF Init, AuthorityIsOfTheSession
  <1> QED BY <1>3, <1>4, <1>5 DEF IInv

\* The steps that leave the journal and the mod's reading of it alone.
LEMMA AuthorityUntouched ==
    ASSUME AuthorityIsOfTheSession,
           UNCHANGED <<journal, gSession, pos>>, gMode' \in {gMode, OFF}
    PROVE  AuthorityIsOfTheSession'
  BY DEF AuthorityIsOfTheSession

\* A longer journal says the same of what the mod has read.
LEMMA AuthorityOfALongerJournal ==
    ASSUME TypeOK, AuthorityIsOfTheSession, Grown(journal'),
           UNCHANGED <<gSession, pos, gMode>>
    PROVE  AuthorityIsOfTheSession'
  <1>1. \A i \in 1..pos : i \in 1..Len(journal)
    BY LenProperties DEF TypeOK
  <1> QED BY <1>1 DEF AuthorityIsOfTheSession, Grown

\* Every step keeps the invariant.
LEMMA StepIInv == IInv /\ [Next]_vars => IInv'
  <1> SUFFICES ASSUME IInv, [Next]_vars PROVE IInv' OBVIOUS
  <1>0. TypeOK /\ RequestInv /\ AuthorityIsOfTheSession BY DEF IInv
  <1>l. Len(journal) \in Nat BY <1>0, LenProperties DEF TypeOK
  <1> USE DEF sidecar, offer, acks, requests, mod
  <1>1. CASE Attach
    <2>1. pending' \in 0..Len(journal') /\ (pending' # 0 => journal'[pending'].kind = "arm")
      BY <1>1, <1>l DEF Attach
    <2>3. session' \in Nat /\ offerAt' \in Nat /\ observed' \in BOOLEAN
      BY <1>0, <1>1, TimeAssumption DEF Attach, TypeOK
    <2>4. look' \in [panic : BOOLEAN, silent : BOOLEAN, at : Nat \cup {-1}]
      BY <1>1 DEF Attach, NoLook
    <2>5. TypeOK' BY <1>0, <1>1, <2>1, <2>3, <2>4 DEF Attach, TypeOK
    <2>2. RequestInv' BY <1>0, <1>1 DEF Attach, TypeOK, RequestInv, Request
    <2> QED BY <2>2, <2>5, <1>0, <1>1, AuthorityUntouched DEF Attach, IInv
  <1>2. ASSUME NEW sees \in BOOLEAN, BeginTick(sees) PROVE IInv'
    <2>1. TypeOK' BY <1>0, <1>2 DEF BeginTick, TypeOK, PanicEngaged, GameAlive
    <2>2. RequestInv' BY <1>0, <1>2 DEF BeginTick, RequestInv
    <2> QED BY <2>1, <2>2, <1>0, <1>2, AuthorityUntouched DEF BeginTick, IInv
  <1>3. ASSUME NEW alarm \in BOOLEAN, NEW barred \in BOOLEAN, EndTick(alarm, barred) PROVE IInv'
    <2>1. Tick([mode |-> mode', pending |-> pending', journal |-> journal'])
      BY <1>3, EndTickKeeps
    <2>2. /\ mode' \in Mode \cup {OBSERVE} /\ Grown(journal')
          /\ pending' \in 0..Len(journal')
          /\ pending' # 0 => journal'[pending'].kind = "arm"
      BY <2>1 DEF Tick
    <2>3. journal' \in Seq(Word) /\ Len(journal') \in Nat /\ Len(journal) <= Len(journal')
      BY <2>2, LenProperties DEF Grown
    <2>4. control' = NoRequest /\ NoRequest \in Request /\ look' = NoLook
      BY <1>3 DEF EndTick, NoRequest, Request
    <2>5. TypeOK' BY <1>0, <1>3, <1>l, <2>2, <2>3, <2>4 DEF EndTick, TypeOK, NoLook
    <2>6. RequestInv' BY <1>0, <1>3, <2>4 DEF EndTick, RequestInv, NoRequest, TypeOK
    <2>7. AuthorityIsOfTheSession'
      BY <1>0, <1>3, <2>2, AuthorityOfALongerJournal DEF EndTick
    <2> QED BY <2>5, <2>6, <2>7 DEF IInv
  <1>4. CASE Shutdown
    <2>1. DisarmWord \in Word /\ Grown(journal) BY <1>0, WordTypes DEF Grown, TypeOK
    <2>2. Grown(Append(journal, DisarmWord)) /\ Len(Append(journal, DisarmWord)) = Len(journal) + 1
      BY <2>1, <1>0, AppendGrows
    <2>3. Grown(journal') /\ journal' \in Seq(Word) /\ Len(journal') \in Nat
          /\ Len(journal) <= Len(journal')
      BY <1>4, <2>1, <2>2, <1>l DEF Shutdown, Grown
    <2>4. TypeOK' BY <1>0, <1>4, <1>l, <2>3 DEF Shutdown, TypeOK
    <2>5. RequestInv' BY <1>0, <1>4 DEF Shutdown, RequestInv
    <2>6. AuthorityIsOfTheSession'
      BY <1>0, <1>4, <2>3, AuthorityOfALongerJournal DEF Shutdown
    <2> QED BY <2>4, <2>5, <2>6 DEF IInv
  <1>5. CASE Crash
    <2>1. TypeOK' BY <1>0, <1>5 DEF Crash, TypeOK, NoLook
    <2>2. RequestInv' BY <1>0, <1>5 DEF Crash, RequestInv
    <2> QED BY <2>1, <2>2, <1>0, <1>5, AuthorityUntouched DEF Crash, IInv
  <1>6. CASE GameStart
    <2>4. /\ games' \in Nat /\ gMode' \in Mode \cup {OFF} /\ grantor' \in Nat /\ pos' = 0
      BY <1>0, <1>6 DEF GameStart, TypeOK
    <2>8. running' \in BOOLEAN /\ takeover' \in BOOLEAN /\ sidecarBeat' \in BOOLEAN
      BY <1>6 DEF GameStart
    <2>5. seenAt' \in Nat \cup {-1} /\ gSession' \in Nat
      BY <1>0, <1>6 DEF GameStart, TypeOK
    <2>6. UNCHANGED <<now, sidecar, offer, journal, acks, requests, beat, panicFile>>
      BY <1>6 DEF GameStart
    <2>7. pos' \in 0..Len(journal') BY <1>l, <2>4, <2>6
    <2>1. TypeOK' BY <1>0, <2>4, <2>5, <2>6, <2>7, <2>8 DEF TypeOK
    <2>2. RequestInv' BY <1>0, <1>6 DEF GameStart, RequestInv
    <2>3. AuthorityIsOfTheSession' BY <1>6 DEF GameStart, AuthorityIsOfTheSession
    <2> QED BY <2>1, <2>2, <2>3 DEF IInv
  <1>7. CASE GameTick
    <2>5. /\ seenAt' \in Nat \cup {-1} /\ gSession' \in Nat /\ gMode' \in Mode \cup {OFF}
          /\ panicFile' \in {"absent", "raised", "emptied"}
      BY <1>0, <1>7 DEF GameTick, TypeOK, ModeAfter
    <2>6. beat' \in [at : Nat \cup {-1}, session : Nat, mode : Mode \cup {OFF}]
      BY <1>0, <1>7, <2>5 DEF GameTick, TypeOK
    <2>7. sidecarBeat' \in BOOLEAN BY <1>7 DEF GameTick
    <2>8. UNCHANGED <<now, sidecar, offer, journal, acks, requests, games, running, grantor,
                      takeover, pos>>
      BY <1>7 DEF GameTick
    <2>1. TypeOK' BY <1>0, <2>5, <2>6, <2>7, <2>8 DEF TypeOK
    <2>2. RequestInv' BY <1>0, <1>7 DEF GameTick, RequestInv
    <2>3. gMode' = OFF \/ (gMode' = gMode /\ gSession' = gSession)
      BY <1>7 DEF GameTick, ModeAfter
    <2>4. AuthorityIsOfTheSession'
      BY <1>0, <1>7, <2>3 DEF GameTick, AuthorityIsOfTheSession
    <2> QED BY <2>1, <2>2, <2>4 DEF IInv
  <1>8. ASSUME NEW unfit \in BOOLEAN, NEW heard \in BOOLEAN, GameCommand(unfit, heard) PROVE IInv'
    <2> DEFINE i == pos + 1
               w == journal[i]
    <2>1. i \in 1..Len(journal) /\ pos' = i /\ journal' = journal /\ gSession' = gSession
      BY <1>0, <1>8, <1>l DEF GameCommand, TypeOK
    <2>2. w \in Word BY <2>1, <1>0 DEF TypeOK
    <2>3. w.mode \in Mode \cup {OFF} /\ w.proc \in Nat BY <2>2 DEF Word
    <2>4. /\ gMode' \in {gMode, w.mode} /\ grantor' \in {grantor, w.proc}
          /\ granted' \in {granted, granted \cup {i}} /\ refused' \in {refused, refused \cup {i}}
      BY <1>8 DEF GameCommand
    <2>5. TypeOK'
      <3> HIDE DEF i, w
      <3>1. gMode' \in Mode \cup {OFF} /\ grantor' \in Nat
        BY <1>0, <2>3, <2>4 DEF TypeOK
      <3>2. /\ granted' \subseteq 1..Len(journal') /\ refused' \subseteq 1..Len(journal')
            /\ pos' \in 0..Len(journal')
        BY <1>0, <1>l, <2>1, <2>4 DEF TypeOK
      <3>3. /\ UNCHANGED <<now, sidecar, offer, journal, requests, beat, sidecarBeat, panicFile>>
            /\ UNCHANGED <<games, running, takeover, gSession, seenAt>>
        BY <1>8 DEF GameCommand
      <3> QED BY <1>0, <3>1, <3>2, <3>3 DEF TypeOK
    <2>6. RequestInv' BY <1>0, <1>8 DEF GameCommand, RequestInv
    <2>7. AuthorityIsOfTheSession'
      <3>1. CASE gMode' = gMode
        BY <3>1, <2>1, <1>0 DEF AuthorityIsOfTheSession, TypeOK
      <3>2. CASE gMode' # gMode /\ gMode' # OFF
        <4>1. Arms(w, unfit) \/ (Addressed(w) /\ w.kind = "disarm")
          BY <1>8, <3>2 DEF GameCommand
        <4>2. gMode' = w.mode BY <2>4, <3>2
        <4>3. w.kind # "disarm" BY <2>2, <3>2, <4>2 DEF Word
        <4>4. w.kind = "arm" /\ w.session = gSession BY <4>1, <4>3 DEF Arms, Addressed
        <4> QED BY <2>1, <4>2, <4>4, <1>0 DEF AuthorityIsOfTheSession, TypeOK
      <3>3. CASE gMode' = OFF BY <3>3 DEF AuthorityIsOfTheSession
      <3> QED BY <3>1, <3>2, <3>3
    <2> QED BY <2>5, <2>6, <2>7 DEF IInv
  <1>9. ASSUME NEW takesOver \in BOOLEAN, PlayerStops(takesOver) PROVE IInv'
    <2>1. TypeOK' BY <1>0, <1>9 DEF PlayerStops, TypeOK
    <2>2. RequestInv' BY <1>0, <1>9 DEF PlayerStops, RequestInv
    <2> QED BY <2>1, <2>2, <1>0, <1>9, AuthorityUntouched DEF PlayerStops, IInv
  <1>10. ASSUME NEW crashes \in BOOLEAN, GameEnds(crashes) PROVE IInv'
    <2>4. panicFile' \in {"absent", "raised", "emptied"} BY <1>0, <1>10 DEF GameEnds, TypeOK
    <2>5. running' \in BOOLEAN /\ gMode' \in Mode \cup {OFF} /\ gSession' \in Nat
      BY <1>10 DEF GameEnds
    <2>6. /\ UNCHANGED <<now, sidecar, offer, journal, acks, requests, beat, sidecarBeat>>
          /\ UNCHANGED <<games, grantor, takeover, seenAt, pos>>
      BY <1>10 DEF GameEnds
    <2>1. TypeOK' BY <1>0, <2>4, <2>5, <2>6 DEF TypeOK
    <2>2. RequestInv' BY <1>0, <1>10 DEF GameEnds, RequestInv
    <2>3. AuthorityIsOfTheSession' BY <1>10 DEF GameEnds, AuthorityIsOfTheSession
    <2> QED BY <2>1, <2>2, <2>3 DEF IInv
  <1>11. ASSUME NEW r \in Request, r.of = proc, r.at = now, control' = r, asked' = asked + 1,
                UNCHANGED <<now, sidecar, offer, journal, acks, beat, sidecarBeat, panicFile, mod>>
         PROVE  IInv'
    <2>1. TypeOK' BY <1>0, <1>11 DEF TypeOK
    <2>2. RequestInv' BY <1>0, <1>11 DEF RequestInv, TypeOK
    <2> QED BY <2>1, <2>2, <1>0, <1>11, AuthorityUntouched DEF IInv
  <1>12. CASE UserPanics
    <2>1. TypeOK' BY <1>0, <1>12 DEF UserPanics, TypeOK
    <2>2. RequestInv' BY <1>0, <1>12 DEF UserPanics, RequestInv
    <2> QED BY <2>1, <2>2, <1>0, <1>12, AuthorityUntouched DEF UserPanics, IInv
  <1>13. CASE PanicFileDeleted
    <2>1. TypeOK' BY <1>0, <1>13 DEF PanicFileDeleted, TypeOK
    <2>2. RequestInv' BY <1>0, <1>13 DEF PanicFileDeleted, RequestInv
    <2> QED BY <2>1, <2>2, <1>0, <1>13, AuthorityUntouched DEF PanicFileDeleted, IInv
  <1>14. CASE Clock
    <2>1. TypeOK' BY <1>0, <1>14 DEF Clock, TypeOK
    <2>2. RequestInv' BY <1>0, <1>14 DEF Clock, RequestInv, TypeOK, Request
    <2> QED BY <2>1, <2>2, <1>0, <1>14, AuthorityUntouched DEF Clock, IInv
  <1>15. CASE UNCHANGED vars
    <2>1. TypeOK' BY <1>0, <1>15 DEF vars, TypeOK
    <2>2. RequestInv' BY <1>0, <1>15 DEF vars, RequestInv
    <2> QED BY <2>1, <2>2, <1>0, <1>15, AuthorityUntouched DEF vars, IInv
  <1>16. CASE SidecarNext
    BY <1>1, <1>2, <1>3, <1>4, <1>5, <1>16 DEF SidecarNext
  <1>17. CASE ModNext
    BY <1>6, <1>7, <1>8, <1>9, <1>10, <1>17 DEF ModNext
  <1>18. CASE UserNext
    <2>1. ASSUME NEW m \in Mode, UserAsks("arm", m) PROVE IInv'
      <3>1. [kind |-> "arm", mode |-> m, at |-> now, of |-> proc] \in Request
        BY <1>0 DEF TypeOK, Request
      <3> QED BY <1>11, <2>1, <3>1 DEF UserAsks
    <2>2. CASE UserAsks("disarm", OFF)
      <3>1. [kind |-> "disarm", mode |-> OFF, at |-> now, of |-> proc] \in Request
        BY <1>0 DEF TypeOK, Request
      <3> QED BY <1>11, <2>2, <3>1 DEF UserAsks
    <2> QED BY <1>12, <1>13, <1>18, <2>1, <2>2 DEF UserNext
  <1> QED BY <1>14, <1>15, <1>16, <1>17, <1>18 DEF Next

-----------------------------------------------------------------------------
\* Every variable of both programs and of the files between them keeps its
\* type, and what a sidecar waits for is an arm that is in the journal.
THEOREM TypeCorrect == Spec => []TypeOK
  <1>1. IInv => TypeOK BY DEF IInv
  <1> QED BY <1>1, InitIInv, StepIInv, PTL DEF Spec

\* The mod's authority is of the session it has open, through swaps, reloads,
\* resumed sessions and words read late.
THEOREM AuthorityFollowsTheSession == Spec => []AuthorityIsOfTheSession
  <1>1. IInv => AuthorityIsOfTheSession BY DEF IInv
  <1> QED BY <1>1, InitIInv, StepIInv, PTL DEF Spec

\* No process ships an arm that was asked of another one.
THEOREM NeverRearmsItself == Spec => AskedOfThisProcess
  <1> DEFINE Ships == Len(journal') > Len(journal) /\ journal'[Len(journal')].kind = "arm"
             OfThis == control.kind = "arm" /\ control.of = proc
  <1>1. IInv /\ [Next]_vars => [Ships => OfThis]_vars
    <2> SUFFICES ASSUME IInv, Next, Ships PROVE OfThis OBVIOUS
    <2>1. Len(journal) \in Nat BY LenProperties DEF IInv, TypeOK
    <2>2. journal' # journal BY <2>1
    <2>3. ASSUME NEW alarm \in BOOLEAN, NEW barred \in BOOLEAN, EndTick(alarm, barred)
          PROVE  OfThis
      <3>1. journal' \in Seq(Word) BY <2>3, EndTickKeeps DEF Tick, Grown
      <3>2. Len(journal') \in Nat BY <3>1, LenProperties
      <3>3. Len(journal') \in 1..Len(journal') BY <2>1, <3>2
      <3> QED BY <2>1, <2>3, <3>2, <3>3, EndTickKeeps
    <2>4. CASE Shutdown
      <3>1. journal' = Append(journal, DisarmWord) BY <2>2, <2>4 DEF Shutdown
      <3>2. journal'[Len(journal')] = DisarmWord
        BY <3>1, AppendProperties, WordTypes DEF IInv, TypeOK
      <3> QED BY <3>2 DEF DisarmWord
    <2>5. (\E alarm, barred \in BOOLEAN : EndTick(alarm, barred)) \/ Shutdown
      BY <2>2 DEF Next, SidecarNext, ModNext, UserNext, Attach, BeginTick, Crash, GameStart,
         GameTick, GameCommand, PlayerStops, GameEnds, UserAsks, UserPanics, PanicFileDeleted,
         Clock
    <2> QED BY <2>3, <2>4, <2>5
  <1> QED BY <1>1, InitIInv, StepIInv, PTL DEF Spec, AskedOfThisProcess

-----------------------------------------------------------------------------
(* What a sidecar gave up, the game gives up; what it holds, the game holds. *)

\* A word of the journal is of a process that was, and shipped before now; the
\* words of one process carry one session.
Words(js) ==
    \A i \in 1..Len(js) :
        /\ js[i].proc <= proc /\ js[i].issued <= now
        /\ js[i].proc = proc => js[i].session = session

\* An arm that is waited for is the last word, and the game has a session.
Awaited(st) ==
    st.pending # 0 =>
        /\ st.pending = Len(st.journal) /\ st.journal[st.pending].proc = proc
        /\ beat.session # 0 /\ games > 0 /\ (running => gSession # 0)

Here == [mode |-> mode, pending |-> pending, journal |-> journal]

\* Only a running process is armed or waits, and a fresh heartbeat is of the game
\* that runs.
FilesInv ==
    /\ grantor <= proc
    /\ mode # OBSERVE \/ pending # 0 => life = "up"
    /\ games = 0 => beat = NoBeat /\ ~running
    /\ running /\ GameAlive => gSession # 0
    /\ granted \cap refused = {}
    /\ ObservesAtOnce /\ life = "up" => observed

BaseInv == IInv /\ Words(journal) /\ Awaited(Here) /\ FilesInv

\* One stage of a tick: the levers, the watch or the control file.
Moves(st, t) ==
    \/ t.mode = st.mode /\ t.pending = st.pending /\ t.journal = st.journal
    \/ t.mode = OBSERVE /\ t.pending = 0 /\ t.journal = Append(st.journal, DisarmWord)
    \/ /\ st.pending # 0 /\ t.pending = 0 /\ t.mode = st.mode
       /\ \/ t.journal = Append(st.journal, DisarmWord)
          \/ t.journal = st.journal /\ (st.pending \in refused \/ ~observed)
    \/ /\ st.pending # 0 /\ t.pending = 0 /\ st.pending \in granted
       /\ t.mode = st.journal[st.pending].mode /\ t.journal = st.journal
    \/ /\ st.pending = 0 /\ t.pending = Len(st.journal) + 1 /\ t.mode = st.mode
       /\ GameAlive /\ st.mode # control.mode /\ control.mode \in Mode
       /\ t.journal = Append(st.journal, ArmWord(control.mode))

LEMMA DisarmedMoves ==
    ASSUME NEW st, st = [mode |-> st.mode, pending |-> st.pending, journal |-> st.journal]
    PROVE  Moves(st, Disarmed(st))
  BY DEF Moves, Disarmed

LEMMA LeversMove ==
    ASSUME NEW forced \in BOOLEAN
    PROVE  LET st == AfterStopLevers(Here, forced)
           IN  Moves(Here, st) /\ (forced => st.pending = 0)
  <1>1. Moves(Here, Disarmed(Here)) BY DisarmedMoves DEF Here
  <1>2. Disarmed(Here).pending = 0 BY DEF Disarmed
  <1>3. Moves(Here, Here) BY DEF Moves
  <1> QED BY <1>1, <1>2, <1>3 DEF AfterStopLevers

LEMMA WatchMoves ==
    ASSUME TypeOK, NEW st, Tick(st), st.pending \in 0..Len(journal),
           st = [mode |-> st.mode, pending |-> st.pending, journal |-> st.journal],
           st.pending # 0 => ~(observed /\ look.silent)
    PROVE  Moves(st, AfterWatch(st))
  <1> DEFINE w == journal[st.pending]
             dropped == [st EXCEPT !.pending = 0]
             agreed == [st EXCEPT !.pending = 0, !.mode = w.mode]
             told == [st EXCEPT !.pending = 0, !.journal = Append(@, DisarmWord)]
  <1>1. st.pending # 0 => w = st.journal[st.pending]
    <2>1. Len(journal) \in Nat BY LenProperties DEF TypeOK
    <2> QED BY <2>1 DEF Tick, Grown
  <1>2. \/ AfterWatch(st) = st
        \/ /\ st.pending # 0 /\ AfterWatch(st) = dropped
           /\ st.pending \in refused \/ look.silent
        \/ st.pending # 0 /\ AfterWatch(st) = agreed /\ st.pending \in granted
        \/ st.pending # 0 /\ AfterWatch(st) = told
    BY DEF AfterWatch
  <1>3. dropped.mode = st.mode /\ dropped.pending = 0 /\ dropped.journal = st.journal OBVIOUS
  <1>4. agreed.mode = w.mode /\ agreed.pending = 0 /\ agreed.journal = st.journal OBVIOUS
  <1>5. told.mode = st.mode /\ told.pending = 0 /\ told.journal = Append(st.journal, DisarmWord)
    OBVIOUS
  <1>6. observed \in BOOLEAN /\ look.silent \in BOOLEAN BY DEF TypeOK
  <1> HIDE DEF dropped, agreed, told, w
  <1> QED BY <1>1, <1>2, <1>3, <1>4, <1>5, <1>6 DEF Moves

LEMMA ControlMoves ==
    ASSUME TypeOK, NEW st, Tick(st),
           st = [mode |-> st.mode, pending |-> st.pending, journal |-> st.journal],
           NEW forced \in BOOLEAN, NEW barred \in BOOLEAN
    PROVE  Moves(st, AfterControl(st, forced, barred))
  <1> DEFINE w == ArmWord(control.mode)
             asks == [st EXCEPT !.pending = Len(st.journal) + 1, !.journal = Append(@, w)]
  <1>1. CASE control.kind = "disarm" BY <1>1, DisarmedMoves DEF AfterControl
  <1>2. CASE control.kind = "arm" /\ MayAsk(st, forced, barred)
    <2>1. AfterControl(st, forced, barred) = asks BY <1>2 DEF AfterControl
    <2>2. asks.mode = st.mode /\ asks.pending = Len(st.journal) + 1
          /\ asks.journal = Append(st.journal, w)
      OBVIOUS
    <2>3. control.mode \in Mode BY <1>2 DEF TypeOK, Request
    <2>4. st.pending = 0 /\ GameAlive /\ st.mode # control.mode BY <1>2 DEF MayAsk
    <2> HIDE DEF asks, w
    <2> QED BY <2>1, <2>2, <2>3, <2>4 DEF Moves, w
  <1>3. CASE control.kind # "disarm" /\ ~(control.kind = "arm" /\ MayAsk(st, forced, barred))
    BY <1>3 DEF AfterControl, Moves
  <1> QED BY <1>1, <1>2, <1>3

\* What is added is a word of this process and this instant.
LEMMA AddedWord ==
    ASSUME TypeOK, NEW js, Grown(js), Words(js), NEW w \in Word,
           w.proc = proc, w.issued = now, w.session = session
    PROVE  /\ Grown(Append(js, w)) /\ Words(Append(js, w))
           /\ Len(Append(js, w)) = Len(js) + 1 /\ Append(js, w)[Len(js) + 1] = w
           /\ \A i \in 1..Len(js) : Append(js, w)[i] = js[i]
           /\ Len(js) \in Nat
  <1>1. /\ Grown(Append(js, w)) /\ Len(Append(js, w)) = Len(js) + 1
        /\ Append(js, w)[Len(js) + 1] = w
        /\ \A i \in 1..Len(js) : Append(js, w)[i] = js[i]
    BY AppendGrows
  <1>2. Len(js) \in Nat BY LenProperties DEF Grown
  <1>3. proc \in Nat /\ now \in Nat BY DEF TypeOK
  <1>4. Words(Append(js, w)) BY <1>1, <1>2, <1>3 DEF Words
  <1> QED BY <1>1, <1>2, <1>4

\* A stage keeps the types, the words and what is known of the arm waited for.
LEMMA MoveKeeps ==
    ASSUME BaseInv, NEW st, Tick(st), Words(st.journal), Awaited(st), NEW t, Moves(st, t)
    PROVE  Tick(t) /\ Words(t.journal) /\ Awaited(t)
  <1>0. TypeOK /\ FilesInv BY DEF BaseInv, IInv
  <1>1. /\ DisarmWord \in Word /\ DisarmWord.proc = proc /\ DisarmWord.issued = now
        /\ DisarmWord.session = session
    BY <1>0, WordTypes DEF DisarmWord
  <1>2. Grown(st.journal) /\ Len(st.journal) \in Nat /\ Len(journal) \in Nat
    BY <1>0, LenProperties DEF Tick, Grown, TypeOK
  <1>3. CASE t.mode = st.mode /\ t.pending = st.pending /\ t.journal = st.journal
    BY <1>3 DEF Tick, Awaited
  <1>4. CASE /\ t.mode \in Mode \cup {OBSERVE} /\ t.pending = 0
             /\ t.journal \in {st.journal, Append(st.journal, DisarmWord)}
    <2>1. Grown(t.journal) /\ Words(t.journal)
      <3>1. Grown(Append(st.journal, DisarmWord)) /\ Words(Append(st.journal, DisarmWord))
        BY <1>0, <1>1, <1>2, AddedWord
      <3>2. CASE t.journal = st.journal BY <1>2, <3>2
      <3>3. CASE t.journal = Append(st.journal, DisarmWord) BY <3>1, <3>3
      <3> QED BY <1>4, <3>2, <3>3
    <2>2. Len(t.journal) \in Nat BY <2>1, LenProperties DEF Grown
    <2> QED BY <1>4, <2>1, <2>2 DEF Tick, Awaited
  <1>5. CASE /\ st.pending # 0 /\ t.pending = 0 /\ t.mode = st.journal[st.pending].mode
             /\ t.journal = st.journal
    <2>1. st.pending \in 1..Len(st.journal) BY <1>2, <1>5 DEF Tick
    <2>2. st.journal[st.pending] \in Word BY <1>2, <2>1 DEF Grown
    <2>3. st.journal[st.pending].kind = "arm" BY <1>5 DEF Tick
    <2>4. t.mode \in Mode BY <1>5, <2>2, <2>3 DEF Word
    <2> QED BY <1>4, <1>5, <2>4
  <1>6. CASE /\ t.pending = Len(st.journal) + 1 /\ t.mode = st.mode
             /\ GameAlive /\ control.mode \in Mode
             /\ t.journal = Append(st.journal, ArmWord(control.mode))
    <2> DEFINE w == ArmWord(control.mode)
    <2>1. w \in Word /\ w.kind = "arm" /\ w.proc = proc /\ w.issued = now /\ w.session = session
      BY <1>0, <1>6, WordTypes DEF ArmWord
    <2>2. t.journal = Append(st.journal, w) BY <1>6
    <2> HIDE DEF w
    <2>3. /\ Grown(t.journal) /\ Words(t.journal) /\ Len(t.journal) = Len(st.journal) + 1
          /\ t.journal[Len(st.journal) + 1] = w
      BY <1>0, <1>2, <2>1, <2>2, AddedWord
    <2>4. beat.session # 0 /\ (running => gSession # 0) BY <1>0, <1>6 DEF GameAlive, FilesInv
    <2>5. games > 0
      <3>1. games \in Nat /\ games # 0 BY <1>0, <2>4 DEF TypeOK, FilesInv, NoBeat
      <3> QED BY <3>1
    <2>6. Tick(t) BY <1>2, <1>6, <2>1, <2>3 DEF Tick
    <2> QED BY <1>6, <2>1, <2>3, <2>4, <2>5, <2>6 DEF Awaited
  <1>7. OBSERVE \in Mode \cup {OBSERVE} /\ st.mode \in Mode \cup {OBSERVE} BY DEF Tick
  <1> QED BY <1>3, <1>4, <1>5, <1>6, <1>7 DEF Moves

\* The stages of a tick, one after the other.
LEMMA EndTickMoves ==
    ASSUME BaseInv, NEW alarm \in BOOLEAN, NEW barred \in BOOLEAN, EndTick(alarm, barred)
    PROVE  \E st1, st2, st3 :
              /\ Moves(Here, st1) /\ Moves(st1, st2) /\ Moves(st2, st3)
              /\ Tick(Here) /\ Tick(st1) /\ Tick(st2) /\ Tick(st3)
              /\ Words(Here.journal) /\ Words(st1.journal) /\ Words(st2.journal)
              /\ Words(st3.journal)
              /\ Awaited(Here) /\ Awaited(st1) /\ Awaited(st2) /\ Awaited(st3)
              /\ st3.mode = mode' /\ st3.pending = pending' /\ st3.journal = journal'
  <1> DEFINE forced == observed /\ (alarm \/ look.panic \/ look.silent)
             st1 == AfterStopLevers(Here, forced)
             st2 == AfterWatch(st1)
             st3 == AfterControl(st2, forced, barred)
  <1>0. TypeOK BY DEF BaseInv, IInv
  <1>1. observed \in BOOLEAN /\ look.silent \in BOOLEAN BY <1>0 DEF TypeOK
  <1>2. forced \in BOOLEAN /\ (observed /\ look.silent => forced) BY <1>0, <1>1 DEF TypeOK
  <1>3. mode' = st3.mode /\ pending' = st3.pending /\ journal' = st3.journal
    BY DEF EndTick, Here
  <1> HIDE DEF forced
  <1>4. Tick(Here) /\ Words(Here.journal) /\ Awaited(Here)
    <2>1. Here.mode = mode /\ Here.pending = pending /\ Here.journal = journal BY DEF Here
    <2>2. Len(journal) \in Nat BY <1>0, LenProperties DEF TypeOK
    <2>3. Tick(Here) BY <1>0, <2>1, <2>2 DEF TypeOK, Tick, Grown
    <2> QED BY <2>1, <2>3 DEF BaseInv
  <1>5. /\ st1 = [mode |-> st1.mode, pending |-> st1.pending, journal |-> st1.journal]
        /\ st2 = [mode |-> st2.mode, pending |-> st2.pending, journal |-> st2.journal]
    BY <1>2, TickIsARecord DEF Here
  <1>6. Moves(Here, st1) /\ (forced => st1.pending = 0) BY <1>2, LeversMove
  <1>7. Tick(st1) /\ st1.pending \in 0..Len(journal) BY <1>0, <1>2, LeversTick DEF Here
  <1> HIDE DEF st1
  <1>8. Moves(st1, st2) BY <1>0, <1>2, <1>5, <1>6, <1>7, WatchMoves
  <1>9. Words(st1.journal) /\ Awaited(st1) BY <1>4, <1>6, MoveKeeps
  <1>10. Tick(st2) /\ Words(st2.journal) /\ Awaited(st2) BY <1>7, <1>8, <1>9, MoveKeeps
  <1> HIDE DEF st2
  <1>11. Moves(st2, st3) BY <1>0, <1>2, <1>5, <1>10, ControlMoves
  <1>12. Tick(st3) /\ Words(st3.journal) /\ Awaited(st3) BY <1>10, <1>11, MoveKeeps
  <1> HIDE DEF st3
  <1> QED BY <1>3, <1>4, <1>6, <1>7, <1>8, <1>9, <1>10, <1>11, <1>12

\* The words of the journal after a step of another actor.
LEMMA SameWords ==
    ASSUME TypeOK, Words(journal), UNCHANGED <<journal, proc, session>>, now' \in {now, now + 1}
    PROVE  Words(journal)'
  <1>1. \A i \in 1..Len(journal) : journal[i].issued \in Nat
    <2>1. ASSUME NEW w \in Word PROVE w.issued \in Nat BY <2>1 DEF Word
    <2>2. \A i \in 1..Len(journal) : journal[i] \in Word BY DEF TypeOK
    <2> QED BY <2>1, <2>2
  <1>2. now \in Nat BY DEF TypeOK
  <1> QED BY <1>1, <1>2 DEF Words

LEMMA BaseKept == BaseInv /\ [Next]_vars => BaseInv'
  <1> SUFFICES ASSUME BaseInv, [Next]_vars PROVE BaseInv' OBVIOUS
  <1>0. TypeOK /\ Words(journal) /\ Awaited(Here) /\ FilesInv /\ IInv BY DEF BaseInv, IInv
  <1>i. IInv' BY <1>0, StepIInv
  <1>l. Len(journal) \in Nat /\ now \in Nat /\ proc \in Nat /\ games \in Nat
    BY <1>0, LenProperties DEF TypeOK
  <1>h. Here = [mode |-> mode, pending |-> pending, journal |-> journal]
        /\ Here.mode = mode /\ Here.pending = pending /\ Here.journal = journal
    BY DEF Here
  <1>a. pending # 0 => /\ pending = Len(journal) /\ journal[pending].proc = proc
                       /\ beat.session # 0 /\ games > 0 /\ (running => gSession # 0)
    BY <1>0, <1>h DEF Awaited
  <1>b. (pending' # 0 => /\ pending' = Len(journal') /\ journal'[pending'].proc = proc'
                         /\ beat'.session # 0 /\ games' > 0 /\ (running' => gSession' # 0))
        => Awaited(Here)'
    BY DEF Awaited, Here
  <1> USE DEF sidecar, offer, acks, requests, mod
  <1>1. CASE Attach
    <2>1. Words(journal)'
      <3>1. \A i \in 1..Len(journal) :
                journal'[i].proc # proc' /\ journal'[i].proc <= proc' /\ journal'[i].issued <= now'
        <4>1. \A i \in 1..Len(journal) : journal[i].proc \in Nat /\ journal[i].issued \in Nat
          <5>1. ASSUME NEW w \in Word PROVE w.proc \in Nat /\ w.issued \in Nat BY <5>1 DEF Word
          <5>2. \A i \in 1..Len(journal) : journal[i] \in Word BY <1>0 DEF TypeOK
          <5> QED BY <5>1, <5>2
        <4> QED BY <1>0, <1>1, <1>l, <4>1 DEF Attach, Words
      <3> QED BY <1>1, <3>1 DEF Attach, Words
    <2>2. Awaited(Here)' BY <1>1, <1>b DEF Attach
    <2>3. FilesInv'
      <3>1. grantor \in Nat BY <1>0 DEF TypeOK
      <3>2. running' /\ GameAlive' => running /\ GameAlive
        <4>1. beat.at \in Int /\ BeatTimeout \in Int BY <1>0, TimeAssumption DEF TypeOK
        <4>2. beat' = beat /\ now' = now + 1 /\ running' = running BY <1>1 DEF Attach
        <4> QED BY <1>l, <4>1, <4>2 DEF GameAlive
      <3> QED BY <1>0, <1>1, <1>l, <3>1, <3>2 DEF Attach, FilesInv
    <2> QED BY <1>i, <2>1, <2>2, <2>3 DEF BaseInv
  <1>2. ASSUME NEW sees \in BOOLEAN, BeginTick(sees) PROVE BaseInv'
    <2>1. Words(journal)' BY <1>0, <1>2, SameWords DEF BeginTick
    <2>2. Awaited(Here)' BY <1>2, <1>a, <1>b DEF BeginTick
    <2>3. FilesInv' BY <1>0, <1>2 DEF BeginTick, FilesInv, GameAlive
    <2> QED BY <1>i, <2>1, <2>2, <2>3 DEF BaseInv
  <1>3. ASSUME NEW alarm \in BOOLEAN, NEW barred \in BOOLEAN, EndTick(alarm, barred) PROVE BaseInv'
    <2>1. PICK t : /\ Tick(t) /\ Words(t.journal) /\ Awaited(t)
                   /\ t.mode = mode' /\ t.pending = pending' /\ t.journal = journal'
      BY <1>3, EndTickMoves
    <2>2. UNCHANGED <<now, proc, session, beat, games, running, gSession>> BY <1>3 DEF EndTick
    <2>3. Words(journal)' BY <2>1, <2>2 DEF Words
    <2>4. Awaited(Here)' BY <1>b, <2>1, <2>2 DEF Awaited
    <2>5. FilesInv' BY <1>0, <1>3 DEF EndTick, FilesInv, GameAlive
    <2> QED BY <1>i, <2>3, <2>4, <2>5 DEF BaseInv
  <1>4. CASE Shutdown
    <2>1. /\ DisarmWord \in Word /\ DisarmWord.proc = proc /\ DisarmWord.issued = now
          /\ DisarmWord.session = session
      BY <1>0, WordTypes DEF DisarmWord
    <2>2. Grown(journal) BY <1>0, <1>l DEF Grown, TypeOK
    <2>3. Words(Append(journal, DisarmWord)) BY <1>0, <2>1, <2>2, AddedWord
    <2>4. Words(journal)' BY <1>0, <1>4, <2>3 DEF Shutdown, Words
    <2>5. Awaited(Here)' BY <1>4, <1>b DEF Shutdown
    <2>6. FilesInv' BY <1>0, <1>4 DEF Shutdown, FilesInv, GameAlive
    <2> QED BY <1>i, <2>4, <2>5, <2>6 DEF BaseInv
  <1>5. CASE Crash
    <2>1. Words(journal)' BY <1>0, <1>5, SameWords DEF Crash
    <2>2. Awaited(Here)' BY <1>5, <1>b DEF Crash
    <2>3. FilesInv' BY <1>0, <1>5 DEF Crash, FilesInv, GameAlive
    <2> QED BY <1>i, <2>1, <2>2, <2>3 DEF BaseInv
  <1>6. CASE GameStart
    <2>1. Words(journal)' BY <1>0, <1>6, SameWords DEF GameStart
    <2>2. Awaited(Here)' BY <1>6, <1>a, <1>b, <1>l DEF GameStart
    <2>3. ~GameAlive BY <1>0, <1>6, <1>l DEF GameStart, FilesInv, GameAlive, NoBeat
    <2>4. FilesInv' BY <1>0, <1>6, <1>l, <2>3 DEF GameStart, FilesInv, GameAlive
    <2> QED BY <1>i, <2>1, <2>2, <2>4 DEF BaseInv
  <1>7. CASE GameTick
    <2>1. Words(journal)' BY <1>0, <1>7, SameWords DEF GameTick
    <2>2. /\ gSession' \in {gSession, session} /\ (gSession' # gSession => gSession' # 0)
          /\ beat' = [at |-> now, session |-> gSession', mode |-> gMode']
      BY <1>7 DEF GameTick, Opens
    <2>3. running /\ running' BY <1>7 DEF GameTick
    <2>4. Awaited(Here)' BY <1>7, <1>a, <1>b, <2>2, <2>3 DEF GameTick
    <2>5. FilesInv' BY <1>0, <1>7, <2>2, <2>3 DEF GameTick, FilesInv, GameAlive
    <2> QED BY <1>i, <2>1, <2>4, <2>5 DEF BaseInv
  <1>8. ASSUME NEW unfit \in BOOLEAN, NEW heard \in BOOLEAN, GameCommand(unfit, heard)
        PROVE  BaseInv'
    <2>1. Words(journal)' BY <1>0, <1>8, SameWords DEF GameCommand
    <2>2. Awaited(Here)' BY <1>8, <1>a, <1>b DEF GameCommand
    <2>3. pos + 1 \in 1..Len(journal) BY <1>0, <1>8, <1>l DEF GameCommand, TypeOK
    <2>4. grantor' \in {grantor, journal[pos + 1].proc} BY <1>8 DEF GameCommand
    <2>5. grantor' <= proc BY <1>0, <2>3, <2>4 DEF FilesInv, Words
    <2>6. granted' \cap refused' = {} BY <1>0, <1>8 DEF GameCommand, FilesInv
    <2>7. FilesInv' BY <1>0, <1>8, <2>5, <2>6 DEF GameCommand, FilesInv, GameAlive
    <2> QED BY <1>i, <2>1, <2>2, <2>7 DEF BaseInv
  <1>9. ASSUME NEW takesOver \in BOOLEAN, PlayerStops(takesOver) PROVE BaseInv'
    <2>1. Words(journal)' BY <1>0, <1>9, SameWords DEF PlayerStops
    <2>2. Awaited(Here)' BY <1>9, <1>a, <1>b DEF PlayerStops
    <2>3. FilesInv' BY <1>0, <1>9 DEF PlayerStops, FilesInv, GameAlive
    <2> QED BY <1>i, <2>1, <2>2, <2>3 DEF BaseInv
  <1>10. ASSUME NEW crashes \in BOOLEAN, GameEnds(crashes) PROVE BaseInv'
    <2>1. Words(journal)' BY <1>0, <1>10, SameWords DEF GameEnds
    <2>2. Awaited(Here)' BY <1>10, <1>a, <1>b DEF GameEnds
    <2>3. FilesInv' BY <1>0, <1>10 DEF GameEnds, FilesInv, GameAlive
    <2> QED BY <1>i, <2>1, <2>2, <2>3 DEF BaseInv
  <1>11. CASE UserNext \/ UNCHANGED vars
    <2>1. UNCHANGED <<now, sidecar, offer, journal, acks, beat, sidecarBeat, mod>>
      BY <1>11 DEF UserNext, UserAsks, UserPanics, PanicFileDeleted, vars
    <2>2. Words(journal)' BY <1>0, <2>1, SameWords
    <2>3. Awaited(Here)' BY <1>a, <1>b, <2>1
    <2>4. FilesInv' BY <1>0, <2>1 DEF FilesInv, GameAlive
    <2> QED BY <1>i, <2>2, <2>3, <2>4 DEF BaseInv
  <1>12. CASE Clock
    <2>1. Words(journal)' BY <1>0, <1>12, SameWords DEF Clock
    <2>2. Awaited(Here)' BY <1>12, <1>a, <1>b DEF Clock
    <2>3. GameAlive' => GameAlive BY <1>0, <1>12, <1>l, TimeAssumption DEF Clock, GameAlive, TypeOK
    <2>4. FilesInv' BY <1>0, <1>12, <2>3 DEF Clock, FilesInv
    <2> QED BY <1>i, <2>1, <2>2, <2>4 DEF BaseInv
  <1> QED
    BY <1>1, <1>2, <1>3, <1>4, <1>5, <1>6, <1>7, <1>8, <1>9, <1>10, <1>11, <1>12
    DEF Next, SidecarNext, ModNext

LEMMA BaseInitially == Init => BaseInv
  <1> SUFFICES ASSUME Init PROVE BaseInv OBVIOUS
  <1>1. IInv BY InitIInv
  <1>2. Words(journal) BY DEF Init, Words
  <1>3. Awaited(Here) BY DEF Init, Awaited, Here
  <1>4. FilesInv BY DEF Init, FilesInv, NoBeat
  <1> QED BY <1>1, <1>2, <1>3, <1>4 DEF BaseInv

-----------------------------------------------------------------------------
(* No arm that the sidecar gave up stands.                                 *)

\* A disarm of the same process comes after word i.
Followed(js, i) == \E j \in (i + 1)..Len(js) : js[j].kind = "disarm" /\ js[j].proc = js[i].proc

\* Word i was refused, and no game will take it up again: its lease is over, or
\* the game that refused it has read past it and published since.
Spent(w, i) ==
    /\ i \in refused
    /\ \/ now > w.issued + ArmTimeout
       \/ /\ beat.at >= w.issued /\ beat.session # 0
          /\ running => pos >= i /\ gSession # 0

\* Every arm of this process is waited for, stands, was followed by a disarm or
\* is spent.
Accounted(st) ==
    /\ \A i \in 1..Len(st.journal) :
          st.journal[i].kind = "arm" /\ st.journal[i].proc = proc =>
              \/ i = st.pending
              \/ st.mode # OBSERVE /\ i \in granted
              \/ Followed(st.journal, i)
              \/ Spent(st.journal[i], i)
    /\ st.pending # 0 /\ st.pending \in refused => Spent(st.journal[st.pending], st.pending)

\* The arm that put the game where it is; no disarm that counts came after it.
Grants(i) ==
    /\ journal[i].kind = "arm" /\ journal[i].proc = grantor /\ journal[i].session = gSession
    /\ \A j \in (i + 1)..pos : ~(journal[j].kind = "disarm" /\ journal[j].session = gSession)
    /\ life = "up" /\ grantor = proc /\ i \in refused => Followed(journal, i)

GrantInv == gMode # OFF => gSession # 0 /\ \E i \in 1..pos : Grants(i)

AccountInv == BaseInv /\ (life = "up" => Accounted(Here)) /\ GrantInv

\* A stage of a tick accounts for what it gives up.
LEMMA MoveAccounts ==
    ASSUME BaseInv, observed, NEW st, Tick(st), Words(st.journal), Awaited(st), Accounted(st),
           NEW t, Moves(st, t)
    PROVE  Accounted(t)
  <1>0. TypeOK BY DEF BaseInv, IInv
  <1>1. /\ DisarmWord \in Word /\ DisarmWord.proc = proc /\ DisarmWord.issued = now
        /\ DisarmWord.session = session /\ DisarmWord.kind = "disarm"
    BY <1>0, WordTypes DEF DisarmWord
  <1>2. Grown(st.journal) /\ Len(st.journal) \in Nat /\ Len(journal) \in Nat
        /\ Len(journal) <= Len(st.journal)
    BY <1>0, LenProperties DEF Tick, Grown, TypeOK
  <1>3. CASE t.mode = st.mode /\ t.pending = st.pending /\ t.journal = st.journal
    BY <1>3 DEF Accounted
  <1>4. CASE t.pending = 0 /\ t.journal = Append(st.journal, DisarmWord)
    <2>1. /\ Len(t.journal) = Len(st.journal) + 1
          /\ t.journal[Len(st.journal) + 1] = DisarmWord
      BY <1>0, <1>1, <1>2, <1>4, AddedWord
    <2>2. ASSUME NEW i \in 1..Len(t.journal), t.journal[i].kind = "arm", t.journal[i].proc = proc
          PROVE  Followed(t.journal, i)
      <3>1. i # Len(st.journal) + 1 BY <1>1, <2>1, <2>2
      <3>2. Len(st.journal) + 1 \in (i + 1)..Len(t.journal) BY <1>2, <2>1, <3>1
      <3> QED BY <1>1, <2>1, <2>2, <3>2 DEF Followed
    <2> QED BY <1>4, <2>2 DEF Accounted
  <1>5. CASE /\ st.pending # 0 /\ t.pending = 0 /\ t.mode = st.mode /\ t.journal = st.journal
             /\ st.pending \in refused
    BY <1>5 DEF Accounted
  <1>6. CASE /\ st.pending # 0 /\ t.pending = 0 /\ st.pending \in granted
             /\ t.mode = st.journal[st.pending].mode /\ t.journal = st.journal
    <2>1. st.pending \in 1..Len(st.journal) BY <1>2, <1>6 DEF Tick
    <2>2. st.journal[st.pending] \in Word BY <1>2, <2>1 DEF Grown
    <2>3. st.journal[st.pending].kind = "arm" BY <1>6 DEF Tick
    <2>4. t.mode \in Mode BY <1>6, <2>2, <2>3 DEF Word
    <2>5. t.mode # OBSERVE BY <2>4, ModeAssumption
    <2> QED BY <1>6, <2>5 DEF Accounted
  <1>7. CASE /\ st.pending = 0 /\ t.pending = Len(st.journal) + 1 /\ t.mode = st.mode
             /\ control.mode \in Mode
             /\ t.journal = Append(st.journal, ArmWord(control.mode))
    <2> DEFINE w == ArmWord(control.mode)
    <2>1. w \in Word /\ w.kind = "arm" /\ w.proc = proc /\ w.issued = now /\ w.session = session
      BY <1>0, <1>7, WordTypes DEF ArmWord
    <2>2. t.journal = Append(st.journal, w) BY <1>7
    <2> HIDE DEF w
    <2>3. /\ Len(t.journal) = Len(st.journal) + 1
          /\ \A i \in 1..Len(st.journal) : t.journal[i] = st.journal[i]
      BY <1>0, <1>2, <2>1, <2>2, AddedWord
    <2>4. t.pending \notin refused BY <1>0, <1>2, <1>7 DEF TypeOK
    <2>5. ASSUME NEW i \in 1..Len(st.journal), Followed(st.journal, i)
          PROVE  Followed(t.journal, i)
      <3>1. PICK j \in (i + 1)..Len(st.journal) :
                st.journal[j].kind = "disarm" /\ st.journal[j].proc = st.journal[i].proc
        BY <2>5 DEF Followed
      <3>2. j \in (i + 1)..Len(t.journal) /\ j \in 1..Len(st.journal) BY <1>2, <2>3, <3>1
      <3> QED BY <2>3, <3>1, <3>2 DEF Followed
    <2>6. ASSUME NEW i \in 1..Len(t.journal), t.journal[i].kind = "arm", t.journal[i].proc = proc
          PROVE  \/ i = t.pending
                 \/ t.mode # OBSERVE /\ i \in granted
                 \/ Followed(t.journal, i)
                 \/ Spent(t.journal[i], i)
      <3>1. CASE i = Len(st.journal) + 1 BY <1>7, <3>1
      <3>2. CASE i # Len(st.journal) + 1
        <4>1. i \in 1..Len(st.journal) /\ t.journal[i] = st.journal[i] BY <1>2, <2>3, <3>2
        <4>2. i # st.pending BY <1>7, <4>1
        <4> QED BY <1>7, <2>5, <2>6, <4>1, <4>2 DEF Accounted
      <3> QED BY <3>1, <3>2
    <2> QED BY <2>4, <2>6 DEF Accounted
  <1> QED BY <1>3, <1>4, <1>5, <1>6, <1>7 DEF Moves

\* A step that leaves the sidecar's side alone, and of what is spent nothing is
\* taken up again.
LEMMA StillAccounted ==
    ASSUME Accounted(Here), UNCHANGED <<mode, pending, journal, proc>>, granted \subseteq granted',
           \A i \in 1..Len(journal) : Spent(journal[i], i) => Spent(journal[i], i)',
           (pending # 0 /\ pending \in refused') => Spent(journal[pending], pending)'
    PROVE  Accounted(Here)'
  <1>1. Here.mode = mode /\ Here.pending = pending /\ Here.journal = journal BY DEF Here
  <1>2. \A i \in 1..Len(journal) : Followed(journal, i)' <=> Followed(journal, i)
    BY DEF Followed
  <1>3. ASSUME NEW i \in 1..Len(journal), journal[i].kind = "arm", journal[i].proc = proc
        PROVE  \/ i = pending
               \/ mode # OBSERVE /\ i \in granted'
               \/ Followed(journal, i)'
               \/ Spent(journal[i], i)'
    BY <1>1, <1>2, <1>3 DEF Accounted
  <1>4. Here' = Here BY DEF Here
  <1> QED BY <1>3, <1>4 DEF Accounted, Here, Followed, Spent

LEMMA WordFields ==
    ASSUME TypeOK, Words(journal), NEW i \in 1..Len(journal)
    PROVE  /\ journal[i] \in Word /\ journal[i].issued \in Nat /\ journal[i].issued <= now
           /\ journal[i].proc \in Nat /\ journal[i].session \in Nat
           /\ journal[i].kind \in {"arm", "disarm"} /\ journal[i].mode \in Mode \cup {OFF}
           /\ journal[i].kind = "arm" => journal[i].mode # OFF
  <1>1. journal[i] \in Word BY DEF TypeOK
  <1>2. ASSUME NEW w \in Word
        PROVE  /\ w.issued \in Nat /\ w.proc \in Nat /\ w.session \in Nat
               /\ w.kind \in {"arm", "disarm"} /\ w.mode \in Mode \cup {OFF}
               /\ w.kind = "arm" => w.mode # OFF
    BY <1>2, ModeAssumption DEF Word
  <1>3. journal[i].issued <= now BY DEF Words
  <1> QED BY <1>1, <1>2, <1>3

LEMMA EndTickAccounts ==
    ASSUME BaseInv, observed, Accounted(Here), NEW alarm \in BOOLEAN, NEW barred \in BOOLEAN,
           EndTick(alarm, barred)
    PROVE  Accounted(Here)'
  <1>1. PICK st1, st2, st3 :
              /\ Moves(Here, st1) /\ Moves(st1, st2) /\ Moves(st2, st3)
              /\ Tick(Here) /\ Tick(st1) /\ Tick(st2) /\ Tick(st3)
              /\ Words(Here.journal) /\ Words(st1.journal) /\ Words(st2.journal)
              /\ Words(st3.journal)
              /\ Awaited(Here) /\ Awaited(st1) /\ Awaited(st2) /\ Awaited(st3)
              /\ st3.mode = mode' /\ st3.pending = pending' /\ st3.journal = journal'
    BY EndTickMoves
  <1>3. Accounted(st1) BY <1>1, MoveAccounts
  <1>4. Accounted(st2) BY <1>1, <1>3, MoveAccounts
  <1>5. Accounted(st3) BY <1>1, <1>4, MoveAccounts
  <1>6. UNCHANGED <<now, proc, granted, refused, beat, running, pos, gSession>>
    BY DEF EndTick, acks, mod
  <1>7. /\ Here'.mode = st3.mode /\ Here'.pending = st3.pending /\ Here'.journal = st3.journal
    BY <1>1 DEF Here
  <1> QED BY <1>5, <1>6, <1>7 DEF Accounted, Followed, Spent

LEMMA AccountedStep ==
    ASSUME ObservesAtOnce, AccountInv, [Next]_vars, life' = "up"
    PROVE  Accounted(Here)'
  <1>0. TypeOK /\ Words(journal) /\ Awaited(Here) /\ FilesInv /\ BaseInv
    BY DEF AccountInv, BaseInv, IInv
  <1>l. /\ Len(journal) \in Nat /\ now \in Nat /\ proc \in Nat /\ games \in Nat
        /\ pos \in 0..Len(journal)
    BY <1>0, LenProperties DEF TypeOK
  <1>a. pending # 0 => /\ pending = Len(journal) /\ beat.session # 0 /\ games > 0
                       /\ running => gSession # 0
    BY <1>0 DEF Awaited, Here
  <1>b. beat.at \in Int /\ ArmTimeout \in Nat /\ BeatTimeout \in Nat /\ ArmTimeout <= BeatTimeout
    BY <1>0, TimeAssumption DEF TypeOK
  <1>c. pending \in 0..Len(journal) BY <1>0 DEF TypeOK
  <1>d. life = "up" =>
            /\ Accounted(Here)
            /\ pending # 0 /\ pending \in refused => Spent(journal[pending], pending)
    BY DEF AccountInv, Accounted, Here
  <1> USE DEF sidecar, offer, acks, requests, mod
  <1>1. CASE Attach
    <2>1. pending' = 0 /\ proc' = proc + 1 /\ journal' = journal BY <1>1 DEF Attach
    <2>2. \A i \in 1..Len(journal) : journal[i].proc # proc + 1
      <3>1. ASSUME NEW i \in 1..Len(journal) PROVE journal[i].proc # proc + 1
        <4>1. journal[i].proc \in Nat /\ journal[i].proc <= proc
          BY <1>0, WordFields DEF Words
        <4> QED BY <1>l, <4>1
      <3> QED BY <3>1
    <2>3. Here'.pending = 0 /\ Here'.journal = journal BY <2>1 DEF Here
    <2> QED BY <2>1, <2>2, <2>3 DEF Accounted
  <1>2. ASSUME NEW alarm \in BOOLEAN, NEW barred \in BOOLEAN, EndTick(alarm, barred)
        PROVE  Accounted(Here)'
    <2>1. life = "up" /\ observed BY <1>0, <1>2 DEF EndTick, FilesInv
    <2> QED BY <1>0, <1>2, <1>d, <2>1, EndTickAccounts
  <1>3. ASSUME life = "up", UNCHANGED <<mode, pending, journal, proc, granted, refused>>,
               \A i \in 1..Len(journal) : Spent(journal[i], i) => Spent(journal[i], i)'
        PROVE  Accounted(Here)'
    <2>1. (pending # 0 /\ pending \in refused') => Spent(journal[pending], pending)'
      BY <1>3, <1>c, <1>d
    <2> QED BY <1>3, <1>d, <2>1, StillAccounted
  <1>4. CASE \/ \E sees \in BOOLEAN : BeginTick(sees)
             \/ \E takesOver \in BOOLEAN : PlayerStops(takesOver)
             \/ UserNext \/ UNCHANGED vars
    <2>1. UNCHANGED <<now, life, mode, pending, journal, proc, granted, refused, beat, running,
                      pos, gSession>>
      BY <1>4 DEF BeginTick, PlayerStops, UserNext, UserAsks, UserPanics, PanicFileDeleted, vars
    <2>2. \A i \in 1..Len(journal) : Spent(journal[i], i) => Spent(journal[i], i)'
      BY <2>1 DEF Spent
    <2> QED BY <1>3, <2>1, <2>2
  <1>5. CASE GameStart
    <2>1. UNCHANGED <<now, life, mode, pending, journal, proc, granted, refused, beat>> /\ ~running
      BY <1>5 DEF GameStart
    <2>2. beat.session # 0 => now - beat.at > BeatTimeout
      BY <1>0, <1>5, <1>b, <1>l DEF GameStart, FilesInv, GameAlive, NoBeat
    <2>3. ASSUME NEW i \in 1..Len(journal), Spent(journal[i], i) PROVE Spent(journal[i], i)'
      <3>1. journal[i].issued \in Nat BY <1>0, WordFields
      <3>2. now > journal[i].issued + ArmTimeout
        BY <1>b, <1>l, <2>1, <2>2, <2>3, <3>1 DEF Spent
      <3> QED BY <2>1, <2>3, <3>2 DEF Spent
    <2> QED BY <1>3, <2>1, <2>3
  <1>6. CASE GameTick
    <2>1. /\ UNCHANGED <<now, life, mode, pending, journal, proc, granted, refused, pos, running>>
          /\ running /\ beat' = [at |-> now, session |-> gSession', mode |-> gMode']
          /\ gSession # 0 => gSession' # 0
      BY <1>6 DEF GameTick, Opens
    <2>2. ASSUME NEW i \in 1..Len(journal), Spent(journal[i], i) PROVE Spent(journal[i], i)'
      <3>1. journal[i].issued <= now BY <1>0, WordFields
      <3> QED BY <2>1, <2>2, <3>1 DEF Spent
    <2> QED BY <1>3, <2>1, <2>2
  <1>7. ASSUME NEW unfit \in BOOLEAN, NEW heard \in BOOLEAN, GameCommand(unfit, heard)
        PROVE  Accounted(Here)'
    <2>1. /\ UNCHANGED <<now, life, mode, pending, journal, proc, beat, running, gSession>>
          /\ running /\ beat.at = now /\ pos' = pos + 1 /\ pos < Len(journal)
          /\ granted \subseteq granted' /\ refused \subseteq refused'
          /\ refused' \subseteq refused \cup {pos + 1}
      BY <1>7 DEF GameCommand
    <2>2. \A i \in 1..Len(journal) : Spent(journal[i], i) => Spent(journal[i], i)'
      BY <1>l, <2>1 DEF Spent
    <2>3. ASSUME pending # 0, pending \in refused' PROVE Spent(journal[pending], pending)'
      <3>1. CASE pending \in refused BY <1>c, <1>d, <2>1, <2>2, <2>3, <3>1
      <3>2. CASE pending = pos + 1
        <4>1. pending \in 1..Len(journal) BY <1>c, <2>3
        <4>2. journal[pending].issued <= now BY <1>0, <4>1, WordFields
        <4>3. /\ pending \in refused' /\ beat'.at >= journal[pending].issued
              /\ beat'.session # 0 /\ pos' >= pending /\ gSession' # 0
          BY <1>a, <1>b, <1>l, <2>1, <2>3, <3>2, <4>1, <4>2
        <4> QED BY <2>1, <4>3 DEF Spent
      <3> QED BY <2>1, <2>3, <3>1, <3>2
    <2> QED BY <1>d, <2>1, <2>2, <2>3, StillAccounted
  <1>8. ASSUME NEW crashes \in BOOLEAN, GameEnds(crashes) PROVE Accounted(Here)'
    <2>1. /\ UNCHANGED <<now, life, mode, pending, journal, proc, granted, refused, beat, pos>>
          /\ running' = FALSE
      BY <1>8 DEF GameEnds
    <2>2. \A i \in 1..Len(journal) : Spent(journal[i], i) => Spent(journal[i], i)'
      BY <2>1 DEF Spent
    <2> QED BY <1>3, <2>1, <2>2
  <1>9. CASE Clock
    <2>1. /\ UNCHANGED <<life, mode, pending, journal, proc, granted, refused, beat, running,
                         pos, gSession>>
          /\ now' = now + 1
      BY <1>9 DEF Clock
    <2>2. ASSUME NEW i \in 1..Len(journal), Spent(journal[i], i) PROVE Spent(journal[i], i)'
      <3>1. journal[i].issued \in Nat BY <1>0, WordFields
      <3> QED BY <1>b, <1>l, <2>1, <2>2, <3>1 DEF Spent
    <2> QED BY <1>3, <2>1, <2>2
  <1>10. ~Shutdown /\ ~Crash BY DEF Shutdown, Crash
  <1> QED
    BY <1>1, <1>2, <1>4, <1>5, <1>6, <1>7, <1>8, <1>9, <1>10
    DEF Next, SidecarNext, ModNext

\* A grant stands while the journal only grows and nobody else takes over.
LEMMA GrantStands ==
    ASSUME TypeOK, GrantInv, Grown(journal'), UNCHANGED <<gSession, pos, grantor, refused>>,
           gMode' \in {gMode, OFF},
           life' = "up" /\ grantor = proc' => life = "up" /\ proc' = proc
    PROVE  GrantInv'
  <1>1. CASE gMode' = OFF BY <1>1 DEF GrantInv
  <1>2. CASE gMode' = gMode /\ gMode # OFF
    <2>0. Len(journal) \in Nat /\ pos \in 0..Len(journal) /\ Len(journal) <= Len(journal')
          /\ Len(journal') \in Nat
      BY LenProperties DEF TypeOK, Grown
    <2>1. PICK i \in 1..pos : Grants(i) BY <1>2 DEF GrantInv
    <2>2. \A k \in 1..Len(journal) : journal'[k] = journal[k] BY DEF Grown
    <2>3. i \in 1..Len(journal) BY <2>0, <2>1
    <2>4. journal'[i].kind = "arm" /\ journal'[i].proc = grantor' /\ journal'[i].session = gSession'
      BY <2>1, <2>2, <2>3 DEF Grants
    <2>5. \A j \in (i + 1)..pos' :
              ~(journal'[j].kind = "disarm" /\ journal'[j].session = gSession')
      <3>1. \A j \in (i + 1)..pos : j \in 1..Len(journal) BY <2>0, <2>3
      <3> QED BY <2>1, <2>2, <3>1 DEF Grants
    <2>6. Followed(journal, i) => Followed(journal', i)
      <3>1. ASSUME NEW j \in (i + 1)..Len(journal)
            PROVE  j \in 1..Len(journal) /\ j \in (i + 1)..Len(journal')
        BY <2>0, <2>3, <3>1
      <3> QED BY <2>2, <2>3, <3>1 DEF Followed
    <2>7. life' = "up" /\ grantor' = proc' /\ i \in refused' => Followed(journal', i)
      BY <2>1, <2>6 DEF Grants
    <2>8. Grants(i)' BY <2>4, <2>5, <2>7 DEF Grants, Followed
    <2>9. gSession' # 0 /\ i \in 1..pos' BY <1>2, <2>1 DEF GrantInv
    <2> QED BY <2>8, <2>9 DEF GrantInv
  <1>3. CASE gMode' = gMode /\ gMode = OFF BY <1>3 DEF GrantInv
  <1> QED BY <1>1, <1>2, <1>3

\* A word that the mod takes up grants, ends the grant, or changes nothing.
LEMMA CommandGrants ==
    ASSUME AccountInv, NEW unfit \in BOOLEAN, NEW heard \in BOOLEAN, GameCommand(unfit, heard)
    PROVE  GrantInv'
  <1>0. TypeOK /\ Words(journal) /\ FilesInv /\ GrantInv /\ Awaited(Here)
    BY DEF AccountInv, BaseInv, IInv
  <1>n. PICK n \in Nat : n = pos + 1
    <2>1. pos + 1 \in Nat BY <1>0, LenProperties DEF TypeOK
    <2> QED BY <2>1
  <1>w. PICK w : w = journal[n] OBVIOUS
  <1>1. /\ Len(journal) \in Nat /\ pos \in 0..Len(journal) /\ pos < Len(journal) /\ pos \in Nat
        /\ n \in 1..Len(journal) /\ n \in Nat
    BY <1>0, <1>n, LenProperties DEF TypeOK, GameCommand
  <1>2. /\ UNCHANGED <<now, life, proc, journal, gSession, mode, pending, beat>> /\ running
        /\ pos' = n
    BY <1>n DEF GameCommand, sidecar
  <1>3. refused \subseteq refused' /\ refused' \subseteq refused \cup {n} BY <1>n DEF GameCommand
  <1>4. now \in Nat /\ w.issued \in Nat /\ ArmTimeout \in Nat
    BY <1>0, <1>1, <1>w, WordFields, TimeAssumption DEF TypeOK
  <1>5. w \in Word BY <1>0, <1>1, <1>w, WordFields
  <1>6. CASE Arms(w, unfit)
    <2>1. gMode' = w.mode /\ grantor' = w.proc BY <1>6, <1>n, <1>w DEF GameCommand
    <2>2. w.kind = "arm" /\ w.session = gSession /\ gSession # 0 /\ now <= w.issued + ArmTimeout
      BY <1>6 DEF Arms, Addressed
    <2>3. n \in refused' => n \in refused BY <1>6, <1>n, <1>w DEF GameCommand
    <2>4. ASSUME life = "up", w.proc = proc, n \in refused PROVE Followed(journal, n)
      <3>1. Accounted(Here) BY <2>4 DEF AccountInv
      <3>2. ~Spent(w, n)
        <4>1. ~(now > w.issued + ArmTimeout) BY <1>4, <2>2
        <4>2. ~(pos >= n) BY <1>1, <1>n
        <4> QED BY <1>2, <4>1, <4>2, <1>w DEF Spent
      <3>3. n # pending BY <1>1, <1>w, <2>4, <3>1, <3>2 DEF Accounted, Here
      <3>4. n \notin granted BY <1>0, <2>4 DEF FilesInv
      <3> QED BY <1>1, <1>w, <2>2, <2>4, <3>1, <3>2, <3>3, <3>4 DEF Accounted, Here
    <2>5. \A j \in (n + 1)..n : FALSE BY <1>1
    <2>6. journal[n] = w BY <1>w
    <2>7. Grants(n)' BY <1>2, <2>1, <2>2, <2>3, <2>4, <2>5, <2>6 DEF Grants, Followed
    <2>8. n \in 1..pos' BY <1>1, <1>2
    <2> QED BY <1>2, <2>2, <2>7, <2>8 DEF GrantInv
  <1>7. CASE Addressed(w) /\ w.kind = "disarm"
    <2>1. gMode' = w.mode BY <1>7, <1>n, <1>w DEF GameCommand
    <2>2. w.mode = OFF BY <1>5, <1>7 DEF Word
    <2> QED BY <2>1, <2>2 DEF GrantInv
  <1>8. CASE ~Arms(w, unfit) /\ ~(Addressed(w) /\ w.kind = "disarm")
    <2>1. gMode' = gMode /\ grantor' = grantor BY <1>8, <1>n, <1>w DEF GameCommand
    <2>2. CASE gMode = OFF BY <2>1, <2>2 DEF GrantInv
    <2>3. CASE gMode # OFF
      <3>1. gSession # 0 BY <1>0, <2>3 DEF GrantInv
      <3>2. ~(w.kind = "disarm" /\ w.session = gSession) BY <1>8, <3>1 DEF Addressed
      <3>3. PICK i \in 1..pos : Grants(i) BY <1>0, <2>3 DEF GrantInv
      <3>4. i \in refused' => i \in refused BY <1>1, <1>3, <1>n, <3>3
      <3>5. \A j \in (i + 1)..n : j \in (i + 1)..pos \/ j = n BY <1>1, <1>n, <3>3
      <3>6. i \in 1..n BY <1>1, <1>n, <3>3
      <3>7. journal[n] = w BY <1>w
      <3>8. \A j \in (i + 1)..n : ~(journal[j].kind = "disarm" /\ journal[j].session = gSession)
        BY <3>2, <3>3, <3>5, <3>7 DEF Grants
      <3>9. Grants(i)' BY <1>2, <2>1, <3>3, <3>4, <3>8 DEF Grants, Followed
      <3> QED BY <1>2, <3>1, <3>6, <3>9 DEF GrantInv
    <2> QED BY <2>2, <2>3
  <1> QED BY <1>6, <1>7, <1>8

LEMMA GrantStep == AccountInv /\ [Next]_vars => GrantInv'
  <1> SUFFICES ASSUME AccountInv, [Next]_vars PROVE GrantInv' OBVIOUS
  <1>0. TypeOK /\ Words(journal) /\ FilesInv /\ GrantInv /\ BaseInv
    BY DEF AccountInv, BaseInv, IInv
  <1>1. Len(journal) \in Nat /\ grantor \in Nat /\ proc \in Nat /\ Grown(journal)
    BY <1>0, LenProperties DEF TypeOK, Grown
  <1> USE DEF sidecar, offer, acks, requests, mod
  <1>2. ASSUME Grown(journal'), UNCHANGED <<gSession, pos, grantor, refused, proc>>,
               life' = "up" => life = "up", gMode' \in {gMode, OFF}
        PROVE  GrantInv'
    BY <1>0, <1>2, GrantStands
  <1>3. CASE Attach
    <2>1. grantor # proc' BY <1>0, <1>1, <1>3 DEF Attach, FilesInv
    <2>2. Grown(journal') BY <1>1, <1>3 DEF Attach, Grown
    <2>3. UNCHANGED <<gSession, pos, grantor, refused, gMode>> BY <1>3 DEF Attach
    <2> QED BY <1>0, <2>1, <2>2, <2>3, GrantStands
  <1>4. ASSUME NEW alarm \in BOOLEAN, NEW barred \in BOOLEAN, EndTick(alarm, barred)
        PROVE  GrantInv'
    <2>1. Grown(journal') BY <1>0, <1>4, EndTickKeeps DEF BaseInv, Tick
    <2> QED BY <1>2, <1>4, <2>1 DEF EndTick
  <1>5. CASE Shutdown
    <2>1. Grown(Append(journal, DisarmWord)) BY <1>0, <1>1, AppendGrows, WordTypes
    <2>2. Grown(journal')
      <3>1. journal' \in {journal, Append(journal, DisarmWord)} BY <1>5 DEF Shutdown
      <3> QED BY <1>1, <2>1, <3>1 DEF Grown
    <2>3. UNCHANGED <<gSession, pos, grantor, refused, proc, gMode>> /\ life' # "up"
      BY <1>5 DEF Shutdown
    <2> QED BY <1>2, <2>2, <2>3
  <1>6. CASE \/ \E sees \in BOOLEAN : BeginTick(sees)
             \/ Crash \/ \E takesOver \in BOOLEAN : PlayerStops(takesOver)
             \/ UserNext \/ Clock \/ UNCHANGED vars
    <2>1. /\ UNCHANGED <<journal, gSession, pos, grantor, refused, proc>>
          /\ life' = "up" => life = "up"
          /\ gMode' \in {gMode, OFF}
      BY <1>6 DEF BeginTick, Crash, PlayerStops, UserNext, UserAsks, UserPanics, PanicFileDeleted,
                  Clock, vars
    <2>2. Grown(journal') BY <1>1, <2>1 DEF Grown
    <2> QED BY <1>2, <2>1, <2>2
  <1>7. CASE GameStart BY <1>7 DEF GameStart, GrantInv
  <1>8. CASE GameTick
    <2>1. CASE gMode' = OFF BY <2>1 DEF GrantInv
    <2>2. CASE gMode' # OFF
      <3>1. gMode' = gMode /\ gSession' = gSession BY <1>8, <2>2 DEF GameTick, ModeAfter
      <3>2. UNCHANGED <<journal, pos, grantor, refused, proc, life>> BY <1>8 DEF GameTick
      <3>3. Grown(journal') BY <1>1, <3>2 DEF Grown
      <3> QED BY <1>2, <3>1, <3>2, <3>3
    <2> QED BY <2>1, <2>2
  <1>9. ASSUME NEW unfit \in BOOLEAN, NEW heard \in BOOLEAN, GameCommand(unfit, heard)
        PROVE  GrantInv'
    BY <1>9, CommandGrants
  <1>10. ASSUME NEW crashes \in BOOLEAN, GameEnds(crashes) PROVE GrantInv'
    BY <1>10 DEF GameEnds, GrantInv
  <1> QED
    BY <1>3, <1>4, <1>5, <1>6, <1>7, <1>8, <1>9, <1>10 DEF Next, SidecarNext, ModNext

LEMMA AccountKept ==
    ASSUME ObservesAtOnce
    PROVE  AccountInv /\ [Next]_vars => AccountInv'
  BY BaseKept, AccountedStep, GrantStep DEF AccountInv

LEMMA AccountInitially == Init => AccountInv
  BY BaseInitially DEF AccountInv, GrantInv, Init

\* What a sidecar gave up, or asked for and never got, the game does not keep,
\* for any number of processes, games, requests and modes, however the ack, the
\* deadline, the disarm and the heartbeats raced, as long as an observation is
\* stored before the first tick: a silent game then costs the process its arm
\* with a countermand (_apply_events), and not without one (_watch_pending_arm).
THEOREM GivenUpIsWithdrawn == ObservesAtOnce => (Spec => []AuthorityWithdrawn)
  <1> SUFFICES ASSUME ObservesAtOnce PROVE Spec => []AuthorityWithdrawn OBVIOUS
  <1>1. AccountInv => AuthorityWithdrawn
    <2> SUFFICES ASSUME AccountInv, life = "up", mode = OBSERVE, pending = 0, StillGranted
                 PROVE  FALSE
      BY DEF AuthorityWithdrawn
    <2>0. TypeOK /\ Words(journal) BY DEF AccountInv, BaseInv, IInv
    <2>1. PICK i \in 1..pos : Grants(i) BY DEF AccountInv, GrantInv, StillGranted
    <2>2. pos = Len(journal) /\ grantor = proc /\ Len(journal) \in Nat
      BY <2>0, LenProperties DEF StillGranted, TypeOK
    <2>3. i \in 1..Len(journal) /\ journal[i].kind = "arm" /\ journal[i].proc = proc
      BY <2>1, <2>2 DEF Grants
    <2>4. Followed(journal, i) \/ Spent(journal[i], i)
      BY <2>2, <2>3 DEF AccountInv, Accounted, Here
    <2>5. Followed(journal, i) BY <2>1, <2>2, <2>4 DEF Spent, Grants
    <2>6. PICK j \in (i + 1)..Len(journal) : journal[j].kind = "disarm" /\ journal[j].proc = proc
      BY <2>3, <2>5 DEF Followed
    <2>7. j \in 1..Len(journal) BY <2>2, <2>3, <2>6
    <2>8. journal[j].session = gSession BY <2>0, <2>1, <2>3, <2>6, <2>7 DEF Words, Grants
    <2> QED BY <2>1, <2>2, <2>6, <2>8 DEF Grants
  <1>2. AccountInv /\ [Next]_vars => AccountInv' BY AccountKept
  <1> QED BY <1>1, <1>2, AccountInitially, PTL DEF Spec

-----------------------------------------------------------------------------
(* What the sidecar holds, the game holds.                                 *)

\* A game that granted the last word, an arm of this process, is where it put it.
Upheld(js) ==
    /\ Len(js) \in granted /\ js[Len(js)].kind = "arm" /\ js[Len(js)].proc = proc
    /\ running /\ ~PanicEngaged
    => gMode = js[Len(js)].mode /\ gSession = session /\ pos = Len(js)

Stands(st) ==
    /\ st.mode # OBSERVE => games > 0
    /\ st.mode # OBSERVE \/ st.pending # 0 => Upheld(st.journal)

StandInv == BaseInv /\ Stands(Here)

OneMode == \A m, n \in Mode : m = n

\* With one mode to arm into, an armed process asks for nothing more: the arm
\* that it holds is the last word.
Held(st) ==
    st.mode # OBSERVE =>
        /\ st.pending = 0 /\ Len(st.journal) \in granted
        /\ st.journal[Len(st.journal)].kind = "arm" /\ st.journal[Len(st.journal)].proc = proc
        /\ st.journal[Len(st.journal)].mode = st.mode

LEMMA MoveStands ==
    ASSUME BaseInv, NEW st, Tick(st), Words(st.journal), Awaited(st), NEW t, Moves(st, t)
    PROVE  /\ Stands(st) => Stands(t)
           /\ OneMode /\ Held(st) => Held(t)
  <1>0. TypeOK BY DEF BaseInv, IInv
  <1>1. Grown(st.journal) /\ Len(st.journal) \in Nat /\ Len(journal) \in Nat
        /\ Len(journal) <= Len(st.journal)
    BY <1>0, LenProperties DEF Tick, Grown, TypeOK
  <1>2. Upheld(Append(st.journal, DisarmWord))
    <2>1. DisarmWord \in Word /\ DisarmWord.kind = "disarm" BY <1>0, WordTypes DEF DisarmWord
    <2> DEFINE js == Append(st.journal, DisarmWord)
    <2>2. js[Len(js)] = DisarmWord BY <1>0, <1>1, <2>1, AppendGrows
    <2> QED BY <2>1, <2>2 DEF Upheld
  <1>3. CASE t.mode = st.mode /\ t.pending = st.pending /\ t.journal = st.journal
    BY <1>3 DEF Stands, Held
  <1>4. CASE t.mode = OBSERVE /\ t.pending = 0
    BY <1>4 DEF Stands, Held
  <1>5. CASE /\ st.pending # 0 /\ t.pending = 0 /\ t.mode = st.mode
             /\ t.journal \in {st.journal, Append(st.journal, DisarmWord)}
    BY <1>2, <1>5 DEF Stands, Held
  <1>6. CASE /\ st.pending # 0 /\ t.pending = 0 /\ st.pending \in granted
             /\ t.mode = st.journal[st.pending].mode /\ t.journal = st.journal
    <2>1. st.pending = Len(st.journal) /\ st.journal[st.pending].proc = proc /\ games > 0
      BY <1>6 DEF Awaited
    <2>2. st.journal[st.pending].kind = "arm" BY <1>6 DEF Tick
    <2> QED BY <1>6, <2>1, <2>2 DEF Stands, Held
  <1>7. CASE /\ st.pending = 0 /\ t.pending = Len(st.journal) + 1 /\ t.mode = st.mode
             /\ st.mode # control.mode /\ control.mode \in Mode
             /\ t.journal = Append(st.journal, ArmWord(control.mode))
    <2>1. ArmWord(control.mode) \in Word BY <1>0, <1>7, WordTypes
    <2>2. Len(t.journal) = Len(st.journal) + 1 BY <1>0, <1>1, <1>7, <2>1, AppendGrows
    <2>3. Len(t.journal) \notin granted BY <1>0, <1>1, <2>2 DEF TypeOK
    <2>4. Stands(st) => Stands(t) BY <1>7, <2>3 DEF Stands, Upheld
    <2>5. st.mode \in Mode \cup {OBSERVE} BY DEF Tick
    <2>6. OneMode => st.mode = OBSERVE BY <1>7, <2>5 DEF OneMode
    <2> QED BY <1>7, <2>4, <2>6 DEF Held
  <1> QED BY <1>3, <1>4, <1>5, <1>6, <1>7 DEF Moves

LEMMA EndTickStands ==
    ASSUME BaseInv, NEW alarm \in BOOLEAN, NEW barred \in BOOLEAN, EndTick(alarm, barred)
    PROVE  /\ Stands(Here) => Stands(Here)'
           /\ OneMode /\ Held(Here) => Held(Here)'
  <1>1. PICK st1, st2, st3 :
              /\ Moves(Here, st1) /\ Moves(st1, st2) /\ Moves(st2, st3)
              /\ Tick(Here) /\ Tick(st1) /\ Tick(st2) /\ Tick(st3)
              /\ Words(Here.journal) /\ Words(st1.journal) /\ Words(st2.journal)
              /\ Words(st3.journal)
              /\ Awaited(Here) /\ Awaited(st1) /\ Awaited(st2) /\ Awaited(st3)
              /\ st3.mode = mode' /\ st3.pending = pending' /\ st3.journal = journal'
    BY EndTickMoves
  <1>2. /\ Stands(Here) => Stands(st1)
        /\ OneMode /\ Held(Here) => Held(st1)
    BY <1>1, MoveStands
  <1>3. /\ Stands(st1) => Stands(st2)
        /\ OneMode /\ Held(st1) => Held(st2)
    BY <1>1, MoveStands
  <1>4. /\ Stands(st2) => Stands(st3)
        /\ OneMode /\ Held(st2) => Held(st3)
    BY <1>1, MoveStands
  <1>5. UNCHANGED <<proc, session, granted, games, running, gMode, gSession, pos, panicFile>>
    BY DEF EndTick, acks, mod, offer
  <1>6. /\ Here'.mode = st3.mode /\ Here'.pending = st3.pending /\ Here'.journal = st3.journal
    BY <1>1 DEF Here
  <1>7. Stands(st3) => Stands(Here)' BY <1>5, <1>6 DEF Stands, Upheld, PanicEngaged
  <1>8. Held(st3) => Held(Here)' BY <1>5, <1>6 DEF Held
  <1> QED BY <1>2, <1>3, <1>4, <1>7, <1>8

LEMMA StandStep == StandInv /\ [Next]_vars => Stands(Here)'
  <1> SUFFICES ASSUME StandInv, [Next]_vars PROVE Stands(Here)' OBVIOUS
  <1>0. BaseInv /\ TypeOK /\ Words(journal) /\ FilesInv /\ Awaited(Here) /\ Stands(Here)
    BY DEF StandInv, BaseInv, IInv
  <1>1. Len(journal) \in Nat /\ pos \in 0..Len(journal) /\ games \in Nat
    BY <1>0, LenProperties DEF TypeOK
  <1>2. Here.mode = mode /\ Here.pending = pending /\ Here.journal = journal BY DEF Here
  <1>3. /\ mode # OBSERVE => games > 0
        /\ mode # OBSERVE \/ pending # 0 => Upheld(journal)
    BY <1>0, <1>2 DEF Stands
  <1>4. pending # 0 => games > 0 BY <1>0, <1>2 DEF Awaited
  <1> USE DEF sidecar, offer, acks, requests, mod
  <1>5. ASSUME mode' = OBSERVE, pending' = 0 PROVE Stands(Here)' BY <1>5 DEF Stands, Here
  <1>6. ASSUME UNCHANGED <<mode, pending, journal>>, games' >= games,
               mode # OBSERVE \/ pending # 0 => Upheld(journal)'
        PROVE  Stands(Here)'
    <2>1. games' > 0 \/ mode = OBSERVE
      <3>1. games' \in Nat BY <1>0, StepIInv DEF BaseInv, IInv, TypeOK
      <3> QED BY <1>1, <1>3, <1>6, <3>1
    <2> QED BY <1>6, <2>1 DEF Stands, Here
  <1>7. CASE Attach \/ Shutdown \/ Crash \/ PanicFileDeleted
    <2>1. mode' = OBSERVE /\ pending' = 0
      BY <1>7 DEF Attach, Shutdown, Crash, PanicFileDeleted
    <2> QED BY <1>5, <2>1
  <1>8. CASE \/ \E sees \in BOOLEAN : BeginTick(sees)
             \/ \E kind \in {"arm", "disarm"}, m \in Mode \cup {OFF} : UserAsks(kind, m)
             \/ Clock \/ UNCHANGED vars
    <2>1. UNCHANGED <<mode, pending, journal, games, proc, session, granted, running, gMode,
                      gSession, pos, panicFile>>
      BY <1>8 DEF BeginTick, UserAsks, Clock, vars
    <2>2. Upheld(journal)' <=> Upheld(journal) BY <2>1 DEF Upheld, PanicEngaged
    <2> QED BY <1>1, <1>3, <1>6, <2>1, <2>2
  <1>9. ASSUME NEW alarm \in BOOLEAN, NEW barred \in BOOLEAN, EndTick(alarm, barred)
        PROVE  Stands(Here)'
    BY <1>0, <1>9, EndTickStands
  <1>10. CASE GameStart
    <2>1. games = 0 \/ (mode = OBSERVE /\ pending = 0) BY <1>1, <1>10 DEF GameStart
    <2>2. mode' = OBSERVE /\ pending' = 0 BY <1>1, <1>3, <1>4, <1>10, <2>1 DEF GameStart
    <2> QED BY <1>5, <2>2
  <1>11. CASE GameTick
    <2>1. UNCHANGED <<mode, pending, journal, games, proc, session, granted, running, pos>>
      BY <1>11 DEF GameTick
    <2>2. ASSUME Upheld(journal) PROVE Upheld(journal)'
      <3> SUFFICES ASSUME Len(journal) \in granted, journal[Len(journal)].kind = "arm",
                          journal[Len(journal)].proc = proc, running, ~PanicEngaged'
                   PROVE  gMode' = journal[Len(journal)].mode /\ gSession' = session
                          /\ pos = Len(journal)
        BY <2>1 DEF Upheld
      <3>1. panicFile = "absent" BY <1>11 DEF GameTick, PanicEngaged
      <3>2. gMode = journal[Len(journal)].mode /\ gSession = session /\ pos = Len(journal)
        BY <2>2, <3>1 DEF Upheld, PanicEngaged
      <3>3. gSession' = gSession /\ gMode' = gMode
        BY <1>11, <3>1, <3>2 DEF GameTick, ModeAfter, Opens
      <3> QED BY <3>2, <3>3
    <2> QED BY <1>1, <1>3, <1>6, <2>1, <2>2
  <1>12. ASSUME NEW unfit \in BOOLEAN, NEW heard \in BOOLEAN, GameCommand(unfit, heard)
         PROVE  Stands(Here)'
    <2>0. UNCHANGED <<mode, pending, journal, games, proc, session, running, panicFile, gSession>>
      BY <1>12 DEF GameCommand
    <2>1. ASSUME Upheld(journal) PROVE Upheld(journal)'
      <3> SUFFICES ASSUME Len(journal) \in granted', journal[Len(journal)].kind = "arm",
                          journal[Len(journal)].proc = proc, running, ~PanicEngaged
                   PROVE  gMode' = journal[Len(journal)].mode /\ gSession = session
                          /\ pos' = Len(journal)
        BY <2>0 DEF Upheld, PanicEngaged
      <3>1. pos' = pos + 1 /\ pos < Len(journal) BY <1>12 DEF GameCommand
      <3>2. Len(journal) \notin granted BY <1>1, <2>1, <3>1 DEF Upheld
      <3>3. pos + 1 = Len(journal) BY <1>12, <3>2 DEF GameCommand
      <3>4. Arms(journal[Len(journal)], unfit) /\ gMode' = journal[Len(journal)].mode
        BY <1>12, <3>2, <3>3 DEF GameCommand
      <3>5. journal[Len(journal)].session = gSession BY <3>4 DEF Arms, Addressed
      <3>6. Len(journal) \in 1..Len(journal) BY <1>1, <3>3
      <3>7. journal[Len(journal)].session = session BY <1>0, <3>6 DEF Words
      <3> QED BY <3>1, <3>3, <3>4, <3>5, <3>7
    <2> QED BY <1>1, <1>3, <1>6, <2>0, <2>1
  <1>13. CASE \/ \E takesOver \in BOOLEAN : PlayerStops(takesOver)
              \/ \E crashes \in BOOLEAN : GameEnds(crashes)
              \/ UserPanics
    <2>1. UNCHANGED <<mode, pending, journal, games>> /\ (PanicEngaged' \/ ~running')
      BY <1>13 DEF PlayerStops, GameEnds, UserPanics, PanicEngaged
    <2>2. Upheld(journal)' BY <2>1 DEF Upheld
    <2> QED BY <1>1, <1>6, <2>1, <2>2
  <1> QED
    BY <1>7, <1>8, <1>9, <1>10, <1>11, <1>12, <1>13
    DEF Next, SidecarNext, ModNext, UserNext

LEMMA HeldStep == OneMode /\ BaseInv /\ Held(Here) /\ [Next]_vars => Held(Here)'
  <1> SUFFICES ASSUME OneMode, BaseInv, Held(Here), [Next]_vars PROVE Held(Here)' OBVIOUS
  <1>1. ASSUME NEW alarm \in BOOLEAN, NEW barred \in BOOLEAN, EndTick(alarm, barred)
        PROVE  Held(Here)'
    BY <1>1, EndTickStands
  <1>2. CASE Attach \/ Shutdown \/ Crash
    <2>1. mode' = OBSERVE BY <1>2 DEF Attach, Shutdown, Crash
    <2> QED BY <2>1 DEF Held, Here
  <1>3. CASE \/ \E sees \in BOOLEAN : BeginTick(sees)
             \/ ModNext \/ UserNext \/ Clock \/ UNCHANGED vars
    <2>1. UNCHANGED <<mode, pending, journal, proc>> /\ granted \subseteq granted'
      BY <1>3 DEF BeginTick, ModNext, GameStart, GameTick, GameCommand, PlayerStops, GameEnds,
                  UserNext, UserAsks, UserPanics, PanicFileDeleted, Clock, vars, sidecar, acks
    <2> QED BY <2>1 DEF Held, Here
  <1> QED BY <1>1, <1>2, <1>3 DEF Next, SidecarNext

\* While a sidecar is armed or waits for its arm, and nobody raised a panic, a
\* game that granted its last word is in the mode of that word, in its session,
\* and has read nothing after it, for any number of modes.
GrantedWordStands ==
    /\ life = "up" /\ (mode # OBSERVE \/ pending # 0)
    /\ Len(journal) \in granted
    /\ journal[Len(journal)].kind = "arm" /\ journal[Len(journal)].proc = proc
    /\ running /\ ~PanicEngaged
    => gMode = journal[Len(journal)].mode /\ gSession = session /\ pos = Len(journal)

LEMMA StandKept == StandInv /\ [Next]_vars => StandInv'
  BY BaseKept, StandStep DEF StandInv

LEMMA StandInitially == Init => StandInv /\ Held(Here)
  BY BaseInitially DEF StandInv, Stands, Held, Here, Init

\* No swap, takeover, reload, resumed session or late word takes from a sidecar
\* the arm that it holds or waits for, once granted, and leaves it in the belief.
THEOREM GrantedArmStands == Spec => []GrantedWordStands
  <1>1. StandInv => GrantedWordStands
    BY DEF StandInv, Stands, Upheld, GrantedWordStands, Here
  <1> QED BY <1>1, StandInitially, StandKept, PTL DEF Spec

\* An armed sidecar and the game agree on the mode, whatever the number of
\* processes, games and requests, when there is one mode to arm into: an arm into
\* a second one may be countermanded, and the sidecar goes on in the first.
THEOREM SidesAgree == OneMode => (Spec => []ArmedTogether)
  <1> SUFFICES ASSUME OneMode PROVE Spec => []ArmedTogether OBVIOUS
  <1> DEFINE Inv == StandInv /\ Held(Here)
  <1>1. Inv => ArmedTogether
    BY DEF StandInv, Stands, Upheld, Held, ArmedTogether, Here
  <1>2. Inv /\ [Next]_vars => Inv'
    <2>1. StandInv => BaseInv BY DEF StandInv
    <2> QED BY <2>1, StandKept, HeldStep
  <1>3. Init => Inv BY StandInitially
  <1> HIDE DEF Inv
  <1> QED BY <1>1, <1>2, <1>3, PTL DEF Spec
=============================================================================
