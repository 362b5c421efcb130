----------------------------- MODULE DispatchProofs -----------------------------
(***************************************************************************)
(* What is proved about Dispatch, for every set of commands and every      *)
(* timer: the types, and that the engine leaves no command behind.         *)
(***************************************************************************)
EXTENDS Dispatch, TLAPS

\* Commands the mod has yet to answer are not among those it has answered; the
\* one the engine watches has an id, and is answered once success was claimed.
ApartInv ==
    /\ mod \cap acks = {}
    /\ eng.at \in {"wait", "judge"} => eng.cmd \in Cmd
    /\ eng.claimed => eng.at \in {"wait", "judge"} /\ eng.cmd \notin mod

DInv == TypeOK /\ NoneLeftBehind /\ ApartInv

\* The conjuncts of TypeOK one by one.
Facts == /\ armed \in BOOLEAN /\ panic \in BOOLEAN /\ uneasy \in BOOLEAN /\ held \in BOOLEAN
         /\ slot \in Cmd \cup {NoCmd} /\ age \in 0..Patience + 1
         /\ aside \in 0..Patience + 1 \cup {NoAside}
         /\ mod \subseteq Cmd /\ acks \subseteq Cmd /\ excused \subseteq Cmd
         /\ pc \in {"idle", "serve", "act"} /\ eng \in Engine
         /\ eng.at # "off" => pc # "idle" /\ armed

LEMMA TypesAreFacts == TypeOK <=> Facts
  <1>1. {armed, panic, uneasy, held} \subseteq BOOLEAN <=>
          armed \in BOOLEAN /\ panic \in BOOLEAN /\ uneasy \in BOOLEAN /\ held \in BOOLEAN
    BY Zenon
  <1>2. {mod, acks, excused} \subseteq SUBSET Cmd <=>
          mod \subseteq Cmd /\ acks \subseteq Cmd /\ excused \subseteq Cmd
    OBVIOUS
  <1> QED BY <1>1, <1>2, Zenon DEF TypeOK, Facts

LEMMA FactsThen == Facts' => TypeOK'
  <1>1. (TypeOK <=> Facts)' BY TypesAreFacts, PTL
  <1> QED BY <1>1

\* The id that is given out is one that nobody knows.
LEMMA NextIdIsNew == HasId => NextId \in Cmd /\ ~Known(NextId)
  BY DEF HasId, NextId

\* What an attempt that is over leaves: nothing, or the next one at its start.
Rested(e) == e.at \in {"off", "fresh"} /\ ~e.claimed

LEMMA OffIsEngine == Off \in Engine /\ Rested(Off)
  BY DispatchAssumption DEF Off, Engine, Rested, NoCmd

LEMMA EndAttemptLeaves ==
    ASSUME Facts, NEW b \in BOOLEAN, EndAttempt(b), eng.at # "off"
    PROVE  /\ eng' \in Engine /\ Rested(eng')
           /\ pc' \in {"idle", "serve", "act"}
           /\ eng'.at # "off" => pc' # "idle"
  <1>1. eng \in Engine /\ pc \in {"serve", "act"} BY DEF Facts
  <1>2. CASE eng.attempt < Attempts
             /\ eng' = [Off EXCEPT !.at = "fresh", !.attempt = eng.attempt + 1, !.cmd = eng.cmd]
             /\ UNCHANGED pc
    <2>1. eng.attempt + 1 \in 0..Attempts BY <1>1, <1>2, DispatchAssumption DEF Engine
    <2> QED BY <1>1, <1>2, <2>1, OffIsEngine, DispatchAssumption DEF Engine, Off, Rested
  <1>3. CASE eng' = Off /\ pc' = After
    BY <1>1, <1>3, OffIsEngine DEF After, Off
  <1> QED BY <1>2, <1>3 DEF EndAttempt

LEMMA InitHolds == Init => DInv
  <1> SUFFICES ASSUME Init PROVE DInv OBVIOUS
  <1>1. armed \in BOOLEAN /\ panic \in BOOLEAN /\ uneasy \in BOOLEAN /\ held \in BOOLEAN
    BY Zenon DEF Init
  <1>2. slot \in Cmd \cup {NoCmd} /\ age \in 0..Patience + 1
        /\ aside \in 0..Patience + 1 \cup {NoAside}
    BY DispatchAssumption DEF Init
  <1>3. eng \in Engine /\ eng.at = "off" /\ ~eng.claimed
    BY OffIsEngine DEF Init, Off
  <1>4. Facts BY <1>1, <1>2, <1>3, Zenon DEF Init, Facts
  <1> QED BY <1>3, <1>4, TypesAreFacts DEF Init, DInv, NoneLeftBehind, ApartInv

\* Another aside, and commands that grow old.
LEMMA AsideTypes ==
    Facts => /\ ShipAside => aside' \in 0..Patience + 1 \cup {NoAside}
             /\ \A a \in 0..Patience + 1 : Older(a) \in 0..Patience + 1
  BY DispatchAssumption DEF Facts, ShipAside, Older, Smaller, NoAside

LEMMA BeginTickKeeps == DInv /\ BeginTick => DInv'
  <1> SUFFICES ASSUME DInv, BeginTick PROVE DInv' OBVIOUS
  <1>1. Facts BY TypesAreFacts DEF DInv
  <1>2. eng.at = "off" BY <1>1 DEF Facts, BeginTick, Engine
  <1>3. armed' \in BOOLEAN /\ held' \in BOOLEAN
    BY <1>1, Zenon DEF Facts, BeginTick, GuardSpeaks
  <1>4. slot' \in Cmd \cup {NoCmd} BY <1>1 DEF Facts, BeginTick, SlotDrained
  <1>5. aside' \in 0..Patience + 1 \cup {NoAside} BY <1>1, AsideTypes DEF BeginTick, Facts
  <1>6. Facts' BY <1>1, <1>2, <1>3, <1>4, <1>5 DEF Facts, BeginTick
  <1>7. NoneLeftBehind' BY DEF DInv, BeginTick, NoneLeftBehind, Driving
  <1>8. ApartInv' BY DEF DInv, BeginTick, ApartInv
  <1> QED BY <1>6, <1>7, <1>8, FactsThen DEF DInv

LEMMA DeclineKeeps == DInv /\ Decline => DInv'
  <1> SUFFICES ASSUME DInv, Decline PROVE DInv' OBVIOUS
  <1>1. Facts BY TypesAreFacts DEF DInv
  <1>2. Facts' BY <1>1 DEF Facts, Decline, After, around, queue
  <1> QED BY <1>2, FactsThen
          DEF DInv, Decline, around, queue, NoneLeftBehind, Driving, ApartInv

LEMMA StartKeeps == DInv /\ Start => DInv'
  <1> SUFFICES ASSUME DInv, Start PROVE DInv' OBVIOUS
  <1>1. Facts BY TypesAreFacts DEF DInv
  <1>2. eng' \in Engine /\ Rested(eng')
    <2>1. 1 \in 0..Attempts BY DispatchAssumption
    <2>2. eng' = [Off EXCEPT !.at = "fresh", !.attempt = 1] BY DEF Start
    <2> QED BY <2>1, <2>2, OffIsEngine DEF Engine, Off, Rested
  <1>3. Facts' BY <1>1, <1>2 DEF Facts, Start, around, queue
  <1>4. NoneLeftBehind' BY DEF DInv, Start, NoneLeftBehind, Driving, queue
  <1>5. ApartInv' BY <1>2 DEF DInv, Start, ApartInv, queue, Rested
  <1> QED BY <1>3, <1>4, <1>5, FactsThen DEF DInv

\* An attempt that ends before it has sent anything.
LEMMA UnsentKeeps ==
    ASSUME DInv, eng.at = "fresh", NEW b \in BOOLEAN, EndAttempt(b),
           UNCHANGED <<around, queue, held, excused>>
    PROVE  DInv'
  <1>1. Facts BY TypesAreFacts DEF DInv
  <1>2. Facts' BY <1>1, EndAttemptLeaves DEF Facts, around, queue
  <1>3. Rested(eng') BY <1>1, EndAttemptLeaves
  <1>4. NoneLeftBehind' BY DEF DInv, NoneLeftBehind, Driving, queue
  <1>5. ApartInv' BY <1>3 DEF DInv, ApartInv, queue, Rested
  <1> QED BY <1>2, <1>4, <1>5, FactsThen DEF DInv

LEMMA SendKeeps == DInv /\ Send => DInv'
  <1> SUFFICES ASSUME DInv, Send PROVE DInv' OBVIOUS
  <1>1. Facts BY TypesAreFacts DEF DInv
  <1>2. NextId \in Cmd /\ ~Known(NextId) BY NextIdIsNew DEF Send
  <1>3. eng' \in Engine /\ eng'.at = "wait" /\ eng'.cmd = NextId /\ eng'.claimed = eng.claimed
    <2>1. Timeout \in 0..Timeout /\ NoProgress \in 0..NoProgress /\ Polls \in 0..Polls
      BY DispatchAssumption
    <2>2. eng' = [eng EXCEPT !.at = "wait", !.cmd = NextId, !.left = Timeout,
                             !.stuck = NoProgress, !.polls = Polls]
      BY DEF Send
    <2>3. eng \in Engine BY <1>1 DEF Facts
    <2> QED BY <1>2, <2>1, <2>2, <2>3 DEF Engine
  <1>4. Facts' BY <1>1, <1>2, <1>3, DispatchAssumption DEF Facts, Send, around
  <1>5. ~eng.claimed BY DEF DInv, ApartInv, Send
  <1>6. NoneLeftBehind' BY <1>3 DEF DInv, Send, NoneLeftBehind, Driving
  <1>7. ApartInv' BY <1>2, <1>3, <1>5 DEF DInv, Send, ApartInv, Known
  <1> QED BY <1>4, <1>6, <1>7, FactsThen DEF DInv

LEMMA PollKeeps == DInv /\ Poll => DInv'
  <1> SUFFICES ASSUME DInv, Poll PROVE DInv' OBVIOUS
  <1>1. Facts BY TypesAreFacts DEF DInv
  <1>2. eng' \in Engine /\ eng'.at = "judge" /\ eng'.cmd = eng.cmd /\ eng'.claimed = eng.claimed
    <2>1. eng \in Engine BY <1>1 DEF Facts
    <2>2. eng.polls - 1 \in 0..Polls BY <2>1, DispatchAssumption DEF Poll, InBudget, Engine
    <2>3. eng' = [eng EXCEPT !.at = "judge", !.polls = eng.polls - 1] BY DEF Poll, PollsLeft
    <2> QED BY <2>1, <2>2, <2>3 DEF Engine
  <1>3. Facts' BY <1>1, <1>2 DEF Facts, Poll, around, queue
  <1>4. NoneLeftBehind' BY <1>2 DEF DInv, Poll, NoneLeftBehind, Driving, queue
  <1>5. ApartInv' BY <1>2 DEF DInv, Poll, ApartInv, queue
  <1> QED BY <1>3, <1>4, <1>5, FactsThen DEF DInv

\* The engine gives its command up: it withdraws it, or has heard its end.
LEMMA GivesUpKeeps ==
    ASSUME DInv, eng.at \in {"wait", "judge"}, NEW b \in BOOLEAN, EndAttempt(b),
           mod' = mod, acks' \subseteq acks, UNCHANGED <<around, age, held>>,
           slot' \in Cmd \cup {NoCmd}, aside' \in 0..Patience + 1 \cup {NoAside},
           excused' \subseteq Cmd, excused \cap mod \subseteq excused',
           eng.cmd \in mod => eng.cmd \in excused'
    PROVE  DInv'
  <1>1. Facts BY TypesAreFacts DEF DInv
  <1>2. Facts' BY <1>1, EndAttemptLeaves DEF Facts, around
  <1>3. Rested(eng') BY <1>1, EndAttemptLeaves
  <1>4. NoneLeftBehind' BY DEF DInv, NoneLeftBehind, Driving
  <1>5. ApartInv' BY <1>3 DEF DInv, ApartInv, Rested
  <1> QED BY <1>2, <1>4, <1>5, FactsThen DEF DInv

LEMMA BudgetSpentKeeps == DInv /\ BudgetSpent => DInv'
  <1> SUFFICES ASSUME DInv, BudgetSpent PROVE DInv' OBVIOUS
  <1>1. Facts BY TypesAreFacts DEF DInv
  <1>2. PICK b \in BOOLEAN : EndAttempt(b)
    <2>1. (~eng.claimed) \in BOOLEAN BY Zenon
    <2> QED BY <2>1 DEF BudgetSpent
  <1>3. slot' \in Cmd \cup {NoCmd} /\ acks' \subseteq acks /\ mod' = mod
        /\ UNCHANGED <<around, age, held>>
    BY <1>1 DEF Facts, BudgetSpent
  <1>4. eng.at \in {"wait", "judge"} BY DEF BudgetSpent
  <1>5. CASE eng.claimed /\ UNCHANGED <<aside, excused>>
    <2>1. eng.cmd \notin mod BY <1>5 DEF DInv, ApartInv
    <2>2. aside' \in 0..Patience + 1 \cup {NoAside} /\ excused' \subseteq Cmd
      BY <1>1, <1>5 DEF Facts
    <2> QED BY <1>2, <1>3, <1>4, <1>5, <2>1, <2>2, GivesUpKeeps
  <1>6. CASE Withdraw
    <2>1. aside' \in 0..Patience + 1 \cup {NoAside} BY <1>1, <1>6, AsideTypes DEF Withdraw
    <2>2. excused' = (excused \cup {eng.cmd}) \cap mod BY <1>6 DEF Withdraw
    <2>3. excused' \subseteq Cmd /\ excused \cap mod \subseteq excused'
          /\ (eng.cmd \in mod => eng.cmd \in excused')
      BY <1>1, <2>2 DEF Facts
    <2> QED BY <1>2, <1>3, <1>4, <2>1, <2>3, GivesUpKeeps
  <1> QED BY <1>5, <1>6, Zenon DEF BudgetSpent, MustWithdraw

\* The engine waits on: it watches the same command, and has not heard of more
\* than it did, unless that command is answered.
LEMMA WaitsOnKeeps ==
    ASSUME DInv, eng.at \in {"wait", "judge"}, eng' \in Engine, eng'.at = "wait",
           eng'.cmd = eng.cmd, eng'.claimed => eng.cmd \notin mod,
           mod' = mod, acks' \subseteq acks, UNCHANGED <<around, age, held, pc, excused>>,
           slot' \in Cmd \cup {NoCmd}, aside' \in 0..Patience + 1 \cup {NoAside}
    PROVE  DInv'
  <1>1. Facts BY TypesAreFacts DEF DInv
  <1>2. Facts' BY <1>1 DEF Facts, around
  <1>3. NoneLeftBehind' BY DEF DInv, NoneLeftBehind, Driving
  <1>4. ApartInv' BY DEF DInv, ApartInv
  <1> QED BY <1>2, <1>3, <1>4, FactsThen DEF DInv

\* Timers that run stay within theirs.
LEMMA RunTypes ==
    ASSUME NEW top \in Nat, NEW timer \in 0..top, NEW d \in 0..1, NEW paused \in BOOLEAN
    PROVE  Run(timer, d, paused) \in 0..top
  BY DEF Run

\* An answer the engine hears is the end of its command.
LEMMA AnswersEnd ==
    ASSUME DInv, eng.at \in {"wait", "judge"}, "failed" \in Answer \/ "succeeded" \in Answer
    PROVE  eng.cmd \notin mod
  <1>1. CASE eng.claimed BY <1>1 DEF DInv, ApartInv
  <1>2. CASE ~eng.claimed
    <2>1. eng.cmd \in acks BY <1>2 DEF Answer
    <2> QED BY <2>1 DEF DInv, ApartInv
  <1> QED BY <1>1, <1>2

LEMMA JudgeKeeps == DInv /\ Judge => DInv'
  <1> SUFFICES ASSUME DInv, Judge PROVE DInv' OBVIOUS
  <1>1. Facts BY TypesAreFacts DEF DInv
  <1>2. eng \in Engine BY <1>1 DEF Facts
  <1>3. slot' \in Cmd \cup {NoCmd} /\ acks' \subseteq acks /\ mod' = mod
        /\ UNCHANGED <<around, age, held>>
    BY <1>1 DEF Facts, Judge, HearAcks, SlotDrained
  <1>4. eng.at \in {"wait", "judge"} BY DEF Judge
  <1>5. Withdraw => /\ aside' \in 0..Patience + 1 \cup {NoAside}
                    /\ excused' \subseteq Cmd /\ excused \cap mod \subseteq excused'
                    /\ eng.cmd \in mod => eng.cmd \in excused'
    BY <1>1, AsideTypes DEF Withdraw, Facts
  <1>6. UNCHANGED aside => aside' \in 0..Patience + 1 \cup {NoAside} BY <1>1 DEF Facts
  <1>7. UNCHANGED excused => excused' \subseteq Cmd /\ excused \cap mod \subseteq excused'
    BY <1>1 DEF Facts
  <1>8. CASE JudgeAbort
    <2>1. PICK busy \in BOOLEAN : EndAttempt(busy) BY <1>8 DEF JudgeAbort
    <2>2. Withdraw BY <1>8 DEF JudgeAbort
    <2> QED BY <1>3, <1>4, <1>5, <2>1, <2>2, GivesUpKeeps
  <1>9. CASE JudgeRaise
    <2>1. EndAttempt(FALSE) /\ Withdraw BY <1>9 DEF JudgeRaise
    <2> QED BY <1>3, <1>4, <1>5, <2>1, GivesUpKeeps
  <1>10. CASE JudgeSuccess
    <2>1. EndAttempt(FALSE) /\ UNCHANGED aside /\ excused' = (excused \cup {eng.cmd}) \cap mod
      BY <1>10 DEF JudgeSuccess
    <2>2. excused' \subseteq Cmd /\ excused \cap mod \subseteq excused'
          /\ (eng.cmd \in mod => eng.cmd \in excused')
      BY <1>1, <2>1 DEF Facts
    <2> QED BY <1>3, <1>4, <1>6, <2>1, <2>2, GivesUpKeeps
  <1>11. CASE JudgeFailure
    <2>1. PICK b \in BOOLEAN : EndAttempt(b) BY <1>11 DEF JudgeFailure
    <2>2. eng.cmd \notin mod BY <1>4, <1>11, AnswersEnd DEF JudgeFailure
    <2>3. UNCHANGED <<aside, excused>> BY <1>11 DEF JudgeFailure
    <2> QED BY <1>3, <1>4, <1>6, <1>7, <2>1, <2>2, <2>3, GivesUpKeeps
  <1>12. CASE JudgeClaim
    <2>1. PICK d \in 0..1, paused \in BOOLEAN :
            eng' = [eng EXCEPT !.at = "wait", !.claimed = TRUE, !.stuck = 0,
                               !.left = Smaller(Run(eng.left, d, paused), Grace)]
      BY <1>12 DEF JudgeClaim
    <2>2. Run(eng.left, d, paused) \in 0..Timeout
      BY <1>2, RunTypes, DispatchAssumption DEF Engine
    <2>3. Smaller(Run(eng.left, d, paused), Grace) \in 0..Timeout /\ 0 \in 0..NoProgress
      BY <2>2, DispatchAssumption DEF Smaller
    <2>4. eng' \in Engine /\ eng'.at = "wait" /\ eng'.cmd = eng.cmd
      BY <1>2, <2>1, <2>3 DEF Engine
    <2>5. eng.cmd \notin mod BY <1>4, <1>12, AnswersEnd DEF JudgeClaim
    <2>6. UNCHANGED <<aside, pc, excused>> BY <1>12 DEF JudgeClaim
    <2> QED BY <1>3, <1>4, <1>6, <2>4, <2>5, <2>6, WaitsOnKeeps
  <1>13. CASE JudgeSilence
    <2> DEFINE Waits(stuck, d, paused) ==
                   /\ eng' = [eng EXCEPT !.at = "wait", !.stuck = stuck,
                                          !.left = Run(eng.left, d, paused)]
                   /\ UNCHANGED <<aside, pc, excused>>
    <2>1. PICK d \in 0..1, paused \in BOOLEAN :
            \/ Withdraw /\ EndAttempt(TRUE)
            \/ Waits(NoProgress, d, paused)
            \/ Waits(Run(eng.stuck, d, paused), d, paused)
      BY <1>13 DEF JudgeSilence
    <2>2. CASE Withdraw /\ EndAttempt(TRUE)
      BY <1>3, <1>4, <1>5, <2>2, GivesUpKeeps
    <2>3. ASSUME NEW stuck \in 0..NoProgress, Waits(stuck, d, paused) PROVE DInv'
      <3>1. Run(eng.left, d, paused) \in 0..Timeout
        BY <1>2, RunTypes, DispatchAssumption DEF Engine
      <3>2. eng' \in Engine /\ eng'.at = "wait" /\ eng'.cmd = eng.cmd
            /\ eng'.claimed = eng.claimed
        BY <1>2, <2>3, <3>1 DEF Engine
      <3>3. eng'.claimed => eng.cmd \notin mod BY <3>2 DEF DInv, ApartInv
      <3> QED BY <1>3, <1>4, <1>6, <2>3, <3>2, <3>3, WaitsOnKeeps
    <2>4. NoProgress \in 0..NoProgress BY DispatchAssumption
    <2>5. Run(eng.stuck, d, paused) \in 0..NoProgress
      BY <1>2, RunTypes, DispatchAssumption DEF Engine
    <2> HIDE DEF Waits
    <2> QED BY <2>1, <2>2, <2>3, <2>4, <2>5
  <1> QED BY <1>8, <1>9, <1>10, <1>11, <1>12, <1>13 DEF Judge

\* The mod answers, or what it answers is lost.
LEMMA ModKeeps ==
    ASSUME DInv, NEW c \in Cmd, ModAnswers(c) \/ AckIsLost(c)
    PROVE  DInv'
  <1>1. Facts BY TypesAreFacts DEF DInv
  <1>2. Facts' BY <1>1 DEF Facts, ModAnswers, AckIsLost, around
  <1>3. NoneLeftBehind' BY DEF DInv, ModAnswers, AckIsLost, NoneLeftBehind, Driving
  <1>4. ApartInv' BY DEF DInv, ModAnswers, AckIsLost, ApartInv
  <1> QED BY <1>2, <1>3, <1>4, FactsThen DEF DInv

\* What the engine and the mod have no part in.
LEMMA AroundKeeps ==
    ASSUME DInv, AsidesAnswered \/ WorldChanges \/ Arm \/ Clock
    PROVE  DInv'
  <1>1. Facts BY TypesAreFacts DEF DInv
  <1>2. armed' \in BOOLEAN /\ panic' \in BOOLEAN /\ uneasy' \in BOOLEAN
    BY <1>1, Zenon DEF Facts, AsidesAnswered, WorldChanges, Arm, Clock, around
  <1>3. armed => armed' BY DEF AsidesAnswered, WorldChanges, Arm, Clock, around
  <1>4. age' \in 0..Patience + 1 /\ aside' \in 0..Patience + 1 \cup {NoAside}
    BY <1>1, AsideTypes DEF Facts, AsidesAnswered, WorldChanges, Arm, Clock, queue
  <1>5. UNCHANGED <<held, slot, mod, acks, pc, eng, excused>>
    BY DEF AsidesAnswered, WorldChanges, Arm, Clock, queue
  <1>6. Facts' BY <1>1, <1>2, <1>3, <1>4, <1>5 DEF Facts
  <1>7. NoneLeftBehind' BY <1>5 DEF DInv, NoneLeftBehind, Driving
  <1>8. ApartInv' BY <1>5 DEF DInv, ApartInv
  <1> QED BY <1>6, <1>7, <1>8, FactsThen DEF DInv

LEMMA StutterKeeps == DInv /\ UNCHANGED vars => DInv'
  BY DEF vars, DInv, TypeOK, NoneLeftBehind, Driving, ApartInv

LEMMA StepKeeps == DInv /\ [Next]_vars => DInv'
  <1> SUFFICES ASSUME DInv, [Next]_vars PROVE DInv' OBVIOUS
  <1>1. CASE RefuseBefore
    <2>1. PICK b \in BOOLEAN : EndAttempt(b) BY <1>1 DEF RefuseBefore
    <2> QED BY <1>1, <2>1, UnsentKeeps DEF RefuseBefore
  <1>2. CASE SendRefused BY <1>2, UnsentKeeps DEF SendRefused
  <1> QED
    BY <1>1, <1>2, BeginTickKeeps, DeclineKeeps, StartKeeps, SendKeeps, PollKeeps,
       BudgetSpentKeeps, JudgeKeeps, ModKeeps, AroundKeeps, StutterKeeps
       DEF Next, Loop

LEMMA Invariance == Spec => []DInv
  BY InitHolds, StepKeeps, PTL DEF Spec

\* The slot, the table's ages, the engine's attempt and its timers stay within
\* their bounds, and the engine is at work only inside a tick of an armed loop.
THEOREM TypeCorrect == Spec => []TypeOK
  BY Invariance, PTL DEF DInv

\* "The engine never walks away from an action it started" (engine.py), for any
\* number of commands and retries and any timers: what the mod has not answered is
\* watched, was seen to have succeeded, or has been withdrawn.
THEOREM NothingIsLeftBehind == Spec => []NoneLeftBehind
  BY Invariance, PTL DEF DInv
=============================================================================
