------------------------------- MODULE Dispatch -------------------------------
(***************************************************************************)
(* One action from the loop's gates to its result: SidecarLoop's tick      *)
(* (pz_agent_cli/runtime.py), the reflex guard (safety/reflex.py), the     *)
(* engine that drives the action (actions/engine.py), the queue's slot and *)
(* table (ipc/queue.py), and the mod at the other end.                     *)
(*                                                                         *)
(* The tick thread is in one place at a time: in the guard, or inside the  *)
(* engine's poll loop, which may last for many of the game's ticks and     *)
(* during which nobody else reads acks or runs the guard.                  *)
(*                                                                         *)
(* Two sorts of commands are told apart: those that take the slot, driven  *)
(* by the engine, each with its id, and the asides (plan.cancel, disarm,   *)
(* observations), of which only the age of the oldest in the table matters. *)
(* Ages stop growing when nothing depends on them any more, so that the    *)
(* clock need not end.                                                     *)
(***************************************************************************)
EXTENDS Integers, FiniteSets

CONSTANTS
    Cmd,            \* ids of driven commands; used again when nobody knows one
    Attempts,       \* 1 + max_retries
    Timeout,        \* timeout_ms of the adapter
    NoProgress,     \* no_progress_ms
    Grace,          \* post_ack_grace_ms
    Polls,          \* the poll ceiling
    Patience,       \* the lease, or stall_ms, whichever ends first
    Losable         \* sorts of commands whose ack may be lost

ASSUME DispatchAssumption ==
    /\ Cmd \subseteq Nat /\ IsFiniteSet(Cmd)
    /\ {Attempts, Timeout, NoProgress, Polls, Patience} \subseteq Nat \ {0}
    /\ Grace \in Nat
    /\ Losable \subseteq {"driven", "aside"}

VARIABLES
    armed,      \* SidecarLoop._armed
    panic,      \* the panic file is there
    uneasy,     \* the observation holds a threat, or the player is busy
    slot,       \* CommandQueue._in_flight
    age,        \* how long the command in the slot is in the table
    aside,      \* how long the oldest aside is in the table
    mod,        \* driven commands the mod has not answered
    acks,       \* driven commands whose terminal ack is on its way
    pc,         \* where the tick is
    held,       \* the guard returned an event in this tick
    eng,        \* the engine
    excused     \* history: commands withdrawn, or seen to have succeeded

vars == <<armed, panic, uneasy, slot, age, aside, mod, acks, pc, held, eng, excused>>
around == <<armed, panic, uneasy>>
queue == <<slot, age, aside, mod, acks>>

NoCmd == -1
NoAside == -1
Off == [at |-> "off", attempt |-> 0, cmd |-> NoCmd, left |-> 0, stuck |-> 0, polls |-> 0,
        claimed |-> FALSE]

Smaller(a, b) == IF a < b THEN a ELSE b

-----------------------------------------------------------------------------
(* The queue.                                                              *)

Known(c) == c = slot \/ c \in mod \cup acks \/ c = eng.cmd

HasId == \E c \in Cmd : ~Known(c)
NextId == CHOOSE c \in Cmd : ~Known(c)

\* poll_acks frees the slot of what was answered.
SlotDrained == IF slot \in acks THEN NoCmd ELSE slot

\* Another aside is written and tracked: the oldest stays the oldest.
ShipAside == aside' = IF aside = NoAside THEN 0 ELSE aside

-----------------------------------------------------------------------------
(* The tick: acks, guard, stop levers.                                     *)

\* Rules 1 and 2 for commands: a lease ran out, or nothing moved for too long.
SlotOverdue == slot # NoCmd /\ slot \notin acks /\ age > Patience
AsideOverdue == aside > Patience

\* Mutant of GuardSpeaks: the guard repeats what it closed on its last tick.
GuardRemembers == panic \/ uneasy \/ SlotOverdue \/ held

\* ReflexGuard.evaluate returns events.
GuardSpeaks == panic \/ uneasy \/ SlotOverdue \/ AsideOverdue

\* Mutant of Closes: an overdue command is reported and left in the slot.
ClosesOnPanic == SlotDrained # NoCmd /\ panic

\* _apply_events closes what the slot holds when an event names it.
Closes == SlotDrained # NoCmd /\ (panic \/ SlotOverdue)

BeginTick ==
    /\ pc = "idle"
    /\ slot' = IF Closes THEN NoCmd ELSE SlotDrained
    /\ acks' = {}
    /\ armed' = (armed /\ ~panic)
    /\ IF armed /\ panic THEN ShipAside ELSE UNCHANGED aside
    /\ held' = GuardSpeaks
    /\ pc' = "serve"
    /\ UNCHANGED <<panic, uneasy, age, mod, eng, excused>>

After == IF pc = "serve" THEN "act" ELSE "idle"

\* _serve_remote_action, then _act: a gate is closed, or there is nothing to do.
Decline ==
    /\ pc # "idle" /\ eng.at = "off"
    /\ pc' = After
    /\ UNCHANGED <<around, queue, held, eng, excused>>

\* Both hand one request to the engine when every gate is open.
Start ==
    /\ pc # "idle" /\ eng.at = "off"
    /\ armed /\ ~held
    /\ eng' = [Off EXCEPT !.at = "fresh", !.attempt = 1]
    /\ UNCHANGED <<around, queue, pc, held, excused>>

-----------------------------------------------------------------------------
(* The engine.                                                             *)

\* An attempt is over.  execute tries again for the codes that allow it.
EndAttempt(retryable) ==
    IF retryable /\ eng.attempt < Attempts
    THEN eng' = [Off EXCEPT !.at = "fresh", !.attempt = eng.attempt + 1, !.cmd = eng.cmd]
         /\ UNCHANGED pc
    ELSE eng' = Off /\ pc' = After

\* _drive before anything is sent: no fresh observation, a refusal of the
\* pre-flight, of the capability check or of the adapter.  Of these codes only
\* PLAYER_BUSY_MANUAL_ACTION may be tried again.
RefuseBefore ==
    /\ eng.at = "fresh"
    /\ \E busy \in BOOLEAN : (busy => uneasy /\ ~panic) /\ EndAttempt(busy)
    /\ UNCHANGED <<around, queue, held, excused>>

\* submit finds the slot taken.
SendRefused ==
    /\ eng.at = "fresh" /\ ~panic /\ ~uneasy
    /\ slot # NoCmd
    /\ EndAttempt(TRUE)
    /\ UNCHANGED <<around, queue, held, excused>>

\* send, and the start of _observe.
Send ==
    /\ eng.at = "fresh" /\ ~panic /\ ~uneasy
    /\ slot = NoCmd /\ HasId
    /\ slot' = NextId /\ age' = 0
    /\ mod' = mod \cup {NextId}
    /\ eng' = [eng EXCEPT !.at = "wait", !.cmd = NextId, !.left = Timeout,
                          !.stuck = NoProgress, !.polls = Polls]
    /\ UNCHANGED <<around, aside, acks, pc, held, excused>>

\* sink.cancel: a plan.cancel is shipped; the command keeps its slot.
Withdraw == ShipAside /\ excused' = (excused \cup {eng.cmd}) \cap mod

\* Mutant of MustWithdraw: the engine has given up already, why ask for more.
NeverWithdraw == FALSE

\* _budget_spent cancels unless the mod has given its last word.
MustWithdraw == ~eng.claimed

\* Mutant of PollsLeft: the deadline alone bounds the loop.
PollsKept == eng.polls

\* The polls that remain after this one.
PollsLeft == eng.polls - 1

InBudget == eng.polls > 0 /\ eng.left > 0

\* The head of the poll loop.
Poll ==
    /\ eng.at = "wait" /\ InBudget
    /\ eng' = [eng EXCEPT !.at = "judge", !.polls = PollsLeft]
    /\ UNCHANGED <<around, queue, pc, held, excused>>

\* The loop ended without evidence: ACTION_TIMEOUT, or POSTCONDITION_FAILED.
BudgetSpent ==
    /\ eng.at = "wait" /\ ~InBudget
    /\ EndAttempt(~eng.claimed)
    /\ IF MustWithdraw THEN Withdraw ELSE UNCHANGED <<aside, excused>>
    /\ UNCHANGED <<around, slot, age, mod, acks, held>>

\* _observe's read of the acks: the first terminal ack of the driven command
\* stands, the others are dropped.
HearAcks == slot' = SlotDrained /\ acks' = {}
Answer == IF eng.claimed THEN {"succeeded"}
          ELSE IF eng.cmd \in acks THEN {"succeeded", "failed"} ELSE {"none"}

\* Why the engine drops a command that is with the mod.  It sees the world only
\* in an observation; of these codes PLAYER_BUSY_MANUAL_ACTION may be retried.
JudgeAbort ==
    /\ panic \/ uneasy
    /\ Withdraw
    /\ \E busy \in BOOLEAN : (busy => uneasy /\ ~panic) /\ EndAttempt(busy)

\* The adapter, or a port, raises.
JudgeRaise == Withdraw /\ EndAttempt(FALSE)

\* The postcondition shows, whatever the mod said or has yet to say.
JudgeSuccess ==
    /\ ~panic
    /\ EndAttempt(FALSE)
    /\ excused' = (excused \cup {eng.cmd}) \cap mod
    /\ UNCHANGED aside

\* The mod says that it failed: its code is retryable, or not.
JudgeFailure ==
    /\ ~panic /\ "failed" \in Answer
    /\ \E retryable \in BOOLEAN : EndAttempt(retryable)
    /\ UNCHANGED <<aside, excused>>

\* What is left of a timer after d more ticks; a paused game stops it.
Run(timer, d, paused) == IF paused THEN timer ELSE IF timer < d THEN 0 ELSE timer - d

\* The mod claims success: that shortens the wait for it to show.
JudgeClaim ==
    /\ ~panic /\ "succeeded" \in Answer
    /\ \E d \in 0..1, paused \in BOOLEAN :
        eng' = [eng EXCEPT !.at = "wait", !.claimed = TRUE, !.stuck = 0,
                           !.left = Smaller(Run(eng.left, d, paused), Grace)]
    /\ UNCHANGED <<aside, pc, excused>>

\* No answer: the command must be seen to move.
JudgeSilence ==
    /\ ~panic /\ "none" \in Answer
    /\ \E d \in 0..1, paused, moves \in BOOLEAN :
        LET stuck == IF moves THEN NoProgress ELSE Run(eng.stuck, d, paused) IN
        IF stuck = 0
        THEN Withdraw /\ EndAttempt(TRUE)
        ELSE /\ eng' = [eng EXCEPT !.at = "wait", !.stuck = stuck,
                                   !.left = Run(eng.left, d, paused)]
             /\ UNCHANGED <<aside, pc, excused>>

\* One turn of _observe, after its wait.
Judge ==
    /\ eng.at = "judge"
    /\ HearAcks
    /\ \/ JudgeAbort \/ JudgeRaise \/ JudgeSuccess \/ JudgeFailure
       \/ JudgeClaim \/ JudgeSilence
    /\ UNCHANGED <<around, age, mod, held>>

-----------------------------------------------------------------------------
(* The mod, the world, the user, the clock.                                *)

ModAnswers(c) ==
    /\ c \in mod
    /\ mod' = mod \ {c} /\ excused' = excused \ {c}
    /\ acks' = acks \cup {c}
    /\ UNCHANGED <<around, slot, age, aside, pc, held, eng>>

AckIsLost(c) ==
    /\ c \in mod /\ "driven" \in Losable
    /\ mod' = mod \ {c} /\ excused' = excused \ {c}
    /\ UNCHANGED <<around, slot, age, aside, acks, pc, held, eng>>

\* The asides are answered and their acks are read; when one of the acks is
\* lost its command stays in the table.
AsidesAnswered ==
    /\ aside # NoAside
    /\ aside' = NoAside
    /\ pc = "idle" \/ eng.at = "judge"
    /\ UNCHANGED <<around, slot, age, mod, acks, pc, held, eng, excused>>

WorldChanges ==
    /\ \/ uneasy' = ~uneasy /\ UNCHANGED panic
       \/ panic' = ~panic /\ UNCHANGED uneasy
    /\ UNCHANGED <<armed, queue, pc, held, eng, excused>>

\* The user arms again; see Arming for what that takes.
Arm ==
    /\ pc = "idle" /\ ~armed /\ ~panic
    /\ armed' = TRUE
    /\ UNCHANGED <<panic, uneasy, queue, pc, held, eng, excused>>

Older(a) == Smaller(a + 1, Patience + 1)

Clock ==
    /\ age' = IF slot = NoCmd THEN age ELSE Older(age)
    /\ aside' = IF aside = NoAside THEN NoAside ELSE Older(aside)
    /\ UNCHANGED <<around, slot, mod, acks, pc, held, eng, excused>>

-----------------------------------------------------------------------------
Init ==
    /\ armed = TRUE /\ panic = FALSE /\ uneasy = FALSE
    /\ slot = NoCmd /\ age = 0 /\ aside = NoAside /\ mod = {} /\ acks = {}
    /\ pc = "idle" /\ held = FALSE /\ eng = Off /\ excused = {}

Loop ==
    \/ BeginTick \/ Decline \/ Start
    \/ RefuseBefore \/ SendRefused \/ Send \/ Poll \/ BudgetSpent \/ Judge

Next ==
    \/ Loop
    \/ \E c \in Cmd : ModAnswers(c) \/ AckIsLost(c)
    \/ AsidesAnswered \/ WorldChanges \/ Arm \/ Clock

Spec == Init /\ [][Next]_vars

\* The loop ticks and time passes; the mod answers, or its ack is lost.  An
\* aside is answered unless "aside" acks may be lost.
FairSpec ==
    /\ Spec /\ WF_vars(Loop) /\ WF_vars(Clock)
    /\ \A c \in Cmd : WF_vars(ModAnswers(c) \/ AckIsLost(c))
    /\ "aside" \notin Losable => SF_vars(AsidesAnswered)

-----------------------------------------------------------------------------
(* Properties.                                                             *)

Engine == [at : {"off", "fresh", "wait", "judge"}, attempt : 0..Attempts,
           cmd : Cmd \cup {NoCmd}, left : 0..Timeout, stuck : 0..NoProgress,
           polls : 0..Polls, claimed : BOOLEAN]

\* Shapes of the state; the engine is at work only between two guards.
TypeOK ==
    /\ {armed, panic, uneasy, held} \subseteq BOOLEAN
    /\ slot \in Cmd \cup {NoCmd} /\ age \in 0..Patience + 1
    /\ aside \in 0..Patience + 1 \cup {NoAside}
    /\ {mod, acks, excused} \subseteq SUBSET Cmd
    /\ pc \in {"idle", "serve", "act"} /\ eng \in Engine
    /\ eng.at # "off" => pc # "idle" /\ armed

Driving(c) == eng.at \in {"wait", "judge"} /\ c = eng.cmd

\* "The engine never walks away from an action it started" (CommandSink.cancel):
\* what the mod may still be doing for the loop is being watched, was seen to
\* have succeeded, or has been withdrawn.
NoneLeftBehind == \A c \in mod : Driving(c) \/ c \in excused

\* No command keeps the one slot for ever, whatever becomes of its ack.
SlotComesFree == \A c \in Cmd : slot = c ~> slot # c

\* "Whatever holds those gates closed for long either disarms the loop or ends
\* the run" (_serve_remote_action): in a calm world the guard lets an armed loop
\* act, time and again; so execute returns, even from a game that is paused for ever.
GuardLetsGo ==
    <>[](~uneasy /\ ~panic /\ armed) => []<>(pc = "serve" /\ ~held)
=============================================================================
