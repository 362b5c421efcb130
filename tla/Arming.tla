------------------------------- MODULE Arming -------------------------------
(***************************************************************************)
(* Who may act: the sidecar's authority (pz_agent_cli/runtime.py: attach,  *)
(* arm, disarm, the watch over a pending arm, the control file, tick and   *)
(* shutdown) against the mod's (Runtime.lua, Safety.lua and the arm and    *)
(* disarm adapters of ActionRuntime.lua), which share nothing but files:   *)
(* the command journal, the acks, the two heartbeats, session.json, the    *)
(* control file and panic.stop.                                            *)
(*                                                                         *)
(* Only session.arm and session.disarm are in the journal here.  A word is *)
(* named by its place in it, and so is the arm the sidecar waits for: the  *)
(* mode, the deadline and the key of a PendingArm are those of its word.   *)
(*                                                                         *)
(* Time is one clock both programs read.  Sessions, processes and games    *)
(* are numbered; session 0 is "none".                                      *)
(***************************************************************************)
EXTENDS Integers, Sequences

CONSTANTS
    Mode,            \* ARMABLE_MODES
    ArmTimeout,      \* arm_confirm_timeout_ms, also the lease of session.arm
    BeatTimeout,     \* DEFAULT_TIMEOUT_MS and SIDECAR_MAX_AGE_MS
    ControlMaxAge,   \* CONTROL_MAX_AGE_MS
    OfferMaxAge,     \* Session.MAX_AGE_MS
    ObservesAtOnce,  \* an observation is stored before the first tick
    MaxNow, MaxRequests, MaxProcs, MaxGames  \* bounds of the model

OBSERVE == "OBSERVE"
OFF == "OFF"

ASSUME ModeAssumption == OBSERVE \notin Mode /\ OFF \notin Mode

\* Both timeouts are 5000 ms in the code.  A game that crashed cannot be back
\* within its own heartbeat timeout, so no arm it read outlives its lease.
ASSUME TimeAssumption ==
    /\ ArmTimeout \in Nat \ {0} /\ BeatTimeout \in Nat \ {0}
    /\ ArmTimeout <= BeatTimeout
    /\ ControlMaxAge \in Nat /\ OfferMaxAge \in Nat
    /\ ObservesAtOnce \in BOOLEAN
    /\ MaxNow \in Nat /\ MaxRequests \in Nat /\ MaxProcs \in Nat /\ MaxGames \in Nat

VARIABLES
    now,
    \* the sidecar process
    proc,         \* how many processes have attached; the running one's number
    life,         \* "new", "up", "stopped" or "crashed"
    attachedAt,   \* _Attached.attached_at_ms
    mode,         \* _mode; _armed is mode # OBSERVE
    pending,      \* the word of _pending_arm, 0 for None
    observed,     \* the store holds an observation
    look,         \* what the running tick read first, or NoLook between ticks
    \* the exchange directory
    session,      \* the session id in session.json
    offerAt,      \* its created_at_ms
    journal,      \* the session.arm and session.disarm words
    granted,      \* words the mod acked as succeeded, as the ack stream tells
    refused,      \* words it acked otherwise
    control,      \* the control request file
    asked,        \* requests and panics written so far
    beat,         \* heartbeat.game.json
    sidecarBeat,  \* heartbeat.sidecar.json changed since the mod looked
    panicFile,    \* panic.stop: absent, raised (has text) or emptied
    \* the mod
    games,        \* games started so far
    running,
    gMode,        \* safety.mode; safety.armed is gMode # OFF
    grantor,      \* history: the process whose word put the mod into gMode
    takeover,     \* safety.manual_takeover
    gSession,     \* the open session
    seenAt,       \* safety.sidecar_last_seen_ms, -1 for nil
    pos           \* words consumed by the command reader

sidecar == <<proc, life, attachedAt, mode, pending, observed, look>>
offer == <<session, offerAt>>
acks == <<granted, refused>>
requests == <<control, asked>>
mod == <<games, running, gMode, grantor, takeover, gSession, seenAt, pos>>
vars == <<now, sidecar, offer, journal, acks, requests, beat, sidecarBeat, panicFile, mod>>

NoLook == [panic |-> FALSE, silent |-> FALSE, at |-> -1]
NoRequest == [kind |-> "none", mode |-> OFF, at |-> 0, of |-> 0]
NoBeat == [at |-> -1, session |-> 0, mode |-> OFF]

-----------------------------------------------------------------------------
(* What the sidecar reads and writes.                                      *)

PanicEngaged == panicFile # "absent"

\* liveness(Peer.GAME): a heartbeat without a session is unreadable.
GameAlive == beat.session # 0 /\ now - beat.at <= BeatTimeout

ArmWord(m) == [kind |-> "arm", mode |-> m, issued |-> now, session |-> session, proc |-> proc]
DisarmWord == [kind |-> "disarm", mode |-> OFF, issued |-> now, session |-> session, proc |-> proc]

\* The tick is a composition over st, its mode, pending arm and journal.

\* Mutant of Disarmed: the pending arm alone is no reason to tell the game.
DisarmedIfChanged(st) ==
    [mode |-> OBSERVE, pending |-> 0,
     journal |-> IF st.mode # OBSERVE THEN Append(st.journal, DisarmWord) ELSE st.journal]

\* disarm: local first, then the game is told unless there was nothing to end.
Disarmed(st) ==
    [mode |-> OBSERVE, pending |-> 0,
     journal |-> IF st.mode # OBSERVE \/ st.pending # 0
                 THEN Append(st.journal, DisarmWord) ELSE st.journal]

\* _apply_events, as far as authority goes.
AfterStopLevers(st, forced) ==
    IF look.panic \/ forced \/ (look.silent /\ st.mode # OBSERVE) THEN Disarmed(st) ELSE st

\* _arm_confirmed_by_heartbeat, which reads the heartbeat again.
Confirmed(w) ==
    GameAlive /\ beat.session = w.session /\ beat.at >= w.issued /\ beat.mode = w.mode

\* Mutant: the deadline is never judged.
AfterWatchPatient(st) ==
    LET w == journal[st.pending]
    IN  IF st.pending = 0 THEN st
        ELSE IF look.silent \/ st.pending \in refused THEN [st EXCEPT !.pending = 0]
        ELSE IF st.pending \in granted /\ Confirmed(w)
             THEN [st EXCEPT !.pending = 0, !.mode = w.mode]
        ELSE st

\* _watch_pending_arm: a pending arm that survived the stop levers is given
\* up without a countermand when the game is silent or refused it, granted on
\* ack and heartbeat together, and countermanded at its deadline.
AfterWatch(st) ==
    LET w == journal[st.pending]
    IN  IF st.pending = 0 THEN st
        ELSE IF look.silent \/ st.pending \in refused THEN [st EXCEPT !.pending = 0]
        ELSE IF st.pending \in granted /\ Confirmed(w)
             THEN [st EXCEPT !.pending = 0, !.mode = w.mode]
        ELSE IF look.at < w.issued + ArmTimeout THEN st
        ELSE [st EXCEPT !.pending = 0, !.journal = Append(@, DisarmWord)]

\* Mutant: a request is judged by its age alone.
FreshByAge == look.at - control.at <= ControlMaxAge

\* _consume_control: an arm left behind for an earlier process proves nothing.
Fresh == control.at >= attachedAt /\ look.at - control.at <= ControlMaxAge

\* The gates of _apply_control and arm; barred stands for a damaged ack
\* journal or a multiplayer save.
MayAsk(st, forced, barred) ==
    /\ Fresh /\ ~forced /\ st.pending = 0 /\ st.mode # control.mode
    /\ ~PanicEngaged /\ GameAlive /\ ~barred

AfterControl(st, forced, barred) ==
    IF control.kind = "disarm" THEN Disarmed(st)
    ELSE IF control.kind = "arm" /\ MayAsk(st, forced, barred)
         THEN [st EXCEPT !.pending = Len(st.journal) + 1,
                         !.journal = Append(@, ArmWord(control.mode))]
    ELSE st

-----------------------------------------------------------------------------
(* The sidecar's steps.                                                    *)

\* attach: a session the game's heartbeat confirms is resumed, any other is
\* replaced; the mode is OBSERVE either way.  It writes files and takes time.
Attach ==
    LET resumes == session # 0 /\ GameAlive /\ beat.session = session
    IN  /\ life # "up" /\ proc < MaxProcs /\ now < MaxNow
        /\ now' = now + 1
        /\ proc' = proc + 1
        /\ life' = "up"
        /\ attachedAt' = now + 1
        /\ mode' = OBSERVE
        /\ pending' = 0
        /\ observed' = ObservesAtOnce
        /\ look' = NoLook
        /\ session' = IF resumes THEN session ELSE session + 1
        /\ offerAt' = IF resumes THEN offerAt ELSE now + 1
        /\ sidecarBeat' = TRUE
        /\ UNCHANGED <<journal, acks, requests, beat, panicFile, mod>>

\* The head of tick: the sentinel and the game's heartbeat are read once and
\* the verdicts used for the rest of the tick.
BeginTick(sees) ==
    /\ life = "up" /\ look = NoLook
    /\ look' = [panic |-> PanicEngaged, silent |-> ~GameAlive, at |-> now]
    /\ observed' = (observed \/ sees)
    /\ UNCHANGED <<now, proc, life, attachedAt, mode, pending, offer, journal, acks,
                   requests, beat, sidecarBeat, panicFile, mod>>

\* The rest of tick, in the code's order: the reflex guard and the stop
\* levers, the watch, the control file, the heartbeat.  alarm stands for the
\* guard events of the world that force a disarm (a death, a new save).
EndTick(alarm, barred) ==
    LET forced == observed /\ (alarm \/ look.panic \/ look.silent)
        st == AfterControl(
                  AfterWatch(
                      AfterStopLevers([mode |-> mode, pending |-> pending, journal |-> journal],
                                      forced)),
                  forced, barred)
    IN  /\ life = "up" /\ look # NoLook
        /\ mode' = st.mode /\ pending' = st.pending /\ journal' = st.journal
        /\ control' = NoRequest
        /\ look' = NoLook
        /\ sidecarBeat' = TRUE
        /\ UNCHANGED <<now, proc, life, attachedAt, observed, offer, acks, asked, beat,
                       panicFile, mod>>

\* shutdown, after the tick that read the stop request (or Ctrl-C): the game
\* is told only when this process was armed.
Shutdown ==
    /\ life = "up" /\ look = NoLook
    /\ life' = "stopped"
    /\ mode' = OBSERVE
    /\ pending' = 0
    /\ journal' = IF mode # OBSERVE THEN Append(journal, DisarmWord) ELSE journal
    /\ UNCHANGED <<now, proc, attachedAt, observed, look, offer, acks, requests, beat,
                   sidecarBeat, panicFile, mod>>

Crash ==
    /\ life = "up"
    /\ life' = "crashed"
    /\ mode' = OBSERVE
    /\ pending' = 0
    /\ look' = NoLook
    /\ UNCHANGED <<now, proc, attachedAt, observed, offer, journal, acks, requests, beat,
                   sidecarBeat, panicFile, mod>>

-----------------------------------------------------------------------------
(* The mod's steps.                                                        *)

SidecarStale == seenAt = -1 \/ now - seenAt > BeatTimeout

\* Mutant: an offer is taken again although its session is open.
OpensAgain(seen, sess) ==
    /\ session # 0
    /\ seen # -1 /\ now - seen <= BeatTimeout
    /\ now - offerAt <= OfferMaxAge

\* Runtime.refresh from a mod that last saw the sidecar at seen and has sess
\* open: the heartbeat is read first, then the offer in session.json.
Opens(seen, sess) ==
    /\ session # 0 /\ session # sess
    /\ seen # -1 /\ now - seen <= BeatTimeout
    /\ now - offerAt <= OfferMaxAge

\* start: a fresh, disarmed state that counts whatever heartbeat file it finds
\* as news and reads the journal from its first line.  A game is not back
\* before its heartbeat went stale, nor before the sidecar saw that it did.
GameStart ==
    LET seen == IF proc > 0 THEN now ELSE -1
    IN  /\ ~running /\ games < MaxGames
        /\ games > 0 => ~GameAlive /\ mode = OBSERVE /\ pending = 0 /\ look = NoLook
        /\ games' = games + 1
        /\ running' = TRUE
        /\ gMode' = OFF
        /\ grantor' = 0
        /\ takeover' = FALSE
        /\ seenAt' = seen
        /\ gSession' = IF Opens(seen, 0) THEN session ELSE 0
        /\ pos' = 0
        /\ sidecarBeat' = FALSE
        /\ UNCHANGED <<now, sidecar, offer, journal, acks, requests, beat, panicFile>>

\* Mutant: a session swap keeps the authority the last session granted.
ModeAfterKept(opens, stops) == IF stops THEN OFF ELSE gMode

\* A new session inherits no authority, and a stop ends it.
ModeAfter(opens, stops) == IF opens \/ stops THEN OFF ELSE gMode

\* Runtime.tick: refresh, honour the panic request and clear it (by writing an
\* empty text over it), publish the heartbeat.
GameTick ==
    LET seen == IF sidecarBeat THEN now ELSE seenAt
        opens == Opens(seen, gSession)
        stops == panicFile = "raised"
    IN  /\ running
        /\ seenAt' = seen
        /\ gSession' = IF opens THEN session ELSE gSession
        /\ gMode' = ModeAfter(opens, stops)
        /\ panicFile' = IF stops THEN "emptied" ELSE panicFile
        /\ beat' = [at |-> now, session |-> gSession', mode |-> gMode']
        /\ sidecarBeat' = FALSE
        /\ UNCHANGED <<now, sidecar, offer, journal, acks, requests, games, running,
                       grantor, takeover, pos>>

\* CommandReader's envelope check: only an arm is held to its lease.
Addressed(w) ==
    /\ gSession # 0 /\ w.session = gSession
    /\ w.kind = "arm" => now <= w.issued + ArmTimeout

\* Safety.arm; unfit stands for a missing player or an unusable capability.
Arms(w, unfit) == Addressed(w) /\ w.kind = "arm" /\ ~takeover /\ ~SidecarStale /\ ~unfit

\* ActionRuntime.tick takes up the next word, in the game tick that published
\* the heartbeat.  Its ack may not be heard: the append fails, or the sidecar
\* takes the restarted numbering of a new game for redeliveries.
GameCommand(unfit, heard) ==
    LET i == pos + 1
        w == journal[i]
        news == heard /\ i \notin granted \cup refused
        done == Arms(w, unfit) \/ (Addressed(w) /\ w.kind = "disarm")
    IN  /\ running /\ beat.at = now
        /\ pos < Len(journal)
        /\ pos' = i
        /\ gMode' = IF done THEN w.mode ELSE gMode
        /\ grantor' = IF done THEN w.proc ELSE grantor
        /\ granted' = IF news /\ done THEN granted \cup {i} ELSE granted
        /\ refused' = IF news /\ ~done THEN refused \cup {i} ELSE refused
        /\ UNCHANGED <<now, sidecar, offer, journal, requests, beat, sidecarBeat, panicFile,
                       games, running, takeover, gSession, seenAt>>

\* The panic key, or input that becomes a takeover: Runtime.stop.
PlayerStops(takesOver) ==
    /\ running
    /\ takesOver => ~takeover
    /\ takeover' = (takeover \/ takesOver)
    /\ gMode' = OFF
    /\ panicFile' = "emptied"
    /\ UNCHANGED <<now, sidecar, offer, journal, acks, requests, beat, sidecarBeat,
                   games, running, grantor, gSession, seenAt, pos>>

\* OnPlayerDeath runs shutdown, a stop; a crash of the game runs nothing.
GameEnds(crashes) ==
    /\ running
    /\ running' = FALSE
    /\ gMode' = OFF
    /\ gSession' = 0
    /\ panicFile' = IF crashes THEN panicFile ELSE "emptied"
    /\ UNCHANGED <<now, sidecar, offer, journal, acks, requests, beat, sidecarBeat,
                   games, grantor, takeover, seenAt, pos>>

-----------------------------------------------------------------------------
(* The people, and time.                                                   *)

\* pz-agent arm or disarm overwrites the control file.
UserAsks(kind, m) ==
    /\ asked < MaxRequests
    /\ asked' = asked + 1
    /\ control' = [kind |-> kind, mode |-> m, at |-> now, of |-> proc]
    /\ UNCHANGED <<now, sidecar, offer, journal, acks, beat, sidecarBeat, panicFile, mod>>

\* The voice client, MCP or a person writes panic.stop.
UserPanics ==
    /\ asked < MaxRequests
    /\ asked' = asked + 1
    /\ panicFile' = "raised"
    /\ UNCHANGED <<now, sidecar, offer, journal, acks, control, beat, sidecarBeat, mod>>

\* No code deletes panic.stop.  A person does, seeing both sides disarmed.
PanicFileDeleted ==
    /\ panicFile = "emptied"
    /\ mode = OBSERVE /\ pending = 0 /\ look = NoLook
    /\ panicFile' = "absent"
    /\ UNCHANGED <<now, sidecar, offer, journal, acks, requests, beat, sidecarBeat, mod>>

Clock ==
    /\ now < MaxNow
    /\ now' = now + 1
    /\ UNCHANGED <<sidecar, offer, journal, acks, requests, beat, sidecarBeat, panicFile, mod>>

-----------------------------------------------------------------------------
Init ==
    /\ now = 0
    /\ proc = 0 /\ life = "new" /\ attachedAt = 0 /\ mode = OBSERVE /\ pending = 0
    /\ observed = FALSE /\ look = NoLook
    /\ session = 0 /\ offerAt = 0 /\ journal = <<>> /\ granted = {} /\ refused = {}
    /\ control = NoRequest /\ asked = 0
    /\ beat = NoBeat /\ sidecarBeat = FALSE /\ panicFile = "absent"
    /\ games = 0 /\ running = FALSE /\ gMode = OFF /\ grantor = 0
    /\ takeover = FALSE /\ gSession = 0 /\ seenAt = -1 /\ pos = 0

SidecarNext ==
    \/ Attach
    \/ \E sees \in BOOLEAN : BeginTick(sees)
    \/ \E alarm, barred \in BOOLEAN : EndTick(alarm, barred)
    \/ Shutdown
    \/ Crash

ModNext ==
    \/ GameStart
    \/ GameTick
    \/ \E unfit, heard \in BOOLEAN : GameCommand(unfit, heard)
    \/ \E takesOver \in BOOLEAN : PlayerStops(takesOver)
    \/ \E crashes \in BOOLEAN : GameEnds(crashes)

UserNext ==
    \/ \E m \in Mode : UserAsks("arm", m)
    \/ UserAsks("disarm", OFF)
    \/ UserPanics
    \/ PanicFileDeleted

Next == SidecarNext \/ ModNext \/ UserNext \/ Clock

Spec == Init /\ [][Next]_vars

\* The loop ticks on a timer until it is stopped, the game ticks on its frames
\* and time passes.  Nothing else is promised: no one need ask, and an ack may
\* be lost.
Fairness ==
    /\ WF_vars(\E sees \in BOOLEAN : BeginTick(sees))
    /\ WF_vars(\E alarm, barred \in BOOLEAN : EndTick(alarm, barred))
    /\ WF_vars(GameTick)
    /\ WF_vars(Clock)

FairSpec == Spec /\ Fairness

-----------------------------------------------------------------------------
(* Properties.                                                             *)

Word ==
    [kind : {"arm"}, mode : Mode, issued : Nat, session : Nat, proc : Nat]
        \cup [kind : {"disarm"}, mode : {OFF}, issued : Nat, session : Nat, proc : Nat]

Request ==
    [kind : {"arm"}, mode : Mode, at : Nat, of : Nat]
        \cup [kind : {"none", "disarm"}, mode : {OFF}, at : Nat, of : Nat]

\* Every variable keeps its type, and the arm a sidecar waits for is an arm
\* that is in the journal.
TypeOK ==
    /\ now \in Nat
    /\ proc \in Nat /\ life \in {"new", "up", "stopped", "crashed"}
    /\ attachedAt \in Nat /\ mode \in Mode \cup {OBSERVE}
    /\ pending \in 0..Len(journal)
    /\ pending # 0 => journal[pending].kind = "arm"
    /\ observed \in BOOLEAN
    /\ look \in [panic : BOOLEAN, silent : BOOLEAN, at : Nat \cup {-1}]
    /\ session \in Nat /\ offerAt \in Nat
    /\ journal \in Seq(Word)
    /\ granted \subseteq 1..Len(journal) /\ refused \subseteq 1..Len(journal)
    /\ control \in Request /\ asked \in Nat
    /\ beat \in [at : Nat \cup {-1}, session : Nat, mode : Mode \cup {OFF}]
    /\ sidecarBeat \in BOOLEAN /\ panicFile \in {"absent", "raised", "emptied"}
    /\ games \in Nat /\ running \in BOOLEAN /\ gMode \in Mode \cup {OFF} /\ grantor \in Nat
    /\ takeover \in BOOLEAN /\ gSession \in Nat
    /\ seenAt \in Nat \cup {-1} /\ pos \in 0..Len(journal)

\* The mod has read the whole journal and is in a mode this process asked for.
StillGranted == running /\ pos = Len(journal) /\ gMode # OFF /\ grantor = proc

\* What a sidecar gave up, or asked for and never got, the game does not keep:
\* once the mod has read every word, none that a disarmed sidecar shipped still
\* stands, however the arm's ack, deadline, disarm and heartbeats raced.
AuthorityWithdrawn ==
    life = "up" /\ mode = OBSERVE /\ pending = 0 => ~StillGranted

\* While nothing else is pending and no sentinel says otherwise, an armed
\* sidecar is armed into the mode the game is in: no restart, swap, takeover,
\* stale heartbeat or late word leaves them disagreeing.
ArmedTogether ==
    life = "up" /\ mode # OBSERVE /\ pending = 0 /\ running /\ pos = Len(journal)
        /\ ~PanicEngaged
    => gMode = mode

\* The mod's authority is of the session it has open: an arm of that session,
\* read from the journal, put it where it is.
AuthorityIsOfTheSession ==
    gMode # OFF => \E i \in 1..pos : /\ journal[i].kind = "arm" /\ journal[i].mode = gMode
                                    /\ journal[i].session = gSession

\* Never re-arms itself: the arm a process ships was asked of that process,
\* however many earlier ones left a request behind.
AskedOfThisProcess ==
    [][Len(journal') > Len(journal) /\ journal'[Len(journal')].kind = "arm"
        => control.kind = "arm" /\ control.of = proc]_vars

\* A pending arm is resolved: by the game, by a lever or by its deadline.
PendingArmResolves ==
    (pending # 0 /\ journal[pending].issued + ArmTimeout <= MaxNow) ~> pending = 0
=============================================================================
