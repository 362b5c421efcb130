------------------------------ MODULE Observations ------------------------------
(***************************************************************************)
(* How the sidecar comes to see the world: the mod publishes full          *)
(* snapshots into two slots and a pointer (Observe.lua, Ipc.lua), and the  *)
(* sidecar's feed follows the pointer into the observation store           *)
(* (ipc/snapshot.py, observation/store.py, ObservationFeed in runtime.py). *)
(*                                                                         *)
(* The mod cannot rename: a file it writes is torn between its opening and *)
(* its end.  Either side may find a file locked by the other, and either   *)
(* may end between any two steps.  The journal that the feed reads beside  *)
(* the snapshots carries safety events only, which the store is never      *)
(* offered, so it has no step here.                                        *)
(***************************************************************************)
EXTENDS Integers, Sequences

CONSTANTS
    CommitBudget,   \* POINTER_COMMIT_TICK_BUDGET
    MaxSeq,         \* bound: observations of one game
    MaxSessions,    \* bound: sessions
    MaxEnds,        \* bound: ends of a process, of either side
    MaxLocks        \* bound: opens refused and writes that fail

ASSUME ObservationsAssumption ==
    /\ CommitBudget \in Nat \ {0} /\ MaxSessions \in Nat \ {0}
    /\ MaxSeq \in Nat /\ MaxEnds \in Nat /\ MaxLocks \in Nat

VARIABLES
    slots,      \* the two slot files
    pointer,    \* the pointer file
    session,    \* the session the sidecar works under
    game,       \* the mod's handle, and where its publication is
    feed,       \* where the sidecar's read of the snapshots is
    latest,     \* ObservationStore.latest
    ends, locks,
    committed,  \* history: the document that was committed last
    known,      \* history: committed, as it was when the read began
    since,      \* history: publications under way since then, up to two
    astray      \* history: the handle is mistaken about the pointer

vars == <<slots, pointer, session, game, feed, latest, ends, locks,
          committed, known, since, astray>>

Slot == {"a", "b"}
Other(s) == IF s = "a" THEN "b" ELSE "a"
None == [is |-> "none"]
Torn == [is |-> "torn"]
Doc(s, n, of) == [is |-> "doc", session |-> s, seq |-> n, game |-> of]
Names(s) == [is |-> "names", slot |-> s]

Session == 1..MaxSessions
Docs == [is : {"doc"}, session : Session, seq : 0..MaxSeq, game : 0..MaxEnds]
Pointers == [is : {"names"}, slot : Slot]

-----------------------------------------------------------------------------
(* The mod.                                                                *)

\* A game that was loaded: a new handle, counters below zero, no session.
Loaded(n) == [at |-> "idle", of |-> n, open |-> 0, seq |-> -1, last |-> None,
              pending |-> None, tries |-> 0, target |-> "a"]

\* Something is locked by the other side, or the disk refuses.
Refused == locks < MaxLocks /\ locks' = locks + 1

Sidecar == <<session, feed, latest>>

\* Session.offer, with the document of the sidecar on disk: the game keeps its
\* counters, and takes a session that an earlier game had as well.
Offer ==
    /\ game.at = "idle" /\ game.open # session
    /\ game' = [game EXCEPT !.open = session]
    /\ UNCHANGED <<slots, pointer, Sidecar, ends, locks, committed, known, since, astray>>

\* Mutant of Aim: the first publication after a load goes to the first slot.
AimsAtTheFirst(current) == IF game.last # None /\ current = Names("a") THEN "b" ELSE "a"

\* The slot that is not the current one.
Aim(current) == IF current = Names("a") THEN "b" ELSE "a"

\* currentSlot; a pointer that is torn, absent or locked names nothing.
OnDisk == IF pointer.is = "names" THEN pointer ELSE None

\* Observe.tick: the next number, and where publishSnapshot goes first.  Only a
\* handle that has not committed yet asks the disk, where a lock reads as absence.
Begin ==
    /\ game.at = "idle" /\ game.open # 0 /\ game.seq < MaxSeq
    /\ LET Go(at, target) ==
             game' = [game EXCEPT !.seq = @ + 1, !.at = at, !.target = target] IN
       \/ game.pending # None /\ Go("carry", game.target) /\ UNCHANGED <<locks, astray>>
       \/ /\ game.pending = None /\ game.last # None
          /\ Go("slot", Aim(game.last)) /\ UNCHANGED <<locks, astray>>
       \/ /\ game.pending = None /\ game.last = None
          /\ Go("slot", Aim(OnDisk)) /\ UNCHANGED <<locks, astray>>
       \/ /\ game.pending = None /\ game.last = None /\ OnDisk # None
          /\ Go("slot", Aim(None)) /\ Refused /\ astray' = TRUE
    /\ since' = IF since = 2 THEN 2 ELSE since + 1
    /\ UNCHANGED <<slots, pointer, Sidecar, ends, committed, known>>

\* A slot that could not be written ends the publication.
SlotFails == game' = [game EXCEPT !.at = "idle"] /\ Refused

\* A commit that failed is carried over; after CommitBudget in a row it is dropped.
CarriedOver ==
    IF game.pending # None /\ game.tries + 1 >= CommitBudget
    THEN [game EXCEPT !.at = "idle", !.pending = None, !.tries = 0]
    ELSE [game EXCEPT !.at = "idle", !.tries = @ + 1,
                      !.pending = IF @ = None THEN Names(game.target) ELSE @]

PointerFails ==
    /\ Refused /\ game' = CarriedOver
    /\ astray' = (astray \/ game'.pending = None)

OpenSlot ==
    /\ game.at = "slot"
    /\ \/ /\ slots' = [slots EXCEPT ![game.target] = Torn]
          /\ game' = [game EXCEPT !.at = "fill"] /\ UNCHANGED locks
       \/ SlotFails /\ UNCHANGED slots
    /\ UNCHANGED <<pointer, Sidecar, ends, committed, known, since, astray>>

FillSlot ==
    /\ game.at = "fill"
    /\ LET whole == [slots EXCEPT ![game.target] = Doc(game.open, game.seq, game.of)] IN
       \/ slots' = whole /\ game' = [game EXCEPT !.at = "commit"] /\ UNCHANGED locks
       \/ slots' \in {slots, whole} /\ SlotFails
    /\ UNCHANGED <<pointer, Sidecar, ends, committed, known, since, astray>>

\* The pointer is written last, or first when an earlier one is carried over.
OpenPointer ==
    /\ game.at \in {"commit", "carry"}
    /\ \/ /\ pointer' = Torn /\ UNCHANGED <<locks, astray>>
          /\ game' = [game EXCEPT !.at = IF @ = "commit" THEN "committing" ELSE "carrying"]
       \/ PointerFails /\ UNCHANGED pointer
    /\ UNCHANGED <<slots, Sidecar, ends, committed, known, since>>

FillPointer ==
    /\ game.at \in {"committing", "carrying"}
    /\ LET named == IF game.at = "carrying" THEN game.pending ELSE Names(game.target) IN
       \/ /\ pointer' = named /\ committed' = slots[named.slot]
          /\ astray' = FALSE /\ UNCHANGED locks
          /\ game' = IF game.at = "committing"
                     THEN [game EXCEPT !.at = "idle", !.last = named, !.tries = 0]
                     ELSE [game EXCEPT !.at = "slot", !.last = named, !.target = Aim(named),
                                       !.pending = None, !.tries = 0]
       \/ pointer' \in {Torn, named} /\ PointerFails /\ UNCHANGED committed
    /\ UNCHANGED <<slots, Sidecar, ends, known, since>>

\* The game is left or dies, and is loaded again.
GameEnds ==
    /\ ends < MaxEnds /\ ends' = ends + 1
    /\ game' = Loaded(game.of + 1)
    /\ UNCHANGED <<slots, pointer, Sidecar, locks, committed, known, since, astray>>

Publish == Begin \/ OpenSlot \/ FillSlot \/ OpenPointer \/ FillPointer

-----------------------------------------------------------------------------
(* The sidecar.                                                            *)

Disk == <<slots, pointer, game, committed, astray>>
NoRead == [at |-> "idle", order |-> <<>>, pointed |-> FALSE, met |-> {}, locked |-> FALSE]

\* The feed is asked, in a tick or while the engine waits; it looks at the
\* snapshots only while the store needs a full one.
NeedsFull == latest = None

Ask ==
    /\ feed.at = "idle" /\ NeedsFull
    /\ feed' = [feed EXCEPT !.at = "pointer"]
    /\ known' = committed
    /\ since' = IF game.at = "idle" THEN 0 ELSE 1
    /\ UNCHANGED <<Disk, session, latest, ends, locks>>

\* Mutant of Probe: a pointer that names nothing is a miss.
ProbeNamed == IF OnDisk = None THEN <<>> ELSE <<pointer.slot, Other(pointer.slot)>>

\* The pointed slot comes first; a torn or absent pointer has both slots probed.
Probe == IF OnDisk = None THEN <<"a", "b">> ELSE <<pointer.slot, Other(pointer.slot)>>

\* A locked pointer is a miss for this poll.
ReadPointer ==
    /\ feed.at = "pointer"
    /\ \/ /\ feed' = [feed EXCEPT !.at = "slots", !.order = Probe, !.pointed = (OnDisk # None)]
          /\ UNCHANGED locks
       \/ feed' = NoRead /\ Refused
    /\ UNCHANGED <<Disk, session, latest, ends, known, since>>

\* Mutant of Usable: a document of any session is.
UsableOfAny(file) == file.is = "doc"

\* The whole document parses, and it names the session this sidecar handshook.
Usable(file) == file.is = "doc" /\ file.session = session

\* The slots are read in order; one the pointer names ends the read.
ReadSlot ==
    /\ feed.at = "slots" /\ feed.order # <<>>
    /\ LET file == slots[Head(feed.order)]
           rest == Tail(feed.order) IN
       \/ /\ feed' = IF ~Usable(file) THEN [feed EXCEPT !.order = rest]
                     ELSE [feed EXCEPT !.met = @ \cup {file},
                             !.order = IF feed.pointed THEN <<>> ELSE rest]
          /\ UNCHANGED locks
       \/ feed' = [feed EXCEPT !.order = rest, !.locked = TRUE] /\ Refused
    /\ UNCHANGED <<Disk, session, latest, ends, known, since>>

\* The highest number wins and becomes the store's baseline.  Nothing was
\* accepted before it, so the reader's guard against a rewind and the store's
\* gaps have nothing to compare.
Take ==
    /\ feed.at = "slots" /\ feed.order = <<>>
    /\ feed' = NoRead
    /\ IF feed.met = {} THEN UNCHANGED latest
       ELSE \E d \in feed.met : latest' = d /\ \A e \in feed.met : e.seq <= d.seq
    /\ UNCHANGED <<Disk, session, ends, locks, known, since>>

\* The sidecar ends, and the next one resumes the session on disk or makes one.
SidecarEnds ==
    /\ ends < MaxEnds /\ ends' = ends + 1
    /\ session' \in {session, session + 1} \cap Session
    /\ feed' = NoRead /\ latest' = None
    /\ UNCHANGED <<Disk, locks, known, since>>

Read == Ask \/ ReadPointer \/ ReadSlot \/ Take

-----------------------------------------------------------------------------
Init ==
    /\ slots = [s \in Slot |-> None] /\ pointer = None /\ session = 1
    /\ game = Loaded(0) /\ feed = NoRead /\ latest = None
    /\ ends = 0 /\ locks = 0
    /\ committed = None /\ known = None /\ since = 0 /\ astray = FALSE

Next == Offer \/ Publish \/ GameEnds \/ Read \/ SidecarEnds

Spec == Init /\ [][Next]_vars

\* The sidecar ticks, and so does the game while it is played.
FairSpec == Spec /\ WF_vars(Read) /\ WF_vars(Offer \/ Publish)

-----------------------------------------------------------------------------
(* Properties.                                                             *)

TypeOK ==
    /\ slots \in [Slot -> {None, Torn} \cup Docs] /\ pointer \in {None, Torn} \cup Pointers
    /\ session \in Session
    /\ game \in [at : {"idle", "carry", "carrying", "slot", "fill", "commit", "committing"},
                 of : 0..MaxEnds, open : 0..MaxSessions, seq : -1..MaxSeq,
                 last : {None} \cup Pointers, pending : {None} \cup Pointers,
                 tries : 0..CommitBudget, target : Slot]
    /\ feed \in [at : {"idle", "pointer", "slots"}, order : Seq(Slot), pointed : BOOLEAN,
                 met : SUBSET Docs, locked : BOOLEAN]
    /\ latest \in {None} \cup Docs /\ committed \in {None} \cup Docs /\ known \in {None} \cup Docs
    /\ ends \in 0..MaxEnds /\ locks \in 0..MaxLocks /\ since \in 0..2 /\ astray \in BOOLEAN

\* The pointer never names a slot whose write failed or is under way (Ipc.lua),
\* across reloads and carried commits, as long as the handle is right about it.
PointedIsWhole == pointer.is = "names" /\ ~astray => slots[pointer.slot].is = "doc"

\* The store's baseline is of the session the sidecar handshook, whatever an
\* earlier session left in the slots.
BaselineIsOurs == latest # None => latest.session = session

\* A read that no lock disturbed, and during which at most one publication was
\* under way, serves the document that was committed when it began or a later one,
\* as long as no other game that was loaded since publishes under its session.
SameGame == game.of \in {known.game, known.game + 1} /\ (game.of # known.game => game.seq = -1)

ReadSeesTheCommitted ==
    [][Take /\ known # None /\ known.session = session /\ SameGame
            /\ since <= 1 /\ ~feed.locked
        => latest' # None /\ latest'.seq >= known.seq]_vars

\* A sidecar whose session stays with a committed snapshot has a baseline in the
\* end, whatever files torn by a failed write, leftovers of other sessions and
\* ends of either side came before.
BaselineComes ==
    <>[](committed # None /\ committed.session = session) => []<>(latest # None)

\* "Read the world, run the guard, and only then consider acting": an
\* observation the mod commits reaches the store of a sidecar that ticks.
Behind ==
    /\ latest # None /\ committed # None
    /\ committed.session = latest.session /\ committed.game = latest.game
    /\ committed.seq > latest.seq

WorldIsFollowed == Behind ~> ~Behind
=============================================================================
