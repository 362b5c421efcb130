--------------------------- MODULE ObservationsProofs ---------------------------
(***************************************************************************)
(* What is proved about Observations for every commit budget and every     *)
(* bound: the types, that the pointer names whole slots, whose the store's *)
(* baseline is, and that a read sees what was committed before it.         *)
(***************************************************************************)
EXTENDS Observations, TLAPS

Files == {None, Torn} \cup Docs

\* A publication has a session and a number; a slot that a commit is owed to, or
\* is being made to, is whole; and a handle that is right about the pointer is on
\* its way to the other slot.
PubInv ==
    /\ game.of <= ends
    /\ game.at # "idle" => game.open # 0 /\ game.seq >= 0
    /\ game.pending = None => game.tries = 0
    /\ game.pending # None => /\ slots[game.pending.slot].is = "doc"
                              /\ game.at \in {"idle", "carry", "carrying"}
    /\ game.at \in {"carry", "carrying"} => game.pending # None
    /\ game.at \in {"commit", "committing"} => slots[game.target].is = "doc"
    /\ game.at \in {"carrying", "committing"} => pointer = Torn
    /\ ~astray /\ pointer.is = "names" =>
          /\ game.at \in {"slot", "fill"} => pointer.slot # game.target
          /\ game.pending = None /\ game.last # None => pointer = game.last

\* What the sidecar met in the slots is of its session.
FeedInv == \A d \in feed.met : d.session = session

OInv == TypeOK /\ PubInv /\ PointedIsWhole /\ FeedInv /\ BaselineIsOurs

\* The kinds of a file tell its shape.
LEMMA Kinds ==
    /\ None \notin Docs /\ Torn \notin Docs /\ None \notin Pointers /\ Torn \notin Pointers
    /\ None # Torn /\ None.is = "none" /\ Torn.is = "torn"
    /\ \A f \in Files : f.is = "doc" <=> f \in Docs
    /\ \A p \in {None, Torn} \cup Pointers : p.is = "names" <=> p \in Pointers
    /\ \A p \in Pointers : p.slot \in Slot /\ p = Names(p.slot)
    /\ \A s \in Slot : Names(s) \in Pointers /\ Names(s).slot = s /\ Other(s) \in Slot
    /\ \A d \in Docs : d.session \in Session /\ d.seq \in 0..MaxSeq
  BY DEF None, Torn, Docs, Pointers, Files, Names, Slot, Other

\* Aim never says the slot that it is told is current.
LEMMA AimIsOther ==
    /\ \A c \in {None, Torn} \cup Pointers : Aim(c) \in Slot
    /\ \A c \in Pointers : Aim(c) # c.slot
  BY DEF Aim, Pointers, Slot, Names, None, Torn

Moments == {"idle", "carry", "carrying", "slot", "fill", "commit", "committing"}
Game == [at : Moments, of : 0..MaxEnds, open : 0..MaxSessions, seq : -1..MaxSeq,
         last : {None} \cup Pointers, pending : {None} \cup Pointers,
         tries : 0..CommitBudget, target : Slot]
Feed == [at : {"idle", "pointer", "slots"}, order : Seq(Slot), pointed : BOOLEAN,
         met : SUBSET Docs, locked : BOOLEAN]

LEMMA InitHolds == Init => OInv
  <1> SUFFICES ASSUME Init PROVE OInv OBVIOUS
  <1> USE ObservationsAssumption
  <1>1. game \in Game BY DEF Init, Loaded, Game, Moments, Slot
  <1>2. NoRead \in Feed
    <2>1. <<>> \in Seq(Slot) OBVIOUS
    <2> QED BY <2>1 DEF NoRead, Feed
  <1>3. TypeOK
    <2>1. slots \in [Slot -> {None, Torn} \cup Docs] BY DEF Init
    <2>2. session \in Session BY DEF Init, Session
    <2>3. feed \in Feed BY <1>2 DEF Init
    <2>4. ends \in 0..MaxEnds /\ locks \in 0..MaxLocks /\ since \in 0..2 BY DEF Init
    <2>6. astray \in BOOLEAN BY Zenon DEF Init
    <2>5. pointer = None /\ latest = None /\ committed = None /\ known = None BY DEF Init
    <2> QED BY <1>1, <2>1, <2>2, <2>3, <2>4, <2>5, <2>6 DEF TypeOK, Game, Moments, Feed
  <1>4. PubInv /\ PointedIsWhole BY Kinds DEF Init, Loaded, PubInv, PointedIsWhole
  <1>5. FeedInv /\ BaselineIsOurs BY DEF Init, NoRead, FeedInv, BaselineIsOurs
  <1> QED BY <1>3, <1>4, <1>5 DEF OInv

\* The mod's steps leave what the sidecar has alone, and the sidecar's the mod's.
LEMMA ModLeavesFeed == OInv /\ UNCHANGED Sidecar => FeedInv' /\ BaselineIsOurs'
  BY DEF OInv, Sidecar, FeedInv, BaselineIsOurs

LEMMA SidecarLeavesFiles ==
    OInv /\ UNCHANGED Disk /\ ends' \in {ends, ends + 1} => PubInv' /\ PointedIsWhole'
  <1> SUFFICES ASSUME OInv, UNCHANGED Disk, ends' \in {ends, ends + 1}
               PROVE  PubInv' /\ PointedIsWhole'
    OBVIOUS
  <1>1. game.of \in Nat /\ ends \in Nat BY ObservationsAssumption DEF OInv, TypeOK
  <1>2. game.of <= ends' BY <1>1 DEF OInv, PubInv
  <1> QED BY <1>2 DEF OInv, Disk, PubInv, PointedIsWhole

\* An open or a write that fails is counted.
LEMMA RefusedTypes == OInv /\ Refused => locks' \in 0..MaxLocks
  BY ObservationsAssumption DEF OInv, TypeOK, Refused

LEMMA OfferKeeps == OInv /\ Offer => OInv'
  <1> SUFFICES ASSUME OInv, Offer PROVE OInv' OBVIOUS
  <1>1. FeedInv' /\ BaselineIsOurs' BY ModLeavesFeed DEF Offer
  <1>2. game \in Game BY DEF OInv, TypeOK, Game, Moments
  <1>3. game' = [game EXCEPT !.open = session] BY DEF Offer
  <1>4. session \in 0..MaxSessions BY ObservationsAssumption DEF OInv, TypeOK, Session
  <1>5. game' \in Game BY <1>2, <1>3, <1>4 DEF Game
  <1>6. TypeOK' BY <1>5 DEF OInv, TypeOK, Offer, Sidecar, Game, Moments
  <1>7. PubInv' /\ PointedIsWhole'
    BY <1>2, <1>3 DEF OInv, Offer, PubInv, PointedIsWhole, Game
  <1> QED BY <1>1, <1>6, <1>7 DEF OInv

LEMMA GameEndsKeeps == OInv /\ GameEnds => OInv'
  <1> SUFFICES ASSUME OInv, GameEnds PROVE OInv' OBVIOUS
  <1>1. FeedInv' /\ BaselineIsOurs' BY ModLeavesFeed DEF GameEnds
  <1>2. game.of \in Nat /\ ends \in Nat /\ game.of <= ends
    BY ObservationsAssumption DEF OInv, TypeOK, PubInv
  <1>3. ends' \in 0..MaxEnds /\ game'.of <= ends' /\ game'.of \in 0..MaxEnds
    BY <1>2, ObservationsAssumption DEF GameEnds, Loaded
  <1>4. game' \in Game
    BY <1>3, ObservationsAssumption DEF GameEnds, Loaded, Game, Moments, Slot
  <1>5. TypeOK' BY <1>3, <1>4 DEF OInv, TypeOK, GameEnds, Sidecar, Game, Moments
  <1>6. PubInv' /\ PointedIsWhole'
    BY <1>3 DEF OInv, GameEnds, Loaded, PubInv, PointedIsWhole
  <1> QED BY <1>1, <1>5, <1>6 DEF OInv

LEMMA BeginKeeps == OInv /\ Begin => OInv'
  <1> SUFFICES ASSUME OInv, Begin PROVE OInv' OBVIOUS
  <1>1. FeedInv' /\ BaselineIsOurs' BY ModLeavesFeed DEF Begin
  <1>2. game \in Game BY DEF OInv, TypeOK, Game, Moments
  <1>3. OnDisk \in {None} \cup Pointers
    BY Kinds DEF OnDisk, OInv, TypeOK
  <1> DEFINE Goes(at, target) ==
               game' = [game EXCEPT !.seq = @ + 1, !.at = at, !.target = target]
  <1>4. game.seq + 1 \in -1..MaxSeq
    BY <1>2, ObservationsAssumption DEF Begin, Game
  <1>5. since' \in 0..2 BY DEF Begin, OInv, TypeOK
  <1>6. ASSUME NEW at \in {"carry", "slot"}, NEW target \in Slot, Goes(at, target)
        PROVE  game' \in Game
    BY <1>2, <1>4, <1>6 DEF Game, Moments
  <1>7. CASE game.pending # None /\ Goes("carry", game.target) /\ UNCHANGED <<locks, astray>>
    <2>1. game' \in Game BY <1>2, <1>6, <1>7 DEF Game
    <2>2. TypeOK' BY <2>1, <1>5, <1>7 DEF OInv, TypeOK, Begin, Sidecar, Game, Moments
    <2>3. PubInv' /\ PointedIsWhole'
      BY <1>2, <1>7 DEF OInv, Begin, PubInv, PointedIsWhole, Game
    <2> QED BY <1>1, <2>2, <2>3 DEF OInv
  <1>8. CASE /\ game.pending = None /\ game.last # None
             /\ Goes("slot", Aim(game.last)) /\ UNCHANGED <<locks, astray>>
    <2>0. game.last \in Pointers BY <1>2, <1>8 DEF Game
    <2>1. game' \in Game BY <1>6, <1>8, <2>0, AimIsOther
    <2>2. TypeOK' BY <2>1, <1>5, <1>8 DEF OInv, TypeOK, Begin, Sidecar, Game, Moments
    <2>3. Aim(game.last) # game.last.slot BY <2>0, AimIsOther
    <2>4. PubInv' /\ PointedIsWhole'
      BY <1>2, <1>8, <2>3 DEF OInv, Begin, PubInv, PointedIsWhole, Game
    <2> QED BY <1>1, <2>2, <2>4 DEF OInv
  <1>9. CASE /\ game.pending = None /\ game.last = None
             /\ Goes("slot", Aim(OnDisk)) /\ UNCHANGED <<locks, astray>>
    <2>1. game' \in Game BY <1>3, <1>6, <1>9, AimIsOther
    <2>2. TypeOK' BY <2>1, <1>5, <1>9 DEF OInv, TypeOK, Begin, Sidecar, Game, Moments
    <2>3. pointer.is = "names" => Aim(OnDisk) # pointer.slot
      BY <1>3, AimIsOther, Kinds DEF OnDisk, OInv, TypeOK
    <2>4. PubInv' /\ PointedIsWhole'
      BY <1>2, <1>9, <2>3 DEF OInv, Begin, PubInv, PointedIsWhole, Game
    <2> QED BY <1>1, <2>2, <2>4 DEF OInv
  <1>10. CASE /\ game.pending = None /\ game.last = None /\ OnDisk # None
              /\ Goes("slot", Aim(None)) /\ Refused /\ astray' = TRUE
    <2>1. game' \in Game BY <1>6, <1>10, AimIsOther
    <2>2. TypeOK'
      BY <2>1, <1>5, <1>10, RefusedTypes DEF OInv, TypeOK, Begin, Sidecar, Game, Moments
    <2>3. PubInv' /\ PointedIsWhole'
      BY <1>2, <1>10 DEF OInv, Begin, PubInv, PointedIsWhole, Game
    <2> QED BY <1>1, <2>2, <2>3 DEF OInv
  <1> QED BY <1>7, <1>8, <1>9, <1>10 DEF Begin

LEMMA OpenSlotKeeps == OInv /\ OpenSlot => OInv'
  <1> SUFFICES ASSUME OInv, OpenSlot PROVE OInv' OBVIOUS
  <1>1. FeedInv' /\ BaselineIsOurs' BY ModLeavesFeed DEF OpenSlot
  <1>2. game \in Game /\ slots \in [Slot -> Files]
    BY DEF OInv, TypeOK, Game, Moments, Files
  <1>3. CASE /\ slots' = [slots EXCEPT ![game.target] = Torn]
             /\ game' = [game EXCEPT !.at = "fill"] /\ UNCHANGED locks
    <2>1. game' \in Game BY <1>2, <1>3 DEF Game, Moments
    <2>2. slots' \in [Slot -> Files] BY <1>2, <1>3 DEF Files
    <2>3. TypeOK'
      BY <1>3, <2>1, <2>2 DEF OInv, TypeOK, OpenSlot, Sidecar, Game, Moments, Files
    <2>4. game.pending = None BY DEF OInv, PubInv, OpenSlot
    <2>5. ~astray /\ pointer.is = "names" => pointer.slot # game.target
      BY DEF OInv, PubInv, OpenSlot
    <2>6. PubInv' BY <1>2, <1>3, <2>4, <2>5 DEF OInv, OpenSlot, PubInv, Game
    <2>7. pointer.is = "names" => pointer.slot \in Slot BY Kinds DEF OInv, TypeOK
    <2>8. PointedIsWhole'
      BY <1>2, <1>3, <2>5, <2>7 DEF OInv, OpenSlot, PointedIsWhole
    <2> QED BY <1>1, <2>3, <2>6, <2>8 DEF OInv
  <1>4. CASE SlotFails /\ UNCHANGED slots
    <2>1. game' \in Game BY <1>2, <1>4 DEF SlotFails, Game, Moments
    <2>2. TypeOK'
      BY <1>4, <2>1, RefusedTypes
         DEF OInv, TypeOK, OpenSlot, SlotFails, Sidecar, Game, Moments
    <2>3. PubInv' /\ PointedIsWhole'
      BY <1>2, <1>4 DEF OInv, OpenSlot, SlotFails, PubInv, PointedIsWhole, Game
    <2> QED BY <1>1, <2>2, <2>3 DEF OInv
  <1> QED BY <1>3, <1>4 DEF OpenSlot

LEMMA FillSlotKeeps == OInv /\ FillSlot => OInv'
  <1> SUFFICES ASSUME OInv, FillSlot PROVE OInv' OBVIOUS
  <1>1. FeedInv' /\ BaselineIsOurs' BY ModLeavesFeed DEF FillSlot
  <1>2. game \in Game /\ slots \in [Slot -> Files]
    BY DEF OInv, TypeOK, Game, Moments, Files
  <1> DEFINE new == Doc(game.open, game.seq, game.of)
             whole == [slots EXCEPT ![game.target] = new]
  <1>3. new \in Docs
    <2>1. game.open \in Session /\ game.seq \in 0..MaxSeq
      BY <1>2 DEF OInv, PubInv, FillSlot, Game, Session
    <2> QED BY <1>2, <2>1 DEF Doc, Docs, Game
  <1>4. whole \in [Slot -> Files] /\ whole[game.target] = new
    BY <1>2, <1>3 DEF Files, Game
  <1>5. new.is = "doc" BY DEF Doc
  <1>6. game.pending = None BY DEF OInv, PubInv, FillSlot
  <1>7. pointer.is = "names" => pointer.slot \in Slot BY Kinds DEF OInv, TypeOK
  <1>8. \A s \in Slot : slots[s].is = "doc" => whole[s].is = "doc" BY <1>2, <1>5
  <1>9. CASE slots' = whole /\ game' = [game EXCEPT !.at = "commit"] /\ UNCHANGED locks
    <2>1. game' \in Game BY <1>2, <1>9 DEF Game, Moments
    <2>2. TypeOK'
      BY <1>4, <1>9, <2>1 DEF OInv, TypeOK, FillSlot, Sidecar, Game, Moments, Files
    <2>3. PubInv' /\ PointedIsWhole'
      BY <1>2, <1>4, <1>5, <1>6, <1>7, <1>8, <1>9
         DEF OInv, FillSlot, PubInv, PointedIsWhole, Game
    <2> QED BY <1>1, <2>2, <2>3 DEF OInv
  <1>10. CASE slots' \in {slots, whole} /\ SlotFails
    <2>1. game' \in Game BY <1>2, <1>10 DEF SlotFails, Game, Moments
    <2>0. slots' \in [Slot -> Files] BY <1>2, <1>4, <1>10
    <2>2. TypeOK'
      BY <1>10, <2>0, <2>1, RefusedTypes
         DEF OInv, TypeOK, FillSlot, SlotFails, Sidecar, Game, Moments, Files
    <2>3. PubInv' /\ PointedIsWhole'
      BY <1>2, <1>6, <1>7, <1>8, <1>10
         DEF OInv, FillSlot, SlotFails, PubInv, PointedIsWhole, Game
    <2> QED BY <1>1, <2>2, <2>3 DEF OInv
  <1> QED BY <1>9, <1>10 DEF FillSlot

LEMMA CarriedOverTypes == OInv => CarriedOver \in Game
  <1> SUFFICES ASSUME OInv PROVE CarriedOver \in Game OBVIOUS
  <1> USE ObservationsAssumption
  <1>1. game \in Game BY DEF OInv, TypeOK, Game, Moments
  <1>2. Names(game.target) \in Pointers BY <1>1, Kinds DEF Game
  <1>3. CASE game.pending # None /\ game.tries + 1 >= CommitBudget
    <2>1. CarriedOver = [game EXCEPT !.at = "idle", !.pending = None, !.tries = 0]
      BY <1>3 DEF CarriedOver
    <2>2. 0 \in 0..CommitBudget OBVIOUS
    <2> QED BY <1>1, <2>1, <2>2 DEF Game, Moments
  <1>4. CASE game.pending # None /\ ~(game.tries + 1 >= CommitBudget)
    <2>1. game.tries + 1 \in 0..CommitBudget BY <1>1, <1>4 DEF Game
    <2>2. CarriedOver = [game EXCEPT !.at = "idle", !.tries = @ + 1]
      BY <1>1, <1>4 DEF CarriedOver, Game
    <2> QED BY <1>1, <2>1, <2>2 DEF Game, Moments
  <1>5. CASE game.pending = None
    <2>1. game.tries = 0 /\ 1 \in 0..CommitBudget BY <1>5 DEF OInv, PubInv
    <2>2. CarriedOver = [game EXCEPT !.at = "idle", !.tries = 1,
                                     !.pending = Names(game.target)]
      BY <1>1, <1>5, <2>1 DEF CarriedOver, Game
    <2> QED BY <1>1, <1>2, <2>1, <2>2 DEF Game, Moments
  <1> QED BY <1>3, <1>4, <1>5

\* What a failed commit leaves: the slot that is owed is whole, or nothing is owed
\* and the handle may be wrong.
LEMMA CarriedOverOwes ==
    OInv /\ game.at \in {"commit", "committing", "carry", "carrying"} =>
        /\ CarriedOver.at = "idle" /\ CarriedOver.of = game.of
        /\ CarriedOver.pending = None => CarriedOver.tries = 0
        /\ CarriedOver.pending # None => slots[CarriedOver.pending.slot].is = "doc"
  <1> SUFFICES ASSUME OInv, game.at \in {"commit", "committing", "carry", "carrying"}
               PROVE  /\ CarriedOver.at = "idle" /\ CarriedOver.of = game.of
                      /\ CarriedOver.pending = None => CarriedOver.tries = 0
                      /\ CarriedOver.pending # None =>
                            slots[CarriedOver.pending.slot].is = "doc"
    OBVIOUS
  <1>1. game \in Game BY DEF OInv, TypeOK, Game, Moments
  <1>2. Names(game.target) # None /\ Names(game.target).slot = game.target
    BY <1>1, Kinds DEF Names, None
  <1>3. CASE game.pending # None
    BY <1>1, <1>3 DEF CarriedOver, OInv, PubInv, Game
  <1>4. CASE game.pending = None
    BY <1>1, <1>2, <1>4 DEF CarriedOver, OInv, PubInv, Game
  <1> QED BY <1>3, <1>4

\* The pointer that is being written names a slot that is whole.
LEMMA NamedIsWhole ==
    OInv /\ game.at \in {"committing", "carrying"} =>
        LET named == IF game.at = "carrying" THEN game.pending ELSE Names(game.target) IN
        named \in Pointers /\ slots[named.slot] \in Docs
  <1> DEFINE named == IF game.at = "carrying" THEN game.pending ELSE Names(game.target)
  <1> SUFFICES ASSUME OInv, game.at \in {"committing", "carrying"}
               PROVE  named \in Pointers /\ slots[named.slot] \in Docs
    OBVIOUS
  <1>1. game \in Game /\ slots \in [Slot -> Files]
    BY DEF OInv, TypeOK, Game, Moments, Files
  <1>2. named \in Pointers BY <1>1, Kinds DEF OInv, PubInv, Game
  <1>3. named.slot \in Slot BY <1>2, Kinds
  <1>4. slots[named.slot].is = "doc" BY <1>1, Kinds DEF OInv, PubInv, Game
  <1> QED BY <1>1, <1>2, <1>3, <1>4, Kinds

LEMMA PointerFailsKeeps ==
    ASSUME OInv, game.at \in {"commit", "committing", "carry", "carrying"}, PointerFails,
           UNCHANGED <<slots, Sidecar, ends, committed, known, since>>,
           pointer' \in {None, Torn} \cup Pointers,
           pointer'.is = "names" => pointer' = pointer \/ slots[pointer'.slot].is = "doc"
    PROVE  OInv'
  <1>1. FeedInv' /\ BaselineIsOurs' BY ModLeavesFeed
  <1>2. game' \in Game BY CarriedOverTypes DEF PointerFails
  <1>3. locks' \in 0..MaxLocks BY RefusedTypes DEF PointerFails
  <1>4. astray' \in BOOLEAN BY Zenon DEF PointerFails
  <1>5. TypeOK'
    BY <1>2, <1>3, <1>4 DEF OInv, TypeOK, Sidecar, Game, Moments
  <1>6. ~astray' => ~astray /\ game'.pending # None BY DEF PointerFails
  <1>7. PubInv' BY <1>6, CarriedOverOwes DEF OInv, PubInv, PointerFails
  <1>8. PointedIsWhole' BY <1>6 DEF OInv, PointedIsWhole
  <1> QED BY <1>1, <1>5, <1>7, <1>8 DEF OInv

LEMMA OpenPointerKeeps == OInv /\ OpenPointer => OInv'
  <1> SUFFICES ASSUME OInv, OpenPointer PROVE OInv' OBVIOUS
  <1>1. CASE PointerFails /\ UNCHANGED pointer
    BY <1>1, PointerFailsKeeps DEF OpenPointer, OInv, TypeOK
  <1>2. CASE /\ pointer' = Torn /\ UNCHANGED <<locks, astray>>
             /\ game' = [game EXCEPT !.at = IF @ = "commit" THEN "committing" ELSE "carrying"]
    <2>1. game \in Game BY DEF OInv, TypeOK, Game, Moments
    <2>2. game' \in Game BY <1>2, <2>1 DEF Game, Moments
    <2>3. TypeOK' BY <1>2, <2>2 DEF OInv, TypeOK, OpenPointer, Sidecar, Game, Moments
    <2>4. pointer'.is = "torn" BY <1>2, Kinds
    <2>5. PubInv' /\ PointedIsWhole'
      BY <1>2, <2>1, <2>4 DEF OInv, OpenPointer, PubInv, PointedIsWhole, Game
    <2>6. FeedInv' /\ BaselineIsOurs' BY ModLeavesFeed DEF OpenPointer
    <2> QED BY <2>3, <2>5, <2>6 DEF OInv
  <1> QED BY <1>1, <1>2 DEF OpenPointer

LEMMA FillPointerKeeps == OInv /\ FillPointer => OInv'
  <1> SUFFICES ASSUME OInv, FillPointer PROVE OInv' OBVIOUS
  <1> DEFINE named == IF game.at = "carrying" THEN game.pending ELSE Names(game.target)
  <1>1. named \in Pointers /\ slots[named.slot] \in Docs
    BY NamedIsWhole DEF FillPointer
  <1>2. slots[named.slot].is = "doc" BY <1>1 DEF Docs
  <1>3. game \in Game BY DEF OInv, TypeOK, Game, Moments
  <1>4. named.slot \in Slot /\ Aim(named) \in Slot /\ Aim(named) # named.slot
    BY <1>1, Kinds, AimIsOther
  <1>5. CASE pointer' \in {Torn, named} /\ PointerFails /\ UNCHANGED committed
    <2>1. pointer' \in {None, Torn} \cup Pointers BY <1>1, <1>5
    <2>2. pointer'.is = "names" => slots[pointer'.slot].is = "doc" BY <1>2, <1>5, Kinds
    <2> QED BY <1>5, <2>1, <2>2, PointerFailsKeeps DEF FillPointer
  <1> HIDE DEF named
  <1>9. 0 \in 0..CommitBudget BY ObservationsAssumption
  <1>6. ASSUME pointer' = named, committed' = slots[named.slot], astray' = FALSE,
               UNCHANGED locks, game' \in Game, game'.last = named, game'.of = game.of,
               game'.open = game.open, game'.seq = game.seq,
               game'.pending = None, game'.tries = 0,
               game'.at = "idle" \/ (game'.at = "slot" /\ game'.target = Aim(named))
        PROVE  OInv'
    <2>1. astray' \in BOOLEAN BY <1>6, Zenon
    <2>2. TypeOK'
      BY <1>1, <1>6, <2>1 DEF OInv, TypeOK, FillPointer, Sidecar, Game, Moments
    <2>3. PubInv'
      BY <1>4, <1>6 DEF OInv, PubInv, FillPointer
    <2>4. PointedIsWhole' BY <1>2, <1>6 DEF FillPointer, PointedIsWhole
    <2>5. FeedInv' /\ BaselineIsOurs' BY ModLeavesFeed DEF FillPointer
    <2> QED BY <2>2, <2>3, <2>4, <2>5 DEF OInv
  <1>7. CASE /\ pointer' = named /\ committed' = slots[named.slot]
             /\ astray' = FALSE /\ UNCHANGED locks
             /\ game.at = "committing"
             /\ game' = [game EXCEPT !.at = "idle", !.last = named, !.tries = 0]
    <2>1. game' \in Game BY <1>1, <1>3, <1>7, <1>9 DEF Game, Moments
    <2>2. game.pending = None BY <1>7 DEF OInv, PubInv
    <2>3. /\ game'.last = named /\ game'.of = game.of /\ game'.open = game.open
          /\ game'.seq = game.seq /\ game'.pending = None /\ game'.tries = 0
          /\ game'.at = "idle"
      BY <1>3, <1>7, <2>2 DEF Game
    <2>4. game'.at = "idle" \/ (game'.at = "slot" /\ game'.target = Aim(named)) BY <2>3
    <2> QED BY <1>6, <1>7, <2>1, <2>3, <2>4
  <1>8. CASE /\ pointer' = named /\ committed' = slots[named.slot]
             /\ astray' = FALSE /\ UNCHANGED locks
             /\ game' = [game EXCEPT !.at = "slot", !.last = named, !.target = Aim(named),
                                     !.pending = None, !.tries = 0]
    <2>1. game' \in Game BY <1>1, <1>3, <1>4, <1>8, <1>9 DEF Game, Moments
    <2>2. /\ game'.last = named /\ game'.of = game.of /\ game'.open = game.open
          /\ game'.seq = game.seq /\ game'.pending = None /\ game'.tries = 0
          /\ game'.at = "slot" /\ game'.target = Aim(named)
      BY <1>3, <1>8 DEF Game
    <2> QED BY <1>6, <1>8, <2>1, <2>2
  <1> QED BY <1>5, <1>7, <1>8 DEF FillPointer, named

LEMMA NoReadTypes == NoRead \in Feed
  <1>1. <<>> \in Seq(Slot) OBVIOUS
  <1> QED BY <1>1 DEF NoRead, Feed

LEMMA ProbeTypes == OInv => Probe \in Seq(Slot)
  <1> SUFFICES ASSUME OInv PROVE Probe \in Seq(Slot) OBVIOUS
  <1>1. CASE OnDisk = None BY <1>1 DEF Probe, Slot
  <1>2. CASE OnDisk # None
    <2>1. pointer.slot \in Slot BY <1>2, Kinds DEF OnDisk, OInv, TypeOK
    <2>2. Other(pointer.slot) \in Slot BY <2>1, Kinds
    <2> QED BY <1>2, <2>1, <2>2 DEF Probe
  <1> QED BY <1>1, <1>2

\* A step of the read: it leaves the files and the session alone.
LEMMA ReadKeeps ==
    ASSUME OInv, UNCHANGED <<Disk, session, ends>>, feed' \in Feed, locks' \in 0..MaxLocks,
           latest' \in {None} \cup Docs, known' \in {None} \cup Docs, since' \in 0..2,
           FeedInv', BaselineIsOurs'
    PROVE  OInv'
  <1>1. PubInv' /\ PointedIsWhole' BY SidecarLeavesFiles
  <1>2. TypeOK' BY DEF OInv, TypeOK, Disk, Feed
  <1> QED BY <1>1, <1>2 DEF OInv

LEMMA AskKeeps == OInv /\ Ask => OInv'
  <1> SUFFICES ASSUME OInv, Ask PROVE OInv' OBVIOUS
  <1>1. feed \in Feed BY DEF OInv, TypeOK, Feed
  <1>2. feed' \in Feed /\ FeedInv' BY <1>1 DEF Ask, Feed, OInv, FeedInv
  <1>3. BaselineIsOurs' BY DEF Ask, OInv, BaselineIsOurs
  <1>4. locks' \in 0..MaxLocks /\ latest' \in {None} \cup Docs /\ known' \in {None} \cup Docs
        /\ since' \in 0..2
    BY DEF Ask, OInv, TypeOK
  <1> QED BY <1>2, <1>3, <1>4, ReadKeeps DEF Ask

LEMMA ReadPointerKeeps == OInv /\ ReadPointer => OInv'
  <1> SUFFICES ASSUME OInv, ReadPointer PROVE OInv' OBVIOUS
  <1>1. feed \in Feed BY DEF OInv, TypeOK, Feed
  <1>2. feed' \in Feed /\ FeedInv'
    <2>1. CASE feed' = NoRead BY <2>1, NoReadTypes DEF ReadPointer, NoRead, FeedInv
    <2>2. CASE feed' = [feed EXCEPT !.at = "slots", !.order = Probe,
                                    !.pointed = (OnDisk # None)]
      BY <1>1, <2>2, ProbeTypes DEF ReadPointer, Feed, OInv, FeedInv
    <2> QED BY <2>1, <2>2 DEF ReadPointer
  <1>3. BaselineIsOurs' BY DEF ReadPointer, OInv, BaselineIsOurs
  <1>4. locks' \in 0..MaxLocks BY RefusedTypes DEF ReadPointer, OInv, TypeOK
  <1>5. latest' \in {None} \cup Docs /\ known' \in {None} \cup Docs /\ since' \in 0..2
    BY DEF ReadPointer, OInv, TypeOK
  <1> QED BY <1>2, <1>3, <1>4, <1>5, ReadKeeps DEF ReadPointer

\* A file that is usable is a document of the session.
LEMMA UsableIsOurs ==
    OInv => \A s \in Slot : Usable(slots[s]) => slots[s] \in Docs /\ slots[s].session = session
  <1> SUFFICES ASSUME OInv, NEW s \in Slot, Usable(slots[s])
               PROVE  slots[s] \in Docs /\ slots[s].session = session
    OBVIOUS
  <1>1. slots[s] \in Files BY DEF OInv, TypeOK, Files
  <1> QED BY <1>1, Kinds DEF Usable

LEMMA ReadSlotKeeps == OInv /\ ReadSlot => OInv'
  <1> SUFFICES ASSUME OInv, ReadSlot PROVE OInv' OBVIOUS
  <1> DEFINE file == slots[Head(feed.order)]
             rest == Tail(feed.order)
  <1>1. feed \in Feed BY DEF OInv, TypeOK, Feed
  <1>2. Head(feed.order) \in Slot /\ rest \in Seq(Slot) BY <1>1 DEF ReadSlot, Feed
  <1>3. Usable(file) => file \in Docs /\ file.session = session BY <1>2, UsableIsOurs
  <1> HIDE DEF file, rest
  <1>4. feed' \in Feed /\ FeedInv'
    <2>1. CASE ~Usable(file) /\ feed' = [feed EXCEPT !.order = rest]
      BY <1>1, <1>2, <2>1 DEF ReadSlot, Feed, OInv, FeedInv
    <2>2. CASE /\ Usable(file)
               /\ feed' = [feed EXCEPT !.met = @ \cup {file},
                             !.order = IF feed.pointed THEN <<>> ELSE rest]
      <3>1. (IF feed.pointed THEN <<>> ELSE rest) \in Seq(Slot) BY <1>2
      <3>2. feed.met \cup {file} \in SUBSET Docs BY <1>1, <1>3, <2>2 DEF Feed
      <3>3. feed' \in Feed BY <1>1, <2>2, <3>1, <3>2 DEF Feed
      <3>4. feed'.met = feed.met \cup {file} BY <1>1, <2>2 DEF Feed
      <3>5. FeedInv' BY <1>3, <2>2, <3>4 DEF ReadSlot, OInv, FeedInv
      <3> QED BY <3>3, <3>5
    <2>3. CASE feed' = [feed EXCEPT !.order = rest, !.locked = TRUE]
      BY <1>1, <1>2, <2>3 DEF ReadSlot, Feed, OInv, FeedInv
    <2> QED BY <2>1, <2>2, <2>3 DEF ReadSlot, file, rest
  <1>5. BaselineIsOurs' BY DEF ReadSlot, OInv, BaselineIsOurs
  <1>6. locks' \in 0..MaxLocks BY RefusedTypes DEF ReadSlot, OInv, TypeOK
  <1>7. latest' \in {None} \cup Docs /\ known' \in {None} \cup Docs /\ since' \in 0..2
    BY DEF ReadSlot, OInv, TypeOK
  <1> QED BY <1>4, <1>5, <1>6, <1>7, ReadKeeps DEF ReadSlot

LEMMA TakeKeeps == OInv /\ Take => OInv'
  <1> SUFFICES ASSUME OInv, Take PROVE OInv' OBVIOUS
  <1>1. feed' \in Feed /\ FeedInv' BY NoReadTypes DEF Take, NoRead, FeedInv
  <1>2. feed.met \subseteq Docs /\ \A d \in feed.met : d.session = session
    BY DEF OInv, TypeOK, FeedInv
  <1>3. latest' = latest \/ latest' \in feed.met BY DEF Take
  <1>4. latest' \in {None} \cup Docs /\ BaselineIsOurs'
    BY <1>2, <1>3 DEF Take, OInv, TypeOK, BaselineIsOurs
  <1>5. locks' \in 0..MaxLocks /\ known' \in {None} \cup Docs /\ since' \in 0..2
    BY DEF Take, OInv, TypeOK
  <1> QED BY <1>1, <1>4, <1>5, ReadKeeps DEF Take

LEMMA SidecarEndsKeeps == OInv /\ SidecarEnds => OInv'
  <1> SUFFICES ASSUME OInv, SidecarEnds PROVE OInv' OBVIOUS
  <1>1. feed' \in Feed /\ FeedInv' BY NoReadTypes DEF SidecarEnds, NoRead, FeedInv
  <1>2. BaselineIsOurs' BY DEF SidecarEnds, BaselineIsOurs
  <1>3. PubInv' /\ PointedIsWhole' BY SidecarLeavesFiles DEF SidecarEnds
  <1>4. ends' \in 0..MaxEnds /\ session' \in Session
    BY ObservationsAssumption DEF SidecarEnds, OInv, TypeOK
  <1>5. TypeOK' BY <1>1, <1>4 DEF SidecarEnds, OInv, TypeOK, Disk, Feed
  <1> QED BY <1>1, <1>2, <1>3, <1>5 DEF OInv

LEMMA StutterKeeps == OInv /\ UNCHANGED vars => OInv'
  BY DEF vars, OInv, TypeOK, PubInv, PointedIsWhole, FeedInv, BaselineIsOurs

LEMMA StepKeeps == OInv /\ [Next]_vars => OInv'
  BY OfferKeeps, GameEndsKeeps, BeginKeeps, OpenSlotKeeps, FillSlotKeeps, OpenPointerKeeps,
     FillPointerKeeps, AskKeeps, ReadPointerKeeps, ReadSlotKeeps, TakeKeeps,
     SidecarEndsKeeps, StutterKeeps
     DEF Next, Publish, Read

LEMMA Invariance == Spec => []OInv
  BY InitHolds, StepKeeps, PTL DEF Spec

\* Every state of the two processes and the files is of the declared shape,
\* whatever either side fails at (Ipc.lua, ObservationFeed in runtime.py).
THEOREM TypeCorrect == Spec => []TypeOK
  BY Invariance, PTL DEF OInv

\* The pointer of Ipc.lua names a whole slot while the handle that the game has is
\* right about it, for every budget of carried commits and any number of reloads.
THEOREM PointerNamesWholeSlots == Spec => []PointedIsWhole
  BY Invariance, PTL DEF OInv

\* What the observation store of a sidecar starts from was written under the
\* session that this sidecar handshook, for any number of sessions and restarts.
THEOREM BaselineOfThisSession == Spec => []BaselineIsOurs
  BY Invariance, PTL DEF OInv

-----------------------------------------------------------------------------
(* What a read sees.                                                       *)

\* A slot has what was committed last, and where the pointer names the other one,
\* that one is being written or has something newer.
Kept(s) ==
    /\ slots[s] = committed
    /\ pointer.is = "names" /\ pointer.slot # s /\ slots[pointer.slot].is = "doc"
          => slots[pointer.slot].seq > committed.seq

\* The game that is loaded made the last commit.
Its == committed # None /\ committed.game = game.of

\* A document that the game owes, or is making, a commit for is its own, and newer
\* than its last one.
Owed(d) ==
    /\ d.game = game.of /\ d.session <= game.open
    /\ Its => d.seq > committed.seq /\ d.session >= committed.session

\* What the game's handle knows of its last commit, and never touches.
LastInv ==
    /\ game.open <= session
    /\ committed # None => committed.game <= game.of
    /\ game.last # None => Its
    /\ Its => /\ game.last # None /\ Kept(game.last.slot)
              /\ committed.seq <= game.seq /\ committed.session <= game.open
              /\ game.at # "idle" => committed.seq < game.seq
              /\ game.at \in {"slot", "fill", "commit", "committing"}
                    => game.target # game.last.slot
              /\ game.pending # None => game.pending.slot # game.last.slot

\* A commit that is owed, and one that is being made.
OwedInv ==
    /\ game.pending # None =>
          /\ Owed(slots[game.pending.slot]) /\ slots[game.pending.slot].seq <= game.seq
          /\ game.at # "idle" => slots[game.pending.slot].seq < game.seq
    /\ game.at \in {"commit", "committing"} =>
          Owed(slots[game.target]) /\ slots[game.target].seq = game.seq

HandleInv == LastInv /\ OwedInv

\* The last commit outlives its game until the next one begins to publish, and
\* what was known of it is not ahead of it.
CommitInv ==
    /\ committed # None => committed.session <= session
    /\ committed # None /\ committed.game + 1 = game.of /\ game.seq = -1
          => \E s \in Slot : Kept(s)
    /\ known # None =>
          /\ committed # None
          /\ known.game < committed.game
             \/ (known.game = committed.game /\ known.seq <= committed.seq)
    /\ since = 0 => game.at = "idle"

\* A read has met nothing before it came to the slots, and is over when it met the
\* slot that the pointer named.
ReadShape ==
    /\ feed.at = "idle" => feed = NoRead
    /\ feed.at = "pointer" => feed.met = {}
    /\ feed.pointed /\ feed.met # {} => feed.order = <<>>

\* A read of which the property speaks.
Minded == /\ feed.at # "idle" /\ known # None /\ known.session = session /\ SameGame
          /\ since <= 1 /\ ~feed.locked

NotOlder(f) == Usable(f) => f.seq >= known.seq

\* A slot with a document that serves the read, which the publication under way,
\* or the only one that may begin, leaves alone.
Steady(z) ==
    /\ Usable(slots[z]) /\ NotOlder(slots[z])
    /\ game.of = known.game =>
          /\ game.at \in {"slot", "fill", "commit", "committing"} => game.target # z
          /\ game.at \in {"carry", "carrying"} => game.pending.slot = z
          /\ since = 0 => IF game.pending # None THEN game.pending.slot = z
                          ELSE game.last.slot = z

\* The read has met what serves it, or will come to the steady slot; and a slot it
\* would end at serves it.
Serves(z) ==
    /\ feed.at = "pointer" /\ pointer.is = "names" => NotOlder(slots[pointer.slot])
    /\ feed.at = "slots" =>
          /\ Len(feed.order) <= 2
          /\ (\E d \in feed.met : d.seq >= known.seq)
             \/ (\E i \in DOMAIN feed.order : feed.order[i] = z)
          /\ feed.pointed /\ feed.order # <<>> => NotOlder(slots[Head(feed.order)])

ReadInv == Minded => \E z \in Slot : Steady(z) /\ Serves(z)

SInv == OInv /\ HandleInv /\ CommitInv /\ ReadShape /\ ReadInv

\* The numbers of the handle, of the documents and of the history.
LEMMA Shapes ==
    OInv => /\ game \in Game /\ slots \in [Slot -> Files]
            /\ game.of \in Nat /\ game.open \in Nat /\ game.seq \in Int
            /\ session \in Nat /\ since \in 0..2
            /\ \A s \in Slot : slots[s].is = "doc" => slots[s] \in Docs
            /\ committed # None => committed \in Docs
            /\ known # None => known \in Docs
            /\ \A d \in Docs : d.seq \in Nat /\ d.session \in Nat /\ d.game \in Nat
            /\ game.pending # None => game.pending.slot \in Slot
            /\ game.last # None => game.last.slot \in Slot
            /\ game.target \in Slot
            /\ pointer.is = "names" => pointer.slot \in Slot
  <1> SUFFICES ASSUME OInv
               PROVE  /\ game \in Game /\ slots \in [Slot -> Files]
                      /\ game.of \in Nat /\ game.open \in Nat /\ game.seq \in Int
                      /\ session \in Nat /\ since \in 0..2
                      /\ \A s \in Slot : slots[s].is = "doc" => slots[s] \in Docs
                      /\ committed # None => committed \in Docs
                      /\ known # None => known \in Docs
                      /\ \A d \in Docs : d.seq \in Nat /\ d.session \in Nat /\ d.game \in Nat
                      /\ game.pending # None => game.pending.slot \in Slot
                      /\ game.last # None => game.last.slot \in Slot
                      /\ game.target \in Slot
                      /\ pointer.is = "names" => pointer.slot \in Slot
    OBVIOUS
  <1> USE ObservationsAssumption
  <1>1. game \in Game /\ slots \in [Slot -> Files]
    BY DEF OInv, TypeOK, Game, Moments, Files
  <1>2. game.of \in Nat /\ game.open \in Nat /\ game.seq \in Int /\ game.target \in Slot
    BY <1>1 DEF Game
  <1>3. \A s \in Slot : slots[s].is = "doc" => slots[s] \in Docs BY <1>1, Kinds
  <1>4. /\ session \in Nat /\ since \in 0..2 /\ (committed # None => committed \in Docs)
        /\ (known # None => known \in Docs)
    BY DEF OInv, TypeOK, Session
  <1>5. \A d \in Docs : d.seq \in Nat /\ d.session \in Nat /\ d.game \in Nat
    BY DEF Docs, Session
  <1>6. /\ game.pending # None => game.pending.slot \in Slot
        /\ game.last # None => game.last.slot \in Slot
        /\ pointer.is = "names" => pointer.slot \in Slot
    BY <1>1, Kinds DEF Game, OInv, TypeOK
  <1> QED BY <1>1, <1>2, <1>3, <1>4, <1>5, <1>6

\* Where nothing but the game's moment, its number and its target move, its last
\* commit and the one it owes stay what they are.
LEMMA OfferHandle == OInv /\ HandleInv /\ Offer => HandleInv'
  <1> SUFFICES ASSUME OInv, HandleInv, Offer PROVE HandleInv' OBVIOUS
  <1>1. /\ game'.open = session /\ game'.of = game.of /\ game'.seq = game.seq
        /\ game'.at = "idle" /\ game'.last = game.last /\ game'.pending = game.pending
        /\ game.at = "idle"
    BY Shapes DEF Offer, Game
  <1>2. Its' = Its /\ \A s \in Slot : Kept(s)' = Kept(s)
    BY <1>1 DEF Offer, Its, Kept
  <1>3. game.open <= session BY DEF HandleInv, LastInv
  <1>4. LastInv'
    BY <1>1, <1>2, <1>3, Shapes DEF Offer, Sidecar, HandleInv, LastInv, Its
  <1>5. OwedInv'
    BY <1>1, <1>2, <1>3, Shapes DEF Offer, Sidecar, HandleInv, OwedInv, Owed, OInv, PubInv, Its
  <1> QED BY <1>4, <1>5 DEF HandleInv

LEMMA BeginHandle == OInv /\ HandleInv /\ Begin => HandleInv'
  <1> SUFFICES ASSUME OInv, HandleInv, Begin PROVE HandleInv' OBVIOUS
  <1>1. /\ game'.open = game.open /\ game'.of = game.of /\ game'.seq = game.seq + 1
        /\ game'.at \in {"carry", "slot"} /\ game'.last = game.last
        /\ game'.pending = game.pending /\ game.at = "idle"
        /\ game'.at = "slot" => game.pending = None
        /\ game'.at = "slot" /\ game.last # None => game'.target = Aim(game.last)
    BY Shapes DEF Begin, Game
  <1>2. Its' = Its /\ \A s \in Slot : Kept(s)' = Kept(s)
    BY <1>1 DEF Begin, Its, Kept
  <1>3. game.last # None => Aim(game.last) # game.last.slot
    BY Shapes, AimIsOther DEF Game
  <1>4. LastInv'
    BY <1>1, <1>2, <1>3, Shapes DEF Begin, Sidecar, HandleInv, LastInv, Its
  <1>5. OwedInv'
    BY <1>1, <1>2, Shapes DEF Begin, HandleInv, OwedInv, Owed, OInv, PubInv, Its
  <1> QED BY <1>4, <1>5 DEF HandleInv

LEMMA OpenSlotHandle == OInv /\ HandleInv /\ OpenSlot => HandleInv'
  <1> SUFFICES ASSUME OInv, HandleInv, OpenSlot PROVE HandleInv' OBVIOUS
  <1>1. /\ game'.open = game.open /\ game'.of = game.of /\ game'.seq = game.seq
        /\ game'.at \in {"fill", "idle"} /\ game'.last = game.last
        /\ game'.target = game.target /\ game'.pending = None /\ game.pending = None
        /\ game.at = "slot"
    BY Shapes DEF OpenSlot, SlotFails, Game, OInv, PubInv
  <1>2. \A s \in Slot : slots'[s] = slots[s] \/ (s = game.target /\ slots'[s] = Torn)
    BY Shapes DEF OpenSlot
  <1>3. Its' = Its BY <1>1 DEF OpenSlot, Its
  <1>4. Its => Kept(game.last.slot)'
    BY <1>1, <1>2, Shapes, Kinds DEF OpenSlot, HandleInv, LastInv, Kept
  <1>5. LastInv'
    BY <1>1, <1>3, <1>4, Shapes DEF OpenSlot, Sidecar, HandleInv, LastInv, Its
  <1>6. OwedInv' BY <1>1 DEF OwedInv
  <1> QED BY <1>5, <1>6 DEF HandleInv

LEMMA FillSlotHandle == OInv /\ HandleInv /\ FillSlot => HandleInv'
  <1> SUFFICES ASSUME OInv, HandleInv, FillSlot PROVE HandleInv' OBVIOUS
  <1> DEFINE new == Doc(game.open, game.seq, game.of)
  <1>1. /\ game'.open = game.open /\ game'.of = game.of /\ game'.seq = game.seq
        /\ game'.at \in {"commit", "idle"} /\ game'.last = game.last
        /\ game'.target = game.target /\ game'.pending = None /\ game.pending = None
        /\ game.at = "fill"
    BY Shapes DEF FillSlot, SlotFails, Game, OInv, PubInv
  <1>2. /\ \A s \in Slot : slots'[s] = slots[s] \/ (s = game.target /\ slots'[s] = new)
        /\ game'.at = "commit" => slots'[game.target] = new
    BY <1>1, Shapes DEF FillSlot, SlotFails, Game
  <1>3. new.seq = game.seq /\ new.game = game.of /\ new.session = game.open BY DEF Doc
  <1> HIDE DEF new
  <1>4. Its' = Its BY <1>1 DEF FillSlot, Its
  <1>5. Its => Kept(game.last.slot)'
    BY <1>1, <1>2, <1>3, Shapes DEF FillSlot, HandleInv, LastInv, Kept
  <1>6. LastInv'
    BY <1>1, <1>4, <1>5, Shapes DEF FillSlot, Sidecar, HandleInv, LastInv, Its
  <1>7. /\ new.game = game'.of /\ new.session <= game'.open
        /\ Its' => new.seq > committed'.seq /\ new.session >= committed'.session
    BY <1>1, <1>3, <1>4, Shapes DEF FillSlot, HandleInv, LastInv, Its
  <1>8. OwedInv'
    BY <1>1, <1>2, <1>3, <1>7 DEF OwedInv, Owed
  <1> QED BY <1>6, <1>8 DEF HandleInv

\* A commit that failed is owed, or is dropped.
LEMMA PointerFailsHandle ==
    ASSUME OInv, HandleInv, PointerFails, game.at \in {"commit", "committing", "carry", "carrying"},
           UNCHANGED <<slots, Sidecar, committed>>,
           pointer'.is = "names" => \/ pointer' = pointer
                                    \/ game.at \in {"commit", "committing"}
                                       /\ pointer'.slot = game.target
                                    \/ game.at \in {"carry", "carrying"}
                                       /\ pointer'.slot = game.pending.slot
    PROVE  HandleInv'
  <1>1. /\ game'.open = game.open /\ game'.of = game.of /\ game'.seq = game.seq
        /\ game'.at = "idle" /\ game'.last = game.last
    BY Shapes DEF PointerFails, CarriedOver, Game
  <1>2. \/ game'.pending = None
        \/ game.pending # None /\ game'.pending = game.pending
        \/ game.at \in {"commit", "committing"} /\ game'.pending = Names(game.target)
    BY Shapes DEF PointerFails, CarriedOver, Game, OInv, PubInv
  <1>3. Its' = Its BY <1>1 DEF Its
  <1>4. Names(game.target).slot = game.target BY Shapes, Kinds
  <1>5. game.at \in {"carry", "carrying"} => game.pending # None BY DEF OInv, PubInv
  <1>6. Its => Kept(game.last.slot)'
    BY <1>1, <1>5, Shapes DEF HandleInv, LastInv, OwedInv, Owed, Kept, Its
  <1>7. LastInv'
    BY <1>1, <1>2, <1>3, <1>4, <1>6, Shapes DEF Sidecar, HandleInv, LastInv, Its
  <1>8. \A d : Owed(d)' = Owed(d) BY <1>1, <1>3 DEF Owed
  <1>9. OwedInv'
    BY <1>1, <1>2, <1>4, <1>8, Shapes DEF HandleInv, OwedInv, Owed
  <1> QED BY <1>7, <1>9 DEF HandleInv

LEMMA OpenPointerHandle == OInv /\ HandleInv /\ OpenPointer => HandleInv'
  <1> SUFFICES ASSUME OInv, HandleInv, OpenPointer PROVE HandleInv' OBVIOUS
  <1>1. CASE PointerFails /\ UNCHANGED pointer
    BY <1>1, PointerFailsHandle DEF OpenPointer
  <1>2. CASE /\ pointer' = Torn
             /\ game' = [game EXCEPT !.at = IF @ = "commit" THEN "committing" ELSE "carrying"]
    <2>1. /\ game'.open = game.open /\ game'.of = game.of /\ game'.seq = game.seq
          /\ game'.last = game.last /\ game'.target = game.target
          /\ game'.pending = game.pending
          /\ \/ game.at = "commit" /\ game'.at = "committing"
             \/ game.at = "carry" /\ game'.at = "carrying"
      BY <1>2, Shapes DEF OpenPointer, Game
    <2>2. Its' = Its /\ pointer'.is # "names" BY <1>2, <2>1, Kinds DEF OpenPointer, Its
    <2>3. \A d : Owed(d)' = Owed(d) BY <2>1, <2>2 DEF Owed, OpenPointer
    <2>4. \A s \in Slot : Kept(s) => Kept(s)' BY <2>2 DEF Kept, OpenPointer
    <2>5. LastInv'
      BY <2>1, <2>2, <2>4, Shapes DEF OpenPointer, Sidecar, HandleInv, LastInv, Its
    <2>6. OwedInv'
      BY <2>1, <2>2, <2>3, Shapes DEF OpenPointer, HandleInv, OwedInv
    <2> QED BY <2>5, <2>6 DEF HandleInv
  <1> QED BY <1>1, <1>2 DEF OpenPointer

\* The pointer that is being written names what the game owes, or is committing:
\* a document of its own that is newer than its last one, in the other slot.
LEMMA NamedIsNewer ==
    OInv /\ HandleInv /\ game.at \in {"committing", "carrying"} =>
        LET named == IF game.at = "carrying" THEN game.pending ELSE Names(game.target) IN
        /\ Owed(slots[named.slot]) /\ slots[named.slot].seq <= game.seq
        /\ game.at = "carrying" => slots[named.slot].seq < game.seq
        /\ Its => named.slot # game.last.slot
  BY Shapes, Kinds DEF HandleInv, LastInv, OwedInv, OInv, PubInv

LEMMA FillPointerHandle == OInv /\ HandleInv /\ FillPointer => HandleInv'
  <1> SUFFICES ASSUME OInv, HandleInv, FillPointer PROVE HandleInv' OBVIOUS
  <1> DEFINE named == IF game.at = "carrying" THEN game.pending ELSE Names(game.target)
             d == slots[named.slot]
  <1>1. named \in Pointers /\ d \in Docs BY NamedIsWhole DEF FillPointer
  <1>2. named.slot \in Slot /\ Aim(named) # named.slot BY <1>1, Kinds, AimIsOther
  <1>3. /\ Owed(d) /\ d.seq <= game.seq
        /\ game.at = "carrying" => d.seq < game.seq
    BY NamedIsNewer DEF FillPointer
  <1>4. named.slot = IF game.at = "carrying" THEN game.pending.slot ELSE game.target
    BY Shapes, Kinds
  <1>5. CASE pointer' \in {Torn, named} /\ PointerFails /\ UNCHANGED committed
    BY <1>4, <1>5, Kinds, PointerFailsHandle DEF FillPointer
  <1>6. d # None /\ d.seq \in Nat /\ d.session \in Nat /\ d.game \in Nat
    BY <1>1, Shapes, Kinds
  <1>7. named # None BY <1>1, Kinds
  <1> HIDE DEF named, d
  <1>8. ASSUME pointer' = named, committed' = d, game'.of = game.of, game'.open = game.open,
               game'.seq = game.seq, game'.last = named, game'.pending = None,
               \/ game'.at = "idle"
               \/ game'.at = "slot" /\ game'.target = Aim(named) /\ game.at = "carrying"
        PROVE  HandleInv'
    <2>1. slots'[game'.last.slot] = committed' /\ pointer' = game'.last
      BY <1>8 DEF FillPointer, d
    <2>2. LastInv'
      <3>1. game'.open <= session'
        BY <1>8 DEF FillPointer, Sidecar, HandleInv, LastInv
      <3>2. committed'.game = game'.of /\ committed'.session <= game'.open
            /\ committed'.seq <= game'.seq /\ Its'
        BY <1>3, <1>6, <1>8 DEF Owed, Its
      <3>3. game'.at # "idle" => committed'.seq < game'.seq /\ game'.target # named.slot
        BY <1>2, <1>3, <1>8
      <3>4. Kept(game.last.slot)' BY <2>1 DEF Kept
      <3>5. game'.last # None BY <1>7, <1>8
      <3>6. game'.at # "idle" => game'.target # game'.last.slot BY <3>3, <1>8
      <3> QED BY <1>6, <1>8, <3>1, <3>2, <3>3, <3>4, <3>5, <3>6, Shapes DEF LastInv, FillPointer
    <2>3. OwedInv' BY <1>8 DEF OwedInv
    <2> QED BY <2>2, <2>3 DEF HandleInv
  <1>9. CASE /\ pointer' = named /\ committed' = d /\ game.at = "committing"
             /\ game' = [game EXCEPT !.at = "idle", !.last = named, !.tries = 0]
    <2>1. game.pending = None BY <1>9 DEF OInv, PubInv
    <2>2. /\ game'.of = game.of /\ game'.open = game.open /\ game'.seq = game.seq
          /\ game'.last = named /\ game'.pending = None /\ game'.at = "idle"
      BY <1>9, <2>1, Shapes DEF Game
    <2> QED BY <1>8, <1>9, <2>2
  <1>10. CASE /\ pointer' = named /\ committed' = d /\ game.at # "committing"
              /\ game' = [game EXCEPT !.at = "slot", !.last = named, !.target = Aim(named),
                                      !.pending = None, !.tries = 0]
    <2>1. /\ game'.of = game.of /\ game'.open = game.open /\ game'.seq = game.seq
          /\ game'.last = named /\ game'.pending = None /\ game'.at = "slot"
          /\ game'.target = Aim(named) /\ game.at = "carrying"
      BY <1>10, Shapes DEF Game, FillPointer
    <2> QED BY <1>8, <1>10, <2>1
  <1> QED BY <1>5, <1>9, <1>10 DEF FillPointer, named, d

LEMMA GameEndsHandle == OInv /\ HandleInv /\ GameEnds => HandleInv'
  <1> SUFFICES ASSUME OInv, HandleInv, GameEnds PROVE HandleInv' OBVIOUS
  <1>1. /\ game'.of = game.of + 1 /\ game'.open = 0 /\ game'.at = "idle"
        /\ game'.last = None /\ game'.pending = None
    BY DEF GameEnds, Loaded
  <1>2. committed # None => committed.game \in Nat /\ committed.game <= game.of
    BY Shapes DEF HandleInv, LastInv
  <1>3. ~Its' BY <1>1, <1>2, Shapes DEF GameEnds, Its
  <1>4. LastInv'
    BY <1>1, <1>2, <1>3, Shapes DEF GameEnds, Sidecar, LastInv
  <1>5. OwedInv' BY <1>1 DEF OwedInv
  <1> QED BY <1>4, <1>5 DEF HandleInv

LEMMA SidecarHandle ==
    OInv /\ HandleInv /\ UNCHANGED Disk /\ session' \in {session, session + 1} => HandleInv'
  BY Shapes DEF Disk, HandleInv, LastInv, OwedInv, Owed, Its, Kept

\* What was known of the game that is loaded is not ahead of its last commit.
LEMMA KnownIsBehind ==
    OInv /\ HandleInv /\ CommitInv /\ known # None =>
        /\ known.game <= game.of
        /\ known.game = game.of => Its /\ known.seq <= committed.seq /\ game.last # None
  BY Shapes DEF HandleInv, LastInv, CommitInv, Its

\* Between two commits the files that count are left alone, and no game begins.
LEMMA CommitStays ==
    ASSUME OInv, HandleInv, CommitInv, HandleInv', UNCHANGED <<committed, known, session>>,
           since' = since, game.at # "idle", game'.seq = game.seq, game'.of = game.of
    PROVE  CommitInv'
  <1>1. since # 0 BY DEF CommitInv
  <1>2. game.seq # -1 BY Shapes DEF OInv, PubInv
  <1> QED BY <1>1, <1>2 DEF CommitInv

LEMMA ModCommit == OInv /\ HandleInv /\ CommitInv /\ (Offer \/ Publish) => CommitInv'
  <1> SUFFICES ASSUME OInv, HandleInv, CommitInv, Offer \/ Publish PROVE CommitInv' OBVIOUS
  <1>1. HandleInv'
    BY OfferHandle, BeginHandle, OpenSlotHandle, FillSlotHandle, OpenPointerHandle,
       FillPointerHandle DEF Publish
  <1>2. CASE Offer
    <2>1. game'.of = game.of /\ game'.seq = game.seq /\ game'.at = game.at
      BY <1>2, Shapes DEF Offer, Game
    <2>2. \A s \in Slot : Kept(s)' = Kept(s) BY <1>2 DEF Offer, Kept
    <2> QED BY <1>2, <2>1, <2>2 DEF Offer, Sidecar, CommitInv
  <1>3. CASE Begin
    <2>1. game'.seq = game.seq + 1 /\ game.seq \in -1..MaxSeq BY <1>3, Shapes DEF Begin, Game
    <2>2. game'.seq # -1 BY <2>1, ObservationsAssumption
    <2>3. since' # 0 BY <1>3, Shapes DEF Begin
    <2> QED BY <1>3, <2>2, <2>3 DEF Begin, Sidecar, CommitInv
  <1>4. CASE OpenSlot
    <2>1. game'.of = game.of /\ game'.seq = game.seq
      BY <1>4, Shapes DEF OpenSlot, SlotFails, Game
    <2> QED BY <1>1, <1>4, <2>1, CommitStays DEF OpenSlot, Sidecar
  <1>5. CASE FillSlot
    <2>1. game'.of = game.of /\ game'.seq = game.seq
      BY <1>5, Shapes DEF FillSlot, SlotFails, Game
    <2> QED BY <1>1, <1>5, <2>1, CommitStays DEF FillSlot, Sidecar
  <1>6. CASE OpenPointer
    <2>1. game'.of = game.of /\ game'.seq = game.seq
      BY <1>6, Shapes DEF OpenPointer, PointerFails, CarriedOver, Game
    <2> QED BY <1>1, <1>6, <2>1, CommitStays DEF OpenPointer, Sidecar
  <1>7. CASE FillPointer
    <2> DEFINE named == IF game.at = "carrying" THEN game.pending ELSE Names(game.target)
    <2>1. game'.of = game.of /\ game'.seq = game.seq
      BY <1>7, Shapes DEF FillPointer, PointerFails, CarriedOver, Game
    <2>2. CASE UNCHANGED committed
      BY <1>1, <1>7, <2>1, <2>2, CommitStays DEF FillPointer, Sidecar
    <2>3. CASE committed' = slots[named.slot]
      <3>1. /\ slots[named.slot].game = game.of /\ slots[named.slot].session <= game.open
            /\ Its => slots[named.slot].seq > committed.seq
        BY <1>7, NamedIsNewer DEF FillPointer, Owed
      <3>2. slots[named.slot] \in Docs BY <1>7, NamedIsWhole DEF FillPointer
      <3> HIDE DEF named
      <3>3. committed' \in Docs /\ committed' # None BY <2>3, <3>2, Kinds
      <3>4. committed'.session <= session'
        BY <1>7, <2>3, <3>1, <3>3, Shapes DEF FillPointer, Sidecar, HandleInv, LastInv
      <3>5. committed'.game + 1 # game'.of BY <2>1, <2>3, <3>1, Shapes
      <3>6. known' # None => known'.game < committed'.game
                             \/ (known'.game = committed'.game /\ known'.seq <= committed'.seq)
        <4> SUFFICES ASSUME known # None
                     PROVE  known.game < committed'.game
                            \/ (known.game = committed'.game /\ known.seq <= committed'.seq)
          BY <1>7 DEF FillPointer
        <4>1. /\ known.game <= game.of
              /\ known.game = game.of => Its /\ known.seq <= committed.seq
          BY KnownIsBehind
        <4>2. known.game \in Nat /\ known.seq \in Nat /\ game.of \in Nat
              /\ (Its => committed.seq \in Nat) /\ committed'.seq \in Nat
          BY <3>3, Shapes DEF Its
        <4>3. committed'.game = game.of /\ (Its => committed'.seq > committed.seq)
          BY <2>3, <3>1
        <4> QED BY <4>1, <4>2, <4>3
      <3>7. since' # 0 BY <1>7 DEF FillPointer, CommitInv
      <3> QED BY <3>3, <3>4, <3>5, <3>6, <3>7 DEF CommitInv
    <2> QED BY <1>7, <2>2, <2>3 DEF FillPointer
  <1> QED BY <1>2, <1>3, <1>4, <1>5, <1>6, <1>7 DEF Publish

LEMMA GameEndsCommit == OInv /\ HandleInv /\ CommitInv /\ GameEnds => CommitInv'
  <1> SUFFICES ASSUME OInv, HandleInv, CommitInv, GameEnds PROVE CommitInv' OBVIOUS
  <1>1. game'.of = game.of + 1 /\ game'.at = "idle" BY DEF GameEnds, Loaded
  <1>2. \A s \in Slot : Kept(s)' = Kept(s) BY DEF GameEnds, Kept
  <1>3. ASSUME committed # None, committed.game + 1 = game'.of
        PROVE  \E s \in Slot : Kept(s)'
    BY <1>1, <1>2, <1>3, Shapes DEF HandleInv, LastInv, Its
  <1> QED BY <1>1, <1>3 DEF GameEnds, Sidecar, CommitInv

LEMMA SidecarCommit ==
    ASSUME OInv, HandleInv, CommitInv, UNCHANGED Disk, session' \in {session, session + 1},
           \/ UNCHANGED <<known, since>>
           \/ known' = committed /\ (since' = 0 => game.at = "idle")
    PROVE  CommitInv'
  <1>1. \A s \in Slot : Kept(s)' = Kept(s) BY DEF Disk, Kept
  <1>2. committed # None => committed.session <= session' BY Shapes DEF CommitInv
  <1>3. committed # None => committed.seq <= committed.seq BY Shapes
  <1> QED BY <1>1, <1>2, <1>3 DEF Disk, CommitInv

LEMMA ReadCommit ==
    OInv /\ HandleInv /\ CommitInv /\ (Read \/ SidecarEnds) => HandleInv' /\ CommitInv'
  <1> SUFFICES ASSUME OInv, HandleInv, CommitInv, Read \/ SidecarEnds
               PROVE  HandleInv' /\ CommitInv'
    OBVIOUS
  <1>1. UNCHANGED Disk /\ session' \in {session, session + 1}
    BY DEF Read, Ask, ReadPointer, ReadSlot, Take, SidecarEnds
  <1>2. \/ UNCHANGED <<known, since>>
        \/ known' = committed /\ (since' = 0 => game.at = "idle")
    BY DEF Read, Ask, ReadPointer, ReadSlot, Take, SidecarEnds
  <1> QED BY <1>1, <1>2, SidecarHandle, SidecarCommit

LEMMA ShapeKept == OInv /\ ReadShape /\ [Next]_vars => ReadShape'
  <1> SUFFICES ASSUME OInv, ReadShape, [Next]_vars PROVE ReadShape' OBVIOUS
  <1>0. feed \in Feed BY DEF OInv, TypeOK, Feed
  <1>1. CASE feed' = feed BY <1>1 DEF ReadShape
  <1>2. CASE feed' = NoRead BY <1>2 DEF ReadShape, NoRead
  <1>3. CASE Ask BY <1>0, <1>3 DEF Ask, ReadShape, NoRead, Feed
  <1>4. CASE feed' # NoRead /\ ReadPointer BY <1>0, <1>4 DEF ReadPointer, ReadShape, Feed
  <1>5. CASE ReadSlot
    <2>1. feed'.at = "slots" BY <1>0, <1>5 DEF ReadSlot, Feed
    <2>2. feed.pointed /\ feed.met # {} => FALSE BY <1>5 DEF ReadSlot, ReadShape
    <2>3. feed'.pointed = feed.pointed BY <1>0, <1>5 DEF ReadSlot, Feed
    <2>4. feed.pointed => feed'.met = feed.met \/ feed'.order = <<>>
      BY <1>0, <1>5 DEF ReadSlot, Feed
    <2> QED BY <2>1, <2>2, <2>3, <2>4 DEF ReadShape
  <1>6. CASE ~(ReadPointer \/ Ask \/ ReadSlot)
    BY <1>1, <1>2, <1>6
       DEF Next, Offer, Publish, Begin, OpenSlot, FillSlot, OpenPointer, FillPointer,
           GameEnds, Read, Take, SidecarEnds, Sidecar, vars
  <1> QED BY <1>2, <1>3, <1>4, <1>5, <1>6

\* While the game that is loaded has not made the last commit known to a read, a
\* step of it that the read may still be served after is no publication.
LEMMA MindedBackward ==
    ASSUME OInv, HandleInv, CommitInv, UNCHANGED Sidecar, known' = known,
           since' = since \/ (since' # 2 => since' # 0 /\ since = 0),
           \/ game'.of = game.of /\ game'.seq \in {game.seq, game.seq + 1}
           \/ game'.of = game.of + 1,
           Minded'
    PROVE  /\ Minded
           /\ game'.seq # game.seq /\ game'.of = game.of => game.of = known.game
           /\ game'.of # game.of => game.of = known.game
  <1>1. known # None /\ known \in Docs /\ known.game \in Nat BY Shapes DEF Minded
  <1>2. known.game <= game.of BY <1>1, KnownIsBehind
  <1>3. game'.of = game.of + 1 => game.of = known.game
    BY <1>1, <1>2, Shapes DEF Minded, SameGame
  <1>4. game.seq \in -1..MaxSeq BY Shapes DEF Game
  <1>5. SameGame /\ (game'.seq # game.seq /\ game'.of = game.of => game.of = known.game)
    BY <1>1, <1>3, <1>4, ObservationsAssumption, Shapes DEF Minded, SameGame
  <1>6. since <= 1 BY Shapes DEF Minded
  <1> QED BY <1>3, <1>5, <1>6, Shapes DEF Minded, Sidecar

\* What the mod may do to the files while a read is minded: a slot keeps its
\* document, is torn, or gets one that is not older, and so does what the pointer
\* names; and the steady slot stays what it is.
LEMMA ModRead ==
    ASSUME UNCHANGED Sidecar, known' = known, NEW z \in Slot, Serves(z),
           \A s \in Slot : slots'[s] = slots[s] \/ ~Usable(slots'[s])
                           \/ slots'[s].seq >= known.seq,
           feed.at = "slots" /\ feed.order # <<>> => Head(feed.order) \in Slot,
           pointer'.is = "names" => pointer'.slot \in Slot,
           \/ pointer' = pointer
           \/ pointer'.is = "names" => NotOlder(slots'[pointer'.slot])
    PROVE  Serves(z)'
  <1>1. \A f : Usable(f)' = Usable(f) /\ NotOlder(f)' = NotOlder(f)
    BY DEF Usable, NotOlder, Sidecar
  <1>2. \A s \in Slot : NotOlder(slots[s]) => NotOlder(slots'[s]) BY DEF NotOlder
  <1>3. feed'.at = "pointer" /\ pointer'.is = "names" => NotOlder(slots'[pointer'.slot])
    BY <1>2 DEF Serves, Sidecar
  <1>4. feed.at = "slots" /\ feed.pointed /\ feed.order # <<>>
            => NotOlder(slots'[Head(feed.order)])
    BY <1>2 DEF Serves
  <1>5. feed'.at = "pointer" /\ pointer'.is = "names" => NotOlder(slots[pointer.slot])'
    BY <1>1, <1>3 DEF NotOlder, Usable, Sidecar
  <1>6. feed'.at = "slots" /\ feed'.pointed /\ feed'.order # <<>>
            => NotOlder(slots[Head(feed.order)])'
    BY <1>1, <1>4 DEF NotOlder, Usable, Sidecar
  <1> QED BY <1>5, <1>6 DEF Serves, Sidecar

\* The slots that a read comes to.
LEMMA HeadIsSlot ==
    OInv => (feed.order # <<>> => Head(feed.order) \in Slot)
            /\ (pointer.is = "names" => pointer.slot \in Slot)
  BY Kinds DEF OInv, TypeOK

\* A file that is torn serves nothing.
LEMMA TornIsUnusable == \A f : f = Torn => ~Usable(f)
  BY DEF Torn, Usable

LEMMA OfferRead == OInv /\ HandleInv /\ CommitInv /\ ReadInv /\ Offer => ReadInv'
  <1> SUFFICES ASSUME OInv, HandleInv, CommitInv, ReadInv, Offer, Minded'
               PROVE  \E z \in Slot : Steady(z)' /\ Serves(z)'
    BY DEF ReadInv
  <1>1. /\ game'.of = game.of /\ game'.seq = game.seq /\ game'.at = game.at
        /\ game'.pending = game.pending /\ game'.last = game.last /\ game'.target = game.target
    BY Shapes DEF Offer, Game
  <1>2. Minded BY <1>1, MindedBackward DEF Offer
  <1>3. PICK z \in Slot : Steady(z) /\ Serves(z) BY <1>2 DEF ReadInv
  <1>4. Serves(z)' BY <1>3, HeadIsSlot, ModRead DEF Offer
  <1>5. Steady(z)' BY <1>1, <1>3 DEF Offer, Sidecar, Steady, Usable, NotOlder
  <1> QED BY <1>4, <1>5

LEMMA BeginRead == OInv /\ HandleInv /\ CommitInv /\ ReadInv /\ Begin => ReadInv'
  <1> SUFFICES ASSUME OInv, HandleInv, CommitInv, ReadInv, Begin, Minded'
               PROVE  \E z \in Slot : Steady(z)' /\ Serves(z)'
    BY DEF ReadInv
  <1>0. /\ game'.of = game.of /\ game'.seq = game.seq + 1
        /\ game'.pending = game.pending /\ game'.last = game.last
        /\ \/ game'.at = "carry" /\ game.pending # None
           \/ game'.at = "slot" /\ game.pending = None
    BY Shapes DEF Begin, Game
  <1>1. /\ game'.seq # game.seq
        /\ game'.at = "slot" /\ game.last # None => game'.target = Aim(game.last)
    <2>1. game'.seq # game.seq BY <1>0, Shapes
    <2>2. game'.at = "slot" /\ game.last # None => game'.target = Aim(game.last)
      BY Shapes DEF Begin, Game
    <2> QED BY <2>1, <2>2
  <1>2. since' # 0 /\ (since' # 2 => since = 0) /\ since' # 2
    BY Shapes DEF Begin, Minded
  <1>3. Minded /\ game.of = known.game
    BY <1>0, <1>1, <1>2, MindedBackward DEF Begin
  <1>4. PICK z \in Slot : Steady(z) /\ Serves(z) BY <1>3 DEF ReadInv
  <1>5. Serves(z)' BY <1>4, HeadIsSlot, ModRead DEF Begin
  <1>6. game.last # None BY <1>3, KnownIsBehind DEF Minded
  <1>7. Aim(game.last) # game.last.slot BY <1>6, Shapes, AimIsOther DEF Game
  <1>8. IF game.pending # None THEN game.pending.slot = z ELSE game.last.slot = z
    BY <1>2, <1>3, <1>4 DEF Steady
  <1>9. Usable(slots[z])' /\ NotOlder(slots[z])'
    BY <1>4 DEF Begin, Sidecar, Steady, Usable, NotOlder
  <1>10. Steady(z)' BY <1>0, <1>1, <1>2, <1>6, <1>7, <1>8, <1>9 DEF Steady
  <1> QED BY <1>5, <1>10

\* While a publication is under way nothing begins, so that the steady slot stays
\* what it is if the publication leaves it alone.
LEMMA UnderWay ==
    ASSUME OInv, CommitInv, UNCHANGED Sidecar, known' = known, since' = since,
           game'.of = game.of, game.at # "idle", NEW z \in Slot, Steady(z),
           slots'[z] = slots[z],
           game.of = known.game =>
              /\ game'.at \in {"slot", "fill", "commit", "committing"} => game'.target # z
              /\ game'.at \in {"carry", "carrying"} => game'.pending.slot = z
    PROVE  Steady(z)'
  BY DEF CommitInv, Steady, Sidecar, Usable, NotOlder

LEMMA OpenSlotRead == OInv /\ HandleInv /\ CommitInv /\ ReadInv /\ OpenSlot => ReadInv'
  <1> SUFFICES ASSUME OInv, HandleInv, CommitInv, ReadInv, OpenSlot, Minded'
               PROVE  \E z \in Slot : Steady(z)' /\ Serves(z)'
    BY DEF ReadInv
  <1>1. /\ game'.of = game.of /\ game'.seq = game.seq /\ game'.at \in {"fill", "idle"}
        /\ game'.target = game.target /\ game.at = "slot"
    BY Shapes DEF OpenSlot, SlotFails, Game
  <1>2. \A s \in Slot : slots'[s] = slots[s] \/ (s = game.target /\ slots'[s] = Torn)
    BY Shapes DEF OpenSlot
  <1>3. Minded BY <1>1, MindedBackward DEF OpenSlot
  <1>4. PICK z \in Slot : Steady(z) /\ Serves(z) BY <1>3 DEF ReadInv
  <1>5. \A s \in Slot : slots'[s] = slots[s] \/ ~Usable(slots'[s])
    BY <1>2, TornIsUnusable
  <1>6. Serves(z)' BY <1>4, <1>5, HeadIsSlot, ModRead DEF OpenSlot
  <1>7. game.of = known.game \/ game.seq = -1 BY <1>3 DEF Minded, SameGame
  <1>8. game.of = known.game /\ game.target # z
    BY <1>1, <1>4, <1>7, Shapes DEF OInv, PubInv, Steady
  <1>9. Steady(z)' BY <1>1, <1>2, <1>4, <1>8, UnderWay DEF OpenSlot
  <1> QED BY <1>6, <1>9

LEMMA FillSlotRead == OInv /\ HandleInv /\ CommitInv /\ ReadInv /\ FillSlot => ReadInv'
  <1> SUFFICES ASSUME OInv, HandleInv, CommitInv, ReadInv, FillSlot, Minded'
               PROVE  \E z \in Slot : Steady(z)' /\ Serves(z)'
    BY DEF ReadInv
  <1> DEFINE new == Doc(game.open, game.seq, game.of)
  <1>1. /\ game'.of = game.of /\ game'.seq = game.seq /\ game'.at \in {"commit", "idle"}
        /\ game'.target = game.target /\ game.at = "fill"
    BY Shapes DEF FillSlot, SlotFails, Game
  <1>2. \A s \in Slot : slots'[s] = slots[s] \/ (s = game.target /\ slots'[s] = new)
    BY Shapes DEF FillSlot
  <1>3. new.seq = game.seq BY DEF Doc
  <1> HIDE DEF new
  <1>4. Minded BY <1>1, MindedBackward DEF FillSlot
  <1>5. PICK z \in Slot : Steady(z) /\ Serves(z) BY <1>4 DEF ReadInv
  <1>6. game.of = known.game \/ game.seq = -1 BY <1>4 DEF Minded, SameGame
  <1>7. game.of = known.game /\ game.target # z
    BY <1>1, <1>5, <1>6, Shapes DEF OInv, PubInv, Steady
  <1>8. game.seq >= known.seq
    <2>1. known # None /\ known.seq \in Nat BY <1>4, Shapes DEF Minded
    <2>2. Its /\ known.seq <= committed.seq BY <1>7, <2>1, KnownIsBehind
    <2>3. committed.seq < game.seq /\ committed.seq \in Nat
      BY <1>1, <2>2, Shapes DEF HandleInv, LastInv, Its
    <2> QED BY <2>1, <2>2, <2>3, Shapes
  <1>9. Serves(z)' BY <1>2, <1>3, <1>5, <1>8, HeadIsSlot, ModRead DEF FillSlot
  <1>10. Steady(z)' BY <1>1, <1>2, <1>5, <1>7, UnderWay DEF FillSlot
  <1> QED BY <1>9, <1>10

\* A commit that fails leaves the steady slot to the game, and the pointer, at
\* worst, on what it would have named.
LEMMA PointerFailsRead ==
    ASSUME OInv, HandleInv, CommitInv, PointerFails, UNCHANGED <<slots, Sidecar, known, since>>,
           game.at \in {"commit", "committing", "carry", "carrying"}, NEW z \in Slot, Steady(z)
    PROVE  Steady(z)'
  <1>1. game'.of = game.of /\ game'.at = "idle"
    BY Shapes DEF PointerFails, CarriedOver, Game
  <1> QED BY <1>1, UnderWay

\* A publication that is under way while a read is minded is of the game that the
\* read knows the last commit of, and what it names is not older.
LEMMA NamedServes ==
    ASSUME OInv, HandleInv, CommitInv, Minded, game.at # "idle"
    PROVE  /\ game.of = known.game
           /\ game.at \in {"committing", "carrying"} =>
                LET named == IF game.at = "carrying" THEN game.pending ELSE Names(game.target) IN
                slots[named.slot].seq >= known.seq
  <1> DEFINE named == IF game.at = "carrying" THEN game.pending ELSE Names(game.target)
  <1>1. game.of = known.game BY Shapes DEF Minded, SameGame, OInv, PubInv
  <1>2. known \in Docs /\ known.seq \in Nat BY Shapes DEF Minded
  <1>3. Its /\ known.seq <= committed.seq /\ committed.seq \in Nat
    BY <1>1, KnownIsBehind, Shapes DEF Minded, Its
  <1>4. ASSUME game.at \in {"committing", "carrying"} PROVE slots[named.slot].seq >= known.seq
    <2>1. slots[named.slot] \in Docs BY <1>4, NamedIsWhole
    <2>2. slots[named.slot].seq > committed.seq BY <1>3, <1>4, NamedIsNewer DEF Owed
    <2> QED BY <1>2, <1>3, <2>1, <2>2, Shapes
  <1> QED BY <1>1, <1>4

LEMMA OpenPointerRead == OInv /\ HandleInv /\ CommitInv /\ ReadInv /\ OpenPointer => ReadInv'
  <1> SUFFICES ASSUME OInv, HandleInv, CommitInv, ReadInv, OpenPointer, Minded'
               PROVE  \E z \in Slot : Steady(z)' /\ Serves(z)'
    BY DEF ReadInv
  <1>1. game'.of = game.of /\ game'.seq = game.seq
    BY Shapes DEF OpenPointer, PointerFails, CarriedOver, Game
  <1>2. Minded BY <1>1, MindedBackward DEF OpenPointer
  <1>3. PICK z \in Slot : Steady(z) /\ Serves(z) BY <1>2 DEF ReadInv
  <1>4. pointer' = pointer \/ (pointer'.is # "names") BY Kinds DEF OpenPointer
  <1>5. Serves(z)' BY <1>3, <1>4, HeadIsSlot, ModRead DEF OpenPointer
  <1>6. PointerFails => Steady(z)' BY <1>3, PointerFailsRead DEF OpenPointer
  <1>7. ASSUME game' = [game EXCEPT !.at = IF @ = "commit" THEN "committing" ELSE "carrying"]
        PROVE  Steady(z)'
    <2>1. /\ game'.target = game.target /\ game'.pending = game.pending
          /\ \/ game.at = "commit" /\ game'.at = "committing"
             \/ game.at = "carry" /\ game'.at = "carrying"
      BY <1>7, Shapes DEF OpenPointer, Game
    <2>2. game.of = known.game BY <1>2, NamedServes DEF OpenPointer
    <2> QED BY <1>1, <1>3, <2>1, <2>2, UnderWay DEF OpenPointer, Steady
  <1> QED BY <1>3, <1>5, <1>6, <1>7 DEF OpenPointer

LEMMA FillPointerRead == OInv /\ HandleInv /\ CommitInv /\ ReadInv /\ FillPointer => ReadInv'
  <1> SUFFICES ASSUME OInv, HandleInv, CommitInv, ReadInv, FillPointer, Minded'
               PROVE  \E z \in Slot : Steady(z)' /\ Serves(z)'
    BY DEF ReadInv
  <1> DEFINE named == IF game.at = "carrying" THEN game.pending ELSE Names(game.target)
  <1>1. game'.of = game.of /\ game'.seq = game.seq
    BY Shapes DEF FillPointer, PointerFails, CarriedOver, Game
  <1>2. Minded BY <1>1, MindedBackward DEF FillPointer
  <1>3. PICK z \in Slot : Steady(z) /\ Serves(z) BY <1>2 DEF ReadInv
  <1>4. named \in Pointers /\ named.slot \in Slot /\ Aim(named) # named.slot
    BY NamedIsWhole, Kinds, AimIsOther DEF FillPointer
  <1>5. game.of = known.game /\ slots[named.slot].seq >= known.seq
    BY <1>2, NamedServes DEF FillPointer
  <1>6. pointer' = Torn \/ pointer' = named BY DEF FillPointer
  <1>7. game.at = "carrying" => named.slot = z BY <1>3, <1>5 DEF Steady
  <1> HIDE DEF named
  <1>8. pointer'.is = "names" => pointer'.slot \in Slot /\ NotOlder(slots'[pointer'.slot])
    BY <1>4, <1>5, <1>6, Kinds DEF FillPointer, NotOlder
  <1>9. Serves(z)' BY <1>3, <1>8, HeadIsSlot, ModRead DEF FillPointer
  <1>10. PointerFails => Steady(z)' BY <1>3, PointerFailsRead DEF FillPointer
  <1>11. ASSUME /\ game.at = "committing"
                /\ game' = [game EXCEPT !.at = "idle", !.last = named, !.tries = 0]
         PROVE  Steady(z)'
    <2>1. game'.at = "idle" BY <1>11, Shapes DEF Game
    <2> QED BY <1>1, <1>3, <2>1, UnderWay DEF FillPointer
  <1>12. ASSUME /\ game.at = "carrying"
                /\ game' = [game EXCEPT !.at = "slot", !.last = named, !.target = Aim(named),
                                        !.pending = None, !.tries = 0]
         PROVE  Steady(z)'
    <2>1. game'.at = "slot" /\ game'.target = Aim(named) BY <1>12, Shapes DEF Game
    <2> QED BY <1>1, <1>3, <1>4, <1>7, <1>12, <2>1, UnderWay DEF FillPointer
  <1> QED BY <1>3, <1>9, <1>10, <1>11, <1>12 DEF FillPointer, named

LEMMA GameEndsRead == OInv /\ HandleInv /\ CommitInv /\ ReadInv /\ GameEnds => ReadInv'
  <1> SUFFICES ASSUME OInv, HandleInv, CommitInv, ReadInv, GameEnds, Minded'
               PROVE  \E z \in Slot : Steady(z)' /\ Serves(z)'
    BY DEF ReadInv
  <1>1. game'.of = game.of + 1 /\ game'.of # game.of BY Shapes DEF GameEnds, Loaded
  <1>2. Minded /\ game.of = known.game BY <1>1, MindedBackward DEF GameEnds
  <1>3. PICK z \in Slot : Steady(z) /\ Serves(z) BY <1>2 DEF ReadInv
  <1>4. Serves(z)' BY <1>3, HeadIsSlot, ModRead DEF GameEnds
  <1>5. Steady(z)' BY <1>1, <1>2, <1>3 DEF GameEnds, Sidecar, Steady, Usable, NotOlder
  <1> QED BY <1>4, <1>5

\* What was committed last, and whatever the game owes beyond it, serves a read that
\* begins.
LEMMA AskRead == OInv /\ HandleInv /\ CommitInv /\ ReadShape /\ Ask => ReadInv'
  <1> SUFFICES ASSUME OInv, HandleInv, CommitInv, ReadShape, Ask, Minded'
               PROVE  \E z \in Slot : Steady(z)' /\ Serves(z)'
    BY DEF ReadInv
  <1>1. feed \in Feed /\ feed = NoRead BY DEF OInv, TypeOK, Feed, Ask, ReadShape
  <1>2. feed'.at = "pointer" BY <1>1 DEF Ask, Feed
  <1>3. /\ known' = committed /\ committed # None /\ committed.session = session
        /\ committed \in Docs /\ committed.is = "doc" /\ committed.seq \in Nat
    BY Shapes DEF Ask, Minded, Docs
  <1>4. \A f : /\ Usable(f)' <=> Usable(f)
               /\ NotOlder(f)' <=> (Usable(f) => f.seq >= committed.seq)
    BY <1>3 DEF Usable, NotOlder, Ask
  <1>5. UNCHANGED Disk /\ session' = session BY DEF Ask
  <1>6. ASSUME NEW s \in Slot, Kept(s)
        PROVE  /\ pointer'.is = "names" => NotOlder(slots[pointer.slot])'
               /\ Usable(slots[s])' /\ NotOlder(slots[s])'
    <2>1. Usable(slots[s]) /\ slots[s].seq >= committed.seq
      BY <1>3, <1>6 DEF Usable, Kept
    <2>2. ASSUME pointer.is = "names", Usable(slots[pointer.slot])
          PROVE  slots[pointer.slot].seq >= committed.seq
      <3>1. pointer.slot # s => slots[pointer.slot].seq > committed.seq
        BY <1>6, <2>2 DEF Kept, Usable
      <3>2. slots[pointer.slot].seq \in Nat BY <2>2, Shapes DEF Usable
      <3> QED BY <1>3, <2>1, <3>1, <3>2
    <2> QED BY <1>4, <1>5, <2>1, <2>2 DEF Disk, NotOlder, Usable
  <1>7. \A z : (pointer'.is = "names" => NotOlder(slots[pointer.slot])') => Serves(z)'
    BY <1>2 DEF Serves
  <1>8. CASE game.of = committed.game
    <2>1. Its /\ game.last # None /\ Kept(game.last.slot) /\ game.last.slot \in Slot
      BY <1>3, <1>8, Shapes DEF HandleInv, LastInv, Its
    <2>2. \A z : Serves(z)' BY <1>6, <1>7, <2>1
    <2>3. CASE game.pending # None
      <3>1. game.pending.slot \in Slot BY <2>3, Shapes
      <3>2. slots[game.pending.slot].is = "doc" /\ slots[game.pending.slot] \in Docs
        BY <2>3, <3>1, Shapes DEF OInv, PubInv
      <3>3. /\ slots[game.pending.slot].seq > committed.seq
            /\ slots[game.pending.slot].session = session
        <4>1. Owed(slots[game.pending.slot]) BY <2>3 DEF HandleInv, OwedInv
        <4>2. game.open <= session BY DEF HandleInv, LastInv
        <4> QED BY <1>3, <2>1, <3>2, <4>1, <4>2, Shapes DEF Owed
      <3>4. Usable(slots[game.pending.slot]) /\ slots[game.pending.slot].seq >= committed.seq
        BY <1>3, <3>2, <3>3, Shapes DEF Usable
      <3>5. game.at \in {"idle", "carry", "carrying"} BY <2>3 DEF OInv, PubInv
      <3>6. ASSUME NEW z \in Slot, z = game.pending.slot PROVE Steady(z)'
        <4>1. Usable(slots[z])' /\ NotOlder(slots[z])' BY <1>4, <1>5, <3>4, <3>6
          DEF Disk, Usable, NotOlder
        <4> QED BY <1>5, <2>3, <3>5, <3>6, <4>1 DEF Disk, Steady
      <3> QED BY <2>2, <3>1, <3>6
    <2>4. CASE game.pending = None
      <3>1. game.at \notin {"carry", "carrying"} BY <2>4 DEF OInv, PubInv
      <3>2. game.at \in {"slot", "fill", "commit", "committing"} => game.target # game.last.slot
        BY <2>1 DEF HandleInv, LastInv
      <3>3. ASSUME NEW z \in Slot, z = game.last.slot PROVE Steady(z)'
        <4>1. Usable(slots[z])' /\ NotOlder(slots[z])' BY <1>6, <2>1, <3>3
        <4> QED BY <1>5, <2>4, <3>1, <3>2, <3>3, <4>1 DEF Disk, Steady
      <3> QED BY <2>1, <2>2, <3>3
    <2> QED BY <2>3, <2>4
  <1>9. CASE game.of # committed.game
    <2>1. committed.game + 1 = game.of /\ game.seq = -1
      BY <1>3, <1>5, <1>9, Shapes DEF Minded, SameGame, Disk
    <2>2. PICK s \in Slot : Kept(s) BY <1>3, <2>1 DEF CommitInv
    <2>3. Serves(s)' BY <1>6, <1>7, <2>2
    <2>4. Steady(s)' BY <1>3, <1>5, <1>6, <1>9, <2>2 DEF Disk, Steady
    <2> QED BY <2>3, <2>4
  <1> QED BY <1>8, <1>9

\* Of two slots that a read comes to, it comes to both.
LEMMA ProbeIsBoth ==
    OInv => /\ Len(Probe) = 2 /\ \A z \in Slot : \E i \in DOMAIN Probe : Probe[i] = z
            /\ OnDisk # None => pointer.is = "names" /\ Head(Probe) = pointer.slot
  <1> SUFFICES ASSUME OInv
               PROVE  /\ Len(Probe) = 2 /\ \A z \in Slot : \E i \in DOMAIN Probe : Probe[i] = z
                      /\ OnDisk # None => pointer.is = "names" /\ Head(Probe) = pointer.slot
    OBVIOUS
  <1>1. CASE OnDisk = None BY <1>1 DEF Probe, Slot
  <1>2. CASE OnDisk # None
    <2>1. pointer.is = "names" /\ pointer.slot \in Slot
      BY <1>2, Kinds DEF OnDisk, OInv, TypeOK
    <2>2. Probe = <<pointer.slot, Other(pointer.slot)>> BY <1>2 DEF Probe
    <2>3. Slot = {pointer.slot, Other(pointer.slot)} BY <2>1 DEF Slot, Other
    <2>4. DOMAIN Probe = 1..2 /\ Probe[1] = pointer.slot /\ Probe[2] = Other(pointer.slot)
          /\ Head(Probe) = pointer.slot /\ Len(Probe) = 2
      BY <2>2
    <2>5. \A z \in Slot : \E i \in DOMAIN Probe : Probe[i] = z BY <2>3, <2>4
    <2> QED BY <2>1, <2>4, <2>5
  <1> QED BY <1>1, <1>2

LEMMA ReadPointerRead == OInv /\ ReadInv /\ ReadPointer => ReadInv'
  <1> SUFFICES ASSUME OInv, ReadInv, ReadPointer, Minded'
               PROVE  \E z \in Slot : Steady(z)' /\ Serves(z)'
    BY DEF ReadInv
  <1>1. feed \in Feed BY DEF OInv, TypeOK, Feed
  <1>2. feed' = [feed EXCEPT !.at = "slots", !.order = Probe, !.pointed = (OnDisk # None)]
    BY DEF ReadPointer, Minded, NoRead
  <1>3. /\ feed'.at = "slots" /\ feed'.order = Probe /\ feed'.locked = feed.locked
    BY <1>1, <1>2 DEF Feed
  <1>4. feed'.pointed <=> OnDisk # None BY <1>1, <1>2, Zenon DEF Feed
  <1>5. Minded BY <1>3 DEF ReadPointer, Disk, Minded, SameGame
  <1>6. PICK z \in Slot : Steady(z) /\ Serves(z) BY <1>5 DEF ReadInv
  <1>7. Steady(z)' BY <1>6 DEF ReadPointer, Disk, Steady, Usable, NotOlder
  <1>8. OnDisk # None => NotOlder(slots[Head(Probe)])
    BY <1>6, ProbeIsBoth DEF ReadPointer, Serves
  <1>9. feed'.pointed => NotOlder(slots[Head(feed.order)])'
    BY <1>3, <1>4, <1>8 DEF ReadPointer, Disk, NotOlder, Usable
  <1>10. Len(feed'.order) <= 2
    <2>1. Len(Probe) = 2 BY ProbeIsBoth
    <2> QED BY <1>3, <2>1
  <1>11. \E i \in DOMAIN feed'.order : feed'.order[i] = z BY <1>3, ProbeIsBoth, Zenon
  <1>12. feed'.at # "pointer" BY <1>3
  <1>13. Serves(z)' BY <1>9, <1>10, <1>11, <1>12, Zenon DEF Serves
  <1> QED BY <1>7, <1>13

\* What is behind the head of a sequence is in its tail.
LEMMA InTheTail ==
    ASSUME NEW q \in Seq(Slot), q # <<>>, NEW z, \E i \in DOMAIN q : q[i] = z
    PROVE  Head(q) = z \/ \E i \in DOMAIN Tail(q) : Tail(q)[i] = z
  <1>1. PICK i \in DOMAIN q : q[i] = z OBVIOUS
  <1>2. CASE i = 1 BY <1>1, <1>2
  <1>3. CASE i # 1
    <2>1. i - 1 \in 1..Len(q) - 1 BY <1>1, <1>3
    <2>2. DOMAIN Tail(q) = 1..Len(q) - 1 BY <2>1
    <2>3. Tail(q)[i - 1] = q[i] BY <2>1
    <2>4. i - 1 \in DOMAIN Tail(q) /\ Tail(q)[i - 1] = z BY <1>1, <2>1, <2>2, <2>3
    <2> QED BY <2>4
  <1> QED BY <1>2, <1>3

\* A tail that has one slot at most has only that.
LEMMA LastOfTwo ==
    ASSUME NEW q \in Seq(Slot), q # <<>>, Len(q) <= 2, NEW z,
           \E i \in DOMAIN Tail(q) : Tail(q)[i] = z
    PROVE  Head(Tail(q)) = z /\ Len(Tail(q)) <= 2
  <1>1. PICK i \in DOMAIN Tail(q) : Tail(q)[i] = z OBVIOUS
  <1>2. Len(q) \in Nat /\ Tail(q) \in Seq(Slot) /\ Len(Tail(q)) = Len(q) - 1
        /\ DOMAIN Tail(q) = 1..Len(q) - 1
    OBVIOUS
  <1>3. i = 1 BY <1>1, <1>2
  <1> QED BY <1>1, <1>2, <1>3

LEMMA ReadSlotRead == OInv /\ ReadShape /\ ReadInv /\ ReadSlot => ReadInv'
  <1> SUFFICES ASSUME OInv, ReadShape, ReadInv, ReadSlot, Minded'
               PROVE  \E z \in Slot : Steady(z)' /\ Serves(z)'
    BY DEF ReadInv
  <1> DEFINE q == feed.order
             file == slots[Head(q)]
  <1>0. feed \in Feed BY DEF OInv, TypeOK, Feed
  <1>1. /\ q \in Seq(Slot) /\ q # <<>> /\ feed.at = "slots"
        /\ Tail(q) \in Seq(Slot) /\ Len(Tail(q)) = Len(q) - 1 /\ Len(q) \in Nat
    BY <1>0 DEF ReadSlot, Feed
  <1>2. \/ ~Usable(file) /\ feed' = [feed EXCEPT !.order = Tail(q)]
        \/ /\ Usable(file)
           /\ feed' = [feed EXCEPT !.met = @ \cup {file},
                         !.order = IF feed.pointed THEN <<>> ELSE Tail(q)]
    BY <1>0 DEF ReadSlot, Minded, Feed
  <1>3. feed'.at = "slots" /\ feed'.locked = feed.locked /\ feed'.pointed = feed.pointed
    BY <1>0, <1>1, <1>2 DEF Feed
  <1>4. Minded BY <1>1, <1>3 DEF ReadSlot, Disk, Minded, SameGame
  <1>5. PICK z \in Slot : Steady(z) /\ Serves(z) BY <1>4 DEF ReadInv
  <1>6. Steady(z)' BY <1>5 DEF ReadSlot, Disk, Steady, Usable, NotOlder
  <1>7. /\ Len(q) <= 2
        /\ (\E d \in feed.met : d.seq >= known.seq) \/ (\E i \in DOMAIN q : q[i] = z)
        /\ feed.pointed => NotOlder(file)
    BY <1>1, <1>5 DEF Serves
  <1>8. feed.pointed => feed.met = {} BY <1>1 DEF ReadShape
  <1>9. Len(feed'.order) <= 2
    <2>1. feed'.order = Tail(q) \/ feed'.order = <<>> BY <1>0, <1>2 DEF Feed
    <2>2. CASE feed'.order = <<>>
      <3>1. Len(<<>>) = 0 OBVIOUS
      <3> QED BY <2>2, <3>1
    <2>3. CASE feed'.order = Tail(q)
      <3>1. Len(Tail(q)) <= 2 BY <1>1, <1>7
      <3> QED BY <2>3, <3>1, Zenon
    <2> QED BY <2>1, <2>2, <2>3
  <1>10. (\E d \in feed'.met : d.seq >= known'.seq)
           \/ (\E i \in DOMAIN feed'.order : feed'.order[i] = z)
    <2>0. known' = known BY DEF ReadSlot
    <2>1. CASE \E d \in feed.met : d.seq >= known.seq
      <3>0. feed'.met \in {feed.met, feed.met \cup {file}} BY <1>0, <1>2 DEF Feed
      <3>1. feed.met \subseteq feed'.met BY <3>0
      <3> QED BY <2>0, <2>1, <3>1
    <2>2. CASE \E i \in DOMAIN q : q[i] = z
      <3>1. Head(q) = z \/ \E i \in DOMAIN Tail(q) : Tail(q)[i] = z
        BY <1>1, <2>2, InTheTail
      <3>2. CASE Usable(file) /\ (Head(q) = z \/ feed.pointed)
        <4>1. NotOlder(file) BY <1>5, <1>7, <3>2 DEF Steady
        <4>2. file \in feed'.met BY <1>0, <1>2, <3>2 DEF Feed
        <4> QED BY <2>0, <3>2, <4>1, <4>2 DEF NotOlder
      <3>3. CASE ~Usable(file)
        <4>1. Head(q) # z BY <1>5, <3>3 DEF Steady
        <4>2. feed'.order = Tail(q) BY <1>0, <1>2, <3>3 DEF Feed
        <4> QED BY <3>1, <4>1, <4>2
      <3>4. CASE Usable(file) /\ Head(q) # z /\ ~feed.pointed
        <4>1. feed'.order = Tail(q) BY <1>0, <1>2, <3>4 DEF Feed
        <4> QED BY <3>1, <3>4, <4>1
      <3> QED BY <3>2, <3>3, <3>4
    <2> QED BY <1>7, <2>1, <2>2
  <1>11. ASSUME feed'.pointed, feed'.order # <<>>
         PROVE  NotOlder(slots[Head(feed.order)])'
    <2>1. feed.pointed /\ ~Usable(file) /\ feed'.order = Tail(q)
      BY <1>0, <1>2, <1>3, <1>11 DEF Feed
    <2>2. \E i \in DOMAIN q : q[i] = z BY <1>7, <1>8, <2>1
    <2>3. Head(q) # z BY <1>5, <2>1 DEF Steady
    <2>4. Head(Tail(q)) = z BY <1>1, <1>7, <2>2, <2>3, InTheTail, LastOfTwo
    <2>5. NotOlder(slots[z]) BY <1>5 DEF Steady
    <2> QED BY <2>1, <2>4, <2>5 DEF ReadSlot, Disk, NotOlder, Usable
  <1>12. feed'.at # "pointer" BY <1>3
  <1>13. Serves(z)' BY <1>9, <1>10, <1>11, <1>12 DEF Serves
  <1> QED BY <1>6, <1>13

LEMMA SInit == Init => SInv
  <1> SUFFICES ASSUME Init PROVE SInv OBVIOUS
  <1>1. OInv BY InitHolds
  <1>2. /\ committed = None /\ known = None /\ feed = NoRead /\ game = Loaded(0)
        /\ session = 1 /\ feed.at = "idle"
    BY DEF Init, NoRead
  <1>3. HandleInv
    BY <1>2 DEF HandleInv, LastInv, OwedInv, Its, Loaded
  <1>4. CommitInv BY <1>2 DEF CommitInv, Loaded
  <1>5. ReadShape BY <1>2 DEF ReadShape, NoRead
  <1>6. ReadInv BY <1>2 DEF ReadInv, Minded
  <1> QED BY <1>1, <1>3, <1>4, <1>5, <1>6 DEF SInv

LEMMA SStep == SInv /\ [Next]_vars => SInv'
  <1> SUFFICES ASSUME SInv, [Next]_vars PROVE SInv' OBVIOUS
  <1> USE DEF SInv
  <1>1. OInv' /\ ReadShape' BY StepKeeps, ShapeKept
  <1>2. CASE Offer \/ Publish
    BY <1>1, <1>2, ModCommit, OfferHandle, BeginHandle, OpenSlotHandle, FillSlotHandle,
       OpenPointerHandle, FillPointerHandle, OfferRead, BeginRead, OpenSlotRead,
       FillSlotRead, OpenPointerRead, FillPointerRead DEF Publish
  <1>3. CASE GameEnds BY <1>1, <1>3, GameEndsHandle, GameEndsCommit, GameEndsRead
  <1>4. CASE Ask BY <1>1, <1>4, ReadCommit, AskRead DEF Read
  <1>5. CASE ReadPointer BY <1>1, <1>5, ReadCommit, ReadPointerRead DEF Read
  <1>6. CASE ReadSlot BY <1>1, <1>6, ReadCommit, ReadSlotRead DEF Read
  <1>7. CASE Take \/ SidecarEnds
    <2>1. feed'.at = "idle" BY <1>7 DEF Take, SidecarEnds, NoRead
    <2> QED BY <1>1, <1>7, <2>1, ReadCommit DEF Read, ReadInv, Minded
  <1>8. CASE UNCHANGED vars
    <2>1. HandleInv' BY <1>8, SidecarHandle DEF vars, Disk
    <2>2. CommitInv' BY <1>8, SidecarCommit DEF vars, Disk
    <2>3. ReadInv'
      BY <1>8 DEF vars, ReadInv, Minded, SameGame, Steady, Serves, NotOlder, Usable
    <2> QED BY <1>1, <2>1, <2>2, <2>3
  <1> QED BY <1>2, <1>3, <1>4, <1>5, <1>6, <1>7, <1>8 DEF Next, Read

LEMMA SInvariance == Spec => []SInv
  BY SInit, SStep, PTL DEF Spec

SeesTheCommitted ==
    Take /\ known # None /\ known.session = session /\ SameGame /\ since <= 1 /\ ~feed.locked
        => latest' # None /\ latest'.seq >= known.seq

LEMMA TakeSees == SInv /\ [Next]_vars => [SeesTheCommitted]_vars
  <1> SUFFICES ASSUME SInv, Take, known # None, known.session = session, SameGame,
                      since <= 1, ~feed.locked
               PROVE  latest' # None /\ latest'.seq >= known.seq
    BY DEF SeesTheCommitted
  <1>1. feed.at = "slots" /\ feed.order = <<>> BY DEF Take
  <1>2. Minded BY <1>1 DEF Minded
  <1>3. PICK z \in Slot : Serves(z) BY <1>2 DEF SInv, ReadInv
  <1>4. DOMAIN feed.order = {} BY <1>1
  <1>5. PICK d \in feed.met : d.seq >= known.seq BY <1>1, <1>3, <1>4 DEF Serves
  <1>6. feed.met \subseteq Docs BY DEF SInv, OInv, TypeOK
  <1>7. latest' \in feed.met /\ \A e \in feed.met : e.seq <= latest'.seq
    BY <1>5 DEF Take
  <1>8. latest' # None BY <1>6, <1>7, Kinds
  <1>9. d.seq \in Nat /\ latest'.seq \in Nat /\ known.seq \in Nat /\ d.seq <= latest'.seq
    BY <1>2, <1>5, <1>6, <1>7, Shapes DEF SInv, Minded
  <1> QED BY <1>5, <1>8, <1>9

\* A read of SnapshotReader that no lock disturbed, and during which at most one
\* publication of Ipc.lua was under way, brings the store what was committed when it
\* began or something newer, for any number of slots torn, commits carried over or
\* dropped, and games loaded in between.
THEOREM ReadsSeeTheCommitted == Spec => ReadSeesTheCommitted
  <1>1. SInv /\ [Next]_vars => [SeesTheCommitted]_vars BY TakeSees
  <1> QED BY <1>1, SInvariance, PTL DEF Spec, ReadSeesTheCommitted, SeesTheCommitted
=============================================================================
