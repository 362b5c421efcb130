------------------------- MODULE ActionChannelProofs -------------------------
(***************************************************************************)
(* Proofs about ActionChannel.  The inductive invariant ties _pending to   *)
(* the records' statuses, says that the tick thread drives at most one     *)
(* record, and that the key of every remembered record leads to it.  From  *)
(* it: the store fits its cap for every max_remembered > max_pending, live *)
(* work is never forgotten, a key has one record, an answer is final.      *)
(***************************************************************************)
EXTENDS ActionChannel, FiniteSetTheorems, TLAPS

USE ChannelAssumption, ModelAssumption

\* The waiting submissions are exactly the accepted records.
PendingIsAccepted == pending = {i \in DOMAIN records : records[i].status = "accepted"}

PendingFits == Cardinality(pending) <= MaxPending

\* One record is driven at a time, and none while the loop is between drives.
OneDriven ==
    /\ \A i, j \in Driven : i = j
    /\ pc \in {"between", "levers", "disarm", "authority", "serve"} => Driven = {}

\* The key of a remembered record leads to it.
KeysAgree == \A i \in kept : byKey[records[i].key] = i

IInv ==
    /\ TypeOK
    /\ PendingIsAccepted
    /\ PendingFits
    /\ OneDriven
    /\ KeysAgree
    /\ LiveIsRemembered
    /\ StoreBounded

-----------------------------------------------------------------------------
(* Counting.                                                               *)

\* The waiting records and one that is driven fit the store together.
LEMMA LiveFits ==
    ASSUME NEW P, IsFiniteSet(P), Cardinality(P) <= MaxPending,
           NEW D, \A i, j \in D : i = j
    PROVE  IsFiniteSet(P \cup D) /\ Cardinality(P \cup D) <= MaxRemembered
<1>0. Cardinality(P) \in Nat
  BY FS_CardinalityType
<1>1. CASE D = {}
  <2>1. P \cup D = P
    BY <1>1
  <2> QED BY <2>1, <1>0
<1>2. CASE D # {}
  <2>1. PICK d : d \in D
    BY <1>2
  <2>2. P \cup D = P \cup {d}
    BY <2>1
  <2>3. IsFiniteSet(P \cup {d}) /\ Cardinality(P \cup {d}) <= Cardinality(P) + 1
    BY FS_AddElement, <1>0
  <2>4. Cardinality(P \cup {d}) \in Nat
    BY <2>3, FS_CardinalityType
  <2> QED BY <2>2, <2>3, <2>4, <1>0
<1> QED BY <1>1, <1>2

\* What _evict does to the store K, if the records it may not touch fit.
LEMMA EvictFacts ==
    ASSUME NEW recs, NEW K, NEW keys, IsFiniteSet(K), Evict(recs, K, keys),
           Cardinality(K \ Victims(recs, K)) <= MaxRemembered
    PROVE  /\ kept' \subseteq K
           /\ K \ Victims(recs, K) \subseteq kept'
           /\ Cardinality(kept') <= MaxRemembered
           /\ byKey' = [k \in Key |-> IF keys[k] \in K \ kept' THEN 0 ELSE keys[k]]
<1> DEFINE T == Victims(recs, K)
<1>1. T \subseteq K
  BY DEF Victims
<1>2. PICK V \in SUBSET T :
        /\ Cardinality(V) = Excess(recs, K)
        /\ kept' = K \ V
        /\ byKey' = [k \in Key |-> IF keys[k] \in V THEN 0 ELSE keys[k]]
  BY DEF Evict
<1>3. V \subseteq K /\ K \ kept' = V
  BY <1>1, <1>2
<1> HIDE DEF T
<1>4. /\ IsFiniteSet(T) /\ IsFiniteSet(V) /\ IsFiniteSet(K \ T) /\ IsFiniteSet(K \ V)
      /\ K \cap T = T /\ K \cap V = V
  BY <1>1, <1>3, FS_Subset
<1>5. /\ Cardinality(K) \in Nat /\ Cardinality(T) \in Nat /\ Cardinality(V) \in Nat
      /\ Cardinality(K \ T) \in Nat
  BY <1>4, FS_CardinalityType
<1>6. /\ Cardinality(K \ T) = Cardinality(K) - Cardinality(T)
      /\ Cardinality(K \ V) = Cardinality(K) - Cardinality(V)
  BY <1>4, FS_Difference
<1>7. Cardinality(K \ T) <= MaxRemembered
  BY DEF T
<1>8. Cardinality(V) = IF Cardinality(K) - MaxRemembered <= 0 THEN 0
                       ELSE IF Cardinality(K) - MaxRemembered <= Cardinality(T)
                            THEN Cardinality(K) - MaxRemembered ELSE Cardinality(T)
  BY <1>2 DEF Excess, T
<1>9. Cardinality(K \ V) <= MaxRemembered
  BY <1>5, <1>6, <1>7, <1>8
<1> QED BY <1>2, <1>3, <1>9 DEF T

-----------------------------------------------------------------------------
\* What the state says of the ids and of what the records carry.
LEMMA RecordsTyped ==
    ASSUME TypeOK
    PROVE  /\ Len(records) \in Nat /\ DOMAIN records = 1..Len(records)
           /\ records \in [1..Len(records) -> Record]
           /\ IsFiniteSet(DOMAIN records) /\ IsFiniteSet(kept) /\ IsFiniteSet(pending)
           /\ \A i \in DOMAIN records : records[i] \in Record
<1>1. Len(records) \in Nat /\ DOMAIN records = 1..Len(records)
      /\ records \in [1..Len(records) -> Record]
  BY DEF TypeOK
<1>2. IsFiniteSet(DOMAIN records)
  BY <1>1, FS_Interval
<1> QED BY <1>1, <1>2, FS_Subset DEF TypeOK

\* The live records are the waiting ones and the driven one.
LEMMA OpenIs ==
    ASSUME PendingIsAccepted
    PROVE  Open(records) = pending \cup Driven
BY DEF PendingIsAccepted, Open, Driven, Live

\* What every step owes to the part of the state the channel's lock guards.
StoreKeeps ==
    /\ records' \in Seq(Record) /\ moves' \in Nat
    /\ kept' \subseteq DOMAIN records' /\ pending' \subseteq DOMAIN records'
    /\ byKey' \in [Key -> 0..Len(records')]
    /\ PendingIsAccepted' /\ PendingFits' /\ KeysAgree'
    /\ LiveIsRemembered' /\ StoreBounded'
    /\ DOMAIN records \subseteq DOMAIN records'
    /\ \A i \in DOMAIN records :
         /\ records[i].status \in Terminal => records'[i].status = records[i].status
         /\ records'[i].lapse = records[i].lapse

\* Ending the live records of S keeps everything the invariant says of the
\* store, and rewrites no terminal answer.
LEMMA EndKeeps ==
    ASSUME IInv, NEW S \in SUBSET Open(records), NEW says \in [S -> Terminal],
           End(S, says), pending' = pending \ S
    PROVE  StoreKeeps /\ Driven' = Driven \ S
<1> DEFINE recs == Ended(S, says)
           n == Len(records)
<1>0. /\ n \in Nat /\ DOMAIN records = 1..n /\ records \in [1..n -> Record]
      /\ IsFiniteSet(kept) /\ IsFiniteSet(pending) /\ IsFiniteSet(DOMAIN records)
  BY RecordsTyped DEF IInv
<1>1. S \subseteq DOMAIN records /\ \A i \in S : records[i].status \in Live
  BY DEF Open
<1>2. IsFiniteSet(S) /\ Cardinality(S) \in Nat
  BY <1>0, <1>1, FS_Subset, FS_CardinalityType
<1>3. \A i \in S : Cardinality({j \in S : j <= i}) \in Nat
  <2> SUFFICES ASSUME NEW i \in S PROVE Cardinality({j \in S : j <= i}) \in Nat
    OBVIOUS
  <2>1. {j \in S : j <= i} \in SUBSET S
    OBVIOUS
  <2>2. IsFiniteSet({j \in S : j <= i})
    BY <2>1, <1>2, FS_Subset
  <2> QED BY <2>2, FS_CardinalityType
<1>4. recs \in [1..n -> Record]
  <2> SUFFICES ASSUME NEW i \in 1..n
      PROVE  (IF i \in S
               THEN [key |-> records[i].key, status |-> says[i], lapse |-> records[i].lapse,
                     stamp |-> moves + Cardinality({j \in S : j <= i})]
               ELSE records[i]) \in Record
    BY <1>0 DEF Ended
  <2>1. records[i] \in Record
    BY <1>0
  <2>2. CASE i \in S
    <3> DEFINE st == moves + Cardinality({j \in S : j <= i})
    <3>1. says[i] \in Terminal
      BY <2>2
    <3>2. st \in Nat
      BY <1>3, <2>2 DEF IInv, TypeOK
    <3> HIDE DEF st
    <3>3. [key |-> records[i].key, status |-> says[i], lapse |-> records[i].lapse,
           stamp |-> st] \in Record
      BY <2>1, <3>1, <3>2 DEF Record
    <3> QED BY <3>3, <2>2 DEF st
  <2> QED BY <2>1, <2>2
<1>5. records' = recs /\ Evict(recs, kept, byKey) /\ moves' = moves + Cardinality(S)
  BY DEF End
<1>6. \A i \in 1..n : /\ recs[i].key = records[i].key
                      /\ recs[i].status = IF i \in S THEN says[i] ELSE records[i].status
  BY <1>0 DEF Ended, Record
<1>23. \A i \in 1..n : recs[i].lapse = records[i].lapse
  BY <1>0 DEF Ended, Record
<1> HIDE DEF recs, n
<1>7. \A i \in S : recs[i].status \in Terminal
  BY <1>6, <1>1, <1>0
<1>8. Live \cap Terminal = {} /\ "accepted" \in Live /\ "started" \in Live
  BY DEF Live, Terminal
<1>9. /\ DOMAIN records' = 1..n /\ records' \in Seq(Record) /\ Len(records') = n
  <2>1. recs \in Seq(Record)
    BY <1>4, <1>0
  <2> QED BY <1>4, <1>5, <1>0, <2>1
<1>10. Open(recs) = Open(records) \ S
  BY <1>6, <1>7, <1>8, <1>0, <1>4 DEF Open
<1>11. PendingIsAccepted' /\ Driven' = Driven \ S
  <2>1. PendingIsAccepted
    BY DEF IInv
  <2>2. {i \in 1..n : recs[i].status = "accepted"} =
            {i \in 1..n : records[i].status = "accepted"} \ S
    BY <1>6, <1>7, <1>8
  <2>3. PendingIsAccepted'
    BY <2>1, <2>2, <1>9, <1>5, <1>0 DEF PendingIsAccepted
  <2>4. {i \in 1..n : recs[i].status = "started"} =
            {i \in 1..n : records[i].status = "started"} \ S
    BY <1>6, <1>7, <1>8
  <2>5. Driven = {i \in 1..n : records[i].status = "started"}
    BY <1>0, <1>8 DEF Driven, Open
  <2>6. Driven' = {i \in 1..n : recs[i].status = "started"}
    BY <1>9, <1>5, <1>8 DEF Driven, Open
  <2> QED BY <2>3, <2>4, <2>5, <2>6
<1>12. PendingFits'
  <2>1. pending' \in SUBSET pending
    OBVIOUS
  <2>2. Cardinality(pending') <= Cardinality(pending) /\ IsFiniteSet(pending')
    BY <2>1, <1>0, FS_Subset
  <2>3. Cardinality(pending) \in Nat /\ Cardinality(pending') \in Nat
    BY <2>2, <1>0, FS_CardinalityType
  <2> QED BY <2>2, <2>3 DEF IInv, PendingFits
<1>13. Cardinality(kept \ Victims(recs, kept)) <= MaxRemembered
  <2>1. kept \ Victims(recs, kept) \subseteq Open(records)
    <3>1. kept \subseteq 1..n
      BY <1>0 DEF IInv, TypeOK
    <3>2. \A i \in 1..n : recs[i].status \notin Terminal => i \notin S /\ records[i].status \in Live
      BY <1>6, <1>7, <1>0 DEF Record
    <3> QED BY <3>1, <3>2, <1>0 DEF Victims, Open
  <2>2. Open(records) = pending \cup Driven
    BY OpenIs DEF IInv
  <2>3. IsFiniteSet(Open(records)) /\ Cardinality(Open(records)) <= MaxRemembered
    <3>1. \A i, j \in Driven : i = j
      BY DEF IInv, OneDriven
    <3>2. IsFiniteSet(pending) /\ Cardinality(pending) <= MaxPending
      BY <1>0 DEF IInv, PendingFits
    <3>3. /\ IsFiniteSet(pending \cup Driven)
          /\ Cardinality(pending \cup Driven) <= MaxRemembered
      BY ONLY <3>1, <3>2, LiveFits
    <3> QED BY <3>3, <2>2
  <2>4. /\ Cardinality(kept \ Victims(recs, kept)) <= Cardinality(Open(records))
        /\ IsFiniteSet(kept \ Victims(recs, kept))
    BY <2>1, <2>3, FS_Subset
  <2>5. Cardinality(kept \ Victims(recs, kept)) \in Nat /\ Cardinality(Open(records)) \in Nat
    BY <2>3, <2>4, FS_CardinalityType
  <2> QED BY <2>3, <2>4, <2>5
<1>14. /\ kept' \subseteq kept
       /\ kept \ Victims(recs, kept) \subseteq kept'
       /\ Cardinality(kept') <= MaxRemembered
       /\ byKey' = [k \in Key |-> IF byKey[k] \in kept \ kept' THEN 0 ELSE byKey[k]]
  <2>1. IsFiniteSet(kept) /\ Evict(recs, kept, byKey)
    BY <1>0, <1>5
  <2> QED BY ONLY <2>1, <1>13, EvictFacts
<1>15. LiveIsRemembered'
  <2>1. \A i \in Open(recs) : i \in kept /\ recs[i].status \notin Terminal
    BY <1>10, <1>8 DEF IInv, LiveIsRemembered, Open
  <2>2. Open(recs) \subseteq kept \ Victims(recs, kept)
    BY <2>1 DEF Victims
  <2>3. (Open(records))' = Open(recs)
    BY <1>5 DEF Open
  <2> QED BY <2>2, <2>3, <1>14 DEF LiveIsRemembered
<1>16. kept \subseteq 1..n /\ byKey \in [Key -> 0..n] /\ moves \in Nat /\ pending \subseteq 1..n
  BY <1>0 DEF IInv, TypeOK, n
<1>17. KeysAgree'
  <2> SUFFICES ASSUME NEW i \in kept' PROVE byKey'[records'[i].key] = i
    BY DEF KeysAgree
  <2>1. i \in kept /\ i \in 1..n /\ records[i].key \in Key
    BY <1>14, <1>16, <1>0 DEF Record
  <2>2. byKey[records[i].key] = i
    BY <2>1 DEF IInv, KeysAgree
  <2>3. records'[i].key = records[i].key
    BY <2>1, <1>5, <1>6
  <2> QED BY <2>1, <2>2, <2>3, <1>14
<1>18. byKey' \in [Key -> 0..n]
  BY <1>14, <1>16, <1>0
<1>19. kept' \subseteq 1..n /\ pending' \subseteq 1..n
  BY <1>14, <1>16
<1>20. moves' \in Nat
  BY <1>5, <1>16, <1>2
<1>21. \A i \in DOMAIN records :
          records[i].status \in Terminal => records'[i].status = records[i].status
  BY <1>0, <1>1, <1>5, <1>6, <1>8
<1>22. StoreBounded'
  BY <1>14 DEF StoreBounded
<1> QED BY <1>0, <1>9, <1>11, <1>12, <1>15, <1>17, <1>18, <1>19, <1>20, <1>21, <1>22,
       <1>5, <1>23 DEF n, StoreKeeps

\* Clearing ends every waiting record and leaves the driven one alone.
LEMMA ClearKeeps ==
    ASSUME IInv, NEW status \in Terminal, ClearPending(status)
    PROVE  StoreKeeps /\ Driven' = Driven
<1> DEFINE says == [i \in pending |-> status]
<1>1. pending \in SUBSET Open(records)
  BY OpenIs DEF IInv
<1>2. says \in [pending -> Terminal]
  OBVIOUS
<1>3. End(pending, says) /\ pending' = pending \ pending
  BY DEF ClearPending
<1> HIDE DEF says
<1>4. StoreKeeps /\ Driven' = Driven \ pending
  BY <1>1, <1>2, <1>3, EndKeeps
<1>5. Driven \cap pending = {}
  BY DEF IInv, PendingIsAccepted, Driven
<1> QED BY <1>4, <1>5

\* A step that touches nothing the lock guards.
LEMMA StoreUntouched ==
    ASSUME IInv, UNCHANGED store
    PROVE  StoreKeeps /\ Driven' = Driven
BY DEF IInv, TypeOK, store, StoreKeeps, PendingIsAccepted, PendingFits, KeysAgree,
       LiveIsRemembered, StoreBounded, Driven, Open

\* Sweeping or re-attaching: any set of live records ends.
LEMMA EndLiveKeeps ==
    ASSUME IInv, NEW S \in SUBSET Open(records), NEW says \in [S -> Terminal],
           End(S, says), pending' = pending \ S
    PROVE  StoreKeeps /\ Driven' \subseteq Driven
BY EndKeeps

\* The queue has room for one more waiting submission.
LEMMA AdmitKeeps == ASSUME IInv, Admit PROVE StoreKeeps /\ Driven' = Driven
<1> DEFINE n == Len(records)
           id == n + 1
           rec == [key |-> rpc, status |-> "accepted", lapse |-> now + Lease,
                   stamp |-> moves + 1]
           all == Append(records, rec)
           K == kept \cup {id}
           keys == [byKey EXCEPT ![rpc] = id]
<1>0. /\ n \in Nat /\ DOMAIN records = 1..n /\ records \in [1..n -> Record]
      /\ IsFiniteSet(kept) /\ IsFiniteSet(pending)
  BY RecordsTyped DEF IInv
<1>1. /\ kept \subseteq 1..n /\ pending \subseteq 1..n /\ byKey \in [Key -> 0..n]
      /\ moves \in Nat /\ now \in Nat /\ armed \in BOOLEAN /\ rpc \in Key
  BY <1>0 DEF IInv, TypeOK, Admit
<1>2. rec \in Record
  BY <1>1 DEF Record, Live
<1>3. /\ all \in Seq(Record) /\ Len(all) = id /\ DOMAIN all = 1..id
      /\ all[id] = rec /\ \A i \in 1..n : all[i] = records[i]
  BY <1>0, <1>2
<1>4. /\ records' = all /\ pending' = pending \cup {id} /\ moves' = moves + 1
      /\ Evict(all, K, keys) /\ ~Known(rpc) /\ ~Full
  BY DEF Admit
<1>5. rec.status = "accepted" /\ rec.key = rpc
  OBVIOUS
<1> HIDE DEF rec, all
<1>6. Live \cap Terminal = {} /\ "accepted" \in Live /\ "started" \in Live
  BY DEF Live, Terminal
<1>7. n \in Nat /\ id \in Nat /\ id \notin 1..n /\ 1..id = 1..n \cup {id}
  BY <1>0
<1>8. /\ PendingIsAccepted' /\ Driven' = Driven
      /\ pending' = {i \in 1..id : all[i].status = "accepted"}
      /\ Driven' = {i \in 1..id : all[i].status = "started"}
  <2>1. pending = {i \in 1..n : records[i].status = "accepted"}
    BY <1>0 DEF IInv, PendingIsAccepted
  <2>2. pending' = {i \in 1..id : all[i].status = "accepted"}
    BY <2>1, <1>3, <1>4, <1>5, <1>7
  <2>3. Driven = {i \in 1..n : records[i].status = "started"}
    BY <1>0, <1>6 DEF Driven, Open
  <2>4. {i \in 1..id : all[i].status = "started"} = {i \in 1..n : records[i].status = "started"}
    BY <1>3, <1>5, <1>7
  <2>5. Driven' = {i \in 1..id : all[i].status = "started"}
    BY <1>3, <1>4, <1>6 DEF Driven, Open
  <2> QED BY <2>2, <2>3, <2>4, <2>5, <1>3, <1>4 DEF PendingIsAccepted
<1>9. IsFiniteSet(pending') /\ Cardinality(pending') <= MaxPending
  <2>1. Cardinality(pending) \in Nat /\ Cardinality(pending) < MaxPending
    BY <1>0, <1>4, FS_CardinalityType DEF Full
  <2>2. /\ IsFiniteSet(pending \cup {id})
        /\ Cardinality(pending \cup {id}) <= Cardinality(pending) + 1
        /\ Cardinality(pending \cup {id}) \in Nat
    <3>1. IsFiniteSet(pending)
      BY <1>0
    <3>2. /\ IsFiniteSet(pending \cup {id})
          /\ Cardinality(pending \cup {id}) =
                IF id \in pending THEN Cardinality(pending) ELSE Cardinality(pending) + 1
      BY <3>1, FS_AddElement
    <3> QED BY <3>2, <2>1
  <2> QED BY <1>4, <2>1, <2>2
<1>10. Open(all) = pending' \cup Driven'
  BY <1>8, <1>3 DEF Open, Live
<1>11. IsFiniteSet(K) /\ K \subseteq 1..id
  BY <1>0, <1>1, <1>7, FS_AddElement
<1>12. Cardinality(K \ Victims(all, K)) <= MaxRemembered
  <2>1. \A i, j \in Driven' : i = j
    BY <1>8 DEF IInv, OneDriven
  <2>2. /\ IsFiniteSet(pending' \cup Driven')
        /\ Cardinality(pending' \cup Driven') <= MaxRemembered
    BY ONLY <2>1, <1>9, LiveFits
  <2>3. IsFiniteSet(Open(all)) /\ Cardinality(Open(all)) <= MaxRemembered
    BY <2>2, <1>10
  <2>4. K \ Victims(all, K) \subseteq Open(all)
    <3>1. \A i \in 1..id : all[i].status \in Live \cup Terminal
      BY <1>0, <1>3, <1>5, <1>6, <1>7 DEF Record
    <3> QED BY <3>1, <1>3, <1>11 DEF Victims, Open
  <2>5. /\ Cardinality(K \ Victims(all, K)) <= Cardinality(Open(all))
        /\ IsFiniteSet(K \ Victims(all, K))
    BY <2>3, <2>4, FS_Subset
  <2>6. Cardinality(K \ Victims(all, K)) \in Nat /\ Cardinality(Open(all)) \in Nat
    BY <2>3, <2>5, FS_CardinalityType
  <2> QED BY <2>3, <2>5, <2>6
<1> HIDE DEF K, keys
<1>13. /\ kept' \subseteq K
       /\ K \ Victims(all, K) \subseteq kept'
       /\ Cardinality(kept') <= MaxRemembered
       /\ byKey' = [k \in Key |-> IF keys[k] \in K \ kept' THEN 0 ELSE keys[k]]
  <2>1. IsFiniteSet(K) /\ Evict(all, K, keys)
    BY <1>4, <1>11
  <2> QED BY ONLY <2>1, <1>12, EvictFacts
<1>14. LiveIsRemembered'
  <2>1. Open(all) \subseteq K
    BY <1>8, <1>4, <1>3, <1>7, <1>0 DEF IInv, LiveIsRemembered, Open, K
  <2>2. Open(all) \subseteq K \ Victims(all, K)
    BY <2>1, <1>6 DEF Open, Victims
  <2>3. (Open(records))' = Open(all)
    BY <1>4 DEF Open
  <2> QED BY <2>2, <2>3, <1>13 DEF LiveIsRemembered
<1>15. \A i \in kept : records[i].key # rpc
  <2> SUFFICES ASSUME NEW i \in kept, records[i].key = rpc PROVE FALSE
    OBVIOUS
  <2>1. byKey[rpc] = i
    BY DEF IInv, KeysAgree
  <2>2. i # 0
    BY <1>1
  <2> QED BY <2>1, <2>2, <1>4 DEF Known
<1>16. KeysAgree'
  <2> SUFFICES ASSUME NEW i \in kept' PROVE byKey'[records'[i].key] = i
    BY DEF KeysAgree
  <2>1. CASE i = id
    <3>1. records'[i].key = rpc /\ keys[rpc] = id
      BY <2>1, <1>3, <1>4, <1>5, <1>1 DEF keys
    <3> QED BY <3>1, <2>1, <1>13, <1>1
  <2>2. CASE i # id
    <3>1. i \in kept /\ i \in 1..n
      BY <2>2, <1>13, <1>1 DEF K
    <3>2. records'[i].key = records[i].key /\ records[i].key \in Key
      BY <3>1, <1>3, <1>4, <1>0 DEF Record
    <3>3. keys[records[i].key] = i
      BY <3>1, <3>2, <1>15, <1>1 DEF IInv, KeysAgree, keys
    <3> QED BY <3>2, <3>3, <1>13
  <2> QED BY <2>1, <2>2
<1>17. byKey' \in [Key -> 0..id]
  <2>1. keys \in [Key -> 0..id]
    BY <1>1, <1>0 DEF keys
  <2> QED BY <2>1, <1>13, <1>0
<1>18. kept' \subseteq 1..id /\ pending' \subseteq 1..id
  BY <1>13, <1>11, <1>4, <1>1, <1>7
<1> QED BY <1>0, <1>1, <1>3, <1>4, <1>8, <1>9, <1>13, <1>14, <1>16, <1>17, <1>18
        DEF StoreKeeps, PendingFits, StoreBounded

\* take_next moves the head of the queue from the waiting to the driven ones.
LEMMA TakeKeeps ==
    ASSUME IInv, NEW i \in pending, TakeNext(i)
    PROVE  StoreKeeps /\ Driven' = {i}
<1> DEFINE n == Len(records)
<1>0. /\ n \in Nat /\ DOMAIN records = 1..n /\ records \in [1..n -> Record]
      /\ IsFiniteSet(pending)
  BY RecordsTyped DEF IInv
<1>1. /\ pending = {j \in 1..n : records[j].status = "accepted"}
      /\ Driven = {} /\ Driven = {j \in 1..n : records[j].status = "started"}
  BY <1>0 DEF IInv, PendingIsAccepted, OneDriven, TakeNext, Driven, Open, Live
<1>2. /\ records' = [records EXCEPT ![i] = [records[i] EXCEPT !.status = "started"]]
      /\ pending' = pending \ {i} /\ UNCHANGED <<kept, byKey, moves>>
  BY DEF TakeNext
<1>3. i \in 1..n /\ records[i] \in Record /\ records[i].status = "accepted"
  BY <1>0, <1>1
<1>4. [records[i] EXCEPT !.status = "started"] \in Record
  BY <1>3 DEF Record, Live
<1>5. /\ records' \in [1..n -> Record]
      /\ records'[i].status = "started" /\ records'[i].key = records[i].key
      /\ \A j \in 1..n : j # i => records'[j] = records[j]
      /\ records'[i].lapse = records[i].lapse
  BY <1>0, <1>2, <1>3, <1>4 DEF Record
<1>6. /\ records' \in Seq(Record) /\ Len(records') = n /\ DOMAIN records' = 1..n
  BY <1>0, <1>5
<1>7. PendingIsAccepted'
  BY <1>1, <1>2, <1>3, <1>5, <1>6 DEF PendingIsAccepted
<1>8. Driven' = {i}
  <2>1. Driven' = {j \in 1..n : records'[j].status = "started"}
    BY <1>6 DEF Driven, Open, Live
  <2> QED BY <2>1, <1>1, <1>3, <1>5
<1>9. PendingFits'
  <2>1. pending \ {i} \in SUBSET pending
    OBVIOUS
  <2>2. Cardinality(pending \ {i}) <= Cardinality(pending) /\ IsFiniteSet(pending \ {i})
    BY <2>1, <1>0, FS_Subset
  <2>3. Cardinality(pending) \in Nat /\ Cardinality(pending \ {i}) \in Nat
    BY <2>2, <1>0, FS_CardinalityType
  <2> QED BY <2>2, <2>3, <1>2 DEF IInv, PendingFits
<1>10. Open(records)' = Open(records)
  BY <1>0, <1>3, <1>5, <1>6 DEF Open, Live
<1>11. KeysAgree' /\ LiveIsRemembered' /\ StoreBounded'
  <2>1. \A j \in kept : records'[j].key = records[j].key
    BY <1>0, <1>5 DEF IInv, TypeOK
  <2> QED BY <2>1, <1>2, <1>10 DEF IInv, KeysAgree, LiveIsRemembered, StoreBounded
<1>12. \A j \in 1..n :
          /\ records[j].status \in Terminal => records'[j].status = records[j].status
          /\ records'[j].lapse = records[j].lapse
  BY <1>3, <1>5 DEF Terminal
<1>13. /\ kept' \subseteq 1..n /\ pending' \subseteq 1..n /\ moves' \in Nat
       /\ byKey' \in [Key -> 0..n]
  BY <1>0, <1>2 DEF IInv, TypeOK
<1> QED BY <1>0, <1>6, <1>7, <1>8, <1>9, <1>11, <1>12, <1>13 DEF StoreKeeps

-----------------------------------------------------------------------------
\* The invariant holds at the start.
LEMMA InitIInv == Init => IInv
<1> SUFFICES ASSUME Init PROVE IInv
  OBVIOUS
<1>1. records = <<>> /\ DOMAIN records = {} /\ Len(records) = 0
  BY DEF Init
<1>2. TypeOK
  <2>1. records \in Seq(Record) /\ kept = {} /\ pending = {}
    BY DEF Init
  <2>2. byKey \in [Key -> 0..Len(records)]
    BY <1>1 DEF Init
  <2>3. pc \in Places /\ lever \in Levers /\ armed \in BOOLEAN /\ rpc \in Key \cup {NoRequest}
    BY DEF Init, Places, Levers
  <2>4. now \in Nat /\ tickNow \in Nat /\ moves \in Nat /\ attaches \in Nat
    BY DEF Init
  <2> QED BY <2>1, <2>2, <2>3, <2>4 DEF TypeOK
<1>3. Cardinality({}) = 0
  BY FS_EmptySet
<1>4. PendingFits /\ StoreBounded
  BY <1>3 DEF Init, PendingFits, StoreBounded
<1>5. PendingIsAccepted /\ KeysAgree /\ LiveIsRemembered
  BY <1>1 DEF Init, PendingIsAccepted, KeysAgree, LiveIsRemembered, Open
<1>6. OneDriven
  BY <1>1 DEF OneDriven, Driven, Open
<1> QED BY <1>2, <1>4, <1>5, <1>6 DEF IInv

\* The types of what the lock does not guard.
LoopTyped ==
    /\ now \in Nat /\ tickNow \in Nat /\ attaches \in Nat
    /\ pc \in Places /\ lever \in Levers /\ armed \in BOOLEAN
    /\ rpc \in Key \cup {NoRequest}

\* The two halves of the state make the invariant.
LEMMA Assemble ==
    ASSUME StoreKeeps, LoopTyped', OneDriven'
    PROVE  IInv'
BY DEF StoreKeeps, LoopTyped, IInv, TypeOK

\* A step that ends records, or none, while the place it goes to drives as
\* many records as before or fewer.
LEMMA FewerDriven ==
    ASSUME IInv, Driven' \subseteq Driven,
           pc' \in {"between", "levers", "disarm", "authority", "serve"} => Driven' = {}
    PROVE  OneDriven'
BY DEF IInv, OneDriven

\* A record becomes a driven one only through take_next.
OnlyTakeDrives == Driven' \subseteq Driven \/ \E i \in pending : TakeNext(i)

\* Every step keeps the invariant, one step of the proof per action.
LEMMA StepKeeps == IInv /\ [Next]_vars => IInv' /\ StoreKeeps /\ OnlyTakeDrives
<1> SUFFICES ASSUME IInv, [Next]_vars PROVE IInv' /\ StoreKeeps /\ OnlyTakeDrives
  OBVIOUS
<1> USE DEF Places, Levers, LoopTyped
<1>t. LoopTyped
  BY DEF IInv, TypeOK
<1>d. pc \in {"between", "levers", "disarm", "authority", "serve"} => Driven = {}
  BY DEF IInv, OneDriven
<1>1. ASSUME NEW k \in Key, Call(k) PROVE IInv' /\ StoreKeeps /\ OnlyTakeDrives
  <2>1. StoreKeeps /\ Driven' = Driven
    BY <1>1, StoreUntouched DEF Call
  <2>2. LoopTyped'
    BY <1>1, <1>t DEF Call, loop
  <2>3. OneDriven'
    BY <1>1, <1>d, <2>1, FewerDriven DEF Call, loop
  <2> QED BY <2>1, <2>2, <2>3, Assemble DEF OnlyTakeDrives
<1>2. CASE AnswerWithoutAdmitting
  <2>1. StoreKeeps /\ Driven' = Driven
    BY <1>2, StoreUntouched DEF AnswerWithoutAdmitting
  <2>2. LoopTyped'
    BY <1>2, <1>t DEF AnswerWithoutAdmitting, loop
  <2>3. OneDriven'
    BY <1>2, <1>d, <2>1, FewerDriven DEF AnswerWithoutAdmitting, loop
  <2> QED BY <2>1, <2>2, <2>3, Assemble DEF OnlyTakeDrives
<1>3. CASE Admit
  <2>1. StoreKeeps /\ Driven' = Driven
    BY <1>3, AdmitKeeps
  <2>2. LoopTyped'
    BY <1>3, <1>t DEF Admit, loop
  <2>3. OneDriven'
    BY <1>3, <1>d, <2>1, FewerDriven DEF Admit, loop
  <2> QED BY <2>1, <2>2, <2>3, Assemble DEF OnlyTakeDrives
<1>4. CASE BeginTick
  <2> DEFINE over == {i \in kept \cap Open(records) : Overdue(i)}
             says == [i \in over |-> "failed"]
  <2>1. over \in SUBSET Open(records) /\ says \in [over -> Terminal]
    BY DEF Terminal
  <2>2. End(over, says) /\ pending' = pending \ over
    BY <1>4 DEF BeginTick, Sweep
  <2> HIDE DEF over, says
  <2>3. StoreKeeps /\ Driven' \subseteq Driven
    BY <2>1, <2>2, EndLiveKeeps
  <2>4. LoopTyped'
    BY <1>4, <1>t DEF BeginTick
  <2>5. OneDriven'
    BY <1>4, <1>d, <2>3, FewerDriven DEF BeginTick
  <2> QED BY <2>3, <2>4, <2>5, Assemble DEF OnlyTakeDrives
<1>5. ASSUME NEW l \in Levers, ApplyEvents(l) PROVE IInv' /\ StoreKeeps /\ OnlyTakeDrives
  <2>1. StoreKeeps /\ Driven' = Driven
    <3>1. CASE l = "panic"
      <4>1. "cancelled" \in Terminal /\ ClearPending("cancelled")
        BY <1>5, <3>1 DEF ApplyEvents, Terminal
      <4> QED BY <4>1, ClearKeeps
    <3>2. CASE l # "panic"
      BY <1>5, <3>2, StoreUntouched DEF ApplyEvents
    <3> QED BY <3>1, <3>2
  <2>2. LoopTyped'
    BY <1>5, <1>t DEF ApplyEvents
  <2>3. OneDriven'
    BY <1>5, <1>d, <2>1, FewerDriven DEF ApplyEvents
  <2> QED BY <2>1, <2>2, <2>3, Assemble DEF OnlyTakeDrives
<1>6. CASE Disarm
  <2>1. "rejected" \in Terminal /\ ClearPending("rejected")
    BY <1>6 DEF Disarm, Terminal
  <2>2. StoreKeeps /\ Driven' = Driven
    BY <2>1, ClearKeeps
  <2>3. LoopTyped'
    BY <1>6, <1>t DEF Disarm
  <2>4. OneDriven'
    BY <1>6, <1>d, <2>2, FewerDriven DEF Disarm
  <2> QED BY <2>2, <2>3, <2>4, Assemble DEF OnlyTakeDrives
<1>7. CASE GrantArm \/ KeepAuthority \/ ServeNothing
  <2>1. StoreKeeps /\ Driven' = Driven
    BY <1>7, StoreUntouched DEF GrantArm, KeepAuthority, ServeNothing
  <2>2. LoopTyped'
    BY <1>7, <1>t DEF GrantArm, KeepAuthority, ServeNothing, EndTick
  <2>3. OneDriven'
    BY <1>7, <1>d, <2>1, FewerDriven DEF GrantArm, KeepAuthority, ServeNothing, EndTick
  <2> QED BY <2>1, <2>2, <2>3, Assemble DEF OnlyTakeDrives
<1>8. CASE ControlDisarm \/ ServeDisarmed
  <2>1. "rejected" \in Terminal /\ ClearPending("rejected")
    BY <1>8 DEF ControlDisarm, ServeDisarmed, Terminal
  <2>2. StoreKeeps /\ Driven' = Driven
    BY <2>1, ClearKeeps
  <2>3. LoopTyped'
    BY <1>8, <1>t DEF ControlDisarm, ServeDisarmed, EndTick
  <2>4. OneDriven'
    BY <1>8, <1>d, <2>2, FewerDriven DEF ControlDisarm, ServeDisarmed, EndTick
  <2> QED BY <2>2, <2>3, <2>4, Assemble DEF OnlyTakeDrives
<1>9. ASSUME NEW i \in pending, TakeNext(i) PROVE IInv' /\ StoreKeeps /\ OnlyTakeDrives
  <2>1. StoreKeeps /\ Driven' = {i}
    BY <1>9, TakeKeeps
  <2>2. LoopTyped'
    BY <1>9, <1>t DEF TakeNext
  <2>3. OneDriven'
    BY <1>9, <2>1 DEF TakeNext, OneDriven
  <2> QED BY <1>9, <2>1, <2>2, <2>3, Assemble DEF OnlyTakeDrives
<1>10. ASSUME NEW i \in Driven, NEW result \in Results, Settle(i, result)
       PROVE  IInv' /\ StoreKeeps /\ OnlyTakeDrives
  <2> DEFINE says == [j \in {i} |-> result]
  <2>1. {i} \in SUBSET Open(records) /\ says \in [{i} -> Terminal]
    BY DEF Driven, Results
  <2>2. End({i}, says) /\ pending' = pending \ {i}
    BY <1>10 DEF Settle, IInv, PendingIsAccepted, Driven
  <2> HIDE DEF says
  <2>3. StoreKeeps /\ Driven' = Driven \ {i}
    BY <2>1, <2>2, EndKeeps
  <2>4. Driven' = {}
    BY <2>3, <1>10 DEF IInv, OneDriven
  <2>5. LoopTyped'
    BY <1>10, <1>t DEF Settle, EndTick
  <2>6. OneDriven'
    BY <2>4 DEF OneDriven
  <2> QED BY <2>3, <2>4, <2>5, <2>6, Assemble DEF OnlyTakeDrives
<1>11. CASE EngineRaises \/ RunReturns \/ Detach
  <2>1. StoreKeeps /\ Driven' = Driven
    BY <1>11, StoreUntouched DEF EngineRaises, RunReturns, Detach
  <2>2. LoopTyped'
    BY <1>11, <1>t DEF EngineRaises, RunReturns, Detach
  <2>3. OneDriven'
    BY <1>11, <2>1, FewerDriven DEF EngineRaises, RunReturns, Detach
  <2> QED BY <2>1, <2>2, <2>3, Assemble DEF OnlyTakeDrives
<1>12. CASE Shutdown
  <2>1. "cancelled" \in Terminal /\ ClearPending("cancelled")
    BY <1>12 DEF Shutdown, Terminal
  <2>2. StoreKeeps /\ Driven' = Driven
    BY <2>1, ClearKeeps
  <2>3. LoopTyped'
    BY <1>12, <1>t DEF Shutdown
  <2>4. OneDriven'
    BY <1>12, <2>2, FewerDriven DEF Shutdown
  <2> QED BY <2>2, <2>3, <2>4, Assemble DEF OnlyTakeDrives
<1>13. CASE Attach
  <2> DEFINE open == kept \cap Open(records)
             says == [i \in open |-> IF i \in pending THEN "cancelled" ELSE "lost"]
  <2>1. open \in SUBSET Open(records) /\ says \in [open -> Terminal]
    BY DEF Terminal
  <2>2. End(open, says) /\ pending' = pending \ open
    BY <1>13 DEF Attach, CloseOpen
  <2>3. open = Open(records)
    BY DEF IInv, LiveIsRemembered
  <2> HIDE DEF open, says
  <2>4. StoreKeeps /\ Driven' = Driven \ open
    BY <2>1, <2>2, EndKeeps
  <2>5. Driven' = {}
    BY <2>3, <2>4 DEF Driven
  <2>6. LoopTyped'
    <3>1. attaches' \in Nat
      BY <1>13, <1>t DEF Attach
    <3>2. armed' \in BOOLEAN /\ pc' \in Places /\ UNCHANGED <<now, tickNow, lever, rpc>>
      BY <1>13 DEF Attach
    <3> QED BY <3>1, <3>2, <1>t
  <2>7. OneDriven'
    BY <2>5 DEF OneDriven
  <2> QED BY <2>4, <2>5, <2>6, <2>7, Assemble DEF OnlyTakeDrives
<1>14. CASE Clock
  <2>1. StoreKeeps /\ Driven' = Driven
    BY <1>14, StoreUntouched DEF Clock
  <2>2. LoopTyped'
    BY <1>14, <1>t DEF Clock, loop
  <2>3. OneDriven'
    BY <1>14, <1>d, <2>1, FewerDriven DEF Clock, loop
  <2> QED BY <2>1, <2>2, <2>3, Assemble DEF OnlyTakeDrives
<1>15. CASE UNCHANGED vars
  <2>1. StoreKeeps /\ Driven' = Driven
    BY <1>15, StoreUntouched DEF vars, store
  <2>2. LoopTyped'
    BY <1>15, <1>t DEF vars
  <2>3. OneDriven'
    BY <1>15, <1>d, <2>1, FewerDriven DEF vars
  <2> QED BY <2>1, <2>2, <2>3, Assemble DEF OnlyTakeDrives
<1> QED BY <1>1, <1>2, <1>3, <1>4, <1>5, <1>6, <1>7, <1>8, <1>9, <1>10, <1>11, <1>12,
           <1>13, <1>14, <1>15 DEF Next, TickStep

\* The invariant holds throughout.
LEMMA Invariance == Spec => []IInv
<1>1. IInv /\ [Next]_vars => IInv'
  BY StepKeeps
<1> QED BY InitIInv, <1>1, PTL DEF Spec

-----------------------------------------------------------------------------
(* The theorems.                                                           *)

\* Every variable keeps its type.
THEOREM TypeCorrect == Spec => []TypeOK
<1>1. IInv => TypeOK
  BY DEF IInv
<1> QED BY Invariance, <1>1, PTL

\* _evict keeps the store inside max_remembered: the bound the constructor
\* enforces, max_remembered > max_pending, is enough for every pair of caps.
THEOREM StoreStaysBounded == Spec => []StoreBounded
<1>1. IInv => StoreBounded
  BY DEF IInv
<1> QED BY Invariance, <1>1, PTL

\* _evict never forgets a submission that waits or runs.
THEOREM LiveWorkIsNeverForgotten == Spec => []LiveIsRemembered
<1>1. IInv => LiveIsRemembered
  BY DEF IInv
<1> QED BY Invariance, <1>1, PTL

\* submit makes no second record of a key whose first one is remembered.
THEOREM KeysAreNotReused == Spec => []OneRecordPerKey
<1>1. IInv => OneRecordPerKey
  BY DEF IInv, KeysAgree, OneRecordPerKey
<1> QED BY Invariance, <1>1, PTL

\* No interleaving of sweep, stop levers, take_next and settle rewrites the
\* terminal answer of an action.
THEOREM AnswersAreFinal == Spec => AnswerIsFinal
<1>1. IInv /\ [Next]_vars =>
        [\A i \in DOMAIN records :
            records[i].status \in Terminal => records'[i].status = records[i].status]_vars
  BY StepKeeps DEF StoreKeeps
<1> QED BY Invariance, <1>1, PTL DEF Spec, AnswerIsFinal

\* What waits was swept by this tick or admitted since it began.
Swept ==
    pc \in {"levers", "disarm", "authority", "serve"} =>
        \A i \in pending : tickNow < records[i].lapse + Grace

DeadlineInv == tickNow <= now /\ Swept

\* Between the sweep and take_next nothing overdue enters the queue.
LEMMA DeadlineStep == IInv /\ DeadlineInv /\ [Next]_vars => DeadlineInv'
<1> SUFFICES ASSUME IInv, DeadlineInv, [Next]_vars PROVE DeadlineInv'
  OBVIOUS
<1>1. /\ now \in Nat /\ tickNow \in Nat /\ tickNow <= now
      /\ pending \subseteq DOMAIN records
  BY DEF IInv, TypeOK, DeadlineInv
<1>2. \A i \in pending : records'[i].lapse = records[i].lapse
  BY StepKeeps, <1>1 DEF StoreKeeps
<1>3. ASSUME tickNow' = tickNow, now' = now, pending' \subseteq pending,
             pc' \in {"levers", "disarm", "authority", "serve"} =>
                pc \in {"levers", "disarm", "authority", "serve"}
      PROVE  DeadlineInv'
  BY <1>1, <1>2, <1>3 DEF DeadlineInv, Swept
<1>4. CASE Admit
  <2>1. \A i \in DOMAIN records : records'[i].lapse = records[i].lapse
    BY StepKeeps DEF StoreKeeps
  <2>2. /\ pending' = pending \cup {Len(records) + 1}
        /\ records'[Len(records) + 1].lapse = now + Lease
    BY <1>4 DEF Admit, IInv, TypeOK
  <2>3. tickNow' = tickNow /\ now' = now /\ pc' = pc
    BY <1>4 DEF Admit, loop
  <2>4. tickNow < now + Lease + Grace
    BY <1>1
  <2> QED BY <2>1, <2>2, <2>3, <2>4, <1>1, <1>2 DEF DeadlineInv, Swept
<1>5. CASE BeginTick
  <2>1. tickNow' = now /\ now' = now
    BY <1>5 DEF BeginTick
  <2>2. pending' = pending \ {i \in kept \cap Open(records) : Overdue(i)}
    BY <1>5 DEF BeginTick, Sweep
  <2>3. \A i \in pending : i \in kept \cap Open(records)
    BY OpenIs DEF IInv, LiveIsRemembered
  <2>4. \A i \in pending' : i \in pending /\ ~(now >= records[i].lapse + Grace)
    BY <2>2, <2>3 DEF Overdue
  <2>5. \A i \in pending : records[i].lapse \in Nat
    BY <1>1, RecordsTyped DEF IInv, Record
  <2>6. \A i \in pending' : now < records'[i].lapse + Grace
    BY <2>4, <2>5, <1>1, <1>2
  <2> QED BY <2>1, <2>6, <1>1 DEF DeadlineInv, Swept
<1>6. CASE Clock
  BY <1>6, <1>1 DEF Clock, DeadlineInv, Swept, store, loop
<1>7. CASE Attach
  <2>1. tickNow' = tickNow /\ now' = now /\ pc' = "between"
    BY <1>7 DEF Attach
  <2> QED BY <2>1, <1>1 DEF DeadlineInv, Swept
<1>8. ASSUME NEW l \in Levers, ApplyEvents(l) PROVE DeadlineInv'
  <2>1. pending' \subseteq pending
    BY <1>8 DEF ApplyEvents, ClearPending, store
  <2>2. tickNow' = tickNow /\ now' = now /\ pc = "levers"
    BY <1>8 DEF ApplyEvents
  <2> QED BY <2>1, <2>2, <1>3
<1>9. CASE Disarm \/ ControlDisarm \/ GrantArm \/ KeepAuthority
  <2>1. pending' \subseteq pending
    BY <1>9 DEF Disarm, ControlDisarm, GrantArm, KeepAuthority, ClearPending, store
  <2>2. /\ tickNow' = tickNow /\ now' = now
        /\ pc \in {"levers", "disarm", "authority", "serve"}
    BY <1>9 DEF Disarm, ControlDisarm, GrantArm, KeepAuthority
  <2> QED BY <2>1, <2>2, <1>3
<1>10. ASSUME tickNow' = tickNow, now' = now,
              pc' \in {"between", "driving", "stopping", "closing", "down"}
       PROVE  DeadlineInv'
  BY <1>10, <1>1 DEF DeadlineInv, Swept
<1>11. CASE ServeNothing \/ ServeDisarmed
  BY <1>11, <1>10 DEF ServeNothing, ServeDisarmed, EndTick
<1>12. ASSUME NEW i \in pending, TakeNext(i) PROVE DeadlineInv'
  BY <1>12, <1>10 DEF TakeNext
<1>13. ASSUME NEW i \in Driven, NEW result \in Results, Settle(i, result) PROVE DeadlineInv'
  BY <1>13, <1>10 DEF Settle, EndTick
<1>14. CASE EngineRaises \/ RunReturns \/ Shutdown \/ Detach
  BY <1>14, <1>10 DEF EngineRaises, RunReturns, Shutdown, Detach
<1>15. CASE UNCHANGED vars
  BY <1>15, <1>3 DEF vars
<1>16. ASSUME NEW k \in Key, Call(k) PROVE DeadlineInv'
  BY <1>16, <1>3 DEF Call, store, loop
<1>17. CASE AnswerWithoutAdmitting
  BY <1>17, <1>3 DEF AnswerWithoutAdmitting, store, loop
<1> QED BY <1>4, <1>5, <1>6, <1>7, <1>8, <1>9, <1>11, <1>12, <1>13, <1>14, <1>15, <1>16, <1>17
        DEF Next, TickStep

\* sweep runs before anything is served, so take_next starts nothing that had
\* timed out when the tick began, whatever was admitted in between.
THEOREM NothingOverdueIsStarted == Spec => StartedBeforeItsDeadline
<1>1. Init => DeadlineInv
  BY DEF Init, DeadlineInv, Swept
<1>2. IInv /\ DeadlineInv /\ [Next]_vars =>
        [\A i \in pending : records'[i].status = "started"
            => tickNow < records[i].lapse + Grace]_vars
  <2> SUFFICES ASSUME IInv, DeadlineInv, [Next]_vars, NEW i \in pending,
                      records'[i].status = "started", vars' # vars
      PROVE  tickNow < records[i].lapse + Grace
    OBVIOUS
  <2>1. i \in DOMAIN records /\ records[i].status = "accepted" /\ i \notin Driven
    BY DEF IInv, PendingIsAccepted, Driven
  <2>2. i \in Driven'
    <3>1. i \in DOMAIN records'
      BY StepKeeps, <2>1 DEF StoreKeeps
    <3> QED BY <3>1 DEF Driven, Open, Live
  <2>3. \E j \in pending : TakeNext(j)
    BY StepKeeps, <2>1, <2>2 DEF OnlyTakeDrives
  <2> QED BY <2>3 DEF TakeNext, DeadlineInv, Swept
<1> QED BY Invariance, DeadlineStep, <1>1, <1>2, PTL DEF Spec, StartedBeforeItsDeadline
=============================================================================
