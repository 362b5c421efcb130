----------------------------- MODULE SidecarProofs -----------------------------
(***************************************************************************)
(* What is proved about Goals for every set of clients and triggers and    *)
(* every bound, and about Attach for every set of processes.  The names of *)
(* the two modules are apart, so that one module can speak of both.        *)
(*                                                                         *)
(* The first half is about Goals: sequences and orders, then what each     *)
(* operation of the queue returns, then the inductive invariant GoalsInv,  *)
(* what every step keeps of it, and the five theorems that follow from it. *)
(* Where a definition recurs over a sequence its value is found at the     *)
(* least index at which it would be wrong.                                 *)
(***************************************************************************)
EXTENDS Goals, Attach, FiniteSetTheorems, FunctionTheorems, SequenceTheorems,
        WellFoundedInduction, TLAPS

-----------------------------------------------------------------------------
(* Sets and sequences.                                                     *)

\* A set of natural numbers has a least one.
LEMMA Least ==
    ASSUME NEW T \in SUBSET Nat, T # {}
    PROVE  \E x \in T : \A y \in T : x <= y
  <1>1. IsWellFoundedOn(OpToRel(<, Nat), Nat) BY NatLessThanWellFounded
  <1>2. \E x \in T : \A y \in T : ~ (<<y, x>> \in OpToRel(<, Nat)) BY <1>1, WFMin
  <1>3. \A x, y \in Nat : <<y, x>> \notin OpToRel(<, Nat) => x <= y BY DEF OpToRel
  <1> QED BY <1>2, <1>3

\* Min of a set of natural numbers is its least.
LEMMA MinIsLeast ==
    ASSUME NEW T \in SUBSET Nat, T # {}
    PROVE  Min(T) \in T /\ \A y \in T : Min(T) <= y
  BY Least DEF Min

\* The ordering R puts the elements of S in a row.
Orders(R, S) ==
    /\ \A x, y \in S : <<x, y>> \in R \/ <<y, x>> \in R
    /\ \A x, y, z \in S : <<x, y>> \in R /\ <<y, z>> \in R => <<x, z>> \in R

\* A finite set that is put in a row has a last element.
LEMMA Greatest ==
    ASSUME NEW S, IsFiniteSet(S), NEW R, Orders(R, S), NEW T \in SUBSET S, T # {}
    PROVE  \E x \in T : \A y \in T : <<y, x>> \in R
  <1> DEFINE HasLast(U) == \E x \in U : \A y \in U : <<y, x>> \in R
             Bad == {n \in Nat : \E U \in SUBSET S :
                        U # {} /\ Cardinality(U) = n /\ ~HasLast(U)}
  <1>1. Bad = {}
    <2>1. SUFFICES ASSUME Bad # {} PROVE FALSE OBVIOUS
    <2>2. PICK n \in Bad : \A m \in Bad : n <= m BY <2>1, Least
    <2>3. PICK U \in SUBSET S : U # {} /\ Cardinality(U) = n /\ ~HasLast(U) BY <2>2
    <2>4. PICK x \in U : TRUE BY <2>3
    <2> DEFINE V == U \ {x}
    <2>5. Cardinality(V) = n - 1 /\ n - 1 \in Nat /\ V \in SUBSET S
      <3>1. IsFiniteSet(U) /\ IsFiniteSet(V) BY <2>3, FS_Subset
      <3>2. Cardinality(V) = n - 1 BY <2>3, <2>4, <3>1, FS_RemoveElement
      <3>3. Cardinality(V) \in Nat BY <3>1, FS_CardinalityType
      <3> QED BY <3>2, <3>3
    <2>6. CASE V = {}
      <3>1. U = {x} BY <2>4, <2>6
      <3>2. <<x, x>> \in R BY DEF Orders
      <3> QED BY <2>3, <3>1, <3>2
    <2>7. CASE V # {}
      <3>1. HasLast(V)
        <4>1. n - 1 \notin Bad BY <2>2, <2>5
        <4> QED BY <2>5, <2>7, <4>1
      <3>2. PICK v \in V : \A y \in V : <<y, v>> \in R BY <3>1
      <3>3. v \in S /\ x \in S /\ \A y \in U : y \in S /\ (y = x \/ y \in V) OBVIOUS
      <3>4. CASE <<x, v>> \in R
        <4>1. \A y \in U : <<y, v>> \in R BY <3>2, <3>3, <3>4
        <4> QED BY <2>3, <3>2, <4>1
      <3>5. CASE <<v, x>> \in R
        <4>1. <<x, x>> \in R BY <3>3 DEF Orders
        <4>2. \A y \in V : <<y, x>> \in R BY <3>2, <3>3, <3>5 DEF Orders
        <4>3. \A y \in U : <<y, x>> \in R BY <3>3, <4>1, <4>2
        <4> QED BY <2>3, <2>4, <4>3
      <3> QED BY <3>3, <3>4, <3>5 DEF Orders
    <2> QED BY <2>6, <2>7
  <1>2. IsFiniteSet(T) /\ Cardinality(T) \in Nat BY FS_Subset, FS_CardinalityType
  <1>3. Cardinality(T) \notin Bad BY <1>1
  <1> QED BY <1>2, <1>3

\* The members of SetToSeqs are the sequences without repetition of a finite set.
LEMMA Listing ==
    ASSUME NEW S, IsFiniteSet(S), NEW s \in SetToSeqs(S)
    PROVE  /\ s \in Seq(S) /\ Len(s) = Cardinality(S) /\ DOMAIN s = 1..Len(s)
           /\ IsInjective(s) /\ Range(s) = S
  <1>1. Cardinality(S) \in Nat BY FS_CardinalityType
  <1>2. s \in [1..Cardinality(S) -> S] /\ IsInjective(s) BY DEF SetToSeqs, IsInjective
  <1>3. s \in Seq(S) /\ Len(s) = Cardinality(S) BY <1>1, <1>2, SeqDef, LenProperties
  <1>4. \A x \in S : \E i \in 1..Cardinality(S) : s[i] = x
    <2>1. SUFFICES ASSUME NEW x \in S, \A i \in 1..Cardinality(S) : s[i] # x PROVE FALSE
      OBVIOUS
    <2>2. IsFiniteSet(S \ {x}) /\ Cardinality(S \ {x}) = Cardinality(S) - 1
      BY <2>1, FS_RemoveElement
    <2>3. IsFiniteSet(1..Cardinality(S)) /\ Cardinality(1..Cardinality(S)) = Cardinality(S)
      BY <1>1, FS_Interval
    <2>4. s \in [1..Cardinality(S) -> S \ {x}] BY <1>2, <2>1
    <2>5. \E i, j \in 1..Cardinality(S) : i # j /\ s[i] = s[j]
      BY <1>1, <2>2, <2>3, <2>4, FS_PigeonHole
    <2> QED BY <1>2, <2>5 DEF IsInjective
  <1> QED BY <1>2, <1>3, <1>4 DEF Range

\* SetToSeq lists a finite set.
LEMMA SetToSeqLists ==
    ASSUME NEW S, IsFiniteSet(S)
    PROVE  SetToSeq(S) \in SetToSeqs(S)
  <1>1. \E f \in [1..Cardinality(S) -> S] : IsInjective(f)
    BY FS_CardinalityType DEF ExistsBijection, Bijection, Injection, IsInjective
  <1> DEFINE g == SetToSeq(S)
  <1>2. g \in [1..Cardinality(S) -> S] /\ IsInjective(g) BY <1>1 DEF SetToSeq
  <1> HIDE DEF g
  <1>3. g \in SetToSeqs(S) BY <1>2 DEF SetToSeqs, IsInjective
  <1> QED BY <1>3 DEF g

\* A finite set can be listed in the order R.
LEMMA Sorted ==
    ASSUME NEW S, IsFiniteSet(S), NEW R, Orders(R, S)
    PROVE  \E s \in SetToSeqs(S) : \A i, j \in DOMAIN s : i < j => <<s[i], s[j]>> \in R
  <1> DEFINE InARow(s) == \A i, j \in DOMAIN s : i < j => <<s[i], s[j]>> \in R
             Bad == {n \in Nat : \E T \in SUBSET S :
                        Cardinality(T) = n /\ ~\E s \in SetToSeqs(T) : InARow(s)}
  <1>1. Bad = {}
    <2>1. SUFFICES ASSUME Bad # {} PROVE FALSE OBVIOUS
    <2>2. PICK n \in Bad : \A m \in Bad : n <= m BY <2>1, Least
    <2>3. PICK T \in SUBSET S : Cardinality(T) = n /\ ~\E s \in SetToSeqs(T) : InARow(s)
      BY <2>2
    <2>4. IsFiniteSet(T) /\ n \in Nat BY <2>2, FS_Subset
    <2>5. T # {}
      <3>1. SUFFICES ASSUME T = {} PROVE FALSE OBVIOUS
      <3>2. Cardinality(T) = 0 BY <3>1, FS_EmptySet
      <3> DEFINE e == [i \in 1..0 |-> i]
      <3>3. e \in [1..Cardinality(T) -> T] /\ DOMAIN e = {} BY <3>2
      <3>4. e \in SetToSeqs(T) BY <3>2, <3>3 DEF SetToSeqs
      <3>5. InARow(e) BY <3>3
      <3> QED BY <2>3, <3>4, <3>5
    <2>6. PICK x \in T : \A y \in T : <<y, x>> \in R BY <2>5, Greatest
    <2>7. /\ IsFiniteSet(T \ {x}) /\ Cardinality(T \ {x}) = n - 1 /\ n - 1 \in Nat
          /\ T \ {x} \in SUBSET S
      BY <2>3, <2>4, <2>6, FS_RemoveElement, FS_CardinalityType
    <2>8. PICK s \in SetToSeqs(T \ {x}) : InARow(s)
      <3>1. n - 1 \notin Bad BY <2>2, <2>7
      <3> QED BY <2>7, <3>1
    <2>9. /\ s \in [1..n-1 -> T \ {x}]
          /\ \A i, j \in 1..n-1 : i # j => s[i] # s[j]
      BY <2>7, <2>8 DEF SetToSeqs
    <2> DEFINE u == [i \in 1..n |-> IF i = n THEN x ELSE s[i]]
    <2>10. u \in SetToSeqs(T)
      <3>1. u \in [1..n -> T] BY <2>4, <2>6, <2>9
      <3>2. \A i, j \in 1..n : i # j => u[i] # u[j] BY <2>4, <2>9
      <3> QED BY <2>3, <3>1, <3>2 DEF SetToSeqs
    <2>11. InARow(u)
      <3>1. SUFFICES ASSUME NEW i \in 1..n, NEW j \in 1..n, i < j
                     PROVE  <<u[i], u[j]>> \in R
        OBVIOUS
      <3>2. i \in 1..n-1 BY <2>4, <3>1
      <3>3. CASE j = n BY <2>6, <2>9, <3>2, <3>3
      <3>4. CASE j # n
        <4>1. j \in 1..n-1 /\ DOMAIN s = 1..n-1 BY <2>4, <2>9, <3>4
        <4>2. <<s[i], s[j]>> \in R BY <2>8, <3>1, <3>2, <4>1
        <4>3. u[i] = s[i] /\ u[j] = s[j] BY <2>4, <3>2, <3>4
        <4> QED BY <4>2, <4>3
      <3> QED BY <3>3, <3>4
    <2> QED BY <2>3, <2>10, <2>11
  <1>2. Cardinality(S) \in Nat /\ Cardinality(S) \notin Bad BY <1>1, FS_CardinalityType
  <1> QED BY <1>2

\* A finite set that is put in a row has a first element.
LEMMA First ==
    ASSUME NEW S, IsFiniteSet(S), NEW R, Orders(R, S), S # {}
    PROVE  \E x \in S : \A y \in S : <<x, y>> \in R
  <1>1. PICK s \in SetToSeqs(S) : \A i, j \in DOMAIN s : i < j => <<s[i], s[j]>> \in R
    BY Sorted
  <1>2. /\ s \in Seq(S) /\ Len(s) = Cardinality(S) /\ DOMAIN s = 1..Len(s) /\ Range(s) = S
        /\ Len(s) \in Nat
    BY Listing, FS_CardinalityType
  <1>3. Len(s) # 0 BY <1>2, FS_EmptySet
  <1>4. s[1] \in S /\ <<s[1], s[1]>> \in R BY <1>2, <1>3 DEF Orders
  <1>5. \A y \in S : \E i \in DOMAIN s : y = s[i] BY <1>2 DEF Range
  <1>6. \A y \in S : <<s[1], y>> \in R
    <2> SUFFICES ASSUME NEW y \in S PROVE <<s[1], y>> \in R OBVIOUS
    <2>1. PICK i \in DOMAIN s : y = s[i] BY <1>5
    <2>2. CASE i = 1 BY <1>4, <2>1, <2>2
    <2>3. CASE i # 1 BY <1>1, <1>2, <1>3, <2>1, <2>3
    <2> QED BY <2>2, <2>3
  <1> QED BY <1>4, <1>6

\* One sequence without repetition is another in a different order.
Permutes(t, s) == Len(t) = Len(s) /\ IsInjective(t) /\ Range(t) = Range(s)

\* What RemoveAt leaves.
LEMMA RemovedAt ==
    ASSUME NEW S, NEW s \in Seq(S), NEW i \in 1..Len(s)
    PROVE  /\ RemoveAt(s, i) \in Seq(S) /\ Len(RemoveAt(s, i)) = Len(s) - 1
           /\ \A j \in 1..Len(s)-1 : RemoveAt(s, i)[j] = s[IF j < i THEN j ELSE j + 1]
  <1>1. Len(s) \in Nat /\ \A j \in 1..Len(s) : s[j] \in S BY LenProperties
  <1> DEFINE a == SubSeq(s, 1, i - 1)
             b == SubSeq(s, i + 1, Len(s))
  <1>2. /\ a \in Seq(S) /\ Len(a) = i - 1
        /\ \A j \in 1..i-1 : a[j] = s[j]
    BY <1>1, SubSeqProperties
  <1>3. /\ b \in Seq(S) /\ Len(b) = Len(s) - i
        /\ \A j \in 1..Len(s)-i : b[j] = s[i + j]
    BY <1>1, SubSeqProperties
  <1> HIDE DEF a, b
  <1>4. /\ a \o b \in Seq(S) /\ Len(a \o b) = Len(s) - 1
        /\ \A j \in 1..Len(s)-1 : (a \o b)[j] = IF j <= i - 1 THEN a[j] ELSE b[j - (i - 1)]
    <2>1. /\ a \o b \in Seq(S) /\ Len(a \o b) = Len(a) + Len(b)
          /\ \A j \in 1..Len(a)+Len(b) :
                (a \o b)[j] = IF j <= Len(a) THEN a[j] ELSE b[j - Len(a)]
      BY <1>2, <1>3, ConcatProperties
    <2>2. Len(a) + Len(b) = Len(s) - 1 BY <1>1, <1>2, <1>3
    <2> QED BY <1>2, <2>1, <2>2
  <1>5. \A j \in 1..Len(s)-1 : (a \o b)[j] = s[IF j < i THEN j ELSE j + 1]
    <2> SUFFICES ASSUME NEW j \in 1..Len(s)-1
                 PROVE  (a \o b)[j] = s[IF j < i THEN j ELSE j + 1]
      OBVIOUS
    <2>1. i \in Int /\ j \in Int BY <1>1
    <2>2. CASE j < i BY <1>1, <1>2, <1>4, <2>1, <2>2
    <2>3. CASE ~(j < i)
      <3>1. j - (i - 1) \in 1..Len(s)-i /\ i + (j - (i - 1)) = j + 1 BY <1>1, <2>1, <2>3
      <3> QED BY <1>1, <1>3, <1>4, <2>1, <2>3, <3>1
    <2> QED BY <2>2, <2>3
  <1>6. RemoveAt(s, i) = a \o b BY DEF RemoveAt, a, b
  <1> QED BY <1>4, <1>5, <1>6

\* RemoveAt of a sequence without repetition.
LEMMA RemovedOne ==
    ASSUME NEW S, NEW s \in Seq(S), NEW i \in 1..Len(s), IsInjective(s)
    PROVE  IsInjective(RemoveAt(s, i)) /\ Range(RemoveAt(s, i)) = Range(s) \ {s[i]}
  <1> DEFINE t == RemoveAt(s, i)
  <1>1. /\ t \in Seq(S) /\ Len(t) = Len(s) - 1 /\ DOMAIN s = 1..Len(s) /\ Len(s) \in Nat
        /\ \A j \in 1..Len(s)-1 : t[j] = s[IF j < i THEN j ELSE j + 1]
        /\ DOMAIN t = 1..Len(s)-1
    BY RemovedAt, LenProperties
  <1> HIDE DEF t
  <1>2. IsInjective(t)
    <2> SUFFICES ASSUME NEW j \in 1..Len(s)-1, NEW k \in 1..Len(s)-1, t[j] = t[k]
                 PROVE  j = k
      BY <1>1 DEF IsInjective
    <2> DEFINE Old(n) == IF n < i THEN n ELSE n + 1
    <2>1. Old(j) = Old(k)
      <3>1. Old(j) \in DOMAIN s /\ Old(k) \in DOMAIN s BY <1>1
      <3>2. s[Old(j)] = s[Old(k)] BY <1>1
      <3> QED BY <3>1, <3>2 DEF IsInjective
    <2> QED BY <1>1, <2>1
  <1>3. \A j \in 1..Len(s) : j # i => \E k \in 1..Len(s)-1 : t[k] = s[j]
    <2> SUFFICES ASSUME NEW j \in 1..Len(s), j # i
                 PROVE  \E k \in 1..Len(s)-1 : t[k] = s[j]
      OBVIOUS
    <2>1. CASE j < i BY <1>1, <2>1
    <2>2. CASE j > i
      <3>1. j - 1 \in 1..Len(s)-1 /\ ~(j - 1 < i) /\ (j - 1) + 1 = j BY <1>1, <2>2
      <3>2. t[j - 1] = s[j] BY <1>1, <3>1
      <3> QED BY <3>1, <3>2
    <2> QED BY <1>1, <2>1, <2>2
  <1>4. \A k \in 1..Len(s)-1 : t[k] # s[i] /\ t[k] \in Range(s)
    <2> SUFFICES ASSUME NEW k \in 1..Len(s)-1 PROVE t[k] # s[i] /\ t[k] \in Range(s)
      OBVIOUS
    <2> DEFINE j == IF k < i THEN k ELSE k + 1
    <2>1. j \in DOMAIN s /\ i \in DOMAIN s /\ j # i /\ t[k] = s[j] BY <1>1
    <2> QED BY <2>1 DEF IsInjective, Range
  <1>5. Range(t) = Range(s) \ {s[i]}
    <2>1. \A y \in Range(t) : y \in Range(s) /\ y # s[i] BY <1>1, <1>4 DEF Range
    <2>2. ASSUME NEW y \in Range(s), y # s[i] PROVE y \in Range(t)
      <3>1. PICK j \in 1..Len(s) : y = s[j] BY <1>1 DEF Range
      <3>2. PICK k \in 1..Len(s)-1 : t[k] = s[j] BY <1>3, <2>2, <3>1
      <3> QED BY <1>1, <3>1, <3>2 DEF Range
    <2> QED BY <2>1, <2>2
  <1> QED BY <1>2, <1>5 DEF t

\* Append of what is not there yet.
LEMMA AppendedOne ==
    ASSUME NEW S, NEW s \in Seq(S), NEW x \in S, IsInjective(s), x \notin Range(s)
    PROVE  /\ Append(s, x) \in Seq(S) /\ Len(Append(s, x)) = Len(s) + 1
           /\ IsInjective(Append(s, x)) /\ Range(Append(s, x)) = Range(s) \cup {x}
  <1> DEFINE t == Append(s, x)
  <1>1. /\ t \in Seq(S) /\ Len(t) = Len(s) + 1 /\ DOMAIN t = 1..Len(s)+1
        /\ \A j \in 1..Len(s) : t[j] = s[j]
        /\ t[Len(s) + 1] = x /\ Len(s) \in Nat /\ DOMAIN s = 1..Len(s)
    BY AppendProperties, LenProperties
  <1> HIDE DEF t
  <1>2. \A j \in 1..Len(s) : t[j] \in Range(s) /\ t[j] # x BY <1>1 DEF Range
  <1>3. IsInjective(t) BY <1>1, <1>2 DEF IsInjective
  <1>4. Range(t) = Range(s) \cup {x}
    <2>1. \A y \in Range(s) : \E j \in 1..Len(s) : y = t[j] BY <1>1 DEF Range
    <2>2. \A y \in Range(t) : y = x \/ y \in Range(s) BY <1>1, <1>2 DEF Range
    <2>3. \A j \in 1..Len(s)+1 : t[j] \in Range(t) BY <1>1 DEF Range
    <2> QED BY <1>1, <2>1, <2>2, <2>3
  <1> QED BY <1>1, <1>3, <1>4 DEF t

\* RemoveFirst of what is there, in a sequence without repetition.
LEMMA RemovedFirst ==
    ASSUME NEW S, NEW s \in Seq(S), NEW x \in Range(s), IsInjective(s)
    PROVE  /\ RemoveFirst(s, x) \in Seq(S) /\ Len(RemoveFirst(s, x)) = Len(s) - 1
           /\ IsInjective(RemoveFirst(s, x)) /\ Range(RemoveFirst(s, x)) = Range(s) \ {x}
  <1> DEFINE I == {i \in 1..Len(s) : s[i] = x}
             m == Min(I)
  <1>1. I \in SUBSET Nat /\ I # {} BY LenProperties DEF Range
  <1>2. m \in 1..Len(s) /\ s[m] = x BY <1>1, MinIsLeast
  <1>3. RemoveFirst(s, x) = RemoveAt(s, m) BY <1>1 DEF RemoveFirst, SelectInSeq
  <1> HIDE DEF I, m
  <1>4. RemoveAt(s, m) \in Seq(S) /\ Len(RemoveAt(s, m)) = Len(s) - 1
    BY <1>2, RemovedAt
  <1>5. IsInjective(RemoveAt(s, m)) /\ Range(RemoveAt(s, m)) = Range(s) \ {x}
    BY <1>2, RemovedOne
  <1> QED BY <1>3, <1>4, <1>5

\* Whatever is moved to the end of a sequence without repetition, it is a
\* permutation.
LEMMA MovedToEnd ==
    ASSUME NEW S, NEW s \in Seq(S), NEW x \in Range(s), IsInjective(s)
    PROVE  /\ Append(RemoveFirst(s, x), x) \in Seq(S)
           /\ Permutes(Append(RemoveFirst(s, x), x), s)
  <1> DEFINE t == RemoveFirst(s, x)
  <1>1. x \in S /\ Len(s) \in Nat BY RangeOfSeq, LenProperties
  <1>2. /\ t \in Seq(S) /\ Len(t) = Len(s) - 1 /\ IsInjective(t)
        /\ Range(t) = Range(s) \ {x}
    BY RemovedFirst
  <1> HIDE DEF t
  <1>3. /\ Append(t, x) \in Seq(S) /\ Len(Append(t, x)) = Len(t) + 1
        /\ IsInjective(Append(t, x)) /\ Range(Append(t, x)) = Range(t) \cup {x}
    BY <1>1, <1>2, AppendedOne
  <1> QED BY <1>1, <1>2, <1>3 DEF Permutes, t

\* A sequence without repetition is as long as its range is large.
LEMMA RangeSize ==
    ASSUME NEW S, NEW s \in Seq(S), IsInjective(s), NEW T, IsFiniteSet(T), Range(s) \subseteq T
    PROVE  Len(s) <= Cardinality(T)
  <1>1. Len(s) \in Nat /\ DOMAIN s = 1..Len(s) BY LenProperties
  <1>2. s \in [1..Len(s) -> T] BY <1>1, LenProperties DEF Range
  <1>3. s \in Injection(1..Len(s), T) BY <1>2 DEF Injection
  <1>4. Cardinality(1..Len(s)) = Len(s) BY <1>1, FS_Interval
  <1> QED BY <1>3, <1>4, FS_Injection

-----------------------------------------------------------------------------
(* What holds of a queue.                                                  *)

Digest == [key : AnyKey, id : Goal]
Queues == [goal : [Goal -> Record], order : Seq(Goal), digests : Seq(Digest),
           cancel : SUBSET Goal]

Kept(f) == {g \in Goal : f.goal[g].state # "none"}

\* The order lists what is remembered, once each, and no more than the cap.
Ordered(f) ==
    IsInjective(f.order) /\ Range(f.order) = Kept(f) /\ Len(f.order) <= MaxRemembered

\* The constants, one by one.
LEMMA Constants ==
    /\ MaxGoals \in Nat \ {0} /\ MaxOpen \in Nat \ {0} /\ MaxRemembered \in Nat \ {0}
    /\ Wall \in Nat \ {0} /\ Ttl \in Nat \ {0} /\ MaxSteps \in Nat \ {0}
    /\ MaxPending \in Nat \ {0} /\ MaxSuspensions \in Nat /\ MaxInjections \in Nat
    /\ MaxRestarts \in Nat /\ MaxOpen <= MaxRemembered
  BY GoalsAssumption DEF GoalsAssumption

\* No budget is longer than the horizon.
LEMMA Horizons == Horizon \in Nat /\ Wall <= Horizon
  BY Constants DEF Horizon

\* p is q with other records and cancels, in another order.
Recast(q, p, f, c) ==
    /\ p.order \in Seq(Goal) /\ Permutes(p.order, q.order)
    /\ p = [goal |-> f, order |-> p.order, digests |-> q.digests, cancel |-> c]

Closed(r) == [NoGoal EXCEPT !.state = "ended", !.key = r.key]
Closing(f, D) == [g \in Goal |-> IF g \in D THEN Closed(f[g]) ELSE f[g]]

\* A queue with other records in another order.
LEMMA Rewritten ==
    ASSUME NEW q \in Queues, NEW f, NEW o
    PROVE  [q EXCEPT !.goal = f, !.order = o]
               = [goal |-> f, order |-> o, digests |-> q.digests, cancel |-> q.cancel]
  <1> DEFINE p == [q EXCEPT !.goal = f]
  <1>1. p = [goal |-> f, order |-> q.order, digests |-> q.digests, cancel |-> q.cancel]
    BY DEF Queues
  <1>2. [q EXCEPT !.goal = f, !.order = o] = [p EXCEPT !.order = o] OBVIOUS
  <1> HIDE DEF p
  <1> QED BY <1>1, <1>2

\* A record that is remembered is written again: nothing is evicted for it.
LEMMA Remembered ==
    ASSUME NEW q \in Queues, Ordered(q), NEW g \in Kept(q), NEW r
    PROVE  Recast(q, Remember(q, g, r), [q.goal EXCEPT ![g] = r], q.cancel)
  <1> DEFINE o == Append(RemoveFirst(q.order, g), g)
             e == [q EXCEPT !.goal[g] = r, !.order = o]
  <1>1. q.order \in Seq(Goal) /\ g \in Range(q.order) BY DEF Queues, Ordered
  <1>2. o \in Seq(Goal) /\ Permutes(o, q.order) BY <1>1, MovedToEnd DEF Ordered
  <1> HIDE DEF o
  <1>3. /\ e.order = o
        /\ e = [goal |-> [q.goal EXCEPT ![g] = r], order |-> o, digests |-> q.digests,
                cancel |-> q.cancel]
    <2>1. e = [q EXCEPT !.goal = [q.goal EXCEPT ![g] = r], !.order = o] OBVIOUS
    <2> QED BY <2>1, Rewritten
  <1>4. Len(e.order) <= MaxRemembered BY <1>2, <1>3 DEF Ordered, Permutes
  <1> HIDE DEF e
  <1>5. Evicted(e) = e BY <1>4 DEF Evicted
  <1>6. Remember(q, g, r) = Evicted(e) BY DEF Remember, e, o
  <1> QED BY <1>2, <1>3, <1>5, <1>6 DEF Recast

\* The record of no goal.
LEMMA NoGoalTypes == NoGoal \in Record /\ NoKey \in AnyKey
  BY Constants DEF NoGoal, Record, AnyKey

\* Closing keeps the types of the records, what is remembered, and its keys.
LEMMA ClosingTypes ==
    ASSUME NEW f \in [Goal -> Record], NEW D
    PROVE  Closing(f, D) \in [Goal -> Record]
  <1>1. NoGoal \in Record BY NoGoalTypes
  <1>2. ASSUME NEW r \in Record PROVE Closed(r) \in Record
    BY <1>1, <1>2 DEF Closed, Record
  <1>3. \A g \in Goal : Closed(f[g]) \in Record BY <1>2
  <1> QED BY <1>3 DEF Closing

\* Closing goals that are remembered forgets none.
LEMMA ClosingKeeps ==
    ASSUME NEW f, NEW D, \A g \in D : f[g].state # "none", NEW g \in Goal
    PROVE  Closing(f, D)[g].state # "none" <=> f[g].state # "none"
  BY DEF Closing, Closed, NoGoal

\* What closing makes of a record.
LEMMA ClosingAt ==
    ASSUME NEW f, NEW D, NEW g \in Goal
    PROVE  IF g \in D THEN Closing(f, D)[g].state = "ended" ELSE Closing(f, D)[g] = f[g]
  BY DEF Closing, Closed, NoGoal

\* Closing two sets of goals is closing their union.
LEMMA ClosingTwice ==
    ASSUME NEW f, NEW D, NEW E
    PROVE  Closing(Closing(f, D), E) = Closing(f, D \cup E)
  BY DEF Closing, Closed, NoGoal

\* Terminate closes one record.
LEMMA Terminated ==
    ASSUME NEW q \in Queues, Ordered(q), NEW g \in Kept(q)
    PROVE  Recast(q, Terminate(q, g), Closing(q.goal, {g}), q.cancel \ {g})
  <1> DEFINE r == [NoGoal EXCEPT !.state = "ended", !.key = q.goal[g].key]
             p == Remember(q, g, r)
  <1>1. Recast(q, p, [q.goal EXCEPT ![g] = r], q.cancel) BY Remembered
  <1>2. [q.goal EXCEPT ![g] = r] = Closing(q.goal, {g})
    BY DEF Queues, Closing, Closed, Kept
  <1>3. Terminate(q, g) = [p EXCEPT !.cancel = @ \ {g}] BY DEF Terminate
  <1> HIDE DEF p, r
  <1>4. p = [goal |-> Closing(q.goal, {g}), order |-> p.order, digests |-> q.digests,
             cancel |-> q.cancel]
    BY <1>1, <1>2 DEF Recast
  <1>5. [p EXCEPT !.cancel = @ \ {g}]
            = [goal |-> Closing(q.goal, {g}), order |-> p.order, digests |-> q.digests,
               cancel |-> q.cancel \ {g}]
    BY <1>4
  <1> QED BY <1>1, <1>3, <1>5 DEF Recast

\* What is evaluated one goal after the other has a value at each goal.
LEMMA OneAfterTheOther ==
    ASSUME NEW q, NEW gs \in Seq(Goal)
    PROVE  \E A : /\ A = [i \in 0..Len(gs) |-> IF i = 0 THEN q ELSE Terminate(A[i-1], gs[i])]
                  /\ TerminateAll(q, gs) = A[Len(gs)]
  <1> DEFINE IsChain(n, A) ==
                 A = [i \in 0..n |-> IF i = 0 THEN q ELSE Terminate(A[i-1], gs[i])]
             Bad == {n \in Nat : ~\E A : IsChain(n, A)}
  <1>1. Bad = {}
    <2>1. SUFFICES ASSUME Bad # {} PROVE FALSE OBVIOUS
    <2>2. PICK n \in Bad : \A m \in Bad : n <= m BY <2>1, Least
    <2>3. n # 0
      <3> DEFINE B == [i \in 0..0 |-> q]
      <3>1. IsChain(0, B) OBVIOUS
      <3> QED BY <3>1
    <2>4. PICK A : IsChain(n-1, A)
      <3>1. n \in Nat BY <2>2
      <3>2. n - 1 \in Nat /\ n - 1 \notin Bad BY <2>2, <2>3, <3>1
      <3> QED BY <3>2
    <2> DEFINE B == [i \in 0..n |-> IF i = n THEN Terminate(A[n-1], gs[n]) ELSE A[i]]
    <2>5. IsChain(n, B)
      <3>1. n \in Nat BY <2>2
      <3>2. \A i \in 0..n : B[i] = IF i = 0 THEN q ELSE Terminate(B[i-1], gs[i])
        BY <2>3, <2>4, <3>1
      <3> QED BY <3>2
    <2> QED BY <2>2, <2>5
  <1>2. Len(gs) \in Nat BY LenProperties
  <1>3. \E A : IsChain(Len(gs), A) BY <1>1, <1>2
  <1> DEFINE C == CHOOSE A :
                A = [i \in 0..Len(gs) |-> IF i = 0 THEN q ELSE Terminate(A[i-1], gs[i])]
  <1>4. TerminateAll(q, gs) = C[Len(gs)] BY Zenon DEF TerminateAll
  <1>5. IsChain(Len(gs), C) BY <1>3
  <1> QED BY <1>4, <1>5

\* TerminateAll closes the records it names, and no other.
LEMMA AllTerminated ==
    ASSUME NEW q \in Queues, Ordered(q), NEW gs \in Seq(Goal), Range(gs) \subseteq Kept(q)
    PROVE  Recast(q, TerminateAll(q, gs), Closing(q.goal, Range(gs)), q.cancel \ Range(gs))
  <1>1. PICK A : /\ A = [i \in 0..Len(gs) |-> IF i = 0 THEN q ELSE Terminate(A[i-1], gs[i])]
                 /\ TerminateAll(q, gs) = A[Len(gs)]
    BY OneAfterTheOther
  <1> DEFINE D(i) == {gs[j] : j \in 1..i}
             Good(i) == Recast(q, A[i], Closing(q.goal, D(i)), q.cancel \ D(i))
             Bad == {i \in 0..Len(gs) : ~Good(i)}
  <1>2. Len(gs) \in Nat /\ DOMAIN gs = 1..Len(gs) BY LenProperties
  <1>3. A[0] = q /\ \A i \in 1..Len(gs) : A[i] = Terminate(A[i-1], gs[i]) BY <1>1, <1>2
  <1> HIDE DEF Good
  <1>4. Good(0)
    <2> USE DEF Good
    <2>1. D(0) = {} OBVIOUS
    <2>2. Closing(q.goal, {}) = q.goal BY DEF Closing, Queues
    <2>3. q = [goal |-> q.goal, order |-> q.order, digests |-> q.digests, cancel |-> q.cancel]
      BY DEF Queues
    <2>4. q.order \in Seq(Goal) BY DEF Queues
    <2> HIDE DEF D
    <2> QED BY <1>3, <2>1, <2>2, <2>3, <2>4 DEF Recast, Permutes, Ordered
  <1>5. ASSUME NEW i \in 1..Len(gs), Good(i-1) PROVE Good(i)
    <2> USE DEF Good
    <2> DEFINE p == A[i-1]
    <2>1. D(i) = D(i-1) \cup {gs[i]} BY <1>2
    <2>2. gs[i] \in Kept(q) BY <1>2 DEF Range
    <2>3. D(i-1) \subseteq Kept(q) BY <1>2 DEF Range
    <2> HIDE DEF D
    <2>4. /\ p.order \in Seq(Goal) /\ Permutes(p.order, q.order)
          /\ p = [goal |-> Closing(q.goal, D(i-1)), order |-> p.order, digests |-> q.digests,
                  cancel |-> q.cancel \ D(i-1)]
      BY <1>5 DEF Recast
    <2> HIDE DEF p
    <2>5. p \in Queues /\ Ordered(p) /\ gs[i] \in Kept(p)
      <3>1. p.goal = Closing(q.goal, D(i-1)) BY <2>4
      <3>2. Closing(q.goal, D(i-1)) \in [Goal -> Record] BY ClosingTypes DEF Queues
      <3>3. Kept(p) = Kept(q) BY <2>3, <3>1, ClosingKeeps DEF Kept
      <3>4. q.digests \in Seq(Digest) /\ q.cancel \in SUBSET Goal BY DEF Queues
      <3>5. p \in Queues BY <2>4, <3>2, <3>4 DEF Queues
      <3> QED BY <2>2, <2>4, <3>3, <3>5 DEF Ordered, Permutes
    <2>6. Recast(p, A[i], Closing(p.goal, {gs[i]}), p.cancel \ {gs[i]})
      BY <1>3, <2>5, Terminated DEF p
    <2>7. Closing(p.goal, {gs[i]}) = Closing(q.goal, D(i))
      <3>1. p.goal = Closing(q.goal, D(i-1)) BY <2>4
      <3> QED BY <2>1, <3>1, ClosingTwice
    <2>8. A[i].order \in Seq(Goal) /\ Permutes(A[i].order, q.order)
      BY <2>4, <2>6 DEF Recast, Permutes
    <2>9. p.digests = q.digests /\ p.cancel \ {gs[i]} = q.cancel \ D(i) BY <2>1, <2>4
    <2> QED BY <2>6, <2>7, <2>8, <2>9 DEF Recast
  <1>6. Bad = {}
    <2>1. SUFFICES ASSUME Bad # {} PROVE FALSE OBVIOUS
    <2>2. PICK n \in Bad : \A m \in Bad : n <= m
      <3>1. Bad \in SUBSET Nat BY <1>2
      <3> HIDE DEF Bad
      <3> QED BY <2>1, <3>1, Least
    <2>3. n # 0 BY <1>4, <2>2
    <2>4. n \in 1..Len(gs) /\ n - 1 \in 0..Len(gs) /\ ~(n <= n - 1) BY <1>2, <2>2, <2>3
    <2>5. Good(n-1) BY <2>2, <2>4
    <2> QED BY <1>5, <2>2, <2>4, <2>5
  <1>7. Good(Len(gs))
    <2>1. Len(gs) \in 0..Len(gs) BY <1>2
    <2> QED BY <1>6, <2>1
  <1>8. D(Len(gs)) = Range(gs) BY <1>2 DEF Range
  <1> HIDE DEF D
  <1> QED BY <1>1, <1>7, <1>8 DEF Good

-----------------------------------------------------------------------------
(* The invariant of a queue, and what keeps it.                            *)

\* What the queue and its file have in common, when m ids are given out.
StoreOK(f, m) ==
    /\ f.goal \in [Goal -> Record] /\ f.order \in Seq(Goal) /\ Ordered(f)
    /\ Kept(f) \subseteq 1..m
    /\ \A g \in Goal : f.goal[g].state = "none" => f.goal[g] = NoGoal
    /\ \A g \in In(f, "pending") : f.goal[g].run = 0 /\ f.goal[g].steps < MaxSteps

Distinct(ds) == \A d, e \in ds : d.key = e.key \/ d.id = e.id => d = e

\* No key and no id has two digests, and an open goal has its own.
DigestsOK(q, m) ==
    /\ IsInjective(q.digests) /\ Distinct(Range(q.digests))
    /\ Len(q.digests) <= MaxRemembered
    /\ \A d \in Range(q.digests) : d.id <= m
    /\ \A g \in Open(q) : [key |-> q.goal[g].key, id |-> g] \in Range(q.digests)

QueueOK(q, m) ==
    /\ q \in Queues /\ StoreOK(q, m) /\ DigestsOK(q, m)
    /\ q.cancel \subseteq Open(q) /\ Cardinality(Open(q)) <= MaxOpen
    /\ \A g, h \in In(q, "active") : g = h
    /\ \A g \in In(q, "active") : q.goal[g].steps < MaxSteps

\* There are finitely many ids, whatever set of them is taken.
LEMMA FiniteGoals == IsFiniteSet(Goal) /\ \A T \in SUBSET Goal : IsFiniteSet(T)
  <1>1. 1 \in Int /\ MaxGoals \in Int BY Constants
  <1>2. IsFiniteSet(Goal) BY <1>1, FS_Interval DEF Goal
  <1> QED BY <1>2, FS_Subset

\* Records may change and goals may end, as long as none becomes open or
\* forgotten, none changes its key, and one at most is active.
LEMMA RecastOK ==
    ASSUME NEW m, NEW q, QueueOK(q, m), NEW p, NEW f \in [Goal -> Record], NEW c,
           Recast(q, p, f, c),
           \A g \in Goal : (f[g].state = "none" <=> q.goal[g].state = "none")
                           /\ (f[g].state = "none" => f[g] = NoGoal),
           \A g \in Goal : f[g].state \in {"active", "pending"}
                => /\ q.goal[g].state \in {"active", "pending"} /\ f[g].key = q.goal[g].key
                   /\ f[g].steps < MaxSteps /\ (f[g].state = "pending" => f[g].run = 0),
           \A g, h \in Goal : f[g].state = "active" /\ f[h].state = "active" => g = h,
           c \subseteq {g \in Goal : f[g].state \in {"active", "pending"}}
    PROVE  QueueOK(p, m)
  <1>1. /\ p.goal = f /\ p.digests = q.digests /\ p.cancel = c
        /\ p.order \in Seq(Goal) /\ Permutes(p.order, q.order)
        /\ p = [goal |-> f, order |-> p.order, digests |-> q.digests, cancel |-> c]
    BY DEF Recast
  <1>2. Kept(p) = Kept(q) BY <1>1 DEF Kept
  <1>3. Ordered(p) BY <1>1, <1>2 DEF QueueOK, StoreOK, Ordered, Permutes
  <1>4. /\ Open(p) \subseteq Open(q)
        /\ \A g \in Open(p) : p.goal[g].key = q.goal[g].key
    BY <1>1 DEF Open, In
  <1>5. p \in Queues
    <2>1. q.digests \in Seq(Digest) /\ c \in SUBSET Goal BY DEF QueueOK, Queues
    <2> QED BY <1>1, <2>1 DEF Queues
  <1>6. StoreOK(p, m)
    <2>1. \A g \in In(p, "pending") : p.goal[g].run = 0 /\ p.goal[g].steps < MaxSteps
      BY <1>1 DEF In
    <2> QED BY <1>1, <1>2, <1>3, <2>1 DEF StoreOK, QueueOK
  <1>7. DigestsOK(p, m) BY <1>1, <1>4 DEF DigestsOK, QueueOK
  <1>8. Cardinality(Open(p)) <= MaxOpen
    <2>1. IsFiniteSet(Open(q)) BY FiniteGoals DEF Open, In
    <2>2. Cardinality(Open(p)) <= Cardinality(Open(q)) BY <1>4, <2>1, FS_Subset
    <2>3. Cardinality(Open(q)) \in Nat /\ Cardinality(Open(p)) \in Nat
      BY <1>4, <2>1, FS_Subset, FS_CardinalityType
    <2> QED BY <2>2, <2>3, Constants DEF QueueOK
  <1>9. p.cancel \subseteq Open(p) BY <1>1 DEF Open, In
  <1>10. /\ \A g, h \in In(p, "active") : g = h
         /\ \A g \in In(p, "active") : p.goal[g].steps < MaxSteps
    BY <1>1 DEF In
  <1> QED BY <1>5, <1>6, <1>7, <1>8, <1>9, <1>10 DEF QueueOK

\* The front of the backlog, and its order, are defined.
Row(q) == {a \in Goal \X Goal : Ahead(q, a[1], a[2])}

\* The backlog is ordered: by rank, and by id among equals.
LEMMA RowOrders ==
    ASSUME NEW q, q.goal \in [Goal -> Record]
    PROVE  Orders(Row(q), Goal)
  <1>1. \A g \in Goal : q.goal[g].front \in Int /\ g \in Int
    <2>1. \A g \in Goal : q.goal[g].front \in Int BY DEF Record
    <2>2. \A g \in Goal : g \in Int BY Constants DEF Goal
    <2> QED BY <2>1, <2>2
  <1>2. \A g, h \in Goal : <<g, h>> \in Row(q) <=> Ahead(q, g, h) BY DEF Row
  <1>3. \A g, h \in Goal : Ahead(q, g, h) \/ Ahead(q, h, g) BY <1>1 DEF Ahead
  <1>4. \A g, h, k \in Goal : Ahead(q, g, h) /\ Ahead(q, h, k) => Ahead(q, g, k)
    BY <1>1 DEF Ahead
  <1> QED BY <1>2, <1>3, <1>4 DEF Orders

\* Backlog lists exactly the goals it is given.
LEMMA BacklogLists ==
    ASSUME NEW q, q.goal \in [Goal -> Record], NEW gs \in SUBSET Goal
    PROVE  Backlog(q, gs) \in SetToSeqs(gs)
  <1>1. Orders(Row(q), gs) BY RowOrders DEF Orders
  <1>2. PICK s \in SetToSeqs(gs) : \A i, j \in DOMAIN s : i < j => <<s[i], s[j]>> \in Row(q)
    BY <1>1, FiniteGoals, Sorted
  <1>3. \A i, j \in DOMAIN s : i < j => Ahead(q, s[i], s[j]) BY <1>2 DEF Row
  <1> QED BY <1>2, <1>3 DEF Backlog

\* The front of the backlog is one of the goals that may start.
LEMMA FrontGoalStarts ==
    ASSUME NEW q, q.goal \in [Goal -> Record], Startable(q) # {}
    PROVE  FrontGoal(q) \in Startable(q)
  <1>1. Startable(q) \in SUBSET Goal BY DEF Startable, In
  <1>2. Orders(Row(q), Startable(q)) BY <1>1, RowOrders DEF Orders
  <1>3. PICK g \in Startable(q) : \A h \in Startable(q) : <<g, h>> \in Row(q)
    BY <1>1, <1>2, FiniteGoals, First
  <1>4. \A h \in Startable(q) : Ahead(q, g, h) BY <1>3 DEF Row
  <1> QED BY <1>3, <1>4 DEF FrontGoal

\* A rank in front of the backlog is negative.
LEMMA FrontRankTypes ==
    ASSUME NEW q, q.goal \in [Goal -> Record]
    PROVE  NextFrontRank(q) \in Int /\ NextFrontRank(q) < 0
  <1> DEFINE W == In(q, "pending")
             ranks == {0} \cup {q.goal[g].front : g \in W}
  <1>1. \A g \in W : q.goal[g].front \in Int /\ g \in Goal BY DEF In, Record
  <1>2. \E r \in ranks : \A s \in ranks : r <= s
    <2>1. CASE W = {} BY <2>1
    <2>2. CASE W # {}
      <3> DEFINE R == {a \in W \X W : q.goal[a[1]].front <= q.goal[a[2]].front}
      <3>1. \A g, h \in W : <<g, h>> \in R <=> q.goal[g].front <= q.goal[h].front OBVIOUS
      <3> HIDE DEF R
      <3>2. Orders(R, W) BY <1>1, <3>1 DEF Orders
      <3>3. PICK g \in W : \A h \in W : <<g, h>> \in R
        BY <1>1, <2>2, <3>2, FiniteGoals, First
      <3>4. \A h \in W : q.goal[g].front <= q.goal[h].front BY <3>1, <3>3
      <3>5. CASE q.goal[g].front <= 0
        <4>1. \A s \in ranks : q.goal[g].front <= s BY <1>1, <3>4, <3>5
        <4> QED BY <4>1
      <3>6. CASE ~(q.goal[g].front <= 0)
        <4>1. \A s \in ranks : 0 <= s BY <1>1, <3>4, <3>6
        <4> QED BY <4>1
      <3> QED BY <3>5, <3>6
    <2> QED BY <2>1, <2>2
  <1>3. \A r \in ranks : r \in Int BY <1>1
  <1> DEFINE least == CHOOSE r \in ranks : \A s \in ranks : r <= s
  <1>4. least \in ranks /\ \A s \in ranks : least <= s BY <1>2
  <1>5. NextFrontRank(q) = least - 1 BY DEF NextFrontRank
  <1>6. 0 \in ranks OBVIOUS
  <1> HIDE DEF least, ranks
  <1> QED BY <1>3, <1>4, <1>5, <1>6

-----------------------------------------------------------------------------
(* The operations that admit nothing.                                      *)

\* p is q with the goals D closed.
Closes(q, p, D) ==
    p.goal = Closing(q.goal, D) /\ p.digests = q.digests /\ p.cancel \subseteq q.cancel \ D

\* Open goals may be closed, together with their cancels.
LEMMA ClosesRecast ==
    ASSUME NEW m, NEW q, NEW p, NEW D, NEW c,
           QueueOK(q, m), Recast(q, p, Closing(q.goal, D), c),
           D \subseteq Open(q), c \subseteq q.cancel \ D
    PROVE  QueueOK(p, m) /\ Closes(q, p, D)
  <1> DEFINE f == Closing(q.goal, D)
  <1>1. q.goal \in [Goal -> Record] BY DEF QueueOK, StoreOK
  <1>2. f \in [Goal -> Record] BY <1>1, ClosingTypes
  <1>3. \A g \in Goal : g \notin D => f[g] = q.goal[g] BY DEF Closing
  <1>4. \A g \in Goal : g \in D => f[g].state = "ended" BY DEF Closing, Closed, NoGoal
  <1>5. \A g \in D : q.goal[g].state \in {"active", "pending"} BY DEF Open, In
  <1> HIDE DEF f
  <1>6. \A g \in Goal : (f[g].state = "none" <=> q.goal[g].state = "none")
                        /\ (f[g].state = "none" => f[g] = NoGoal)
    BY <1>3, <1>4, <1>5 DEF QueueOK, StoreOK
  <1>7. \A g \in Goal : f[g].state \in {"active", "pending"}
            <=> g \notin D /\ q.goal[g].state \in {"active", "pending"}
    BY <1>3, <1>4
  <1>8. \A g \in Goal : f[g].state \in {"active", "pending"}
            => /\ q.goal[g].state \in {"active", "pending"} /\ f[g].key = q.goal[g].key
               /\ f[g].steps < MaxSteps /\ (f[g].state = "pending" => f[g].run = 0)
    BY <1>3, <1>7 DEF QueueOK, StoreOK, In
  <1>9. \A g, h \in Goal : f[g].state = "active" /\ f[h].state = "active" => g = h
    BY <1>3, <1>4 DEF QueueOK, In
  <1>10. c \subseteq {g \in Goal : f[g].state \in {"active", "pending"}}
    BY <1>7 DEF QueueOK, Open, In
  <1>11. Recast(q, p, f, c) BY DEF f
  <1>12. QueueOK(p, m) BY <1>2, <1>6, <1>8, <1>9, <1>10, <1>11, RecastOK
  <1>13. p.goal = f /\ p.digests = q.digests /\ p.cancel = c BY <1>11 DEF Recast
  <1> QED BY <1>12, <1>13 DEF Closes, f

\* What is closed is not open any more, and all else is as it was.
LEMMA ClosesOpen ==
    ASSUME NEW q, NEW p, NEW D, Closes(q, p, D)
    PROVE  Open(p) = Open(q) \ D
  BY DEF Closes, Closing, Closed, NoGoal, Open, In

\* Goals that are closed were open.
LEMMA ClosesActive ==
    ASSUME NEW q, NEW p, NEW D, Closes(q, p, D)
    PROVE  /\ In(p, "active") \subseteq In(q, "active")
           /\ \A g \in In(p, "active") : g \notin D /\ p.goal[g] = q.goal[g]
  <1>1. p.goal = Closing(q.goal, D) BY DEF Closes
  <1>2. \A g \in Goal : IF g \in D THEN p.goal[g].state = "ended" ELSE p.goal[g] = q.goal[g]
    BY <1>1, ClosingAt
  <1> QED BY <1>2 DEF In

\* Terminate keeps the invariant of the queue and closes one goal.
LEMMA TerminateOK ==
    ASSUME NEW m, NEW q, QueueOK(q, m), NEW g \in Open(q)
    PROVE  QueueOK(Terminate(q, g), m) /\ Closes(q, Terminate(q, g), {g})
  <1>1. q \in Queues /\ Ordered(q) /\ g \in Kept(q) BY DEF QueueOK, StoreOK, Open, In, Kept
  <1>2. Recast(q, Terminate(q, g), Closing(q.goal, {g}), q.cancel \ {g}) BY <1>1, Terminated
  <1> DEFINE u == Terminate(q, g)
             E == {g}
             k == q.cancel \ {g}
  <1>3. E \subseteq Open(q) /\ k \subseteq q.cancel \ E OBVIOUS
  <1>4. Recast(q, u, Closing(q.goal, E), k) BY <1>2
  <1> HIDE DEF u, E, k
  <1>5. QueueOK(u, m) /\ Closes(q, u, E) BY <1>3, <1>4, ClosesRecast
  <1> QED BY <1>5 DEF u, E

\* So does a sequence of them, for every goal it names.
LEMMA TerminateAllOK ==
    ASSUME NEW m, NEW q, QueueOK(q, m), NEW gs \in Seq(Goal), Range(gs) \subseteq Open(q)
    PROVE  QueueOK(TerminateAll(q, gs), m) /\ Closes(q, TerminateAll(q, gs), Range(gs))
  <1>1. q \in Queues /\ Ordered(q) /\ Open(q) \subseteq Kept(q)
    BY DEF QueueOK, StoreOK, Open, In, Kept
  <1>2. Recast(q, TerminateAll(q, gs), Closing(q.goal, Range(gs)), q.cancel \ Range(gs))
    BY <1>1, AllTerminated
  <1> DEFINE u == TerminateAll(q, gs)
             E == Range(gs)
             k == q.cancel \ Range(gs)
  <1>3. E \subseteq Open(q) /\ k \subseteq q.cancel \ E OBVIOUS
  <1>4. Recast(q, u, Closing(q.goal, E), k) BY <1>2
  <1> HIDE DEF u, E, k
  <1>5. QueueOK(u, m) /\ Closes(q, u, E) BY <1>3, <1>4, ClosesRecast
  <1> QED BY <1>5 DEF u, E

\* Cancels that are forgotten change nothing else.
LEMMA NoCancels ==
    ASSUME NEW m, NEW q, QueueOK(q, m)
    PROVE  /\ QueueOK([q EXCEPT !.cancel = {}], m)
           /\ [q EXCEPT !.cancel = {}].goal = q.goal
           /\ [q EXCEPT !.cancel = {}].digests = q.digests
           /\ [q EXCEPT !.cancel = {}].cancel = {}
  <1> DEFINE p == [q EXCEPT !.cancel = {}]
  <1>1. /\ p.goal = q.goal /\ p.order = q.order /\ p.digests = q.digests /\ p.cancel = {}
        /\ p \in Queues
    BY DEF QueueOK, Queues
  <1> HIDE DEF p
  <1>2. Open(p) = Open(q) /\ Kept(p) = Kept(q) /\ \A s : In(p, s) = In(q, s)
    BY <1>1 DEF Open, In, Kept
  <1>3. StoreOK(p, m) BY <1>1, <1>2 DEF QueueOK, StoreOK, Ordered
  <1>4. DigestsOK(p, m) BY <1>1, <1>2 DEF QueueOK, DigestsOK
  <1>5. QueueOK(p, m) BY <1>1, <1>2, <1>3, <1>4 DEF QueueOK
  <1> QED BY <1>1, <1>5 DEF p

\* Two closings are one.
LEMMA ClosesTwice ==
    ASSUME NEW q, NEW p, NEW u, NEW D, NEW E, Closes(q, p, D), Closes(p, u, E)
    PROVE  Closes(q, u, D \cup E)
  BY ClosingTwice DEF Closes

\* tick closes what was withdrawn, and every active goal that has no time left.
LEMMA TickedOK ==
    ASSUME NEW m, NEW q, QueueOK(q, m), NEW withdrawn \in Withdrawals(q)
    PROVE  /\ QueueOK(Ticked(q, withdrawn), m)
           /\ \E D \in SUBSET Open(q) : /\ Overdue(q) \subseteq D
                                        /\ Closes(q, Ticked(q, withdrawn), D)
  <1> DEFINE first == TerminateAll(q, withdrawn)
             heard == [first EXCEPT !.cancel = {}]
             timed == TerminateAll(heard, SetToSeq(Overdue(heard)))
             W == q.cancel \cap Open(q)
             last == Backlog(timed, Stale(timed))
  <1>1. withdrawn \in Seq(Goal) /\ Range(withdrawn) = W
    <2>1. W \in SUBSET Goal /\ withdrawn \in SetToSeqs(W) BY DEF Open, In, Withdrawals
    <2>2. withdrawn \in Seq(W) /\ Range(withdrawn) = W BY <2>1, FiniteGoals, Listing
    <2> QED BY <2>1, <2>2, SeqMonotonic
  <1>2. QueueOK(first, m) /\ Closes(q, first, W)
    <2>1. Range(withdrawn) \subseteq Open(q) BY <1>1
    <2>2. QueueOK(first, m) /\ Closes(q, first, Range(withdrawn))
      BY <1>1, <2>1, TerminateAllOK
    <2> QED BY <1>1, <2>2
  <1> HIDE DEF first
  <1>3. QueueOK(heard, m) /\ Closes(q, heard, W) BY <1>2, NoCancels DEF Closes
  <1> HIDE DEF heard
  <1>4. /\ SetToSeq(Overdue(heard)) \in Seq(Goal)
        /\ Range(SetToSeq(Overdue(heard))) = Overdue(heard)
        /\ Overdue(heard) \subseteq Open(heard)
    <2>1. Overdue(heard) \in SUBSET Goal /\ Overdue(heard) \subseteq Open(heard)
      BY DEF Overdue, Open, In
    <2>2. /\ SetToSeq(Overdue(heard)) \in Seq(Overdue(heard))
          /\ Range(SetToSeq(Overdue(heard))) = Overdue(heard)
      BY <2>1, FiniteGoals, Listing, SetToSeqLists
    <2> QED BY <2>1, <2>2, SeqMonotonic
  <1>5. QueueOK(timed, m) /\ Closes(heard, timed, Overdue(heard))
    BY <1>3, <1>4, TerminateAllOK
  <1> HIDE DEF timed
  <1>6. last \in Seq(Goal) /\ Range(last) = Stale(timed) /\ Stale(timed) \subseteq Open(timed)
    <2>1. /\ Stale(timed) \in SUBSET Goal /\ Stale(timed) \subseteq Open(timed)
          /\ timed.goal \in [Goal -> Record]
      BY <1>5 DEF Stale, Open, In, QueueOK, StoreOK
    <2>2. last \in SetToSeqs(Stale(timed)) BY <2>1, BacklogLists
    <2>3. last \in Seq(Stale(timed)) /\ Range(last) = Stale(timed)
      BY <2>1, <2>2, FiniteGoals, Listing
    <2> QED BY <2>1, <2>3, SeqMonotonic
  <1>7. /\ QueueOK(TerminateAll(timed, last), m)
        /\ Closes(timed, TerminateAll(timed, last), Stale(timed))
    BY <1>5, <1>6, TerminateAllOK
  <1>8. Ticked(q, withdrawn) = TerminateAll(timed, last)
    BY DEF Ticked, first, heard, timed
  <1> DEFINE D == (W \cup Overdue(heard)) \cup Stale(timed)
  <1>9. Closes(q, TerminateAll(timed, last), D) BY <1>3, <1>5, <1>7, ClosesTwice
  <1>10. D \subseteq Open(q)
    <2>1. heard.goal = Closing(q.goal, W) /\ timed.goal = Closing(heard.goal, Overdue(heard))
      BY <1>3, <1>5 DEF Closes
    <2>2. \A g \in Goal : heard.goal[g].state \in {"active", "pending"}
                => q.goal[g].state \in {"active", "pending"}
      BY <2>1, ClosingAt
    <2>3. \A g \in Goal : timed.goal[g].state \in {"active", "pending"}
                => heard.goal[g].state \in {"active", "pending"}
      BY <2>1, ClosingAt
    <2> QED BY <2>2, <2>3 DEF Open, In, Overdue, Stale
  <1>11. Overdue(q) \subseteq D
    <2>1. heard.goal = Closing(q.goal, W) BY <1>3 DEF Closes
    <2>2. \A g \in Goal : g \notin W => heard.goal[g] = q.goal[g] BY <2>1 DEF Closing
    <2> QED BY <2>2 DEF Overdue, In
  <1> HIDE DEF D
  <1> QED BY <1>7, <1>8, <1>9, <1>10, <1>11

\* A disarm closes the active and the parked goals.
LEMMA DisarmedOK ==
    ASSUME NEW m, NEW q, QueueOK(q, m)
    PROVE  /\ QueueOK(Disarmed(q), m) /\ In(Disarmed(q), "active") = {}
           /\ \E D \in SUBSET Open(q) : Closes(q, Disarmed(q), D)
  <1> DEFINE A == In(q, "active")
             a == SetToSeq(A)
             b == Backlog(q, Parked(q))
  <1>1. /\ A \in SUBSET Goal /\ Parked(q) \in SUBSET Goal /\ A \cup Parked(q) \subseteq Open(q)
        /\ q.goal \in [Goal -> Record]
    BY DEF QueueOK, StoreOK, Open, In, Parked
  <1>2. a \in Seq(Goal) /\ Range(a) = A
    <2>1. a \in Seq(A) /\ Range(a) = A BY <1>1, FiniteGoals, Listing, SetToSeqLists
    <2> QED BY <1>1, <2>1, SeqMonotonic
  <1>3. b \in Seq(Goal) /\ Range(b) = Parked(q)
    <2>1. b \in SetToSeqs(Parked(q)) BY <1>1, BacklogLists
    <2>2. b \in Seq(Parked(q)) /\ Range(b) = Parked(q) BY <1>1, <2>1, FiniteGoals, Listing
    <2> QED BY <1>1, <2>2, SeqMonotonic
  <1> HIDE DEF a, b
  <1>4. a \o b \in Seq(Goal) /\ Range(a \o b) = A \cup Parked(q)
    BY <1>2, <1>3, ConcatProperties, RangeConcatenation
  <1>5. Disarmed(q) = TerminateAll(q, a \o b) BY DEF Disarmed, a, b
  <1>6. QueueOK(Disarmed(q), m) /\ Closes(q, Disarmed(q), A \cup Parked(q))
    <2>1. Range(a \o b) \subseteq Open(q) BY <1>1, <1>4
    <2> DEFINE gs == a \o b
    <2>2. gs \in Seq(Goal) /\ Range(gs) \subseteq Open(q) BY <1>4, <2>1
    <2> HIDE DEF gs
    <2>3. QueueOK(TerminateAll(q, gs), m) /\ Closes(q, TerminateAll(q, gs), Range(gs))
      BY <2>2, TerminateAllOK
    <2> QED BY <1>4, <1>5, <2>3 DEF gs
  <1>7. In(Disarmed(q), "active") = {}
    BY <1>6 DEF Closes, Closing, Closed, NoGoal, In
  <1> QED BY <1>1, <1>6, <1>7

\* A panic closes every open goal.
LEMMA PanickedOK ==
    ASSUME NEW m, NEW q, QueueOK(q, m)
    PROVE  /\ QueueOK(Panicked(q), m) /\ In(Panicked(q), "active") = {}
           /\ \E D \in SUBSET Open(q) : Closes(q, Panicked(q), D)
  <1> DEFINE p == [q EXCEPT !.cancel = {}]
             byId == CHOOSE s \in SetToSeqs(Open(q)) :
                         \A i, j \in DOMAIN s : i < j => s[i] < s[j]
  <1>1. QueueOK(p, m) /\ p.goal = q.goal /\ p.digests = q.digests /\ p.cancel = {}
    BY NoCancels
  <1>2. Open(q) \in SUBSET Goal /\ IsFiniteSet(Open(q)) BY FiniteGoals DEF Open, In
  <1>3. byId \in SetToSeqs(Open(q))
    <2> DEFINE R == {a \in Goal \X Goal : a[1] <= a[2]}
    <2>1. \A g, h \in Goal : <<g, h>> \in R <=> g <= h OBVIOUS
    <2>2. \A g \in Goal : g \in Int BY Constants DEF Goal
    <2> HIDE DEF R
    <2>3. Orders(R, Open(q)) BY <1>2, <2>1, <2>2 DEF Orders
    <2>4. PICK s \in SetToSeqs(Open(q)) :
              \A i, j \in DOMAIN s : i < j => <<s[i], s[j]>> \in R
      BY <1>2, <2>3, Sorted
    <2>5. /\ s \in Seq(Open(q)) /\ DOMAIN s = 1..Len(s) /\ IsInjective(s) /\ Len(s) \in Nat
          /\ \A i \in DOMAIN s : s[i] \in Goal
      BY <1>2, <2>4, Listing, LenProperties
    <2>6. \A i, j \in DOMAIN s : i < j => s[i] < s[j]
      <3> SUFFICES ASSUME NEW i \in DOMAIN s, NEW j \in DOMAIN s, i < j PROVE s[i] < s[j]
        OBVIOUS
      <3>1. s[i] <= s[j] BY <2>1, <2>4, <2>5
      <3>2. s[i] # s[j] BY <2>5 DEF IsInjective
      <3> QED BY <2>2, <2>5, <3>1, <3>2
    <2> QED BY <2>4, <2>6
  <1>4. byId \in Seq(Goal) /\ Range(byId) = Open(q)
    <2> HIDE DEF byId
    <2>1. byId \in Seq(Open(q)) /\ Range(byId) = Open(q) BY <1>2, <1>3, Listing
    <2> QED BY <1>2, <2>1, SeqMonotonic
  <1>5. Panicked(q) = TerminateAll(p, byId) BY DEF Panicked
  <1> HIDE DEF p, byId
  <1>6. Open(p) = Open(q) BY <1>1 DEF Open, In
  <1>7. QueueOK(Panicked(q), m) /\ Closes(p, Panicked(q), Open(q))
    BY <1>1, <1>4, <1>5, <1>6, TerminateAllOK
  <1>8. Closes(q, Panicked(q), Open(q)) BY <1>1, <1>7 DEF Closes
  <1>9. In(Panicked(q), "active") = {}
    BY <1>8 DEF Closes, Closing, Closed, NoGoal, In, Open
  <1> QED BY <1>7, <1>8, <1>9

-----------------------------------------------------------------------------
(* What became of the open goals from q to p, when m ids were given out.   *)

\* It is new, or it was open before, has not lost active time, and lives if it
\* lived.
Evolves(q, p, m) ==
    \A g \in Open(p) :
        \/ g > m /\ p.goal[g].state = "pending"
        \/ /\ g \in Open(q) /\ Bank(q.goal[g]) <= Bank(p.goal[g])
           /\ Lives(q, g) => Lives(p, g)

\* The active time suspend would write down is within the budget.
LEMMA BankTypes == \A r \in Record : Bank(r) \in 0..Wall
  BY Constants DEF Record, Bank, Smaller

\* A queue whose open records are as they were has lost nothing.
LEMMA StaysEvolves ==
    ASSUME NEW m, NEW q, NEW p, q.goal \in [Goal -> Record],
           \A g \in Open(p) : g \in Open(q) /\ p.goal[g] = q.goal[g]
    PROVE  Evolves(q, p, m)
  <1>1. \A g \in Goal : Bank(q.goal[g]) <= Bank(q.goal[g])
    <2>1. \A r \in Record : Bank(r) <= Bank(r) BY BankTypes, Constants
    <2> QED BY <2>1
  <1>2. \A g \in Open(p) : g \in Goal /\ (Lives(q, g) => Lives(p, g))
    BY DEF Lives, Parked, In, Open
  <1> QED BY <1>1, <1>2 DEF Evolves

\* A queue in which goals were closed has lost nothing of the others.
LEMMA ClosesEvolves ==
    ASSUME NEW m, NEW q, NEW p, NEW D, q.goal \in [Goal -> Record], Closes(q, p, D)
    PROVE  Evolves(q, p, m)
  <1>1. \A g \in Open(p) : g \in Open(q) /\ p.goal[g] = q.goal[g]
    BY DEF Closes, Closing, Closed, NoGoal, Open, In
  <1> QED BY <1>1, StaysEvolves

\* Two operations of one step, as when the arbiter suspends and submits.
LEMMA EvolvesTwice ==
    ASSUME NEW m \in Nat, NEW q, NEW u, NEW p, QueueOK(u, m), Evolves(q, u, m), Evolves(u, p, m),
           q.goal \in [Goal -> Record], p.goal \in [Goal -> Record]
    PROVE  Evolves(q, p, m)
  <1>1. Open(u) \subseteq 1..m BY DEF QueueOK, StoreOK, Kept, Open, In
  <1>2. u.goal \in [Goal -> Record] BY DEF QueueOK, StoreOK
  <1> SUFFICES ASSUME NEW g \in Open(p), ~(g > m /\ p.goal[g].state = "pending")
               PROVE  /\ g \in Open(q) /\ Bank(q.goal[g]) <= Bank(p.goal[g])
                      /\ Lives(q, g) => Lives(p, g)
    BY DEF Evolves
  <1>3. g \in Open(u) /\ Bank(u.goal[g]) <= Bank(p.goal[g]) /\ (Lives(u, g) => Lives(p, g))
    BY DEF Evolves
  <1>4. ~(g > m) BY <1>1, <1>3
  <1>5. g \in Open(q) /\ Bank(q.goal[g]) <= Bank(u.goal[g]) /\ (Lives(q, g) => Lives(u, g))
    BY <1>3, <1>4 DEF Evolves
  <1>6. Bank(q.goal[g]) \in Int /\ Bank(u.goal[g]) \in Int /\ Bank(p.goal[g]) \in Int
    <2>1. \A r \in Record : Bank(r) \in Int BY BankTypes, Constants
    <2>2. g \in Goal BY DEF Open, In
    <2> QED BY <1>2, <2>1, <2>2
  <1> QED BY <1>3, <1>5, <1>6

\* The record of an open goal that stays open is written again.
LEMMA RewriteOK ==
    ASSUME NEW m, NEW q, QueueOK(q, m), NEW g \in Open(q), NEW r \in Record,
           r.state \in {"active", "pending"}, r.key = q.goal[g].key, r.steps < MaxSteps,
           r.state = "pending" => r.run = 0,
           r.state = "active" => In(q, "active") \subseteq {g}
    PROVE  /\ QueueOK(Remember(q, g, r), m)
           /\ Remember(q, g, r).goal = [q.goal EXCEPT ![g] = r]
           /\ Remember(q, g, r).cancel = q.cancel
           /\ Remember(q, g, r).digests = q.digests
  <1> DEFINE f == [q.goal EXCEPT ![g] = r]
             u == Remember(q, g, r)
  <1>1. q \in Queues /\ Ordered(q) /\ g \in Kept(q) BY DEF QueueOK, StoreOK, Open, In, Kept
  <1>2. Recast(q, u, f, q.cancel) BY <1>1, Remembered
  <1>3. q.goal \in [Goal -> Record] /\ g \in Goal BY DEF QueueOK, StoreOK, Open, In
  <1>4. f \in [Goal -> Record] BY <1>3
  <1>5. f[g] = r /\ \A h \in Goal : h # g => f[h] = q.goal[h] BY <1>3
  <1> HIDE DEF u, f
  <1>6. \A h \in Goal : (f[h].state = "none" <=> q.goal[h].state = "none")
                        /\ (f[h].state = "none" => f[h] = NoGoal)
    BY <1>5 DEF QueueOK, StoreOK, Open, In
  <1>7. \A h \in Goal : f[h].state \in {"active", "pending"}
                            => q.goal[h].state \in {"active", "pending"}
    BY <1>5 DEF Open, In
  <1>8. \A h \in Goal : f[h].state \in {"active", "pending"}
            => /\ q.goal[h].state \in {"active", "pending"} /\ f[h].key = q.goal[h].key
               /\ f[h].steps < MaxSteps /\ (f[h].state = "pending" => f[h].run = 0)
    BY <1>5, <1>7 DEF QueueOK, StoreOK, In
  <1>9. \A h, k \in Goal : f[h].state = "active" /\ f[k].state = "active" => h = k
    BY <1>5 DEF QueueOK, In
  <1>10. q.cancel \subseteq {h \in Goal : f[h].state \in {"active", "pending"}}
    BY <1>5 DEF QueueOK, Open, In
  <1>11. QueueOK(u, m) BY <1>2, <1>4, <1>6, <1>8, <1>9, <1>10, RecastOK
  <1>12. u.goal = f /\ u.digests = q.digests /\ u.cancel = q.cancel BY <1>2 DEF Recast
  <1> QED BY <1>11, <1>12 DEF u, f

\* What is written into a record has its types.
LEMMA WrittenRecords ==
    ASSUME NEW x \in Record, NEW k \in AnyKey, NEW rank \in {i \in Int : i <= 0},
           NEW b \in 0..Wall, NEW n \in 0..MaxSuspensions
    PROVE  /\ [x EXCEPT !.state = "pending", !.key = k, !.front = rank] \in Record
           /\ [x EXCEPT !.state = "active", !.run = 0, !.parked = FALSE, !.front = 0,
                        !.age = 0] \in Record
           /\ [x EXCEPT !.state = "pending", !.parked = TRUE, !.turns = n, !.banked = b,
                        !.run = 0, !.front = rank] \in Record
  <1> DEFINE S == {"none", "pending", "active", "ended"}
             F == {i \in Int : i <= 0}
             A == 0..Ttl
             B == 0..Wall
             T == 0..MaxSuspensions
             N == 0..MaxSteps
             P == BOOLEAN
  <1>1. Record = [state : S, key : AnyKey, front : F, age : A, banked : B, run : B, parked : P,
                  turns : T, steps : N]
    BY DEF Record
  <1>2. /\ 0 \in A /\ 0 \in B /\ 0 \in F /\ TRUE \in P /\ FALSE \in P
        /\ "pending" \in S /\ "active" \in S /\ rank \in F /\ b \in B /\ n \in T
    BY Constants
  <1> HIDE DEF S, F, A, B, T, N, P
  <1> QED BY <1>1, <1>2

\* activate_next takes a goal that waits when none is active.
LEMMA ActivatedOK ==
    ASSUME NEW m, NEW q, QueueOK(q, m), In(q, "active") = {}, NEW g \in In(q, "pending")
    PROVE  /\ QueueOK(Activated(q, g), m) /\ Evolves(q, Activated(q, g), m)
           /\ g \in Open(Activated(q, g))
  <1> DEFINE r == [q.goal[g] EXCEPT !.state = "active", !.run = 0, !.parked = FALSE,
                                    !.front = 0, !.age = 0]
  <1>1. g \in Goal /\ q.goal \in [Goal -> Record] /\ g \in Open(q) /\ q.goal[g] \in Record
    BY DEF In, Open, QueueOK, StoreOK
  <1>2. /\ r \in Record /\ r.state = "active" /\ r.key = q.goal[g].key
        /\ r.steps = q.goal[g].steps /\ r.banked = q.goal[g].banked /\ r.run = 0
    <2>1. 0 \in {i \in Int : i <= 0} /\ 0 \in 0..Wall /\ 0 \in 0..MaxSuspensions BY Constants
    <2>2. r \in Record BY <1>1, <2>1, NoGoalTypes, WrittenRecords
    <2>3. /\ r.state = "active" /\ r.key = q.goal[g].key
          /\ r.steps = q.goal[g].steps /\ r.banked = q.goal[g].banked /\ r.run = 0
      BY <1>1 DEF Record
    <2> QED BY <2>2, <2>3
  <1>3. q.goal[g].steps < MaxSteps /\ q.goal[g].run = 0 BY DEF QueueOK, StoreOK
  <1>4. Activated(q, g) = Remember(q, g, r) BY DEF Activated
  <1> HIDE DEF r
  <1>5. /\ QueueOK(Remember(q, g, r), m)
        /\ Remember(q, g, r).goal = [q.goal EXCEPT ![g] = r]
    BY <1>1, <1>2, <1>3, RewriteOK
  <1> DEFINE p == Remember(q, g, r)
  <1> HIDE DEF p
  <1>6. p.goal[g] = r /\ \A h \in Goal : h # g => p.goal[h] = q.goal[h] BY <1>1, <1>5 DEF p
  <1>7. Evolves(q, p, m)
    <2> SUFFICES ASSUME NEW h \in Open(p)
                 PROVE  /\ h \in Open(q) /\ Bank(q.goal[h]) <= Bank(p.goal[h])
                        /\ Lives(q, h) => Lives(p, h)
      BY DEF Evolves
    <2>1. h \in Goal BY DEF Open, In
    <2>2. Bank(q.goal[h]) = Bank(p.goal[h])
      <3>1. Bank(q.goal[g]) = Bank(p.goal[g]) BY <1>2, <1>3, <1>6 DEF Bank
      <3> QED BY <1>6, <2>1, <3>1
    <2>3. Bank(q.goal[h]) <= Bank(p.goal[h])
      <3>1. \A x \in Record : Bank(x) \in Int BY BankTypes, Constants
      <3> QED BY <1>1, <2>1, <2>2, <3>1
    <2>4. h \in Open(q) BY <1>1, <1>6, <2>1 DEF Open, In
    <2>5. Lives(q, h) => Lives(p, h)
      BY <1>2, <1>6, <2>1 DEF Lives, Parked, In
    <2> QED BY <2>3, <2>4, <2>5
  <1>8. g \in Open(p) BY <1>1, <1>2, <1>6 DEF Open, In
  <1> QED BY <1>4, <1>5, <1>7, <1>8 DEF p

\* A goal that is suspended keeps what it has spent.
LEMMA SuspendedOK ==
    ASSUME NEW m, NEW q, QueueOK(q, m), NEW g \in In(q, "active"), MaySuspend(q, g)
    PROVE  /\ QueueOK(Suspended(q, g), m) /\ Evolves(q, Suspended(q, g), m)
           /\ Open(Suspended(q, g)) = Open(q) /\ In(Suspended(q, g), "active") = {}
           /\ Suspended(q, g).digests = q.digests
  <1> DEFINE r == [q.goal[g] EXCEPT !.state = "pending", !.parked = TRUE, !.turns = @ + 1,
                       !.banked = Bank(q.goal[g]), !.run = 0, !.front = NextFrontRank(q)]
  <1>1. g \in Goal /\ q.goal \in [Goal -> Record] /\ g \in Open(q) /\ q.goal[g] \in Record
    BY DEF In, Open, QueueOK, StoreOK
  <1>2. /\ NextFrontRank(q) \in {x \in Int : x <= 0} /\ Bank(q.goal[g]) \in 0..Wall
        /\ q.goal[g].turns + 1 \in 0..MaxSuspensions
    <2>1. NextFrontRank(q) \in {x \in Int : x <= 0} BY <1>1, FrontRankTypes
    <2>2. Bank(q.goal[g]) \in 0..Wall BY <1>1, BankTypes
    <2>3. q.goal[g].turns \in 0..MaxSuspensions BY <1>1 DEF Record
    <2>4. q.goal[g].turns + 1 \in 0..MaxSuspensions BY <2>3, Constants DEF MaySuspend
    <2> QED BY <2>1, <2>2, <2>4
  <1>3. /\ r \in Record /\ r.state = "pending" /\ r.key = q.goal[g].key /\ r.parked = TRUE
        /\ r.steps = q.goal[g].steps /\ r.banked = Bank(q.goal[g]) /\ r.run = 0
    <2>1. r \in Record
      <3> DEFINE n == q.goal[g].turns + 1
                 b == Bank(q.goal[g])
                 rank == NextFrontRank(q)
      <3>1. n \in 0..MaxSuspensions /\ b \in 0..Wall /\ rank \in {i \in Int : i <= 0}
        BY <1>2
      <3>2. r = [q.goal[g] EXCEPT !.state = "pending", !.parked = TRUE, !.turns = n,
                                  !.banked = b, !.run = 0, !.front = rank]
        OBVIOUS
      <3> HIDE DEF r, n, b, rank
      <3> QED BY <1>1, <3>1, <3>2, NoGoalTypes, WrittenRecords
    <2>2. /\ r.state = "pending" /\ r.key = q.goal[g].key /\ r.parked = TRUE
          /\ r.steps = q.goal[g].steps /\ r.banked = Bank(q.goal[g]) /\ r.run = 0
      BY <1>1 DEF Record
    <2> QED BY <2>1, <2>2
  <1>4. q.goal[g].steps < MaxSteps BY DEF QueueOK
  <1>5. Suspended(q, g) = Remember(q, g, r) BY DEF Suspended
  <1> HIDE DEF r
  <1>6. /\ QueueOK(Remember(q, g, r), m)
        /\ Remember(q, g, r).goal = [q.goal EXCEPT ![g] = r]
        /\ Remember(q, g, r).digests = q.digests
    BY <1>1, <1>3, <1>4, RewriteOK
  <1> DEFINE p == Remember(q, g, r)
  <1> HIDE DEF p
  <1>7. p.goal[g] = r /\ \A h \in Goal : h # g => p.goal[h] = q.goal[h] BY <1>1, <1>6 DEF p
  <1>8. Open(p) = Open(q) BY <1>1, <1>3, <1>7 DEF Open, In
  <1>9. In(p, "active") = {} BY <1>3, <1>7 DEF QueueOK, In
  <1>10. Evolves(q, p, m)
    <2> SUFFICES ASSUME NEW h \in Open(p)
                 PROVE  /\ h \in Open(q) /\ Bank(q.goal[h]) <= Bank(p.goal[h])
                        /\ Lives(q, h) => Lives(p, h)
      BY DEF Evolves
    <2>1. h \in Goal BY DEF Open, In
    <2>2. Bank(r) = Bank(q.goal[g]) BY <1>2, <1>3, Constants DEF Bank, Smaller
    <2>3. Bank(q.goal[h]) <= Bank(p.goal[h])
      <3>1. \A x \in Record : Bank(x) \in Int BY BankTypes, Constants
      <3>2. Bank(q.goal[h]) = Bank(p.goal[h]) BY <1>7, <2>1, <2>2
      <3> QED BY <1>1, <2>1, <3>1, <3>2
    <2>4. Lives(q, h) => Lives(p, h) BY <1>3, <1>7, <2>1 DEF Lives, Parked, In
    <2> QED BY <1>8, <2>3, <2>4
  <1> QED BY <1>5, <1>6, <1>8, <1>9, <1>10 DEF p

\* note_step counts, and ends a goal that has no steps left.
LEMMA SteppedOK ==
    ASSUME NEW m, NEW q, QueueOK(q, m), NEW g \in In(q, "active")
    PROVE  /\ QueueOK(Stepped(q, g), m) /\ Evolves(q, Stepped(q, g), m)
           /\ In(Stepped(q, g), "active") \subseteq In(q, "active")
  <1> DEFINE r == [q.goal[g] EXCEPT !.steps = @ + 1]
             p == Remember(q, g, r)
  <1>1. /\ g \in Goal /\ q.goal \in [Goal -> Record] /\ g \in Open(q) /\ q.goal[g] \in Record
        /\ q \in Queues /\ Ordered(q) /\ g \in Kept(q) /\ q.goal[g].state = "active"
    BY DEF In, Open, Kept, QueueOK, StoreOK
  <1>2. q.goal[g].steps \in 0..MaxSteps /\ q.goal[g].steps < MaxSteps
    BY <1>1 DEF QueueOK, Record
  <1>3. q.goal[g].steps + 1 \in 0..MaxSteps BY <1>2, Constants
  <1>4. /\ r \in Record /\ r.state = q.goal[g].state /\ r.key = q.goal[g].key
        /\ r.parked = q.goal[g].parked /\ r.steps = q.goal[g].steps + 1
        /\ r.banked = q.goal[g].banked /\ r.run = q.goal[g].run
    BY <1>1, <1>3 DEF Record
  <1>5. Stepped(q, g) = IF g \in q.cancel \/ r.steps = MaxSteps THEN Terminate(p, g) ELSE p
    BY DEF Stepped
  <1> HIDE DEF r
  <1>6. Recast(q, p, [q.goal EXCEPT ![g] = r], q.cancel) BY <1>1, Remembered
  <1>7. CASE g \in q.cancel \/ r.steps = MaxSteps
    <2> HIDE DEF p
    <2>1. p.goal = [q.goal EXCEPT ![g] = r] /\ p.order \in Seq(Goal)
          /\ Permutes(p.order, q.order)
          /\ p = [goal |-> p.goal, order |-> p.order, digests |-> q.digests,
                  cancel |-> q.cancel]
      BY <1>6 DEF Recast
    <2>2. p.goal \in [Goal -> Record] /\ q.digests \in Seq(Digest) /\ q.cancel \in SUBSET Goal
      BY <1>1, <1>4, <2>1 DEF Queues
    <2>3. p \in Queues BY <2>1, <2>2 DEF Queues
    <2>4. Kept(p) = Kept(q) BY <1>1, <1>4, <2>1 DEF Kept
    <2>5. Ordered(p) BY <1>1, <2>1, <2>4 DEF Ordered, Permutes
    <2>6. Recast(p, Terminate(p, g), Closing(p.goal, {g}), p.cancel \ {g})
      BY <1>1, <2>3, <2>4, <2>5, Terminated
    <2>7. Closing(p.goal, {g}) = Closing(q.goal, {g})
      <3>1. p.goal[g] = r /\ \A h \in Goal : h # g => p.goal[h] = q.goal[h] BY <1>1, <2>1
      <3>2. Closed(r) = Closed(q.goal[g]) BY <1>4 DEF Closed
      <3> HIDE DEF p
      <3> QED BY <1>1, <3>1, <3>2 DEF Closing
    <2> DEFINE u == Terminate(p, g)
               E == {g}
               k == q.cancel \ {g}
    <2>8. Recast(q, u, Closing(q.goal, E), k)
      <3>1. p.digests = q.digests /\ p.cancel = q.cancel BY <2>1
      <3>2. u.order \in Seq(Goal) /\ Permutes(u.order, q.order)
        BY <2>1, <2>6 DEF Recast, Permutes
      <3> QED BY <2>6, <2>7, <3>1, <3>2 DEF Recast
    <2>9. E \subseteq Open(q) /\ k \subseteq q.cancel \ E BY <1>1
    <2> HIDE DEF u, E, k
    <2>10. QueueOK(u, m) /\ Closes(q, u, E) BY <2>8, <2>9, ClosesRecast
    <2>11. Evolves(q, u, m) BY <1>1, <2>10, ClosesEvolves
    <2>12. Stepped(q, g) = u BY <1>5, <1>7 DEF u
    <2>13. In(u, "active") \subseteq In(q, "active") BY <2>10, ClosesActive
    <2> QED BY <2>10, <2>11, <2>12, <2>13
  <1>8. CASE ~(g \in q.cancel \/ r.steps = MaxSteps)
    <2>1. r.steps < MaxSteps BY <1>2, <1>4, <1>8, Constants
    <2>2. In(q, "active") \subseteq {g} BY DEF QueueOK
    <2>3. QueueOK(p, m) /\ p.goal = [q.goal EXCEPT ![g] = r]
      BY <1>1, <1>4, <2>1, <2>2, RewriteOK
    <2> HIDE DEF p
    <2>4. p.goal[g] = r /\ \A h \in Goal : h # g => p.goal[h] = q.goal[h] BY <1>1, <2>3
    <2>5. Evolves(q, p, m)
      <3> SUFFICES ASSUME NEW h \in Open(p)
                   PROVE  /\ h \in Open(q) /\ Bank(q.goal[h]) <= Bank(p.goal[h])
                          /\ Lives(q, h) => Lives(p, h)
        BY DEF Evolves
      <3>1. h \in Goal BY DEF Open, In
      <3>2. Bank(q.goal[g]) = Bank(p.goal[g]) BY <1>4, <2>4 DEF Bank
      <3>3. Bank(q.goal[h]) <= Bank(p.goal[h])
        <4>1. \A x \in Record : Bank(x) \in Int BY BankTypes, Constants
        <4>2. Bank(q.goal[h]) = Bank(p.goal[h]) BY <2>4, <3>1, <3>2
        <4> QED BY <1>1, <3>1, <4>1, <4>2
      <3>4. h \in Open(q) BY <1>1, <1>4, <2>4, <3>1 DEF Open, In
      <3>5. Lives(q, h) => Lives(p, h) BY <1>1, <1>4, <2>4, <3>1 DEF Lives, Parked, In
      <3> QED BY <3>3, <3>4, <3>5
    <2>6. Stepped(q, g) = p BY <1>5, <1>8
    <2>7. In(p, "active") \subseteq In(q, "active") BY <1>1, <1>4, <2>4 DEF In
    <2> QED BY <2>3, <2>5, <2>6, <2>7
  <1> QED BY <1>7, <1>8

-----------------------------------------------------------------------------
(* The operations that admit, and what they forget.                        *)

\* Without forgets the digest of a key.
LEMMA WithoutKey ==
    ASSUME NEW ds \in Seq(Digest), IsInjective(ds), Distinct(Range(ds)), NEW k
    PROVE  /\ Without(ds, k) \in Seq(Digest) /\ IsInjective(Without(ds, k))
           /\ Range(Without(ds, k)) = {d \in Range(ds) : d.key # k}
           /\ Len(Without(ds, k)) <= Len(ds)
           /\ (\E d \in Range(ds) : d.key = k) => Len(Without(ds, k)) = Len(ds) - 1
  <1> DEFINE I == {i \in 1..Len(ds) : ds[i].key = k}
             m == Min(I)
             w == Without(ds, k)
  <1>1. Len(ds) \in Nat /\ DOMAIN ds = 1..Len(ds) BY LenProperties
  <1>2. CASE I = {}
    <2>1. w = ds BY <1>2 DEF Without, RemoveFirstMatch
    <2>2. \A d \in Range(ds) : d.key # k BY <1>1, <1>2 DEF Range
    <2> HIDE DEF w
    <2>3. w \in Seq(Digest) /\ IsInjective(w) /\ Len(w) <= Len(ds) BY <1>1, <2>1
    <2>4. Range(w) = {d \in Range(ds) : d.key # k} BY <2>1, <2>2
    <2> QED BY <2>2, <2>3, <2>4 DEF w
  <1>3. CASE I # {}
    <2>1. I \in SUBSET Nat BY <1>1
    <2>2. m \in 1..Len(ds) /\ ds[m].key = k BY <1>3, <2>1, MinIsLeast
    <2>3. w = RemoveAt(ds, m) BY <1>3 DEF Without, RemoveFirstMatch, SelectInSeq
    <2> HIDE DEF m, w
    <2>4. /\ w \in Seq(Digest) /\ IsInjective(w) /\ Len(w) = Len(ds) - 1
          /\ Range(w) = Range(ds) \ {ds[m]}
      BY <2>2, <2>3, RemovedAt, RemovedOne
    <2>5. ds[m] \in Range(ds) BY <1>1, <2>2 DEF Range
    <2>6. \A d \in Range(ds) : d.key = k <=> d = ds[m] BY <2>2, <2>5 DEF Distinct
    <2>7. Range(w) = {d \in Range(ds) : d.key # k} BY <2>4, <2>6
    <2> QED BY <1>1, <2>4, <2>7 DEF w
  <1> QED BY <1>2, <1>3

\* A queue with other digests.
LEMMA OtherDigests ==
    ASSUME NEW m, NEW q, QueueOK(q, m), NEW ds \in Seq(Digest),
           IsInjective(ds), Distinct(Range(ds)), Len(ds) <= MaxRemembered,
           \A d \in Range(ds) : d.id <= m,
           \A g \in Open(q) : [key |-> q.goal[g].key, id |-> g] \in Range(ds)
    PROVE  /\ QueueOK([q EXCEPT !.digests = ds], m)
           /\ [q EXCEPT !.digests = ds].goal = q.goal
           /\ [q EXCEPT !.digests = ds].cancel = q.cancel
  <1> DEFINE p == [q EXCEPT !.digests = ds]
  <1>1. /\ p.goal = q.goal /\ p.order = q.order /\ p.digests = ds /\ p.cancel = q.cancel
        /\ p \in Queues
    BY DEF QueueOK, Queues
  <1> HIDE DEF p
  <1>2. Open(p) = Open(q) /\ Kept(p) = Kept(q) /\ \A s : In(p, s) = In(q, s)
    BY <1>1 DEF Open, In, Kept
  <1>3. StoreOK(p, m) BY <1>1, <1>2 DEF QueueOK, StoreOK, Ordered
  <1>4. DigestsOK(p, m) BY <1>1, <1>2 DEF DigestsOK
  <1>5. QueueOK(p, m) BY <1>1, <1>2, <1>3, <1>4 DEF QueueOK
  <1> QED BY <1>1, <1>5 DEF p

\* A client that repeats a key moves its digest to the end.
LEMMA DuplicateOK ==
    ASSUME NEW m, NEW q, QueueOK(q, m), NEW k, Resolves(q, k) # {}
    PROVE  QueueOK(AsDuplicate(q, k), m) /\ Evolves(q, AsDuplicate(q, k), m)
           /\ AsDuplicate(q, k).goal = q.goal
  <1> DEFINE d == CHOOSE e \in Resolves(q, k) : TRUE
             w == Without(q.digests, k)
             ds == Append(w, d)
  <1>1. d \in Range(q.digests) /\ d.key = k BY DEF Resolves
  <1>2. /\ q.digests \in Seq(Digest) /\ IsInjective(q.digests) /\ Distinct(Range(q.digests))
        /\ Len(q.digests) <= MaxRemembered /\ Len(q.digests) \in Nat
    BY LenProperties DEF QueueOK, DigestsOK, Queues
  <1>3. d \in Digest BY <1>1, <1>2, RangeOfSeq
  <1> HIDE DEF d
  <1>4. /\ w \in Seq(Digest) /\ IsInjective(w) /\ Len(w) = Len(q.digests) - 1
        /\ Range(w) = {e \in Range(q.digests) : e.key # k}
    BY <1>1, <1>2, WithoutKey
  <1> HIDE DEF w
  <1>5. /\ ds \in Seq(Digest) /\ IsInjective(ds) /\ Len(ds) = Len(w) + 1
        /\ Range(ds) = Range(w) \cup {d}
    BY <1>1, <1>3, <1>4, AppendedOne
  <1>6. AsDuplicate(q, k) = [q EXCEPT !.digests = ds] BY DEF AsDuplicate, w, d
  <1> HIDE DEF ds
  <1>7. Range(ds) = Range(q.digests)
    <2>1. \A e \in Range(q.digests) : e.key = k => e = d BY <1>1, <1>2 DEF Distinct
    <2> QED BY <1>1, <1>4, <1>5, <2>1
  <1>8. Len(ds) = Len(q.digests) BY <1>2, <1>4, <1>5
  <1>9. QueueOK([q EXCEPT !.digests = ds], m) /\ [q EXCEPT !.digests = ds].goal = q.goal
    <2>1. /\ \A e \in Range(ds) : e.id <= m
          /\ \A g \in Open(q) : [key |-> q.goal[g].key, id |-> g] \in Range(ds)
      BY <1>7 DEF QueueOK, DigestsOK
    <2> QED BY <1>2, <1>5, <1>7, <1>8, <2>1, OtherDigests
  <1>10. Evolves(q, AsDuplicate(q, k), m)
    <2>1. q.goal \in [Goal -> Record] BY DEF QueueOK, StoreOK
    <2>2. Open(AsDuplicate(q, k)) = Open(q) BY <1>6, <1>9 DEF Open, In
    <2> QED BY <1>6, <1>9, <2>1, <2>2, StaysEvolves
  <1> QED BY <1>6, <1>9, <1>10

\* A goal that is refused forgets a digest whose goal is forgotten.
LEMMA RefusedOK ==
    ASSUME NEW m, NEW q, QueueOK(q, m), NEW k, Resolves(q, k) = {}
    PROVE  QueueOK(AsRefused(q, k), m) /\ Evolves(q, AsRefused(q, k), m)
           /\ AsRefused(q, k).goal = q.goal
  <1> DEFINE w == Without(q.digests, k)
  <1>1. /\ q.digests \in Seq(Digest) /\ IsInjective(q.digests) /\ Distinct(Range(q.digests))
        /\ Len(q.digests) <= MaxRemembered /\ Len(q.digests) \in Nat
    BY LenProperties DEF QueueOK, DigestsOK, Queues
  <1>2. /\ w \in Seq(Digest) /\ IsInjective(w) /\ Len(w) <= Len(q.digests)
        /\ Range(w) = {e \in Range(q.digests) : e.key # k}
    BY <1>1, WithoutKey
  <1>3. AsRefused(q, k) = [q EXCEPT !.digests = w] BY DEF AsRefused
  <1> HIDE DEF w
  <1>4. Len(w) <= MaxRemembered
    <2>1. Len(w) \in Nat BY <1>2, LenProperties
    <2> QED BY <1>1, <1>2, <2>1, Constants
  <1>5. Distinct(Range(w)) BY <1>1, <1>2 DEF Distinct
  <1>6. \A e \in Range(w) : e.id <= m BY <1>2 DEF QueueOK, DigestsOK
  <1>7. \A g \in Open(q) : [key |-> q.goal[g].key, id |-> g] \in Range(w)
    <2> SUFFICES ASSUME NEW g \in Open(q)
                 PROVE  [key |-> q.goal[g].key, id |-> g] \in Range(w)
      OBVIOUS
    <2> DEFINE d == [key |-> q.goal[g].key, id |-> g]
    <2>1. d \in Range(q.digests) BY DEF QueueOK, DigestsOK
    <2>2. q.goal[d.id].state # "none" BY DEF Open, In
    <2>3. d.key # k BY <2>1, <2>2 DEF Resolves
    <2> QED BY <1>2, <2>1, <2>3
  <1>8. QueueOK([q EXCEPT !.digests = w], m) /\ [q EXCEPT !.digests = w].goal = q.goal
    <2>1. w \in Seq(Digest) /\ IsInjective(w) BY <1>2
    <2> QED BY ONLY QueueOK(q, m), <2>1, <1>4, <1>5, <1>6, <1>7, OtherDigests
  <1>9. Evolves(q, AsRefused(q, k), m)
    <2>1. q.goal \in [Goal -> Record] BY DEF QueueOK, StoreOK
    <2>2. Open(AsRefused(q, k)) = Open(q) BY <1>3, <1>8 DEF Open, In
    <2> QED BY <1>3, <1>8, <2>1, <2>2, StaysEvolves
  <1> QED BY <1>3, <1>8, <1>9

\* A queue that remembers one goal too many has one that ended, and forgets it.
LEMMA Evicting ==
    ASSUME NEW q \in Queues, IsInjective(q.order), Range(q.order) = Kept(q),
           Len(q.order) <= MaxRemembered + 1, Cardinality(Open(q)) <= MaxOpen
    PROVE  /\ Evicted(q) \in Queues /\ Ordered(Evicted(q))
           /\ Evicted(q).digests = q.digests /\ Evicted(q).cancel = q.cancel
           /\ \A h \in Goal : \/ Evicted(q).goal[h] = q.goal[h]
                              \/ q.goal[h].state = "ended" /\ Evicted(q).goal[h] = NoGoal
  <1>1. /\ q.order \in Seq(Goal) /\ Len(q.order) \in Nat /\ DOMAIN q.order = 1..Len(q.order)
        /\ q.goal \in [Goal -> Record]
    BY LenProperties DEF Queues
  <1>2. CASE Len(q.order) <= MaxRemembered
    <2>1. Evicted(q) = q BY <1>2 DEF Evicted
    <2> QED BY <1>2, <2>1 DEF Ordered
  <1>3. CASE ~(Len(q.order) <= MaxRemembered)
    <2> DEFINE I == {i \in 1..Len(q.order) : q.goal[q.order[i]].state = "ended"}
               m == Min(I)
    <2>1. I # {}
      <3>1. SUFFICES ASSUME I = {} PROVE FALSE OBVIOUS
      <3>2. \A h \in Range(q.order) : h \in Goal /\ q.goal[h].state # "ended"
        BY <1>1, <3>1, RangeOfSeq DEF Range
      <3>3. \A h \in Goal : q.goal[h].state \in {"none", "pending", "active", "ended"}
        BY <1>1 DEF Record
      <3>4. Range(q.order) \subseteq Open(q) BY <3>2, <3>3 DEF Kept, Open, In
      <3>5. IsFiniteSet(Open(q)) BY FiniteGoals DEF Open, In
      <3>6. Len(q.order) <= Cardinality(Open(q)) BY <1>1, <3>4, <3>5, RangeSize
      <3>7. Cardinality(Open(q)) \in Nat BY <3>5, FS_CardinalityType
      <3> QED BY <1>1, <1>3, <3>6, <3>7, Constants
    <2>2. I \in SUBSET Nat BY <1>1
    <2>3. m \in 1..Len(q.order) /\ q.goal[q.order[m]].state = "ended"
      BY <2>1, <2>2, MinIsLeast
    <2> HIDE DEF m
    <2>4. m # 0 BY <1>1, <2>3
    <2>5. Evicted(q) = [q EXCEPT !.goal[q.order[m]] = NoGoal, !.order = RemoveAt(@, m)]
      <3>1. SelectInSeq(q.order, LAMBDA g : q.goal[g].state = "ended") = m
        BY <2>1 DEF SelectInSeq, m
      <3> QED BY <1>3, <2>4, <3>1 DEF Evicted
    <2> HIDE DEF m, I
    <2> DEFINE h == q.order[m]
               o == RemoveAt(q.order, m)
               f == [q.goal EXCEPT ![h] = NoGoal]
    <2>6. h \in Goal /\ h \in Range(q.order) BY <1>1, <2>3 DEF Range
    <2>7. /\ o \in Seq(Goal) /\ Len(o) = Len(q.order) - 1 /\ IsInjective(o)
          /\ Range(o) = Range(q.order) \ {h}
      BY <1>1, <2>3, RemovedAt, RemovedOne
    <2>8. Evicted(q) = [goal |-> f, order |-> o, digests |-> q.digests, cancel |-> q.cancel]
      <3>1. Evicted(q) = [q EXCEPT !.goal = f, !.order = o] BY <2>5
      <3> HIDE DEF f, o
      <3> QED BY <3>1, Rewritten
    <2> HIDE DEF o, h
    <2>9. /\ f \in [Goal -> Record] /\ f[h] = NoGoal
          /\ \A x \in Goal : x # h => f[x] = q.goal[x]
      BY <1>1, <2>6, NoGoalTypes
    <2> HIDE DEF f
    <2> DEFINE p == Evicted(q)
    <2>10. p.goal = f /\ p.order = o /\ p.digests = q.digests /\ p.cancel = q.cancel BY <2>8
    <2>11. p \in Queues
      <3>1. q.digests \in Seq(Digest) /\ q.cancel \in SUBSET Goal BY DEF Queues
      <3> QED BY <2>7, <2>8, <2>9, <3>1 DEF Queues
    <2> HIDE DEF p
    <2>12. Kept(p) = Kept(q) \ {h}
      <3>1. f[h].state = "none" BY <2>9 DEF NoGoal
      <3> QED BY <2>6, <2>9, <2>10, <3>1 DEF Kept
    <2>13. Len(o) <= MaxRemembered BY <1>1, <2>7, Constants
    <2>14. Ordered(p) BY <2>7, <2>10, <2>12, <2>13 DEF Ordered
    <2>15. q.goal[h].state = "ended" BY <2>3 DEF h
    <2>16. \A x \in Goal : \/ p.goal[x] = q.goal[x]
                           \/ q.goal[x].state = "ended" /\ p.goal[x] = NoGoal
      BY <2>9, <2>10, <2>15
    <2> QED BY <2>10, <2>11, <2>14, <2>16 DEF p
  <1> QED BY <1>2, <1>3

\* Digests that are one too many have one whose goal is not open, and it goes.
LEMMA Trimming ==
    ASSUME NEW ds \in Seq(Digest), IsInjective(ds), Distinct(Range(ds)),
           Len(ds) <= MaxRemembered + 1, NEW f,
           Cardinality({g \in Goal : f[g].state \in {"pending", "active"}}) <= MaxOpen
    PROVE  /\ Trimmed(ds, f) \in Seq(Digest) /\ IsInjective(Trimmed(ds, f))
           /\ Len(Trimmed(ds, f)) <= MaxRemembered /\ Range(Trimmed(ds, f)) \subseteq Range(ds)
           /\ \A d \in Range(ds) : f[d.id].state \in {"pending", "active"}
                    => d \in Range(Trimmed(ds, f))
  <1> DEFINE O == {g \in Goal : f[g].state \in {"pending", "active"}}
             I == {i \in 1..Len(ds) : f[ds[i].id].state \notin {"pending", "active"}}
             m == Min(I)
             t == Trimmed(ds, f)
  <1>1. Len(ds) \in Nat /\ DOMAIN ds = 1..Len(ds) /\ \A i \in DOMAIN ds : ds[i] \in Digest
    BY LenProperties
  <1>2. CASE Len(ds) <= MaxRemembered
    <2>1. t = ds BY <1>2 DEF Trimmed
    <2> HIDE DEF t
    <2> QED BY <1>2, <2>1 DEF t
  <1>3. CASE ~(Len(ds) <= MaxRemembered)
    <2>1. I # {}
      <3>1. SUFFICES ASSUME I = {} PROVE FALSE OBVIOUS
      <3> DEFINE ids == [i \in 1..Len(ds) |-> ds[i].id]
      <3>2. \A i \in 1..Len(ds) : ids[i] \in O BY <1>1, <3>1 DEF Digest
      <3> HIDE DEF O
      <3>3. ids \in [1..Len(ds) -> O] BY <3>2
      <3>4. ids \in Seq(O) BY <1>1, <3>3, SeqDef
      <3>5. IsInjective(ids)
        <4> SUFFICES ASSUME NEW i \in 1..Len(ds), NEW j \in 1..Len(ds), ds[i].id = ds[j].id
                     PROVE  i = j
          BY DEF IsInjective
        <4>1. ds[i] \in Range(ds) /\ ds[j] \in Range(ds) BY <1>1 DEF Range
        <4>2. ds[i] = ds[j] BY <4>1 DEF Distinct
        <4> QED BY <1>1, <4>2 DEF IsInjective
      <3>6. Len(ids) = Len(ds) BY <1>1, <3>4, LenProperties
      <3>7. IsFiniteSet(O) BY FiniteGoals DEF O
      <3> HIDE DEF ids
      <3>8. Range(ids) \subseteq O BY <3>4, RangeOfSeq
      <3>9. Len(ds) <= Cardinality(O) BY <3>4, <3>5, <3>6, <3>7, <3>8, RangeSize
      <3>10. Cardinality(O) \in Nat /\ Cardinality(O) <= MaxOpen
        BY <3>7, FS_CardinalityType DEF O
      <3> QED BY <1>1, <1>3, <3>9, <3>10, Constants
    <2>2. I \in SUBSET Nat BY <1>1
    <2>3. m \in 1..Len(ds) /\ f[ds[m].id].state \notin {"pending", "active"}
      BY <2>1, <2>2, MinIsLeast
    <2> HIDE DEF m
    <2>4. m # 0 BY <1>1, <2>3
    <2> USE DEF m
    <2>5. t = RemoveAt(ds, m)
      <3>1. SelectInSeq(ds, LAMBDA d : f[d.id].state \notin {"pending", "active"}) = m
        BY <2>1 DEF SelectInSeq
      <3> HIDE DEF m
      <3> QED BY <1>3, <2>4, <3>1 DEF Trimmed
    <2> HIDE DEF m, I, t
    <2>6. /\ t \in Seq(Digest) /\ IsInjective(t) /\ Len(t) = Len(ds) - 1
          /\ Range(t) = Range(ds) \ {ds[m]}
      BY <2>3, <2>5, RemovedAt, RemovedOne
    <2>7. Len(t) <= MaxRemembered BY <1>1, <2>6, Constants
    <2> QED BY <2>3, <2>6, <2>7 DEF t
  <1> QED BY <1>2, <1>3

\* A goal that is new is remembered, and nothing that is open is forgotten for it.
LEMMA RememberedNew ==
    ASSUME NEW m \in Nat, NEW q, QueueOK(q, m), m + 1 \in Goal, HasRoom(q),
           NEW r \in Record, r.state = "pending"
    PROVE  /\ Remember(q, m + 1, r) \in Queues /\ Ordered(Remember(q, m + 1, r))
           /\ Remember(q, m + 1, r).digests = q.digests
           /\ Remember(q, m + 1, r).cancel = q.cancel
           /\ Remember(q, m + 1, r).goal[m + 1] = r
           /\ \A h \in Goal \ {m + 1} :
                 \/ Remember(q, m + 1, r).goal[h] = q.goal[h]
                 \/ q.goal[h].state = "ended" /\ Remember(q, m + 1, r).goal[h] = NoGoal
           /\ Cardinality(Open(Remember(q, m + 1, r))) <= MaxOpen
  <1> DEFINE g == m + 1
             f == [q.goal EXCEPT ![g] = r]
             o == Append(q.order, g)
             e == [q EXCEPT !.goal[g] = r, !.order = Append(RemoveFirst(@, g), g)]
             p == Evicted(e)
  <1>1. /\ q \in Queues /\ Ordered(q) /\ Kept(q) \subseteq 1..m /\ g \in Goal
        /\ q.goal \in [Goal -> Record] /\ q.order \in Seq(Goal)
        /\ DOMAIN q.order = 1..Len(q.order) /\ Len(q.order) \in Nat
    BY LenProperties DEF QueueOK, StoreOK
  <1>2. g \notin Kept(q) /\ g \notin Open(q) BY <1>1 DEF Kept, Open, In
  <1> HIDE DEF g
  <1>3. g \notin Range(q.order) BY <1>1, <1>2 DEF Ordered
  <1>4. RemoveFirst(q.order, g) = q.order BY <1>1, <1>3 DEF RemoveFirst, Range
  <1>5. /\ o \in Seq(Goal) /\ Len(o) = Len(q.order) + 1 /\ IsInjective(o)
        /\ Range(o) = Range(q.order) \cup {g}
    BY <1>1, <1>3, AppendedOne DEF Ordered
  <1>6. e = [goal |-> f, order |-> o, digests |-> q.digests, cancel |-> q.cancel]
    <2>1. e = [q EXCEPT !.goal = f, !.order = o] BY <1>4
    <2> HIDE DEF f, o
    <2> QED BY <1>1, <2>1, Rewritten
  <1> HIDE DEF o
  <1>7. f \in [Goal -> Record] /\ f[g] = r /\ \A h \in Goal : h # g => f[h] = q.goal[h]
    BY <1>1
  <1> HIDE DEF f
  <1>8. e.goal = f /\ e.order = o /\ e.digests = q.digests /\ e.cancel = q.cancel BY <1>6
  <1>9. e \in Queues
    <2>1. q.digests \in Seq(Digest) /\ q.cancel \in SUBSET Goal BY <1>1 DEF Queues
    <2> QED BY <1>5, <1>6, <1>7, <2>1 DEF Queues
  <1> HIDE DEF e
  <1>10. Kept(e) = Kept(q) \cup {g} BY <1>1, <1>7, <1>8 DEF Kept
  <1>11. Open(e) = Open(q) \cup {g} BY <1>1, <1>7, <1>8 DEF Open, In
  <1>12. Cardinality(Open(e)) <= MaxOpen
    <2>1. IsFiniteSet(Open(q)) BY FiniteGoals DEF Open, In
    <2>2. Cardinality(Open(e)) = Cardinality(Open(q)) + 1 /\ Cardinality(Open(q)) \in Nat
      BY <1>2, <1>11, <2>1, FS_AddElement, FS_CardinalityType
    <2> QED BY <2>2, Constants DEF HasRoom
  <1>13. Len(e.order) <= MaxRemembered + 1 BY <1>1, <1>5, <1>8, Constants DEF Ordered
  <1>14. /\ p \in Queues /\ Ordered(p) /\ p.digests = e.digests /\ p.cancel = e.cancel
         /\ \A h \in Goal : \/ p.goal[h] = e.goal[h]
                            \/ e.goal[h].state = "ended" /\ p.goal[h] = NoGoal
    <2>1. IsInjective(e.order) /\ Range(e.order) = Kept(e)
      BY <1>1, <1>5, <1>8, <1>10 DEF Ordered
    <2> QED BY <1>9, <1>12, <1>13, <2>1, Evicting
  <1> HIDE DEF p
  <1>15. Open(p) = Open(e) BY <1>14 DEF Open, In, NoGoal
  <1>16. Remember(q, g, r) = p BY DEF Remember, p, e
  <1>17. p.goal[g] = r BY <1>1, <1>7, <1>8, <1>14
  <1>18. \A h \in Goal \ {g} : \/ p.goal[h] = q.goal[h]
                               \/ q.goal[h].state = "ended" /\ p.goal[h] = NoGoal
    BY <1>7, <1>8, <1>14
  <1>19. Cardinality(Open(p)) <= MaxOpen BY <1>12, <1>15
  <1> QED BY <1>8, <1>14, <1>16, <1>17, <1>18, <1>19 DEF g

\* A new goal takes its place in the queue, and its key a digest.
LEMMA AdmittedOK ==
    ASSUME NEW m \in Nat, NEW q, QueueOK(q, m), m + 1 \in Goal, HasRoom(q),
           NEW k \in AnyKey, NEW rank \in {i \in Int : i <= 0}, Resolves(q, k) = {}
    PROVE  /\ QueueOK(Admitted(q, m + 1, k, rank), m + 1)
           /\ Evolves(q, Admitted(q, m + 1, k, rank), m)
           /\ In(Admitted(q, m + 1, k, rank), "active") = In(q, "active")
  <1> DEFINE g == m + 1
             r == [NoGoal EXCEPT !.state = "pending", !.key = k, !.front = rank]
             u == Remember(q, g, r)
             d == [key |-> k, id |-> g]
             w == Without(q.digests, k)
             ds == Append(w, d)
             t == Trimmed(ds, u.goal)
             p == [u EXCEPT !.digests = t]
  <1>1. Admitted(q, m + 1, k, rank)
            = [u EXCEPT !.digests = Trimmed(Append(Without(@, k), d), u.goal)]
    BY DEF Admitted
  <1>2. /\ r \in Record /\ r.state = "pending" /\ r.key = k /\ r.run = 0 /\ r.steps = 0
        /\ r.parked = FALSE
    <2>1. 0 \in 0..Wall /\ 0 \in 0..MaxSuspensions BY Constants
    <2>2. r \in Record BY <2>1, NoGoalTypes, WrittenRecords
    <2> QED BY <2>2 DEF NoGoal
  <1> HIDE DEF r
  <1>3. /\ u \in Queues /\ Ordered(u) /\ u.digests = q.digests /\ u.cancel = q.cancel
        /\ u.goal[g] = r /\ Cardinality(Open(u)) <= MaxOpen
        /\ \A h \in Goal \ {g} : \/ u.goal[h] = q.goal[h]
                                 \/ q.goal[h].state = "ended" /\ u.goal[h] = NoGoal
    BY <1>2, RememberedNew
  <1> HIDE DEF u
  <1>4. /\ Kept(q) \subseteq 1..m /\ g \in Goal /\ q.goal \in [Goal -> Record]
        /\ g \notin Kept(q) /\ g > m /\ u.goal \in [Goal -> Record] /\ u.order \in Seq(Goal)
    BY <1>3 DEF QueueOK, StoreOK, Queues, Kept
  <1> HIDE DEF g
  <1>5. /\ q.digests \in Seq(Digest) /\ IsInjective(q.digests) /\ Distinct(Range(q.digests))
        /\ Len(q.digests) <= MaxRemembered /\ Len(q.digests) \in Nat
        /\ \A e \in Range(q.digests) : e.id <= m
    BY LenProperties DEF QueueOK, DigestsOK, Queues
  <1>6. /\ w \in Seq(Digest) /\ IsInjective(w) /\ Len(w) <= Len(q.digests)
        /\ Range(w) = {e \in Range(q.digests) : e.key # k}
    BY <1>5, WithoutKey
  <1> HIDE DEF w
  <1>7. /\ ds \in Seq(Digest) /\ IsInjective(ds) /\ Len(ds) = Len(w) + 1
        /\ Range(ds) = Range(w) \cup {d}
    <2>1. d \in Digest BY <1>4 DEF Digest
    <2>2. d \notin Range(w) BY <1>6
    <2> HIDE DEF d
    <2> QED BY <1>6, <2>1, <2>2, AppendedOne
  <1> HIDE DEF ds
  <1>8. Distinct(Range(ds))
    <2>1. \A e \in Range(w) : e.key # k /\ e.id <= m /\ e \in Range(q.digests) BY <1>5, <1>6
    <2>2. \A e \in Range(w) : e.id # g
      <3>1. Range(w) \subseteq Digest BY <1>6, RangeOfSeq
      <3>2. \A e \in Digest : e.id \in Int BY Constants DEF Digest, Goal
      <3>3. g \in Int BY <1>4, Constants DEF Goal
      <3> QED BY <1>4, <2>1, <3>1, <3>2, <3>3
    <2>3. d.key = k /\ d.id = g OBVIOUS
    <2> HIDE DEF d
    <2> QED BY <1>5, <1>7, <2>1, <2>2, <2>3 DEF Distinct
  <1>9. Len(ds) <= MaxRemembered + 1
    <2>1. Len(w) \in Nat BY <1>6, LenProperties
    <2> QED BY <1>5, <1>6, <1>7, <2>1, Constants
  <1>10. Open(u) = {h \in Goal : u.goal[h].state \in {"pending", "active"}} BY DEF Open, In
  <1>11. /\ t \in Seq(Digest) /\ IsInjective(t) /\ Len(t) <= MaxRemembered
         /\ Range(t) \subseteq Range(ds)
         /\ \A e \in Range(ds) : u.goal[e.id].state \in {"pending", "active"} => e \in Range(t)
    BY <1>3, <1>7, <1>8, <1>9, <1>10, Trimming
  <1> HIDE DEF t
  <1>12. /\ p.goal = u.goal /\ p.order = u.order /\ p.digests = t /\ p.cancel = q.cancel
         /\ p \in Queues
    BY <1>3, <1>11 DEF Queues
  <1>13. Admitted(q, m + 1, k, rank) = p BY <1>1, <1>3 DEF t, ds, w
  <1> HIDE DEF p
  <1>14. /\ Open(p) = Open(q) \cup {g} /\ In(p, "active") = In(q, "active")
         /\ In(p, "pending") = In(q, "pending") \cup {g}
         /\ \A h \in Open(q) : p.goal[h] = q.goal[h]
         /\ Kept(p) = Kept(u) /\ Kept(u) \subseteq Kept(q) \cup {g} /\ p.goal[g] = r
    <2>1. q.goal[g].state = "none" BY <1>4 DEF Kept
    <2>2. \A h \in Goal : h # g => \/ p.goal[h] = q.goal[h]
                                   \/ q.goal[h].state = "ended" /\ p.goal[h] = NoGoal
      BY <1>3, <1>12
    <2>3. p.goal[g] = r BY <1>3, <1>12
    <2>4. NoGoal.state = "none" BY DEF NoGoal
    <2>5. \A s \in {"active", "pending"} : \A h \in Goal : h # g =>
              (p.goal[h].state = s <=> q.goal[h].state = s)
      BY <2>2, <2>4
    <2>6. In(p, "active") = In(q, "active") BY <1>2, <1>4, <2>1, <2>3, <2>5 DEF In
    <2>7. In(p, "pending") = In(q, "pending") \cup {g} BY <1>2, <1>4, <2>1, <2>3, <2>5 DEF In
    <2>8. Open(p) = Open(q) \cup {g} BY <2>6, <2>7 DEF Open
    <2>9. \A h \in Open(q) : p.goal[h] = q.goal[h] BY <2>1, <2>2 DEF Open, In
    <2>10. Kept(p) = Kept(u) BY <1>12 DEF Kept
    <2>11. Kept(u) \subseteq Kept(q) \cup {g} BY <1>12, <2>2, <2>4 DEF Kept
    <2> QED BY <2>3, <2>6, <2>7, <2>8, <2>9, <2>10, <2>11
  <1>15. StoreOK(p, g)
    <2>1. Ordered(p) BY <1>3, <1>12, <1>14 DEF Ordered
    <2>2. Kept(p) \subseteq 1..g BY <1>4, <1>14 DEF g
    <2>3. \A h \in Goal : p.goal[h].state = "none" => p.goal[h] = NoGoal
      BY <1>2, <1>3, <1>12 DEF QueueOK, StoreOK
    <2>4. \A h \in In(p, "pending") : p.goal[h].run = 0 /\ p.goal[h].steps < MaxSteps
      <3>1. \A h \in In(q, "pending") : p.goal[h] = q.goal[h] BY <1>14 DEF Open
      <3> QED BY <1>2, <1>14, <3>1, Constants DEF QueueOK, StoreOK
    <2> QED BY <1>4, <1>12, <2>1, <2>2, <2>3, <2>4 DEF StoreOK
  <1>16. DigestsOK(p, g)
    <2>1. Distinct(Range(t)) BY <1>8, <1>11 DEF Distinct
    <2>2. \A e \in Range(t) : e.id <= g
      <3>1. Range(ds) \subseteq Digest BY <1>7, RangeOfSeq
      <3>2. \A e \in Digest : e.id \in Int BY Constants DEF Digest, Goal
      <3>3. \A e \in Range(w) : e.id <= m BY <1>5, <1>6
      <3>4. \A e \in Range(ds) : e.id <= g BY <1>7, <3>1, <3>2, <3>3 DEF g
      <3> QED BY <1>11, <3>4
    <2>3. ASSUME NEW h \in Open(p) PROVE [key |-> p.goal[h].key, id |-> h] \in Range(t)
      <3> DEFINE e == [key |-> p.goal[h].key, id |-> h]
      <3>1. u.goal[e.id].state \in {"pending", "active"} BY <1>12 DEF Open, In
      <3>2. CASE h = g BY <1>2, <1>7, <1>11, <1>14, <3>1, <3>2
      <3>3. CASE h # g
        <4>1. h \in Open(q) /\ p.goal[h] = q.goal[h] BY <1>14, <3>3
        <4>2. e \in Range(q.digests) BY <4>1 DEF QueueOK, DigestsOK
        <4>3. q.goal[e.id].state # "none" BY <4>1 DEF Open, In
        <4>4. e.key # k BY <4>2, <4>3 DEF Resolves
        <4>5. e \in Range(ds) BY <1>6, <1>7, <4>2, <4>4
        <4> QED BY <1>11, <3>1, <4>5
      <3> QED BY <3>2, <3>3
    <2> QED BY <1>11, <1>12, <2>1, <2>2, <2>3 DEF DigestsOK
  <1>17. QueueOK(p, g)
    <2>1. Cardinality(Open(p)) <= MaxOpen
      <3>1. Open(p) = Open(u) BY <1>12 DEF Open, In
      <3> QED BY <1>3, <3>1
    <2>2. p.cancel \subseteq Open(p) BY <1>12, <1>14 DEF QueueOK
    <2>3. \A h, i \in In(p, "active") : h = i BY <1>14 DEF QueueOK
    <2>4. \A h \in In(p, "active") : p.goal[h].steps < MaxSteps
      <3>1. \A h \in In(q, "active") : p.goal[h] = q.goal[h] BY <1>14 DEF Open
      <3> QED BY <1>14, <3>1 DEF QueueOK
    <2> QED BY <1>12, <1>15, <1>16, <2>1, <2>2, <2>3, <2>4 DEF QueueOK
  <1>18. Evolves(q, p, m)
    <2> SUFFICES ASSUME NEW h \in Open(p), h # g
                 PROVE  /\ h \in Open(q) /\ Bank(q.goal[h]) <= Bank(p.goal[h])
                        /\ Lives(q, h) => Lives(p, h)
      BY <1>2, <1>4, <1>14 DEF Evolves
    <2>1. h \in Open(q) /\ p.goal[h] = q.goal[h] /\ h \in Goal BY <1>14 DEF Open, In
    <2>2. Bank(q.goal[h]) <= Bank(p.goal[h])
      <3>1. \A x \in Record : Bank(x) \in Int BY BankTypes, Constants
      <3>2. q.goal[h] \in Record BY <1>4, <2>1
      <3> QED BY <2>1, <3>1, <3>2
    <2>3. Lives(q, h) => Lives(p, h) BY <2>1 DEF Lives, Parked, In
    <2> QED BY <2>1, <2>2, <2>3
  <1> QED BY <1>13, <1>14, <1>17, <1>18 DEF g

-----------------------------------------------------------------------------
(* Time, and the file.                                                     *)

FileOK(f, m) == f \in [goal : [Goal -> Record], order : Seq(Goal)] /\ StoreOK(f, m)

\* Time changes the age of what waits and the run of what is active.
LEMMA AgedOK ==
    ASSUME NEW r \in Record, NEW t \in Nat
    PROVE  /\ Aged(r, t) \in Record /\ Aged(r, t).state = r.state /\ Aged(r, t).key = r.key
           /\ Aged(r, t).parked = r.parked /\ Aged(r, t).steps = r.steps
           /\ Aged(r, t).banked = r.banked
           /\ r.state \notin {"pending", "active"} => Aged(r, t) = r
           /\ r.state = "pending" => Aged(r, t).run = r.run /\ Bank(Aged(r, t)) = Bank(r)
           /\ r.state = "active" => Bank(Aged(r, t)) = Smaller(Bank(r) + t, Wall)
  <1>1. /\ r.age \in 0..Ttl /\ r.run \in 0..Wall /\ r.banked \in 0..Wall
        /\ Ttl \in Nat /\ Wall \in Nat
    BY Constants DEF Record
  <1>2. CASE r.state = "pending" /\ ~r.parked
    <2>1. Aged(r, t) = [r EXCEPT !.age = Smaller(@ + t, Ttl)] BY <1>2 DEF Aged
    <2>2. Smaller(r.age + t, Ttl) \in 0..Ttl BY <1>1 DEF Smaller
    <2> DEFINE a == Smaller(r.age + t, Ttl)
    <2>3. Aged(r, t) = [r EXCEPT !.age = a] BY <2>1
    <2>4. a \in 0..Ttl BY <2>2
    <2> HIDE DEF a
    <2>5. Aged(r, t) \in Record BY <2>3, <2>4 DEF Record
    <2>6. /\ Aged(r, t).state = r.state /\ Aged(r, t).key = r.key
          /\ Aged(r, t).parked = r.parked /\ Aged(r, t).steps = r.steps
          /\ Aged(r, t).banked = r.banked /\ Aged(r, t).run = r.run
      BY <2>3 DEF Record
    <2> QED BY <1>2, <2>5, <2>6 DEF Bank
  <1>3. CASE r.state = "active"
    <2> DEFINE a == Smaller(r.run + t, Wall)
    <2>1. Aged(r, t) = [r EXCEPT !.run = a] BY <1>3 DEF Aged
    <2>2. a \in 0..Wall BY <1>1 DEF Smaller
    <2>3. Smaller(r.banked + a, Wall) = Smaller(Smaller(r.banked + r.run, Wall) + t, Wall)
      BY <1>1 DEF Smaller
    <2> HIDE DEF a
    <2>4. Aged(r, t) \in Record BY <2>1, <2>2 DEF Record
    <2>5. /\ Aged(r, t).state = r.state /\ Aged(r, t).key = r.key
          /\ Aged(r, t).parked = r.parked /\ Aged(r, t).steps = r.steps
          /\ Aged(r, t).banked = r.banked /\ Aged(r, t).run = a
      BY <2>1 DEF Record
    <2>6. Bank(Aged(r, t)) = Smaller(Bank(r) + t, Wall) BY <2>3, <2>5 DEF Bank
    <2> QED BY <1>3, <2>4, <2>5, <2>6
  <1>4. CASE ~(r.state = "pending" /\ ~r.parked) /\ r.state # "active"
    <2>1. Aged(r, t) = r BY <1>4 DEF Aged
    <2> QED BY <1>4, <2>1
  <1> QED BY <1>2, <1>3, <1>4

\* Time takes no active time away, and no time gives none.
LEMMA AgedBank ==
    ASSUME NEW r \in Record, NEW t \in Nat
    PROVE  /\ Bank(r) <= Bank(Aged(r, t)) /\ (t = 0 => Bank(Aged(r, t)) = Bank(r))
           /\ r.state # "active" => Bank(Aged(r, t)) = Bank(r)
  <1>1. Bank(r) \in 0..Wall /\ Wall \in Nat BY BankTypes, Constants
  <1>2. CASE r.state = "active"
    <2>1. Bank(Aged(r, t)) = Smaller(Bank(r) + t, Wall) BY <1>2, AgedOK
    <2> QED BY <1>1, <1>2, <2>1 DEF Smaller
  <1>3. CASE r.state # "active"
    <2>1. r.state = "pending" \/ r.state \notin {"pending", "active"} BY <1>3
    <2>2. Bank(Aged(r, t)) = Bank(r) BY <2>1, AgedOK
    <2> QED BY <1>1, <1>3, <2>2
  <1> QED BY <1>2, <1>3

\* Time opens nothing and ends nothing.
LEMMA LaterOK ==
    ASSUME NEW m, NEW q, QueueOK(q, m), NEW t \in Nat
    PROVE  /\ QueueOK(Later(q, t), m)
           /\ \A g \in Goal : Later(q, t).goal[g] = Aged(q.goal[g], t)
           /\ Later(q, t).digests = q.digests /\ Later(q, t).cancel = q.cancel
  <1> DEFINE f == [g \in Goal |-> Aged(q.goal[g], t)]
             p == Later(q, t)
  <1>1. q \in Queues /\ q.goal \in [Goal -> Record] /\ Ordered(q) BY DEF QueueOK, StoreOK
  <1>2. p = [goal |-> f, order |-> q.order, digests |-> q.digests, cancel |-> q.cancel]
    <2>1. p = [q EXCEPT !.goal = f] BY DEF Later
    <2> HIDE DEF p, f
    <2> QED BY <1>1, <2>1 DEF Queues
  <1>3. \A g \in Goal : f[g] = Aged(q.goal[g], t) /\ q.goal[g] \in Record BY <1>1
  <1>4. f \in [Goal -> Record] BY <1>3, AgedOK
  <1> HIDE DEF p, f
  <1>5. p.order = q.order /\ q.order \in Seq(Goal) BY <1>1, <1>2 DEF Queues
  <1>6. Recast(q, p, f, q.cancel) BY <1>1, <1>2, <1>5 DEF Recast, Permutes, Ordered
  <1>7. \A g \in Goal : f[g].state = q.goal[g].state /\ f[g].key = q.goal[g].key
                        /\ f[g].steps = q.goal[g].steps
                        /\ (f[g].state = "pending" => f[g].run = q.goal[g].run)
    BY <1>3, AgedOK
  <1>8. \A g \in Goal : (f[g].state = "none" <=> q.goal[g].state = "none")
                        /\ (f[g].state = "none" => f[g] = NoGoal)
    <2>1. \A g \in Goal : f[g].state = "none" => f[g] = q.goal[g] BY <1>3, <1>7, AgedOK
    <2> QED BY <1>7, <2>1 DEF QueueOK, StoreOK
  <1>9. \A g \in Goal : f[g].state \in {"active", "pending"}
            => /\ q.goal[g].state \in {"active", "pending"} /\ f[g].key = q.goal[g].key
               /\ f[g].steps < MaxSteps /\ (f[g].state = "pending" => f[g].run = 0)
    BY <1>7 DEF QueueOK, StoreOK, In
  <1>10. \A g, h \in Goal : f[g].state = "active" /\ f[h].state = "active" => g = h
    BY <1>7 DEF QueueOK, In
  <1>11. q.cancel \subseteq {g \in Goal : f[g].state \in {"active", "pending"}}
    BY <1>7 DEF QueueOK, Open, In
  <1>12. QueueOK(p, m) BY <1>4, <1>6, <1>8, <1>9, <1>10, <1>11, RecastOK
  <1>13. p.goal = f /\ p.digests = q.digests /\ p.cancel = q.cancel BY <1>2
  <1> QED BY <1>3, <1>12, <1>13 DEF p

\* The file stays a file while the process is away or cannot write.
LEMMA LaterFile ==
    ASSUME NEW m, NEW d, FileOK(d, m), NEW t \in Nat
    PROVE  /\ FileOK(Later(d, t), m)
           /\ \A g \in Goal : Later(d, t).goal[g] = Aged(d.goal[g], t)
  <1> DEFINE f == [g \in Goal |-> Aged(d.goal[g], t)]
             p == Later(d, t)
  <1>1. d.goal \in [Goal -> Record] /\ Ordered(d) /\ d.order \in Seq(Goal) BY DEF FileOK, StoreOK
  <1>2. p = [goal |-> f, order |-> d.order] BY DEF Later, FileOK
  <1>3. \A g \in Goal : f[g] = Aged(d.goal[g], t) /\ d.goal[g] \in Record BY <1>1
  <1>4. f \in [Goal -> Record] BY <1>3, AgedOK
  <1> HIDE DEF p, f
  <1>5. p.goal = f /\ p.order = d.order BY <1>2
  <1>6. \A g \in Goal : /\ f[g].state = d.goal[g].state /\ f[g].steps = d.goal[g].steps
                        /\ f[g].state = "pending" => f[g].run = d.goal[g].run
                        /\ f[g].state = "none" => f[g] = d.goal[g]
    BY <1>3, AgedOK
  <1>7. Kept(p) = Kept(d) /\ In(p, "pending") = In(d, "pending") BY <1>5, <1>6 DEF Kept, In
  <1>8. Ordered(p) BY <1>1, <1>5, <1>7 DEF Ordered
  <1>9. \A g \in In(p, "pending") : p.goal[g].run = 0 /\ p.goal[g].steps < MaxSteps
    BY <1>5, <1>6 DEF FileOK, StoreOK, In
  <1>10. \A g \in Goal : p.goal[g].state = "none" => p.goal[g] = NoGoal
    BY <1>5, <1>6 DEF FileOK, StoreOK
  <1>11. StoreOK(p, m) BY <1>1, <1>4, <1>5, <1>7, <1>8, <1>9, <1>10 DEF FileOK, StoreOK
  <1>12. p \in [goal : [Goal -> Record], order : Seq(Goal)] BY <1>1, <1>2, <1>4
  <1> QED BY <1>3, <1>5, <1>11, <1>12 DEF FileOK, p

\* A queue is the same but for its times when it has read the clock.
LEMMA LaterSame ==
    ASSUME NEW m, NEW q, QueueOK(q, m), NEW t \in Nat
    PROVE  /\ Open(Later(q, t)) = Open(q) /\ \A s : In(Later(q, t), s) = In(q, s)
           /\ \A g : Lives(Later(q, t), g) <=> Lives(q, g)
           /\ \A k : Resolves(Later(q, t), k) = Resolves(q, k)
           /\ HasRoom(Later(q, t)) <=> HasRoom(q)
  <1> DEFINE p == Later(q, t)
  <1>1. /\ \A g \in Goal : p.goal[g] = Aged(q.goal[g], t) /\ q.goal[g] \in Record
        /\ p.digests = q.digests
    BY LaterOK DEF QueueOK, StoreOK
  <1>2. \A g \in Goal : p.goal[g].state = q.goal[g].state /\ p.goal[g].parked = q.goal[g].parked
    BY <1>1, AgedOK
  <1> HIDE DEF p
  <1>3. Open(p) = Open(q) /\ \A s : In(p, s) = In(q, s) BY <1>2 DEF Open, In
  <1>4. \A g : Lives(p, g) <=> Lives(q, g) BY <1>2 DEF Lives, Parked, In
  <1>5. Range(q.digests) \subseteq Digest BY RangeOfSeq DEF QueueOK, Queues
  <1>6. \A k : Resolves(p, k) = Resolves(q, k) BY <1>1, <1>2, <1>5 DEF Resolves, Digest
  <1> QED BY <1>3, <1>4, <1>6 DEF p, HasRoom

\* Reading the clock loses nothing.
LEMMA LaterEvolves ==
    ASSUME NEW m, NEW q, QueueOK(q, m), NEW t \in Nat
    PROVE  Evolves(q, Later(q, t), m)
  <1>1. /\ Open(Later(q, t)) = Open(q) /\ \A g : Lives(Later(q, t), g) <=> Lives(q, g)
        /\ \A g \in Goal : Later(q, t).goal[g] = Aged(q.goal[g], t) /\ q.goal[g] \in Record
    BY LaterSame, LaterOK DEF QueueOK, StoreOK
  <1>2. \A g \in Goal : Bank(q.goal[g]) <= Bank(Later(q, t).goal[g]) BY <1>1, AgedBank
  <1>3. Open(q) \subseteq Goal BY DEF Open, In
  <1> QED BY <1>1, <1>2, <1>3 DEF Evolves

\* Neither does reading it at once again.
LEMMA EvolvesNow ==
    ASSUME NEW m, NEW n, NEW q, NEW p, QueueOK(p, n), Evolves(q, p, m)
    PROVE  Evolves(q, Later(p, 0), m)
  <1>1. /\ Open(Later(p, 0)) = Open(p) /\ \A g : Lives(Later(p, 0), g) <=> Lives(p, g)
        /\ \A s : In(Later(p, 0), s) = In(p, s)
        /\ \A g \in Goal : Later(p, 0).goal[g] = Aged(p.goal[g], 0) /\ p.goal[g] \in Record
    BY LaterSame, LaterOK DEF QueueOK, StoreOK
  <1>2. \A g \in Goal : Bank(Later(p, 0).goal[g]) = Bank(p.goal[g]) BY <1>1, AgedBank
  <1>3. \A g \in Goal : Later(p, 0).goal[g].state = p.goal[g].state BY <1>1, AgedOK
  <1>4. Open(p) \subseteq Goal BY DEF Open, In
  <1> QED BY <1>1, <1>2, <1>3, <1>4 DEF Evolves

\* What is written of a queue is a file, and each goal has the state there that it
\* has in the queue.
LEMMA SnapshotOK ==
    ASSUME NEW m, NEW q, StoreOK(q, m)
    PROVE  /\ FileOK(Snapshot(q), m)
           /\ \A g \in Goal : /\ Snapshot(q).goal[g].state = q.goal[g].state
                              /\ q.goal[g].state # "active" => Snapshot(q).goal[g] = q.goal[g]
  <1> DEFINE r(g) == [NoGoal EXCEPT !.state = "active", !.key = q.goal[g].key]
             f == [g \in Goal |-> IF q.goal[g].state = "active" THEN r(g) ELSE q.goal[g]]
             p == Snapshot(q)
  <1>1. q.goal \in [Goal -> Record] /\ Ordered(q) /\ q.order \in Seq(Goal) BY DEF StoreOK
  <1>2. p = [goal |-> f, order |-> q.order] BY DEF Snapshot
  <1>3. \A g \in Goal : r(g) \in Record /\ r(g).state = "active"
    <2>1. \A g \in Goal : q.goal[g].key \in AnyKey BY <1>1 DEF Record
    <2>2. \A k \in AnyKey : [NoGoal EXCEPT !.state = "active", !.key = k] \in Record
      BY NoGoalTypes DEF Record
    <2>3. \A g \in Goal : r(g).state = "active" BY DEF NoGoal
    <2> QED BY <2>1, <2>2, <2>3
  <1> HIDE DEF r
  <1>4. f \in [Goal -> Record] BY <1>1, <1>3
  <1>5. \A g \in Goal : /\ f[g].state = q.goal[g].state
                        /\ q.goal[g].state # "active" => f[g] = q.goal[g]
    BY <1>3
  <1> HIDE DEF p, f
  <1>6. p.goal = f /\ p.order = q.order BY <1>2
  <1>7. Kept(p) = Kept(q) /\ In(p, "pending") = In(q, "pending") BY <1>5, <1>6 DEF Kept, In
  <1>8. Ordered(p) BY <1>1, <1>6, <1>7 DEF Ordered
  <1>9. \A g \in In(p, "pending") : p.goal[g].run = 0 /\ p.goal[g].steps < MaxSteps
    BY <1>5, <1>6 DEF StoreOK, In
  <1>10. \A g \in Goal : p.goal[g].state = "none" => p.goal[g] = NoGoal
    BY <1>5, <1>6 DEF StoreOK
  <1>11. StoreOK(p, m) BY <1>1, <1>4, <1>6, <1>7, <1>8, <1>9, <1>10 DEF StoreOK
  <1>12. p \in [goal : [Goal -> Record], order : Seq(Goal)] BY <1>1, <1>2, <1>4
  <1> QED BY <1>5, <1>6, <1>11, <1>12 DEF FileOK, p

\* The empty queue keeps the invariant.
LEMMA FreshOK ==
    ASSUME NEW m \in Nat
    PROVE  QueueOK(Fresh, m) /\ Open(Fresh) = {}
  <1> DEFINE q == Fresh
  <1>1. /\ q.goal = [g \in Goal |-> NoGoal] /\ q.order = <<>> /\ q.digests = <<>>
        /\ q.cancel = {} /\ q \in Queues
    BY NoGoalTypes DEF Fresh, Queues
  <1> HIDE DEF q
  <1>2. \A g \in Goal : q.goal[g].state = "none" /\ q.goal[g] = NoGoal BY <1>1 DEF NoGoal
  <1>3. Kept(q) = {} /\ (\A s : s # "none" => In(q, s) = {}) /\ Open(q) = {}
    BY <1>2 DEF Kept, In, Open
  <1>4. Range(q.order) = {} /\ IsInjective(q.order) /\ Len(q.order) = 0
    BY <1>1 DEF Range, IsInjective
  <1>5. Range(q.digests) = {} /\ IsInjective(q.digests) /\ Len(q.digests) = 0
    BY <1>1 DEF Range, IsInjective
  <1>6. Ordered(q) BY <1>3, <1>4, Constants DEF Ordered
  <1>7. StoreOK(q, m) BY <1>1, <1>2, <1>3, <1>6 DEF StoreOK, Queues
  <1>8. DigestsOK(q, m) BY <1>3, <1>5, Constants DEF DigestsOK, Distinct
  <1>9. Cardinality(Open(q)) <= MaxOpen BY <1>3, FS_EmptySet, Constants
  <1>10. QueueOK(q, m) BY <1>1, <1>3, <1>7, <1>8, <1>9 DEF QueueOK
  <1> QED BY <1>3, <1>10 DEF q

\* What restore takes makes a queue without an active goal, in which the goals wait
\* that waited in the file.
LEMMA RestoredOK ==
    ASSUME NEW m, NEW d, FileOK(d, m), Restorable(d)
    PROVE  /\ QueueOK(Restored(d), m) /\ In(Restored(d), "active") = {}
           /\ \A g \in In(Restored(d), "pending") :
                 g \in In(d, "pending") /\ Restored(d).goal[g] = d.goal[g]
  <1> DEFINE q == Restored(d)
             r(g) == [d.goal[g] EXCEPT !.state = RestoredState(@)]
             ds == RestoredDigests(d)
  <1>1. d.goal \in [Goal -> Record] /\ d.order \in Seq(Goal) /\ Ordered(d)
    BY DEF FileOK, StoreOK
  <1>2. /\ q.goal = [g \in Goal |-> r(g)] /\ q.order = d.order /\ q.digests = ds
        /\ q.cancel = {}
        /\ q = [goal |-> q.goal, order |-> d.order, digests |-> ds, cancel |-> {}]
    BY DEF Restored
  <1>3. \A g \in Goal : /\ r(g) \in Record /\ r(g).state = RestoredState(d.goal[g].state)
                        /\ d.goal[g].state # "active" => r(g) = d.goal[g]
                        /\ r(g).key = d.goal[g].key
    <2> SUFFICES ASSUME NEW g \in Goal
                 PROVE  /\ r(g) \in Record /\ r(g).state = RestoredState(d.goal[g].state)
                        /\ d.goal[g].state # "active" => r(g) = d.goal[g]
                        /\ r(g).key = d.goal[g].key
      OBVIOUS
    <2> DEFINE x == d.goal[g]
               s == RestoredState(x.state)
    <2>1. x \in Record BY <1>1
    <2>2. s \in {"none", "pending", "active", "ended"} BY <2>1 DEF RestoredState, Record
    <2>3. x.state # "active" => s = x.state BY DEF RestoredState
    <2>4. r(g) = [x EXCEPT !.state = s] OBVIOUS
    <2> HIDE DEF r, s, x
    <2>5. r(g) \in Record BY <2>1, <2>2, <2>4 DEF Record
    <2>6. r(g).state = s /\ r(g).key = x.key BY <2>1, <2>4 DEF Record
    <2>7. x.state # "active" => r(g) = x BY <2>1, <2>3, <2>4 DEF Record
    <2> QED BY <2>5, <2>6, <2>7 DEF x, s
  <1> HIDE DEF r
  <1>4. \A g \in Goal : q.goal[g] = r(g) BY <1>2
  <1>5. q.goal \in [Goal -> Record] BY <1>2, <1>3
  <1>6. ds \in Seq(Digest) /\ Len(ds) = Len(d.order) /\ DOMAIN ds = DOMAIN d.order
        /\ \A i \in DOMAIN d.order : ds[i] = [key |-> d.goal[d.order[i]].key,
                                              id |-> d.order[i]]
    <2>1. /\ Len(d.order) \in Nat /\ DOMAIN d.order = 1..Len(d.order)
          /\ \A i \in DOMAIN d.order : d.order[i] \in Goal
      BY <1>1, LenProperties, ElementOfSeq
    <2>2. ds = [i \in 1..Len(d.order) |-> [key |-> d.goal[d.order[i]].key, id |-> d.order[i]]]
      BY <2>1 DEF RestoredDigests
    <2>3. \A g \in Goal : d.goal[g].key \in AnyKey BY <1>1 DEF Record
    <2>4. \A i \in 1..Len(d.order) :
              [key |-> d.goal[d.order[i]].key, id |-> d.order[i]] \in Digest
      BY <2>1, <2>3 DEF Digest
    <2> HIDE DEF ds
    <2>5. ds \in [1..Len(d.order) -> Digest] BY <2>2, <2>4
    <2>6. ds \in Seq(Digest) /\ Len(ds) = Len(d.order)
      <3>1. ds \in Seq(Digest) BY <2>1, <2>5, SeqDef
      <3> QED BY <2>1, <2>5, <3>1, LenProperties
    <2> QED BY <2>1, <2>2, <2>6
  <1> HIDE DEF q, ds
  <1>7. q \in Queues BY <1>1, <1>2, <1>5, <1>6 DEF Queues
  <1>8. \A g \in Goal : /\ q.goal[g].state = "none" <=> d.goal[g].state = "none"
                        /\ q.goal[g].state = "pending" <=> d.goal[g].state = "pending"
                        /\ q.goal[g].state # "active"
    BY <1>3, <1>4 DEF RestoredState
  <1>9. Kept(q) = Kept(d) /\ In(q, "pending") = In(d, "pending") /\ In(q, "active") = {}
    BY <1>8 DEF Kept, In
  <1>10. Open(q) = In(d, "pending") BY <1>9 DEF Open
  <1>11. \A g \in Goal : d.goal[g].state # "active" => q.goal[g] = d.goal[g] BY <1>3, <1>4
  <1>12. StoreOK(q, m)
    <2>1. Ordered(q) BY <1>1, <1>2, <1>9 DEF Ordered
    <2>2. \A g \in In(q, "pending") : q.goal[g].run = 0 /\ q.goal[g].steps < MaxSteps
      BY <1>9, <1>11 DEF FileOK, StoreOK, In
    <2>3. \A g \in Goal : q.goal[g].state = "none" => q.goal[g] = NoGoal
      BY <1>8, <1>11 DEF FileOK, StoreOK
    <2> QED BY <1>1, <1>2, <1>5, <1>9, <2>1, <2>2, <2>3 DEF FileOK, StoreOK
  <1>13. DigestsOK(q, m)
    <2>1. Range(ds) = {[key |-> d.goal[g].key, id |-> g] : g \in Kept(d)}
      <3>1. Range(ds) = {[key |-> d.goal[d.order[i]].key, id |-> d.order[i]] : i \in DOMAIN d.order}
        BY <1>6 DEF Range
      <3>2. Kept(d) = {d.order[i] : i \in DOMAIN d.order} BY <1>1 DEF Ordered, Range
      <3> QED BY <3>1, <3>2
    <2>2. IsInjective(ds)
      <3> SUFFICES ASSUME NEW i \in DOMAIN ds, NEW j \in DOMAIN ds, ds[i] = ds[j]
                   PROVE  i = j
        BY DEF IsInjective
      <3>1. i \in DOMAIN d.order /\ j \in DOMAIN d.order BY <1>6
      <3>2. /\ ds[i] = [key |-> d.goal[d.order[i]].key, id |-> d.order[i]]
            /\ ds[j] = [key |-> d.goal[d.order[j]].key, id |-> d.order[j]]
        BY <1>6, <3>1
      <3> DEFINE k == d.goal[d.order[i]].key
                 l == d.goal[d.order[j]].key
                 x == d.order[i]
                 y == d.order[j]
      <3> HIDE DEF k, l, x, y
      <3>4. [key |-> k, id |-> x] = [key |-> l, id |-> y] BY <3>2 DEF k, l, x, y
      <3>5. [key |-> k, id |-> x].id = x /\ [key |-> l, id |-> y].id = y OBVIOUS
      <3>3. d.order[i] = d.order[j] BY <3>4, <3>5 DEF x, y
      <3> QED BY <1>1, <3>1, <3>3 DEF Ordered, IsInjective
    <2>3. Distinct(Range(ds))
      <3>1. \A g, h \in Kept(d) : d.goal[g].key = d.goal[h].key => g = h
        BY <1>1 DEF Restorable, Ordered
      <3> QED BY <2>1, <3>1 DEF Distinct
    <2>4. Len(ds) <= MaxRemembered BY <1>1, <1>6 DEF Ordered
    <2>5. \A e \in Range(ds) : e.id <= m
      <3>1. Kept(d) \subseteq 1..m BY DEF FileOK, StoreOK
      <3> QED BY <2>1, <3>1
    <2>6. \A g \in Open(q) : [key |-> q.goal[g].key, id |-> g] \in Range(ds)
      BY <1>10, <1>11, <2>1 DEF In, Kept
    <2> QED BY <1>2, <2>2, <2>3, <2>4, <2>5, <2>6 DEF DigestsOK
  <1>14. Cardinality(Open(q)) <= MaxOpen BY <1>10 DEF Restorable
  <1>15. QueueOK(q, m) BY <1>2, <1>7, <1>9, <1>12, <1>13, <1>14 DEF QueueOK
  <1>16. \A g \in In(q, "pending") : g \in In(d, "pending") /\ q.goal[g] = d.goal[g]
    BY <1>9, <1>11 DEF In
  <1> QED BY <1>9, <1>15, <1>16 DEF q

-----------------------------------------------------------------------------
(* The inductive invariant.                                                *)

\* The queue, the file, and what of the rest the queue depends on.
QueueInv ==
    /\ minted \in 0..MaxGoals /\ QueueOK(queue, minted) /\ FileOK(disk, minted)
    /\ unread \in 0..Horizon
    /\ arbiter \in [injected : Goal \cup {Nobody}, made : 0..MaxInjections]
    /\ serving \in Goal \cup {Nobody}
    /\ mode \in {"off", "assisted", "autonomous"}
    /\ mode = "off" => In(queue, "active") = {}
    /\ pc = "down" => Open(queue) = {}

\* What is over is neither open nor waits in the file.
OverInv ==
    /\ over \subseteq 1..minted /\ over \cap Open(queue) = {}
    /\ over \cap In(disk, "pending") = {} /\ serving \notin over

\* How long a goal has been active by now, the drive of this tick counted.
Owed(g) == Smaller(spent[g] + (IF g \in In(queue, "active") THEN drive ELSE 0), Wall)

\* Between the tick's reading of the clock and the planner's turn.
Early == pc \in {"remote", "driving", "act", "arbiter"}

\* A goal's record counts all its active time once the clock is read, and without
\* that all but the drive of this tick.  Before the loop takes a submission, and as
\* long as no goal is active, that is none.
SpentInv ==
    /\ spent \in [Goal -> 0..Wall] /\ drive \in 0..Wall
    /\ \A g \in Goal : g > minted => spent[g] = 0
    /\ \A g \in Open(queue) : Owed(g) <= Bank(TickClock.goal[g])
    /\ Early => \A g \in Open(queue) : spent[g] <= Bank(queue.goal[g])
    /\ pc \in {"idle", "ticking", "remote", "down"} => drive = 0
    /\ pc \in {"driving", "act"} /\ In(queue, "active") = {} => drive = 0
    /\ pc = "down" => \A g \in In(disk, "pending") : spent[g] <= disk.goal[g].banked
    /\ pc = "remote" => \A g \in In(queue, "active") : spent[g] < Wall

\* Goals with a step on its way through the channel.
Flying == {g \in Goal : taking = g \/ g \in Range(channel)}

\* An open one is waited for by its drive.
FlightInv ==
    /\ channel \in Seq(Goal \cup {Nobody}) /\ taking \in Goal \cup {Nobody}
    /\ step \in [Goal -> {"none", "waiting", "told"}]
    /\ \A i, j \in DOMAIN channel : channel[i] = channel[j] /\ channel[i] # Nobody => i = j
    /\ taking # Nobody => taking \notin Range(channel) /\ pc = "driving"
    /\ pc = "down" => channel = <<>>
    /\ \A g \in Flying :
          g <= minted /\ (g \in Open(queue) => Lives(queue, g) /\ step[g] = "waiting")

GoalsInv == QueueInv /\ OverInv /\ SpentInv /\ FlightInv

-----------------------------------------------------------------------------
(* What the steps do to the queue.                                         *)

\* A step that takes no time: open goals are new, or were open and lost nothing.
Moves ==
    /\ minted' \in 0..MaxGoals /\ minted <= minted' /\ QueueOK(queue', minted')
    /\ Evolves(queue, queue', minted)

\* What a disarmed loop may do.
StaysOff == mode' = "off" => In(queue', "active") = {}

\* Nothing is lost either of what the queue is when it has read the clock.
Reads == unread' \in 0..Horizon /\ Evolves(TickClock, TickClock', minted)

\* The queue when it has read the clock.
LEMMA TickClockOK ==
    ASSUME QueueInv
    PROVE  /\ QueueOK(TickClock, minted) /\ Evolves(queue, TickClock, minted)
           /\ Open(TickClock) = Open(queue) /\ \A s : In(TickClock, s) = In(queue, s)
           /\ \A k : Resolves(TickClock, k) = Resolves(queue, k)
           /\ HasRoom(TickClock) <=> HasRoom(queue)
           /\ TickClock.cancel = queue.cancel
           /\ TickClock.goal \in [Goal -> Record] /\ queue.goal \in [Goal -> Record]
  <1>1. QueueOK(queue, minted) /\ unread \in Nat BY Horizons DEF QueueInv
  <1>2. /\ QueueOK(TickClock, minted) /\ Evolves(queue, TickClock, minted)
        /\ TickClock.cancel = queue.cancel
    BY <1>1, LaterOK, LaterEvolves DEF TickClock
  <1>3. /\ Open(TickClock) = Open(queue) /\ \A s : In(TickClock, s) = In(queue, s)
        /\ \A k : Resolves(TickClock, k) = Resolves(queue, k)
        /\ HasRoom(TickClock) <=> HasRoom(queue)
    BY <1>1, LaterSame DEF TickClock
  <1> QED BY <1>1, <1>2, <1>3 DEF QueueOK, StoreOK

\* A step that reads the clock first.
LEMMA ReadMoves ==
    ASSUME QueueInv, minted' \in 0..MaxGoals, minted <= minted', QueueOK(queue', minted'),
           Evolves(TickClock, queue', minted), unread' = 0
    PROVE  Moves /\ Reads
  <1>1. /\ QueueOK(TickClock, minted) /\ Evolves(queue, TickClock, minted)
        /\ queue.goal \in [Goal -> Record] /\ minted \in Nat
    BY TickClockOK, Constants DEF QueueInv
  <1>2. queue'.goal \in [Goal -> Record] BY DEF QueueOK, StoreOK
  <1>3. Evolves(queue, queue', minted) BY <1>1, <1>2, EvolvesTwice
  <1>4. Evolves(TickClock, Later(queue', 0), minted) BY EvolvesNow
  <1>5. unread' \in 0..Horizon BY Horizons
  <1> QED BY <1>3, <1>4, <1>5 DEF Moves, Reads, TickClock

\* A step that leaves the queue as it is loses nothing.
LEMMA IdleMoves ==
    ASSUME QueueInv, UNCHANGED <<goals, minted>>
    PROVE  Moves /\ Reads
  <1>1. queue.goal \in [Goal -> Record] /\ TickClock.goal \in [Goal -> Record]
    BY TickClockOK
  <1>2. Evolves(queue, queue, minted) /\ Evolves(TickClock, TickClock, minted)
    BY <1>1, StaysEvolves
  <1>3. minted <= minted BY Constants DEF QueueInv
  <1>4. queue' = queue /\ unread' = unread /\ minted' = minted BY DEF goals
  <1>5. TickClock' = TickClock BY <1>4 DEF TickClock
  <1> QED BY <1>2, <1>3, <1>4, <1>5 DEF QueueInv, Moves, Reads

\* A step that reads the clock and closes goals.
LEMMA ClosingMoves ==
    ASSUME QueueInv, UNCHANGED minted, unread' = 0, QueueOK(queue', minted), NEW D,
           Closes(TickClock, queue', D)
    PROVE  Moves /\ Reads /\ In(queue', "active") \subseteq In(queue, "active")
  <1>1. TickClock.goal \in [Goal -> Record] /\ In(TickClock, "active") = In(queue, "active")
    BY TickClockOK
  <1>2. Evolves(TickClock, queue', minted) BY <1>1, ClosesEvolves
  <1>3. minted <= minted /\ minted' = minted /\ minted \in 0..MaxGoals
    BY Constants DEF QueueInv
  <1>4. In(queue', "active") \subseteq In(TickClock, "active") BY ClosesActive
  <1>5. Moves /\ Reads BY <1>2, <1>3, ReadMoves
  <1> QED BY <1>1, <1>4, <1>5

\* Cancels that are asked for change nothing else.
LEMMA MoreCancels ==
    ASSUME NEW m, NEW q, QueueOK(q, m), NEW C, C \subseteq Open(q)
    PROVE  /\ QueueOK([q EXCEPT !.cancel = @ \cup C], m)
           /\ [q EXCEPT !.cancel = @ \cup C].goal = q.goal
  <1> DEFINE p == [q EXCEPT !.cancel = @ \cup C]
  <1>1. Open(q) \subseteq Goal BY DEF Open, In
  <1>2. /\ p.goal = q.goal /\ p.order = q.order /\ p.digests = q.digests
        /\ p.cancel = q.cancel \cup C
        /\ p \in Queues
    BY <1>1 DEF QueueOK, Queues
  <1> HIDE DEF p
  <1>3. Open(p) = Open(q) /\ Kept(p) = Kept(q) /\ \A s : In(p, s) = In(q, s)
    BY <1>2 DEF Open, In, Kept
  <1>4. StoreOK(p, m) BY <1>2, <1>3 DEF QueueOK, StoreOK, Ordered
  <1>5. DigestsOK(p, m) BY <1>2, <1>3 DEF QueueOK, DigestsOK
  <1>6. QueueOK(p, m) BY <1>2, <1>3, <1>4, <1>5 DEF QueueOK
  <1> QED BY <1>2, <1>6 DEF p

\* A step that asks for cancels.
LEMMA CancelMoves ==
    ASSUME QueueInv, UNCHANGED <<minted, unread>>, NEW C, C \subseteq Open(queue),
           queue' = [queue EXCEPT !.cancel = @ \cup C]
    PROVE  Moves /\ Reads /\ In(queue', "active") = In(queue, "active")
  <1> DEFINE p == [queue EXCEPT !.cancel = @ \cup C]
  <1>1. QueueOK(queue, minted) /\ minted \in 0..MaxGoals /\ unread \in Nat
    BY Horizons DEF QueueInv
  <1>2. QueueOK(p, minted) /\ p.goal = queue.goal BY <1>1, MoreCancels
  <1>3. queue' = p OBVIOUS
  <1> HIDE DEF p
  <1>4. Open(p) = Open(queue) /\ In(p, "active") = In(queue, "active") BY <1>2 DEF Open, In
  <1>5. queue.goal \in [Goal -> Record] BY <1>1 DEF QueueOK, StoreOK
  <1>6. Evolves(queue, p, minted) BY <1>2, <1>4, <1>5, StaysEvolves
  <1>7. minted <= minted BY <1>1, Constants
  <1>8. Evolves(TickClock, Later(p, unread), minted)
    <2> DEFINE l == Later(p, unread)
    <2>1. /\ Open(l) = Open(p) /\ \A g \in Goal : l.goal[g] = Aged(p.goal[g], unread)
      BY <1>1, <1>2, LaterSame, LaterOK
    <2>2. \A g \in Goal : TickClock.goal[g] = Aged(queue.goal[g], unread)
      BY <1>1, LaterOK DEF TickClock
    <2>3. Open(TickClock) = Open(queue) /\ TickClock.goal \in [Goal -> Record]
      BY TickClockOK
    <2> HIDE DEF l
    <2>4. \A g \in Open(l) : g \in Open(TickClock) /\ l.goal[g] = TickClock.goal[g]
      BY <1>2, <1>4, <2>1, <2>2, <2>3 DEF Open, In
    <2>5. Evolves(TickClock, l, minted) BY <2>3, <2>4, StaysEvolves
    <2> QED BY <2>5 DEF l
  <1>9. TickClock' = Later(p, unread) BY <1>3 DEF TickClock
  <1>10. Moves BY <1>1, <1>2, <1>3, <1>6, <1>7 DEF Moves
  <1>11. Reads BY <1>8, <1>9 DEF Reads, QueueInv
  <1> QED BY <1>3, <1>4, <1>10, <1>11

\* A client's goal is a duplicate, refused or admitted.
LEMMA SubmitMoves ==
    ASSUME QueueInv, NEW k \in Key, Submit(k)
    PROVE  Moves /\ Reads /\ In(queue', "active") = In(queue, "active")
  <1> DEFINE u == TickClock
  <1>1. /\ QueueOK(u, minted) /\ minted \in 0..MaxGoals /\ minted \in Nat
        /\ In(u, "active") = In(queue, "active") /\ Resolves(u, k) = Resolves(queue, k)
        /\ HasRoom(u) <=> HasRoom(queue)
    BY TickClockOK, Constants DEF QueueInv
  <1>2. unread' = 0 /\ minted <= minted BY <1>1 DEF Submit
  <1> HIDE DEF u
  <1>3. ASSUME minted' \in 0..MaxGoals, minted <= minted', QueueOK(queue', minted'),
               Evolves(u, queue', minted), In(queue', "active") = In(u, "active")
        PROVE  Moves /\ Reads /\ In(queue', "active") = In(queue, "active")
    BY <1>1, <1>2, <1>3, ReadMoves DEF u
  <1>4. CASE Resolves(queue, k) # {}
    <2>1. queue' = AsDuplicate(u, k) /\ minted' = minted BY <1>4 DEF Submit, u
    <2>2. /\ QueueOK(AsDuplicate(u, k), minted) /\ Evolves(u, AsDuplicate(u, k), minted)
          /\ AsDuplicate(u, k).goal = u.goal
      BY <1>1, <1>4, DuplicateOK
    <2>3. In(queue', "active") = In(u, "active") BY <2>1, <2>2 DEF In
    <2> QED BY <1>1, <1>2, <1>3, <2>1, <2>2, <2>3
  <1>5. CASE Resolves(queue, k) = {} /\ ~HasRoom(queue)
    <2>1. queue' = AsRefused(u, k) /\ minted' = minted BY <1>5 DEF Submit, u
    <2>2. /\ QueueOK(AsRefused(u, k), minted) /\ Evolves(u, AsRefused(u, k), minted)
          /\ AsRefused(u, k).goal = u.goal
      BY <1>1, <1>5, RefusedOK
    <2>3. In(queue', "active") = In(u, "active") BY <2>1, <2>2 DEF In
    <2> QED BY <1>1, <1>2, <1>3, <2>1, <2>2, <2>3
  <1>6. CASE Resolves(queue, k) = {} /\ HasRoom(queue)
    <2>1. /\ minted < MaxGoals /\ minted' = minted + 1
          /\ queue' = Admitted(u, minted + 1, k, 0)
      BY <1>6 DEF Submit, u
    <2>2. minted + 1 \in Goal /\ minted + 1 \in 0..MaxGoals /\ minted <= minted + 1
      BY <1>1, <2>1, Constants DEF Goal
    <2>3. k \in AnyKey /\ 0 \in {i \in Int : i <= 0} BY DEF AnyKey
    <2>4. /\ QueueOK(Admitted(u, minted + 1, k, 0), minted + 1)
          /\ Evolves(u, Admitted(u, minted + 1, k, 0), minted)
          /\ In(Admitted(u, minted + 1, k, 0), "active") = In(u, "active")
      BY <1>1, <1>6, <2>2, <2>3, AdmittedOK
    <2> QED BY <1>3, <2>1, <2>2, <2>4
  <1> QED BY <1>4, <1>5, <1>6

\* The arbiter's goal is a duplicate or admitted, into u.
LEMMA InjectMoves ==
    ASSUME QueueInv, NEW u, QueueOK(u, minted), Evolves(queue, u, minted), HasRoom(u),
           NEW o \in 0..MaxGoals, NEW t \in Trigger, NEW n \in 1..MaxInjections,
           Inject(u, InjectionKey(o, t, n))
    PROVE  /\ Moves /\ In(queue', "active") = In(u, "active")
           /\ arbiter' \in [injected : Goal \cup {Nobody}, made : 0..MaxInjections]
  <1> DEFINE k == InjectionKey(o, t, n)
  <1>1. /\ QueueOK(queue, minted) /\ minted \in 0..MaxGoals /\ minted \in Nat
        /\ queue.goal \in [Goal -> Record]
    BY Constants DEF QueueInv, QueueOK, StoreOK
  <1>2. k \in AnyKey /\ k[3] = n BY DEF AnyKey, InjectionKey
  <1>3. n \in 0..MaxInjections BY Constants
  <1>4. Inject(u, k) OBVIOUS
  <1> HIDE DEF k
  <1>5. CASE Resolves(u, k) # {}
    <2> DEFINE d == CHOOSE e \in Resolves(u, k) : TRUE
               p == AsDuplicate(u, k)
    <2>1. /\ queue' = p /\ minted' = minted
          /\ arbiter' = [injected |-> d.id, made |-> n]
      BY <1>2, <1>4, <1>5 DEF Inject
    <2>2. d \in Range(u.digests) BY <1>5 DEF Resolves
    <2>3. u.digests \in Seq(Digest) BY DEF QueueOK, Queues
    <2>4. d.id \in Goal
      <3>1. d \in Digest BY <2>2, <2>3, RangeOfSeq
      <3> QED BY <3>1 DEF Digest
    <2>5. QueueOK(p, minted) /\ Evolves(u, p, minted) /\ p.goal = u.goal
      BY <1>5, DuplicateOK
    <2> HIDE DEF p, d
    <2>6. p.goal \in [Goal -> Record] BY <2>5 DEF QueueOK, StoreOK
    <2>7. Evolves(queue, p, minted) BY <1>1, <2>5, <2>6, EvolvesTwice
    <2>8. In(p, "active") = In(u, "active") BY <2>5 DEF In
    <2>9. minted <= minted BY <1>1
    <2> QED BY <1>1, <1>3, <2>1, <2>4, <2>5, <2>7, <2>8, <2>9 DEF Moves
  <1>6. CASE Resolves(u, k) = {}
    <2> DEFINE rank == NextFrontRank(u)
               p == Admitted(u, minted + 1, k, rank)
    <2>1. /\ minted < MaxGoals /\ minted' = minted + 1 /\ queue' = p
          /\ arbiter' = [injected |-> minted + 1, made |-> n]
      BY <1>2, <1>4, <1>6 DEF Inject
    <2>2. minted + 1 \in Goal /\ minted + 1 \in 0..MaxGoals /\ minted <= minted + 1
      BY <1>1, <2>1, Constants DEF Goal
    <2>3. rank \in {i \in Int : i <= 0}
      <3>1. u.goal \in [Goal -> Record] BY DEF QueueOK, StoreOK
      <3> QED BY <3>1, FrontRankTypes
    <2> HIDE DEF rank
    <2>4. /\ QueueOK(p, minted + 1) /\ Evolves(u, p, minted)
          /\ In(p, "active") = In(u, "active")
      BY <1>1, <1>2, <1>6, <2>2, <2>3, AdmittedOK
    <2> HIDE DEF p
    <2>5. p.goal \in [Goal -> Record] BY <2>4 DEF QueueOK, StoreOK
    <2>6. Evolves(queue, p, minted) BY <1>1, <2>4, <2>5, EvolvesTwice
    <2> QED BY <1>3, <2>1, <2>2, <2>4, <2>6 DEF Moves
  <1> QED BY <1>5, <1>6

\* The arbiter suspends what is active, where it may, and submits its own goal.
LEMMA PreemptMoves ==
    ASSUME QueueInv, NEW t \in Trigger, Preempt(t)
    PROVE  /\ Moves /\ unread' \in 0..Horizon /\ (Reads \/ In(queue', "active") = {})
           /\ In(queue', "active") \subseteq In(queue, "active") /\ drive' \in {drive, 0}
           /\ arbiter' \in [injected : Goal \cup {Nobody}, made : 0..MaxInjections]
  <1> DEFINE n == arbiter.made + 1
             Done == /\ Moves /\ (Reads \/ In(queue', "active") = {})
                     /\ In(queue', "active") \subseteq In(queue, "active")
                     /\ drive' \in {drive, 0}
                     /\ arbiter' \in [injected : Goal \cup {Nobody}, made : 0..MaxInjections]
  <1>1. /\ QueueOK(queue, minted) /\ queue.goal \in [Goal -> Record]
        /\ arbiter.made \in 0..MaxInjections /\ arbiter.made < MaxInjections
        /\ HasRoom(queue) /\ unread' = unread
    BY DEF QueueInv, QueueOK, StoreOK, Preempt
  <1>2. n \in 1..MaxInjections /\ n \in 0..MaxInjections BY <1>1, Constants
  <1> HIDE DEF n
  <1>3. ASSUME In(queue, "active") = {}, Inject(queue, InjectionKey(Nobody, t, n)),
               drive' = drive
        PROVE  Done
    <2>1. Evolves(queue, queue, minted) BY <1>1, StaysEvolves
    <2>2. Nobody \in 0..MaxGoals BY Constants DEF Nobody
    <2>3. /\ Moves /\ In(queue', "active") = In(queue, "active")
          /\ arbiter' \in [injected : Goal \cup {Nobody}, made : 0..MaxInjections]
      BY <1>1, <1>2, <1>3, <2>1, <2>2, InjectMoves
    <2> QED BY <1>3, <2>3
  <1>4. ASSUME NEW a \in In(queue, "active"), MaySuspend(queue, a), drive' = 0,
               Inject(Suspended(queue, a), InjectionKey(a, t, n))
        PROVE  Done
    <2> DEFINE u == Suspended(queue, a)
    <2>1. QueueOK(u, minted) /\ Evolves(queue, u, minted) /\ In(u, "active") = {}
      BY <1>1, <1>4, SuspendedOK
    <2>2. Open(u) = Open(queue) BY <1>1, <1>4, SuspendedOK
    <2>3. HasRoom(u) BY <1>1, <2>2 DEF HasRoom
    <2>4. a \in 0..MaxGoals BY Constants DEF In, Goal
    <2>5. Inject(u, InjectionKey(a, t, n)) BY <1>4
    <2> HIDE DEF u
    <2>6. /\ Moves /\ In(queue', "active") = In(u, "active")
          /\ arbiter' \in [injected : Goal \cup {Nobody}, made : 0..MaxInjections]
      BY <1>2, <2>1, <2>3, <2>4, <2>5, InjectMoves
    <2> QED BY <1>4, <2>1, <2>6
  <1>5. ASSUME arbiter' = [injected |-> Nobody, made |-> n],
               UNCHANGED <<queue, minted, drive>>
        PROVE  Done
    <2>1. Moves /\ Reads BY <1>1, <1>5, IdleMoves DEF goals
    <2>2. In(queue', "active") = In(queue, "active") BY <1>5
    <2> QED BY <1>2, <1>5, <2>1, <2>2
  <1>6. Done BY <1>3, <1>4, <1>5 DEF Preempt, n
  <1> HIDE DEF Done
  <1>7. unread' \in 0..Horizon BY <1>1 DEF QueueInv
  <1> QED BY <1>6, <1>7 DEF Done

\* The front of the backlog becomes active when nothing is.
LEMMA ServeMoves ==
    ASSUME QueueInv, ServeGoal
    PROVE  /\ Moves /\ Reads /\ serving' \in Open(queue') \cup {Nobody}
           /\ Early' /\ Early
           /\ In(queue, "active") = {} \/ In(queue', "active") = In(queue, "active")
  <1> DEFINE u == TickClock
  <1>1. /\ QueueOK(u, minted) /\ minted \in 0..MaxGoals /\ minted <= minted
        /\ minted' = minted /\ u.cancel = queue.cancel /\ \A s : In(u, s) = In(queue, s)
        /\ u.goal \in [Goal -> Record]
    BY TickClockOK, Constants DEF QueueInv, ServeGoal
  <1>2. Early' /\ Early BY DEF ServeGoal, Early
  <1>3. CASE In(queue, "active") # {}
    <2>1. Moves /\ Reads BY <1>1, <1>3, IdleMoves DEF ServeGoal
    <2>2. queue' = queue BY <1>3 DEF ServeGoal, goals
    <2> QED BY <1>2, <1>3, <2>1, <2>2 DEF ServeGoal, Open
  <1>4. CASE In(queue, "active") = {} /\ In(queue, "pending") = {}
    <2>1. Moves /\ Reads BY <1>1, <1>4, IdleMoves DEF ServeGoal
    <2> QED BY <1>2, <1>4, <2>1 DEF ServeGoal
  <1>5. CASE /\ In(queue, "active") = {} /\ In(queue, "pending") # {}
             /\ Startable(queue) = {}
    <2>1. serving' = Nobody /\ queue' = u /\ unread' = 0 BY <1>5 DEF ServeGoal
    <2>2. Evolves(u, u, minted) BY <1>1, StaysEvolves
    <2>3. Moves /\ Reads BY <1>1, <2>1, <2>2, ReadMoves
    <2> QED BY <1>2, <1>5, <2>1, <2>3
  <1>6. CASE In(queue, "active") = {} /\ Startable(queue) # {}
    <2>1. In(queue, "pending") # {} BY <1>6 DEF Startable
    <2>2. serving' = FrontGoal(queue) /\ queue' = Activated(u, serving') /\ unread' = 0
      BY <1>6, <2>1 DEF ServeGoal
    <2> DEFINE g == FrontGoal(queue)
    <2>3. g \in In(u, "pending")
      <3>1. queue.goal \in [Goal -> Record] BY TickClockOK
      <3>2. g \in Startable(queue) BY <1>6, <3>1, FrontGoalStarts
      <3> QED BY <1>1, <3>2 DEF Startable
    <2> HIDE DEF g
    <2> HIDE DEF u
    <2>4. /\ QueueOK(Activated(u, g), minted) /\ Evolves(u, Activated(u, g), minted)
          /\ g \in Open(Activated(u, g))
      BY <1>1, <1>6, <2>3, ActivatedOK
    <2>5. serving' = g /\ queue' = Activated(u, g) BY <2>2 DEF g
    <2>6. Moves /\ Reads BY <1>1, <2>2, <2>4, <2>5, ReadMoves DEF u
    <2> QED BY <1>2, <1>6, <2>4, <2>5, <2>6
  <1> QED BY <1>3, <1>4, <1>5, <1>6

\* The levers of a tick cancel and close goals, and grant no mode that they closed.
LEMMA BeginMoves ==
    ASSUME QueueInv, BeginTick
    PROVE  /\ Moves /\ Reads /\ StaysOff /\ mode' \in {"off", "assisted", "autonomous"}
           /\ In(queue', "active") \subseteq In(queue, "active")
  <1> DEFINE u == TickClock
  <1>1. /\ QueueOK(u, minted) /\ minted' = minted
        /\ mode \in {"off", "assisted", "autonomous"}
        /\ mode = "off" => In(queue, "active") = {}
    BY TickClockOK DEF QueueInv, BeginTick
  <1>2. CASE UNCHANGED goals /\ mode' \in {mode} \cup ({"assisted", "autonomous"} \ {mode})
    <2>1. Moves /\ Reads BY <1>1, <1>2, IdleMoves
    <2>2. queue' = queue BY <1>2 DEF goals
    <2> QED BY <1>1, <1>2, <2>1, <2>2 DEF StaysOff
  <1>3. CASE /\ UNCHANGED <<mode, unread>>
             /\ queue' = [queue EXCEPT !.cancel = @ \cup In(queue, "active")]
    <2>1. In(queue, "active") \subseteq Open(queue) BY DEF Open
    <2>2. Moves /\ Reads /\ In(queue', "active") = In(queue, "active")
      BY <1>1, <1>3, <2>1, CancelMoves
    <2> QED BY <1>1, <1>3, <2>2 DEF StaysOff
  <1>4. ASSUME mode' = "off", unread' = 0, queue' \in {Disarmed(u), Panicked(u)}
        PROVE  /\ Moves /\ Reads /\ StaysOff
               /\ In(queue', "active") \subseteq In(queue, "active")
    <2> HIDE DEF u
    <2>1. /\ QueueOK(queue', minted) /\ In(queue', "active") = {}
          /\ \E D \in SUBSET Open(u) : Closes(u, queue', D)
      BY <1>1, <1>4, DisarmedOK, PanickedOK
    <2>2. Moves /\ Reads BY <1>1, <1>4, <2>1, ClosingMoves DEF u
    <2> QED BY <2>1, <2>2 DEF StaysOff
  <1> QED BY <1>2, <1>3, <1>4 DEF BeginTick

\* After tick no active goal has spent its wall time.
LEMMA TickMoves ==
    ASSUME QueueInv, SpentInv, TickGoals
    PROVE  /\ Moves /\ Reads /\ In(queue', "active") \subseteq In(queue, "active")
           /\ \A g \in In(queue', "active") : spent[g] < Wall
  <1> DEFINE u == TickClock
  <1>1. /\ QueueOK(u, minted) /\ minted' = minted /\ u.goal \in [Goal -> Record]
        /\ unread' = 0 /\ u.cancel = queue.cancel /\ Open(u) = Open(queue)
        /\ In(u, "active") = In(queue, "active")
    BY TickClockOK DEF QueueInv, TickGoals
  <1>2. PICK w \in Withdrawals(u) : queue' = Ticked(u, w)
    <2>1. Withdrawals(u) = Withdrawals(queue) BY <1>1 DEF Withdrawals
    <2> QED BY <2>1 DEF TickGoals
  <1>3. \A g \in Open(u) : spent[g] <= Bank(u.goal[g])
    <2> SUFFICES ASSUME NEW g \in Open(queue) PROVE spent[g] <= Bank(u.goal[g]) BY <1>1
    <2>1. g \in Goal BY DEF Open, In
    <2>2. Bank(u.goal[g]) \in 0..Wall BY <1>1, <2>1, BankTypes
    <2>3. Owed(g) <= Bank(u.goal[g]) BY DEF SpentInv
    <2>4. spent[g] <= Owed(g) /\ Owed(g) \in 0..Wall /\ spent[g] \in 0..Wall
      <3>1. spent[g] \in 0..Wall /\ drive \in 0..Wall BY <2>1 DEF SpentInv
      <3> QED BY <3>1, Constants DEF Owed, Smaller
    <2> QED BY <2>2, <2>3, <2>4, Constants
  <1> HIDE DEF u
  <1>4. QueueOK(queue', minted) BY <1>1, <1>2, TickedOK
  <1>5. PICK D \in SUBSET Open(u) : Overdue(u) \subseteq D /\ Closes(u, queue', D)
    BY <1>1, <1>2, TickedOK
  <1>6. Moves /\ Reads /\ In(queue', "active") \subseteq In(queue, "active")
    BY <1>1, <1>4, <1>5, ClosingMoves DEF u
  <1>7. ASSUME NEW g \in In(queue', "active") PROVE spent[g] < Wall
    <2>1. g \in In(u, "active") /\ g \in Goal BY <1>1, <1>6 DEF In
    <2>2. g \notin D BY <1>5, ClosesActive
    <2>3. g \notin Overdue(u) BY <1>5, <2>2
    <2>4. ~(u.goal[g].banked + u.goal[g].run >= Wall) BY <2>1, <2>3 DEF Overdue
    <2>5. u.goal[g].banked \in 0..Wall /\ u.goal[g].run \in 0..Wall
      BY <1>1, <2>1 DEF Record
    <2>6. Bank(u.goal[g]) < Wall BY <2>4, <2>5, Constants DEF Bank, Smaller
    <2>7. spent[g] <= Bank(u.goal[g]) /\ spent[g] \in 0..Wall
      BY <1>3, <2>1 DEF SpentInv, Open
    <2>8. Bank(u.goal[g]) \in 0..Wall BY <1>1, <2>1, BankTypes
    <2> QED BY <2>6, <2>7, <2>8, Constants
  <1> QED BY <1>6, <1>7

\* The wrapper ends the goal that is served.
LEMMA FinishMoves ==
    ASSUME QueueInv, FinishGoal
    PROVE  Moves /\ Reads /\ In(queue', "active") \subseteq In(queue, "active")
  <1> DEFINE u == TickClock
  <1>1. QueueOK(u, minted) /\ minted' = minted /\ unread' = 0 /\ Open(u) = Open(queue)
    BY TickClockOK DEF FinishGoal, Proposing
  <1>2. serving \in Open(queue)
    BY DEF QueueInv, FinishGoal, MayStep, Open, In, Nobody
  <1>3. queue' = Terminate(u, serving) BY DEF FinishGoal
  <1> HIDE DEF u
  <1>4. QueueOK(queue', minted) /\ Closes(u, queue', {serving})
    BY <1>1, <1>2, <1>3, TerminateOK
  <1> QED BY <1>1, <1>4, ClosingMoves DEF u

\* The engine's result, when the loop survives it.
LEMMA SettleMoves ==
    ASSUME QueueInv, SettleGoalStep, pc' = "flush"
    PROVE  /\ Moves /\ Reads /\ StaysOff /\ UNCHANGED <<mode, serving, arbiter, disk, history>>
           /\ In(queue', "active") \subseteq In(queue, "active")
  <1> DEFINE u == TickClock
  <1>1. /\ QueueOK(u, minted) /\ minted' = minted /\ Open(u) = Open(queue)
        /\ In(u, "active") = In(queue, "active")
    BY TickClockOK DEF SettleGoalStep
  <1>2. ~ShutDown BY DEF ShutDown, Die
  <1>3. UNCHANGED <<mode, serving, arbiter, disk, history>> BY <1>2 DEF SettleGoalStep
  <1>4. ASSUME Moves, Reads, In(queue', "active") \subseteq In(queue, "active")
        PROVE  /\ Moves /\ Reads /\ StaysOff
               /\ UNCHANGED <<mode, serving, arbiter, disk, history>>
               /\ In(queue', "active") \subseteq In(queue, "active")
    BY <1>3, <1>4 DEF StaysOff, QueueInv
  <1>5. CASE UNCHANGED goals
    <2>1. Moves /\ Reads BY <1>1, <1>5, IdleMoves
    <2>2. queue' = queue BY <1>5 DEF goals
    <2> QED BY <1>4, <2>1, <2>2
  <1>6. CASE serving \in Open(queue) /\ queue' = Terminate(u, serving) /\ unread' = 0
    <2> HIDE DEF u
    <2>1. QueueOK(queue', minted) /\ Closes(u, queue', {serving})
      BY <1>1, <1>6, TerminateOK
    <2>2. Moves /\ Reads /\ In(queue', "active") \subseteq In(queue, "active")
      BY <1>1, <1>6, <2>1, ClosingMoves DEF u
    <2> QED BY <1>4, <2>2
  <1>7. CASE serving \in In(queue, "active") /\ queue' = Stepped(u, serving) /\ unread' = 0
    <2> HIDE DEF u
    <2>1. /\ QueueOK(queue', minted) /\ Evolves(u, queue', minted)
          /\ In(queue', "active") \subseteq In(u, "active")
      BY <1>1, <1>7, SteppedOK
    <2>2. minted \in 0..MaxGoals /\ minted <= minted BY Constants DEF QueueInv
    <2>3. Moves /\ Reads BY <1>1, <1>7, <2>1, <2>2, ReadMoves DEF u
    <2> QED BY <1>1, <1>4, <2>1, <2>3
  <1> QED BY <1>2, <1>5, <1>6, <1>7 DEF SettleGoalStep, Open

-----------------------------------------------------------------------------
(* The steps that take no time, and what they keep.                        *)

\* The tick thread's, but for the flush and what ends a process, and the serving
\* thread's.
Ticking ==
    \/ BeginTick \/ TickGoals \/ PassRemote \/ TakeRemote \/ SettleRemote
    \/ Decline \/ AskPlanner \/ ServeGoal \/ StandDown \/ (\E t \in Trigger : Preempt(t))
    \/ ProposeNothing \/ SubmitStep \/ FinishGoal \/ ProposeRequest
    \/ SettleGoalStep /\ pc' = "flush"

Quick == Ticking \/ ServingThread

\* What they have in common.  The arbiter's preemption alone may lose active time,
\* and then leaves nothing active.
Outcome ==
    /\ Moves /\ StaysOff /\ mode' \in {"off", "assisted", "autonomous"}
    /\ arbiter' \in [injected : Goal \cup {Nobody}, made : 0..MaxInjections]
    /\ serving' \in {serving, Nobody} \cup Open(queue')
    /\ UNCHANGED <<disk, spent, over>> /\ pc' # "down"
    /\ unread' \in 0..Horizon /\ drive' \in {drive, 0}
    /\ Reads \/ (Early /\ In(queue', "active") = {})
    /\ In(queue', "active") \subseteq In(queue, "active") \/ drive' = 0
    /\ Early' => Early \/ unread' = 0
    /\ pc' \in {"idle", "ticking", "remote"} => drive' = 0
    /\ pc' \in {"driving", "act"} /\ In(queue', "active") = {} => drive' = 0
    /\ pc' = "remote" => \A g \in In(queue', "active") : spent[g] < Wall

\* Every quick step has that outcome.
LEMMA QuickOutcome ==
    ASSUME QueueInv, SpentInv, Quick
    PROVE  Outcome
  <1>1. /\ mode \in {"off", "assisted", "autonomous"}
        /\ arbiter \in [injected : Goal \cup {Nobody}, made : 0..MaxInjections]
        /\ mode = "off" => In(queue, "active") = {}
        /\ pc = "remote" => \A g \in In(queue, "active") : spent[g] < Wall
        /\ pc \in {"idle", "ticking", "remote"} => drive = 0
        /\ pc \in {"driving", "act"} /\ In(queue, "active") = {} => drive = 0
    BY DEF QueueInv, SpentInv
  <1> DEFINE Others == /\ mode' = mode /\ arbiter' = arbiter /\ serving' = serving
                       /\ UNCHANGED <<disk, history>>
  <1>2. UNCHANGED history => UNCHANGED <<spent, drive, over>> BY DEF history
  <1>3. ASSUME Moves, Reads, In(queue', "active") \subseteq In(queue, "active"), Others,
               pc' = "flush"
        PROVE  Outcome
    <2>1. ~Early' BY <1>3 DEF Early
    <2> QED BY <1>1, <1>2, <1>3, <2>1 DEF Outcome, StaysOff, Reads
  <1>4. ASSUME Moves, Reads, In(queue', "active") = In(queue, "active"), Others, pc # "down",
               pc' = pc
        PROVE  Outcome
    <2>1. Early' => Early BY <1>4 DEF Early
    <2> QED BY <1>1, <1>2, <1>4, <2>1 DEF Outcome, StaysOff, Reads
  <1>5. ASSUME UNCHANGED <<goals, minted>>, Others, Early' => Early,
               pc' \notin {"down", "idle", "ticking", "remote"},
               pc' \in {"driving", "act"} => pc \in {"remote", "driving", "act"}
        PROVE  Outcome
    <2>1. Moves /\ Reads BY <1>5, IdleMoves
    <2>2. In(queue', "active") = In(queue, "active") BY <1>5 DEF goals
    <2> QED BY <1>1, <1>2, <1>5, <2>1, <2>2 DEF Outcome, StaysOff, Reads
  <1>6. ASSUME NEW k \in Key, Submit(k) PROVE Outcome
    <2>1. Moves /\ Reads /\ In(queue', "active") = In(queue, "active") BY <1>6, SubmitMoves
    <2> QED BY <1>4, <1>6, <2>1 DEF Submit, Up
  <1>7. ASSUME NEW g \in Goal, RequestCancel(g) PROVE Outcome
    <2>1. Moves /\ Reads /\ In(queue', "active") = In(queue, "active")
      BY <1>7, CancelMoves DEF RequestCancel
    <2> QED BY <1>4, <1>7, <2>1 DEF RequestCancel, Up
  <1>8. CASE SubmitAction
    <2>1. UNCHANGED <<goals, minted>> BY <1>8 DEF SubmitAction
    <2>2. Moves /\ Reads /\ queue' = queue BY <2>1, IdleMoves DEF goals
    <2> QED BY <1>4, <1>8, <2>2 DEF SubmitAction, Up
  <1>9. CASE BeginTick
    <2>1. /\ Moves /\ Reads /\ StaysOff /\ mode' \in {"off", "assisted", "autonomous"}
          /\ In(queue', "active") \subseteq In(queue, "active")
      BY <1>9, BeginMoves
    <2>2. /\ pc = "idle" /\ pc' = "ticking" /\ serving' = serving /\ arbiter' = arbiter
          /\ UNCHANGED <<disk, history>>
      BY <1>9 DEF BeginTick
    <2>3. ~Early' BY <2>2 DEF Early
    <2> QED BY <1>1, <1>2, <2>1, <2>2, <2>3 DEF Outcome, Reads
  <1>10. CASE TickGoals
    <2>1. /\ Moves /\ Reads /\ In(queue', "active") \subseteq In(queue, "active")
          /\ \A g \in In(queue', "active") : spent[g] < Wall
      BY <1>10, TickMoves
    <2>2. /\ pc = "ticking" /\ pc' = "remote" /\ Others /\ unread' = 0
      BY <1>10 DEF TickGoals
    <2> QED BY <1>1, <1>2, <2>1, <2>2 DEF Outcome, StaysOff, Reads
  <1>11. CASE PassRemote BY <1>5, <1>11 DEF PassRemote, Early
  <1>12. CASE TakeRemote BY <1>5, <1>12 DEF TakeRemote, Early
  <1>13. CASE SettleRemote BY <1>5, <1>13 DEF SettleRemote, Early
  <1>14. CASE Decline BY <1>5, <1>14 DEF Decline, Early
  <1>15. CASE AskPlanner BY <1>5, <1>15 DEF AskPlanner, Early
  <1>16. CASE ServeGoal
    <2>1. /\ Moves /\ Reads /\ serving' \in Open(queue') \cup {Nobody} /\ Early' /\ Early
          /\ In(queue, "active") = {} \/ In(queue', "active") = In(queue, "active")
      BY <1>16, ServeMoves
    <2>2. /\ mode' = mode /\ mode = "autonomous" /\ arbiter' = arbiter
          /\ pc = "act" /\ pc' = "arbiter" /\ UNCHANGED <<disk, history>>
      BY <1>16 DEF ServeGoal
    <2>3. In(queue', "active") \subseteq In(queue, "active") \/ drive' = 0
      BY <1>1, <1>2, <2>1, <2>2
    <2> QED BY <1>1, <1>2, <2>1, <2>2, <2>3 DEF Outcome, StaysOff, Reads
  <1>17. CASE StandDown
    <2>1. UNCHANGED <<goals, minted>> BY <1>17 DEF StandDown
    <2>2. Moves /\ Reads /\ queue' = queue BY <2>1, IdleMoves DEF goals
    <2>3. arbiter' \in [injected : Goal \cup {Nobody}, made : 0..MaxInjections]
      BY <1>1, <1>17 DEF StandDown
    <2>4. /\ mode' = mode /\ serving' = serving /\ UNCHANGED <<disk, history>>
          /\ pc' = "propose"
      BY <1>17 DEF StandDown
    <2>5. ~Early' BY <2>4 DEF Early
    <2> QED BY <1>1, <1>2, <2>2, <2>3, <2>4, <2>5 DEF Outcome, StaysOff, Reads
  <1>18. ASSUME NEW t \in Trigger, Preempt(t) PROVE Outcome
    <2>1. /\ Moves /\ unread' \in 0..Horizon /\ (Reads \/ In(queue', "active") = {})
          /\ In(queue', "active") \subseteq In(queue, "active") /\ drive' \in {drive, 0}
          /\ arbiter' \in [injected : Goal \cup {Nobody}, made : 0..MaxInjections]
      BY <1>18, PreemptMoves
    <2>2. /\ mode' = mode /\ serving' = serving /\ UNCHANGED <<disk, spent, over>>
          /\ pc = "arbiter" /\ pc' = "propose"
      BY <1>18 DEF Preempt
    <2>3. Early /\ ~Early' BY <2>2 DEF Early
    <2> QED BY <1>1, <2>1, <2>2, <2>3 DEF Outcome, StaysOff
  <1>19. CASE ProposeNothing BY <1>5, <1>19 DEF ProposeNothing, Proposing, Early
  <1>20. CASE SubmitStep BY <1>5, <1>20 DEF SubmitStep, Proposing, Early
  <1>21. CASE FinishGoal
    <2>1. Moves /\ Reads /\ In(queue', "active") \subseteq In(queue, "active")
      BY <1>21, FinishMoves
    <2> QED BY <1>3, <1>21, <2>1 DEF FinishGoal, Proposing
  <1>22. CASE ProposeRequest BY <1>5, <1>22 DEF ProposeRequest, Proposing, Early
  <1>23. CASE SettleGoalStep /\ pc' = "flush"
    <2>1. /\ Moves /\ Reads /\ StaysOff /\ UNCHANGED <<mode, serving, arbiter, disk, history>>
          /\ In(queue', "active") \subseteq In(queue, "active")
      BY <1>23, SettleMoves
    <2> QED BY <1>3, <1>23, <2>1
  <1> QED BY <1>6, <1>7, <1>8, <1>9, <1>10, <1>11, <1>12, <1>13, <1>14, <1>15, <1>16,
             <1>17, <1>18, <1>19, <1>20, <1>21, <1>22, <1>23
          DEF Quick, Ticking, ServingThread

\* A file stays a file when more ids are given out.
LEMMA FileKept ==
    ASSUME NEW d, NEW m \in Nat, NEW n \in Nat, m <= n, FileOK(d, m)
    PROVE  FileOK(d, n)
  <1>1. 1..m \subseteq 1..n OBVIOUS
  <1> QED BY <1>1 DEF FileOK, StoreOK

\* That outcome keeps the queue, the file, what is over and what is spent.
LEMMA QuickKeeps ==
    ASSUME QueueInv, OverInv, SpentInv, Quick
    PROVE  QueueInv' /\ OverInv' /\ SpentInv'
  <1>1. Outcome BY QuickOutcome
  <1>2. /\ minted \in Nat /\ minted' \in Nat /\ minted <= minted' /\ minted' \in 0..MaxGoals
        /\ QueueOK(queue', minted') /\ Evolves(queue, queue', minted)
        /\ disk' = disk /\ spent' = spent /\ over' = over /\ pc' # "down"
    BY <1>1, Constants DEF QueueInv, Outcome, Moves
  <1>3. /\ queue.goal \in [Goal -> Record] /\ queue'.goal \in [Goal -> Record]
        /\ Open(queue') \subseteq Goal /\ Open(queue') \subseteq 1..minted'
    BY <1>2 DEF QueueInv, QueueOK, StoreOK, Open, In, Kept
  <1>4. \A g \in Goal : g \in Nat BY Constants DEF Goal
  <1>5. serving' \in {serving, Nobody} \cup Open(queue') BY <1>1 DEF Outcome
  <1>6. QueueInv'
    <2>1. FileOK(disk', minted') BY <1>2, FileKept DEF QueueInv
    <2>2. serving' \in Goal \cup {Nobody} BY <1>3, <1>5 DEF QueueInv
    <2> QED BY <1>1, <1>2, <2>1, <2>2 DEF QueueInv, Outcome, StaysOff
  <1>7. OverInv'
    <2>1. over \subseteq 1..minted' BY <1>2 DEF OverInv
    <2>2. \A g \in Open(queue') : g \notin over
      <3> SUFFICES ASSUME NEW g \in Open(queue') PROVE g \notin over OBVIOUS
      <3>1. CASE g > minted
        <4>1. g \in Nat BY <1>3, <1>4
        <4> QED BY <1>2, <3>1, <4>1 DEF OverInv
      <3>2. CASE g \in Open(queue) BY <3>2 DEF OverInv
      <3> QED BY <1>2, <3>1, <3>2 DEF Evolves
    <2>3. serving' \notin over
      <3>1. Nobody \notin over BY <1>2 DEF OverInv, Nobody
      <3> QED BY <1>5, <2>2, <3>1 DEF OverInv
    <2> QED BY <1>2, <2>1, <2>2, <2>3 DEF OverInv
  <1>8. SpentInv'
    <2>1. /\ drive \in 0..Wall /\ drive' \in 0..Wall /\ drive' \in {drive, 0}
          /\ \A g \in Goal : spent[g] \in 0..Wall
      BY <1>1, Constants DEF SpentInv, Outcome
    <2>2. \A g \in Goal : g > minted' => spent[g] = 0 BY <1>2, <1>4 DEF SpentInv
    <2>3. /\ unread' \in Nat /\ TickClock.goal \in [Goal -> Record]
          /\ TickClock'.goal \in [Goal -> Record]
          /\ \A g \in Goal : TickClock'.goal[g] = Aged(queue'.goal[g], unread')
          /\ Open(TickClock') = Open(queue')
      <3>1. unread' \in Nat BY <1>1, Horizons DEF Outcome
      <3>2. /\ QueueOK(Later(queue', unread'), minted')
            /\ Open(Later(queue', unread')) = Open(queue')
            /\ \A g \in Goal : Later(queue', unread').goal[g] = Aged(queue'.goal[g], unread')
        BY <1>2, <3>1, LaterOK, LaterSame
      <3> QED BY <3>1, <3>2, TickClockOK DEF TickClock, QueueOK, StoreOK
    <2>4. ASSUME NEW g \in Open(queue')
          PROVE  /\ g \in Goal /\ spent[g] \in 0..Wall /\ spent[g] <= Owed(g)'
                 /\ Owed(g)' <= Bank(TickClock'.goal[g])
                 /\ Bank(TickClock'.goal[g]) \in 0..Wall
                 /\ Bank(queue'.goal[g]) \in 0..Wall
                 /\ Owed(g)' \in 0..Wall
      <3>1. g \in Goal /\ spent[g] \in 0..Wall BY <1>3, <2>1
      <3>2. /\ Bank(queue'.goal[g]) \in 0..Wall /\ Bank(queue.goal[g]) \in 0..Wall
            /\ Bank(TickClock'.goal[g]) \in 0..Wall /\ Bank(TickClock.goal[g]) \in 0..Wall
        BY <1>3, <2>3, <3>1, BankTypes
      <3>3. Owed(g)' = Smaller(spent[g] + (IF g \in In(queue', "active") THEN drive' ELSE 0),
                               Wall)
        BY <1>2 DEF Owed
      <3>4. /\ Owed(g)' \in 0..Wall /\ spent[g] <= Owed(g)'
            /\ g \notin In(queue', "active") => Owed(g)' = spent[g]
        BY <2>1, <3>1, <3>3, Constants DEF Smaller
      <3>5. CASE g > minted
        <4>1. g \notin Open(queue)
          <5>1. Open(queue) \subseteq 1..minted
            BY DEF QueueInv, QueueOK, StoreOK, Kept, Open, In
          <5> QED BY <1>2, <1>4, <3>1, <3>5, <5>1
        <4>2. queue'.goal[g].state = "pending" BY <1>2, <4>1 DEF Evolves
        <4>3. g \notin In(queue', "active") BY <4>2 DEF In
        <4>4. spent[g] = 0 BY <3>1, <3>5 DEF SpentInv
        <4> QED BY <3>1, <3>2, <3>4, <4>3, <4>4
      <3>6. CASE ~(g > minted)
        <4>1. g \in Open(queue) /\ Bank(queue.goal[g]) <= Bank(queue'.goal[g])
          BY <1>2, <3>6 DEF Evolves
        <4>2. Owed(g) <= Bank(TickClock.goal[g]) BY <4>1 DEF SpentInv
        <4>3. CASE Reads
          <5>1. Bank(TickClock.goal[g]) <= Bank(TickClock'.goal[g])
            BY <2>3, <3>6, <4>3 DEF Reads, Evolves
          <5>2. Owed(g)' <= Owed(g) /\ Owed(g) \in 0..Wall
            <6>1. \/ g \in In(queue', "active") /\ g \in In(queue, "active")
                  \/ Owed(g)' = spent[g]
              BY <1>1, <2>1, <3>1, <3>3, <3>4, Constants DEF Outcome, Smaller
            <6> QED BY <2>1, <3>1, <3>3, <6>1, Constants DEF Owed, Smaller
          <5> QED BY <3>1, <3>2, <3>4, <4>2, <5>1, <5>2, Constants
        <4>4. CASE Early /\ In(queue', "active") = {}
          <5>1. spent[g] <= Bank(queue.goal[g]) BY <4>1, <4>4 DEF SpentInv
          <5>2. Bank(queue'.goal[g]) <= Bank(TickClock'.goal[g])
            <6>1. queue'.goal[g] \in Record BY <1>3, <3>1
            <6> QED BY <2>3, <3>1, <6>1, AgedBank
          <5> QED BY <3>1, <3>2, <3>4, <4>1, <4>4, <5>1, <5>2, Constants
        <4> QED BY <1>1, <4>3, <4>4 DEF Outcome
      <3> QED BY <3>1, <3>2, <3>4, <3>5, <3>6
    <2>5. ASSUME Early', NEW g \in Open(queue') PROVE spent[g] <= Bank(queue'.goal[g])
      <3>1. CASE unread' = 0
        <4>1. queue'.goal[g] \in Record BY <1>3, <2>4
        <4>2. Bank(TickClock'.goal[g]) = Bank(queue'.goal[g])
          BY <2>3, <2>4, <3>1, <4>1, AgedBank
        <4> QED BY <2>4, <4>2, Constants
      <3>2. CASE Early
        <4>1. CASE g > minted
          <5>1. spent[g] = 0 BY <2>4, <4>1 DEF SpentInv
          <5> QED BY <2>4, <5>1, Constants
        <4>2. CASE g \in Open(queue) /\ Bank(queue.goal[g]) <= Bank(queue'.goal[g])
          <5>1. spent[g] <= Bank(queue.goal[g]) BY <3>2, <4>2 DEF SpentInv
          <5>2. Bank(queue.goal[g]) \in 0..Wall BY <1>3, <2>4, BankTypes
          <5> QED BY <2>4, <4>2, <5>1, <5>2, Constants
        <4> QED BY <1>2, <4>1, <4>2 DEF Evolves
      <3> QED BY <1>1, <2>5, <3>1, <3>2 DEF Outcome
    <2>6. /\ pc' \in {"idle", "ticking", "remote", "down"} => drive' = 0
          /\ pc' \in {"driving", "act"} /\ In(queue', "active") = {} => drive' = 0
          /\ pc' = "remote" => \A g \in In(queue', "active") : spent[g] < Wall
      BY <1>1 DEF Outcome
    <2>7. spent' \in [Goal -> 0..Wall] BY <1>2 DEF SpentInv
    <2> QED BY <1>2, <2>1, <2>2, <2>4, <2>5, <2>6, <2>7 DEF SpentInv
  <1> QED BY <1>6, <1>7, <1>8

-----------------------------------------------------------------------------
(* The channel.                                                            *)

Knows == [Goal -> {"none", "waiting", "told"}]

ChannelOK(ch) ==
    /\ ch \in Seq(Goal \cup {Nobody})
    /\ \A i, j \in DOMAIN ch : ch[i] = ch[j] /\ ch[i] # Nobody => i = j

\* A drive that is told of nothing knows what it knew.
LEMMA ToldOK ==
    ASSUME step \in Knows, NEW gs
    PROVE  /\ Told(gs) \in Knows
           /\ \A g \in Goal : g \notin gs => Told(gs)[g] = step[g]
  BY DEF Told, Knows

\* A drive that lives knows what it knew.
LEMMA PrunedOK ==
    ASSUME NEW q, NEW st \in Knows
    PROVE  /\ Pruned(q, st) \in Knows
           /\ \A g \in Goal : Lives(q, g) => Pruned(q, st)[g] = st[g]
  BY DEF Pruned, Knows

\* What is left of a channel: its submissions at some places, and their order.
Chosen(ch, place, p) ==
    /\ p \in Seq(Goal \cup {Nobody}) /\ place \in [1..Len(p) -> DOMAIN ch]
    /\ \A i, j \in 1..Len(p) : i < j => place[i] < place[j]
    /\ \A i \in 1..Len(p) : p[i] = ch[place[i]]

Dropped(ch, place) == {ch[i] : i \in DOMAIN ch \ Range(place)}

\* It has no goal in common with what is gone.
LEMMA ChosenChannel ==
    ASSUME NEW ch, ChannelOK(ch), NEW place, NEW p, Chosen(ch, place, p)
    PROVE  /\ ChannelOK(p) /\ Range(p) \subseteq Range(ch)
           /\ \A g \in Goal : g \in Range(p) => g \notin Dropped(ch, place)
  <1> DEFINE n == Len(p)
  <1>1. /\ DOMAIN p = 1..n /\ DOMAIN place = 1..n /\ n \in Nat
        /\ \A i \in 1..n : place[i] \in DOMAIN ch /\ p[i] = ch[place[i]]
        /\ \A i, j \in 1..n : i < j => place[i] < place[j]
        /\ p \in Seq(Goal \cup {Nobody})
    BY LenProperties DEF Chosen
  <1> HIDE DEF n
  <1>2. DOMAIN ch \subseteq Int BY LenProperties DEF ChannelOK
  <1>3. \A i, j \in 1..n : place[i] = place[j] => i = j
    <2> SUFFICES ASSUME NEW i \in 1..n, NEW j \in 1..n, place[i] = place[j] PROVE i = j
      OBVIOUS
    <2>1. place[i] \in Int /\ place[j] \in Int BY <1>1, <1>2
    <2>2. ~(i < j) /\ ~(j < i) BY <1>1, <2>1
    <2> QED BY <1>1, <2>1, <2>2
  <1>4. Range(p) \subseteq Range(ch) BY <1>1 DEF Range
  <1>5. ChannelOK(p)
    <2> SUFFICES ASSUME NEW i \in 1..n, NEW j \in 1..n, p[i] = p[j], p[i] # Nobody
                 PROVE  i = j
      BY <1>1 DEF ChannelOK
    <2>1. place[i] = place[j] BY <1>1 DEF ChannelOK
    <2> QED BY <1>3, <2>1
  <1>6. ASSUME NEW g \in Goal, g \in Range(p), g \in Dropped(ch, place)
        PROVE  FALSE
    <2>1. PICK i \in 1..n : p[i] = g BY <1>1, <1>6 DEF Range
    <2>2. PICK j \in DOMAIN ch \ Range(place) : ch[j] = g BY <1>6 DEF Dropped
    <2>3. g # Nobody BY Constants DEF Goal, Nobody
    <2>4. place[i] = j BY <1>1, <2>1, <2>2, <2>3 DEF ChannelOK
    <2> QED BY <1>1, <2>2, <2>4 DEF Range
  <1> QED BY <1>4, <1>5, <1>6

\* One more submission, of a client or for a goal that has none on the channel.
LEMMA FullerChannel ==
    ASSUME NEW ch, ChannelOK(ch), NEW g \in Goal \cup {Nobody}, g \in Range(ch) => g = Nobody
    PROVE  ChannelOK(Append(ch, g)) /\ Range(Append(ch, g)) = Range(ch) \cup {g}
  <1> DEFINE p == Append(ch, g)
             n == Len(ch)
  <1>1. ch \in Seq(Goal \cup {Nobody}) /\ n \in Nat /\ DOMAIN ch = 1..n
    BY LenProperties DEF ChannelOK
  <1>2. /\ p \in Seq(Goal \cup {Nobody}) /\ Len(p) = n + 1 /\ p[n + 1] = g
        /\ \A i \in 1..n : p[i] = ch[i]
    BY <1>1, AppendProperties
  <1>3. DOMAIN p = 1..n + 1 BY <1>2, LenProperties
  <1> HIDE DEF p, n
  <1>4. Range(p) = Range(ch) \cup {g} BY <1>1, <1>2, <1>3 DEF Range
  <1>5. ChannelOK(p)
    <2> SUFFICES ASSUME NEW i \in DOMAIN p, NEW j \in DOMAIN p, p[i] = p[j], p[i] # Nobody
                 PROVE  i = j
      BY <1>2 DEF ChannelOK
    <2>1. CASE i = n + 1 /\ j = n + 1 BY <2>1
    <2>2. CASE i # n + 1 /\ j # n + 1
      <3>1. i \in DOMAIN ch /\ j \in DOMAIN ch BY <1>1, <1>3, <2>2
      <3> QED BY <1>1, <1>2, <3>1 DEF ChannelOK
    <2>3. CASE i = n + 1 /\ j # n + 1
      <3>1. j \in DOMAIN ch /\ p[j] = ch[j] BY <1>1, <1>2, <1>3, <2>3
      <3>2. ch[j] \in Range(ch) BY <3>1 DEF Range
      <3> QED BY <1>2, <2>3, <3>1, <3>2
    <2>4. CASE i # n + 1 /\ j = n + 1
      <3>1. i \in DOMAIN ch /\ p[i] = ch[i] BY <1>1, <1>2, <1>3, <2>4
      <3>2. ch[i] \in Range(ch) BY <3>1 DEF Range
      <3> QED BY <1>2, <2>4, <3>1, <3>2
    <2> QED BY <2>1, <2>2, <2>3, <2>4
  <1> QED BY <1>4, <1>5 DEF p

\* A step that sends nothing for a goal, and tells no drive whose step still flies.
LEMMA FlyingOn ==
    ASSUME QueueInv, FlightInv, Moves, ChannelOK(channel'), taking' \in Goal \cup {Nobody},
           step' \in Knows, taking' # Nobody => taking' \notin Range(channel') /\ pc' = "driving",
           pc' = "down" => channel' = <<>>, Flying' \subseteq Flying,
           \A g \in Flying' : Lives(queue', g) => step'[g] = step[g]
    PROVE  FlightInv'
  <1>1. /\ minted \in Nat /\ minted' \in Nat /\ minted <= minted'
        /\ Evolves(queue, queue', minted)
    BY Constants DEF QueueInv, Moves
  <1>2. \A g \in Goal : g \in Nat BY Constants DEF Goal
  <1>3. ASSUME NEW g \in Flying'
        PROVE  /\ g <= minted'
               /\ g \in Open(queue') => Lives(queue', g) /\ step'[g] = "waiting"
    <2>1. g \in Flying /\ g <= minted /\ g \in Goal /\ g \in Nat BY <1>2 DEF FlightInv, Flying
    <2>2. g <= minted' BY <1>1, <2>1
    <2>3. ASSUME g \in Open(queue') PROVE Lives(queue', g) /\ step'[g] = "waiting"
      <3>1. g \in Open(queue) /\ (Lives(queue, g) => Lives(queue', g))
        BY <1>1, <2>1, <2>3 DEF Evolves
      <3>2. Lives(queue', g) /\ step[g] = "waiting" BY <2>1, <3>1 DEF FlightInv
      <3> QED BY <3>2
    <2> QED BY <2>2, <2>3
  <1> QED BY <1>3 DEF FlightInv, ChannelOK, Knows

\* A sweep, or emptying the channel, tells only drives whose step is gone from it.
LEMMA SweptFlies ==
    ASSUME QueueInv, FlightInv, Moves, pc # "driving", pc' # "down", Swept \/ ChannelCleared
    PROVE  FlightInv'
  <1>1. ChannelOK(channel) /\ taking = Nobody /\ taking' = Nobody /\ step \in Knows
    BY DEF FlightInv, ChannelOK, Knows, Swept, ChannelCleared
  <1>2. \A g \in Goal : g # Nobody BY Constants DEF Goal, Nobody
  <1>3. CASE Swept
    <2>1. PICK n \in 0..Len(channel) : \E place \in [1..n -> DOMAIN channel] :
              /\ \A i, j \in 1..n : i < j => place[i] < place[j]
              /\ channel' = [i \in 1..n |-> channel[place[i]]]
              /\ step' = Told({channel[i] : i \in DOMAIN channel \ Range(place)})
      BY <1>3 DEF Swept
    <2>2. PICK place \in [1..n -> DOMAIN channel] :
              /\ \A i, j \in 1..n : i < j => place[i] < place[j]
              /\ channel' = [i \in 1..n |-> channel[place[i]]]
              /\ step' = Told({channel[i] : i \in DOMAIN channel \ Range(place)})
      BY <2>1
    <2> DEFINE gone == Dropped(channel, place)
    <2>3. /\ ChannelOK(channel') /\ Range(channel') \subseteq Range(channel)
          /\ \A g \in Goal : g \in Range(channel') => g \notin gone
      <3>1. /\ n \in Nat /\ DOMAIN channel = 1..Len(channel)
            /\ \A i \in DOMAIN channel : channel[i] \in Goal \cup {Nobody}
        BY <1>1, LenProperties DEF ChannelOK
      <3>2. \A i \in 1..n : channel[place[i]] \in Goal \cup {Nobody} BY <3>1
      <3>3. /\ channel' \in Seq(Goal \cup {Nobody}) /\ Len(channel') = n
            /\ \A i \in 1..n : channel'[i] = channel[place[i]]
        BY <2>2, <3>1, <3>2
      <3>4. Chosen(channel, place, channel') BY <2>2, <3>3 DEF Chosen
      <3> QED BY <1>1, <3>4, ChosenChannel
    <2>4. step' = Told(gone) BY <2>2 DEF Dropped
    <2> HIDE DEF gone
    <2>5. step' \in Knows /\ \A g \in Goal : g \notin gone => step'[g] = step[g]
      BY <1>1, <2>4, ToldOK
    <2>6. Flying' \subseteq Flying BY <1>1, <1>2, <2>3 DEF Flying
    <2>7. \A g \in Flying' : step'[g] = step[g] BY <1>1, <1>2, <2>3, <2>5 DEF Flying
    <2> QED BY <1>1, <2>3, <2>5, <2>6, <2>7, FlyingOn
  <1>4. CASE ChannelCleared
    <2>1. channel' = <<>> /\ step' \in Knows BY <1>1, <1>4, ToldOK DEF ChannelCleared
    <2>2. ChannelOK(channel') /\ Range(channel') = {} BY <2>1 DEF ChannelOK, Range
    <2>3. Flying' = {} BY <1>1, <1>2, <2>2 DEF Flying
    <2> QED BY <1>1, <2>1, <2>2, <2>3, FlyingOn
  <1> QED BY <1>3, <1>4

\* A step that leaves the channel alone.
LEMMA RemoteStays ==
    ASSUME QueueInv, FlightInv, Moves, UNCHANGED remote, pc' = "down" => pc = "down",
           pc = "driving" => pc' = "driving"
    PROVE  FlightInv'
  <1>1. /\ ChannelOK(channel') /\ step' \in Knows /\ taking' \in Goal \cup {Nobody}
        /\ taking' # Nobody => taking' \notin Range(channel') /\ pc' = "driving"
        /\ step' = step /\ (pc' = "down" => channel' = <<>>)
    BY DEF FlightInv, ChannelOK, Knows, remote
  <1>2. Flying' = Flying BY DEF Flying, remote
  <1> QED BY <1>1, <1>2, FlyingOn

\* The submission the engine takes is not on the channel any more.
LEMMA TakeFlies ==
    ASSUME QueueInv, FlightInv, TakeRemote
    PROVE  FlightInv'
  <1>1. /\ ChannelOK(channel) /\ taking = Nobody /\ step \in Knows /\ channel # <<>>
        /\ taking' = Head(channel) /\ channel' = Tail(channel) /\ step' = step
        /\ pc' = "driving"
    BY DEF FlightInv, ChannelOK, Knows, TakeRemote
  <1>2. Moves BY IdleMoves DEF TakeRemote, goals
  <1>3. /\ channel \in Seq(Goal \cup {Nobody}) /\ Len(channel) \in Nat
        /\ DOMAIN channel = 1..Len(channel)
    BY <1>1, LenProperties DEF ChannelOK
  <1>4. /\ channel' \in Seq(Goal \cup {Nobody}) /\ Len(channel') = Len(channel) - 1
        /\ \A i \in 1..Len(channel') : channel'[i] = channel[i + 1]
        /\ Len(channel) # 0
    BY <1>1, <1>3, EmptySeq, HeadTailProperties
  <1>5. taking' = channel[1] /\ 1 \in DOMAIN channel /\ channel[1] \in Goal \cup {Nobody}
    <2>1. Head(channel) = channel[1] OBVIOUS
    <2> QED BY <1>1, <1>3, <1>4, <2>1, ElementOfSeq
  <1> DEFINE place == [i \in 1..Len(channel') |-> i + 1]
  <1>6. Chosen(channel, place, channel') /\ 1 \notin Range(place)
    <2>1. \A i \in 1..Len(channel') : i + 1 \in DOMAIN channel /\ i + 1 # 1 BY <1>3, <1>4
    <2>2. /\ place \in [1..Len(channel') -> DOMAIN channel] /\ 1 \notin Range(place)
          /\ \A i \in 1..Len(channel') : place[i] = i + 1
      BY <2>1 DEF Range
    <2> HIDE DEF place
    <2> QED BY <1>4, <2>2 DEF Chosen
  <1> HIDE DEF place
  <1>7. /\ ChannelOK(channel') /\ Range(channel') \subseteq Range(channel)
        /\ \A g \in Goal : g \in Range(channel') => g \notin Dropped(channel, place)
    BY <1>1, <1>6, ChosenChannel
  <1>8. taking' \in Goal \cup {Nobody} /\ (taking' # Nobody => taking' \notin Range(channel'))
    BY <1>5, <1>6, <1>7 DEF Dropped
  <1>9. Flying' \subseteq Flying BY <1>5, <1>7 DEF Flying, Range
  <1> QED BY <1>1, <1>2, <1>7, <1>8, <1>9, FlyingOn

\* What the engine has driven to its end does not fly any more.
LEMMA SettleFlies ==
    ASSUME QueueInv, FlightInv, SettleRemote
    PROVE  FlightInv'
  <1>1. /\ ChannelOK(channel) /\ channel' = channel /\ taking' = Nobody /\ step \in Knows
        /\ step' = Told({taking}) /\ pc' = "act"
        /\ taking # Nobody => taking \notin Range(channel)
    BY DEF FlightInv, ChannelOK, Knows, SettleRemote
  <1>2. Moves BY IdleMoves DEF SettleRemote, goals
  <1>3. step' \in Knows /\ \A g \in Goal : g # taking => step'[g] = step[g]
    BY <1>1, ToldOK
  <1>4. \A g \in Goal : g # Nobody BY Constants DEF Goal, Nobody
  <1>5. Flying' \subseteq Flying /\ \A g \in Flying' : g # taking BY <1>1, <1>4 DEF Flying
  <1>6. \A g \in Flying' : g \in Goal BY DEF Flying
  <1> QED BY <1>1, <1>2, <1>3, <1>5, <1>6, FlyingOn

\* The wrapper sends a step only for a goal of which none is on its way.
LEMMA ProposeFlies ==
    ASSUME QueueInv, FlightInv, ProposeNothing \/ SubmitStep \/ FinishGoal \/ ProposeRequest
    PROVE  FlightInv'
  <1>1. /\ ChannelOK(channel) /\ step \in Knows /\ taking = Nobody /\ taking' = Nobody
        /\ pc' \notin {"down", "driving"} /\ minted' = minted
        /\ serving \in Goal \cup {Nobody}
    BY DEF FlightInv, ChannelOK, Knows, ProposeNothing, SubmitStep, FinishGoal, ProposeRequest,
           Proposing, QueueInv
  <1>2. \A g \in Goal : g # Nobody BY Constants DEF Goal, Nobody
  <1>3. ASSUME serving # Nobody, MayStep(serving)
        PROVE  serving \in Open(queue) /\ Lives(queue, serving) /\ serving \notin Flying
    <2>1. serving \in Open(queue) /\ Lives(queue, serving)
      BY <1>1, <1>3 DEF MayStep, Open, In, Lives
    <2> QED BY <1>3, <2>1 DEF FlightInv, MayStep
  <1>4. ASSUME ProposeNothing PROVE FlightInv'
    <2>1. /\ step' = Pruned(queue, step) /\ channel' = channel /\ queue' = queue
          /\ unread' = unread
      BY <1>4 DEF ProposeNothing, goals
    <2>2. Moves BY <1>1, <2>1, IdleMoves DEF goals
    <2>3. step' \in Knows /\ \A g \in Goal : Lives(queue, g) => step'[g] = step[g]
      BY <1>1, <2>1, PrunedOK
    <2>4. Flying' = Flying /\ \A g \in Flying : g \in Goal BY <1>1, <2>1 DEF Flying
    <2> QED BY <1>1, <2>1, <2>2, <2>3, <2>4, FlyingOn
  <1>5. ASSUME SubmitStep PROVE FlightInv'
    <2>1. /\ serving # Nobody /\ MayStep(serving) /\ channel' = Append(channel, serving)
          /\ step' = Drives("waiting") /\ queue' = queue
      BY <1>5 DEF SubmitStep, goals
    <2>2. serving \in Open(queue) /\ Lives(queue, serving) /\ serving \notin Flying
      BY <1>3, <2>1
    <2>3. serving \notin Range(channel) /\ serving \in Goal BY <1>1, <2>1, <2>2 DEF Flying
    <2>4. ChannelOK(channel') /\ Range(channel') = Range(channel) \cup {serving}
      BY <1>1, <2>1, <2>3, FullerChannel
    <2>5. step' \in Knows BY <1>1, <2>1 DEF Drives, Knows
    <2>6. \A g \in Goal : Lives(queue, g) =>
              step'[g] = IF g = serving THEN "waiting" ELSE step[g]
      BY <2>1 DEF Drives
    <2>7. serving <= minted BY <2>2 DEF QueueInv, QueueOK, StoreOK, Kept, Open, In
    <2>8. ASSUME NEW g \in Flying'
          PROVE  g <= minted' /\ (g \in Open(queue') => Lives(queue', g) /\ step'[g] = "waiting")
      <3>1. g \in Goal /\ (g = serving \/ g \in Flying) BY <1>1, <1>2, <2>4 DEF Flying
      <3>2. CASE g = serving BY <1>1, <2>1, <2>2, <2>6, <2>7, <3>1, <3>2
      <3>3. CASE g # serving BY <1>1, <2>1, <2>6, <3>1, <3>3 DEF FlightInv
      <3> QED BY <3>2, <3>3
    <2> QED BY <1>1, <2>4, <2>5, <2>8 DEF FlightInv, ChannelOK, Knows
  <1>6. ASSUME FinishGoal PROVE FlightInv'
    <2>1. step' = Pruned(queue', step) /\ channel' = channel BY <1>6 DEF FinishGoal
    <2>2. Moves BY <1>6, FinishMoves
    <2>3. step' \in Knows /\ \A g \in Goal : Lives(queue', g) => step'[g] = step[g]
      BY <1>1, <2>1, PrunedOK
    <2>4. Flying' = Flying /\ \A g \in Flying : g \in Goal BY <1>1, <2>1 DEF Flying
    <2> QED BY <1>1, <2>1, <2>2, <2>3, <2>4, FlyingOn
  <1>7. ASSUME ProposeRequest PROVE FlightInv'
    <2>1. /\ channel' = channel /\ queue' = queue
          /\ IF serving = Nobody \/ ~Wrapped(serving) THEN step' = Pruned(queue, step)
             ELSE MayStep(serving) /\ step' = Drives("none")
      BY <1>7 DEF ProposeRequest, goals
    <2>2. Moves BY <1>1, <1>7, IdleMoves DEF ProposeRequest
    <2>3. Flying' = Flying /\ \A g \in Flying : g \in Goal BY <1>1, <2>1 DEF Flying
    <2>4. ASSUME serving # Nobody, MayStep(serving), step' = Drives("none") PROVE FlightInv'
      <3>1. serving \notin Flying BY <1>3, <2>4
      <3>2. step' \in Knows BY <1>1, <2>4 DEF Drives, Knows
      <3>3. \A g \in Goal : Lives(queue, g) /\ g # serving => step'[g] = step[g]
        BY <2>4 DEF Drives
      <3> QED BY <1>1, <2>1, <2>2, <2>3, <3>1, <3>2, <3>3, FlyingOn
    <2>5. CASE step' = Pruned(queue, step)
      <3>1. step' \in Knows /\ \A g \in Goal : Lives(queue, g) => step'[g] = step[g]
        BY <1>1, <2>5, PrunedOK
      <3> QED BY <1>1, <2>1, <2>2, <2>3, <3>1, FlyingOn
    <2> QED BY <2>1, <2>4, <2>5
  <1> QED BY <1>4, <1>5, <1>6, <1>7

\* Every quick step keeps what is said of the steps in flight.
LEMMA QuickFlies ==
    ASSUME QueueInv, SpentInv, FlightInv, Quick
    PROVE  FlightInv'
  <1>1. Moves /\ pc' # "down" BY QuickOutcome DEF Outcome
  <1>2. ASSUME UNCHANGED remote, pc = "driving" => pc' = "driving" PROVE FlightInv'
    BY <1>1, <1>2, RemoteStays
  <1>3. CASE \/ \E k \in Key : Submit(k)
             \/ \E g \in Goal : RequestCancel(g)
             \/ TickGoals \/ Decline \/ AskPlanner \/ ServeGoal \/ StandDown
             \/ \E t \in Trigger : Preempt(t)
    BY <1>2, <1>3
       DEF Submit, RequestCancel, TickGoals, Decline, AskPlanner, ServeGoal, StandDown, Preempt
  <1>4. CASE SubmitAction
    <2>1. /\ ChannelOK(channel) /\ taking \in Goal \cup {Nobody} /\ step \in Knows
          /\ channel' = Append(channel, Nobody) /\ taking' = taking /\ step' = step
          /\ pc' = pc /\ (taking # Nobody => taking \notin Range(channel) /\ pc = "driving")
      BY <1>4 DEF SubmitAction, FlightInv, ChannelOK, Knows
    <2>2. ChannelOK(channel') /\ Range(channel') = Range(channel) \cup {Nobody}
      BY <2>1, FullerChannel
    <2>3. \A g \in Goal : g # Nobody BY Constants DEF Goal, Nobody
    <2>4. Flying' \subseteq Flying BY <2>1, <2>2, <2>3 DEF Flying
    <2> QED BY <1>1, <2>1, <2>2, <2>4, FlyingOn
  <1>5. CASE BeginTick BY <1>1, <1>5, SweptFlies DEF BeginTick
  <1>6. CASE PassRemote
    <2>1. CASE ChannelCleared BY <1>1, <1>6, <2>1, SweptFlies DEF PassRemote
    <2>2. CASE UNCHANGED remote BY <1>2, <1>6, <2>2 DEF PassRemote
    <2> QED BY <1>6, <2>1, <2>2 DEF PassRemote
  <1>7. CASE TakeRemote BY <1>7, TakeFlies
  <1>8. CASE SettleRemote BY <1>8, SettleFlies
  <1>9. CASE ProposeNothing \/ SubmitStep \/ FinishGoal \/ ProposeRequest BY <1>9, ProposeFlies
  <1>10. CASE SettleGoalStep /\ pc' = "flush"
    <2>1. ~ShutDown BY <1>10 DEF ShutDown, Die
    <2> QED BY <1>2, <1>10, <2>1 DEF SettleGoalStep
  <1> QED BY <1>3, <1>4, <1>5, <1>6, <1>7, <1>8, <1>9, <1>10 DEF Quick, Ticking, ServingThread

-----------------------------------------------------------------------------
(* Time, the end of a process, and the next one.                           *)

\* A unit of time on both sides.
LEMMA OneMore ==
    ASSUME NEW a \in Nat, NEW b \in Nat, NEW u \in 0..Horizon,
           Smaller(a, Wall) <= Smaller(b + u, Wall)
    PROVE  Smaller(a + 1, Wall) <= Smaller(b + Smaller(u + 1, Horizon), Wall)
  BY Constants, Horizons DEF Smaller

\* Time, and a flush or one that failed, keep the invariant: active time is counted on
\* both sides, and the file names no waiting goal that was not open.
LEMMA TimeKeeps ==
    ASSUME GoalsInv, Clock \/ FlushGoals
    PROVE  GoalsInv'
  <1>1. /\ QueueInv /\ minted \in Nat /\ QueueOK(queue, minted) /\ FileOK(disk, minted)
        /\ unread \in 0..Horizon /\ unread \in Nat
    BY Constants, Horizons DEF GoalsInv, QueueInv
  <1>2. /\ UNCHANGED <<queue, minted, mode, remote, arbiter, over>>
        /\ unread' = IF Up THEN Smaller(unread + 1, Horizon) ELSE unread
        /\ serving' \in {serving, Nobody} /\ pc' # "remote"
        /\ pc' = pc \/ (pc = "flush" /\ pc' = "idle")
        /\ \/ disk' = Snapshot(Later(disk, 1))
           \/ pc' # pc /\ disk' = Snapshot(Later(queue, unread'))
    BY DEF Clock, FlushGoals, TimePasses
  <1>3. unread' \in 0..Horizon /\ unread' \in Nat BY <1>1, <1>2, Horizons DEF Smaller
  <1>4. /\ QueueOK(Later(queue, unread'), minted) /\ TickClock' = Later(queue, unread')
        /\ Open(Later(queue, unread')) = Open(queue)
        /\ \A g \in Goal : TickClock'.goal[g] = Aged(queue.goal[g], unread')
    <2>1. TickClock' = Later(queue, unread') BY <1>2 DEF TickClock
    <2>2. /\ QueueOK(Later(queue, unread'), minted)
          /\ \A g \in Goal : Later(queue, unread').goal[g] = Aged(queue.goal[g], unread')
      BY <1>1, <1>3, LaterOK
    <2>3. Open(Later(queue, unread')) = Open(queue) BY <1>1, <1>3, LaterSame
    <2> QED BY <2>1, <2>2, <2>3
  <1>5. /\ \A g \in Goal : TickClock.goal[g] = Aged(queue.goal[g], unread)
        /\ queue.goal \in [Goal -> Record]
    BY <1>1, LaterOK, TickClockOK DEF TickClock
  <1>6. Moves
    <2>1. Evolves(queue, queue, minted) BY <1>5, StaysEvolves
    <2> QED BY <1>1, <1>2, <2>1 DEF Moves, QueueInv
  <1>7. FlightInv'
    <2>1. pc' = "down" => pc = "down" BY <1>2
    <2>2. pc = "driving" => pc' = "driving" BY <1>2
    <2> QED BY <1>1, <1>2, <1>6, <2>1, <2>2, RemoteStays DEF GoalsInv
  <1>8. /\ FileOK(disk', minted)
        /\ In(disk', "pending") \subseteq In(disk, "pending") \cup Open(queue)
        /\ pc' = pc => \A g \in In(disk', "pending") :
              g \in In(disk, "pending") /\ disk'.goal[g].banked = disk.goal[g].banked
    <2>1. CASE disk' = Snapshot(Later(disk, 1))
      <3>1. FileOK(Later(disk, 1), minted) /\ \A g \in Goal :
                Later(disk, 1).goal[g] = Aged(disk.goal[g], 1)
        BY <1>1, LaterFile
      <3>2. StoreOK(Later(disk, 1), minted) BY <3>1 DEF FileOK
      <3>3. /\ FileOK(disk', minted)
            /\ \A g \in Goal : /\ disk'.goal[g].state = Later(disk, 1).goal[g].state
                               /\ Later(disk, 1).goal[g].state # "active"
                                    => disk'.goal[g] = Later(disk, 1).goal[g]
        BY <2>1, <3>2, SnapshotOK
      <3>4. \A g \in Goal : disk.goal[g] \in Record BY <1>1 DEF FileOK, StoreOK
      <3>5. \A g \in Goal : /\ Later(disk, 1).goal[g].state = disk.goal[g].state
                            /\ Later(disk, 1).goal[g].banked = disk.goal[g].banked
        BY <3>1, <3>4, AgedOK
      <3> QED BY <3>3, <3>5 DEF In
    <2>2. CASE pc' # pc /\ disk' = Snapshot(Later(queue, unread'))
      <3> DEFINE l == Later(queue, unread')
      <3>1. StoreOK(l, minted) /\ Open(l) = Open(queue) BY <1>4 DEF QueueOK
      <3> HIDE DEF l
      <3>2. FileOK(Snapshot(l), minted) /\ \A g \in Goal :
                Snapshot(l).goal[g].state = l.goal[g].state
        BY <3>1, SnapshotOK
      <3>3. In(Snapshot(l), "pending") \subseteq Open(l) BY <3>2 DEF In, Open
      <3> QED BY <2>2, <3>1, <3>2, <3>3 DEF l
    <2> QED BY <1>2, <2>1, <2>2
  <1>9. QueueInv'
    <2>1. pc' = "down" => pc = "down" BY <1>2
    <2> QED BY <1>1, <1>2, <1>3, <1>8, <2>1 DEF QueueInv
  <1>10. OverInv'
    <2>1. Nobody \notin over BY <1>1 DEF GoalsInv, OverInv, Nobody
    <2> QED BY <1>2, <1>8, <2>1 DEF GoalsInv, OverInv
  <1>11. /\ \A g \in Goal : spent[g] \in 0..Wall /\ spent[g] \in Nat
         /\ drive \in 0..Wall /\ drive \in Nat
    BY Constants DEF GoalsInv, SpentInv
  <1>12. /\ spent' \in [Goal -> 0..Wall] /\ drive' \in 0..Wall
         /\ \A g \in Goal : \/ g \notin In(queue, "active") /\ spent'[g] = spent[g]
                            \/ /\ g \in In(queue, "active")
                               /\ Smaller(spent'[g] + drive', Wall)
                                    = Smaller(spent[g] + drive + 1, Wall)
         /\ pc = "driving" => spent' = spent
         /\ pc' \in {"idle", "ticking", "remote", "down"} => drive' = 0
         /\ pc' \in {"driving", "act"} /\ In(queue, "active") = {} => drive' = 0
    <2>1. \A n \in Nat : Smaller(n, Wall) \in 0..Wall BY Constants DEF Smaller
    <2>2. \A t \in Nat : Spending(t) \in [Goal -> 0..Wall] BY <1>11, <2>1 DEF Spending
    <2>3. \A m, n \in Nat : Smaller(Smaller(m, Wall) + n, Wall) = Smaller(m + n, Wall)
      BY Constants DEF Smaller
    <2>4. CASE Clock /\ pc # "driving"
      <3>1. spent' = Spending(1) /\ drive' = drive /\ pc' = pc BY <2>4 DEF Clock
      <3>2. \A g \in In(queue, "active") :
                Smaller(Smaller(spent[g] + 1, Wall) + drive, Wall)
                  = Smaller(spent[g] + drive + 1, Wall)
        BY <1>11, Constants DEF Smaller, In
      <3> QED BY <1>11, <2>2, <2>4, <3>1, <3>2 DEF Spending, Clock, GoalsInv, SpentInv
    <2>5. CASE Clock /\ pc = "driving"
      <3>1. /\ spent' = spent /\ pc' = pc
            /\ drive' = IF In(queue, "active") = {} THEN drive ELSE Smaller(drive + 1, Wall)
        BY <2>5 DEF Clock
      <3>2. drive' \in 0..Wall BY <1>11, <2>1, <3>1
      <3>3. \A g \in In(queue, "active") :
                Smaller(spent[g] + Smaller(drive + 1, Wall), Wall)
                  = Smaller(spent[g] + drive + 1, Wall)
        BY <1>11, Constants DEF Smaller, In
      <3> QED BY <2>5, <3>1, <3>2, <3>3 DEF GoalsInv, SpentInv
    <2>6. CASE FlushGoals
      <3>1. spent' = Spending(drive + 1) /\ drive' = 0 /\ pc' = "idle" /\ pc = "flush"
        BY <2>6 DEF FlushGoals
      <3>2. Spending(drive + 1) \in [Goal -> 0..Wall] /\ 0 \in 0..Wall
        BY <1>11, <2>2, Constants
      <3>3. \A g \in In(queue, "active") :
                Smaller(Smaller(spent[g] + (drive + 1), Wall) + 0, Wall)
                  = Smaller(spent[g] + drive + 1, Wall)
        BY <1>11, Constants DEF Smaller, In
      <3> QED BY <3>1, <3>2, <3>3 DEF Spending
    <2> QED BY <2>4, <2>5, <2>6
  <1>13. ASSUME NEW g \in Open(queue) PROVE Owed(g)' <= Bank(TickClock'.goal[g])
    <2>1. /\ g \in Goal /\ queue.goal[g] \in Record /\ Bank(queue.goal[g]) \in 0..Wall
          /\ Bank(queue.goal[g]) \in Nat
      BY <1>5, BankTypes, Constants DEF Open, In
    <2>2. /\ Owed(g)' = Smaller(spent'[g] + (IF g \in In(queue, "active") THEN drive' ELSE 0),
                                Wall)
          /\ Owed(g) <= Bank(Aged(queue.goal[g], unread))
      BY <1>2, <1>5, <2>1 DEF GoalsInv, SpentInv, Owed
    <2>3. CASE g \notin In(queue, "active")
      <3>1. queue.goal[g].state # "active" BY <2>1, <2>3 DEF In
      <3>2. /\ Bank(Aged(queue.goal[g], unread)) = Bank(queue.goal[g])
            /\ Bank(Aged(queue.goal[g], unread')) = Bank(queue.goal[g])
        BY <1>1, <1>3, <2>1, <3>1, AgedBank
      <3>3. Owed(g)' = Owed(g) BY <1>12, <2>1, <2>2, <2>3 DEF Owed
      <3> QED BY <1>4, <2>1, <2>2, <3>2, <3>3
    <2>4. CASE g \in In(queue, "active")
      <3> DEFINE b == Bank(queue.goal[g])
                 a == spent[g] + drive
      <3>1. queue.goal[g].state = "active" /\ Up
        BY <1>1, <2>4 DEF In, Open, QueueInv, Up
      <3>2. /\ Bank(Aged(queue.goal[g], unread)) = Smaller(b + unread, Wall)
            /\ Bank(Aged(queue.goal[g], unread')) = Smaller(b + unread', Wall)
        BY <1>1, <1>3, <2>1, <3>1, AgedOK
      <3>3. Smaller(a, Wall) <= Smaller(b + unread, Wall) BY <2>2, <2>4, <3>2 DEF Owed
      <3>4. Owed(g)' = Smaller(a + 1, Wall) BY <1>12, <2>1, <2>2, <2>4
      <3>5. a \in Nat /\ b \in Nat BY <1>11, <2>1
      <3>6. unread' = Smaller(unread + 1, Horizon) BY <1>2, <3>1
      <3> HIDE DEF a, b
      <3> QED BY <1>1, <1>4, <2>1, <3>2, <3>3, <3>4, <3>5, <3>6, OneMore
    <2> QED BY <2>3, <2>4
  <1>14. SpentInv'
    <2>1. \A g \in Goal : g > minted => spent'[g] = 0
      <3>1. \A g \in In(queue, "active") : ~(g > minted)
        BY <1>1 DEF QueueOK, StoreOK, Kept, In
      <3> QED BY <1>12, <3>1 DEF GoalsInv, SpentInv
    <2>2. Early' => \A g \in Open(queue) : spent'[g] <= Bank(queue.goal[g])
      <3>1. Early' => pc = "driving" BY DEF Early, Clock, FlushGoals
      <3>2. pc = "driving" => Early BY DEF Early
      <3> QED BY <1>12, <3>1, <3>2 DEF GoalsInv, SpentInv
    <2>3. ASSUME pc' = "down", NEW g \in In(disk', "pending")
          PROVE  spent'[g] <= disk'.goal[g].banked
      <3>1. pc' = pc BY <1>2, <2>3
      <3>2. g \in Goal /\ g \in In(disk, "pending") /\ disk'.goal[g].banked = disk.goal[g].banked
        BY <1>8, <2>3, <3>1 DEF In
      <3>3. In(queue, "active") = {} BY <1>1, <2>3, <3>1 DEF QueueInv, Open
      <3>4. spent'[g] = spent[g] BY <1>12, <3>2, <3>3
      <3> QED BY <2>3, <3>1, <3>2, <3>4 DEF GoalsInv, SpentInv
    <2> QED BY <1>2, <1>12, <1>13, <2>1, <2>2, <2>3 DEF SpentInv
  <1> QED BY <1>7, <1>9, <1>10, <1>14 DEF GoalsInv

\* A process that dies leaves a file in which nothing over waits.
LEMMA DieKeeps ==
    ASSUME GoalsInv, NEW f, FileOK(f, minted), over \cap In(f, "pending") = {}, Die(f),
           UNCHANGED minted
    PROVE  GoalsInv'
  <1>1. /\ minted \in Nat /\ minted' = minted /\ minted \in 0..MaxGoals
        /\ f.goal \in [Goal -> Record] /\ Kept(f) \subseteq 1..minted
        /\ \A g \in Goal : f.goal[g].state = "none" => f.goal[g] = NoGoal
    BY Constants DEF GoalsInv, QueueInv, FileOK, StoreOK
  <1>2. QueueOK(queue', minted') /\ Open(queue') = {} /\ In(queue', "active") = {}
    BY <1>1, FreshOK DEF Die, Open
  <1>3. QueueInv'
    <2>1. arbiter' \in [injected : Goal \cup {Nobody}, made : 0..MaxInjections]
      BY Constants DEF Die
    <2>2. /\ serving' \in Goal \cup {Nobody} /\ mode' \in {"off", "assisted", "autonomous"}
          /\ disk' = f
      BY DEF Die
    <2>3. unread' \in 0..Horizon BY Horizons DEF Die
    <2> QED BY <1>1, <1>2, <2>1, <2>2, <2>3 DEF QueueInv
  <1>4. OverInv'
    <2>1. over' = over \cup Gone(f) /\ serving' = Nobody /\ disk' = f BY DEF Die
    <2>2. Gone(f) \subseteq Kept(f) /\ Gone(f) \cap In(f, "pending") = {} BY DEF Gone, Kept, In
    <2>3. over' \subseteq 1..minted' BY <1>1, <2>1, <2>2 DEF GoalsInv, OverInv
    <2>4. Nobody \notin over' BY <1>1, <2>3 DEF Nobody
    <2> QED BY <1>2, <2>1, <2>2, <2>3, <2>4 DEF OverInv
  <1>5. SpentInv'
    <2>1. /\ spent' = [g \in Goal |-> f.goal[g].banked] /\ pc' = "down" /\ disk' = f
          /\ drive' = 0
      BY DEF Die
    <2>2. \A g \in Goal : f.goal[g].banked \in 0..Wall BY <1>1 DEF Record
    <2>3. spent' \in [Goal -> 0..Wall] BY <2>1, <2>2
    <2>4. \A g \in Goal : g > minted => spent'[g] = 0
      <3> SUFFICES ASSUME NEW g \in Goal, g > minted PROVE spent'[g] = 0 OBVIOUS
      <3>1. g \notin 1..minted BY <1>1
      <3>2. f.goal[g] = NoGoal BY <1>1, <3>1 DEF Kept
      <3> QED BY <2>1, <3>2 DEF NoGoal
    <2>5. \A g \in In(f, "pending") : spent'[g] <= f.goal[g].banked
      <3>1. \A n \in 0..Wall : n <= n BY Constants
      <3> QED BY <2>1, <2>2, <3>1 DEF In
    <2>6. drive' \in 0..Wall /\ ~Early' BY <2>1, Constants DEF Early
    <2> QED BY <1>1, <1>2, <2>1, <2>3, <2>4, <2>5, <2>6 DEF SpentInv
  <1>6. FlightInv'
    <2>1. channel' = <<>> /\ taking' = Nobody /\ step' = [g \in Goal |-> "none"] BY DEF Die
    <2>2. channel' \in Seq(Goal \cup {Nobody}) /\ DOMAIN channel' = {} /\ Range(channel') = {}
      BY <2>1 DEF Range
    <2>3. \A g \in Goal : g # Nobody BY Constants DEF Goal, Nobody
    <2>4. Flying' = {} BY <2>1, <2>2, <2>3 DEF Flying
    <2> QED BY <2>1, <2>2, <2>4 DEF FlightInv
  <1> QED BY <1>3, <1>4, <1>5, <1>6 DEF GoalsInv

\* A stop writes a disarmed queue, or leaves the file as it was.
LEMMA ShutDownKeeps ==
    ASSUME GoalsInv, ShutDown, UNCHANGED minted
    PROVE  GoalsInv'
  <1> DEFINE u == TickClock
             f == Snapshot(Disarmed(u))
  <1>1. /\ QueueOK(u, minted) /\ Open(u) = Open(queue) /\ FileOK(disk, minted)
        /\ over \cap In(disk, "pending") = {}
    BY TickClockOK DEF GoalsInv, QueueInv, OverInv
  <1> HIDE DEF u
  <1>2. /\ QueueOK(Disarmed(u), minted)
        /\ \E D \in SUBSET Open(u) : Closes(u, Disarmed(u), D)
    BY <1>1, DisarmedOK
  <1>3. StoreOK(Disarmed(u), minted) BY <1>2 DEF QueueOK
  <1>4. /\ FileOK(f, minted)
        /\ \A g \in Goal : f.goal[g].state = Disarmed(u).goal[g].state
    BY <1>3, SnapshotOK
  <1>5. In(f, "pending") \subseteq Open(queue)
    <2>1. In(f, "pending") \subseteq Open(Disarmed(u)) BY <1>4 DEF In, Open
    <2>2. Open(Disarmed(u)) \subseteq Open(u)
      <3>1. PICK D : Closes(u, Disarmed(u), D) BY <1>2
      <3> DEFINE p == Disarmed(u)
      <3>2. Closes(u, p, D) BY <3>1
      <3> HIDE DEF p
      <3>3. Open(p) = Open(u) \ D BY <3>2, ClosesOpen
      <3> QED BY <3>3 DEF p
    <2> QED BY <1>1, <2>1, <2>2
  <1>6. over \cap In(f, "pending") = {} BY <1>5 DEF GoalsInv, OverInv
  <1>7. Die(f) \/ Die(disk) BY DEF ShutDown, u
  <1> HIDE DEF f
  <1> QED BY <1>1, <1>4, <1>6, <1>7, DieKeeps

\* The next process starts with what waits in the file, or with nothing.
LEMMA AdoptKeeps ==
    ASSUME GoalsInv, Adopt
    PROVE  GoalsInv'
  <1>1. /\ minted \in Nat /\ minted' = minted /\ FileOK(disk, minted) /\ pc = "down"
        /\ pc' = "idle" /\ disk' \in {Snapshot(queue'), disk}
        /\ UNCHANGED <<unread, mode, serving, remote, arbiter, history>>
    BY Constants DEF GoalsInv, QueueInv, Adopt
  <1>2. /\ QueueOK(queue', minted) /\ In(queue', "active") = {}
        /\ \A g \in In(queue', "pending") :
              g \in In(disk, "pending") /\ queue'.goal[g] = disk.goal[g]
    <2>1. CASE Restorable(disk) /\ queue' = Restored(disk) BY <1>1, <2>1, RestoredOK
    <2>2. CASE queue' = Fresh
      <3>1. QueueOK(queue', minted) /\ Open(queue') = {} BY <1>1, <2>2, FreshOK
      <3> QED BY <3>1 DEF Open
    <2> QED BY <2>1, <2>2 DEF Adopt
  <1>3. Open(queue') = In(queue', "pending") BY <1>2 DEF Open
  <1>4. /\ FileOK(Snapshot(queue'), minted)
        /\ \A g \in Goal : Snapshot(queue').goal[g].state = queue'.goal[g].state
    <2>1. StoreOK(queue', minted) BY <1>2 DEF QueueOK
    <2> QED BY <2>1, SnapshotOK
  <1>5. FileOK(disk', minted) /\ In(disk', "pending") \subseteq In(disk, "pending")
    <2>1. In(Snapshot(queue'), "pending") = In(queue', "pending") BY <1>4 DEF In
    <2> QED BY <1>1, <1>2, <1>4, <2>1
  <1>6. QueueInv' BY <1>1, <1>2, <1>5 DEF GoalsInv, QueueInv
  <1>7. OverInv' BY <1>1, <1>2, <1>3, <1>5 DEF GoalsInv, OverInv, history
  <1>8. SpentInv'
    <2>1. spent' = spent /\ drive' = drive /\ drive = 0 /\ ~Early'
      BY <1>1 DEF history, Early, GoalsInv, SpentInv
    <2>2. /\ unread \in Nat /\ TickClock' = Later(queue', unread)
          /\ \A g \in Goal : Later(queue', unread).goal[g] = Aged(queue'.goal[g], unread)
          /\ queue'.goal \in [Goal -> Record]
      <3>1. unread \in Nat BY Horizons DEF GoalsInv, QueueInv
      <3>2. TickClock' = Later(queue', unread) BY <1>1 DEF TickClock
      <3> QED BY <1>2, <3>1, <3>2, LaterOK DEF QueueOK, StoreOK
    <2>3. ASSUME NEW g \in Open(queue') PROVE Owed(g)' <= Bank(TickClock'.goal[g])
      <3>1. /\ g \in Goal /\ g \in In(disk, "pending") /\ queue'.goal[g] = disk.goal[g]
            /\ g \notin In(queue', "active")
        BY <1>2, <1>3 DEF In
      <3>2. spent[g] <= disk.goal[g].banked /\ spent[g] \in 0..Wall
        BY <1>1, <3>1 DEF GoalsInv, SpentInv
      <3>3. disk.goal[g].run = 0 /\ disk.goal[g] \in Record BY <1>1, <3>1 DEF FileOK, StoreOK
      <3>4. disk.goal[g].banked \in 0..Wall BY <3>3 DEF Record
      <3>5. Bank(disk.goal[g]) = disk.goal[g].banked BY <3>3, <3>4, Constants DEF Bank, Smaller
      <3>6. Bank(TickClock'.goal[g]) = Bank(queue'.goal[g])
        <4>1. queue'.goal[g].state # "active" BY <3>1 DEF In
        <4> QED BY <2>2, <3>1, <4>1, AgedBank
      <3>7. Owed(g)' = spent[g] BY <2>1, <3>1, <3>2, Constants DEF Owed, Smaller
      <3> QED BY <3>1, <3>2, <3>5, <3>6, <3>7
    <2> QED BY <1>1, <2>1, <2>3 DEF GoalsInv, SpentInv
  <1>9. FlightInv'
    <2>1. channel' = <<>> /\ taking' = Nobody /\ step' = step /\ step \in Knows
      BY <1>1 DEF GoalsInv, FlightInv, Knows, remote
    <2>2. channel' \in Seq(Goal \cup {Nobody}) /\ DOMAIN channel' = {} /\ Range(channel') = {}
      BY <2>1 DEF Range
    <2>3. \A g \in Goal : g # Nobody BY Constants DEF Goal, Nobody
    <2>4. Flying' = {} BY <2>1, <2>2, <2>3 DEF Flying
    <2> QED BY <2>1, <2>2, <2>4 DEF FlightInv, Knows
  <1> QED BY <1>6, <1>7, <1>8, <1>9 DEF GoalsInv

-----------------------------------------------------------------------------
(* The theorems.                                                           *)

\* A set without two different elements has at most one.
LEMMA AtMostOne ==
    ASSUME NEW A, \A x, y \in A : x = y
    PROVE  Cardinality(A) \in {0, 1}
  <1>1. CASE A = {} BY <1>1, FS_EmptySet
  <1>2. CASE A # {}
    <2>1. PICK x : A = {x} BY <1>2
    <2> QED BY <2>1, FS_Singleton
  <1> QED BY <1>1, <1>2

\* It holds at first.
LEMMA GoalsStart == Init => GoalsInv
  <1> SUFFICES ASSUME Init PROVE GoalsInv OBVIOUS
  <1>1. minted = 0 /\ minted \in Nat /\ minted \in 0..MaxGoals BY Constants DEF Init
  <1>2. QueueOK(queue, minted) /\ Open(queue) = {} BY <1>1, FreshOK DEF Init
  <1>3. FileOK(disk, minted) /\ \A g \in Goal : disk.goal[g].state = queue.goal[g].state
    <2>1. StoreOK(queue, minted) /\ disk = Snapshot(queue) BY <1>2 DEF QueueOK, Init
    <2> QED BY <2>1, SnapshotOK
  <1>4. In(disk, "pending") = {} /\ In(queue, "active") = {} BY <1>2, <1>3 DEF Open, In
  <1>5. QueueInv
    <2>1. arbiter \in [injected : Goal \cup {Nobody}, made : 0..MaxInjections]
      BY Constants DEF Init
    <2>2. unread \in 0..Horizon BY Horizons DEF Init
    <2> QED BY <1>1, <1>2, <1>3, <1>4, <2>1, <2>2 DEF QueueInv, Init
  <1>6. OverInv BY <1>4 DEF OverInv, Init
  <1>7. SpentInv BY <1>2, <1>4, Constants DEF SpentInv, Early, Init
  <1>8. FlightInv
    <2>1. channel \in Seq(Goal \cup {Nobody}) /\ DOMAIN channel = {} /\ Range(channel) = {}
      BY DEF Init, Range
    <2>2. \A g \in Goal : g # Nobody BY Constants DEF Goal, Nobody
    <2>3. Flying = {} BY <2>1, <2>2 DEF Flying, Init
    <2> QED BY <2>1, <2>3 DEF FlightInv, Init
  <1> QED BY <1>5, <1>6, <1>7, <1>8 DEF GoalsInv

\* Every step keeps it.
LEMMA GoalsStep == GoalsInv /\ [Next]_vars => GoalsInv'
  <1> SUFFICES ASSUME GoalsInv, [Next]_vars PROVE GoalsInv' OBVIOUS
  <1>1. CASE Quick BY <1>1, QuickKeeps, QuickFlies DEF GoalsInv
  <1>2. CASE SettleGoalStep /\ ShutDown BY <1>2, ShutDownKeeps DEF SettleGoalStep
  <1>3. CASE FlushGoals BY <1>3, TimeKeeps
  <1>4. CASE Clock BY <1>4, TimeKeeps
  <1>5. CASE Adopt BY <1>5, AdoptKeeps
  <1>6. CASE Stop BY <1>6, ShutDownKeeps DEF Stop, Restarting
  <1>7. CASE Crash
    <2>1. Die(disk) /\ UNCHANGED minted BY <1>7 DEF Crash, Restarting
    <2>2. FileOK(disk, minted) /\ over \cap In(disk, "pending") = {}
      BY DEF GoalsInv, QueueInv, OverInv
    <2> QED BY <2>1, <2>2, DieKeeps
  <1>8. CASE UNCHANGED vars
    <2>1. QueueInv' BY <1>8 DEF GoalsInv, QueueInv, vars
    <2>2. OverInv' BY <1>8 DEF GoalsInv, OverInv, vars
    <2>3. SpentInv' BY <1>8 DEF GoalsInv, SpentInv, Owed, Early, TickClock, vars
    <2>4. FlightInv' BY <1>8 DEF GoalsInv, FlightInv, Flying, vars
    <2> QED BY <2>1, <2>2, <2>3, <2>4 DEF GoalsInv
  <1>9. ASSUME SettleGoalStep PROVE pc' = "flush" \/ ShutDown BY <1>9 DEF SettleGoalStep
  <1> QED BY <1>1, <1>2, <1>3, <1>4, <1>5, <1>6, <1>7, <1>8, <1>9
          DEF Next, TickThread, Quick, Ticking

\* The inductive invariant holds of every reachable state.
THEOREM GoalsInductive == Spec => []GoalsInv
  BY GoalsStart, GoalsStep, PTL DEF Spec

\* The queue keeps its bounds: one active goal, max_open open ones, and as many
\* records and digests as it may remember; a disarmed loop has no active goal.
THEOREM GoalTypes == Spec => []TypeOK
  <1>1. GoalsInv => TypeOK
    <2> SUFFICES ASSUME GoalsInv PROVE TypeOK OBVIOUS
    <2>1. QueueOK(queue, minted) /\ FileOK(disk, minted) BY DEF GoalsInv, QueueInv
    <2>2. Cardinality(In(queue, "active")) \in {0, 1}
      <3>1. \A g, h \in In(queue, "active") : g = h BY <2>1 DEF QueueOK
      <3> QED BY <3>1, AtMostOne
    <2> QED BY <2>1, <2>2
            DEF TypeOK, GoalsInv, QueueInv, QueueOK, FileOK, StoreOK, DigestsOK, Ordered, Kept
  <1> QED BY <1>1, GoalsInductive, PTL

\* A client that repeats the key of an open goal is given that goal.
THEOREM RepeatedKeysFindTheirGoal == Spec => []OpenKeysResolve
  <1>1. GoalsInv => OpenKeysResolve
    <2> SUFFICES ASSUME GoalsInv, NEW g \in Open(queue)
                 PROVE  \E d \in Resolves(queue, queue.goal[g].key) : d.id = g
      BY DEF OpenKeysResolve
    <2> DEFINE d == [key |-> queue.goal[g].key, id |-> g]
    <2>1. d \in Range(queue.digests) BY DEF GoalsInv, QueueInv, QueueOK, DigestsOK
    <2>2. d.key = queue.goal[g].key /\ d.id = g /\ queue.goal[d.id].state # "none"
      BY DEF Open, In
    <2>3. d \in Resolves(queue, queue.goal[g].key) BY <2>1, <2>2 DEF Resolves
    <2> QED BY <2>2, <2>3
  <1> QED BY <1>1, GoalsInductive, PTL

\* A goal that had started or ended when a process died is not served again.
THEOREM DeadGoalsStayDead == Spec => []OverIsOver
  <1>1. GoalsInv => OverIsOver BY DEF GoalsInv, OverInv, OverIsOver
  <1> QED BY <1>1, GoalsInductive, PTL

\* A goal that a tick lets live has not spent its wall budget, however often it
\* was suspended, but for the drives of the ticks that suspended it.
THEOREM BudgetsAreKept == Spec => []WallBudgetButDrives
  <1>1. GoalsInv => WallBudgetButDrives BY DEF GoalsInv, SpentInv, WallBudgetButDrives
  <1> QED BY <1>1, GoalsInductive, PTL

\* No goal has two steps on their way through the channel.
THEOREM StepsGoOneByOne == Spec => []OneStepInFlight
  <1>1. GoalsInv => OneStepInFlight
    <2> SUFFICES ASSUME GoalsInv, NEW g \in Goal
                 PROVE  Cardinality({i \in DOMAIN channel : channel[i] = g})
                            + (IF taking = g THEN 1 ELSE 0) <= 1
      BY DEF OneStepInFlight
    <2> DEFINE I == {i \in DOMAIN channel : channel[i] = g}
    <2>1. g # Nobody BY Constants DEF Goal, Nobody
    <2>2. \A i, j \in I : i = j BY <2>1 DEF GoalsInv, FlightInv
    <2>3. taking = g => I = {} BY <2>1 DEF GoalsInv, FlightInv, Range
    <2> HIDE DEF I
    <2>4. CASE I = {} BY <2>4, FS_EmptySet DEF I
    <2>5. CASE I # {}
      <3>1. PICK i : I = {i} BY <2>2, <2>5
      <3>2. Cardinality(I) = 1 BY <3>1, FS_Singleton
      <3> QED BY <2>3, <2>5, <3>2 DEF I
    <2> QED BY <2>4, <2>5
  <1> QED BY <1>1, GoalsInductive, PTL

-----------------------------------------------------------------------------
(* The state lock.                                                         *)

\* A process whose claim was read back and whose file nobody removed is the one
\* its record names.
Holds(p) == lock.is = "record" /\ lock.by = p

HoldersHold == \A p \in Attached \ robbed : Holds(p)

\* acquire ends with its last attempt: one that begins again has an attempt left.
TriesInv == \A p \in Proc : stage[p] = "create" => tries[p] < MaxAttempts

LockInv == LockTypeOK /\ TriesInv /\ HoldersHold

USE DEF Attached

\* Reading the constants of the file's type apart.
LEMMA LockFileTypes ==
    ASSUME LockTypeOK
    PROVE  /\ Absent \in File
           /\ \A p \in Proc : Empty(p) \in File
           /\ \A p \in Proc, t \in Time : Claim(p, t) \in Records
           /\ lock.is = "record" => lock \in Records
           /\ Readable \in Records \cup {Unreadable}
  BY DEF LockTypeOK, File, Records, Absent, Empty, Claim, Readable, Unreadable

\* A step of the program of one process keeps the types of its place and count.
LEMMA NextAttemptTypes ==
    ASSUME LockTypeOK, NEW p \in Proc, NextAttempt(p)
    PROVE  stage' \in [Proc -> {"off", "create", "write", "confirm", "read", "judge", "unlink",
                             "attached", "release", "remove", "left", "dead"}]
  BY DEF LockTypeOK, NextAttempt, Goto

\* What an attempt that failed leaves: it ends, or begins again with one attempt left.
LEMMA NextAttemptKeeps ==
    ASSUME LockTypeOK, TriesInv, NEW p \in Proc, NextAttempt(p), tries' = tries
    PROVE  TriesInv' /\ p \notin Attached' /\ Attached' \subseteq Attached
  BY AttachAssumption DEF LockTypeOK, TriesInv, NextAttempt, Goto

\* The initial states.
LEMMA LockStarts == LockInit => LockInv
  BY AttachAssumption
     DEF LockInit, LockInv, LockTypeOK, TriesInv, HoldersHold, Time, File, Records, Unreadable

\* No step leaves the types, or begins an attempt too many.
LEMMA StepKeepsTypes == LockInv /\ [LockNext]_lockVars => LockTypeOK' /\ TriesInv'
  <1> SUFFICES ASSUME LockInv, [LockNext]_lockVars PROVE LockTypeOK' /\ TriesInv'
    OBVIOUS
  <1> USE AttachAssumption
  <1>1. LockTypeOK /\ TriesInv BY DEF LockInv
  <1>2. /\ Absent \in File
        /\ \A p \in Proc : Empty(p) \in File
        /\ \A p \in Proc, t \in Time : Claim(p, t) \in File
        /\ Readable \in Records \cup {Unreadable}
    BY <1>1, LockFileTypes DEF File
  <1>3. ASSUME NEW p \in Proc, Start(p) PROVE LockTypeOK' /\ TriesInv'
    BY <1>1, <1>3 DEF Start, LockTypeOK, TriesInv, Goto
  <1>4. ASSUME NEW p \in Proc, Create(p) PROVE LockTypeOK' /\ TriesInv'
    <2>1. tries' \in [Proc -> 0..MaxAttempts] /\ clock' \in [Proc -> Time]
      BY <1>1, <1>4 DEF Create, LockTypeOK, TriesInv
    <2>2. lock' \in File BY <1>1, <1>2, <1>4 DEF Create, LockTypeOK
    <2> QED BY <1>1, <1>4, <2>1, <2>2 DEF Create, LockTypeOK, TriesInv, Goto
  <1>5. ASSUME NEW p \in Proc, Write(p) PROVE LockTypeOK' /\ TriesInv'
    <2>1. lock' \in File BY <1>1, <1>2, <1>5 DEF Write, LockTypeOK
    <2> QED BY <1>1, <1>5, <2>1 DEF Write, LockTypeOK, TriesInv, Goto
  <1>6. ASSUME NEW p \in Proc, Confirm(p) PROVE LockTypeOK' /\ TriesInv'
    BY <1>1, <1>6 DEF Confirm, LockTypeOK, TriesInv, Goto
  <1>7. ASSUME NEW p \in Proc, ReadHolder(p) PROVE LockTypeOK' /\ TriesInv'
    <2>1. seen' \in [Proc -> Records \cup {Unreadable}]
      BY <1>1, <1>2, <1>7 DEF ReadHolder, LockTypeOK
    <2> QED BY <1>1, <1>7, <2>1 DEF ReadHolder, LockTypeOK, TriesInv, Goto
  <1>8. ASSUME NEW p \in Proc, Judge(p) PROVE LockTypeOK' /\ TriesInv'
    <2>1. judged' \in [Proc -> File] BY <1>1, <1>8 DEF Judge, LockTypeOK
    <2>2. CASE Unchanged(p) BY <1>1, <1>8, <2>1, <2>2 DEF Judge, LockTypeOK, TriesInv, Goto
    <2>3. CASE ~Unchanged(p)
      <3>1. NextAttempt(p) /\ tries' = tries BY <1>8, <2>3 DEF Judge
      <3>2. TriesInv' BY <1>1, <3>1, NextAttemptKeeps
      <3> QED BY <1>1, <1>8, <2>1, <3>1, <3>2, NextAttemptTypes DEF Judge, LockTypeOK
    <2> QED BY <2>2, <2>3
  <1>9. ASSUME NEW p \in Proc, Unlink(p) PROVE LockTypeOK' /\ TriesInv'
    <2>1. NextAttempt(p) /\ tries' = tries BY <1>9 DEF Unlink
    <2>2. TriesInv' BY <1>1, <2>1, NextAttemptKeeps
    <2>3. lock' \in File BY <1>1, <1>2, <1>9 DEF Unlink, LockTypeOK
    <2>4. robbed' \subseteq Proc BY <1>1, <1>9 DEF Unlink, LockTypeOK
    <2> QED BY <1>1, <1>9, <2>1, <2>2, <2>3, <2>4, NextAttemptTypes DEF Unlink, LockTypeOK
  <1>10. ASSUME NEW p \in Proc, StopSidecar(p) \/ Release(p) \/ Kill(p)
         PROVE  LockTypeOK' /\ TriesInv'
    BY <1>1, <1>10 DEF StopSidecar, Release, Kill, LockTypeOK, TriesInv, Goto
  <1>11. ASSUME NEW p \in Proc, RemoveOwn(p) PROVE LockTypeOK' /\ TriesInv'
    BY <1>1, <1>2, <1>11 DEF RemoveOwn, LockTypeOK, TriesInv, Goto
  <1>12. CASE Tick BY <1>1, <1>12 DEF Tick, LockTypeOK, TriesInv, Time
  <1>13. CASE UNCHANGED lockVars BY <1>1, <1>13 DEF lockVars, LockTypeOK, TriesInv
  <1> QED BY <1>3, <1>4, <1>5, <1>6, <1>7, <1>8, <1>9, <1>10, <1>11, <1>12, <1>13
          DEF LockNext, Acquire, Leave

\* Whoever is attached and was not robbed is named by the lock, after any step:
\* a file is filled by its creator only, a claim counts when it names the
\* claimant, and whoever is named when the file goes is robbed.
LEMMA StepKeepsHolders == LockInv /\ [LockNext]_lockVars => HoldersHold'
  <1> SUFFICES ASSUME LockInv, [LockNext]_lockVars PROVE HoldersHold'
    OBVIOUS
  <1>1. LockTypeOK /\ TriesInv /\ HoldersHold BY DEF LockInv
  <1>2. ASSUME NEW p \in Proc, Start(p) \/ StopSidecar(p) \/ Release(p) \/ Kill(p)
        PROVE  HoldersHold'
    BY <1>1, <1>2
       DEF Start, StopSidecar, Release, Kill, Goto, HoldersHold, Holds, LockTypeOK
  <1>3. ASSUME NEW p \in Proc, Create(p) PROVE HoldersHold'
    <2>1. lock.is # "record" => Attached \subseteq robbed
      BY <1>1 DEF HoldersHold, Holds
    <2>2. Attached' = Attached /\ robbed' = robbed
      BY <1>1, <1>3 DEF Create, Goto, LockTypeOK
    <2>3. CASE lock = Absent BY <2>1, <2>2, <2>3 DEF Absent, HoldersHold
    <2>4. CASE lock # Absent BY <1>1, <1>3, <2>2, <2>4 DEF Create, HoldersHold, Holds
    <2> QED BY <2>3, <2>4
  <1>4. ASSUME NEW p \in Proc, Write(p) PROVE HoldersHold'
    <2>1. lock.is # "record" => Attached \subseteq robbed
      BY <1>1 DEF HoldersHold, Holds
    <2>2. Attached' = Attached /\ robbed' = robbed
      BY <1>1, <1>4 DEF Write, Goto, LockTypeOK
    <2>3. CASE lock = Empty(p) BY <2>1, <2>2, <2>3 DEF Empty, HoldersHold
    <2>4. CASE lock # Empty(p) BY <1>1, <1>4, <2>2, <2>4 DEF Write, HoldersHold, Holds
    <2> QED BY <2>3, <2>4
  <1>5. ASSUME NEW p \in Proc, Confirm(p) PROVE HoldersHold'
    BY <1>1, <1>5 DEF Confirm, Confirmed, Goto, HoldersHold, Holds, LockTypeOK
  <1>6. ASSUME NEW p \in Proc, ReadHolder(p) PROVE HoldersHold'
    BY <1>1, <1>6 DEF ReadHolder, Goto, HoldersHold, Holds, LockTypeOK
  <1>7. ASSUME NEW p \in Proc, Judge(p) PROVE HoldersHold'
    BY <1>1, <1>7 DEF Judge, NextAttempt, Goto, HoldersHold, Holds, LockTypeOK
  <1>8. ASSUME NEW p \in Proc, Unlink(p) PROVE HoldersHold'
    <2>1. Attached' \subseteq Attached BY <1>1, <1>8, NextAttemptKeeps DEF Unlink
    <2>2. CASE UNCHANGED <<lock, robbed>> BY <1>1, <2>1, <2>2 DEF HoldersHold, Holds
    <2>3. CASE robbed' = IF lock.is = "record" /\ lock.by \in Attached
                         THEN robbed \cup {lock.by} ELSE robbed
      <3>1. Attached \subseteq robbed' BY <1>1, <2>3 DEF HoldersHold, Holds
      <3> QED BY <2>1, <3>1 DEF HoldersHold
    <2> QED BY <1>8, <2>2, <2>3 DEF Unlink
  <1>9. ASSUME NEW p \in Proc, RemoveOwn(p) PROVE HoldersHold'
    <2>1. Attached' \subseteq Attached \ {p} BY <1>1, <1>9 DEF RemoveOwn, Goto, LockTypeOK
    <2>2. CASE UNCHANGED <<lock, robbed>> BY <1>1, <2>1, <2>2 DEF HoldersHold, Holds
    <2>3. CASE robbed' = IF lock.is = "record" /\ lock.by \in Attached \ {p}
                         THEN robbed \cup {lock.by} ELSE robbed
      <3>1. Attached \ {p} \subseteq robbed' BY <1>1, <2>3 DEF HoldersHold, Holds
      <3> QED BY <2>1, <3>1 DEF HoldersHold
    <2> QED BY <1>9, <2>2, <2>3 DEF RemoveOwn
  <1>10. CASE Tick BY <1>1, <1>10 DEF Tick, HoldersHold, Holds
  <1>11. CASE UNCHANGED lockVars BY <1>1, <1>11 DEF lockVars, HoldersHold, Holds
  <1> QED BY <1>2, <1>3, <1>4, <1>5, <1>6, <1>7, <1>8, <1>9, <1>10, <1>11
          DEF LockNext, Acquire, Leave

\* Two processes that the one lock names are one process.
LEMMA OneHolder == LockInv => OneUnlessRobbed
  <1> SUFFICES ASSUME LockInv PROVE Cardinality(Attached \ robbed) <= 1
    BY DEF OneUnlessRobbed
  <1>1. Attached \ robbed \subseteq {lock.by} BY DEF LockInv, HoldersHold, Holds
  <1>2. CASE Attached \ robbed = {}
    <2>1. Cardinality({}) = 0 BY FS_EmptySet
    <2> QED BY <1>2, <2>1
  <1>3. CASE Attached \ robbed = {lock.by}
    <2>1. Cardinality({lock.by}) = 1 BY FS_Singleton
    <2> QED BY <1>3, <2>1
  <1> QED BY <1>1, <1>2, <1>3

\* The lock file is created, filled, judged and removed one system call at a
\* time and acquire never passes its bound: the types hold of any number of
\* sidecars.
THEOREM LockTypesHold == LockSpec => []LockTypeOK
  <1>1. LockInv /\ [LockNext]_lockVars => LockInv' BY StepKeepsTypes, StepKeepsHolders DEF LockInv
  <1>2. LockInv => LockTypeOK BY DEF LockInv
  <1> QED BY LockStarts, <1>1, <1>2, PTL DEF LockSpec

\* Of the attached sidecars, however many there are and however they were
\* delayed, at most one still has the lock it confirmed.
THEOREM AtMostOneKeepsItsLock == LockSpec => []OneUnlessRobbed
  <1>1. LockInv /\ [LockNext]_lockVars => LockInv' BY StepKeepsTypes, StepKeepsHolders DEF LockInv
  <1> QED BY LockStarts, <1>1, OneHolder, PTL DEF LockSpec

-----------------------------------------------------------------------------
(* What a process is about to remove.                                      *)

\* A record that is judged was stale when it was read first, and one that is
\* about to be removed is the one that was judged.
JudgedStale == \A p \in Proc :
    /\ stage[p] = "judge" /\ seen[p].is = "record" => IsStale(seen[p], clock[p])
    /\ stage[p] = "unlink" /\ judged[p].is = "record" => IsStale(judged[p], clock[p])

\* It holds at first, when no process has read anything.
LEMMA InitJudges == LockInit => JudgedStale
  BY DEF LockInit, JudgedStale

\* Only the reader itself touches what it read, the time it read it at, and its
\* place between the two readings.
LEMMA StepKeepsJudgement == LockInv /\ JudgedStale /\ [LockNext]_lockVars => JudgedStale'
  <1> SUFFICES ASSUME LockInv, JudgedStale, [LockNext]_lockVars PROVE JudgedStale'
    OBVIOUS
  <1> USE DEF JudgedStale, IsStale
  <1>1. LockTypeOK BY DEF LockInv
  <1>2. ASSUME NEW p \in Proc, Start(p) \/ Write(p) \/ Confirm(p) \/ Leave(p) \/ Kill(p)
        PROVE  JudgedStale'
    BY <1>1, <1>2
       DEF Start, Write, Confirm, Leave, StopSidecar, Release, RemoveOwn, Kill, Goto, LockTypeOK
  <1>3. ASSUME NEW p \in Proc, Create(p) PROVE JudgedStale'
    BY <1>1, <1>3 DEF Create, Goto, LockTypeOK
  <1>4. ASSUME NEW p \in Proc, ReadHolder(p) PROVE JudgedStale'
    <2>1. stage'[p] = "judge" /\ seen'[p].is = "record" => IsStale(seen'[p], clock[p])
      BY <1>1, <1>4 DEF ReadHolder, Readable, Unreadable, Goto, LockTypeOK
    <2> QED BY <1>1, <1>4, <2>1 DEF ReadHolder, Goto, LockTypeOK
  <1>5. ASSUME NEW p \in Proc, Judge(p) PROVE JudgedStale'
    <2>1. stage'[p] = "unlink" /\ judged'[p].is = "record" => IsStale(judged'[p], clock[p])
      BY <1>1, <1>5 DEF Judge, Unchanged, NextAttempt, Goto, LockTypeOK
    <2> QED BY <1>1, <1>5, <2>1 DEF Judge, NextAttempt, Goto, LockTypeOK
  <1>6. ASSUME NEW p \in Proc, Unlink(p) PROVE JudgedStale'
    BY <1>1, <1>6 DEF Unlink, NextAttempt, Goto, LockTypeOK
  <1>7. CASE Tick BY <1>7 DEF Tick
  <1>8. CASE UNCHANGED lockVars BY <1>8 DEF lockVars
  <1> QED BY <1>2, <1>3, <1>4, <1>5, <1>6, <1>7, <1>8 DEF LockNext, Acquire

\* A lock that _break_stale takes from an attached sidecar was stale, or was
\* claimed after the second reading.
THEOREM RobbedForAReason == LockSpec => RobbedWhenStaleOrRaced
  <1> DEFINE Explained == \A p \in Proc : Unlink(p) /\ robbed' # robbed
                              => IsStale(lock, clock[p]) \/ lock # judged[p]
  <1>1. LockInit => LockInv /\ JudgedStale BY LockStarts, InitJudges
  <1>2. LockInv /\ JudgedStale /\ [LockNext]_lockVars => LockInv' /\ JudgedStale'
    BY StepKeepsTypes, StepKeepsHolders, StepKeepsJudgement DEF LockInv
  <1>3. JudgedStale => Explained BY DEF JudgedStale, Unlink
  <1>4. JudgedStale /\ [LockNext]_lockVars => [Explained]_lockVars BY <1>3
  <1> QED BY <1>1, <1>2, <1>4, PTL DEF LockSpec, RobbedWhenStaleOrRaced
================================================================================
