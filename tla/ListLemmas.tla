---------------------------- MODULE ListLemmas ----------------------------
(***************************************************************************)
(* What the operators of Lists and the operators on sequences return, for  *)
(* the proofs about the components that use them.                          *)
(***************************************************************************)
EXTENDS Lists, SequencesExt, SequenceTheorems, FiniteSetTheorems, NaturalsInduction, TLAPS

(* A set of numbers has a least element.                                   *)
LEMMA MinIn ==
  ASSUME NEW S, S \subseteq Nat, S # {}
  PROVE  Min(S) \in S /\ \A y \in S : Min(S) =< y
<1>1. PICK x \in S : \A y \in S : <<y, x>> \notin OpToRel(<, Nat)
  BY NatLessThanWellFounded, WFMin
<1>2. ASSUME NEW y \in S PROVE x =< y
  <2>1. x \in Nat /\ y \in Nat
    OBVIOUS
  <2>2. ~(y < x)
    BY <1>1, <2>1 DEF OpToRel
  <2> QED BY <2>1, <2>2
<1> QED BY <1>1, <1>2 DEF Min

(* InOrder lists the elements of a finite set in ascending order, each     *)
(* where the number of those below it says.                                *)
LEMMA Ranks ==
  ASSUME NEW S, IsFiniteSet(S), S \subseteq Nat
  PROVE  /\ InOrder(S) \in Seq(S)
         /\ Len(InOrder(S)) = Cardinality(S)
         /\ \A i, j \in 1..Len(InOrder(S)) : i < j => InOrder(S)[i] < InOrder(S)[j]
         /\ \A i \in 1..Len(InOrder(S)) : Cardinality({y \in S : y < InOrder(S)[i]}) = i - 1
<1> DEFINE Below(x) == {y \in S : y < x}
           rank == [x \in S |-> Cardinality(Below(x)) + 1]
           c == Cardinality(S)
<1>1. c \in Nat
  BY FS_CardinalityType
<1>2. ASSUME NEW x \in S PROVE /\ IsFiniteSet(Below(x)) /\ Cardinality(Below(x)) \in Nat
                               /\ Cardinality(Below(x)) < c
  <2>1. Below(x) \in SUBSET S /\ x \notin Below(x)
    OBVIOUS
  <2>2. IsFiniteSet(Below(x)) /\ Cardinality(Below(x)) =< c /\ Cardinality(Below(x)) # c
    BY <2>1, FS_Subset
  <2>3. Cardinality(Below(x)) \in Nat
    BY <2>2, FS_CardinalityType
  <2> QED BY <2>2, <2>3, <1>1
<1>3. ASSUME NEW x \in S, NEW y \in S, x < y
      PROVE  Cardinality(Below(x)) < Cardinality(Below(y))
  <2>0. ASSUME NEW z \in Below(x) PROVE z \in Below(y)
    <3>1. z \in Nat /\ x \in Nat /\ y \in Nat /\ z < x /\ z \in S
      OBVIOUS
    <3>2. z < y
      BY <3>1, <1>3
    <3> QED BY <3>1, <3>2
  <2>3. x \in Below(y) /\ x \notin Below(x)
    BY <1>3
  <2>4. Below(x) \in SUBSET Below(y)
    BY <2>0
  <2>1. Below(x) \in SUBSET Below(y) /\ x \in Below(y) /\ x \notin Below(x)
    BY <2>3, <2>4
  <2>2. Cardinality(Below(x)) =< Cardinality(Below(y))
        /\ Cardinality(Below(x)) # Cardinality(Below(y))
    BY <2>1, <1>2, FS_Subset
  <2> QED BY <2>2, <1>2
<1>4. rank \in Injection(S, 1..c)
  <2>1. rank \in [S -> 1..c]
    BY <1>1, <1>2
  <2>2. ASSUME NEW x \in S, NEW y \in S, rank[x] = rank[y] PROVE x = y
    <3>1. Cardinality(Below(x)) = Cardinality(Below(y))
      BY <2>2, <1>2
    <3>2. ~(x < y) /\ ~(y < x)
      BY <3>1, <1>2, <1>3
    <3> QED BY <3>2
  <2> QED BY <2>1, <2>2 DEF Injection, IsInjective
<1>5. IsFiniteSet(1..c) /\ Cardinality(1..c) = c
  BY <1>1, FS_Interval
<1>6. rank \in Surjection(S, 1..c)
  BY <1>4, <1>5, FS_Injection
<1>7. ASSUME NEW i \in 1..c PROVE /\ InOrder(S)[i] \in S
                                  /\ Cardinality(Below(InOrder(S)[i])) = i - 1
  <2>1. PICK x \in S : rank[x] = i
    BY <1>6 DEF Surjection
  <2>2. Cardinality(Below(x)) = i - 1
    BY <2>1, <1>2
  <2>3. InOrder(S)[i] = CHOOSE z \in S : Cardinality(Below(z)) = i - 1
    BY DEF InOrder
  <2> QED BY <2>2, <2>3
<1>8. InOrder(S) \in [1..c -> S]
  BY <1>7 DEF InOrder
<1>9. InOrder(S) \in Seq(S) /\ Len(InOrder(S)) = c
  BY <1>8, <1>1, IsASeq, LenProperties
<1>10. ASSUME NEW i \in 1..c, NEW j \in 1..c, i < j PROVE InOrder(S)[i] < InOrder(S)[j]
  <2>1. ~(InOrder(S)[j] < InOrder(S)[i]) /\ InOrder(S)[j] # InOrder(S)[i]
    <3>1. InOrder(S)[j] < InOrder(S)[i] => j - 1 < i - 1
      BY <1>7, <1>3
    <3>2. InOrder(S)[j] = InOrder(S)[i] => j - 1 = i - 1
      BY <1>7
    <3> QED BY <3>1, <3>2, <1>10, <1>1
  <2>2. InOrder(S)[i] \in Nat /\ InOrder(S)[j] \in Nat
    BY <1>7
  <2> QED BY <2>1, <2>2
<1>11. \A i \in 1..c : Cardinality({y \in S : y < InOrder(S)[i]}) = i - 1
  BY <1>7
<1> QED BY <1>9, <1>10, <1>11

(* The order, without the ranks.                                           *)
LEMMA Ranked ==
  ASSUME NEW S, IsFiniteSet(S), S \subseteq Nat
  PROVE  /\ InOrder(S) \in Seq(S)
         /\ Len(InOrder(S)) = Cardinality(S)
         /\ \A i, j \in 1..Len(InOrder(S)) : i < j => InOrder(S)[i] < InOrder(S)[j]
BY Ranks

(* InOrder leaves none out.                                                *)
LEMMA RankedAll ==
  ASSUME NEW S, IsFiniteSet(S), S \subseteq Nat
  PROVE  \A x \in S : \E i \in 1..Len(InOrder(S)) : InOrder(S)[i] = x
<1> DEFINE o == InOrder(S)
           c == Cardinality(S)
<1>1. /\ o \in Seq(S) /\ Len(o) = c
      /\ \A i, j \in 1..Len(o) : i < j => o[i] < o[j]
  BY Ranked
<1>2. c \in Nat /\ IsFiniteSet(1..c) /\ Cardinality(1..c) = c
  BY FS_CardinalityType, FS_Interval
<1> HIDE DEF o, c
<1>3. o \in [1..c -> S]
  BY <1>1, LenProperties, ElementOfSeq
<1>4. ASSUME NEW i \in 1..c, NEW j \in 1..c, o[i] = o[j] PROVE i = j
  <2>1. i \in Nat /\ j \in Nat
    BY <1>2
  <2>2. o[i] \in S
    BY <1>3
  <2>3. o[i] \in Nat
    BY <2>2
  <2>4. ~(i < j) /\ ~(j < i)
    BY <1>1, <1>4, <2>1, <2>3
  <2> QED BY <2>1, <2>4
<1>5. o \in Injection(1..c, S)
  BY <1>3, <1>4 DEF Injection, IsInjective
<1>6. o \in Surjection(1..c, S)
  BY <1>2, <1>5, FS_Injection DEF c
<1> QED BY <1>1, <1>6 DEF Surjection, o

(* A finite set of numbers has a greatest element, and InOrder ends in it. *)
LEMMA LastRanked ==
  ASSUME NEW S, IsFiniteSet(S), S \subseteq Nat, S # {}
  PROVE  /\ Max(S) \in S /\ \A y \in S : y =< Max(S)
         /\ Cardinality(S) \in Nat \ {0} /\ InOrder(S)[Cardinality(S)] = Max(S)
<1> DEFINE o == InOrder(S)
           c == Cardinality(S)
           x == o[c]
<1>1. c \in Nat /\ c # 0
  BY FS_CardinalityType, FS_EmptySet
<1>2. /\ o \in Seq(S) /\ Len(o) = c
      /\ \A i, j \in 1..Len(o) : i < j => o[i] < o[j]
      /\ \A y \in S : \E i \in 1..Len(o) : o[i] = y
  BY Ranked, RankedAll
<1> HIDE DEF o, c
<1>3. x \in S
  BY <1>1, <1>2, ElementOfSeq
<1>4. ASSUME NEW y \in S PROVE x >= y
  <2>1. PICK i \in 1..c : o[i] = y
    BY <1>2
  <2>2. i = c \/ i < c
    BY <1>1, <2>1
  <2>3. y = x \/ y < x
    BY <1>1, <1>2, <2>1, <2>2
  <2>4. x \in Nat /\ y \in Nat
    BY <1>3
  <2> QED BY <2>3, <2>4
<1> HIDE DEF x
<1>5. Max(S) \in S /\ \A y \in S : Max(S) >= y
  BY <1>3, <1>4 DEF Max
<1>6. Max(S) = x
  <2>1. Max(S) >= x /\ x >= Max(S) /\ x \in Nat /\ Max(S) \in Nat
    BY <1>3, <1>4, <1>5
  <2> QED BY <2>1
<1>7. \A y \in S : y =< Max(S)
  <2> TAKE y \in S
  <2>1. y \in Nat /\ Max(S) \in Nat /\ Max(S) >= y
    BY <1>5
  <2> QED BY <2>1
<1> QED BY <1>1, <1>5, <1>6, <1>7 DEF o, c, x

(* A greater element comes last.                                           *)
LEMMA RankedAppend ==
  ASSUME NEW S, IsFiniteSet(S), S \subseteq Nat, NEW m \in Nat, \A y \in S : y < m
  PROVE  InOrder(S \cup {m}) = Append(InOrder(S), m)
<1> DEFINE T == S \cup {m}
           o == InOrder(S)
           t == InOrder(T)
           a == Append(o, m)
           c == Cardinality(S)
<1>1. m \notin S /\ T \subseteq Nat
  OBVIOUS
<1>2. IsFiniteSet(T) /\ Cardinality(T) = c + 1 /\ c \in Nat
  BY <1>1, FS_AddElement, FS_CardinalityType
<1>3. /\ o \in Seq(S) /\ Len(o) = c
      /\ \A i \in 1..Len(o) : Cardinality({y \in S : y < o[i]}) = i - 1
  BY Ranks
<1>4. S \subseteq T /\ m \in T /\ \A y \in T : y \in S \/ y = m
  OBVIOUS
<1> HIDE DEF T
<1>5. /\ t \in Seq(T) /\ Len(t) = c + 1
      /\ \A i \in 1..Len(t) : Cardinality({y \in T : y < t[i]}) = i - 1
      /\ \A x \in T : \E i \in 1..Len(t) : t[i] = x
  BY <1>1, <1>2, Ranks, RankedAll
<1> HIDE DEF o, t, c
<1>6. o \in Seq(T)
  <2>1. o \in [1..c -> T]
    BY <1>2, <1>3, <1>4, LenProperties, ElementOfSeq
  <2> QED BY <2>1, <1>2, IsASeq
<1>7. /\ a \in Seq(T) /\ Len(a) = c + 1 /\ a[c + 1] = m
      /\ \A i \in 1..c : a[i] = o[i]
  BY <1>3, <1>4, <1>6, AppendProperties
<1> HIDE DEF a
<1>8. ASSUME NEW i \in 1..(c + 1) PROVE t[i] = a[i]
  <2>1. CASE i \in 1..c
    <3>1. o[i] \in S
      BY <2>1, <1>3, ElementOfSeq
    <3> DEFINE x == o[i]
    <3>2. {y \in T : y < x} = {y \in S : y < x}
      <4>1. x < m /\ x \in Nat
        BY <3>1
      <4>2. ~(m < x)
        BY <4>1
      <4> HIDE DEF x
      <4> QED BY <4>2, <1>4
    <3>3. PICK j \in 1..(c + 1) : t[j] = x
      BY <3>1, <1>4, <1>5
    <3>4. Cardinality({y \in T : y < x}) = j - 1
      BY <3>3, <1>5
    <3>5. Cardinality({y \in S : y < x}) = i - 1
      BY <2>1, <1>3
    <3>6. j - 1 = i - 1 /\ i \in Nat /\ j \in Nat
      BY <3>2, <3>4, <3>5, <1>2
    <3>7. i = j
      BY <3>6
    <3> QED BY <3>3, <3>7, <2>1, <1>7
  <2>2. CASE i = c + 1
    <3>1. PICK j \in 1..(c + 1) : t[j] = m
      BY <1>4, <1>5
    <3>2. {y \in T : y < m} = S
      <4>1. ~(m < m)
        OBVIOUS
      <4> QED BY <4>1, <1>4
    <3>3. Cardinality({y \in T : y < m}) = j - 1
      BY <3>1, <1>5
    <3>4. c = j - 1 /\ j \in Nat
      BY <3>2, <3>3, <1>2 DEF c
    <3>5. j = i
      BY <3>4, <2>2, <1>2
    <3> QED BY <3>1, <3>5, <2>2, <1>7
  <2> QED BY <2>1, <2>2, <1>2
<1>9. t = a
  BY <1>5, <1>7, <1>8, SeqEqual
<1> QED BY <1>9 DEF t, a, o, T

(* What holds at 0 and goes from each number to the next holds up to n.    *)
LEMMA UpTo ==
  ASSUME NEW n \in Nat, NEW S, S \subseteq 0..n, 0 \in S,
         \A k \in 1..n : k - 1 \in S => k \in S
  PROVE  S = 0..n
<1> DEFINE R == (0..n) \ S
<1>1. ASSUME R # {} PROVE FALSE
  <2>1. R \subseteq Nat
    OBVIOUS
  <2>2. Min(R) \in R /\ \A y \in R : Min(R) =< y
    <3> HIDE DEF R
    <3> QED BY <1>1, <2>1, MinIn
  <2> DEFINE k == Min(R)
  <2>3. k \in 0..n /\ k \notin S
    BY <2>2
  <2>4. k # 0
    BY <2>3
  <2> HIDE DEF k
  <2>5. k \in 1..n /\ k - 1 \in 0..n
    BY <2>3, <2>4
  <2>6. k - 1 \notin R
    BY <2>2, <2>5 DEF k
  <2>7. k - 1 \in S
    BY <2>5, <2>6
  <2> QED BY <2>3, <2>5, <2>7
<1> QED BY <1>1

(* The values of a loop over 1..n: they start with base, and each number   *)
(* takes a step from the value before.                                     *)
Loops(n, A, base, step) ==
  {f \in [0..n -> A] : f[0] = base /\ \A k \in 1..n : f[k] = step[<<k, f[k - 1]>>]}

(* A loop has such values.                                                 *)
LEMMA LoopExists ==
  ASSUME NEW n \in Nat, NEW A, NEW base \in A, NEW step \in [(1..n) \X A -> A]
  PROVE  Loops(n, A, base, step) # {}
<1> DEFINE Runs(m) == {f \in [0..m -> A] :
                         f[0] = base /\ \A k \in 1..m : f[k] = step[<<k, f[k - 1]>>]}
           S == {m \in 0..n : Runs(m) # {}}
<1>1. 0 \in S
  <2>1. [k \in 0..0 |-> base] \in Runs(0)
    OBVIOUS
  <2> QED BY <2>1
<1>2. ASSUME NEW m \in 1..n, m - 1 \in S PROVE m \in S
  <2>1. PICK f \in Runs(m - 1) : TRUE
    BY <1>2
  <2>2. /\ f \in [0..(m - 1) -> A] /\ f[0] = base
        /\ \A k \in 1..(m - 1) : f[k] = step[<<k, f[k - 1]>>]
    BY <2>1
  <2>3. m - 1 \in 0..(m - 1) /\ f[m - 1] \in A
    BY <2>2
  <2> DEFINE last == step[<<m, f[m - 1]>>]
             g == [k \in 0..m |-> IF k = m THEN last ELSE f[k]]
  <2>4. last \in A
    BY <2>3
  <2> HIDE DEF last
  <2>5. g \in [0..m -> A] /\ g[m] = last /\ \A k \in 0..(m - 1) : g[k] = f[k]
    BY <2>2, <2>4
  <2> HIDE DEF g
  <2>6. ASSUME NEW k \in 1..m PROVE g[k] = step[<<k, g[k - 1]>>]
    <3>1. k - 1 \in 0..(m - 1) /\ g[k - 1] = f[k - 1]
      BY <2>5
    <3>2. CASE k = m
      BY <3>1, <3>2, <2>5 DEF last
    <3>3. CASE k # m
      <4>1. k \in 1..(m - 1) /\ k \in 0..(m - 1)
        BY <3>3
      <4> QED BY <4>1, <3>1, <2>2, <2>5
    <3> QED BY <3>2, <3>3
  <2>7. g[0] = base
    BY <2>2, <2>5
  <2>8. g \in Runs(m)
    BY <2>5, <2>6, <2>7
  <2> QED BY <2>8
<1>3. S \subseteq 0..n
  OBVIOUS
<1>4. \A k \in 1..n : k - 1 \in S => k \in S
  BY <1>2
<1>5. S = 0..n
  <2> HIDE DEF S
  <2> QED BY <1>1, <1>3, <1>4, UpTo
<1>6. n \in S
  BY <1>5
<1> QED BY <1>6 DEF Loops

(* Picked lists the elements at the places given.                          *)
LEMMA PickedSeq ==
  ASSUME NEW A, NEW s \in Seq(A), NEW S \in SUBSET (1..Len(s))
  PROVE  /\ IsFiniteSet(S) /\ S \subseteq Nat /\ InOrder(S) \in Seq(S)
         /\ Picked(s, S) \in Seq(A) /\ Len(Picked(s, S)) = Cardinality(S)
         /\ Len(InOrder(S)) = Cardinality(S)
         /\ \A k \in 1..Cardinality(S) : Picked(s, S)[k] = s[InOrder(S)[k]]
<1> DEFINE at == InOrder(S)
<1>1. Len(s) \in Nat /\ \A i \in 1..Len(s) : s[i] \in A
  BY LenProperties, ElementOfSeq
<1>2. IsFiniteSet(S) /\ S \subseteq Nat
  <2>1. IsFiniteSet(1..Len(s))
    BY <1>1, FS_Interval
  <2>2. S \in SUBSET (1..Len(s))
    OBVIOUS
  <2>3. S \subseteq Nat
    BY <1>1, <2>2
  <2> QED BY <2>1, <2>2, <2>3, FS_Subset
<1>3. at \in Seq(S) /\ Len(at) = Cardinality(S)
  BY <1>2, Ranked
<1>4. Picked(s, S) = [k \in DOMAIN at |-> s[at[k]]]
  BY DEF Picked
<1> HIDE DEF at
<1>5. DOMAIN at = 1..Len(at) /\ Len(at) \in Nat /\ \A k \in 1..Len(at) : at[k] \in S
  BY <1>3, LenProperties, ElementOfSeq
<1>6. Picked(s, S) \in [1..Len(at) -> A]
  BY <1>1, <1>4, <1>5
<1>7. Picked(s, S) \in Seq(A) /\ Len(Picked(s, S)) = Len(at)
  BY <1>5, <1>6, IsASeq, LenProperties
<1> QED BY <1>2, <1>3, <1>4, <1>5, <1>7 DEF at

(* First finds a place that is there.                                      *)
LEMMA FirstIn ==
  ASSUME NEW A, NEW s \in Seq(A), NEW id, Has(s, id)
  PROVE  First(s, id) \in 1..Len(s) /\ s[First(s, id)].id = id
<1>1. DOMAIN s = 1..Len(s) /\ Len(s) \in Nat
  BY LenProperties
<1>2. Places(s, id) \subseteq Nat /\ Places(s, id) # {}
  BY <1>1 DEF Has, Places
<1>3. First(s, id) \in Places(s, id)
  BY <1>2, MinIn DEF First
<1> QED BY <1>1, <1>3 DEF Places

(* Without is a list of elements of the list.                              *)
LEMMA WithoutSeq ==
  ASSUME NEW A, NEW s \in Seq(A), NEW id
  PROVE  Without(s, id) \in Seq(A)
<1> DEFINE S == DOMAIN s \ Places(s, id)
           keep == InOrder(S)
<1>1. DOMAIN s = 1..Len(s) /\ Len(s) \in Nat /\ \A i \in 1..Len(s) : s[i] \in A
  BY LenProperties, ElementOfSeq
<1>2. IsFiniteSet(S) /\ S \subseteq Nat
  <2>1. IsFiniteSet(1..Len(s))
    BY <1>1, FS_Interval
  <2> QED BY <2>1, <1>1, FS_Subset
<1>3. keep \in Seq(S)
  <2> HIDE DEF S
  <2> QED BY <1>2, Ranked
<1> HIDE DEF keep
<1>4. DOMAIN keep = 1..Len(keep) /\ Len(keep) \in Nat /\ \A k \in 1..Len(keep) : keep[k] \in S
  BY <1>3, LenProperties, ElementOfSeq
<1>5. [k \in DOMAIN keep |-> s[keep[k]]] \in [1..Len(keep) -> A]
  BY <1>1, <1>4
<1>6. Without(s, id) = [k \in DOMAIN keep |-> s[keep[k]]]
  BY DEF Without, Picked, keep
<1> QED BY <1>4, <1>5, <1>6, IsASeq

(* Without leaves out what has the id and nothing else, and repeats none.  *)
LEMMA WithoutKeeps ==
  ASSUME NEW A, NEW s \in Seq(A), NEW id
  PROVE  /\ \A k \in DOMAIN Without(s, id) :
              /\ Without(s, id)[k].id # id
              /\ \E j \in DOMAIN s : Without(s, id)[k] = s[j]
         /\ \A j \in DOMAIN s : s[j].id # id =>
              \E k \in DOMAIN Without(s, id) : Without(s, id)[k] = s[j]
         /\ (\A i, j \in DOMAIN s : s[i].id = s[j].id => i = j) =>
              \A k, l \in DOMAIN Without(s, id) :
                Without(s, id)[k].id = Without(s, id)[l].id => k = l
<1> DEFINE S == DOMAIN s \ Places(s, id)
           keep == InOrder(S)
           w == Without(s, id)
<1>1. DOMAIN s = 1..Len(s) /\ Len(s) \in Nat
  BY LenProperties
<1>2. IsFiniteSet(S) /\ S \subseteq Nat
  <2>1. IsFiniteSet(1..Len(s))
    BY <1>1, FS_Interval
  <2> QED BY <2>1, <1>1, FS_Subset
<1>3. \A j \in DOMAIN s : j \in S <=> s[j].id # id
  BY DEF Places
<1>4. w = [k \in DOMAIN keep |-> s[keep[k]]]
  BY DEF Without, Picked
<1>5. /\ keep \in Seq(S) /\ \A i, j \in 1..Len(keep) : i < j => keep[i] < keep[j]
      /\ \A x \in S : \E i \in 1..Len(keep) : keep[i] = x
  <2> HIDE DEF S
  <2> QED BY <1>2, Ranked, RankedAll
<1> HIDE DEF keep, w
<1>6. DOMAIN keep = 1..Len(keep) /\ Len(keep) \in Nat /\ \A k \in 1..Len(keep) : keep[k] \in S
  BY <1>5, LenProperties, ElementOfSeq
<1>7. DOMAIN w = 1..Len(keep) /\ \A k \in 1..Len(keep) : w[k] = s[keep[k]] /\ keep[k] \in S
  BY <1>4, <1>6
<1>8. S \subseteq DOMAIN s
  OBVIOUS
<1>9. ASSUME NEW k \in DOMAIN w PROVE w[k].id # id /\ \E j \in DOMAIN s : w[k] = s[j]
  <2>1. w[k] = s[keep[k]] /\ keep[k] \in S /\ keep[k] \in DOMAIN s
    BY <1>7, <1>8
  <2> QED BY <2>1, <1>3
<1>10. ASSUME NEW j \in DOMAIN s, s[j].id # id PROVE \E k \in DOMAIN w : w[k] = s[j]
  <2>1. PICK i \in 1..Len(keep) : keep[i] = j
    BY <1>3, <1>5, <1>10
  <2> QED BY <2>1, <1>7
<1>11. ASSUME \A i, j \in DOMAIN s : s[i].id = s[j].id => i = j,
              NEW k \in DOMAIN w, NEW l \in DOMAIN w, w[k].id = w[l].id
       PROVE  k = l
  <2>1. keep[k] = keep[l] /\ keep[k] \in Nat /\ k \in 1..Len(keep) /\ l \in 1..Len(keep)
    BY <1>2, <1>7, <1>8, <1>11
  <2>2. /\ k < l => keep[k] < keep[l]
        /\ l < k => keep[l] < keep[k]
    BY <1>5, <2>1
  <2>3. k \in Nat /\ l \in Nat
    BY <1>6, <2>1
  <2> QED BY <2>1, <2>2, <2>3
<1>12. \A k \in DOMAIN w : w[k].id # id /\ \E j \in DOMAIN s : w[k] = s[j]
  BY <1>9
<1>13. \A j \in DOMAIN s : s[j].id # id => \E k \in DOMAIN w : w[k] = s[j]
  BY <1>10
<1>14. (\A i, j \in DOMAIN s : s[i].id = s[j].id => i = j) =>
         \A k, l \in DOMAIN w : w[k].id = w[l].id => k = l
  BY <1>11
<1> QED BY <1>12, <1>13, <1>14 DEF w

(* ReplaceAt changes one element of a list.                                *)
LEMMA ReplaceAtSeq ==
  ASSUME NEW A, NEW s \in Seq(A), NEW i \in 1..Len(s), NEW x \in A
  PROVE  /\ ReplaceAt(s, i, x) \in Seq(A) /\ Len(ReplaceAt(s, i, x)) = Len(s)
         /\ \A j \in 1..Len(s) : ReplaceAt(s, i, x)[j] = IF j = i THEN x ELSE s[j]
<1>1. s \in [1..Len(s) -> A] /\ Len(s) \in Nat
  BY LenProperties, ElementOfSeq
<1>2. ReplaceAt(s, i, x) \in [1..Len(s) -> A]
  BY <1>1 DEF ReplaceAt
<1>3. ReplaceAt(s, i, x) \in Seq(A) /\ Len(ReplaceAt(s, i, x)) = Len(s)
  BY <1>1, <1>2, IsASeq, LenProperties
<1> QED BY <1>1, <1>3 DEF ReplaceAt

(* RemoveAt drops one element and moves the later ones up.                 *)
LEMMA RemoveAtSeq ==
  ASSUME NEW A, NEW s \in Seq(A), NEW i \in 1..Len(s)
  PROVE  /\ RemoveAt(s, i) \in Seq(A) /\ Len(RemoveAt(s, i)) = Len(s) - 1
         /\ \A j \in 1..(Len(s) - 1) : RemoveAt(s, i)[j] = IF j < i THEN s[j] ELSE s[j + 1]
<1> DEFINE a == SubSeq(s, 1, i - 1)
           b == SubSeq(s, i + 1, Len(s))
<1>1. Len(s) \in Nat /\ i \in Nat /\ \A j \in 1..Len(s) : s[j] \in A
  BY LenProperties, ElementOfSeq
<1>2. a \in Seq(A) /\ Len(a) = i - 1 /\ \A j \in 1..(i - 1) : a[j] = s[j]
  <2>1. \A j \in 1..(i - 1) : s[j] \in A
    BY <1>1
  <2>2. /\ a \in Seq(A) /\ Len(a) = IF 1 =< i - 1 THEN (i - 1) - 1 + 1 ELSE 0
        /\ \A j \in 1..((i - 1) - 1 + 1) : a[j] = s[1 + j - 1]
    BY <2>1, <1>1, SubSeqProperties
  <2> HIDE DEF a
  <2> QED BY <2>2, <1>1
<1>3. b \in Seq(A) /\ Len(b) = Len(s) - i /\ \A j \in 1..(Len(s) - i) : b[j] = s[i + j]
  <2>1. \A j \in (i + 1)..Len(s) : s[j] \in A
    BY <1>1
  <2>2. /\ b \in Seq(A) /\ Len(b) = IF i + 1 =< Len(s) THEN Len(s) - (i + 1) + 1 ELSE 0
        /\ \A j \in 1..(Len(s) - (i + 1) + 1) : b[j] = s[(i + 1) + j - 1]
    BY <2>1, <1>1, SubSeqProperties
  <2> HIDE DEF b
  <2>3. \A j \in 1..(Len(s) - i) : b[j] = s[i + j]
    <3> TAKE j \in 1..(Len(s) - i)
    <3>1. j \in 1..(Len(s) - (i + 1) + 1) /\ (i + 1) + j - 1 = i + j
      BY <1>1
    <3> QED BY <3>1, <2>2
  <2> QED BY <2>2, <2>3, <1>1
<1>4. RemoveAt(s, i) = a \o b
  BY DEF RemoveAt
<1> HIDE DEF a, b
<1>5. /\ a \o b \in Seq(A) /\ Len(a \o b) = Len(a) + Len(b)
      /\ \A j \in 1..(Len(a) + Len(b)) :
           (a \o b)[j] = IF j =< Len(a) THEN a[j] ELSE b[j - Len(a)]
  BY <1>2, <1>3, ConcatProperties
<1>6. ASSUME NEW j \in 1..(Len(s) - 1)
      PROVE  (a \o b)[j] = IF j < i THEN s[j] ELSE s[j + 1]
  <2>0. j \in 1..(Len(a) + Len(b)) /\ j \in Nat
    BY <1>1, <1>2, <1>3
  <2>1. CASE j < i
    <3>1. j =< Len(a) /\ j \in 1..(i - 1)
      BY <2>0, <2>1, <1>1, <1>2
    <3> QED BY <3>1, <2>0, <2>1, <1>2, <1>5
  <2>2. CASE ~(j < i)
    <3>1. ~(j =< Len(a)) /\ j - Len(a) \in 1..(Len(s) - i) /\ i + (j - Len(a)) = j + 1
      BY <2>0, <2>2, <1>1, <1>2
    <3>2. (a \o b)[j] = b[j - Len(a)]
      BY <3>1, <2>0, <1>5
    <3>3. b[j - Len(a)] = s[j + 1]
      BY <3>1, <1>3
    <3> QED BY <3>2, <3>3, <2>2
  <2> QED BY <2>1, <2>2
<1>7. Len(a \o b) = Len(s) - 1
  BY <1>1, <1>2, <1>3, <1>5
<1> QED BY <1>4, <1>5, <1>6, <1>7

-----------------------------------------------------------------------------
(* A function applied to every element of a list: it commutes with what    *)
(* the updates do to lists.                                                *)
Mapped(s, F) == [i \in DOMAIN s |-> F[s[i]]]

(* The image of a list has its length and the images as elements.          *)
LEMMA MappedSeq ==
  ASSUME NEW A, NEW F \in [A -> A], NEW s \in Seq(A)
  PROVE  /\ Mapped(s, F) \in Seq(A) /\ Len(Mapped(s, F)) = Len(s)
         /\ DOMAIN Mapped(s, F) = DOMAIN s
         /\ \A i \in 1..Len(s) : Mapped(s, F)[i] = F[s[i]]
<1>1. DOMAIN s = 1..Len(s) /\ Len(s) \in Nat /\ \A i \in 1..Len(s) : s[i] \in A
  BY LenProperties, ElementOfSeq
<1>2. Mapped(s, F) \in [1..Len(s) -> A]
  BY <1>1 DEF Mapped
<1>3. Mapped(s, F) \in Seq(A) /\ Len(Mapped(s, F)) = Len(s)
  BY <1>1, <1>2, IsASeq, LenProperties
<1> QED BY <1>1, <1>3 DEF Mapped

(* Mapping after an Append.                                                *)
LEMMA MappedAppend ==
  ASSUME NEW A, NEW F \in [A -> A], NEW s \in Seq(A), NEW x \in A
  PROVE  Mapped(Append(s, x), F) = Append(Mapped(s, F), F[x])
<1> DEFINE t == Append(s, x)
           m == Mapped(s, F)
           u == Mapped(t, F)
           v == Append(m, F[x])
<1>1. /\ t \in Seq(A) /\ Len(t) = Len(s) + 1 /\ t[Len(s) + 1] = x
      /\ \A i \in 1..Len(s) : t[i] = s[i]
  BY AppendProperties
<1>2. m \in Seq(A) /\ Len(m) = Len(s) /\ \A i \in 1..Len(s) : m[i] = F[s[i]]
  BY MappedSeq
<1>3. u \in Seq(A) /\ Len(u) = Len(t) /\ \A i \in 1..Len(t) : u[i] = F[t[i]]
  <2>1. t \in Seq(A)
    BY <1>1
  <2> HIDE DEF t
  <2> QED BY <2>1, MappedSeq
<1> HIDE DEF m
<1>4. /\ v \in Seq(A) /\ Len(v) = Len(m) + 1 /\ v[Len(m) + 1] = F[x]
      /\ \A i \in 1..Len(m) : v[i] = m[i]
  BY <1>2, AppendProperties
<1>5. Len(s) \in Nat
  BY LenProperties
<1> HIDE DEF t, u, v
<1>6. Len(u) = Len(v)
  BY <1>1, <1>2, <1>3, <1>4
<1>7. ASSUME NEW i \in 1..Len(u) PROVE u[i] = v[i]
  <2>1. i \in 1..(Len(s) + 1) /\ u[i] = F[t[i]]
    BY <1>1, <1>3
  <2>2. CASE i \in 1..Len(s)
    BY <2>1, <2>2, <1>1, <1>2, <1>4
  <2>3. CASE i = Len(s) + 1
    BY <2>1, <2>3, <1>1, <1>2, <1>4
  <2> QED BY <2>1, <2>2, <2>3, <1>5
<1>8. u = v
  BY <1>3, <1>4, <1>6, <1>7, SeqEqual
<1> QED BY <1>8 DEF t, u, v, m

(* Mapping after a replacement.                                            *)
LEMMA MappedReplace ==
  ASSUME NEW A, NEW F \in [A -> A], NEW s \in Seq(A), NEW i \in 1..Len(s), NEW x \in A
  PROVE  Mapped(ReplaceAt(s, i, x), F) = ReplaceAt(Mapped(s, F), i, F[x])
<1> DEFINE t == ReplaceAt(s, i, x)
           m == Mapped(s, F)
           u == Mapped(t, F)
           v == ReplaceAt(m, i, F[x])
<1>1. /\ t \in Seq(A) /\ Len(t) = Len(s)
      /\ \A j \in 1..Len(s) : t[j] = IF j = i THEN x ELSE s[j]
  BY ReplaceAtSeq
<1>2. m \in Seq(A) /\ Len(m) = Len(s) /\ \A j \in 1..Len(s) : m[j] = F[s[j]]
  BY MappedSeq
<1>3. u \in Seq(A) /\ Len(u) = Len(t) /\ \A j \in 1..Len(t) : u[j] = F[t[j]]
  <2>1. t \in Seq(A)
    BY <1>1
  <2> HIDE DEF t
  <2> QED BY <2>1, MappedSeq
<1> HIDE DEF m
<1>4. /\ v \in Seq(A) /\ Len(v) = Len(m)
      /\ \A j \in 1..Len(m) : v[j] = IF j = i THEN F[x] ELSE m[j]
  <2>1. F[x] \in A /\ i \in 1..Len(m)
    BY <1>2
  <2> DEFINE y == F[x]
  <2>2. m \in Seq(A) /\ y \in A
    BY <1>2, <2>1
  <2> HIDE DEF y
  <2>3. /\ ReplaceAt(m, i, y) \in Seq(A) /\ Len(ReplaceAt(m, i, y)) = Len(m)
        /\ \A j \in 1..Len(m) : ReplaceAt(m, i, y)[j] = IF j = i THEN y ELSE m[j]
    BY <2>1, <2>2, ReplaceAtSeq
  <2> QED BY <2>3 DEF y
<1> HIDE DEF t, u, v
<1>5. u = v
  BY <1>1, <1>2, <1>3, <1>4, SeqEqual
<1> QED BY <1>5 DEF t, u, v, m

(* Mapping after a removal.                                                *)
LEMMA MappedRemove ==
  ASSUME NEW A, NEW F \in [A -> A], NEW s \in Seq(A), NEW i \in 1..Len(s)
  PROVE  Mapped(RemoveAt(s, i), F) = RemoveAt(Mapped(s, F), i)
<1> DEFINE t == RemoveAt(s, i)
           m == Mapped(s, F)
           u == Mapped(t, F)
           v == RemoveAt(m, i)
<1>1. /\ t \in Seq(A) /\ Len(t) = Len(s) - 1
      /\ \A j \in 1..(Len(s) - 1) : t[j] = IF j < i THEN s[j] ELSE s[j + 1]
  BY RemoveAtSeq
<1>2. m \in Seq(A) /\ Len(m) = Len(s) /\ \A j \in 1..Len(s) : m[j] = F[s[j]]
  BY MappedSeq
<1>3. u \in Seq(A) /\ Len(u) = Len(t) /\ \A j \in 1..Len(t) : u[j] = F[t[j]]
  <2>1. t \in Seq(A)
    BY <1>1
  <2> HIDE DEF t
  <2> QED BY <2>1, MappedSeq
<1> HIDE DEF m
<1>4. /\ v \in Seq(A) /\ Len(v) = Len(m) - 1
      /\ \A j \in 1..(Len(m) - 1) : v[j] = IF j < i THEN m[j] ELSE m[j + 1]
  BY <1>2, RemoveAtSeq
<1>0. Len(s) \in Nat
  BY LenProperties
<1> HIDE DEF t, u, v
<1>6. ASSUME NEW j \in 1..Len(u) PROVE u[j] = v[j]
  <2>1. j \in 1..(Len(s) - 1) /\ j \in 1..Len(s) /\ j + 1 \in 1..Len(s) /\ u[j] = F[t[j]]
    BY <1>0, <1>1, <1>3
  <2>2. v[j] = IF j < i THEN m[j] ELSE m[j + 1]
    BY <2>1, <1>2, <1>4
  <2> QED BY <2>1, <2>2, <1>1, <1>2
<1>7. Len(u) = Len(v)
  BY <1>1, <1>2, <1>3, <1>4
<1>5. u = v
  BY <1>3, <1>4, <1>6, <1>7, SeqEqual
<1> QED BY <1>5 DEF t, u, v, m

(* A function that keeps the ids keeps what searches and filters find.     *)
LEMMA MappedSearch ==
  ASSUME NEW A, NEW F \in [A -> A], \A x \in A : F[x].id = x.id,
         NEW s \in Seq(A), NEW id
  PROVE  /\ Has(Mapped(s, F), id) <=> Has(s, id)
         /\ First(Mapped(s, F), id) = First(s, id)
         /\ Without(Mapped(s, F), id) = Mapped(Without(s, id), F)
<1> DEFINE m == Mapped(s, F)
<1>1. DOMAIN m = DOMAIN s /\ \A i \in DOMAIN s : m[i] = F[s[i]]
  BY DEF Mapped
<1>2. \A i \in DOMAIN s : s[i] \in A
  BY LenProperties, ElementOfSeq
<1> HIDE DEF m
<1>3. Places(m, id) = Places(s, id)
  BY <1>1, <1>2 DEF Places
<1>4. Without(m, id) = Mapped(Without(s, id), F)
  <2> DEFINE S == DOMAIN s \ Places(s, id)
             keep == InOrder(S)
  <2>1. DOMAIN s = 1..Len(s) /\ Len(s) \in Nat
    BY LenProperties
  <2>2. IsFiniteSet(S) /\ S \subseteq Nat /\ S \subseteq DOMAIN s
    <3>1. IsFiniteSet(1..Len(s))
      BY <2>1, FS_Interval
    <3> QED BY <3>1, <2>1, FS_Subset
  <2>3. keep \in Seq(S)
    <3> HIDE DEF S
    <3> QED BY <2>2, Ranked
  <2>4. Without(s, id) = [k \in DOMAIN keep |-> s[keep[k]]]
    BY DEF Without, Picked
  <2>5. Without(m, id) = [k \in DOMAIN keep |-> m[keep[k]]]
    BY <1>1, <1>3 DEF Without, Picked
  <2> HIDE DEF keep
  <2>6. \A k \in DOMAIN keep : keep[k] \in DOMAIN s
    BY <2>2, <2>3, LenProperties, ElementOfSeq
  <2> QED BY <2>4, <2>5, <2>6, <1>1 DEF Mapped
<1> QED BY <1>3, <1>4 DEF Has, First, m

(* A mapping that a second one hides.                                      *)
LEMMA MappedTwice ==
  ASSUME NEW A, NEW F \in [A -> A], NEW G \in [A -> A],
         \A x \in A : G[F[x]] = G[x], NEW s \in Seq(A)
  PROVE  Mapped(Mapped(s, F), G) = Mapped(s, G)
<1>1. \A i \in DOMAIN s : s[i] \in A
  BY LenProperties, ElementOfSeq
<1> QED BY <1>1 DEF Mapped
=============================================================================
