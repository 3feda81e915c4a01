--------------------------- MODULE SublistProofs ----------------------------
(* What the proofs need of lists: least places, recursion along a list,      *)
(* sublists, ascending lists.  Induction over a list is a least              *)
(* counterexample: the library's induction theorems take an operator.        *)
EXTENDS Sublists, FiniteSetTheorems, WellFoundedInduction, TLAPS

(* Min finds the least of any numbers.                                       *)
LEMMA Least ==
  ASSUME NEW S \in SUBSET Nat, S # {}
  PROVE  Min(S) \in S /\ \A j \in S : Min(S) <= j
<1>1. \E i \in S : \A j \in S : ~(<<j, i>> \in OpToRel(<, Nat))
  BY NatLessThanWellFounded, WFMin
<1>2. PICK i \in S : \A j \in S : ~(<<j, i>> \in OpToRel(<, Nat))
  BY <1>1
<1>3. \A j \in S : ~(j < i)
  BY <1>2 DEF OpToRel
<1>4. \A j \in S : i <= j
  BY <1>3
<1> QED BY <1>4 DEF Min

(* What holds at 0, and at a number if it does at the one before, holds.     *)
LEMMA Induction ==
  ASSUME NEW n \in Nat, NEW good, 0 \in good,
         \A i \in 1 .. n : i - 1 \in good => i \in good
  PROVE  \A i \in 0 .. n : i \in good
<1> DEFINE bad == {i \in 0 .. n : i \notin good}
<1>1. SUFFICES ASSUME bad # {} PROVE FALSE
  OBVIOUS
<1>2. bad \in SUBSET Nat
  OBVIOUS
<1>3. PICK i \in bad : \A j \in bad : i <= j
  BY <1>1, <1>2, Least
<1>4. i \in 1 .. n /\ i - 1 \in 0 .. n /\ ~(i <= i - 1)
  OBVIOUS
<1>5. i - 1 \in good
  BY <1>3, <1>4
<1> QED BY <1>4, <1>5

IsStep(n, V, step) == step \in [(1 .. n) \X V -> V]

Iterated(f, n, V, base, step) ==
  /\ f \in [0 .. n -> V] /\ f[0] = base
  /\ \A i \in 1 .. n : f[i] = step[<<i, f[i - 1]>>]

(* A function can be defined along the numbers, each value from the last.    *)
LEMMA Iterates ==
  ASSUME NEW n \in Nat, NEW V, NEW base \in V, NEW step, IsStep(n, V, step)
  PROVE  \E f : Iterated(f, n, V, base, step)
<1> USE DEF IsStep, Iterated
<1> DEFINE Upto(m, f) == f[0] = base /\ \A i \in 1 .. m : f[i] = step[<<i, f[i - 1]>>]
           good == {m \in 0 .. n : \E f \in [0 .. m -> V] : Upto(m, f)}
<1>1. 0 \in good
  <2> DEFINE f == [i \in 0 .. 0 |-> base]
  <2>1. f \in [0 .. 0 -> V] /\ Upto(0, f)
    OBVIOUS
  <2> HIDE DEF f, Upto
  <2> QED BY <2>1
<1>2. ASSUME NEW m \in 1 .. n, m - 1 \in good PROVE m \in good
  <2>1. PICK f \in [0 .. m - 1 -> V] : Upto(m - 1, f)
    BY <1>2
  <2> DEFINE v == step[<<m, f[m - 1]>>]
             g == [i \in 0 .. m |-> IF i = m THEN v ELSE f[i]]
  <2>2. m - 1 \in 0 .. m - 1 /\ f[m - 1] \in V
    OBVIOUS
  <2>3. v \in V
    BY <2>2
  <2> HIDE DEF v
  <2>4. g \in [0 .. m -> V]
    BY <2>3
  <2>5. g[0] = base
    BY <2>1
  <2>6. ASSUME NEW i \in 1 .. m - 1 PROVE g[i] = step[<<i, g[i - 1]>>]
    <3>1. i # m /\ i - 1 # m /\ i \in 0 .. m /\ i - 1 \in 0 .. m
      OBVIOUS
    <3>2. f[i] = step[<<i, f[i - 1]>>]
      BY <2>1
    <3> QED BY <3>1, <3>2
  <2>7. g[m] = step[<<m, g[m - 1]>>]
    <3>1. m \in 0 .. m /\ m - 1 \in 0 .. m /\ m - 1 # m
      OBVIOUS
    <3> QED BY <3>1 DEF v
  <2>8. Upto(m, g)
    <3>1. \A i \in 1 .. m : i \in 1 .. m - 1 \/ i = m
      OBVIOUS
    <3> HIDE DEF g
    <3> QED BY <2>5, <2>6, <2>7, <3>1
  <2> HIDE DEF g, Upto
  <2> QED BY <2>4, <2>8
<1>3. n \in good
  <2> HIDE DEF good
  <2> QED BY <1>1, <1>2, Induction
<1> QED BY <1>3

(* The rank of a member of S.                                                *)
LEMMA Ranks ==
  ASSUME NEW S \in SUBSET Nat, IsFiniteSet(S)
  PROVE  \A p \in 1 .. Cardinality(S) :
           \E i \in S : Cardinality({j \in S : j < i}) = p - 1
<1> DEFINE n == Cardinality(S)
           Below(i) == {j \in S : j < i}
           f == [i \in S |-> Cardinality(Below(i)) + 1]
<1>1. n \in Nat
  BY FS_CardinalityType
<1>2. ASSUME NEW i \in S PROVE IsFiniteSet(Below(i)) /\ Cardinality(Below(i)) \in 0 .. n - 1
  <2>1. Below(i) \in SUBSET S /\ i \notin Below(i)
    OBVIOUS
  <2>2. IsFiniteSet(Below(i)) /\ Cardinality(Below(i)) <= n /\ (n = Cardinality(Below(i)) => S = Below(i))
    BY <2>1, FS_Subset
  <2>3. Cardinality(Below(i)) \in Nat
    BY <2>2, FS_CardinalityType
  <2> QED BY <1>1, <2>1, <2>2, <2>3
<1>3. ASSUME NEW i \in S, NEW k \in S, i < k PROVE f[i] # f[k]
  <2>0. S \subseteq Nat /\ i \in Nat /\ k \in Nat
    OBVIOUS
  <2>1. Below(i) \in SUBSET Below(k) /\ i \in Below(k) /\ i \notin Below(i)
    <3>1. \A j \in S : j < i => j < k
      BY <1>3, <2>0
    <3>2. ~(i < i)
      BY <2>0
    <3> QED BY <1>3, <3>1, <3>2
  <2>2. Cardinality(Below(i)) <= Cardinality(Below(k)) /\ Cardinality(Below(i)) # Cardinality(Below(k))
    BY <1>2, <2>1, FS_Subset
  <2>3. Cardinality(Below(i)) \in Nat /\ Cardinality(Below(k)) \in Nat
    BY <1>2
  <2> HIDE DEF Below
  <2> QED BY <2>2, <2>3
<1>4. f \in Injection(S, 1 .. n)
  <2>1. f \in [S -> 1 .. n]
    <3>1. \A i \in S : Cardinality(Below(i)) + 1 \in 1 .. n
      BY <1>1, <1>2
    <3> HIDE DEF Below, n
    <3> QED BY <3>1
  <2>2. \A i, k \in S : f[i] = f[k] => i = k
    <3>1. \A i, k \in S : i < k \/ k < i \/ i = k
      OBVIOUS
    <3>2. \A i, k \in S : i < k => f[i] # f[k]
      BY <1>3
    <3> HIDE DEF f
    <3> QED BY <3>1, <3>2
  <2> HIDE DEF f
  <2> QED BY <2>1, <2>2 DEF Injection, IsInjective
<1>5. IsFiniteSet(1 .. n) /\ Cardinality(1 .. n) = n
  BY <1>1, FS_Interval
<1>6. f \in Surjection(S, 1 .. n)
  BY <1>4, <1>5, FS_Injection
<1>7. ASSUME NEW p \in 1 .. n PROVE \E i \in S : Cardinality(Below(i)) = p - 1
  <2>1. PICK i \in S : f[i] = p
    BY <1>6 DEF Surjection
  <2>2. Cardinality(Below(i)) + 1 = p /\ Cardinality(Below(i)) \in Nat
    BY <1>2, <2>1
  <2>3. Cardinality(Below(i)) = p - 1
    BY <2>2
  <2> HIDE DEF Below
  <2> QED BY <2>3
<1> QED BY <1>7

(* Ascending lists every member of a set of numbers, the least first.        *)
LEMMA AscendingLists ==
  ASSUME NEW S \in SUBSET Nat, IsFiniteSet(S)
  PROVE  /\ Ascending(S) \in Seq(S) /\ Len(Ascending(S)) = Cardinality(S)
         /\ \A p \in 1 .. Cardinality(S) :
              Cardinality({j \in S : j < Ascending(S)[p]}) = p - 1
         /\ \A i \in S : \E p \in 1 .. Cardinality(S) : Ascending(S)[p] = i
         /\ \A p, q \in 1 .. Cardinality(S) : Ascending(S)[p] = Ascending(S)[q] => p = q
<1> DEFINE n == Cardinality(S)
           Below(i) == {j \in S : j < i}
<1>1. n \in Nat
  BY FS_CardinalityType
<1>2. ASSUME NEW p \in 1 .. n
      PROVE  Ascending(S)[p] \in S /\ Cardinality(Below(Ascending(S)[p])) = p - 1
  <2>1. \E i \in S : Cardinality(Below(i)) = p - 1
    BY Ranks
  <2>2. Ascending(S)[p] = CHOOSE i \in S : Cardinality(Below(i)) = p - 1
    BY DEF Ascending
  <2> HIDE DEF Below
  <2> QED BY <2>1, <2>2
<1>3. Ascending(S) \in [1 .. n -> S]
  <2> DEFINE G(p) == CHOOSE i \in S : Cardinality(Below(i)) = p - 1
  <2>0. Ascending(S) = [p \in 1 .. n |-> G(p)]
    BY DEF Ascending
  <2> HIDE DEF G, n
  <2>1. Ascending(S) = [p \in 1 .. n |-> Ascending(S)[p]]
    BY <2>0
  <2> QED BY <1>2, <2>1
<1>4. Ascending(S) \in Seq(S) /\ Len(Ascending(S)) = n
  BY <1>1, <1>3
<1>5. ASSUME NEW p \in 1 .. n, NEW q \in 1 .. n, Ascending(S)[p] = Ascending(S)[q] PROVE p = q
  <2>1. p - 1 = q - 1
    BY <1>2, <1>5
  <2> QED BY <1>1, <2>1
<1>6. Ascending(S) \in Injection(1 .. n, S)
  BY <1>3, <1>5 DEF Injection, IsInjective
<1>7. IsFiniteSet(1 .. n) /\ Cardinality(1 .. n) = n
  BY <1>1, FS_Interval
<1>8. Ascending(S) \in Surjection(1 .. n, S)
  BY <1>6, <1>7, FS_Injection
<1>9. \A i \in S : \E p \in 1 .. n : Ascending(S)[p] = i
  BY <1>8 DEF Surjection
<1> QED BY <1>2, <1>4, <1>5, <1>9

-----------------------------------------------------------------------------
(* The members of a longer list.                                             *)
LEMMA Appends ==
  ASSUME NEW V, NEW s \in Seq(V), NEW x \in V
  PROVE  Append(s, x) \in Seq(V) /\ Range(Append(s, x)) = Range(s) \cup {x}
<1>1. /\ Append(s, x) \in Seq(V)
      /\ DOMAIN Append(s, x) = 1 .. Len(s) + 1 /\ DOMAIN s = 1 .. Len(s) /\ Len(s) \in Nat
      /\ \A i \in 1 .. Len(s) : Append(s, x)[i] = s[i]
      /\ Append(s, x)[Len(s) + 1] = x
  OBVIOUS
<1>2. Range(Append(s, x)) \subseteq Range(s) \cup {x}
  BY <1>1 DEF Range
<1>3. Range(s) \cup {x} \subseteq Range(Append(s, x))
  BY <1>1 DEF Range
<1> QED BY <1>1, <1>2, <1>3

(* A sublist has the members at its places, and no other.                    *)
LEMMA SublistMembers ==
  ASSUME NEW V, NEW list \in Seq(V), NEW places
  PROVE  /\ Sublist(list, places) \in Seq(V)
         /\ Range(Sublist(list, places)) = {list[i] : i \in places \cap DOMAIN list}
<1> DEFINE n == Len(list)
           Is(f) == f = [i \in 0 .. n |->
                           IF i = 0 THEN << >>
                           ELSE IF i \in places THEN Append(f[i - 1], list[i]) ELSE f[i - 1]]
           step == [z \in (1 .. n) \X Seq(V) |->
                      IF z[1] \in places THEN Append(z[2], list[z[1]]) ELSE z[2]]
           upto == CHOOSE f : Is(f)
<1>1. n \in Nat /\ DOMAIN list = 1 .. n /\ \A i \in 1 .. n : list[i] \in V
  OBVIOUS
<1>2. ASSUME NEW i \in 1 .. n, NEW s \in Seq(V)
      PROVE  /\ step[<<i, s>>] = IF i \in places THEN Append(s, list[i]) ELSE s
             /\ step[<<i, s>>] \in Seq(V)
  <2>1. <<i, s>> \in (1 .. n) \X Seq(V) /\ <<i, s>>[1] = i /\ <<i, s>>[2] = s
    OBVIOUS
  <2>2. step[<<i, s>>] = IF i \in places THEN Append(s, list[i]) ELSE s
    BY <2>1
  <2>3. Append(s, list[i]) \in Seq(V)
    BY <1>1
  <2> HIDE DEF step
  <2> QED BY <2>2, <2>3
<1>3. IsStep(n, Seq(V), step)
  <2>1. \A z \in (1 .. n) \X Seq(V) : step[z] \in Seq(V)
    <3>1. \A z \in (1 .. n) \X Seq(V) : z[1] \in 1 .. n /\ z[2] \in Seq(V) /\ z = <<z[1], z[2]>>
      OBVIOUS
    <3> HIDE DEF step
    <3> QED BY <1>2, <3>1
  <2>2. step = [z \in (1 .. n) \X Seq(V) |-> step[z]]
    OBVIOUS
  <2> HIDE DEF step
  <2> QED BY <2>1, <2>2 DEF IsStep
<1>4. PICK f : Iterated(f, n, Seq(V), << >>, step)
  <2>1. n \in Nat /\ << >> \in Seq(V)
    BY <1>1
  <2> HIDE DEF n, step
  <2> QED BY <1>3, <2>1, Iterates
<1>5. Is(f)
  <2> DEFINE F(i) == IF i = 0 THEN << >>
                     ELSE IF i \in places THEN Append(f[i - 1], list[i]) ELSE f[i - 1]
  <2>1. ASSUME NEW i \in 1 .. n PROVE f[i] = F(i)
    <3>1. i # 0 /\ i - 1 \in 0 .. n
      BY <1>1
    <3>2. f[i - 1] \in Seq(V)
      BY <1>4, <3>1 DEF Iterated
    <3> HIDE DEF step
    <3> QED BY <1>2, <1>4, <3>1, <3>2 DEF Iterated
  <2>2. f[0] = F(0)
    BY <1>4 DEF Iterated
  <2>3. \A i \in 0 .. n : i = 0 \/ i \in 1 .. n
    BY <1>1
  <2> HIDE DEF n, F
  <2>4. f = [i \in 0 .. n |-> F(i)]
    BY <1>4, <2>1, <2>2, <2>3 DEF Iterated
  <2> QED BY <2>4 DEF F
<1>6. Is(upto) /\ Sublist(list, places) = upto[n]
  <2>1. Is(upto)
    BY <1>5
  <2> QED BY <2>1 DEF Sublist
<1> HIDE DEF upto
<1>7. /\ upto[0] = << >>
      /\ \A i \in 1 .. n :
           upto[i] = IF i \in places THEN Append(upto[i - 1], list[i]) ELSE upto[i - 1]
  <2> DEFINE F(i) == IF i = 0 THEN << >>
                     ELSE IF i \in places THEN Append(upto[i - 1], list[i]) ELSE upto[i - 1]
  <2>1. upto = [i \in 0 .. n |-> F(i)]
    BY <1>6
  <2>2. 0 \in 0 .. n /\ \A i \in 1 .. n : i # 0 /\ i \in 0 .. n
    BY <1>1
  <2> HIDE DEF n, F
  <2>3. upto[0] = F(0) /\ \A i \in 1 .. n : upto[i] = F(i)
    BY <2>1, <2>2
  <2> QED BY <2>2, <2>3 DEF F
<1> DEFINE Members(i) == {list[j] : j \in {k \in places : k \in 1 .. i}}
           good == {i \in 0 .. n : upto[i] \in Seq(V) /\ Range(upto[i]) = Members(i)}
<1>8. 0 \in good
  <2>1. upto[0] \in Seq(V) /\ DOMAIN upto[0] = {} /\ 0 \in 0 .. n
    BY <1>1, <1>7
  <2>2. Range(upto[0]) = {}
    BY <2>1 DEF Range
  <2>3. Members(0) = {}
    <3>1. \A k \in 1 .. 0 : FALSE
      OBVIOUS
    <3> QED BY <3>1
  <2> QED BY <2>1, <2>2, <2>3
<1>9. ASSUME NEW i \in 1 .. n, i - 1 \in good PROVE i \in good
  <2>1. upto[i - 1] \in Seq(V) /\ Range(upto[i - 1]) = Members(i - 1) /\ list[i] \in V
    BY <1>1, <1>9
  <2>2. CASE i \in places
    <3>1. upto[i] = Append(upto[i - 1], list[i])
      BY <1>7, <2>2
    <3>2. upto[i] \in Seq(V)
      BY <2>1, <3>1
    <3>3. Range(upto[i]) = Range(upto[i - 1]) \cup {list[i]}
      BY <2>1, <3>1, Appends
    <3>4. Members(i) = Members(i - 1) \cup {list[i]}
      <4> DEFINE before == {k \in places : k \in 1 .. i - 1}
                 upto_i == {k \in places : k \in 1 .. i}
      <4>1. upto_i = before \cup {i}
        <5>1. i \in Nat \ {0}
          BY <1>1
        <5> HIDE DEF n, good
        <5>2. i \in 1 .. i /\ \A k : k \in 1 .. i <=> k \in 1 .. i - 1 \/ k = i
          BY <5>1
        <5> QED BY <5>2, <2>2
      <4>2. Members(i) = {list[j] : j \in upto_i} /\ Members(i - 1) = {list[j] : j \in before}
        OBVIOUS
      <4> HIDE DEF before, upto_i, Members
      <4>3. {list[j] : j \in before \cup {i}} = {list[j] : j \in before} \cup {list[i]}
        OBVIOUS
      <4> QED BY <4>1, <4>2, <4>3
    <3>5. i \in 0 .. n
      BY <1>1
    <3> HIDE DEF Members, n
    <3> QED BY <2>1, <3>2, <3>3, <3>4, <3>5
  <2>3. CASE i \notin places
    <3>1. upto[i] = upto[i - 1]
      BY <1>7, <2>3
    <3>2. {k \in places : k \in 1 .. i} = {k \in places : k \in 1 .. i - 1}
      BY <1>1, <2>3
    <3>3. Members(i) = Members(i - 1) /\ i \in 0 .. n
      BY <1>1, <3>2
    <3> HIDE DEF Members, n
    <3> QED BY <2>1, <3>1, <3>3
  <2> QED BY <2>2, <2>3
<1>10. n \in good
  <2>1. n \in Nat /\ n \in 0 .. n
    BY <1>1
  <2> HIDE DEF good, n
  <2> QED BY <2>1, <1>8, <1>9, Induction
<1>11. Members(n) = {list[i] : i \in places \cap DOMAIN list}
  BY <1>1
<1> QED BY <1>6, <1>10, <1>11
=============================================================================
