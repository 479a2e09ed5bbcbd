-------------------------- MODULE SequenceProofs ---------------------------
(* Lemmas about the sequences that the other proofs need: what Pick keeps  *)
(* of a sequence (the elements at the chosen positions, in their order,    *)
(* and no other sequence does), and the step plans that StepPlan makes.    *)
EXTENDS StepPlan, FiniteSetTheorems, SequenceTheorems, WellFoundedInduction, TLAPS

(* Every non-empty set of natural numbers has a least element.             *)
LEMMA Least ==
  ASSUME NEW P, P \subseteq Nat, P # {}
  PROVE  \E x \in P : \A y \in P : x <= y
<1>1. PICK x \in P : \A y \in P : ~ (<<y, x>> \in OpToRel(<, Nat))
  BY WFMin, NatLessThanWellFounded
<1>2. OpToRel(<, Nat) = {ss \in Nat \X Nat : ss[1] < ss[2]}
  BY DEF OpToRel
<1>3. \A y \in P : <<y, x>> \in Nat \X Nat
  OBVIOUS
<1>4. \A y \in P : ~(y < x)
  BY <1>1, <1>2, <1>3
<1> QED
  BY <1>4

LEMMA RankType ==
  ASSUME NEW n \in Nat, NEW K, K \subseteq 1..n
  PROVE  /\ IsFiniteSet(K) /\ Cardinality(K) \in Nat
         /\ \A i \in K : Rank(K, i) \in 1..Cardinality(K)
         /\ \A i, j \in K : i < j => Rank(K, i) < Rank(K, j)
<1>1. IsFiniteSet(K) /\ Cardinality(K) \in Nat
  <2>1. IsFiniteSet(1..n)
    BY FS_Interval
  <2> QED
    BY <2>1, FS_Subset, FS_CardinalityType
<1>2. \A i : /\ {j \in K : j <= i} \subseteq K
             /\ IsFiniteSet({j \in K : j <= i})
             /\ Cardinality({j \in K : j <= i}) \in Nat
             /\ Cardinality({j \in K : j <= i}) <= Cardinality(K)
  BY <1>1, FS_Subset, FS_CardinalityType
<1>3. ASSUME NEW i \in K PROVE Rank(K, i) \in 1..Cardinality(K)
  <2>1. {j \in K : j <= i} # {}
    BY <1>3
  <2> QED
    BY <1>1, <1>2, <2>1, FS_EmptySet DEF Rank
<1>4. ASSUME NEW i \in K, NEW j \in K, i < j PROVE Rank(K, i) < Rank(K, j)
  <2>1. \A l \in K : l <= i => l <= j
    BY <1>4
  <2>2. j \in {l \in K : l <= j} /\ j \notin {l \in K : l <= i}
    BY <1>4
  <2>3. /\ Cardinality({l \in K : l <= i}) <= Cardinality({l \in K : l <= j})
        /\ Cardinality({l \in K : l <= j}) # Cardinality({l \in K : l <= i})
    BY <1>2, <2>1, <2>2, FS_Subset
  <2> QED
    BY <1>2, <2>3 DEF Rank
<1> QED
  BY <1>1, <1>3, <1>4

(* The ranks count the set: each position has one, and each number up to   *)
(* its size is the rank of one position.                                   *)
LEMMA NthFacts ==
  ASSUME NEW n \in Nat, NEW K, K \subseteq 1..n
  PROVE  /\ \A k \in 1..Cardinality(K) : Nth(K, k) \in K /\ Rank(K, Nth(K, k)) = k
         /\ \A i \in K : Nth(K, Rank(K, i)) = i
         /\ \A k, l \in 1..Cardinality(K) : k < l => Nth(K, k) < Nth(K, l)
<1> DEFINE c == Cardinality(K)
           r == [i \in K |-> Rank(K, i)]
<1>1. /\ IsFiniteSet(K) /\ c \in Nat
      /\ \A i \in K : Rank(K, i) \in 1..c
      /\ \A i, j \in K : i < j => Rank(K, i) < Rank(K, j)
  BY RankType
<1>2. \A i, j \in K : Rank(K, i) = Rank(K, j) => i = j
  BY <1>1
<1>3. r \in Injection(K, 1..c)
  BY <1>1, <1>2 DEF Injection, IsInjective
<1>4. r \in Surjection(K, 1..c)
  <2>1. IsFiniteSet(1..c) /\ Cardinality(1..c) = c
    BY <1>1, FS_Interval
  <2> QED
    BY <1>3, <2>1, FS_Injection
<1>5. \A k \in 1..c : \E i \in K : Rank(K, i) = k
  BY <1>4, <1>1 DEF Surjection
<1>6. \A k \in 1..c : Nth(K, k) \in K /\ Rank(K, Nth(K, k)) = k
  BY <1>5 DEF Nth
<1>7. \A i \in K : Nth(K, Rank(K, i)) = i
  BY <1>1, <1>2, <1>6
<1>8. ASSUME NEW k \in 1..c, NEW l \in 1..c, k < l PROVE Nth(K, k) < Nth(K, l)
  <2>1. /\ Nth(K, k) \in K /\ Rank(K, Nth(K, k)) = k
        /\ Nth(K, l) \in K /\ Rank(K, Nth(K, l)) = l
    BY <1>6
  <2>2. Nth(K, k) \in 1..n /\ Nth(K, l) \in 1..n
    BY <2>1
  <2>3. ~(l < k) /\ k # l
    BY <1>1, <1>8
  <2> QED
    BY <1>1, <2>1, <2>2, <2>3
<1> QED
  BY <1>6, <1>7, <1>8
-----------------------------------------------------------------------------
LEMMA PickType ==
  ASSUME NEW S, NEW s \in Seq(S), NEW K, K \subseteq DOMAIN s
  PROVE  /\ Pick(s, K) \in Seq(S) /\ Len(Pick(s, K)) = Cardinality(K)
         /\ DOMAIN Pick(s, K) = 1..Cardinality(K) /\ Cardinality(K) \in Nat
         /\ \A k \in 1..Cardinality(K) : Nth(K, k) \in K /\ Pick(s, K)[k] = s[Nth(K, k)]
         /\ \A k, l \in 1..Cardinality(K) : k < l => Nth(K, k) < Nth(K, l)
<1>1. Len(s) \in Nat /\ DOMAIN s = 1..Len(s)
  OBVIOUS
<1>2. /\ Cardinality(K) \in Nat
      /\ \A k \in 1..Cardinality(K) : Nth(K, k) \in K
      /\ \A k, l \in 1..Cardinality(K) : k < l => Nth(K, k) < Nth(K, l)
  BY <1>1, RankType, NthFacts
<1>3. \A k \in 1..Cardinality(K) : s[Nth(K, k)] \in S
  BY <1>1, <1>2
<1> QED
  BY <1>2, <1>3 DEF Pick

(* They keep their order.                                                  *)
LEMMA PickOrder ==
  ASSUME NEW S, NEW s \in Seq(S), NEW K, K \subseteq DOMAIN s
  PROVE  /\ \A i \in K : Rank(K, i) \in DOMAIN Pick(s, K) /\ Pick(s, K)[Rank(K, i)] = s[i]
         /\ \A i, j \in K : i < j => Rank(K, i) < Rank(K, j)
<1>0. Len(s) \in Nat /\ K \subseteq 1..Len(s)
  OBVIOUS
<1>1. /\ \A i \in K : Rank(K, i) \in 1..Cardinality(K) /\ Nth(K, Rank(K, i)) = i
      /\ \A i, j \in K : i < j => Rank(K, i) < Rank(K, j)
  BY <1>0, RankType, NthFacts
<1> QED
  BY <1>1, PickType

(* The elements that are kept.                                             *)
LEMMA PickElems ==
  ASSUME NEW S, NEW s \in Seq(S), NEW K, K \subseteq DOMAIN s
  PROVE  Elems(Pick(s, K)) = {s[i] : i \in K}
<1>1. \A i \in K : Rank(K, i) \in DOMAIN Pick(s, K) /\ Pick(s, K)[Rank(K, i)] = s[i]
  BY PickOrder
<1> QED
  BY <1>1, PickType DEF Elems

(* A sequence with the chosen elements in their order is the one picked.   *)
LEMMA PickUnique ==
  ASSUME NEW S, NEW s \in Seq(S), NEW K, K \subseteq DOMAIN s,
         NEW T, NEW t \in Seq(T), NEW at \in [DOMAIN t -> K],
         \A k, l \in DOMAIN t : k < l => at[k] < at[l],
         \A i \in K : \E k \in DOMAIN t : at[k] = i,
         \A k \in DOMAIN t : t[k] = s[at[k]]
  PROVE  t = Pick(s, K)
<1>0. Len(s) \in Nat /\ K \subseteq 1..Len(s)
  OBVIOUS
<1>1. DOMAIN t = 1..Len(t) /\ Len(t) \in Nat /\ DOMAIN s \subseteq Nat
  OBVIOUS
<1>2. \A k, l \in DOMAIN t : at[k] <= at[l] <=> k <= l
  <2> SUFFICES ASSUME NEW k \in DOMAIN t, NEW l \in DOMAIN t
               PROVE  at[k] <= at[l] <=> k <= l
    OBVIOUS
  <2>1. at[k] \in Nat /\ at[l] \in Nat /\ k \in Nat /\ l \in Nat
    BY <1>1
  <2>2. (k < l => at[k] < at[l]) /\ (l < k => at[l] < at[k]) /\ (k = l => at[k] = at[l])
    OBVIOUS
  <2> QED
    BY <2>1, <2>2
<1>3. ASSUME NEW k \in DOMAIN t PROVE Rank(K, at[k]) = k
  <2> DEFINE L == {i \in K : i <= at[k]}
             f == [l \in 1..k |-> at[l]]
  <2>1. 1..k \subseteq DOMAIN t /\ k \in Nat
    BY <1>1
  <2>2. f \in [1..k -> L]
    BY <1>2, <2>1
  <2>3. \A l, m \in 1..k : f[l] = f[m] => l = m
    <3>1. \A l \in DOMAIN t : at[l] \in Nat
      BY <1>1
    <3>2. \A l, m \in DOMAIN t : at[l] = at[m] => l <= m /\ m <= l
      BY <1>2, <3>1
    <3> QED
      BY <2>1, <3>2
  <2>4. \A i \in L : \E l \in 1..k : f[l] = i
    BY <1>1, <1>2, <2>1
  <2>5. f \in Bijection(1..k, L)
    BY <2>2, <2>3, <2>4 DEF Bijection, Injection, Surjection, IsInjective
  <2>6. ExistsBijection(1..k, L)
    BY <2>5 DEF ExistsBijection
  <2>7. Cardinality(L) = k
    BY <2>1, <2>6, FS_CountingElements
  <2> QED
    BY <2>7 DEF Rank
<1>4. ASSUME NEW k \in DOMAIN t PROVE k \in 1..Cardinality(K) /\ Nth(K, k) = at[k]
  <2>1. at[k] \in K /\ Rank(K, at[k]) = k
    BY <1>3
  <2>2. \A i \in K : Rank(K, i) \in 1..Cardinality(K) /\ Nth(K, Rank(K, i)) = i
    BY <1>0, RankType, NthFacts
  <2> QED
    BY <2>1, <2>2
<1>5. Cardinality(K) <= Len(t)
  <2>1. CASE Cardinality(K) = 0
    BY <1>1, <2>1
  <2>2. CASE Cardinality(K) # 0
    <3>1. Cardinality(K) \in 1..Cardinality(K)
      BY <2>2, PickType
    <3>2. Nth(K, Cardinality(K)) \in K /\ Rank(K, Nth(K, Cardinality(K))) = Cardinality(K)
      BY <1>0, <3>1, NthFacts
    <3>3. \E k \in DOMAIN t : k = Cardinality(K)
      BY <1>3, <3>2
    <3> QED
      BY <1>1, <3>3
  <2> QED
    BY <2>1, <2>2
<1>6. Len(t) <= Cardinality(K)
  BY <1>1, <1>4, PickType
<1>7. DOMAIN t = 1..Cardinality(K)
  BY <1>1, <1>5, <1>6, PickType
<1>8. t = [k \in DOMAIN t |-> t[k]]
  OBVIOUS
<1> QED
  BY <1>4, <1>7, <1>8 DEF Pick

(* The first occurrences are all that occurs, once.                        *)
LEMMA FirstsElems ==
  ASSUME NEW S, NEW s \in Seq(S)
  PROVE  /\ Firsts(s) \subseteq DOMAIN s
         /\ {s[i] : i \in Firsts(s)} = Elems(s)
         /\ \A i, j \in Firsts(s) : s[i] = s[j] => i = j
<1>1. DOMAIN s \subseteq Nat /\ DOMAIN s = 1..Len(s) /\ Len(s) \in Nat
  OBVIOUS
<1>2. ASSUME NEW i \in DOMAIN s PROVE \E j \in Firsts(s) : s[j] = s[i]
  <2> DEFINE P == {j \in DOMAIN s : s[j] = s[i]}
  <2>1. PICK j \in P : \A l \in P : j <= l
    <3>1. P \subseteq Nat /\ P # {}
      BY <1>1
    <3> QED
      BY <3>1, Least
  <2>2. \A l \in 1..(j - 1) : l \in DOMAIN s /\ l < j
    BY <1>1
  <2>3. \A l \in 1..(j - 1) : l \notin P
    BY <1>1, <2>1, <2>2
  <2> QED
    BY <2>2, <2>3 DEF Firsts
<1>3. ASSUME NEW i \in Firsts(s), NEW j \in Firsts(s), s[i] = s[j] PROVE i = j
  <2>1. i \in 1..Len(s) /\ j \in 1..Len(s)
    BY DEF Firsts
  <2>2. ~(i < j) /\ ~(j < i)
    BY <1>1, <1>3, <2>1 DEF Firsts
  <2> QED
    BY <1>1, <2>1, <2>2
<1> QED
  BY <1>2, <1>3 DEF Firsts, Elems

(* Of a sequence that begins with s, the positions of s pick s.            *)
LEMMA PickInitial ==
  ASSUME NEW S, NEW s \in Seq(S), NEW q \in Seq(S), DOMAIN s \subseteq DOMAIN q,
         \A i \in DOMAIN s : q[i] = s[i]
  PROVE  Pick(q, DOMAIN s) = s
<1> DEFINE at == [i \in DOMAIN s |-> i]
<1>1. at \in [DOMAIN s -> DOMAIN s] /\ \A i \in DOMAIN s : at[i] = i
  OBVIOUS
<1> HIDE DEF at
<1>2. /\ \A k, l \in DOMAIN s : k < l => at[k] < at[l]
      /\ \A i \in DOMAIN s : \E k \in DOMAIN s : at[k] = i
      /\ \A k \in DOMAIN s : s[k] = q[at[k]]
  BY <1>1
<1> QED
  BY <1>1, <1>2, PickUnique

(* The chosen elements that nothing left out precedes stay in place.       *)
LEMMA PickPrefix ==
  ASSUME NEW S, NEW s \in Seq(S), NEW K, K \subseteq DOMAIN s,
         NEW p \in Nat, 1..p \subseteq K
  PROVE  \A k \in 1..p : k \in DOMAIN Pick(s, K) /\ Pick(s, K)[k] = s[k]
<1>0. Len(s) \in Nat /\ K \subseteq 1..Len(s)
  OBVIOUS
<1>1. ASSUME NEW k \in 1..p PROVE k \in 1..Cardinality(K) /\ Nth(K, k) = k
  <2>1. {j \in K : j <= k} = 1..k
    BY <1>0
  <2>2. Cardinality(1..k) = k
    BY FS_Interval
  <2>3. k \in K /\ Rank(K, k) = k
    BY <2>1, <2>2 DEF Rank
  <2>4. \A i \in K : Rank(K, i) \in 1..Cardinality(K) /\ Nth(K, Rank(K, i)) = i
    BY <1>0, RankType, NthFacts
  <2> QED
    BY <2>3, <2>4
<1> QED
  BY <1>1, PickType
(* No element is picked twice when it is picked where it first occurs.     *)
LEMMA PickFirsts ==
  ASSUME NEW S, NEW s \in Seq(S)
  PROVE  LET t == Pick(s, Firsts(s))
         IN  /\ t \in Seq(S) /\ Elems(t) = Elems(s)
             /\ \A i, j \in DOMAIN t : t[i] = t[j] => i = j
<1> DEFINE K == Firsts(s)
           t == Pick(s, K)
<1>1. K \subseteq DOMAIN s /\ {s[i] : i \in K} = Elems(s) /\ \A i, j \in K : s[i] = s[j] => i = j
  BY FirstsElems
<1>2. /\ t \in Seq(S) /\ DOMAIN t = 1..Cardinality(K) /\ Cardinality(K) \in Nat
      /\ \A k \in DOMAIN t : Nth(K, k) \in K /\ t[k] = s[Nth(K, k)]
      /\ \A k, l \in DOMAIN t : k < l => Nth(K, k) < Nth(K, l)
  BY <1>1, PickType
<1>3. ASSUME NEW i \in DOMAIN t, NEW j \in DOMAIN t, t[i] = t[j] PROVE i = j
  <2>1. Nth(K, i) = Nth(K, j) /\ Nth(K, i) \in DOMAIN s
    BY <1>1, <1>2, <1>3
  <2>2. ~(i < j) /\ ~(j < i)
    BY <1>2, <2>1
  <2> QED
    BY <1>2, <2>2
<1>4. Elems(t) = Elems(s)
  BY <1>1, PickElems
<1> HIDE DEF t, K
<1>5. t \in Seq(S) /\ Elems(t) = Elems(s) /\ \A i, j \in DOMAIN t : t[i] = t[j] => i = j
  BY <1>2, <1>3, <1>4
<1> QED
  BY <1>5 DEF t, K

(* What comes first is not preceded by what follows: a prefix without      *)
(* repetition stays a prefix.                                              *)
LEMMA FirstsConcat ==
  ASSUME NEW S, NEW r \in Seq(S), NEW s \in Seq(S),
         \A i, j \in DOMAIN r : r[i] = r[j] => i = j
  PROVE  LET t == Pick(r \o s, Firsts(r \o s))
         IN  /\ t \in Seq(S) /\ Elems(t) = Elems(r) \cup Elems(s)
             /\ \A i, j \in DOMAIN t : t[i] = t[j] => i = j
             /\ \A k \in DOMAIN r : k \in DOMAIN t /\ t[k] = r[k]
<1> DEFINE q == r \o s
<1>1. /\ q \in Seq(S) /\ Len(q) = Len(r) + Len(s) /\ Len(r) \in Nat /\ Len(s) \in Nat
      /\ DOMAIN q = 1..Len(q) /\ DOMAIN r = 1..Len(r) /\ DOMAIN s = 1..Len(s)
      /\ \A i \in DOMAIN r : q[i] = r[i]
      /\ \A i \in DOMAIN s : q[Len(r) + i] = s[i]
  OBVIOUS
<1>2. Elems(q) = Elems(r) \cup Elems(s)
  <2>1. \A i \in DOMAIN q : IF i \in DOMAIN r THEN q[i] = r[i]
                             ELSE i - Len(r) \in DOMAIN s /\ q[i] = s[i - Len(r)]
    BY <1>1
  <2>2. \A i \in DOMAIN r : i \in DOMAIN q
    BY <1>1
  <2>3. \A i \in DOMAIN s : Len(r) + i \in DOMAIN q
    BY <1>1
  <2> QED
    BY <1>1, <2>1, <2>2, <2>3 DEF Elems
<1>3. 1..Len(r) \subseteq Firsts(q)
  <2> SUFFICES ASSUME NEW i \in 1..Len(r), NEW j \in 1..(i - 1) PROVE q[j] # q[i] /\ i \in DOMAIN q
    BY <1>1 DEF Firsts
  <2>1. i \in DOMAIN r /\ j \in DOMAIN r /\ i # j /\ i \in DOMAIN q
    BY <1>1
  <2> QED
    BY <1>1, <2>1
<1>4. Firsts(q) \subseteq DOMAIN q
  BY DEF Firsts
<1>5. \A k \in 1..Len(r) : k \in DOMAIN Pick(q, Firsts(q)) /\ Pick(q, Firsts(q))[k] = q[k]
  <2> DEFINE K == Firsts(q)
             p == Len(r)
  <2> HIDE DEF q, K, p
  <2>1. q \in Seq(S) /\ K \subseteq DOMAIN q /\ p \in Nat /\ 1..p \subseteq K
    BY <1>1, <1>3, <1>4 DEF K, p
  <2>2. \A k \in 1..p : k \in DOMAIN Pick(q, K) /\ Pick(q, K)[k] = q[k]
    BY <2>1, PickPrefix
  <2> QED
    BY <2>2 DEF K, p
<1> QED
  BY <1>1, <1>2, <1>5, PickFirsts DEF q

(* What is left of a sequence when its first element is taken off.         *)
LEMMA TailFacts ==
  ASSUME NEW s \in Seq(Int), s # <<>>
  PROVE  /\ Tail(s) \in Seq(Int) /\ 1 \in DOMAIN s /\ Head(s) = s[1]
         /\ \A i \in DOMAIN Tail(s) : i + 1 \in DOMAIN s /\ Tail(s)[i] = s[i + 1]
         /\ \A i \in DOMAIN s : i # 1 => i - 1 \in DOMAIN Tail(s) /\ Tail(s)[i - 1] = s[i]
         /\ Elems(Tail(s)) \subseteq Elems(s)
<1>1. /\ Tail(s) \in Seq(Int) /\ 1 \in DOMAIN s /\ Head(s) = s[1]
      /\ \A i \in DOMAIN Tail(s) : i + 1 \in DOMAIN s /\ Tail(s)[i] = s[i + 1]
      /\ \A i \in DOMAIN s : i # 1 => i - 1 \in DOMAIN Tail(s) /\ Tail(s)[i - 1] = s[i]
  OBVIOUS
<1> QED
  BY <1>1 DEF Elems

-----------------------------------------------------------------------------
(* The table of each mode is numbered from 1.                              *)
LEMMA Tables ==
  ASSUME NEW m
  PROVE  DOMAIN Table(m) = 1..(IF m = "install" THEN 14 ELSE 10)
<1>1. DOMAIN DeploySteps = 1..14
  BY DEF DeploySteps
<1>2. DOMAIN UpdateSteps = 1..10
  BY DEF UpdateSteps
<1> QED
  BY <1>1, <1>2 DEF Table

(* What is required is no repetition and at most two steps.                *)
LEMMA RequiredFacts ==
  ASSUME NEW m, NEW s
  PROVE  /\ Required(m, s) \in Seq(Int) /\ Required(m, s)[1] = 1 /\ 1 \in DOMAIN Required(m, s)
         /\ \A i, j \in DOMAIN Required(m, s) : Required(m, s)[i] = Required(m, s)[j] => i = j
         /\ m = "update" /\ (\E k \in Elems(s) : k > 2) =>
              2 \in DOMAIN Required(m, s) /\ Required(m, s)[2] = 2
<1>1. CASE m = "update" /\ \E k \in Elems(s) : k > 2
  <2>1. Required(m, s) = <<1, 2>>
    BY <1>1 DEF Required
  <2> QED
    BY <2>1
<1>2. CASE ~(m = "update" /\ \E k \in Elems(s) : k > 2)
  <2>1. Required(m, s) = <<1>>
    BY <1>2 DEF Required
  <2> QED
    BY <1>2, <2>1
<1> QED
  BY <1>1, <1>2

(* A selected step that is not required stands, in the plan's making,      *)
(* where it was first named.                                               *)
LEMMA FirstNamed ==
  ASSUME NEW r \in Seq(Int), NEW s \in Seq(Int), NEW k \in Elems(s) \ Elems(r)
  PROVE  /\ FirstAt(s, k) \in DOMAIN s /\ Len(r) + FirstAt(s, k) \in Firsts(r \o s)
         /\ (r \o s)[Len(r) + FirstAt(s, k)] = k
<1> DEFINE i == FirstAt(s, k)
           q == r \o s
           x == Len(r) + i
<1>1. i \in DOMAIN s /\ s[i] = k /\ \A j \in 1..(i - 1) : s[j] # k
  <2>1. \E j \in Firsts(s) : s[j] = k
    BY FirstsElems
  <2>2. \E j \in DOMAIN s : s[j] = k /\ \A l \in 1..(j - 1) : s[l] # k
    BY <2>1 DEF Firsts
  <2> QED
    BY <2>2 DEF FirstAt
<1> HIDE DEF i
<1>2. /\ Len(r) \in Nat /\ Len(s) \in Nat /\ DOMAIN s = 1..Len(s) /\ DOMAIN r = 1..Len(r)
      /\ DOMAIN q = 1..(Len(r) + Len(s))
      /\ \A j \in 1..(Len(r) + Len(s)) : q[j] = IF j <= Len(r) THEN r[j] ELSE s[j - Len(r)]
  OBVIOUS
<1> HIDE DEF q
<1>3. i \in 1..Len(s) /\ Len(r) + i \in 1..(Len(r) + Len(s))
  BY <1>1, <1>2
<1>4. q[Len(r) + i] = k
  BY <1>1, <1>2, <1>3
<1>5. ASSUME NEW j \in 1..(x - 1) PROVE q[j] # k
  <2>1. CASE j <= Len(r)
    <3>1. j \in DOMAIN r /\ q[j] = r[j]
      BY <1>2, <1>3, <2>1
    <3> QED
      BY <3>1 DEF Elems
  <2>2. CASE j > Len(r)
    <3>1. j - Len(r) \in 1..(i - 1) /\ q[j] = s[j - Len(r)]
      BY <1>2, <1>3, <2>2
    <3> QED
      BY <1>1, <3>1
  <2> QED
    BY <1>2, <1>3, <2>1, <2>2
<1>6. x \in DOMAIN q /\ q[x] = k
  BY <1>2, <1>3, <1>4
<1> HIDE DEF x
<1>7. \A j \in 1..(x - 1) : q[j] # q[x]
  BY <1>5, <1>6
<1>8. x \in Firsts(q)
  BY <1>6, <1>7 DEF Firsts
<1> QED
  BY <1>1, <1>6, <1>8 DEF i, q, x

(* The plan of an accepted selection: the required steps, then the others. *)
LEMMA PlanFacts ==
  ASSUME NEW m, NEW s \in Seq(Int), Accepted(m, s)
  PROVE  LET r == Required(m, s)
             out == Plan(m, s)
         IN  /\ out \in Seq(Int) /\ Elems(out) = Elems(s) \cup Elems(r)
             /\ \A i, j \in DOMAIN out : out[i] = out[j] => i = j
             /\ 1 \in DOMAIN out /\ out[1] = 1
             /\ m = "update" /\ (\E k \in Elems(s) : k > 2) => 2 \in DOMAIN out /\ out[2] = 2
<1> DEFINE r == Required(m, s)
           out == Plan(m, s)
<1>1. out = Pick(r \o s, Firsts(r \o s))
  BY DEF Plan, PrependMissing
<1>2. /\ r \in Seq(Int) /\ 1 \in DOMAIN r /\ r[1] = 1
      /\ \A i, j \in DOMAIN r : r[i] = r[j] => i = j
      /\ m = "update" /\ (\E k \in Elems(s) : k > 2) => 2 \in DOMAIN r /\ r[2] = 2
  BY RequiredFacts
<1> HIDE DEF r, out
<1>3. /\ out \in Seq(Int) /\ Elems(out) = Elems(s) \cup Elems(r)
      /\ \A i, j \in DOMAIN out : out[i] = out[j] => i = j
      /\ \A k \in DOMAIN r : k \in DOMAIN out /\ out[k] = r[k]
  BY <1>1, <1>2, FirstsConcat
<1> QED
  BY <1>2, <1>3 DEF r, out

(* What is selected in rising order is done in rising order.               *)
LEMMA PlanRises ==
  ASSUME NEW m, NEW s \in Seq(Int), Accepted(m, s),
         \A i, j \in DOMAIN s : i < j => s[i] < s[j]
  PROVE  \A i, j \in DOMAIN Plan(m, s) : i < j => Plan(m, s)[i] < Plan(m, s)[j]
<1> DEFINE r == Required(m, s)
           q == r \o s
           K == Firsts(q)
<1>1. /\ r \in Seq(Int)
      /\ r = <<1>> \/ (r = <<1, 2>>)
  BY DEF Required
<1>2. /\ q \in Seq(Int) /\ Len(r) \in Nat /\ DOMAIN r = 1..Len(r) /\ DOMAIN s = 1..Len(s)
      /\ DOMAIN q = 1..(Len(r) + Len(s)) /\ Len(s) \in Nat
      /\ \A i \in DOMAIN q : q[i] = IF i <= Len(r) THEN r[i] ELSE s[i - Len(r)]
  BY <1>1
<1>3. \A i \in DOMAIN s : s[i] \in 1..14
  <2>1. DOMAIN Table(m) = 1..14 \/ DOMAIN Table(m) = 1..10
    BY Tables
  <2>2. Elems(s) \subseteq 1..14
    BY <2>1 DEF Accepted
  <2> QED
    BY <2>2 DEF Elems
<1>4. \A i \in DOMAIN r : r[i] = i /\ i \in DOMAIN q /\ q[i] = i
  BY <1>1, <1>2
<1>5. ASSUME NEW a \in K, NEW b \in K, a < b PROVE q[a] < q[b]
  <2>1. a \in DOMAIN q /\ b \in DOMAIN q /\ \A j \in 1..(b - 1) : q[j] # q[b]
    BY DEF Firsts
  <2>2. CASE b <= Len(r)
    BY <1>2, <1>4, <1>5, <2>1, <2>2
  <2>3. CASE b > Len(r)
    <3>1. b - Len(r) \in DOMAIN s /\ q[b] = s[b - Len(r)]
      BY <1>2, <2>1, <2>3
    <3>2. CASE a > Len(r)
      <4>1. a - Len(r) \in DOMAIN s /\ q[a] = s[a - Len(r)] /\ a - Len(r) < b - Len(r)
        BY <1>2, <1>5, <2>1, <3>2
      <4> QED
        BY <3>1, <4>1
    <3>3. CASE a <= Len(r)
      <4>1. a \in DOMAIN r /\ q[a] = a
        BY <1>2, <1>4, <2>1, <3>3
      <4>2. \A i \in DOMAIN r : q[b] # i
        <5> SUFFICES ASSUME NEW i \in DOMAIN r PROVE q[b] # i
          OBVIOUS
        <5>1. i \in 1..(b - 1) /\ q[i] = i
          BY <1>2, <1>4, <2>1, <2>3
        <5> QED
          BY <2>1, <5>1
      <4>3. q[b] \in 1..14 /\ (DOMAIN r = {1} \/ DOMAIN r = {1, 2})
        BY <1>1, <1>3, <3>1
      <4>4. a \in {1, 2} /\ (a = 2 => 1 \in DOMAIN r)
        BY <4>1, <4>3
      <4>5. q[b] # a /\ (a = 2 => q[b] # 1)
        BY <4>1, <4>2, <4>4
      <4> HIDE DEF q
      <4>6. \A x \in 1..14 : x # a /\ (a = 2 => x # 1) => a < x
        BY <4>4
      <4> QED
        BY <4>1, <4>3, <4>5, <4>6
    <3> QED
      BY <1>2, <2>1, <3>2, <3>3
  <2>4. b \in Nat /\ Len(r) \in Nat
    BY <1>2, <2>1
  <2>5. b <= Len(r) \/ b > Len(r)
    BY <2>4
  <2> QED
    BY <2>2, <2>3, <2>5
<1>6. Plan(m, s) = Pick(q, K)
  BY DEF Plan, PrependMissing
<1>7. K \subseteq DOMAIN q
  BY DEF Firsts
<1> HIDE DEF q, K
<1>8. q \in Seq(Int)
  BY <1>2
<1> DEFINE N == Cardinality(K)
<1>9. /\ DOMAIN Pick(q, K) = 1..N
      /\ \A k \in 1..N : Nth(K, k) \in K /\ Pick(q, K)[k] = q[Nth(K, k)]
      /\ \A k, l \in 1..N : k < l => Nth(K, k) < Nth(K, l)
  BY <1>7, <1>8, PickType
<1> HIDE DEF N
<1> QED
  BY <1>5, <1>6, <1>9

(* prependMissingSteps meets its reference on every accepted selection.    *)
THEOREM PlanIsSound ==
  ASSUME NEW m, NEW s \in Seq(Int), Accepted(m, s)
  PROVE  PlanMeets(m, s, Plan(m, s))
<1> DEFINE r == Required(m, s)
           q == r \o s
           out == Pick(q, Firsts(q))
           steps == Elems(s) \cup Elems(r)
<1>1. Plan(m, s) = out
  BY DEF Plan, PrependMissing
<1>2. r \in Seq(Int)
  BY RequiredFacts
<1> HIDE DEF r
<1>3. /\ out \in Seq(Int) /\ Elems(out) = steps
      /\ \A i, j \in DOMAIN out : out[i] = out[j] => i = j
      /\ 1 \in DOMAIN out /\ out[1] = 1
      /\ m = "update" /\ (\E k \in Elems(s) : k > 2) => 2 \in DOMAIN out /\ out[2] = 2
  BY <1>1, PlanFacts DEF r
<1>5. ASSUME NEW k \in steps, m = "update", k > 2 PROVE Before(out, 2, k)
  <2>1. Elems(r) \subseteq {1, 2}
    BY DEF r, Required, Elems
  <2>2. k \in Elems(s)
    BY <1>5, <2>1
  <2>3. 2 \in DOMAIN out /\ out[2] = 2
    BY <1>3, <1>5, <2>2
  <2>4. PICK j \in DOMAIN out : out[j] = k
    BY <1>3 DEF Elems
  <2>5. j > 2
    BY <1>3, <1>5, <2>3, <2>4
  <2> QED
    BY <2>3, <2>4, <2>5 DEF Before
<1>6. ASSUME NEW k \in steps \ Elems(r), NEW l \in steps \ Elems(r), FirstAt(s, k) < FirstAt(s, l)
      PROVE  Before(out, k, l)
  <2> DEFINE a == Len(r) + FirstAt(s, k)
             b == Len(r) + FirstAt(s, l)
  <2>1. a \in Firsts(q) /\ b \in Firsts(q) /\ q[a] = k /\ q[b] = l
    BY <1>2, FirstNamed
  <2>2. a < b
    <3>1. FirstAt(s, k) \in DOMAIN s /\ FirstAt(s, l) \in DOMAIN s
      BY <1>2, FirstNamed
    <3>2. Len(r) \in Int /\ FirstAt(s, k) \in Int /\ FirstAt(s, l) \in Int
      BY <1>2, <3>1
    <3> QED
      BY <1>6, <3>2
  <2>3. /\ \A i \in Firsts(q) : Rank(Firsts(q), i) \in DOMAIN out /\ out[Rank(Firsts(q), i)] = q[i]
        /\ \A i, j \in Firsts(q) : i < j => Rank(Firsts(q), i) < Rank(Firsts(q), j)
    <3>1. q \in Seq(Int) /\ Firsts(q) \subseteq DOMAIN q
      BY <1>2 DEF Firsts
    <3> QED
      BY <3>1, PickOrder
  <2> HIDE DEF q, a, b, out
  <2> QED
    BY <2>1, <2>2, <2>3 DEF Before
<1> QED
  BY <1>1, <1>3, <1>5, <1>6 DEF PlanMeets, r
=============================================================================
