---------------------------- MODULE LibraryLemmas ----------------------------
(***************************************************************************)
(* Facts that the proofs about lists and counters share: what becomes of a *)
(* sequence whose front is added or taken away, how many threads are at    *)
(* given places before and after one of them moves, and sums modulo the    *)
(* range of an unsigned integer.                                           *)
(***************************************************************************)
EXTENDS Integers, Sequences, FiniteSets, Functions, Chains, SequenceTheorems, FiniteSetTheorems,
        WellFoundedInduction, TLAPS

(* A sequence with an element more at its front. *)
LEMMA FrontAdded ==
    ASSUME NEW S, NEW s \in Seq(S), NEW e \in S
    PROVE  LET r == <<e>> \o s
           IN  /\ r \in Seq(S) /\ Len(r) = Len(s) + 1 /\ Len(s) \in Nat
               /\ r[1] = e /\ (\A i \in 1 .. Len(s) : r[i + 1] = s[i])
               /\ {r[i] : i \in 1 .. Len(r)} = {s[i] : i \in 1 .. Len(s)} \cup {e}
<1> DEFINE r == <<e>> \o s
<1>1. <<e>> \in Seq(S) /\ Len(<<e>>) = 1 /\ <<e>>[1] = e
  OBVIOUS
<1>2. Len(s) \in Nat
  OBVIOUS
<1>3. /\ r \in Seq(S) /\ Len(r) = Len(s) + 1
      /\ \A i \in 1 .. Len(s) + 1 : r[i] = IF i <= 1 THEN e ELSE s[i - 1]
  BY <1>1, <1>2, ConcatProperties
<1> HIDE DEF r
<1>4. r[1] = e /\ \A i \in 1 .. Len(s) : r[i + 1] = s[i]
  BY <1>2, <1>3
<1>5. ASSUME NEW i \in 1 .. Len(r) PROVE r[i] \in {s[j] : j \in 1 .. Len(s)} \cup {e}
  <2>1. CASE i = 1
    BY <2>1, <1>4
  <2>2. CASE i # 1
    <3>1. i - 1 \in 1 .. Len(s) /\ r[i] = s[i - 1]
      BY <2>2, <1>3, <1>2
    <3> QED
      BY <3>1
  <2> QED
    BY <2>1, <2>2
<1>6. e \in {r[i] : i \in 1 .. Len(r)}
  BY <1>2, <1>3, <1>4
<1>7. ASSUME NEW i \in 1 .. Len(s) PROVE s[i] \in {r[j] : j \in 1 .. Len(r)}
  <2>1. i + 1 \in 1 .. Len(r) /\ r[i + 1] = s[i]
    BY <1>2, <1>3, <1>4
  <2> QED
    BY <2>1
<1>8. {r[i] : i \in 1 .. Len(r)} = {s[i] : i \in 1 .. Len(s)} \cup {e}
  BY <1>5, <1>6, <1>7
<1> QED
  BY <1>2, <1>3, <1>4, <1>8 DEF r

(* A sequence without its first element. *)
LEMMA FrontTaken ==
    ASSUME NEW S, NEW s \in Seq(S), s # <<>>
    PROVE  LET r == SubSeq(s, 2, Len(s))
           IN  /\ r \in Seq(S) /\ Len(r) = Len(s) - 1 /\ Len(s) \in Nat \ {0} /\ s[1] \in S
               /\ \A i \in 1 .. Len(r) : r[i] = s[i + 1]
               /\ {s[i] : i \in 1 .. Len(s)} = {r[i] : i \in 1 .. Len(r)} \cup {s[1]}
<1> DEFINE r == SubSeq(s, 2, Len(s))
<1>1. Len(s) \in Nat \ {0} /\ (\A i \in 1 .. Len(s) : s[i] \in S)
  BY EmptySeq, LenProperties, ElementOfSeq
<1>2. /\ r \in Seq(S) /\ Len(r) = Len(s) - 1
      /\ \A i \in 1 .. Len(s) - 1 : r[i] = s[i + 1]
  <2>1. \A i \in 2 .. Len(s) : s[i] \in S
    BY <1>1
  <2>2. /\ r \in Seq(S) /\ Len(r) = IF 2 <= Len(s) THEN Len(s) - 2 + 1 ELSE 0
        /\ \A i \in 1 .. Len(s) - 2 + 1 : r[i] = s[2 + i - 1]
    BY <1>1, <2>1, SubSeqProperties
  <2>3. Len(s) - 2 + 1 = Len(s) - 1 /\ (\A i \in 1 .. Len(s) - 1 : 2 + i - 1 = i + 1)
    BY <1>1
  <2> HIDE DEF r
  <2>4. Len(r) = Len(s) - 1
    <3> DEFINE n == Len(s)
    <3>1. n \in Nat \ {0} /\ Len(r) = IF 2 <= n THEN n - 2 + 1 ELSE 0
      BY <1>1, <2>2
    <3> HIDE DEF n
    <3>2. Len(r) = n - 1
      BY <3>1
    <3> QED
      BY <3>2 DEF n
  <2>5. ASSUME NEW i \in 1 .. Len(s) - 1 PROVE r[i] = s[i + 1]
    BY <2>2, <2>3
  <2> QED
    BY <2>2, <2>4, <2>5
<1> HIDE DEF r
<1>3. ASSUME NEW i \in 1 .. Len(s) PROVE s[i] \in {r[j] : j \in 1 .. Len(r)} \cup {s[1]}
  <2>1. CASE i = 1
    BY <2>1
  <2>2. CASE i # 1
    <3>1. i - 1 \in 1 .. Len(r) /\ s[i] = r[i - 1]
      BY <1>1, <1>2, <2>2
    <3> QED
      BY <3>1
  <2> QED
    BY <2>1, <2>2
<1>4. ASSUME NEW i \in 1 .. Len(r) PROVE r[i] \in {s[j] : j \in 1 .. Len(s)}
  <2>1. i + 1 \in 1 .. Len(s) /\ r[i] = s[i + 1]
    BY <1>1, <1>2
  <2> QED
    BY <2>1
<1>5. s[1] \in {s[j] : j \in 1 .. Len(s)}
  BY <1>1
<1>6. {s[i] : i \in 1 .. Len(s)} = {r[i] : i \in 1 .. Len(r)} \cup {s[1]}
  BY <1>3, <1>4, <1>5
<1> QED
  BY <1>1, <1>2, <1>6 DEF r

(* The first n elements of a sequence. *)
LEMMA PrefixTaken ==
    ASSUME NEW S, NEW s \in Seq(S), NEW n \in 0 .. Len(s)
    PROVE  LET r == SubSeq(s, 1, n)
           IN  /\ r \in Seq(S) /\ Len(r) = n /\ Len(s) \in Nat
               /\ \A i \in 1 .. n : r[i] = s[i]
<1> DEFINE l == Len(s)
           r == SubSeq(s, 1, n)
<1>1. l \in Nat /\ (\A i \in 1 .. l : s[i] \in S)
  BY LenProperties, ElementOfSeq
<1>2. n \in 0 .. l
  OBVIOUS
<1> HIDE DEF l
<1>3. n \in Int /\ 1 \in Int /\ (\A i \in 1 .. n : s[i] \in S)
  BY <1>1, <1>2
<1>4. /\ r \in Seq(S) /\ Len(r) = IF 1 <= n THEN n - 1 + 1 ELSE 0
      /\ \A i \in 1 .. n - 1 + 1 : r[i] = s[1 + i - 1]
  BY <1>3, SubSeqProperties
<1> HIDE DEF r
<1>5. Len(r) = n
  BY <1>1, <1>2, <1>4
<1>6. ASSUME NEW i \in 1 .. n PROVE r[i] = s[i]
  <2>1. i \in 1 .. n - 1 + 1 /\ 1 + i - 1 = i
    BY <1>1, <1>2
  <2> QED
    BY <1>4, <2>1
<1> QED
  BY <1>1, <1>4, <1>5, <1>6 DEF l, r

(* A sequence without its last element. *)
LEMMA LastTaken ==
    ASSUME NEW S, NEW s \in Seq(S), s # <<>>
    PROVE  LET r == SubSeq(s, 1, Len(s) - 1)
           IN  /\ r \in Seq(S) /\ Len(r) = Len(s) - 1 /\ Len(s) \in Nat \ {0} /\ s[Len(s)] \in S
               /\ \A i \in 1 .. Len(s) - 1 : r[i] = s[i]
<1>1. Len(s) \in Nat \ {0} /\ (\A i \in 1 .. Len(s) : s[i] \in S)
  BY EmptySeq, LenProperties, ElementOfSeq
<1>2. PICK n \in 0 .. Len(s) : n = Len(s) - 1
  <2> DEFINE l == Len(s)
  <2>1. l \in Nat \ {0}
    BY <1>1
  <2> HIDE DEF l
  <2>2. l - 1 \in 0 .. l
    BY <2>1
  <2> QED
    BY <2>2 DEF l
<1>3. SubSeq(s, 1, n) \in Seq(S) /\ Len(SubSeq(s, 1, n)) = n /\ (\A i \in 1 .. n : SubSeq(s, 1, n)[i] = s[i])
  BY PrefixTaken
<1> QED
  BY <1>1, <1>2, <1>3

(* Two sets of threads that differ in t only, such as those at given places *)
(* before and after t moves: the one grows to the other by one if t joins,  *)
(* and shrinks to it by one if t leaves.                                    *)
LEMMA CountMoved ==
    ASSUME NEW T, IsFiniteSet(T), NEW A \in SUBSET T, NEW B \in SUBSET T,
           NEW t \in T, A \ {t} = B \ {t}
    PROVE  /\ Cardinality(A) \in Nat /\ Cardinality(B) \in Nat
           /\ t \in A => Cardinality(A) > 0
           /\ t \in B => Cardinality(B) > 0
           /\ Cardinality(B) = Cardinality(A) + (IF t \in B THEN 1 ELSE 0) - (IF t \in A THEN 1 ELSE 0)
<1>2. IsFiniteSet(A) /\ IsFiniteSet(B)
  BY FS_Subset
<1>3. Cardinality(A) \in Nat /\ Cardinality(B) \in Nat
  BY <1>2, FS_CardinalityType
<1>5. Cardinality(A \ {t}) = IF t \in A THEN Cardinality(A) - 1 ELSE Cardinality(A)
  BY <1>2, FS_RemoveElement
<1>6. Cardinality(B \ {t}) = IF t \in B THEN Cardinality(B) - 1 ELSE Cardinality(B)
  BY <1>2, FS_RemoveElement
<1>7. (t \in A => Cardinality(A) # 0) /\ (t \in B => Cardinality(B) # 0)
  BY <1>2, FS_EmptySet
<1> DEFINE a == Cardinality(A)
           b == Cardinality(B)
<1>8. (IF t \in A THEN a - 1 ELSE a) = (IF t \in B THEN b - 1 ELSE b)
  BY <1>5, <1>6, Zenon
<1>9. a \in Nat /\ b \in Nat /\ (t \in A => a # 0) /\ (t \in B => b # 0)
  BY <1>3, <1>7
<1> HIDE DEF a, b
<1>10. /\ (t \in A => a > 0) /\ (t \in B => b > 0)
       /\ b = a + (IF t \in B THEN 1 ELSE 0) - (IF t \in A THEN 1 ELSE 0)
  BY <1>8, <1>9
<1> QED
  BY <1>9, <1>10 DEF a, b

(* Division with remainder has one result. *)
LEMMA ModUnique ==
    ASSUME NEW M \in Nat \ {0}, NEW a \in Int, NEW r \in 0 .. M - 1
    PROVE  (M * a + r) % M = r
<1> DEFINE x == M * a + r
           d == x \div M
           m == x % M
<1>1. x \in Int /\ d \in Int /\ m \in 0 .. M - 1 /\ x = M * d + m
  OBVIOUS
<1> HIDE DEF d, m
<1>2. M * (a - d) = m - r
  BY <1>1
<1>3. ~(a - d >= 1)
  BY <1>1, <1>2
<1>4. ~(a - d <= -1)
  BY <1>1, <1>2
<1> QED
  BY <1>1, <1>2, <1>3, <1>4 DEF m

(* A number below the range is its own remainder. *)
LEMMA SmallRemainder ==
    ASSUME NEW M \in Nat \ {0}, NEW r \in 0 .. M - 1
    PROVE  r % M = r
<1>1. (M * 0 + r) % M = r
  BY ModUnique
<1>2. M * 0 + r = r
  OBVIOUS
<1> QED
  BY <1>1, <1>2

(* An unsigned counter that is counted up or down stays equal, modulo its   *)
(* range, to the integer it stands for.                                     *)
LEMMA ModStep ==
    ASSUME NEW M \in Nat \ {0}, NEW x \in Int, NEW k \in Int
    PROVE  ((x % M) + k) % M = (x + k) % M
<1> DEFINE q == x \div M
           y == (x % M) + k
           d == y \div M
           m == y % M
<1>1. q \in Int /\ x % M \in Int /\ x = M * q + (x % M)
  OBVIOUS
<1>2. y \in Int /\ d \in Int /\ m \in 0 .. M - 1 /\ y = M * d + m
  BY <1>1
<1>3. x + k = M * q + y
  BY <1>1
<1> HIDE DEF q, y, d, m
<1>4. M * (q + d) + m = M * q + (M * d + m)
  BY <1>1, <1>2
<1>5. (M * (q + d) + m) % M = m
  BY <1>1, <1>2, ModUnique
<1> QED
  BY <1>2, <1>3, <1>4, <1>5 DEF m, y

(* Counting such a counter by one, up and down. *)
LEMMA ModUpDown ==
    ASSUME NEW M \in Nat \ {0}
    PROVE  \A x \in Int : /\ ((x % M) + 1) % M = (x + 1) % M
                          /\ ((x % M) - 1) % M = (x - 1) % M
<1> SUFFICES ASSUME NEW x \in Int
             PROVE  /\ ((x % M) + 1) % M = (x + 1) % M
                    /\ ((x % M) - 1) % M = (x - 1) % M
  OBVIOUS
<1> DEFINE up == 1
           down == -1
<1>1. up \in Int /\ down \in Int /\ x % M \in Int
  OBVIOUS
<1> HIDE DEF up, down
<1>2. ((x % M) + up) % M = (x + up) % M /\ ((x % M) + down) % M = (x + down) % M
  BY <1>1, ModStep
<1>3. (x % M) + down = (x % M) - 1 /\ x + down = x - 1
  BY <1>1 DEF down
<1> QED
  BY <1>2, <1>3 DEF up

-----------------------------------------------------------------------------
(* Every set of natural numbers has a least one, and what holds of 0 and of *)
(* the successor of every number it holds of holds of all: the induction    *)
(* rule, stated with a set instead of a predicate.                          *)
LEMMA LeastNumber ==
    ASSUME NEW T \in SUBSET Nat, T # {}
    PROVE  \E n \in T : \A m \in T : n <= m
<1>1. \E R : IsWellFoundedOn(R, Nat) /\ \A x, y \in Nat : <<y, x>> \in R <=> y < x
  <2> DEFINE R == OpToRel(<, Nat)
  <2>1. IsWellFoundedOn(R, Nat)
    BY NatLessThanWellFounded
  <2>2. \A x, y \in Nat : <<y, x>> \in R <=> y < x
    BY DEF OpToRel
  <2> HIDE DEF R
  <2> QED
    BY <2>1, <2>2, Zenon
<1>2. PICK R : IsWellFoundedOn(R, Nat) /\ \A x, y \in Nat : <<y, x>> \in R <=> y < x
  BY <1>1
<1>3. PICK x \in T : \A y \in T : ~(<<y, x>> \in R)
  BY <1>2, WFMin, Zenon
<1>4. \A y \in T : y \in Nat /\ x \in Nat /\ ~(y < x)
  BY <1>2, <1>3
<1> QED
  BY <1>4

(* The induction rule. *)
LEMMA SetInduction ==
    ASSUME NEW T \in SUBSET Nat, 0 \in T, \A n \in T : n + 1 \in T
    PROVE  T = Nat
<1> SUFFICES ASSUME T # Nat PROVE FALSE
  OBVIOUS
<1>1. PICK n \in Nat \ T : \A m \in Nat \ T : n <= m
  BY LeastNumber
<1>2. n # 0 /\ n - 1 \in Nat /\ ~(n <= n - 1)
  BY <1>1
<1>3. n - 1 \in T
  BY <1>1, <1>2
<1> QED
  BY <1>1, <1>3

(* A loop along the links visits exactly the nodes of the sequence that     *)
(* they form.                                                               *)
Visited(s, n) == {s[i] : i \in 1 .. n}
LinkedForward(next, N, n, s) ==
    /\ n \in Nat \ {0} /\ s \in [1 .. n -> N]
    /\ (\A i \in 1 .. n - 1 : next[s[i]] = s[i + 1]) /\ next[s[n]] \notin N
LEMMA ChainForward ==
    ASSUME NEW N, NEW next, NEW n, NEW s, LinkedForward(next, N, n, s)
    PROVE  Chain(next, N, s[1]) = Visited(s, n)
<1> USE DEF LinkedForward
<1> DEFINE E == {s[i] : i \in 1 .. n}
           Closed(S) == /\ s[1] \in N => s[1] \in S
                        /\ \A x \in S : next[x] \in N => next[x] \in S
<1>1. 1 \in 1 .. n /\ s[1] \in N /\ E \in SUBSET N /\ s[1] \in E
  OBVIOUS
<1>2. Closed(E)
  <2>1. ASSUME NEW i \in 1 .. n, next[s[i]] \in N PROVE next[s[i]] \in E
    <3>1. i # n
      BY <2>1
    <3>2. i \in 1 .. n - 1 /\ i + 1 \in 1 .. n
      BY <3>1
    <3> QED
      BY <3>2
  <2> QED
    BY <1>1, <2>1
<1>3. ASSUME NEW S \in SUBSET N, Closed(S) PROVE E \subseteq S
  <2> DEFINE T == {k \in Nat : k + 1 \in 1 .. n => s[k + 1] \in S}
  <2>1. 0 \in T
    BY <1>1, <1>3
  <2>2. ASSUME NEW k \in T PROVE k + 1 \in T
    <3>1. CASE (k + 1) + 1 \in 1 .. n
      <4>1. k \in Nat /\ k + 1 \in 1 .. n - 1 /\ k + 1 \in 1 .. n
        BY <3>1
      <4>2. s[k + 1] \in S /\ next[s[k + 1]] = s[(k + 1) + 1] /\ s[(k + 1) + 1] \in N
        BY <3>1, <4>1
      <4>3. s[(k + 1) + 1] \in S
        BY <1>3, <4>2
      <4> QED
        BY <4>1, <4>3
    <3>2. CASE (k + 1) + 1 \notin 1 .. n
      BY <3>2
    <3> QED
      BY <3>1, <3>2
  <2> HIDE DEF T
  <2>3. T = Nat
    <3>1. T \in SUBSET Nat
      BY DEF T
    <3> QED
      BY <2>1, <2>2, <3>1, SetInduction
  <2>4. ASSUME NEW i \in 1 .. n PROVE s[i] \in S
    <3>1. i - 1 \in Nat /\ (i - 1) + 1 = i
      OBVIOUS
    <3>2. i - 1 \in T
      BY <2>3, <3>1
    <3> QED
      BY <3>1, <3>2 DEF T
  <2> QED
    BY <2>4
<1>4. Chain(next, N, s[1]) = {x \in N : \A S \in SUBSET N : Closed(S) => x \in S}
  BY DEF Chain
<1> HIDE DEF E, Closed
<1>5. Chain(next, N, s[1]) = E
  BY <1>1, <1>2, <1>3, <1>4
<1> QED
  BY <1>5 DEF E, Visited

(* The same of links that lead from the last element to the first. *)
LinkedBackward(next, N, n, s) ==
    /\ n \in Nat \ {0} /\ s \in [1 .. n -> N]
    /\ (\A i \in 2 .. n : next[s[i]] = s[i - 1]) /\ next[s[1]] \notin N
LEMMA ChainBackward ==
    ASSUME NEW N, NEW next, NEW n, NEW s, LinkedBackward(next, N, n, s)
    PROVE  Chain(next, N, s[n]) = Visited(s, n)
<1> USE DEF LinkedBackward
<1>1. PICK r : r = [i \in 1 .. n |-> s[n + 1 - i]]
  OBVIOUS
<1>2. \A i \in 1 .. n : n + 1 - i \in 1 .. n /\ n + 1 - (n + 1 - i) = i
  OBVIOUS
<1>3. r \in [1 .. n -> N] /\ r[1] = s[n] /\ r[n] = s[1] /\ (\A i \in 1 .. n : r[i] = s[n + 1 - i])
  <2>1. n + 1 - 1 = n /\ n + 1 - n = 1 /\ 1 \in 1 .. n /\ n \in 1 .. n
    OBVIOUS
  <2> QED
    BY <1>1, <1>2, <2>1
<1>4. ASSUME NEW i \in 1 .. n - 1 PROVE next[r[i]] = r[i + 1]
  <2>1. i \in 1 .. n /\ i + 1 \in 1 .. n /\ n + 1 - i \in 2 .. n /\ (n + 1 - i) - 1 = n + 1 - (i + 1)
    OBVIOUS
  <2> QED
    BY <1>3, <2>1
<1>5. Visited(r, n) = Visited(s, n)
  BY <1>2, <1>3 DEF Visited
<1>6. Chain(next, N, r[1]) = Visited(r, n)
  <2>1. LinkedForward(next, N, n, r)
    BY <1>3, <1>4 DEF LinkedForward
  <2> QED
    BY <2>1, ChainForward
<1> QED
  BY <1>3, <1>5, <1>6

(* Nor does it visit anything if it starts outside. *)
LEMMA ChainOutside ==
    ASSUME NEW N, NEW next, NEW first, first \notin N
    PROVE  Chain(next, N, first) = {}
<1>1. {} \in SUBSET N
  OBVIOUS
<1> QED
  BY <1>1 DEF Chain

(* The element that a fold takes first, and how the sum is computed. *)
FirstOf(s) == CHOOSE x \in s : TRUE
IsSumOf(g, f, S) ==
    g = [s \in SUBSET S |-> IF s = {} THEN 0 ELSE f[FirstOf(s)] + g[s \ {FirstOf(s)}]]

(* The sum over a finite set exists: the function that computes it is given *)
(* by recursion on subsets.                                                 *)
LEMMA SumDefined ==
    ASSUME NEW S, IsFiniteSet(S), NEW f
    PROVE  \E g : IsSumOf(g, f, S)
<1> DEFINE Sub(n) == {s \in SUBSET S : Cardinality(s) <= n}
           Upto(g, n) == g = [s \in Sub(n) |-> IF s = {} THEN 0 ELSE f[FirstOf(s)] + g[s \ {FirstOf(s)}]]
           T == {n \in Nat : \E g : Upto(g, n)}
<1>1. \A s \in SUBSET S : /\ IsFiniteSet(s) /\ Cardinality(s) \in Nat /\ Cardinality(s) <= Cardinality(S)
                          /\ s # {} => /\ FirstOf(s) \in s /\ s \ {FirstOf(s)} \in SUBSET S
                                       /\ Cardinality(s \ {FirstOf(s)}) = Cardinality(s) - 1
                          /\ Cardinality(s) = 0 => s = {}
  BY FS_Subset, FS_CardinalityType, FS_RemoveElement, FS_EmptySet DEF FirstOf
<1>2. 0 \in T
  <2>1. Upto([s \in Sub(0) |-> 0], 0)
    BY <1>1
  <2> QED
    BY <2>1
<1>3. ASSUME NEW n \in T PROVE n + 1 \in T
  <2>0. n \in Nat /\ (\E g : Upto(g, n))
    BY Zenon
  <2>1. n \in Nat /\ n <= n + 1 /\ n + 1 \in Nat
    BY <2>0
  <2>2. PICK g : g = [s \in Sub(n) |-> IF s = {} THEN 0 ELSE f[FirstOf(s)] + g[s \ {FirstOf(s)}]]
    BY <2>0
  <2> DEFINE h == [s \in Sub(n + 1) |-> IF s = {} THEN 0 ELSE f[FirstOf(s)] + g[s \ {FirstOf(s)}]]
  <2>3. ASSUME NEW s \in Sub(n) PROVE s \in Sub(n + 1)
    <3>1. s \in SUBSET S /\ Cardinality(s) \in Nat /\ Cardinality(s) <= n
      BY <1>1
    <3>2. Cardinality(s) <= n + 1
      BY <2>1, <3>1
    <3> QED
      BY <3>1, <3>2
  <2>4. ASSUME NEW s \in Sub(n + 1), s # {} PROVE s \ {FirstOf(s)} \in Sub(n)
    <3>1. Cardinality(s) \in Nat /\ Cardinality(s) <= n + 1 /\ s \in SUBSET S
      BY <1>1
    <3>2. Cardinality(s \ {FirstOf(s)}) = Cardinality(s) - 1 /\ s \ {FirstOf(s)} \in SUBSET S
      BY <1>1, <2>4, <3>1
    <3>3. Cardinality(s \ {FirstOf(s)}) <= n
      BY <2>1, <3>1, <3>2
    <3> QED
      BY <3>2, <3>3
  <2> HIDE DEF Sub
  <2>5. ASSUME NEW s \in Sub(n) PROVE h[s] = g[s]
    <3>1. h[s] = IF s = {} THEN 0 ELSE f[FirstOf(s)] + g[s \ {FirstOf(s)}]
      BY <2>3
    <3>2. g[s] = IF s = {} THEN 0 ELSE f[FirstOf(s)] + g[s \ {FirstOf(s)}]
      BY <2>2
    <3> QED
      BY <3>1, <3>2
  <2>6. h = [s \in Sub(n + 1) |-> IF s = {} THEN 0 ELSE f[FirstOf(s)] + h[s \ {FirstOf(s)}]]
    BY <2>4, <2>5
  <2> HIDE DEF h
  <2>7. \E k : Upto(k, n + 1)
    BY <2>6
  <2> QED
    BY <2>1, <2>7
<1>4. T = Nat
  <2> HIDE DEF T
  <2>1. T \in SUBSET Nat
    BY DEF T
  <2> QED
    BY <1>2, <1>3, <2>1, SetInduction
<1>5. Cardinality(S) \in Nat /\ Sub(Cardinality(S)) = SUBSET S
  BY <1>1, FS_CardinalityType
<1>6. \E g : Upto(g, Cardinality(S))
  BY <1>4, <1>5
<1> QED
  BY <1>5, <1>6 DEF IsSumOf

(* SumFunction is the value of that function for all of the domain. *)
LEMMA SumIs ==
    ASSUME NEW f, IsFiniteSet(DOMAIN f)
    PROVE  \E g : IsSumOf(g, f, DOMAIN f) /\ SumFunction(f) = g[DOMAIN f]
<1>1. SumFunction(f) = (CHOOSE g : IsSumOf(g, f, DOMAIN f))[DOMAIN f]
  BY DEF SumFunction, SumFunctionOnSet, FoldFunctionOnSet, MapThenFoldSet, IsSumOf, FirstOf
<1> QED
  BY <1>1, SumDefined

(* The sums of two functions on the same set, subset by subset: they are    *)
(* integers; if the functions differ only in t the sums differ by as much;  *)
(* and if the one is nowhere larger its sum is not.                         *)
LEMMA SumsCompared ==
    ASSUME NEW S, IsFiniteSet(S), NEW f \in [S -> Int], NEW g, IsSumOf(g, f, S),
           NEW f2 \in [S -> Int], NEW g2, IsSumOf(g2, f2, S)
    PROVE  /\ g[S] \in Int
           /\ (\A x \in S : f[x] = 0) => g[S] = 0
           /\ (\A x \in S : f[x] <= f2[x]) => g[S] <= g2[S]
           /\ \A t \in S : (\A x \in S \ {t} : f[x] = f2[x]) => g2[S] = g[S] + f2[t] - f[t]
<1> DEFINE Good(s) == /\ g[s] \in Int /\ g2[s] \in Int
                      /\ (\A x \in S : f[x] = 0) => g[s] = 0
                      /\ (\A x \in S : f[x] <= f2[x]) => g[s] <= g2[s]
                      /\ \A t \in S : (\A x \in S \ {t} : f[x] = f2[x])
                             => g2[s] = g[s] + (IF t \in s THEN f2[t] - f[t] ELSE 0)
           T == {n \in Nat : \A s \in SUBSET S : Cardinality(s) = n => Good(s)}
<1>1. \A s \in SUBSET S : /\ IsFiniteSet(s) /\ Cardinality(s) \in Nat
                          /\ s # {} => /\ FirstOf(s) \in s /\ s \ {FirstOf(s)} \in SUBSET S
                                       /\ Cardinality(s \ {FirstOf(s)}) = Cardinality(s) - 1
                          /\ Cardinality(s) = 0 <=> s = {}
  BY FS_Subset, FS_CardinalityType, FS_RemoveElement, FS_EmptySet DEF FirstOf
<1>2. /\ g[{}] = 0 /\ g2[{}] = 0
      /\ \A s \in SUBSET S : s # {} => /\ g[s] = f[FirstOf(s)] + g[s \ {FirstOf(s)}]
                                       /\ g2[s] = f2[FirstOf(s)] + g2[s \ {FirstOf(s)}]
  <2>1. \A s \in SUBSET S : /\ g[s] = IF s = {} THEN 0 ELSE f[FirstOf(s)] + g[s \ {FirstOf(s)}]
                            /\ g2[s] = IF s = {} THEN 0 ELSE f2[FirstOf(s)] + g2[s \ {FirstOf(s)}]
    BY Zenon DEF IsSumOf
  <2> QED
    BY <2>1
<1>3. Good({})
  BY <1>2
<1>4. ASSUME NEW s \in SUBSET S, s # {}, Good(s \ {FirstOf(s)}) PROVE Good(s)
  <2> DEFINE x == FirstOf(s)
             r == s \ {x}
  <2>1. x \in s /\ x \in S /\ x \notin r /\ f[x] \in Int /\ f2[x] \in Int
    BY <1>1, <1>4
  <2>2. g[s] = f[x] + g[r] /\ g2[s] = f2[x] + g2[r] /\ g[r] \in Int /\ g2[r] \in Int
    BY <1>2, <1>4
  <2>3. (\A y \in S : f[y] <= f2[y]) => g[r] <= g2[r]
    BY <1>4
  <2>4. \A t \in S : (\A y \in S \ {t} : f[y] = f2[y])
             => g2[r] = g[r] + (IF t \in r THEN f2[t] - f[t] ELSE 0)
    BY <1>4
  <2>5. \A t \in S : t \in r <=> t \in s /\ t # x
    OBVIOUS
  <2>8. (\A y \in S : f[y] = 0) => g[r] = 0
    BY <1>4
  <2> HIDE DEF x, r
  <2>9. (\A y \in S : f[y] = 0) => g[s] = 0
    BY <2>1, <2>2, <2>8
  <2>6. (\A y \in S : f[y] <= f2[y]) => g[s] <= g2[s]
    BY <2>1, <2>2, <2>3
  <2>7. ASSUME NEW t \in S, \A y \in S \ {t} : f[y] = f2[y]
        PROVE  g2[s] = g[s] + (IF t \in s THEN f2[t] - f[t] ELSE 0)
    <3>1. g2[r] = g[r] + (IF t \in r THEN f2[t] - f[t] ELSE 0)
      BY <2>4, <2>7
    <3>2. f[t] \in Int /\ f2[t] \in Int
      OBVIOUS
    <3>3. CASE t = x
      BY <2>1, <2>2, <2>5, <3>1, <3>2, <3>3
    <3>4. CASE t # x
      <4>1. f2[x] = f[x] /\ (t \in r <=> t \in s)
        BY <2>1, <2>5, <2>7, <3>4
      <4> QED
        BY <2>1, <2>2, <3>1, <3>2, <4>1
    <3> QED
      BY <3>3, <3>4
  <2> QED
    BY <2>2, <2>1, <2>6, <2>7, <2>9
<1> HIDE DEF Good
<1>5. 0 \in T
  BY <1>1, <1>3
<1>6. ASSUME NEW n \in T PROVE n + 1 \in T
  <2>1. n \in Nat /\ (\A s \in SUBSET S : Cardinality(s) = n => Good(s))
    BY Zenon
  <2>2. ASSUME NEW s \in SUBSET S, Cardinality(s) = n + 1 PROVE Good(s)
    <3>0. Cardinality(s) # 0 /\ Cardinality(s) - 1 = n
      BY <2>1, <2>2
    <3>1. s # {}
      BY <1>1, <3>0
    <3>2. s \ {FirstOf(s)} \in SUBSET S /\ Cardinality(s \ {FirstOf(s)}) = n
      BY <1>1, <3>0, <3>1
    <3>3. Good(s \ {FirstOf(s)})
      BY <2>1, <3>2
    <3> QED
      BY <1>4, <3>1, <3>3
  <2> QED
    BY <2>1, <2>2
<1>7. T = Nat
  <2>1. T \in SUBSET Nat
    OBVIOUS
  <2> HIDE DEF T
  <2> QED
    BY <1>5, <1>6, <2>1, SetInduction
<1>8. Good(S)
  BY <1>1, <1>7
<1> QED
  BY <1>8 DEF Good

(* SumFunction of the community modules, one function against another. *)
LEMMA SumChanged ==
    ASSUME NEW S, IsFiniteSet(S), NEW f \in [S -> Int], NEW f2 \in [S -> Int]
    PROVE  /\ SumFunction(f) \in Int
           /\ (\A x \in S : f[x] = 0) => SumFunction(f) = 0
           /\ (\A x \in S : f[x] <= f2[x]) => SumFunction(f) <= SumFunction(f2)
           /\ \A t \in S : (\A x \in S \ {t} : f[x] = f2[x])
                 => SumFunction(f2) = SumFunction(f) + f2[t] - f[t]
<1>1. DOMAIN f = S /\ DOMAIN f2 = S
  OBVIOUS
<1>2. PICK g : IsSumOf(g, f, S) /\ SumFunction(f) = g[S]
  BY <1>1, SumIs
<1>3. PICK g2 : IsSumOf(g2, f2, S) /\ SumFunction(f2) = g2[S]
  BY <1>1, SumIs
<1> QED
  BY <1>2, <1>3, SumsCompared

(* The sum of natural numbers: none of them is larger, and it is zero only  *)
(* if all of them are.                                                      *)
LEMMA SumOfNaturals ==
    ASSUME NEW S, IsFiniteSet(S), NEW f \in [S -> Nat]
    PROVE  /\ SumFunction(f) \in Nat
           /\ \A t \in S : f[t] <= SumFunction(f)
           /\ SumFunction(f) = 0 <=> \A t \in S : f[t] = 0
           /\ \A t, u \in S : t # u => f[t] + f[u] <= SumFunction(f)
<1>1. f \in [S -> Int]
  OBVIOUS
<1>2. ASSUME NEW h \in [S -> Nat] PROVE SumFunction(h) \in Nat
  <2> DEFINE z == [x \in S |-> 0]
  <2>1. z \in [S -> Int] /\ h \in [S -> Int] /\ (\A x \in S : z[x] = 0) /\ (\A x \in S : z[x] <= h[x])
    OBVIOUS
  <2> HIDE DEF z
  <2>2. SumFunction(z) = 0 /\ SumFunction(z) <= SumFunction(h)
    BY <2>1, SumChanged
  <2>3. SumFunction(h) \in Int
    BY <2>1, SumChanged
  <2> QED
    BY <2>2, <2>3
<1>3. ASSUME NEW h \in [S -> Nat], NEW t \in S PROVE SumFunction([h EXCEPT ![t] = 0]) = SumFunction(h) - h[t]
  <2> DEFINE k == [h EXCEPT ![t] = 0]
  <2>1. k \in [S -> Int] /\ h \in [S -> Int] /\ (\A x \in S \ {t} : h[x] = k[x]) /\ k[t] = 0 /\ h[t] \in Int
    OBVIOUS
  <2> HIDE DEF k
  <2>2. SumFunction(k) = SumFunction(h) + k[t] - h[t] /\ SumFunction(h) \in Int
    BY <2>1, SumChanged
  <2>3. SumFunction(k) = SumFunction(h) - h[t]
    BY <2>1, <2>2
  <2> QED
    BY <2>3 DEF k
<1>4. ASSUME NEW t \in S PROVE f[t] <= SumFunction(f)
  <2> DEFINE h == [f EXCEPT ![t] = 0]
  <2>1. h \in [S -> Nat] /\ f[t] \in Nat /\ SumFunction(h) = SumFunction(f) - f[t]
    BY <1>3
  <2> HIDE DEF h
  <2>2. SumFunction(h) \in Nat /\ SumFunction(f) \in Nat
    BY <1>2, <2>1
  <2> QED
    BY <2>1, <2>2
<1>5. ASSUME NEW t \in S, NEW u \in S, t # u PROVE f[t] + f[u] <= SumFunction(f)
  <2> DEFINE h == [f EXCEPT ![t] = 0]
             k == [h EXCEPT ![u] = 0]
  <2>1. h \in [S -> Nat] /\ k \in [S -> Nat] /\ h[u] = f[u] /\ f[u] \in Nat /\ f[t] \in Nat
    BY <1>5
  <2>2. SumFunction(h) = SumFunction(f) - f[t]
    BY <1>3
  <2> HIDE DEF h
  <2>3. SumFunction(k) = SumFunction(h) - h[u]
    BY <1>3, <2>1
  <2> HIDE DEF k
  <2>4. SumFunction(k) \in Nat /\ SumFunction(f) \in Nat /\ SumFunction(h) \in Nat
    BY <1>2, <2>1
  <2> QED
    BY <2>1, <2>2, <2>3, <2>4
<1>6. SumFunction(f) \in Nat
  BY <1>2
<1>7. (\A t \in S : f[t] = 0) => SumFunction(f) = 0
  BY <1>1, SumChanged
<1> QED
  BY <1>4, <1>5, <1>6, <1>7
=============================================================================
