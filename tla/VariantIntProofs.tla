-------------------------- MODULE VariantIntProofs --------------------------
(***************************************************************************)
(* An integer survives Encode and Decode, for every width and every size   *)
(* of a group that VariantAssumption admits.  The argument follows what is *)
(* left of the integer after each group: Encode makes these remainders one *)
(* after the other, Decode meets the same ones again.                      *)
(***************************************************************************)
EXTENDS VariantInt, LibraryLemmas

-----------------------------------------------------------------------------
(* Powers of two.  The prover knows the recursive definition of Pow2 only   *)
(* as a choice; first, then, that there is a function to be chosen.         *)

(* How Pow2 computes, up to n. *)
IsPow(g, n) == g = [k \in 0 .. n |-> IF k = 0 THEN 1 ELSE 2 * g[k - 1]]

(* Such powers exist, and there is one such function. *)
LEMMA PowersExist ==
    ASSUME NEW n \in Nat
    PROVE  \E g : IsPow(g, n)
<1> DEFINE T == {m \in Nat : \E g : IsPow(g, m)}
<1>1. 0 \in T
  <2>1. IsPow([k \in 0 .. 0 |-> 1], 0)
    BY DEF IsPow
  <2> QED
    BY <2>1
<1>2. ASSUME NEW m \in T PROVE m + 1 \in T
  <2>1. PICK g : IsPow(g, m)
    OBVIOUS
  <2> DEFINE h == [k \in 0 .. m + 1 |-> IF k = 0 THEN 1 ELSE 2 * g[k - 1]]
  <2>2. ASSUME NEW k \in 0 .. m PROVE h[k] = g[k]
    <3>1. h[k] = IF k = 0 THEN 1 ELSE 2 * g[k - 1]
      OBVIOUS
    <3>2. g[k] = IF k = 0 THEN 1 ELSE 2 * g[k - 1]
      BY <2>1 DEF IsPow
    <3> QED
      BY <3>1, <3>2
  <2>3. ASSUME NEW k \in 0 .. m + 1, k # 0 PROVE k - 1 \in 0 .. m
    BY <2>3
  <2>4. IsPow(h, m + 1)
    BY <2>2, <2>3 DEF IsPow
  <2> HIDE DEF h
  <2> QED
    BY <2>4
<1>3. T = Nat
  <2>1. T \in SUBSET Nat
    OBVIOUS
  <2> HIDE DEF T
  <2> QED
    BY <1>1, <1>2, <2>1, SetInduction
<1> QED
  BY <1>3

(* Two of them agree where both are defined. *)
LEMMA PowersAgree ==
    ASSUME NEW g, NEW h, NEW m \in Nat, NEW n \in Nat, IsPow(g, m), IsPow(h, n), m <= n
    PROVE  \A k \in 0 .. m : g[k] = h[k]
<1> DEFINE T == {k \in Nat : k \in 0 .. m => g[k] = h[k]}
<1>1. 0 \in T
  BY DEF IsPow
<1>2. ASSUME NEW k \in T PROVE k + 1 \in T
  <2> SUFFICES ASSUME k + 1 \in 0 .. m PROVE g[k + 1] = h[k + 1]
    OBVIOUS
  <2>1. PICK a \in 0 .. m : a = k + 1 /\ a - 1 = k /\ a # 0 /\ a \in 0 .. n /\ k \in 0 .. m
    OBVIOUS
  <2>2. g[a] = 2 * g[a - 1] /\ h[a] = 2 * h[a - 1]
    BY <2>1 DEF IsPow
  <2> QED
    BY <2>1, <2>2
<1>3. T = Nat
  <2>1. T \in SUBSET Nat
    OBVIOUS
  <2> HIDE DEF T
  <2> QED
    BY <1>1, <1>2, <2>1, SetInduction
<1> QED
  BY <1>3

(* The recursive definition of Pow2 defines a function. *)
LEMMA Pow2Defined == Pow2 = [n \in Nat |-> IF n = 0 THEN 1 ELSE 2 * Pow2[n - 1]]
<1> DEFINE Good(f) == f = [n \in Nat |-> IF n = 0 THEN 1 ELSE 2 * f[n - 1]]
           G(n) == CHOOSE g : IsPow(g, n)
           P == [n \in Nat |-> G(n)[n]]
<1>1. \A n \in Nat : IsPow(G(n), n)
  BY PowersExist
<1> HIDE DEF G
<1>2. ASSUME NEW n \in Nat PROVE P[n] = IF n = 0 THEN 1 ELSE 2 * P[n - 1]
  <2>1. G(n)[n] = IF n = 0 THEN 1 ELSE 2 * G(n)[n - 1]
    BY <1>1 DEF IsPow
  <2>2. CASE n # 0
    <3>1. PICK m \in Nat : m = n - 1 /\ m \in 0 .. m /\ m <= n
      BY <2>2
    <3>2. G(m)[m] = G(n)[m]
      BY <1>1, <3>1, PowersAgree
    <3> QED
      BY <2>1, <2>2, <3>1, <3>2
  <2> QED
    BY <2>1, <2>2
<1>3. Good(P)
  BY <1>2
<1>4. Pow2 = CHOOSE f : Good(f)
  BY DEF Pow2
<1> HIDE DEF Good
<1>5. Good(Pow2)
  BY <1>3, <1>4
<1> QED
  BY <1>5 DEF Good

(* Its equations. *)
LEMMA Pow2Step == Pow2[0] = 1 /\ \A n \in Nat : Pow2[n + 1] = 2 * Pow2[n]
<1>1. \A n \in Nat : Pow2[n] = IF n = 0 THEN 1 ELSE 2 * Pow2[n - 1]
  BY Pow2Defined
<1>2. ASSUME NEW n \in Nat PROVE Pow2[n + 1] = 2 * Pow2[n]
  <2>1. PICK m \in Nat : m = n + 1 /\ m # 0 /\ m - 1 = n
    OBVIOUS
  <2> QED
    BY <2>1, <1>1
<1> QED
  BY <1>1, <1>2

(* Powers are positive. *)
LEMMA Pow2Positive == \A n \in Nat : Pow2[n] \in Nat \ {0}
<1> DEFINE T == {n \in Nat : Pow2[n] \in Nat \ {0}}
<1>1. 0 \in T
  BY Pow2Step
<1>2. ASSUME NEW n \in T PROVE n + 1 \in T
  BY Pow2Step
<1>3. T = Nat
  <2>1. T \in SUBSET Nat
    OBVIOUS
  <2> HIDE DEF T
  <2> QED
    BY <1>1, <1>2, <2>1, SetInduction
<1> QED
  BY <1>3

(* Shifting twice is shifting by the sum. *)
LEMMA Pow2Sum ==
    ASSUME NEW a \in Nat, NEW b \in Nat
    PROVE  Pow2[a + b] = Pow2[a] * Pow2[b]
<1> DEFINE T == {n \in Nat : Pow2[a + n] = Pow2[a] * Pow2[n]}
<1>1. 0 \in T
  <2>1. a + 0 = a /\ Pow2[a] \in Nat
    BY Pow2Positive
  <2> QED
    BY <2>1, Pow2Step
<1>2. ASSUME NEW n \in T PROVE n + 1 \in T
  <2>1. PICK c \in Nat : c = a + n /\ a + (n + 1) = c + 1
    OBVIOUS
  <2>2. PICK p \in Nat, q \in Nat : p = Pow2[a] /\ q = Pow2[n]
    BY Pow2Positive
  <2>3. Pow2[c + 1] = 2 * (p * q) /\ Pow2[n + 1] = 2 * q
    BY <2>1, <2>2, Pow2Step
  <2>4. p * (2 * q) = 2 * (p * q)
    OBVIOUS
  <2> QED
    BY <2>1, <2>2, <2>3, <2>4
<1>3. T = Nat
  <2>1. T \in SUBSET Nat
    OBVIOUS
  <2> HIDE DEF T
  <2> QED
    BY <1>1, <1>2, <2>1, SetInduction
<1> QED
  BY <1>3

(* A larger power has a larger exponent. *)
LEMMA Pow2Less ==
    ASSUME NEW a \in Nat, NEW b \in Nat, Pow2[a] < Pow2[b]
    PROVE  a < b
<1> SUFFICES ASSUME b <= a PROVE FALSE
  OBVIOUS
<1>1. PICK c \in Nat : a = b + c
  <2>1. a - b \in Nat /\ a = b + (a - b)
    OBVIOUS
  <2> QED
    BY <2>1
<1>2. PICK p \in Nat \ {0}, q \in Nat \ {0} : p = Pow2[b] /\ q = Pow2[c]
  BY Pow2Positive
<1>3. p * q >= p
  OBVIOUS
<1>4. Pow2[b + c] = Pow2[b] * Pow2[c]
  BY Pow2Sum
<1> QED
  BY <1>1, <1>2, <1>3, <1>4

-----------------------------------------------------------------------------
(* The invariant. *)

(* The weight of group k. *)
Weight(k) == Pow2[Group * k]

(* r[k] is what is left of the integer after k groups; each of the first k  *)
(* bytes holds the group between two of them and says that more follows.    *)
Groups(r, k) ==
    /\ k \in Nat /\ r \in [0 .. k -> Nat] /\ r[0] = given
    /\ \A j \in 1 .. k : /\ buf[j].more /\ buf[j].low \in Nat /\ r[j] >= 1
                         /\ r[j - 1] = buf[j].low + r[j] * Pow2[Group]

(* The first k groups of the integer, and y behind them. *)
SplitAt(k, y) == \E lo \in Nat : lo < Weight(k) /\ given = lo + y * Weight(k)

(* n bytes are needed for the integer. *)
Needs(n) ==
    /\ n \in Nat \ {0} /\ given < Weight(n)
    /\ n = 1 \/ given >= Weight(n - 1)

(* The bytes that Encode has written for the integer. *)
Encoded(r) ==
    /\ buf \in Seq(Byte) /\ Needs(Len(buf)) /\ Groups(r, Len(buf) - 1)
    /\ ~buf[Len(buf)].more /\ buf[Len(buf)].low = r[Len(buf) - 1]

(* Decode has put together i groups. *)
Gathered(r) == i \in 0 .. Len(buf) - 1 /\ value \in Nat /\ given = value + r[i] * Weight(i)

Encoding(r) ==
    /\ buf \in Seq(Byte) /\ Groups(r, Len(buf)) /\ x = r[Len(buf)] /\ SplitAt(Len(buf), x)
    /\ Len(buf) = 0 \/ x >= 1

VariantInv ==
    own =>
        /\ pc # "idle" /\ given \in Ints
        /\ pc = "encode" => \E r : Encoding(r)
        /\ pc # "encode" => \E r : Encoded(r) /\ (pc = "decode" => Gathered(r) /\ limit \in Nat)
        /\ RoundTrip

-----------------------------------------------------------------------------
(* The base of the groups and the weights. *)
LEMMA Weights ==
    /\ Pow2[Group] \in Nat \ {0} /\ Pow2[Width] \in Nat \ {0} /\ Weight(0) = 1
    /\ \A k \in Nat : Weight(k) \in Nat \ {0} /\ Weight(k + 1) = Weight(k) * Pow2[Group]
<1>1. PICK G \in Nat \ {0} : G = Group /\ Width \in Nat
  BY VariantAssumption
<1>2. \A k \in Nat : G * k \in Nat /\ G * (k + 1) = G * k + G
  OBVIOUS
<1>3. G * 0 = 0
  OBVIOUS
<1>4. Weight(0) = 1
  BY <1>1, <1>3, Pow2Step DEF Weight
<1>5. ASSUME NEW k \in Nat PROVE Weight(k) \in Nat \ {0} /\ Weight(k + 1) = Weight(k) * Pow2[Group]
  <2>1. PICK m \in Nat : m = G * k
    BY <1>2
  <2>2. Pow2[m + G] = Pow2[m] * Pow2[G] /\ Pow2[m] \in Nat \ {0}
    BY Pow2Sum, Pow2Positive
  <2>3. G * (k + 1) = m + G
    BY <1>2, <2>1
  <2> QED
    BY <2>1, <2>2, <2>3, <1>1 DEF Weight
<1> QED
  BY <1>1, <1>4, <1>5, Pow2Positive

(* Quotient and remainder. *)
LEMMA Divided ==
    ASSUME NEW n \in Nat, NEW b \in Nat \ {0}
    PROVE  /\ n \div b \in Nat /\ n % b \in 0 .. b - 1 /\ n = (n % b) + (n \div b) * b
           /\ n < b => n % b = n /\ n \div b = 0
           /\ n >= b => n \div b >= 1
<1>1. PICK q \in Int, m \in 0 .. b - 1 : q = n \div b /\ m = n % b /\ n = b * q + m
  OBVIOUS
<1>2. q >= 0
  <2> SUFFICES ASSUME q < 0 PROVE FALSE
    BY <1>1
  <2>1. b * q <= b * (-1)
    BY <1>1
  <2> QED
    BY <1>1, <2>1
<1>3. ASSUME n < b PROVE q = 0
  <2> SUFFICES ASSUME q >= 1 PROVE FALSE
    BY <1>1, <1>2
  <2>1. b * q >= b
    BY <1>1
  <2> QED
    BY <1>1, <1>3, <2>1
<1>4. ASSUME n >= b PROVE q >= 1
  <2> SUFFICES ASSUME q = 0 PROVE FALSE
    BY <1>1, <1>2
  <2> QED
    BY <1>1, <1>4
<1>5. b * q = q * b
  BY <1>1
<1> QED
  BY <1>1, <1>2, <1>3, <1>4, <1>5

(* The number of bytes that Decode reads at most. *)
LEMMA MaxCharsIs == GetMaxCharsOfEncodedSize \in Nat
<1>1. Width + Group - 1 \in Nat /\ Group \in Nat \ {0}
  BY VariantAssumption
<1> QED
  BY <1>1, Divided DEF GetMaxCharsOfEncodedSize

(* An integer that is left over after m groups has room for one more. *)
LEMMA RoomForMore ==
    ASSUME NEW m \in Nat, given \in Ints, m = 0 \/ given >= Weight(m)
    PROVE  (m = 0 \/ Group * m < Width) /\ m + 1 <= GetMaxCharsOfEncodedSize
<1>1. PICK G \in Nat \ {0}, W \in Nat \ {0} : G = Group /\ W = Width
  BY VariantAssumption
<1>2. given \in Nat /\ given < Pow2[W]
  BY <1>1, Weights DEF Ints
<1>3. m = 0 \/ G * m < W
  <2> SUFFICES ASSUME m # 0 PROVE G * m < W
    OBVIOUS
  <2>1. Weight(m) <= given /\ Weight(m) \in Nat
    BY <1>2, Weights
  <2>2. PICK e \in Nat : e = G * m
    OBVIOUS
  <2>3. Pow2[e] < Pow2[W]
    BY <2>1, <2>2, <1>1, <1>2, Weights DEF Weight
  <2> QED
    BY <2>2, <2>3, Pow2Less
<1>4. m + 1 <= (W + G - 1) \div G
  <2>1. PICK q \in Nat, e \in 0 .. G - 1 : q = (W + G - 1) \div G /\ W + G - 1 = e + q * G
    <3>1. W + G - 1 \in Nat
      OBVIOUS
    <3> QED
      BY <3>1, Divided
  <2> SUFFICES ASSUME q < m + 1 PROVE FALSE
    BY <2>1
  <2>2. q <= m
    BY <2>1
  <2>3. q * G <= G * m
    BY <2>2
  <2>4. PICK c \in Nat, d \in Nat : c = q * G /\ d = G * m
    OBVIOUS
  <2> QED
    BY <2>1, <2>3, <2>4, <1>3
<1> QED
  BY <1>1, <1>3, <1>4 DEF GetMaxCharsOfEncodedSize

(* GetLength is the number of bytes that are needed. *)
LEMMA LengthIs ==
    ASSUME NEW n, Needs(n), given \in Ints
    PROVE  /\ GetLength(given) = n /\ n <= GetMaxCharsOfEncodedSize
<1>1. PICK G \in Nat \ {0}, W \in Nat \ {0} : G = Group /\ W = Width
  BY VariantAssumption
<1>2. n \in Nat \ {0} /\ given \in Nat /\ given < Pow2[W]
  BY <1>1, Weights DEF Needs, Ints
<1>3. PICK m \in Nat : n = m + 1
  <2>1. n - 1 \in Nat /\ n = (n - 1) + 1
    BY <1>2
  <2> QED
    BY <2>1
<1>4. (m = 0 \/ G * m < W) /\ m + 1 <= GetMaxCharsOfEncodedSize
  <2>1. m = 0 \/ given >= Weight(m)
    BY <1>3 DEF Needs
  <2> QED
    BY <2>1, <1>1, RoomForMore
<1>5. m <= W
  <2>1. G * m >= m
    OBVIOUS
  <2>2. PICK e \in Nat : e = G * m
    OBVIOUS
  <2> QED
    BY <1>4, <2>1, <2>2
<1>6. \A a \in Nat, b \in Nat : a <= b => Weight(a) <= Weight(b)
  <2> SUFFICES ASSUME NEW a \in Nat, NEW b \in Nat, a <= b, Weight(b) < Weight(a) PROVE FALSE
    BY Weights
  <2>1. PICK c \in Nat, d \in Nat : c = G * a /\ d = G * b
    OBVIOUS
  <2>2. d < c
    BY <2>1, <1>1, Pow2Less DEF Weight
  <2>3. G * a <= G * b
    OBVIOUS
  <2> QED
    BY <2>1, <2>2, <2>3
<1>7. {k \in 1 .. Width : given >= Pow2[Group * k]} = 1 .. m
  <2>1. ASSUME NEW k \in 1 .. W PROVE given >= Weight(k) <=> k <= m
    <3>1. CASE k <= m
      <4>1. Weight(k) <= Weight(m) /\ Weight(k) \in Nat /\ Weight(m) \in Nat
        <5>1. k \in Nat
          OBVIOUS
        <5>2. Weight(k) \in Nat /\ Weight(m) \in Nat
          BY <5>1, Weights
        <5> QED
          BY <5>1, <5>2, <3>1, <1>6
      <4>2. given >= Weight(m)
        BY <3>1, <1>2, <1>3 DEF Needs
      <4> QED
        BY <4>1, <4>2, <3>1, <1>2
    <3>2. CASE ~(k <= m)
      <4>1. n <= k
        BY <3>2, <1>3
      <4>2. Weight(n) <= Weight(k) /\ Weight(k) \in Nat /\ Weight(n) \in Nat
        <5>1. k \in Nat /\ n \in Nat
          BY <1>2
        <5>2. Weight(k) \in Nat /\ Weight(n) \in Nat
          BY <5>1, Weights
        <5> QED
          BY <5>1, <5>2, <4>1, <1>6
      <4>3. given < Weight(n)
        BY DEF Needs
      <4> QED
        BY <4>2, <4>3, <3>2, <1>2
    <3> QED
      BY <3>1, <3>2
  <2>2. \A k \in 1 .. m : k \in 1 .. W
    BY <1>5
  <2>3. {k \in 1 .. W : given >= Weight(k)} = 1 .. m
    <3>1. \A k \in 1 .. W : given >= Weight(k) <=> k \in 1 .. m
      BY <2>1
    <3> QED
      BY <2>2, <3>1
  <2> QED
    BY <2>3, <1>1 DEF Weight
<1>8. Cardinality(1 .. m) = m
  BY FS_Interval
<1>9. GetLength(given) = n
  <2>1. GetLength(given) = 1 + Cardinality({k \in 1 .. Width : given >= Pow2[Group * k]})
    BY DEF GetLength
  <2>2. GetLength(given) = 1 + m
    BY <2>1, <1>7, <1>8
  <2> QED
    BY <2>2, <1>3
<1> QED
  BY <1>3, <1>4, <1>9

(* One group more behind the ones before. *)
LEMMA OneGroupMore ==
    ASSUME NEW k \in Nat, NEW y \in Nat, SplitAt(k, y), NEW z \in Nat, NEW l \in 0 .. Pow2[Group] - 1,
           y = l + z * Pow2[Group]
    PROVE  SplitAt(k + 1, z)
<1>1. PICK w \in Nat \ {0}, b \in Nat \ {0} : w = Weight(k) /\ b = Pow2[Group] /\ Weight(k + 1) = w * b
  BY Weights
<1>2. PICK lo \in Nat : lo < w /\ given = lo + y * w
  BY <1>1 DEF SplitAt
<1>3. l \in Nat /\ l + 1 <= b
  BY <1>1
<1>4. l * w \in Nat /\ (l + 1) * w <= b * w /\ (l + 1) * w = l * w + w /\ b * w = w * b
  BY <1>3
<1>5. (l + z * b) * w = l * w + z * (w * b)
  BY <1>3
<1>6. lo + l * w \in Nat /\ lo + l * w < w * b
  BY <1>2, <1>4
<1>7. given = (lo + l * w) + z * (w * b)
  <2>1. PICK e \in Nat : e = z * (w * b)
    OBVIOUS
  <2> QED
    BY <2>1, <1>1, <1>2, <1>4, <1>5
<1> QED
  BY <1>1, <1>6, <1>7 DEF SplitAt

(* An integer that ends with its last group needs that many bytes. *)
LEMMA SplitNeeds ==
    ASSUME NEW k \in Nat, NEW y \in Nat, SplitAt(k, y), y < Pow2[Group], k = 0 \/ y >= 1
    PROVE  Needs(k + 1)
<1>1. PICK w \in Nat \ {0}, b \in Nat \ {0} : w = Weight(k) /\ b = Pow2[Group] /\ Weight(k + 1) = w * b
  BY Weights
<1>2. PICK lo \in Nat : lo < w /\ given = lo + y * w
  BY <1>1 DEF SplitAt
<1>3. y + 1 <= b
  BY <1>1
<1>4. y * w \in Nat /\ (y + 1) * w <= b * w /\ (y + 1) * w = y * w + w /\ b * w = w * b
  BY <1>3
<1>5. given < w * b
  BY <1>2, <1>4
<1>6. y >= 1 => given >= w
  <2>1. y >= 1 => y * w >= w
    OBVIOUS
  <2> QED
    BY <2>1, <1>2, <1>4
<1>7. k + 1 \in Nat \ {0} /\ (k + 1) - 1 = k /\ (k = 0 => k + 1 = 1)
  OBVIOUS
<1> QED
  BY <1>1, <1>5, <1>6, <1>7 DEF Needs

(* One group more is put together. *)
LEMMA OneGroupBack ==
    ASSUME NEW r, NEW k, Groups(r, k), NEW j \in Nat, j < k, NEW a \in Nat, given = a + r[j] * Weight(j)
    PROVE  /\ buf[j + 1].more /\ buf[j + 1].low \in Nat
           /\ a + buf[j + 1].low * Weight(j) \in Nat
           /\ given = (a + buf[j + 1].low * Weight(j)) + r[j + 1] * Weight(j + 1)
<1>1. PICK w \in Nat \ {0}, b \in Nat \ {0} : w = Weight(j) /\ b = Pow2[Group] /\ Weight(j + 1) = w * b
  BY Weights
<1>2. PICK m \in 1 .. k : m = j + 1 /\ m - 1 = j /\ m \in 0 .. k
  BY DEF Groups
<1>3. buf[m].more /\ buf[m].low \in Nat /\ r[j] = buf[m].low + r[m] * b /\ r[m] \in Nat
  BY <1>1, <1>2 DEF Groups
<1>4. PICK l \in Nat, z \in Nat : l = buf[m].low /\ z = r[m]
  BY <1>3
<1>5. (l + z * b) * w = l * w + z * (w * b) /\ l * w \in Nat /\ z * (w * b) \in Nat
  OBVIOUS
<1>6. given = (a + l * w) + z * (w * b) /\ a + l * w \in Nat
  BY <1>1, <1>3, <1>4, <1>5
<1> QED
  BY <1>1, <1>2, <1>3, <1>4, <1>6

-----------------------------------------------------------------------------
(* The steps. *)

(* Nothing is written of the integer that Encode is called with. *)
LEMMA EncodeStarts == ASSUME NEW n \in Ints, CallEncode(n) PROVE VariantInv'
<1>1. /\ pc' = "encode" /\ given' = n /\ x' = n /\ buf' = <<>> /\ n \in Nat
  BY Weights DEF CallEncode, Ints
<1>2. PICK r : r = [k \in 0 .. 0 |-> n]
  OBVIOUS
<1>3. buf' \in Seq(Byte) /\ Len(buf') = 0
  BY <1>1
<1>4. r \in [0 .. 0 -> Nat] /\ r[0] = n
  BY <1>1, <1>2
<1>5. Groups(r, 0)'
  BY <1>1, <1>4 DEF Groups
<1>6. SplitAt(0, n)'
  <2>1. 0 \in Nat /\ 0 < Weight(0) /\ n = 0 + n * Weight(0)
    <3>1. n = 0 + n * 1
      BY <1>1
    <3> QED
      BY <3>1, Weights
  <2> QED
    BY <2>1, <1>1 DEF SplitAt, Weight
<1>7. Encoding(r)'
  BY <1>1, <1>3, <1>4, <1>5, <1>6 DEF Encoding
<1> QED
  BY <1>1, <1>7 DEF VariantInv, RoundTrip

(* A turn of the loop of Encode. *)
LEMMA EncodeGoesOn == ASSUME own, VariantInv, EncodeGroup PROVE VariantInv'
<1>1. /\ pc = "encode" /\ pc' = "encode" /\ UNCHANGED <<given, own>> /\ x >= Pow2[Group]
      /\ buf' = Append(buf, [more |-> TRUE, low |-> x % Pow2[Group]])
      /\ x' = x \div Pow2[Group]
  BY DEF EncodeGroup
<1>2. PICK r : Encoding(r)
  BY <1>1 DEF VariantInv
<1>3. PICK k \in Nat : k = Len(buf)
  BY <1>2, LenProperties DEF Encoding
<1>4. PICK y \in Nat : y = x /\ y = r[k]
  BY <1>2, <1>3 DEF Encoding, Groups
<1>5. PICK b \in Nat \ {0} : b = Pow2[Group]
  BY Weights
<1>6. PICK l \in 0 .. b - 1, z \in Nat : l = x % b /\ z = x \div b /\ y = l + z * b /\ z >= 1
  <2>1. y \div b \in Nat /\ y % b \in 0 .. b - 1 /\ y = (y % b) + (y \div b) * b /\ y \div b >= 1
    BY <1>1, <1>4, <1>5, Divided
  <2> QED
    BY <2>1, <1>4
<1>7. PICK e \in Byte : e = [more |-> TRUE, low |-> l]
  BY <1>5, <1>6 DEF Byte
<1>8. buf \in Seq(Byte) /\ buf' = Append(buf, e)
  BY <1>1, <1>2, <1>5, <1>6, <1>7 DEF Encoding
<1>9. /\ buf' \in Seq(Byte) /\ Len(buf') = k + 1 /\ buf'[k + 1] = e
      /\ \A j \in 1 .. k : buf'[j] = buf[j]
  BY <1>3, <1>8, AppendProperties
<1>10. PICK s : s = [j \in 0 .. k + 1 |-> IF j <= k THEN r[j] ELSE z]
  OBVIOUS
<1>11. /\ r \in [0 .. k -> Nat] /\ r[0] = given
       /\ \A j \in 1 .. k : /\ buf[j].more /\ buf[j].low \in Nat /\ r[j] >= 1
                            /\ r[j - 1] = buf[j].low + r[j] * b
  BY <1>2, <1>3, <1>5 DEF Encoding, Groups
<1>12. /\ s \in [0 .. k + 1 -> Nat] /\ s[0] = given /\ s[k + 1] = z
       /\ \A j \in 0 .. k : s[j] = r[j]
  BY <1>10, <1>11
<1>13. ASSUME NEW j \in 1 .. k + 1
       PROVE  /\ buf'[j].more /\ buf'[j].low \in Nat /\ s[j] >= 1
              /\ s[j - 1] = buf'[j].low + s[j] * b
  <2>1. CASE j <= k
    <3>1. j \in 1 .. k /\ j \in 0 .. k /\ j - 1 \in 0 .. k
      BY <2>1
    <3>2. buf'[j] = buf[j] /\ s[j] = r[j] /\ s[j - 1] = r[j - 1]
      BY <3>1, <1>9, <1>12
    <3> QED
      BY <3>1, <3>2, <1>11
  <2>2. CASE ~(j <= k)
    <3>1. j = k + 1 /\ j - 1 = k /\ k \in 0 .. k
      BY <2>2
    <3>2. buf'[j] = e /\ s[j] = z /\ s[j - 1] = y
      BY <3>1, <1>4, <1>9, <1>12
    <3>3. e.more /\ e.low = l /\ l \in Nat
      BY <1>7
    <3> QED
      BY <3>2, <3>3, <1>6
  <2> QED
    BY <2>1, <2>2
<1>14. Groups(s, k + 1)'
  <2>1. k + 1 \in Nat
    OBVIOUS
  <2>2. \A j \in 1 .. k + 1 : /\ buf'[j].more /\ buf'[j].low \in Nat /\ s[j] >= 1
                             /\ s[j - 1] = buf'[j].low + s[j] * Pow2[Group]
    BY <1>5, <1>13
  <2> QED
    BY <2>1, <2>2, <1>1, <1>12 DEF Groups
<1>15. SplitAt(k + 1, z)
  <2>1. SplitAt(k, y)
    BY <1>2, <1>3, <1>4 DEF Encoding
  <2> QED
    BY <2>1, <1>5, <1>6, OneGroupMore
<1>16. SplitAt(k + 1, z)'
  BY <1>1, <1>15 DEF SplitAt, Weight
<1>17. x' = z
  BY <1>1, <1>5, <1>6
<1>18. Encoding(s)'
  BY <1>6, <1>9, <1>12, <1>14, <1>16, <1>17 DEF Encoding
<1> QED
  BY <1>1, <1>18 DEF VariantInv, RoundTrip

(* The last byte. *)
LEMMA EncodeEnds == ASSUME own, VariantInv, EncodeLast PROVE VariantInv'
<1>1. /\ pc = "encode" /\ pc' = "encoded" /\ UNCHANGED <<given, own>> /\ x < Pow2[Group]
      /\ buf' = Append(buf, ToByte(x))
  BY DEF EncodeLast
<1>2. PICK r : Encoding(r)
  BY <1>1 DEF VariantInv
<1>3. PICK k \in Nat : k = Len(buf)
  BY <1>2, LenProperties DEF Encoding
<1>4. PICK y \in Nat : y = x /\ y = r[k]
  BY <1>2, <1>3 DEF Encoding, Groups
<1>5. PICK b \in Nat \ {0} : b = Pow2[Group]
  BY Weights
<1>6. y % b = y /\ y \div b = 0 /\ y \in 0 .. b - 1
  <2>1. y < b
    BY <1>1, <1>4, <1>5
  <2> QED
    BY <2>1, Divided
<1>7. PICK e \in Byte : e = [more |-> FALSE, low |-> y]
  BY <1>5, <1>6 DEF Byte
<1>8. ToByte(x) = e
  <2>1. (y \div b) % 2 = 0
    BY <1>6
  <2> QED
    <3>1. ToByte(x) = [more |-> ((y \div b) % 2 = 1), low |-> y % b]
      BY <1>4, <1>5 DEF ToByte
    <3>2. ((y \div b) % 2 = 1) = FALSE
      BY <2>1
    <3> QED
      BY <3>1, <3>2, <1>6, <1>7
<1>9. buf \in Seq(Byte) /\ buf' = Append(buf, e)
  BY <1>1, <1>2, <1>8 DEF Encoding
<1>10. /\ buf' \in Seq(Byte) /\ Len(buf') = k + 1 /\ buf'[k + 1] = e
       /\ \A j \in 1 .. k : buf'[j] = buf[j]
  BY <1>3, <1>9, AppendProperties
<1>11. Groups(r, k)'
  <2>1. Groups(r, k)
    BY <1>2, <1>3 DEF Encoding
  <2> QED
    BY <2>1, <1>1, <1>10 DEF Groups
<1>12. Needs(k + 1)
  <2>1. SplitAt(k, y) /\ (k = 0 \/ y >= 1)
    BY <1>2, <1>3, <1>4 DEF Encoding
  <2> QED
    BY <2>1, <1>1, <1>4, SplitNeeds
<1>13. Needs(k + 1)'
  BY <1>1, <1>12 DEF Needs, Weight
<1>14. (k + 1) - 1 = k
  OBVIOUS
<1>15. Encoded(r)'
  BY <1>4, <1>7, <1>10, <1>11, <1>13, <1>14 DEF Encoded
<1>16. given' \in Ints /\ own'
  BY <1>1 DEF VariantInv, Ints
<1> QED
  BY <1>1, <1>15, <1>16 DEF VariantInv, RoundTrip

(* The bytes stay as they are while Decode reads them. *)
LEMMA EncodedKept ==
    ASSUME NEW r, Encoded(r), UNCHANGED <<buf, given>>
    PROVE  Encoded(r)'
  BY DEF Encoded, Groups, Needs, Weight

(* Decode begins with the first byte. *)
LEMMA DecodeStarts == ASSUME own, VariantInv, NEW l \in Limits, CallDecode(l) PROVE VariantInv'
<1>1. /\ pc = "encoded" /\ pc' = "decode" /\ UNCHANGED <<given, buf, own>>
      /\ limit' = (IF l > GetMaxCharsOfEncodedSize THEN GetMaxCharsOfEncodedSize ELSE l)
      /\ i' = 0 /\ value' = 0
  BY DEF CallDecode
<1>2. PICK r : Encoded(r)
  BY <1>1 DEF VariantInv
<1>3. PICK m \in Nat : Len(buf) = m + 1 /\ m = Len(buf) - 1
  <2>1. Len(buf) \in Nat \ {0}
    BY <1>2 DEF Encoded, Needs
  <2> QED
    BY <2>1
<1>4. limit' \in Nat
  <2>1. NoLimit \in Nat /\ l \in Nat
    BY <1>3, VariantAssumption DEF Limits
  <2>2. GetMaxCharsOfEncodedSize \in Nat
    BY MaxCharsIs
  <2> QED
    BY <2>1, <2>2, <1>1
<1>5. r[0] = given /\ given \in Nat
  BY <1>2, <1>3 DEF Encoded, Groups
<1>6. Gathered(r)'
  <2>1. 0 \in 0 .. Len(buf) - 1
    BY <1>3
  <2>2. given = 0 + r[0] * Weight(0)
    BY <1>5, Weights
  <2> QED
    BY <2>1, <2>2, <1>1 DEF Gathered, Weight
<1>7. Encoded(r)' /\ given' \in Ints
  BY <1>1, <1>2, EncodedKept DEF VariantInv, Ints
<1> QED
  BY <1>1, <1>4, <1>6, <1>7 DEF VariantInv, RoundTrip

(* A byte with more behind it. *)
LEMMA DecodeGoesOn == ASSUME own, VariantInv, DecodeMore PROVE VariantInv'
<1>1. /\ pc = "decode" /\ pc' = "decode" /\ UNCHANGED <<given, buf, own, limit>> /\ i < limit
      /\ buf[i + 1].more /\ value' = value + buf[i + 1].low * Weight(i) /\ i' = i + 1
  BY DEF DecodeMore, Shifted, Weight
<1>2. PICK r : Encoded(r) /\ Gathered(r) /\ limit \in Nat
  BY <1>1 DEF VariantInv
<1>3. PICK m \in Nat : Len(buf) = m + 1 /\ m = Len(buf) - 1
  <2>1. Len(buf) \in Nat \ {0}
    BY <1>2 DEF Encoded, Needs
  <2> QED
    BY <2>1
<1>4. PICK j \in 0 .. m, a \in Nat : j = i /\ a = value /\ given = a + r[j] * Weight(j)
  BY <1>2, <1>3 DEF Gathered
<1>5. Groups(r, m) /\ ~buf[m + 1].more
  BY <1>2, <1>3 DEF Encoded
<1>6. j < m
  <2> SUFFICES ASSUME j = m PROVE FALSE
    OBVIOUS
  <2> QED
    BY <1>1, <1>4, <1>5
<1>7. /\ a + buf[j + 1].low * Weight(j) \in Nat
      /\ given = (a + buf[j + 1].low * Weight(j)) + r[j + 1] * Weight(j + 1)
  BY <1>4, <1>5, <1>6, OneGroupBack
<1>8. j + 1 \in 0 .. m /\ i' = j + 1 /\ value' = a + buf[j + 1].low * Weight(j)
  BY <1>1, <1>4, <1>6
<1>9. Gathered(r)'
  BY <1>1, <1>3, <1>7, <1>8 DEF Gathered, Weight
<1>10. Encoded(r)' /\ given' \in Ints
  BY <1>1, <1>2, EncodedKept DEF VariantInv, Ints
<1> QED
  BY <1>1, <1>2, <1>9, <1>10 DEF VariantInv, RoundTrip

(* The answers of Decode: the integer with its last byte, and false before. *)
LEMMA DecodeEnds == ASSUME own, VariantInv, DecodeLast \/ DecodeFails PROVE VariantInv'
<1>1. pc = "decode" /\ pc' = "decoded" /\ UNCHANGED <<given, buf, own, limit>>
  BY DEF DecodeLast, DecodeFails
<1>2. PICK r : Encoded(r) /\ Gathered(r) /\ limit \in Nat
  BY <1>1 DEF VariantInv
<1>3. PICK m \in Nat : Len(buf) = m + 1 /\ m = Len(buf) - 1
  <2>1. Len(buf) \in Nat \ {0}
    BY <1>2 DEF Encoded, Needs
  <2> QED
    BY <2>1
<1>4. PICK j \in 0 .. m, a \in Nat : j = i /\ a = value /\ given = a + r[j] * Weight(j)
  BY <1>2, <1>3 DEF Gathered
<1>5. Groups(r, m) /\ buf[m + 1].low = r[m]
  BY <1>2, <1>3 DEF Encoded
<1>6. given \in Ints /\ GetLength(given) = m + 1
  <2>1. given \in Ints /\ Needs(m + 1)
    BY <1>2, <1>3 DEF Encoded, VariantInv
  <2> QED
    BY <2>1, LengthIs
<1>7. RoundTrip'
  <2>1. CASE DecodeLast
    <3>1. i < limit /\ ~buf[i + 1].more /\ answer' = [ok |-> TRUE, int |-> ToT(value'), offset |-> i + 1]
          /\ value' = value + buf[i + 1].low * Weight(i)
      BY <2>1 DEF DecodeLast, Shifted, Weight
    <3>2. j = m
      <4> SUFFICES ASSUME j < m PROVE FALSE
        OBVIOUS
      <4>1. buf[j + 1].more
        BY <1>4, <1>5, OneGroupBack
      <4> QED
        BY <4>1, <3>1, <1>4
    <3>3. value' = given
      BY <3>1, <3>2, <1>4, <1>5
    <3>4. ToT(given) = given
      <4>1. given \in Nat /\ given < Pow2[Width] /\ Pow2[Width] \in Nat \ {0}
        BY <1>6, Weights DEF Ints
      <4> QED
        BY <4>1, Divided DEF ToT
    <3>5. answer' = [ok |-> TRUE, int |-> given, offset |-> GetLength(given)]
      BY <3>1, <3>2, <3>3, <3>4, <1>4, <1>6
    <3>6. limit >= GetLength(given)
      BY <3>1, <3>2, <1>2, <1>4, <1>6
    <3>7. GetLength(given)' = GetLength(given)
      BY <1>1 DEF GetLength
    <3> QED
      BY <3>5, <3>6, <3>7, <1>1 DEF RoundTrip
  <2>2. CASE DecodeFails
    <3>1. i >= limit /\ answer' = NoAnswer
      BY <2>2 DEF DecodeFails
    <3>2. ~(limit >= GetLength(given)) /\ GetLength(given)' = GetLength(given)
      BY <3>1, <1>1, <1>2, <1>4, <1>6 DEF GetLength
    <3>3. ~answer'.ok
      BY <3>1 DEF NoAnswer
    <3> QED
      BY <3>2, <3>3, <1>1 DEF RoundTrip
  <2> QED
    BY <2>1, <2>2
<1>8. Encoded(r)' /\ given' \in Ints
  BY <1>1, <1>2, EncodedKept DEF VariantInv, Ints
<1> QED
  BY <1>1, <1>7, <1>8 DEF VariantInv

(* Every call keeps the invariant. *)
LEMMA VariantSteps == ASSUME VariantInv, [Next]_vars PROVE VariantInv'
<1>1. ASSUME NEW n \in Ints, CallEncode(n) PROVE VariantInv'
  BY <1>1, EncodeStarts
<1>2. ASSUME NEW b \in Buffers, Receive(b) PROVE VariantInv'
  BY <1>2 DEF Receive, VariantInv
<1>3. CASE Return
  BY <1>3 DEF Return, VariantInv
<1>4. CASE ~own /\ UNCHANGED own
  BY <1>4 DEF VariantInv
<1>5. ASSUME NEW l \in Limits, CallDecode(l) PROVE VariantInv'
  <2>1. UNCHANGED own
    BY <1>5 DEF CallDecode
  <2>2. CASE own
    BY <1>5, <2>2, DecodeStarts
  <2> QED
    BY <2>1, <2>2, <1>4 DEF VariantInv
<1>6. CASE EncodeGroup \/ EncodeLast \/ DecodeMore \/ DecodeLast \/ DecodeFails
  <2>1. UNCHANGED own
    BY <1>6 DEF EncodeGroup, EncodeLast, DecodeMore, DecodeLast, DecodeFails
  <2>2. CASE own
    BY <1>6, <2>2, EncodeGoesOn, EncodeEnds, DecodeGoesOn, DecodeEnds
  <2> QED
    BY <2>1, <2>2, <1>4 DEF VariantInv
<1>7. CASE UNCHANGED vars
  BY <1>7 DEF vars, VariantInv, Encoding, Encoded, Gathered, Groups, SplitAt, Needs, Weight, RoundTrip, GetLength
<1> QED
  BY <1>1, <1>2, <1>3, <1>5, <1>6, <1>7 DEF Next

(* It holds in every reachable state. *)
LEMMA VariantInvariance == Spec => []VariantInv
<1>1. ASSUME Init PROVE VariantInv
  BY <1>1 DEF Init, VariantInv
<1> QED
  BY <1>1, VariantSteps, PTL DEF Spec

(* What Encode writes Decode reads back, for integers of every width in     *)
(* groups of every size: the integer and the offset of the next one if the  *)
(* limit covers its bytes, and false, never a shortened integer, if not.    *)
THEOREM IntegersSurvive == Spec => []RoundTrip
<1>1. ASSUME VariantInv PROVE RoundTrip
  BY <1>1 DEF VariantInv, RoundTrip
<1> QED
  BY <1>1, VariantInvariance, PTL

(* GetMaxCharsOfEncodedSize bytes are enough for every integer of type T,   *)
(* at every moment of Encode, and GetLength says how many of them it uses.  *)
THEOREM BufferSuffices == Spec => []EncodingFits
<1>1. ASSUME VariantInv, own PROVE EncodingFits
  <2>1. given \in Ints
    BY <1>1 DEF VariantInv
  <2>2. CASE pc # "encode"
    <3>1. Needs(Len(buf))
      BY <1>1, <2>2 DEF VariantInv, Encoded
    <3> QED
      BY <3>1, <2>1, LengthIs DEF EncodingFits
  <2>3. CASE pc = "encode"
    <3>1. PICK r : Encoding(r)
      BY <1>1, <2>3 DEF VariantInv
    <3>2. PICK k \in Nat : k = Len(buf)
      BY <3>1, LenProperties DEF Encoding
    <3>3. PICK w \in Nat \ {0}, y \in Nat : w = Weight(k) /\ y = x /\ (k = 0 \/ y >= 1)
      <4>1. r \in [0 .. k -> Nat] /\ x = r[k] /\ (k = 0 \/ x >= 1)
        BY <3>1, <3>2 DEF Encoding, Groups
      <4>2. x \in Nat /\ Weight(k) \in Nat \ {0}
        BY <4>1, Weights
      <4> QED
        BY <4>1, <4>2
    <3>4. PICK lo \in Nat : given = lo + y * w
      BY <3>1, <3>2, <3>3 DEF Encoding, SplitAt
    <3>5. y >= 1 => y * w >= w
      OBVIOUS
    <3>6. k = 0 \/ given >= Weight(k)
      BY <3>3, <3>4, <3>5
    <3>7. k + 1 <= GetMaxCharsOfEncodedSize /\ GetMaxCharsOfEncodedSize \in Int
      BY <2>1, <3>6, RoomForMore, MaxCharsIs
    <3> QED
      BY <2>3, <3>2, <3>7 DEF EncodingFits
  <2> QED
    BY <2>2, <2>3
<1>2. ASSUME VariantInv PROVE EncodingFits
  BY <1>1, <1>2 DEF EncodingFits
<1> QED
  BY <1>2, VariantInvariance, PTL

=============================================================================
