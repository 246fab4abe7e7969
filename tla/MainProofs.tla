----------------------------- MODULE MainProofs -----------------------------
(***************************************************************************)
(* From the raw export to the batch.  First the training loop by itself:   *)
(* it never reads outside usable data and always works with current        *)
(* parameters.  Then the way of the rows, through the text parse_data.py   *)
(* writes and the two passes of DataLoader: every accepted load is the     *)
(* rows of its raw file.  Last the whole program: what main trains on are  *)
(* rows of the raw file.  All of it for every raw file over any alphabet   *)
(* of words, any number of dropped columns, any batch size, row length and *)
(* integer width the assumptions of Pipeline, Trainer and Main admit.      *)
(***************************************************************************)
EXTENDS Main, LibraryLemmas

-----------------------------------------------------------------------------
(* The training loop.  The argument is about two remainders: the number of *)
(* window positions, and the drawn row below it.                           *)

(* Where the loop stands, related to the versions it holds. *)
Progress ==
    /\ tpc \in {"load", "inspect"} => iter = 0 /\ netParam = 0
    /\ tpc = "construct" => iter = 0 /\ netParam = 0
    /\ tpc \in {"sample", "gradient", "update"} => pParam = iter
    /\ tpc = "update" => pGrad = pParam
    /\ tpc \in {"setParams", "validate"} => pParam = iter + 1
    /\ tpc = "validate" => netParam = pParam
    /\ tpc \in {"gradient", "update", "setParams", "validate"} => iter < MaxIters

(* A drawn window ends with the last row at the latest. *)
WindowFits ==
    /\ tpc = "gradient" /\ Usable(train) => ref + MiniBatch <= train.count
    /\ tpc = "validate" /\ Usable(val) => ref + MiniBatch <= val.count

TInv == TrainerTypeOK /\ Progress /\ WindowFits /\ UsableDataNeverFaults

(* What DataSetsAssumption says, also of the data sets before loading. *)
DataOK(d) == d.count \in 0 .. UIntMod - 1 /\ d.featureLen \in Nat \ {0} /\ d.cap \in Nat
LenOK == featureLen \in Nat \ {0}

-----------------------------------------------------------------------------
(* A remainder lies below its divisor. *)
LEMMA ModRange ==
    ASSUME NEW a \in Int, NEW b \in Nat \ {0}
    PROVE  a % b \in 0 .. b - 1
  OBVIOUS

(* A number below the divisor is its own remainder. *)
LEMMA ModSmall ==
    ASSUME NEW a \in Nat, NEW b \in Nat \ {0}, a < b
    PROVE  a % b = a
  OBVIOUS

(* What a loader delivers has the types of its fields. *)
LEMMA DataSetOK ==
    ASSUME NEW d \in DataSets \cup {NoData}
    PROVE  DataOK(d)
<1>1. DataOK(NoData)
  BY TrainerAssumption, UIntAssumption DEF DataOK, NoData
<1> QED
  BY <1>1, DataSetsAssumption DEF DataOK

(* Enough rows: the unsigned subtraction does not borrow. *)
LEMMA PositionsUsable ==
    ASSUME NEW d, DataOK(d), d.count >= MiniBatch
    PROVE  Positions(d) = d.count - MiniBatch + 1
<1>1. d.count - MiniBatch + 1 \in Nat /\ d.count - MiniBatch + 1 < UIntMod
  BY TrainerAssumption, UIntAssumption DEF DataOK
<1> QED
  BY <1>1, ModSmall, TrainerAssumption, UIntAssumption DEF Positions, UInt

(* The number of windows is an unsigned int. *)
LEMMA PositionsRange ==
    ASSUME NEW d, DataOK(d)
    PROVE  Positions(d) \in 0 .. UIntMod - 1
<1>1. d.count - MiniBatch + 1 \in Int
  BY TrainerAssumption, UIntAssumption DEF DataOK
<1> QED
  BY <1>1, ModRange, TrainerAssumption, UIntAssumption DEF Positions, UInt

(* A window that ends with the last row lies in the array of floats, and    *)
(* the multiplication that finds it does not wrap.                          *)
LEMMA WindowInArrays ==
    ASSUME NEW d, DataOK(d), LenOK, Usable(d), NEW r \in Nat, r + MiniBatch <= d.count
    PROVE  InArrays(d, r) /\ Offset(r) = r * featureLen
<1>1. (r + MiniBatch) * featureLen <= d.count * featureLen
  BY TrainerAssumption, UIntAssumption DEF DataOK, LenOK
<1>2. (r + MiniBatch) * featureLen = r * featureLen + MiniBatch * featureLen
  BY TrainerAssumption, UIntAssumption DEF DataOK, LenOK
<1>3. r * featureLen \in Nat /\ MiniBatch * featureLen \in Nat \ {0}
  BY TrainerAssumption, UIntAssumption DEF DataOK, LenOK
<1>4. d.count * featureLen <= UIntMod /\ d.count * featureLen \in Nat
  BY DEF Usable, DataOK, LenOK
<1>5. r * featureLen < UIntMod
  BY <1>1, <1>2, <1>3, <1>4, TrainerAssumption, UIntAssumption
<1>6. Offset(r) = r * featureLen
  BY <1>3, <1>5, ModSmall, TrainerAssumption, UIntAssumption DEF Offset, UInt
<1> QED
  BY <1>1, <1>2, <1>3, <1>4, <1>6 DEF InArrays, Usable

(* What a draw delivers. *)
LEMMA DrawWindow ==
    ASSUME NEW d, DataOK(d), ref \in 0 .. UIntMod - 1, NEW next, Draw(d, next)
    PROVE  /\ ref' \in 0 .. UIntMod - 1
           /\ tpc' \in {next, "crash"}
           /\ d.count >= MiniBatch => tpc' = next /\ ref' + MiniBatch <= d.count
<1>1. Positions(d) \in 0 .. UIntMod - 1
  BY PositionsRange
<1>2. CASE Positions(d) = 0
  <2>1. ~(d.count >= MiniBatch)
    BY <1>2, PositionsUsable, TrainerAssumption, UIntAssumption DEF DataOK
  <2> QED
    BY <1>2, <2>1 DEF Draw
<1>3. CASE Positions(d) # 0
  <2>1. PICK rand \in 0 .. RandMax : ref' = rand % Positions(d)
    BY <1>3 DEF Draw
  <2>2. ref' \in 0 .. Positions(d) - 1
    <3>1. rand \in Int /\ Positions(d) \in Nat \ {0}
      BY <1>1, <1>3, TrainerAssumption, UIntAssumption
    <3> QED
      BY <2>1, <3>1, ModRange
  <2>3. d.count >= MiniBatch => ref' + MiniBatch <= d.count
    BY <2>2, PositionsUsable, TrainerAssumption, UIntAssumption DEF DataOK
  <2> QED
    BY <1>1, <1>3, <2>2, <2>3, TrainerAssumption, UIntAssumption DEF Draw
<1> QED
  BY <1>2, <1>3

-----------------------------------------------------------------------------
(* In the beginning nothing has been loaded. *)
LEMMA InitTInv == TrainerInit => TInv
<1> SUFFICES ASSUME TrainerInit PROVE TInv
  OBVIOUS
<1> QED
  BY TrainerAssumption, UIntAssumption DEF TrainerInit, NoData, TInv, TrainerTypeOK, Progress, WindowFits, UsableDataNeverFaults

(* Every step keeps the invariant. *)
LEMMA NextTInv == TInv /\ [TrainerNext]_trainerVars => TInv'
<1> SUFFICES ASSUME TInv, [TrainerNext]_trainerVars PROVE TInv'
  OBVIOUS
<1> USE DEF TInv
<1>0. DataOK(train) /\ DataOK(val) /\ LenOK
  BY DataSetOK DEF TrainerTypeOK, DataOK, LenOK
<1>1. CASE UNCHANGED trainerVars
  BY <1>1 DEF trainerVars, TrainerTypeOK, Progress, WindowFits, UsableDataNeverFaults, Usable
<1>2. ASSUME NEW tr \in DataSets, NEW va \in DataSets, Begin(tr, va) PROVE TInv'
  BY <1>2 DEF Begin, TrainerTypeOK, Progress, WindowFits, UsableDataNeverFaults
<1>3. CASE Inspect
  <2>1. Usable(train) => PrintCount <= train.cap /\ PrintCount <= train.count
    <3> SUFFICES ASSUME Usable(train)
                 PROVE  PrintCount <= train.cap /\ PrintCount <= train.count
      OBVIOUS
    <3>1. train.count <= train.count * featureLen
      BY <1>0 DEF DataOK, LenOK
    <3> QED
      BY <1>0, <3>1, TrainerAssumption, UIntAssumption DEF Usable, DataOK
  <2>2. UsableDataNeverFaults'
    BY <1>3, <2>1 DEF Inspect, MayFault, UsableDataNeverFaults, Usable
  <2> QED
    BY <1>3, <2>2 DEF Inspect, MayFault, TrainerTypeOK, Progress, WindowFits
<1>4. CASE Construct
  BY <1>4, TrainerAssumption, UIntAssumption DEF Construct, TrainerTypeOK, Progress, WindowFits, UsableDataNeverFaults
<1>5. CASE Sample
  <2>1. /\ ref' \in 0 .. UIntMod - 1
        /\ tpc' \in {"gradient", "crash"}
        /\ train.count >= MiniBatch => tpc' = "gradient" /\ ref' + MiniBatch <= train.count
    BY <1>0, <1>5, DrawWindow DEF Sample, TrainerTypeOK
  <2>2. TrainerTypeOK'
    BY <1>5, <2>1 DEF Sample, TrainerTypeOK
  <2>3. Progress'
    BY <1>5, <2>1 DEF Sample, Progress
  <2>4. WindowFits' /\ UsableDataNeverFaults'
    BY <1>5, <2>1 DEF Sample, WindowFits, UsableDataNeverFaults, Usable
  <2> QED
    BY <2>2, <2>3, <2>4
<1>6. CASE ComputeGradientWithDatum
  <2>1. Usable(train) => InArrays(train, ref)
    BY <1>0, <1>6, WindowInArrays DEF ComputeGradientWithDatum, WindowFits, TrainerTypeOK
  <2>2. UsableDataNeverFaults'
    BY <1>6, <2>1 DEF ComputeGradientWithDatum, MayFault, UsableDataNeverFaults, Usable
  <2>3. TrainerTypeOK' /\ Progress' /\ WindowFits'
    BY <1>6 DEF ComputeGradientWithDatum, MayFault, TrainerTypeOK, Progress, WindowFits
  <2> QED
    BY <2>2, <2>3
<1>7. CASE Update
  <2>1. pParam' \in 0 .. MaxIters /\ iter' \in 0 .. MaxIters
    BY <1>7, TrainerAssumption, UIntAssumption DEF Update, TrainerTypeOK, Progress
  <2>2. TrainerTypeOK'
    BY <1>7, <2>1 DEF Update, TrainerTypeOK
  <2>3. Progress'
    BY <1>7, TrainerAssumption, UIntAssumption DEF Update, TrainerTypeOK, Progress
  <2>4. WindowFits' /\ UsableDataNeverFaults'
    BY <1>7 DEF Update, WindowFits, UsableDataNeverFaults
  <2> QED
    BY <2>2, <2>3, <2>4
<1>8. CASE SetParamsDense
  <2>1. /\ ref' \in 0 .. UIntMod - 1
        /\ tpc' \in {"validate", "crash"}
        /\ val.count >= MiniBatch => tpc' = "validate" /\ ref' + MiniBatch <= val.count
    BY <1>0, <1>8, DrawWindow DEF SetParamsDense, TrainerTypeOK
  <2>2. TrainerTypeOK'
    BY <1>8, <2>1 DEF SetParamsDense, TrainerTypeOK
  <2>3. Progress'
    BY <1>8, <2>1 DEF SetParamsDense, Progress
  <2>4. WindowFits' /\ UsableDataNeverFaults'
    BY <1>8, <2>1 DEF SetParamsDense, WindowFits, UsableDataNeverFaults, Usable
  <2> QED
    BY <2>2, <2>3, <2>4
<1>9. CASE Validate
  <2>1. Usable(val) => InArrays(val, ref)
    BY <1>0, <1>9, WindowInArrays DEF Validate, WindowFits, TrainerTypeOK
  <2>2. UsableDataNeverFaults'
    BY <1>9, <2>1 DEF Validate, MayFault, UsableDataNeverFaults, Usable
  <2>3. TrainerTypeOK' /\ Progress' /\ WindowFits'
    BY <1>9, TrainerAssumption, UIntAssumption DEF Validate, MayFault, TrainerTypeOK, Progress, WindowFits
  <2> QED
    BY <2>2, <2>3
<1>10. CASE Return
  BY <1>10 DEF Return, TrainerTypeOK, Progress, WindowFits, UsableDataNeverFaults
<1> QED
  BY <1>1, <1>2, <1>3, <1>4, <1>5, <1>6, <1>7, <1>8, <1>9, <1>10
  DEF TrainerNext, TrainerStep, Ended

(* The invariant holds in every state. *)
LEMMA TrainerInvariance == TrainerSpec => []TInv
  BY InitTInv, NextTInv, PTL DEF TrainerSpec

-----------------------------------------------------------------------------
(* Every reachable state of the training loop is type correct; in           *)
(* particular it applies at most MaxIters updates.                          *)
THEOREM TrainerTypeCorrect == TrainerSpec => []TrainerTypeOK
  BY TrainerInvariance, PTL DEF TInv

(* No batch of usable data leaves the arrays or is misaligned with its      *)
(* labels, whatever rand() returns and whatever the width of unsigned int.  *)
THEOREM BatchesInBounds == TrainerSpec => []BatchInBounds
<1>1. TInv => BatchInBounds
  <2> SUFFICES ASSUME TInv PROVE BatchInBounds
    OBVIOUS
  <2>1. DataOK(train) /\ DataOK(val) /\ LenOK /\ ref \in Nat
    BY DataSetOK, TrainerAssumption, UIntAssumption DEF TInv, TrainerTypeOK, DataOK, LenOK
  <2> QED
    BY <2>1, WindowInArrays DEF TInv, WindowFits, BatchInBounds
<1> QED
  BY <1>1, TrainerInvariance, PTL

(* On usable data main is never killed by a read beyond an array or a       *)
(* division by zero.                                                        *)
THEOREM NeverFaults == TrainerSpec => []UsableDataNeverFaults
  BY TrainerInvariance, PTL DEF TInv

(* Updates apply gradients of the current parameters, and validation sees   *)
(* the parameters after the last update.                                    *)
THEOREM FreshParameters == TrainerSpec => []ParametersFresh
<1>1. TInv => ParametersFresh
  BY DEF TInv, Progress, ParametersFresh
<1> QED
  BY <1>1, TrainerInvariance, PTL

-----------------------------------------------------------------------------
(* Sequences laid end to end: what FlattenSeq computes. *)

(* How FlattenSeq computes: the concatenations of the first n sequences. *)
IsFlatten(g, s, n) == g = [i \in 1 .. n |-> IF i = 1 THEN s[i] ELSE g[i - 1] \o s[i]]

(* Such concatenations exist. *)
LEMMA FlattenDefined ==
    ASSUME NEW s, NEW n \in Nat
    PROVE  \E g : IsFlatten(g, s, n)
<1> DEFINE T == {m \in Nat : \E g : IsFlatten(g, s, m)}
<1>1. 0 \in T
  <2>1. IsFlatten([i \in 1 .. 0 |-> s[i]], s, 0)
    BY DEF IsFlatten
  <2> QED
    BY <2>1
<1>2. ASSUME NEW m \in T PROVE m + 1 \in T
  <2>1. PICK g : IsFlatten(g, s, m)
    OBVIOUS
  <2> DEFINE h == [i \in 1 .. m + 1 |-> IF i = 1 THEN s[i] ELSE g[i - 1] \o s[i]]
  <2>2. ASSUME NEW i \in 1 .. m PROVE h[i] = g[i]
    <3>1. h[i] = IF i = 1 THEN s[i] ELSE g[i - 1] \o s[i]
      OBVIOUS
    <3>2. g[i] = IF i = 1 THEN s[i] ELSE g[i - 1] \o s[i]
      BY <2>1 DEF IsFlatten
    <3> QED
      BY <3>1, <3>2
  <2>3. ASSUME NEW i \in 1 .. m + 1, i # 1 PROVE i - 1 \in 1 .. m
    BY <2>3
  <2>4. IsFlatten(h, s, m + 1)
    BY <2>2, <2>3 DEF IsFlatten
  <2> HIDE DEF h
  <2> QED
    BY <2>4
<1>3. T = Nat
  <2>1. T \in SUBSET Nat
    OBVIOUS
  <2> HIDE DEF T
  <2> QED
    BY <1>1, <1>2, <2>1, SetInduction
<1> QED
  BY <1>3

(* The concatenations g of s and h of t, where t begins like s. *)
BothFlatten(g, s, h, t, n, m, S) ==
    /\ n \in Nat /\ m \in Nat /\ n <= m
    /\ \A i \in 1 .. n : s[i] \in Seq(S) /\ t[i] = s[i]
    /\ IsFlatten(g, s, n) /\ IsFlatten(h, t, m)

(* They are sequences, and depend only on the sequences concatenated. *)
LEMMA FlattenUnique ==
    ASSUME NEW S, NEW s, NEW t, NEW n, NEW m, NEW g, NEW h, BothFlatten(g, s, h, t, n, m, S)
    PROVE  \A i \in 1 .. n : g[i] \in Seq(S) /\ h[i] = g[i]
<1> USE DEF BothFlatten
<1> DEFINE T == {k \in Nat : k + 1 \in 1 .. n => g[k + 1] \in Seq(S) /\ h[k + 1] = g[k + 1]}
<1>1. 0 \in T
  BY DEF IsFlatten
<1>2. ASSUME NEW k \in T PROVE k + 1 \in T
  <2> SUFFICES ASSUME k + 2 \in 1 .. n
               PROVE  g[k + 2] \in Seq(S) /\ h[k + 2] = g[k + 2]
    OBVIOUS
  <2>1. PICK a \in 1 .. n : a = k + 2 /\ a - 1 = k + 1 /\ a # 1 /\ a - 1 \in 1 .. n /\ a \in 1 .. m
    OBVIOUS
  <2>2. g[a] = g[a - 1] \o s[a] /\ h[a] = h[a - 1] \o t[a]
    BY <2>1 DEF IsFlatten
  <2>3. g[a - 1] \in Seq(S) /\ h[a - 1] = g[a - 1]
    BY <2>1
  <2>4. g[a - 1] \o s[a] \in Seq(S) /\ t[a] = s[a]
    BY <2>3, ConcatProperties
  <2> QED
    BY <2>1, <2>2, <2>3, <2>4
<1>3. T = Nat
  <2>1. T \in SUBSET Nat
    OBVIOUS
  <2> HIDE DEF T
  <2> QED
    BY <1>1, <1>2, <2>1, SetInduction
<1>4. ASSUME NEW i \in 1 .. n PROVE g[i] \in Seq(S) /\ h[i] = g[i]
  <2>1. i - 1 \in Nat /\ (i - 1) + 1 = i
    OBVIOUS
  <2>2. i - 1 \in T
    BY <1>3, <2>1
  <2> QED
    BY <2>1, <2>2
<1> QED
  BY <1>4

(* FlattenSeq is the last of them. *)
LEMMA FlattenIs ==
    ASSUME NEW s, Len(s) \in Nat, Len(s) # 0
    PROVE  \E g : IsFlatten(g, s, Len(s)) /\ FlattenSeq(s) = g[Len(s)]
<1>1. FlattenSeq(s) = (CHOOSE g : IsFlatten(g, s, Len(s)))[Len(s)]
  BY DEF FlattenSeq, IsFlatten
<1> QED
  BY <1>1, FlattenDefined

(* A sequence more at the end. *)
LEMMA FlattenAppend ==
    ASSUME NEW S, NEW s \in Seq(Seq(S)), NEW x \in Seq(S)
    PROVE  /\ FlattenSeq(s) \in Seq(S)
           /\ FlattenSeq(Append(s, x)) = FlattenSeq(s) \o x
<1> DEFINE t == Append(s, x)
           n == Len(s)
<1>1. n \in Nat /\ Len(t) = n + 1 /\ t[n + 1] = x /\ (\A i \in 1 .. n : s[i] \in Seq(S) /\ t[i] = s[i])
  BY AppendProperties, LenProperties, ElementOfSeq
<1>2. PICK h : IsFlatten(h, t, n + 1) /\ FlattenSeq(t) = h[n + 1]
  <2> HIDE DEF t, n
  <2>1. Len(t) \in Nat /\ Len(t) # 0
    BY <1>1
  <2>2. \E h : IsFlatten(h, t, Len(t)) /\ FlattenSeq(t) = h[Len(t)]
    BY <2>1, FlattenIs
  <2> QED
    BY <1>1, <2>2
<1>3. CASE n = 0
  <2>1. s = <<>> /\ FlattenSeq(s) = <<>>
    BY <1>3, EmptySeq DEF FlattenSeq
  <2>2. h[1] = t[1]
    BY <1>1, <1>2, <1>3 DEF IsFlatten
  <2>3. <<>> \o x = x /\ <<>> \in Seq(S)
    BY ConcatEmptySeq
  <2>4. FlattenSeq(t) = x
    <3> HIDE DEF t
    <3> QED
      BY <1>1, <1>2, <1>3, <2>2
  <2> QED
    BY <2>1, <2>3, <2>4
<1>4. CASE n # 0
  <2>1. PICK g : IsFlatten(g, s, n) /\ FlattenSeq(s) = g[n]
    BY <1>1, <1>4, FlattenIs
  <2> HIDE DEF t, n
  <2>2. n + 1 \in Nat /\ n <= n + 1 /\ n \in 1 .. n /\ n + 1 \in 1 .. n + 1 /\ n + 1 # 1 /\ (n + 1) - 1 = n
    BY <1>1, <1>4
  <2>3. g[n] \in Seq(S) /\ h[n] = g[n]
    <3>1. \A i \in 1 .. n : g[i] \in Seq(S) /\ h[i] = g[i]
      <4>1. BothFlatten(g, s, h, t, n, n + 1, S)
        BY <1>1, <1>2, <2>1, <2>2 DEF BothFlatten
      <4> QED
        BY <4>1, FlattenUnique
    <3> QED
      BY <2>2, <3>1
  <2>4. h[n + 1] = h[(n + 1) - 1] \o t[n + 1]
    BY <1>2, <2>2 DEF IsFlatten
  <2>5. FlattenSeq(t) = FlattenSeq(s) \o x
    BY <1>1, <1>2, <2>1, <2>2, <2>3, <2>4
  <2> QED
    BY <2>1, <2>3, <2>5 DEF t
<1> QED
  BY <1>3, <1>4

(* The first n members of a family of sequences, one behind the other. *)
FlatTo(F, n) == FlattenSeq([i \in 1 .. n |-> F[i]])
Seqs(F, n, S) == n \in Nat /\ \A i \in 1 .. n : F[i] \in Seq(S)

(* One member more. *)
LEMMA FlatGrows ==
    ASSUME NEW S, NEW F, NEW n \in Nat, Seqs(F, n + 1, S)
    PROVE  /\ FlatTo(F, 0) = <<>> /\ FlatTo(F, n) \in Seq(S)
           /\ FlatTo(F, n + 1) = FlatTo(F, n) \o F[n + 1]
<1> DEFINE s == [i \in 1 .. n |-> F[i]]
           t == [i \in 1 .. n + 1 |-> F[i]]
<1>1. s \in Seq(Seq(S)) /\ Len(s) = n /\ F[n + 1] \in Seq(S) /\ (\A i \in 1 .. n : s[i] = F[i])
  BY DEF Seqs
<1>2. t = Append(s, F[n + 1])
  <2>1. t \in Seq(Seq(S)) /\ Len(t) = n + 1 /\ (\A i \in 1 .. n + 1 : t[i] = F[i])
    BY DEF Seqs
  <2>2. /\ Append(s, F[n + 1]) \in Seq(Seq(S)) /\ Len(Append(s, F[n + 1])) = Len(s) + 1
        /\ \A i \in 1 .. Len(s) : Append(s, F[n + 1])[i] = s[i]
        /\ Append(s, F[n + 1])[Len(s) + 1] = F[n + 1]
    BY <1>1, AppendProperties
  <2>3. Append(s, F[n + 1]) \in Seq(Seq(S)) /\ Len(Append(s, F[n + 1])) = n + 1
        /\ (\A i \in 1 .. n : Append(s, F[n + 1])[i] = F[i]) /\ Append(s, F[n + 1])[n + 1] = F[n + 1]
    BY <1>1, <2>2
  <2> HIDE DEF s, t
  <2>4. ASSUME NEW i \in 1 .. n + 1 PROVE t[i] = Append(s, F[n + 1])[i]
    <3>1. CASE i \in 1 .. n
      BY <3>1, <2>1, <2>3
    <3>2. CASE i = n + 1
      BY <3>2, <2>1, <2>3
    <3>3. i \in 1 .. n \/ i = n + 1
      OBVIOUS
    <3> QED
      BY <3>1, <3>2, <3>3
  <2> QED
    BY <2>1, <2>3, <2>4, SeqEqual
<1>3. [i \in 1 .. 0 |-> F[i]] = <<>> /\ FlattenSeq(<<>>) = <<>>
  BY DEF FlattenSeq
<1>4. FlattenSeq(s) \in Seq(S) /\ FlattenSeq(Append(s, F[n + 1])) = FlattenSeq(s) \o F[n + 1]
  BY <1>1, FlattenAppend
<1> QED
  BY <1>2, <1>3, <1>4 DEF FlatTo

(* What the whole begins with, and where the members are if they are of one *)
(* length c.                                                                *)
FlatFacts(F, m, S) ==
    /\ FlatTo(F, m) \in Seq(S)
    /\ \A n \in 0 .. m : /\ Len(FlatTo(F, n)) <= Len(FlatTo(F, m))
                         /\ \A i \in 1 .. Len(FlatTo(F, n)) : FlatTo(F, m)[i] = FlatTo(F, n)[i]
FlatCut(F, m, c) ==
    /\ Len(FlatTo(F, m)) = m * c
    /\ \A i \in 1 .. m : \A j \in 1 .. c : FlatTo(F, m)[(i - 1) * c + j] = F[i][j]

(* The first members of the family are a prefix of all of it; with rows of *)
(* one length c, column j of row i is at (i - 1) * c + j.                  *)
LEMMA FlatPrefix ==
    ASSUME NEW S, NEW F, NEW N, Seqs(F, N, S)
    PROVE  \A m \in 0 .. N : FlatFacts(F, m, S)
<1> DEFINE T == {m \in Nat : m <= N => FlatFacts(F, m, S)}
<1>0. N \in Nat
  BY DEF Seqs
<1>1. 0 \in T
  <2>1. FlatTo(F, 0) = <<>> 
    BY DEF FlatTo, FlattenSeq
  <2>2. <<>> \in Seq(S) /\ Len(<<>>) = 0
    OBVIOUS
  <2>3. \A n \in 0 .. 0 : n = 0
    OBVIOUS
  <2>4. ASSUME NEW n \in 0 .. 0
        PROVE  /\ Len(FlatTo(F, n)) <= Len(FlatTo(F, 0))
               /\ \A i \in 1 .. Len(FlatTo(F, n)) : FlatTo(F, 0)[i] = FlatTo(F, n)[i]
    <3>1. n = 0
      BY <2>3
    <3> QED
      BY <2>1, <2>2, <3>1
  <2>5. FlatFacts(F, 0, S)
    BY <2>1, <2>2, <2>4 DEF FlatFacts
  <2> QED
    BY <2>5
<1>2. ASSUME NEW m \in T PROVE m + 1 \in T
  <2> SUFFICES ASSUME m + 1 <= N PROVE FlatFacts(F, m + 1, S)
    OBVIOUS
  <2>1. m \in Nat /\ FlatFacts(F, m, S)
    BY <1>0
  <2>2. Seqs(F, m + 1, S) /\ F[m + 1] \in Seq(S)
    BY <2>1, <1>0 DEF Seqs
  <2>3. FlatTo(F, m + 1) = FlatTo(F, m) \o F[m + 1] /\ FlatTo(F, m) \in Seq(S)
    BY <2>1, <2>2, FlatGrows
  <2>4. PICK a : a = FlatTo(F, m)
    OBVIOUS
  <2>5. PICK b : b = FlatTo(F, m + 1)
    OBVIOUS
  <2>6. /\ a \in Seq(S) /\ b \in Seq(S) /\ Len(b) = Len(a) + Len(F[m + 1]) /\ Len(a) \in Nat
        /\ Len(F[m + 1]) \in Nat
        /\ \A i \in 1 .. Len(a) : b[i] = a[i]
    <3>1. a \o F[m + 1] \in Seq(S) /\ Len(a \o F[m + 1]) = Len(a) + Len(F[m + 1])
          /\ \A i \in 1 .. Len(a) + Len(F[m + 1]) : (a \o F[m + 1])[i] =
                IF i <= Len(a) THEN a[i] ELSE F[m + 1][i - Len(a)]
      BY <2>2, <2>3, <2>4, ConcatProperties
    <3>2. b = a \o F[m + 1]
      BY <2>3, <2>4, <2>5
    <3>3. Len(a) \in Nat /\ Len(F[m + 1]) \in Nat
      BY <2>2, <2>3, <2>4, LenProperties
    <3> QED
      BY <3>1, <3>2, <3>3, <2>3, <2>4
  <2>7. ASSUME NEW n \in 0 .. m + 1
        PROVE  /\ Len(FlatTo(F, n)) <= Len(b) /\ \A i \in 1 .. Len(FlatTo(F, n)) : b[i] = FlatTo(F, n)[i]
    <3>1. CASE n = m + 1
      BY <3>1, <2>5, <2>6
    <3>2. CASE n \in 0 .. m
      <4>1. PICK e : e = FlatTo(F, n)
        OBVIOUS
      <4>2. Len(e) <= Len(a) /\ \A i \in 1 .. Len(e) : a[i] = e[i]
        BY <2>1, <2>4, <3>2, <4>1 DEF FlatFacts
      <4>3. Len(e) \in Nat
        <5>1. CASE n = 0
          <6>1. e = <<>>
            BY <4>1, <5>1 DEF FlatTo, FlattenSeq
          <6> QED
            BY <6>1
        <5>2. CASE n # 0
          <6>1. PICK k \in Nat : n = k + 1
            BY <3>2, <5>2, <2>1
          <6>2. Seqs(F, k + 1, S) /\ F[k + 1] \in Seq(S)
            BY <6>1, <3>2, <2>1, <1>0 DEF Seqs
          <6>3. e = FlatTo(F, k) \o F[k + 1] /\ FlatTo(F, k) \in Seq(S)
            BY <4>1, <6>1, <6>2, FlatGrows
          <6>4. e \in Seq(S)
            BY <6>2, <6>3, ConcatProperties
          <6> QED
            BY <6>4, LenProperties
        <5> QED
          BY <5>1, <5>2
      <4> QED
        BY <2>6, <4>1, <4>2, <4>3
    <3> QED
      BY <3>1, <3>2, <2>1
  <2> QED
    BY <2>5, <2>6, <2>7 DEF FlatFacts
<1>3. T = Nat
  <2>1. T \in SUBSET Nat
    OBVIOUS
  <2> HIDE DEF T
  <2> QED
    BY <1>1, <1>2, <2>1, SetInduction
<1> QED
  BY <1>0, <1>3

(* Members of one length. *)
LEMMA FlatUniform ==
    ASSUME NEW S, NEW F, NEW N, Seqs(F, N, S), NEW c \in Nat, \A i \in 1 .. N : Len(F[i]) = c
    PROVE  \A m \in 0 .. N : FlatCut(F, m, c)
<1> DEFINE T == {m \in Nat : m <= N => FlatCut(F, m, c)}
<1>0. N \in Nat
  BY DEF Seqs
<1>1. 0 \in T
  <2>1. FlatTo(F, 0) = <<>> 
    BY DEF FlatTo, FlattenSeq
  <2>2. Len(<<>>) = 0 /\ 0 * c = 0
    OBVIOUS
  <2> QED
    BY <2>1, <2>2 DEF FlatCut
<1>2. ASSUME NEW m \in T PROVE m + 1 \in T
  <2> SUFFICES ASSUME m + 1 <= N PROVE FlatCut(F, m + 1, c)
    OBVIOUS
  <2>1. m \in Nat /\ FlatCut(F, m, c)
    BY <1>0
  <2>2. Seqs(F, m + 1, S) /\ F[m + 1] \in Seq(S) /\ Len(F[m + 1]) = c
    BY <2>1, <1>0 DEF Seqs
  <2>3. FlatTo(F, m + 1) = FlatTo(F, m) \o F[m + 1] /\ FlatTo(F, m) \in Seq(S)
    BY <2>1, <2>2, FlatGrows
  <2>4. PICK a : a = FlatTo(F, m)
    OBVIOUS
  <2>5. PICK b : b = FlatTo(F, m + 1)
    OBVIOUS
  <2>6. PICK q \in Nat : q = m * c
    BY <2>1
  <2>7. /\ Len(a) = q /\ Len(b) = q + c
        /\ \A i \in 1 .. q : b[i] = a[i]
        /\ \A j \in 1 .. c : b[q + j] = F[m + 1][j]
    <3>1. Len(a \o F[m + 1]) = Len(a) + Len(F[m + 1])
          /\ \A i \in 1 .. Len(a) + Len(F[m + 1]) : (a \o F[m + 1])[i] =
                IF i <= Len(a) THEN a[i] ELSE F[m + 1][i - Len(a)]
      BY <2>2, <2>3, <2>4, ConcatProperties
    <3>2. b = a \o F[m + 1]
      BY <2>3, <2>4, <2>5
    <3>3. Len(a) = q
      BY <2>1, <2>4, <2>6 DEF FlatCut
    <3>4. Len(b) = q + c /\ \A i \in 1 .. q + c : b[i] = IF i <= q THEN a[i] ELSE F[m + 1][i - q]
      BY <2>2, <3>1, <3>2, <3>3
    <3>5. ASSUME NEW j \in 1 .. c PROVE b[q + j] = F[m + 1][j]
      <4>1. PICK i \in 1 .. q + c : i = q + j /\ ~(i <= q) /\ i - q = j
        OBVIOUS
      <4> QED
        BY <3>4, <4>1
    <3> QED
      BY <3>3, <3>4, <3>5
  <2>8. (m + 1) * c = q + c /\ \A i \in 1 .. m : (i - 1) * c \in Nat /\ (i - 1) * c + c <= q
    <3>1. (m + 1) * c = q + c
      BY <2>1, <2>6
    <3>2. ASSUME NEW i \in 1 .. m PROVE (i - 1) * c \in Nat /\ (i - 1) * c + c <= q
      <4>1. PICK k \in Nat : k = i - 1 /\ k + 1 <= m
        BY <2>1
      <4>2. PICK d \in Nat : m = k + 1 + d
        BY <2>1, <4>1
      <4>3. k * c \in Nat /\ d * c \in Nat /\ (k + 1 + d) * c = k * c + c + d * c
        OBVIOUS
      <4> QED
        BY <2>6, <4>1, <4>2, <4>3
    <3> QED
      BY <3>1, <3>2
  <2>9. ASSUME NEW i \in 1 .. m + 1, NEW j \in 1 .. c PROVE b[(i - 1) * c + j] = F[i][j]
    <3>1. CASE i = m + 1
      <4>1. (i - 1) * c = q
        BY <3>1, <2>1, <2>6
      <4> QED
        BY <3>1, <4>1, <2>7
    <3>2. CASE i \in 1 .. m
      <4>1. PICK p \in Nat : p = (i - 1) * c /\ p + c <= q
        BY <3>2, <2>8
      <4>2. a[p + j] = F[i][j]
        BY <2>1, <2>4, <3>2, <4>1 DEF FlatCut
      <4>3. p + j \in 1 .. q
        BY <4>1
      <4> QED
        BY <2>7, <4>1, <4>2, <4>3
    <3> QED
      BY <3>1, <3>2, <2>1
  <2> QED
    BY <2>5, <2>7, <2>8, <2>9 DEF FlatCut
<1>3. T = Nat
  <2>1. T \in SUBSET Nat
    OBVIOUS
  <2> HIDE DEF T
  <2> QED
    BY <1>1, <1>2, <2>1, SetInduction
<1> QED
  BY <1>0, <1>3

-----------------------------------------------------------------------------
(* The least and the greatest of a set, the commas of a line and its columns. *)

(* The least and the greatest of some numbers. *)
LEMMA MinIs ==
    ASSUME NEW T \in SUBSET Nat, T # {}
    PROVE  Min(T) \in T /\ \A y \in T : Min(T) <= y
<1>1. \E x \in T : \A y \in T : x <= y
  BY LeastNumber
<1> QED
  BY <1>1 DEF Min

(* A lower bound in the set is its least member. *)
LEMMA MinUnique ==
    ASSUME NEW T \in SUBSET Nat, NEW b \in T, \A y \in T : b <= y
    PROVE  Min(T) = b
<1>1. Min(T) \in T /\ Min(T) <= b
  BY MinIs
<1>2. Min(T) \in Nat /\ b \in Nat /\ b <= Min(T)
  BY <1>1
<1> QED
  BY <1>1, <1>2

(* A non-empty set of numbers up to n has a greatest member. *)
LEMMA MaxIs ==
    ASSUME NEW n \in Nat, NEW T \in SUBSET (0 .. n), T # {}
    PROVE  Max(T) \in T /\ \A y \in T : y <= Max(T)
<1> DEFINE U == {m \in Nat : n - m \in T}
<1>1. U \in SUBSET Nat /\ U # {}
  <2>1. PICK t \in T : TRUE
    OBVIOUS
  <2>2. n - t \in Nat /\ n - (n - t) = t
    OBVIOUS
  <2> QED
    BY <2>1, <2>2
<1>2. PICK m \in U : \A y \in U : m <= y
  BY <1>1, LeastNumber
<1>3. n - m \in T /\ m \in Nat
  BY <1>2
<1>4. ASSUME NEW y \in T PROVE n - m >= y
  <2>1. n - y \in Nat /\ n - (n - y) = y
    OBVIOUS
  <2>2. m <= n - y
    BY <1>2, <2>1
  <2> QED
    BY <1>3, <2>2
<1>5. \E x \in T : \A y \in T : x >= y
  BY <1>3, <1>4
<1>6. Max(T) \in T /\ \A y \in T : Max(T) >= y
  BY <1>5 DEF Max
<1> QED
  BY <1>6

-----------------------------------------------------------------------------
(* The commas of a line, counted. *)
LEMMA CommasCounted ==
    ASSUME NEW l, NEW i \in Nat \ {0}
    PROVE  /\ CommasBefore(l, i) \in Nat /\ CommasBefore(l, 1) = 0
           /\ CommasBefore(l, i + 1) = CommasBefore(l, i) + (IF l[i] = COMMA THEN 1 ELSE 0)
           /\ \A k \in Nat \ {0} : i <= k => CommasBefore(l, i) <= CommasBefore(l, k)
<1> DEFINE C(n) == {j \in 1 .. n - 1 : l[j] = COMMA}
<1>1. \A n \in Nat : IsFiniteSet(C(n)) /\ Cardinality(C(n)) \in Nat
  <2> SUFFICES ASSUME NEW n \in Nat PROVE IsFiniteSet(C(n)) /\ Cardinality(C(n)) \in Nat
    OBVIOUS
  <2>1. 1 \in Int /\ n - 1 \in Int
    OBVIOUS
  <2>2. IsFiniteSet(1 .. n - 1)
    BY <2>1, FS_Interval
  <2>3. IsFiniteSet(C(n))
    BY <2>2, FS_Subset
  <2> QED
    BY <2>3, FS_CardinalityType
<1>2. C(1) = {}
  OBVIOUS
<1>3. Cardinality(C(i + 1)) = Cardinality(C(i)) + (IF l[i] = COMMA THEN 1 ELSE 0)
  <2>1. CASE l[i] = COMMA
    <3>1. C(i + 1) = C(i) \cup {i} /\ i \notin C(i)
      BY <2>1
    <3> HIDE DEF C
    <3>2. Cardinality(C(i) \cup {i}) = Cardinality(C(i)) + 1
      BY <1>1, <3>1, FS_AddElement
    <3> QED
      BY <2>1, <3>1, <3>2
  <2>2. CASE l[i] # COMMA
    <3>1. C(i + 1) = C(i)
      BY <2>2
    <3> HIDE DEF C
    <3> QED
      BY <1>1, <2>2, <3>1
  <2> QED
    BY <2>1, <2>2
<1>4. ASSUME NEW k \in Nat \ {0}, i <= k PROVE Cardinality(C(i)) <= Cardinality(C(k))
  <2>1. C(i) \subseteq C(k)
    BY <1>4
  <2> HIDE DEF C
  <2> QED
    BY <2>1, <1>1, FS_Subset
<1>5. Cardinality({}) = 0
  BY FS_EmptySet
<1>6. \A n : CommasBefore(l, n) = Cardinality(C(n))
  BY DEF CommasBefore
<1> HIDE DEF C
<1> QED
  BY <1>1, <1>2, <1>3, <1>4, <1>5, <1>6

(* The n-th comma exists. *)
LEMMA CommaFound ==
    ASSUME NEW l, Len(l) \in Nat, NEW n \in Nat, n < CommasBefore(l, Len(l) + 1)
    PROVE  \E i \in 1 .. Len(l) : l[i] = COMMA /\ CommasBefore(l, i) = n
<1> DEFINE T == {i \in Nat : n < CommasBefore(l, i + 1)}
<1>1. Len(l) \in T /\ T \in SUBSET Nat
  OBVIOUS
<1>2. PICK i \in T : \A m \in T : i <= m
  BY <1>1, LeastNumber
<1>3. i # 0
  <2>1. CommasBefore(l, 1) = 0
    BY CommasCounted
  <2> QED
    BY <1>2, <2>1
<1>4. PICK m \in Nat : i = m + 1
  BY <1>2, <1>3
<1>5. m \notin T
  BY <1>2, <1>4
<1>6. ~(n < CommasBefore(l, i)) /\ n < CommasBefore(l, i + 1) /\ i \in Nat \ {0}
  BY <1>2, <1>4, <1>5
<1> HIDE DEF T
<1>7. CommasBefore(l, i) \in Nat /\ CommasBefore(l, i + 1) = CommasBefore(l, i) + (IF l[i] = COMMA THEN 1 ELSE 0)
  BY <1>6, CommasCounted
<1>8. l[i] = COMMA /\ CommasBefore(l, i) = n
  <2>1. PICK c \in Nat : c = CommasBefore(l, i)
    BY <1>7
  <2>2. l[i] = COMMA
    BY <1>6, <1>7, <2>1
  <2> QED
    BY <1>6, <1>7, <2>1, <2>2
<1>9. i <= Len(l)
  BY <1>1, <1>2
<1> QED
  BY <1>6, <1>8, <1>9

(* A line as parse_data.py treats it: stripped, so no end of line in it. *)
LineOK(l) == l \in Seq(Int) /\ \A i \in 1 .. Len(l) : l[i] >= WORD /\ l[i] # NEWLINE

(* Field v of a text f, between the comma at a (or the beginning) and the   *)
(* comma at b, as far as f reaches; the end of the line follows if it is    *)
(* the last field of its line.                                              *)
FieldAt(f, a, b, v, last) ==
    /\ a \in Nat /\ b \in Nat /\ a < b
    /\ b <= Len(f) => f[b] = COMMA
    /\ \A i \in a + 1 .. b - 1 : i <= Len(f) => f[i] # COMMA
    /\ \A i \in a + 1 .. b :
           (i <= Len(f) /\ f[i] \notin Blank /\ \A h \in a + 1 .. i - 1 : f[h] \in Blank)
               => v = IF f[i] >= 0 THEN f[i] ELSE 0
    /\ b + 1 <= Len(f) => (f[b + 1] = NEWLINE <=> last)

(* A line with the comma and the end of line that the script adds. *)
WithEnd(l) == l \o <<COMMA, NEWLINE>>
TotalCommas(l) == CommasBefore(l, Len(l) + 1)

(* The positions at which the columns of a line end. *)
ColumnEnds(l, q) ==
    /\ q[0] = 0 /\ q[TotalCommas(l) + 1] = Len(l) + 1
    /\ \A k \in 1 .. TotalCommas(l) :
           q[k] \in 1 .. Len(l) /\ l[q[k]] = COMMA /\ CommasBefore(l, q[k]) = k - 1

(* Every line has its commas in order. *)
LEMMA ColumnEndsExist ==
    ASSUME NEW l, Len(l) \in Nat
    PROVE  TotalCommas(l) \in Nat /\ \E q : ColumnEnds(l, q)
<1>1. TotalCommas(l) \in Nat
  <2>1. Len(l) + 1 \in Nat \ {0}
    OBVIOUS
  <2> QED
    BY <2>1, CommasCounted DEF TotalCommas
<1> DEFINE N == TotalCommas(l)
           P(k) == {i \in 1 .. Len(l) : l[i] = COMMA /\ CommasBefore(l, i) = k - 1}
           q == [k \in 0 .. N + 1 |-> IF k = 0 THEN 0 ELSE IF k = N + 1 THEN Len(l) + 1
                                      ELSE CHOOSE i \in P(k) : TRUE]
<1>2. ASSUME NEW k \in 1 .. N PROVE P(k) # {}
  <2>1. k - 1 \in Nat /\ k - 1 < N
    BY <1>1
  <2>2. \E i \in 1 .. Len(l) : l[i] = COMMA /\ CommasBefore(l, i) = k - 1
    BY <2>1, CommaFound DEF TotalCommas
  <2> QED
    BY <2>2
<1> HIDE DEF P
<1>3. ASSUME NEW k \in 1 .. N PROVE q[k] \in P(k)
  BY <1>1, <1>2
<1>4. q[0] = 0 /\ q[N + 1] = Len(l) + 1
  BY <1>1
<1> HIDE DEF q
<1>5. ColumnEnds(l, q)
  BY <1>3, <1>4 DEF P, ColumnEnds
<1> QED
  BY <1>1, <1>5

(* The characters of a column are those with as many commas before them. *)
LEMMA ColumnChars ==
    ASSUME NEW l, LineOK(l), NEW q, ColumnEnds(l, q), NEW k \in 0 .. TotalCommas(l)
    PROVE  /\ q[k] \in Nat /\ q[k + 1] \in Nat /\ q[k] < q[k + 1] /\ q[k + 1] <= Len(l) + 1
           /\ k < TotalCommas(l) => q[k + 1] <= Len(l)
           /\ \A i \in 1 .. Len(l) :
                 (l[i] # COMMA /\ CommasBefore(l, i) = k) <=> i \in q[k] + 1 .. q[k + 1] - 1
<1>1. PICK N \in Nat : N = TotalCommas(l)
  BY ColumnEndsExist, LenProperties DEF LineOK
<1>2. PICK n \in Nat : n = Len(l)
  BY LenProperties DEF LineOK
<1>3. PICK c : c = [i \in 1 .. n + 1 |-> CommasBefore(l, i)]
  OBVIOUS
<1>4. /\ c[1] = 0 /\ c[n + 1] = N
      /\ \A i \in 1 .. n + 1 : c[i] \in Nat /\ c[i] = CommasBefore(l, i)
      /\ \A i \in 1 .. n : c[i + 1] = c[i] + (IF l[i] = COMMA THEN 1 ELSE 0)
      /\ \A i, h \in 1 .. n + 1 : i <= h => c[i] <= c[h]
  <2>1. \A i \in 1 .. n + 1 : c[i] = CommasBefore(l, i)
    BY <1>3
  <2>2. \A i \in 1 .. n + 1 : i \in Nat \ {0}
    OBVIOUS
  <2>3. \A i \in 1 .. n + 1 : CommasBefore(l, i) \in Nat
    BY <2>2, CommasCounted
  <2>4. \A i \in 1 .. n + 1 : \A h \in 1 .. n + 1 : i <= h => CommasBefore(l, i) <= CommasBefore(l, h)
    BY <2>2, CommasCounted
  <2>5. \A i \in 1 .. n : CommasBefore(l, i + 1) = CommasBefore(l, i) + (IF l[i] = COMMA THEN 1 ELSE 0)
    BY CommasCounted
  <2>6. CommasBefore(l, 1) = 0
    BY CommasCounted
  <2>7. \A i \in 1 .. n : i \in 1 .. n + 1 /\ i + 1 \in 1 .. n + 1
    OBVIOUS
  <2>8. 1 \in 1 .. n + 1 /\ n + 1 \in 1 .. n + 1
    OBVIOUS
  <2>9. N = CommasBefore(l, n + 1)
    BY <1>1, <1>2 DEF TotalCommas
  <2> QED
    BY <2>1, <2>3, <2>4, <2>5, <2>6, <2>7, <2>8, <2>9
<1>5. /\ q[0] = 0 /\ q[N + 1] = n + 1
      /\ \A m \in 1 .. N : q[m] \in 1 .. n /\ l[q[m]] = COMMA /\ c[q[m]] = m - 1
  <2>1. \A m \in 1 .. N : q[m] \in 1 .. n /\ l[q[m]] = COMMA /\ CommasBefore(l, q[m]) = m - 1
    BY <1>1, <1>2 DEF ColumnEnds
  <2>2. ASSUME NEW m \in 1 .. N PROVE c[q[m]] = m - 1
    <3>1. q[m] \in 1 .. n + 1
      BY <2>1
    <3> QED
      BY <2>1, <3>1, <1>4
  <2> QED
    BY <2>1, <2>2, <1>1, <1>2 DEF ColumnEnds
<1>6. PICK a : a = q[k]
  OBVIOUS
<1>7. PICK b : b = q[k + 1]
  OBVIOUS
<1>8. k \in 0 .. N /\ k \in Nat
  BY <1>1
<1>9. a \in 0 .. n /\ c[a + 1] = k /\ (a # 0 => l[a] = COMMA /\ c[a] = k - 1)
  <2>1. CASE k = 0
    BY <2>1, <1>4, <1>5, <1>6
  <2>2. CASE k # 0
    <3>1. k \in 1 .. N
      BY <2>2, <1>8
    <3>2. a \in 1 .. n /\ l[a] = COMMA /\ c[a] = k - 1
      BY <3>1, <1>5, <1>6
    <3>3. c[a + 1] = c[a] + 1
      BY <3>2, <1>4
    <3> QED
      BY <3>2, <3>3, <1>8
  <2> QED
    BY <2>1, <2>2
<1>10. b \in 1 .. n + 1 /\ c[b] = k /\ (b <= n => l[b] = COMMA) /\ (k < N => b <= n) /\ (k = N => b = n + 1)
  <2>1. CASE k = N
    BY <2>1, <1>4, <1>5, <1>7
  <2>2. CASE k # N
    <3>1. k + 1 \in 1 .. N /\ (k + 1) - 1 = k
      BY <2>2, <1>8
    <3>2. b \in 1 .. n /\ l[b] = COMMA /\ c[b] = (k + 1) - 1
      BY <3>1, <1>5, <1>7
    <3> QED
      BY <2>2, <3>1, <3>2, <1>8
  <2> QED
    BY <2>1, <2>2
<1>11. a < b
  <2>1. CASE a = 0
    BY <2>1, <1>10
  <2>2. CASE a # 0
    <3>1. a \in 1 .. n + 1 /\ c[a] = k - 1 /\ c[b] = k
      BY <2>2, <1>9, <1>10
    <3>2. ~(b <= a)
      BY <3>1, <1>4, <1>8, <1>10
    <3> QED
      BY <3>2, <1>9, <1>10
  <2> QED
    BY <2>1, <2>2
<1>12. ASSUME NEW i \in 1 .. n, i \in a + 1 .. b - 1 PROVE l[i] # COMMA /\ c[i] = k
  <2>1. i \in 1 .. n + 1 /\ i + 1 \in 1 .. n + 1 /\ a + 1 \in 1 .. n + 1 /\ a + 1 <= i /\ i <= b /\ i + 1 <= b
    BY <1>12, <1>9, <1>10
  <2>2. c[i] = k
    <3>1. c[a + 1] <= c[i] /\ c[i] <= c[b]
      BY <2>1, <1>4, <1>10
    <3> QED
      BY <3>1, <2>1, <1>4, <1>9, <1>10
  <2>3. c[i + 1] <= c[b]
    BY <2>1, <1>4, <1>10
  <2> QED
    BY <2>2, <2>3, <1>4, <1>8, <1>10
<1>13. ASSUME NEW i \in 1 .. n, l[i] # COMMA, c[i] = k PROVE i \in a + 1 .. b - 1
  <2>0. i \in 1 .. n + 1
    OBVIOUS
  <2>1. ~(i <= a)
    <3> SUFFICES ASSUME i <= a PROVE FALSE
      OBVIOUS
    <3>1. a # 0 /\ a \in 1 .. n + 1
      BY <1>9
    <3>2. c[i] <= c[a] /\ c[a] = k - 1
      BY <3>1, <2>0, <1>4, <1>9
    <3> QED
      BY <3>2, <1>13, <1>8
  <2>2. ~(b <= i)
    <3> SUFFICES ASSUME b <= i PROVE FALSE
      OBVIOUS
    <3>1. b \in 1 .. n /\ l[b] = COMMA /\ b # i
      BY <1>10, <1>13
    <3>2. c[b + 1] = k + 1 /\ b + 1 \in 1 .. n + 1 /\ b + 1 <= i
      BY <3>1, <1>4, <1>10
    <3>3. c[b + 1] <= c[i]
      BY <3>2, <2>0, <1>4
    <3> QED
      BY <3>2, <3>3, <1>13, <1>8
  <2> QED
    BY <2>1, <2>2, <1>9, <1>10
<1>14. \A i \in 1 .. n : (l[i] # COMMA /\ c[i] = k) <=> i \in a + 1 .. b - 1
  BY <1>12, <1>13
<1>15. \A i \in 1 .. n : c[i] = CommasBefore(l, i)
  <2>1. \A i \in 1 .. n : i \in 1 .. n + 1
    OBVIOUS
  <2> QED
    BY <2>1, <1>4
<1>16. a \in Nat /\ b \in Nat /\ a < b /\ b <= n + 1 /\ (k < N => b <= n)
  BY <1>9, <1>10, <1>11
<1>17. \A i \in 1 .. n : (l[i] # COMMA /\ CommasBefore(l, i) = k) <=> i \in a + 1 .. b - 1
  BY <1>14, <1>15
<1> QED
  BY <1>1, <1>2, <1>6, <1>7, <1>16, <1>17

(* What the script appends to a line: a comma and a newline. *)
LEMMA WithEndIs ==
    ASSUME NEW l, LineOK(l)
    PROVE  /\ WithEnd(l) \in Seq(Int) /\ Len(l) \in Nat /\ Len(WithEnd(l)) = Len(l) + 2
           /\ \A i \in 1 .. Len(l) : WithEnd(l)[i] = l[i]
           /\ WithEnd(l)[Len(l) + 1] = COMMA /\ WithEnd(l)[Len(l) + 2] = NEWLINE
<1>1. l \in Seq(Int) /\ Len(l) \in Nat
  BY LenProperties DEF LineOK
<1> DEFINE e == <<COMMA, NEWLINE>>
<1>2. e \in Seq(Int) /\ Len(e) = 2 /\ e[1] = COMMA /\ e[2] = NEWLINE
  BY DEF COMMA, NEWLINE
<1> HIDE DEF e
<1>3. /\ l \o e \in Seq(Int) /\ Len(l \o e) = Len(l) + Len(e)
      /\ \A i \in 1 .. Len(l) + Len(e) : (l \o e)[i] = IF i <= Len(l) THEN l[i] ELSE e[i - Len(l)]
  BY <1>1, <1>2, ConcatProperties
<1>4. PICK n \in Nat : n = Len(l)
  BY <1>1
<1>5. PICK w : w = l \o e
  OBVIOUS
<1>6. w \in Seq(Int) /\ Len(w) = n + 2 /\ \A i \in 1 .. n + 2 : w[i] = IF i <= n THEN l[i] ELSE e[i - n]
  BY <1>2, <1>3, <1>4, <1>5
<1>7. w[n + 1] = e[1] /\ w[n + 2] = e[2]
  <2>1. n + 1 \in 1 .. n + 2 /\ ~(n + 1 <= n) /\ (n + 1) - n = 1
    OBVIOUS
  <2>2. n + 2 \in 1 .. n + 2 /\ ~(n + 2 <= n) /\ (n + 2) - n = 2
    OBVIOUS
  <2>3. w[n + 1] = e[(n + 1) - n]
    BY <2>1, <1>6
  <2>4. w[n + 2] = e[(n + 2) - n]
    BY <2>2, <1>6
  <2> QED
    BY <2>1, <2>2, <2>3, <2>4
<1>8. \A i \in 1 .. n : w[i] = l[i]
  BY <1>6
<1> QED
  BY <1>2, <1>4, <1>5, <1>6, <1>7, <1>8 DEF WithEnd, e

(* The columns of a line, and what parse_data.py keeps of it. *)
LEMMA ColumnField ==
    ASSUME NEW l, LineOK(l), NEW q, ColumnEnds(l, q), NEW k \in 0 .. TotalCommas(l)
    PROVE  FieldAt(WithEnd(l), q[k], q[k + 1], Field(l, k + 1), k = TotalCommas(l))
<1>1. PICK N \in Nat : N = TotalCommas(l)
  BY ColumnEndsExist, LenProperties DEF LineOK
<1>2. PICK n \in Nat : n = Len(l)
  BY LenProperties DEF LineOK
<1>3. PICK w : w = WithEnd(l)
  OBVIOUS
<1>4. /\ w \in Seq(Int) /\ Len(w) = n + 2
      /\ \A i \in 1 .. n : w[i] = l[i]
      /\ w[n + 1] = COMMA /\ w[n + 2] = NEWLINE
  BY <1>2, <1>3, WithEndIs
<1>5. PICK a : a = q[k]
  OBVIOUS
<1>6. PICK b : b = q[k + 1]
  OBVIOUS
<1>7. /\ a \in Nat /\ b \in Nat /\ a < b /\ b <= n + 1
      /\ k < N => b <= n
      /\ \A i \in 1 .. n : (l[i] # COMMA /\ CommasBefore(l, i) = k) <=> i \in a + 1 .. b - 1
  BY <1>1, <1>2, <1>5, <1>6, ColumnChars
<1>8. k \in 0 .. N /\ (k = N => b = n + 1) /\ (k < N => l[b] = COMMA)
  <2>1. k = N => b = n + 1
    BY <1>1, <1>2, <1>6 DEF ColumnEnds
  <2>2. ASSUME k < N PROVE l[b] = COMMA
    <3>1. k + 1 \in 1 .. N
      BY <1>1, <2>2
    <3> QED
      BY <3>1, <1>1, <1>6 DEF ColumnEnds
  <2> QED
    BY <2>1, <2>2, <1>1
<1>9. w[b] = COMMA
  BY <1>4, <1>7, <1>8
<1>10. ASSUME NEW i \in a + 1 .. b - 1 PROVE i \in 1 .. n /\ l[i] # COMMA /\ w[i] = l[i]
  BY <1>4, <1>7
<1>11. (w[b + 1] = NEWLINE) <=> k = N
  <2>1. CASE k = N
    BY <2>1, <1>4, <1>8
  <2>2. CASE k < N
    <3>1. b \in 1 .. n /\ b + 1 \in 1 .. n + 1
      BY <2>2, <1>7
    <3>2. CASE b + 1 = n + 1
      BY <3>2, <2>2, <1>4 DEF COMMA, NEWLINE
    <3>3. CASE b + 1 \in 1 .. n
      <4>1. w[b + 1] = l[b + 1] /\ l[b + 1] # NEWLINE
        BY <3>3, <1>2, <1>4 DEF LineOK
      <4> QED
        BY <4>1, <2>2
    <3> QED
      BY <3>1, <3>2, <3>3
  <2> QED
    BY <2>1, <2>2, <1>8
<1>12. ASSUME NEW i \in a + 1 .. b, w[i] \notin Blank, \A h \in a + 1 .. i - 1 : w[h] \in Blank
       PROVE  Field(l, k + 1) = IF w[i] >= 0 THEN w[i] ELSE 0
  <2> DEFINE at == {j \in DOMAIN l : l[j] # COMMA /\ l[j] \notin Blank /\ CommasBefore(l, j) = (k + 1) - 1}
  <2>0. k \in Nat /\ (k + 1) - 1 = k /\ DOMAIN l = 1 .. n
    BY <1>1, <1>2, <1>8, LenProperties DEF LineOK
  <2>1. \A j : j \in at <=> (j \in 1 .. n /\ l[j] \notin Blank /\ j \in a + 1 .. b - 1)
    BY <2>0, <1>7
  <2>2. Field(l, k + 1) = IF at = {} \/ l[Min(at)] < 0 THEN 0 ELSE l[Min(at)]
    BY DEF Field
  <2> HIDE DEF at
  <2>3. CASE i = b
    <3>1. \A j : j \notin at
      <4> SUFFICES ASSUME NEW j, j \in at PROVE FALSE
        OBVIOUS
      <4>1. j \in 1 .. n /\ l[j] \notin Blank /\ j \in a + 1 .. b - 1
        BY <2>1
      <4>2. w[j] \in Blank /\ w[j] = l[j]
        BY <4>1, <2>3, <1>4, <1>12
      <4> QED
        BY <4>1, <4>2
    <3>2. at = {}
      BY <3>1
    <3>3. w[i] = -1
      BY <2>3, <1>9 DEF COMMA
    <3> QED
      BY <2>2, <3>2, <3>3
  <2>4. CASE i # b
    <3>1. i \in a + 1 .. b - 1
      BY <2>4, <1>7
    <3>2. i \in 1 .. n /\ w[i] = l[i]
      BY <3>1, <1>10
    <3>3. i \in at
      BY <3>1, <3>2, <2>1, <1>12
    <3>4. ASSUME NEW j \in at PROVE i <= j
      <4>1. j \in 1 .. n /\ l[j] \notin Blank /\ j \in a + 1 .. b - 1
        BY <2>1
      <4> SUFFICES ASSUME ~(i <= j) PROVE FALSE
        OBVIOUS
      <4>2. j \in a + 1 .. i - 1
        BY <4>1, <3>2
      <4>3. w[j] \in Blank /\ w[j] = l[j]
        BY <4>1, <4>2, <1>4, <1>12
      <4> QED
        BY <4>1, <4>3
    <3>5. at \in SUBSET Nat
      BY <2>1
    <3>6. Min(at) = i
      BY <3>3, <3>4, <3>5, MinUnique
    <3>7. l[i] \in Int
      BY <3>2, <1>2, ElementOfSeq DEF LineOK
    <3> QED
      BY <2>2, <3>2, <3>3, <3>6, <3>7
  <2> QED
    BY <2>3, <2>4
<1>13. FieldAt(w, a, b, Field(l, k + 1), k = N)
  <2>1. \A i \in a + 1 .. b - 1 : i <= Len(w) => w[i] # COMMA
    BY <1>10
  <2>2. \A i \in a + 1 .. b :
           (i <= Len(w) /\ w[i] \notin Blank /\ \A h \in a + 1 .. i - 1 : w[h] \in Blank)
               => Field(l, k + 1) = IF w[i] >= 0 THEN w[i] ELSE 0
    BY <1>12
  <2> QED
    BY <2>1, <2>2, <1>7, <1>9, <1>11 DEF FieldAt
<1> QED
  BY <1>1, <1>3, <1>5, <1>6, <1>13

(* The text the script keeps of a line: what stands behind its first *)
(* Dropped columns.                                                  *)
LEMMA KeptIs ==
    ASSUME NEW l, LineOK(l), NEW q, ColumnEnds(l, q)
    PROVE  /\ TotalCommas(l) < Dropped => KeptText(l) = <<>>
           /\ TotalCommas(l) >= Dropped =>
                  KeptText(l) = SubSeq(l, q[Dropped] + 1, Len(l)) \o <<COMMA>>
<1>0. Dropped \in Nat \ {0}
  BY PipelineAssumption
<1>1. PICK N \in Nat : N = TotalCommas(l)
  BY ColumnEndsExist, LenProperties DEF LineOK
<1>2. PICK n \in Nat : n = Len(l) /\ DOMAIN l = 1 .. n
  BY LenProperties DEF LineOK
<1> DEFINE kept == {i \in DOMAIN l : l[i] = COMMA /\ CommasBefore(l, i) = Dropped - 1}
<1>3. KeptText(l) = IF kept = {} THEN <<>> ELSE SubSeq(l, Min(kept) + 1, Len(l)) \o <<COMMA>>
  BY DEF KeptText
<1>4. \A i \in kept : i \in 1 .. n /\ CommasBefore(l, i + 1) = Dropped /\ l[i] = COMMA /\ CommasBefore(l, i) = Dropped - 1
  <2> SUFFICES ASSUME NEW i \in kept
               PROVE  i \in 1 .. n /\ CommasBefore(l, i + 1) = Dropped /\ l[i] = COMMA /\ CommasBefore(l, i) = Dropped - 1
    OBVIOUS
  <2>1. i \in 1 .. n /\ l[i] = COMMA /\ CommasBefore(l, i) = Dropped - 1
    BY <1>2
  <2>2. i \in Nat \ {0}
    BY <2>1
  <2>3. CommasBefore(l, i + 1) = CommasBefore(l, i) + 1
    BY <2>1, <2>2, CommasCounted
  <2> QED
    BY <2>1, <2>3, <1>0
<1>5. N = CommasBefore(l, n + 1)
  BY <1>1, <1>2 DEF TotalCommas
<1>6. ASSUME N < Dropped PROVE kept = {}
  <2> SUFFICES ASSUME NEW i \in kept PROVE FALSE
    OBVIOUS
  <2>1. i \in 1 .. n /\ CommasBefore(l, i + 1) = Dropped
    BY <1>4
  <2>2. i + 1 \in Nat \ {0} /\ n + 1 \in Nat \ {0} /\ i + 1 <= n + 1
    BY <2>1
  <2>3. CommasBefore(l, i + 1) <= CommasBefore(l, n + 1)
    BY <2>2, CommasCounted
  <2> QED
    BY <2>1, <2>3, <1>0, <1>5, <1>6
<1>7. ASSUME N >= Dropped PROVE kept # {} /\ Min(kept) = q[Dropped]
  <2>1. Dropped \in 1 .. N
    BY <1>0, <1>7
  <2>2. PICK b : b = q[Dropped]
    OBVIOUS
  <2>3. b \in 1 .. n /\ l[b] = COMMA /\ CommasBefore(l, b) = Dropped - 1
    BY <1>1, <1>2, <2>1, <2>2 DEF ColumnEnds
  <2>4. b \in kept
    BY <2>3, <1>2
  <2>5. ASSUME NEW i \in kept PROVE b <= i
    <3> SUFFICES ASSUME ~(b <= i) PROVE FALSE
      OBVIOUS
    <3>1. i \in 1 .. n /\ CommasBefore(l, i + 1) = Dropped
      BY <1>4
    <3>2. i + 1 \in Nat \ {0} /\ b \in Nat \ {0} /\ i + 1 <= b
      BY <3>1, <2>3
    <3>3. CommasBefore(l, i + 1) <= CommasBefore(l, b)
      BY <3>2, CommasCounted
    <3> QED
      BY <3>1, <3>3, <2>3, <1>0
  <2>6. kept \in SUBSET Nat
    BY <1>4
  <2> HIDE DEF kept
  <2>7. Min(kept) = b
    BY <2>4, <2>5, <2>6, MinUnique
  <2> QED
    BY <2>2, <2>4, <2>7
<1> HIDE DEF kept
<1> QED
  BY <1>0, <1>1, <1>3, <1>6, <1>7

-----------------------------------------------------------------------------
(* The text parse_data.py writes, and where each row of the raw file lies in it. *)

(* A text that begins like another one. *)
BeginsLike(f, g, n) == n <= Len(f) /\ n <= Len(g) /\ \A i \in 1 .. n : f[i] = g[i]

(* A field is left alone by what is written behind it, and by a cut. *)
LEMMA FieldKept ==
    ASSUME NEW f \in Seq(Int), NEW g \in Seq(Int), NEW a, NEW b, NEW v, NEW last, FieldAt(f, a, b, v, last),
           \/ BeginsLike(f, g, Len(f)) /\ b + 1 <= Len(f)
           \/ BeginsLike(f, g, Len(g))
    PROVE  FieldAt(g, a, b, v, last)
<1>1. PICK n \in Nat : n = Len(f)
  BY LenProperties
<1>2. PICK m \in Nat : m = Len(g)
  BY LenProperties
<1>3. a \in Nat /\ b \in Nat /\ a < b
  BY DEF FieldAt
<1>4. \A i \in 1 .. b + 1 : i <= m => i <= n /\ g[i] = f[i]
  <2>1. CASE BeginsLike(f, g, Len(f)) /\ b + 1 <= Len(f)
    BY <2>1, <1>1, <1>2, <1>3 DEF BeginsLike
  <2>2. CASE BeginsLike(f, g, Len(g))
    BY <2>2, <1>1, <1>2, <1>3 DEF BeginsLike
  <2> QED
    BY <2>1, <2>2
<1>5. b <= m => g[b] = COMMA
  BY <1>1, <1>3, <1>4 DEF FieldAt
<1>6. \A i \in a + 1 .. b - 1 : i <= m => g[i] # COMMA
  BY <1>1, <1>3, <1>4 DEF FieldAt
<1>7. b + 1 <= m => (g[b + 1] = NEWLINE <=> last)
  BY <1>1, <1>3, <1>4 DEF FieldAt
<1>8. ASSUME NEW i \in a + 1 .. b, i <= m, g[i] \notin Blank, \A h \in a + 1 .. i - 1 : g[h] \in Blank
      PROVE  v = IF g[i] >= 0 THEN g[i] ELSE 0
  <2>1. i \in 1 .. b + 1 /\ g[i] = f[i] /\ i <= n
    BY <1>3, <1>4, <1>8
  <2>2. ASSUME NEW h \in a + 1 .. i - 1 PROVE f[h] \in Blank
    <3>1. h \in 1 .. b + 1 /\ h <= m
      BY <1>2, <1>3, <1>8
    <3>2. g[h] = f[h]
      BY <1>4, <3>1
    <3> QED
      BY <1>8, <3>2
  <2>3. v = IF f[i] >= 0 THEN f[i] ELSE 0
    BY <1>1, <1>8, <2>1, <2>2 DEF FieldAt
  <2> QED
    BY <2>1, <2>3
<1> QED
  BY <1>2, <1>3, <1>5, <1>6, <1>7, <1>8 DEF FieldAt

(* Place m of g holds what stands behind place a of w, up to the character   *)
(* behind b, and only blanks are between c and m.                           *)
Moved(w, g, a, b, m, c) ==
    /\ m \in Nat /\ c \in 0 .. m /\ b + 1 <= Len(w) /\ m + (b - a) + 1 <= Len(g)
    /\ \A i \in c + 1 .. m : g[i] \in Blank
    /\ \A x \in 1 .. b - a + 1 : g[m + x] = w[a + x]

(* A field that is written behind blanks: what was at a is at m, and only   *)
(* blanks are between c and m.                                              *)
LEMMA FieldMoved ==
    ASSUME NEW w \in Seq(Int), NEW g \in Seq(Int), NEW a, NEW b, NEW v, NEW last, NEW m, NEW c,
           FieldAt(w, a, b, v, last), Moved(w, g, a, b, m, c)
    PROVE  FieldAt(g, c, m + (b - a), v, last)
<1>1. PICK n \in Nat : n = Len(w)
  BY LenProperties
<1>2. /\ a \in Nat /\ b \in Nat /\ a < b /\ b + 1 <= n
      /\ m \in Nat /\ c \in 0 .. m /\ m + (b - a) + 1 <= Len(g)
  BY <1>1 DEF FieldAt, Moved
<1>3. PICK d \in Nat : d = b - a /\ d > 0 /\ a + d = b
  BY <1>2
<1>4. \A x \in 1 .. d + 1 : g[m + x] = w[a + x]
  BY <1>3 DEF Moved
<1>5. \A i \in c + 1 .. m : g[i] \in Blank
  BY DEF Moved
<1>6. g[m + d] = COMMA
  <2>1. d \in 1 .. d + 1 /\ b <= n
    BY <1>2, <1>3
  <2>2. g[m + d] = w[a + d]
    BY <1>4, <2>1
  <2> QED
    BY <2>1, <2>2, <1>1, <1>3 DEF FieldAt
<1>7. g[m + d + 1] = NEWLINE <=> last
  <2>1. d + 1 \in 1 .. d + 1 /\ m + (d + 1) = m + d + 1 /\ a + (d + 1) = b + 1
    BY <1>2, <1>3
  <2>2. g[m + (d + 1)] = w[a + (d + 1)]
    BY <1>4, <2>1
  <2> QED
    BY <2>1, <2>2, <1>1, <1>2 DEF FieldAt
<1>8. ASSUME NEW i \in c + 1 .. m + d - 1 PROVE g[i] # COMMA
  <2>1. CASE i <= m
    <3>1. g[i] \in Blank
      BY <2>1, <1>5
    <3> QED
      BY <3>1 DEF Blank, COMMA, NEWLINE, SPACE
  <2>2. CASE ~(i <= m)
    <3>1. PICK x \in 1 .. d + 1 : i = m + x /\ x < d
      <4>1. i - m \in 1 .. d + 1 /\ i = m + (i - m) /\ i - m < d
        BY <2>2, <1>2, <1>3
      <4> QED
        BY <4>1
    <3>2. a + x \in a + 1 .. b - 1 /\ a + x <= n
      BY <3>1, <1>2, <1>3
    <3>3. w[a + x] # COMMA
      BY <3>2, <1>1 DEF FieldAt
    <3> QED
      BY <3>1, <3>3, <1>4
  <2> QED
    BY <2>1, <2>2
<1>9. ASSUME NEW i \in c + 1 .. m + d, g[i] \notin Blank, \A h \in c + 1 .. i - 1 : g[h] \in Blank
      PROVE  v = IF g[i] >= 0 THEN g[i] ELSE 0
  <2>1. ~(i <= m)
    BY <1>5, <1>9
  <2>2. PICK x \in 1 .. d + 1 : i = m + x /\ x <= d
    <3>1. i - m \in 1 .. d + 1 /\ i = m + (i - m) /\ i - m <= d
      BY <2>1, <1>2, <1>3
    <3> QED
      BY <3>1
  <2>3. g[i] = w[a + x] /\ a + x \in a + 1 .. b /\ a + x <= n
    <3>1. a + x \in a + 1 .. b /\ a + x <= n
      BY <2>2, <1>2, <1>3
    <3> QED
      BY <3>1, <2>2, <1>4
  <2>4. ASSUME NEW h \in a + 1 .. (a + x) - 1 PROVE w[h] \in Blank
    <3>1. PICK y \in 1 .. d + 1 : h = a + y /\ y < x
      <4>1. h - a \in 1 .. d + 1 /\ h = a + (h - a) /\ h - a < x
        BY <2>2, <1>2
      <4> QED
        BY <4>1
    <3>2. g[m + y] = w[h] /\ m + y \in c + 1 .. i - 1
      <4>1. g[m + y] = w[h]
        BY <3>1, <1>4
      <4>2. m + y \in c + 1 .. i - 1
        BY <3>1, <2>2, <1>2
      <4> QED
        BY <4>1, <4>2
    <3> QED
      BY <3>2, <1>9
  <2>5. v = IF w[a + x] >= 0 THEN w[a + x] ELSE 0
    BY <2>3, <2>4, <1>1, <1>9 DEF FieldAt
  <2> QED
    BY <2>3, <2>5
<1>10. m + d \in Nat /\ c \in Nat /\ c < m + d
  BY <1>2, <1>3
<1>11. FieldAt(g, c, m + d, v, last)
  <2>1. PICK e \in Nat : e = m + d
    BY <1>10
  <2>2. c \in Nat /\ c < e /\ g[e] = COMMA /\ \A i \in c + 1 .. e - 1 : g[i] # COMMA
    <3>1. \A i \in c + 1 .. m + d - 1 : g[i] # COMMA
      BY <1>8
    <3> QED
      BY <3>1, <2>1, <1>2, <1>6, <1>10
  <2>3. g[e + 1] = NEWLINE <=> last
    BY <2>1, <1>7
  <2>4. \A i \in c + 1 .. e : (g[i] \notin Blank /\ \A h \in c + 1 .. i - 1 : g[h] \in Blank)
                                 => v = IF g[i] >= 0 THEN g[i] ELSE 0
    BY <2>1, <1>9
  <2>5. FieldAt(g, c, e, v, last)
    BY <2>2, <2>3, <2>4 DEF FieldAt
  <2> QED
    BY <2>1, <2>5
<1> QED
  BY <1>3, <1>11

-----------------------------------------------------------------------------
(* The rows R laid out in a text f: at[r][j] is the comma behind field j of *)
(* row r, at[r][0] the one before the row.  The text may have been cut.     *)
LastEnd(R, at) == IF Len(R) = 0 THEN 0 ELSE at[Len(R)][Len(R[Len(R)])]
RowLaid(f, R, at, r) ==
    /\ Len(R[r]) \in Nat \ {0}
    /\ \A j \in 0 .. Len(R[r]) - 1 : FieldAt(f, at[r][j], at[r][j + 1], R[r][j + 1], j + 1 = Len(R[r]))
Layout(f, R, at) ==
    /\ f \in Seq(Int) /\ R \in Seq(Seq(Int))
    /\ \A i \in 1 .. Len(f) : f[i] >= WORD
    /\ \A r \in 1 .. Len(R) : RowLaid(f, R, at, r)
    /\ Len(R) >= 1 => at[1][0] = 0
    /\ \A r \in 1 .. Len(R) - 1 : at[r + 1][0] = at[r][Len(R[r])]
    /\ \A i \in 1 .. Len(f) : LastEnd(R, at) < i => f[i] \in Blank

(* All of the rows and the end of the last line are there. *)
Complete(f, R, at) == \A r \in 1 .. Len(R) : \A j \in 0 .. Len(R[r]) : at[r][j] + 1 <= Len(f)

(* Nothing is laid out in an empty text. *)
LEMMA LayoutEmpty == \A at : Layout(<<>>, <<>>, at) /\ Complete(<<>>, <<>>, at)
<1>1. <<>> \in Seq(Int) /\ <<>> \in Seq(Seq(Int)) /\ Len(<<>>) = 0
  OBVIOUS
<1> QED
  BY <1>1 DEF Layout, Complete

(* The script is killed: a beginning of the text. *)
LEMMA LayoutCut ==
    ASSUME NEW f, NEW R, NEW at, Layout(f, R, at), NEW n \in 0 .. Len(f)
    PROVE  Layout(SubSeq(f, 1, n), R, at)
<1>1. f \in Seq(Int) /\ Len(f) \in Nat
  BY LenProperties DEF Layout
<1>2. PICK g : g = SubSeq(f, 1, n)
  OBVIOUS
<1>3. g \in Seq(Int) /\ Len(g) = n /\ \A i \in 1 .. n : g[i] = f[i]
  BY <1>1, <1>2, PrefixTaken
<1>4. BeginsLike(f, g, Len(g))
  BY <1>1, <1>3 DEF BeginsLike
<1>5. ASSUME NEW r \in 1 .. Len(R) PROVE RowLaid(g, R, at, r)
  <2>1. RowLaid(f, R, at, r)
    BY DEF Layout
  <2>2. ASSUME NEW j \in 0 .. Len(R[r]) - 1
        PROVE  FieldAt(g, at[r][j], at[r][j + 1], R[r][j + 1], j + 1 = Len(R[r]))
    <3>1. FieldAt(f, at[r][j], at[r][j + 1], R[r][j + 1], j + 1 = Len(R[r]))
      BY <2>1 DEF RowLaid
    <3> QED
      BY <3>1, <1>1, <1>3, <1>4, FieldKept
  <2> QED
    BY <2>1, <2>2 DEF RowLaid
<1>6. \A i \in 1 .. Len(g) : i \in 1 .. Len(f) /\ g[i] = f[i]
  <2>1. \A i \in 1 .. n : i \in 1 .. Len(f)
    BY <1>1
  <2> QED
    BY <1>3, <2>1
<1>7. Layout(g, R, at)
  BY <1>3, <1>5, <1>6 DEF Layout
<1> QED
  BY <1>2, <1>7

(* A line without a row leaves an empty line. *)
LEMMA LayoutBlank ==
    ASSUME NEW f, NEW R, NEW at, Layout(f, R, at), Complete(f, R, at),
           NEW g \in Seq(Int), Len(g) = Len(f) + 1, BeginsLike(f, g, Len(f)), g[Len(f) + 1] = NEWLINE
    PROVE  Layout(g, R, at) /\ Complete(g, R, at)
<1>1. f \in Seq(Int) /\ Len(f) \in Nat /\ R \in Seq(Seq(Int)) /\ Len(R) \in Nat
  BY LenProperties DEF Layout
<1>2. PICK n \in Nat : n = Len(f)
  BY <1>1
<1>3. ASSUME NEW r \in 1 .. Len(R) PROVE RowLaid(g, R, at, r) /\ \A j \in 0 .. Len(R[r]) : at[r][j] \in Nat
  <2>1. RowLaid(f, R, at, r)
    BY DEF Layout
  <2>2. PICK k \in Nat \ {0} : k = Len(R[r])
    BY <2>1 DEF RowLaid
  <2>3. ASSUME NEW j \in 0 .. k - 1
        PROVE  /\ FieldAt(g, at[r][j], at[r][j + 1], R[r][j + 1], j + 1 = k)
               /\ at[r][j] \in Nat /\ at[r][j + 1] \in Nat
    <3>1. FieldAt(f, at[r][j], at[r][j + 1], R[r][j + 1], j + 1 = k)
      BY <2>1, <2>2 DEF RowLaid
    <3>2. j + 1 \in 0 .. k
      OBVIOUS
    <3>3. at[r][j + 1] + 1 <= Len(f)
      BY <2>2, <3>2 DEF Complete
    <3>4. FieldAt(g, at[r][j], at[r][j + 1], R[r][j + 1], j + 1 = k)
      BY <3>1, <3>3, <1>1, FieldKept
    <3> QED
      BY <3>1, <3>4 DEF FieldAt
  <2>4. ASSUME NEW j \in 0 .. k PROVE at[r][j] \in Nat
    <3>1. CASE j \in 0 .. k - 1
      BY <3>1, <2>3
    <3>2. CASE j = k
      <4>1. k - 1 \in 0 .. k - 1 /\ (k - 1) + 1 = k
        OBVIOUS
      <4>2. at[r][(k - 1) + 1] \in Nat
        BY <2>3, <4>1
      <4> QED
        BY <3>2, <4>1, <4>2
    <3> QED
      BY <3>1, <3>2
  <2> QED
    BY <2>2, <2>3, <2>4 DEF RowLaid
<1>4. ASSUME NEW i \in 1 .. Len(g) PROVE g[i] >= WORD /\ (LastEnd(R, at) < i => g[i] \in Blank)
  <2>1. CASE i \in 1 .. n
    <3>1. g[i] = f[i]
      BY <2>1, <1>2 DEF BeginsLike
    <3> QED
      BY <2>1, <3>1, <1>2 DEF Layout
  <2>2. CASE i = n + 1
    BY <2>2, <1>2 DEF WORD, NEWLINE, Blank
  <2> QED
    BY <2>1, <2>2, <1>2
<1>5. Complete(g, R, at)
  <2> SUFFICES ASSUME NEW r \in 1 .. Len(R), NEW j \in 0 .. Len(R[r]) PROVE at[r][j] + 1 <= Len(g)
    BY DEF Complete
  <2>1. at[r][j] + 1 <= Len(f)
    BY DEF Complete
  <2> QED
    BY <2>1, <1>2, <1>3
<1>6. Layout(g, R, at)
  BY <1>3, <1>4 DEF Layout
<1> QED
  BY <1>5, <1>6

(* Columns end one behind the other. *)
LEMMA ColumnsOrdered ==
    ASSUME NEW l, LineOK(l), NEW q, ColumnEnds(l, q), TotalCommas(l) >= Dropped,
           NEW k \in Dropped .. TotalCommas(l) + 1
    PROVE  q[Dropped] \in 1 .. Len(l) /\ q[k] \in Nat /\ q[Dropped] <= q[k] /\ q[k] <= Len(l) + 1
<1>0. Dropped \in Nat \ {0}
  BY PipelineAssumption
<1>1. PICK N \in Nat : N = TotalCommas(l)
  BY ColumnEndsExist, LenProperties DEF LineOK
<1>2. PICK n \in Nat : n = Len(l)
  BY LenProperties DEF LineOK
<1>3. PICK o : o = q[Dropped]
  OBVIOUS
<1>4. o \in 1 .. n /\ CommasBefore(l, o) = Dropped - 1
  <2>1. Dropped \in 1 .. N
    BY <1>0, <1>1
  <2> QED
    BY <2>1, <1>1, <1>2, <1>3 DEF ColumnEnds
<1>5. CASE k = N + 1
  BY <1>1, <1>2, <1>3, <1>4, <1>5 DEF ColumnEnds
<1>6. CASE k # N + 1
  <2>1. k \in 1 .. N
    BY <1>0, <1>1, <1>6
  <2>2. PICK b : b = q[k]
    OBVIOUS
  <2>3. b \in 1 .. n /\ CommasBefore(l, b) = k - 1
    BY <2>1, <2>2, <1>1, <1>2 DEF ColumnEnds
  <2>4. o <= b
    <3> SUFFICES ASSUME ~(o <= b) PROVE FALSE
      OBVIOUS
    <3>1. b \in Nat \ {0} /\ o \in Nat \ {0} /\ b + 1 \in Nat \ {0} /\ b + 1 <= o
      BY <2>3, <1>4
    <3>2. l[b] = COMMA
      BY <2>1, <2>2, <1>1 DEF ColumnEnds
    <3>3. CommasBefore(l, b + 1) = k
      <4>1. CommasBefore(l, b + 1) = CommasBefore(l, b) + 1
        BY <3>1, <3>2, CommasCounted
      <4> QED
        BY <4>1, <2>1, <2>3
    <3>4. CommasBefore(l, b + 1) <= CommasBefore(l, o)
      BY <3>1, CommasCounted
    <3> QED
      BY <3>3, <3>4, <1>0, <1>4
  <2> QED
    BY <2>2, <2>3, <2>4, <1>2, <1>3, <1>4
<1> QED
  BY <1>5, <1>6

(* A row is a sequence of numbers, one for each column that is kept. *)
LEMMA RowIs ==
    ASSUME NEW l, LineOK(l), TotalCommas(l) >= Dropped
    PROVE  /\ Row(l) \in Seq(Int) /\ Len(Row(l)) = TotalCommas(l) + 1 - Dropped
           /\ \A j \in 0 .. TotalCommas(l) - Dropped : Row(l)[j + 1] = Field(l, Dropped + j + 1)
<1>0. Dropped \in Nat \ {0}
  BY PipelineAssumption
<1>1. PICK N \in Nat : N = TotalCommas(l)
  BY ColumnEndsExist, LenProperties DEF LineOK
<1>2. ASSUME NEW k PROVE Field(l, k) \in Int
  <2> DEFINE at == {i \in DOMAIN l : l[i] # COMMA /\ l[i] \notin Blank /\ CommasBefore(l, i) = k - 1}
  <2>1. Field(l, k) = IF at = {} \/ l[Min(at)] < 0 THEN 0 ELSE l[Min(at)]
    BY DEF Field
  <2>2. DOMAIN l = 1 .. Len(l) /\ Len(l) \in Nat /\ \A i \in 1 .. Len(l) : l[i] \in Int
    BY LenProperties, ElementOfSeq DEF LineOK
  <2>3. at \in SUBSET Nat /\ \A i \in at : l[i] \in Int
    BY <2>2
  <2> HIDE DEF at
  <2>4. at # {} => Min(at) \in at
    BY <2>3, MinIs
  <2>5. CASE at = {}
    BY <2>1, <2>5
  <2>6. CASE at # {}
    <3>1. l[Min(at)] \in Int
      BY <2>3, <2>4, <2>6
    <3> QED
      BY <2>1, <2>6, <3>1
  <2> QED
    BY <2>5, <2>6
<1>3. PICK K \in Nat \ {0} : K = N + 1 - Dropped
  BY <1>0, <1>1
<1>4. Columns(l) - Dropped = K
  BY <1>0, <1>1, <1>3 DEF Columns, TotalCommas
<1>5. Row(l) = [k \in 1 .. K |-> Field(l, k + Dropped)]
  BY <1>4 DEF Row
<1>6. Row(l) \in Seq(Int) /\ Len(Row(l)) = K
  <2> DEFINE s == [k \in 1 .. K |-> Field(l, k + Dropped)]
  <2>1. s \in [1 .. K -> Int]
    BY <1>2
  <2>2. \A k \in 1 .. K : s[k] \in Int
    BY <2>1
  <2> HIDE DEF s
  <2>3. s \in Seq(Int) /\ Len(s) = K
    BY <2>1
  <2> QED
    BY <2>3, <1>5 DEF s
<1>7. ASSUME NEW j \in 0 .. N - Dropped PROVE Row(l)[j + 1] = Field(l, Dropped + j + 1)
  <2>1. PICK k \in 1 .. K : k = j + 1 /\ k + Dropped = Dropped + j + 1
    BY <1>0, <1>3
  <2> QED
    BY <2>1, <1>5
<1> QED
  BY <1>1, <1>3, <1>6, <1>7

(* What the script writes for a line with a row. *)
LineTo(f, l, g) ==
    /\ f \in Seq(Int) /\ LineOK(l) /\ TotalCommas(l) >= Dropped
    /\ g = f \o KeptText(l) \o <<NEWLINE>>
TextTo(f, l, q, g) ==
    /\ g \in Seq(Int) /\ Len(g) = Len(f) + (Len(l) - q[Dropped]) + 2
    /\ \A i \in 1 .. Len(f) : g[i] = f[i]
    /\ \A x \in 1 .. Len(l) - q[Dropped] + 2 : g[Len(f) + x] = WithEnd(l)[q[Dropped] + x]

(* Writing a line appends the text behind its dropped columns. *)
LEMMA TextWritten ==
    ASSUME NEW f, NEW l, NEW q, NEW g, LineTo(f, l, g), ColumnEnds(l, q)
    PROVE  TextTo(f, l, q, g)
<1> USE DEF LineTo, TextTo
<1>0. Dropped \in Nat \ {0} /\ Dropped \in Dropped .. TotalCommas(l) + 1
  BY PipelineAssumption, ColumnEndsExist, LenProperties DEF LineOK
<1>1. PICK n \in Nat : n = Len(f)
  BY LenProperties
<1>2. PICK m \in Nat : m = Len(l)
  BY LenProperties DEF LineOK
<1>3. PICK o : o = q[Dropped]
  OBVIOUS
<1>4. o \in 1 .. m
  BY <1>0, <1>2, <1>3, ColumnsOrdered
<1>5. PICK d \in Nat : d = m - o
  BY <1>4
<1> DEFINE s == SubSeq(l, o + 1, m)
<1>6. s \in Seq(Int) /\ Len(s) = d /\ \A x \in 1 .. d : s[x] = l[o + x]
  <2>1. o + 1 \in Int /\ m \in Int /\ \A i \in o + 1 .. m : l[i] \in Int
    BY <1>2, <1>4, ElementOfSeq DEF LineOK
  <2>2. /\ s \in Seq(Int) /\ Len(s) = IF o + 1 <= m THEN m - (o + 1) + 1 ELSE 0
        /\ \A i \in 1 .. m - (o + 1) + 1 : s[i] = l[(o + 1) + i - 1]
    BY <2>1, SubSeqProperties
  <2> HIDE DEF s
  <2>3. Len(s) = d
    BY <2>2, <1>4, <1>5
  <2>4. ASSUME NEW x \in 1 .. d PROVE s[x] = l[o + x]
    <3>1. x \in 1 .. m - (o + 1) + 1 /\ (o + 1) + x - 1 = o + x
      BY <1>4, <1>5
    <3> QED
      BY <2>2, <3>1
  <2> QED
    BY <2>2, <2>3, <2>4
<1>7. KeptText(l) = s \o <<COMMA>>
  BY <1>2, <1>3, KeptIs
<1> HIDE DEF s
<1>8. PICK t : t = s \o <<COMMA>>
  OBVIOUS
<1>9. t \in Seq(Int) /\ Len(t) = d + 1 /\ (\A x \in 1 .. d : t[x] = l[o + x]) /\ t[d + 1] = COMMA
  <2>1. t = Append(s, COMMA) /\ COMMA \in Int
    BY <1>6, <1>8, AppendIsConcat DEF COMMA
  <2>2. /\ Append(s, COMMA) \in Seq(Int) /\ Len(Append(s, COMMA)) = Len(s) + 1
        /\ \A i \in 1 .. Len(s) : Append(s, COMMA)[i] = s[i]
        /\ Append(s, COMMA)[Len(s) + 1] = COMMA
    <3>1. s \in Seq(Int)
      BY <1>6
    <3>2. COMMA \in Int
      BY <2>1
    <3> QED
      BY <3>1, <3>2, AppendProperties
  <2> QED
    BY <2>1, <2>2, <1>6
<1>10. PICK u : u = f \o t
  OBVIOUS
<1>11. /\ u \in Seq(Int) /\ Len(u) = n + (d + 1)
       /\ \A i \in 1 .. n + (d + 1) : u[i] = IF i <= n THEN f[i] ELSE t[i - n]
  <2>1. /\ f \o t \in Seq(Int) /\ Len(f \o t) = Len(f) + Len(t)
        /\ \A i \in 1 .. Len(f) + Len(t) : (f \o t)[i] = IF i <= Len(f) THEN f[i] ELSE t[i - Len(f)]
    BY <1>9, ConcatProperties
  <2> QED
    BY <2>1, <1>1, <1>9, <1>10
<1>12. /\ g \in Seq(Int) /\ Len(g) = n + (d + 1) + 1
       /\ \A i \in 1 .. n + (d + 1) : g[i] = u[i]
       /\ g[n + (d + 1) + 1] = NEWLINE
  <2>1. g = Append(u, NEWLINE) /\ NEWLINE \in Int
    BY <1>7, <1>8, <1>10, <1>11, AppendIsConcat DEF NEWLINE
  <2>2. /\ Append(u, NEWLINE) \in Seq(Int) /\ Len(Append(u, NEWLINE)) = Len(u) + 1
        /\ \A i \in 1 .. Len(u) : Append(u, NEWLINE)[i] = u[i]
        /\ Append(u, NEWLINE)[Len(u) + 1] = NEWLINE
    <3>1. u \in Seq(Int)
      BY <1>11
    <3>2. NEWLINE \in Int
      BY <2>1
    <3> QED
      BY <3>1, <3>2, AppendProperties
  <2>3. Len(u) = n + (d + 1)
    BY <1>11
  <2> QED
    BY <2>1, <2>2, <2>3
<1>13. PICK w : w = WithEnd(l) /\ (\A i \in 1 .. m : w[i] = l[i]) /\ w[m + 1] = COMMA /\ w[m + 2] = NEWLINE
  BY <1>2, WithEndIs
<1>14. ASSUME NEW i \in 1 .. n PROVE g[i] = f[i]
  <2>1. i \in 1 .. n + (d + 1) /\ i <= n
    BY <1>4, <1>5
  <2>2. g[i] = u[i]
    BY <2>1, <1>12
  <2>3. u[i] = f[i]
    BY <2>1, <1>11
  <2> QED
    BY <2>2, <2>3
<1>15. ASSUME NEW x \in 1 .. d + 2 PROVE g[n + x] = w[o + x]
  <2>1. CASE x \in 1 .. d
    <3>1. n + x \in 1 .. n + (d + 1) /\ ~(n + x <= n) /\ (n + x) - n = x /\ o + x \in 1 .. m
      BY <2>1, <1>4, <1>5
    <3>2. g[n + x] = t[(n + x) - n]
      BY <3>1, <1>11, <1>12
    <3>3. t[x] = l[o + x] /\ w[o + x] = l[o + x]
      BY <2>1, <3>1, <1>9, <1>13
    <3> QED
      BY <3>1, <3>2, <3>3
  <2>2. CASE x = d + 1
    <3>1. n + x \in 1 .. n + (d + 1) /\ ~(n + x <= n) /\ (n + x) - n = d + 1 /\ o + x = m + 1
      BY <2>2, <1>4, <1>5
    <3>2. g[n + x] = t[(n + x) - n]
      BY <3>1, <1>11, <1>12
    <3> QED
      BY <3>1, <3>2, <1>9, <1>13
  <2>3. CASE x = d + 2
    <3>1. n + x = n + (d + 1) + 1 /\ o + x = m + 2
      BY <2>3, <1>4, <1>5
    <3> QED
      BY <3>1, <1>12, <1>13
  <2>4. x \in 1 .. d \/ x = d + 1 \/ x = d + 2
    OBVIOUS
  <2> QED
    BY <2>1, <2>2, <2>3, <2>4
<1>16. n + (d + 1) + 1 = n + (m - o) + 2 /\ m - o + 2 = d + 2
  BY <1>4, <1>5
<1> QED
  BY <1>1, <1>2, <1>3, <1>12, <1>13, <1>14, <1>15, <1>16

(* The end of the last row of a complete text. *)
LEMMA LastEndIs ==
    ASSUME NEW f, NEW R, NEW at, Layout(f, R, at), Complete(f, R, at)
    PROVE  /\ Len(f) \in Nat /\ Len(R) \in Nat /\ LastEnd(R, at) \in 0 .. Len(f)
           /\ \A r \in 1 .. Len(R) : \A j \in 0 .. Len(R[r]) : at[r][j] \in Nat
<1>1. Len(f) \in Nat /\ Len(R) \in Nat
  BY LenProperties DEF Layout
<1>2. ASSUME NEW r \in 1 .. Len(R), NEW j \in 0 .. Len(R[r]) PROVE at[r][j] \in Nat
  <2>1. PICK k \in Nat \ {0} : k = Len(R[r])
    BY DEF Layout, RowLaid
  <2>2. \A i \in 0 .. k - 1 : at[r][i] \in Nat /\ at[r][i + 1] \in Nat
    BY <2>1 DEF Layout, RowLaid, FieldAt
  <2>3. CASE j \in 0 .. k - 1
    BY <2>2, <2>3
  <2>4. CASE j = k
    <3>1. k - 1 \in 0 .. k - 1 /\ (k - 1) + 1 = k
      OBVIOUS
    <3>2. at[r][(k - 1) + 1] \in Nat
      BY <2>2, <3>1
    <3> QED
      BY <2>4, <3>1, <3>2
  <2> QED
    BY <2>1, <2>3, <2>4
<1>3. LastEnd(R, at) \in 0 .. Len(f)
  <2>1. CASE Len(R) = 0
    BY <2>1, <1>1 DEF LastEnd
  <2>2. CASE Len(R) # 0
    <3>1. PICK r \in 1 .. Len(R) : r = Len(R)
      BY <2>2, <1>1
    <3>2. PICK k \in Nat \ {0} : k = Len(R[r])
      BY DEF Layout, RowLaid
    <3>3. k \in 0 .. k
      OBVIOUS
    <3>4. at[r][k] \in Nat /\ at[r][k] + 1 <= Len(f)
      BY <3>2, <3>3, <1>2 DEF Complete
    <3>5. LastEnd(R, at) = at[r][k]
      BY <2>2, <3>1, <3>2 DEF LastEnd
    <3> QED
      BY <3>4, <3>5, <1>1
  <2> QED
    BY <2>1, <2>2
<1> QED
  BY <1>1, <1>2, <1>3

(* A line with a row adds the row. *)
LEMMA LayoutRow ==
    ASSUME NEW f, NEW R, NEW at, Layout(f, R, at), Complete(f, R, at),
           NEW l, NEW g, LineTo(f, l, g)
    PROVE  \E at2 : Layout(g, Append(R, Row(l)), at2) /\ Complete(g, Append(R, Row(l)), at2)
<1>1. Dropped \in Nat \ {0}
  BY PipelineAssumption
<1>2. LineOK(l)
  BY DEF LineTo
<1>3. PICK q : ColumnEnds(l, q)
  BY <1>2, ColumnEndsExist, LenProperties DEF LineOK
<1>4. PICK N \in Nat : N = TotalCommas(l) /\ N >= Dropped
  BY <1>2, ColumnEndsExist, LenProperties DEF LineOK, LineTo
<1>5. PICK m \in Nat : m = Len(l)
  BY <1>2, LenProperties DEF LineOK
<1>6. PICK n \in Nat : n = Len(f)
  BY LastEndIs
<1>7. PICK M \in Nat : M = Len(R)
  BY LastEndIs
<1>8. PICK o : o = q[Dropped]
  OBVIOUS
<1>9. o \in 1 .. m /\ \A k \in Dropped .. N + 1 : q[k] \in Nat /\ o <= q[k] /\ q[k] <= m + 1
  <2>1. \A k \in Dropped .. N + 1 : o \in 1 .. m /\ q[k] \in Nat /\ o <= q[k] /\ q[k] <= m + 1
    BY <1>2, <1>3, <1>4, <1>5, <1>8, ColumnsOrdered
  <2>2. Dropped \in Dropped .. N + 1
    BY <1>1, <1>4
  <2> QED
    BY <2>1, <2>2
<1>10. o \in Nat /\ o <= m /\ o >= 1
  BY <1>9
<1>11. PICK w : w = WithEnd(l)
  OBVIOUS
<1>12. w \in Seq(Int) /\ Len(w) = m + 2 /\ (\A i \in 1 .. m : w[i] = l[i]) /\ w[m + 1] = COMMA /\ w[m + 2] = NEWLINE
  BY <1>2, <1>5, <1>11, WithEndIs
<1>13. /\ g \in Seq(Int) /\ Len(g) = n + (m - o) + 2
       /\ \A i \in 1 .. n : g[i] = f[i]
       /\ \A x \in 1 .. m - o + 2 : g[n + x] = w[o + x]
  <2>1. TextTo(f, l, q, g)
    BY <1>3, TextWritten
  <2>2. /\ g \in Seq(Int) /\ Len(g) = Len(f) + (Len(l) - q[Dropped]) + 2
        /\ \A i \in 1 .. Len(f) : g[i] = f[i]
        /\ \A x \in 1 .. Len(l) - q[Dropped] + 2 : g[Len(f) + x] = WithEnd(l)[q[Dropped] + x]
    BY <2>1 DEF TextTo
  <2> QED
    BY <2>2, <1>5, <1>6, <1>8, <1>11
<1>14. Len(g) \in Nat /\ n + 2 <= Len(g) /\ \A b \in Nat : b <= m + 1 => n + (b - o) + 1 <= Len(g)
  <2>1. Len(g) = n + (m - o) + 2
    BY <1>13
  <2> QED
    BY <1>10, <2>1
<1>15. PICK K \in Nat \ {0} : K = N + 1 - Dropped
  BY <1>1, <1>4
<1>16. PICK row : row = Row(l)
  OBVIOUS
<1>17. row \in Seq(Int) /\ Len(row) = K /\ \A j \in 0 .. K - 1 : row[j + 1] = Field(l, Dropped + j + 1)
  <2>1. /\ row \in Seq(Int) /\ Len(row) = N + 1 - Dropped
        /\ \A j \in 0 .. N - Dropped : row[j + 1] = Field(l, Dropped + j + 1)
    BY <1>2, <1>4, <1>16, RowIs
  <2>2. K - 1 = N - Dropped
    BY <1>1, <1>15
  <2> QED
    BY <2>1, <2>2, <1>15
<1>18. PICK e : e = LastEnd(R, at) /\ e \in 0 .. n
  BY <1>6, LastEndIs
<1> DEFINE ends == [j \in 0 .. K |-> IF j = 0 THEN e ELSE n + (q[Dropped + j] - o)]
           at2 == [r \in 1 .. M + 1 |-> IF r = M + 1 THEN ends ELSE at[r]]
           R2 == Append(R, row)
<1>19. R2 \in Seq(Seq(Int)) /\ Len(R2) = M + 1 /\ (\A r \in 1 .. M : R2[r] = R[r]) /\ R2[M + 1] = row
  <2>1. R \in Seq(Seq(Int))
    BY DEF Layout
  <2>2. /\ Append(R, row) \in Seq(Seq(Int)) /\ Len(Append(R, row)) = Len(R) + 1
        /\ \A r \in 1 .. Len(R) : Append(R, row)[r] = R[r]
        /\ Append(R, row)[Len(R) + 1] = row
    BY <2>1, <1>17, AppendProperties
  <2> QED
    BY <2>2, <1>7
<1>20. at2[M + 1] = ends /\ \A r \in 1 .. M : at2[r] = at[r]
  OBVIOUS
<1>21. ends[0] = e /\ \A j \in 1 .. K : ends[j] = n + (q[Dropped + j] - o)
  OBVIOUS
<1> HIDE DEF ends, at2, R2
<1>22. \A j \in 1 .. K : ends[j] \in Nat /\ ends[j] + 1 <= Len(g)
  <2> SUFFICES ASSUME NEW j \in 1 .. K PROVE ends[j] \in Nat /\ ends[j] + 1 <= Len(g)
    OBVIOUS
  <2>1. Dropped + j \in Dropped .. N + 1
    BY <1>1, <1>4, <1>15
  <2>2. PICK b \in Nat : b = q[Dropped + j] /\ o <= b /\ b <= m + 1
    BY <2>1, <1>9
  <2>3. ends[j] = n + (b - o)
    BY <2>2, <1>21
  <2>4. n + (b - o) \in Nat
    BY <2>2, <1>10
  <2>5. n + (b - o) + 1 <= Len(g)
    BY <2>2, <1>14
  <2> QED
    BY <2>3, <2>4, <2>5
<1>23. ASSUME NEW j \in 0 .. K - 1
       PROVE  FieldAt(g, ends[j], ends[j + 1], row[j + 1], j + 1 = K)
  <2>1. PICK k \in 0 .. N : k = Dropped + j /\ k \in Dropped .. N + 1 /\ k + 1 \in Dropped .. N + 1
    BY <1>1, <1>4, <1>15
  <2>2. PICK a \in Nat : a = q[k] /\ o <= a /\ a <= m + 1
    BY <2>1, <1>9
  <2>3. PICK b \in Nat : b = q[k + 1] /\ b <= m + 1
    BY <2>1, <1>9
  <2>4. FieldAt(w, a, b, Field(l, k + 1), k = N)
    BY <2>1, <2>2, <2>3, <1>3, <1>4, <1>11, <1>2, ColumnField
  <2>5. a < b
    BY <2>4 DEF FieldAt
  <2>6. PICK p \in Nat : p = n + (a - o)
    BY <2>2, <1>9
  <2>7. PICK c : c = ends[j]
    OBVIOUS
  <2>8. c \in 0 .. p /\ \A i \in c + 1 .. p : g[i] \in Blank
    <3>1. CASE j = 0
      <4>0. a = o
        BY <3>1, <2>1, <2>2, <1>1, <1>8
      <4>1. p = n /\ c = e
        BY <3>1, <4>0, <2>6, <2>7, <1>10, <1>21
      <4>2. ASSUME NEW i \in e + 1 .. n PROVE g[i] \in Blank
        <5>1. i \in 1 .. n /\ e < i
          BY <1>18
        <5>2. f[i] \in Blank
          BY <5>1, <1>6, <1>18 DEF Layout
        <5> QED
          BY <5>1, <5>2, <1>13
      <4> QED
        BY <4>1, <4>2, <1>18
    <3>2. CASE j # 0
      <4>1. c = p
        BY <3>2, <2>1, <2>2, <2>6, <2>7, <1>21
      <4> QED
        BY <4>1
    <3> QED
      BY <3>1, <3>2
  <2>9. ends[j + 1] = p + (b - a) /\ p + (b - a) + 1 <= Len(g) /\ b + 1 <= Len(w)
    <3>1. j + 1 \in 1 .. K /\ Dropped + (j + 1) = k + 1
      BY <2>1, <1>1
    <3>2. ends[j + 1] = n + (b - o)
      BY <3>1, <2>3, <1>21
    <3>3. n + (b - o) = p + (b - a)
      BY <2>2, <2>3, <2>6, <1>10
    <3>4. n + (b - o) + 1 <= Len(g) /\ b + 1 <= Len(w)
      BY <2>3, <1>12, <1>14
    <3> QED
      BY <3>2, <3>3, <3>4
  <2>10. ASSUME NEW x \in 1 .. b - a + 1 PROVE g[p + x] = w[a + x]
    <3>1. PICK y \in 1 .. m - o + 2 : y = (a - o) + x /\ n + y = p + x /\ o + y = a + x
      <4>1. (a - o) + x \in 1 .. m - o + 2
        BY <2>2, <2>3, <2>5, <1>10
      <4>2. n + ((a - o) + x) = p + x /\ o + ((a - o) + x) = a + x
        BY <2>2, <2>3, <2>5, <2>6, <1>10
      <4> QED
        BY <4>1, <4>2
    <3>2. g[n + y] = w[o + y]
      BY <3>1, <1>13
    <3> QED
      BY <3>1, <3>2
  <2>11. FieldAt(g, c, p + (b - a), Field(l, k + 1), k = N)
    <3>1. Moved(w, g, a, b, p, c)
      BY <2>8, <2>9, <2>10 DEF Moved
    <3> QED
      BY <3>1, <2>4, <1>12, <1>13, FieldMoved
  <2>12. (k = N <=> j + 1 = K) /\ row[j + 1] = Field(l, k + 1)
    <3>1. Dropped + j + 1 = k + 1
      BY <2>1, <1>1
    <3> QED
      BY <3>1, <2>1, <1>1, <1>15, <1>17
  <2>13. (k = N) = (j + 1 = K)
    BY <2>12
  <2> QED
    BY <2>7, <2>9, <2>11, <2>12, <2>13
<1>24. ASSUME NEW r \in 1 .. M + 1 PROVE RowLaid(g, R2, at2, r)
  <2>1. CASE r = M + 1
    BY <2>1, <1>17, <1>19, <1>20, <1>23 DEF RowLaid
  <2>2. CASE r \in 1 .. M
    <3>1. RowLaid(f, R, at, r)
      BY <2>2, <1>7 DEF Layout
    <3>2. BeginsLike(f, g, Len(f)) /\ f \in Seq(Int) /\ g \in Seq(Int)
      <4>1. n <= n + (m - o) + 2
        BY <1>9
      <4> QED
        BY <4>1, <1>6, <1>13 DEF BeginsLike, Layout
    <3>3. PICK k \in Nat \ {0} : k = Len(R[r])
      BY <3>1 DEF RowLaid
    <3>4. ASSUME NEW j \in 0 .. k - 1
          PROVE  FieldAt(g, at[r][j], at[r][j + 1], R[r][j + 1], j + 1 = k)
      <4>1. FieldAt(f, at[r][j], at[r][j + 1], R[r][j + 1], j + 1 = k)
        BY <3>1, <3>3 DEF RowLaid
      <4>2. j + 1 \in 0 .. k
        OBVIOUS
      <4>3. at[r][j + 1] + 1 <= Len(f)
        BY <3>3, <4>2, <2>2, <1>7 DEF Complete
      <4> QED
        BY <4>1, <4>3, <3>2, FieldKept
    <3>5. R2[r] = R[r] /\ at2[r] = at[r]
      BY <2>2, <1>19, <1>20
    <3> QED
      BY <3>3, <3>4, <3>5 DEF RowLaid
  <2> QED
    BY <2>1, <2>2
<1>25. Complete(g, R2, at2)
  <2> SUFFICES ASSUME NEW r \in 1 .. M + 1, NEW j \in 0 .. Len(R2[r]) PROVE at2[r][j] + 1 <= Len(g)
    BY <1>19 DEF Complete
  <2>0. n + 2 <= Len(g) /\ Len(g) \in Nat
    BY <1>9, <1>13
  <2>1. CASE r = M + 1
    <3>1. j \in 0 .. K /\ at2[r][j] = ends[j]
      BY <2>1, <1>17, <1>19, <1>20
    <3>2. CASE j = 0
      BY <3>1, <3>2, <2>0, <1>18, <1>21
    <3>3. CASE j # 0
      BY <3>1, <3>3, <1>22
    <3> QED
      BY <3>2, <3>3
  <2>2. CASE r \in 1 .. M
    <3>1. j \in 0 .. Len(R[r]) /\ at2[r][j] = at[r][j]
      BY <2>2, <1>19, <1>20
    <3>2. at[r][j] \in Nat /\ at[r][j] + 1 <= Len(f)
      BY <3>1, <2>2, <1>7, LastEndIs DEF Complete
    <3> QED
      BY <3>1, <3>2, <2>0, <1>6
  <2> QED
    BY <2>1, <2>2
<1>26. LastEnd(R2, at2) = ends[K] /\ K \in 1 .. K
  <2>1. Len(R2) = M + 1 /\ M + 1 # 0 /\ Len(R2[M + 1]) = K /\ at2[M + 1] = ends
    BY <1>17, <1>19, <1>20
  <2> QED
    BY <2>1 DEF LastEnd
<1>27. ASSUME NEW i \in 1 .. Len(g) PROVE g[i] >= WORD /\ (LastEnd(R2, at2) < i => g[i] \in Blank)
  <2>1. CASE i \in 1 .. n
    <3>1. g[i] >= WORD
      BY <2>1, <1>6, <1>13 DEF Layout
    <3>2. LastEnd(R2, at2) = ends[K] /\ K \in 1 .. K
      BY <1>26
    <3>3. Dropped + K = N + 1 /\ N + 1 \in Dropped .. N + 1
      BY <1>1, <1>4, <1>15
    <3>4. ends[K] = n + (q[N + 1] - o) /\ o <= q[N + 1] /\ q[N + 1] \in Nat
      BY <3>2, <3>3, <1>9, <1>21
    <3>5. ~(LastEnd(R2, at2) < i)
      BY <2>1, <3>2, <3>4, <1>9
    <3> QED
      BY <3>1, <3>5
  <2>2. CASE i \notin 1 .. n
    <3>1. PICK x \in 1 .. m - o + 2 : i = n + x /\ g[i] = w[o + x]
      <4>1. i - n \in 1 .. m - o + 2 /\ i = n + (i - n)
        BY <2>2, <1>9, <1>13
      <4> QED
        BY <4>1, <1>13
    <3>2. o + x \in 1 .. m + 2
      BY <3>1, <1>9
    <3>3. w[o + x] >= WORD
      <4>1. CASE o + x \in 1 .. m
        BY <4>1, <1>5, <1>12, <1>2 DEF LineOK
      <4>2. CASE o + x = m + 1
        BY <4>2, <1>12 DEF COMMA, WORD
      <4>3. CASE o + x = m + 2
        BY <4>3, <1>12 DEF NEWLINE, WORD
      <4> QED
        BY <3>2, <4>1, <4>2, <4>3
    <3>4. LastEnd(R2, at2) = ends[K] /\ K \in 1 .. K
      BY <1>26
    <3>5. Dropped + K = N + 1
      BY <1>1, <1>15
    <3>6. ends[K] = n + ((m + 1) - o)
      <4>1. q[N + 1] = m + 1
        BY <1>3, <1>4, <1>5 DEF ColumnEnds
      <4> QED
        BY <3>4, <3>5, <4>1, <1>21
    <3>7. ASSUME LastEnd(R2, at2) < i PROVE g[i] \in Blank
      <4>1. o + x = m + 2
        BY <3>1, <3>2, <3>4, <3>6, <3>7, <1>9
      <4> QED
        BY <3>1, <4>1, <1>12 DEF Blank
    <3> QED
      BY <3>1, <3>3, <3>7
  <2> QED
    BY <2>1, <2>2
<1>28. M + 1 >= 1 => at2[1][0] = 0
  <2>1. CASE M = 0
    BY <2>1, <1>7, <1>18, <1>20, <1>21 DEF LastEnd
  <2>2. CASE M # 0
    <3>1. 1 \in 1 .. M
      BY <2>2
    <3> QED
      BY <3>1, <1>7, <1>20 DEF Layout
  <2> QED
    BY <2>1, <2>2
<1>29. ASSUME NEW r \in 1 .. (M + 1) - 1 PROVE at2[r + 1][0] = at2[r][Len(R2[r])]
  <2>1. r \in 1 .. M /\ M # 0
    OBVIOUS
  <2>2. CASE r = M
    BY <2>1, <2>2, <1>7, <1>18, <1>19, <1>20, <1>21 DEF LastEnd
  <2>3. CASE r # M
    <3>1. r \in 1 .. M - 1 /\ r + 1 \in 1 .. M
      BY <2>1, <2>3
    <3> QED
      BY <2>1, <3>1, <1>7, <1>19, <1>20 DEF Layout
  <2> QED
    BY <2>2, <2>3
<1>30. Layout(g, R2, at2)
  BY <1>13, <1>19, <1>24, <1>27, <1>28, <1>29 DEF Layout
<1> QED
  BY <1>16, <1>25, <1>30 DEF R2

(* The loader stands before field j + 1 of row r: only blanks separate it   *)
(* from the comma before that field.                                        *)
Place(R, at, r, j, p) ==
    /\ r \in 1 .. Len(R) /\ j \in 0 .. Len(R[r]) - 1
    /\ p \in Nat /\ at[r][j] < p /\ p <= Len(file) + 1
    /\ \A h \in at[r][j] + 1 .. p - 1 : file[h] \in Blank

(* The loader stands behind the last comma of row r, at the end of the line. *)
RowEnd(R, at, r, p) ==
    /\ r \in 1 .. Len(R) /\ p = at[r][Len(R[r])] + 1
    /\ p <= Len(file) /\ file[p] = NEWLINE

(* Only blanks follow row r. *)
AllRead(R, at, r) == \A i \in 1 .. Len(file) : at[r][Len(R[r])] < i => file[i] \in Blank

(* The positions of row r. *)
LEMMA RowPositions ==
    ASSUME NEW R, NEW at, Layout(file, R, at), NEW r \in 1 .. Len(R)
    PROVE  /\ file \in Seq(Int) /\ Len(file) \in Nat /\ Len(R) \in Nat /\ Len(R[r]) \in Nat \ {0}
           /\ R[r] \in Seq(Int)
           /\ \A j \in 0 .. Len(R[r]) : at[r][j] \in Nat
           /\ \A j \in 0 .. Len(R[r]) - 1 :
                  FieldAt(file, at[r][j], at[r][j + 1], R[r][j + 1], j + 1 = Len(R[r]))
<1>1. Len(file) \in Nat /\ Len(R) \in Nat /\ file \in Seq(Int) /\ R[r] \in Seq(Int)
  BY LenProperties, ElementOfSeq DEF Layout
<1>2. PICK k \in Nat \ {0} : k = Len(R[r])
  BY DEF Layout, RowLaid
<1>3. \A j \in 0 .. k - 1 : FieldAt(file, at[r][j], at[r][j + 1], R[r][j + 1], j + 1 = k)
  BY <1>2 DEF Layout, RowLaid
<1>4. \A j \in 0 .. k - 1 : at[r][j] \in Nat /\ at[r][j + 1] \in Nat
  BY <1>3 DEF FieldAt
<1>5. ASSUME NEW j \in 0 .. k PROVE at[r][j] \in Nat
  <2>1. CASE j \in 0 .. k - 1
    BY <2>1, <1>4
  <2>2. CASE j = k
    <3>1. k - 1 \in 0 .. k - 1 /\ (k - 1) + 1 = k
      OBVIOUS
    <3>2. at[r][(k - 1) + 1] \in Nat
      BY <1>4, <3>1
    <3> QED
      BY <2>2, <3>1, <3>2
  <2> QED
    BY <2>1, <2>2
<1> QED
  BY <1>1, <1>2, <1>3, <1>5

(* Where a loop over blanks stops. *)
LEMMA BlanksSkipped ==
    ASSUME file \in Seq(Int), NEW p \in Nat \ {0}, p <= Len(file) + 1
    PROVE  /\ SkipBlanks(p) \in p .. Len(file) + 1
           /\ \A h \in p .. SkipBlanks(p) - 1 : h <= Len(file) /\ file[h] \in Blank
           /\ SkipBlanks(p) <= Len(file) => file[SkipBlanks(p)] \notin Blank
           /\ Peek(SkipBlanks(p)) \notin Blank
<1>1. PICK n \in Nat : n = Len(file)
  BY LenProperties
<1> DEFINE T == {i \in p .. Len(file) + 1 : Peek(i) \notin Blank}
<1>2. n + 1 \in T /\ T \in SUBSET Nat
  <2>1. Peek(n + 1) = EOF
    BY <1>1 DEF Peek
  <2> QED
    BY <2>1, <1>1 DEF Blank, EOF, NEWLINE, SPACE
<1>3. SkipBlanks(p) = Min(T)
  BY DEF SkipBlanks
<1>4. PICK s : s = Min(T)
  OBVIOUS
<1>5. s \in T /\ \A y \in T : s <= y
  BY <1>2, <1>4, MinIs
<1>6. s \in p .. n + 1 /\ Peek(s) \notin Blank
  BY <1>1, <1>5
<1>7. ASSUME NEW h \in p .. s - 1 PROVE h <= n /\ file[h] \in Blank
  <2>1. h \in p .. n + 1 /\ h <= n /\ ~(s <= h)
    BY <1>6
  <2>2. h \notin T
    BY <1>5, <2>1
  <2>3. Peek(h) \in Blank
    BY <1>1, <2>1, <2>2
  <2> QED
    BY <1>1, <2>1, <2>3 DEF Peek
<1>8. s <= n => file[s] \notin Blank
  BY <1>1, <1>6 DEF Peek
<1> HIDE DEF T
<1> QED
  BY <1>1, <1>3, <1>4, <1>6, <1>7, <1>8

(* ReadFloat on a field reads the field: its number is the number of the    *)
(* row, and the position behind its comma is the next field of the row, or  *)
(* the end of the line.                                                     *)
LEMMA FieldRead ==
    ASSUME NEW R, NEW at, Layout(file, R, at), NEW r, NEW j, NEW p, Place(R, at, r, j, p), ReadReturns(p)
    PROVE  /\ at[r][j + 1] \in Nat /\ at[r][j + 1] <= Len(file) /\ at[r][j] < at[r][j + 1]
           /\ AfterFloat(p) = at[r][j + 1] + 1
           /\ ReadFloat(p) = R[r][j + 1]
           /\ j + 1 < Len(R[r]) => /\ Peek(at[r][j + 1] + 1) # NEWLINE
                                   /\ Place(R, at, r, j + 1, at[r][j + 1] + 1)
           /\ j + 1 = Len(R[r]) =>
                  IF Peek(at[r][j + 1] + 1) = NEWLINE
                  THEN RowEnd(R, at, r, at[r][j + 1] + 1)
                  ELSE at[r][j + 1] = Len(file) /\ ~ReadReturns(at[r][j + 1] + 1)
<1>1. /\ r \in 1 .. Len(R) /\ j \in 0 .. Len(R[r]) - 1
      /\ p \in Nat /\ at[r][j] < p /\ p <= Len(file) + 1
      /\ \A h \in at[r][j] + 1 .. p - 1 : file[h] \in Blank
  BY DEF Place
<1>2. PICK n \in Nat : n = Len(file)
  BY <1>1, RowPositions
<1>3. PICK k \in Nat \ {0} : k = Len(R[r])
  BY <1>1, RowPositions
<1>4. PICK v : v = R[r][j + 1]
  OBVIOUS
<1>5. PICK a : a = at[r][j]
  OBVIOUS
<1>6. PICK b : b = at[r][j + 1]
  OBVIOUS
<1>7. FieldAt(file, a, b, v, j + 1 = k)
  BY <1>1, <1>3, <1>4, <1>5, <1>6, RowPositions
<1>8. /\ a \in Nat /\ b \in Nat /\ a < b
      /\ b <= n => file[b] = COMMA
      /\ \A i \in a + 1 .. b - 1 : i <= n => file[i] # COMMA
      /\ \A i \in a + 1 .. b :
             (i <= n /\ file[i] \notin Blank /\ \A h \in a + 1 .. i - 1 : file[h] \in Blank)
                 => v = IF file[i] >= 0 THEN file[i] ELSE 0
      /\ b + 1 <= n => (file[b + 1] = NEWLINE <=> j + 1 = k)
  BY <1>2, <1>7 DEF FieldAt
<1>9. j \in 0 .. k - 1 /\ p \in Nat /\ a < p /\ p <= n + 1 /\ p # 0 /\ \A h \in a + 1 .. p - 1 : file[h] \in Blank
  BY <1>1, <1>2, <1>3, <1>5, <1>8
<1>10. PICK i \in p .. n : file[i] = COMMA
  BY <1>2 DEF ReadReturns, Comma
<1>11. b <= n
  <2> SUFFICES ASSUME ~(b <= n) PROVE FALSE
    OBVIOUS
  <2>1. i \in a + 1 .. b - 1 /\ i <= n
    BY <1>8, <1>9
  <2> QED
    BY <2>1, <1>8, <1>10
<1>12. file[b] = COMMA /\ COMMA \notin Blank
  BY <1>8, <1>11 DEF COMMA, Blank, NEWLINE, SPACE
<1>13. p <= b
  <2> SUFFICES ASSUME ~(p <= b) PROVE FALSE
    OBVIOUS
  <2>1. b \in a + 1 .. p - 1
    BY <1>8, <1>9
  <2> QED
    BY <2>1, <1>9, <1>12
<1>14. AfterFloat(p) = b + 1
  <2>1. \A x : x \in Comma(p) <=> x \in p .. n /\ file[x] = COMMA
    BY <1>2 DEF Comma
  <2>2. b \in Comma(p)
    BY <2>1, <1>8, <1>9, <1>11, <1>12, <1>13
  <2>3. ASSUME NEW y \in Comma(p) PROVE b <= y
    <3> SUFFICES ASSUME ~(b <= y) PROVE FALSE
      OBVIOUS
    <3>1. y \in p .. n /\ file[y] = COMMA
      BY <2>1
    <3>2. y \in a + 1 .. b - 1 /\ y <= n
      BY <3>1, <1>8, <1>9
    <3> QED
      BY <3>1, <3>2, <1>8
  <2>4. Comma(p) \in SUBSET Nat
    BY <2>1, <1>9
  <2>5. Min(Comma(p)) = b
    BY <2>2, <2>3, <2>4, MinUnique
  <2> QED
    BY <2>5 DEF AfterFloat
<1>15. file \in Seq(Int) /\ \A x \in 1 .. n : file[x] \in Int
  BY <1>2, ElementOfSeq DEF Layout
<1>16. ReadFloat(p) = v
  <2>1. PICK s : s = SkipBlanks(p)
    OBVIOUS
  <2>2. /\ s \in p .. n + 1
        /\ \A h \in p .. s - 1 : file[h] \in Blank
        /\ s <= n => file[s] \notin Blank
    <3>1. p \in Nat \ {0} /\ p <= Len(file) + 1
      BY <1>2, <1>9
    <3> QED
      BY <2>1, <3>1, <1>2, <1>15, BlanksSkipped
  <2>3. s <= b
    <3> SUFFICES ASSUME ~(s <= b) PROVE FALSE
      OBVIOUS
    <3>1. b \in p .. s - 1
      BY <2>2, <1>8, <1>9, <1>13
    <3> QED
      BY <3>1, <2>2, <1>12
  <2>4. s \in a + 1 .. b /\ s <= n /\ s \in 1 .. n
    BY <2>2, <2>3, <1>8, <1>9, <1>11
  <2>5. ASSUME NEW h \in a + 1 .. s - 1 PROVE file[h] \in Blank
    <3>1. CASE h \in a + 1 .. p - 1
      BY <3>1, <1>9
    <3>2. CASE h \in p .. s - 1
      BY <3>2, <2>2
    <3> QED
      BY <3>1, <3>2, <2>4, <1>8, <1>9
  <2>6. v = IF file[s] >= 0 THEN file[s] ELSE 0
    BY <2>2, <2>4, <2>5, <1>8
  <2>7. ReadFloat(p) = IF file[s] >= 0 THEN file[s] ELSE 0
    BY <2>1, <2>4, <1>2 DEF ReadFloat, Peek
  <2> QED
    BY <2>6, <2>7
<1>17. ASSUME j + 1 < k PROVE Peek(b + 1) # NEWLINE /\ Place(R, at, r, j + 1, b + 1)
  <2>1. Peek(b + 1) # NEWLINE
    <3>1. CASE b + 1 <= n
      BY <3>1, <1>2, <1>8, <1>17 DEF Peek
    <3>2. CASE ~(b + 1 <= n)
      BY <3>2, <1>2 DEF Peek, EOF, NEWLINE
    <3> QED
      BY <3>1, <3>2
  <2>2. /\ j + 1 \in 0 .. k - 1 /\ b + 1 \in Nat /\ b < b + 1 /\ b + 1 <= n + 1
        /\ \A h \in b + 1 .. (b + 1) - 1 : FALSE
    BY <1>8, <1>9, <1>11, <1>17
  <2> QED
    BY <2>1, <2>2, <1>1, <1>2, <1>3, <1>6 DEF Place
<1>18. ASSUME j + 1 = k
       PROVE  IF Peek(b + 1) = NEWLINE THEN RowEnd(R, at, r, b + 1) ELSE b = n /\ ~ReadReturns(b + 1)
  <2>1. CASE b + 1 <= n
    <3>1. file[b + 1] = NEWLINE /\ Peek(b + 1) = NEWLINE
      BY <2>1, <1>2, <1>8, <1>18 DEF Peek
    <3>2. RowEnd(R, at, r, b + 1)
      BY <2>1, <3>1, <1>1, <1>2, <1>3, <1>6, <1>18 DEF RowEnd
    <3> QED
      BY <3>1, <3>2
  <2>2. CASE ~(b + 1 <= n)
    <3>1. b = n /\ Peek(b + 1) = EOF
      BY <2>2, <1>2, <1>8, <1>11 DEF Peek
    <3>2. Comma(b + 1) = {}
      BY <3>1, <1>2 DEF Comma
    <3>3. EOF # NEWLINE
      BY DEF EOF, NEWLINE
    <3> QED
      BY <3>1, <3>2, <3>3 DEF ReadReturns
  <2> QED
    BY <2>1, <2>2
<1> QED
  BY <1>2, <1>3, <1>4, <1>5, <1>6, <1>8, <1>11, <1>14, <1>16, <1>17, <1>18

(* The beginning of a file. *)
LEMMA FirstPlace ==
    ASSUME NEW R, NEW at, Layout(file, R, at)
    PROVE  /\ Len(R) # 0 => Place(R, at, 1, 0, 1)
           /\ Len(R) = 0 => ~ReadReturns(1)
<1>1. Len(file) \in Nat /\ Len(R) \in Nat
  BY LenProperties DEF Layout
<1>2. ASSUME Len(R) # 0 PROVE Place(R, at, 1, 0, 1)
  <2>1. 1 \in 1 .. Len(R)
    BY <1>1, <1>2
  <2>2. Len(R[1]) \in Nat \ {0}
    BY <2>1, RowPositions
  <2>3. at[1][0] = 0
    BY <2>1, <1>1 DEF Layout
  <2>4. 0 \in 0 .. Len(R[1]) - 1 /\ 1 <= Len(file) + 1 /\ \A h \in 0 + 1 .. 1 - 1 : FALSE
    BY <2>2, <1>1
  <2> QED
    BY <2>1, <2>3, <2>4 DEF Place
<1>3. ASSUME Len(R) = 0 PROVE ~ReadReturns(1)
  <2>1. ASSUME NEW i \in 1 .. Len(file) PROVE file[i] # COMMA
    <3>1. LastEnd(R, at) < i
      BY <1>3 DEF LastEnd
    <3>2. file[i] \in Blank
      BY <3>1 DEF Layout
    <3> QED
      BY <3>2 DEF Blank, COMMA, NEWLINE, SPACE
  <2> QED
    BY <2>1 DEF ReadReturns, Comma
<1> QED
  BY <1>2, <1>3

(* Behind a row: the next row, or the end of the file. *)
LEMMA RowSkipped ==
    ASSUME NEW R, NEW at, Layout(file, R, at), NEW r, NEW p, RowEnd(R, at, r, p)
    PROVE  /\ Peek(SkipBlanks(p)) = EOF => AllRead(R, at, r)
           /\ Peek(SkipBlanks(p)) # EOF =>
                  ~AllRead(R, at, r) /\ r + 1 \in 1 .. Len(R) /\ Place(R, at, r + 1, 0, SkipBlanks(p))
<1>1. r \in 1 .. Len(R) /\ p = at[r][Len(R[r])] + 1 /\ p <= Len(file) /\ file[p] = NEWLINE
  BY DEF RowEnd
<1>2. PICK n \in Nat : n = Len(file)
  BY <1>1, RowPositions
<1>3. PICK M \in Nat : M = Len(R)
  BY <1>1, RowPositions
<1>4. PICK e \in Nat : e = at[r][Len(R[r])]
  <2>1. Len(R[r]) \in 0 .. Len(R[r])
    BY <1>1, RowPositions
  <2> QED
    BY <2>1, <1>1, RowPositions
<1>5. p = e + 1 /\ p <= n /\ p \in Nat \ {0}
  BY <1>1, <1>2, <1>4
<1>6. PICK s : s = SkipBlanks(p)
  OBVIOUS
<1>7. /\ s \in p .. n + 1
      /\ \A h \in p .. s - 1 : file[h] \in Blank
      /\ s <= n => file[s] \notin Blank
  <2>1. file \in Seq(Int) /\ p <= Len(file) + 1
    BY <1>2, <1>5 DEF Layout
  <2> QED
    BY <2>1, <1>2, <1>5, <1>6, BlanksSkipped
<1>8. ASSUME Peek(s) = EOF PROVE AllRead(R, at, r)
  <2>1. s = n + 1
    <3> SUFFICES ASSUME s # n + 1 PROVE FALSE
      OBVIOUS
    <3>1. s \in 1 .. n /\ Peek(s) = file[s]
      BY <1>2, <1>5, <1>7 DEF Peek
    <3>2. file[s] >= WORD /\ file[s] = EOF
      BY <3>1, <1>2, <1>8 DEF Layout
    <3> QED
      BY <3>2 DEF WORD, EOF
  <2>2. \A i \in 1 .. n : e < i => i \in p .. s - 1
    BY <2>1, <1>5
  <2> QED
    BY <2>2, <1>2, <1>4, <1>7 DEF AllRead
<1>9. ASSUME Peek(s) # EOF PROVE ~AllRead(R, at, r) /\ r + 1 \in 1 .. M /\ Place(R, at, r + 1, 0, s)
  <2>1. s \in 1 .. n /\ e < s /\ file[s] \notin Blank
    BY <1>2, <1>5, <1>7, <1>9 DEF Peek
  <2>2. ~AllRead(R, at, r)
    BY <2>1, <1>2, <1>4 DEF AllRead
  <2>3. r # M
    <3> SUFFICES ASSUME r = M PROVE FALSE
      OBVIOUS
    <3>1. LastEnd(R, at) = e /\ M # 0
      BY <1>1, <1>3, <1>4 DEF LastEnd
    <3> QED
      BY <3>1, <2>1, <1>2 DEF Layout
  <2>4. r \in 1 .. M - 1 /\ r + 1 \in 1 .. M
    BY <2>3, <1>1, <1>3
  <2>5. at[r + 1][0] = e
    BY <2>4, <1>3, <1>4 DEF Layout
  <2>6. Len(R[r + 1]) \in Nat \ {0}
    BY <2>4, <1>3, RowPositions
  <2>7. 0 \in 0 .. Len(R[r + 1]) - 1 /\ s \in Nat /\ s <= n + 1
    BY <2>6, <2>1
  <2>8. \A h \in e + 1 .. s - 1 : file[h] \in Blank
    BY <1>5, <1>7
  <2> QED
    BY <2>1, <2>2, <2>4, <2>5, <2>7, <2>8, <1>2, <1>3 DEF Place
<1> QED
  BY <1>3, <1>6, <1>8, <1>9

(* Reading on behind a row without looking for its end. *)
LEMMA RowJoined ==
    ASSUME NEW R, NEW at, Layout(file, R, at), NEW r, NEW p, RowEnd(R, at, r, p)
    PROVE  /\ AllRead(R, at, r) => ~ReadReturns(p)
           /\ r = Len(R) => ~ReadReturns(p)
           /\ r # Len(R) => r + 1 \in 1 .. Len(R) /\ Place(R, at, r + 1, 0, p)
<1>1. r \in 1 .. Len(R) /\ p = at[r][Len(R[r])] + 1 /\ p <= Len(file) /\ file[p] = NEWLINE
  BY DEF RowEnd
<1>2. PICK n \in Nat : n = Len(file)
  BY <1>1, RowPositions
<1>3. PICK M \in Nat : M = Len(R)
  BY <1>1, RowPositions
<1>4. PICK e \in Nat : e = at[r][Len(R[r])]
  <2>1. Len(R[r]) \in 0 .. Len(R[r])
    BY <1>1, RowPositions
  <2> QED
    BY <2>1, <1>1, RowPositions
<1>5. p = e + 1 /\ p <= n /\ p \in Nat \ {0}
  BY <1>1, <1>2, <1>4
<1>6. ASSUME AllRead(R, at, r) PROVE ~ReadReturns(p)
  <2>1. ASSUME NEW i \in p .. n PROVE file[i] # COMMA
    <3>1. i \in 1 .. n /\ e < i
      BY <1>5
    <3>2. file[i] \in Blank
      BY <3>1, <1>2, <1>4, <1>6 DEF AllRead
    <3> QED
      BY <3>2 DEF Blank, COMMA, NEWLINE, SPACE
  <2> QED
    BY <2>1, <1>2 DEF ReadReturns, Comma
<1>7. ASSUME r = M PROVE AllRead(R, at, r)
  <2>1. LastEnd(R, at) = e /\ M # 0
    BY <1>1, <1>3, <1>4, <1>7 DEF LastEnd
  <2> QED
    BY <2>1, <1>4 DEF Layout, AllRead
<1>8. ASSUME r # M PROVE r + 1 \in 1 .. M /\ Place(R, at, r + 1, 0, p)
  <2>1. r \in 1 .. M - 1 /\ r + 1 \in 1 .. M
    BY <1>1, <1>3, <1>8
  <2>2. at[r + 1][0] = e
    BY <2>1, <1>3, <1>4 DEF Layout
  <2>3. Len(R[r + 1]) \in Nat \ {0}
    BY <2>1, <1>3, RowPositions
  <2>4. 0 \in 0 .. Len(R[r + 1]) - 1 /\ p \in Nat /\ p <= n + 1 /\ e < p /\ \A h \in e + 1 .. p - 1 : FALSE
    BY <2>3, <1>5
  <2> QED
    BY <2>1, <2>2, <2>4, <1>2, <1>3 DEF Place
<1> QED
  BY <1>3, <1>6, <1>7, <1>8

(* The first field of each of the first n rows is in the file. *)
FirstIn(R, at, n) == \A r \in 1 .. Len(R) : r <= n => at[r][1] <= Len(file)

(* A row that is followed by another one is not the last to be read. *)
LEMMA NotAllRead ==
    ASSUME NEW R, NEW at, Layout(file, R, at), NEW r \in 1 .. Len(R), NEW n \in 1 .. Len(R), r < n, FirstIn(R, at, n)
    PROVE  ~AllRead(R, at, r) /\ at[r][Len(R[r])] + 1 <= Len(file)
<1>1. PICK M \in Nat : M = Len(R)
  BY RowPositions
<1>2. PICK m \in Nat : m = Len(file)
  BY RowPositions
<1>3. r \in 1 .. M - 1 /\ r + 1 \in 1 .. M /\ r + 1 <= n
  BY <1>1
<1>4. at[r + 1][0] = at[r][Len(R[r])]
  BY <1>1, <1>3 DEF Layout
<1>5. Len(R[r + 1]) \in Nat \ {0}
  BY <1>1, <1>3, RowPositions
<1>6. FieldAt(file, at[r + 1][0], at[r + 1][0 + 1], R[r + 1][0 + 1], 0 + 1 = Len(R[r + 1]))
  <2>1. 0 \in 0 .. Len(R[r + 1]) - 1
    BY <1>5
  <2> QED
    BY <1>1, <1>3, <2>1, RowPositions
<1>7. at[r + 1][1] <= m
  BY <1>1, <1>2, <1>3 DEF FirstIn
<1>8. PICK b : b = at[r + 1][1]
  OBVIOUS
<1>9. PICK e : e = at[r + 1][0]
  OBVIOUS
<1>10. e \in Nat /\ b \in Nat /\ e < b /\ b <= m /\ file[b] = COMMA
  BY <1>2, <1>6, <1>7, <1>8, <1>9 DEF FieldAt
<1>11. COMMA \notin Blank
  BY DEF Blank, COMMA, NEWLINE, SPACE
<1>12. ~AllRead(R, at, r)
  <2>1. b \in 1 .. m
    BY <1>10
  <2> QED
    BY <2>1, <1>2, <1>4, <1>9, <1>10, <1>11 DEF AllRead
<1> QED
  BY <1>2, <1>4, <1>9, <1>10, <1>12

-----------------------------------------------------------------------------
(* The rows of the lines the script has read. *)

(* A line of the raw file, stripped, has no end of line in it. *)
LEMMA StrippedLine ==
    ASSUME NEW r \in RawFiles, NEW i \in 1 .. Len(r)
    PROVE  r \in Seq(Seq(Int)) /\ LineOK(Strip(r[i]))
<1>1. r \in Seq(Seq(Int)) /\ r[i] \in Seq(Int) /\ i \in DOMAIN r
  BY PipelineAssumption, ElementOfSeq, LenProperties
<1>2. PICK l \in Seq(Int) : l = r[i]
  BY <1>1
<1>3. PICK n \in Nat : n = Len(l)
  BY LenProperties
<1>4. DOMAIN l = 1 .. n /\ \A j \in 1 .. n : l[j] \in Int /\ l[j] >= WORD /\ (l[j] = NEWLINE => j = n)
  BY <1>1, <1>2, <1>3, LenProperties, ElementOfSeq, PipelineAssumption
<1>5. CASE NonBlankAt(l) = {}
  <2>1. Strip(l) = <<>>
    BY <1>5 DEF Strip
  <2>2. Len(<<>>) = 0 /\ <<>> \in Seq(Int)
    OBVIOUS
  <2> QED
    BY <1>1, <1>2, <2>1, <2>2 DEF LineOK
<1>6. CASE NonBlankAt(l) # {}
  <2> DEFINE T == NonBlankAt(l)
             a == Min(T)
             b == Max(T)
  <2>1. T \in SUBSET Nat /\ T \in SUBSET (0 .. n) /\ T # {}
    BY <1>4, <1>6 DEF NonBlankAt
  <2>2. a \in T /\ b \in T
    BY <2>1, MinIs, MaxIs
  <2>3. a \in 1 .. n /\ b \in 1 .. n /\ l[b] \notin Blank
    BY <2>2, <1>4 DEF NonBlankAt
  <2> HIDE DEF a, b, T
  <2>4. l[b] # NEWLINE
    BY <2>3 DEF Blank
  <2>5. PICK s : s = SubSeq(l, a, b)
    OBVIOUS
  <2>6. \A j \in a .. b : l[j] \in Int
    BY <2>3, <1>4
  <2>7. /\ s \in Seq(Int)
        /\ Len(s) = IF a <= b THEN b - a + 1 ELSE 0
        /\ \A j \in 1 .. b - a + 1 : s[j] = l[a + j - 1]
    BY <2>3, <2>5, <2>6, SubSeqProperties
  <2>8. ASSUME NEW j \in 1 .. Len(s) PROVE s[j] >= WORD /\ s[j] # NEWLINE
    <3>1. j \in 1 .. b - a + 1 /\ a + j - 1 \in a .. b
      BY <2>3, <2>7
    <3>2. s[j] = l[a + j - 1] /\ a + j - 1 \in 1 .. n
      <4>1. s[j] = l[a + j - 1]
        BY <3>1, <2>7
      <4>2. a + j - 1 \in 1 .. n
        BY <3>1, <2>3
      <4> QED
        BY <4>1, <4>2
    <3>3. s[j] >= WORD /\ (s[j] = NEWLINE => a + j - 1 = n)
      BY <3>2, <1>4
    <3>4. a + j - 1 = n => a + j - 1 = b
      BY <3>1, <2>3
    <3> QED
      BY <3>2, <3>3, <3>4, <2>4
  <2>9. Strip(l) = s
    BY <1>6, <2>5 DEF Strip, a, b, T
  <2> QED
    BY <1>1, <1>2, <2>7, <2>8, <2>9 DEF LineOK
<1> QED
  BY <1>5, <1>6

(* The row of a line, if it has one. *)
LEMMA RowOfIs ==
    ASSUME NEW l, LineOK(l)
    PROVE  /\ RowOf(l) \in Seq(Seq(Int))
           /\ TotalCommas(l) >= Dropped => Row(l) \in Seq(Int) /\ RowOf(l) = <<Row(l)>>
           /\ ~(TotalCommas(l) >= Dropped) => RowOf(l) = <<>>
<1>1. Dropped \in Nat \ {0} /\ TotalCommas(l) \in Nat
  BY PipelineAssumption, ColumnEndsExist, LenProperties DEF LineOK
<1>2. Columns(l) = TotalCommas(l) + 1
  BY DEF Columns, TotalCommas
<1>3. Columns(l) > Dropped <=> TotalCommas(l) >= Dropped
  BY <1>1, <1>2
<1>4. CASE TotalCommas(l) >= Dropped
  <2>1. Row(l) \in Seq(Int)
    BY <1>4, RowIs
  <2>2. RowOf(l) = <<Row(l)>>
    BY <1>3, <1>4 DEF RowOf
  <2>3. <<Row(l)>> \in Seq(Seq(Int))
    BY <2>1
  <2> QED
    BY <1>4, <2>1, <2>2, <2>3
<1>5. CASE ~(TotalCommas(l) >= Dropped)
  <2>1. RowOf(l) = <<>>
    BY <1>3, <1>5 DEF RowOf
  <2> QED
    BY <1>5, <2>1
<1> QED
  BY <1>4, <1>5

(* The rows of the lines of a raw file. *)
LineRows(r) == [i \in 1 .. Len(r) |-> RowOf(Strip(r[i]))]

(* They are sequences of rows; the first lines give the first rows. *)
LEMMA LineRowsAre ==
    ASSUME NEW r \in RawFiles
    PROVE  /\ Len(r) \in Nat /\ DOMAIN r = 1 .. Len(r)
           /\ Seqs(LineRows(r), Len(r), Seq(Int))
           /\ \A n \in 0 .. Len(r) : FlatFacts(LineRows(r), n, Seq(Int))
<1>1. Len(r) \in Nat /\ DOMAIN r = 1 .. Len(r)
  BY PipelineAssumption, LenProperties
<1>2. \A i \in 1 .. Len(r) : LineRows(r)[i] \in Seq(Seq(Int))
  BY StrippedLine, RowOfIs DEF LineRows
<1>3. Seqs(LineRows(r), Len(r), Seq(Int))
  BY <1>1, <1>2 DEF Seqs
<1> QED
  BY <1>1, <1>3, FlatPrefix

(* The lines that have been read had something in them. *)
LinesRead(n) == raw \in RawFiles /\ n \in 0 .. Len(raw) /\ \A i \in 1 .. n : Strip(raw[i]) # <<>>
(* The rows of the first n lines. *)
RowsUpTo(n) == FlatTo(LineRows(raw), n)

(* The rows of the lines read so far are the first rows of the file, and    *)
(* all of them when the next line is empty.                                 *)
LEMMA RowsRead ==
    ASSUME NEW n, LinesRead(n)
    PROVE  /\ Rows \in Seq(Seq(Int)) /\ RowsUpTo(n) \in Seq(Seq(Int))
           /\ Len(RowsUpTo(n)) <= Len(Rows)
           /\ RowsUpTo(n) = SubSeq(Rows, 1, Len(RowsUpTo(n)))
           /\ (n = Len(raw) \/ Strip(raw[n + 1]) = <<>>) => RowsUpTo(n) = Rows
<1>1. raw \in RawFiles /\ n \in 0 .. Len(raw) /\ \A i \in 1 .. n : Strip(raw[i]) # <<>>
  BY DEF LinesRead
<1>2. PICK m \in Nat : m = Len(raw)
  BY <1>1, LineRowsAre
<1>3. DOMAIN raw = 1 .. m /\ raw \in Seq(Seq(Int))
  BY <1>1, <1>2, LineRowsAre, PipelineAssumption
<1>4. \E k \in n .. m : /\ Rows = FlatTo(LineRows(raw), k)
                        /\ (n = m \/ Strip(raw[n + 1]) = <<>>) => k = n
  <2>1. CASE BlankLines = {}
    <3>1. ParsedLines = raw /\ \A i \in 1 .. m : Strip(raw[i]) # <<>>
      BY <2>1, <1>3 DEF ParsedLines, BlankLines
    <3>2. Rows = FlattenSeq([i \in 1 .. m |-> RowOf(Strip(raw[i]))])
      BY <3>1, <1>3 DEF Rows
    <3>3. [i \in 1 .. m |-> RowOf(Strip(raw[i]))] = [i \in 1 .. m |-> LineRows(raw)[i]]
      BY <1>2 DEF LineRows
    <3>4. Rows = FlatTo(LineRows(raw), m)
      BY <3>2, <3>3 DEF FlatTo
    <3>5. (n = m \/ Strip(raw[n + 1]) = <<>>) => m = n
      BY <3>1, <1>1, <1>2
    <3>6. m \in n .. m
      BY <1>1, <1>2
    <3> QED
      BY <3>4, <3>5, <3>6
  <2>2. CASE BlankLines # {}
    <3>1. BlankLines \in SUBSET Nat
      BY <1>3 DEF BlankLines
    <3>2. PICK b : b = Min(BlankLines)
      OBVIOUS
    <3>3. b \in BlankLines /\ \A y \in BlankLines : b <= y
      BY <2>2, <3>1, <3>2, MinIs
    <3>4. b \in 1 .. m /\ Strip(raw[b]) = <<>>
      BY <3>3, <1>3 DEF BlankLines
    <3>5. PICK k \in Nat : b = k + 1
      <4>1. b - 1 \in Nat /\ b = (b - 1) + 1
        BY <3>4
      <4> QED
        BY <4>1
    <3>6. k \in 0 .. m /\ k + 1 \in 1 .. m
      BY <3>4, <3>5
    <3>7. n <= k
      <4> SUFFICES ASSUME ~(n <= k) PROVE FALSE
        OBVIOUS
      <4>1. b \in 1 .. n
        BY <3>4, <3>5, <1>1
      <4> QED
        BY <4>1, <3>4, <1>1
    <3>8. PICK s : s = SubSeq(raw, 1, k)
      OBVIOUS
    <3>9. Len(s) = k /\ DOMAIN s = 1 .. k /\ \A i \in 1 .. k : s[i] = raw[i]
      BY <3>6, <3>8, <1>2, <1>3, PrefixTaken, LenProperties
    <3>10. ParsedLines = s
      <4>1. b - 1 = k
        BY <3>5
      <4> QED
        BY <4>1, <2>2, <3>2, <3>8 DEF ParsedLines
    <3>11. Rows = FlattenSeq([i \in 1 .. k |-> RowOf(Strip(s[i]))])
      BY <3>9, <3>10 DEF Rows
    <3>12. [i \in 1 .. k |-> RowOf(Strip(s[i]))] = [i \in 1 .. k |-> LineRows(raw)[i]]
      BY <3>6, <3>9, <1>2 DEF LineRows
    <3>13. Rows = FlatTo(LineRows(raw), k)
      BY <3>11, <3>12 DEF FlatTo
    <3>14. ASSUME n = m \/ Strip(raw[n + 1]) = <<>> PROVE k = n
      <4>1. n # m
        BY <3>6, <3>7
      <4>2. n + 1 \in BlankLines
        BY <4>1, <3>14, <1>1, <1>2, <1>3 DEF BlankLines
      <4>3. b <= n + 1
        BY <3>3, <4>2
      <4> QED
        BY <4>3, <3>5, <3>7, <1>1
    <3>15. k \in n .. m
      BY <3>6, <3>7, <1>1
    <3> QED
      BY <3>13, <3>14, <3>15
  <2> QED
    BY <2>1, <2>2
<1>5. PICK k \in n .. m : /\ Rows = FlatTo(LineRows(raw), k)
                          /\ (n = m \/ Strip(raw[n + 1]) = <<>>) => k = n
  BY <1>4
<1>6. n \in 0 .. m /\ k \in 0 .. m /\ n \in 0 .. k
  BY <1>1, <1>2
<1>7. FlatFacts(LineRows(raw), k, Seq(Int)) /\ FlatFacts(LineRows(raw), n, Seq(Int))
  BY <1>1, <1>2, <1>6, LineRowsAre
<1>8. PICK U : U = RowsUpTo(n)
  OBVIOUS
<1>9. /\ Rows \in Seq(Seq(Int)) /\ U \in Seq(Seq(Int))
      /\ Len(U) <= Len(Rows) /\ \A i \in 1 .. Len(U) : Rows[i] = U[i]
  BY <1>5, <1>6, <1>7, <1>8 DEF FlatFacts, RowsUpTo
<1>10. U = SubSeq(Rows, 1, Len(U))
  <2>1. Len(U) \in Nat /\ Len(Rows) \in Nat
    BY <1>9, LenProperties
  <2>2. Len(U) \in 0 .. Len(Rows)
    BY <1>9, <2>1
  <2>3. PICK s : s = SubSeq(Rows, 1, Len(U))
    OBVIOUS
  <2>4. s \in Seq(Seq(Int)) /\ Len(s) = Len(U) /\ \A i \in 1 .. Len(U) : s[i] = Rows[i]
    BY <2>2, <2>3, <1>9, PrefixTaken
  <2> QED
    BY <2>3, <2>4, <1>9, SeqEqual
<1>11. (n = Len(raw) \/ Strip(raw[n + 1]) = <<>>) => U = Rows
  BY <1>2, <1>5, <1>8 DEF RowsUpTo
<1> QED
  BY <1>8, <1>9, <1>10, <1>11

(* One line more: its row, if it has one, is laid out behind the others. *)
LEMMA LineLaid ==
    ASSUME NEW n, LinesRead(n), n < Len(raw), NEW f, NEW at,
           Layout(f, RowsUpTo(n), at), Complete(f, RowsUpTo(n), at),
           NEW g, g = f \o KeptText(Strip(raw[n + 1])) \o <<NEWLINE>>
    PROVE  \E at2 : Layout(g, RowsUpTo(n + 1), at2) /\ Complete(g, RowsUpTo(n + 1), at2)
<1>1. PICK l : l = Strip(raw[n + 1])
  OBVIOUS
<1>2. raw \in RawFiles /\ Len(raw) \in Nat /\ n \in Nat /\ n + 1 \in 1 .. Len(raw)
  BY LineRowsAre DEF LinesRead
<1>3. LineOK(l)
  BY <1>1, <1>2, StrippedLine
<1>4. PICK R : R = RowsUpTo(n)
  OBVIOUS
<1>5. R \in Seq(Seq(Int)) /\ RowsUpTo(n + 1) = R \o RowOf(l)
  <2>1. Seqs(LineRows(raw), n + 1, Seq(Int))
    BY <1>2, LineRowsAre DEF Seqs
  <2>2. LineRows(raw)[n + 1] = RowOf(l)
    BY <1>1, <1>2 DEF LineRows
  <2>3. FlatTo(LineRows(raw), n) \in Seq(Seq(Int))
        /\ FlatTo(LineRows(raw), n + 1) = FlatTo(LineRows(raw), n) \o LineRows(raw)[n + 1]
    BY <2>1, <1>2, FlatGrows
  <2> QED
    BY <2>2, <2>3, <1>4 DEF RowsUpTo
<1>6. Layout(f, R, at) /\ Complete(f, R, at) /\ f \in Seq(Int)
  BY <1>4 DEF Layout
<1>7. CASE TotalCommas(l) >= Dropped
  <2>1. LineTo(f, l, g)
    BY <1>1, <1>3, <1>6, <1>7 DEF LineTo
  <2>2. \E at2 : Layout(g, Append(R, Row(l)), at2) /\ Complete(g, Append(R, Row(l)), at2)
    BY <2>1, <1>6, LayoutRow
  <2>3. Row(l) \in Seq(Int) /\ RowOf(l) = <<Row(l)>>
    BY <1>3, <1>7, RowOfIs
  <2>4. R \o RowOf(l) = Append(R, Row(l))
    BY <2>3, <1>5, AppendIsConcat
  <2> QED
    BY <2>2, <2>4, <1>5
<1>8. CASE ~(TotalCommas(l) >= Dropped)
  <2>1. PICK q : ColumnEnds(l, q)
    BY <1>3, ColumnEndsExist, LenProperties DEF LineOK
  <2>2. TotalCommas(l) \in Nat /\ Dropped \in Nat
    BY <1>3, ColumnEndsExist, LenProperties, PipelineAssumption DEF LineOK
  <2>3. KeptText(l) = <<>>
    BY <1>3, <1>8, <2>1, <2>2, KeptIs
  <2>4. RowOf(l) = <<>>
    BY <1>3, <1>8, RowOfIs
  <2>5. R \o RowOf(l) = R
    BY <2>4, <1>5, ConcatEmptySeq
  <2>6. g = Append(f, NEWLINE)
    <3>1. f \o <<>> = f
      BY <1>6, ConcatEmptySeq
    <3>2. f \o <<NEWLINE>> = Append(f, NEWLINE)
      BY <1>6, AppendIsConcat DEF NEWLINE
    <3> QED
      BY <3>1, <3>2, <2>3, <1>1
  <2>7. /\ g \in Seq(Int) /\ Len(g) = Len(f) + 1
        /\ \A i \in 1 .. Len(f) : g[i] = f[i]
        /\ g[Len(f) + 1] = NEWLINE
    <3>1. NEWLINE \in Int
      BY DEF NEWLINE
    <3>2. /\ Append(f, NEWLINE) \in Seq(Int) /\ Len(Append(f, NEWLINE)) = Len(f) + 1
          /\ \A i \in 1 .. Len(f) : Append(f, NEWLINE)[i] = f[i]
          /\ Append(f, NEWLINE)[Len(f) + 1] = NEWLINE
      BY <3>1, <1>6, AppendProperties
    <3> QED
      BY <3>2, <2>6
  <2>8. BeginsLike(f, g, Len(f))
    <3>1. Len(f) \in Nat
      BY <1>6, LenProperties
    <3> QED
      BY <3>1, <2>7 DEF BeginsLike
  <2>9. Layout(g, R, at) /\ Complete(g, R, at)
    BY <2>7, <2>8, <1>6, LayoutBlank
  <2> QED
    BY <2>5, <2>9, <1>5
<1> QED
  BY <1>7, <1>8

-----------------------------------------------------------------------------
(* A text that the script has left: the first rows of the raw file are laid *)
(* out in it, all of them and to the end if it was not killed.              *)
FileOf(f, R, at) ==
    /\ Layout(f, R, at)
    /\ Rows \in Seq(Seq(Int)) /\ Len(R) <= Len(Rows) /\ R = SubSeq(Rows, 1, Len(R))
    /\ ~cut => Len(R) = Len(Rows) /\ Complete(f, R, at)

(* The state of the script. *)
ScriptInv ==
    /\ script \in {"none", "running", "ended"}
    /\ script # "none" => pc = "idle"
    /\ script = "running" =>
           /\ LinesRead(lineNo) /\ cut = FALSE
           /\ \E at : Layout(out, RowsUpTo(lineNo), at) /\ Complete(out, RowsUpTo(lineNo), at)
    /\ script = "ended" => \E R, at : FileOf(out, R, at)

(* A step that leaves the script's variables alone. *)
LEMMA RowsKept ==
    ASSUME UNCHANGED raw
    PROVE  /\ Rows' = Rows
           /\ \A n : RowsUpTo(n)' = RowsUpTo(n) /\ (LinesRead(n)' <=> LinesRead(n))
<1>1. BlankLines' = BlankLines
  BY DEF BlankLines
<1>2. ParsedLines' = ParsedLines
  BY <1>1 DEF ParsedLines
<1>3. Rows' = Rows
  BY <1>2 DEF Rows
<1>4. \A n : RowsUpTo(n)' = RowsUpTo(n)
  BY DEF RowsUpTo
<1>5. \A n : (LinesRead(n)' <=> LinesRead(n))
  BY DEF LinesRead
<1> QED
  BY <1>3, <1>4, <1>5

(* The script from its start to its end. *)
LEMMA ScriptStarts == ASSUME NEW r \in RawFiles, StartScript(r) PROVE ScriptInv'
<1>1. script' = "running" /\ raw' = r /\ lineNo' = 0 /\ out' = <<>> /\ cut' = FALSE /\ pc' = "idle"
  BY DEF StartScript, loaderVars
<1>2. Len(r) \in Nat
  BY LineRowsAre
<1>3. LinesRead(lineNo)'
  BY <1>1, <1>2 DEF LinesRead
<1>4. RowsUpTo(lineNo)' = <<>>
  BY <1>1 DEF RowsUpTo, FlatTo, FlattenSeq
<1>5. PICK at : at = 0
  OBVIOUS
<1>6. Layout(out', RowsUpTo(lineNo)', at) /\ Complete(out', RowsUpTo(lineNo)', at)
  BY <1>1, <1>4, LayoutEmpty
<1>7. \E a : Layout(out', RowsUpTo(lineNo)', a) /\ Complete(out', RowsUpTo(lineNo)', a)
  BY <1>6
<1> QED
  BY <1>1, <1>3, <1>7 DEF ScriptInv

(* ParseLine lays the row of the line behind the rows of the lines before. *)
LEMMA ScriptParses == ASSUME ScriptInv, ParseLine PROVE ScriptInv'
<1>1. /\ script = "running" /\ Line # <<>> /\ out' = out \o KeptText(Line) \o <<NEWLINE>>
      /\ lineNo' = lineNo + 1 /\ UNCHANGED <<script, raw, cut, pc>>
  BY DEF ParseLine, loaderVars
<1>2. LinesRead(lineNo) /\ cut = FALSE /\ pc = "idle"
  BY <1>1 DEF ScriptInv
<1>3. PICK at : Layout(out, RowsUpTo(lineNo), at) /\ Complete(out, RowsUpTo(lineNo), at)
  BY <1>1 DEF ScriptInv
<1>4. lineNo < Len(raw) /\ Line = Strip(raw[lineNo + 1])
  BY <1>1 DEF Line
<1>5. \E at2 : Layout(out', RowsUpTo(lineNo + 1), at2) /\ Complete(out', RowsUpTo(lineNo + 1), at2)
  BY <1>1, <1>2, <1>3, <1>4, LineLaid
<1>6. RowsUpTo(lineNo)' = RowsUpTo(lineNo + 1)
  BY <1>1 DEF RowsUpTo
<1>7. LinesRead(lineNo)'
  <2>1. raw \in RawFiles /\ Len(raw) \in Nat /\ lineNo \in 0 .. Len(raw)
    BY <1>2, LineRowsAre DEF LinesRead
  <2>2. lineNo + 1 \in 0 .. Len(raw) /\ \A i \in 1 .. lineNo + 1 : i \in 1 .. lineNo \/ i = lineNo + 1
    BY <2>1, <1>4
  <2>3. \A i \in 1 .. lineNo + 1 : Strip(raw[i]) # <<>>
    BY <2>2, <1>1, <1>2, <1>4 DEF LinesRead
  <2> QED
    BY <2>1, <2>2, <2>3, <1>1 DEF LinesRead
<1>8. \E a : Layout(out, RowsUpTo(lineNo), a)' /\ Complete(out, RowsUpTo(lineNo), a)'
  BY <1>5, <1>6
<1> QED
  BY <1>1, <1>2, <1>7, <1>8 DEF ScriptInv

(* An ended script leaves every row in the file; a killed one leaves a *)
(* prefix of them.                                                     *)
LEMMA ScriptEnds == ASSUME ScriptInv, EndScript \/ Killed PROVE ScriptInv'
<1>1. /\ script = "running" /\ script' = "ended" /\ UNCHANGED <<raw, lineNo, pc>>
      /\ \/ Line = <<>> /\ UNCHANGED <<out, cut>>
         \/ cut' = TRUE /\ \E n \in 0 .. Len(out) : out' = SubSeq(out, 1, n)
  BY DEF EndScript, Killed, loaderVars
<1>2. LinesRead(lineNo) /\ cut = FALSE /\ pc = "idle"
  BY <1>1 DEF ScriptInv
<1>3. PICK at : Layout(out, RowsUpTo(lineNo), at) /\ Complete(out, RowsUpTo(lineNo), at)
  BY <1>1 DEF ScriptInv
<1>4. PICK R : R = RowsUpTo(lineNo)
  OBVIOUS
<1>5. /\ Rows \in Seq(Seq(Int)) /\ Len(R) <= Len(Rows) /\ R = SubSeq(Rows, 1, Len(R))
      /\ (lineNo = Len(raw) \/ Strip(raw[lineNo + 1]) = <<>>) => R = Rows
  BY <1>2, <1>4, RowsRead
<1>6. Rows' = Rows
  BY <1>1, RowsKept
<1>7. CASE Line = <<>> /\ UNCHANGED <<out, cut>>
  <2>1. raw \in RawFiles /\ Len(raw) \in Nat /\ lineNo \in 0 .. Len(raw)
    BY <1>2, LineRowsAre DEF LinesRead
  <2>2. lineNo = Len(raw) \/ Strip(raw[lineNo + 1]) = <<>>
    BY <2>1, <1>7 DEF Line
  <2>3. R = Rows
    BY <2>2, <1>5
  <2>4. Layout(out', R, at) /\ Complete(out', R, at)
    BY <1>3, <1>4, <1>7
  <2>5. FileOf(out, R, at)'
    BY <2>3, <2>4, <1>5, <1>6 DEF FileOf
  <2> QED
    BY <2>5, <1>1, <1>2 DEF ScriptInv
<1>8. CASE cut' = TRUE /\ \E n \in 0 .. Len(out) : out' = SubSeq(out, 1, n)
  <2>1. Layout(out', R, at)
    BY <1>3, <1>4, <1>8, LayoutCut
  <2>2. FileOf(out, R, at)'
    BY <2>1, <1>5, <1>6, <1>8 DEF FileOf
  <2> QED
    BY <2>2, <1>1, <1>2 DEF ScriptInv
<1> QED
  BY <1>1, <1>7, <1>8

-----------------------------------------------------------------------------
(* Where the loader stands in the file, in either pass. *)

(* The fields counted after k whole rows and j fields of the next. *)
CountedTo(R, k, j) == mNumFloats = Len(FlatTo(R, k)) + j /\ k <= Len(FlatTo(R, k))

(* No count of the fields of these rows wraps around. *)
Bounded(R) == \A k \in 0 .. Len(R) : Len(FlatTo(R, k)) \in Nat /\ Len(FlatTo(R, k)) < UIntMod

(* The first pass, within a row and at its end. *)
Counting(R, at) ==
    \/ ~ReadReturns(pos)
    \/ \E r, j : /\ Place(R, at, r, j, pos) /\ mNumFeatures = r - 1
                 /\ FirstIn(R, at, r - 1) /\ (j >= 1 => at[r][1] <= Len(file))
                 /\ CountedTo(R, r - 1, j)
RowCounted(R, at) ==
    \E r : /\ RowEnd(R, at, r, pos) /\ mNumFeatures = r - 1
           /\ FirstIn(R, at, r) /\ CountedTo(R, r - 1, Len(R[r]))

(* What the second pass is told by the first: the number of rows. *)
Counted(R, at) ==
    /\ mNumFeatures \in 1 .. Len(R)
    /\ FirstIn(R, at, mNumFeatures) /\ AllRead(R, at, mNumFeatures)
    /\ at[mNumFeatures][Len(R[mNumFeatures])] + 1 <= Len(file)
    /\ CountedTo(R, mNumFeatures, 0)

(* The arrays hold the first k rows, or row r up to its field j as well; or *)
(* a row with no features has cost the loader a label.                      *)
Tails(R) == [i \in 1 .. Len(R) |-> Tail(R[i])]
OneLabelEach(R, k) == Len(FlatTo(Tails(R), k)) + k = Len(FlatTo(R, k))
Gathered(R, k) ==
    /\ pLabel = [i \in 1 .. k |-> R[i][1]] /\ pData = FlatTo(Tails(R), k)
    /\ OneLabelEach(R, k)
Partly(R, r, j) ==
    /\ j >= 1 /\ pLabel = [i \in 1 .. r |-> R[i][1]] /\ OneLabelEach(R, r - 1)
    /\ pData = FlatTo(Tails(R), r - 1) \o SubSeq(R[r], 2, j)
Behind(R, k) == ~Labelled(R) /\ pLabel \in Seq(Int) /\ Len(pLabel) < k

(* The second pass. *)
Labelling(R, at) ==
    \E r : /\ r <= mNumFeatures /\ Place(R, at, r, 0, pos)
           /\ Gathered(R, r - 1) \/ Behind(R, r - 1)
Filling(R, at) ==
    \/ ~ReadReturns(pos) /\ ~Labelled(R)
    \/ \E r, j : /\ r <= mNumFeatures /\ Place(R, at, r, j, pos)
                 /\ Partly(R, r, j) \/ Behind(R, r)
RowFilled(R, at) ==
    \E r : /\ r <= mNumFeatures /\ RowEnd(R, at, r, pos)
           /\ Gathered(R, r) \/ Behind(R, r)

(* Where the loader is in the rows R of its file. *)
FirstPass == {"count", "countRow", "allocate"}
SecondPass == {"label", "data", "dataRow", "assert", "loaded"}
Reading(R, at) ==
    /\ pc \in FirstPass => pLabel = <<>> /\ pData = <<>>
    /\ pc = "count" => Counting(R, at)
    /\ pc = "countRow" => RowCounted(R, at)
    /\ pc = "allocate" => mNumFeatures = 0 \/ Counted(R, at)
    /\ pc \in SecondPass => /\ Counted(R, at)
                            /\ dataCap = UInt((mNumFloats \div mNumFeatures - 1) * mNumFeatures)
    /\ pc = "label" => Labelling(R, at)
    /\ pc = "data" => Filling(R, at)
    /\ pc = "dataRow" => RowFilled(R, at)
    /\ pc = "assert" => Gathered(R, mNumFeatures) \/ Behind(R, mNumFeatures)
    /\ pc = "loaded" => Gathered(R, mNumFeatures) /\ Len(pData) + mNumFeatures = mNumFloats

LoadInv ==
    pc \in FirstPass \cup SecondPass =>
        /\ script = "none" /\ mFeatureLen = FeatureLen
        /\ Countable(Rows) => \E R, at : FileOf(file, R, at) /\ Reading(R, at)

(* The rows of a file that can be counted are counted without wrapping. *)
LEMMA CountsBounded ==
    ASSUME NEW f, NEW R, NEW at, FileOf(f, R, at), Countable(Rows)
    PROVE  Bounded(R)
<1>1. /\ Layout(f, R, at) /\ Rows \in Seq(Seq(Int)) /\ Len(R) <= Len(Rows)
      /\ R = SubSeq(Rows, 1, Len(R))
  BY DEF FileOf
<1>2. PICK W : W = Rows
  OBVIOUS
<1>3. PICK w \in Nat : w = Len(W)
  BY <1>1, <1>2, LenProperties
<1>4. PICK m \in Nat : m = Len(R)
  BY <1>1, LenProperties DEF Layout
<1>5. W \in Seq(Seq(Int)) /\ m \in 0 .. w /\ R = SubSeq(W, 1, m)
  BY <1>1, <1>2, <1>3, <1>4
<1>6. \A i \in 1 .. m : R[i] = W[i]
  <2>1. \A i \in 1 .. m : SubSeq(W, 1, m)[i] = W[i]
    BY <1>3, <1>5, PrefixTaken
  <2> QED
    BY <2>1, <1>5
<1>7. Seqs(W, w, Int)
  BY <1>3, <1>5, ElementOfSeq DEF Seqs
<1>8. FlatTo(W, w) = FlattenSeq(W)
  <2>1. W = [i \in 1 .. w |-> W[i]]
    BY <1>3, <1>5
  <2> QED
    BY <2>1 DEF FlatTo
<1>9. Len(FlatTo(W, w)) < UIntMod /\ FlatFacts(W, w, Int)
  <2>1. w \in 0 .. w
    OBVIOUS
  <2> QED
    BY <2>1, <1>2, <1>7, <1>8, FlatPrefix DEF Countable
<1>10. ASSUME NEW k \in 0 .. m PROVE Len(FlatTo(R, k)) \in Nat /\ Len(FlatTo(R, k)) < UIntMod
  <2>1. k \in 0 .. w /\ \A i \in 1 .. k : i \in 1 .. m
    BY <1>5
  <2>2. FlatTo(R, k) = FlatTo(W, k)
    <3>1. [i \in 1 .. k |-> R[i]] = [i \in 1 .. k |-> W[i]]
      BY <2>1, <1>6
    <3> QED
      BY <3>1 DEF FlatTo
  <2>3. FlatFacts(W, k, Int)
    BY <2>1, <1>7, FlatPrefix
  <2>4. Len(FlatTo(W, k)) \in Nat /\ Len(FlatTo(W, w)) \in Nat
    BY <2>3, <1>9, LenProperties DEF FlatFacts
  <2>5. Len(FlatTo(W, k)) <= Len(FlatTo(W, w))
    BY <2>1, <1>9 DEF FlatFacts
  <2> QED
    BY <2>2, <2>4, <2>5, <1>9, UIntAssumption
<1> QED
  BY <1>4, <1>10 DEF Bounded

(* Fields that can be counted are stored where they are written. *)
LEMMA StoredIs ==
    ASSUME NEW w \in Seq(Int), Len(w) < UIntMod
    PROVE  Count(w) = Len(w) /\ Stored(w) = w
<1>1. PICK n \in Nat : n = Len(w)
  BY LenProperties
<1>2. PICK U \in Nat \ {0} : U = UIntMod /\ n < U
  BY <1>1, UIntAssumption
<1>3. ASSUME NEW k \in 0 .. n PROVE UInt(k) = k
  <2>1. k \in 0 .. U - 1
    BY <1>2
  <2> QED
    BY <2>1, <1>2, SmallRemainder DEF UInt
<1>4. Count(w) = Len(w)
  <2>1. n \in 0 .. n
    OBVIOUS
  <2> QED
    BY <2>1, <1>1, <1>3 DEF Count
<1>5. Min({Len(w), UIntMod}) = n
  <2>1. n \in {n, U} /\ \A x \in {n, U} : n <= x
    BY <1>2
  <2>2. {n, U} \in SUBSET Int
    BY <1>2
  <2>3. Min({n, U}) = n
    BY <2>1, <2>2, MinUnique
  <2> QED
    BY <2>3, <1>1, <1>2
<1>6. ASSUME NEW i \in 1 .. n PROVE Max({k \in DOMAIN w : UInt(k - 1) = i - 1}) = i
  <2>1. DOMAIN w = 1 .. n
    BY <1>1, LenProperties
  <2>2. \A k \in 1 .. n : UInt(k - 1) = k - 1
    <3>1. \A k \in 1 .. n : k - 1 \in 0 .. n
      OBVIOUS
    <3> QED
      BY <3>1, <1>3
  <2>3. {k \in DOMAIN w : UInt(k - 1) = i - 1} = {i}
    BY <2>1, <2>2
  <2>4. Max({i}) = i
    BY DEF Max
  <2> QED
    BY <2>3, <2>4
<1>7. Stored(w) = [i \in 1 .. n |-> w[i]]
  BY <1>5, <1>6 DEF Stored
<1>8. w = [i \in 1 .. n |-> w[i]]
  BY <1>1
<1> QED
  BY <1>4, <1>7, <1>8

(* What a step that leaves the file alone keeps. *)
LEMMA FileKept ==
    ASSUME UNCHANGED file, NEW R, NEW at
    PROVE  /\ \A r, j : Place(R, at, r, j, pos') => Place(R, at, r, j, pos)'
           /\ \A r : RowEnd(R, at, r, pos') => RowEnd(R, at, r, pos)'
           /\ ~ReadReturns(pos') => ~ReadReturns(pos)'
           /\ UNCHANGED <<raw, cut>> /\ FileOf(file, R, at) => FileOf(file, R, at)'
<1>1. \A r, j : Place(R, at, r, j, pos') => Place(R, at, r, j, pos)'
  BY DEF Place
<1>2. \A r : RowEnd(R, at, r, pos') => RowEnd(R, at, r, pos)'
  BY DEF RowEnd
<1>3. ~ReadReturns(pos') => ~ReadReturns(pos)'
  BY DEF ReadReturns, Comma
<1>4. UNCHANGED <<raw, cut>> /\ FileOf(file, R, at) => FileOf(file, R, at)'
  BY RowsKept DEF FileOf
<1> QED
  BY <1>1, <1>2, <1>3, <1>4

(* Steps that leave the file and the counters alone keep what was counted. *)
LEMMA CountedKept ==
    ASSUME UNCHANGED <<file, mNumFloats, mNumFeatures>>, NEW R, NEW at
    PROVE  /\ \A n : FirstIn(R, at, n) => FirstIn(R, at, n)'
           /\ Counted(R, at) => Counted(R, at)'
<1>1. \A n : FirstIn(R, at, n) => FirstIn(R, at, n)'
  BY DEF FirstIn
<1>2. AllRead(R, at, mNumFeatures) => AllRead(R, at, mNumFeatures)'
  BY DEF AllRead
<1>3. CountedTo(R, mNumFeatures, 0) => CountedTo(R, mNumFeatures, 0)'
  BY DEF CountedTo
<1>4. FirstIn(R, at, mNumFeatures) => FirstIn(R, at, mNumFeatures)'
  BY DEF FirstIn
<1> QED
  BY <1>1, <1>2, <1>3, <1>4 DEF Counted

(* The rows without their labels. *)
LEMMA TailsAre ==
    ASSUME NEW f, NEW R, NEW at, Layout(f, R, at)
    PROVE  /\ Len(R) \in Nat /\ Seqs(Tails(R), Len(R), Int)
           /\ \A i \in 1 .. Len(R) : /\ R[i] \in Seq(Int) /\ Len(R[i]) \in Nat \ {0} /\ R[i][1] \in Int
                                     /\ Tails(R)[i] = SubSeq(R[i], 2, Len(R[i]))
                                     /\ Len(Tails(R)[i]) = Len(R[i]) - 1
           /\ \A k \in 0 .. Len(R) : FlatTo(Tails(R), k) \in Seq(Int)
<1>1. R \in Seq(Seq(Int)) /\ Len(R) \in Nat
  BY LenProperties DEF Layout
<1>2. ASSUME NEW i \in 1 .. Len(R)
      PROVE  /\ R[i] \in Seq(Int) /\ Len(R[i]) \in Nat \ {0} /\ R[i][1] \in Int
             /\ Tails(R)[i] = SubSeq(R[i], 2, Len(R[i]))
             /\ Tails(R)[i] \in Seq(Int) /\ Len(Tails(R)[i]) = Len(R[i]) - 1
  <2>1. PICK s : s = R[i]
    OBVIOUS
  <2>2. s \in Seq(Int) /\ Len(s) \in Nat \ {0}
    BY <1>1, <2>1, ElementOfSeq DEF Layout, RowLaid
  <2>3. s # <<>> /\ s[1] \in Int
    <3>1. 1 \in 1 .. Len(s)
      BY <2>2
    <3> QED
      BY <2>2, <3>1, EmptySeq, ElementOfSeq
  <2>4. Tail(s) \in Seq(Int) /\ Len(Tail(s)) = Len(s) - 1 /\ Tail(s) = SubSeq(s, 2, Len(s))
    BY <2>2, <2>3, HeadTailProperties, TailIsSubSeq
  <2>5. Tails(R)[i] = Tail(s)
    BY <2>1 DEF Tails
  <2> QED
    BY <2>1, <2>2, <2>3, <2>4, <2>5
<1>3. Seqs(Tails(R), Len(R), Int)
  BY <1>1, <1>2 DEF Seqs
<1>4. \A k \in 0 .. Len(R) : FlatFacts(Tails(R), k, Int)
  BY <1>3, FlatPrefix
<1> QED
  BY <1>1, <1>2, <1>3, <1>4 DEF FlatFacts

(* One row more, with its label and without. *)
LEMMA RowAdds ==
    ASSUME NEW f, NEW R, NEW at, Layout(f, R, at), NEW r \in 1 .. Len(R)
    PROVE  /\ Len(FlatTo(R, r - 1)) \in Nat /\ Len(FlatTo(Tails(R), r - 1)) \in Nat
           /\ Len(FlatTo(R, r)) = Len(FlatTo(R, r - 1)) + Len(R[r])
           /\ Len(FlatTo(Tails(R), r)) = Len(FlatTo(Tails(R), r - 1)) + (Len(R[r]) - 1)
           /\ Len(R[r]) \in Nat \ {0}
<1>1. Len(R) \in Nat /\ Seqs(Tails(R), Len(R), Int) /\ Seqs(R, Len(R), Int)
  <2>1. Len(R) \in Nat /\ Seqs(Tails(R), Len(R), Int) /\ \A i \in 1 .. Len(R) : R[i] \in Seq(Int)
    BY TailsAre
  <2> QED
    BY <2>1 DEF Seqs
<1>2. PICK m \in Nat : r = m + 1 /\ r - 1 = m
  <2>1. r - 1 \in Nat /\ r = (r - 1) + 1
    BY <1>1
  <2> QED
    BY <2>1
<1>3. Seqs(Tails(R), m + 1, Int) /\ Seqs(R, m + 1, Int)
  BY <1>1, <1>2 DEF Seqs
<1>4. FlatTo(R, m) \in Seq(Int) /\ FlatTo(R, m + 1) = FlatTo(R, m) \o R[m + 1]
  BY <1>3, FlatGrows
<1>5. FlatTo(Tails(R), m) \in Seq(Int) /\ FlatTo(Tails(R), m + 1) = FlatTo(Tails(R), m) \o Tails(R)[m + 1]
  BY <1>3, FlatGrows
<1>6. R[m + 1] \in Seq(Int) /\ Tails(R)[m + 1] \in Seq(Int)
  BY <1>3 DEF Seqs
<1>7. Len(FlatTo(R, m + 1)) = Len(FlatTo(R, m)) + Len(R[m + 1])
  BY <1>4, <1>6, ConcatProperties
<1>8. Len(FlatTo(Tails(R), m + 1)) = Len(FlatTo(Tails(R), m)) + Len(Tails(R)[m + 1])
  BY <1>5, <1>6, ConcatProperties
<1>9. Len(R[r]) \in Nat \ {0} /\ Len(Tails(R)[r]) = Len(R[r]) - 1
  BY TailsAre
<1>10. Len(FlatTo(R, m)) \in Nat /\ Len(FlatTo(Tails(R), m)) \in Nat
  BY <1>4, <1>5, LenProperties
<1> QED
  BY <1>2, <1>7, <1>8, <1>9, <1>10

(* One field of the first pass. *)
LEMMA FloatCounted ==
    ASSUME NEW R, NEW at, Layout(file, R, at), Bounded(R), Reading(R, at), CountFloat
    PROVE  Reading(R, at)'
<1>1. /\ pc = "count" /\ ReadReturns(pos) /\ pos' = AfterFloat(pos) /\ mNumFloats' = UInt(mNumFloats + 1)
      /\ pc' = IF Peek(pos') = NEWLINE THEN "countRow" ELSE "count"
      /\ UNCHANGED <<file, mNumFeatures, pData, pLabel>>
  BY DEF CountFloat
<1>2. pLabel = <<>> /\ pData = <<>> /\ Counting(R, at)
  BY <1>1 DEF Reading, FirstPass
<1>3. PICK r, j : /\ Place(R, at, r, j, pos) /\ mNumFeatures = r - 1
                  /\ FirstIn(R, at, r - 1) /\ (j >= 1 => at[r][1] <= Len(file))
                  /\ CountedTo(R, r - 1, j)
  BY <1>1, <1>2 DEF Counting
<1>4. r \in 1 .. Len(R) /\ j \in 0 .. Len(R[r]) - 1
  BY <1>3 DEF Place
<1>5. Len(R) \in Nat /\ Len(file) \in Nat /\ Len(R[r]) \in Nat \ {0}
  BY <1>4, RowPositions
<1>6. PICK k \in Nat \ {0} : k = Len(R[r])
  BY <1>5
<1>7. j \in 0 .. k - 1 /\ r \in Nat \ {0}
  BY <1>4, <1>5, <1>6
<1>8. /\ at[r][j + 1] <= Len(file) /\ pos' = at[r][j + 1] + 1
      /\ j + 1 < k => Peek(pos') # NEWLINE /\ Place(R, at, r, j + 1, pos')
      /\ j + 1 = k => IF Peek(pos') = NEWLINE THEN RowEnd(R, at, r, pos')
                      ELSE ~ReadReturns(pos')
  BY <1>1, <1>3, <1>6, FieldRead
<1>9. at[r][1] <= Len(file)
  <2>1. CASE j >= 1
    BY <2>1, <1>3
  <2>2. CASE j = 0
    BY <2>2, <1>8
  <2> QED
    BY <2>1, <2>2, <1>7
<1>10. FirstIn(R, at, r)'
  <2>1. \A s \in 1 .. Len(R) : s <= r => s <= r - 1 \/ s = r
    BY <1>7
  <2> QED
    BY <2>1, <1>1, <1>3, <1>9 DEF FirstIn
<1>11. FirstIn(R, at, r - 1)'
  BY <1>1, <1>3 DEF FirstIn
<1>12. CountedTo(R, r - 1, j + 1)'
  <2>1. PICK a \in Nat : a = Len(FlatTo(R, r - 1)) /\ Len(FlatTo(R, r)) = a + k
    BY <1>4, <1>6, RowAdds
  <2>2. mNumFloats = a + j /\ r - 1 <= a
    BY <2>1, <1>3 DEF CountedTo
  <2>3. a + k < UIntMod
    <3>1. r \in 0 .. Len(R)
      BY <1>4, <1>5
    <3> QED
      BY <3>1, <2>1 DEF Bounded
  <2>4. UInt(mNumFloats + 1) = a + (j + 1)
    <3>1. a + (j + 1) \in 0 .. UIntMod - 1 /\ mNumFloats + 1 = a + (j + 1)
      BY <2>2, <2>3, <1>7, UIntAssumption
    <3>2. (a + (j + 1)) % UIntMod = a + (j + 1)
      BY <3>1, SmallRemainder, UIntAssumption
    <3> QED
      BY <3>1, <3>2 DEF UInt
  <2> QED
    BY <2>1, <2>2, <2>4, <1>1 DEF CountedTo
<1>13. CASE j + 1 < k
  <2>1. pc' = "count" /\ Place(R, at, r, j + 1, pos)'
    BY <1>1, <1>8, <1>13, FileKept
  <2>2. at[r][1] <= Len(file)' /\ mNumFeatures' = r - 1
    BY <1>1, <1>3, <1>9
  <2>3. Counting(R, at)'
    BY <2>1, <2>2, <1>11, <1>12 DEF Counting
  <2> QED
    BY <2>1, <2>3, <1>1, <1>2 DEF Reading, FirstPass, SecondPass
<1>14. CASE j + 1 = k /\ Peek(pos') = NEWLINE
  <2>1. pc' = "countRow" /\ RowEnd(R, at, r, pos)'
    BY <1>1, <1>8, <1>14, FileKept
  <2>2. CountedTo(R, r - 1, Len(R[r]))'
    BY <1>6, <1>12, <1>14
  <2>3. RowCounted(R, at)'
    BY <2>1, <2>2, <1>1, <1>3, <1>10 DEF RowCounted
  <2> QED
    BY <2>1, <2>3, <1>1, <1>2 DEF Reading, FirstPass, SecondPass
<1>15. CASE j + 1 = k /\ Peek(pos') # NEWLINE
  <2>1. pc' = "count" /\ ~ReadReturns(pos)'
    BY <1>1, <1>8, <1>15, FileKept
  <2>2. Counting(R, at)'
    BY <2>1 DEF Counting
  <2> QED
    BY <2>1, <2>2, <1>1, <1>2 DEF Reading, FirstPass, SecondPass
<1> QED
  BY <1>7, <1>13, <1>14, <1>15

(* The end of a row of the first pass. *)
LEMMA RowIsCounted ==
    ASSUME NEW R, NEW at, Layout(file, R, at), Bounded(R), Reading(R, at), CountRow
    PROVE  Reading(R, at)'
<1>1. /\ pc = "countRow" /\ pos' = SkipBlanks(pos) /\ mNumFeatures' = UInt(mNumFeatures + 1)
      /\ pc' = IF Peek(pos') = EOF THEN "allocate" ELSE "count"
      /\ UNCHANGED <<file, mNumFloats, pData, pLabel>>
  BY DEF CountRow
<1>2. pLabel = <<>> /\ pData = <<>> /\ RowCounted(R, at)
  BY <1>1 DEF Reading, FirstPass
<1>3. PICK r : /\ RowEnd(R, at, r, pos) /\ mNumFeatures = r - 1
               /\ FirstIn(R, at, r) /\ CountedTo(R, r - 1, Len(R[r]))
  BY <1>2 DEF RowCounted
<1>4. r \in 1 .. Len(R) /\ pos = at[r][Len(R[r])] + 1 /\ pos <= Len(file)
  BY <1>3 DEF RowEnd
<1>5. Len(R) \in Nat /\ Len(file) \in Nat /\ r \in Nat \ {0}
  BY <1>4, RowPositions
<1>6. mNumFeatures' = r /\ CountedTo(R, r, 0)'
  <2>1. PICK k \in Nat \ {0} : k = Len(R[r])
    BY <1>4, RowPositions
  <2>2. PICK a \in Nat : a = Len(FlatTo(R, r - 1)) /\ Len(FlatTo(R, r)) = a + k
    BY <2>1, <1>4, RowAdds
  <2>3. mNumFloats = a + k /\ r - 1 <= a
    BY <2>1, <2>2, <1>3 DEF CountedTo
  <2>4. a + k < UIntMod
    <3>1. r \in 0 .. Len(R)
      BY <1>4, <1>5
    <3> QED
      BY <3>1, <2>2 DEF Bounded
  <2>5. r <= a + k
    BY <2>3, <1>5
  <2>6. mNumFeatures + 1 = r /\ r \in 0 .. UIntMod - 1
    BY <2>4, <2>5, <1>3, <1>5, UIntAssumption
  <2>7. r % UIntMod = r
    BY <2>6, SmallRemainder, UIntAssumption
  <2>8. mNumFeatures' = r
    BY <2>6, <2>7, <1>1 DEF UInt
  <2>9. Len(FlatTo(R, r)) + 0 = a + k
    BY <2>2
  <2> QED
    BY <2>2, <2>3, <2>5, <2>8, <2>9, <1>1 DEF CountedTo
<1>7. FirstIn(R, at, r)'
  BY <1>1, <1>3 DEF FirstIn
<1>8. CountedTo(R, r, 0)'
  BY <1>6
<1>9. CASE Peek(pos') = EOF
  <2>1. pc' = "allocate" /\ AllRead(R, at, r)
    BY <1>1, <1>3, <1>9, RowSkipped
  <2>2. AllRead(R, at, r)'
    BY <2>1, <1>1 DEF AllRead
  <2>3. at[r][Len(R[r])] + 1 <= Len(file)'
    BY <1>1, <1>4
  <2>4. Counted(R, at)'
    BY <2>2, <2>3, <1>4, <1>6, <1>7, <1>8 DEF Counted
  <2> QED
    BY <2>1, <2>4, <1>1, <1>2 DEF Reading, FirstPass, SecondPass
<1>10. CASE Peek(pos') # EOF
  <2>1. pc' = "count" /\ Place(R, at, r + 1, 0, pos')
    BY <1>1, <1>3, <1>10, RowSkipped
  <2>2. Place(R, at, r + 1, 0, pos)'
    BY <2>1, <1>1, FileKept
  <2>3. PICK q : q = r + 1
    OBVIOUS
  <2>4. q - 1 = r
    BY <2>3, <1>5
  <2>5. /\ Place(R, at, q, 0, pos)' /\ mNumFeatures' = q - 1
        /\ FirstIn(R, at, q - 1)' /\ (0 >= 1 => at[q][1] <= Len(file)')
        /\ CountedTo(R, q - 1, 0)'
    BY <2>2, <2>3, <2>4, <1>6, <1>7, <1>8
  <2>6. Counting(R, at)'
    BY <2>5 DEF Counting
  <2> QED
    BY <2>1, <2>6, <1>1, <1>2 DEF Reading, FirstPass, SecondPass
<1> QED
  BY <1>9, <1>10

(* Between the passes. *)
LEMMA IsAllocated ==
    ASSUME NEW R, NEW at, Layout(file, R, at), Reading(R, at), Allocate
    PROVE  Reading(R, at)'
<1>1. pc = "allocate" /\ pLabel = <<>> /\ pData = <<>> /\ (mNumFeatures = 0 \/ Counted(R, at))
  BY DEF Allocate, Reading, FirstPass
<1>2. CASE mNumFeatures = 0
  <2>1. pc' = "crash"
    BY <1>2 DEF Allocate
  <2> QED
    BY <2>1 DEF Reading, FirstPass, SecondPass
<1>3. CASE mNumFeatures # 0
  <2>1. /\ dataCap' = UInt((mNumFloats \div mNumFeatures - 1) * mNumFeatures)
        /\ pos' = 1 /\ pc' = "label" /\ UNCHANGED <<file, mNumFloats, mNumFeatures, pData, pLabel>>
    BY <1>3 DEF Allocate
  <2>2. Counted(R, at) /\ Counted(R, at)'
    BY <2>1, <1>1, <1>3, CountedKept
  <2>3. mNumFeatures \in 1 .. Len(R)
    BY <2>2 DEF Counted
  <2>4. Len(R) # 0 /\ 1 <= mNumFeatures /\ Len(R) \in Nat
    <3>1. Len(R) \in Nat
      BY LenProperties DEF Layout
    <3> QED
      BY <2>3, <3>1
  <2>5. Place(R, at, 1, 0, pos')
    BY <2>1, <2>4, FirstPlace
  <2>6. Place(R, at, 1, 0, pos)'
    BY <2>1, <2>5, FileKept
  <2>7. Gathered(R, 1 - 1)'
    <3>1. 1 - 1 = 0 /\ [i \in 1 .. 0 |-> R[i][1]] = <<>>
      OBVIOUS
    <3>2. FlatTo(Tails(R), 0) = <<>> /\ FlatTo(R, 0) = <<>>
      BY DEF FlatTo, FlattenSeq
    <3>3. OneLabelEach(R, 0)
      BY <3>2 DEF OneLabelEach
    <3> QED
      BY <3>1, <3>2, <3>3, <2>1, <1>1 DEF Gathered
  <2>8. Labelling(R, at)'
    BY <2>1, <2>4, <2>6, <2>7 DEF Labelling
  <2> QED
    BY <2>1, <2>2, <2>8 DEF Reading, FirstPass, SecondPass
<1> QED
  BY <1>2, <1>3

(* One label more. *)
LEMMA LabelsGrow ==
    ASSUME NEW f, NEW R, NEW at, Layout(f, R, at), NEW r \in 1 .. Len(R)
    PROVE  LET L(k) == [i \in 1 .. k |-> R[i][1]]
           IN  /\ L(r - 1) \in Seq(Int) /\ Len(L(r - 1)) = r - 1
               /\ L(r) \in Seq(Int) /\ Len(L(r)) = r
               /\ L(r) = Append(L(r - 1), R[r][1])
<1> DEFINE L(k) == [i \in 1 .. k |-> R[i][1]]
<1>1. Len(R) \in Nat /\ \A i \in 1 .. Len(R) : R[i][1] \in Int
  BY TailsAre
<1>2. PICK m \in Nat : r = m + 1
  <2>1. r - 1 \in Nat /\ r = (r - 1) + 1
    BY <1>1
  <2> QED
    BY <2>1
<1>3. \A i \in 1 .. m + 1 : R[i][1] \in Int
  BY <1>1, <1>2
<1>4. L(m) \in Seq(Int) /\ Len(L(m)) = m
  BY <1>3
<1>5. L(m + 1) \in Seq(Int) /\ Len(L(m + 1)) = m + 1
  BY <1>3
<1>6. L(m + 1) = Append(L(m), R[r][1])
  <2>1. m + 1 \in 1 .. m + 1 /\ R[r][1] \in Int
    BY <1>2, <1>3
  <2>2. PICK a : a = Append(L(m), R[r][1])
    OBVIOUS
  <2>3. /\ Append(L(m), R[r][1]) \in Seq(Int) /\ Len(Append(L(m), R[r][1])) = Len(L(m)) + 1
        /\ \A i \in 1 .. Len(L(m)) : Append(L(m), R[r][1])[i] = L(m)[i]
        /\ Append(L(m), R[r][1])[Len(L(m)) + 1] = R[r][1]
    BY <2>1, <1>4, AppendProperties
  <2>4. a \in Seq(Int) /\ Len(a) = m + 1 /\ (\A i \in 1 .. m : a[i] = R[i][1]) /\ a[m + 1] = R[m + 1][1]
    BY <2>2, <2>3, <1>2, <1>4
  <2>5. \A i \in 1 .. m + 1 : i \in 1 .. m \/ i = m + 1
    OBVIOUS
  <2>6. \A i \in 1 .. m + 1 : a[i] = L(m + 1)[i]
    BY <2>4, <2>5
  <2>7. Len(L(m + 1)) = Len(a) /\ \A i \in 1 .. Len(L(m + 1)) : L(m + 1)[i] = a[i]
    BY <2>4, <2>6, <1>5
  <2> HIDE DEF L
  <2>8. L(m + 1) = a
    BY <2>4, <2>7, <1>5, SeqEqual
  <2> QED
    BY <2>2, <2>8
<1>7. r - 1 = m
  BY <1>2
<1> QED
  BY <1>2, <1>4, <1>5, <1>6, <1>7

(* An element more behind two sequences. *)
LEMMA AppendInside ==
    ASSUME NEW S, NEW a \in Seq(S), NEW b \in Seq(S), NEW x \in S
    PROVE  Append(a \o b, x) = a \o (b \o <<x>>)
<1>0. <<x>> \in Seq(S)
  OBVIOUS
<1>1. PICK u \in Seq(S) : u = <<x>>
  BY <1>0
<1>2. (a \o b) \o u = a \o (b \o u)
  BY ConcatAssociative
<1>3. a \o b \in Seq(S)
  BY ConcatProperties
<1>4. Append(a \o b, x) = (a \o b) \o <<x>>
  BY <1>3, AppendIsConcat
<1> QED
  BY <1>1, <1>2, <1>4

(* The features of row r behind those of the rows before, one by one. *)
DataGrows(R, r) ==
    LET D == FlatTo(Tails(R), r - 1)
    IN  /\ D \o SubSeq(R[r], 2, 1) = D
        /\ \A j \in 1 .. Len(R[r]) - 1 : /\ D \o SubSeq(R[r], 2, j) \in Seq(Int)
                                         /\ Len(D \o SubSeq(R[r], 2, j)) = Len(D) + (j - 1)
                                         /\ R[r][j + 1] \in Int
                                         /\ Append(D \o SubSeq(R[r], 2, j), R[r][j + 1])
                                                = D \o SubSeq(R[r], 2, j + 1)
        /\ D \o SubSeq(R[r], 2, Len(R[r])) = FlatTo(Tails(R), r)

(* One feature more of row r. *)
LEMMA DataGrow ==
    ASSUME NEW f, NEW R, NEW at, Layout(f, R, at), NEW r \in 1 .. Len(R)
    PROVE  DataGrows(R, r)
<1>1. Len(R) \in Nat /\ Seqs(Tails(R), Len(R), Int)
  BY TailsAre
<1>2. PICK m \in Nat : r = m + 1
  <2>1. r - 1 \in Nat /\ r = (r - 1) + 1
    BY <1>1
  <2> QED
    BY <2>1
<1>3. PICK D : D = FlatTo(Tails(R), m)
  OBVIOUS
<1>4. PICK s : s = R[r]
  OBVIOUS
<1>5. s \in Seq(Int) /\ Len(s) \in Nat \ {0} /\ Tails(R)[r] = SubSeq(s, 2, Len(s))
  BY <1>4, TailsAre
<1>6. D \in Seq(Int) /\ FlatTo(Tails(R), m + 1) = D \o SubSeq(s, 2, Len(s))
  <2>1. Seqs(Tails(R), m + 1, Int)
    BY <1>1, <1>2 DEF Seqs
  <2>2. FlatTo(Tails(R), m) \in Seq(Int)
        /\ FlatTo(Tails(R), m + 1) = FlatTo(Tails(R), m) \o Tails(R)[m + 1]
    BY <2>1, FlatGrows
  <2> QED
    BY <2>2, <1>2, <1>3, <1>5
<1>7. D \o SubSeq(s, 2, 1) = D
  BY <1>6, SubSeqEmpty, ConcatEmptySeq
<1>8. ASSUME NEW j \in 1 .. Len(s) - 1
      PROVE  /\ D \o SubSeq(s, 2, j) \in Seq(Int) /\ Len(D \o SubSeq(s, 2, j)) = Len(D) + (j - 1)
             /\ s[j + 1] \in Int
             /\ Append(D \o SubSeq(s, 2, j), s[j + 1]) = D \o SubSeq(s, 2, j + 1)
  <2>1. j \in Nat /\ j + 1 \in 2 .. Len(s) /\ 2 \in 1 .. Len(s) /\ j + 1 \in 1 .. Len(s) /\ (j + 1) - 1 = j
    BY <1>5
  <2>2. \A i \in 2 .. j : i \in 1 .. Len(s)
    BY <2>1
  <2>3. \A i \in 2 .. j : s[i] \in Int
    BY <2>2, <1>5, ElementOfSeq
  <2>4. PICK b : b = SubSeq(s, 2, j)
    OBVIOUS
  <2>5. SubSeq(s, 2, j) \in Seq(Int) /\ Len(SubSeq(s, 2, j)) = IF 2 <= j THEN j - 2 + 1 ELSE 0
    BY <2>1, <2>3, SubSeqProperties
  <2>6. b \in Seq(Int) /\ Len(b) = j - 1
    BY <2>1, <2>4, <2>5
  <2>7. s[j + 1] \in Int
    BY <2>1, <1>5, ElementOfSeq
  <2>8. SubSeq(s, 2, j + 1) = SubSeq(s, 2, (j + 1) - 1) \o <<s[j + 1]>>
    BY <2>1, <1>5, SubSeqRecursiveSecond
  <2>9. SubSeq(s, 2, j + 1) = b \o <<s[j + 1]>>
    BY <2>1, <2>4, <2>8
  <2>10. D \o b \in Seq(Int) /\ Len(D \o b) = Len(D) + Len(b)
    BY <2>6, <1>6, ConcatProperties
  <2>11. Append(D \o b, s[j + 1]) = D \o (b \o <<s[j + 1]>>)
    BY <2>6, <2>7, <1>6, AppendInside
  <2> QED
    BY <2>4, <2>6, <2>7, <2>9, <2>10, <2>11
<1>9. r - 1 = m
  BY <1>2
<1> QED
  BY <1>2, <1>3, <1>4, <1>6, <1>7, <1>8, <1>9 DEF DataGrows

(* The rows counted are in the file, with the ends of their lines. *)
LEMMA RowsInside ==
    ASSUME NEW R, NEW at, Layout(file, R, at), Counted(R, at), NEW r \in 1 .. Len(R), r <= mNumFeatures
    PROVE  /\ mNumFeatures \in 1 .. Len(R)
           /\ at[r][Len(R[r])] + 1 <= Len(file)
           /\ AllRead(R, at, r) <=> r = mNumFeatures
<1>1. mNumFeatures \in 1 .. Len(R) /\ Len(R) \in Nat
  BY RowPositions DEF Counted
<1>2. CASE r = mNumFeatures
  BY <1>1, <1>2 DEF Counted
<1>3. CASE r < mNumFeatures
  <2>1. FirstIn(R, at, mNumFeatures)
    BY DEF Counted
  <2>2. ~AllRead(R, at, r) /\ at[r][Len(R[r])] + 1 <= Len(file)
    BY <2>1, <1>1, <1>3, NotAllRead
  <2>3. r # mNumFeatures
    BY <1>1, <1>3
  <2> QED
    BY <2>2, <2>3, <1>1
<1> QED
  BY <1>1, <1>2, <1>3

(* The label of a row. *)
LEMMA LabelRead ==
    ASSUME NEW R, NEW at, Layout(file, R, at), Reading(R, at), ReadLabel
    PROVE  Reading(R, at)'
<1>1. /\ pc = "label" /\ ReadReturns(pos) /\ pos' = AfterFloat(pos)
      /\ pLabel' = Append(pLabel, ReadFloat(pos)) /\ pc' \in {"data", "crash"}
      /\ UNCHANGED <<file, mNumFloats, mNumFeatures, pData, dataCap>>
  BY DEF ReadLabel, Written
<1>2. /\ Counted(R, at) /\ Labelling(R, at)
      /\ dataCap = UInt((mNumFloats \div mNumFeatures - 1) * mNumFeatures)
  BY <1>1 DEF Reading, SecondPass
<1>3. PICK r : /\ r <= mNumFeatures /\ Place(R, at, r, 0, pos)
               /\ Gathered(R, r - 1) \/ Behind(R, r - 1)
  BY <1>2 DEF Labelling
<1>4. r \in 1 .. Len(R) /\ mNumFeatures \in 1 .. Len(R)
  BY <1>2, <1>3 DEF Place, Counted
<1>5. Len(R) \in Nat /\ Len(R[r]) \in Nat \ {0}
  BY <1>4, RowPositions
<1>6. PICK k \in Nat \ {0} : k = Len(R[r])
  BY <1>5
<1>7. r \in Nat \ {0} /\ mNumFeatures \in Nat
  BY <1>4, <1>5
<1>8. /\ pos' = at[r][1] + 1 /\ ReadFloat(pos) = R[r][1]
      /\ 1 < k => Place(R, at, r, 1, pos')
      /\ 1 = k => RowEnd(R, at, r, pos') \/ ~ReadReturns(pos')
  <2>1. 0 + 1 = 1
    OBVIOUS
  <2> QED
    BY <2>1, <1>1, <1>3, <1>6, FieldRead
<1>9. R[r][1] \in Int
  BY <1>4, TailsAre
<1>10. ASSUME Behind(R, r - 1) PROVE Behind(R, r)'
  <2>1. ~Labelled(R) /\ pLabel \in Seq(Int) /\ Len(pLabel) < r - 1
    BY <1>10 DEF Behind
  <2>2. pLabel' \in Seq(Int) /\ Len(pLabel') = Len(pLabel) + 1 /\ Len(pLabel) \in Nat
    BY <2>1, <1>1, <1>8, <1>9, AppendProperties, LenProperties
  <2>3. Len(pLabel') < r
    BY <2>1, <2>2, <1>7
  <2> QED
    BY <2>1, <2>2, <2>3 DEF Behind
<1>11. ASSUME Gathered(R, r - 1)
       PROVE  /\ pLabel' = [i \in 1 .. r |-> R[i][1]] /\ pData' = FlatTo(Tails(R), r - 1)
              /\ pLabel' \in Seq(Int) /\ Len(pLabel') = r /\ OneLabelEach(R, r - 1)
  <2>1. /\ [i \in 1 .. r |-> R[i][1]] \in Seq(Int) /\ Len([i \in 1 .. r |-> R[i][1]]) = r
        /\ [i \in 1 .. r |-> R[i][1]] = Append([i \in 1 .. r - 1 |-> R[i][1]], R[r][1])
    BY <1>4, LabelsGrow
  <2>2. pLabel = [i \in 1 .. r - 1 |-> R[i][1]] /\ pData = FlatTo(Tails(R), r - 1)
        /\ OneLabelEach(R, r - 1)
    BY <1>11 DEF Gathered
  <2>3. pLabel' = [i \in 1 .. r |-> R[i][1]] /\ pData' = FlatTo(Tails(R), r - 1)
    BY <2>1, <2>2, <1>1, <1>8
  <2> QED
    BY <2>1, <2>2, <2>3
<1>12. ASSUME 1 < k PROVE Filling(R, at)'
  <2>1. Place(R, at, r, 1, pos)'
    BY <1>1, <1>8, <1>12, FileKept
  <2>2. Partly(R, r, 1)' \/ Behind(R, r)'
    <3>1. CASE Behind(R, r - 1)
      BY <3>1, <1>10
    <3>2. CASE Gathered(R, r - 1)
      <4>1. FlatTo(Tails(R), r - 1) = FlatTo(Tails(R), r - 1) \o SubSeq(R[r], 2, 1)
        BY <1>4, DataGrow DEF DataGrows
      <4> QED
        BY <4>1, <1>11, <3>2 DEF Partly
    <3> QED
      BY <3>1, <3>2, <1>3
  <2> QED
    BY <2>1, <2>2, <1>1, <1>3 DEF Filling
<1>13. ASSUME 1 = k PROVE Filling(R, at)'
  <2>1. ~Labelled(R)
    <3>1. r \in DOMAIN R /\ ~(Len(R[r]) >= 2)
      <4>1. DOMAIN R = 1 .. Len(R)
        BY LenProperties DEF Layout
      <4>2. Len(R[r]) = 1 /\ ~(1 >= 2)
        BY <1>6, <1>13
      <4> QED
        BY <4>1, <4>2, <1>4
    <3> QED
      BY <3>1 DEF Labelled
  <2>2. CASE ~ReadReturns(pos')
    <3>1. ~ReadReturns(pos)'
      BY <2>2, <1>1, FileKept
    <3> QED
      BY <3>1, <2>1 DEF Filling
  <2>3. CASE RowEnd(R, at, r, pos') /\ ReadReturns(pos')
    <3>1. PICK p : p = pos'
      OBVIOUS
    <3>2. RowEnd(R, at, r, p) /\ ReadReturns(p)
      BY <2>3, <3>1
    <3>3. ~AllRead(R, at, r) /\ r + 1 \in 1 .. Len(R) /\ Place(R, at, r + 1, 0, p)
      BY <3>2, RowJoined
    <3>4. r # mNumFeatures
      BY <3>3, <1>2, <1>3, <1>4, RowsInside
    <3>5. r + 1 <= mNumFeatures
      BY <3>4, <1>3, <1>7
    <3>6. Place(R, at, r + 1, 0, pos)'
      BY <3>1, <3>3, <1>1, FileKept
    <3>7. Behind(R, r + 1)'
      <4>1. pLabel' \in Seq(Int) /\ Len(pLabel') < r + 1
        <5>1. CASE Gathered(R, r - 1)
          BY <5>1, <1>7, <1>11
        <5>2. CASE Behind(R, r - 1)
          <6>1. pLabel' \in Seq(Int) /\ Len(pLabel') < r
            BY <5>2, <1>10 DEF Behind
          <6>2. Len(pLabel') \in Nat
            BY <6>1, LenProperties
          <6> QED
            BY <6>1, <6>2, <1>7
        <5> QED
          BY <5>1, <5>2, <1>3
      <4> QED
        BY <4>1, <2>1 DEF Behind
    <3> QED
      BY <3>5, <3>6, <3>7, <1>1 DEF Filling
  <2> QED
    BY <2>2, <2>3, <1>8, <1>13
<1>14. Filling(R, at)'
  <2>1. 1 < k \/ 1 = k
    OBVIOUS
  <2> QED
    BY <2>1, <1>12, <1>13
<1>15. Counted(R, at)'
  BY <1>1, <1>2, CountedKept
<1> QED
  BY <1>1, <1>2, <1>14, <1>15 DEF Reading, FirstPass, SecondPass

(* One feature of a row. *)
LEMMA DatumRead ==
    ASSUME NEW R, NEW at, Layout(file, R, at), Reading(R, at), ReadDatum
    PROVE  Reading(R, at)'
<1>1. /\ pc = "data" /\ ReadReturns(pos) /\ pos' = AfterFloat(pos)
      /\ pData' = Append(pData, ReadFloat(pos))
      /\ pc' = "crash" \/ pc' = IF Peek(pos') = NEWLINE THEN "dataRow" ELSE "data"
      /\ UNCHANGED <<file, mNumFloats, mNumFeatures, pLabel, dataCap>>
  BY DEF ReadDatum, Written
<1>2. /\ Counted(R, at) /\ Filling(R, at)
      /\ dataCap = UInt((mNumFloats \div mNumFeatures - 1) * mNumFeatures)
  BY <1>1 DEF Reading, SecondPass
<1>3. PICK r, j : /\ r <= mNumFeatures /\ Place(R, at, r, j, pos)
                  /\ Partly(R, r, j) \/ Behind(R, r)
  BY <1>1, <1>2 DEF Filling
<1>4. r \in 1 .. Len(R) /\ mNumFeatures \in 1 .. Len(R) /\ j \in 0 .. Len(R[r]) - 1
  BY <1>2, <1>3 DEF Place, Counted
<1>5. Len(R) \in Nat /\ Len(R[r]) \in Nat \ {0}
  BY <1>4, RowPositions
<1>6. PICK k \in Nat \ {0} : k = Len(R[r])
  BY <1>5
<1>7. r \in Nat \ {0} /\ mNumFeatures \in Nat /\ j \in 0 .. k - 1
  BY <1>4, <1>5, <1>6
<1>8. /\ pos' = at[r][j + 1] + 1 /\ ReadFloat(pos) = R[r][j + 1]
      /\ j + 1 < k => Peek(pos') # NEWLINE /\ Place(R, at, r, j + 1, pos')
      /\ j + 1 = k => \/ Peek(pos') = NEWLINE /\ RowEnd(R, at, r, pos')
                      \/ at[r][k] = Len(file)
  BY <1>1, <1>3, <1>6, FieldRead
<1>9. Len(file) \in Nat /\ at[r][k] + 1 <= Len(file)
  BY <1>2, <1>3, <1>4, <1>6, RowsInside, RowPositions
<1>10. Behind(R, r) => Behind(R, r)'
  BY <1>1 DEF Behind
<1>11. ASSUME Partly(R, r, j)
       PROVE  /\ pLabel' = [i \in 1 .. r |-> R[i][1]] /\ j >= 1 /\ OneLabelEach(R, r - 1)
              /\ pData' = FlatTo(Tails(R), r - 1) \o SubSeq(R[r], 2, j + 1)
  <2>1. j \in 1 .. Len(R[r]) - 1
    BY <1>4, <1>5, <1>11 DEF Partly
  <2>2. Append(FlatTo(Tails(R), r - 1) \o SubSeq(R[r], 2, j), R[r][j + 1])
            = FlatTo(Tails(R), r - 1) \o SubSeq(R[r], 2, j + 1)
    <3>0. DataGrows(R, r)
      BY <1>4, DataGrow
    <3>1. \A x \in 1 .. Len(R[r]) - 1 :
              Append(FlatTo(Tails(R), r - 1) \o SubSeq(R[r], 2, x), R[r][x + 1])
                  = FlatTo(Tails(R), r - 1) \o SubSeq(R[r], 2, x + 1)
      BY <3>0 DEF DataGrows
    <3> QED
      BY <2>1, <3>1
  <2>3. /\ pLabel = [i \in 1 .. r |-> R[i][1]] /\ j >= 1 /\ OneLabelEach(R, r - 1)
        /\ pData = FlatTo(Tails(R), r - 1) \o SubSeq(R[r], 2, j)
    BY <1>11 DEF Partly
  <2> QED
    BY <2>2, <2>3, <1>1, <1>8
<1>12. CASE j + 1 < k
  <2>1. pc' \in {"data", "crash"} /\ Place(R, at, r, j + 1, pos)'
    BY <1>1, <1>8, <1>12, FileKept
  <2>2. Partly(R, r, j + 1)' \/ Behind(R, r)'
    <3>1. CASE Partly(R, r, j)
      <4>1. j + 1 >= 1
        BY <1>7
      <4> QED
        BY <4>1, <3>1, <1>11 DEF Partly
    <3> QED
      BY <3>1, <1>3, <1>10
  <2>3. Filling(R, at)'
    BY <2>1, <2>2, <1>1, <1>3 DEF Filling
  <2>4. Counted(R, at)'
    BY <1>1, <1>2, CountedKept
  <2> QED
    BY <2>1, <2>3, <2>4, <1>1, <1>2 DEF Reading, FirstPass, SecondPass
<1>13. CASE j + 1 = k
  <2>1. Peek(pos') = NEWLINE /\ RowEnd(R, at, r, pos')
    BY <1>8, <1>9, <1>13
  <2>2. pc' \in {"dataRow", "crash"} /\ RowEnd(R, at, r, pos)'
    BY <2>1, <1>1, FileKept
  <2>3. Gathered(R, r)' \/ Behind(R, r)'
    <3>1. CASE Partly(R, r, j)
      <4>1. FlatTo(Tails(R), r - 1) \o SubSeq(R[r], 2, Len(R[r])) = FlatTo(Tails(R), r)
        BY <1>4, DataGrow DEF DataGrows
      <4>2. OneLabelEach(R, r)
        <5>1. OneLabelEach(R, r - 1)
          BY <3>1, <1>11
        <5>2. PICK x \in Nat, y \in Nat : x = Len(FlatTo(R, r - 1)) /\ y = Len(FlatTo(Tails(R), r - 1))
          BY <1>4, RowAdds
        <5>3. /\ Len(FlatTo(R, r)) = x + k /\ Len(FlatTo(Tails(R), r)) = y + (k - 1)
              /\ y + (r - 1) = x
          BY <5>1, <5>2, <1>4, <1>6, RowAdds DEF OneLabelEach
        <5> QED
          BY <5>3, <1>7 DEF OneLabelEach
      <4> QED
        BY <4>1, <4>2, <3>1, <1>6, <1>11, <1>13 DEF Gathered
    <3> QED
      BY <3>1, <1>3, <1>10
  <2>4. RowFilled(R, at)'
    BY <2>2, <2>3, <1>1, <1>3 DEF RowFilled
  <2>5. Counted(R, at)'
    BY <1>1, <1>2, CountedKept
  <2> QED
    BY <2>2, <2>4, <2>5, <1>1, <1>2 DEF Reading, FirstPass, SecondPass
<1> QED
  BY <1>7, <1>12, <1>13

(* The end of a row of the second pass. *)
LEMMA RowIsFilled ==
    ASSUME NEW R, NEW at, Layout(file, R, at), Reading(R, at), DataRow
    PROVE  Reading(R, at)'
<1>1. /\ pc = "dataRow" /\ pos' = SkipBlanks(pos)
      /\ pc' = IF Peek(pos') = EOF THEN "assert" ELSE "label"
      /\ UNCHANGED <<file, mNumFloats, mNumFeatures, pData, pLabel, dataCap>>
  BY DEF DataRow
<1>2. /\ Counted(R, at) /\ RowFilled(R, at)
      /\ dataCap = UInt((mNumFloats \div mNumFeatures - 1) * mNumFeatures)
  BY <1>1 DEF Reading, SecondPass
<1>3. PICK r : /\ r <= mNumFeatures /\ RowEnd(R, at, r, pos)
               /\ Gathered(R, r) \/ Behind(R, r)
  BY <1>2 DEF RowFilled
<1>4. r \in 1 .. Len(R) /\ mNumFeatures \in 1 .. Len(R) /\ Len(R) \in Nat
  BY <1>2, <1>3, RowPositions DEF RowEnd, Counted
<1>5. AllRead(R, at, r) <=> r = mNumFeatures
  BY <1>2, <1>3, <1>4, RowsInside
<1>6. Counted(R, at)'
  BY <1>1, <1>2, CountedKept
<1>7. Gathered(R, r)' \/ Behind(R, r)'
  BY <1>1, <1>3 DEF Gathered, Behind
<1>8. CASE Peek(pos') = EOF
  <2>1. pc' = "assert" /\ r = mNumFeatures'
    BY <1>1, <1>3, <1>5, <1>8, RowSkipped
  <2>2. Gathered(R, mNumFeatures)' \/ Behind(R, mNumFeatures)'
    BY <2>1, <1>7 DEF Gathered, Behind
  <2> QED
    BY <2>1, <2>2, <1>1, <1>2, <1>6 DEF Reading, FirstPass, SecondPass
<1>9. CASE Peek(pos') # EOF
  <2>1. pc' = "label" /\ r # mNumFeatures /\ Place(R, at, r + 1, 0, pos')
    BY <1>1, <1>3, <1>5, <1>9, RowSkipped
  <2>2. PICK q : q = r + 1
    OBVIOUS
  <2>3. q - 1 = r /\ q <= mNumFeatures'
    BY <2>1, <2>2, <1>1, <1>3, <1>4
  <2>4. Place(R, at, q, 0, pos)'
    BY <2>1, <2>2, <1>1, FileKept
  <2>5. Gathered(R, q - 1)' \/ Behind(R, q - 1)'
    BY <2>3, <1>7
  <2>6. Labelling(R, at)'
    BY <2>3, <2>4, <2>5 DEF Labelling
  <2> QED
    BY <2>1, <2>6, <1>1, <1>2, <1>6 DEF Reading, FirstPass, SecondPass
<1> QED
  BY <1>8, <1>9

(* The assertions: equally many labels and rows. *)
LEMMA CountsChecked ==
    ASSUME NEW R, NEW at, Layout(file, R, at), Bounded(R), Reading(R, at), CheckCounts
    PROVE  Reading(R, at)'
<1>1. /\ pc = "assert" /\ pc' = IF CountsAgree THEN "loaded" ELSE "abort"
      /\ UNCHANGED <<file, mNumFloats, mNumFeatures, pData, pLabel, dataCap>>
  BY DEF CheckCounts
<1>2. /\ Counted(R, at) /\ (Gathered(R, mNumFeatures) \/ Behind(R, mNumFeatures))
      /\ dataCap = UInt((mNumFloats \div mNumFeatures - 1) * mNumFeatures)
  BY <1>1 DEF Reading, SecondPass
<1>3. Counted(R, at)'
  BY <1>1, <1>2, CountedKept
<1>4. CASE CountsAgree
  <2>1. /\ mNumFeatures \in 0 .. Len(R) /\ mNumFeatures \in Nat /\ CountedTo(R, mNumFeatures, 0)
        /\ mNumFeatures < UIntMod
    <3>1. mNumFeatures \in 1 .. Len(R) /\ Len(R) \in Nat /\ CountedTo(R, mNumFeatures, 0)
      BY <1>2, LenProperties DEF Counted, Layout
    <3>2. mNumFeatures \in 0 .. Len(R) /\ mNumFeatures \in Nat
      BY <3>1
    <3>3. mNumFeatures <= Len(FlatTo(R, mNumFeatures)) /\ Len(FlatTo(R, mNumFeatures)) \in Nat
          /\ Len(FlatTo(R, mNumFeatures)) < UIntMod
      BY <3>1, <3>2 DEF CountedTo, Bounded
    <3> QED
      BY <3>1, <3>2, <3>3, UIntAssumption
  <2>2. Gathered(R, mNumFeatures)
    <3> SUFFICES ASSUME Behind(R, mNumFeatures) PROVE FALSE
      BY <1>2
    <3>1. pLabel \in Seq(Int) /\ Len(pLabel) \in Nat /\ Len(pLabel) < mNumFeatures
      BY LenProperties DEF Behind
    <3>2. Len(pLabel) < UIntMod
      BY <3>1, <2>1, UIntAssumption
    <3>3. Len(pLabel) = mNumFeatures
      BY <3>1, <3>2, <1>4, StoredIs DEF CountsAgree
    <3> QED
      BY <3>1, <3>3, <2>1
  <2>3. Len(pData) + mNumFeatures = mNumFloats
    <3>1. mNumFloats = Len(FlatTo(R, mNumFeatures)) + 0 /\ Len(FlatTo(R, mNumFeatures)) \in Nat
      BY <2>1 DEF CountedTo, Bounded
    <3> QED
      BY <3>1, <2>2 DEF Gathered, OneLabelEach
  <2>4. Gathered(R, mNumFeatures)' /\ Len(pData)' + mNumFeatures' = mNumFloats' /\ pc' = "loaded"
    BY <2>2, <2>3, <1>1, <1>4 DEF Gathered
  <2> QED
    BY <2>4, <1>1, <1>2, <1>3 DEF Reading, FirstPass, SecondPass
<1>5. CASE ~CountsAgree
  BY <1>1, <1>5 DEF Reading, FirstPass, SecondPass
<1> QED
  BY <1>4, <1>5

-----------------------------------------------------------------------------
(* The invariant of the pipeline. *)

(* What main has after a load: some first rows of the raw file, in arrays   *)
(* allocated from the two counts.                                           *)
LoadResult == [data : Seq(Int), label : Seq(Int), cap : Int, featureLen : Nat,
               count : Nat \ {0}, numFloats : Nat]
Delivered(d, rows) ==
    /\ d \in LoadResult /\ rows \in Seq(Seq(Int)) /\ d.count \in 1 .. Len(rows)
    /\ HoldsRows(d, SubSeq(rows, 1, d.count))
    /\ d.featureLen = FeatureLen
    /\ d.cap = UInt((d.numFloats \div d.count - 1) * d.count)
    /\ d.numFloats < UIntMod

Stats == [data |-> Stored(pData), label |-> Stored(pLabel), cap |-> dataCap, featureLen |-> mFeatureLen,
          count |-> mNumFeatures, numFloats |-> mNumFloats]

(* A load that ends delivers rows of the file. *)
LEMMA LoadDelivers ==
    ASSUME NEW R, NEW at, FileOf(file, R, at), Countable(Rows), Reading(R, at), pc = "loaded",
           mFeatureLen = FeatureLen
    PROVE  /\ Delivered(Stats, Rows)
           /\ ~cut => mNumFeatures = Len(Rows)
<1>1. /\ Layout(file, R, at) /\ Rows \in Seq(Seq(Int)) /\ Len(R) <= Len(Rows)
      /\ R = SubSeq(Rows, 1, Len(R))
      /\ ~cut => Len(R) = Len(Rows) /\ Complete(file, R, at)
  BY DEF FileOf
<1>2. /\ Counted(R, at) /\ Gathered(R, mNumFeatures) /\ Len(pData) + mNumFeatures = mNumFloats
      /\ dataCap = UInt((mNumFloats \div mNumFeatures - 1) * mNumFeatures)
  BY DEF Reading, SecondPass
<1>3. PICK m \in Nat : m = Len(R)
  BY <1>1, TailsAre
<1>4. PICK n : n = mNumFeatures
  OBVIOUS
<1>5. PICK w \in Nat : w = Len(Rows)
  BY <1>1, LenProperties
<1>6. n \in 1 .. m /\ n \in Nat \ {0} /\ m <= w /\ n \in 1 .. w /\ n \in 0 .. w /\ m \in 0 .. w
  <2>1. n \in 1 .. m /\ m <= w
    BY <1>1, <1>2, <1>3, <1>4, <1>5 DEF Counted
  <2> QED
    BY <2>1
<1>7. PICK S : S = SubSeq(Rows, 1, n)
  OBVIOUS
<1>8. /\ S \in Seq(Seq(Int)) /\ Len(S) = n /\ DOMAIN S = 1 .. n
      /\ \A i \in 1 .. n : S[i] = R[i]
  <2>1. S \in Seq(Seq(Int)) /\ Len(S) = n /\ \A i \in 1 .. n : S[i] = Rows[i]
    BY <1>1, <1>5, <1>6, <1>7, PrefixTaken
  <2>2. \A i \in 1 .. m : R[i] = Rows[i]
    <3>1. \A i \in 1 .. m : SubSeq(Rows, 1, m)[i] = Rows[i]
      BY <1>1, <1>5, <1>6, PrefixTaken
    <3> QED
      BY <3>1, <1>1, <1>3
  <2>3. \A i \in 1 .. n : i \in 1 .. m
    BY <1>6
  <2> QED
    BY <2>1, <2>2, <2>3, LenProperties
<1>9. pLabel = [i \in DOMAIN S |-> S[i][1]]
  BY <1>2, <1>4, <1>8 DEF Gathered
<1>10. pData = FlattenSeq([i \in DOMAIN S |-> Tail(S[i])])
  <2>1. pData = FlattenSeq([i \in 1 .. n |-> Tails(R)[i]])
    BY <1>2, <1>4 DEF Gathered, FlatTo
  <2>2. \A i \in 1 .. n : Tails(R)[i] = Tail(S[i])
    BY <1>3, <1>6, <1>8 DEF Tails
  <2>3. [i \in 1 .. n |-> Tails(R)[i]] = [i \in DOMAIN S |-> Tail(S[i])]
    BY <2>2, <1>8
  <2> QED
    BY <2>1, <2>3
<1>11. pLabel \in Seq(Int) /\ pData \in Seq(Int)
  <2>1. pLabel = [i \in 1 .. n |-> R[i][1]] /\ pData = FlatTo(Tails(R), n)
    BY <1>2, <1>4 DEF Gathered
  <2>2. \A i \in 1 .. n : R[i][1] \in Int
    BY <1>1, <1>3, <1>6, TailsAre
  <2>3. FlatTo(Tails(R), n) \in Seq(Int)
    BY <1>1, <1>3, <1>6, TailsAre
  <2>4. pLabel \in Seq(Int)
    BY <2>1, <2>2, <1>6
  <2> QED
    BY <2>1, <2>3, <2>4
<1>12. /\ mNumFloats \in Nat /\ mNumFloats = Len(pData) + n /\ dataCap \in Int
       /\ mNumFloats < UIntMod /\ Stored(pData) = pData /\ Stored(pLabel) = pLabel
  <2>1. Len(pData) \in Nat
    BY <1>11, LenProperties
  <2>2. mNumFloats \in Nat /\ mNumFloats = Len(pData) + n
    BY <2>1, <1>2, <1>4, <1>6
  <2>3. mNumFloats \div n \in Int
    BY <2>2, <1>6
  <2>4. (mNumFloats \div n - 1) * n \in Int
    BY <2>3, <1>6
  <2>5. dataCap \in Int
    BY <2>4, <1>2, <1>4, UIntAssumption DEF UInt
  <2>6. n \in 0 .. Len(R) /\ Bounded(R) /\ CountedTo(R, n, 0)
    BY <1>2, <1>3, <1>4, <1>6, CountsBounded DEF Counted
  <2>7. mNumFloats < UIntMod
    BY <2>6 DEF Bounded, CountedTo
  <2>8. Len(pData) < UIntMod /\ Len(pLabel) < UIntMod
    <3>1. Len(pLabel) = n
      BY <1>2, <1>4, <1>6 DEF Gathered
    <3> QED
      BY <3>1, <2>1, <2>2, <2>7, <1>6, UIntAssumption
  <2> QED
    BY <2>2, <2>5, <2>7, <2>8, <1>11, StoredIs
<1>13. FeatureLen \in Nat
  BY LoaderAssumption
<1>14. /\ Stats.data = pData /\ Stats.label = pLabel /\ Stats.cap = dataCap
       /\ Stats.featureLen = mFeatureLen /\ Stats.count = n /\ Stats.numFloats = mNumFloats
  BY <1>4, <1>12 DEF Stats
<1>15. Stats \in LoadResult
  BY <1>4, <1>6, <1>11, <1>12, <1>13 DEF Stats, LoadResult
<1>16. HoldsRows(Stats, S)
  BY <1>8, <1>9, <1>10, <1>12, <1>14 DEF HoldsRows
<1>17. Delivered(Stats, Rows)
  BY <1>1, <1>2, <1>4, <1>5, <1>6, <1>7, <1>12, <1>14, <1>15, <1>16 DEF Delivered
<1>18. ASSUME ~cut PROVE n = Len(Rows)
  <2> SUFFICES ASSUME n # m PROVE FALSE
    BY <1>1, <1>3, <1>18
  <2>1. n \in 1 .. Len(R) /\ m \in 1 .. Len(R) /\ n < m
    BY <1>3, <1>6
  <2>2. FirstIn(R, at, m)
    <3> SUFFICES ASSUME NEW r \in 1 .. Len(R) PROVE at[r][1] <= Len(file)
      BY DEF FirstIn
    <3>1. 1 \in 0 .. Len(R[r]) /\ Len(file) \in Nat /\ at[r][1] \in Nat
      <4>1. Len(R[r]) \in Nat \ {0} /\ Len(file) \in Nat
        BY <1>1, RowPositions
      <4>2. 1 \in 0 .. Len(R[r])
        BY <4>1
      <4> QED
        BY <1>1, <4>1, <4>2, RowPositions
    <3>2. at[r][1] + 1 <= Len(file)
      BY <3>1, <1>1, <1>18 DEF Complete
    <3> QED
      BY <3>1, <3>2
  <2>3. ~AllRead(R, at, n)
    BY <2>1, <2>2, <1>1, NotAllRead
  <2> QED
    BY <2>3, <1>2, <1>4 DEF Counted
<1> QED
  BY <1>4, <1>17, <1>18

-----------------------------------------------------------------------------
(* The inductive invariant of the pipeline. *)
PipelineInv == ScriptInv /\ LoadInv /\ (\E S : loaded \in Seq(S)) /\ LoadedIsFaithful

(* What was loaded before stays as it is. *)
LEMMA LoadedGrows ==
    ASSUME NEW l, \E S : l \in Seq(S), NEW d
    PROVE  /\ \E S : Append(l, d) \in Seq(S)
           /\ Len(l) \in Nat /\ Len(Append(l, d)) = Len(l) + 1 /\ Last(Append(l, d)) = d
           /\ \A i \in 1 .. Len(l) : Append(l, d)[i] = l[i]
           /\ Append(l, d)[Len(l) + 1] = d
<1>1. PICK S : l \in Seq(S)
  OBVIOUS
<1>2. PICK T : T = S \cup {d}
  OBVIOUS
<1>3. l \in Seq(T) /\ d \in T /\ Len(l) \in Nat
  <2>1. Len(l) \in Nat /\ l \in [1 .. Len(l) -> S]
    BY <1>1
  <2>2. l \in [1 .. Len(l) -> T]
    BY <2>1, <1>2
  <2> QED
    BY <2>1, <2>2, <1>2
<1>4. /\ Append(l, d) \in Seq(T) /\ Len(Append(l, d)) = Len(l) + 1
      /\ \A i \in 1 .. Len(l) : Append(l, d)[i] = l[i]
      /\ Append(l, d)[Len(l) + 1] = d
  BY <1>3, AppendProperties
<1> QED
  BY <1>3, <1>4 DEF Last

(* The invariant holds before the first script runs. *)
LEMMA PipelineInits == ASSUME Init PROVE PipelineInv
<1>1. loaded = <<>> /\ loaded \in Seq({})
  BY DEF Init, LoaderInit
<1> QED
  BY <1>1 DEF Init, LoaderInit, PipelineInv, ScriptInv, LoadInv, FirstPass, SecondPass, LoadedIsFaithful

(* main opens what the script left. *)
LEMMA LoadOpens == ASSUME PipelineInv, Load PROVE LoadInv' /\ ScriptInv'
<1>1. /\ script = "ended" /\ script' = "none" /\ pc = "idle" /\ file' = out /\ pos' = 1
      /\ mFeatureLen' = FeatureLen /\ mNumFloats' = 0 /\ mNumFeatures' = 0
      /\ pData' = <<>> /\ pLabel' = <<>>
      /\ pc' = IF out = <<>> THEN "allocate" ELSE "count"
      /\ UNCHANGED <<raw, cut>>
  BY DEF Load, Open
<1>2. PICK R, at : FileOf(out, R, at)
  BY <1>1 DEF PipelineInv, ScriptInv
<1>3. FileOf(file, R, at)'
  BY <1>1, <1>2, RowsKept DEF FileOf
<1>4. Layout(out, R, at) /\ Len(R) \in Nat
  BY <1>2, TailsAre DEF FileOf
<1>5. ASSUME Len(R) = 0 PROVE ~ReadReturns(pos)'
  <2>1. ASSUME NEW i \in 1 .. Len(out) PROVE out[i] # COMMA
    <3>1. LastEnd(R, at) < i
      BY <1>5 DEF LastEnd
    <3>2. out[i] \in Blank
      BY <3>1, <1>4 DEF Layout
    <3> QED
      BY <3>2 DEF Blank, COMMA, NEWLINE, SPACE
  <2> QED
    BY <2>1, <1>1 DEF ReadReturns, Comma
<1>6. ASSUME Len(R) # 0 PROVE Place(R, at, 1, 0, pos)'
  <2>1. 1 \in 1 .. Len(R) /\ Len(out) \in Nat
    BY <1>4, <1>6, LenProperties DEF Layout
  <2>2. Len(R[1]) \in Nat \ {0} /\ at[1][0] = 0
    BY <2>1, <1>4 DEF Layout, RowLaid
  <2>3. 0 \in 0 .. Len(R[1]) - 1 /\ 1 <= Len(out) + 1 /\ \A h \in 0 + 1 .. 1 - 1 : FALSE
    BY <2>1, <2>2
  <2> QED
    BY <2>1, <2>2, <2>3, <1>1 DEF Place
<1>7. Counting(R, at)'
  <2>1. CASE Len(R) = 0
    BY <2>1, <1>5 DEF Counting
  <2>2. CASE Len(R) # 0
    <3>1. FirstIn(R, at, 1 - 1)'
      BY DEF FirstIn
    <3>2. CountedTo(R, 1 - 1, 0)'
      <4>1. 1 - 1 = 0 /\ FlatTo(R, 0) = <<>> /\ Len(<<>>) = 0
        BY DEF FlatTo, FlattenSeq
      <4> QED
        BY <4>1, <1>1 DEF CountedTo
    <3>3. mNumFeatures' = 1 - 1 /\ (0 >= 1 => at[1][1] <= Len(file)')
      BY <1>1
    <3> QED
      BY <3>1, <3>2, <3>3, <2>2, <1>6 DEF Counting
  <2> QED
    BY <2>1, <2>2
<1>8. Reading(R, at)'
  BY <1>1, <1>7 DEF Reading, FirstPass, SecondPass
<1>9. LoadInv'
  BY <1>1, <1>3, <1>8 DEF LoadInv
<1>10. ScriptInv'
  BY <1>1 DEF ScriptInv
<1> QED
  BY <1>9, <1>10

(* A step of the loader. *)
LEMMA ReadSteps == ASSUME PipelineInv, Read PROVE PipelineInv'
<1>1. UNCHANGED <<script, raw, lineNo, out, cut>> /\ LoaderStep
  BY DEF Read, scriptVars
<1>2. pc \in FirstPass \cup SecondPass /\ UNCHANGED <<file, mFeatureLen>>
  BY <1>1 DEF LoaderStep, CountFloat, CountRow, Allocate, ReadLabel, ReadDatum, DataRow, CheckCounts,
              Hang, ReturnStats, FirstPass, SecondPass
<1>3. script = "none" /\ mFeatureLen = FeatureLen /\ \E S : loaded \in Seq(S)
  BY <1>2 DEF PipelineInv, LoadInv
<1>4. Countable(Rows) => \E R, at : FileOf(file, R, at) /\ Reading(R, at)
  BY <1>2 DEF PipelineInv, LoadInv
<1>5. Rows' = Rows /\ (Countable(Rows)' <=> Countable(Rows))
  BY <1>1, RowsKept DEF Countable
<1>6. ScriptInv'
  BY <1>1, <1>3 DEF ScriptInv
<1>7. CASE Hang
  <2>1. pc' = "hang" /\ UNCHANGED loaded
    BY <1>7 DEF Hang
  <2> QED
    BY <2>1, <1>3, <1>6 DEF PipelineInv, LoadInv, FirstPass, SecondPass, LoadedIsFaithful
<1>8. CASE ReturnStats
  <2>1. pc = "loaded" /\ pc' = "idle" /\ loaded' = Append(loaded, Stats)
    BY <1>8 DEF ReturnStats, Stats
  <2>2. Countable(Rows) => Delivered(Stats, Rows) /\ (~cut => mNumFeatures = Len(Rows))
    BY <2>1, <1>3, <1>4, LoadDelivers
  <2>3. Stats.count = mNumFeatures
    BY DEF Stats
  <2>4. (\E S : loaded' \in Seq(S)) /\ Last(loaded') = Stats
    BY <2>1, <1>3, LoadedGrows
  <2>5. Rows' = Rows
    BY <1>5
  <2>6. LoadedIsFaithful'
    <3>1. Countable(Rows) =>
             /\ Stats.count <= Len(Rows) /\ HoldsRows(Stats, SubSeq(Rows, 1, Stats.count))
             /\ ~cut => Stats.count = Len(Rows)
      BY <2>2, <2>3, LenProperties DEF Delivered
    <3>2. LoadedIsFaithful' <=>
             ((pc' = "idle" /\ loaded' # <<>> /\ script' = "none" /\ Countable(Rows)') =>
                 /\ Last(loaded').count <= Len(Rows')
                 /\ HoldsRows(Last(loaded'), SubSeq(Rows', 1, Last(loaded').count))
                 /\ ~cut' => Last(loaded').count = Len(Rows'))
      BY DEF LoadedIsFaithful
    <3> QED
      BY <3>1, <3>2, <2>4, <2>5, <1>1, <1>5
  <2> QED
    BY <2>1, <2>4, <2>6, <1>6 DEF PipelineInv, LoadInv, FirstPass, SecondPass
<1>9. CASE CountFloat \/ CountRow \/ Allocate \/ ReadLabel \/ ReadDatum \/ DataRow \/ CheckCounts
  <2>1. UNCHANGED loaded /\ pc' # "idle"
    BY <1>9 DEF CountFloat, CountRow, Allocate, ReadLabel, ReadDatum, DataRow, CheckCounts, Written
  <2>2. ASSUME Countable(Rows) PROVE \E R, at : FileOf(file, R, at)' /\ Reading(R, at)'
    <3>1. PICK R, at : FileOf(file, R, at) /\ Reading(R, at)
      BY <2>2, <1>4
    <3>2. Layout(file, R, at) /\ FileOf(file, R, at)' /\ Bounded(R)
      BY <3>1, <2>2, <1>1, <1>2, FileKept, CountsBounded DEF FileOf
    <3>3. Reading(R, at)'
      BY <3>1, <3>2, <1>9, FloatCounted, RowIsCounted, IsAllocated, LabelRead, DatumRead, RowIsFilled,
         CountsChecked
    <3> QED
      BY <3>2, <3>3
  <2>3. LoadInv'
    BY <2>2, <1>1, <1>2, <1>3, <1>5 DEF LoadInv
  <2> QED
    BY <2>1, <2>3, <1>3, <1>6 DEF PipelineInv, LoadedIsFaithful
<1> QED
  BY <1>1, <1>7, <1>8, <1>9 DEF LoaderStep

(* Every step of the script, of a crash and of the loader keeps the *)
(* invariant.                                                       *)
LEMMA PipelineSteps == ASSUME PipelineInv, [Next]_vars PROVE PipelineInv'
<1>1. ASSUME NEW r \in RawFiles, StartScript(r) PROVE PipelineInv'
  <2>1. ScriptInv'
    BY <1>1, ScriptStarts
  <2>2. pc' = "idle" /\ UNCHANGED loaded /\ script' = "running"
    BY <1>1 DEF StartScript, loaderVars
  <2> QED
    BY <2>1, <2>2 DEF PipelineInv, LoadInv, FirstPass, SecondPass, LoadedIsFaithful
<1>2. CASE ParseLine \/ EndScript \/ Killed
  <2>1. ScriptInv'
    BY <1>2, ScriptParses, ScriptEnds DEF PipelineInv
  <2>2. pc = "idle" /\ UNCHANGED <<pc, loaded>> /\ script' # "none"
    BY <1>2 DEF ParseLine, EndScript, Killed, loaderVars, PipelineInv, ScriptInv
  <2> QED
    BY <2>1, <2>2 DEF PipelineInv, LoadInv, FirstPass, SecondPass, LoadedIsFaithful
<1>3. CASE Load
  <2>1. pc' # "idle" /\ UNCHANGED loaded
    BY <1>3 DEF Load, Open
  <2> QED
    BY <2>1, <1>3, LoadOpens DEF PipelineInv, LoadedIsFaithful
<1>4. CASE LoadMissing
  <2>1. pc' = "crash" /\ script' = "none" /\ UNCHANGED loaded
    BY <1>4 DEF LoadMissing, OpenMissing, scriptVars
  <2> QED
    BY <2>1 DEF PipelineInv, ScriptInv, LoadInv, FirstPass, SecondPass, LoadedIsFaithful
<1>5. CASE Read
  BY <1>5, ReadSteps
<1>6. CASE UNCHANGED vars
  <2>1. UNCHANGED <<script, raw, lineNo, out, cut>> /\ UNCHANGED <<pc, file, pos, mNumFloats, mNumFeatures,
            mFeatureLen, pData, pLabel, dataCap, loaded>>
    BY <1>6 DEF vars, scriptVars, loaderVars
  <2>2. ScriptInv'
    <3>1. \A R, at : FileOf(out, R, at) => FileOf(out, R, at)'
      BY <2>1, RowsKept DEF FileOf
    <3>2. RowsUpTo(lineNo)' = RowsUpTo(lineNo) /\ (LinesRead(lineNo)' <=> LinesRead(lineNo))
      BY <2>1 DEF RowsUpTo, LinesRead
    <3> QED
      BY <2>1, <3>1, <3>2 DEF PipelineInv, ScriptInv
  <2>3. LoadInv'
    <3>1. ASSUME NEW R, NEW at, FileOf(file, R, at) /\ Reading(R, at) PROVE FileOf(file, R, at)' /\ Reading(R, at)'
      <4>1. FileOf(file, R, at)'
        BY <2>1, <3>1, FileKept
      <4>2. Reading(R, at)'
        <5>1. /\ \A r, j : Place(R, at, r, j, pos)' <=> Place(R, at, r, j, pos)
              /\ \A r : RowEnd(R, at, r, pos)' <=> RowEnd(R, at, r, pos)
              /\ ReadReturns(pos)' <=> ReadReturns(pos)
          BY <2>1 DEF Place, RowEnd, ReadReturns, Comma
        <5>2. /\ \A n : FirstIn(R, at, n)' <=> FirstIn(R, at, n)
              /\ \A k, j : CountedTo(R, k, j)' <=> CountedTo(R, k, j)
          BY <2>1 DEF FirstIn, CountedTo
        <5>3. /\ \A k : Gathered(R, k)' <=> Gathered(R, k)
              /\ \A k : Behind(R, k)' <=> Behind(R, k)
              /\ \A r, j : Partly(R, r, j)' <=> Partly(R, r, j)
          BY <2>1 DEF Gathered, Behind, Partly
        <5>4. (Counting(R, at) => Counting(R, at)') /\ (RowCounted(R, at) => RowCounted(R, at)')
          BY <2>1, <5>1, <5>2 DEF Counting, RowCounted
        <5>5. Counted(R, at) => Counted(R, at)'
          BY <2>1, CountedKept
        <5>6. (Labelling(R, at) => Labelling(R, at)') /\ (RowFilled(R, at) => RowFilled(R, at)')
          BY <2>1, <5>1, <5>3 DEF Labelling, RowFilled
        <5>7. Filling(R, at) => Filling(R, at)'
          BY <2>1, <5>1, <5>3 DEF Filling
        <5>8. /\ Gathered(R, mNumFeatures) => Gathered(R, mNumFeatures)'
              /\ Behind(R, mNumFeatures) => Behind(R, mNumFeatures)'
          BY <2>1 DEF Gathered, Behind
        <5> QED
          BY <2>1, <3>1, <5>4, <5>5, <5>6, <5>7, <5>8 DEF Reading, FirstPass, SecondPass
      <4> QED
        BY <4>1, <4>2
    <3>2. Countable(Rows)' <=> Countable(Rows)
      BY <2>1, RowsKept DEF Countable
    <3> QED
      BY <2>1, <3>1, <3>2 DEF PipelineInv, LoadInv
  <2>4. LoadedIsFaithful'
    BY <2>1, RowsKept DEF PipelineInv, LoadedIsFaithful, HoldsRows, Last, Countable
  <2> QED
    BY <2>1, <2>2, <2>3, <2>4 DEF PipelineInv
<1> QED
  BY <1>1, <1>2, <1>3, <1>4, <1>5, <1>6 DEF Next, Terminated

(* Whole rows, counted in fields. *)
LEMMA ExactDivision ==
    ASSUME NEW n \in Nat \ {0}, NEW c \in Int
    PROVE  (n * c) \div n = c
<1> DEFINE x == n * c
           d == x \div n
           m == x % n
<1>1. x \in Int /\ d \in Int /\ m \in 0 .. n - 1 /\ x = n * d + m
  OBVIOUS
<1>2. n * (c - d) = m
  BY <1>1
<1> HIDE DEF d, m, x
<1>3. ASSUME c - d > 0 PROVE FALSE
  <2>1. n * (c - d) >= n
    BY <1>1, <1>3
  <2> QED
    BY <2>1, <1>1, <1>2
<1>4. ASSUME c - d < 0 PROVE FALSE
  <2>1. n * (c - d) < 0
    BY <1>1, <1>4
  <2> QED
    BY <2>1, <1>1, <1>2
<1>5. c = d
  BY <1>1, <1>3, <1>4
<1> QED
  BY <1>5 DEF d, x

(* Rows of one length are cut into equal parts of the array. *)
LEMMA UniformFit ==
    ASSUME NEW R, NEW at, Layout(file, R, at), Bounded(R), Reading(R, at), Labelled(R), Uniform(R),
           pc \in SecondPass
    PROVE  /\ Len(pData) <= dataCap /\ Len(pLabel) <= mNumFeatures
           /\ pc = "loaded" => Len(pData) = dataCap
<1>1. PICK M \in Nat : M = Len(R)
  BY TailsAre
<1>2. /\ Counted(R, at) /\ dataCap = UInt((mNumFloats \div mNumFeatures - 1) * mNumFeatures)
  BY DEF Reading
<1>3. PICK n \in 1 .. M : n = mNumFeatures
  BY <1>1, <1>2 DEF Counted
<1>4. DOMAIN R = 1 .. M
  BY <1>1, LenProperties DEF Layout
<1>5. PICK c \in Nat : c + 1 = Len(R[1]) /\ \A i \in 1 .. M : Len(R[i]) = c + 1
  <2>1. 1 \in 1 .. M
    BY <1>3
  <2>2. Len(R[1]) \in Nat \ {0} /\ \A i \in 1 .. M : Len(R[i]) = Len(R[1])
    BY <2>1, <1>1, <1>4, TailsAre DEF Uniform
  <2>3. Len(R[1]) - 1 \in Nat /\ (Len(R[1]) - 1) + 1 = Len(R[1])
    BY <2>2
  <2> QED
    BY <2>2, <2>3
<1>6. c >= 1
  BY <1>3, <1>4, <1>5 DEF Labelled
<1>7. mNumFloats = n * (c + 1)
  <2>1. c + 1 \in Nat /\ Seqs(R, M, Int)
    BY <1>1, TailsAre DEF Seqs
  <2>2. n \in 0 .. M /\ FlatCut(R, n, c + 1)
    BY <2>1, <1>5, FlatUniform
  <2>3. mNumFloats = Len(FlatTo(R, n)) + 0
    BY <1>2, <1>3 DEF Counted, CountedTo
  <2>4. n * (c + 1) \in Int
    OBVIOUS
  <2> QED
    BY <2>2, <2>3, <2>4 DEF FlatCut
<1>8. dataCap = c * n
  <2>0. mNumFloats < UIntMod
    <3>1. n \in 0 .. Len(R) /\ mNumFloats = Len(FlatTo(R, n)) + 0
      BY <1>1, <1>2, <1>3 DEF Counted, CountedTo
    <3> QED
      BY <3>1 DEF Bounded
  <2>1. n \in Nat \ {0} /\ c + 1 \in Int
    OBVIOUS
  <2>2. (n * (c + 1)) \div n = c + 1
    BY <2>1, ExactDivision
  <2>3. dataCap = UInt(((c + 1) - 1) * n)
    BY <2>2, <1>2, <1>3, <1>7
  <2>4. (c + 1) - 1 = c
    OBVIOUS
  <2>5. c * n \in Nat /\ n * (c + 1) = c * n + n
    OBVIOUS
  <2>6. c * n \in 0 .. UIntMod - 1
    BY <2>0, <2>5, <1>7, UIntAssumption
  <2>7. (c * n) % UIntMod = c * n
    BY <2>6, SmallRemainder, UIntAssumption
  <2> QED
    BY <2>3, <2>4, <2>7 DEF UInt
<1>9. \A k \in 0 .. M : Len(FlatTo(Tails(R), k)) = k * c
  <2>1. Seqs(Tails(R), M, Int)
    BY <1>1, TailsAre
  <2>2. ASSUME NEW i \in 1 .. M PROVE Len(Tails(R)[i]) = c
    <3>1. Len(Tails(R)[i]) = Len(R[i]) - 1 /\ Len(R[i]) = c + 1
      BY <1>1, <1>5, TailsAre
    <3> QED
      BY <3>1
  <2>3. \A k \in 0 .. M : FlatCut(Tails(R), k, c)
    BY <2>1, <2>2, FlatUniform
  <2> QED
    BY <2>3 DEF FlatCut
<1>10. ASSUME NEW k \in 0 .. n PROVE k * c <= c * n /\ n * c = c * n
  <2>1. c * n = k * c + (n - k) * c /\ (n - k) * c >= 0
    BY <1>6
  <2>2. k * c \in Int /\ (n - k) * c \in Int /\ n * c = c * n
    OBVIOUS
  <2> QED
    BY <2>1, <2>2
<1>11. ASSUME NEW k \in 0 .. n PROVE Len([i \in 1 .. k |-> R[i][1]]) = k
  OBVIOUS
<1>12. ASSUME NEW k \in 0 .. n, Gathered(R, k)
       PROVE  Len(pData) = k * c /\ Len(pData) <= dataCap /\ Len(pLabel) <= mNumFeatures
  <2>1. k \in 0 .. M /\ k <= n
    OBVIOUS
  <2> QED
    BY <2>1, <1>3, <1>8, <1>9, <1>10, <1>11, <1>12 DEF Gathered
<1>13. ASSUME NEW r, NEW j, Place(R, at, r, j, pos), r <= mNumFeatures, Partly(R, r, j)
       PROVE  Len(pData) <= dataCap /\ Len(pLabel) <= mNumFeatures
  <2>1. r \in 1 .. M /\ j \in 0 .. Len(R[r]) - 1 /\ j >= 1
    BY <1>1, <1>13 DEF Place, Partly
  <2>2. PICK k \in Nat : r = k + 1
    <3>1. r - 1 \in Nat /\ r = (r - 1) + 1
      BY <2>1
    <3> QED
      BY <3>1
  <2>3. k + 1 <= n /\ k \in 0 .. M /\ r - 1 = k /\ r \in 0 .. n /\ k + 1 \in 0 .. n
    BY <2>1, <2>2, <1>3, <1>13
  <2>4. j \in 1 .. c /\ j \in 1 .. Len(R[r]) - 1
    BY <2>1, <1>5
  <2>5. Len(FlatTo(Tails(R), r - 1) \o SubSeq(R[r], 2, j)) = Len(FlatTo(Tails(R), r - 1)) + (j - 1)
    <3>1. \A x \in 1 .. Len(R[r]) - 1 :
              Len(FlatTo(Tails(R), r - 1) \o SubSeq(R[r], 2, x)) = Len(FlatTo(Tails(R), r - 1)) + (x - 1)
      BY <2>1, <1>1, DataGrow DEF DataGrows
    <3> QED
      BY <2>4, <3>1
  <2>6. Len(pData) = k * c + (j - 1)
    BY <2>3, <2>5, <1>9, <1>13 DEF Partly
  <2>7. (k + 1) * c <= c * n /\ (k + 1) * c = k * c + c /\ k * c \in Int /\ c * n \in Int
    BY <2>3, <1>10
  <2>8. Len(pData) <= dataCap
    BY <2>4, <2>6, <2>7, <1>8
  <2>9. Len(pLabel) = r
    BY <2>3, <1>11, <1>13 DEF Partly
  <2> QED
    BY <2>8, <2>9, <1>13
<1>14. \A k : ~Behind(R, k)
  BY DEF Behind
<1>15. CASE pc = "label"
  <2>1. PICK r : r <= mNumFeatures /\ Place(R, at, r, 0, pos) /\ Gathered(R, r - 1)
    BY <1>14, <1>15 DEF Reading, Labelling
  <2>2. r - 1 \in 0 .. n
    BY <2>1, <1>1, <1>3 DEF Place
  <2> QED
    BY <2>1, <2>2, <1>12, <1>15
<1>16. CASE pc = "data"
  <2>1. PICK r, j : r <= mNumFeatures /\ Place(R, at, r, j, pos) /\ Partly(R, r, j)
    BY <1>14, <1>16 DEF Reading, Filling
  <2> QED
    BY <2>1, <1>13, <1>16
<1>17. CASE pc = "dataRow"
  <2>1. PICK r : r <= mNumFeatures /\ RowEnd(R, at, r, pos) /\ Gathered(R, r)
    BY <1>14, <1>17 DEF Reading, RowFilled
  <2>2. r \in 0 .. n
    BY <2>1, <1>1, <1>3 DEF RowEnd
  <2> QED
    BY <2>1, <2>2, <1>12, <1>17
<1>18. CASE pc \in {"assert", "loaded"}
  <2>1. Gathered(R, n) /\ n \in 0 .. n
    BY <1>3, <1>14, <1>18 DEF Reading
  <2>2. Len(pData) = n * c /\ Len(pData) <= dataCap /\ Len(pLabel) <= mNumFeatures
    BY <2>1, <1>12
  <2> QED
    BY <2>1, <2>2, <1>8, <1>10
<1> QED
  BY <1>15, <1>16, <1>17, <1>18 DEF SecondPass

(* Equally long rows fit. *)
LEMMA PipelineFits == ASSUME PipelineInv PROVE UniformRowsFit
<1> SUFFICES ASSUME Uniform(Rows), Labelled(Rows), Countable(Rows), pc \in SecondPass
             PROVE  /\ Len(pData) <= dataCap /\ Len(pLabel) <= mNumFeatures
                    /\ pc = "loaded" => Len(pData) = dataCap
  BY DEF UniformRowsFit, SecondPass
<1>1. PICK R, at : FileOf(file, R, at) /\ Reading(R, at)
  BY DEF PipelineInv, LoadInv
<1>2. /\ Layout(file, R, at) /\ Rows \in Seq(Seq(Int)) /\ Len(R) <= Len(Rows)
      /\ R = SubSeq(Rows, 1, Len(R))
  BY <1>1 DEF FileOf
<1>3. Len(R) \in Nat /\ Len(Rows) \in Nat /\ DOMAIN Rows = 1 .. Len(Rows) /\ DOMAIN R = 1 .. Len(R)
  BY <1>2, LenProperties DEF Layout
<1>4. \A i \in 1 .. Len(R) : i \in 1 .. Len(Rows) /\ R[i] = Rows[i]
  <2>1. Len(R) \in 0 .. Len(Rows)
    BY <1>2, <1>3
  <2>2. \A i \in 1 .. Len(R) : SubSeq(Rows, 1, Len(R))[i] = Rows[i]
    BY <2>1, <1>2, PrefixTaken
  <2> QED
    BY <2>2, <1>2, <1>3
<1>5. Labelled(R) /\ Uniform(R)
  BY <1>3, <1>4 DEF Labelled, Uniform
<1>6. Bounded(R)
  BY <1>1, CountsBounded
<1> QED
  BY <1>1, <1>2, <1>5, <1>6, UniformFit

(* Whatever raw files are converted, as long as their fields can be        *)
(* counted in an unsigned int, what DataLoader leaves to main is the       *)
(* rows of the raw file behind it, in order, labels and data apart; all of *)
(* them unless the script was killed, and then the first of them: the pass *)
(* that counts and the pass that reads stop at the same rows               *)
(* (parse_data.py, DataLoader::RunThroughFile and AllocateData).           *)
THEOREM LoadedFaithful == Spec => []LoadedIsFaithful
<1>1. Init => PipelineInv
  BY PipelineInits
<1>2. PipelineInv /\ [Next]_vars => PipelineInv'
  BY PipelineSteps
<1>3. PipelineInv => LoadedIsFaithful
  BY DEF PipelineInv
<1> QED
  BY <1>1, <1>2, <1>3, PTL DEF Spec

(* When the rows of the raw file have one length and a label each, what *)
(* DataLoader's second pass reads never exceeds the arrays it allocated *)
(* from the counts of the first, and at the end fills them.             *)
THEOREM RowsFit == Spec => []UniformRowsFit
<1>1. Init => PipelineInv
  BY PipelineInits
<1>2. PipelineInv /\ [Next]_vars => PipelineInv'
  BY PipelineSteps
<1>3. PipelineInv => UniformRowsFit
  BY PipelineFits
<1> QED
  BY <1>1, <1>2, <1>3, PTL DEF Spec

-----------------------------------------------------------------------------
(* The whole program: the arrays main trains on and the raw rows behind them. *)

(* What suitable raw files become: an array of count rows of FeatureLen     *)
(* floats, and the labels.                                                  *)
RowsInArrays(d, rows) ==
    /\ Len(d.data) = d.count * FeatureLen /\ d.cap = d.count * FeatureLen
    /\ d.count * FeatureLen < UIntMod
    /\ \A i \in 1 .. d.count : /\ d.label[i] = rows[i][1]
                               /\ \A j \in 1 .. FeatureLen : d.data[(i - 1) * FeatureLen + j] = rows[i][j + 1]

(* The loader makes that of them. *)
LEMMA SuitableDelivered ==
    ASSUME NEW d, NEW rows, Delivered(d, rows), \A i \in DOMAIN rows : Len(rows[i]) = FeatureLen + 1
    PROVE  RowsInArrays(d, rows)
<1>1. PICK n \in Nat \ {0} : n = d.count
  BY DEF Delivered, LoadResult
<1>2. PICK w \in Nat : w = Len(rows)
  BY LenProperties DEF Delivered
<1>3. rows \in Seq(Seq(Int)) /\ DOMAIN rows = 1 .. w /\ n \in 1 .. w /\ n \in 0 .. w
  BY <1>1, <1>2, LenProperties DEF Delivered
<1>4. PICK L \in Nat \ {0} : L = FeatureLen
  BY LoaderAssumption
<1>5. \A i \in 1 .. w : rows[i] \in Seq(Int) /\ Len(rows[i]) = L + 1
  BY <1>2, <1>3, <1>4, ElementOfSeq
<1>6. PICK S : S = SubSeq(rows, 1, n)
  OBVIOUS
<1>7. S \in Seq(Seq(Int)) /\ Len(S) = n /\ DOMAIN S = 1 .. n /\ \A i \in 1 .. n : S[i] = rows[i]
  <2>1. S \in Seq(Seq(Int)) /\ Len(S) = n /\ \A i \in 1 .. n : S[i] = rows[i]
    BY <1>2, <1>3, <1>6, PrefixTaken
  <2> QED
    BY <2>1, LenProperties
<1>8. /\ d.label = [i \in 1 .. n |-> S[i][1]]
      /\ d.data = FlattenSeq([i \in 1 .. n |-> Tail(S[i])])
      /\ d.numFloats = Len(d.data) + n
      /\ d.cap = UInt((d.numFloats \div n - 1) * n) /\ d.numFloats < UIntMod
  BY <1>1, <1>6, <1>7 DEF Delivered, HoldsRows
<1>9. PICK F : F = [i \in 1 .. n |-> Tail(S[i])]
  OBVIOUS
<1>10. ASSUME NEW i \in 1 .. n
       PROVE  /\ F[i] \in Seq(Int) /\ Len(F[i]) = L
              /\ \A j \in 1 .. L : F[i][j] = rows[i][j + 1]
  <2>1. PICK s : s = rows[i]
    OBVIOUS
  <2>2. s \in Seq(Int) /\ Len(s) = L + 1 /\ F[i] = Tail(s) /\ s # <<>>
    <3>1. s \in Seq(Int) /\ Len(s) = L + 1 /\ F[i] = Tail(s)
      <4>1. s \in Seq(Int) /\ Len(s) = L + 1
        <5>1. i \in 1 .. w
          BY <1>3
        <5> QED
          BY <5>1, <2>1, <1>5
      <4>2. F[i] = Tail(S[i])
        BY <1>9
      <4>3. S[i] = s
        BY <2>1, <1>7
      <4> QED
        BY <4>1, <4>2, <4>3
    <3> QED
      BY <3>1, EmptySeq
  <2>3. Tail(s) \in Seq(Int) /\ Len(Tail(s)) = Len(s) - 1 /\ \A j \in 1 .. Len(Tail(s)) : Tail(s)[j] = s[j + 1]
    BY <2>2, HeadTailProperties
  <2>4. Len(Tail(s)) = L
    BY <2>2, <2>3
  <2> QED
    BY <2>1, <2>2, <2>3, <2>4
<1>11. Seqs(F, n, Int)
  BY <1>10 DEF Seqs
<1>12. FlatCut(F, n, L)
  <2>1. n \in 0 .. n
    OBVIOUS
  <2> QED
    BY <2>1, <1>10, <1>11, FlatUniform
<1>13. d.data = FlatTo(F, n)
  <2>1. F = [i \in 1 .. n |-> F[i]]
    BY <1>9
  <2> QED
    BY <2>1, <1>8, <1>9 DEF FlatTo
<1>14. /\ Len(d.data) = n * L
       /\ \A i \in 1 .. n : \A j \in 1 .. L : d.data[(i - 1) * L + j] = rows[i][j + 1]
  <2>1. Len(d.data) = n * L
    BY <1>12, <1>13 DEF FlatCut
  <2>2. ASSUME NEW i \in 1 .. n, NEW j \in 1 .. L PROVE d.data[(i - 1) * L + j] = rows[i][j + 1]
    <3>1. FlatTo(F, n)[(i - 1) * L + j] = F[i][j]
      BY <1>12 DEF FlatCut
    <3>2. F[i][j] = rows[i][j + 1]
      BY <1>10
    <3> QED
      BY <3>1, <3>2, <1>13
  <2> QED
    BY <2>1, <2>2
<1>15. d.cap = n * L /\ n * L < UIntMod
  <2>1. d.numFloats = n * (L + 1)
    <3>1. Len(d.data) = n * L
      BY <1>14
    <3>2. d.numFloats = Len(d.data) + n
      BY <1>8
    <3>3. n * L + n = n * (L + 1)
      OBVIOUS
    <3> QED
      BY <3>1, <3>2, <3>3
  <2>2. (n * (L + 1)) \div n = L + 1
    BY ExactDivision
  <2>3. d.cap = UInt(((L + 1) - 1) * n)
    BY <2>1, <2>2, <1>8
  <2>4. ((L + 1) - 1) * n = n * L /\ n * L \in Nat /\ n * (L + 1) = n * L + n
    OBVIOUS
  <2>5. n * L \in 0 .. UIntMod - 1
    BY <2>1, <2>4, <1>8, UIntAssumption
  <2>6. (n * L) % UIntMod = n * L
    BY <2>5, SmallRemainder, UIntAssumption
  <2> QED
    BY <2>3, <2>4, <2>5, <2>6, UIntAssumption DEF UInt
<1>16. \A i \in 1 .. n : d.label[i] = rows[i][1]
  <2>1. ASSUME NEW i \in 1 .. n PROVE d.label[i] = rows[i][1]
    <3>1. d.label[i] = S[i][1]
      BY <1>8
    <3>2. S[i] = rows[i]
      BY <1>7
    <3> QED
      BY <3>1, <3>2
  <2> QED
    BY <2>1
<1> QED
  BY <1>1, <1>4, <1>14, <1>15, <1>16 DEF RowsInArrays

(* A drawn window of suitable data. *)
LEMMA SuitableWindow ==
    ASSUME NEW d, d.count \in Nat, d.count >= MiniBatch, d.count <= UIntMod, NEW next, Draw(d, next), tpc' # "crash"
    PROVE  tpc' = next /\ ref' \in Nat /\ ref' + MiniBatch <= d.count
<1>1. PICK p : p = Positions(d)
  OBVIOUS
<1>2. p # 0 /\ tpc' = next /\ \E rand \in 0 .. RandMax : ref' = rand % p
  BY <1>1 DEF Draw
<1>3. PICK m \in Nat \ {0} : m = MiniBatch
  BY TrainerAssumption, UIntAssumption
<1>4. PICK n \in Nat : n = d.count
  OBVIOUS
<1>5. PICK U \in Nat \ {0} : U = UIntMod
  BY TrainerAssumption, UIntAssumption
<1>6. m <= n /\ n <= U /\ p = (n - m + 1) % U
  BY <1>1, <1>3, <1>4, <1>5 DEF Positions, UInt
<1>7. p = n - m + 1
  <2>1. CASE n - m + 1 = U
    <3>1. (U * 1 + 0) % U = 0 /\ U * 1 + 0 = U
      <4>1. 0 \in 0 .. U - 1
        OBVIOUS
      <4> QED
        BY <4>1, ModUnique
    <3> QED
      BY <2>1, <3>1, <1>2, <1>6
  <2>2. CASE n - m + 1 # U
    <3>1. n - m + 1 \in 0 .. U - 1
      BY <2>2, <1>6
    <3> QED
      BY <3>1, <1>6, SmallRemainder
  <2> QED
    BY <2>1, <2>2
<1>8. p \in Nat \ {0}
  BY <1>6, <1>7
<1>9. PICK rand \in Int : ref' = rand % p
  BY <1>2, TrainerAssumption, UIntAssumption
<1>10. rand % p \in 0 .. p - 1
  BY <1>8
<1> QED
  BY <1>2, <1>3, <1>4, <1>6, <1>7, <1>9, <1>10

(* A row of a window, as CaffeLib sees it. *)
LEMMA WindowRow ==
    ASSUME NEW d, NEW rows, Delivered(d, rows), Suitable(rows, d.count), featureLen = FeatureLen,
           ref \in Nat, ref + MiniBatch <= d.count, NEW k \in 0 .. MiniBatch - 1
    PROVE  BatchRow(d, k) = rows[ref + k + 1]
<1>1. PICK n \in Nat \ {0} : n = d.count
  BY DEF Delivered, LoadResult
<1>2. PICK L \in Nat \ {0} : L = FeatureLen
  BY LoaderAssumption
<1>3. PICK m \in Nat \ {0} : m = MiniBatch
  BY TrainerAssumption, UIntAssumption
<1>4. PICK U \in Nat \ {0} : U = UIntMod
  BY TrainerAssumption, UIntAssumption
<1>5. PICK r \in Nat : r = ref
  OBVIOUS
<1>7. RowsInArrays(d, rows)
  BY SuitableDelivered DEF Suitable
<1>6. r + m <= n /\ k \in 0 .. m - 1 /\ n * L <= U
  <2>1. n * L \in Nat /\ n * L < U
    BY <1>1, <1>2, <1>4, <1>7 DEF RowsInArrays
  <2> QED
    BY <2>1, <1>1, <1>3, <1>5
<1>8. Offset(ref) = r * L
  <2>1. r * L \in Nat /\ m * L \in Nat \ {0} /\ (n - (r + m)) * L \in Nat
    BY <1>6
  <2>2. n * L = r * L + m * L + (n - (r + m)) * L
    OBVIOUS
  <2>3. r * L \in 0 .. U - 1
    BY <2>1, <2>2, <1>6
  <2>4. (r * L) % U = r * L
    BY <2>3, SmallRemainder
  <2> QED
    BY <2>4, <1>2, <1>4, <1>5 DEF Offset, UInt
<1>9. PICK i \in Nat : i = r + k
  BY <1>6
<1>10. i + 1 \in 1 .. n /\ ref + k + 1 = i + 1 /\ (i + 1) - 1 = i
  BY <1>5, <1>6, <1>9
<1>11. r * L + k * L = i * L /\ i * L \in Nat
  BY <1>9, <1>6
<1>12. PICK s : s = SubSeq(d.data, i * L + 1, i * L + L)
  OBVIOUS
<1>13. BatchRow(d, k) = <<d.label[i + 1]>> \o s
  BY <1>2, <1>8, <1>10, <1>11, <1>12 DEF BatchRow
<1>14. /\ d.label[i + 1] = rows[i + 1][1]
       /\ \A j \in 1 .. L : d.data[i * L + j] = rows[i + 1][j + 1]
       /\ Len(d.data) = n * L
  BY <1>1, <1>2, <1>7, <1>10 DEF RowsInArrays
<1>15. rows \in Seq(Seq(Int)) /\ n \in 1 .. Len(rows) /\ DOMAIN rows = 1 .. Len(rows) /\ Len(rows) \in Nat
  BY <1>1, LenProperties DEF Delivered
<1>16. PICK row : row = rows[i + 1]
  OBVIOUS
<1>17. row \in Seq(Int) /\ Len(row) = L + 1
  <2>1. i + 1 \in 1 .. Len(rows)
    BY <1>10, <1>15
  <2> QED
    BY <2>1, <1>2, <1>15, <1>16, ElementOfSeq DEF Suitable
<1>18. d.data \in Seq(Int)
  BY DEF Delivered, LoadResult
<1>19. s \in Seq(Int) /\ Len(s) = L /\ \A j \in 1 .. L : s[j] = row[j + 1]
  <2>1. (n - (i + 1)) * L \in Nat /\ n * L = i * L + L + (n - (i + 1)) * L /\ n * L \in Nat
    BY <1>10
  <2>2. \A j \in i * L + 1 .. i * L + L : j \in 1 .. n * L
    BY <2>1, <1>11
  <2>3. \A j \in i * L + 1 .. i * L + L : d.data[j] \in Int
    BY <2>2, <1>14, <1>18, ElementOfSeq
  <2>4. PICK a \in Nat : a = i * L
    BY <1>11
  <2>5. PICK q : q = d.data
    OBVIOUS
  <2>6. PICK b \in Int, c \in Int : b = a + 1 /\ c = a + L
    OBVIOUS
  <2>7. \A j \in b .. c : q[j] \in Int
    BY <2>3, <2>4, <2>5, <2>6
  <2>8. /\ SubSeq(q, b, c) \in Seq(Int) /\ Len(SubSeq(q, b, c)) = IF b <= c THEN c - b + 1 ELSE 0
        /\ \A j \in 1 .. c - b + 1 : SubSeq(q, b, c)[j] = q[b + j - 1]
    BY <2>7, SubSeqProperties
  <2>9. s = SubSeq(q, b, c) /\ b <= c /\ c - b + 1 = L
    BY <2>4, <2>5, <2>6, <1>12
  <2>10. ASSUME NEW j \in 1 .. L PROVE s[j] = row[j + 1]
    <3>1. b + j - 1 = a + j
      BY <2>6
    <3>2. s[j] = q[a + j]
      BY <2>8, <2>9, <3>1
    <3>3. q[a + j] = row[j + 1]
      BY <2>4, <2>5, <1>14, <1>16
    <3> QED
      BY <3>2, <3>3
  <2> QED
    BY <2>8, <2>9, <2>10
<1>20. <<row[1]>> \o s = row
  <2>1. row[1] \in Int
    <3>1. 1 \in 1 .. Len(row)
      BY <1>17
    <3> QED
      BY <3>1, <1>17, ElementOfSeq
  <2>2. PICK e \in Int : e = row[1]
    BY <2>1
  <2>3. PICK t : t = <<e>> \o s
    OBVIOUS
  <2>4. t \in Seq(Int) /\ Len(t) = Len(s) + 1 /\ t[1] = e /\ \A j \in 1 .. Len(s) : t[j + 1] = s[j]
    BY <2>3, <1>19, FrontAdded
  <2>5. Len(t) = L + 1 /\ \A j \in 1 .. L : t[j + 1] = row[j + 1]
    BY <2>4, <1>19
  <2>6. ASSUME NEW j \in 1 .. L + 1 PROVE t[j] = row[j]
    <3>1. CASE j = 1
      BY <3>1, <2>2, <2>4
    <3>2. CASE j # 1
      <4>1. PICK x \in 1 .. L : j = x + 1
        <5>1. j - 1 \in 1 .. L /\ j = (j - 1) + 1
          BY <3>2
        <5> QED
          BY <5>1
      <4> QED
        BY <4>1, <2>5
    <3> QED
      BY <3>1, <3>2
  <2>7. t = row
    BY <2>4, <2>5, <2>6, <1>17, SeqEqual
  <2> QED
    BY <2>2, <2>3, <2>7
<1> QED
  BY <1>10, <1>13, <1>14, <1>16, <1>20

(* Every load of a raw file that can be counted delivered first rows of it; *)
(* the rows of the file being read are the last source.                     *)
From(d, rows) == d.featureLen = FeatureLen /\ (Countable(rows) => Delivered(d, rows))
SourcesInv ==
    /\ sources \in Seq(Seq(Seq(Int)))
    /\ Len(loaded) <= Len(sources)
    /\ \A i \in 1 .. Len(loaded) : From(loaded[i], sources[i])
    /\ pc = "idle" => Len(sources) = Len(loaded)
    /\ pc \in FirstPass \cup SecondPass => Len(sources) = Len(loaded) + 1 /\ sources[Len(sources)] = Rows

(* main trains on what was loaded, and draws windows that fit. *)
WindowOf(d, rows) == Suitable(rows, d.count) => ref \in Nat /\ ref + MiniBatch <= d.count
TrainsOn ==
    tpc # "load" => /\ pc = "idle" /\ Len(loaded) = 2
                    /\ train = loaded[1] /\ val = loaded[2] /\ featureLen = FeatureLen
                    /\ tpc = "gradient" => WindowOf(train, sources[1])
                    /\ tpc = "validate" => WindowOf(val, sources[2])

ProgramInv == PipelineInv /\ SourcesInv /\ TrainsOn

(* The program starts with nothing loaded. *)
LEMMA ProgramInits == ASSUME MainInit PROVE ProgramInv
<1>1. PipelineInv
  BY PipelineInits DEF MainInit
<1>2. sources = <<>> /\ loaded = <<>> /\ tpc = "load" /\ pc = "idle"
  BY DEF MainInit, Init, LoaderInit, TrainerInit
<1>3. SourcesInv
  BY <1>2 DEF SourcesInv, FirstPass, SecondPass
<1> QED
  BY <1>1, <1>2, <1>3 DEF ProgramInv, TrainsOn

(* The steps before training. *)
LEMMA PrepareSteps == ASSUME ProgramInv, Prepare PROVE ProgramInv'
<1>1. tpc = "load" /\ tpc' = "load"
  BY DEF Prepare, trainerVars
<1>2. Next
  BY DEF Prepare, Next
<1>3. PipelineInv' /\ PipelineInv /\ SourcesInv
  BY <1>2, PipelineSteps DEF ProgramInv
<1>4. sources \in Seq(Seq(Seq(Int))) /\ Len(sources) \in Nat
  BY <1>3, LenProperties DEF SourcesInv
<1>5. (\E S : loaded \in Seq(S)) /\ Len(loaded) \in Nat
  BY <1>3, LoadedGrows DEF PipelineInv
<1>6. CASE Load /\ sources' = Append(sources, Rows)
  <2>1. pc = "idle" /\ pc' \in FirstPass /\ script = "ended" /\ UNCHANGED <<loaded, raw>>
    BY <1>6 DEF Load, Open, FirstPass
  <2>2. Rows \in Seq(Seq(Int))
    BY <2>1, <1>3 DEF PipelineInv, ScriptInv, FileOf
  <2>3. Rows' = Rows
    BY <2>1, RowsKept
  <2>4. PICK W : W = Rows
    OBVIOUS
  <2>5. /\ Append(sources, W) \in Seq(Seq(Seq(Int))) /\ Len(Append(sources, W)) = Len(sources) + 1
        /\ \A i \in 1 .. Len(sources) : Append(sources, W)[i] = sources[i]
        /\ Append(sources, W)[Len(sources) + 1] = W
    BY <2>2, <2>4, <1>4, AppendProperties
  <2>6. Len(sources) = Len(loaded)
    BY <2>1, <1>3 DEF SourcesInv
  <2>7. /\ sources' \in Seq(Seq(Seq(Int))) /\ Len(sources') = Len(loaded') + 1
        /\ sources'[Len(sources')] = Rows'
        /\ \A i \in 1 .. Len(loaded') : sources'[i] = sources[i]
    BY <2>1, <2>3, <2>4, <2>5, <2>6, <1>6
  <2>8. Len(loaded') <= Len(sources')
    BY <2>1, <2>7, <1>5
  <2>9. \A i \in 1 .. Len(loaded') : From(loaded'[i], sources'[i])
    BY <2>1, <2>7, <1>3 DEF SourcesInv
  <2>10. pc' # "idle"
    BY <2>1 DEF FirstPass
  <2>11. SourcesInv'
    BY <2>7, <2>8, <2>9, <2>10 DEF SourcesInv
  <2> QED
    BY <2>11, <1>1, <1>3 DEF ProgramInv, TrainsOn
<1>7. CASE /\ (\E r \in RawFiles : StartScript(r)) \/ ParseLine \/ EndScript \/ Killed \/ LoadMissing
           /\ UNCHANGED sources
  <2>1. pc = "idle" /\ UNCHANGED loaded /\ pc' \in {"idle", "crash"}
    BY <1>3, <1>7 DEF StartScript, ParseLine, EndScript, Killed, LoadMissing, OpenMissing, loaderVars,
                      PipelineInv, ScriptInv
  <2>2. SourcesInv'
    BY <2>1, <1>3, <1>7 DEF SourcesInv, FirstPass, SecondPass
  <2> QED
    BY <2>2, <1>1, <1>3 DEF ProgramInv, TrainsOn
<1>8. CASE Read /\ UNCHANGED sources
  <2>1. UNCHANGED <<raw, cut, script>> /\ LoaderStep
    BY <1>8 DEF Read, scriptVars
  <2>2. pc \in FirstPass \cup SecondPass
    BY <2>1 DEF LoaderStep, CountFloat, CountRow, Allocate, ReadLabel, ReadDatum, DataRow, CheckCounts,
                Hang, ReturnStats, FirstPass, SecondPass
  <2>3. Rows' = Rows
    BY <2>1, RowsKept
  <2>4. Len(sources) = Len(loaded) + 1 /\ sources[Len(sources)] = Rows
    BY <2>2, <1>3 DEF SourcesInv
  <2>5. CASE ReturnStats
    <3>1. pc = "loaded" /\ pc' = "idle" /\ loaded' = Append(loaded, Stats)
      BY <2>5 DEF ReturnStats, Stats
    <3>2. mFeatureLen = FeatureLen /\
          (Countable(Rows) => \E R, at : FileOf(file, R, at) /\ Reading(R, at))
      BY <2>2, <1>3 DEF PipelineInv, LoadInv
    <3>3. From(Stats, Rows)
      <4>1. Countable(Rows) => Delivered(Stats, Rows)
        BY <3>1, <3>2, LoadDelivers
      <4>2. Stats.featureLen = FeatureLen
        BY <3>2 DEF Stats
      <4> QED
        BY <4>1, <4>2 DEF From
    <3>4. PICK d : d = Stats
      OBVIOUS
    <3>6. /\ Len(Append(loaded, d)) = Len(loaded) + 1
          /\ \A i \in 1 .. Len(loaded) : Append(loaded, d)[i] = loaded[i]
          /\ Append(loaded, d)[Len(loaded) + 1] = d
      BY <1>5, LoadedGrows
    <3>7. \A i \in 1 .. Len(loaded) + 1 : i \in 1 .. Len(loaded) \/ i = Len(loaded) + 1
      BY <1>5
    <3>8. \A i \in 1 .. Len(loaded) : From(loaded[i], sources[i])
      BY <1>3 DEF SourcesInv
    <3>9. \A i \in 1 .. Len(loaded) + 1 : From(Append(loaded, d)[i], sources[i])
      BY <3>3, <3>4, <3>6, <3>7, <3>8, <2>4
    <3>10. SourcesInv'
      <4>1. Len(loaded') = Len(sources') /\ \A i \in 1 .. Len(loaded') : From(loaded'[i], sources'[i])
        BY <3>1, <3>4, <3>6, <3>9, <2>4, <1>8
      <4> QED
        BY <4>1, <3>1, <1>4, <1>8 DEF SourcesInv, FirstPass, SecondPass
    <3> QED
      BY <3>10, <1>1, <1>3 DEF ProgramInv, TrainsOn
  <2>6. CASE ~ReturnStats
    <3>1. UNCHANGED loaded /\ pc' # "idle"
      BY <2>1, <2>6 DEF LoaderStep, CountFloat, CountRow, Allocate, ReadLabel, ReadDatum, DataRow, CheckCounts,
                Hang, Written
    <3>2. SourcesInv'
      BY <3>1, <2>3, <2>4, <1>3, <1>8 DEF SourcesInv
    <3> QED
      BY <3>2, <1>1, <1>3 DEF ProgramInv, TrainsOn
  <2> QED
    BY <2>5, <2>6
<1> QED
  BY <1>6, <1>7, <1>8 DEF Prepare

(* Training changes neither what was loaded nor where it came from. *)
LEMMA TrainSteps == ASSUME ProgramInv, BeginTraining \/ Train \/ UNCHANGED mainVars PROVE ProgramInv'
<1>1. UNCHANGED vars /\ UNCHANGED sources
  BY DEF BeginTraining, Train, mainVars
<1>2. PipelineInv' /\ PipelineInv /\ SourcesInv
  BY <1>1, PipelineSteps DEF ProgramInv
<1>3. UNCHANGED <<raw, pc, loaded>>
  BY <1>1 DEF vars, scriptVars, loaderVars
<1>4. SourcesInv'
  BY <1>1, <1>2, <1>3, RowsKept DEF SourcesInv
<1>5. CASE BeginTraining
  <2>1. /\ pc = "idle" /\ Len(loaded) = 2 /\ train' = loaded[1] /\ val' = loaded[2]
        /\ featureLen' = loaded[2].featureLen /\ tpc' = "inspect"
    BY <1>5 DEF BeginTraining, Begin
  <2>2. From(loaded[2], sources[2])
    <3>1. 2 \in 1 .. Len(loaded)
      BY <2>1
    <3> QED
      BY <3>1, <1>2 DEF SourcesInv
  <2>3. featureLen' = FeatureLen
    BY <2>1, <2>2 DEF From
  <2>4. TrainsOn'
    BY <2>1, <2>3, <1>3 DEF TrainsOn
  <2> QED
    BY <2>4, <1>2, <1>4 DEF ProgramInv
<1>6. CASE Train
  <2>1. /\ UNCHANGED <<train, val, featureLen>> /\ tpc # "load"
    BY <1>6 DEF Train, TrainerStep, Inspect, Construct, Sample, ComputeGradientWithDatum, Update,
                SetParamsDense, Validate, Return
  <2>2. /\ pc = "idle" /\ Len(loaded) = 2 /\ train = loaded[1] /\ val = loaded[2]
        /\ featureLen = FeatureLen
    BY <2>1 DEF ProgramInv, TrainsOn
  <2>3. From(train, sources[1]) /\ From(val, sources[2])
    <3>1. 1 \in 1 .. Len(loaded) /\ 2 \in 1 .. Len(loaded)
      BY <2>2
    <3> QED
      BY <3>1, <2>2, <1>2 DEF SourcesInv
  <2>4. ASSUME NEW d, NEW rows, From(d, rows), Suitable(rows, d.count)
        PROVE  d.count \in Nat /\ d.count >= MiniBatch /\ d.count <= UIntMod
    <3>1. d.count \in Nat \ {0} /\ FeatureLen \in Nat \ {0} /\ UIntMod \in Nat
      BY <2>4, LoaderAssumption, UIntAssumption DEF From, Suitable, Delivered, LoadResult
    <3>2. d.count * FeatureLen < UIntMod /\ d.count >= MiniBatch
      BY <2>4, SuitableDelivered DEF From, Suitable, RowsInArrays
    <3>3. d.count <= d.count * FeatureLen /\ d.count * FeatureLen \in Nat
      <4>1. PICK n \in Nat, l \in Nat \ {0} : n = d.count /\ l = FeatureLen
        BY <3>1
      <4>2. n * l = n + n * (l - 1) /\ n * (l - 1) \in Nat
        OBVIOUS
      <4> QED
        BY <4>1, <4>2
    <3> QED
      BY <3>1, <3>2, <3>3
  <2>5. tpc' = "gradient" => WindowOf(train, sources[1])'
    <3> SUFFICES ASSUME tpc' = "gradient", Suitable(sources[1], train.count)
                 PROVE  ref' \in Nat /\ ref' + MiniBatch <= train.count
      BY <1>1, <2>1 DEF WindowOf, Suitable
    <3>1. Draw(train, "gradient")
      BY <1>6 DEF Train, TrainerStep, Inspect, Construct, Sample, ComputeGradientWithDatum, Update,
                  SetParamsDense, Validate, Return, MayFault, Draw
    <3> QED
      BY <3>1, <2>3, <2>4, SuitableWindow
  <2>6. tpc' = "validate" => WindowOf(val, sources[2])'
    <3> SUFFICES ASSUME tpc' = "validate", Suitable(sources[2], val.count)
                 PROVE  ref' \in Nat /\ ref' + MiniBatch <= val.count
      BY <1>1, <2>1 DEF WindowOf, Suitable
    <3>1. Draw(val, "validate")
      BY <1>6 DEF Train, TrainerStep, Inspect, Construct, Sample, ComputeGradientWithDatum, Update,
                  SetParamsDense, Validate, Return, MayFault, Draw
    <3> QED
      BY <3>1, <2>3, <2>4, SuitableWindow
  <2>7. TrainsOn'
    BY <2>1, <2>2, <2>5, <2>6, <1>3 DEF TrainsOn
  <2> QED
    BY <2>7, <1>2, <1>4 DEF ProgramInv
<1>7. CASE UNCHANGED mainVars
  <2>1. UNCHANGED <<tpc, train, val, featureLen, ref>>
    BY <1>7 DEF mainVars, trainerVars
  <2>2. TrainsOn'
    BY <2>1, <1>1, <1>3 DEF ProgramInv, TrainsOn, WindowOf, Suitable
  <2> QED
    BY <2>2, <1>2, <1>4 DEF ProgramInv
<1> QED
  BY <1>5, <1>6, <1>7

(* The invariant holds in every state of the program. *)
LEMMA ProgramInvariance == MainSpec => []ProgramInv
<1>1. MainInit => ProgramInv
  BY ProgramInits
<1>2. ProgramInv /\ [MainNext]_mainVars => ProgramInv'
  BY PrepareSteps, TrainSteps DEF MainNext, Over
<1> QED
  BY <1>1, <1>2, PTL DEF MainSpec

(* What main trains on. *)
LEMMA TrainingData ==
    ASSUME ProgramInv, tpc # "load"
    PROVE  /\ featureLen = FeatureLen
           /\ Countable(sources[1]) => Delivered(train, sources[1])
           /\ Countable(sources[2]) => Delivered(val, sources[2])
<1>1. Len(loaded) = 2 /\ train = loaded[1] /\ val = loaded[2] /\ featureLen = FeatureLen
  BY DEF ProgramInv, TrainsOn
<1>2. 1 \in 1 .. Len(loaded) /\ 2 \in 1 .. Len(loaded)
  BY <1>1
<1> QED
  BY <1>1, <1>2 DEF ProgramInv, SourcesInv, From

(* Training and validation files with enough rows of the hard coded length  *)
(* reach the training loop as usable data: DataLoader's arrays are the ones *)
(* main's windows are cut from.                                             *)
THEOREM LoadsUsable == MainSpec => []LoaderDeliversUsable
<1>1. ASSUME NEW d, NEW rows, Delivered(d, rows), Suitable(rows, d.count), featureLen = FeatureLen
      PROVE  Usable(d)
  <2>1. d.cap = d.count * FeatureLen /\ d.cap < UIntMod
    BY <1>1, SuitableDelivered DEF Suitable, RowsInArrays
  <2>2. d.cap \in Int
    BY <1>1 DEF Delivered, LoadResult
  <2> QED
    BY <1>1, <2>1, <2>2, UIntAssumption DEF Usable, Suitable
<1>2. ProgramInv => LoaderDeliversUsable
  BY <1>1, TrainingData DEF LoaderDeliversUsable, Suitable
<1> QED
  BY <1>2, ProgramInvariance, PTL

(* Every row of every batch main hands to CaffeLib is one row of the raw    *)
(* export with its own label and its own features: through the script, both *)
(* passes of DataLoader, main's unsigned arithmetic and the drawn window.   *)
THEOREM BatchesAreRawRows == MainSpec => []BatchIsRawRows
<1>1. ProgramInv => BatchIsRawRows
  <2> SUFFICES ASSUME ProgramInv PROVE BatchIsRawRows
    OBVIOUS
  <2>1. ASSUME tpc = "gradient", Suitable(sources[1], train.count), NEW k \in 0 .. MiniBatch - 1
        PROVE  BatchRow(train, k) = sources[1][ref + k + 1]
    <3>1. ref \in Nat /\ ref + MiniBatch <= train.count
      BY <2>1 DEF ProgramInv, TrainsOn, WindowOf
    <3> QED
      BY <2>1, <3>1, TrainingData, WindowRow DEF Suitable
  <2>2. ASSUME tpc = "validate", Suitable(sources[2], val.count), NEW k \in 0 .. MiniBatch - 1
        PROVE  BatchRow(val, k) = sources[2][ref + k + 1]
    <3>1. ref \in Nat /\ ref + MiniBatch <= val.count
      BY <2>2 DEF ProgramInv, TrainsOn, WindowOf
    <3> QED
      BY <2>2, <3>1, TrainingData, WindowRow DEF Suitable
  <2> QED
    BY <2>1, <2>2 DEF BatchIsRawRows
<1> QED
  BY <1>1, ProgramInvariance, PTL

=============================================================================
