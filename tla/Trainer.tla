------------------------------ MODULE Trainer -------------------------------
(***************************************************************************)
(* The training loop of main in src/run_training.cpp.  Each turn draws a   *)
(* window of MiniBatch consecutive rows with unsigned arithmetic, asks     *)
(* CaffeLib for the gradient at pParam, updates pParam, and every          *)
(* ValidateEvery turns copies pParam into the network and validates on a   *)
(* window of the validation set.                                           *)
(*                                                                         *)
(* A parameter vector is known by its version, the number of updates that  *)
(* led to it.  CaffeLib is external: the network keeps the vector it was   *)
(* given last.                                                             *)
(***************************************************************************)
EXTENDS UnsignedInt

CONSTANTS
    DataSets,       \* what the loader may deliver: records with count, featureLen, cap
    MiniBatch,      \* miniBatchSize (100)
    PrintCount,     \* the floats and labels printed before training (50)
    MaxIters,       \* maxIters (100000)
    ValidateEvery,  \* validateEvery (500)
    RandMax         \* the largest value of rand()

ASSUME TrainerAssumption ==
    /\ MiniBatch \in Nat \ {0} /\ PrintCount \in Nat /\ PrintCount <= MiniBatch
    /\ MaxIters \in Nat /\ ValidateEvery \in Nat \ {0}
    /\ RandMax \in Nat
    /\ MiniBatch < UIntMod

ASSUME DataSetsAssumption ==
    \A d \in DataSets : d.count \in 0 .. UIntMod - 1
                     /\ d.featureLen \in Nat \ {0} /\ d.cap \in Nat

VARIABLES
    tpc,         \* where main is
    train, val,  \* the two data sets
    featureLen,  \* the row length, as the last ReturnStats reported it
    iter,        \* turns of the loop completed
    ref,         \* the first row of the current window
    pParam,      \* version of the parameters main holds
    pGrad,       \* version at which pGrad was computed
    netParam     \* version of the parameters in the network

trainerVars == <<tpc, train, val, featureLen, iter, ref, pParam, pGrad, netParam>>

NoData == [count |-> 0, featureLen |-> 1, cap |-> 0]

-----------------------------------------------------------------------------
(* The divisor of rand(): the number of window positions, as unsigned int.  *)
PositionsOneMore(d) == UInt(d.count - MiniBatch + 2)  \* deviation: one window too many
PositionsOneLess(d) == UInt(d.count - MiniBatch)  \* deviation: the + 1 is forgotten
Positions(d) == UInt(d.count - MiniBatch + 1)

(* The window of a batch starts at the pointer pData + ref * featureLen.    *)
OffsetByRow(r) == UInt(r)  \* deviation: rows taken for floats
Offset(r) == UInt(r * featureLen)

InArrays(d, r) ==
    /\ Offset(r) + MiniBatch * featureLen <= d.cap
    /\ r + MiniBatch <= d.count

(* A read beyond an array faults or yields garbage. *)
MayFault(inBounds, next) == tpc' = next \/ (~inBounds /\ tpc' = "crash")

TrainerInit ==
    /\ tpc = "load"
    /\ train = NoData /\ val = NoData /\ featureLen = 1
    /\ iter = 0 /\ ref = 0
    /\ pParam = 0 /\ pGrad = 0 /\ netParam = 0

(* main has loaded both files; the second ReturnStats overwrites featureLen. *)
Begin(tr, va) ==
    /\ tpc = "load"
    /\ train' = tr /\ val' = va
    /\ featureLen' = va.featureLen
    /\ tpc' = "inspect"
    /\ UNCHANGED <<iter, ref, pParam, pGrad, netParam>>

(* The two loops that print the first floats and labels. *)
Inspect ==
    /\ tpc = "inspect"
    /\ MayFault(PrintCount <= train.cap /\ PrintCount <= train.count, "construct")
    /\ UNCHANGED <<train, val, featureLen, iter, ref, pParam, pGrad, netParam>>

(* CaffeLib is constructed and hands out its initial parameters. *)
Construct ==
    /\ tpc = "construct"
    /\ pParam' = netParam
    /\ tpc' = "sample"
    /\ UNCHANGED <<train, val, featureLen, iter, ref, pGrad, netParam>>

(* A window of d is drawn, or the process dies of a division by zero. *)
Draw(d, next) ==
    IF Positions(d) = 0
    THEN tpc' = "crash" /\ UNCHANGED ref
    ELSE /\ \E rand \in 0 .. RandMax : ref' = rand % Positions(d)
         /\ tpc' = next

(* The head of the loop. *)
Sample ==
    /\ tpc = "sample"
    /\ iter < MaxIters
    /\ Draw(train, "gradient")
    /\ UNCHANGED <<train, val, featureLen, iter, pParam, pGrad, netParam>>

ComputeGradientWithDatum ==
    /\ tpc = "gradient"
    /\ MayFault(InArrays(train, ref), "update")
    /\ pGrad' = pParam
    /\ netParam' = pParam
    /\ UNCHANGED <<train, val, featureLen, iter, ref, pParam>>

(* The loop over the parameters, and the test whether to validate. *)
Update ==
    /\ tpc = "update"
    /\ pParam' = pParam + 1
    /\ IF iter % ValidateEvery = 0
       THEN tpc' = "setParams" /\ UNCHANGED iter
       ELSE tpc' = "sample" /\ iter' = iter + 1
    /\ UNCHANGED <<train, val, featureLen, ref, pGrad, netParam>>

(* SetParamsDense, and the draw of a validation window. *)
SetParamsSkipped ==  \* deviation: validates what the network was left with
    /\ tpc = "setParams"
    /\ Draw(val, "validate")
    /\ UNCHANGED <<train, val, featureLen, iter, pParam, pGrad, netParam>>

SetParamsDense ==
    /\ tpc = "setParams"
    /\ netParam' = pParam
    /\ Draw(val, "validate")
    /\ UNCHANGED <<train, val, featureLen, iter, pParam, pGrad>>

Validate ==
    /\ tpc = "validate"
    /\ MayFault(InArrays(val, ref), "sample")
    /\ iter' = iter + 1
    /\ UNCHANGED <<train, val, featureLen, ref, pParam, pGrad, netParam>>

ReturnEarly ==  \* deviation: may leave the loop a turn early
    /\ tpc = "sample"
    /\ iter >= MaxIters - 1
    /\ tpc' = "exit"
    /\ UNCHANGED <<train, val, featureLen, iter, ref, pParam, pGrad, netParam>>

Return ==
    /\ tpc = "sample"
    /\ iter >= MaxIters
    /\ tpc' = "exit"
    /\ UNCHANGED <<train, val, featureLen, iter, ref, pParam, pGrad, netParam>>

TrainerStep == Inspect \/ Construct \/ Sample \/ ComputeGradientWithDatum \/ Update
                  \/ SetParamsDense \/ Validate \/ Return

Ended == tpc \in {"exit", "crash"} /\ UNCHANGED trainerVars

TrainerNext == (\E tr, va \in DataSets : Begin(tr, va)) \/ TrainerStep \/ Ended

(* main is one thread that runs without waiting for anybody. *)
TrainerSpec == TrainerInit /\ [][TrainerNext]_trainerVars
FairTrainerSpec == TrainerSpec /\ WF_trainerVars(TrainerNext)

-----------------------------------------------------------------------------
TrainerTypeOK ==
    /\ tpc \in {"load", "inspect", "construct", "sample", "gradient", "update",
                "setParams", "validate", "exit", "crash"}
    /\ train \in DataSets \cup {NoData} /\ val \in DataSets \cup {NoData}
    /\ featureLen = val.featureLen
    /\ iter \in 0 .. MaxIters
    /\ ref \in 0 .. UIntMod - 1
    /\ pParam \in 0 .. MaxIters /\ pGrad \in 0 .. MaxIters /\ netParam \in 0 .. MaxIters

(* A data set the loop can use: enough rows for a batch, every row of       *)
(* featureLen floats, and few enough floats for unsigned indexing.          *)
Usable(d) ==
    /\ d.count >= MiniBatch
    /\ d.cap = d.count * featureLen
    /\ d.cap <= UIntMod

(* On usable data every batch handed to CaffeLib, training or validation,   *)
(* lies inside the arrays, and its first float belongs to the row of its    *)
(* first label, whatever rand() returns.                                    *)
BatchInBounds ==
    /\ tpc = "gradient" /\ Usable(train) =>
           InArrays(train, ref) /\ Offset(ref) = ref * featureLen
    /\ tpc = "validate" /\ Usable(val) =>
           InArrays(val, ref) /\ Offset(ref) = ref * featureLen

(* On usable data main never faults: neither the printing of the first rows *)
(* nor a batch reads beyond an array, and no draw divides by zero.          *)
UsableDataNeverFaults == Usable(train) /\ Usable(val) => tpc # "crash"

(* The gradient that an update applies was computed at the very parameters  *)
(* it is applied to, and what is validated are the parameters after all the *)
(* updates so far, not those the network was last evaluated with.           *)
ParametersFresh ==
    /\ tpc = "update" => pGrad = pParam /\ pParam = iter
    /\ tpc = "validate" => netParam = pParam /\ pParam = iter + 1

(* On usable data training runs to the end and applies MaxIters updates. *)
TrainingCompletes ==
    (tpc = "inspect" /\ Usable(train) /\ Usable(val)) ~> (tpc = "exit" /\ pParam = MaxIters)
=============================================================================
