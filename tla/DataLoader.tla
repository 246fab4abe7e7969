----------------------------- MODULE DataLoader -----------------------------
(***************************************************************************)
(* DataLoader of src/data_loader.cpp: a text file is read twice, first to  *)
(* count fields and rows (RunThroughFile), then to fill two arrays that    *)
(* were allocated from those counts (AllocateData).  The two passes parse  *)
(* a row differently - the second takes the label out of the row first -   *)
(* and everything after the first pass trusts its counts, which are        *)
(* unsigned int and wrap around.                                           *)
(*                                                                         *)
(* A file is a sequence of characters: natural numbers stand for the text  *)
(* of numbers, negative codes for the other characters.  One action is one *)
(* turn of a loop of the code.                                             *)
(* main loads twice with one DataLoader object: the training file, then    *)
(* the validation file.                                                    *)
(***************************************************************************)
EXTENDS UnsignedInt, Sequences, FiniteSetsExt

CONSTANTS
    FeatureLen,  \* the value hard coded into mFeatureLen (55)
    NumLoads     \* the number of LoadData calls main makes (2)

ASSUME LoaderAssumption ==
    /\ FeatureLen \in Nat \ {0}
    /\ NumLoads \in Nat \ {0}

VARIABLES
    pc,              \* where the loader is
    file, pos,       \* the open FILE: its text and its position
    mNumFloats, mNumFeatures, mFeatureLen,
    pData, pLabel,   \* the floats written to the arrays, in the order of the writes
    dataCap,         \* the number of floats allocated for pData
    loaded           \* what main has after each LoadData and ReturnStats

loaderVars == <<pc, file, pos, mNumFloats, mNumFeatures, mFeatureLen,
                pData, pLabel, dataCap, loaded>>

COMMA == -1
NEWLINE == -2
SPACE == -3
WORD == -4     \* text that is not a number
EOF == -5      \* what fgetc answers at the end of the file
Blank == {NEWLINE, SPACE}

(* The states in which a load has ended for good. *)
Failed == {"hang", "abort", "crash"}

-----------------------------------------------------------------------------
(* Peek: the next character, which stays in the file. *)
Peek(p) == IF p <= Len(file) THEN file[p] ELSE EOF

(* ReadFloat consumes everything up to the next comma.  Without one it never *)
(* returns: fgetc goes on answering EOF.                                     *)
Comma(p) == {i \in p .. Len(file) : file[i] = COMMA}
ReadReturns(p) == Comma(p) # {}
AfterFloat(p) == Min(Comma(p)) + 1

(* Where a loop over blanks stops. *)
SkipBlanks(p) == Min({i \in p .. Len(file) + 1 : Peek(i) \notin Blank})

(* atof on that text: leading blanks, the end of the line before included,  *)
(* are skipped; text that does not start with a number is 0.                *)
ReadFloat(p) == LET c == Peek(SkipBlanks(p)) IN IF c >= 0 THEN c ELSE 0

LoaderInit ==
    /\ pc = "idle"
    /\ file = <<>> /\ pos = 1
    /\ mNumFloats = 0 /\ mNumFeatures = 0 /\ mFeatureLen = 0
    /\ pData = <<>> /\ pLabel = <<>> /\ dataCap = 0
    /\ loaded = <<>>

OpenNoReset(f) ==  \* deviation: the counters go on from the load before
    /\ pc = "idle"
    /\ Len(loaded) < NumLoads
    /\ file' = f /\ pos' = 1
    /\ mFeatureLen' = FeatureLen
    /\ UNCHANGED <<mNumFloats, mNumFeatures>>
    /\ pData' = <<>> /\ pLabel' = <<>> /\ dataCap' = 0
    /\ pc' = IF f = <<>> THEN "allocate" ELSE "count"
    /\ UNCHANGED loaded

(* LoadData up to the call of RunThroughFile, and the reset that begins it. *)
Open(f) ==
    /\ pc = "idle"
    /\ Len(loaded) < NumLoads
    /\ file' = f /\ pos' = 1
    /\ mFeatureLen' = FeatureLen
    /\ mNumFloats' = 0 /\ mNumFeatures' = 0
    /\ pData' = <<>> /\ pLabel' = <<>> /\ dataCap' = 0
    /\ pc' = IF f = <<>> THEN "allocate" ELSE "count"
    /\ UNCHANGED loaded

(* fopen fails: fgetpos dereferences the NULL stream before it is tested.   *)
OpenMissing ==
    /\ pc = "idle"
    /\ Len(loaded) < NumLoads
    /\ mFeatureLen' = FeatureLen
    /\ pc' = "crash"
    /\ UNCHANGED <<file, pos, mNumFloats, mNumFeatures, pData, pLabel, dataCap, loaded>>

(* RunThroughFile, the inner loop: one field. *)
CountFloat ==
    /\ pc = "count"
    /\ ReadReturns(pos)
    /\ pos' = AfterFloat(pos)
    /\ mNumFloats' = UInt(mNumFloats + 1)
    /\ pc' = IF Peek(pos') = NEWLINE THEN "countRow" ELSE "count"
    /\ UNCHANGED <<file, mNumFeatures, mFeatureLen, pData, pLabel, dataCap, loaded>>

(* RunThroughFile, the end of a row and the test of the outer loop. *)
CountRow ==
    /\ pc = "countRow"
    /\ pos' = SkipBlanks(pos)
    /\ mNumFeatures' = UInt(mNumFeatures + 1)
    /\ pc' = IF Peek(pos') = EOF THEN "allocate" ELSE "count"
    /\ UNCHANGED <<file, mNumFloats, mFeatureLen, pData, pLabel, dataCap, loaded>>

AllocateTransposed ==  \* deviation: rows and row length swapped
    /\ pc = "allocate"
    /\ IF mNumFeatures = 0
       THEN /\ pc' = "crash"
            /\ UNCHANGED <<pos, dataCap>>
       ELSE /\ dataCap' = UInt((mNumFloats \div mNumFeatures) * (mNumFeatures - 1))
            /\ pos' = 1
            /\ pc' = "label"
    /\ UNCHANGED <<file, mNumFloats, mNumFeatures, mFeatureLen, pData, pLabel, loaded>>

(* LoadData between the passes: the allocations and fsetpos.  Unsigned      *)
(* division by a zero row count traps.                                      *)
Allocate ==
    /\ pc = "allocate"
    /\ IF mNumFeatures = 0
       THEN /\ pc' = "crash"
            /\ UNCHANGED <<pos, dataCap>>
       ELSE /\ dataCap' = UInt((mNumFloats \div mNumFeatures - 1) * mNumFeatures)
            /\ pos' = 1
            /\ pc' = "label"
    /\ UNCHANGED <<file, mNumFloats, mNumFeatures, mFeatureLen, pData, pLabel, loaded>>

(* dataFloatCount and featureCount, the indices of AllocateData: the k-th   *)
(* float written to an array w goes to index UInt(k - 1), and what the      *)
(* array holds in the end is the last float written to each index.          *)
Count(w) == UInt(Len(w))
Stored(w) == [i \in 1 .. Min({Len(w), UIntMod}) |->
                 w[Max({k \in DOMAIN w : UInt(k - 1) = i - 1})]]

(* A write beyond an array either goes unnoticed or faults. *)
Written(inBounds, next) ==
    \/ pc' = next
    \/ ~inBounds /\ pc' = "crash"

(* AllocateData, the beginning of a row: its first field is the label. *)
ReadLabel ==
    /\ pc = "label"
    /\ ReadReturns(pos)
    /\ pos' = AfterFloat(pos)
    /\ pLabel' = Append(pLabel, ReadFloat(pos))
    /\ Written(Count(pLabel) < mNumFeatures, "data")
    /\ UNCHANGED <<file, mNumFloats, mNumFeatures, mFeatureLen, pData, dataCap, loaded>>

(* AllocateData, the inner loop: always at least one field per row. *)
ReadDatum ==
    /\ pc = "data"
    /\ ReadReturns(pos)
    /\ pos' = AfterFloat(pos)
    /\ pData' = Append(pData, ReadFloat(pos))
    /\ Written(Count(pData) < dataCap, IF Peek(pos') = NEWLINE THEN "dataRow" ELSE "data")
    /\ UNCHANGED <<file, mNumFloats, mNumFeatures, mFeatureLen, pLabel, dataCap, loaded>>

(* AllocateData, the end of a row and the test of the outer loop. *)
DataRow ==
    /\ pc = "dataRow"
    /\ pos' = SkipBlanks(pos)
    /\ pc' = IF Peek(pos') = EOF THEN "assert" ELSE "label"
    /\ UNCHANGED <<file, mNumFloats, mNumFeatures, mFeatureLen, pData, pLabel, dataCap, loaded>>

(* The two assertions at the end of AllocateData. *)
CountsAgree ==
    /\ UInt(Count(pData) + mNumFeatures) = mNumFloats
    /\ Count(pLabel) = mNumFeatures

CheckCounts ==
    /\ pc = "assert"
    /\ pc' = IF CountsAgree THEN "loaded" ELSE "abort"
    /\ UNCHANGED <<file, pos, mNumFloats, mNumFeatures, mFeatureLen, pData, pLabel, dataCap, loaded>>

(* ReadFloat at the end of the file: do ... while (cur != ',') for ever. *)
Hang ==
    /\ pc \in {"count", "label", "data"}
    /\ ~ReadReturns(pos)
    /\ pc' = "hang"
    /\ UNCHANGED <<file, pos, mNumFloats, mNumFeatures, mFeatureLen, pData, pLabel, dataCap, loaded>>

(* main takes the arrays and asks for the statistics. *)
ReturnStats ==
    /\ pc = "loaded"
    /\ loaded' = Append(loaded, [data |-> Stored(pData), label |-> Stored(pLabel), cap |-> dataCap,
                                 featureLen |-> mFeatureLen, count |-> mNumFeatures,
                                 numFloats |-> mNumFloats])
    /\ pc' = "idle"
    /\ UNCHANGED <<file, pos, mNumFloats, mNumFeatures, mFeatureLen, pData, pLabel, dataCap>>

(* What the loader does once a file is open. *)
LoaderStep == CountFloat \/ CountRow \/ Allocate \/ ReadLabel \/ ReadDatum \/ DataRow
                 \/ CheckCounts \/ Hang \/ ReturnStats
=============================================================================
