-------------------------------- MODULE Main --------------------------------
(***************************************************************************)
(* The whole program, from the raw exports to the batches CaffeLib is      *)
(* given: parse_data.py and DataLoader (Pipeline) followed by the training *)
(* loop (Trainer) on what DataLoader delivered.  Nothing in the code       *)
(* compares the hard coded mFeatureLen, which cuts the array of floats     *)
(* into rows, with the length of the rows that were read.                  *)
(***************************************************************************)
EXTENDS Pipeline, Trainer

VARIABLE sources  \* history: the rows of the raw file behind each load

mainVars == <<vars, trainerVars, sources>>

MainInit == Init /\ TrainerInit /\ sources = <<>>

(* The rows of a raw file are noted when main opens what was made of it. *)
Prepare ==
    /\ tpc = "load"
    /\ \/ /\ \/ \E r \in RawFiles : StartScript(r)
             \/ ParseLine \/ EndScript \/ Killed \/ LoadMissing \/ Read
          /\ UNCHANGED sources
       \/ /\ Load
          /\ sources' = Append(sources, Rows)
    /\ UNCHANGED trainerVars

(* main has its two data sets: training and validation. *)
BeginTraining ==
    /\ pc = "idle" /\ Len(loaded) = 2
    /\ Begin(loaded[1], loaded[2])
    /\ UNCHANGED <<vars, sources>>

Train == TrainerStep /\ UNCHANGED <<vars, sources>>

Over == (pc \in Failed \/ tpc \in {"exit", "crash"}) /\ UNCHANGED mainVars

MainNext == Prepare \/ BeginTraining \/ Train \/ Over

MainSpec == MainInit /\ [][MainNext]_mainVars

-----------------------------------------------------------------------------
(* The raw files the program is meant for: every row has a label and        *)
(* FeatureLen features, there are enough rows for a batch, and no more      *)
(* fields, labels included, than the loader can count.                      *)
Suitable(rows, n) ==
    /\ n >= MiniBatch
    /\ Countable(rows)
    /\ \A i \in DOMAIN rows : Len(rows[i]) = FeatureLen + 1

(* What DataLoader makes of suitable raw files is usable for training: the  *)
(* array it allocates from its two counts is exactly the array that the     *)
(* training loop indexes with the hard coded row length.                    *)
LoaderDeliversUsable ==
    tpc # "load" =>
        /\ Suitable(sources[1], train.count) => Usable(train)
        /\ Suitable(sources[2], val.count) => Usable(val)

(* Row k of a batch as CaffeLib sees it: a label and featureLen floats. *)
BatchRow(d, k) ==
    LET start == Offset(ref) + k * featureLen
    IN  <<d.label[ref + k + 1]>> \o SubSeq(d.data, start + 1, start + featureLen)

(* Every row of every batch is one row of the raw export, its own label     *)
(* with its own features: for training batches and for validation batches.  *)
BatchIsRawRows ==
    /\ tpc = "gradient" /\ Suitable(sources[1], train.count) =>
           \A k \in 0 .. MiniBatch - 1 : BatchRow(train, k) = sources[1][ref + k + 1]
    /\ tpc = "validate" /\ Suitable(sources[2], val.count) =>
           \A k \in 0 .. MiniBatch - 1 : BatchRow(val, k) = sources[2][ref + k + 1]
=============================================================================
