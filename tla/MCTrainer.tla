------------------------------ MODULE MCTrainer -----------------------------
(* Shapes of data sets for TLC: from no row to more floats than an unsigned  *)
(* int can index, with arrays of the right size or one float off.            *)
EXTENDS Trainer

CONSTANTS Counts, FeatureLens

Shapes == {[count |-> n, featureLen |-> w, cap |-> c] :
             n \in Counts, w \in FeatureLens, c \in 0 .. 18}
MCDataSets == {d \in Shapes : d.cap - d.count * d.featureLen \in {-1, 0, 1}}
=============================================================================
