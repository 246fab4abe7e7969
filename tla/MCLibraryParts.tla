--------------------------- MODULE MCLibraryParts ---------------------------
(***************************************************************************)
(* The containers and views of the library that stand for sequences, and   *)
(* the parts that threads share through locks and static variables, each   *)
(* by itself: a behaviour belongs to one part and leaves the state of the  *)
(* others alone.                                                           *)
(***************************************************************************)
EXTENDS Lists, FreeList, StringPiece,
        Locks, Singleton, Logging

CONSTANTS l1, l2, t1, t2

VARIABLE part

Texts == {<<>>, <<1, 2, 1, 2>>, <<1, 1, 2>>, <<2, 1, 1, 1>>}
Patterns == {<<>>, <<1>>, <<2>>, <<1, 2>>, <<1, 1>>, <<2, 1, 1>>, <<3>>}

(* Two locks of any kinds; which of the two is which does not matter. *)
KindOrder == <<"simple", "restrict", "recursive", "adaptive", "spin", "rw", "null">>
Ordered == \E i, j \in 1 .. 7 : i <= j /\ lockKind[l1] = KindOrder[i] /\ lockKind[l2] = KindOrder[j]

(* One initial state for the parts that a behaviour does not belong to. *)
LocksRest == lockKind[l1] = "null" /\ lockKind[l2] = "null"
LoggingRest == form = "if" /\ level = 2 /\ mMinLevel = 1
PieceRest == text = <<>>

Init ==
    /\ part \in {"list", "dlist", "futurelist", "pool", "piece", "locks", "singleton", "logging"}
    /\ ListInit /\ DListInit /\ FutureListInit /\ PoolInit /\ PieceInit
    /\ LocksInit /\ SingletonInit /\ LoggingInit
    /\ IF part = "locks" THEN Ordered ELSE LocksRest
    /\ part # "logging" => LoggingRest
    /\ part # "piece" => PieceRest

(* What a step of the part p leaves alone. *)
Rest(p) ==
    /\ UNCHANGED part
    /\ p # "list" => UNCHANGED listVars
    /\ p # "dlist" => UNCHANGED dlistVars
    /\ p # "futurelist" => UNCHANGED futureListVars
    /\ p # "pool" => UNCHANGED poolVars
    /\ p # "piece" => UNCHANGED pieceVars
    /\ p # "locks" => UNCHANGED lockVars
    /\ p # "singleton" => UNCHANGED singletonVars
    /\ p # "logging" => UNCHANGED logVars

Next ==
    \/ part = "list" /\ ListNext /\ Rest("list")
    \/ part = "dlist" /\ DListNext /\ Rest("dlist")
    \/ part = "futurelist" /\ FutureListNext /\ Rest("futurelist")
    \/ part = "pool" /\ PoolNext /\ Rest("pool")
    \/ part = "piece" /\ PieceNext /\ Rest("piece")
    \/ part = "locks" /\ LocksNext /\ Rest("locks")
    \/ part = "singleton" /\ SingletonNext /\ Rest("singleton")
    \/ part = "logging" /\ LoggingNext /\ Rest("logging")

vars == <<part, listVars, dlistVars, futureListVars, poolVars, pieceVars, lockVars,
          singletonVars, logVars>>

Spec == Init /\ [][Next]_vars
=============================================================================
