-------------------------------- MODULE Lists -------------------------------
(***************************************************************************)
(* The linked lists of the library side by side: what they have in common. *)
(***************************************************************************)
EXTENDS IntrusiveList, IntrusiveDList, FutureList

(* The three kinds of linked lists hold the elements that their operations  *)
(* say, in that order, from whichever end they are walked; elements move    *)
(* between lists, and an iterator that erase returned is still in a list.   *)
ListsAreSequences ==
    /\ ListIsItsSequence
    /\ DListIsItsSequence /\ IteratorIsInAList
    /\ FutureListIsItsSequence
=============================================================================
