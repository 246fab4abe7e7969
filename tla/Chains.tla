------------------------------- MODULE Chains -------------------------------
(***************************************************************************)
(* What a loop that follows a link until it leaves the nodes visits.       *)
(***************************************************************************)

(* The nodes of N on the way along next from a first one until the way      *)
(* leaves N: the smallest set that has the first node and what follows it.  *)
Chain(next, N, first) ==
    {n \in N : \A S \in SUBSET N :
        /\ first \in N => first \in S
        /\ \A x \in S : next[x] \in N => next[x] \in S
        => n \in S}
=============================================================================
