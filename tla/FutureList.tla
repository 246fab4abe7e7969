----------------------------- MODULE FutureList -----------------------------
(***************************************************************************)
(* The lists of FutureGroup in apsara/stone/threading/sync/future.h: the   *)
(* pending and the completed futures of a group, each a doubly linked list *)
(* between two sentinels that are members of the list.  A future moves     *)
(* from one to the other when it completes.                                *)
(***************************************************************************)
EXTENDS Naturals, Sequences

CONSTANTS
    GroupFuture,
    GroupList      \* the lists of a group

VARIABLES
    fPrev, fNext,  \* the links of futures and sentinels
    fSeq           \* history: the futures of each list in order

futureListVars == <<fPrev, fNext, fSeq>>

HeadOf(l) == <<l, "head">>
TailOf(l) == <<l, "tail">>
Item(f) == <<f, "future">>
FNode == {HeadOf(l) : l \in GroupList} \cup {TailOf(l) : l \in GroupList}
           \cup {Item(f) : f \in GroupFuture}
NoLink == <<"NULL", "NULL">>

(* Reset *)
FutureListInit ==
    /\ fPrev = [n \in FNode |-> IF \E l \in GroupList : n = TailOf(l) THEN HeadOf(n[1]) ELSE NoLink]
    /\ fNext = [n \in FNode |-> IF \E l \in GroupList : n = HeadOf(l) THEN TailOf(n[1]) ELSE NoLink]
    /\ fSeq = [l \in GroupList |-> <<>>]

FutureListEmpty(l) == fNext[HeadOf(l)] = TailOf(l)

PushBackLinkFirst(l, f) ==  \* deviation: the tail is linked before its predecessor is used
    /\ \A k \in GroupList : \A i \in 1 .. Len(fSeq[k]) : fSeq[k][i] # f
    /\ fPrev' = [fPrev EXCEPT ![Item(f)] = Item(f), ![TailOf(l)] = Item(f)]
    /\ fNext' = [fNext EXCEPT ![Item(f)] = TailOf(l)]
    /\ fSeq' = [fSeq EXCEPT ![l] = Append(@, f)]

PushBack(l, f) ==
    /\ \A k \in GroupList : \A i \in 1 .. Len(fSeq[k]) : fSeq[k][i] # f
    /\ fPrev' = [fPrev EXCEPT ![Item(f)] = fPrev[TailOf(l)], ![TailOf(l)] = Item(f)]
    /\ fNext' = [fNext EXCEPT ![Item(f)] = TailOf(l), ![fPrev[TailOf(l)]] = Item(f)]
    /\ fSeq' = [fSeq EXCEPT ![l] = Append(@, f)]

(* RemoveFront returns NULL for an empty list. *)
RemoveFront(l) ==
    /\ ~FutureListEmpty(l)
    /\ LET f == fNext[HeadOf(l)] IN
       /\ fNext' = [fNext EXCEPT ![HeadOf(l)] = fNext[f], ![f] = NoLink]
       /\ fPrev' = [fPrev EXCEPT ![fNext[f]] = HeadOf(l), ![f] = NoLink]
       /\ fSeq' = [fSeq EXCEPT ![l] = Tail(@)]

FutureListNext ==
    \E l \in GroupList : RemoveFront(l) \/ (\E f \in GroupFuture : PushBack(l, f))

FutureListSpec == FutureListInit /\ [][FutureListNext]_futureListVars

-----------------------------------------------------------------------------
(* Each list is the sequence that its operations make it, in both           *)
(* directions between its own sentinels, and Empty says so; a future that   *)
(* was removed points nowhere.                                              *)
FutureListIsItsSequence ==
    /\ \A l \in GroupList :
         LET n == Len(fSeq[l])
             line == [i \in 0 .. n + 1 |-> IF i = 0 THEN HeadOf(l)
                                           ELSE IF i = n + 1 THEN TailOf(l) ELSE Item(fSeq[l][i])]
         IN  /\ \A i \in 0 .. n : fNext[line[i]] = line[i + 1] /\ fPrev[line[i + 1]] = line[i]
             /\ FutureListEmpty(l) <=> n = 0
    /\ \A f \in GroupFuture : (\A l \in GroupList : \A i \in 1 .. Len(fSeq[l]) : fSeq[l][i] # f)
         => fNext[Item(f)] = NoLink /\ fPrev[Item(f)] = NoLink
=============================================================================
