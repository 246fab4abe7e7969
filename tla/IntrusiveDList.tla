--------------------------- MODULE IntrusiveDList ---------------------------
(***************************************************************************)
(* IntrusiveDList of apsara/stone/containers: a ring of DLinkNodes through *)
(* the elements and a root that belongs to the list.  A node that is in no *)
(* list is a ring of its own, which is why unlinking one twice, as erase   *)
(* followed by the destructor of the node does, is harmless.  Iterators    *)
(* are nodes; the root is end().                                           *)
(***************************************************************************)
EXTENDS Integers, Sequences, FiniteSets, Chains

CONSTANTS
    DElem,
    DListId,
    DRoot,       \* the root nodes
    AutoDelete   \* the template argument: erase deletes the element

DNode == DElem \cup DRoot
NoNode == "none"

(* Each list has a root of its own. *)
OwnRoots(f) == \A l, r \in DListId : l # r => f[l] # f[r]

ASSUME DListAssumption ==
    /\ AutoDelete \in BOOLEAN
    /\ DElem \cap DRoot = {} /\ NoNode \notin DNode
    /\ \E f \in [DListId -> DRoot] : OwnRoots(f)

VARIABLES
    dPrev, dNext,     \* the DLinkNodes of elements and roots
    mRoot, dCount,    \* mRoot and mCount of each list
    it,               \* an iterator that insert or erase has returned, or NoNode
    dDeleted,         \* the elements that were deleted
    dSeq              \* history: the elements of each list in order

dlistVars == <<dPrev, dNext, mRoot, dCount, it, dDeleted, dSeq>>

DListInit ==
    /\ dPrev = [n \in DNode |-> n] /\ dNext = dPrev
    /\ mRoot = CHOOSE f \in [DListId -> DRoot] : OwnRoots(f)
    /\ dCount = [l \in DListId |-> 0]
    /\ it = NoNode /\ dDeleted = {}
    /\ dSeq = [l \in DListId |-> <<>>]

DIndex(l, e) == {i \in 1 .. Len(dSeq[l]) : dSeq[l][i] = e}
DSpare(e) == e \notin dDeleted /\ (\A l \in DListId : DIndex(l, e) = {})

(* The position of a node of list l in its sequence, the root behind all. *)
DPosition(l, n) ==
    IF n = mRoot[l] THEN Len(dSeq[l]) + 1 ELSE CHOOSE i \in DIndex(l, n) : TRUE

DNodesOf(l) == {mRoot[l]} \cup {dSeq[l][i] : i \in 1 .. Len(dSeq[l])}

(* insert, in front of curr; push_front and push_back call it with begin()  *)
(* and end().                                                               *)
DInsertLateRead(l, curr, e) ==  \* deviation: curr->prev is written before it is read again
    /\ DSpare(e) /\ curr \in DNodesOf(l)
    /\ dPrev' = [dPrev EXCEPT ![curr] = e, ![e] = e]
    /\ dNext' = [dNext EXCEPT ![e] = curr]
    /\ dCount' = [dCount EXCEPT ![l] = @ + 1]
    /\ it' = e
    /\ dSeq' = [dSeq EXCEPT ![l] = SubSeq(@, 1, DPosition(l, curr) - 1) \o <<e>>
                                     \o SubSeq(@, DPosition(l, curr), Len(@))]
    /\ UNCHANGED <<mRoot, dDeleted>>

DInsert(l, curr, e) ==
    /\ DSpare(e) /\ curr \in DNodesOf(l)
    /\ dPrev' = [dPrev EXCEPT ![e] = dPrev[curr], ![curr] = e]
    /\ dNext' = [dNext EXCEPT ![e] = curr, ![dPrev[curr]] = e]
    /\ dCount' = [dCount EXCEPT ![l] = @ + 1]
    /\ it' = e
    /\ dSeq' = [dSeq EXCEPT ![l] = SubSeq(@, 1, DPosition(l, curr) - 1) \o <<e>>
                                     \o SubSeq(@, DPosition(l, curr), Len(@))]
    /\ UNCHANGED <<mRoot, dDeleted>>

DPushFront(l, e) == DInsert(l, dNext[mRoot[l]], e)
DPushBack(l, e) == DInsert(l, mRoot[l], e)

(* DLinkNode::Unlink: the four assignments in their order. *)
DUnlinked(n) ==
    LET p == dPrev[n]
        x == dNext[n]
    IN  /\ dPrev' = [[dPrev EXCEPT ![x] = p] EXCEPT ![n] = n]
        /\ dNext' = [[dNext EXCEPT ![p] = x] EXCEPT ![n] = n]

DWithout(l, n) ==
    dSeq' = [dSeq EXCEPT ![l] = SubSeq(@, 1, DPosition(l, n) - 1)
                                    \o SubSeq(@, DPosition(l, n) + 1, Len(@))]

(* pop_front, pop_back and unlink take a node out and leave it to the       *)
(* program; the program sees to it that there is one.                       *)
DTakeOut(l, n) ==
    /\ dCount[l] > 0
    /\ DUnlinked(n)
    /\ dCount' = [dCount EXCEPT ![l] = @ - 1]
    /\ DWithout(l, n)
    /\ it' = IF it = n THEN NoNode ELSE it
    /\ UNCHANGED <<mRoot, dDeleted>>

DPopFront(l) == DTakeOut(l, dNext[mRoot[l]])
DPopBack(l) == DTakeOut(l, dPrev[mRoot[l]])
DUnlink(l, e) == DIndex(l, e) # {} /\ DTakeOut(l, e)

(* erase: end() is returned as it is, another node is unlinked and, with    *)
(* AutoDelete, deleted; the iterator returned is the one behind it, read    *)
(* before the node is unlinked.                                             *)
DEraseEnd(l) ==
    /\ it' = mRoot[l]
    /\ UNCHANGED <<dPrev, dNext, mRoot, dCount, dDeleted, dSeq>>

DBehindLate(n) == n              \* deviation: next is read after the node was unlinked
DBehind(n) == dNext[n]

DErase(l, e) ==
    /\ DIndex(l, e) # {}
    /\ it' = DBehind(e)
    /\ DUnlinked(e)
    /\ dDeleted' = IF AutoDelete THEN dDeleted \cup {e} ELSE dDeleted
    /\ dCount' = [dCount EXCEPT ![l] = @ - 1]
    /\ DWithout(l, e)
    /\ UNCHANGED mRoot

DSwap(l, r) ==
    /\ l # r
    /\ mRoot' = [mRoot EXCEPT ![l] = mRoot[r], ![r] = mRoot[l]]
    /\ dCount' = [dCount EXCEPT ![l] = dCount[r], ![r] = dCount[l]]
    /\ dSeq' = [dSeq EXCEPT ![l] = dSeq[r], ![r] = dSeq[l]]
    /\ UNCHANGED <<dPrev, dNext, it, dDeleted>>

(* clear: erase from begin() along next until end() is met. *)
DClear(l) ==
    LET gone == Chain(dNext, DElem, dNext[mRoot[l]])
    IN  /\ dPrev' = [n \in DNode |-> IF n \in gone \cup {mRoot[l]} THEN n ELSE dPrev[n]]
        /\ dNext' = [n \in DNode |-> IF n \in gone \cup {mRoot[l]} THEN n ELSE dNext[n]]
        /\ dDeleted' = IF AutoDelete THEN dDeleted \cup gone ELSE dDeleted
        /\ dCount' = [dCount EXCEPT ![l] = @ - Cardinality(gone)]
        /\ dSeq' = [dSeq EXCEPT ![l] = <<>>]
        /\ it' = IF it \in gone THEN NoNode ELSE it
        /\ UNCHANGED mRoot

DListNext ==
    \E l \in DListId :
        \/ \E e \in DElem : \/ DPushFront(l, e) \/ DPushBack(l, e)
                            \/ DUnlink(l, e) \/ DErase(l, e)
                            \/ it # NoNode /\ DInsert(l, it, e)
        \/ DPopFront(l) \/ DPopBack(l) \/ DEraseEnd(l) \/ DClear(l)
        \/ \E r \in DListId : DSwap(l, r)

DListSpec == DListInit /\ [][DListNext]_dlistVars

-----------------------------------------------------------------------------
(* Each list is the sequence that its operations make it, forwards and      *)
(* backwards, its count is their number, and a node outside every list is a *)
(* ring of its own, so that unlinking it again changes nothing.             *)
DListIsItsSequence ==
    /\ \A l \in DListId :
         LET s == dSeq[l]
             n == Len(s)
             ring == [i \in 0 .. n + 1 |-> IF i \in 1 .. n THEN s[i] ELSE mRoot[l]]
         IN  /\ dCount[l] = n
             /\ \A i \in 0 .. n : dNext[ring[i]] = ring[i + 1] /\ dPrev[ring[i + 1]] = ring[i]
    /\ \A e \in DElem : (\A l \in DListId : DIndex(l, e) = {}) => dNext[e] = e /\ dPrev[e] = e

(* An iterator that was returned and whose element has not been taken out   *)
(* since is a node of one of the lists: it never is a deleted element, and  *)
(* after swap it still is in the list that has its elements now.            *)
IteratorIsInAList == it # NoNode => \E l \in DListId : it \in DNodesOf(l)
=============================================================================
