---------------------------- MODULE IntrusiveList ---------------------------
(***************************************************************************)
(* IntrusiveList of apsara/stone/containers: a singly linked list through  *)
(* a LinkNode member of its elements.  push_back does not write next of    *)
(* the new last element: it relies on whoever used the node before having  *)
(* left it null.  Elements move between lists, are swapped with their list *)
(* and are deleted by clear.                                               *)
(***************************************************************************)
EXTENDS Integers, Sequences, FiniteSets

CONSTANTS ListElem, ListId

Nil == "null"

ASSUME ListAssumption == Nil \notin ListElem

VARIABLES
    sLink,     \* sLink[e]: the link of e, null (0 in the code) at the end
    sHead, sTail, sCount,   \* mHead, mTail and mCount of each list
    sDeleted,  \* the elements that clear has deleted
    sSeq       \* history: the elements of each list in order

listVars == <<sLink, sHead, sTail, sCount, sDeleted, sSeq>>

ListInit ==
    /\ sLink = [e \in ListElem |-> Nil]
    /\ sHead = [l \in ListId |-> Nil] /\ sTail = sHead
    /\ sCount = [l \in ListId |-> 0]
    /\ sDeleted = {} /\ sSeq = [l \in ListId |-> <<>>]

(* An element that the program may put into a list. *)
ListSpare(e) == e \notin sDeleted /\ (\A l \in ListId : \A i \in 1 .. Len(sSeq[l]) : sSeq[l][i] # e)

ListPushFront(l, e) ==
    /\ ListSpare(e)
    /\ sLink' = [sLink EXCEPT ![e] = sHead[l]]
    /\ sHead' = [sHead EXCEPT ![l] = e]
    /\ sCount' = [sCount EXCEPT ![l] = @ + 1]
    /\ sTail' = IF sCount[l] + 1 = 1 THEN [sTail EXCEPT ![l] = e] ELSE sTail
    /\ sSeq' = [sSeq EXCEPT ![l] = <<e>> \o @]
    /\ UNCHANGED sDeleted

ListPushBack(l, e) ==
    /\ ListSpare(e)
    /\ sLink' = IF sTail[l] # Nil THEN [sLink EXCEPT ![sTail[l]] = e] ELSE sLink
    /\ sTail' = [sTail EXCEPT ![l] = e]
    /\ sCount' = [sCount EXCEPT ![l] = @ + 1]
    /\ sHead' = IF sCount[l] + 1 = 1 THEN [sHead EXCEPT ![l] = e] ELSE sHead
    /\ sSeq' = [sSeq EXCEPT ![l] = Append(@, e)]
    /\ UNCHANGED sDeleted

(* LinkNode::Unlink, in pop_front and in the destructor of the node. *)
ListUnlinkKeeps(f, e) == f                    \* deviation: the link stays
ListUnlink(f, e) == [f EXCEPT ![e] = Nil]

(* pop_front of a list that is not empty, as its callers see to. *)
ListPopFront(l) ==
    /\ sCount[l] > 0
    /\ sHead' = [sHead EXCEPT ![l] = sLink[sHead[l]]]
    /\ sLink' = ListUnlink(sLink, sHead[l])
    /\ sCount' = [sCount EXCEPT ![l] = @ - 1]
    /\ sTail' = IF sCount[l] - 1 = 0 THEN [sTail EXCEPT ![l] = Nil] ELSE sTail
    /\ sSeq' = [sSeq EXCEPT ![l] = Tail(@)]
    /\ UNCHANGED sDeleted

ListSwap(l, r) ==
    /\ l # r
    /\ sHead' = [sHead EXCEPT ![l] = sHead[r], ![r] = sHead[l]]
    /\ sTail' = [sTail EXCEPT ![l] = sTail[r], ![r] = sTail[l]]
    /\ sCount' = [sCount EXCEPT ![l] = sCount[r], ![r] = sCount[l]]
    /\ sSeq' = [sSeq EXCEPT ![l] = sSeq[r], ![r] = sSeq[l]]
    /\ UNCHANGED <<sLink, sDeleted>>

(* clear and the destructor: front, pop_front and delete until the count is *)
(* 0; the elements met are those that the links lead to.                    *)
ListReached(l) ==
    LET at[i \in 1 .. sCount[l]] ==
            IF i = 1 THEN sHead[l]
            ELSE IF at[i - 1] = Nil THEN Nil ELSE sLink[at[i - 1]]
    IN  {at[i] : i \in 1 .. sCount[l]}

ListClear(l) ==
    /\ sDeleted' = sDeleted \cup ListReached(l)
    /\ sLink' = [e \in ListElem |-> IF e \in ListReached(l) THEN Nil ELSE sLink[e]]
    /\ sHead' = [sHead EXCEPT ![l] = Nil] /\ sTail' = [sTail EXCEPT ![l] = Nil]
    /\ sCount' = [sCount EXCEPT ![l] = 0]
    /\ sSeq' = [sSeq EXCEPT ![l] = <<>>]

ListNext ==
    \E l \in ListId :
        \/ \E e \in ListElem : ListPushFront(l, e) \/ ListPushBack(l, e)
        \/ ListPopFront(l) \/ ListClear(l)
        \/ \E r \in ListId : ListSwap(l, r)

ListSpec == ListInit /\ [][ListNext]_listVars

-----------------------------------------------------------------------------
(* Each list is the sequence that its operations make it: from the head the *)
(* links lead through exactly these elements to a null link, the tail is    *)
(* the last one, the count is their number.  Nodes outside every list have  *)
(* a null link, without which push_back would append more than its element. *)
ListIsItsSequence ==
    /\ \A l \in ListId :
         LET s == sSeq[l]
             n == Len(s)
         IN  /\ sCount[l] = n
             /\ sHead[l] = (IF n = 0 THEN Nil ELSE s[1])
             /\ sTail[l] = (IF n = 0 THEN Nil ELSE s[n])
             /\ \A i \in 1 .. n : sLink[s[i]] = IF i = n THEN Nil ELSE s[i + 1]
    /\ \A e \in ListElem : ListSpare(e) => sLink[e] = Nil
=============================================================================
