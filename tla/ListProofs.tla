----------------------------- MODULE ListProofs -----------------------------
(***************************************************************************)
(* The linked lists of the library, for every set of elements and lists:   *)
(* the links, the ends and the counts are those of the sequences that the  *)
(* operations say.  Each invariant says of the links what the property     *)
(* says, and besides that no element has two positions, in one list or in  *)
(* two, without which an operation on one list could break another.        *)
(***************************************************************************)
EXTENDS Lists, LibraryLemmas

-----------------------------------------------------------------------------
(* The linked lists.  What an operation does to the elements of a list is   *)
(* the same for all of them: one is added at a position, or taken away,     *)
(* which is the reverse, or the list is swapped or cleared.  Over all lists *)
(* no element has two positions.                                            *)
IsAdded(s, n, r, p, e) ==
    /\ p \in 1 .. n + 1 /\ r[p] = e
    /\ \A i \in 1 .. p - 1 : r[i] = s[i]
    /\ \A i \in p .. n : r[i + 1] = s[i]

Apart(Q) ==
    \A l, r \in DOMAIN Q : \A i \in 1 .. Len(Q[l]), j \in 1 .. Len(Q[r]) :
        Q[l][i] = Q[r][j] => l = r /\ i = j

Within(Q, e) == \E l \in DOMAIN Q : \E i \in 1 .. Len(Q[l]) : Q[l][i] = e
Lengths(Q) == \A l \in DOMAIN Q : Len(Q[l]) \in Nat

(* The list l becomes r. *)
Replaced(Q, l, r, R) == R = [Q EXCEPT ![l] = r]
Swapped(Q, l, r, R) == R = [Q EXCEPT ![l] = Q[r], ![r] = Q[l]]

(* The new element may be at the front, at the end, or between two others. *)
LEMMA AddedWhere ==
    ASSUME NEW s, NEW n \in Nat, NEW r, NEW p, NEW e, IsAdded(s, n, r, p, e)
    PROVE  /\ \A i \in 1 .. n + 1 : i # p => \E j \in 1 .. n : r[i] = s[j] /\ j = (IF i < p THEN i ELSE i - 1)
           /\ \A j \in 1 .. n : r[IF j < p THEN j ELSE j + 1] = s[j] /\ (IF j < p THEN j ELSE j + 1) \in 1 .. n + 1
<1>1. p \in Nat
  BY DEF IsAdded
<1>2. ASSUME NEW i \in 1 .. n + 1, i # p
      PROVE  \E j \in 1 .. n : r[i] = s[j] /\ j = (IF i < p THEN i ELSE i - 1)
  <2>1. CASE i < p
    BY <1>1, <2>1 DEF IsAdded
  <2>2. CASE i > p
    <3>1. i - 1 \in p .. n /\ i - 1 \in 1 .. n /\ (i - 1) + 1 = i
      BY <1>1, <2>2 DEF IsAdded
    <3>2. r[(i - 1) + 1] = s[i - 1]
      BY <3>1 DEF IsAdded
    <3> QED
      BY <1>1, <2>2, <3>1, <3>2
  <2> QED
    BY <1>1, <1>2, <2>1, <2>2
<1>3. ASSUME NEW j \in 1 .. n
      PROVE  r[IF j < p THEN j ELSE j + 1] = s[j] /\ (IF j < p THEN j ELSE j + 1) \in 1 .. n + 1
  <2>1. CASE j < p
    BY <1>1, <2>1 DEF IsAdded
  <2>2. CASE j >= p
    BY <1>1, <2>2 DEF IsAdded
  <2> QED
    BY <1>1, <2>1, <2>2
<1> QED
  BY <1>2, <1>3

(* A spare element is added to one of the lists. *)
LEMMA ApartAdded ==
    ASSUME NEW Q, NEW l \in DOMAIN Q, NEW r, NEW p, NEW e, Lengths(Q), Apart(Q), ~Within(Q, e),
           IsAdded(Q[l], Len(Q[l]), r, p, e), Len(r) = Len(Q[l]) + 1, NEW R, Replaced(Q, l, r, R)
    PROVE  Apart(R) /\ (\A x : Within(R, x) <=> Within(Q, x) \/ x = e)
<1>1. PICK s, n : s = Q[l] /\ n = Len(Q[l])
  OBVIOUS
<1>2. n \in Nat /\ IsAdded(s, n, r, p, e) /\ Len(r) = n + 1
  BY <1>1 DEF Lengths
<1>3. p \in 1 .. n + 1 /\ r[p] = e
  BY <1>2 DEF IsAdded
<1>4. DOMAIN R = DOMAIN Q /\ R[l] = r /\ (\A m \in DOMAIN Q : m # l => R[m] = Q[m])
  BY DEF Replaced
<1>5. \A i \in 1 .. n + 1 : i # p => \E j \in 1 .. n : r[i] = s[j] /\ j = (IF i < p THEN i ELSE i - 1)
  BY <1>2, AddedWhere
<1>6. \A j \in 1 .. n : r[IF j < p THEN j ELSE j + 1] = s[j] /\ (IF j < p THEN j ELSE j + 1) \in 1 .. n + 1
  BY <1>2, AddedWhere
<1>7. \A m \in DOMAIN Q : \A j \in 1 .. Len(Q[m]) : Q[m][j] # e
  BY DEF Within
<1>8. \A i \in 1 .. n, j \in 1 .. n : s[i] = s[j] => i = j
  BY <1>1 DEF Apart
<1>9. \A m \in DOMAIN Q : m # l => \A i \in 1 .. n, j \in 1 .. Len(Q[m]) : s[i] # Q[m][j]
  BY <1>1 DEF Apart
<1>10. ASSUME NEW i \in 1 .. n + 1, NEW j \in 1 .. n + 1, r[i] = r[j]
       PROVE  i = j
  <2>1. CASE i = p
    BY <1>1, <1>3, <1>5, <1>7, <1>10, <2>1
  <2>2. CASE j = p
    BY <1>1, <1>3, <1>5, <1>7, <1>10, <2>2
  <2>3. CASE i # p /\ j # p
    <3>1. PICK a \in 1 .. n : r[i] = s[a] /\ a = (IF i < p THEN i ELSE i - 1)
      BY <1>5, <2>3
    <3>2. PICK b \in 1 .. n : r[j] = s[b] /\ b = (IF j < p THEN j ELSE j - 1)
      BY <1>5, <2>3
    <3>3. a = b
      BY <1>8, <1>10, <3>1, <3>2
    <3> QED
      BY <1>2, <1>3, <2>3, <3>1, <3>2, <3>3
  <2> QED
    BY <2>1, <2>2, <2>3
<1>11. ASSUME NEW m \in DOMAIN Q, m # l, NEW i \in 1 .. n + 1, NEW j \in 1 .. Len(Q[m])
       PROVE  r[i] # Q[m][j]
  BY <1>3, <1>5, <1>7, <1>9, <1>11
<1>12. Apart(R)
  <2> SUFFICES ASSUME NEW m \in DOMAIN Q, NEW k \in DOMAIN Q,
                      NEW i \in 1 .. Len(R[m]), NEW j \in 1 .. Len(R[k]), R[m][i] = R[k][j]
               PROVE  m = k /\ i = j
    BY <1>4 DEF Apart
  <2>1. CASE m = l /\ k = l
    BY <1>2, <1>4, <1>10, <2>1
  <2>2. CASE m = l /\ k # l
    BY <1>2, <1>4, <1>11, <2>2
  <2>3. CASE m # l /\ k = l
    BY <1>2, <1>4, <1>11, <2>3
  <2>4. CASE m # l /\ k # l
    BY <1>4, <2>4 DEF Apart
  <2> QED
    BY <2>1, <2>2, <2>3, <2>4
<1>13. ASSUME NEW x, Within(R, x) PROVE Within(Q, x) \/ x = e
  <2>1. PICK m \in DOMAIN Q : \E i \in 1 .. Len(R[m]) : R[m][i] = x
    BY <1>4, <1>13 DEF Within
  <2>2. CASE m = l
    BY <1>1, <1>2, <1>3, <1>4, <1>5, <2>1, <2>2 DEF Within
  <2>3. CASE m # l
    BY <1>4, <2>1, <2>3 DEF Within
  <2> QED
    BY <2>2, <2>3
<1>14. ASSUME NEW x, Within(Q, x) \/ x = e PROVE Within(R, x)
  <2>1. CASE x = e
    BY <1>2, <1>3, <1>4, <2>1 DEF Within
  <2>2. CASE Within(Q, x)
    <3>1. PICK m \in DOMAIN Q : \E i \in 1 .. Len(Q[m]) : Q[m][i] = x
      BY <2>2 DEF Within
    <3>2. CASE m = l
      <4>1. PICK j \in 1 .. n : s[j] = x
        BY <1>1, <1>2, <1>4, <3>1, <3>2
      <4>2. PICK a : a = (IF j < p THEN j ELSE j + 1)
        OBVIOUS
      <4>3. a \in 1 .. n + 1 /\ r[a] = x
        BY <1>6, <4>1, <4>2
      <4> QED
        BY <1>1, <1>2, <1>4, <4>3 DEF Within
    <3>3. CASE m # l
      BY <1>4, <3>1, <3>3 DEF Within
    <3> QED
      BY <3>2, <3>3
  <2> QED
    BY <1>14, <2>1, <2>2
<1> QED
  BY <1>12, <1>13, <1>14

(* An element is taken out of one of the lists. *)
LEMMA ApartTaken ==
    ASSUME NEW Q, NEW l \in DOMAIN Q, NEW r, NEW p, NEW e, Lengths(Q), Apart(Q), Len(r) \in Nat,
           IsAdded(r, Len(r), Q[l], p, e), Len(Q[l]) = Len(r) + 1, NEW R, Replaced(Q, l, r, R)
    PROVE  Apart(R) /\ ~Within(R, e) /\ (\A x : Within(Q, x) <=> Within(R, x) \/ x = e)
<1>1. PICK s, n : s = Q[l] /\ n = Len(r)
  OBVIOUS
<1>2. n \in Nat /\ IsAdded(r, n, s, p, e) /\ Len(s) = n + 1
  BY <1>1
<1>3. p \in 1 .. n + 1 /\ s[p] = e
  BY <1>2 DEF IsAdded
<1>4. DOMAIN R = DOMAIN Q /\ R[l] = r /\ (\A m \in DOMAIN Q : m # l => R[m] = Q[m])
  BY DEF Replaced
<1>5. \A i \in 1 .. n + 1 : i # p => \E j \in 1 .. n : s[i] = r[j] /\ j = (IF i < p THEN i ELSE i - 1)
  BY <1>2, AddedWhere
<1>6. \A j \in 1 .. n : s[IF j < p THEN j ELSE j + 1] = r[j] /\ (IF j < p THEN j ELSE j + 1) \in 1 .. n + 1
  BY <1>2, AddedWhere
<1>7. \A i \in 1 .. n + 1, j \in 1 .. n + 1 : s[i] = s[j] => i = j
  BY <1>1, <1>2 DEF Apart
<1>8. \A m \in DOMAIN Q : m # l => \A i \in 1 .. n + 1, j \in 1 .. Len(Q[m]) : s[i] # Q[m][j]
  BY <1>1, <1>2 DEF Apart
<1>9. ASSUME NEW j \in 1 .. n PROVE r[j] # e
  BY <1>2, <1>3, <1>6, <1>7
<1>10. ASSUME NEW i \in 1 .. n, NEW j \in 1 .. n, r[i] = r[j] PROVE i = j
  <2>1. PICK a, b : a = (IF i < p THEN i ELSE i + 1) /\ b = (IF j < p THEN j ELSE j + 1)
    OBVIOUS
  <2>2. a \in 1 .. n + 1 /\ b \in 1 .. n + 1 /\ s[a] = s[b]
    BY <1>6, <1>10, <2>1
  <2>3. a = b
    BY <1>7, <2>2
  <2> QED
    BY <1>2, <1>3, <2>1, <2>3
<1>11. ASSUME NEW m \in DOMAIN Q, m # l, NEW i \in 1 .. n, NEW j \in 1 .. Len(Q[m])
       PROVE  r[i] # Q[m][j]
  BY <1>6, <1>8, <1>11
<1>12. Apart(R)
  <2> SUFFICES ASSUME NEW m \in DOMAIN Q, NEW k \in DOMAIN Q,
                      NEW i \in 1 .. Len(R[m]), NEW j \in 1 .. Len(R[k]), R[m][i] = R[k][j]
               PROVE  m = k /\ i = j
    BY <1>4 DEF Apart
  <2>1. CASE m = l /\ k = l
    BY <1>1, <1>4, <1>10, <2>1
  <2>2. CASE m = l /\ k # l
    BY <1>1, <1>4, <1>11, <2>2
  <2>3. CASE m # l /\ k = l
    BY <1>1, <1>4, <1>11, <2>3
  <2>4. CASE m # l /\ k # l
    BY <1>4, <2>4 DEF Apart
  <2> QED
    BY <2>1, <2>2, <2>3, <2>4
<1>13. ASSUME NEW m \in DOMAIN Q, NEW i \in 1 .. Len(R[m]) PROVE R[m][i] # e
  <2>1. CASE m = l
    BY <1>1, <1>4, <1>9, <2>1
  <2>2. CASE m # l
    BY <1>3, <1>4, <1>8, <2>2
  <2> QED
    BY <2>1, <2>2
<1>14. ASSUME NEW x, Within(Q, x) PROVE Within(R, x) \/ x = e
  <2>1. PICK m \in DOMAIN Q : \E i \in 1 .. Len(Q[m]) : Q[m][i] = x
    BY <1>14 DEF Within
  <2>2. CASE m = l
    BY <1>1, <1>2, <1>3, <1>4, <1>5, <2>1, <2>2 DEF Within
  <2>3. CASE m # l
    BY <1>4, <2>1, <2>3 DEF Within
  <2> QED
    BY <2>2, <2>3
<1>15. ASSUME NEW x, Within(R, x) \/ x = e PROVE Within(Q, x)
  <2>1. CASE x = e
    BY <1>1, <1>2, <1>3, <2>1 DEF Within
  <2>2. CASE Within(R, x)
    <3>1. PICK m \in DOMAIN Q : \E i \in 1 .. Len(R[m]) : R[m][i] = x
      BY <1>4, <2>2 DEF Within
    <3>2. CASE m = l
      <4>1. PICK j \in 1 .. n : r[j] = x
        BY <1>1, <1>2, <1>4, <3>1, <3>2
      <4>2. PICK a : a = (IF j < p THEN j ELSE j + 1)
        OBVIOUS
      <4>3. a \in 1 .. n + 1 /\ s[a] = x
        BY <1>6, <4>1, <4>2
      <4> QED
        BY <1>1, <1>2, <1>4, <4>3 DEF Within
    <3>3. CASE m # l
      BY <1>4, <3>1, <3>3 DEF Within
    <3> QED
      BY <3>2, <3>3
  <2> QED
    BY <1>15, <2>1, <2>2
<1>16. ~Within(R, e)
  BY <1>4, <1>13 DEF Within
<1> QED
  BY <1>12, <1>14, <1>15, <1>16

(* Two lists are swapped. *)
LEMMA ApartSwapped ==
    ASSUME NEW Q, NEW l \in DOMAIN Q, NEW r \in DOMAIN Q, l # r, Apart(Q),
           NEW R, Swapped(Q, l, r, R)
    PROVE  Apart(R) /\ (\A x : Within(R, x) <=> Within(Q, x))
<1> DEFINE F(m) == IF m = l THEN r ELSE IF m = r THEN l ELSE m
<1>1. DOMAIN R = DOMAIN Q /\ (\A m \in DOMAIN Q : R[m] = Q[F(m)] /\ F(m) \in DOMAIN Q)
  BY DEF Swapped
<1>2. \A m, k \in DOMAIN Q : F(m) = F(k) => m = k
  OBVIOUS
<1>3. \A m \in DOMAIN Q : F(F(m)) = m /\ Q[m] = R[F(m)]
  BY DEF Swapped
<1> HIDE DEF F
<1>4. Apart(R)
  BY <1>1, <1>2 DEF Apart
<1>5. \A x : Within(R, x) <=> Within(Q, x)
  BY <1>1, <1>3 DEF Within
<1> QED
  BY <1>4, <1>5

(* A list is cleared. *)
LEMMA ApartCleared ==
    ASSUME NEW Q, NEW l \in DOMAIN Q, Apart(Q), NEW R, Replaced(Q, l, <<>>, R)
    PROVE  /\ Apart(R)
           /\ \A x : Within(R, x) <=> Within(Q, x) /\ (\A i \in 1 .. Len(Q[l]) : Q[l][i] # x)
<1>1. DOMAIN R = DOMAIN Q /\ R[l] = <<>> /\ (\A m \in DOMAIN Q : m # l => R[m] = Q[m])
  BY DEF Replaced
<1>2. 1 .. Len(R[l]) = {}
  BY <1>1
<1>3. Apart(R)
  BY <1>1, <1>2 DEF Apart
<1>4. ASSUME NEW x, Within(R, x) PROVE Within(Q, x) /\ (\A i \in 1 .. Len(Q[l]) : Q[l][i] # x)
  <2>1. PICK m \in DOMAIN Q : m # l /\ \E i \in 1 .. Len(Q[m]) : Q[m][i] = x
    BY <1>1, <1>2, <1>4 DEF Within
  <2> QED
    BY <2>1 DEF Within, Apart
<1>5. ASSUME NEW x, Within(Q, x), \A i \in 1 .. Len(Q[l]) : Q[l][i] # x PROVE Within(R, x)
  BY <1>1, <1>5 DEF Within
<1> QED
  BY <1>3, <1>4, <1>5

(* IntrusiveList: types, no element in two places, each list linked as its  *)
(* sequence, and null links outside.                                        *)
LinkTo == ListElem \cup {Nil}
ListTypes ==
    /\ sLink \in [ListElem -> LinkTo] /\ sHead \in [ListId -> LinkTo] /\ sTail \in [ListId -> LinkTo]
    /\ sCount \in [ListId -> Nat] /\ sDeleted \in SUBSET ListElem
    /\ sSeq \in [ListId -> Seq(ListElem)]

Linked(hd, tl, c, link, s) ==
    /\ c = Len(s)
    /\ hd = (IF Len(s) = 0 THEN Nil ELSE s[1])
    /\ tl = (IF Len(s) = 0 THEN Nil ELSE s[Len(s)])
    /\ \A i \in 1 .. Len(s) : link[s[i]] = IF i = Len(s) THEN Nil ELSE s[i + 1]

SpareLinks == \A e \in ListElem : e \notin sDeleted /\ ~Within(sSeq, e) => sLink[e] = Nil

ListInv ==
    /\ ListTypes /\ Apart(sSeq) /\ SpareLinks
    /\ \A e \in sDeleted : ~Within(sSeq, e)
    /\ \A l \in ListId : Linked(sHead[l], sTail[l], sCount[l], sLink, sSeq[l])

(* A spare element is in no list. *)
LEMMA SpareIsOutside ==
    ASSUME ListTypes, NEW e
    PROVE  ListSpare(e) <=> e \notin sDeleted /\ ~Within(sSeq, e)
BY DEF ListSpare, Within, ListTypes

(* The invariant is the property, and more. *)
LEMMA ListInvImplies == ListInv => ListIsItsSequence
<1> SUFFICES ASSUME ListInv PROVE ListIsItsSequence
  OBVIOUS
<1>1. \A e \in ListElem : ListSpare(e) => sLink[e] = Nil
  BY SpareIsOutside DEF ListInv, SpareLinks
<1> QED
  BY <1>1 DEF ListIsItsSequence, ListInv, Linked

(* The lists are empty at first.                                            *)
LEMMA ListInitInv == ListInit => ListInv
<1> SUFFICES ASSUME ListInit PROVE ListInv
  OBVIOUS
<1>1. <<>> \in Seq(ListElem) /\ Len(<<>>) = 0
  BY EmptySeq
<1>2. sSeq = [l \in ListId |-> <<>>] /\ DOMAIN sSeq = ListId /\ (\A l \in ListId : sSeq[l] = <<>> /\ Len(sSeq[l]) = 0)
  BY <1>1 DEF ListInit
<1>3. ListTypes
  BY <1>1 DEF ListInit, ListTypes, LinkTo
<1>4. Apart(sSeq)
  BY <1>2 DEF Apart
<1>5. \A l \in ListId : Linked(sHead[l], sTail[l], sCount[l], sLink, sSeq[l])
  BY <1>2 DEF ListInit, Linked
<1> QED
  BY <1>3, <1>4, <1>5 DEF ListInv, SpareLinks, ListInit

(* The lists of the other elements stay linked when no link of theirs is    *)
(* written.                                                                 *)
LEMMA LinkedKept ==
    ASSUME NEW hd, NEW tl, NEW c, NEW link, NEW link2, NEW s, Linked(hd, tl, c, link, s),
           \A i \in 1 .. Len(s) : link2[s[i]] = link[s[i]]
    PROVE  Linked(hd, tl, c, link2, s)
BY DEF Linked

(* A step on the list l that writes no link of an element of another list.  *)
LEMMA ListStep ==
    ASSUME ListInv, NEW l \in ListId, NEW h \in LinkTo, NEW t \in LinkTo, NEW r \in Seq(ListElem),
           sHead' = [sHead EXCEPT ![l] = h], sTail' = [sTail EXCEPT ![l] = t],
           sCount' = [sCount EXCEPT ![l] = Len(r)], sSeq' = [sSeq EXCEPT ![l] = r],
           sLink' \in [ListElem -> LinkTo], sDeleted' \in SUBSET ListElem,
           Apart(sSeq'), SpareLinks', \A e \in sDeleted' : ~Within(sSeq', e),
           Linked(h, t, Len(r), sLink', r),
           \A m \in ListId : m # l => \A i \in 1 .. Len(sSeq[m]) : sLink'[sSeq[m][i]] = sLink[sSeq[m][i]]
    PROVE  ListInv'
<1>1. Len(r) \in Nat
  BY LenProperties
<1>2. ListTypes'
  BY <1>1 DEF ListInv, ListTypes
<1>3. ASSUME NEW m \in ListId PROVE Linked(sHead'[m], sTail'[m], sCount'[m], sLink', sSeq'[m])
  <2>1. CASE m = l
    BY <2>1 DEF ListInv, ListTypes
  <2>2. CASE m # l
    <3>1. Linked(sHead[m], sTail[m], sCount[m], sLink, sSeq[m])
      BY DEF ListInv
    <3>2. sHead'[m] = sHead[m] /\ sTail'[m] = sTail[m] /\ sCount'[m] = sCount[m] /\ sSeq'[m] = sSeq[m]
      BY <2>2 DEF ListInv, ListTypes
    <3> QED
      BY <2>2, <3>1, <3>2, LinkedKept
  <2> QED
    BY <2>1, <2>2
<1> QED
  BY <1>2, <1>3 DEF ListInv

(* The elements of one list, and of the others. *)
LEMMA ListElements ==
    ASSUME ListInv, NEW l \in ListId
    PROVE  /\ sSeq[l] \in Seq(ListElem) /\ Len(sSeq[l]) \in Nat /\ DOMAIN sSeq = ListId /\ Lengths(sSeq)
           /\ Linked(sHead[l], sTail[l], sCount[l], sLink, sSeq[l])
           /\ \A i \in 1 .. Len(sSeq[l]) : sSeq[l][i] \in ListElem /\ sSeq[l][i] # Nil /\ sSeq[l][i] \notin sDeleted
           /\ \A i, j \in 1 .. Len(sSeq[l]) : sSeq[l][i] = sSeq[l][j] => i = j
           /\ \A m \in ListId : m # l =>
                 \A i \in 1 .. Len(sSeq[l]), j \in 1 .. Len(sSeq[m]) : sSeq[l][i] # sSeq[m][j]
<1>1. DOMAIN sSeq = ListId /\ \A m \in ListId : sSeq[m] \in Seq(ListElem)
  BY DEF ListInv, ListTypes
<1>2. \A m \in ListId : Len(sSeq[m]) \in Nat
  BY <1>1, LenProperties
<1>3. \A i \in 1 .. Len(sSeq[l]) : sSeq[l][i] \in ListElem
  BY <1>1, ElementOfSeq
<1>4. \A i \in 1 .. Len(sSeq[l]) : Within(sSeq, sSeq[l][i])
  BY <1>1 DEF Within
<1> QED
  BY <1>1, <1>2, <1>3, <1>4, ListAssumption DEF ListInv, Apart, Lengths

(* push_front: the element becomes the head and links to the old one.       *)
LEMMA ListPushFrontInv ==
    ASSUME ListInv, NEW l \in ListId, NEW e \in ListElem, ListPushFront(l, e)
    PROVE  ListInv'
<1>1. PICK s, n, r : s = sSeq[l] /\ n = Len(sSeq[l]) /\ r = <<e>> \o sSeq[l]
  OBVIOUS
<1>2. s \in Seq(ListElem) /\ n \in Nat /\ n = Len(s) /\ ListTypes /\ Linked(sHead[l], sTail[l], sCount[l], sLink, s)
  BY <1>1, ListElements DEF ListInv
<1>3. r \in Seq(ListElem) /\ Len(r) = n + 1 /\ r[1] = e /\ (\A i \in 1 .. n : r[i + 1] = s[i])
  BY <1>1, <1>2, FrontAdded
<1>4. e \notin sDeleted /\ ~Within(sSeq, e)
  BY <1>2, SpareIsOutside DEF ListPushFront
<1>5. sSeq' = [sSeq EXCEPT ![l] = r] /\ Apart(sSeq') /\ (\A x : Within(sSeq', x) <=> Within(sSeq, x) \/ x = e)
  <2>1. IsAdded(s, n, r, 1, e)
    BY <1>2, <1>3 DEF IsAdded
  <2>2. PICK Q, R : Q = sSeq /\ R = sSeq'
    OBVIOUS
  <2>3. Replaced(Q, l, r, R)
    BY <1>1, <2>2 DEF Replaced, ListPushFront
  <2>4. l \in DOMAIN Q /\ Lengths(Q) /\ Apart(Q) /\ ~Within(Q, e)
    BY <1>4, <2>2, ListElements DEF ListInv
  <2>5. IsAdded(Q[l], Len(Q[l]), r, 1, e) /\ Len(r) = Len(Q[l]) + 1
    BY <1>1, <1>3, <2>1, <2>2
  <2>6. Apart(R) /\ (\A x : Within(R, x) <=> Within(Q, x) \/ x = e)
    BY <2>3, <2>4, <2>5, ApartAdded
  <2> QED
    BY <2>2, <2>3, <2>6 DEF Replaced
<1>6. PICK t : t = IF n = 0 THEN e ELSE sTail[l]
  OBVIOUS
<1>7. /\ sHead' = [sHead EXCEPT ![l] = e] /\ sCount' = [sCount EXCEPT ![l] = Len(r)]
      /\ sTail' = [sTail EXCEPT ![l] = t] /\ t \in LinkTo /\ e \in LinkTo
      /\ sLink' = [sLink EXCEPT ![e] = sHead[l]] /\ sDeleted' = sDeleted
  <2>1. sCount[l] = n
    BY <1>2 DEF Linked
  <2>2. sTail' = [sTail EXCEPT ![l] = t]
    <3>1. CASE n = 0
      BY <1>6, <2>1, <3>1 DEF ListPushFront
    <3>2. CASE n # 0
      <4>1. sCount[l] + 1 # 1 /\ sTail[l] = t /\ DOMAIN sTail = ListId /\ sTail \in [ListId -> LinkTo]
        BY <1>2, <1>6, <2>1, <3>2 DEF ListTypes
      <4>2. sTail' = sTail
        BY <4>1 DEF ListPushFront
      <4> QED
        BY <4>1, <4>2
    <3> QED
      BY <3>1, <3>2
  <2>3. t \in LinkTo /\ e \in LinkTo
    BY <1>2, <1>6 DEF ListTypes, LinkTo
  <2>4. sCount' = [sCount EXCEPT ![l] = Len(r)]
    BY <1>3, <2>1 DEF ListPushFront
  <2> QED
    BY <2>2, <2>3, <2>4 DEF ListPushFront
<1>8. sLink' \in [ListElem -> LinkTo] /\ sLink'[e] = sHead[l] /\ (\A x \in ListElem : x # e => sLink'[x] = sLink[x])
  BY <1>2, <1>7 DEF ListTypes
<1>9. \A m \in ListId : \A i \in 1 .. Len(sSeq[m]) : sSeq[m][i] \in ListElem /\ sSeq[m][i] # e
  BY <1>4, ListElements DEF Within
<1>10. ASSUME NEW i \in 1 .. n + 1 PROVE sLink'[r[i]] = IF i = n + 1 THEN Nil ELSE r[i + 1]
  <2>1. CASE i = 1
    BY <1>2, <1>3, <1>8, <2>1 DEF Linked
  <2>2. CASE i # 1
    <3>1. PICK j \in 1 .. n : i = j + 1
      BY <1>2, <2>2
    <3>2. r[i] = s[j] /\ sLink'[s[j]] = sLink[s[j]] /\ sLink[s[j]] = IF j = n THEN Nil ELSE s[j + 1]
      BY <1>1, <1>2, <1>3, <1>8, <1>9, <3>1 DEF Linked
    <3>3. j # n => r[i + 1] = s[j + 1]
      BY <1>2, <1>3, <3>1
    <3> QED
      BY <1>2, <3>1, <3>2, <3>3
  <2> QED
    BY <2>1, <2>2
<1>11. t = r[n + 1]
  BY <1>1, <1>2, <1>3, <1>6 DEF Linked
<1>12. Linked(e, t, Len(r), sLink', r)
  BY <1>2, <1>3, <1>10, <1>11 DEF Linked
<1>13. SpareLinks' /\ (\A x \in sDeleted' : ~Within(sSeq', x))
  BY <1>4, <1>5, <1>7, <1>8 DEF SpareLinks, ListInv
<1>14. sDeleted' \in SUBSET ListElem
  BY <1>2, <1>7 DEF ListTypes
<1>15. \A m \in ListId : m # l => \A i \in 1 .. Len(sSeq[m]) : sLink'[sSeq[m][i]] = sLink[sSeq[m][i]]
  BY <1>8, <1>9
<1> QED
  BY <1>3, <1>5, <1>7, <1>8, <1>12, <1>13, <1>14, <1>15, ListStep

(* push_back: the old tail links to the element, or the list was empty.     *)
LEMMA ListPushBackInv ==
    ASSUME ListInv, NEW l \in ListId, NEW e \in ListElem, ListPushBack(l, e)
    PROVE  ListInv'
<1>1. PICK s, n, r : s = sSeq[l] /\ n = Len(sSeq[l]) /\ r = Append(sSeq[l], e)
  OBVIOUS
<1>2. s \in Seq(ListElem) /\ n \in Nat /\ n = Len(s) /\ ListTypes /\ Linked(sHead[l], sTail[l], sCount[l], sLink, s)
  BY <1>1, ListElements DEF ListInv
<1>3. r \in Seq(ListElem) /\ Len(r) = n + 1 /\ r[n + 1] = e /\ (\A i \in 1 .. n : r[i] = s[i])
  BY <1>1, <1>2, AppendProperties
<1>4. e \notin sDeleted /\ ~Within(sSeq, e) /\ sLink[e] = Nil
  BY <1>2, SpareIsOutside DEF ListPushBack, ListInv, SpareLinks
<1>5. sSeq' = [sSeq EXCEPT ![l] = r] /\ Apart(sSeq') /\ (\A x : Within(sSeq', x) <=> Within(sSeq, x) \/ x = e)
  <2>1. IsAdded(s, n, r, n + 1, e)
    BY <1>2, <1>3 DEF IsAdded
  <2>2. PICK Q, R : Q = sSeq /\ R = sSeq'
    OBVIOUS
  <2>3. Replaced(Q, l, r, R)
    BY <1>1, <2>2 DEF Replaced, ListPushBack
  <2>4. l \in DOMAIN Q /\ Lengths(Q) /\ Apart(Q) /\ ~Within(Q, e)
    BY <1>4, <2>2, ListElements DEF ListInv
  <2>5. IsAdded(Q[l], Len(Q[l]), r, n + 1, e) /\ Len(r) = Len(Q[l]) + 1
    BY <1>1, <1>3, <2>1, <2>2
  <2>6. Apart(R) /\ (\A x : Within(R, x) <=> Within(Q, x) \/ x = e)
    BY <2>3, <2>4, <2>5, ApartAdded
  <2> QED
    BY <2>2, <2>3, <2>6 DEF Replaced
<1>6. PICK h : h = IF n = 0 THEN e ELSE sHead[l]
  OBVIOUS
<1>7. /\ sTail' = [sTail EXCEPT ![l] = e] /\ sCount' = [sCount EXCEPT ![l] = Len(r)]
      /\ sHead' = [sHead EXCEPT ![l] = h] /\ h \in LinkTo /\ e \in LinkTo /\ sDeleted' = sDeleted
  <2>1. sCount[l] = n
    BY <1>2 DEF Linked
  <2>2. sHead' = [sHead EXCEPT ![l] = h]
    <3>1. CASE n = 0
      BY <1>6, <2>1, <3>1 DEF ListPushBack
    <3>2. CASE n # 0
      <4>1. sCount[l] + 1 # 1 /\ sHead[l] = h /\ DOMAIN sHead = ListId /\ sHead \in [ListId -> LinkTo]
        BY <1>2, <1>6, <2>1, <3>2 DEF ListTypes
      <4>2. sHead' = sHead
        BY <4>1 DEF ListPushBack
      <4> QED
        BY <4>1, <4>2
    <3> QED
      BY <3>1, <3>2
  <2>3. h \in LinkTo /\ e \in LinkTo
    BY <1>2, <1>6 DEF ListTypes, LinkTo
  <2>4. sCount' = [sCount EXCEPT ![l] = Len(r)]
    BY <1>3, <2>1 DEF ListPushBack
  <2> QED
    BY <2>2, <2>3, <2>4 DEF ListPushBack
<1>8. /\ \A i \in 1 .. n : s[i] \in ListElem /\ s[i] # Nil
      /\ \A i, j \in 1 .. n : s[i] = s[j] => i = j
      /\ \A m \in ListId : m # l => \A i \in 1 .. n, j \in 1 .. Len(sSeq[m]) : s[i] # sSeq[m][j]
  BY <1>1, ListElements
<1>9. /\ n = 0 => sLink' = sLink
      /\ n # 0 => n \in 1 .. n /\ sLink' = [sLink EXCEPT ![s[n]] = e]
  <2>1. CASE n = 0
    BY <1>2, <2>1 DEF ListPushBack, Linked
  <2>2. CASE n # 0
    <3>1. n \in 1 .. n
      BY <1>2, <2>2
    <3>2. sTail[l] = s[n] /\ s[n] # Nil
      BY <1>2, <1>8, <2>2, <3>1 DEF Linked
    <3> QED
      BY <2>2, <3>1, <3>2 DEF ListPushBack
  <2> QED
    BY <2>1, <2>2
<1>10. /\ sLink' \in [ListElem -> LinkTo] /\ (n # 0 => sLink'[s[n]] = e)
       /\ \A x \in ListElem : (n = 0 \/ x # s[n]) => sLink'[x] = sLink[x]
  <2>1. CASE n = 0
    BY <1>2, <1>9, <2>1 DEF ListTypes
  <2>2. CASE n # 0
    <3>1. PICK z \in ListElem : z = s[n]
      BY <1>8, <1>9, <2>2
    <3>2. sLink' = [sLink EXCEPT ![z] = e]
      BY <1>9, <2>2, <3>1
    <3> QED
      BY <1>2, <1>7, <2>2, <3>1, <3>2 DEF ListTypes
  <2> QED
    BY <2>1, <2>2
<1>11. \A m \in ListId : \A i \in 1 .. Len(sSeq[m]) : sSeq[m][i] \in ListElem /\ sSeq[m][i] # e
  BY <1>4, ListElements DEF Within
<1>12. sLink'[e] = Nil
  BY <1>1, <1>2, <1>4, <1>9, <1>10, <1>11
<1>13. ASSUME NEW i \in 1 .. n + 1 PROVE sLink'[r[i]] = IF i = n + 1 THEN Nil ELSE r[i + 1]
  <2>1. CASE i = n + 1
    BY <1>3, <1>12, <2>1
  <2>2. CASE i = n
    BY <1>2, <1>3, <1>10, <2>2
  <2>3. CASE i < n
    <3>1. i \in 1 .. n /\ i # n /\ n \in 1 .. n /\ i + 1 \in 1 .. n
      BY <1>2, <2>3
    <3>2. sLink'[s[i]] = sLink[s[i]]
      BY <1>8, <1>10, <3>1
    <3>3. sLink[s[i]] = s[i + 1]
      BY <1>2, <3>1 DEF Linked
    <3> QED
      BY <1>2, <1>3, <2>3, <3>1, <3>2, <3>3
  <2> QED
    BY <1>2, <2>1, <2>2, <2>3
<1>14. h = r[1]
  BY <1>1, <1>2, <1>3, <1>6 DEF Linked
<1>15. Linked(h, e, Len(r), sLink', r)
  BY <1>2, <1>3, <1>13, <1>14 DEF Linked
<1>16. \A m \in ListId : m # l => \A i \in 1 .. Len(sSeq[m]) : sLink'[sSeq[m][i]] = sLink[sSeq[m][i]]
  BY <1>8, <1>9, <1>10, <1>11
<1>17. ASSUME NEW x \in ListElem, x \notin sDeleted', ~Within(sSeq', x) PROVE sLink'[x] = Nil
  <2>1. x \notin sDeleted /\ ~Within(sSeq, x)
    BY <1>5, <1>7, <1>17
  <2>2. n # 0 => x # s[n]
    BY <1>1, <1>9, <2>1, ListElements DEF Within
  <2> QED
    BY <1>10, <2>1, <2>2 DEF ListInv, SpareLinks
<1>18. SpareLinks' /\ (\A x \in sDeleted' : ~Within(sSeq', x)) /\ sDeleted' \in SUBSET ListElem
  BY <1>2, <1>4, <1>5, <1>7, <1>17 DEF SpareLinks, ListInv, ListTypes
<1> QED
  BY <1>3, <1>5, <1>7, <1>10, <1>15, <1>16, <1>18, ListStep

(* pop_front: the head goes, and the tail with it when it was the last.     *)
LEMMA ListPopFrontInv ==
    ASSUME ListInv, NEW l \in ListId, ListPopFront(l)
    PROVE  ListInv'
<1>1. PICK s, r, e, k : s = sSeq[l] /\ r = Tail(sSeq[l]) /\ e = sHead[l] /\ k = Len(Tail(sSeq[l]))
  OBVIOUS
<1>2. s \in Seq(ListElem) /\ Len(s) \in Nat /\ ListTypes /\ Linked(sHead[l], sTail[l], sCount[l], sLink, s)
  BY <1>1, ListElements DEF ListInv
<1>3. Len(s) > 0 /\ s # <<>> /\ e = s[1] /\ sCount[l] = Len(s)
  BY <1>1, <1>2, EmptySeq DEF ListPopFront, Linked
<1>4. /\ r \in Seq(ListElem) /\ Len(r) = k /\ k \in Nat /\ Len(s) = k + 1
      /\ \A i \in 1 .. k : r[i] = s[i + 1]
  <2>1. r \in Seq(ListElem) /\ Len(r) = Len(s) - 1 /\ (\A i \in 1 .. Len(r) : r[i] = s[i + 1])
    BY <1>1, <1>2, <1>3, HeadTailProperties
  <2> QED
    BY <1>1, <1>2, <1>3, <2>1
<1>5. 1 \in 1 .. k + 1 /\ k + 1 \in Nat /\ e \in ListElem /\ sCount[l] = k + 1
  <2>1. 1 \in 1 .. k + 1 /\ k + 1 \in Nat
    BY <1>4
  <2> QED
    BY <1>2, <1>3, <1>4, <2>1, ElementOfSeq
<1>6. /\ sSeq' = [sSeq EXCEPT ![l] = r] /\ Apart(sSeq') /\ ~Within(sSeq', e)
      /\ \A x : Within(sSeq, x) <=> Within(sSeq', x) \/ x = e
  <2>1. IsAdded(r, k, s, 1, e)
    BY <1>3, <1>4, <1>5 DEF IsAdded
  <2>2. PICK Q : Q = sSeq
    OBVIOUS
  <2>3. l \in DOMAIN Q /\ Lengths(Q) /\ Apart(Q)
    BY <2>2, ListElements DEF ListInv
  <2>4. IsAdded(r, Len(r), Q[l], 1, e) /\ Len(Q[l]) = Len(r) + 1 /\ Len(r) \in Nat
    BY <1>1, <1>4, <2>1, <2>2
  <2>5. PICK R : R = sSeq'
    OBVIOUS
  <2>6. Replaced(Q, l, r, R)
    BY <1>1, <2>2, <2>5 DEF Replaced, ListPopFront
  <2>7. Apart(R) /\ ~Within(R, e) /\ (\A x : Within(Q, x) <=> Within(R, x) \/ x = e)
    BY <2>3, <2>4, <2>6, ApartTaken
  <2> QED
    BY <2>2, <2>5, <2>6, <2>7 DEF Replaced
<1>7. PICK h, t : h = sLink[e] /\ t = IF k = 0 THEN Nil ELSE sTail[l]
  OBVIOUS
<1>8. /\ sHead' = [sHead EXCEPT ![l] = h] /\ sCount' = [sCount EXCEPT ![l] = Len(r)]
      /\ sTail' = [sTail EXCEPT ![l] = t] /\ t \in LinkTo /\ h \in LinkTo
      /\ sLink' = [sLink EXCEPT ![e] = Nil] /\ sDeleted' = sDeleted
  <2>1. sCount[l] - 1 = k
    BY <1>4, <1>5
  <2>2. sHead' = [sHead EXCEPT ![l] = h] /\ sLink' = [sLink EXCEPT ![e] = Nil] /\ sDeleted' = sDeleted
    BY <1>1, <1>7 DEF ListPopFront, ListUnlink
  <2>3. sCount' = [sCount EXCEPT ![l] = Len(r)]
    BY <1>4, <2>1 DEF ListPopFront
  <2>4. sTail' = [sTail EXCEPT ![l] = t]
    <3>1. CASE k = 0
      BY <1>7, <2>1, <3>1 DEF ListPopFront
    <3>2. CASE k # 0
      BY <1>2, <1>7, <2>1, <3>2 DEF ListPopFront, ListTypes
    <3> QED
      BY <3>1, <3>2
  <2>5. t \in LinkTo /\ h \in LinkTo
    BY <1>2, <1>5, <1>7 DEF ListTypes, LinkTo
  <2> QED
    BY <2>2, <2>3, <2>4, <2>5
<1>9. sLink' \in [ListElem -> LinkTo] /\ sLink'[e] = Nil /\ (\A x \in ListElem : x # e => sLink'[x] = sLink[x])
  BY <1>2, <1>5, <1>8 DEF ListTypes, LinkTo
<1>10. /\ \A i \in 1 .. k + 1 : s[i] \in ListElem
       /\ \A i, j \in 1 .. k + 1 : s[i] = s[j] => i = j
       /\ \A m \in ListId : m # l => \A i \in 1 .. k + 1, j \in 1 .. Len(sSeq[m]) : s[i] # sSeq[m][j]
  BY <1>1, <1>4, ListElements
<1>11. \A m \in ListId : m # l => \A i \in 1 .. Len(sSeq[m]) : sLink'[sSeq[m][i]] = sLink[sSeq[m][i]]
  BY <1>3, <1>5, <1>9, <1>10, ListElements
<1>12. ASSUME NEW i \in 1 .. k PROVE sLink'[r[i]] = IF i = k THEN Nil ELSE r[i + 1]
  <2>1. i + 1 \in 1 .. k + 1 /\ i + 1 # 1 /\ (i + 1 = k + 1 <=> i = k)
    BY <1>4
  <2>2. r[i] = s[i + 1] /\ sLink'[s[i + 1]] = sLink[s[i + 1]]
    BY <1>3, <1>4, <1>5, <1>9, <1>10, <2>1
  <2>3. sLink[s[i + 1]] = IF i + 1 = k + 1 THEN Nil ELSE s[(i + 1) + 1]
    BY <1>2, <1>4, <2>1 DEF Linked
  <2>4. CASE i = k
    BY <2>1, <2>2, <2>3, <2>4
  <2>5. CASE i # k
    <3>1. i + 1 \in 1 .. k
      BY <1>4, <2>5
    <3>2. r[i + 1] = s[(i + 1) + 1]
      BY <1>4, <3>1
    <3> QED
      BY <2>1, <2>2, <2>3, <2>5, <3>2
  <2> QED
    BY <2>4, <2>5
<1>13. h = (IF k = 0 THEN Nil ELSE r[1])
  <2>1. sLink[s[1]] = IF 1 = k + 1 THEN Nil ELSE s[1 + 1]
    BY <1>2, <1>4, <1>5 DEF Linked
  <2>2. CASE k = 0
    BY <1>3, <1>7, <2>1, <2>2
  <2>3. CASE k # 0
    <3>1. 1 \in 1 .. k /\ 1 # k + 1
      BY <1>4, <2>3
    <3>2. r[1] = s[1 + 1]
      BY <1>4, <3>1
    <3> QED
      BY <1>3, <1>7, <2>1, <2>3, <3>1, <3>2
  <2> QED
    BY <2>2, <2>3
<1>14. t = (IF k = 0 THEN Nil ELSE r[k])
  <2>1. CASE k = 0
    BY <1>7, <2>1
  <2>2. CASE k # 0
    <3>1. k \in 1 .. k
      BY <1>4, <2>2
    <3>2. r[k] = s[k + 1] /\ sTail[l] = s[k + 1]
      BY <1>2, <1>3, <1>4, <3>1 DEF Linked
    <3> QED
      BY <1>7, <2>2, <3>2
  <2> QED
    BY <2>1, <2>2
<1>15. Linked(h, t, Len(r), sLink', r)
  BY <1>4, <1>12, <1>13, <1>14 DEF Linked
<1>16. SpareLinks' /\ (\A x \in sDeleted' : ~Within(sSeq', x)) /\ sDeleted' \in SUBSET ListElem
  <2>1. sDeleted' \in SUBSET ListElem
    BY <1>2, <1>8 DEF ListTypes
  <2>2. \A x \in sDeleted' : ~Within(sSeq', x)
    BY <1>6, <1>8 DEF ListInv
  <2>3. SpareLinks'
    BY <1>6, <1>8, <1>9 DEF SpareLinks, ListInv
  <2> QED
    BY <2>1, <2>2, <2>3
<1> QED
  BY <1>4, <1>6, <1>8, <1>9, <1>11, <1>15, <1>16, ListStep

(* clear reaches the elements of the list and no other. *)
LEMMA ListReachedIs ==
    ASSUME ListInv, NEW l \in ListId
    PROVE  ListReached(l) = {sSeq[l][i] : i \in 1 .. Len(sSeq[l])}
<1>1. PICK s, n : s = sSeq[l] /\ n = Len(sSeq[l])
  OBVIOUS
<1>2. n \in Nat /\ Linked(sHead[l], sTail[l], sCount[l], sLink, s) /\ (\A i \in 1 .. n : s[i] # Nil)
  BY <1>1, ListElements
<1> DEFINE Eq(g) == g = [i \in 1 .. n |-> IF i = 1 THEN sHead[l]
                                          ELSE IF g[i - 1] = Nil THEN Nil ELSE sLink[g[i - 1]]]
           w == [i \in 1 .. n |-> s[i]]
           at == CHOOSE g : Eq(g)
<1>3. ASSUME NEW i \in 1 .. n, i # 1
      PROVE  i - 1 \in 1 .. n /\ s[i - 1] # Nil /\ sLink[s[i - 1]] = s[i]
  <2>1. i - 1 \in 1 .. n /\ i - 1 # n /\ (i - 1) + 1 = i
    BY <1>2, <1>3
  <2>2. sLink[s[i - 1]] = IF i - 1 = n THEN Nil ELSE s[(i - 1) + 1]
    BY <1>1, <1>2, <2>1 DEF Linked
  <2> QED
    BY <1>2, <2>1, <2>2
<1>4. n # 0 => sHead[l] = s[1]
  BY <1>1, <1>2 DEF Linked
<1>5. Eq(w)
  <2>1. ASSUME NEW i \in 1 .. n
        PROVE  w[i] = IF i = 1 THEN sHead[l] ELSE IF w[i - 1] = Nil THEN Nil ELSE sLink[w[i - 1]]
    BY <1>2, <1>3, <1>4
  <2> QED
    BY <2>1
<1>6. Eq(at)
  <2> HIDE DEF Eq, w
  <2> QED
    BY <1>5
<1>7. /\ \A i \in 1 .. n : at[i] = IF i = 1 THEN sHead[l] ELSE IF at[i - 1] = Nil THEN Nil ELSE sLink[at[i - 1]]
  <2> HIDE DEF at
  <2> QED
    BY <1>6
<1>8. sCount[l] = n /\ ListReached(l) = {at[i] : i \in 1 .. n}
  BY <1>1, <1>2 DEF ListReached, Linked
<1> HIDE DEF at, Eq, w
<1>9. \A i \in 1 .. n : at[i] = s[i]
  <2> DEFINE T == {i \in Nat : i \in 1 .. n => at[i] = s[i]}
  <2>1. 0 \in T
    OBVIOUS
  <2>2. ASSUME NEW i \in T PROVE i + 1 \in T
    <3>1. CASE i = 0
      BY <1>2, <1>4, <1>7, <3>1
    <3>2. CASE i # 0
      <4> SUFFICES ASSUME i + 1 \in 1 .. n PROVE at[i + 1] = s[i + 1]
        OBVIOUS
      <4>1. i \in 1 .. n /\ (i + 1) - 1 = i /\ i + 1 # 1 /\ at[i] = s[i]
        BY <1>2, <3>2
      <4>2. s[i] # Nil /\ sLink[s[i]] = s[i + 1]
        BY <1>3, <4>1
      <4>3. at[i + 1] = IF at[i] = Nil THEN Nil ELSE sLink[at[i]]
        BY <1>7, <4>1
      <4> QED
        BY <4>1, <4>2, <4>3
    <3> QED
      BY <3>1, <3>2
  <2>3. T \in SUBSET Nat
    OBVIOUS
  <2> HIDE DEF T
  <2>4. T = Nat
    BY <2>1, <2>2, <2>3, SetInduction
  <2> QED
    BY <1>2, <2>4 DEF T
<1> QED
  BY <1>1, <1>8, <1>9

(* clear: every element of the list goes, and no other.                     *)
LEMMA ListClearInv ==
    ASSUME ListInv, NEW l \in ListId, ListClear(l)
    PROVE  ListInv'
<1>1. PICK r, gone, h : r = <<>> /\ gone = {sSeq[l][i] : i \in 1 .. Len(sSeq[l])} /\ h = Nil
  OBVIOUS
<1>2. r \in Seq(ListElem) /\ Len(r) = 0 /\ ListTypes /\ h \in LinkTo
  BY <1>1, EmptySeq DEF ListInv, LinkTo
<1>3. gone \in SUBSET ListElem /\ (\A m \in ListId : m # l => \A j \in 1 .. Len(sSeq[m]) : sSeq[m][j] \notin gone)
  BY <1>1, ListElements
<1>4. ListReached(l) = gone
  BY <1>1, ListReachedIs
<1>5. /\ sHead' = [sHead EXCEPT ![l] = h] /\ sCount' = [sCount EXCEPT ![l] = Len(r)]
      /\ sTail' = [sTail EXCEPT ![l] = h] /\ sSeq' = [sSeq EXCEPT ![l] = r]
      /\ sDeleted' = sDeleted \cup gone
      /\ sLink' = [e \in ListElem |-> IF e \in gone THEN Nil ELSE sLink[e]]
  BY <1>1, <1>2, <1>4 DEF ListClear
<1>6. Apart(sSeq') /\ (\A x : Within(sSeq', x) <=> Within(sSeq, x) /\ (\A i \in 1 .. Len(sSeq[l]) : sSeq[l][i] # x))
  <2>1. PICK Q, R : Q = sSeq /\ R = sSeq'
    OBVIOUS
  <2>2. l \in DOMAIN Q /\ Apart(Q)
    BY <2>1, ListElements DEF ListInv
  <2>3. Replaced(Q, l, <<>>, R)
    BY <1>1, <1>5, <2>1 DEF Replaced
  <2>4. /\ Apart(R)
        /\ \A x : Within(R, x) <=> Within(Q, x) /\ (\A i \in 1 .. Len(Q[l]) : Q[l][i] # x)
    BY <2>2, <2>3, ApartCleared
  <2> QED
    BY <2>1, <2>4
<1>7. \A x : Within(sSeq', x) <=> Within(sSeq, x) /\ x \notin gone
  BY <1>1, <1>6
<1>8. sLink' \in [ListElem -> LinkTo] /\ (\A x \in ListElem : x \notin gone => sLink'[x] = sLink[x])
  BY <1>2, <1>5 DEF ListTypes, LinkTo
<1>9. \A m \in ListId : m # l => \A i \in 1 .. Len(sSeq[m]) : sLink'[sSeq[m][i]] = sLink[sSeq[m][i]]
  BY <1>3, <1>8, ListElements
<1>10. SpareLinks' /\ (\A x \in sDeleted' : ~Within(sSeq', x)) /\ sDeleted' \in SUBSET ListElem
  BY <1>2, <1>3, <1>5, <1>7, <1>8 DEF SpareLinks, ListInv, ListTypes
<1>11. Linked(h, h, Len(r), sLink', r)
  BY <1>1, <1>2 DEF Linked
<1> QED
  BY <1>2, <1>5, <1>6, <1>8, <1>9, <1>10, <1>11, ListStep

(* swap: the lists exchange their heads, tails and counts.                  *)
LEMMA ListSwapInv ==
    ASSUME ListInv, NEW l \in ListId, NEW r \in ListId, ListSwap(l, r)
    PROVE  ListInv'
<1>1. ListTypes /\ DOMAIN sSeq = ListId /\ l # r
  BY DEF ListInv, ListTypes, ListSwap
<1>2. ListTypes'
  BY <1>1 DEF ListTypes, ListSwap
<1>3. Apart(sSeq') /\ (\A x : Within(sSeq', x) <=> Within(sSeq, x))
  <2>1. PICK Q, R : Q = sSeq /\ R = sSeq'
    OBVIOUS
  <2>2. Swapped(Q, l, r, R) /\ Apart(Q) /\ l \in DOMAIN Q /\ r \in DOMAIN Q
    BY <1>1, <2>1 DEF ListInv, ListSwap, Swapped
  <2>3. Apart(R) /\ (\A x : Within(R, x) <=> Within(Q, x))
    BY <1>1, <2>2, ApartSwapped
  <2> QED
    BY <2>1, <2>3
<1>4. ASSUME NEW m \in ListId PROVE Linked(sHead'[m], sTail'[m], sCount'[m], sLink', sSeq'[m])
  <2>1. PICK k \in ListId : /\ sHead'[m] = sHead[k] /\ sTail'[m] = sTail[k]
                            /\ sCount'[m] = sCount[k] /\ sSeq'[m] = sSeq[k]
    BY <1>1 DEF ListSwap, ListTypes
  <2> QED
    BY <2>1 DEF ListInv, ListSwap
<1>5. SpareLinks' /\ (\A e \in sDeleted' : ~Within(sSeq', e))
  BY <1>3 DEF SpareLinks, ListInv, ListSwap
<1> QED
  BY <1>2, <1>3, <1>4, <1>5 DEF ListInv

(* Every operation of IntrusiveList keeps the lists.                        *)
LEMMA ListStepInv == ListInv /\ [ListNext]_listVars => ListInv'
<1> SUFFICES ASSUME ListInv, [ListNext]_listVars PROVE ListInv'
  OBVIOUS
<1>1. CASE ListNext
  BY <1>1, ListPushFrontInv, ListPushBackInv, ListPopFrontInv, ListClearInv, ListSwapInv DEF ListNext
<1>2. CASE UNCHANGED listVars
  BY <1>2 DEF listVars, ListInv, ListTypes, SpareLinks
<1> QED
  BY <1>1, <1>2

(* IntrusiveList: following the links from mHead visits the elements that   *)
(* the operations say, in that order, mTail is the last of them and mCount  *)
(* their number.                                                            *)
LEMMA ListInvariant == ListSpec => []ListIsItsSequence
<1>1. ListInit => ListInv
  BY ListInitInv
<1>2. ListInv /\ [ListNext]_listVars => ListInv'
  BY ListStepInv
<1>3. ListInv => ListIsItsSequence
  BY ListInvImplies
<1> QED
  BY <1>1, <1>2, <1>3, PTL DEF ListSpec

-----------------------------------------------------------------------------
(* The doubly linked lists.  A list of either kind is a line of nodes from  *)
(* its first to its last sentinel, which for a ring are the same node;      *)
(* forward links lead along it and backward links back.  What an operation  *)
(* writes, it writes at one place of one line.                              *)
LineOf(a, b, s, n) == [i \in 0 .. n + 1 |-> IF i = 0 THEN a ELSE IF i = n + 1 THEN b ELSE s[i]]

Joined(L, n, nx, pv) == \A i \in 0 .. n : nx[L[i]] = L[i + 1] /\ pv[L[i + 1]] = L[i]

(* M is the line L with x at position p. *)
IsLine(L, n, M, p, x) ==
    /\ p \in 1 .. n + 1 /\ M[p] = x
    /\ \A i \in 0 .. p - 1 : M[i] = L[i]
    /\ \A i \in p .. n + 1 : M[i + 1] = L[i]

(* Over all lines of I no node follows twice, and none is followed twice. *)
LinesIn(I, L, N, D) == \A l \in I : N[l] \in Nat /\ \A i \in 0 .. N[l] + 1 : L[l][i] \in D
LinesApart(I, L, N) ==
    /\ \A l, m \in I : \A i \in 0 .. N[l], j \in 0 .. N[m] : L[l][i] = L[m][j] => l = m /\ i = j
    /\ \A l, m \in I : \A i \in 1 .. N[l] + 1, j \in 1 .. N[m] + 1 : L[l][i] = L[m][j] => l = m /\ i = j
LinesJoined(I, L, N, nx, pv) == \A l \in I : Joined(L[l], N[l], nx, pv)
OffLines(I, L, N, x) == \A l \in I : \A i \in 0 .. N[l] + 1 : L[l][i] # x

(* The link functions written at two nodes. *)
Rewritten(D, f, g, x, c, a, b) == \A y \in D : g[y] = IF y = x THEN c ELSE IF y = a THEN b ELSE f[y]

(* A sequence with an element more makes a line with a node more. *)
LEMMA LineIsAdded ==
    ASSUME NEW s, NEW n \in Nat, NEW r, NEW p, NEW e, IsAdded(s, n, r, p, e), NEW a, NEW b
    PROVE  IsLine(LineOf(a, b, s, n), n, LineOf(a, b, r, n + 1), p, e)
<1>1. p \in 1 .. n + 1 /\ r[p] = e /\ (\A i \in 1 .. p - 1 : r[i] = s[i]) /\ (\A i \in p .. n : r[i + 1] = s[i])
  BY DEF IsAdded
<1>2. PICK L, M : L = LineOf(a, b, s, n) /\ M = LineOf(a, b, r, n + 1)
  OBVIOUS
<1>3. \A i \in 0 .. n + 1 : L[i] = IF i = 0 THEN a ELSE IF i = n + 1 THEN b ELSE s[i]
  BY <1>2 DEF LineOf
<1>4. \A i \in 0 .. (n + 1) + 1 : M[i] = IF i = 0 THEN a ELSE IF i = (n + 1) + 1 THEN b ELSE r[i]
  BY <1>2 DEF LineOf
<1>5. M[p] = e
  BY <1>1, <1>4
<1>6. ASSUME NEW i \in 0 .. p - 1 PROVE M[i] = L[i]
  <2>1. i \in 0 .. n + 1 /\ i \in 0 .. (n + 1) + 1 /\ i # n + 1 /\ i # (n + 1) + 1
    BY <1>1
  <2>2. CASE i = 0
    BY <1>3, <1>4, <2>1, <2>2
  <2>3. CASE i # 0
    <3>1. i \in 1 .. p - 1
      BY <1>1, <2>3
    <3> QED
      BY <1>1, <1>3, <1>4, <2>1, <2>3, <3>1
  <2> QED
    BY <2>2, <2>3
<1>7. ASSUME NEW i \in p .. n + 1 PROVE M[i + 1] = L[i]
  <2>1. i \in 0 .. n + 1 /\ i + 1 \in 0 .. (n + 1) + 1 /\ i # 0 /\ i + 1 # 0 /\ (i + 1 = (n + 1) + 1 <=> i = n + 1)
    BY <1>1
  <2>2. CASE i = n + 1
    BY <1>3, <1>4, <2>1, <2>2
  <2>3. CASE i # n + 1
    <3>1. i \in p .. n
      BY <1>1, <2>3
    <3> QED
      BY <1>1, <1>3, <1>4, <2>1, <2>3, <3>1
  <2> QED
    BY <2>2, <2>3
<1> QED
  BY <1>1, <1>2, <1>5, <1>6, <1>7 DEF IsLine

(* The lines are as they should be, and the links are then rewritten so as  *)
(* to put x into the line k at position p, or to take it out of there.      *)
LinesGood(I, L, N, D, nx, pv) == LinesIn(I, L, N, D) /\ LinesApart(I, L, N) /\ LinesJoined(I, L, N, nx, pv)

SplicedIn(I, L, N, D, nx, pv, nx2, pv2, k, p, x, M) ==
    /\ LinesGood(I, L, N, D, nx, pv) /\ k \in I /\ x \in D /\ OffLines(I, L, N, x)
    /\ IsLine(L[k], N[k], M, p, x)
    /\ Rewritten(D, nx, nx2, x, L[k][p], L[k][p - 1], x)
    /\ Rewritten(D, pv, pv2, x, L[k][p - 1], L[k][p], x)

SplicedOut(I, L, N, D, nx, pv, nx2, pv2, k, p, x, M, c) ==
    /\ LinesGood(I, L, N, D, nx, pv) /\ k \in I
    /\ \E n \in Nat : N[k] = n + 1 /\ IsLine(M, n, L[k], p, x)
    /\ Rewritten(D, nx, nx2, x, c, L[k][p - 1], L[k][p + 1])
    /\ Rewritten(D, pv, pv2, x, c, L[k][p + 1], L[k][p - 1])

(* A node is put into one of the lines. *)
LEMMA LineAdded ==
    ASSUME NEW I, NEW L, NEW N, NEW D, NEW nx, NEW pv, NEW nx2, NEW pv2, NEW k, NEW p, NEW x, NEW M,
           SplicedIn(I, L, N, D, nx, pv, nx2, pv2, k, p, x, M)
    PROVE  Joined(M, N[k] + 1, nx2, pv2) /\ (\A l \in I : l # k => Joined(L[l], N[l], nx2, pv2))
<1> SUFFICES ASSUME NEW n, n = N[k], NEW K, K = L[k],
                    LinesIn(I, L, N, D), LinesApart(I, L, N), LinesJoined(I, L, N, nx, pv),
                    k \in I, x \in D, OffLines(I, L, N, x), IsLine(K, n, M, p, x),
                    Rewritten(D, nx, nx2, x, K[p], K[p - 1], x), Rewritten(D, pv, pv2, x, K[p - 1], K[p], x)
             PROVE  Joined(M, n + 1, nx2, pv2) /\ (\A l \in I : l # k => Joined(L[l], N[l], nx2, pv2))
  BY DEF SplicedIn, LinesGood
<1>1. n \in Nat /\ (\A i \in 0 .. n + 1 : K[i] \in D /\ K[i] # x)
  BY DEF LinesIn, OffLines
<1>2. p \in 1 .. n + 1 /\ M[p] = x /\ (\A i \in 0 .. p - 1 : M[i] = K[i]) /\ (\A i \in p .. n + 1 : M[i + 1] = K[i])
  BY DEF IsLine
<1>3. p - 1 \in 0 .. n /\ p \in Nat /\ (p - 1) + 1 = p /\ p \in 0 .. n + 1
  BY <1>1, <1>2
<1>4. /\ \A i, j \in 0 .. n : K[i] = K[j] => i = j
      /\ \A i, j \in 1 .. n + 1 : K[i] = K[j] => i = j
      /\ \A i \in 0 .. n : nx[K[i]] = K[i + 1] /\ pv[K[i + 1]] = K[i]
  BY DEF LinesApart, LinesJoined, Joined
<1>5. nx2[x] = K[p] /\ pv2[x] = K[p - 1]
  BY DEF Rewritten
<1>6. nx2[K[p - 1]] = x /\ pv2[K[p]] = x
  <2>1. K[p - 1] \in D /\ K[p] \in D /\ K[p - 1] # x /\ K[p] # x
    BY <1>1, <1>2, <1>3
  <2> QED
    BY <2>1 DEF Rewritten
<1>7. ASSUME NEW i \in 0 .. n, i # p - 1 PROVE nx2[K[i]] = K[i + 1]
  <2>1. K[i] \in D /\ K[i] # x /\ K[i] # K[p - 1]
    BY <1>1, <1>3, <1>4, <1>7
  <2> QED
    BY <1>4, <2>1 DEF Rewritten
<1>8. ASSUME NEW i \in 0 .. n, i # p - 1 PROVE pv2[K[i + 1]] = K[i]
  <2>1. i + 1 \in 1 .. n + 1 /\ i + 1 # p
    BY <1>1, <1>3, <1>8
  <2>2. K[i + 1] \in D /\ K[i + 1] # x /\ K[i + 1] # K[p]
    BY <1>1, <1>2, <1>4, <2>1
  <2> QED
    BY <1>4, <2>2 DEF Rewritten
<1>9. Joined(M, n + 1, nx2, pv2)
  <2> SUFFICES ASSUME NEW i \in 0 .. n + 1 PROVE nx2[M[i]] = M[i + 1] /\ pv2[M[i + 1]] = M[i]
    BY DEF Joined
  <2>1. CASE i = p
    <3>1. M[i] = x /\ M[i + 1] = K[p]
      BY <1>2, <1>3, <2>1
    <3> QED
      BY <1>5, <1>6, <3>1
  <2>2. CASE i = p - 1
    <3>1. M[i] = K[p - 1] /\ M[i + 1] = x
      BY <1>2, <1>3, <2>2
    <3> QED
      BY <1>5, <1>6, <3>1
  <2>3. CASE i < p - 1
    <3>1. i \in 0 .. p - 1 /\ i + 1 \in 0 .. p - 1 /\ i \in 0 .. n /\ i # p - 1
      BY <1>1, <1>2, <1>3, <2>3
    <3>2. M[i] = K[i] /\ M[i + 1] = K[i + 1]
      BY <1>2, <3>1
    <3> QED
      BY <1>7, <1>8, <3>1, <3>2
  <2>4. CASE i > p
    <3>1. PICK j \in 0 .. n : i = j + 1
      BY <1>1, <1>2, <1>3, <2>4
    <3>2. j \in p .. n + 1 /\ i \in p .. n + 1 /\ j # p - 1
      BY <1>1, <1>3, <2>4, <3>1
    <3>3. M[i] = K[j] /\ M[i + 1] = K[j + 1]
      BY <1>2, <3>1, <3>2
    <3> QED
      BY <1>7, <1>8, <3>2, <3>3
  <2> QED
    BY <1>1, <1>3, <2>1, <2>2, <2>3, <2>4
<1>10. ASSUME NEW l \in I, l # k PROVE Joined(L[l], N[l], nx2, pv2)
  <2> SUFFICES ASSUME NEW i \in 0 .. N[l] PROVE nx2[L[l][i]] = L[l][i + 1] /\ pv2[L[l][i + 1]] = L[l][i]
    BY DEF Joined
  <2>1. N[l] \in Nat /\ i + 1 \in 1 .. N[l] + 1 /\ i \in 0 .. N[l] + 1 /\ i + 1 \in 0 .. N[l] + 1
    BY DEF LinesIn
  <2>2. L[l][i] \in D /\ L[l][i + 1] \in D /\ L[l][i] # x /\ L[l][i + 1] # x
    BY <2>1 DEF LinesIn, OffLines
  <2>3. L[l][i] # K[p - 1]
    BY <1>3, <1>10 DEF LinesApart
  <2>4. L[l][i + 1] # K[p]
    BY <1>2, <1>10, <2>1 DEF LinesApart
  <2>5. nx[L[l][i]] = L[l][i + 1] /\ pv[L[l][i + 1]] = L[l][i]
    BY DEF LinesJoined, Joined
  <2> QED
    BY <2>2, <2>3, <2>4, <2>5 DEF Rewritten
<1> QED
  BY <1>9, <1>10

(* A node is taken out of one of the lines. *)
LEMMA LineTaken ==
    ASSUME NEW I, NEW L, NEW N, NEW D, NEW nx, NEW pv, NEW nx2, NEW pv2, NEW k, NEW p, NEW x, NEW M, NEW c,
           SplicedOut(I, L, N, D, nx, pv, nx2, pv2, k, p, x, M, c)
    PROVE  Joined(M, N[k] - 1, nx2, pv2) /\ (\A l \in I : l # k => Joined(L[l], N[l], nx2, pv2))
<1>a. PICK n \in Nat : N[k] = n + 1 /\ IsLine(M, n, L[k], p, x)
  BY DEF SplicedOut
<1>b. N[k] - 1 = n
  BY <1>a
<1> SUFFICES ASSUME n + 1 = N[k], NEW K, K = L[k],
                    LinesIn(I, L, N, D), LinesApart(I, L, N), LinesJoined(I, L, N, nx, pv),
                    k \in I, IsLine(M, n, K, p, x),
                    Rewritten(D, nx, nx2, x, c, K[p - 1], K[p + 1]), Rewritten(D, pv, pv2, x, c, K[p + 1], K[p - 1])
             PROVE  Joined(M, n, nx2, pv2) /\ (\A l \in I : l # k => Joined(L[l], N[l], nx2, pv2))
  BY <1>a, <1>b DEF SplicedOut, LinesGood
<1>1. \A i \in 0 .. (n + 1) + 1 : K[i] \in D
  BY DEF LinesIn
<1>2. p \in 1 .. n + 1 /\ K[p] = x /\ (\A i \in 0 .. p - 1 : K[i] = M[i]) /\ (\A i \in p .. n + 1 : K[i + 1] = M[i])
  BY DEF IsLine
<1>3. /\ p - 1 \in 0 .. n + 1 /\ p \in 0 .. n + 1 /\ p \in 1 .. (n + 1) + 1 /\ p + 1 \in 1 .. (n + 1) + 1 /\ p \in Nat
      /\ p - 1 \in 0 .. (n + 1) + 1 /\ p + 1 \in 0 .. (n + 1) + 1 /\ p # p - 1 /\ p # p + 1
  BY <1>2
<1>4. /\ \A i, j \in 0 .. n + 1 : K[i] = K[j] => i = j
      /\ \A i, j \in 1 .. (n + 1) + 1 : K[i] = K[j] => i = j
      /\ \A i \in 0 .. n + 1 : nx[K[i]] = K[i + 1] /\ pv[K[i + 1]] = K[i]
  BY DEF LinesApart, LinesJoined, Joined
<1>5. nx2[K[p - 1]] = K[p + 1] /\ pv2[K[p + 1]] = K[p - 1]
  <2>1. K[p - 1] \in D /\ K[p + 1] \in D
    BY <1>1, <1>3
  <2>2. K[p - 1] # x
    BY <1>2, <1>3, <1>4
  <2>3. K[p + 1] # x
    BY <1>2, <1>3, <1>4
  <2> QED
    BY <2>1, <2>2, <2>3 DEF Rewritten
<1>6. ASSUME NEW i \in 0 .. n + 1, i # p - 1, i # p PROVE nx2[K[i]] = K[i + 1]
  <2>1. K[i] # x /\ K[i] # K[p - 1]
    BY <1>2, <1>3, <1>4, <1>6
  <2>2. K[i] \in D
    BY <1>1
  <2> QED
    BY <1>4, <2>1, <2>2 DEF Rewritten
<1>7. ASSUME NEW i \in 0 .. n + 1, i # p - 1, i # p PROVE pv2[K[i + 1]] = K[i]
  <2>1. i + 1 \in 1 .. (n + 1) + 1 /\ i + 1 \in 0 .. (n + 1) + 1 /\ i + 1 # p /\ i + 1 # p + 1
    BY <1>3, <1>7
  <2>2. K[i + 1] # x /\ K[i + 1] # K[p + 1] /\ K[i + 1] \in D
    BY <1>1, <1>2, <1>3, <1>4, <2>1
  <2> QED
    BY <1>4, <2>2 DEF Rewritten
<1>8. Joined(M, n, nx2, pv2)
  <2> SUFFICES ASSUME NEW i \in 0 .. n PROVE nx2[M[i]] = M[i + 1] /\ pv2[M[i + 1]] = M[i]
    BY DEF Joined
  <2>1. CASE i = p - 1
    <3>1. i \in 0 .. p - 1 /\ i + 1 \in p .. n + 1 /\ i + 1 = p
      BY <1>2, <1>3, <2>1
    <3>2. M[i] = K[p - 1] /\ M[i + 1] = K[p + 1]
      BY <1>2, <2>1, <3>1
    <3> QED
      BY <1>5, <3>2
  <2>2. CASE i < p - 1
    <3>1. i \in 0 .. p - 1 /\ i + 1 \in 0 .. p - 1 /\ i \in 0 .. n + 1 /\ i # p - 1 /\ i # p
      BY <1>2, <1>3, <2>2
    <3>2. M[i] = K[i] /\ M[i + 1] = K[i + 1]
      BY <1>2, <3>1
    <3> QED
      BY <1>6, <1>7, <3>1, <3>2
  <2>3. CASE i >= p
    <3>1. i \in p .. n + 1 /\ i + 1 \in p .. n + 1 /\ i + 1 \in 0 .. n + 1 /\ i + 1 # p - 1 /\ i + 1 # p
      BY <1>2, <1>3, <2>3
    <3>2. M[i] = K[i + 1] /\ M[i + 1] = K[(i + 1) + 1]
      BY <1>2, <3>1
    <3> QED
      BY <1>6, <1>7, <3>1, <3>2
  <2> QED
    BY <1>3, <2>1, <2>2, <2>3
<1>9. ASSUME NEW l \in I, l # k PROVE Joined(L[l], N[l], nx2, pv2)
  <2> SUFFICES ASSUME NEW i \in 0 .. N[l] PROVE nx2[L[l][i]] = L[l][i + 1] /\ pv2[L[l][i + 1]] = L[l][i]
    BY DEF Joined
  <2>1. N[l] \in Nat /\ i + 1 \in 1 .. N[l] + 1 /\ i \in 0 .. N[l] + 1 /\ i + 1 \in 0 .. N[l] + 1
    BY DEF LinesIn
  <2>2. L[l][i] \in D /\ L[l][i + 1] \in D
    BY <2>1 DEF LinesIn
  <2>3. \A j \in 0 .. n + 1 : L[l][i] # K[j]
    BY <1>9 DEF LinesApart
  <2>4. \A j \in 1 .. (n + 1) + 1 : L[l][i + 1] # K[j]
    BY <1>9, <2>1 DEF LinesApart
  <2>5. nx[L[l][i]] = L[l][i + 1] /\ pv[L[l][i + 1]] = L[l][i]
    BY DEF LinesJoined, Joined
  <2>6. L[l][i] # x /\ L[l][i] # K[p - 1] /\ L[l][i + 1] # x /\ L[l][i + 1] # K[p + 1]
    BY <1>2, <1>3, <2>3, <2>4
  <2> QED
    BY <2>2, <2>5, <2>6 DEF Rewritten
<1> QED
  BY <1>8, <1>9

-----------------------------------------------------------------------------
(* The lists of a FutureGroup: their lines, and null links outside. *)
FItems(s) == [i \in 1 .. Len(s) |-> Item(s[i])]
FLines(Q) == [l \in GroupList |-> LineOf(HeadOf(l), TailOf(l), FItems(Q[l]), Len(Q[l]))]
FLens(Q) == [l \in GroupList |-> Len(Q[l])]
FLink == FNode \cup {NoLink}

FGood(Q, nx, pv) ==
    /\ Q \in [GroupList -> Seq(GroupFuture)] /\ Apart(Q)
    /\ nx \in [FNode -> FLink] /\ pv \in [FNode -> FLink]
    /\ LinesJoined(GroupList, FLines(Q), FLens(Q), nx, pv)
    /\ \A f \in GroupFuture : ~Within(Q, f) => nx[Item(f)] = NoLink /\ pv[Item(f)] = NoLink

(* Sentinels and futures are different nodes. *)
LEMMA FNodesDiffer ==
    /\ \A l \in GroupList : HeadOf(l) \in FNode /\ TailOf(l) \in FNode
    /\ \A f \in GroupFuture : Item(f) \in FNode
    /\ \A l, m : HeadOf(l) # TailOf(m) /\ HeadOf(l) # Item(m) /\ TailOf(l) # Item(m)
    /\ \A l, m : (HeadOf(l) = HeadOf(m) => l = m) /\ (TailOf(l) = TailOf(m) => l = m) /\ (Item(l) = Item(m) => l = m)
BY DEF FNode, HeadOf, TailOf, Item

(* The nodes of a line. *)
LEMMA FLineAt ==
    ASSUME NEW Q \in [GroupList -> Seq(GroupFuture)], NEW l \in GroupList
    PROVE  /\ Len(Q[l]) \in Nat /\ FLens(Q)[l] = Len(Q[l])
           /\ FLines(Q)[l] = LineOf(HeadOf(l), TailOf(l), FItems(Q[l]), Len(Q[l]))
           /\ FLines(Q)[l][0] = HeadOf(l) /\ FLines(Q)[l][Len(Q[l]) + 1] = TailOf(l)
           /\ \A i \in 1 .. Len(Q[l]) : FLines(Q)[l][i] = Item(Q[l][i]) /\ Q[l][i] \in GroupFuture
           /\ \A i \in 0 .. Len(Q[l]) + 1 : i = 0 \/ i = Len(Q[l]) + 1 \/ i \in 1 .. Len(Q[l])
<1>1. PICK s, n : s = Q[l] /\ n = Len(Q[l])
  OBVIOUS
<1>2. s \in Seq(GroupFuture) /\ n \in Nat /\ n = Len(s)
  BY <1>1, LenProperties
<1>3. \A i \in 1 .. n : s[i] \in GroupFuture /\ FItems(s)[i] = Item(s[i])
  BY <1>2, ElementOfSeq DEF FItems
<1>4. PICK K : K = LineOf(HeadOf(l), TailOf(l), FItems(s), n)
  OBVIOUS
<1>5. K[0] = HeadOf(l) /\ K[n + 1] = TailOf(l) /\ (\A i \in 1 .. n : K[i] = FItems(s)[i])
  BY <1>2, <1>4 DEF LineOf
<1>6. FLens(Q)[l] = n /\ FLines(Q)[l] = K
  BY <1>1, <1>4 DEF FLens, FLines
<1>7. \A i \in 0 .. n + 1 : i = 0 \/ i = n + 1 \/ i \in 1 .. n
  BY <1>2
<1> QED
  BY <1>1, <1>2, <1>3, <1>4, <1>5, <1>6, <1>7

(* Futures that have one place each make lines that have no node in common. *)
LEMMA FLinesApart ==
    ASSUME NEW Q \in [GroupList -> Seq(GroupFuture)], Apart(Q)
    PROVE  /\ LinesIn(GroupList, FLines(Q), FLens(Q), FNode)
           /\ LinesApart(GroupList, FLines(Q), FLens(Q))
           /\ \A f \in GroupFuture : ~Within(Q, f) => OffLines(GroupList, FLines(Q), FLens(Q), Item(f))
<1>1. PICK L, N : L = FLines(Q) /\ N = FLens(Q)
  OBVIOUS
<1>2. \A l \in GroupList :
        /\ N[l] \in Nat /\ N[l] = Len(Q[l]) /\ L[l][0] = HeadOf(l) /\ L[l][N[l] + 1] = TailOf(l)
        /\ \A i \in 1 .. N[l] : L[l][i] = Item(Q[l][i]) /\ Q[l][i] \in GroupFuture
        /\ \A i \in 0 .. N[l] + 1 : i = 0 \/ i = N[l] + 1 \/ i \in 1 .. N[l]
  BY <1>1, FLineAt
<1>3. LinesIn(GroupList, L, N, FNode)
  BY <1>2, FNodesDiffer DEF LinesIn
<1>4. \A l, m \in GroupList : \A i \in 1 .. N[l], j \in 1 .. N[m] : Q[l][i] = Q[m][j] => l = m /\ i = j
  BY <1>2 DEF Apart
<1>5. ASSUME NEW l \in GroupList, NEW m \in GroupList, NEW i \in 0 .. N[l], NEW j \in 0 .. N[m], L[l][i] = L[m][j]
      PROVE  l = m /\ i = j
  <2>1. (i = 0 \/ i \in 1 .. N[l]) /\ (j = 0 \/ j \in 1 .. N[m])
    BY <1>2
  <2>2. /\ i = 0 => L[l][i] = HeadOf(l)
        /\ i \in 1 .. N[l] => L[l][i] = Item(Q[l][i])
        /\ j = 0 => L[m][j] = HeadOf(m)
        /\ j \in 1 .. N[m] => L[m][j] = Item(Q[m][j])
    BY <1>2
  <2>3. CASE i = 0 /\ j = 0
    <3>1. HeadOf(l) = HeadOf(m)
      BY <1>5, <2>2, <2>3
    <3>2. l = m
      BY <3>1, FNodesDiffer
    <3> QED
      BY <2>3, <3>2
  <2>4. CASE i \in 1 .. N[l] /\ j \in 1 .. N[m]
    <3>1. Item(Q[l][i]) = Item(Q[m][j])
      BY <1>5, <2>2, <2>4
    <3>2. Q[l][i] = Q[m][j]
      BY <3>1, FNodesDiffer
    <3> QED
      BY <1>4, <2>4, <3>2
  <2>5. CASE i = 0 /\ j \in 1 .. N[m]
    <3>1. HeadOf(l) = Item(Q[m][j])
      BY <1>5, <2>2, <2>5
    <3> QED
      BY <3>1, FNodesDiffer
  <2>6. CASE i \in 1 .. N[l] /\ j = 0
    <3>1. HeadOf(m) = Item(Q[l][i])
      BY <1>5, <2>2, <2>6
    <3> QED
      BY <3>1, FNodesDiffer
  <2> QED
    BY <2>1, <2>3, <2>4, <2>5, <2>6
<1>6. ASSUME NEW l \in GroupList, NEW m \in GroupList, NEW i \in 1 .. N[l] + 1, NEW j \in 1 .. N[m] + 1, L[l][i] = L[m][j]
      PROVE  l = m /\ i = j
  <2>1. (i = N[l] + 1 \/ i \in 1 .. N[l]) /\ (j = N[m] + 1 \/ j \in 1 .. N[m])
    BY <1>2
  <2>2. /\ i = N[l] + 1 => L[l][i] = TailOf(l)
        /\ i \in 1 .. N[l] => L[l][i] = Item(Q[l][i])
        /\ j = N[m] + 1 => L[m][j] = TailOf(m)
        /\ j \in 1 .. N[m] => L[m][j] = Item(Q[m][j])
    BY <1>2
  <2>3. CASE i = N[l] + 1 /\ j = N[m] + 1
    <3>1. TailOf(l) = TailOf(m)
      BY <1>6, <2>2, <2>3
    <3>2. l = m
      BY <3>1, FNodesDiffer
    <3> QED
      BY <2>3, <3>2
  <2>4. CASE i \in 1 .. N[l] /\ j \in 1 .. N[m]
    <3>1. Item(Q[l][i]) = Item(Q[m][j])
      BY <1>6, <2>2, <2>4
    <3>2. Q[l][i] = Q[m][j]
      BY <3>1, FNodesDiffer
    <3> QED
      BY <1>4, <2>4, <3>2
  <2>5. CASE i = N[l] + 1 /\ j \in 1 .. N[m]
    <3>1. TailOf(l) = Item(Q[m][j])
      BY <1>6, <2>2, <2>5
    <3> QED
      BY <3>1, FNodesDiffer
  <2>6. CASE i \in 1 .. N[l] /\ j = N[m] + 1
    <3>1. TailOf(m) = Item(Q[l][i])
      BY <1>6, <2>2, <2>6
    <3> QED
      BY <3>1, FNodesDiffer
  <2> QED
    BY <2>1, <2>3, <2>4, <2>5, <2>6
<1>7. LinesApart(GroupList, L, N)
  BY <1>5, <1>6 DEF LinesApart
<1>8. ASSUME NEW f \in GroupFuture, ~Within(Q, f) PROVE OffLines(GroupList, L, N, Item(f))
  <2>1. \A l \in GroupList : \A i \in 1 .. N[l] : Q[l][i] # f
    BY <1>2, <1>8 DEF Within
  <2>2. ASSUME NEW l \in GroupList, NEW i \in 0 .. N[l] + 1 PROVE L[l][i] # Item(f)
    <3>1. L[l][i] = HeadOf(l) \/ L[l][i] = TailOf(l) \/ (i \in 1 .. N[l] /\ L[l][i] = Item(Q[l][i]))
      BY <1>2
    <3> QED
      BY <2>1, <3>1, FNodesDiffer
  <2> QED
    BY <2>2 DEF OffLines
<1> QED
  BY <1>1, <1>3, <1>7, <1>8

(* One list changes and the lines of the others stay joined. *)
LEMMA FJoined ==
    ASSUME NEW Q \in [GroupList -> Seq(GroupFuture)], NEW l \in GroupList, NEW r \in Seq(GroupFuture),
           NEW R, Replaced(Q, l, r, R), NEW nx, NEW pv,
           Joined(LineOf(HeadOf(l), TailOf(l), FItems(r), Len(r)), Len(r), nx, pv),
           \A m \in GroupList : m # l => Joined(FLines(Q)[m], FLens(Q)[m], nx, pv)
    PROVE  R \in [GroupList -> Seq(GroupFuture)] /\ LinesJoined(GroupList, FLines(R), FLens(R), nx, pv)
<1>1. R \in [GroupList -> Seq(GroupFuture)] /\ R[l] = r /\ (\A m \in GroupList : m # l => R[m] = Q[m])
  BY DEF Replaced
<1>2. ASSUME NEW m \in GroupList PROVE Joined(FLines(R)[m], FLens(R)[m], nx, pv)
  <2>1. FLens(R)[m] = Len(R[m]) /\ FLines(R)[m] = LineOf(HeadOf(m), TailOf(m), FItems(R[m]), Len(R[m]))
    BY <1>1, FLineAt
  <2>2. FLens(Q)[m] = Len(Q[m]) /\ FLines(Q)[m] = LineOf(HeadOf(m), TailOf(m), FItems(Q[m]), Len(Q[m]))
    BY FLineAt
  <2>3. CASE m = l
    BY <1>1, <2>1, <2>3
  <2>4. CASE m # l
    BY <1>1, <2>1, <2>2, <2>4
  <2> QED
    BY <2>3, <2>4
<1> QED
  BY <1>1, <1>2 DEF LinesJoined

(* A sequence of futures with one more is one of nodes with one more. *)
LEMMA FItemsAdded ==
    ASSUME NEW s \in Seq(GroupFuture), NEW r \in Seq(GroupFuture), NEW n \in Nat, Len(s) = n, Len(r) = n + 1,
           NEW p, NEW f, IsAdded(s, n, r, p, f)
    PROVE  IsAdded(FItems(s), n, FItems(r), p, Item(f))
<1>1. \A i \in 1 .. n : FItems(s)[i] = Item(s[i])
  BY DEF FItems
<1>2. \A i \in 1 .. n + 1 : FItems(r)[i] = Item(r[i])
  BY DEF FItems
<1>3. p \in 1 .. n + 1 /\ r[p] = f /\ (\A i \in 1 .. p - 1 : r[i] = s[i]) /\ (\A i \in p .. n : r[i + 1] = s[i])
  BY DEF IsAdded
<1>4. ASSUME NEW i \in 1 .. p - 1 PROVE FItems(r)[i] = FItems(s)[i]
  <2>1. i \in 1 .. n /\ i \in 1 .. n + 1
    BY <1>3
  <2> QED
    BY <1>1, <1>2, <1>3, <2>1
<1>5. ASSUME NEW i \in p .. n PROVE FItems(r)[i + 1] = FItems(s)[i]
  <2>1. i \in 1 .. n /\ i + 1 \in 1 .. n + 1
    BY <1>3
  <2> QED
    BY <1>1, <1>2, <1>3, <2>1
<1> QED
  BY <1>2, <1>3, <1>4, <1>5 DEF IsAdded

(* PushBack, RemoveFront: the links after them. *)
FPushLinks(nx, pv, nx2, pv2, l, f) ==
    /\ pv2 = [pv EXCEPT ![Item(f)] = pv[TailOf(l)], ![TailOf(l)] = Item(f)]
    /\ nx2 = [nx EXCEPT ![Item(f)] = TailOf(l), ![pv[TailOf(l)]] = Item(f)]
FRemoveLinks(nx, pv, nx2, pv2, l, x) ==
    /\ nx2 = [nx EXCEPT ![HeadOf(l)] = nx[x], ![x] = NoLink]
    /\ pv2 = [pv EXCEPT ![nx[x]] = HeadOf(l), ![x] = NoLink]

(* PushBack puts a future in front of the last sentinel.                    *)
LEMMA FPushed ==
    ASSUME NEW Q, NEW nx, NEW pv, FGood(Q, nx, pv), NEW l \in GroupList, NEW f \in GroupFuture, ~Within(Q, f),
           NEW R, Replaced(Q, l, Append(Q[l], f), R), NEW nx2, NEW pv2,
           FPushLinks(nx, pv, nx2, pv2, l, f)
    PROVE  FGood(R, nx2, pv2)
<1>1. /\ Q \in [GroupList -> Seq(GroupFuture)] /\ DOMAIN Q = GroupList /\ Apart(Q)
      /\ nx \in [FNode -> FLink] /\ pv \in [FNode -> FLink]
  BY DEF FGood
<1>2. PICK L, N, K, n, s, r : /\ L = FLines(Q) /\ N = FLens(Q) /\ K = L[l] /\ n = Len(Q[l])
                              /\ s = Q[l] /\ r = Append(Q[l], f)
  OBVIOUS
<1>3. /\ LinesIn(GroupList, L, N, FNode) /\ LinesApart(GroupList, L, N) /\ OffLines(GroupList, L, N, Item(f))
      /\ \A g \in GroupFuture : ~Within(Q, g) => OffLines(GroupList, L, N, Item(g))
  BY <1>1, <1>2, FLinesApart
<1>4. LinesJoined(GroupList, L, N, nx, pv)
  BY <1>2 DEF FGood
<1>5. n \in Nat /\ N[l] = n /\ K[n + 1] = TailOf(l) /\ K = LineOf(HeadOf(l), TailOf(l), FItems(s), n)
  BY <1>1, <1>2, FLineAt
<1>6. s \in Seq(GroupFuture) /\ Len(s) = n
  BY <1>1, <1>2
<1>7. r \in Seq(GroupFuture) /\ Len(r) = n + 1 /\ r[n + 1] = f /\ (\A i \in 1 .. n : r[i] = s[i])
  BY <1>2, <1>6, AppendProperties
<1>8. IsAdded(s, n, r, n + 1, f)
  BY <1>5, <1>7 DEF IsAdded
<1>9. IsLine(K, n, LineOf(HeadOf(l), TailOf(l), FItems(r), n + 1), n + 1, Item(f))
  BY <1>5, <1>6, <1>7, <1>8, FItemsAdded, LineIsAdded
<1>10. n \in 0 .. n /\ n \in 0 .. n + 1 /\ n + 1 \in 0 .. n + 1 /\ (n + 1) - 1 = n
  BY <1>5
<1>11. /\ pv[TailOf(l)] = K[n] /\ K[n] \in FNode /\ K[n] # Item(f)
       /\ TailOf(l) \in FNode /\ Item(f) \in FNode /\ TailOf(l) # Item(f)
  <2>1. pv[K[n + 1]] = K[n]
    <3>1. Joined(K, n, nx, pv)
      BY <1>2, <1>4, <1>5 DEF LinesJoined
    <3> QED
      BY <1>10, <3>1 DEF Joined
  <2>2. K[n] \in FNode /\ K[n] # Item(f)
    BY <1>2, <1>3, <1>5, <1>10 DEF LinesIn, OffLines
  <2> QED
    BY <1>5, <2>1, <2>2, FNodesDiffer
<1>12. pv2 \in [FNode -> FLink] /\ nx2 \in [FNode -> FLink]
  BY <1>1, <1>11 DEF FLink, FPushLinks
<1>13. Rewritten(FNode, nx, nx2, Item(f), K[n + 1], K[(n + 1) - 1], Item(f))
  BY <1>1, <1>5, <1>10, <1>11 DEF Rewritten, FPushLinks
<1>14. Rewritten(FNode, pv, pv2, Item(f), K[(n + 1) - 1], K[n + 1], Item(f))
  BY <1>1, <1>5, <1>10, <1>11 DEF Rewritten, FPushLinks
<1>15. /\ Joined(LineOf(HeadOf(l), TailOf(l), FItems(r), n + 1), n + 1, nx2, pv2)
       /\ \A m \in GroupList : m # l => Joined(L[m], N[m], nx2, pv2)
  <2>1. PICK M, x, p : M = LineOf(HeadOf(l), TailOf(l), FItems(r), n + 1) /\ x = Item(f) /\ p = n + 1
    OBVIOUS
  <2>2. SplicedIn(GroupList, L, N, FNode, nx, pv, nx2, pv2, l, p, x, M)
    BY <1>2, <1>3, <1>4, <1>5, <1>9, <1>11, <1>13, <1>14, <2>1 DEF SplicedIn, LinesGood
  <2>3. Joined(M, N[l] + 1, nx2, pv2) /\ (\A m \in GroupList : m # l => Joined(L[m], N[m], nx2, pv2))
    BY <2>2, LineAdded
  <2> QED
    BY <1>5, <2>1, <2>3
<1>16. Replaced(Q, l, r, R)
  BY <1>2
<1>17. R \in [GroupList -> Seq(GroupFuture)] /\ LinesJoined(GroupList, FLines(R), FLens(R), nx2, pv2)
  <2>1. /\ Joined(LineOf(HeadOf(l), TailOf(l), FItems(r), Len(r)), Len(r), nx2, pv2)
        /\ \A m \in GroupList : m # l => Joined(FLines(Q)[m], FLens(Q)[m], nx2, pv2)
    BY <1>2, <1>7, <1>15
  <2> QED
    BY <1>1, <1>7, <1>16, <2>1, FJoined
<1>18. Apart(R) /\ (\A x : Within(R, x) <=> Within(Q, x) \/ x = f)
  <2>1. Lengths(Q)
    BY <1>1, FLineAt DEF Lengths
  <2>2. IsAdded(Q[l], Len(Q[l]), r, n + 1, f) /\ Len(r) = Len(Q[l]) + 1
    BY <1>2, <1>7, <1>8
  <2> QED
    BY <1>1, <1>16, <2>1, <2>2, ApartAdded
<1>19. ASSUME NEW g \in GroupFuture, ~Within(R, g) PROVE nx2[Item(g)] = NoLink /\ pv2[Item(g)] = NoLink
  <2>1. g # f /\ ~Within(Q, g)
    BY <1>18, <1>19
  <2>2. nx[Item(g)] = NoLink /\ pv[Item(g)] = NoLink
    BY <2>1 DEF FGood
  <2>3. Item(g) # K[n] /\ Item(g) # K[n + 1] /\ Item(g) # Item(f) /\ Item(g) \in FNode
    <3>1. \A i \in 0 .. N[l] + 1 : L[l][i] # Item(g)
      BY <1>3, <2>1 DEF OffLines
    <3>2. \A i \in 0 .. n + 1 : K[i] # Item(g)
      BY <3>1, <1>2, <1>5
    <3>3. Item(g) # K[n] /\ Item(g) # K[n + 1]
      BY <3>2, <1>10
    <3>4. Item(g) # Item(f) /\ Item(g) \in FNode
      BY <2>1, FNodesDiffer
    <3> QED
      BY <3>3, <3>4
  <2> QED
    BY <1>10, <1>13, <1>14, <2>2, <2>3 DEF Rewritten
<1> QED
  BY <1>12, <1>17, <1>18, <1>19 DEF FGood

(* RemoveFront takes the future behind the first sentinel.                  *)
LEMMA FRemoved ==
    ASSUME NEW Q, NEW nx, NEW pv, FGood(Q, nx, pv), NEW l \in GroupList, nx[HeadOf(l)] # TailOf(l),
           NEW x, x = nx[HeadOf(l)],
           NEW R, Replaced(Q, l, Tail(Q[l]), R), NEW nx2, NEW pv2,
           FRemoveLinks(nx, pv, nx2, pv2, l, x)
    PROVE  FGood(R, nx2, pv2)
<1>1. /\ Q \in [GroupList -> Seq(GroupFuture)] /\ DOMAIN Q = GroupList /\ Apart(Q)
      /\ nx \in [FNode -> FLink] /\ pv \in [FNode -> FLink]
  BY DEF FGood
<1>2. PICK L, N, K, s, r, k : /\ L = FLines(Q) /\ N = FLens(Q) /\ K = L[l]
                              /\ s = Q[l] /\ r = Tail(Q[l]) /\ k = Len(Tail(Q[l]))
  OBVIOUS
<1>3. /\ LinesIn(GroupList, L, N, FNode) /\ LinesApart(GroupList, L, N)
      /\ \A g \in GroupFuture : ~Within(Q, g) => OffLines(GroupList, L, N, Item(g))
  BY <1>1, <1>2, FLinesApart
<1>4. LinesJoined(GroupList, L, N, nx, pv)
  BY <1>2 DEF FGood
<1>5. /\ Len(s) \in Nat /\ N[l] = Len(s) /\ K[0] = HeadOf(l) /\ K[Len(s) + 1] = TailOf(l)
      /\ K = LineOf(HeadOf(l), TailOf(l), FItems(s), Len(s))
      /\ \A i \in 1 .. Len(s) : K[i] = Item(s[i]) /\ s[i] \in GroupFuture
  BY <1>1, <1>2, FLineAt
<1>6. \A i \in 0 .. Len(s) : nx[K[i]] = K[i + 1] /\ pv[K[i + 1]] = K[i]
  <2>1. Joined(K, Len(s), nx, pv)
    BY <1>2, <1>4, <1>5 DEF LinesJoined
  <2> QED
    BY <2>1 DEF Joined
<1>7. x = K[1] /\ Len(s) # 0 /\ s # <<>> /\ s \in Seq(GroupFuture)
  <2>1. 0 \in 0 .. Len(s) /\ 0 + 1 = 1
    BY <1>5
  <2>2. nx[K[0]] = K[1]
    BY <1>6, <2>1
  <2>3. Len(s) # 0
    BY <1>5, <2>2
  <2>4. s # <<>>
    BY <2>3, EmptySeq
  <2> QED
    BY <1>1, <1>2, <1>5, <2>2, <2>3, <2>4
<1>8. /\ r \in Seq(GroupFuture) /\ Len(r) = k /\ k \in Nat /\ Len(s) = k + 1
      /\ \A i \in 1 .. k : r[i] = s[i + 1]
  <2>1. r \in Seq(GroupFuture) /\ Len(r) = Len(s) - 1 /\ (\A i \in 1 .. Len(r) : r[i] = s[i + 1])
    BY <1>2, <1>7, HeadTailProperties
  <2> QED
    BY <1>2, <1>5, <1>7, <2>1
<1>9. PICK f \in GroupFuture : f = s[1] /\ x = Item(f)
  BY <1>5, <1>7, <1>8
<1>10. IsAdded(r, k, s, 1, f)
  BY <1>8, <1>9 DEF IsAdded
<1>11. IsLine(LineOf(HeadOf(l), TailOf(l), FItems(r), k), k, K, 1, x)
  BY <1>5, <1>7, <1>8, <1>9, <1>10, FItemsAdded, LineIsAdded
<1>12. nx[x] = K[2] /\ K[2] \in FNode /\ x \in FNode /\ HeadOf(l) \in FNode /\ K[2] # x /\ HeadOf(l) # x
  <2>1. 1 \in 0 .. Len(s) /\ 2 \in 0 .. Len(s) + 1 /\ 1 + 1 = 2 /\ 1 \in 1 .. Len(s) + 1 /\ 2 \in 1 .. Len(s) + 1
    BY <1>5, <1>8
  <2>2. nx[x] = K[2]
    BY <1>6, <1>7, <2>1
  <2>3. K[2] \in FNode
    BY <1>2, <1>3, <1>5, <2>1 DEF LinesIn
  <2>4. K[2] # K[1]
    <3>1. \A i, j \in 1 .. N[l] + 1 : K[i] = K[j] => i = j
      BY <1>2, <1>3 DEF LinesApart
    <3> QED
      BY <1>5, <2>1, <3>1
  <2> QED
    BY <1>7, <1>9, <2>2, <2>3, <2>4, FNodesDiffer
<1>13. pv2 \in [FNode -> FLink] /\ nx2 \in [FNode -> FLink]
  BY <1>1, <1>12 DEF FLink, FRemoveLinks
<1>14. Rewritten(FNode, nx, nx2, x, NoLink, K[1 - 1], K[1 + 1])
  BY <1>1, <1>5, <1>12 DEF Rewritten, FRemoveLinks
<1>15. Rewritten(FNode, pv, pv2, x, NoLink, K[1 + 1], K[1 - 1])
  BY <1>1, <1>5, <1>12 DEF Rewritten, FRemoveLinks
<1>16. /\ Joined(LineOf(HeadOf(l), TailOf(l), FItems(r), k), k, nx2, pv2)
       /\ \A m \in GroupList : m # l => Joined(L[m], N[m], nx2, pv2)
  <2>1. PICK M, p, c : M = LineOf(HeadOf(l), TailOf(l), FItems(r), k) /\ p = 1 /\ c = NoLink
    OBVIOUS
  <2>2. IsLine(M, k, L[l], p, x) /\ N[l] = k + 1 /\ N[l] - 1 = k
    BY <1>2, <1>5, <1>8, <1>11, <2>1
  <2>3. SplicedOut(GroupList, L, N, FNode, nx, pv, nx2, pv2, l, p, x, M, c)
    BY <1>2, <1>3, <1>4, <1>8, <1>14, <1>15, <2>1, <2>2 DEF SplicedOut, LinesGood
  <2>4. Joined(M, N[l] - 1, nx2, pv2) /\ (\A m \in GroupList : m # l => Joined(L[m], N[m], nx2, pv2))
    BY <2>3, LineTaken
  <2> QED
    BY <2>1, <2>2, <2>4
<1>17. Replaced(Q, l, r, R)
  BY <1>2
<1>18. R \in [GroupList -> Seq(GroupFuture)] /\ LinesJoined(GroupList, FLines(R), FLens(R), nx2, pv2)
  <2>1. /\ Joined(LineOf(HeadOf(l), TailOf(l), FItems(r), Len(r)), Len(r), nx2, pv2)
        /\ \A m \in GroupList : m # l => Joined(FLines(Q)[m], FLens(Q)[m], nx2, pv2)
    BY <1>2, <1>8, <1>16
  <2> QED
    BY <1>1, <1>8, <1>17, <2>1, FJoined
<1>19. Apart(R) /\ ~Within(R, f) /\ (\A y : Within(Q, y) <=> Within(R, y) \/ y = f)
  <2>1. Lengths(Q)
    BY <1>1, FLineAt DEF Lengths
  <2>2. IsAdded(r, Len(r), Q[l], 1, f) /\ Len(Q[l]) = Len(r) + 1 /\ Len(r) \in Nat
    BY <1>2, <1>8, <1>10
  <2> QED
    BY <1>1, <1>17, <2>1, <2>2, ApartTaken
<1>20. ASSUME NEW g \in GroupFuture, ~Within(R, g) PROVE nx2[Item(g)] = NoLink /\ pv2[Item(g)] = NoLink
  <2>1. CASE g = f
    BY <1>9, <1>12, <1>14, <1>15, <2>1 DEF Rewritten
  <2>2. CASE g # f
    <3>1. ~Within(Q, g)
      BY <1>19, <1>20, <2>2
    <3>2. nx[Item(g)] = NoLink /\ pv[Item(g)] = NoLink
      BY <3>1 DEF FGood
    <3>3. 0 \in 0 .. Len(s) + 1 /\ 2 \in 0 .. Len(s) + 1 /\ 1 - 1 = 0 /\ 1 + 1 = 2
      BY <1>5, <1>8
    <3>4. Item(g) # K[0] /\ Item(g) # K[2] /\ Item(g) # x /\ Item(g) \in FNode
      <4>1. \A i \in 0 .. N[l] + 1 : K[i] # Item(g)
        BY <1>2, <1>3, <3>1 DEF OffLines
      <4>2. Item(g) # x /\ Item(g) \in FNode
        BY <1>9, <2>2, FNodesDiffer
      <4> QED
        BY <1>5, <3>3, <4>1, <4>2
    <3> QED
      BY <1>14, <1>15, <3>2, <3>3, <3>4 DEF Rewritten
  <2> QED
    BY <2>1, <2>2
<1> QED
  BY <1>13, <1>18, <1>19, <1>20 DEF FGood

FInv == FGood(fSeq, fNext, fPrev)

(* The sentinels are linked to each other at first.                         *)
LEMMA FInitInv == FutureListInit => FInv
<1> SUFFICES ASSUME FutureListInit PROVE FInv
  OBVIOUS
<1>1. <<>> \in Seq(GroupFuture) /\ Len(<<>>) = 0
  BY EmptySeq
<1>2. fSeq \in [GroupList -> Seq(GroupFuture)] /\ (\A l \in GroupList : fSeq[l] = <<>> /\ Len(fSeq[l]) = 0)
  BY <1>1 DEF FutureListInit
<1>3. \A l \in GroupList : TailOf(l)[1] = l /\ HeadOf(l)[1] = l
  BY DEF TailOf, HeadOf
<1>4. \A l \in GroupList : fNext[HeadOf(l)] = TailOf(l) /\ fPrev[TailOf(l)] = HeadOf(l)
  BY <1>3, FNodesDiffer DEF FutureListInit
<1>5. \A f \in GroupFuture : fNext[Item(f)] = NoLink /\ fPrev[Item(f)] = NoLink
  BY FNodesDiffer DEF FutureListInit
<1>6. fNext \in [FNode -> FLink] /\ fPrev \in [FNode -> FLink]
  <2>1. ASSUME NEW n \in FNode
        PROVE  (IF \E l \in GroupList : n = TailOf(l) THEN HeadOf(n[1]) ELSE NoLink) \in FLink
    BY <1>3, FNodesDiffer DEF FLink
  <2>2. ASSUME NEW n \in FNode
        PROVE  (IF \E l \in GroupList : n = HeadOf(l) THEN TailOf(n[1]) ELSE NoLink) \in FLink
    BY <1>3, FNodesDiffer DEF FLink
  <2> QED
    BY <2>1, <2>2 DEF FutureListInit
<1>7. Apart(fSeq)
  BY <1>2 DEF Apart
<1>8. LinesJoined(GroupList, FLines(fSeq), FLens(fSeq), fNext, fPrev)
  <2> SUFFICES ASSUME NEW l \in GroupList PROVE Joined(FLines(fSeq)[l], FLens(fSeq)[l], fNext, fPrev)
    BY DEF LinesJoined
  <2>1. PICK K : K = FLines(fSeq)[l]
    OBVIOUS
  <2>2. FLens(fSeq)[l] = 0 /\ K[0] = HeadOf(l) /\ K[0 + 1] = TailOf(l)
    BY <1>2, <2>1, FLineAt
  <2>3. \A i \in 0 .. 0 : i = 0
    OBVIOUS
  <2>4. Joined(K, 0, fNext, fPrev)
    BY <1>4, <2>2, <2>3 DEF Joined
  <2> QED
    BY <2>1, <2>2, <2>4
<1> QED
  BY <1>2, <1>5, <1>6, <1>7, <1>8 DEF FInv, FGood

(* Both operations keep the lines.                                          *)
LEMMA FStepInv == FInv /\ [FutureListNext]_futureListVars => FInv'
<1> SUFFICES ASSUME FInv, [FutureListNext]_futureListVars PROVE FInv'
  OBVIOUS
<1>1. PICK Q, nx, pv, R, nx2, pv2 : /\ Q = fSeq /\ nx = fNext /\ pv = fPrev
                                    /\ R = fSeq' /\ nx2 = fNext' /\ pv2 = fPrev'
  OBVIOUS
<1>2. FGood(Q, nx, pv) /\ DOMAIN Q = GroupList
  BY <1>1 DEF FInv, FGood
<1>3. ASSUME NEW l \in GroupList, RemoveFront(l) PROVE FGood(R, nx2, pv2)
  <2>1. PICK x : x = nx[HeadOf(l)]
    OBVIOUS
  <2>2. nx[HeadOf(l)] # TailOf(l)
    BY <1>1, <1>3 DEF RemoveFront, FutureListEmpty
  <2>3. FRemoveLinks(nx, pv, nx2, pv2, l, x) /\ Replaced(Q, l, Tail(Q[l]), R)
    BY <1>1, <1>3, <2>1 DEF RemoveFront, Replaced, FRemoveLinks
  <2> QED
    BY <1>2, <2>1, <2>2, <2>3, FRemoved
<1>4. ASSUME NEW l \in GroupList, NEW f \in GroupFuture, PushBack(l, f) PROVE FGood(R, nx2, pv2)
  <2>1. ~Within(Q, f)
    BY <1>1, <1>2, <1>4 DEF PushBack, Within
  <2>2. FPushLinks(nx, pv, nx2, pv2, l, f) /\ Replaced(Q, l, Append(Q[l], f), R)
    BY <1>1, <1>4 DEF PushBack, Replaced, FPushLinks
  <2> QED
    BY <1>2, <2>1, <2>2, FPushed
<1>5. CASE UNCHANGED futureListVars
  BY <1>5 DEF FInv, futureListVars
<1>6. CASE FutureListNext
  BY <1>1, <1>3, <1>4, <1>6 DEF FutureListNext, FInv
<1> QED
  BY <1>5, <1>6

(* The lines are what FutureListIsItsSequence says.                         *)
LEMMA FInvImplies == FInv => FutureListIsItsSequence
<1> SUFFICES ASSUME FInv PROVE FutureListIsItsSequence
  OBVIOUS
<1>1. PICK Q, nx, pv : Q = fSeq /\ nx = fNext /\ pv = fPrev
  OBVIOUS
<1>2. FGood(Q, nx, pv) /\ Q \in [GroupList -> Seq(GroupFuture)]
  BY <1>1 DEF FInv, FGood
<1>4. ASSUME NEW f \in GroupFuture, \A l \in GroupList : \A i \in 1 .. Len(fSeq[l]) : fSeq[l][i] # f
      PROVE  fNext[Item(f)] = NoLink /\ fPrev[Item(f)] = NoLink
  <2>1. ~Within(Q, f)
    BY <1>1, <1>2, <1>4 DEF Within
  <2> QED
    BY <1>1, <1>2, <2>1 DEF FGood
<1>5. ASSUME NEW l \in GroupList
      PROVE  LET n == Len(fSeq[l])
                 line == [i \in 0 .. n + 1 |-> IF i = 0 THEN HeadOf(l)
                                               ELSE IF i = n + 1 THEN TailOf(l) ELSE Item(fSeq[l][i])]
             IN  /\ \A i \in 0 .. n : fNext[line[i]] = line[i + 1] /\ fPrev[line[i + 1]] = line[i]
                 /\ FutureListEmpty(l) <=> n = 0
  <2>1. PICK n, K : n = Len(Q[l]) /\ K = FLines(Q)[l]
    OBVIOUS
  <2>2. /\ n \in Nat /\ FLens(Q)[l] = n /\ K[0] = HeadOf(l) /\ K[n + 1] = TailOf(l)
        /\ \A i \in 1 .. n : K[i] = Item(Q[l][i])
    BY <1>2, <2>1, FLineAt
  <2>3. \A i \in 0 .. n : nx[K[i]] = K[i + 1] /\ pv[K[i + 1]] = K[i]
    <3>1. Joined(K, n, nx, pv)
      BY <1>2, <2>1, <2>2 DEF FGood, LinesJoined
    <3> QED
      BY <3>1 DEF Joined
  <2> DEFINE line == [i \in 0 .. n + 1 |-> IF i = 0 THEN HeadOf(l)
                                           ELSE IF i = n + 1 THEN TailOf(l) ELSE Item(Q[l][i])]
  <2>4. \A i \in 0 .. n + 1 : line[i] = K[i]
    BY <2>2
  <2>5. \A i \in 0 .. n : i \in 0 .. n + 1 /\ i + 1 \in 0 .. n + 1
    BY <2>2
  <2>6. nx[HeadOf(l)] = K[1]
    BY <2>2, <2>3
  <2>7. n # 0 => K[1] # TailOf(l)
    BY <2>2, FNodesDiffer
  <2>8. n = 0 => K[1] = TailOf(l)
    BY <2>2
  <2> HIDE DEF line
  <2>9. \A i \in 0 .. n : nx[line[i]] = line[i + 1] /\ pv[line[i + 1]] = line[i]
    BY <2>3, <2>4, <2>5
  <2>10. FutureListEmpty(l) <=> n = 0
    BY <1>1, <2>6, <2>7, <2>8 DEF FutureListEmpty
  <2> QED
    BY <1>1, <2>1, <2>9, <2>10 DEF line
<1> QED
  BY <1>4, <1>5 DEF FutureListIsItsSequence

(* The lists of a FutureGroup: from either sentinel the links lead through  *)
(* the futures in the order in which they were pushed.                      *)
LEMMA FutureListInvariant == FutureListSpec => []FutureListIsItsSequence
<1>1. FutureListInit => FInv
  BY FInitInv
<1>2. FInv /\ [FutureListNext]_futureListVars => FInv'
  BY FStepInv
<1>3. FInv => FutureListIsItsSequence
  BY FInvImplies
<1> QED
  BY <1>1, <1>2, <1>3, PTL DEF FutureListSpec

-----------------------------------------------------------------------------
(* The rings of IntrusiveDList: a line from the root back to the root. *)
DLines(Q, rt) == [l \in DListId |-> LineOf(rt[l], rt[l], Q[l], Len(Q[l]))]
DLens(Q) == [l \in DListId |-> Len(Q[l])]

DTypes(Q, rt) == Q \in [DListId -> Seq(DElem)] /\ rt \in [DListId -> DRoot] /\ OwnRoots(rt) /\ Apart(Q)

DGood(Q, nx, pv, rt, cnt) ==
    /\ DTypes(Q, rt) /\ cnt = DLens(Q)
    /\ nx \in [DNode -> DNode] /\ pv \in [DNode -> DNode]
    /\ LinesJoined(DListId, DLines(Q, rt), DLens(Q), nx, pv)
    /\ \A e \in DElem : ~Within(Q, e) => nx[e] = e /\ pv[e] = e

(* What an iterator may be. *)
ItGood(Q, rt, i) == i = NoNode \/ (\E l \in DListId : i = rt[l]) \/ Within(Q, i)

(* Roots and elements are different nodes. *)
LEMMA DNodesDiffer ==
    /\ \A e \in DElem : e \in DNode /\ (\A r \in DRoot : e # r)
    /\ \A r \in DRoot : r \in DNode
BY DListAssumption DEF DNode

(* The nodes of a ring. *)
LEMMA DLineAt ==
    ASSUME NEW Q, NEW rt, DTypes(Q, rt), NEW l \in DListId
    PROVE  /\ Len(Q[l]) \in Nat /\ DLens(Q)[l] = Len(Q[l]) /\ Q[l] \in Seq(DElem) /\ rt[l] \in DRoot
           /\ DLines(Q, rt)[l] = LineOf(rt[l], rt[l], Q[l], Len(Q[l]))
           /\ DLines(Q, rt)[l][0] = rt[l] /\ DLines(Q, rt)[l][Len(Q[l]) + 1] = rt[l]
           /\ \A i \in 1 .. Len(Q[l]) : DLines(Q, rt)[l][i] = Q[l][i] /\ Q[l][i] \in DElem
           /\ \A i \in 0 .. Len(Q[l]) + 1 : i = 0 \/ i = Len(Q[l]) + 1 \/ i \in 1 .. Len(Q[l])
<1>1. PICK s, n, a : s = Q[l] /\ n = Len(Q[l]) /\ a = rt[l]
  OBVIOUS
<1>2. s \in Seq(DElem) /\ n \in Nat /\ n = Len(s) /\ a \in DRoot
  BY <1>1, LenProperties DEF DTypes
<1>3. \A i \in 1 .. n : s[i] \in DElem
  BY <1>2, ElementOfSeq
<1>4. PICK K : K = LineOf(a, a, s, n)
  OBVIOUS
<1>5. K[0] = a /\ K[n + 1] = a /\ (\A i \in 1 .. n : K[i] = s[i])
  BY <1>2, <1>4 DEF LineOf
<1>6. DLens(Q)[l] = n /\ DLines(Q, rt)[l] = K
  BY <1>1, <1>4 DEF DLens, DLines
<1>7. \A i \in 0 .. n + 1 : i = 0 \/ i = n + 1 \/ i \in 1 .. n
  BY <1>2
<1> QED
  BY <1>1, <1>2, <1>3, <1>4, <1>5, <1>6, <1>7

(* Elements that have one place each, and a root for each list, make rings  *)
(* that have no node in common.                                             *)
LEMMA DLinesApart ==
    ASSUME NEW Q, NEW rt, DTypes(Q, rt)
    PROVE  /\ LinesIn(DListId, DLines(Q, rt), DLens(Q), DNode)
           /\ LinesApart(DListId, DLines(Q, rt), DLens(Q))
           /\ \A e \in DElem : ~Within(Q, e) => OffLines(DListId, DLines(Q, rt), DLens(Q), e)
<1>1. PICK L, N : L = DLines(Q, rt) /\ N = DLens(Q)
  OBVIOUS
<1>2. \A l \in DListId :
        /\ N[l] \in Nat /\ N[l] = Len(Q[l]) /\ rt[l] \in DRoot /\ L[l][0] = rt[l] /\ L[l][N[l] + 1] = rt[l]
        /\ \A i \in 1 .. N[l] : L[l][i] = Q[l][i] /\ Q[l][i] \in DElem
        /\ \A i \in 0 .. N[l] + 1 : i = 0 \/ i = N[l] + 1 \/ i \in 1 .. N[l]
  BY <1>1, DLineAt
<1>3. LinesIn(DListId, L, N, DNode)
  BY <1>2, DNodesDiffer DEF LinesIn
<1>4. \A l, m \in DListId : \A i \in 1 .. N[l], j \in 1 .. N[m] : Q[l][i] = Q[m][j] => l = m /\ i = j
  BY <1>2 DEF Apart, DTypes
<1>5. \A l, m \in DListId : rt[l] = rt[m] => l = m
  BY DEF DTypes, OwnRoots
<1>6. ASSUME NEW l \in DListId, NEW m \in DListId, NEW i \in 0 .. N[l], NEW j \in 0 .. N[m], L[l][i] = L[m][j]
      PROVE  l = m /\ i = j
  <2>1. (i = 0 \/ i \in 1 .. N[l]) /\ (j = 0 \/ j \in 1 .. N[m])
    BY <1>2
  <2>2. /\ i = 0 => L[l][i] = rt[l]
        /\ i \in 1 .. N[l] => L[l][i] = Q[l][i] /\ Q[l][i] \in DElem
        /\ j = 0 => L[m][j] = rt[m]
        /\ j \in 1 .. N[m] => L[m][j] = Q[m][j] /\ Q[m][j] \in DElem
        /\ rt[l] \in DRoot /\ rt[m] \in DRoot
    BY <1>2
  <2>3. CASE i = 0 /\ j = 0
    BY <1>5, <1>6, <2>2, <2>3
  <2>4. CASE i \in 1 .. N[l] /\ j \in 1 .. N[m]
    <3>1. Q[l][i] = Q[m][j]
      BY <1>6, <2>2, <2>4
    <3> QED
      BY <1>4, <2>4, <3>1
  <2>5. CASE i = 0 /\ j \in 1 .. N[m]
    <3>1. rt[l] = Q[m][j]
      BY <1>6, <2>2, <2>5
    <3> QED
      BY <2>2, <2>5, <3>1, DNodesDiffer
  <2>6. CASE i \in 1 .. N[l] /\ j = 0
    <3>1. rt[m] = Q[l][i]
      BY <1>6, <2>2, <2>6
    <3> QED
      BY <2>2, <2>6, <3>1, DNodesDiffer
  <2> QED
    BY <2>1, <2>3, <2>4, <2>5, <2>6
<1>7. ASSUME NEW l \in DListId, NEW m \in DListId, NEW i \in 1 .. N[l] + 1, NEW j \in 1 .. N[m] + 1, L[l][i] = L[m][j]
      PROVE  l = m /\ i = j
  <2>1. (i = N[l] + 1 \/ i \in 1 .. N[l]) /\ (j = N[m] + 1 \/ j \in 1 .. N[m])
    BY <1>2
  <2>2. /\ i = N[l] + 1 => L[l][i] = rt[l]
        /\ i \in 1 .. N[l] => L[l][i] = Q[l][i] /\ Q[l][i] \in DElem
        /\ j = N[m] + 1 => L[m][j] = rt[m]
        /\ j \in 1 .. N[m] => L[m][j] = Q[m][j] /\ Q[m][j] \in DElem
        /\ rt[l] \in DRoot /\ rt[m] \in DRoot
    BY <1>2
  <2>3. CASE i = N[l] + 1 /\ j = N[m] + 1
    <3>1. l = m
      BY <1>5, <1>7, <2>2, <2>3
    <3> QED
      BY <2>3, <3>1
  <2>4. CASE i \in 1 .. N[l] /\ j \in 1 .. N[m]
    <3>1. Q[l][i] = Q[m][j]
      BY <1>7, <2>2, <2>4
    <3> QED
      BY <1>4, <2>4, <3>1
  <2>5. CASE i = N[l] + 1 /\ j \in 1 .. N[m]
    <3>1. rt[l] = Q[m][j]
      BY <1>7, <2>2, <2>5
    <3> QED
      BY <2>2, <2>5, <3>1, DNodesDiffer
  <2>6. CASE i \in 1 .. N[l] /\ j = N[m] + 1
    <3>1. rt[m] = Q[l][i]
      BY <1>7, <2>2, <2>6
    <3> QED
      BY <2>2, <2>6, <3>1, DNodesDiffer
  <2> QED
    BY <2>1, <2>3, <2>4, <2>5, <2>6
<1>8. LinesApart(DListId, L, N)
  BY <1>6, <1>7 DEF LinesApart
<1>9. ASSUME NEW e \in DElem, ~Within(Q, e) PROVE OffLines(DListId, L, N, e)
  <2>1. \A l \in DListId : \A i \in 1 .. N[l] : Q[l][i] # e
    BY <1>2, <1>9 DEF Within, DTypes
  <2>2. ASSUME NEW l \in DListId, NEW i \in 0 .. N[l] + 1 PROVE L[l][i] # e
    <3>1. L[l][i] = rt[l] \/ (i \in 1 .. N[l] /\ L[l][i] = Q[l][i])
      BY <1>2
    <3>2. rt[l] # e
      BY <1>2, DNodesDiffer
    <3> QED
      BY <2>1, <3>1, <3>2
  <2> QED
    BY <2>2 DEF OffLines
<1> QED
  BY <1>1, <1>3, <1>8, <1>9

(* One list changes and the rings of the others stay joined. *)
LEMMA DJoined ==
    ASSUME NEW Q, NEW rt, DTypes(Q, rt), NEW l \in DListId, NEW r \in Seq(DElem),
           NEW R, Replaced(Q, l, r, R), Apart(R), NEW nx, NEW pv,
           Joined(LineOf(rt[l], rt[l], r, Len(r)), Len(r), nx, pv),
           \A m \in DListId : m # l => Joined(DLines(Q, rt)[m], DLens(Q)[m], nx, pv)
    PROVE  DTypes(R, rt) /\ LinesJoined(DListId, DLines(R, rt), DLens(R), nx, pv)
<1>1. R \in [DListId -> Seq(DElem)] /\ R[l] = r /\ (\A m \in DListId : m # l => R[m] = Q[m])
  BY DEF Replaced, DTypes
<1>2. DTypes(R, rt)
  BY <1>1 DEF DTypes
<1>3. ASSUME NEW m \in DListId PROVE Joined(DLines(R, rt)[m], DLens(R)[m], nx, pv)
  <2>1. DLens(R)[m] = Len(R[m]) /\ DLines(R, rt)[m] = LineOf(rt[m], rt[m], R[m], Len(R[m]))
    BY <1>2, DLineAt
  <2>2. DLens(Q)[m] = Len(Q[m]) /\ DLines(Q, rt)[m] = LineOf(rt[m], rt[m], Q[m], Len(Q[m]))
    BY DLineAt
  <2>3. CASE m = l
    BY <1>1, <2>1, <2>3
  <2>4. CASE m # l
    BY <1>1, <2>1, <2>2, <2>4
  <2> QED
    BY <2>3, <2>4
<1> QED
  BY <1>2, <1>3 DEF LinesJoined

(* The number of elements of each list. *)
LEMMA DCounted ==
    ASSUME NEW Q, NEW rt, DTypes(Q, rt), NEW l \in DListId, NEW r, NEW R, Replaced(Q, l, r, R),
           NEW cnt, cnt = DLens(Q), NEW k, k = Len(r)
    PROVE  Replaced(cnt, l, k, DLens(R))
BY DEF Replaced, DLens, DTypes

(* The links that insert in front of curr writes, and those of Unlink. *)
DInsertLinks(nx, pv, nx2, pv2, curr, e) ==
    /\ nx2 = [nx EXCEPT ![e] = curr, ![pv[curr]] = e]
    /\ pv2 = [pv EXCEPT ![e] = pv[curr], ![curr] = e]
DUnlinkLinks(nx, pv, nx2, pv2, x) ==
    /\ nx2 = [[nx EXCEPT ![pv[x]] = nx[x]] EXCEPT ![x] = x]
    /\ pv2 = [[pv EXCEPT ![nx[x]] = pv[x]] EXCEPT ![x] = x]

(* Everything an insertion is. *)
DInsertion(Q, nx, pv, rt, cnt, l, e, p, curr, r, R, nx2, pv2, cnt2) ==
    /\ DGood(Q, nx, pv, rt, cnt) /\ l \in DListId /\ e \in DElem /\ ~Within(Q, e)
    /\ curr = DLines(Q, rt)[l][p]
    /\ r \in Seq(DElem) /\ Len(r) = Len(Q[l]) + 1 /\ IsAdded(Q[l], Len(Q[l]), r, p, e)
    /\ Replaced(Q, l, r, R) /\ DInsertLinks(nx, pv, nx2, pv2, curr, e)
    /\ Replaced(cnt, l, Len(Q[l]) + 1, cnt2)

(* insert keeps all rings, its own with an element more.                    *)
LEMMA DInserted ==
    ASSUME NEW Q, NEW nx, NEW pv, NEW rt, NEW cnt, NEW l, NEW e, NEW p, NEW curr, NEW r, NEW R,
           NEW nx2, NEW pv2, NEW cnt2, DInsertion(Q, nx, pv, rt, cnt, l, e, p, curr, r, R, nx2, pv2, cnt2)
    PROVE  DGood(R, nx2, pv2, rt, cnt2) /\ (\A x : Within(R, x) <=> Within(Q, x) \/ x = e)
<1> SUFFICES ASSUME DGood(Q, nx, pv, rt, cnt), l \in DListId, e \in DElem, ~Within(Q, e),
                    curr = DLines(Q, rt)[l][p],
                    r \in Seq(DElem), Len(r) = Len(Q[l]) + 1, IsAdded(Q[l], Len(Q[l]), r, p, e),
                    Replaced(Q, l, r, R), DInsertLinks(nx, pv, nx2, pv2, curr, e),
                    Replaced(cnt, l, Len(Q[l]) + 1, cnt2)
             PROVE  DGood(R, nx2, pv2, rt, cnt2) /\ (\A x : Within(R, x) <=> Within(Q, x) \/ x = e)
  BY DEF DInsertion
<1>1. /\ DTypes(Q, rt) /\ DOMAIN Q = DListId /\ Apart(Q) /\ cnt = DLens(Q)
      /\ nx \in [DNode -> DNode] /\ pv \in [DNode -> DNode]
  BY DEF DGood, DTypes
<1>2. PICK L, N, K, n, s, a : /\ L = DLines(Q, rt) /\ N = DLens(Q) /\ K = L[l] /\ n = Len(Q[l])
                              /\ s = Q[l] /\ a = rt[l]
  OBVIOUS
<1>3. /\ LinesIn(DListId, L, N, DNode) /\ LinesApart(DListId, L, N) /\ OffLines(DListId, L, N, e)
      /\ \A g \in DElem : ~Within(Q, g) => OffLines(DListId, L, N, g)
  BY <1>1, <1>2, DLinesApart
<1>4. LinesJoined(DListId, L, N, nx, pv)
  BY <1>2 DEF DGood
<1>5. n \in Nat /\ N[l] = n /\ K = LineOf(a, a, s, n)
  BY <1>1, <1>2, DLineAt
<1>6. Len(r) = n + 1 /\ IsAdded(s, n, r, p, e)
  BY <1>2
<1>7. IsLine(K, n, LineOf(a, a, r, n + 1), p, e)
  BY <1>5, <1>6, LineIsAdded
<1>8. p \in 1 .. n + 1
  BY <1>6 DEF IsAdded
<1>9. PICK q \in 0 .. n : p = q + 1 /\ q = p - 1
  BY <1>5, <1>8
<1>10. q \in 0 .. n + 1 /\ p \in 0 .. n + 1
  BY <1>5, <1>8, <1>9
<1>11. /\ K[p] = curr /\ pv[curr] = K[q] /\ K[q] \in DNode /\ K[q] # e
       /\ curr \in DNode /\ e \in DNode /\ curr # e
  <2>1. pv[K[q + 1]] = K[q]
    <3>1. Joined(K, n, nx, pv)
      BY <1>2, <1>4, <1>5 DEF LinesJoined
    <3> QED
      BY <1>9, <3>1 DEF Joined
  <2>2. K[q] \in DNode /\ K[q] # e /\ K[p] \in DNode /\ K[p] # e
    BY <1>2, <1>3, <1>5, <1>10 DEF LinesIn, OffLines
  <2> QED
    BY <1>2, <1>9, <2>1, <2>2, DNodesDiffer
<1>12. pv2 \in [DNode -> DNode] /\ nx2 \in [DNode -> DNode]
  BY <1>1, <1>11 DEF DInsertLinks
<1>13. Rewritten(DNode, nx, nx2, e, K[p], K[q], e)
  BY <1>1, <1>11 DEF Rewritten, DInsertLinks
<1>14. Rewritten(DNode, pv, pv2, e, K[q], K[p], e)
  BY <1>1, <1>11 DEF Rewritten, DInsertLinks
<1>15. /\ Joined(LineOf(a, a, r, n + 1), n + 1, nx2, pv2)
       /\ \A m \in DListId : m # l => Joined(L[m], N[m], nx2, pv2)
  <2>1. PICK M : M = LineOf(a, a, r, n + 1)
    OBVIOUS
  <2>2. SplicedIn(DListId, L, N, DNode, nx, pv, nx2, pv2, l, p, e, M)
    BY <1>2, <1>3, <1>4, <1>5, <1>7, <1>9, <1>11, <1>13, <1>14, <2>1 DEF SplicedIn, LinesGood
  <2>3. Joined(M, N[l] + 1, nx2, pv2) /\ (\A m \in DListId : m # l => Joined(L[m], N[m], nx2, pv2))
    BY <2>2, LineAdded
  <2> QED
    BY <1>5, <2>1, <2>3
<1>16. Apart(R) /\ (\A x : Within(R, x) <=> Within(Q, x) \/ x = e)
  <2>1. Lengths(Q)
    BY <1>1, DLineAt DEF Lengths
  <2> QED
    BY <1>1, <2>1, ApartAdded
<1>17. DTypes(R, rt) /\ LinesJoined(DListId, DLines(R, rt), DLens(R), nx2, pv2)
  <2>1. /\ Joined(LineOf(rt[l], rt[l], r, Len(r)), Len(r), nx2, pv2)
        /\ \A m \in DListId : m # l => Joined(DLines(Q, rt)[m], DLens(Q)[m], nx2, pv2)
    BY <1>2, <1>6, <1>15
  <2> QED
    BY <1>1, <1>16, <2>1, DJoined
<1>18. cnt2 = DLens(R)
  <2>1. Replaced(cnt, l, n + 1, DLens(R))
    BY <1>1, <1>6, DCounted
  <2> QED
    BY <1>2, <2>1 DEF Replaced
<1>19. ASSUME NEW g \in DElem, ~Within(R, g) PROVE nx2[g] = g /\ pv2[g] = g
  <2>1. g # e /\ ~Within(Q, g)
    BY <1>16, <1>19
  <2>2. nx[g] = g /\ pv[g] = g
    BY <2>1 DEF DGood
  <2>3. g # K[q] /\ g # K[p] /\ g \in DNode
    BY <1>2, <1>3, <1>5, <1>10, <2>1, DNodesDiffer DEF OffLines
  <2> QED
    BY <1>13, <1>14, <2>1, <2>2, <2>3 DEF Rewritten
<1> QED
  BY <1>12, <1>16, <1>17, <1>18, <1>19 DEF DGood

(* Everything the removal of x at position p is; the node behind x stays in *)
(* a ring.                                                                  *)
DRemoval(Q, nx, pv, rt, cnt, l, p, x, k, r, R, nx2, pv2, cnt2) ==
    /\ DGood(Q, nx, pv, rt, cnt) /\ l \in DListId /\ p \in 1 .. Len(Q[l]) /\ x = Q[l][p]
    /\ k \in Nat /\ r \in Seq(DElem) /\ Len(r) = k /\ Len(Q[l]) = k + 1 /\ IsAdded(r, k, Q[l], p, x)
    /\ Replaced(Q, l, r, R) /\ DUnlinkLinks(nx, pv, nx2, pv2, x) /\ Replaced(cnt, l, k, cnt2)

(* Unlink keeps all rings, its own with an element less.                    *)
LEMMA DTaken ==
    ASSUME NEW Q, NEW nx, NEW pv, NEW rt, NEW cnt, NEW l, NEW p, NEW x, NEW k, NEW r, NEW R,
           NEW nx2, NEW pv2, NEW cnt2, DRemoval(Q, nx, pv, rt, cnt, l, p, x, k, r, R, nx2, pv2, cnt2)
    PROVE  /\ DGood(R, nx2, pv2, rt, cnt2) /\ ~Within(R, x) /\ (\A y : Within(Q, y) <=> Within(R, y) \/ y = x)
           /\ nx[x] = rt[l] \/ Within(R, nx[x])
<1>a. DTypes(Q, rt) /\ l \in DListId
  BY DEF DRemoval, DGood
<1>b. /\ DLens(Q)[l] = Len(Q[l]) /\ DLines(Q, rt)[l] = LineOf(rt[l], rt[l], Q[l], Len(Q[l]))
      /\ DLines(Q, rt)[l][Len(Q[l]) + 1] = rt[l]
      /\ \A i \in 1 .. Len(Q[l]) : DLines(Q, rt)[l][i] = Q[l][i] /\ Q[l][i] \in DElem
  BY <1>a, DLineAt
<1> SUFFICES ASSUME DGood(Q, nx, pv, rt, cnt), l \in DListId, p \in 1 .. Len(Q[l]), x = Q[l][p],
                    k \in Nat, r \in Seq(DElem), Len(r) = k, Len(Q[l]) = k + 1, IsAdded(r, k, Q[l], p, x),
                    Replaced(Q, l, r, R), DUnlinkLinks(nx, pv, nx2, pv2, x), Replaced(cnt, l, k, cnt2)
             PROVE  /\ DGood(R, nx2, pv2, rt, cnt2) /\ ~Within(R, x)
                    /\ \A y : Within(Q, y) <=> Within(R, y) \/ y = x
                    /\ nx[x] = rt[l] \/ Within(R, nx[x])
  BY DEF DRemoval
<1>1. /\ DTypes(Q, rt) /\ DOMAIN Q = DListId /\ Apart(Q) /\ cnt = DLens(Q)
      /\ nx \in [DNode -> DNode] /\ pv \in [DNode -> DNode]
  BY DEF DGood, DTypes
<1>2. PICK L, N, K, s, a : /\ L = DLines(Q, rt) /\ N = DLens(Q) /\ K = L[l] /\ s = Q[l] /\ a = rt[l]
  OBVIOUS
<1>3. /\ LinesIn(DListId, L, N, DNode) /\ LinesApart(DListId, L, N)
      /\ \A g \in DElem : ~Within(Q, g) => OffLines(DListId, L, N, g)
  BY <1>1, <1>2, DLinesApart
<1>4. LinesJoined(DListId, L, N, nx, pv)
  BY <1>2 DEF DGood
<1>5. /\ N[l] = k + 1 /\ K = LineOf(a, a, s, k + 1) /\ K[(k + 1) + 1] = a
      /\ \A i \in 1 .. k + 1 : K[i] = s[i] /\ s[i] \in DElem
  BY <1>2, <1>b
<1>6. p \in 1 .. k + 1 /\ x = s[p] /\ x \in DElem /\ K[p] = x
  BY <1>2, <1>5
<1>7. IsLine(LineOf(a, a, r, k), k, K, p, x)
  BY <1>2, <1>5, LineIsAdded
<1>8. PICK q \in 0 .. k, b \in 1 .. (k + 1) + 1 : q = p - 1 /\ p = q + 1 /\ b = p + 1
  BY <1>6
<1>9. /\ q \in 0 .. k + 1 /\ p \in 0 .. k + 1 /\ q \in 0 .. (k + 1) + 1 /\ b \in 0 .. (k + 1) + 1
      /\ p \in 1 .. (k + 1) + 1 /\ q # p /\ b # p
  BY <1>6, <1>8
<1>10. /\ nx[x] = K[b] /\ pv[x] = K[q] /\ K[b] \in DNode /\ K[q] \in DNode /\ x \in DNode
       /\ K[b] # x /\ K[q] # x
  <2>1. \A i \in 0 .. k + 1 : nx[K[i]] = K[i + 1] /\ pv[K[i + 1]] = K[i]
    <3>1. Joined(K, k + 1, nx, pv)
      BY <1>2, <1>4, <1>5 DEF LinesJoined
    <3> QED
      BY <3>1 DEF Joined
  <2>2. nx[x] = K[b] /\ pv[x] = K[q]
    <3>1. nx[K[p]] = K[p + 1]
      BY <1>9, <2>1
    <3>2. pv[K[q + 1]] = K[q]
      BY <1>9, <2>1
    <3> QED
      BY <1>6, <1>8, <3>1, <3>2
  <2>3. K[b] \in DNode /\ K[q] \in DNode /\ x \in DNode
    <3>1. \A i \in 0 .. (k + 1) + 1 : K[i] \in DNode
      BY <1>2, <1>3, <1>5 DEF LinesIn
    <3> QED
      BY <1>6, <1>9, <3>1, DNodesDiffer
  <2>4. /\ \A i, j \in 0 .. k + 1 : K[i] = K[j] => i = j
        /\ \A i, j \in 1 .. (k + 1) + 1 : K[i] = K[j] => i = j
    <3>1. /\ \A i, j \in 0 .. N[l] : K[i] = K[j] => i = j
          /\ \A i, j \in 1 .. N[l] + 1 : K[i] = K[j] => i = j
      BY <1>2, <1>3 DEF LinesApart
    <3> QED
      BY <1>5, <3>1
  <2>5. K[q] # K[p]
    BY <1>9, <2>4
  <2>6. K[b] # K[p]
    BY <1>9, <2>4
  <2> QED
    BY <1>6, <2>2, <2>3, <2>5, <2>6
<1>11. pv2 \in [DNode -> DNode] /\ nx2 \in [DNode -> DNode]
  BY <1>1, <1>10 DEF DUnlinkLinks
<1>12. Rewritten(DNode, nx, nx2, x, x, K[q], K[b])
  BY <1>1, <1>10 DEF Rewritten, DUnlinkLinks
<1>13. Rewritten(DNode, pv, pv2, x, x, K[b], K[q])
  BY <1>1, <1>10 DEF Rewritten, DUnlinkLinks
<1>14. /\ Joined(LineOf(a, a, r, k), k, nx2, pv2)
       /\ \A m \in DListId : m # l => Joined(L[m], N[m], nx2, pv2)
  <2>1. PICK M, c : M = LineOf(a, a, r, k) /\ c = x
    OBVIOUS
  <2>2. IsLine(M, k, L[l], p, x) /\ N[l] = k + 1 /\ N[l] - 1 = k
    BY <1>2, <1>5, <1>7, <2>1
  <2>3. SplicedOut(DListId, L, N, DNode, nx, pv, nx2, pv2, l, p, x, M, c)
    BY <1>2, <1>3, <1>4, <1>8, <1>12, <1>13, <2>1, <2>2 DEF SplicedOut, LinesGood
  <2>4. Joined(M, N[l] - 1, nx2, pv2) /\ (\A m \in DListId : m # l => Joined(L[m], N[m], nx2, pv2))
    BY <2>3, LineTaken
  <2> QED
    BY <2>1, <2>2, <2>4
<1>15. Apart(R) /\ ~Within(R, x) /\ (\A y : Within(Q, y) <=> Within(R, y) \/ y = x)
  <2>1. Lengths(Q)
    BY <1>1, DLineAt DEF Lengths
  <2>2. IsAdded(r, Len(r), Q[l], p, x) /\ Len(Q[l]) = Len(r) + 1 /\ Len(r) \in Nat
    OBVIOUS
  <2> QED
    BY <1>1, <2>1, <2>2, ApartTaken
<1>16. DTypes(R, rt) /\ LinesJoined(DListId, DLines(R, rt), DLens(R), nx2, pv2)
  <2>1. /\ Joined(LineOf(rt[l], rt[l], r, Len(r)), Len(r), nx2, pv2)
        /\ \A m \in DListId : m # l => Joined(DLines(Q, rt)[m], DLens(Q)[m], nx2, pv2)
    BY <1>2, <1>14
  <2> QED
    BY <1>1, <1>15, <2>1, DJoined
<1>17. cnt2 = DLens(R)
  <2>1. Replaced(cnt, l, k, DLens(R))
    BY <1>1, DCounted
  <2> QED
    BY <2>1 DEF Replaced
<1>18. ASSUME NEW g \in DElem, ~Within(R, g) PROVE nx2[g] = g /\ pv2[g] = g
  <2>1. CASE g = x
    BY <1>10, <1>12, <1>13, <2>1 DEF Rewritten
  <2>2. CASE g # x
    <3>1. ~Within(Q, g)
      BY <1>15, <1>18, <2>2
    <3>2. nx[g] = g /\ pv[g] = g
      BY <3>1 DEF DGood
    <3>3. g # K[q] /\ g # K[b] /\ g \in DNode
      <4>1. \A i \in 0 .. (k + 1) + 1 : K[i] # g
        BY <1>2, <1>3, <1>5, <3>1 DEF OffLines
      <4> QED
        BY <1>9, <4>1, DNodesDiffer
    <3> QED
      BY <1>12, <1>13, <2>2, <3>2, <3>3 DEF Rewritten
  <2> QED
    BY <2>1, <2>2
<1>19. nx[x] = rt[l] \/ Within(R, nx[x])
  <2>1. CASE b = (k + 1) + 1
    BY <1>2, <1>5, <1>10, <2>1
  <2>2. CASE b # (k + 1) + 1
    <3>1. b \in 1 .. k + 1
      BY <1>8, <2>2
    <3>2. Within(Q, K[b])
      BY <1>1, <1>2, <1>5, <3>1 DEF Within
    <3> QED
      BY <1>10, <1>15, <3>2
  <2> QED
    BY <2>1, <2>2
<1> QED
  BY <1>11, <1>15, <1>16, <1>17, <1>18, <1>19 DEF DGood

(* The sequence with an element more, and with one less, as the operations  *)
(* write them.                                                              *)
Insertion(S, s, n, p, e, r) ==
    /\ s \in Seq(S) /\ n = Len(s) /\ p \in 1 .. n + 1 /\ e \in S
    /\ r = SubSeq(s, 1, p - 1) \o <<e>> \o SubSeq(s, p, n)
Removal(S, s, n, p, e, r, k) ==
    /\ s \in Seq(S) /\ n = Len(s) /\ p \in 1 .. n /\ e = s[p] /\ k = n - 1
    /\ r = SubSeq(s, 1, p - 1) \o SubSeq(s, p + 1, n)

(* The first is the sequence with an element more at p.                     *)
LEMMA InsertedAt ==
    ASSUME NEW S, NEW s, NEW n, NEW p, NEW e, NEW r, Insertion(S, s, n, p, e, r)
    PROVE  r \in Seq(S) /\ Len(r) = n + 1 /\ IsAdded(s, n, r, p, e)
<1> SUFFICES ASSUME s \in Seq(S), n = Len(s), p \in 1 .. n + 1, e \in S,
                    r = SubSeq(s, 1, p - 1) \o <<e>> \o SubSeq(s, p, n)
             PROVE  r \in Seq(S) /\ Len(r) = n + 1 /\ IsAdded(s, n, r, p, e)
  BY DEF Insertion
<1>1. n \in Nat /\ p \in Nat /\ (\A i \in 1 .. n : s[i] \in S)
  BY ElementOfSeq, LenProperties
<1>2. PICK q \in 0 .. n : p = q + 1 /\ q = p - 1
  BY <1>1
<1>3. PICK a, b, c : a = SubSeq(s, 1, q) /\ b = SubSeq(s, p, n) /\ c = a \o <<e>>
  OBVIOUS
<1>4. a \in Seq(S) /\ Len(a) = q /\ (\A i \in 1 .. q : a[i] = s[i])
  <2>1. 1 \in Int /\ q \in Int /\ (\A i \in 1 .. q : s[i] \in S)
    BY <1>1, <1>2
  <2>2. /\ SubSeq(s, 1, q) \in Seq(S) /\ Len(SubSeq(s, 1, q)) = IF 1 <= q THEN q - 1 + 1 ELSE 0
        /\ \A i \in 1 .. q - 1 + 1 : SubSeq(s, 1, q)[i] = s[1 + i - 1]
    BY <2>1, SubSeqProperties
  <2>3. Len(a) = q /\ q - 1 + 1 = q /\ (\A i \in 1 .. q : 1 + i - 1 = i)
    BY <1>2, <1>3, <2>2
  <2> QED
    BY <1>3, <2>2, <2>3
<1>5. b \in Seq(S) /\ Len(b) = n - q /\ (\A i \in 1 .. n - q : b[i] = s[q + i])
  <2>1. p \in Int /\ n \in Int /\ (\A i \in p .. n : s[i] \in S)
    BY <1>1, <1>2
  <2>2. /\ SubSeq(s, p, n) \in Seq(S) /\ Len(SubSeq(s, p, n)) = IF p <= n THEN n - p + 1 ELSE 0
        /\ \A i \in 1 .. n - p + 1 : SubSeq(s, p, n)[i] = s[p + i - 1]
    BY <2>1, SubSeqProperties
  <2>3. Len(b) = n - q /\ n - p + 1 = n - q /\ (\A i \in 1 .. n - q : p + i - 1 = q + i)
    BY <1>1, <1>2, <1>3, <2>2
  <2> QED
    BY <1>3, <2>2, <2>3
<1>6. c \in Seq(S) /\ Len(c) = q + 1 /\ c[q + 1] = e /\ (\A i \in 1 .. q : c[i] = a[i])
  <2>1. PICK d : d = <<e>>
    OBVIOUS
  <2>2. d \in Seq(S) /\ Len(d) = 1 /\ d[1] = e
    BY <2>1
  <2>3. /\ a \o d \in Seq(S) /\ Len(a \o d) = Len(a) + Len(d)
        /\ \A i \in 1 .. Len(a) + Len(d) : (a \o d)[i] = IF i <= Len(a) THEN a[i] ELSE d[i - Len(a)]
    BY <1>4, <2>2, ConcatProperties
  <2>4. c \in Seq(S) /\ Len(c) = q + 1 /\ (\A i \in 1 .. q + 1 : c[i] = IF i <= q THEN a[i] ELSE d[i - q])
    BY <1>3, <1>4, <2>1, <2>2, <2>3
  <2>5. q + 1 \in 1 .. q + 1 /\ ~(q + 1 <= q) /\ (q + 1) - q = 1 /\ (\A i \in 1 .. q : i \in 1 .. q + 1 /\ i <= q)
    BY <1>2
  <2> QED
    BY <2>2, <2>4, <2>5
<1>7. /\ r \in Seq(S) /\ Len(r) = (q + 1) + (n - q)
      /\ \A i \in 1 .. (q + 1) + (n - q) : r[i] = IF i <= q + 1 THEN c[i] ELSE b[i - (q + 1)]
  <2>1. r = c \o b
    BY <1>2, <1>3
  <2> QED
    <3>1. /\ c \o b \in Seq(S) /\ Len(c \o b) = Len(c) + Len(b)
          /\ \A i \in 1 .. Len(c) + Len(b) : (c \o b)[i] = IF i <= Len(c) THEN c[i] ELSE b[i - Len(c)]
      BY <1>5, <1>6, ConcatProperties
    <3> QED
      BY <1>5, <1>6, <2>1, <3>1
<1>8. Len(r) = n + 1 /\ (\A i \in 1 .. n + 1 : r[i] = IF i <= q + 1 THEN c[i] ELSE b[i - (q + 1)])
  <2>1. (q + 1) + (n - q) = n + 1
    BY <1>1, <1>2
  <2> QED
    BY <1>7, <2>1
<1>9. r[p] = e
  <2>1. p \in 1 .. n + 1 /\ p <= q + 1
    BY <1>1, <1>2
  <2>2. r[p] = c[p]
    BY <1>8, <2>1
  <2> QED
    BY <1>2, <1>6, <2>2
<1>10. ASSUME NEW i \in 1 .. p - 1 PROVE r[i] = s[i]
  <2>1. i \in 1 .. q /\ i \in 1 .. n + 1 /\ i <= q + 1
    BY <1>1, <1>2
  <2> QED
    BY <1>4, <1>6, <1>8, <2>1
<1>11. ASSUME NEW i \in p .. n PROVE r[i + 1] = s[i]
  <2>1. PICK j \in 1 .. n - q : i = q + j /\ (i + 1) - (q + 1) = j
    BY <1>1, <1>2
  <2>2. i + 1 \in 1 .. n + 1 /\ ~(i + 1 <= q + 1)
    BY <1>1, <1>2
  <2> QED
    BY <1>5, <1>8, <2>1, <2>2
<1> QED
  BY <1>7, <1>8, <1>9, <1>10, <1>11 DEF IsAdded

(* The second is the sequence without its element at p.                     *)
LEMMA RemovedAt ==
    ASSUME NEW S, NEW s, NEW n, NEW p, NEW e, NEW r, NEW k, Removal(S, s, n, p, e, r, k)
    PROVE  k \in Nat /\ n = k + 1 /\ r \in Seq(S) /\ Len(r) = k /\ IsAdded(r, k, s, p, e)
<1> SUFFICES ASSUME s \in Seq(S), n = Len(s), p \in 1 .. n, e = s[p], k = n - 1,
                    r = SubSeq(s, 1, p - 1) \o SubSeq(s, p + 1, n)
             PROVE  k \in Nat /\ n = k + 1 /\ r \in Seq(S) /\ Len(r) = k /\ IsAdded(r, k, s, p, e)
  BY DEF Removal
<1>1. n \in Nat /\ p \in Nat /\ (\A i \in 1 .. n : s[i] \in S) /\ k \in Nat /\ n = k + 1
  <2>1. n \in Nat /\ (\A i \in 1 .. n : s[i] \in S)
    BY ElementOfSeq, LenProperties
  <2> QED
    BY <2>1
<1>2. PICK q \in 0 .. k : p = q + 1 /\ q = p - 1
  BY <1>1
<1>3. PICK a, b : a = SubSeq(s, 1, q) /\ b = SubSeq(s, p + 1, n)
  OBVIOUS
<1>4. a \in Seq(S) /\ Len(a) = q /\ (\A i \in 1 .. q : a[i] = s[i])
  <2>1. 1 \in Int /\ q \in Int /\ (\A i \in 1 .. q : s[i] \in S)
    BY <1>1, <1>2
  <2>2. /\ SubSeq(s, 1, q) \in Seq(S) /\ Len(SubSeq(s, 1, q)) = IF 1 <= q THEN q - 1 + 1 ELSE 0
        /\ \A i \in 1 .. q - 1 + 1 : SubSeq(s, 1, q)[i] = s[1 + i - 1]
    BY <2>1, SubSeqProperties
  <2>3. Len(a) = q /\ q - 1 + 1 = q /\ (\A i \in 1 .. q : 1 + i - 1 = i)
    BY <1>2, <1>3, <2>2
  <2> QED
    BY <1>3, <2>2, <2>3
<1>5. b \in Seq(S) /\ Len(b) = k - q /\ (\A i \in 1 .. k - q : b[i] = s[p + i])
  <2>0. PICK t : t = p + 1
    OBVIOUS
  <2>1. t \in Int /\ n \in Int /\ (\A i \in t .. n : s[i] \in S)
    BY <1>1, <1>2, <2>0
  <2>2. /\ SubSeq(s, t, n) \in Seq(S) /\ Len(SubSeq(s, t, n)) = IF t <= n THEN n - t + 1 ELSE 0
        /\ \A i \in 1 .. n - t + 1 : SubSeq(s, t, n)[i] = s[t + i - 1]
    BY <2>1, SubSeqProperties
  <2>3. b = SubSeq(s, t, n)
    BY <1>3, <2>0
  <2>4. Len(b) = k - q /\ n - t + 1 = k - q /\ (\A i \in 1 .. k - q : t + i - 1 = p + i)
    BY <1>1, <1>2, <2>0, <2>2, <2>3
  <2> QED
    BY <2>2, <2>3, <2>4
<1>6. /\ r \in Seq(S) /\ Len(r) = q + (k - q)
      /\ \A i \in 1 .. q + (k - q) : r[i] = IF i <= q THEN a[i] ELSE b[i - q]
  <2>1. r = a \o b
    BY <1>2, <1>3
  <2> QED
    <3>1. /\ a \o b \in Seq(S) /\ Len(a \o b) = Len(a) + Len(b)
          /\ \A i \in 1 .. Len(a) + Len(b) : (a \o b)[i] = IF i <= Len(a) THEN a[i] ELSE b[i - Len(a)]
      BY <1>4, <1>5, ConcatProperties
    <3> QED
      BY <1>4, <1>5, <2>1, <3>1
<1>7. Len(r) = k /\ (\A i \in 1 .. k : r[i] = IF i <= q THEN a[i] ELSE b[i - q])
  <2>1. q + (k - q) = k
    BY <1>1, <1>2
  <2> QED
    BY <1>6, <2>1
<1>8. ASSUME NEW i \in 1 .. p - 1 PROVE s[i] = r[i]
  <2>1. i \in 1 .. q /\ i \in 1 .. k /\ i <= q
    BY <1>1, <1>2
  <2> QED
    BY <1>4, <1>7, <2>1
<1>9. ASSUME NEW i \in p .. k PROVE s[i + 1] = r[i]
  <2>1. PICK j \in 1 .. k - q : i - q = j /\ i + 1 = p + j
    BY <1>1, <1>2
  <2>2. i \in 1 .. k /\ ~(i <= q)
    BY <1>1, <1>2
  <2> QED
    BY <1>5, <1>7, <2>1, <2>2
<1>10. p \in 1 .. k + 1
  BY <1>1
<1> QED
  BY <1>1, <1>6, <1>7, <1>8, <1>9, <1>10 DEF IsAdded

(* As many elements as positions. *)
LEMMA DistinctCounted ==
    ASSUME NEW s, NEW n \in Nat, \A i, j \in 1 .. n : s[i] = s[j] => i = j
    PROVE  Cardinality({s[i] : i \in 1 .. n}) = n
<1>1. PICK f, G : f = [i \in 1 .. n |-> s[i]] /\ G = {s[i] : i \in 1 .. n}
  OBVIOUS
<1>2. f \in [1 .. n -> G] /\ DOMAIN f = 1 .. n /\ (\A i, j \in 1 .. n : f[i] = f[j] => i = j)
      /\ (\A t \in G : \E i \in 1 .. n : f[i] = t)
  BY <1>1
<1>3. f \in Bijection(1 .. n, G)
  BY <1>2 DEF Bijection, Injection, Surjection, IsInjective
<1>4. ExistsBijection(1 .. n, G)
  BY <1>3 DEF ExistsBijection
<1> QED
  BY <1>1, <1>4, FS_CountingElements

(* Two lists exchange their roots with their elements. *)
LEMMA DSwapped ==
    ASSUME NEW Q, NEW nx, NEW pv, NEW rt, NEW cnt, DGood(Q, nx, pv, rt, cnt),
           NEW l \in DListId, NEW r \in DListId, l # r, NEW R, Swapped(Q, l, r, R),
           NEW rt2, Swapped(rt, l, r, rt2), NEW cnt2, Swapped(cnt, l, r, cnt2),
           NEW i, ItGood(Q, rt, i)
    PROVE  DGood(R, nx, pv, rt2, cnt2) /\ ItGood(R, rt2, i)
<1> DEFINE F(m) == IF m = l THEN r ELSE IF m = r THEN l ELSE m
<1>1. /\ DTypes(Q, rt) /\ DOMAIN Q = DListId /\ Apart(Q) /\ cnt = DLens(Q)
      /\ Q \in [DListId -> Seq(DElem)] /\ rt \in [DListId -> DRoot] /\ OwnRoots(rt)
  BY DEF DGood, DTypes
<1>2. Apart(R) /\ (\A x : Within(R, x) <=> Within(Q, x))
  BY <1>1, ApartSwapped
<1>3. /\ \A m \in DListId : F(m) \in DListId /\ F(F(m)) = m
      /\ \A m, k \in DListId : m # k => F(m) # F(k)
  OBVIOUS
<1>4. R \in [DListId -> Seq(DElem)] /\ (\A m \in DListId : R[m] = Q[F(m)])
  BY <1>1 DEF Swapped
<1>5. rt2 \in [DListId -> DRoot] /\ (\A m \in DListId : rt2[m] = rt[F(m)])
  BY <1>1 DEF Swapped
<1>6. cnt \in [DListId -> {cnt[m] : m \in DListId}] /\ (\A m \in DListId : cnt[m] = Len(Q[m]))
  BY <1>1 DEF DLens
<1>7. cnt2 = [m \in DListId |-> cnt[F(m)]]
  BY <1>6 DEF Swapped
<1> HIDE DEF F
<1>8. OwnRoots(rt2)
  BY <1>1, <1>3, <1>5 DEF OwnRoots
<1>9. DTypes(R, rt2)
  BY <1>2, <1>4, <1>5, <1>8 DEF DTypes
<1>10. cnt2 = DLens(R)
  <2>1. \A m \in DListId : cnt[F(m)] = Len(R[m])
    BY <1>3, <1>4, <1>6
  <2> QED
    BY <1>7, <2>1 DEF DLens
<1>11. LinesJoined(DListId, DLines(R, rt2), DLens(R), nx, pv)
  <2> SUFFICES ASSUME NEW m \in DListId PROVE Joined(DLines(R, rt2)[m], DLens(R)[m], nx, pv)
    BY DEF LinesJoined
  <2>1. PICK k \in DListId : k = F(m)
    BY <1>3
  <2>2. R[m] = Q[k] /\ rt2[m] = rt[k]
    BY <1>4, <1>5, <2>1
  <2>3. DLens(R)[m] = DLens(Q)[k] /\ DLines(R, rt2)[m] = DLines(Q, rt)[k]
    BY <2>2 DEF DLens, DLines
  <2>4. Joined(DLines(Q, rt)[k], DLens(Q)[k], nx, pv)
    BY DEF DGood, LinesJoined
  <2> QED
    BY <2>3, <2>4
<1>12. DGood(R, nx, pv, rt2, cnt2)
  BY <1>2, <1>9, <1>10, <1>11 DEF DGood
<1>13. ItGood(R, rt2, i)
  BY <1>2, <1>3, <1>5 DEF ItGood
<1> QED
  BY <1>12, <1>13

(* A ring is taken apart: its nodes become rings of their own. *)
RingNodes(G, a, s) == \A x : x \in G <=> x = a \/ (\E i \in 1 .. Len(s) : x = s[i])
DClearLinks(f, g, G) == g = [n \in DNode |-> IF n \in G THEN n ELSE f[n]]

(* clear leaves an empty ring and the other rings.                          *)
LEMMA DCleared ==
    ASSUME NEW Q, NEW nx, NEW pv, NEW rt, NEW cnt, DGood(Q, nx, pv, rt, cnt), NEW l \in DListId,
           NEW G, RingNodes(G, rt[l], Q[l]),
           NEW R, Replaced(Q, l, <<>>, R), NEW nx2, NEW pv2, DClearLinks(nx, nx2, G), DClearLinks(pv, pv2, G),
           NEW cnt2, Replaced(cnt, l, 0, cnt2)
    PROVE  /\ DGood(R, nx2, pv2, rt, cnt2)
           /\ \A x : Within(R, x) <=> Within(Q, x) /\ (\A i \in 1 .. Len(Q[l]) : Q[l][i] # x)
<1>1. /\ DTypes(Q, rt) /\ DOMAIN Q = DListId /\ Apart(Q) /\ cnt = DLens(Q)
      /\ nx \in [DNode -> DNode] /\ pv \in [DNode -> DNode] /\ OwnRoots(rt)
  BY DEF DGood, DTypes
<1>2. Apart(R) /\ (\A x : Within(R, x) <=> Within(Q, x) /\ (\A i \in 1 .. Len(Q[l]) : Q[l][i] # x))
  BY <1>1, ApartCleared
<1>3. PICK L, N, a, r : L = DLines(Q, rt) /\ N = DLens(Q) /\ a = rt[l] /\ r = <<>>
  OBVIOUS
<1>4. r \in Seq(DElem) /\ Len(r) = 0
  BY <1>3, EmptySeq
<1>5. nx2 \in [DNode -> DNode] /\ pv2 \in [DNode -> DNode]
      /\ (\A n \in DNode : n \in G => nx2[n] = n /\ pv2[n] = n)
      /\ (\A n \in DNode : n \notin G => nx2[n] = nx[n] /\ pv2[n] = pv[n])
  BY <1>1 DEF DClearLinks
<1>6. a \in DRoot /\ a \in DNode /\ a \in G
  BY <1>1, <1>3, DLineAt, DNodesDiffer DEF RingNodes
<1>7. Joined(LineOf(a, a, r, 0), 0, nx2, pv2)
  <2>1. PICK K : K = LineOf(a, a, r, 0)
    OBVIOUS
  <2>2. K[0] = a /\ K[0 + 1] = a
    BY <2>1 DEF LineOf
  <2>3. \A i \in 0 .. 0 : i = 0
    OBVIOUS
  <2>4. Joined(K, 0, nx2, pv2)
    BY <1>5, <1>6, <2>2, <2>3 DEF Joined
  <2> QED
    BY <2>1, <2>4
<1>8. ASSUME NEW m \in DListId, m # l PROVE Joined(L[m], N[m], nx2, pv2)
  <2>1. PICK K, n : K = L[m] /\ n = N[m]
    OBVIOUS
  <2>2. /\ n \in Nat /\ n = Len(Q[m]) /\ K[0] = rt[m] /\ K[n + 1] = rt[m] /\ rt[m] \in DRoot
        /\ \A i \in 1 .. n : K[i] = Q[m][i] /\ Q[m][i] \in DElem
        /\ \A i \in 0 .. n + 1 : i = 0 \/ i = n + 1 \/ i \in 1 .. n
    BY <1>1, <1>3, <2>1, DLineAt
  <2>3. \A i \in 1 .. Len(Q[l]) : Q[l][i] \in DElem
    BY <1>1, DLineAt
  <2>4. rt[m] # a
    BY <1>1, <1>3, <1>8 DEF OwnRoots
  <2>5. \A i \in 1 .. n, j \in 1 .. Len(Q[l]) : Q[m][i] # Q[l][j]
    BY <1>1, <1>8, <2>2 DEF Apart
  <2>6. ASSUME NEW i \in 0 .. n + 1 PROVE K[i] \notin G /\ K[i] \in DNode
    <3>1. CASE K[i] = rt[m]
      BY <1>3, <2>2, <2>3, <2>4, <3>1, DNodesDiffer DEF RingNodes
    <3>2. CASE i \in 1 .. n
      BY <1>3, <1>6, <2>2, <2>5, <3>2, DNodesDiffer DEF RingNodes
    <3> QED
      BY <2>2, <3>1, <3>2
  <2>7. Joined(K, n, nx, pv)
    BY <1>3, <2>1 DEF DGood, LinesJoined
  <2>8. Joined(K, n, nx2, pv2)
    <3> SUFFICES ASSUME NEW i \in 0 .. n PROVE nx2[K[i]] = K[i + 1] /\ pv2[K[i + 1]] = K[i]
      BY DEF Joined
    <3>1. i \in 0 .. n + 1 /\ i + 1 \in 0 .. n + 1
      BY <2>2
    <3>2. nx[K[i]] = K[i + 1] /\ pv[K[i + 1]] = K[i]
      BY <2>7 DEF Joined
    <3> QED
      BY <1>5, <2>6, <3>1, <3>2
  <2> QED
    BY <2>1, <2>8
<1>9. DTypes(R, rt) /\ LinesJoined(DListId, DLines(R, rt), DLens(R), nx2, pv2)
  <2>1. /\ Joined(LineOf(rt[l], rt[l], r, Len(r)), Len(r), nx2, pv2)
        /\ \A m \in DListId : m # l => Joined(DLines(Q, rt)[m], DLens(Q)[m], nx2, pv2)
    BY <1>3, <1>4, <1>7, <1>8
  <2>2. Replaced(Q, l, r, R)
    BY <1>3
  <2> QED
    BY <1>1, <1>2, <1>4, <2>1, <2>2, DJoined
<1>10. cnt2 = DLens(R)
  <2>1. Replaced(Q, l, r, R)
    BY <1>3
  <2>2. Replaced(cnt, l, 0, DLens(R))
    BY <1>1, <1>4, <2>1, DCounted
  <2> QED
    BY <2>2 DEF Replaced
<1>11. ASSUME NEW e \in DElem, ~Within(R, e) PROVE nx2[e] = e /\ pv2[e] = e
  <2>1. e \in DNode
    BY DNodesDiffer
  <2>2. CASE e \in G
    BY <1>5, <2>1, <2>2
  <2>3. CASE e \notin G
    <3>1. ~Within(Q, e)
      BY <1>2, <1>11, <2>3 DEF RingNodes
    <3>2. nx[e] = e /\ pv[e] = e
      BY <3>1 DEF DGood
    <3> QED
      BY <1>5, <2>1, <2>3, <3>2
  <2> QED
    BY <2>2, <2>3
<1> QED
  BY <1>2, <1>5, <1>9, <1>10, <1>11 DEF DGood

(* Every list is its ring, and the iterator that was last returned is the   *)
(* root of a list or an element of one.                                     *)
DInv == DGood(dSeq, dNext, dPrev, mRoot, dCount) /\ ItGood(dSeq, mRoot, it)

(* A node of a list has a position in it, and DPosition finds it. *)
LEMMA DNodeAt ==
    ASSUME NEW Q, NEW rt, DTypes(Q, rt), Q = dSeq, rt = mRoot, NEW l \in DListId, NEW x
    PROVE  /\ x \in DNodesOf(l) => \E p \in 1 .. Len(Q[l]) + 1 : x = DLines(Q, rt)[l][p]
           /\ \A p \in 1 .. Len(Q[l]) + 1 : x = DLines(Q, rt)[l][p] => DPosition(l, x) = p
<1>1. PICK s, n, K, a : s = Q[l] /\ n = Len(Q[l]) /\ K = DLines(Q, rt)[l] /\ a = rt[l]
  OBVIOUS
<1>2. /\ n \in Nat /\ K[n + 1] = a /\ a \in DRoot
      /\ \A i \in 1 .. n : K[i] = s[i] /\ s[i] \in DElem
  BY <1>1, DLineAt
<1>3. \A i, j \in 1 .. n : s[i] = s[j] => i = j
  BY <1>1 DEF DTypes, Apart
<1>4. ASSUME x \in DNodesOf(l) PROVE \E p \in 1 .. n + 1 : x = K[p]
  <2>1. x = a \/ (\E i \in 1 .. n : x = s[i])
    BY <1>1, <1>4 DEF DNodesOf
  <2>2. n + 1 \in 1 .. n + 1 /\ (\A i \in 1 .. n : i \in 1 .. n + 1)
    BY <1>2
  <2> QED
    BY <1>2, <2>1, <2>2
<1>5. ASSUME NEW p \in 1 .. n + 1, x = K[p] PROVE DPosition(l, x) = p
  <2>1. CASE p = n + 1
    BY <1>1, <1>2, <1>5, <2>1 DEF DPosition
  <2>2. CASE p # n + 1
    <3>1. p \in 1 .. n
      BY <1>2, <2>2
    <3>2. x = s[p] /\ x # a
      BY <1>2, <1>5, <3>1, DNodesDiffer
    <3>3. DIndex(l, x) = {p}
      BY <1>1, <1>3, <3>1, <3>2 DEF DIndex
    <3>4. DPosition(l, x) = CHOOSE i \in {p} : TRUE
      BY <1>1, <3>2, <3>3 DEF DPosition
    <3> QED
      BY <3>4
  <2> QED
    BY <2>1, <2>2
<1> QED
  BY <1>1, <1>4, <1>5

(* insert. *)
LEMMA DInsertInv ==
    ASSUME DInv, NEW l \in DListId, NEW c, NEW e \in DElem, DInsert(l, c, e)
    PROVE  DInv'
<1>1. PICK Q, nx, pv, rt, cnt, R, nx2, pv2, cnt2 :
        /\ Q = dSeq /\ nx = dNext /\ pv = dPrev /\ rt = mRoot /\ cnt = dCount
        /\ R = dSeq' /\ nx2 = dNext' /\ pv2 = dPrev' /\ cnt2 = dCount'
  OBVIOUS
<1>2. DGood(Q, nx, pv, rt, cnt) /\ DTypes(Q, rt) /\ DOMAIN Q = DListId /\ cnt = DLens(Q)
  BY <1>1 DEF DInv, DGood, DTypes
<1>3. PICK s, n : s = Q[l] /\ n = Len(Q[l])
  OBVIOUS
<1>4. s \in Seq(DElem) /\ n = Len(s) /\ n \in Nat /\ cnt[l] = n
  BY <1>2, <1>3, DLineAt
<1>5. PICK p \in 1 .. n + 1 : c = DLines(Q, rt)[l][p] /\ DPosition(l, c) = p
  <2>1. c \in DNodesOf(l)
    BY DEF DInsert
  <2>2. \E p \in 1 .. Len(Q[l]) + 1 : c = DLines(Q, rt)[l][p]
    BY <1>1, <1>2, <2>1, DNodeAt
  <2>3. \A p \in 1 .. Len(Q[l]) + 1 : c = DLines(Q, rt)[l][p] => DPosition(l, c) = p
    BY <1>1, <1>2, DNodeAt
  <2> QED
    BY <1>3, <2>2, <2>3
<1>6. PICK r : r = SubSeq(s, 1, p - 1) \o <<e>> \o SubSeq(s, p, n)
  OBVIOUS
<1>7. r \in Seq(DElem) /\ Len(r) = n + 1 /\ IsAdded(s, n, r, p, e)
  <2>1. Insertion(DElem, s, n, p, e, r)
    BY <1>4, <1>6 DEF Insertion
  <2> QED
    BY <2>1, InsertedAt
<1>8. Replaced(Q, l, r, R)
  BY <1>1, <1>3, <1>5, <1>6 DEF DInsert, Replaced
<1>9. Replaced(cnt, l, n + 1, cnt2)
  BY <1>1, <1>4 DEF DInsert, Replaced
<1>10. DInsertLinks(nx, pv, nx2, pv2, c, e)
  BY <1>1 DEF DInsert, DInsertLinks
<1>11. ~Within(Q, e)
  BY <1>1, <1>2 DEF DInsert, DSpare, DIndex, Within
<1>12. DGood(R, nx2, pv2, rt, cnt2) /\ (\A x : Within(R, x) <=> Within(Q, x) \/ x = e)
  <2>1. IsAdded(Q[l], Len(Q[l]), r, p, e) /\ Len(r) = Len(Q[l]) + 1 /\ Replaced(cnt, l, Len(Q[l]) + 1, cnt2)
    BY <1>3, <1>7, <1>9
  <2>2. DInsertion(Q, nx, pv, rt, cnt, l, e, p, c, r, R, nx2, pv2, cnt2)
    BY <1>2, <1>5, <1>7, <1>8, <1>10, <1>11, <2>1 DEF DInsertion
  <2> QED
    BY <2>2, DInserted
<1>13. it' = e /\ mRoot' = rt
  BY <1>1 DEF DInsert
<1>14. ItGood(R, rt, e)
  BY <1>12 DEF ItGood
<1> QED
  BY <1>1, <1>12, <1>13, <1>14 DEF DInv

(* What pop_front, pop_back, unlink and erase have in common. *)
LEMMA DOut ==
    ASSUME DInv, NEW l \in DListId, NEW p \in 1 .. Len(dSeq[l]), NEW x, x = dSeq[l][p],
           DUnlinked(x), DWithout(l, x), dCount' = [dCount EXCEPT ![l] = @ - 1], mRoot' = mRoot
    PROVE  /\ DGood(dSeq, dNext, dPrev, mRoot, dCount)'
           /\ \A y : Within(dSeq, y) <=> Within(dSeq', y) \/ y = x
           /\ dNext[x] = mRoot[l] \/ Within(dSeq', dNext[x])
<1>1. PICK Q, nx, pv, rt, cnt, R, nx2, pv2, cnt2 :
        /\ Q = dSeq /\ nx = dNext /\ pv = dPrev /\ rt = mRoot /\ cnt = dCount
        /\ R = dSeq' /\ nx2 = dNext' /\ pv2 = dPrev' /\ cnt2 = dCount'
  OBVIOUS
<1>2. DGood(Q, nx, pv, rt, cnt) /\ DTypes(Q, rt) /\ DOMAIN Q = DListId /\ cnt = DLens(Q)
  BY <1>1 DEF DInv, DGood, DTypes
<1>3. PICK s, n, k : s = Q[l] /\ n = Len(Q[l]) /\ k = n - 1
  OBVIOUS
<1>4. s \in Seq(DElem) /\ n = Len(s) /\ n \in Nat /\ cnt[l] = n /\ p \in 1 .. n /\ x = s[p]
  BY <1>1, <1>2, <1>3, DLineAt
<1>5. DPosition(l, x) = p
  <2>1. x = DLines(Q, rt)[l][p] /\ p \in 1 .. Len(Q[l]) + 1
    BY <1>2, <1>3, <1>4, DLineAt
  <2> QED
    BY <1>1, <1>2, <2>1, DNodeAt
<1>6. PICK r : r = SubSeq(s, 1, p - 1) \o SubSeq(s, p + 1, n)
  OBVIOUS
<1>7. k \in Nat /\ n = k + 1 /\ r \in Seq(DElem) /\ Len(r) = k /\ IsAdded(r, k, s, p, x)
  <2>1. Removal(DElem, s, n, p, x, r, k)
    BY <1>3, <1>4, <1>6 DEF Removal
  <2> QED
    BY <2>1, RemovedAt
<1>8. Replaced(Q, l, r, R)
  BY <1>1, <1>3, <1>5, <1>6 DEF DWithout, Replaced
<1>9. Replaced(cnt, l, k, cnt2)
  BY <1>1, <1>3, <1>4 DEF Replaced
<1>10. DUnlinkLinks(nx, pv, nx2, pv2, x)
  BY <1>1 DEF DUnlinked, DUnlinkLinks
<1>11. /\ DGood(R, nx2, pv2, rt, cnt2) /\ (\A y : Within(Q, y) <=> Within(R, y) \/ y = x)
       /\ nx[x] = rt[l] \/ Within(R, nx[x])
  <2>1. p \in 1 .. Len(Q[l]) /\ x = Q[l][p] /\ Len(Q[l]) = k + 1 /\ IsAdded(r, k, Q[l], p, x)
    BY <1>3, <1>4, <1>7
  <2>2. DRemoval(Q, nx, pv, rt, cnt, l, p, x, k, r, R, nx2, pv2, cnt2)
    BY <1>2, <1>7, <1>8, <1>9, <1>10, <2>1 DEF DRemoval
  <2> QED
    BY <2>2, DTaken
<1> QED
  BY <1>1, <1>11

(* pop_front, pop_back and unlink. *)
LEMMA DTakeOutInv ==
    ASSUME DInv, NEW l \in DListId, NEW p \in 1 .. Len(dSeq[l]), DTakeOut(l, dSeq[l][p])
    PROVE  DInv'
<1>1. PICK x : x = dSeq[l][p]
  OBVIOUS
<1>2. /\ DUnlinked(x) /\ DWithout(l, x) /\ dCount' = [dCount EXCEPT ![l] = @ - 1] /\ mRoot' = mRoot
      /\ it' = IF it = x THEN NoNode ELSE it
  BY <1>1 DEF DTakeOut
<1>3. DGood(dSeq, dNext, dPrev, mRoot, dCount)' /\ (\A y : Within(dSeq, y) <=> Within(dSeq', y) \/ y = x)
  BY <1>1, <1>2, DOut
<1>4. ItGood(dSeq', mRoot', it')
  <2>1. CASE it = x
    BY <1>2, <2>1 DEF ItGood
  <2>2. CASE it # x
    BY <1>2, <1>3, <2>2 DEF ItGood, DInv
  <2> QED
    BY <2>1, <2>2
<1> QED
  BY <1>3, <1>4 DEF DInv

(* erase. *)
LEMMA DEraseInv ==
    ASSUME DInv, NEW l \in DListId, NEW e \in DElem, DErase(l, e)
    PROVE  DInv'
<1>1. PICK p \in 1 .. Len(dSeq[l]) : e = dSeq[l][p]
  BY DEF DErase, DIndex
<1>2. /\ DUnlinked(e) /\ DWithout(l, e) /\ dCount' = [dCount EXCEPT ![l] = @ - 1] /\ mRoot' = mRoot
      /\ it' = dNext[e]
  BY DEF DErase, DBehind
<1>3. DGood(dSeq, dNext, dPrev, mRoot, dCount)' /\ (dNext[e] = mRoot[l] \/ Within(dSeq', dNext[e]))
  BY <1>1, <1>2, DOut
<1>4. ItGood(dSeq', mRoot', it')
  BY <1>2, <1>3 DEF ItGood
<1> QED
  BY <1>3, <1>4 DEF DInv

(* clear. *)
LEMMA DClearInv ==
    ASSUME DInv, NEW l \in DListId, DClear(l)
    PROVE  DInv'
<1>1. PICK Q, nx, pv, rt, cnt, R, nx2, pv2, cnt2 :
        /\ Q = dSeq /\ nx = dNext /\ pv = dPrev /\ rt = mRoot /\ cnt = dCount
        /\ R = dSeq' /\ nx2 = dNext' /\ pv2 = dPrev' /\ cnt2 = dCount'
  OBVIOUS
<1>2. DGood(Q, nx, pv, rt, cnt) /\ DTypes(Q, rt) /\ DOMAIN Q = DListId /\ cnt = DLens(Q) /\ Apart(Q)
  BY <1>1 DEF DInv, DGood, DTypes
<1>3. PICK s, n, a, G, gone :
        /\ s = Q[l] /\ n = Len(Q[l]) /\ a = rt[l]
        /\ gone = Chain(nx, DElem, nx[a]) /\ G = gone \cup {a}
  OBVIOUS
<1>4. n \in Nat /\ cnt[l] = n /\ a \in DRoot /\ (\A i \in 1 .. n : s[i] \in DElem)
  BY <1>2, <1>3, DLineAt
<1>5. gone = {s[i] : i \in 1 .. n}
  <2>1. \A i \in 0 .. n : nx[DLines(Q, rt)[l][i]] = DLines(Q, rt)[l][i + 1]
    <3>1. Joined(DLines(Q, rt)[l], DLens(Q)[l], nx, pv)
      BY <1>2 DEF DGood, LinesJoined
    <3>2. DLens(Q)[l] = n
      BY <1>2, <1>3, DLineAt
    <3> QED
      BY <3>1, <3>2 DEF Joined
  <2>2. /\ DLines(Q, rt)[l][0] = a /\ DLines(Q, rt)[l][n + 1] = a
        /\ \A i \in 1 .. n : DLines(Q, rt)[l][i] = s[i]
    BY <1>2, <1>3, DLineAt
  <2>3. a \notin DElem
    BY <1>4, DNodesDiffer
  <2>4. CASE n = 0
    <3>1. nx[a] = a
      BY <2>1, <2>2, <2>4
    <3>2. gone = {}
      BY <1>3, <2>3, <3>1, ChainOutside
    <3> QED
      BY <2>4, <3>2
  <2>5. CASE n # 0
    <3>1. n \in Nat \ {0} /\ s \in [1 .. n -> DElem]
      BY <1>2, <1>3, <1>4, <2>5, DLineAt
    <3>2. nx[a] = s[1] /\ nx[s[n]] = a
      <4>1. 0 \in 0 .. n /\ n \in 0 .. n /\ 1 \in 1 .. n /\ n \in 1 .. n /\ 0 + 1 = 1
        BY <3>1
      <4> QED
        BY <2>1, <2>2, <4>1
    <3>3. ASSUME NEW i \in 1 .. n - 1 PROVE nx[s[i]] = s[i + 1]
      <4>1. i \in 0 .. n /\ i \in 1 .. n /\ i + 1 \in 1 .. n
        BY <3>1
      <4> QED
        BY <2>1, <2>2, <4>1
    <3>4. LinkedForward(nx, DElem, n, s)
      BY <2>3, <3>1, <3>2, <3>3 DEF LinkedForward
    <3>5. Chain(nx, DElem, s[1]) = Visited(s, n)
      BY <3>4, ChainForward
    <3> QED
      BY <1>3, <3>2, <3>5 DEF Visited
  <2> QED
    BY <2>4, <2>5
<1>6. Cardinality(gone) = n
  <2>1. \A i, j \in 1 .. n : s[i] = s[j] => i = j
    BY <1>2, <1>3 DEF Apart
  <2> QED
    BY <1>4, <1>5, <2>1, DistinctCounted
<1>7. RingNodes(G, rt[l], Q[l])
  BY <1>3, <1>5 DEF RingNodes
<1>8. DClearLinks(nx, nx2, G) /\ DClearLinks(pv, pv2, G)
  BY <1>1, <1>3 DEF DClear, DClearLinks
<1>9. Replaced(Q, l, <<>>, R)
  BY <1>1 DEF DClear, Replaced
<1>10. Replaced(cnt, l, 0, cnt2)
  <2>1. cnt2 = [cnt EXCEPT ![l] = cnt[l] - Cardinality(gone)]
    BY <1>1, <1>3 DEF DClear
  <2>2. cnt[l] - Cardinality(gone) = 0
    BY <1>4, <1>6
  <2> QED
    BY <2>1, <2>2 DEF Replaced
<1>11. /\ DGood(R, nx2, pv2, rt, cnt2)
       /\ \A x : Within(R, x) <=> Within(Q, x) /\ (\A i \in 1 .. Len(Q[l]) : Q[l][i] # x)
  BY <1>2, <1>7, <1>8, <1>9, <1>10, DCleared
<1>12. mRoot' = rt /\ it' = IF it \in gone THEN NoNode ELSE it
  BY <1>1, <1>3 DEF DClear
<1>13. ItGood(R, rt, it')
  <2>1. CASE it \in gone
    BY <1>12, <2>1 DEF ItGood
  <2>2. CASE it \notin gone
    <3>1. \A i \in 1 .. Len(Q[l]) : Q[l][i] # it
      BY <1>3, <1>5, <2>2
    <3>2. ItGood(Q, rt, it) /\ it' = it
      BY <1>1, <1>12, <2>2 DEF DInv
    <3> QED
      BY <1>11, <3>1, <3>2 DEF ItGood
  <2> QED
    BY <2>1, <2>2
<1> QED
  BY <1>1, <1>11, <1>12, <1>13 DEF DInv

(* swap. *)
LEMMA DSwapInv ==
    ASSUME DInv, NEW l \in DListId, NEW r \in DListId, DSwap(l, r)
    PROVE  DInv'
<1>1. PICK Q, nx, pv, rt, cnt, i, R, rt2, cnt2 :
        /\ Q = dSeq /\ nx = dNext /\ pv = dPrev /\ rt = mRoot /\ cnt = dCount /\ i = it
        /\ R = dSeq' /\ rt2 = mRoot' /\ cnt2 = dCount'
  OBVIOUS
<1>2. DGood(Q, nx, pv, rt, cnt) /\ ItGood(Q, rt, i)
  BY <1>1 DEF DInv
<1>3. /\ l # r /\ Swapped(Q, l, r, R) /\ Swapped(rt, l, r, rt2) /\ Swapped(cnt, l, r, cnt2)
      /\ dNext' = nx /\ dPrev' = pv /\ it' = i
  BY <1>1 DEF DSwap, Swapped
<1>4. DGood(R, nx, pv, rt2, cnt2) /\ ItGood(R, rt2, i)
  BY <1>2, <1>3, DSwapped
<1> QED
  BY <1>1, <1>3, <1>4 DEF DInv

(* The lists at the start are empty rings. *)
LEMMA DInitInv == DListInit => DInv
<1> SUFFICES ASSUME DListInit PROVE DInv
  OBVIOUS
<1>1. <<>> \in Seq(DElem) /\ Len(<<>>) = 0
  BY EmptySeq
<1>2. dSeq \in [DListId -> Seq(DElem)] /\ (\A l \in DListId : dSeq[l] = <<>> /\ Len(dSeq[l]) = 0)
  BY <1>1 DEF DListInit
<1>3. mRoot \in [DListId -> DRoot] /\ OwnRoots(mRoot)
  <2>1. mRoot = CHOOSE f \in [DListId -> DRoot] : OwnRoots(f)
    BY DEF DListInit
  <2>2. \E f \in [DListId -> DRoot] : OwnRoots(f)
    BY DListAssumption
  <2> QED
    BY <2>1, <2>2
<1>4. Apart(dSeq)
  BY <1>2 DEF Apart
<1>5. DTypes(dSeq, mRoot)
  BY <1>2, <1>3, <1>4 DEF DTypes
<1>6. dCount = DLens(dSeq)
  BY <1>2 DEF DListInit, DLens
<1>7. dNext \in [DNode -> DNode] /\ dPrev \in [DNode -> DNode] /\ (\A n \in DNode : dNext[n] = n /\ dPrev[n] = n)
  BY DEF DListInit
<1>8. LinesJoined(DListId, DLines(dSeq, mRoot), DLens(dSeq), dNext, dPrev)
  <2> SUFFICES ASSUME NEW l \in DListId PROVE Joined(DLines(dSeq, mRoot)[l], DLens(dSeq)[l], dNext, dPrev)
    BY DEF LinesJoined
  <2>1. PICK K, a : K = DLines(dSeq, mRoot)[l] /\ a = mRoot[l]
    OBVIOUS
  <2>2. DLens(dSeq)[l] = 0 /\ K[0] = a /\ K[0 + 1] = a /\ a \in DRoot
    BY <1>2, <1>5, <2>1, DLineAt
  <2>3. \A i \in 0 .. 0 : i = 0
    OBVIOUS
  <2>4. dNext[a] = a /\ dPrev[a] = a
    BY <1>7, <2>2, DNodesDiffer
  <2>5. Joined(K, 0, dNext, dPrev)
    BY <2>2, <2>3, <2>4 DEF Joined
  <2> QED
    BY <2>1, <2>2, <2>5
<1>9. \A e \in DElem : dNext[e] = e /\ dPrev[e] = e
  BY <1>7, DNodesDiffer
<1>10. ItGood(dSeq, mRoot, it)
  BY DEF DListInit, ItGood
<1> QED
  BY <1>5, <1>6, <1>7, <1>8, <1>9, <1>10 DEF DInv, DGood

(* The first and the last element are the ones next to the root. *)
LEMMA DEnds ==
    ASSUME DInv, NEW l \in DListId, dCount[l] > 0
    PROVE  \E p, q \in 1 .. Len(dSeq[l]) : dNext[mRoot[l]] = dSeq[l][p] /\ dPrev[mRoot[l]] = dSeq[l][q]
<1>1. PICK Q, nx, pv, rt, cnt : Q = dSeq /\ nx = dNext /\ pv = dPrev /\ rt = mRoot /\ cnt = dCount
  OBVIOUS
<1>2. DGood(Q, nx, pv, rt, cnt) /\ DTypes(Q, rt) /\ cnt = DLens(Q)
  BY <1>1 DEF DInv, DGood
<1>3. PICK s, n, a, K : s = Q[l] /\ n = Len(Q[l]) /\ a = rt[l] /\ K = DLines(Q, rt)[l]
  OBVIOUS
<1>4. /\ n \in Nat /\ DLens(Q)[l] = n /\ K[0] = a /\ K[n + 1] = a /\ (\A i \in 1 .. n : K[i] = s[i])
  BY <1>2, <1>3, DLineAt
<1>5. n # 0
  BY <1>1, <1>2, <1>4
<1>6. Joined(K, n, nx, pv)
  BY <1>2, <1>3, <1>4 DEF DGood, LinesJoined
<1>7. 0 \in 0 .. n /\ n \in 0 .. n /\ 0 + 1 = 1 /\ 1 \in 1 .. n /\ n \in 1 .. n
  BY <1>4, <1>5
<1>8. nx[a] = s[1] /\ pv[a] = s[n]
  BY <1>4, <1>6, <1>7 DEF Joined
<1> QED
  BY <1>1, <1>3, <1>7, <1>8

(* Every operation keeps the rings. *)
LEMMA DStepInv == DInv /\ [DListNext]_dlistVars => DInv'
<1> SUFFICES ASSUME DInv, [DListNext]_dlistVars PROVE DInv'
  OBVIOUS
<1>1. ASSUME NEW l \in DListId, DPopFront(l) PROVE DInv'
  <2>1. dCount[l] > 0
    BY <1>1 DEF DPopFront, DTakeOut
  <2>2. PICK p \in 1 .. Len(dSeq[l]) : dNext[mRoot[l]] = dSeq[l][p]
    BY <2>1, DEnds
  <2>3. DTakeOut(l, dSeq[l][p])
    BY <1>1, <2>2 DEF DPopFront
  <2> QED
    BY <2>3, DTakeOutInv
<1>2. ASSUME NEW l \in DListId, DPopBack(l) PROVE DInv'
  <2>1. dCount[l] > 0
    BY <1>2 DEF DPopBack, DTakeOut
  <2>2. PICK p \in 1 .. Len(dSeq[l]) : dPrev[mRoot[l]] = dSeq[l][p]
    BY <2>1, DEnds
  <2>3. DTakeOut(l, dSeq[l][p])
    BY <1>2, <2>2 DEF DPopBack
  <2> QED
    BY <2>3, DTakeOutInv
<1>3. ASSUME NEW l \in DListId, NEW e \in DElem, DUnlink(l, e) PROVE DInv'
  <2>1. PICK p \in 1 .. Len(dSeq[l]) : e = dSeq[l][p]
    BY <1>3 DEF DUnlink, DIndex
  <2>2. DTakeOut(l, dSeq[l][p])
    BY <1>3, <2>1 DEF DUnlink
  <2> QED
    BY <2>2, DTakeOutInv
<1>4. ASSUME NEW l \in DListId, DEraseEnd(l) PROVE DInv'
  <2>1. ItGood(dSeq, mRoot, mRoot[l])
    BY DEF ItGood
  <2>2. /\ it' = mRoot[l] /\ dSeq' = dSeq /\ mRoot' = mRoot /\ dCount' = dCount
        /\ dNext' = dNext /\ dPrev' = dPrev
    BY <1>4 DEF DEraseEnd
  <2> QED
    BY <2>1, <2>2 DEF DInv
<1>5. ASSUME NEW l \in DListId, NEW e \in DElem, DPushFront(l, e) PROVE DInv'
  BY <1>5, DInsertInv DEF DPushFront
<1>6. ASSUME NEW l \in DListId, NEW e \in DElem, DPushBack(l, e) PROVE DInv'
  BY <1>6, DInsertInv DEF DPushBack
<1>7. CASE UNCHANGED dlistVars
  BY <1>7 DEF DInv, dlistVars
<1>8. CASE DListNext
  BY <1>1, <1>2, <1>3, <1>4, <1>5, <1>6, <1>8, DInsertInv, DEraseInv, DClearInv, DSwapInv DEF DListNext
<1> QED
  BY <1>7, <1>8

(* The rings are what DListIsItsSequence says, and an iterator is a node of *)
(* one of them.                                                             *)
LEMMA DInvImplies == DInv => DListIsItsSequence /\ IteratorIsInAList
<1> SUFFICES ASSUME DInv PROVE DListIsItsSequence /\ IteratorIsInAList
  OBVIOUS
<1>1. PICK Q, nx, pv, rt, cnt : Q = dSeq /\ nx = dNext /\ pv = dPrev /\ rt = mRoot /\ cnt = dCount
  OBVIOUS
<1>2. DGood(Q, nx, pv, rt, cnt) /\ DTypes(Q, rt) /\ cnt = DLens(Q) /\ DOMAIN Q = DListId
  BY <1>1 DEF DInv, DGood, DTypes
<1>3. ASSUME NEW e \in DElem, \A l \in DListId : DIndex(l, e) = {} PROVE dNext[e] = e /\ dPrev[e] = e
  <2>1. ~Within(Q, e)
    BY <1>1, <1>2, <1>3 DEF Within, DIndex
  <2> QED
    BY <1>1, <1>2, <2>1 DEF DGood
<1>4. ASSUME NEW l \in DListId
      PROVE  LET s == dSeq[l]
                 n == Len(s)
                 ring == [i \in 0 .. n + 1 |-> IF i \in 1 .. n THEN s[i] ELSE mRoot[l]]
             IN  /\ dCount[l] = n
                 /\ \A i \in 0 .. n : dNext[ring[i]] = ring[i + 1] /\ dPrev[ring[i + 1]] = ring[i]
  <2>1. PICK s, n, a, K : s = Q[l] /\ n = Len(Q[l]) /\ a = rt[l] /\ K = DLines(Q, rt)[l]
    OBVIOUS
  <2>2. /\ n \in Nat /\ DLens(Q)[l] = n /\ K[0] = a /\ K[n + 1] = a /\ (\A i \in 1 .. n : K[i] = s[i])
        /\ \A i \in 0 .. n + 1 : i = 0 \/ i = n + 1 \/ i \in 1 .. n
    BY <1>2, <2>1, DLineAt
  <2>3. Joined(K, n, nx, pv)
    BY <1>2, <2>1, <2>2 DEF DGood, LinesJoined
  <2> DEFINE ring == [i \in 0 .. n + 1 |-> IF i \in 1 .. n THEN s[i] ELSE a]
  <2>4. \A i \in 0 .. n + 1 : ring[i] = K[i]
    <3>1. 0 \notin 1 .. n /\ n + 1 \notin 1 .. n
      BY <2>2
    <3> QED
      BY <2>2, <3>1
  <2>5. \A i \in 0 .. n : i \in 0 .. n + 1 /\ i + 1 \in 0 .. n + 1
    BY <2>2
  <2> HIDE DEF ring
  <2>6. \A i \in 0 .. n : nx[ring[i]] = ring[i + 1] /\ pv[ring[i + 1]] = ring[i]
    BY <2>3, <2>4, <2>5 DEF Joined
  <2>7. cnt[l] = n
    BY <1>2, <2>2
  <2> QED
    BY <1>1, <2>1, <2>6, <2>7 DEF ring
<1>5. DListIsItsSequence
  BY <1>3, <1>4 DEF DListIsItsSequence
<1>6. IteratorIsInAList
  <2> SUFFICES ASSUME it # NoNode PROVE \E l \in DListId : it \in DNodesOf(l)
    BY DEF IteratorIsInAList
  <2>1. (\E l \in DListId : it = mRoot[l]) \/ Within(dSeq, it)
    BY DEF DInv, ItGood
  <2>2. CASE \E l \in DListId : it = mRoot[l]
    BY <2>2 DEF DNodesOf
  <2>3. CASE Within(dSeq, it)
    BY <1>1, <1>2, <2>3 DEF Within, DNodesOf
  <2> QED
    BY <2>1, <2>2, <2>3
<1> QED
  BY <1>5, <1>6

(* IntrusiveDList: each list is its sequence, in both directions, and an    *)
(* iterator that erase or insert returned still is in a list.               *)
LEMMA DListInvariant == DListSpec => [](DListIsItsSequence /\ IteratorIsInAList)
<1>1. DListInit => DInv
  BY DInitInv
<1>2. DInv /\ [DListNext]_dlistVars => DInv'
  BY DStepInv
<1>3. DInv => DListIsItsSequence /\ IteratorIsInAList
  BY DInvImplies
<1> QED
  BY <1>1, <1>2, <1>3, PTL DEF DListSpec

(* The linked lists of the library, IntrusiveList, IntrusiveDList and the   *)
(* lists of a FutureGroup: whatever is pushed, inserted, popped, erased,    *)
(* swapped and cleared, and in whatever order, the links, the ends and the  *)
(* counts are those of the sequence of elements that the operations say.    *)
THEOREM ListsKept == ListSpec /\ DListSpec /\ FutureListSpec => []ListsAreSequences
<1>1. /\ ListIsItsSequence /\ (DListIsItsSequence /\ IteratorIsInAList) /\ FutureListIsItsSequence
      => ListsAreSequences
  BY DEF ListsAreSequences
<1> QED
  BY <1>1, ListInvariant, DListInvariant, FutureListInvariant, PTL
=============================================================================
