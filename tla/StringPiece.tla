----------------------------- MODULE StringPiece ----------------------------
(***************************************************************************)
(* StringPiece of apsara/stone/string: a view, mStr and mLength, of        *)
(* characters that somebody else keeps.  Positions count from 0.  Pieces   *)
(* of one text are shortened, cut and swapped; the searches, which are     *)
(* loops over size_t with its wrap at zero, are compared with what         *)
(* std::string promises for a string of the same characters.               *)
(***************************************************************************)
EXTENDS Integers, Sequences, FiniteSets, SequencesExt

CONSTANTS
    Char,
    Text,       \* the texts viewed: sequences of characters
    Pattern,    \* what is searched for: sequences of characters
    Piece,      \* the StringPiece variables
    SizeMax,    \* npos, the largest size_t
    IntHalf     \* 2^31: an int is in -IntHalf .. IntHalf - 1

ASSUME PieceAssumption ==
    /\ Char \subseteq Int /\ Text \subseteq Seq(Char) /\ Pattern \subseteq Seq(Char)
    /\ SizeMax \in Nat /\ IntHalf \in Nat \ {0} /\ (SizeMax + 1) % (2 * IntHalf) = 0
    /\ \A x \in Text \cup Pattern : Len(x) < SizeMax

VARIABLES
    text,     \* the characters viewed
    mStr,     \* mStr[p]: the offset in the text at which p begins
    mLength,
    content   \* history: the characters that each piece should show

pieceVars == <<text, mStr, mLength, content>>

npos == SizeMax

PieceInit ==
    /\ text \in Text
    /\ mStr = [p \in Piece |-> 0] /\ mLength = [p \in Piece |-> 0]
    /\ content = [p \in Piece |-> <<>>]

data(p) == SubSeq(text, mStr[p] + 1, mStr[p] + mLength[p])
size(p) == mLength[p]
CharAt(d, i) == d[i + 1]

-----------------------------------------------------------------------------
(* The constructors and set: the whole text, or len characters from off. *)
PieceSet(p, off, len) ==
    /\ off + len <= Len(text)
    /\ mStr' = [mStr EXCEPT ![p] = off] /\ mLength' = [mLength EXCEPT ![p] = len]
    /\ content' = [content EXCEPT ![p] = SubSeq(text, off + 1, off + len)]
    /\ UNCHANGED text

PieceClear(p) ==
    /\ mStr' = [mStr EXCEPT ![p] = 0] /\ mLength' = [mLength EXCEPT ![p] = 0]
    /\ content' = [content EXCEPT ![p] = <<>>]
    /\ UNCHANGED text

PieceSwap(p, q) ==
    /\ p # q
    /\ mStr' = [mStr EXCEPT ![p] = mStr[q], ![q] = mStr[p]]
    /\ mLength' = [mLength EXCEPT ![p] = mLength[q], ![q] = mLength[p]]
    /\ content' = [content EXCEPT ![p] = content[q], ![q] = content[p]]
    /\ UNCHANGED text

(* std::out_of_range is thrown before anything is changed. *)
PieceThrows == UNCHANGED pieceVars

RemovePrefixUnchecked(p, n) ==  \* deviation: the length is not checked
    /\ mStr' = [mStr EXCEPT ![p] = @ + n]
    /\ mLength' = [mLength EXCEPT ![p] = (@ - n) % (SizeMax + 1)]
    /\ content' = [content EXCEPT ![p] = SubSeq(@, n + 1, Len(@))]
    /\ UNCHANGED text

RemovePrefix(p, n) ==
    \/ mLength[p] < n /\ PieceThrows
    \/ /\ mLength[p] >= n
       /\ mStr' = [mStr EXCEPT ![p] = @ + n]
       /\ mLength' = [mLength EXCEPT ![p] = @ - n]
       /\ content' = [content EXCEPT ![p] = SubSeq(@, n + 1, Len(@))]
       /\ UNCHANGED text

RemoveSuffix(p, n) ==
    \/ mLength[p] < n /\ PieceThrows
    \/ /\ mLength[p] >= n
       /\ mLength' = [mLength EXCEPT ![p] = @ - n]
       /\ content' = [content EXCEPT ![p] = SubSeq(@, 1, Len(@) - n)]
       /\ UNCHANGED <<text, mStr>>

(* q = p.substr(pos, len) *)
SubstrLength(p, pos, len) ==
    IF len = npos THEN size(p) - pos ELSE Min({size(p) - pos, len})

Substr(q, p, pos, len) ==
    \/ pos > size(p) /\ PieceThrows
    \/ /\ pos <= size(p)
       /\ mStr' = [mStr EXCEPT ![q] = mStr[p] + pos]
       /\ mLength' = [mLength EXCEPT ![q] = SubstrLength(p, pos, len)]
       /\ content' = [content EXCEPT ![q] = SubSeq(content[p], pos + 1, Min({pos + len, Len(content[p])}))]
       /\ UNCHANGED text

PieceNext ==
    \E p \in Piece :
        \/ PieceClear(p)
        \/ \E n \in 0 .. Len(text) : \E m \in 0 .. Len(text) : PieceSet(p, n, m)
        \/ \E n \in 0 .. Len(text) + 1 : RemovePrefix(p, n) \/ RemoveSuffix(p, n)
        \/ \E q \in Piece :
              \/ PieceSwap(p, q)
              \/ \E n \in 0 .. Len(text) + 1 : \E m \in (0 .. Len(text)) \cup {npos} : Substr(q, p, n, m)

PieceSpec == PieceInit /\ [][PieceNext]_pieceVars

-----------------------------------------------------------------------------
(* The loops of the searches for one of some positions: upwards over a      *)
(* range, and downwards from an index with the test for zero before the     *)
(* decrement.                                                               *)
ScanUp(hits, from, to) ==
    LET first[i \in from .. to + 1] ==
            IF i = to + 1 THEN npos ELSE IF i \in hits THEN i ELSE first[i + 1]
    IN  IF from > to THEN npos ELSE first[from]

ScanDown(hits, from) ==
    LET last[i \in 0 .. from] ==
            IF i \in hits THEN i ELSE IF i = 0 THEN npos ELSE last[i - 1]
    IN  last[from]

Matches(d, s, i) == i + Len(s) <= Len(d) /\ SubSeq(d, i + 1, i + Len(s)) = s

(* std::search: where the first match from pos on begins, or the end. *)
StdSearch(d, pos, s) ==
    LET found == {i \in pos .. Len(d) : Matches(d, s, i)}
    IN  IF found = {} THEN Len(d) ELSE Min(found)

(* The characters of s, one by one, in a piece that shows d. *)
Among(d, s, i) == \E j \in 1 .. Len(s) : s[j] = CharAt(d, i)
PlacesOf(d, s) == {i \in 0 .. Len(d) - 1 : Among(d, s, i)}
PlacesNotOf(d, s) == {i \in 0 .. Len(d) - 1 : ~Among(d, s, i)}

(* The searches of a piece that shows d. *)
find(d, s, pos) ==
    LET p == StdSearch(d, pos, s)
    IN  IF pos <= Len(d) /\ Len(s) <= Len(d) - pos /\ (p # Len(d) \/ Len(s) = 0)
        THEN p ELSE npos

find_char(d, c, pos) ==
    IF pos < Len(d) THEN ScanUp({i \in 0 .. Len(d) - 1 : CharAt(d, i) = c}, pos, Len(d) - 1) ELSE npos

rfind(d, s, pos) ==
    IF Len(s) <= Len(d)
    THEN ScanDown({i \in 0 .. Len(d) : Matches(d, s, i)}, Min({Len(d) - Len(s), pos}))
    ELSE npos

(* The index that the downward searches begin with, for a piece that is not *)
(* empty: the last one, or pos if that is smaller.                          *)
StartDownAtEnd(d, pos) == Len(d) - 1  \* deviation: pos is not looked at
StartDown(d, pos) == IF Len(d) - 1 > pos THEN pos ELSE Len(d) - 1

rfind_char(d, c, pos) ==
    IF Len(d) > 0 THEN ScanDown({i \in 0 .. Len(d) - 1 : CharAt(d, i) = c}, StartDown(d, pos)) ELSE npos

find_first_of(d, s, pos) ==
    IF Len(s) > 0 THEN ScanUp(PlacesOf(d, s), pos, Len(d) - 1) ELSE npos

find_last_of(d, s, pos) ==
    IF Len(d) > 0 /\ Len(s) > 0
    THEN ScanDown(PlacesOf(d, s), StartDown(d, pos)) ELSE npos

find_first_not_of(d, s, pos) == ScanUp(PlacesNotOf(d, s), pos, Len(d) - 1)

(* The overload for a C string only calls itself, and is left out. *)
find_last_not_of(d, s, pos) ==
    IF Len(d) > 0 THEN ScanDown(PlacesNotOf(d, s), StartDown(d, pos)) ELSE npos

(* compare: the characters that both have, then the lengths, whose unsigned *)
(* difference becomes an int.                                               *)
ToInt(n) ==
    LET low == n % (2 * IntHalf) IN IF low >= IntHalf THEN low - 2 * IntHalf ELSE low

StdCompare(d, e, len) ==
    LET differ == {i \in 1 .. len : d[i] # e[i]}
    IN  IF differ = {} THEN 0 ELSE IF d[Min(differ)] < e[Min(differ)] THEN -1 ELSE 1

LengthsSwapped(d, e) == ToInt((Len(e) - Len(d)) % (SizeMax + 1))  \* deviation: swapped
LengthsCompared(d, e) == ToInt((Len(d) - Len(e)) % (SizeMax + 1))

compare(d, e) ==
    LET r == StdCompare(d, e, Min({Len(d), Len(e)}))
    IN  IF r = 0 THEN LengthsCompared(d, e) ELSE r

-----------------------------------------------------------------------------
(* A piece shows the characters that the operations on it promise, and      *)
(* stays inside the text whatever it is cut to.                             *)
PieceShowsItsContent ==
    \A p \in Piece : mStr[p] + mLength[p] <= Len(text) /\ data(p) = content[p]

SmallestOr(S) == IF S = {} THEN npos ELSE Min(S)
LargestOr(S) == IF S = {} THEN npos ELSE Max(S)

(* Every search returns what std::string promises for the same characters:  *)
(* the first match at pos or behind it, or the last one at pos or before    *)
(* it, and npos if there is none, for every pos up to npos.                 *)
SearchesAsStdString ==
    \A p \in Piece : \A s \in Pattern : \A pos \in (0 .. Len(text) + 1) \cup {npos} :
        LET d == content[p]
            up == {i \in 0 .. Len(d) - 1 : i >= pos}
            down == {i \in 0 .. Len(d) - 1 : i <= pos}
        IN  /\ find(d, s, pos) = SmallestOr({i \in 0 .. Len(d) : i >= pos /\ Matches(d, s, i)})
            /\ rfind(d, s, pos) = LargestOr({i \in 0 .. Len(d) : i <= pos /\ Matches(d, s, i)})
            /\ find_first_of(d, s, pos) = SmallestOr({i \in up : Among(d, s, i)})
            /\ find_last_of(d, s, pos) = LargestOr({i \in down : Among(d, s, i)})
            /\ find_first_not_of(d, s, pos) = SmallestOr({i \in up : ~Among(d, s, i)})
            /\ find_last_not_of(d, s, pos) = LargestOr({i \in down : ~Among(d, s, i)})
            /\ Len(s) = 1 => /\ find_char(d, s[1], pos) = find_first_of(d, s, pos)
                             /\ rfind_char(d, s[1], pos) = find_last_of(d, s, pos)

(* compare orders pieces as their characters are ordered, and says 0 for    *)
(* equal ones only, as long as the lengths differ by less than an int       *)
(* counts; operator== relies on it.                                         *)
Before(d, e) == StdCompare(d, e, Min({Len(d), Len(e)})) < 0
                  \/ (Len(d) < Len(e) /\ IsPrefix(d, e))
CompareOrders ==
    \A p, q \in Piece :
        LET d == content[p]
            e == content[q]
        IN  Len(d) - Len(e) \in -(IntHalf - 1) .. IntHalf - 1
              => /\ compare(d, e) < 0 <=> Before(d, e)
                 /\ compare(d, e) = 0 <=> d = e

(* A piece is to its users what a std::string of the same characters is:    *)
(* cut, searched and compared.                                              *)
PieceIsAString == PieceShowsItsContent /\ SearchesAsStdString /\ CompareOrders
=============================================================================
