------------------------------- MODULE MCMain -------------------------------
(* Raw exports for the whole program: rows of the expected length and a row  *)
(* that is too long.  Three rows of the expected length are just as many     *)
(* fields as UIntMod counts; with a long row among them the counts wrap.     *)
EXTENDS Main

CONSTANT MaxLines

Meta == <<WORD, COMMA>>

Lines == { Meta \o <<1, COMMA, 2, COMMA, 3>>,
           Meta \o <<4, COMMA, 5, COMMA, 6>>,
           Meta \o <<7, COMMA, 8, COMMA, 9, COMMA, 9>> }

MCRawFiles == SeqOf(Lines, MaxLines)
=============================================================================
