----------------------------- MODULE MCPipeline -----------------------------
(* Raw exports for TLC: up to MaxLines lines, each made of the dropped       *)
(* columns and one of a few bodies.                                          *)
EXTENDS Pipeline

CONSTANT MaxLines

Meta == <<WORD, COMMA, WORD, COMMA, WORD, COMMA, WORD, COMMA>>

PlainBodies == { <<1, COMMA, 2>>,                \* a label and a feature
                 <<3, COMMA, SPACE, 4, SPACE>>,  \* with blanks around a feature
                 <<5, COMMA>>,                   \* an empty last column
                 <<WORD, COMMA, 6>> }            \* a label that is not a number
RaggedBodies == { <<1, COMMA, 2>>, <<7, COMMA, 8, COMMA, 9>>, <<5>> }

Lines(bodies) == {Meta \o b : b \in bodies}
OddLines == { <<WORD, COMMA, WORD>>,  \* fewer columns than are dropped
              <<SPACE>> }             \* blank: parse_data.py stops here

PlainFiles == SeqOf(Lines(PlainBodies) \cup OddLines, MaxLines)
MixedFiles == SeqOf(Lines(RaggedBodies) \cup OddLines, MaxLines)
AllFiles == PlainFiles \cup MixedFiles
LabelOnlyFiles == SeqOf(Lines({<<5>>, <<1, COMMA, 2>>}), MaxLines)
=============================================================================
