------------------------------ MODULE Pipeline ------------------------------
(***************************************************************************)
(* From the raw export to the arrays main trains on: parse_data.py writes  *)
(* the file that DataLoader then reads.  The script may be killed, which   *)
(* leaves any prefix of its output; main loads that prefix all the same.   *)
(***************************************************************************)
EXTENDS DataLoader, SequencesExt

CONSTANTS
    RawFiles,  \* raw exports: sequences of lines, a line a sequence of characters
    Dropped    \* the leading columns parse_data.py leaves out (4)

ASSUME PipelineAssumption ==
    /\ Dropped \in Nat \ {0}
    /\ \A r \in RawFiles : r \in Seq(Seq(Int))
    /\ \A r \in RawFiles : \A i \in DOMAIN r : \A j \in DOMAIN r[i] :
           r[i][j] >= WORD /\ (r[i][j] = NEWLINE => j = Len(r[i]))

VARIABLES
    script,  \* "none", "running" or "ended": the run of parse_data.py
    raw,     \* its input
    lineNo,  \* the lines it has read
    out,     \* what it has written
    cut      \* it was killed before it had written everything

scriptVars == <<script, raw, lineNo, out, cut>>
vars == <<loaderVars, scriptVars>>

-----------------------------------------------------------------------------
(* str.strip *)
NonBlankAt(l) == {i \in DOMAIN l : l[i] \notin Blank}
Strip(l) == IF NonBlankAt(l) = {} THEN <<>> ELSE SubSeq(l, Min(NonBlankAt(l)), Max(NonBlankAt(l)))

(* l.split(',')[4:], every field followed by a comma: the text after the    *)
(* fourth comma and one comma more, or nothing.                             *)
CommasBefore(l, i) == Cardinality({j \in 1 .. i - 1 : l[j] = COMMA})
KeptTextLate(l) ==  \* deviation: [5:] for [4:]
    LET kept == {i \in DOMAIN l : l[i] = COMMA /\ CommasBefore(l, i) = Dropped}
    IN  IF kept = {} THEN <<>> ELSE SubSeq(l, Min(kept) + 1, Len(l)) \o <<COMMA>>
KeptText(l) == LET kept == {i \in DOMAIN l : l[i] = COMMA /\ CommasBefore(l, i) = Dropped - 1}
               IN  IF kept = {} THEN <<>> ELSE SubSeq(l, Min(kept) + 1, Len(l)) \o <<COMMA>>

Init ==
    /\ LoaderInit
    /\ script = "none" /\ raw = <<>> /\ lineNo = 0 /\ out = <<>> /\ cut = FALSE

StartScript(r) ==
    /\ script = "none"
    /\ pc = "idle" /\ Len(loaded) < NumLoads
    /\ script' = "running"
    /\ raw' = r /\ lineNo' = 0 /\ out' = <<>> /\ cut' = FALSE
    /\ UNCHANGED loaderVars

(* readline().strip(): empty at the end of the input and on a blank line. *)
Line == IF lineNo < Len(raw) THEN Strip(raw[lineNo + 1]) ELSE <<>>

(* One turn of the while loop. *)
ParseLine ==
    /\ script = "running"
    /\ Line # <<>>
    /\ out' = out \o KeptText(Line) \o <<NEWLINE>>
    /\ lineNo' = lineNo + 1
    /\ UNCHANGED <<script, raw, cut, loaderVars>>

(* The loop ends at the first empty line, wherever it is. *)
EndScript ==
    /\ script = "running"
    /\ Line = <<>>
    /\ script' = "ended"
    /\ UNCHANGED <<raw, lineNo, out, cut, loaderVars>>

(* The script is killed: its buffered output reaches the file up to any     *)
(* character.                                                               *)
Killed ==
    /\ script = "running"
    /\ \E n \in 0 .. Len(out) : out' = SubSeq(out, 1, n)
    /\ script' = "ended"
    /\ cut' = TRUE
    /\ UNCHANGED <<raw, lineNo, loaderVars>>

(* main loads what the script left; the next run may begin after that. *)
Load ==
    /\ script = "ended"
    /\ Open(out)
    /\ script' = "none"
    /\ UNCHANGED <<raw, lineNo, out, cut>>

LoadMissing ==
    /\ script = "none"
    /\ OpenMissing
    /\ UNCHANGED scriptVars

Read == LoaderStep /\ UNCHANGED scriptVars

(* main has both data sets, or the process is stuck or dead. *)
Finished == Len(loaded) = NumLoads \/ pc \in Failed

Terminated == Finished /\ UNCHANGED vars

Next ==
    \/ \E r \in RawFiles : StartScript(r)
    \/ ParseLine \/ EndScript \/ Killed
    \/ Load \/ LoadMissing
    \/ Read
    \/ Terminated

(* One process runs the script, then the loader; each is scheduled. *)
Spec == Init /\ [][Next]_vars
FairSpec == Spec /\ WF_vars(ParseLine \/ EndScript \/ Load) /\ WF_vars(Read)

-----------------------------------------------------------------------------
(* What the raw file says, read column by column. *)

Field(l, k) == LET at == {i \in DOMAIN l : l[i] # COMMA /\ l[i] \notin Blank /\ CommasBefore(l, i) = k - 1}
               IN  IF at = {} \/ l[Min(at)] < 0 THEN 0 ELSE l[Min(at)]
Columns(l) == CommasBefore(l, Len(l) + 1) + 1
Row(l) == [k \in 1 .. Columns(l) - Dropped |-> Field(l, k + Dropped)]

(* The row of a line, if it has one, and the rows of the lines before the   *)
(* first blank one.                                                         *)
RowOf(l) == IF Columns(l) > Dropped THEN <<Row(l)>> ELSE <<>>
BlankLines == {i \in DOMAIN raw : Strip(raw[i]) = <<>>}
ParsedLines == IF BlankLines = {} THEN raw ELSE SubSeq(raw, 1, Min(BlankLines) - 1)
Rows == FlattenSeq([i \in DOMAIN ParsedLines |-> RowOf(Strip(ParsedLines[i]))])

(* The arrays that hold a given sequence of rows. *)
HoldsRows(d, rows) ==
    /\ d.count = Len(rows)
    /\ d.label = [i \in DOMAIN rows |-> rows[i][1]]
    /\ d.data = FlattenSeq([i \in DOMAIN rows |-> Tail(rows[i])])
    /\ d.numFloats = Len(d.data) + Len(rows)

Labelled(rows) == \A i \in DOMAIN rows : Len(rows[i]) >= 2
Uniform(rows) == \A i, j \in DOMAIN rows : Len(rows[i]) = Len(rows[j])
GoodRows(rows) == rows # <<>> /\ Labelled(rows) /\ Uniform(rows)

(* The fields of the file can be counted in an unsigned int.  Nothing in    *)
(* the code tests this; beyond it the counts wrap around in silence.        *)
Countable(rows) == Len(FlattenSeq(rows)) < UIntMod

(* Whatever the raw file, as long as its fields can be counted, a load that *)
(* returns returns the rows of the raw file, label and features in place,   *)
(* up to where the script was killed: ragged rows, rows with no features,   *)
(* blank or non-numeric fields and short lines are loaded right, abort or   *)
(* hang, but never load wrong.                                              *)
LoadedIsFaithful ==
    (pc = "idle" /\ loaded # <<>> /\ script = "none" /\ Countable(Rows)) =>
        LET n == Last(loaded).count IN
        /\ n <= Len(Rows)
        /\ HoldsRows(Last(loaded), SubSeq(Rows, 1, n))
        /\ ~cut => n = Len(Rows)

(* Rows of equal length fit the array that LoadData allocates from the two  *)
(* counts, to the last float: no write leaves the arrays and none of their  *)
(* floats stays uninitialised, up to the last number of fields that an      *)
(* unsigned int counts.  With more, the array may be too small.             *)
UniformRowsFit ==
    Uniform(Rows) /\ Labelled(Rows) /\ Countable(Rows) =>
        /\ pc \in {"label", "data", "dataRow", "assert", "loaded"} =>
               Len(pData) <= dataCap /\ Len(pLabel) <= mNumFeatures
        /\ pc = "loaded" => Len(pData) = dataCap

(* The assertions of AllocateData hold on every file the script can write.  *)
AssertionsHold == pc # "abort"

(* A complete file of equally long rows is loaded: no read runs into the    *)
(* end of the file, no division by zero, no assertion fails.                *)
GoodFileLoads ==
    (pc = "count" /\ ~cut /\ GoodRows(Rows) /\ Countable(Rows)) ~> (pc = "loaded")
=============================================================================
