----------------------------- MODULE VariantInt -----------------------------
(***************************************************************************)
(* VariantInt of apsara/stone/encoding/integer: an integer as a sequence   *)
(* of bytes of Group payload bits and a continuation bit, low bits first.  *)
(* A caller encodes an integer of type T into a buffer; a caller decodes a *)
(* buffer, its own or one that came from somewhere else, reading at most   *)
(* limit bytes.  One action is one turn of a loop.                         *)
(***************************************************************************)
EXTENDS Integers, Sequences, FiniteSetsExt

CONSTANTS
    Group,     \* payload bits of a byte (7)
    Width,     \* the bits of T, an unsigned type
    Buffers,   \* foreign byte sequences that may be decoded as well
    NoLimit    \* (size_t) -1: larger than any limit that matters

ASSUME VariantAssumption ==
    /\ Group \in Nat \ {0} /\ Width \in Nat \ {0}
    /\ NoLimit \in Nat /\ NoLimit > Width

(* 1 << n, as the shifts by multiples of Group use it. *)
Pow2[n \in Nat] == IF n = 0 THEN 1 ELSE 2 * Pow2[n - 1]

Byte == [more : BOOLEAN, low : 0 .. Pow2[Group] - 1]
Ints == 0 .. Pow2[Width] - 1

ASSUME BuffersAssumption == Buffers \subseteq Seq(Byte)

VARIABLES
    pc,
    given,   \* the integer to be encoded
    x,       \* what is left of it in Encode
    buf,     \* the bytes
    own,     \* buf was written by Encode
    limit, i, value,  \* Decode: its bound, its loop counter, its accumulator
    answer   \* what Decode returned: ok, the integer, the offset

vars == <<pc, given, x, buf, own, limit, i, value, answer>>

NoAnswer == [ok |-> FALSE, int |-> 0, offset |-> 0]

-----------------------------------------------------------------------------
(* The conversion of an integer to T. *)
ToT(n) == n % Pow2[Width]

(* The conversion of an integer to unsigned char: continuation bit and payload. *)
ToByte(n) == [more |-> (n \div Pow2[Group]) % 2 = 1, low |-> n % Pow2[Group]]

MaxCharsRoundedDown == Width \div Group  \* deviation: a last partial group is forgotten
GetMaxCharsOfEncodedSize == (Width + Group - 1) \div Group

(* GetLength: one byte, and one more as long as a group is left over. *)
GetLength(n) == 1 + Cardinality({k \in 1 .. Width : n >= Pow2[Group * k]})

Init ==
    /\ pc = "idle"
    /\ given = 0 /\ x = 0 /\ buf = <<>> /\ own = FALSE
    /\ limit = 0 /\ i = 0 /\ value = 0
    /\ answer = NoAnswer

CallEncode(n) ==
    /\ pc = "idle"
    /\ given' = n /\ x' = n
    /\ buf' = <<>> /\ own' = TRUE
    /\ pc' = "encode"
    /\ UNCHANGED <<limit, i, value, answer>>

(* The while loop of Encode. *)
EncodeGroupUnflagged ==  \* deviation: the continuation bit is not set
    /\ pc = "encode"
    /\ x >= Pow2[Group]
    /\ buf' = Append(buf, [more |-> FALSE, low |-> x % Pow2[Group]])
    /\ x' = x \div Pow2[Group]
    /\ UNCHANGED <<pc, given, own, limit, i, value, answer>>

EncodeGroup ==
    /\ pc = "encode"
    /\ x >= Pow2[Group]
    /\ buf' = Append(buf, [more |-> TRUE, low |-> x % Pow2[Group]])
    /\ x' = x \div Pow2[Group]
    /\ UNCHANGED <<pc, given, own, limit, i, value, answer>>

(* The last byte. *)
EncodeLast ==
    /\ pc = "encode"
    /\ x < Pow2[Group]
    /\ buf' = Append(buf, ToByte(x))
    /\ pc' = "encoded"
    /\ UNCHANGED <<given, x, own, limit, i, value, answer>>

(* A buffer that Encode did not write. *)
Receive(b) ==
    /\ pc = "idle"
    /\ buf' = b /\ own' = FALSE
    /\ pc' = "encoded"
    /\ UNCHANGED <<given, x, limit, i, value, answer>>

CallDecode(l) ==
    /\ pc = "encoded"
    /\ limit' = IF l > GetMaxCharsOfEncodedSize THEN GetMaxCharsOfEncodedSize ELSE l
    /\ i' = 0 /\ value' = 0
    /\ pc' = "decode"
    /\ UNCHANGED <<given, x, buf, own, answer>>

(* One byte of Decode.  The 64-bit accumulator is at least as wide as T, so *)
(* what it loses is lost in *x as well.                                     *)
Shifted(b) == value + b.low * Pow2[Group * i]

DecodeMore ==
    /\ pc = "decode"
    /\ i < limit
    /\ buf[i + 1].more
    /\ value' = Shifted(buf[i + 1])
    /\ i' = i + 1
    /\ UNCHANGED <<pc, given, x, buf, own, limit, answer>>

DecodeLast ==
    /\ pc = "decode"
    /\ i < limit
    /\ ~buf[i + 1].more
    /\ value' = Shifted(buf[i + 1])
    /\ answer' = [ok |-> TRUE, int |-> ToT(value'), offset |-> i + 1]
    /\ pc' = "decoded"
    /\ UNCHANGED <<given, x, buf, own, limit, i>>

(* The loop has run out: false, and *x is left alone. *)
DecodeFails ==
    /\ pc = "decode"
    /\ i >= limit
    /\ answer' = NoAnswer
    /\ pc' = "decoded"
    /\ UNCHANGED <<given, x, buf, own, limit, i, value>>

(* The caller looks at the answer and is done with the buffer. *)
Return ==
    /\ pc = "decoded"
    /\ pc' = "idle"
    /\ given' = 0 /\ x' = 0 /\ buf' = <<>> /\ own' = FALSE
    /\ limit' = 0 /\ i' = 0 /\ value' = 0
    /\ answer' = NoAnswer

(* The caller passes a limit within the buffer, or none for a buffer that   *)
(* ends with a last byte or is as long as Decode will read.                 *)
Complete(b) ==
    \/ Len(b) >= GetMaxCharsOfEncodedSize
    \/ \E k \in DOMAIN b : ~b[k].more
Limits == 0 .. Len(buf) \cup (IF Complete(buf) THEN {NoLimit} ELSE {})

Next ==
    \/ \E n \in Ints : CallEncode(n)
    \/ EncodeGroup \/ EncodeLast
    \/ \E b \in Buffers : Receive(b)
    \/ \E l \in Limits : CallDecode(l)
    \/ DecodeMore \/ DecodeLast \/ DecodeFails \/ Return

Spec == Init /\ [][Next]_vars

-----------------------------------------------------------------------------
(* What Encode wrote Decode reads back, the integer and the offset of the   *)
(* next one, whenever the limit covers the encoded length that GetLength    *)
(* announces; with a smaller limit Decode answers false, never a shortened  *)
(* integer.                                                                 *)
RoundTrip ==
    (pc = "decoded" /\ own) =>
        IF limit >= GetLength(given)
        THEN answer = [ok |-> TRUE, int |-> given, offset |-> GetLength(given)]
        ELSE ~answer.ok

(* A buffer of GetMaxCharsOfEncodedSize bytes is large enough for every     *)
(* integer of type T: Encode, which has no limit, never writes beyond it,   *)
(* and it writes as many bytes as GetLength says.                           *)
EncodingFits ==
    own => /\ Len(buf) <= GetMaxCharsOfEncodedSize
           /\ pc = "encoded" => Len(buf) = GetLength(given)

(* "Return false if the maximum int by T exceeds": what Decode accepts is   *)
(* the number the bytes denote.                                             *)
AcceptedFits == (pc = "decoded" /\ answer.ok) => answer.int = value
=============================================================================
