-------------------------------- MODULE Fifo --------------------------------
(***************************************************************************)
(* What a queue promises its concurrent callers: values leave in the order *)
(* in which they came, each once, and a caller is told that the queue is   *)
(* empty only if it was so at some moment of that caller's own attempt.    *)
(***************************************************************************)
EXTENDS Sequences

CONSTANTS Thread, Value, Nothing, None

VARIABLES
    que,   \* the values in the queue, the oldest first
    out,   \* out[t]: what t was told last
    seen   \* seen[t]: the queue was empty at a moment of the attempt of t

Init ==
    /\ que = <<>>
    /\ out = [t \in Thread |-> Nothing]
    /\ seen = [t \in Thread |-> FALSE]

Enqueue ==
    /\ \E v \in Value : que' = Append(que, v)
    /\ UNCHANGED <<out, seen>>

Dequeue(t) ==
    /\ que # <<>>
    /\ out' = [out EXCEPT ![t] = Head(que)]
    /\ que' = Tail(que)
    /\ UNCHANGED seen

SeeEmpty(t) ==
    /\ que = <<>>
    /\ seen' = [seen EXCEPT ![t] = TRUE]
    /\ UNCHANGED <<que, out>>

ReportEmpty(t) ==
    /\ seen[t]
    /\ out' = [out EXCEPT ![t] = None]
    /\ seen' = [seen EXCEPT ![t] = FALSE]
    /\ UNCHANGED que

TryAgain(t) ==
    /\ seen' = [seen EXCEPT ![t] = FALSE]
    /\ UNCHANGED <<que, out>>

Next ==
    \/ Enqueue
    \/ \E t \in Thread : Dequeue(t) \/ SeeEmpty(t) \/ ReportEmpty(t) \/ TryAgain(t)

Spec == Init /\ [][Next]_<<que, out, seen>>
=============================================================================
