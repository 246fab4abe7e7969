---------------------------- MODULE BoundedStack ----------------------------
(***************************************************************************)
(* What LockFreeStack promises: a last-in first-out stack over a fixed     *)
(* number of slots.  A push first reserves a slot, a pop returns its slot  *)
(* only after it has taken the value out of it; both are visible, because  *)
(* a push fails for want of a slot that a slow caller still holds.         *)
(***************************************************************************)
EXTENDS Naturals, Sequences, FiniteSets

CONSTANTS Thread, Value, Capacity

VARIABLES
    stk,   \* the values, the top first
    busy,  \* the threads that hold a slot in transit
    out    \* out[t]: what the last Push or Pop of t reported

vars == <<stk, busy, out>>

Report(t, r) == out' = [out EXCEPT ![t] = r]

Init ==
    /\ stk = <<>>
    /\ busy = {}
    /\ out = [t \in Thread |-> "none"]

Reserve(t) ==
    /\ t \notin busy
    /\ Len(stk) + Cardinality(busy) < Capacity
    /\ busy' = busy \cup {t}
    /\ UNCHANGED <<stk, out>>

PushFails(t) ==
    /\ t \notin busy
    /\ Len(stk) + Cardinality(busy) = Capacity
    /\ Report(t, "full")
    /\ UNCHANGED <<stk, busy>>

Push(t, v) ==
    /\ t \in busy
    /\ stk' = <<v>> \o stk
    /\ busy' = busy \ {t}
    /\ UNCHANGED out

Pop(t) ==
    /\ t \notin busy
    /\ stk # <<>>
    /\ Report(t, Head(stk))
    /\ stk' = Tail(stk)
    /\ busy' = busy \cup {t}

PopFails(t) ==
    /\ t \notin busy
    /\ stk = <<>>
    /\ Report(t, "empty")
    /\ UNCHANGED <<stk, busy>>

Recycle(t) ==
    /\ t \in busy
    /\ busy' = busy \ {t}
    /\ UNCHANGED <<stk, out>>

Next ==
    \E t \in Thread :
        \/ Reserve(t) \/ PushFails(t) \/ Pop(t) \/ PopFails(t) \/ Recycle(t)
        \/ \E v \in Value : Push(t, v)

Spec == Init /\ [][Next]_vars
=============================================================================
