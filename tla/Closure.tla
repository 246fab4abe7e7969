------------------------------ MODULE Closure -------------------------------
(***************************************************************************)
(* Closures of apsara/stone/base: a method or a function of up to seven    *)
(* arguments, the first k of them bound when the closure is made and the   *)
(* other m given to Run.  There is one class for each k and m, which the   *)
(* factories NewClosure and NewPermanentClosure choose by overloading.     *)
(* The closures of NewClosure delete themselves when Run ends, by return   *)
(* or by exception; those of NewPermanentClosure belong to the caller.     *)
(*                                                                         *)
(* The program around them: every thread runs, nests and deletes closures  *)
(* as long as it may, that is, a pointer to a self-deleting closure is     *)
(* given up when it is run.                                                *)
(***************************************************************************)
EXTENDS Naturals, Sequences, FiniteSets

CONSTANTS
    ClosureId,      \* the closures that are made in a behaviour
    ClosureThread,
    Shape,          \* Shape[c]: the pairs <<k, m>> that c is made with
    MaxDepth        \* bound: the closures that a thread runs inside one another

ASSUME ClosureAssumption ==
    /\ IsFiniteSet(ClosureId) /\ IsFiniteSet(ClosureThread)
    /\ MaxDepth \in Nat
    /\ \A c \in ClosureId : \A s \in Shape[c] : s[1] \in 0 .. 7 /\ s[2] \in 0 .. 7 - s[1]

VARIABLES
    closures,   \* closures[c]: the object, or NoClosure
    held,       \* the closures to which the program has a pointer it may use
    frames,     \* frames[t]: the Runs that t is in, the innermost last
    deletions   \* deletions[c]: how often c was deleted

closureVars == <<closures, held, frames, deletions>>

NoClosure == [kind |-> "none", del |-> FALSE, k |-> 0, m |-> 0, mA |-> <<>>]

Unset == <<"unset", 0>>
Position == 1 .. 7

(* The members mA1 to mAk that the constructor sets from its arguments, and *)
(* the parameters of Run, which have the numbers of the arguments they are. *)
BoundArgs(k) == [i \in Position |-> IF i <= k THEN <<"bound", i>> ELSE Unset]
RunArgs(k, m) == [i \in Position |-> IF i \in k + 1 .. k + m THEN <<"run", i>> ELSE Unset]

-----------------------------------------------------------------------------
(* What Run of each class passes to the method or function. *)
MethodClosure_0_0(mA, a) == <<>>
MethodClosure_0_1(mA, a) == <<a[1]>>
MethodClosure_1_0(mA, a) == <<mA[1]>>
MethodClosure_0_2(mA, a) == <<a[1], a[2]>>
MethodClosure_1_1(mA, a) == <<mA[1], a[2]>>
MethodClosure_2_0(mA, a) == <<mA[1], mA[2]>>
MethodClosure_0_3(mA, a) == <<a[1], a[2], a[3]>>
MethodClosure_1_2(mA, a) == <<mA[1], a[2], a[3]>>
MethodClosure_2_1Swapped(mA, a) == <<mA[2], mA[1], a[3]>>  \* deviation: two arguments swapped
MethodClosure_2_1(mA, a) == <<mA[1], mA[2], a[3]>>
MethodClosure_3_0(mA, a) == <<mA[1], mA[2], mA[3]>>
MethodClosure_0_4(mA, a) == <<a[1], a[2], a[3], a[4]>>
MethodClosure_1_3(mA, a) == <<mA[1], a[2], a[3], a[4]>>
MethodClosure_2_2(mA, a) == <<mA[1], mA[2], a[3], a[4]>>
MethodClosure_3_1(mA, a) == <<mA[1], mA[2], mA[3], a[4]>>
MethodClosure_4_0(mA, a) == <<mA[1], mA[2], mA[3], mA[4]>>
MethodClosure_0_5(mA, a) == <<a[1], a[2], a[3], a[4], a[5]>>
MethodClosure_1_4(mA, a) == <<mA[1], a[2], a[3], a[4], a[5]>>
MethodClosure_2_3(mA, a) == <<mA[1], mA[2], a[3], a[4], a[5]>>
MethodClosure_3_2(mA, a) == <<mA[1], mA[2], mA[3], a[4], a[5]>>
MethodClosure_4_1(mA, a) == <<mA[1], mA[2], mA[3], mA[4], a[5]>>
MethodClosure_5_0(mA, a) == <<mA[1], mA[2], mA[3], mA[4], mA[5]>>
MethodClosure_0_6(mA, a) == <<a[1], a[2], a[3], a[4], a[5], a[6]>>
MethodClosure_1_5(mA, a) == <<mA[1], a[2], a[3], a[4], a[5], a[6]>>
MethodClosure_2_4(mA, a) == <<mA[1], mA[2], a[3], a[4], a[5], a[6]>>
MethodClosure_3_3(mA, a) == <<mA[1], mA[2], mA[3], a[4], a[5], a[6]>>
MethodClosure_4_2(mA, a) == <<mA[1], mA[2], mA[3], mA[4], a[5], a[6]>>
MethodClosure_5_1(mA, a) == <<mA[1], mA[2], mA[3], mA[4], mA[5], a[6]>>
MethodClosure_6_0(mA, a) == <<mA[1], mA[2], mA[3], mA[4], mA[5], mA[6]>>
MethodClosure_0_7(mA, a) == <<a[1], a[2], a[3], a[4], a[5], a[6], a[7]>>
MethodClosure_1_6(mA, a) == <<mA[1], a[2], a[3], a[4], a[5], a[6], a[7]>>
MethodClosure_2_5(mA, a) == <<mA[1], mA[2], a[3], a[4], a[5], a[6], a[7]>>
MethodClosure_3_4(mA, a) == <<mA[1], mA[2], mA[3], a[4], a[5], a[6], a[7]>>
MethodClosure_4_3(mA, a) == <<mA[1], mA[2], mA[3], mA[4], a[5], a[6], a[7]>>
MethodClosure_5_2(mA, a) == <<mA[1], mA[2], mA[3], mA[4], mA[5], a[6], a[7]>>
MethodClosure_6_1(mA, a) == <<mA[1], mA[2], mA[3], mA[4], mA[5], mA[6], a[7]>>
MethodClosure_7_0(mA, a) == <<mA[1], mA[2], mA[3], mA[4], mA[5], mA[6], mA[7]>>

FunctionClosure_0_0(mA, a) == <<>>
FunctionClosure_0_1(mA, a) == <<a[1]>>
FunctionClosure_1_0(mA, a) == <<mA[1]>>
FunctionClosure_0_2(mA, a) == <<a[1], a[2]>>
FunctionClosure_1_1(mA, a) == <<mA[1], a[2]>>
FunctionClosure_2_0(mA, a) == <<mA[1], mA[2]>>
FunctionClosure_0_3(mA, a) == <<a[1], a[2], a[3]>>
FunctionClosure_1_2(mA, a) == <<mA[1], a[2], a[3]>>
FunctionClosure_2_1(mA, a) == <<mA[1], mA[2], a[3]>>
FunctionClosure_3_0(mA, a) == <<mA[1], mA[2], mA[3]>>
FunctionClosure_0_4(mA, a) == <<a[1], a[2], a[3], a[4]>>
FunctionClosure_1_3(mA, a) == <<mA[1], a[2], a[3], a[4]>>
FunctionClosure_2_2(mA, a) == <<mA[1], mA[2], a[3], a[4]>>
FunctionClosure_3_1(mA, a) == <<mA[1], mA[2], mA[3], a[4]>>
FunctionClosure_4_0(mA, a) == <<mA[1], mA[2], mA[3], mA[4]>>
FunctionClosure_0_5(mA, a) == <<a[1], a[2], a[3], a[4], a[5]>>
FunctionClosure_1_4(mA, a) == <<mA[1], a[2], a[3], a[4], a[5]>>
FunctionClosure_2_3(mA, a) == <<mA[1], mA[2], a[3], a[4], a[5]>>
FunctionClosure_3_2(mA, a) == <<mA[1], mA[2], mA[3], a[4], a[5]>>
FunctionClosure_4_1(mA, a) == <<mA[1], mA[2], mA[3], mA[4], a[5]>>
FunctionClosure_5_0(mA, a) == <<mA[1], mA[2], mA[3], mA[4], mA[5]>>
FunctionClosure_0_6(mA, a) == <<a[1], a[2], a[3], a[4], a[5], a[6]>>
FunctionClosure_1_5(mA, a) == <<mA[1], a[2], a[3], a[4], a[5], a[6]>>
FunctionClosure_2_4(mA, a) == <<mA[1], mA[2], a[3], a[4], a[5], a[6]>>
FunctionClosure_3_3(mA, a) == <<mA[1], mA[2], mA[3], a[4], a[5], a[6]>>
FunctionClosure_4_2(mA, a) == <<mA[1], mA[2], mA[3], mA[4], a[5], a[6]>>
FunctionClosure_5_1(mA, a) == <<mA[1], mA[2], mA[3], mA[4], mA[5], a[6]>>
FunctionClosure_6_0(mA, a) == <<mA[1], mA[2], mA[3], mA[4], mA[5], mA[6]>>
FunctionClosure_0_7(mA, a) == <<a[1], a[2], a[3], a[4], a[5], a[6], a[7]>>
FunctionClosure_1_6(mA, a) == <<mA[1], a[2], a[3], a[4], a[5], a[6], a[7]>>
FunctionClosure_2_5(mA, a) == <<mA[1], mA[2], a[3], a[4], a[5], a[6], a[7]>>
FunctionClosure_3_4(mA, a) == <<mA[1], mA[2], mA[3], a[4], a[5], a[6], a[7]>>
FunctionClosure_4_3(mA, a) == <<mA[1], mA[2], mA[3], mA[4], a[5], a[6], a[7]>>
FunctionClosure_5_2(mA, a) == <<mA[1], mA[2], mA[3], mA[4], mA[5], a[6], a[7]>>
FunctionClosure_6_1(mA, a) == <<mA[1], mA[2], mA[3], mA[4], mA[5], mA[6], a[7]>>
FunctionClosure_7_0(mA, a) == <<mA[1], mA[2], mA[3], mA[4], mA[5], mA[6], mA[7]>>

(* The classes by arity and by number of bound arguments. *)
MethodCall(mA, a) == <<
    <<MethodClosure_0_0(mA, a)>>,
    <<MethodClosure_0_1(mA, a), MethodClosure_1_0(mA, a)>>,
    <<MethodClosure_0_2(mA, a), MethodClosure_1_1(mA, a), MethodClosure_2_0(mA, a)>>,
    <<MethodClosure_0_3(mA, a), MethodClosure_1_2(mA, a), MethodClosure_2_1(mA, a),
      MethodClosure_3_0(mA, a)>>,
    <<MethodClosure_0_4(mA, a), MethodClosure_1_3(mA, a), MethodClosure_2_2(mA, a),
      MethodClosure_3_1(mA, a), MethodClosure_4_0(mA, a)>>,
    <<MethodClosure_0_5(mA, a), MethodClosure_1_4(mA, a), MethodClosure_2_3(mA, a),
      MethodClosure_3_2(mA, a), MethodClosure_4_1(mA, a), MethodClosure_5_0(mA, a)>>,
    <<MethodClosure_0_6(mA, a), MethodClosure_1_5(mA, a), MethodClosure_2_4(mA, a),
      MethodClosure_3_3(mA, a), MethodClosure_4_2(mA, a), MethodClosure_5_1(mA, a),
      MethodClosure_6_0(mA, a)>>,
    <<MethodClosure_0_7(mA, a), MethodClosure_1_6(mA, a), MethodClosure_2_5(mA, a),
      MethodClosure_3_4(mA, a), MethodClosure_4_3(mA, a), MethodClosure_5_2(mA, a),
      MethodClosure_6_1(mA, a), MethodClosure_7_0(mA, a)>>>>

FunctionCall(mA, a) == <<
    <<FunctionClosure_0_0(mA, a)>>,
    <<FunctionClosure_0_1(mA, a), FunctionClosure_1_0(mA, a)>>,
    <<FunctionClosure_0_2(mA, a), FunctionClosure_1_1(mA, a), FunctionClosure_2_0(mA, a)>>,
    <<FunctionClosure_0_3(mA, a), FunctionClosure_1_2(mA, a), FunctionClosure_2_1(mA, a),
      FunctionClosure_3_0(mA, a)>>,
    <<FunctionClosure_0_4(mA, a), FunctionClosure_1_3(mA, a), FunctionClosure_2_2(mA, a),
      FunctionClosure_3_1(mA, a), FunctionClosure_4_0(mA, a)>>,
    <<FunctionClosure_0_5(mA, a), FunctionClosure_1_4(mA, a), FunctionClosure_2_3(mA, a),
      FunctionClosure_3_2(mA, a), FunctionClosure_4_1(mA, a), FunctionClosure_5_0(mA, a)>>,
    <<FunctionClosure_0_6(mA, a), FunctionClosure_1_5(mA, a), FunctionClosure_2_4(mA, a),
      FunctionClosure_3_3(mA, a), FunctionClosure_4_2(mA, a), FunctionClosure_5_1(mA, a),
      FunctionClosure_6_0(mA, a)>>,
    <<FunctionClosure_0_7(mA, a), FunctionClosure_1_6(mA, a), FunctionClosure_2_5(mA, a),
      FunctionClosure_3_4(mA, a), FunctionClosure_4_3(mA, a), FunctionClosure_5_2(mA, a),
      FunctionClosure_6_1(mA, a), FunctionClosure_7_0(mA, a)>>>>

Passed(o, a) ==
    LET call == IF o.kind = "method" THEN MethodCall(o.mA, a) ELSE FunctionCall(o.mA, a)
    IN  call[o.k + o.m + 1][o.k + 1]

-----------------------------------------------------------------------------
ClosureInit ==
    /\ closures = [c \in ClosureId |-> NoClosure]
    /\ held = {}
    /\ frames = [t \in ClosureThread |-> <<>>]
    /\ deletions = [c \in ClosureId |-> 0]

Live(c) == closures[c] # NoClosure /\ deletions[c] = 0
Running(c) == \E t \in ClosureThread : \E i \in 1 .. Len(frames[t]) : frames[t][i].c = c

Make(c, kind, del, s) ==
    /\ closures[c] = NoClosure
    /\ closures' = [closures EXCEPT ![c] = [kind |-> kind, del |-> del, k |-> s[1], m |-> s[2],
                                            mA |-> BoundArgs(s[1])]]
    /\ held' = held \cup {c}
    /\ UNCHANGED <<frames, deletions>>

NewClosureOfMethod(c, s) == Make(c, "method", TRUE, s)
NewPermanentClosureOfMethod(c, s) == Make(c, "method", FALSE, s)
NewClosureOfFunction(c, s) == Make(c, "function", TRUE, s)
NewPermanentClosureOfFunction(c, s) == Make(c, "function", FALSE, s)

IsAutoDelete(c) == closures[c].del

(* Run enters the method or function; a self-deleting closure is given up. *)
EnterRun(t, c) ==
    frames' = [frames EXCEPT ![t] =
                 Append(@, [c |-> c, args |-> Passed(closures[c],
                                                     RunArgs(closures[c].k, closures[c].m))])]

Run(t, c) ==
    /\ c \in held /\ Len(frames[t]) < MaxDepth
    /\ EnterRun(t, c)
    /\ held' = IF IsAutoDelete(c) THEN held \ {c} ELSE held
    /\ UNCHANGED <<closures, deletions>>

(* The SelfDeleter of a Run is destroyed when the Run ends.  The flag is a  *)
(* template argument: a permanent closure is not touched any more.          *)
SelfDeleterAlways(c) == 1        \* deviation: the flag is ignored
SelfDeleter(c) == IF IsAutoDelete(c) THEN 1 ELSE 0

(* The last j Runs of t end. *)
Unwind(t, j) ==
    LET n == Len(frames[t])
        ended == [c \in ClosureId |-> Cardinality({i \in n - j + 1 .. n : frames[t][i].c = c})]
    IN  /\ frames' = [frames EXCEPT ![t] = SubSeq(@, 1, n - j)]
        /\ deletions' = [c \in ClosureId |-> deletions[c] + ended[c] * SelfDeleter(c)]

Return(t) ==
    /\ frames[t] # <<>>
    /\ Unwind(t, 1)
    /\ UNCHANGED <<closures, held>>

(* An exception leaves j Runs before somebody catches it. *)
Throw(t, j) ==
    /\ j \in 2 .. Len(frames[t])
    /\ Unwind(t, j)
    /\ UNCHANGED <<closures, held>>

(* The program deletes a closure that it may still use, even from inside    *)
(* its Run, which does not use the object after the call.                   *)
Delete(c) ==
    /\ c \in held
    /\ held' = held \ {c}
    /\ deletions' = [deletions EXCEPT ![c] = @ + 1]
    /\ UNCHANGED <<closures, frames>>

NewClosureOf(c, s) ==
    \/ NewClosureOfMethod(c, s) \/ NewPermanentClosureOfMethod(c, s)
    \/ NewClosureOfFunction(c, s) \/ NewPermanentClosureOfFunction(c, s)

ClosureNext ==
    \/ \E c \in ClosureId : \E s \in Shape[c] : NewClosureOf(c, s)
    \/ \E c \in ClosureId : Delete(c) \/ (\E t \in ClosureThread : Run(t, c))
    \/ \E t \in ClosureThread : Return(t) \/ (\E j \in 2 .. MaxDepth : Throw(t, j))

ClosureSpec == ClosureInit /\ [][ClosureNext]_closureVars

-----------------------------------------------------------------------------
(* Whatever the class, the method or function gets the bound arguments in   *)
(* the order of the factory's and then the arguments of Run.                *)
ArgumentsInOrder ==
    \A t \in ClosureThread : \A i \in 1 .. Len(frames[t]) :
        LET o == closures[frames[t][i].c]
        IN  frames[t][i].args = [p \in 1 .. o.k + o.m |-> IF p <= o.k THEN <<"bound", p>>
                                                                      ELSE <<"run", p>>]

(* No closure is deleted twice and none is lost: it exists exactly while    *)
(* the program may use it or, if it deletes itself, while its Run lasts,    *)
(* however Runs nest, throw, or delete the closure they run.                *)
ClosuresDeletedOnce ==
    \A c \in ClosureId :
        /\ deletions[c] <= 1
        /\ closures[c] # NoClosure =>
             (deletions[c] = 0 <=> c \in held \/ (IsAutoDelete(c) /\ Running(c)))
=============================================================================
