--------------------------- MODULE AbstractInterp ---------------------------
(***************************************************************************)
(* What the Turing engine promises about control flow, with suspension,    *)
(* resumption, time and depth limits, breakpoints and preemption left out: *)
(* an invocation is a stack of (function, cursor) pairs; an instruction    *)
(* that is not a call moves the cursor of the innermost function to the    *)
(* next instruction or, for a goto, just past a label of that name; a call *)
(* of a script function pushes it at its first instruction; a completed    *)
(* native call or a completed script function moves its caller past the    *)
(* call; an error or a termination discards the innermost functions.       *)
(* Everything else the engine does must leave this stack as it is: in      *)
(* particular a suspended invocation resumes at exactly the instruction    *)
(* where it stopped.                                                        *)
(***************************************************************************)
EXTENDS Integers, Sequences

CONSTANTS Funcs, Natives, Body, Entry

VARIABLE astack

Top == astack[Len(astack)]

TopOp == Body[Top.fx][Top.ptr]

TopAtEnd == Top.ptr > Len(Body[Top.fx])

(* The cursors an instruction that is not a call may move to. *)
NextPtrs(fx, o, p) ==
  CASE o.op \in {"Label", "Equation"} -> {p + 1}
    [] o.op = "Goto" -> (IF o.cond THEN {p + 1} ELSE {})
                        \cup {i + 1 : i \in {j \in DOMAIN Body[fx] :
                                Body[fx][j].op = "Label" /\ Body[fx][j].label = o.label}}
    [] o.op = "Function" -> IF o.fn \cap Natives # {} THEN {p + 1} ELSE {}

AStart ==
  /\ astack = <<>>
  /\ astack' = <<[fx |-> Entry, ptr |-> 1]>>

AStep ==
  /\ astack # <<>> /\ ~TopAtEnd
  /\ \E p \in NextPtrs(Top.fx, TopOp, Top.ptr) :
       astack' = [astack EXCEPT ![Len(astack)].ptr = p]

ACall ==
  /\ astack # <<>> /\ ~TopAtEnd /\ TopOp.op = "Function"
  /\ \E n \in TopOp.fn \cap Funcs : astack' = Append(astack, [fx |-> n, ptr |-> 1])

AReturn ==
  /\ astack # <<>> /\ TopAtEnd
  /\ LET rest == SubSeq(astack, 1, Len(astack) - 1) IN
       astack' = IF rest = <<>> THEN <<>>
                 ELSE [rest EXCEPT ![Len(rest)].ptr = @ + 1]

AAbort ==
  \E k \in 0..(Len(astack) - 1) : astack' = SubSeq(astack, 1, k)

AInit == astack = <<>>

ANext == AStart \/ AStep \/ ACall \/ AReturn \/ AAbort

ASpec == AInit /\ [][ANext]_astack

====
