---------------------------- MODULE TuringReducer ----------------------------
(***************************************************************************)
(* The operator reducer: CTuringParser::OrderEquation (TuringParser.cpp    *)
(* 993-1107) with GetOperatorLevel (TuringOps.cpp 79-102) and              *)
(* CExpressions::SubordinateExp (TuringTypes.cpp 74-90).                   *)
(*                                                                         *)
(* An expression list is a sequence of elements: a word, an operator (a    *)
(* word whose first character is an operator character) or a nested group *)
(* ("m").  Positions are 0-based as in the code: El(e, k) is e[k + 1].     *)
(* The loop of OrderEquation is Step, iterated by Loop until it ends; a    *)
(* nested group is reduced by a recursive call, as in the code.            *)
(***************************************************************************)
EXTENDS Integers, Sequences, SequencesExt

W(x)  == [t |-> "w", w |-> x, m |-> <<>>]
Op(x) == [t |-> "op", w |-> x, m |-> <<>>]
M(g)  == [t |-> "m", w |-> "", m |-> g]

El(e, k) == e[k + 1]
IsExpOp(e, k) == k >= 0 /\ k < Len(e) /\ El(e, k).t = "op"
GetExpStr(e, k) == IF k >= 0 /\ k < Len(e) /\ El(e, k).t # "m" THEN El(e, k).w ELSE ""

(* GetOperatorLevel with the string and comparison levels exchanged.    *)
GetOperatorLevel_Swapped(s) ==
  CASE s \in {"*", "/", "!"} -> 6
    [] s \in {"+", "-", "="} -> 5
    [] s \in {"&", "|"} -> 3
    [] s \in {"==", "!=", "~=", "~~", "<", ">", "<=", ">="} -> 4
    [] s \in {"&&", "||"} -> 2
    [] s \in {":", "?"} -> 1
    [] OTHER -> 0

(* The hierarchy of GetOperatorLevel; anything else is level 0, "not an   *)
(* operator".                                                             *)
GetOperatorLevel(s) ==
  CASE s \in {"*", "/", "!"} -> 6
    [] s \in {"+", "-", "="} -> 5
    [] s \in {"&", "|"} -> 4
    [] s \in {"==", "!=", "~=", "~~", "<", ">", "<=", ">="} -> 3
    [] s \in {"&&", "||"} -> 2
    [] s \in {":", "?"} -> 1
    [] OTHER -> 0

(* Replace the ToGo elements from Index on by one group of them. *)
SubordinateExp(e, Index, ToGo) ==
  IF ToGo = 0 THEN [ok |-> TRUE, e |-> e]
  ELSE IF Index < 0 \/ Index + ToGo > Len(e) THEN [ok |-> FALSE, e |-> e]
  ELSE [ok |-> TRUE,
        e  |-> SubSeq(e, 1, Index) \o <<M(SubSeq(e, Index + 1, Index + ToGo))>>
                 \o SubSeq(e, Index + ToGo + 1, Len(e))]

(* How many operators follow one another from position p on. *)
OpRun(e, p) == CHOOSE k \in 0..Len(e) : (\A q \in p..p + k - 1 : IsExpOp(e, q)) /\ ~IsExpOp(e, p + k)

(* The elements from j up to the next "," (or the end of the list). *)
ArgLen(g, j) == CHOOSE k \in 1..Len(g) + 1 :
                  /\ GetExpStr(g, j + k) = "," \/ j + k >= Len(g)
                  /\ \A q \in 1..k - 1 : GetExpStr(g, j + q) # "," /\ j + q < Len(g)

RECURSIVE OrderEquation(_, _), Loop(_, _), Args(_, _)

(* A group after a word is an argument list (lines 1016-1031): every      *)
(* argument up to a "," becomes a group of its own, reduced as a          *)
(* subordinate expression, and the "," is deleted.                        *)
Args(g, j) ==
  IF j >= Len(g) THEN [ok |-> TRUE, e |-> g]
  ELSE LET s == SubordinateExp(g, j, ArgLen(g, j))
           r == OrderEquation(El(s.e, j).m, TRUE)
           g1 == [s.e EXCEPT ![j + 1] = M(r.e)]
           g2 == IF j + 1 < Len(g1) THEN RemoveAt(g1, j + 2) ELSE g1
       IN IF s.ok /\ r.ok THEN Args(g2, j + 1) ELSE [ok |-> FALSE, e |-> g]

Failed(st) == [st EXCEPT !.ok = FALSE, !.done = TRUE]
Incr(st) == [st EXCEPT !.i = @ + 1]

(* One iteration of the main loop (lines 1005-1091). *)
Step(st, bSub) ==
  LET e == st.e
      i == st.i
      n == Len(e)
      el == El(e, i)
      ExpStr == IF i < n THEN el.w ELSE ""
      Level == GetOperatorLevel(ExpStr)
      back == Last(st.Order)
      ToGo0 == OpRun(e, i + 1) + 2
      Run == IF ToGo0 = n THEN [ix |-> i + 1, togo |-> ToGo0 - 1]
                          ELSE [ix |-> i, togo |-> ToGo0]
      Regroup(s) == IF s.ok THEN [st EXCEPT !.e = s.e] ELSE Failed(st)
      st1 == [st EXCEPT !.Prev = i]
      \* step down: the run at the deeper level becomes one group
      Index == st.Start[back] - 1
      Popped == [st1 EXCEPT !.Order = Front(@)]
      StepUp(s) == IF Level > Last(s.Order)
                     THEN [s EXCEPT !.Order = Append(@, Level), !.Start[Level] = i]
                     ELSE s
  IN CASE i >= n + 1 -> [st EXCEPT !.done = TRUE]
       [] i < n /\ el.t = "m" /\ i > 0 /\ ~IsExpOp(e, i - 1) ->
            LET a == Args(el.m, 0)
            IN IF a.ok THEN Regroup(SubordinateExp([e EXCEPT ![i + 1] = M(a.e)], i - 1, 2))
                      ELSE Failed(st)
       [] i < n /\ el.t = "m" ->
            LET r == OrderEquation(el.m, TRUE)
            IN IF r.ok THEN Incr([st EXCEPT !.e[i + 1] = M(r.e)]) ELSE Failed(st)
       [] i < n /\ el.t # "op" -> Incr(st)
       [] i < (IF bSub THEN 0 ELSE 2) -> Incr(st)
       [] i = st.Prev + 1 /\ Run.togo > 1 -> Regroup(SubordinateExp(e, Run.ix, Run.togo))
       [] i = 0 -> Incr(st1)
       [] Level < 0 -> Failed(st)
       [] Level < back /\ i - Index < n - (IF bSub THEN 0 ELSE 2) ->
            LET s == SubordinateExp(e, Index, i - Index)
            IN IF s.ok THEN [Popped EXCEPT !.e = s.e, !.i = Index] ELSE Failed(st)
       [] Level < back -> Incr(StepUp(Popped))
       [] OTHER -> Incr(StepUp(st1))

(* The loop from st on.  It ends: every step either moves i on or makes  *)
(* the list shorter.                                                      *)
Loop(st, bSub) == IF st.done THEN st ELSE LET nxt == Step(st, bSub) IN Loop(nxt, bSub)

(* The second pass (lines 1094-1104): "a = b = c" becomes "a = (b = c)".  *)
Chain(e0, i0) ==
  LET run[k \in 0..Len(e0)] ==
        IF k = 0 THEN e0
        ELSE LET e == run[k - 1]
                 i == i0 + k - 1
             IN IF i < Len(e) /\ El(e, i).t # "m" /\ i > 0 /\ El(e, i).w = "="
                  THEN SubordinateExp(e, i - 1, Len(e) - (i - 1)).e ELSE e
  IN run[Len(e0)]

OrderEquation(e, bSub) ==
  LET e0 == IF ~bSub /\ Len(e) > 3 /\ GetExpStr(e, 1) = "="
              THEN SubordinateExp(e, 2, Len(e) - 2).e ELSE e
      st == Loop([e |-> e0, i |-> 0, Prev |-> IF bSub THEN -1 ELSE 1,
                  Order |-> <<0>>, Start |-> [l \in 0..6 |-> 0],
                  ok |-> TRUE, done |-> FALSE], bSub)
  IN IF st.ok THEN [ok |-> TRUE, e |-> Chain(st.e, IF bSub THEN 0 ELSE 2)]
              ELSE [ok |-> FALSE, e |-> e]

(***************************************************************************)
(* How CTuringEngine::DoEquation (TuringEngine.cpp 307-435) reads a list:  *)
(* left to right, each operator applied to the accumulator and the next    *)
(* operand.  An operand is a word, a group, or a word followed by a group  *)
(* (a call, every argument a group); a group "w = ..." assigns to w; an    *)
(* operator first in a group is applied to the following operand alone.    *)
(* The result is the expression tree the evaluation computes.              *)
(***************************************************************************)
Leaf(x) == [k |-> "leaf", w |-> x]
Bin(o, a, b) == [k |-> "bin", op |-> o, a |-> a, b |-> b]
Un(o, a) == [k |-> "un", op |-> o, a |-> a]
Call(f, args) == [k |-> "call", w |-> f, args |-> args]
Bad == [k |-> "bad"]

RECURSIVE Denote(_), Operand(_, _), Fold(_, _, _), GroupOperand(_)

Operand(g, k) ==
  CASE k > Len(g) -> [v |-> Bad, next |-> k]
    [] g[k].t = "m" -> [v |-> GroupOperand(g[k].m), next |-> k + 1]
    [] g[k].t = "op" -> [v |-> Bad, next |-> k]
    [] k < Len(g) /\ g[k + 1].t = "m" ->
         [v |-> Call(g[k].w, [j \in 1..Len(g[k + 1].m) |->
                               IF g[k + 1].m[j].t = "m" THEN Denote(g[k + 1].m[j].m) ELSE Bad]),
          next |-> k + 2]
    [] OTHER -> [v |-> Leaf(g[k].w), next |-> k + 1]

Fold(g, k, acc) ==
  IF k > Len(g) THEN acc
  ELSE IF g[k].t # "op" THEN Bad
  ELSE LET o == Operand(g, k + 1) IN Fold(g, o.next, Bin(g[k].w, acc, o.v))

(* A group evaluated into a temporary. *)
Denote(g) ==
  IF Len(g) > 0 /\ g[1].t = "op"
    THEN LET o == Operand(g, 2) IN Fold(g, o.next, Un(g[1].w, o.v))
    ELSE LET o == Operand(g, 1) IN Fold(g, o.next, o.v)

(* A group as an operand: "(w = ...)" assigns to the variable w. *)
GroupOperand(h) ==
  IF Len(h) >= 3 /\ h[1].t = "w" /\ h[2].t = "op" /\ h[2].w = "="
    THEN LET o == Operand(h, 3) IN Bin("=", Leaf(h[1].w), Fold(h, o.next, o.v))
    ELSE Denote(h)

(* A whole equation line: the first word is the accumulator itself. *)
DenoteStatement(g) == IF Len(g) > 1 /\ g[1].t = "w" THEN Fold(g, 2, Leaf(g[1].w)) ELSE Bad

(***************************************************************************)
(* The values DoEquation computes.  A value is a text of the set the      *)
(* inputs use: "", "0", "1", "a", "true" and "false", which the logic      *)
(* operators keep closed.  A result is [rc, v, env]: the status, the       *)
(* accumulator, and the variables as they are afterwards; rc is "ok",     *)
(* "syntax" (FX_ERR_SYNTAX) or "argument" (FX_ERR_ARGUMENT).               *)
(***************************************************************************)
Ok(v, env) == [rc |-> "ok", v |-> v, env |-> env]
Fail(rc, env) == [rc |-> rc, v |-> "", env |-> env]

(* IsFalse (TuringOps.cpp 22-33) on these texts: the empty text, "false", *)
(* and "0", whose first character is '0' and whose number is 0.          *)
IsFalse(s) == s \in {"", "false", "0"}

Bool(b) == IF b THEN "true" ELSE "false"

(* DoOperation (TuringOps.cpp 139-176 and 220-250): the generic and the    *)
(* logic operators.  The arithmetic and numeric comparisons print through *)
(* double2wstring, and "~=" and "~~" call CompareStr and wildcmpex, none  *)
(* of which is in the repository; they are not among the value inputs.    *)
DoOperation(a, o, b) ==
  CASE o = "="  -> [rc |-> "ok", v |-> b]
    [] o = "==" -> [rc |-> "ok", v |-> Bool(a = b)]
    [] o = "!=" -> [rc |-> "ok", v |-> Bool(a # b)]
    [] o = "&"  -> [rc |-> "ok", v |-> a \o b]
    [] o = "|"  -> [rc |-> "ok", v |-> IF a = "" THEN b ELSE a]
    [] o = "!"  -> [rc |-> "ok", v |-> Bool(IsFalse(b))]
    [] o = "&&" -> [rc |-> "ok", v |-> Bool(~IsFalse(a) /\ ~IsFalse(b))]
    [] o = "||" -> [rc |-> "ok", v |-> Bool(~IsFalse(a) \/ ~IsFalse(b))]
    [] o \notin {"*", "+", "-", "/", "%", "<", "<=", ">", ">=", "~=", "~~"} ->
         [rc |-> "syntax", v |-> a]

(* The text of Len(a) for the texts above. *)
LenText == [t \in {"", "0", "1", "a", "true", "false"} |->
              CASE t = "" -> "0" [] t \in {"0", "1", "a"} -> "1"
                [] t = "true" -> "4" [] t = "false" -> "5"]

(* DoFunction (TuringOps.cpp 304-322): Len, and the string functions     *)
(* before it, which call Strings.h helpers outside the repository.        *)
DoFunction(f, args) ==
  IF f = "Len" /\ Len(args) >= 1 THEN [rc |-> "ok", v |-> LenText[args[1]]]
  ELSE [rc |-> "syntax", v |-> ""]

(* GetVariable (TuringEngine.cpp 66-102) for plain names: a leading digit, *)
(* true or false is a constant; any other name is a variable, created     *)
(* empty when missing (env holds every variable of the inputs).           *)
Literals == {"0", "1", "true", "false"}
GetVariable(w, env) == IF w \in Literals THEN w ELSE env[w]

NoVar == "<temp>"

(* *Accumulator is the variable tgt itself when DoEquation was given one. *)
Sync(tgt, v, env) == IF tgt \in DOMAIN env THEN [env EXCEPT ![tgt] = v] ELSE env

RECURSIVE EqLoop(_, _, _, _, _, _), EqOperand(_, _, _, _, _, _),
          EqApply(_, _, _, _, _, _, _), EqArgs(_, _, _, _)

(* DoEquation with an accumulator (lines 317-318): Operator "=", Counter 0. *)
Evaluate(h, tgt, env) ==
  EqLoop(h, 0, "=", IF tgt = NoVar THEN "" ELSE GetVariable(tgt, env), tgt, env)

(* Mutant: the false branch of "?" looks for ":" one element too early. *)
EqLoop_ColonAt(g, c, o, acc, tgt, env) ==
  CASE o = "?" /\ IsFalse(acc) ->
         IF GetExpStr(g, c) # ":" THEN Fail("syntax", env)
         ELSE EqLoop(g, c + 1, "=", acc, tgt, env)
    [] o = "?" -> EqOperand(g, c, "=", acc, tgt, env)
    [] o = ":" -> IF GetExpStr(g, c + 1) # "" THEN Fail("syntax", env) ELSE Ok(acc, env)
    [] OTHER -> EqOperand(g, c, o, acc, tgt, env)

(* The head of the for(;;) loop (lines 338-356): "?" goes on with "=" when *)
(* the accumulator is true, or skips the operand after it and expects ":"; *)
(* ":" skips the operand after it and expects the end.                     *)
EqLoop(g, c, o, acc, tgt, env) ==
  CASE o = "?" /\ IsFalse(acc) ->
         IF GetExpStr(g, c + 1) # ":" THEN Fail("syntax", env)
         ELSE EqLoop(g, c + 2, "=", acc, tgt, env)
    [] o = "?" -> EqOperand(g, c, "=", acc, tgt, env)
    [] o = ":" -> IF GetExpStr(g, c + 1) # "" THEN Fail("syntax", env) ELSE Ok(acc, env)
    [] OTHER -> EqOperand(g, c, o, acc, tgt, env)

(* Lines 358-425: the operand at Counter.  A group "(w = ...)" evaluates  *)
(* into the variable w, any other group into a temporary; an operator is  *)
(* allowed first only; a word before a group is a call; a word is read.   *)
EqOperand(g, c, o, acc, tgt, env) ==
  IF c >= Len(g) THEN Fail("argument", env)
  ELSE LET x == El(g, c)
           Then(r, next) == IF r.rc # "ok" THEN Fail(r.rc, r.env)
                            ELSE EqApply(g, next, o, acc, r.v, tgt, r.env)
       IN CASE x.t = "m" /\ GetExpStr(x.m, 1) = "=" ->
                 IF x.m[1].t # "w" THEN Fail("syntax", env)
                 ELSE Then(Evaluate(x.m, x.m[1].w, env), c + 1)
            [] x.t = "m" -> Then(Evaluate(x.m, NoVar, env), c + 1)
            [] x.t = "op" -> IF c = 0 THEN EqLoop(g, 1, x.w, acc, tgt, env)
                             ELSE Fail("syntax", env)
            [] c + 1 < Len(g) /\ El(g, c + 1).t = "m" ->
                 LET a == EqArgs(El(g, c + 1).m, 0, <<>>, env)
                     f == DoFunction(x.w, a.v)
                 IN IF a.rc # "ok" THEN Fail(a.rc, a.env)
                    ELSE Then([rc |-> f.rc, v |-> f.v, env |-> a.env], c + 2)
            [] OTHER -> Then(Ok(GetVariable(x.w, env), env), c + 1)

(* Lines 399-409: each argument is a group, evaluated into a temporary. *)
EqArgs(m, i, vals, env) ==
  IF i >= Len(m) THEN [rc |-> "ok", v |-> vals, env |-> env]
  ELSE IF m[i + 1].t # "m" THEN [rc |-> "argument", v |-> vals, env |-> env]
  ELSE LET r == Evaluate(m[i + 1].m, NoVar, env)
       IN IF r.rc # "ok" THEN [rc |-> r.rc, v |-> vals, env |-> r.env]
          ELSE EqArgs(m, i + 1, Append(vals, r.v), r.env)

(* Lines 430-441: DoOperation into the accumulator, then the next element *)
(* must be an operator, or the list ends.                                 *)
EqApply(g, c, o, acc, b, tgt, env) ==
  LET d == DoOperation(acc, o, b)
      env1 == Sync(tgt, d.v, env)
  IN CASE d.rc # "ok" -> Fail(d.rc, env)
       [] c >= Len(g) -> Ok(d.v, env1)
       [] El(g, c).t # "op" -> Fail("syntax", env1)
       [] OTHER -> EqLoop(g, c + 1, El(g, c).w, d.v, tgt, env1)

(* A whole equation line (lines 319-331): the first word is the variable *)
(* the accumulator is, the second element the first operator.            *)
EvaluateStatement(g, env) ==
  CASE Len(g) = 0 \/ IsExpOp(g, 0) -> Fail("syntax", env)
    [] El(g, 0).t = "m" -> Fail("argument", env)
    [] OTHER -> EqLoop(g, 2, GetExpStr(g, 1), GetVariable(El(g, 0).w, env), El(g, 0).w, env)

(***************************************************************************)
(* The reducer is checked on each of a set of inputs: a record with the    *)
(* flat list e as GetExpressions yields it, sub (a subordinate group, as a *)
(* goto condition, or a whole equation line), ref (the tree precedence     *)
(* gives it) and unknown (it holds an operator outside the hierarchy).     *)
(***************************************************************************)
CONSTANTS
  Inputs,   \* the inputs, as above
  Envs      \* the variables' values an equation may start from

VARIABLES
  input,    \* the input under check
  reduced   \* what OrderEquation makes of it

vars == <<input, reduced>>

Init == /\ input \in Inputs
        /\ reduced = OrderEquation(input.e, input.sub)
Next == UNCHANGED vars
Spec == Init /\ [][Next]_vars

Reduced == reduced
Meaning(r) == IF input.sub THEN Denote(r.e) ELSE DenoteStatement(r.e)

(* A list holding a ternary is checked by the values it computes. *)
Cond(c, a, b) == [k |-> "cond", c |-> c, a |-> a, b |-> b]

(* Evaluation of a tree as spec.md 4.5 describes it: operands left to    *)
(* right, "w = x" writing w, and "c ? a : b" evaluating c and then only  *)
(* the branch it selects (spec.md 77, 103).                              *)
RECURSIVE RefEval(_, _), RefArgs(_, _, _)
RefArgs(as, i, env) ==
  IF i > Len(as) THEN [rc |-> "ok", v |-> <<>>, env |-> env]
  ELSE LET r == RefEval(as[i], env)
           rest == RefArgs(as, i + 1, r.env)
       IN IF r.rc # "ok" THEN [rc |-> r.rc, v |-> <<>>, env |-> r.env]
          ELSE [rest EXCEPT !.v = <<r.v>> \o @]
RefEval(t, env) ==
  CASE t.k = "leaf" -> Ok(GetVariable(t.w, env), env)
    [] t.k = "cond" ->
         LET c == RefEval(t.c, env)
         IN IF c.rc # "ok" THEN c
            ELSE RefEval(IF IsFalse(c.v) THEN t.b ELSE t.a, c.env)
    [] t.k = "bin" /\ t.op = "=" /\ t.a.k = "leaf" ->
         LET r == RefEval(t.b, env)
         IN IF r.rc # "ok" THEN r ELSE Ok(r.v, Sync(t.a.w, r.v, r.env))
    [] t.k = "bin" ->
         LET a == RefEval(t.a, env)
             b == RefEval(t.b, a.env)
             d == DoOperation(a.v, t.op, b.v)
         IN CASE a.rc # "ok" -> a [] b.rc # "ok" -> b
              [] OTHER -> [rc |-> d.rc, v |-> d.v, env |-> b.env]
    [] t.k = "un" ->
         LET a == RefEval(t.a, env) d == DoOperation("", t.op, a.v)
         IN IF a.rc # "ok" THEN a ELSE [rc |-> d.rc, v |-> d.v, env |-> a.env]
    [] t.k = "call" ->
         LET a == RefArgs(t.args, 1, env) f == DoFunction(t.w, a.v)
         IN IF a.rc # "ok" THEN a ELSE [rc |-> f.rc, v |-> f.v, env |-> a.env]

(* The value of a failed evaluation is not looked at. *)
Norm(r) == IF r.rc = "ok" THEN r ELSE [r EXCEPT !.v = ""]

Computed(env) == IF input.sub THEN Evaluate(reduced.e, NoVar, env)
                 ELSE EvaluateStatement(reduced.e, env)

(* Reducing a list and evaluating it as DoEquation does computes the tree *)
(* of precedence climbing: higher levels bind tighter, equal levels       *)
(* associate to the left, a chained "=" to the right (spec.md 4.2).       *)
ReducesByPrecedence ==
  ~input.unknown /\ ~input.valued => Reduced.ok /\ Meaning(Reduced) = input.ref

(* An operator token outside the precedence hierarchy makes the reduction *)
(* fail (spec.md 4.2: "an unrecognized operator token fails the whole     *)
(* compile"); GetOperatorLevel gives it level 0.                          *)
RejectsUnknownOperator == input.unknown => ~Reduced.ok

(* A condition, a group or an equation line holding "c ? a : b" computes, *)
(* from every starting value of the variables, what the evaluation above  *)
(* does: the same status, value and variables.  The untaken branch is not *)
(* evaluated, so its calls cannot fail the line and its assignments are   *)
(* not made.  This is what DoEquation's skips over "?" and ":" (lines     *)
(* 338-356) must give, for the lists OrderEquation leaves.               *)
TernaryShortCircuits ==
  input.valued => \A env \in Envs : Norm(Computed(env)) = Norm(RefEval(input.ref, env))

====
