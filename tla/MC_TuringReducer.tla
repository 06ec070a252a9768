-------------------------- MODULE MC_TuringReducer --------------------------
(***************************************************************************)
(* Inputs for the reducer: n + 1 operands joined by n binary operators.    *)
(* An operand is a word, a negated word ("! x"), a parenthesised group or  *)
(* a call "f (x, x * x)".  Ref is the reference reading: split at the      *)
(* last operator of the loosest level.                                     *)
(***************************************************************************)
EXTENDS TuringReducer, FiniteSets, TLC

MaxOps == 3

(* The precedence hierarchy of spec.md 4.2 (the comment at TuringOps.cpp  *)
(* 84-89), as the reference reads it.                                     *)
RefLevel(o) ==
  CASE o \in {"*", "/", "%"} -> 6
    [] o \in {"+", "-"} -> 5
    [] o = "&" -> 4
    [] o = "==" -> 3
    [] o = "&&" -> 2

Units == {"x", "not", "grp", "call"}
UnitTokens(u) ==
  CASE u = "x" -> <<W("x")>>
    [] u = "not" -> <<Op("!"), W("x")>>
    [] u = "grp" -> <<M(<<W("y"), Op("+"), W("z")>>)>>
    [] u = "call" -> <<W("f"), M(<<W("x"), Op(","), W("y"), Op("*"), W("z")>>)>>
UnitRef(u) ==
  CASE u = "x" -> Leaf("x")
    [] u = "not" -> Un("!", Leaf("x"))
    [] u = "grp" -> Bin("+", Leaf("y"), Leaf("z"))
    [] u = "call" -> Call("f", <<Leaf("x"), Bin("*", Leaf("y"), Leaf("z"))>>)

Tokens(U, O) ==
  UnitTokens(U[1]) \o FoldLeft(LAMBDA acc, j : acc \o <<Op(O[j])>> \o UnitTokens(U[j + 1]),
                               <<>>, [j \in 1..Len(O) |-> j])

MinOf(S) == CHOOSE x \in S : \A y \in S : x <= y
MaxOf(S) == CHOOSE x \in S : \A y \in S : x >= y

RECURSIVE Ref(_, _)
Ref(U, O) ==
  IF O = <<>> THEN UnitRef(U[1])
  ELSE LET lo == MinOf({RefLevel(O[j]) : j \in 1..Len(O)})
           p  == MaxOf({j \in 1..Len(O) : RefLevel(O[j]) = lo})
       IN Bin(O[p], Ref(SubSeq(U, 1, p), SubSeq(O, 1, p - 1)),
                    Ref(SubSeq(U, p + 1, Len(U)), SubSeq(O, p + 1, Len(O))))




(* n + 1 operands joined by n operators of Ops, at most one operand a    *)
(* unit of Us other than a plain word.                                     *)
Shapes(Ops, Us, n) ==
  {<<[j \in 1..n + 1 |-> IF j = p THEN u ELSE "x"], O>> :
     p \in 1..n + 1, u \in Us \cup {"x"}, O \in [1..n -> Ops]}

(* Conditions with a number of operators in Ns, equations "v = ..." and    *)
(* chained equations "v = w = ..." (their operators from ChainOps) with at *)
(* most two of them.                                                        *)
MakeInputs(Ops, ChainOps, Us, Ns) ==
  LET S(K) == UNION {Shapes(Ops, Us, n) : n \in K}
      C(K) == UNION {Shapes(ChainOps, Us, n) : n \in K}
      unk(O) == \E j \in 1..Len(O) : O[j] = "%"
  IN  {[e |-> Tokens(s[1], s[2]), sub |-> TRUE, ref |-> Ref(s[1], s[2]),
        unknown |-> unk(s[2]), valued |-> FALSE] : s \in S(Ns)}
      \cup
      {[e |-> <<W("v"), Op("=")>> \o Tokens(s[1], s[2]), sub |-> FALSE,
        ref |-> Bin("=", Leaf("v"), Ref(s[1], s[2])), unknown |-> unk(s[2]),
        valued |-> FALSE]
         : s \in S(Ns \cap 0..2)}
      \cup
      {[e |-> <<W("v"), Op("="), W("w"), Op("=")>> \o Tokens(s[1], s[2]), sub |-> FALSE,
        ref |-> Bin("=", Leaf("v"), Bin("=", Leaf("w"), Ref(s[1], s[2]))),
        unknown |-> unk(s[2]), valued |-> FALSE]
         : s \in C(Ns \cap 0..2)}

(***************************************************************************)
(* Inputs checked by value: "c ? a : b" as a condition and as the right   *)
(* side of "v = ...", each part a word, the constant 0, a negation, an    *)
(* assignment group "(w = 1)", a call of the unknown function f (which    *)
(* fails when evaluated), a call of Len, a group "(x || y)", or two words *)
(* joined by a logic operator.                                            *)
(***************************************************************************)
Part(u) ==
  CASE u = "x"    -> [e |-> <<W("x")>>, r |-> Leaf("x")]
    [] u = "zero" -> [e |-> <<W("0")>>, r |-> Leaf("0")]
    [] u = "not"  -> [e |-> <<Op("!"), W("y")>>, r |-> Un("!", Leaf("y"))]
    [] u = "set"  -> [e |-> <<M(<<W("w"), Op("="), W("1")>>)>>, r |-> Bin("=", Leaf("w"), Leaf("1"))]
    [] u = "fail" -> [e |-> <<W("f"), M(<<W("x")>>)>>, r |-> Call("f", <<Leaf("x")>>)]
    [] u = "len"  -> [e |-> <<W("Len"), M(<<W("y")>>)>>, r |-> Call("Len", <<Leaf("y")>>)]
    [] u = "grp"  -> [e |-> <<M(<<W("x"), Op("||"), W("y")>>)>>,
                      r |-> Bin("||", Leaf("x"), Leaf("y"))]
    [] u \in {"==", "&&", "|", "!="} -> [e |-> <<W("x"), Op(u), W("y")>>, r |-> Bin(u, Leaf("x"), Leaf("y"))]

PartNames == {"x", "zero", "not", "set", "fail", "len", "grp", "==", "&&", "|", "!="}

Ternary(c, a, b) ==
  [e |-> Part(c).e \o <<Op("?")>> \o Part(a).e \o <<Op(":")>> \o Part(b).e,
   r |-> Cond(Part(c).r, Part(a).r, Part(b).r)]

(* A list t as a condition, and as the right side of "v = ...". *)
Valued(t) ==
  {[e |-> t.e, sub |-> TRUE, ref |-> t.r, unknown |-> FALSE, valued |-> TRUE],
   [e |-> <<W("v"), Op("=")>> \o t.e, sub |-> FALSE, ref |-> Bin("=", Leaf("v"), t.r),
    unknown |-> FALSE, valued |-> TRUE]}

TernaryInputs == UNION {Valued(Ternary(c, a, b)) : c, a, b \in PartNames}

(* x and y start as "", "0" or "a": empty, false and not empty, true. *)
MCEnvs == {("x" :> a @@ "y" :> b @@ "w" :> "" @@ "v" :> "") : a, b \in {"", "0", "a"}}

(* "c ? a : d ? e : f", the else branch a ternary of its own. *)
NestedInputs ==
  UNION {Valued([e |-> Ternary(c, a, d).e \o <<Op("?")>> \o Part(e).e \o <<Op(":")>> \o Part(f).e,
                 r |-> Cond(Part(c).r, Part(a).r, Cond(Part(d).r, Part(e).r, Part(f).r))])
         : c, a, d, e, f \in {"x", "set"}}

(* "x | y" read as the comment at TuringOps.cpp 173 states it: x ? x : y. *)
OrInputs == Valued([e |-> Part("|").e, r |-> Cond(Leaf("x"), Leaf("x"), Leaf("y"))])

Ops == {"*", "+", "-", "&", "==", "&&"}

(* A chained "=" is followed by operators that bind at least as tightly   *)
(* as "=" itself, as in spec.md's "a = b = c + d".                         *)
TightOps == {"*", "+", "-"}

IsChain(r) == ~r.sub /\ Len(r.e) >= 4 /\ r.e[4].w = "="

(* Words, negations and groups with up to MaxOps operators, and calls     *)
(* with at most one operator beside them outside a chained equation.       *)
MCInputs == TernaryInputs \cup MakeInputs(Ops, TightOps, {"not", "grp"}, 0..MaxOps)
            \cup {r \in MakeInputs(Ops, TightOps, {"call"}, 0..1) : ~IsChain(r)}

(* Calls inside longer expressions, where a step down makes the loop      *)
(* visit the reduced call a second time.                                   *)
CallInputs == MakeInputs(Ops, TightOps, {"call"}, 0..MaxOps) \ MCInputs

ModuloInputs == MakeInputs({"%", "=="}, {"%"}, {"not", "grp"}, 0..MaxOps)

(* Chained equations whose right side holds an operator looser than "=".  *)
ChainInputs == {r \in MakeInputs({"*"}, {"&&", "=="}, {}, 0..2) : IsChain(r)}

====
