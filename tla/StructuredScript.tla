--------------------------- MODULE StructuredScript ---------------------------
(***************************************************************************)
(* What a structured Turing script means, as spec.md section 4.3 states    *)
(* it, independently of how the preprocessor flattens it: the grammar of   *)
(* a function body and a direct interpreter for it.                        *)
(*                                                                         *)
(* A body is the positions lo..hi of a script B of line records (fields k, *)
(* cond, then, n, ext).  Blocks: "if (c)" (not "then") and "loop" open     *)
(* one, "end" closes the innermost, "else" / "else if (c)" separate the    *)
(* arms of an if.  "if (c) then" governs exactly the next statement.       *)
(* Conditions come from an oracle o: the condition on line p is true for   *)
(* its first o[p] evaluations and false afterwards, so a conditional loop  *)
(* runs o[p] times.  The interpreter emits <<p, j>> for the j-th operator  *)
(* block hoisted out of line p and <<p, 0>> for the statement itself.      *)
(***************************************************************************)
EXTENDS Integers, Sequences, SequencesExt, FiniteSets

Opens(l) == l.k = "loop" \/ (l.k = "if" /\ ~l.then)
Simple(l) == l.k \in {"stmt", "member"}
Quiet(l) == l.k \in {"blank", "comment"}
HasCond(l) == l.cond = "group" /\ l.k \in {"if", "else", "loop"}

MinOf(S) == CHOOSE x \in S : \A y \in S : x <= y
MaxOf(S) == CHOOSE x \in S : \A y \in S : x >= y

(* Static structure of the body lo..hi: depth before each line, the "end" *)
(* that closes each opening line (0: none), and what follows from them.   *)
Shape(B, lo, hi) ==
  LET d[p \in lo..hi + 1] ==
        IF p = lo THEN 0
        ELSE d[p - 1] + (IF Opens(B[p - 1]) THEN 1 ELSE 0)
                      - (IF B[p - 1].k = "end" THEN 1 ELSE 0)
      close == [q \in lo..hi |->
                  LET R == {r \in q + 1..hi : B[r].k = "end" /\ d[r] = d[q] + 1}
                  IN IF Opens(B[q]) /\ R # {} THEN MinOf(R) ELSE 0]
      encl == [p \in lo..hi |->
                 {q \in lo..p - 1 : Opens(B[q]) /\ (close[q] = 0 \/ close[q] > p)}]
  IN [lo |-> lo, hi |-> hi, d |-> d, close |-> close, encl |-> encl]

Inner(S, p) == MaxOf(S.encl[p])
LoopsAround(B, S, p) == {q \in S.encl[p] : B[q].k = "loop"}
(* The n-th loop counted outward from line p. *)
NthLoopAround(B, S, p, n) ==
  {q \in LoopsAround(B, S, p) : Cardinality({u \in LoopsAround(B, S, p) : u >= q}) = n}
(* The next "else" or "end" of the if chain an if / else-if at p is in. *)
NextArm(B, S, p) ==
  LET lev == IF B[p].k = "if" THEN S.d[p] + 1 ELSE S.d[p]
  IN MinOf({r \in p + 1..S.hi : B[r].k \in {"else", "end"} /\ S.d[r] = lev})
NextStmt(B, S, p) ==
  LET R == {r \in p + 1..S.hi : ~Quiet(B[r])}
  IN IF R = {} THEN S.hi + 1 ELSE MinOf(R)

(* The grammar of a function body. *)
WellFormedBody(B, lo, hi) ==
  LET S == Shape(B, lo, hi)
  IN /\ \A p \in lo..hi + 1 : S.d[p] >= 0
     /\ S.d[hi + 1] = 0
     /\ \A p \in lo..hi :
          LET l == B[p] IN
          /\ l.k \in {"stmt", "member", "if", "else", "loop", "break",
                      "continue", "exit", "end", "blank", "comment"}
          /\ l.ext >= 0
          /\ l.k = "if" => l.cond = "group"
          /\ l.k \in {"else", "loop"} => l.cond # "word"
          /\ l.k = "else" =>
               /\ S.encl[p] # {}
               /\ B[Inner(S, p)].k = "if"
               /\ \A r \in Inner(S, p) + 1..p - 1 :
                    (B[r].k = "else" /\ S.d[r] = S.d[p]) => B[r].cond = "group"
          /\ l.k \in {"break", "continue"} =>
               l.n >= 1 /\ l.n <= Cardinality(LoopsAround(B, S, p))
          /\ l.k = "if" /\ l.then =>
               /\ NextStmt(B, S, p) <= hi
               /\ B[NextStmt(B, S, p)].k \notin {"if", "else", "loop", "end"}

Temps(p, ext) == [j \in 1..ext |-> <<p, j>>]

(* Evaluate the condition of line p in state st. *)
Eval(st, o, B, p) ==
  [val |-> st.vis[p] < o[p],
   st  |-> [st EXCEPT !.vis[p] = @ + 1, !.out = @ \o Temps(p, B[p].ext)]]

Goto(st, p, mode) == [st EXCEPT !.pc = p, !.mode = mode]

(* Enter the next arm r of an if chain after a false condition. *)
Arm(B, st, r) ==
  IF B[r].k = "end" THEN Goto(st, r + 1, "exec") ELSE Goto(st, r, "test")

(* One step of the direct interpreter. *)
RefStep(B, S, o, st) ==
  LET p == st.pc
      l == B[p]
  IN CASE p > S.hi -> [st EXCEPT !.done = TRUE]
       [] Quiet(l) -> Goto(st, p + 1, "exec")
       [] Simple(l) ->
            [Goto(st, p + 1, "exec") EXCEPT !.out = @ \o Temps(p, l.ext) \o <<<<p, 0>>>>]
       [] l.k = "exit" -> [st EXCEPT !.done = TRUE]
       [] l.k = "if" /\ l.then ->
            LET e == Eval(st, o, B, p)
            IN Goto(e.st, IF e.val THEN p + 1 ELSE NextStmt(B, S, p) + 1, "exec")
       [] l.k = "if" \/ (l.k = "else" /\ st.mode = "test" /\ l.cond = "group") ->
            LET e == Eval(st, o, B, p)
            IN IF e.val THEN Goto(e.st, p + 1, "exec") ELSE Arm(B, e.st, NextArm(B, S, p))
       [] l.k = "else" /\ st.mode = "test" -> Goto(st, p + 1, "exec")
       [] l.k = "else" -> Goto(st, S.close[Inner(S, p)] + 1, "exec")
       [] l.k = "end" ->
            LET opener == CHOOSE q \in S.lo..p - 1 : Opens(B[q]) /\ S.close[q] = p
            IN IF B[opener].k = "loop" THEN Goto(st, opener, "exec")
                                      ELSE Goto(st, p + 1, "exec")
       [] l.k = "loop" /\ l.cond = "none" -> Goto(st, p + 1, "exec")
       [] l.k = "loop" ->
            LET e == Eval(st, o, B, p)
            IN Goto(e.st, IF e.val THEN p + 1 ELSE S.close[p] + 1, "exec")
       [] l.k = "break" ->
            Goto(st, S.close[CHOOSE q \in NthLoopAround(B, S, p, l.n) : TRUE] + 1, "exec")
       [] l.k = "continue" ->
            Goto(st, CHOOSE q \in NthLoopAround(B, S, p, l.n) : TRUE, "exec")

(* The run of the body lo..hi for at most fuel steps. *)
Structured(B, lo, hi, o, fuel) ==
  LET S == Shape(B, lo, hi)
      run[n \in 0..fuel] ==
        IF n = 0 THEN [pc |-> lo, mode |-> "exec", vis |-> [p \in DOMAIN o |-> 0],
                       out |-> <<>>, done |-> FALSE]
        ELSE LET prev == run[n - 1]
             IN IF prev.done THEN prev ELSE RefStep(B, S, o, prev)
  IN run[fuel]

(***************************************************************************)
(* The meaning of flat code: ops are labels, statements and (conditional)  *)
(* jumps to the first label of the name; a jump to a missing label ends    *)
(* the run with an error, as the engine's Goto does.                       *)
(***************************************************************************)
FlatStep(ops, o, st) ==
  LET op == ops[st.pc].l
      to == SelectInSeq(ops, LAMBDA x : x.l.k = "label" /\ x.l.lbl = op.lbl)
      jump == op.csrc = 0 \/ (op.neg # (st.vis[op.csrc] < o[op.csrc]))
      st1 == IF op.k = "goto" /\ op.csrc # 0
               THEN [st EXCEPT !.vis[op.csrc] = @ + 1] ELSE st
  IN CASE st.pc > Len(ops) -> [st EXCEPT !.done = TRUE]
       [] op.k = "stmt" -> [st EXCEPT !.pc = @ + 1, !.out = @ \o <<<<op.src, op.part>>>>]
       [] op.k = "goto" /\ jump /\ to = 0 ->
            [st1 EXCEPT !.done = TRUE, !.out = @ \o <<<<"error", 0>>>>]
       [] op.k = "goto" /\ jump -> [st1 EXCEPT !.pc = to]
       [] OTHER -> [st1 EXCEPT !.pc = @ + 1]

Flat(ops, o, fuel) ==
  LET run[n \in 0..fuel] ==
        IF n = 0 THEN [pc |-> 1, vis |-> [p \in DOMAIN o |-> 0], out |-> <<>>,
                       done |-> FALSE]
        ELSE LET prev == run[n - 1]
             IN IF prev.done THEN prev ELSE FlatStep(ops, o, prev)
  IN run[fuel]

(* Two runs agree: neither has emitted anything the other contradicts,    *)
(* and when both ended they emitted the same.                             *)
Agree(r1, r2) ==
  /\ IsPrefix(r1.out, r2.out) \/ IsPrefix(r2.out, r1.out)
  /\ (r1.done /\ r2.done) => r1.out = r2.out

====
