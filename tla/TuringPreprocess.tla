--------------------------- MODULE TuringPreprocess ---------------------------
(***************************************************************************)
(* CTuringParser::PreprocessScript and CompileScript (TuringParser.cpp).   *)
(* The preprocessor walks the script's lines once, front to back.  Lines   *)
(* it generates (jumps, labels, hoisted temporaries, the "end" of a        *)
(* single-line "then") are inserted into ScriptLines at the cursor and     *)
(* walked again by the same loop, so a rewrite is itself preprocessed.     *)
(*                                                                         *)
(* A line is abstracted to what GetWord/GetExpressions make of it: its     *)
(* kind (the first word), whether it carries the "?" break marker and      *)
(* whether that marker is indented, the shape of its condition, the count  *)
(* of a break/continue, and the number of bracketed operator blocks that   *)
(* ExtractBlock hoists out of it (ext; -1 is an unbalanced bracket).       *)
(* Text, names and comments are left out: labels are <<kind, counter>>.    *)
(***************************************************************************)
EXTENDS Integers, Sequences, SequencesExt, TLC, StructuredScript

CONSTANTS
  Scripts,     \* the scripts to load, as sequences of source lines
  Names,       \* names of functions and data blocks
  MaxLines,    \* bound on ScriptLines; no run of the code comes near it
  MaxTrue,     \* a condition is true for at most its first MaxTrue evaluations
  RefFuel,     \* steps of the structured run compared
  FlatFuel     \* steps of the flat run compared

VARIABLES
  ScriptLines, \* the line vector the loop walks and rewrites
  i,           \* the loop cursor (1-based)
  iLine,       \* source line number given to the next block
  Added,       \* inserted lines still to walk (they keep iLine)
  ThenMod,     \* countdown of the single-line "then" line fix-ups
  Counter,     \* unique number for if/loop labels
  Block,       \* STuringBlock chain: Block[Len(Block)] is pCurBlock
  Res,         \* the data block being captured, or "none"
  ResMap,      \* m_ResMap: data block name -> captured source lines
  ScriptBlocks,\* the blocks handed to CompileScript
  FxMap,       \* m_FxMap: function name -> compiled ops
  Fx,          \* CompileScript's current function, or "none"
  cx,          \* CompileScript's cursor over ScriptBlocks
  source,      \* the script being loaded (constant during a load)
  pc           \* "run", then "ok", "fail", or "ub" (undefined behaviour)

vars == <<ScriptLines, i, iLine, Added, ThenMod, Counter, Block, Res,
          ResMap, ScriptBlocks, FxMap, Fx, cx, source, pc>>

Kinds == {"blank", "comment", "fbegin", "fend", "dbegin", "dend", "stmt",
          "member", "lexbad", "if", "else", "loop", "break", "continue",
          "exit", "end", "goto", "label", "bad"}
Keywords == {"if", "else", "loop", "break", "continue", "exit", "end"}
LabelKinds == {"end_if", "end_else", "loop", "end_loop", "eof", "none"}

(* A line: src is the source line it stems from; cond is "none" (no      *)
(* second expression), "group" (a parenthesised one) or "word"; for an   *)
(* "else" a condition means "else if"; lbl/csrc/neg describe a jump.     *)
Line == [k: Kinds, src: Nat, mark: BOOLEAN, ind: BOOLEAN, begin: BOOLEAN,
         cond: {"none", "group", "word"}, then: BOOLEAN, n: Int,
         ext: Int, part: Nat, name: Names \cup {"none"},
         lbl: LabelKinds \X Nat, csrc: Nat, neg: BOOLEAN, this: BOOLEAN]

SL(k) == [k |-> k, src |-> 0, mark |-> FALSE, ind |-> FALSE, begin |-> FALSE,
          cond |-> "none", then |-> FALSE, n |-> 1, ext |-> 0, part |-> 0,
          name |-> "none", lbl |-> <<"none", 0>>, csrc |-> 0, neg |-> FALSE,
          this |-> FALSE]

(* Lines the loop generates. *)
Label(l, src) == [SL("label") EXCEPT !.lbl = l, !.src = src]
Jump(l, src) == [SL("goto") EXCEPT !.lbl = l, !.src = src]
(* "goto !(<cond>) <l>", carrying the "?" marker of the line it stems    *)
(* from and the operator blocks of its condition.                        *)
CondJump(l, ln) == [SL("goto") EXCEPT !.lbl = l, !.src = ln.src, !.neg = TRUE,
                      !.csrc = ln.src, !.mark = ln.mark, !.ext = ln.ext]

(* A block of ScriptBlocks: the line, with the line number it was given. *)
SBlock(ln, line, brk) == [l |-> [ln EXCEPT !.mark = brk], line |-> line]

NoBlock == [eType |-> "eNone", Name |-> "none", Ends |-> <<>>]

Source(s) == [p \in 1..Len(s) |-> [s[p] EXCEPT !.src = p]]

Init ==
  /\ source \in Scripts
  /\ ScriptLines = Source(source)
  /\ i = 1 /\ iLine = 0 /\ Added = 0 /\ ThenMod = 0 /\ Counter = 1
  /\ Block = <<NoBlock>>
  /\ Res = "none" /\ ResMap = <<>> /\ ScriptBlocks = <<>> /\ FxMap = <<>>
  /\ Fx = "none" /\ cx = 1
  /\ pc = "run"

(***************************************************************************)
(* The head of every iteration (lines 389-402): an inserted line keeps the *)
(* line number, a script line takes the next one; ThenMod then corrects    *)
(* the numbers around a single-line "then".                                *)
(***************************************************************************)
Counted_NoFloor ==
  LET a == IF Added > 0 THEN Added - 1 ELSE Added
      l == IF Added > 0 THEN iLine ELSE iLine + 1
  IN [Added   |-> a + (IF ThenMod = 4 THEN 1 ELSE 0),
      iLine   |-> l - (IF ThenMod = 2 THEN 1 ELSE 0)
                    + (IF ThenMod = 1 THEN 1 ELSE 0),
      ThenMod |-> ThenMod - 1]

Counted ==
  LET a == IF Added > 0 THEN Added - 1 ELSE Added
      l == IF Added > 0 THEN iLine ELSE iLine + 1
  IN [Added   |-> a + (IF ThenMod = 4 THEN 1 ELSE 0),
      iLine   |-> l - (IF ThenMod = 2 THEN 1 ELSE 0)
                    + (IF ThenMod = 1 THEN 1 ELSE 0),
      ThenMod |-> IF ThenMod > 0 THEN ThenMod - 1 ELSE 0]

Cur == ScriptLines[i]
Top == Block[Len(Block)]
Walking == pc = "run" /\ i <= Len(ScriptLines)

(* Take the head of the iteration and walk on to line next. *)
Advance(next) ==
  /\ iLine' = Counted.iLine /\ ThenMod' = Counted.ThenMod
  /\ i' = next

Fail ==
  /\ pc' = "fail"
  /\ UNCHANGED <<ScriptLines, i, iLine, Added, ThenMod, Counter, Block, Res,
                 ResMap, ScriptBlocks, FxMap, Fx, cx, source>>

(* An empty line or one starting with a comment is passed over. *)
SkipLine ==
  /\ Walking /\ Cur.k \in {"blank", "comment"}
  /\ Advance(i + 1) /\ Added' = Counted.Added
  /\ UNCHANGED <<ScriptLines, Counter, Block, Res, ResMap, ScriptBlocks,
                 FxMap, Fx, cx, source, pc>>

(***************************************************************************)
(* The switch on pCurBlock->eType (lines 412-475).                         *)
(***************************************************************************)

(* Outside a function "Function <name> Begin" opens one; the line itself  *)
(* then goes on as a statement and becomes a block.                       *)
OpenFunction ==
  /\ Walking /\ Top.eType = "eNone" /\ Cur.k = "fbegin"
  /\ Block' = [Block EXCEPT ![Len(Block)] = [@ EXCEPT !.eType = "eFunction",
                                                     !.Name = Cur.name]]
  /\ ScriptBlocks' = Append(ScriptBlocks, SBlock(Cur, Counted.iLine, FALSE))
  /\ Advance(i + 1) /\ Added' = Counted.Added
  /\ UNCHANGED <<ScriptLines, Counter, Res, ResMap, FxMap, Fx, cx, source, pc>>

(* "Data <name> Begin" opens a data block, unless the name is taken; the  *)
(* line is erased.                                                        *)
OpenData ==
  /\ Walking /\ Top.eType = "eNone" /\ Cur.k = "dbegin"
  /\ IF Cur.name \in DOMAIN ResMap
       THEN Fail
       ELSE /\ ResMap' = ResMap @@ (Cur.name :> <<>>)
            /\ Res' = Cur.name
            /\ Block' = [Block EXCEPT ![Len(Block)] =
                           [@ EXCEPT !.eType = "eData", !.Name = Cur.name]]
            /\ ScriptLines' = RemoveAt(ScriptLines, i)
            /\ Advance(i) /\ Added' = Counted.Added
            /\ UNCHANGED <<Counter, ScriptBlocks, FxMap, Fx, cx, source, pc>>

(* Any other line outside a function must still read "<word> <name>      *)
(* Begin"; if it does not, loading fails.                                 *)
NotABegin ==
  /\ Walking /\ Top.eType = "eNone"
  /\ Cur.k \notin {"blank", "comment", "fbegin", "dbegin"} /\ ~Cur.begin
  /\ Fail

(* "Function End" closes the function: an "eof:" label is inserted before *)
(* it, and both become blocks.                                            *)
CloseFunction ==
  /\ Walking /\ Top.eType = "eFunction" /\ Cur.k = "fend"
  /\ ScriptLines' = InsertAt(ScriptLines, i, Label(<<"eof", 0>>, Cur.src))
  /\ ScriptBlocks' = ScriptBlocks \o
                       << SBlock(Label(<<"eof", 0>>, Cur.src), Counted.iLine, FALSE),
                          SBlock(Cur, Counted.iLine, Cur.mark) >>
  /\ Block' = [Block EXCEPT ![Len(Block)].eType = "eNone"]
  /\ Advance(i + 2) /\ Added' = Counted.Added
  /\ UNCHANGED <<Counter, Res, ResMap, FxMap, Fx, cx, source, pc>>

(* Inside a data block every line that got past the empty/comment check  *)
(* is erased; all but "Data End" are captured into the block's line list. *)
DataLine ==
  /\ Walking /\ Top.eType = "eData" /\ Cur.k \notin {"blank", "comment"}
  /\ IF Cur.k = "dend"
       THEN /\ Res' = "none"
            /\ Block' = [Block EXCEPT ![Len(Block)].eType = "eNone"]
            /\ UNCHANGED ResMap
       ELSE /\ ResMap' = [ResMap EXCEPT ![Res] = Append(@, Cur.src)]
            /\ UNCHANGED <<Res, Block>>
  /\ ScriptLines' = RemoveAt(ScriptLines, i)
  /\ Advance(i) /\ Added' = Counted.Added
  /\ UNCHANGED <<Counter, ScriptBlocks, FxMap, Fx, cx, source, pc>>

(***************************************************************************)
(* A line inside a function (lines 477-733).  A "?" marker that is a word  *)
(* of its own makes the line break-marked and is erased with               *)
(* Line.erase(0,1): that removes the marker only when it is the first      *)
(* character; after an indentation it stays, and the line's first          *)
(* expression becomes the operator "?" (a "bad" line).                     *)
(***************************************************************************)
InBody ==
  \/ Top.eType \in {"eIf", "eElse", "eLoop"}
  \/ Top.eType = "eFunction" /\ Cur.k # "fend"
  \/ Top.eType = "eNone" /\ Cur.begin /\ Cur.k \notin {"fbegin", "dbegin"}

Word == IF Cur.mark /\ Cur.ind THEN "bad" ELSE Cur.k

BodyLine == Walking /\ InBody /\ Cur.k \notin {"blank", "comment"}

(* GetExpressions fails on an unclosed string or bracket. *)
LexError ==
  /\ BodyLine /\ Word = "lexbad"
  /\ Fail

Rewrite(R, added) ==
  /\ ScriptLines' = ReplaceSubSeqAt(i, R, <<Cur>>, ScriptLines)
  /\ Advance(i) /\ Added' = added + Len(R)

(* ExtractBlock's rewrite of the line itself, its blocks replaced by the  *)
(* temporaries' names.                                                    *)
Rewritten(ln) == [ln EXCEPT !.ext = 0]

(* ExtractBlock's temporaries for the line: "tmp_var_<n> = <block>".      *)
Hoisted(ln) == [j \in 1..ln.ext |-> [SL("stmt") EXCEPT !.src = ln.src, !.part = j]]

(* A statement that is not a control word.  ExtractBlock hoists its       *)
(* operator blocks into temporaries inserted before the rewritten line;   *)
(* a line with nothing to hoist becomes a block.                          *)
Statement ==
  /\ BodyLine /\ Word \notin Keywords \cup {"member", "lexbad"}
  /\ CASE Cur.ext < 0 -> Fail
       [] Cur.ext > 0 ->
            /\ Rewrite(Hoisted(Cur) \o <<Rewritten(Cur)>>, Counted.Added)
            /\ UNCHANGED <<Counter, Block, Res, ResMap, ScriptBlocks, FxMap, Fx, cx,
                           source, pc>>
       [] OTHER ->
            /\ ScriptBlocks' = Append(ScriptBlocks,
                                 SBlock([Cur EXCEPT !.k = Word], Counted.iLine, Cur.mark))
            /\ Advance(i + 1) /\ Added' = Counted.Added
            /\ UNCHANGED <<ScriptLines, Counter, Block, Res, ResMap, FxMap, Fx, cx,
                           source, pc>>

(* "obj.member (args)" is rewritten to "[obj.member] (args, this = obj)". *)
MemberCall ==
  /\ BodyLine /\ Word = "member"
  /\ Rewrite(<<[Cur EXCEPT !.k = "stmt", !.this = TRUE]>>, Counted.Added)
  /\ UNCHANGED <<Counter, Block, Res, ResMap, ScriptBlocks, FxMap, Fx, cx, source, pc>>

(* A control word.  While inserted lines are still to be walked (Added,   *)
(* which ThenMod raises for the line a "then" encloses) "if", "else",     *)
(* "loop" and "end" are refused.                                          *)
Control(w) == BodyLine /\ Word = w

ThenGuard ==
  /\ BodyLine /\ Word \in {"if", "else", "loop", "end"} /\ Counted.Added > 0
  /\ Fail

KeywordOK_Unchecked == TRUE
KeywordOK == Counted.Added = 0 \/ Word \notin {"if", "else", "loop", "end"}

(* "end" closes the innermost block: its pending end lines are inserted   *)
(* last-first and the block is popped.  At function level it is an error; *)
(* outside a function ("end <x> Begin") it pops the base block, which the *)
(* next iteration dereferences (ASSERT(pCurBlock) at line 404).           *)
EndStmt ==
  /\ Control("end") /\ KeywordOK
  /\ CASE Top.eType = "eFunction" -> Fail
       [] Len(Block) = 1 ->
            /\ pc' = "ub"
            /\ UNCHANGED <<ScriptLines, i, iLine, Added, ThenMod, Counter,
                           Block, Res, ResMap, ScriptBlocks, FxMap, Fx, cx, source>>
       [] OTHER ->
            /\ Rewrite(Reverse(Top.Ends), Counted.Added)
            /\ Block' = Front(Block)
            /\ UNCHANGED <<Counter, Res, ResMap, ScriptBlocks, FxMap, Fx, cx, source, pc>>

(* "if (c)" opens an if block: "goto !(c) end_if_N" now, "end_if_N:" at  *)
(* its end.  With "then" the line after the jump is enclosed by inserting *)
(* an "end" after it (no Added for it; ThenMod makes up for that).  On    *)
(* the last line that insert is past the end of the vector.               *)
IfStmt ==
  /\ Control("if") /\ KeywordOK
  /\ IF Cur.cond # "group"
       THEN Fail
       ELSE LET N   == Counter
                G   == CondJump(<<"end_if", N>>, Cur)
            IN /\ Block' = Append(Block, [eType |-> "eIf", Name |-> N,
                                          Ends |-> <<Label(<<"end_if", N>>, Cur.src)>>])
               /\ Counter' = Counter + 1
               /\ Added' = Counted.Added + 1
               /\ iLine' = Counted.iLine /\ i' = i
               /\ UNCHANGED <<Res, ResMap, ScriptBlocks, FxMap, Fx, cx, source>>
               /\ IF ~Cur.then
                    THEN /\ ScriptLines' = ReplaceSubSeqAt(i, <<G>>, <<Cur>>, ScriptLines)
                         /\ ThenMod' = Counted.ThenMod /\ pc' = pc
                    ELSE IF i = Len(ScriptLines)
                    THEN /\ pc' = "ub" /\ ThenMod' = Counted.ThenMod
                         /\ UNCHANGED ScriptLines
                    ELSE /\ ScriptLines' = SubSeq(ScriptLines, 1, i - 1)
                              \o << G, ScriptLines[i + 1],
                                   [SL("end") EXCEPT !.src = Cur.src] >>
                              \o SubSeq(ScriptLines, i + 2, Len(ScriptLines))
                         /\ ThenMod' = 5 /\ pc' = pc

(* "else" jumps past the else part, places the pending "end_if_N:" and    *)
(* leaves "end_else_N:" pending; "else if (c)" also opens a new if part.  *)
ElseLines_LabelFirst(N, ends, src) == <<Last(ends), Jump(<<"end_else", N>>, src)>>
ElseLines(N, ends, src) == <<Jump(<<"end_else", N>>, src), Last(ends)>>

ElseStmt ==
  /\ Control("else") /\ KeywordOK
  /\ IF Top.eType # "eIf" \/ Cur.cond = "word"
       THEN Fail
       ELSE LET N    == Top.Name
                M    == Counter
                ends == Front(Top.Ends) \o <<Label(<<"end_else", N>>, Cur.src)>>
                R    == ElseLines(N, Top.Ends, Cur.src)
            IN IF Cur.cond = "group"
                 THEN /\ Rewrite(R \o <<CondJump(<<"end_if", M>>, Cur)>>, Counted.Added)
                      /\ Block' = [Block EXCEPT ![Len(Block)] =
                                     [eType |-> "eIf", Name |-> M,
                                      Ends |-> ends \o <<Label(<<"end_if", M>>, Cur.src)>>]]
                      /\ Counter' = Counter + 1
                      /\ UNCHANGED <<Res, ResMap, ScriptBlocks, FxMap, Fx, cx, source, pc>>
                 ELSE /\ Rewrite(R, Counted.Added)
                      /\ Block' = [Block EXCEPT ![Len(Block)] =
                                     [eType |-> "eElse", Name |-> N, Ends |-> ends]]
                      /\ UNCHANGED <<Counter, Res, ResMap, ScriptBlocks, FxMap, Fx, cx,
                                     source, pc>>

(* "exit" jumps to the function's "eof:". *)
ExitStmt ==
  /\ Control("exit")
  /\ Rewrite(<<[Jump(<<"eof", 0>>, Cur.src) EXCEPT !.mark = Cur.mark]>>, Counted.Added)
  /\ UNCHANGED <<Counter, Block, Res, ResMap, ScriptBlocks, FxMap, Fx, cx, source, pc>>

(* "loop [(c)]" places "loop_N:" and, with a condition, "goto !(c)        *)
(* end_loop_N"; its end will be "goto loop_N" and "end_loop_N:".          *)
LoopStmt ==
  /\ Control("loop") /\ KeywordOK
  /\ IF Cur.cond = "word"
       THEN Fail
       ELSE LET N == Counter
                guard == IF Cur.cond = "group"
                           THEN <<CondJump(<<"end_loop", N>>, Cur)>> ELSE <<>>
            IN /\ Rewrite(<<Label(<<"loop", N>>, Cur.src)>> \o guard, Counted.Added)
               /\ Block' = Append(Block, [eType |-> "eLoop", Name |-> N,
                                  Ends |-> <<Label(<<"end_loop", N>>, Cur.src),
                                             Jump(<<"loop", N>>, Cur.src)>>])
               /\ Counter' = Counter + 1
               /\ UNCHANGED <<Res, ResMap, ScriptBlocks, FxMap, Fx, cx, source, pc>>

(* "break [n]" / "continue [n]" jump to the end / the start of the n-th   *)
(* loop block counted outward from pCurBlock (lines 680-686).             *)
NthLoop(n) ==
  LET loops == {t \in 1..Len(Block) : Block[t].eType = "eLoop"}
  IN {t \in loops : Cardinality({u \in loops : u >= t}) = n}

BreakStmt ==
  /\ \E w \in {"break", "continue"} : Control(w)
  /\ IF NthLoop(Cur.n) = {}
       THEN Fail
       ELSE LET L   == Block[CHOOSE t \in NthLoop(Cur.n) : TRUE]
                lbl == IF Cur.k = "break" THEN <<"end_loop", L.Name>>
                                          ELSE <<"loop", L.Name>>
            IN /\ Rewrite(<<[Jump(lbl, Cur.src) EXCEPT !.mark = Cur.mark]>>, Counted.Added)
               /\ UNCHANGED <<Counter, Block, Res, ResMap, ScriptBlocks, FxMap, Fx, cx,
                              source, pc>>

(* The end of the loop (lines 736-749): an open if, else or loop block    *)
(* fails the preprocess.                                                  *)
Finish ==
  /\ pc = "run" /\ i > Len(ScriptLines)
  /\ pc' = IF Len(Block) > 1 THEN "fail" ELSE "compile"
  /\ UNCHANGED <<ScriptLines, i, iLine, Added, ThenMod, Counter, Block, Res,
                 ResMap, ScriptBlocks, FxMap, Fx, cx, source>>

(***************************************************************************)
(* CompileScript (lines 752-830), one block per step: the blocks are split *)
(* into functions at "Function <name> Begin" / "Function End"; anything    *)
(* else outside a function, a second function of the same name, a          *)
(* "Function" line inside a function that is not its end, or a line        *)
(* CompileOp cannot classify fails the load.  Labels, jumps and statements *)
(* become ops carrying the block's line and break marker.                  *)
(***************************************************************************)
CompileBlock ==
  /\ pc = "compile" /\ cx <= Len(ScriptBlocks)
  /\ LET b == ScriptBlocks[cx] IN
     CASE Fx = "none" ->
            IF b.l.k # "fbegin" \/ b.l.name \in DOMAIN FxMap
              THEN pc' = "fail" /\ UNCHANGED <<Fx, FxMap>>
              ELSE /\ Fx' = b.l.name /\ FxMap' = FxMap @@ (b.l.name :> <<>>)
                   /\ UNCHANGED pc
       [] b.l.k = "fend" -> Fx' = "none" /\ UNCHANGED <<FxMap, pc>>
       [] b.l.k \in {"label", "goto", "stmt"} ->
            FxMap' = [FxMap EXCEPT ![Fx] = Append(@, b)] /\ UNCHANGED <<Fx, pc>>
       [] OTHER -> pc' = "fail" /\ UNCHANGED <<Fx, FxMap>>
  /\ cx' = cx + 1
  /\ UNCHANGED <<ScriptLines, i, iLine, Added, ThenMod, Counter, Block, Res,
                 ResMap, ScriptBlocks, source>>

(* After the last block an unterminated function fails the load. *)
CompileEnd ==
  /\ pc = "compile" /\ cx > Len(ScriptBlocks)
  /\ pc' = IF Fx = "none" THEN "ok" ELSE "fail"
  /\ UNCHANGED <<ScriptLines, i, iLine, Added, ThenMod, Counter, Block, Res,
                 ResMap, ScriptBlocks, FxMap, Fx, cx, source>>

Next ==
  \/ SkipLine \/ OpenFunction \/ OpenData \/ NotABegin \/ CloseFunction
  \/ DataLine \/ LexError \/ Statement \/ MemberCall \/ ThenGuard
  \/ EndStmt \/ IfStmt \/ ElseStmt \/ ExitStmt \/ LoopStmt \/ BreakStmt
  \/ Finish \/ CompileBlock \/ CompileEnd

Spec == Init /\ [][Next]_vars

(***************************************************************************)
(* Properties.                                                             *)
(***************************************************************************)

PreTypeOK ==
  /\ ScriptLines \in Seq(Line)
  /\ i \in 1..Len(ScriptLines) + 1
  /\ Added \in Nat /\ ThenMod \in 0..5 /\ Counter \in Nat \ {0}
  /\ \A t \in 1..Len(Block) : Block[t].Ends \in Seq(Line)
  /\ \A b \in Range(ScriptBlocks) : b.l \in Line
  /\ pc \in {"run", "compile", "ok", "fail", "ub"}

(* The first line after p of kind k, or 0. *)
FirstAfter(B, p, k) ==
  LET R == {r \in p + 1..Len(B) : B[r].k = k} IN IF R = {} THEN 0 ELSE MinOf(R)

(* The scripts spec.md 4.3 admits: outside blocks only empty and comment  *)
(* lines; functions and data blocks closed, each name used once; every    *)
(* function body well formed.                                             *)
RECURSIVE WellFormedFrom(_, _, _, _)
WellFormedFrom(B, p, fns, dns) ==
  IF p > Len(B) THEN TRUE
  ELSE LET l == B[p] IN
       CASE Quiet(l) -> WellFormedFrom(B, p + 1, fns, dns)
         [] l.k = "fbegin" ->
              LET e == FirstAfter(B, p, "fend") IN
              /\ e # 0 /\ l.name \notin fns
              /\ WellFormedBody(B, p + 1, e - 1)
              /\ WellFormedFrom(B, e + 1, fns \cup {l.name}, dns)
         [] l.k = "dbegin" ->
              LET e == FirstAfter(B, p, "dend") IN
              /\ e # 0 /\ l.name \notin dns
              /\ WellFormedFrom(B, e + 1, fns, dns \cup {l.name})
         [] OTHER -> FALSE

WellFormedScript(B) == WellFormedFrom(B, 1, {}, {})

(* The bodies of the script's functions: <<name, first, last line>>. *)
Bodies(B) ==
  { <<B[p].name, p + 1, FirstAfter(B, p, "fend") - 1>> :
      p \in {q \in 1..Len(B) : B[q].k = "fbegin" /\ FirstAfter(B, q, "fend") # 0} }

Oracles(B, lo, hi) == [{p \in lo..hi : HasCond(B[p])} -> 0..MaxTrue]

(* Loading succeeds exactly for the scripts the grammar of spec.md 4.3    *)
(* admits: PreprocessScript and CompileScript neither refuse a well-      *)
(* formed script nor accept a malformed one (an unclosed block, a stray   *)
(* "else" or "end", a break out of too many loops, a "then" followed by a *)
(* block statement, a line outside a function).                           *)
AcceptsWellFormed ==
  pc \in {"ok", "fail"} => (pc = "ok" <=> WellFormedScript(source))

(* The flat code CompileScript produces for each function does what the   *)
(* structured body says, for every outcome of its conditions: the same    *)
(* statements and hoisted temporaries, in the same order, through nested  *)
(* ifs, else-if chains, loops, break/continue n, exit and "then".         *)
FlatMatchesStructured ==
  pc = "ok" /\ WellFormedScript(source) =>
    \A b \in Bodies(source) :
      \A o \in Oracles(source, b[2], b[3]) :
        LET ref  == Structured(source, b[2], b[3], o, RefFuel)
            flat == Flat(FxMap[b[1]], o, FlatFuel)
        IN Agree(ref, flat)

(* Loading never runs into undefined behaviour: neither the "end" a       *)
(* single-line "then" inserts after the next line (line 589) nor the      *)
(* ASSERT(pCurBlock) at line 404, which says the block chain "can never   *)
(* get down to 0".                                                        *)
NoUndefinedBehaviour == pc # "ub"

(* A data block captures every line between "Data <name> Begin" and       *)
(* "Data End" (spec.md 4.3: raw, unparsed lines).                         *)
DataCapturedVerbatim ==
  pc = "ok" =>
    \A p \in 1..Len(source) :
      source[p].k = "dbegin" /\ FirstAfter(source, p, "dend") # 0 =>
        ResMap[source[p].name] = [j \in 1..FirstAfter(source, p, "dend") - p - 1 |-> p + j]

(* A break-marked line keeps its marker on the line that represents it:   *)
(* a statement on itself, an if, an else, a conditional loop, exit, break *)
(* and continue on the jump they become (spec.md 4.3).                    *)
MarkerPropagates ==
  pc = "ok" =>
    \A p \in 1..Len(source) :
      /\ source[p].mark
      /\ \/ source[p].k \in {"stmt", "member", "if", "else", "exit", "break", "continue"}
         \/ source[p].k = "loop" /\ source[p].cond = "group"
      => \E f \in DOMAIN FxMap : \E j \in DOMAIN FxMap[f] :
           FxMap[f][j].l.src = p /\ FxMap[f][j].l.mark /\ FxMap[f][j].l.k # "label"

(* Every op carries the number of the script line it stems from, which    *)
(* the engine's error messages and GetScriptLine print: statements and    *)
(* their hoisted temporaries, and the jumps of if, loop, exit, break and  *)
(* continue (the counters Added and ThenMod keep iLine in step).          *)
LinesOfSource ==
  pc = "ok" =>
    \A f \in DOMAIN FxMap : \A j \in DOMAIN FxMap[f] :
      LET op == FxMap[f][j]
      IN (op.l.k = "stmt" \/ (op.l.k = "goto" /\ op.l.csrc # 0)) => op.line = op.l.src

(* A single-line "then" whose enclosed line has operator blocks to hoist. *)
ThenEnclosesHoisted(B) ==
  \E p \in 1..Len(B) - 1 : B[p].k = "if" /\ B[p].then /\ B[p + 1].ext > 0

====
