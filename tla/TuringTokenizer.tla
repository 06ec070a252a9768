--------------------------- MODULE TuringTokenizer ---------------------------
(***************************************************************************)
(* The expression tokenizer: CTuringParser::GetExpressions                 *)
(* (TuringParser.cpp 93-233), the token classification of the SExpression *)
(* constructor (TuringTypes.cpp 8-18), and the printer the preprocessor    *)
(* uses to write rewritten lines back into the script: PrintExpressions    *)
(* (TuringParser.cpp 260-283) with EscapeString (235-258).                 *)
(*                                                                         *)
(* A line is a sequence of characters, each a one-character string; the    *)
(* control characters an escape produces are named ("BEL", "BS", "VT").    *)
(* A token is a word, an operator or a string (its text, quotes included   *)
(* for a string) or a nested group ("multi").                              *)
(***************************************************************************)
EXTENDS Integers, Sequences, SequencesExt, FiniteSets, FiniteSetsExt, TLC

(* g_Operators of TuringOps.cpp 67, and CTuringOps::IsOperator.           *)
OpChars == {"*", "+", "-", "/", "%", "&", "^", "|", "!", "=", "<", ">",
            ",", ":", "?", "~"}
IsOperator(c) == c \in OpChars
White == {" ", "\t", "\r", "\n"}

(* The escape sequences of GetExpressions (lines 115-127); anything else  *)
(* after a backslash becomes '?'.                                         *)
EscTable == [c \in {"\\", "'", "\"", "a", "b", "f", "n", "r", "t", "v"} |->
              CASE c = "a" -> "BEL" [] c = "b" -> "BS" [] c = "f" -> "\f"
                [] c = "n" -> "\n" [] c = "r" -> "\r" [] c = "t" -> "\t"
                [] c = "v" -> "VT" [] OTHER -> c]
Unescape(c) == IF c \in DOMAIN EscTable THEN EscTable[c] ELSE "?"

(* SExpression(const wstring&): the type is fixed by the first character. *)
Word(s) == [k |-> CASE IsOperator(s[1]) -> "op"
                    [] s[1] = "\"" -> "str"
                    [] OTHER -> "word",
            s |-> s, g |-> <<>>]
Multi(g) == [k |-> "multi", s |-> <<>>, g |-> g]

(***************************************************************************)
(* The scan.  st holds the loop's locals: bEsc, bString, iBlocks,          *)
(* iBrackets, bOperator, the current Expression and the Expressions added  *)
(* so far; stop marks the comment break and fail a NULL return.            *)
(***************************************************************************)
Start == [esc |-> FALSE, str |-> FALSE, blk |-> 0, brk |-> 0, op |-> FALSE,
          cur |-> <<>>, out |-> <<>>, stop |-> FALSE, fail |-> FALSE,
          comment |-> <<>>]

Top(st) == st.brk = 0 /\ st.blk = 0

RECURSIVE GetExpressions(_), Scan(_, _, _), Emit(_, _, _)

(* The tail of the loop body (lines 201-221) for the iEnd the case         *)
(* analysis chose: append the character, close the current expression    *)
(* (a group is tokenized by the recursive call), start the next.           *)
Emit(st, c, iEnd) ==
  LET cur1 == IF iEnd \in {0, 1} THEN st.cur \o <<c>> ELSE st.cur
      sub == GetExpressions(cur1)
      out1 == CASE iEnd = 0 -> st.out
                [] iEnd = -2 -> st.out \o <<Multi(sub.e)>>
                [] cur1 # <<>> -> st.out \o <<Word(cur1)>>
                [] OTHER -> st.out
      cur2 == CASE iEnd = 0 -> cur1
                [] iEnd = -1 -> <<c>>
                [] OTHER -> <<>>
  IN IF iEnd = -2 /\ ~sub.ok THEN [st EXCEPT !.fail = TRUE]
     ELSE [st EXCEPT !.out = out1, !.cur = cur2]

(* One character of the loop (lines 104-199), cases in the code's order.  *)
Scan(line, i, st) ==
  IF i > Len(line) \/ st.stop \/ st.fail THEN st
  ELSE LET c == line[i]
           nxt ==
             CASE st.str /\ st.esc ->
                    [st EXCEPT !.esc = FALSE,
                               !.cur = @ \o IF Top(st) THEN <<Unescape(c)>>
                                            ELSE <<"\\", c>>]
               [] st.str /\ c = "\\" -> [st EXCEPT !.esc = TRUE]
               [] st.str /\ c = "\"" ->
                    Emit([st EXCEPT !.str = FALSE], c, IF Top(st) THEN 1 ELSE 0)
               [] st.str -> Emit(st, c, 0)
               [] c = "\"" ->
                    Emit([st EXCEPT !.str = TRUE], c, IF Top(st) THEN -1 ELSE 0)
               [] c = "'" ->
                    [st EXCEPT !.stop = TRUE, !.comment = SubSeq(line, i, Len(line))]
               [] st.blk > 0 \/ c = "[" ->
                    Emit([st EXCEPT !.blk = CASE c = "[" -> @ + 1
                                               [] c = "]" -> @ - 1
                                               [] OTHER -> @], c, 0)
               [] c = "(" ->
                    Emit([st EXCEPT !.op = FALSE, !.brk = @ + 1], c,
                         IF st.brk = 0 THEN 2 ELSE 0)
               [] c = ")" ->
                    Emit([st EXCEPT !.brk = @ - 1], c, IF st.brk = 1 THEN -2 ELSE 0)
               [] st.brk = 0 /\ c \in White -> Emit(st, c, 2)
               [] st.brk = 0 /\ IsOperator(c) # st.op ->
                    Emit([st EXCEPT !.op = ~@], c, -1)
               [] OTHER -> Emit(st, c, 0)
       IN Scan(line, i + 1, nxt)

(* GetExpressions: the scan, the last expression (lines 224-225), and the *)
(* NULL return for an open string or unbalanced brackets (227-231).      *)
GetExpressions(line) ==
  LET st == Scan(line, 1, Start)
      out == IF st.cur # <<>> THEN st.out \o <<Word(st.cur)>> ELSE st.out
  IN [ok |-> ~st.fail /\ ~st.str /\ st.brk = 0, e |-> out, comment |-> st.comment]

(***************************************************************************)
(* The printer.                                                            *)
(***************************************************************************)

(* EscapeString with the double quote left out of the escape set.        *)
EscapeString_NoQuote(s) ==
  LET Letter == [c \in {EscTable[x] : x \in DOMAIN EscTable} \ {"\""} |->
                   CHOOSE x \in DOMAIN EscTable : EscTable[x] = c]
  IN FlattenSeq([j \in 1..Len(s) |->
       IF s[j] \in DOMAIN Letter THEN <<"\\", Letter[s[j]]>> ELSE <<s[j]>>])

(* EscapeString: a backslash before every character of the escape set,   *)
(* which is written as its letter.                                        *)
EscapeString(s) ==
  LET Letter == [c \in {EscTable[x] : x \in DOMAIN EscTable} |->
                   CHOOSE x \in DOMAIN EscTable : EscTable[x] = c]
  IN FlattenSeq([j \in 1..Len(s) |->
       IF s[j] \in DOMAIN Letter THEN <<"\\", Letter[s[j]]>> ELSE <<s[j]>>])

RECURSIVE PrintExpressions(_)
(* PrintExpressions: tokens separated by one space unless the text so far *)
(* ends with one; a group in parentheses, a string re-quoted and escaped. *)
PrintExpressions(E) ==
  LET Text(t) == CASE t.k = "multi" -> <<"(">> \o PrintExpressions(t.g) \o <<")">>
                   [] t.k = "str" ->
                        <<"\"">> \o EscapeString(SubSeq(t.s, 2, Len(t.s) - 1)) \o <<"\"">>
                   [] OTHER -> t.s
      Join(p, t) == IF p # <<>> /\ Last(p) # " " THEN p \o <<" ">> \o Text(t)
                    ELSE p \o Text(t)
  IN FoldLeft(Join, <<>>, E)

(***************************************************************************)
(* The member-access rewrite (USE_JSON): SplitBlocks (TuringParser.cpp     *)
(* 285-319) and ExtractBlock (321-373).  Positions are 0-based as in the   *)
(* code: At(s, p) is s[p + 1].  A temporary's name tmp_var_<n> consists of *)
(* word characters only, so it is one character of the model.             *)
(***************************************************************************)
At(s, p) == s[p + 1]
Npos == -1
FindFirstOf(s, D, pos) ==
  LET P == {p \in pos..Len(s) - 1 : At(s, p) \in D}
  IN IF P = {} THEN Npos ELSE Min(P)

RECURSIVE SplitLoop(_, _, _)
(* One pass of SplitBlocks' loop: the next bracket (or dot), the counter, *)
(* and the piece from Begin to End when End moved past Begin.             *)
SplitLoop(s, bDot, st) ==
  IF st.pos >= Len(s) THEN st
  ELSE LET f == FindFirstOf(s, IF bDot THEN {".", "[", "]"} ELSE {"[", "]"}, st.pos)
           tmp == IF f = Npos THEN Len(s) ELSE f
           cnt == CASE f = Npos -> st.count
                    [] At(s, f) = "[" -> st.count + 1
                    [] At(s, f) = "]" -> st.count - 1
                    [] OTHER -> st.count
           end == CASE f = Npos -> Len(s)
                    [] At(s, f) = "[" -> IF st.count = 0 /\ ~bDot THEN f ELSE st.end
                    [] At(s, f) = "]" -> IF cnt = 0 THEN f + 1 ELSE st.end
                    [] st.count = 0 -> f
                    [] OTHER -> st.end
           grow == end > st.begin
       IN SplitLoop(s, bDot,
            [pos |-> tmp + 1, count |-> cnt, end |-> end,
             begin |-> IF grow THEN end ELSE st.begin,
             list |-> IF grow THEN Append(st.list, SubSeq(s, st.begin + 1, end))
                      ELSE st.list])

SplitBlocks(s, bDot) ==
  LET st == SplitLoop(s, bDot, [pos |-> 0, count |-> 0, end |-> 0, begin |-> 0,
                                list |-> <<>>])
  IN [ok |-> st.count = 0 /\ st.list # <<>>, list |-> st.list]

(* wstring::substr(pos, n) with an unsigned n: a negative n has wrapped to *)
(* a huge count, and the count stops at the end of the string.            *)
Substr(s, pos, n) == SubSeq(s, pos + 1, IF n < 0 \/ pos + n > Len(s) THEN Len(s) ELSE pos + n)

HasOperator(s) == \E j \in DOMAIN s : IsOperator(s[j])
Digits == {"0", "1", "2", "3", "4", "5", "6", "7", "8", "9"}
TmpVar(n) == "tmp_var_" \o ToString(n)

(* RewritePieces putting a dot before a bracketed name even after a dot. *)
RewritePieces_AlwaysDot(L, counter) ==
  LET F(acc, J) ==
        CASE J[1] # "[" -> [acc EXCEPT !.w = @ \o J]
          [] HasOperator(J) ->
               [acc EXCEPT !.w = @ \o <<"[", TmpVar(acc.counter), "]">>,
                           !.blocks = Append(@, <<TmpVar(acc.counter),
                                                  Substr(J, 1, Len(J) - 2)>>),
                           !.counter = @ + 1, !.chg = @ + 1]
          [] J[2] \in Digits ->
               [acc EXCEPT !.w = @ \o <<".">> \o Substr(J, 1, Len(J) - 2), !.chg = @ + 1]
          [] J[2] = "\"" ->
               [acc EXCEPT !.w = @ \o <<".">> \o Substr(J, 2, Len(J) - 4), !.chg = @ + 1]
          [] acc.w # <<>> ->
               [acc EXCEPT !.w = @ \o <<".">> \o J, !.chg = @ + 1]
          [] OTHER -> [acc EXCEPT !.w = @ \o J]
  IN FoldLeft(F, [w |-> <<>>, blocks |-> <<>>, counter |-> counter, chg |-> 0], L)

(* The inner loop of ExtractBlock over the pieces of one word: a piece in *)
(* brackets with an operator is hoisted into a temporary, a number or a   *)
(* quoted name becomes a dotted member, a name gets a dot before it.      *)
RewritePieces(L, counter) ==
  LET F(acc, J) ==
        CASE J[1] # "[" -> [acc EXCEPT !.w = @ \o J]
          [] HasOperator(J) ->
               [acc EXCEPT !.w = @ \o <<"[", TmpVar(acc.counter), "]">>,
                           !.blocks = Append(@, <<TmpVar(acc.counter),
                                                  Substr(J, 1, Len(J) - 2)>>),
                           !.counter = @ + 1, !.chg = @ + 1]
          [] J[2] \in Digits ->
               [acc EXCEPT !.w = @ \o <<".">> \o Substr(J, 1, Len(J) - 2), !.chg = @ + 1]
          [] J[2] = "\"" ->
               [acc EXCEPT !.w = @ \o <<".">> \o Substr(J, 2, Len(J) - 4), !.chg = @ + 1]
          [] acc.w # <<>> /\ Last(acc.w) # "." ->
               [acc EXCEPT !.w = @ \o <<".">> \o J, !.chg = @ + 1]
          [] OTHER -> [acc EXCEPT !.w = @ \o J]
  IN FoldLeft(F, [w |-> <<>>, blocks |-> <<>>, counter |-> counter, chg |-> 0], L)

RECURSIVE ExtractBlock(_, _)
(* ExtractBlock over a token list: groups recursively, words rewritten,   *)
(* -1 (ok FALSE) as soon as a word's brackets do not balance.  The type   *)
(* of a rewritten word stays "word".                                      *)
ExtractBlock(E, counter) ==
  LET F(acc, t) ==
        IF ~acc.ok THEN acc
        ELSE CASE t.k = "multi" ->
                    LET r == ExtractBlock(t.g, acc.counter)
                    IN [ok |-> r.ok, e |-> Append(acc.e, Multi(r.e)),
                        blocks |-> acc.blocks \o r.blocks, counter |-> r.counter,
                        chg |-> acc.chg + r.chg]
               [] t.k = "word" ->
                    LET sp == SplitBlocks(t.s, FALSE)
                        r == RewritePieces(sp.list, acc.counter)
                    IN CASE ~sp.ok -> [acc EXCEPT !.ok = FALSE]
                         [] Len(sp.list) = 1 /\ sp.list[1][1] # "[" ->
                              [acc EXCEPT !.e = Append(@, t)]
                         [] OTHER ->
                              [ok |-> TRUE, e |-> Append(acc.e, [t EXCEPT !.s = r.w]),
                               blocks |-> acc.blocks \o r.blocks, counter |-> r.counter,
                               chg |-> acc.chg + r.chg]
               [] OTHER -> [acc EXCEPT !.e = Append(@, t)]
  IN FoldLeft(F, [ok |-> TRUE, e |-> <<>>, blocks |-> <<>>, counter |-> counter,
                  chg |-> 0], E)

(***************************************************************************)
(* The line rewrite of PreprocessScript (TuringParser.cpp 486-531): the    *)
(* leading white space, then, when ExtractBlock changed something, the     *)
(* line written back as its indentation, the printed tokens and the        *)
(* comment.  The loop then processes the written line again.  The         *)
(* hoisted "tmp_var_<n> = <block>" lines are not part of the model.       *)
(***************************************************************************)
Tab(l) ==
  LET W == {j \in 0..Len(l) : \A k \in 1..j : l[k] \in White}
  IN SubSeq(l, 1, Max(W))

(* Statement words whose lines are never rewritten (line 501).           *)
Keywords == {<<"e","n","d">>, <<"i","f">>, <<"e","l","s","e">>, <<"l","o","o","p">>,
             <<"b","r","e","a","k">>, <<"c","o","n","t","i","n","u","e">>,
             <<"e","x","i","t">>}

(* The first word of a parsed line, GetExpStr(0) (line 496). *)
FirstWord(E) == IF E # <<>> /\ E[1].k # "multi" THEN E[1].s ELSE <<>>

(* The comment, after a blank, as the written line ends (line 517). *)
Trailer(c) == IF c = <<>> THEN <<>> ELSE <<" ">> \o c

-----------------------------------------------------------------------------
(* One line of PreprocessScript's loop, in the order of the code: it is    *)
(* parsed (489), ExtractBlock rewrites its blocks (505), and a changed line *)
(* is written back (513-519) and walked again by the same loop (i--).     *)
CONSTANTS
  Inputs,     \* the lines of a script
  MaxPasses   \* bound on the rewrites of one line

VARIABLES
  line,       \* the line the loop is at
  pc,         \* "parse", "extract", "write" or "done"
  r,          \* what GetExpressions returned for line
  x,          \* what ExtractBlock returned for r.e
  counter,    \* PreprocessScript's Counter of tmp_var names
  passes      \* rewrites of this line so far

vars == <<line, pc, r, x, counter, passes>>

Init ==
  /\ line \in Inputs
  /\ pc = "parse"
  /\ r = [ok |-> FALSE, e |-> <<>>, comment |-> <<>>]
  /\ x = [ok |-> FALSE, e |-> <<>>, blocks |-> <<>>, counter |-> 1, chg |-> 0]
  /\ counter = 1
  /\ passes = 0

(* Lines 489-501: a line that does not parse fails the load, and a line    *)
(* that starts with a statement word is not rewritten.                    *)
Parse ==
  /\ pc = "parse"
  /\ r' = GetExpressions(line)
  /\ pc' = IF r'.ok /\ FirstWord(r'.e) \notin Keywords THEN "extract" ELSE "done"
  /\ UNCHANGED <<line, x, counter, passes>>

(* Lines 505-511: invalid blocks end the loop, no change keeps the line.  *)
Extract ==
  /\ pc = "extract"
  /\ x' = ExtractBlock(r.e, counter)
  /\ counter' = x'.counter
  /\ pc' = IF x'.ok /\ x'.chg > 0 THEN "write" ELSE "done"
  /\ UNCHANGED <<line, r, passes>>

(* Lines 513-519: the line is replaced by its indentation, the printed    *)
(* tokens and the comment, and the loop reads it again.                   *)
Write ==
  /\ pc = "write"
  /\ passes < MaxPasses
  /\ line' = Tab(line) \o PrintExpressions(x.e) \o Trailer(r.comment)
  /\ passes' = passes + 1
  /\ pc' = "parse"
  /\ UNCHANGED <<r, x, counter>>

(* The loop has moved on to the next line. *)
Done == pc = "done" /\ UNCHANGED vars

Next == Parse \/ Extract \/ Write \/ Done

Spec == Init /\ [][Next]_vars

(* r belongs to the current line. *)
Parsed == pc # "parse" /\ r.ok

(* A condition of if / else if / loop, or an argument list, printed into  *)
(* the generated "goto !( ... )" or call line (TuringParser.cpp 577, 628, *)
(* 665, 726) is read back by GetExpressions as the very same group.       *)
GroupRoundTrip ==
  Parsed => \A j \in DOMAIN r.e :
              r.e[j].k = "multi" =>
                LET back == GetExpressions(<<"(">> \o PrintExpressions(r.e[j].g) \o <<")">>)
                IN back.ok /\ back.e = <<r.e[j]>>

(* The member-access rewrite of a line (TuringParser.cpp 505-519)       *)
(* settles: the line written back is processed again, and ExtractBlock   *)
(* rewrites one line at most twice before it changes nothing more or the *)
(* line is rejected, so PreprocessScript does not rewrite a line forever. *)
RewriteSettles == passes < MaxPasses

(* The characters of a token outside its [...] segments. *)
OutsideBlocks(s) ==
  LET d[j \in 0..Len(s)] ==
        IF j = 0 THEN 0
        ELSE d[j - 1] + CASE s[j] = "[" -> 1
                          [] s[j] = "]" /\ d[j - 1] > 0 -> -1
                          [] OTHER -> 0
  IN SelectSeq([j \in 1..Len(s) |-> IF d[j - 1] = 0 /\ s[j] # "[" THEN s[j] ELSE "["],
               LAMBDA c : c # "[")

(* Spec 4.1: adjacent characters of differing operator classification   *)
(* force a split, brackets being opaque; so outside its [...] segments an *)
(* operator token holds only operator characters and a word none.        *)
SplitsByClass ==
  LET Flat(E) == E \o FlattenSeq([j \in DOMAIN E |-> E[j].g])
  IN Parsed => \A t \in ToSet(Flat(r.e)) :
               LET o == OutsideBlocks(t.s) IN
               /\ t.k = "op" => \A j \in DOMAIN o : IsOperator(o[j])
               /\ t.k = "word" => \A j \in DOMAIN o : ~IsOperator(o[j])

(* Spec 4.1: unbalanced parentheses are a parse failure: a line that      *)
(* GetExpressions accepts never closes a parenthesis it has not opened    *)
(* (outside strings and brackets).                                        *)
RejectsUnbalanced ==
  LET Depth(j) == LET pre == SubSeq(line, 1, j)
                  IN Cardinality({k \in DOMAIN pre : pre[k] = "("})
                     - Cardinality({k \in DOMAIN pre : pre[k] = ")"})
      Plain == \A k \in DOMAIN line : line[k] \notin {"\"", "[", "]", "'"}
  IN (Parsed /\ Plain) => \A j \in DOMAIN line : Depth(j) >= 0

(* The rewritten line PreprocessScript writes back (line 516) is read by  *)
(* GetExpressions as the tokens ExtractBlock produced, with the comment.  *)
RewriteRoundTrip ==
  (pc = "parse" /\ passes > 0) =>
    LET back == GetExpressions(line)
    IN back.ok /\ back.e = x.e /\ back.comment = r.comment

====
