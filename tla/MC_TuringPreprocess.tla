------------------------- MODULE MC_TuringPreprocess -------------------------
(***************************************************************************)
(* Scripts for TuringPreprocess: every function body of up to MaxBody      *)
(* lines over a small alphabet of statements and control words, plus a    *)
(* few whole scripts with data blocks and several functions.               *)
(***************************************************************************)
EXTENDS TuringPreprocess

MaxBody == 4

FB(nm) == [SL("fbegin") EXCEPT !.name = nm, !.begin = TRUE]
FE == SL("fend")
DB(nm) == [SL("dbegin") EXCEPT !.name = nm, !.begin = TRUE]
DE == SL("dend")

St   == SL("stmt")
StX  == [SL("stmt") EXCEPT !.ext = 1]           \* x = a[i+1]
Mem  == SL("member")                            \* obj.f (x = 1)
If   == [SL("if") EXCEPT !.cond = "group"]      \* if (c)
IfX  == [If EXCEPT !.ext = 1]                   \* if (a[i+1])
IfT  == [If EXCEPT !.then = TRUE]               \* if (c) then
Else == SL("else")
ElIf == [SL("else") EXCEPT !.cond = "group"]    \* else if (c)
Loop == SL("loop")
LoopC == [SL("loop") EXCEPT !.cond = "group"]   \* loop (c)
Brk  == SL("break")
Brk2 == [SL("break") EXCEPT !.n = 2]
Cont == SL("continue")
Exit == SL("exit")
End  == SL("end")
Mark(l) == [l EXCEPT !.mark = TRUE]

Body == {St, StX, Mem, If, IfX, IfT, Else, ElIf, Loop, LoopC, Brk, Brk2,
         Cont, Exit, End, Mark(St), Mark(If)}

Fn(nm, body) == <<FB(nm)>> \o body \o <<FE>>

Blank == SL("blank")
Note == SL("comment")
StBad == [SL("stmt") EXCEPT !.ext = -1]          \* x = a[i+1
Lex == SL("lexbad")                              \* x = "abc

(* Whole scripts: data blocks, several functions, and the errors outside  *)
(* a function body.                                                      *)
Whole ==
  { <<Blank, DB("d"), St, If, DE, Note, FB("f"), St, Blank, FE, FB("g"), Exit, FE>>,
    <<DB("d"), Blank, Note, DE, DB("d"), DE>>,
    <<FB("f"), FE, FB("f"), FE>>,
    <<St, FB("f"), FE>>,
    <<FB("f"), St>>,
    <<FB("f"), DB("d"), DE, FE>>,
    <<FB("f"), FB("g"), FE>>,
    <<FB("f"), If, FE, End, FE>>,
    Fn("f", <<StBad>>), Fn("f", <<Lex>>), Fn("f", <<Loop, Blank, End>>),
    Fn("f", <<[Loop EXCEPT !.cond = "word"]>>), Fn("f", <<[If EXCEPT !.cond = "none"]>>),
    Fn("f", <<If, [ElIf EXCEPT !.cond = "word"], End>>), Fn("f", <<Loop, [Brk EXCEPT !.n = 0], End>>),
    <<FB("f"), IfT>>, <<[End EXCEPT !.begin = TRUE]>> }

MCScripts ==
  { Fn("f", b) : b \in BoundedSeq(Body, MaxBody) } \cup Whole

(* Scripts that show one divergence each. *)
ThenBlank   == { Fn("f", <<IfT, q, St>>) : q \in {Blank, Note} }
MarkIndent  == { Fn("f", <<[Mark(l) EXCEPT !.ind = TRUE]>>) : l \in {St, If} }
ThenHoisted == { Fn("f", <<[IfT EXCEPT !.ext = 1], l, St, End>>) : l \in {Loop, If} }
DataOpen    == { <<DB("d"), St, FB("f"), FE>> }
DataQuiet   == { <<DB("d"), q, St, DE, FB("f"), FE>> : q \in {Blank, Note} }
MarkElse    == { Fn("f", <<If, Mark(Else), St, End>>) }
ThenLast    == { <<FB("f"), IfT>> }
EndOutside  == { <<[End EXCEPT !.begin = TRUE]>>, <<FB("f"), FE, [End EXCEPT !.begin = TRUE]>> }
ThenLine    == { Fn("f", <<IfT, StX>>) }

WithinMaxLines == Len(ScriptLines) <= MaxLines

====
