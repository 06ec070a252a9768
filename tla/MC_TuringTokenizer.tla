------------------------- MODULE MC_TuringTokenizer -------------------------
(***************************************************************************)
(* Every line up to a length over a small alphabet: a letter, a digit, an  *)
(* operator character, a blank, the quote, the backslash, the comment      *)
(* mark, parentheses, brackets and the dot.                                *)
(***************************************************************************)
EXTENDS TuringTokenizer

Alphabet == {"a", "1", "+", " ", "\"", "\\", "'", "(", ")", "[", "]", "."}
(* Conditions and argument lists with strings, escapes and comment marks *)
(* inside: "(" c ")" for every c of up to 5 characters.                  *)
GroupInputs == {<<"(">> \o c \o <<")">> : c \in SeqOf({"a", "+", " ", "\"", "\\", "'"}, 5)}
MCInputs == SeqOf(Alphabet, 5) \cup GroupInputs

(* A member addressed by a quoted name of letters and blanks: a["..."]. *)
QuotedInputs == {<<"a", "[", "\"">> \o n \o <<"\"", "]">> : n \in SeqOf({"a", " "}, 3)}
(* Words, operators and brackets, without parentheses. *)
BlockInputs == SeqOf({"a", "+", " ", "[", "]"}, 5)
====
