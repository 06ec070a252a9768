--------------------------- MODULE MC_TuringStrings ---------------------------
EXTENDS TuringStrings

(* Strings of up to 4 characters over a two-letter alphabet, and separators *)
(* of 1 or 2 characters: adjacent, leading, trailing and overlapping        *)
(* separators all occur.                                                    *)
Text == SeqOf({"a", "b"}, 4)
Sep == SeqOf({"a", "b"}, 2) \ {<<>>}

(* f occurs in s. *)
OccursIn(s, f) == \E q \in 0..(Len(s) - Len(f)) : SubSeq(s, q + 1, q + Len(f)) = f

SplitCalls(Finds, Keeps) ==
  [op : {"split"}, str : Text, find : Finds, sub : {<<>>}, keep : Keeps, one : {FALSE}]

ReplaceCalls(Subs) ==
  {c \in [op : {"replace"}, str : Text, find : Sep, sub : Subs, keep : {FALSE},
          one : BOOLEAN] : c.one \/ ~OccursIn(c.sub, c.find)}

(* Split without KeepEmpty, and Replace whose Sub does not contain Find *)
(* (FindOne with any Sub).                                               *)
MCCalls == SplitCalls(Sep, {FALSE}) \cup ReplaceCalls(SeqOf({"a", "b"}, 2))

(* Split with KeepEmpty, of a string that is not empty. *)
KeepEmptyCalls == {c \in SplitCalls(Sep, {TRUE}) : c.str # <<>>}

(* Split on an empty separator. *)
EmptySepCalls == SplitCalls({<<>>}, {FALSE})

(* Replace all, whose Sub contains Find. *)
GrowCalls == {c \in [op : {"replace"}, str : Text, find : Sep, sub : SeqOf({"a", "b"}, 2),
                     keep : {FALSE}, one : {FALSE}] : OccursIn(c.sub, c.find)}

MCMaxLen == 8
=============================================================================
