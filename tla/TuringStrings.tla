---------------------------- MODULE TuringStrings ----------------------------
(***************************************************************************)
(* The string natives of the Turing script library whose bodies loop:      *)
(* FxSplit (TuringOps.cpp 669-748) and FxReplace (760-815, the Find and    *)
(* FindOne form).  A script calls Split the way its doc comment describes: *)
(* Index starts at 0, the native returns the Index-th piece in Sub and     *)
(* advances Index, and sets Index to -1 when there is no such piece.       *)
(*                                                                         *)
(* A string is a sequence of one-character strings over a single-case     *)
(* alphabet, so the case-insensitive FindStr that ICase (default true)     *)
(* selects finds what wstring::find finds.  Each iteration of a native's   *)
(* loop is one step, so a loop that does not end is a behaviour that never *)
(* returns.  The regular-expression forms are not modelled.                *)
(***************************************************************************)
EXTENDS Integers, Sequences, SequencesExt, FiniteSets

CONSTANTS
  Calls,    \* the native calls a script makes: records [op, str, find, sub, keep, one]
  MaxLen    \* bound on the length of Str that Replace may build

ASSUME MaxLen \in Nat

VARIABLES
  op,      \* "split" or "replace": the native the script calls
  str,     \* the Str argument (Replace edits it in place)
  find,    \* the Find (or FindOne) argument
  sub,     \* the Sub argument of Replace
  keep,    \* IsArgTrue(wKeepEmpty) of Split
  one,     \* Replace was given FindOne
  input,   \* Str as the script passed it
  index,   \* the script's Index variable
  out,     \* the pieces the script's loop has collected
  pc,      \* "call", "loop" (inside FxSplit's for loop), "ret", "done"
  pos,     \* FxSplit's Pos
  sep,     \* FxSplit's Sep
  count    \* FxSplit's Count

vars == <<op, str, find, sub, keep, one, input, index, out, pc, pos, sep, count>>

Npos == -1

(* wstring::find(f, pos): the first occurrence of f at or after pos; an    *)
(* empty f is found at pos itself while pos <= size().                     *)
FindFrom(s, f, p) ==
  LET At == {q \in p..(Len(s) - Len(f)) : SubSeq(s, q + 1, q + Len(f)) = f}
  IN IF At = {} THEN Npos ELSE Min(At)

-----------------------------------------------------------------------------
Init ==
  /\ \E c \in Calls :
       /\ op = c.op /\ str = c.str /\ find = c.find /\ sub = c.sub
       /\ keep = c.keep /\ one = c.one /\ input = c.str
  /\ index = 0
  /\ out = <<>>
  /\ pc = "call"
  /\ pos = 0 /\ sep = 0 /\ count = 0

(* Entry of FxSplit (681-688): Index is read, the locals start at 0. *)
SplitCall ==
  /\ pc = "call" /\ op = "split"
  /\ pc' = "loop" /\ pos' = 0 /\ sep' = 0 /\ count' = 0
  /\ UNCHANGED <<op, str, find, sub, keep, one, input, index, out>>

(* Lines 691-697: the next separator at or after Pos, or size(). *)
NextSep == LET s == FindFrom(str, find, pos) IN IF s = Npos THEN Len(str) ELSE s

(* Mutant: an empty piece counts as well. *)
Counted_Empty == NextSep >= pos \/ keep

(* Line 699: a piece is counted when it is not empty, or KeepEmpty. *)
Counted == NextSep > pos \/ keep

(* Lines 701-702: the Index-th counted piece ends the loop. *)
SplitBreak ==
  /\ pc = "loop" /\ sep < Len(str)
  /\ Counted /\ count = index
  /\ sep' = NextSep /\ pc' = "ret"
  /\ UNCHANGED <<op, str, find, sub, keep, one, input, index, out, pos, count>>

(* Lines 703-705: any other piece; Pos moves past the separator. *)
SplitNext ==
  /\ pc = "loop" /\ sep < Len(str)
  /\ ~(Counted /\ count = index)
  /\ sep' = NextSep
  /\ count' = IF Counted THEN count + 1 ELSE count
  /\ pos' = NextSep + Len(find)
  /\ UNCHANGED <<op, str, find, sub, keep, one, input, index, out, pc>>

(* Line 689: the loop ends once Sep reaches size(). *)
SplitExit ==
  /\ pc = "loop" /\ sep >= Len(str)
  /\ pc' = "ret"
  /\ UNCHANGED <<op, str, find, sub, keep, one, input, index, out, pos, sep, count>>

(* Lines 745-746, and the script's loop: a piece is appended and Split is  *)
(* called again with the new Index; Index -1 ends the loop.                *)
SplitReturn ==
  /\ pc = "ret" /\ op = "split"
  /\ LET found == count = index /\ sep > pos
     IN /\ index' = IF found THEN index + 1 ELSE -1
        /\ out' = IF found THEN Append(out, SubSeq(str, pos + 1, sep)) ELSE out
        /\ pc' = IF found THEN "call" ELSE "done"
  /\ UNCHANGED <<op, str, find, sub, keep, one, input, pos, sep, count>>

(* Mutant: the length of Sub is replaced instead of the length of Find. *)
ReplaceFirst_SubLen(s, p) == SubSeq(s, 1, p) \o sub \o SubSeq(s, p + Len(sub) + 1, Len(s))

(* wstring::replace(p, size of find, sub). *)
ReplaceFirst(s, p) == SubSeq(s, 1, p) \o sub \o SubSeq(s, p + Len(find) + 1, Len(s))

(* Lines 781-792: one iteration finds the first occurrence, searching from *)
(* the start of the edited string, and replaces it; FindOne stops there.   *)
ReplaceStep ==
  /\ pc = "call" /\ op = "replace"
  /\ FindFrom(str, find, 0) # Npos
  /\ Len(ReplaceFirst(str, FindFrom(str, find, 0))) <= MaxLen
  /\ str' = ReplaceFirst(str, FindFrom(str, find, 0))
  /\ pc' = IF one THEN "done" ELSE "call"
  /\ UNCHANGED <<op, find, sub, keep, one, input, index, out, pos, sep, count>>

(* Lines 786-787 and 795: no occurrence left; FX_OK. *)
ReplaceDone ==
  /\ pc = "call" /\ op = "replace"
  /\ FindFrom(str, find, 0) = Npos
  /\ pc' = "done"
  /\ UNCHANGED <<op, str, find, sub, keep, one, input, index, out, pos, sep, count>>

(* The script has finished with the native. *)
Finished == pc = "done" /\ UNCHANGED vars

Next ==
  \/ SplitCall \/ SplitBreak \/ SplitNext \/ SplitExit \/ SplitReturn
  \/ ReplaceStep \/ ReplaceDone
  \/ Finished

(* A native runs on the script's thread to completion, with nothing to    *)
(* wait for, and the script's loop calls it again at once.                *)
Spec == Init /\ [][Next]_vars /\ WF_vars(Next)

-----------------------------------------------------------------------------
(* The fields of s between the separators f (f not empty), left to right. *)
RECURSIVE Fields(_, _)
Fields(s, f) ==
  IF \E q \in 0..(Len(s) - Len(f)) : SubSeq(s, q + 1, q + Len(f)) = f
  THEN LET q == Min({q \in 0..(Len(s) - Len(f)) : SubSeq(s, q + 1, q + Len(f)) = f})
       IN <<SubSeq(s, 1, q)>> \o Fields(SubSeq(s, q + Len(f) + 1, Len(s)), f)
  ELSE <<s>>

(* The pieces KeepEmpty asks for: every field, or the non-empty ones. *)
Pieces(s, f, k) == IF k THEN Fields(s, f) ELSE SelectSeq(Fields(s, f), LAMBDA x : x # <<>>)

(* A script that calls Split with Index 0, 1, 2, ... until Index comes    *)
(* back as -1 has collected exactly the pieces of Str, in order: none is  *)
(* skipped, repeated or cut, whatever separators are adjacent, leading or *)
(* trailing.  Each call rescans Str from Pos 0, counting pieces.          *)
SplitIterationComplete ==
  (op = "split" /\ pc = "done") => out = Pieces(input, find, keep)

(* Every call of Split or Replace returns: the loops inside FxSplit and   *)
(* FxReplace, and the script's Index loop, end.                          *)
NativesReturn == <>(pc = "done")

=============================================================================
