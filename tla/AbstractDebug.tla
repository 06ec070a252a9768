---------------------------- MODULE AbstractDebug ----------------------------
(***************************************************************************)
(* What the debug engine promises on top of AbstractInterp: besides the    *)
(* engine's own steps, the debugger may skip the instruction at the        *)
(* innermost cursor without executing it.  Stepping in is a call, stepping *)
(* off the end of a function is a return, an error discards innermost      *)
(* functions; no other change of the call and cursor stack is allowed.     *)
(***************************************************************************)
EXTENDS AbstractInterp

(* Skip the instruction at the innermost cursor. *)
ASkip ==
  /\ astack # <<>> /\ ~TopAtEnd
  /\ astack' = [astack EXCEPT ![Len(astack)].ptr = @ + 1]

DNext == ANext \/ ASkip

DSpec == AInit /\ [][DNext]_astack

====
