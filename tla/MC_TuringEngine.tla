-------------------------- MODULE MC_TuringEngine --------------------------
(***************************************************************************)
(* A two-function script for the engine: "main" loops over a call of      *)
(* "sub" and then calls, through a function pointer, the native Wait      *)
(* (which may interrupt) or Quit (which terminates or fails); "sub"       *)
(* evaluates an equation that may fail, calls itself, Wait or an unknown   *)
(* function through a function pointer whose arguments may fail, and has  *)
(* a conditional goto to a label that does not exist.                     *)
(***************************************************************************)
EXTENDS TuringEngine

I(op, label, cond, fn, fail) ==
  [op |-> op, label |-> label, cond |-> cond, fn |-> fn, fail |-> fail]

MCFuncs == {"main", "sub"}
MCNatives == {"Quit", "Wait"}

MCBody ==
  [f \in MCFuncs |->
     IF f = "main"
     THEN << I("Label", "top", FALSE, {}, FALSE),
             I("Function", "", FALSE, {"sub"}, FALSE),
             I("Goto", "top", TRUE, {}, FALSE),
             I("Function", "", FALSE, {"Wait", "Quit"}, FALSE),
             I("Label", "eof", FALSE, {}, FALSE) >>
     ELSE << I("Equation", "", FALSE, {}, TRUE),
             I("Function", "", FALSE, {"sub", "Wait", "Nope"}, TRUE),
             I("Goto", "missing", TRUE, {}, FALSE),
             I("Label", "eof", FALSE, {}, FALSE) >>]

MCNatRes == [n \in MCNatives |->
               IF n = "Quit" THEN {FX_TERMINATE, FX_ERR_NATIVE} ELSE {FX_INTERRUPT, FX_OK}]

MCInitBreaks == <<"sub", 2>> :> "stop"
MCBreakLocs == {<<"main", 2>>}

(* A breakpoint on main's call of sub, and none the host can change. *)
MCCallBreak == <<"main", 2>> :> "stop"
MCNoBreakLocs == {}
====
