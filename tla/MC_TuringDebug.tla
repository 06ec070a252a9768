--------------------------- MODULE MC_TuringDebug ---------------------------
(***************************************************************************)
(* The script of MC_TuringEngine under the debug engine; the host may     *)
(* interleave an equation that may fail.                                   *)
(***************************************************************************)
EXTENDS TuringDebug, MC_TuringEngine

MCInterleaveOps == {I("Equation", "", FALSE, {}, TRUE)}
(* The state without the history variable spent, which no property of   *)
(* the debug runs reads.                                                    *)
DebugView == <<stack, lvl, pc, rc, slot, breaks, gen, now, dlvl, dstack>>
====
