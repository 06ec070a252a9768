----------------------------- MODULE TuringDebug -----------------------------
(***************************************************************************)
(* The debug engine of the Turing interpreter: CTuringEngine::PrepareDebug *)
(* and ExecuteDebug (TuringEngine.cpp), layered on the execution engine.   *)
(*                                                                         *)
(* The host keeps a stack of SDebugState records (pDebugState, linked      *)
(* through pSupState).  PrepareDebug pushes one whose Scope is the         *)
(* innermost frame of the kept chain (its pCallerState is the frame below).*)
(* ExecuteDebug runs the top record's operation on that frame: interleave  *)
(* an extra SOp, single-step, skip, step in or step out.  A single step or *)
(* a step out runs ExecuteOp, which may enter script functions through the *)
(* engine's own EnterFunction/ExecuteFunction; those steps are the         *)
(* actions of TuringEngine, with ExecuteOp's caller at frame dlvl.  A      *)
(* record is popped when its operation returns FX_OK or an error and kept  *)
(* when it was interrupted, to be executed again.                          *)
(***************************************************************************)
EXTENDS TuringEngine

CONSTANTS
  InterleaveOps,    \* the SOps the host may pass to PrepareDebug for eInterleaveOp
  MaxDebug,         \* bound on the length of the pDebugState chain
  HostChecksCursor, \* the host never steps, skips or steps in at the end of a function
  MaxFrames         \* bound on the length of the chain StepIn may grow

VARIABLE dstack     \* the pDebugState chain, dstack[Len(dstack)] = pDebugState

dvars == <<vars, dstack>>

DebugOps == {"InterleaveOp", "SingleStep", "SkipStep", "StepIn", "StepOut"}

(* pOp of a record that does not interleave. *)
NoOp == [op |-> "Label", label |-> "", cond |-> FALSE, fn |-> {}, fail |-> FALSE]

(* An SDebugState: its DebugOp, pOp, the frame its Scope points to, and    *)
(* whether ExecuteDebug already ran it (a kept, interrupted record).        *)
DebugState == [op : DebugOps, iop : Instr, at : Nat, run : BOOLEAN]

ASSUME /\ InterleaveOps \subseteq Instr /\ \A o \in InterleaveOps : o.op = "Equation"
       /\ MaxDebug \in Nat /\ HostChecksCursor \in BOOLEAN /\ MaxFrames \in Nat

-----------------------------------------------------------------------------
(* Helpers *)

DTop == dstack[Len(dstack)]

(* CTuringEngine::IsValidFunction: the FxVector is one of m_FxMap. *)
IsValidFunction(f) == f.gen = gen

(* TimeLimit += GetCurTick() at the start of ExecuteDebug. *)
Based(f) == [f EXCEPT !.tl = @ + now]

(* The record is marked as executed. *)
Marked == [dstack EXCEPT ![Len(dstack)].run = TRUE]

(* The cursor after a skip. *)
SkipTarget_Twice(f) == [f EXCEPT !.ptr = @ + 2]
SkipTarget(f) == NextOp(f)

(* A record is popped unless its operation was interrupted. *)
DebugPopped(r) == r <= FX_OK

(* StepIn's PrepareCall: a CallState for callee n. *)
StepInCall_Unset(f, n) == f
StepInCall(f, n) == [f EXCEPT !.call = [fn |-> n, ok |-> TRUE]]

(* The SubState StepIn creates: the caller's NextPause != 0, DepthLimit    *)
(* and TimeLimit, the latter absolute at that point.                        *)
StepInState(g) == [NewState(g.call.fn, g.pause # 0, g.depth, g.tl) EXCEPT !.depth = g.depth]

(* Going up to pCallerState: the frame and its SubStates are deleted, the  *)
(* caller's call is finished and its cursor moves past the call.           *)
Unwind(ch, k) == [SubSeq(ch, 1, k - 1) EXCEPT ![k - 1] = NextOp(FinishCall(@))]

(* The end of ExecuteDebug on frame k of chain ch, with status r: the      *)
(* limit is made relative again, bStepOut (b) goes up to the caller if     *)
(* there is one, and the record is popped or kept.                         *)
DebugFinish(ch, k, r, b) ==
  LET rel == [ch EXCEPT ![k].tl = @ - now]
  IN /\ stack' = IF b /\ k > 1 THEN Unwind(rel, k) ELSE rel
     /\ dstack' = IF DebugPopped(r) THEN Front(dstack) ELSE Marked
     /\ rc' = r /\ pc' = "idle" /\ lvl' = 0 /\ dlvl' = 0
     /\ UNCHANGED <<slot, breaks, gen, now, spent>>

-----------------------------------------------------------------------------
(* Host operations *)

DInit == Init /\ dstack = <<>>

(* PrepareDebug: the Scope descends the SubState chain to its end.  The    *)
(* host prepares a record only when every record below was executed, and,  *)
(* if it checks the cursor, steps, skips or steps in only where the        *)
(* innermost cursor is on an SOp.  The model bounds the chain StepIn      *)
(* grows by MaxFrames.                                                      *)
PrepareDebug(op, iop) ==
  /\ pc = "idle" /\ stack # <<>> /\ Len(dstack) < MaxDebug
  /\ \A i \in 1..Len(dstack) : dstack[i].run
  /\ HostChecksCursor /\ op \in {"SingleStep", "SkipStep", "StepIn"} => ~AtEnd(stack[Len(stack)])
  /\ op = "StepIn" => Len(stack) < MaxFrames
  /\ dstack' = Append(dstack, [op |-> op, iop |-> iop, at |-> Len(stack), run |-> FALSE])
  /\ UNCHANGED vars

(* The host calls ExecuteDebug on the top record.  A frame that was       *)
(* deleted is not modelled (the Scope would dangle).                       *)
HostMayExecute == pc = "idle" /\ dstack # <<>> /\ DTop.at <= Len(stack)

(* The scope check: ExecuteDebug refuses only when the function AND the    *)
(* cursor are invalid.                                                      *)
DebugRejected ==
  /\ HostMayExecute
  /\ ~IsValidFunction(stack[DTop.at]) /\ FALSE \in ValidPointer(stack[DTop.at])
  /\ rc' = FX_ERR_INTERRUPT
  /\ UNCHANGED <<stack, lvl, pc, slot, breaks, gen, now, spent, dlvl, dstack>>

Admitted ==
  /\ HostMayExecute
  /\ IsValidFunction(stack[DTop.at]) \/ TRUE \in ValidPointer(stack[DTop.at])

(* eInterleaveOp: ExecuteOp on pOp, an equation. *)
DebugInterleave ==
  /\ Admitted /\ DTop.op = "InterleaveOp"
  /\ LET k == DTop.at IN
       \E r \in IF DTop.iop.fail THEN {FX_OK, FX_ERR_ARGUMENT} ELSE {FX_OK} :
          DebugFinish([stack EXCEPT ![k] = Based(@)], k, r, FALSE)

(* eSingleStep: ExecuteOp on the cursor's SOp. *)
DebugSingleStep ==
  /\ Admitted /\ DTop.op = "SingleStep"
  /\ stack' = [stack EXCEPT ![DTop.at] = Based(@)]
  /\ lvl' = DTop.at /\ dlvl' = DTop.at /\ pc' = "dop" /\ dstack' = Marked
  /\ UNCHANGED <<rc, slot, breaks, gen, now, spent>>

(* eSkipStep: Pointer++; reaching the end steps out. *)
DebugSkipStep ==
  /\ Admitted /\ DTop.op = "SkipStep"
  /\ LET k == DTop.at
         g == SkipTarget(Based(stack[k]))
     IN DebugFinish([stack EXCEPT ![k] = g], k, FX_OK, AtEnd(g))

(* eStepIn: on a Function SOp, PrepareCall; a script function gets a new  *)
(* SubState, anything else fails with FX_ERR_NOTFOUND.  No depth check.    *)
DebugStepIn ==
  /\ Admitted /\ DTop.op = "StepIn"
  /\ LET k == DTop.at
         f == Based(stack[k])
         o == OpOf(f)
     IN /\ ~AtEnd(f)
        /\ \/ o.op # "Function" /\ DebugFinish([stack EXCEPT ![k] = f], k, FX_OK, FALSE)
           \/ /\ o.op = "Function" /\ o.fail
              /\ \E n \in o.fn :
                   DebugFinish([stack EXCEPT ![k] = [f EXCEPT !.call = [fn |-> n, ok |-> FALSE]]],
                               k, FX_ERR_ARGUMENT, FALSE)
           \/ /\ o.op = "Function"
              /\ \E n \in o.fn :
                   LET g == StepInCall(f, n) IN
                   IF n \in Funcs
                   THEN DebugFinish(SubSeq(stack, 1, k - 1) \o <<g, StepInState(g)>>, k, FX_OK, FALSE)
                   ELSE DebugFinish([stack EXCEPT ![k] = FinishCall(g)], k, FX_ERR_NOTFOUND, FALSE)

(* eStepOut: the step-out loop starts on the frame. *)
DebugStepOut ==
  /\ Admitted /\ DTop.op = "StepOut"
  /\ stack' = [stack EXCEPT ![DTop.at] = Based(@)]
  /\ lvl' = DTop.at /\ dlvl' = DTop.at /\ pc' = "dloop" /\ dstack' = Marked
  /\ UNCHANGED <<rc, slot, breaks, gen, now, spent>>

-----------------------------------------------------------------------------
(* ExecuteDebug after ExecuteOp returned to it on frame dlvl *)

(* eSingleStep: FX_OK falls through to eSkipStep, anything else breaks. *)
SingleStepReturned ==
  /\ pc = "dret" /\ lvl = dlvl /\ DTop.op = "SingleStep"
  /\ IF rc = FX_OK
     THEN LET g == SkipTarget(stack[dlvl])
          IN DebugFinish([stack EXCEPT ![dlvl] = g], dlvl, FX_OK, AtEnd(g))
     ELSE DebugFinish(stack, dlvl, rc, FALSE)

(* eStepOut: FX_OK goes on with Pointer++; anything else leaves the loop, *)
(* and a status <= FX_OK steps out.                                        *)
StepOutReturned ==
  /\ pc = "dret" /\ lvl = dlvl /\ DTop.op = "StepOut"
  /\ IF rc = FX_OK
     THEN /\ stack' = [stack EXCEPT ![dlvl] = NextOp(@)]
          /\ pc' = "dloop"
          /\ UNCHANGED <<lvl, rc, slot, breaks, gen, now, spent, dlvl, dstack>>
     ELSE DebugFinish(stack, dlvl, rc, DebugPopped(rc))

(* One iteration of the step-out loop: no breakpoint or preemption check. *)
StepOutEnd ==
  /\ pc = "dloop" /\ AtEnd(stack[dlvl])
  /\ DebugFinish(stack, dlvl, FX_OK, TRUE)

StepOutTimeout ==
  /\ pc = "dloop" /\ ~AtEnd(stack[dlvl]) /\ stack[dlvl].tl < now
  /\ DebugFinish(stack, dlvl, FX_ERR_TIME, DebugPopped(FX_ERR_TIME))

StepOutOp ==
  /\ pc = "dloop" /\ ~AtEnd(stack[dlvl]) /\ stack[dlvl].tl >= now
  /\ pc' = "dop"
  /\ UNCHANGED <<stack, lvl, rc, slot, breaks, gen, now, spent, dlvl, dstack>>

-----------------------------------------------------------------------------

(* The host enters, resumes or discards the chain only when no debug       *)
(* operation is pending on it.                                              *)
DHostNext ==
  \/ /\ dstack = <<>>
     /\ \/ \E pre, withSlot \in BOOLEAN : EnterFunction(pre, withSlot)
        \/ ResumeFunction
        \/ DiscardState
     /\ UNCHANGED dstack
  \/ /\ \/ \E loc \in BreakLocs, m \in BreakModes : SetBreak(loc, m)
        \/ \E loc \in BreakLocs : ClearBreak(loc)
        \/ ParseScript
        \/ Tick
     /\ UNCHANGED dstack
  \/ \E op \in DebugOps \ {"InterleaveOp"} : PrepareDebug(op, NoOp)
  \/ \E iop \in InterleaveOps : PrepareDebug("InterleaveOp", iop)
  \/ DebugRejected \/ DebugInterleave \/ DebugSingleStep \/ DebugSkipStep
  \/ DebugStepIn \/ DebugStepOut

DEngineNext ==
  \/ EngineNext /\ UNCHANGED dstack
  \/ SingleStepReturned \/ StepOutReturned
  \/ StepOutEnd \/ StepOutTimeout \/ StepOutOp

DNext == DHostNext \/ DEngineNext

DSpec == DInit /\ [][DNext]_dvars

-----------------------------------------------------------------------------
(* Properties *)

DebugTypeOK ==
  /\ TypeOK
  /\ dstack \in Seq(DebugState)
  /\ Len(dstack) <= MaxDebug
  /\ pc \in {"dop", "dret", "dloop"} => dstack # <<>> /\ dlvl = DTop.at

(* Whenever the host has control, every frame below the innermost one is  *)
(* suspended in a call of the next one (ChainMirrorsCalls), also after     *)
(* StepIn created the SubState and after a step-out went up to the caller. *)
KeptChainMirrorsCalls == pc = "idle" => ChainMirrorsCalls

(* Every SDebugState's Scope points to a frame of the kept chain: going up *)
(* to pCallerState deletes the frame a stepped-out record worked on, and   *)
(* the records below must not point to it.                                 *)
DebugScopesLive == \A i \in 1..Len(dstack) : dstack[i].at \in 1..Len(stack)

(* A record the host must execute again (ExecuteDebug returned an          *)
(* interrupt and kept it) stopped in a call: its frame is on a Function    *)
(* SOp with the CallState kept, so executing it again resumes that call    *)
(* through the SubState instead of preparing it anew.                      *)
DebugResumable ==
  pc = "idle" /\ dstack # <<>> /\ DTop.run /\ DTop.at <= Len(stack) =>
     LET f == stack[DTop.at]
     IN ~AtEnd(f) /\ OpOf(f).op = "Function" /\ f.call # NoCall

(* ExecuteDebug runs ExecuteOp only on an SOp of the function: its scope  *)
(* check (line 820) rejects a cursor at end() before *Pointer is read.    *)
DebugDerefsInstruction == pc = "dop" => ~AtEnd(stack[dlvl])

(* A pending CallState belongs to the Function SOp under the cursor: a    *)
(* call is only ever dispatched with arguments prepared for it.  The       *)
(* engine keeps a CallState across an interrupt of that very call.         *)
CallStateMatchesOp ==
  \A k \in 1..Len(stack) :
     stack[k].call # NoCall =>
        ~AtEnd(stack[k]) /\ OpOf(stack[k]).op = "Function" /\ stack[k].call.fn \in OpOf(stack[k]).fn

(* A frame carries bDebug only on the breakpoint that stopped it: the mark *)
(* lets the resume pass that one breakpoint (line 586) and no other.       *)
BreakMarkOnBreakpoint ==
  \A k \in 1..Len(stack) : stack[k].debug => GetBreak(stack[k]) # "none"

(* The debug engine's steps, seen as the call and cursor stack: steps,    *)
(* calls, returns and aborts of AbstractInterp, and skips.                 *)
DAbs == INSTANCE AbstractDebug
          WITH astack <- [k \in 1..Len(stack) |-> [fx |-> stack[k].fx, ptr |-> stack[k].ptr]]

ImplementsAbstractDebug == DAbs!DSpec

====
