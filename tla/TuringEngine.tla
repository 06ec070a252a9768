---------------------------- MODULE TuringEngine ----------------------------
(***************************************************************************)
(* The resumable execution engine of the Turing script interpreter         *)
(* (src/NeoLoader/Common/TuringEngine/TuringEngine.cpp).                   *)
(*                                                                         *)
(* A compiled script is a map from function names to instruction           *)
(* sequences (m_FxMap).  One invocation is a chain of SExecutionState      *)
(* frames: stack[1] is the frame the host entered, stack[k+1] is the       *)
(* SubState of stack[k].  While the engine runs, the C++ call stack        *)
(* EnterFunction -> ExecuteFunction -> ExecuteOp -> EnterFunction ...      *)
(* holds frames 1..lvl; frames above lvl are retained SubStates that a     *)
(* resume has not yet descended into.  Each iteration of the frame loop    *)
(* of ExecuteFunction, and each return through EnterFunction, is one step. *)
(*                                                                         *)
(* Data is abstracted away: an equation, a goto condition or the argument  *)
(* list of a call either succeeds or fails, a condition is TRUE or FALSE,  *)
(* a function pointer names one of a small set of functions.  Time is the  *)
(* tick counter GetCurTick, advanced by Tick between steps.                *)
(***************************************************************************)
EXTENDS Integers, Sequences, SequencesExt, FiniteSets

CONSTANTS
  Funcs,            \* names of the script functions (m_FxMap)
  Natives,          \* names of the registered native functions (m_ExtFxMap)
  Body,             \* [Funcs -> Seq(Instr)]: the compiled FxVector of each function
  NatRes,           \* [Natives -> SUBSET Codes]: what each native handler may return
  Entry,            \* the function the host enters
  DepthLimit,       \* DepthLimit argument of the host's EnterFunction (DEPTH_LIMIT)
  TimeLimit,        \* TimeLimit argument of the host's EnterFunction (TIME_LIMIT)
  PreemptionDelay,  \* PREEMPTION_DELAY
  InitBreaks,       \* breakpoints of "?"-marked lines, set by CompileScript
  BreakLocs,        \* instruction positions the host may set breakpoints on
  ReloadSuspended,  \* may the host reload the script while it holds a suspended chain
  MaxTick,          \* bound on GetCurTick
  MaxGen            \* bound on the number of script reloads

(* Status codes, TuringEngine.h lines 17-30. *)
FX_PAUSE == 4
FX_TERMINATE == 3
FX_BREAK == 2
FX_INTERRUPT == 1
FX_OK == 0
FX_ERR_NOTFOUND == -1
FX_ERR_ARGUMENT == -2
FX_ERR_INTERRUPT == -4
FX_ERR_FLOW == -5
FX_ERR_STACK == -6
FX_ERR_TIME == -7
FX_ERR_NATIVE == -8
FX_ERR_CALL == -9
Codes == {FX_PAUSE, FX_TERMINATE, FX_BREAK, FX_INTERRUPT, FX_OK, FX_ERR_NOTFOUND,
          FX_ERR_ARGUMENT, FX_ERR_INTERRUPT, FX_ERR_FLOW, FX_ERR_STACK,
          FX_ERR_TIME, FX_ERR_NATIVE, FX_ERR_CALL}

(* An SOp: kind, label (Label/Goto), whether a Goto has a condition,       *)
(* the callee names a Call may resolve to, and whether evaluating its      *)
(* equation, condition or arguments may fail.                              *)
Instr == [op : {"Label", "Goto", "Equation", "Function"}, label : STRING,
          cond : BOOLEAN, fn : SUBSET STRING, fail : BOOLEAN]

(* A breakpoint's SBreak: iMode 1, iMode 0 (log only), or with Conditions. *)
BreakModes == {"stop", "log", "cond"}

NoCall == [fn |-> "", ok |-> FALSE]

ASSUME /\ Funcs \cap Natives = {}
       /\ Entry \in Funcs
       /\ \A f \in Funcs : Body[f] \in Seq(Instr) /\ Len(Body[f]) > 0
       /\ DepthLimit \in 1..65535 /\ TimeLimit \in Nat /\ PreemptionDelay \in Nat
       /\ ReloadSuspended \in BOOLEAN

VARIABLES
  stack,   \* the SExecutionState chain
  lvl,     \* innermost frame whose ExecuteFunction is on the C++ stack (0: host has control)
  pc,      \* "idle" (host), "loop" (frame lvl iterates), "ret" (frame lvl's ExecuteFunction
           \* returned rc), and for ExecuteDebug: "dop" (it calls ExecuteOp on frame lvl),
           \* "dret" (ExecuteOp returned rc to it), "dloop" (its step-out loop)
  rc,      \* the status code being returned
  slot,    \* the host passed a pResumeState to EnterFunction
  breaks,  \* m_BreakPoints: [positions -> BreakModes]
  gen,     \* generation of m_FxMap; Cleanup frees every FxVector
  now,     \* GetCurTick()
  spent,   \* ticks spent running in the current top-level invocation (history)
  dlvl     \* the frame ExecuteDebug runs ExecuteOp on (0: none)

vars == <<stack, lvl, pc, rc, slot, breaks, gen, now, spent, dlvl>>

-----------------------------------------------------------------------------
(* Helpers *)

Frame == [fx : Funcs, gen : Nat, ptr : Nat, depth : 0..65535, tl : Int,
          pause : Int, debug : BOOLEAN,
          call : {NoCall} \cup [fn : STRING, ok : BOOLEAN]]

OpOf(f) == Body[f.fx][f.ptr]

AtEnd(f) == f.ptr > Len(Body[f.fx])

NextOp(f) == [f EXCEPT !.ptr = @ + 1]

(* CTuringEngine::GetBreak: breakpoints are keyed by the SOp of the        *)
(* current script; an SOp of a discarded script has none.                 *)
GetBreak(f) ==
  IF f.gen = gen /\ <<f.fx, f.ptr>> \in DOMAIN breaks THEN breaks[<<f.fx, f.ptr>>]
  ELSE "none"

(* CTuringEngine::BreakOp: does the breakpoint stop execution?  A log-only *)
(* breakpoint never does, a conditional one when its condition holds.      *)
BreakOp(m) == CASE m = "stop" -> {TRUE}
                [] m = "cond" -> BOOLEAN
                [] OTHER      -> {FALSE}

(* The breakpoint check of the ExecuteFunction loop may let the frame go on. *)
MayPassBreak(f) == f.debug \/ FALSE \in BreakOp(GetBreak(f))

(* The preemption deadline has passed. *)
PauseDue(f) == f.pause # 0 /\ f.pause < now

(* The checks at the top of the ExecuteFunction loop let the instruction   *)
(* at the cursor run.                                                       *)
NoStop(f) ==
  /\ ~AtEnd(f)
  /\ f.tl >= now
  /\ MayPassBreak(f)
  /\ ~PauseDue(f)

(* The frame after the breakpoint check: resuming a stopped breakpoint     *)
(* clears bDebug.                                                           *)
Checked(f) == IF GetBreak(f) # "none" /\ f.debug THEN [f EXCEPT !.debug = FALSE] ELSE f

(* CTuringEngine::IsValidPointer on the frame's FxVector.  On an FxVector  *)
(* freed by Cleanup the scan reads freed memory: either answer.            *)
ValidPointer(f) == IF f.gen = gen THEN {~AtEnd(f)} ELSE BOOLEAN

(* Entry of ExecuteFunction: arm preemption, make the time limit absolute. *)
Prologue(f) ==
  [f EXCEPT !.pause = IF @ # 0 THEN now + PreemptionDelay ELSE 0, !.tl = @ + now]

(* The SExecutionState constructor, with --DepthLimit on a uint16. *)
NewState(fx, pre, depth, tl) ==
  [fx |-> fx, gen |-> gen, ptr |-> 1, depth |-> (depth - 1) % 65536, tl |-> tl,
   pause |-> IF pre THEN -1 ELSE 0, debug |-> FALSE, call |-> NoCall]

FinishCall(f) == [f EXCEPT !.call = NoCall]

(* A Walker that is taken as the target even when it ran to the end. *)
LabelIndex_WalkerEnd(fx, l) ==
  LET i == SelectInSeq(Body[fx], LAMBDA o : o.op = "Label" /\ o.label = l)
  IN IF i = 0 THEN Len(Body[fx]) + 1 ELSE i

(* The label a Goto jumps to: the first Label op of that name, 0 if none. *)
LabelIndex(fx, l) == SelectInSeq(Body[fx], LAMBDA o : o.op = "Label" /\ o.label = l)

-----------------------------------------------------------------------------
(* Mutants of the helpers below, for the mutation runs. *)

Retain_AlsoTerminate(r) == r > FX_OK
DepthExhausted_Never(d) == FALSE
AfterCall_FinishFirst(c, r) == FinishCall(c)
Paused_Advanced(f) == NextOp(f)
CalleeTimeLimit_Absolute(g) == g.tl

-----------------------------------------------------------------------------

(* EnterFunction keeps a frame whose ExecuteFunction returned an interrupt *)
(* status other than FX_TERMINATE.                                         *)
Retain(r) == r > FX_OK /\ r # FX_TERMINATE

(* EnterFunction refuses the call: the caller's depth budget is used up. *)
DepthExhausted(d) == d = 0

(* ExecuteOp after the callee returned r: an interrupt keeps the           *)
(* CallState for the resume, anything else finishes the call.              *)
AfterCall(c, r) == IF r > FX_OK THEN c ELSE FinishCall(c)

(* The frame as it is left when the loop breaks for preemption. *)
Paused(f) == f

(* The TimeLimit ExecuteOp passes to EnterFunction: the caller's limit,    *)
(* made relative just before.                                               *)
CalleeTimeLimit(g) == g.tl - now

-----------------------------------------------------------------------------
(* Step helpers on frame lvl *)

Running == pc = "loop" /\ lvl > 0

Cur == stack[lvl]

(* The frames above the innermost active one: kept SubStates. *)
Above == SubSeq(stack, lvl + 1, Len(stack))

(* The loop breaks with status r; ExecuteFunction makes the limit relative. *)
ExitWith(r, f) ==
  /\ stack' = [stack EXCEPT ![lvl] = [f EXCEPT !.tl = @ - now]]
  /\ pc' = "ret" /\ rc' = r
  /\ UNCHANGED lvl

-----------------------------------------------------------------------------
(* ExecuteOp.  Each operator gives the outcomes of one kind of SOp on frame *)
(* g, whose limit is absolute: the frame as ExecuteOp leaves it, before the *)
(* loop's Pointer++, and the status it returns.  Entering a script         *)
(* function is the action CallEnter.                                        *)

Out(f, r) == [f |-> f, r |-> r]

(* A Label does nothing. *)
LabelOutcomes(g) == {Out(g, FX_OK)}

(* DoEquation succeeds or fails. *)
EquationOutcomes(g) ==
  IF OpOf(g).fail THEN {Out(g, FX_OK), Out(g, FX_ERR_ARGUMENT)} ELSE {Out(g, FX_OK)}

(* The condition fails to evaluate, does not hold, or holds; a jump puts    *)
(* the cursor on the first label of that name, or fails without one.      *)
GotoOutcomes(g) ==
  LET o == OpOf(g)
      t == LabelIndex(g.fx, o.label)
      jump == IF t = 0 THEN Out(g, FX_ERR_FLOW) ELSE Out([g EXCEPT !.ptr = t], FX_OK)
  IN (IF o.cond /\ o.fail THEN {Out(g, FX_ERR_ARGUMENT)} ELSE {})
     \cup (IF o.cond THEN {Out(g, FX_OK)} ELSE {})
     \cup {jump}

(* The CallState to dispatch: the pending one, or a new one from           *)
(* PrepareCall, which resolves a function pointer.                         *)
Prepared(g) ==
  IF g.call # NoCall THEN {g.call} ELSE {[fn |-> n, ok |-> TRUE] : n \in OpOf(g).fn}

(* PrepareCall fails on an argument; the CallState it created stays. *)
PrepareFailedOutcomes(g) ==
  IF g.call = NoCall /\ OpOf(g).fail
  THEN {Out([g EXCEPT !.call = [fn |-> n, ok |-> FALSE]], FX_ERR_ARGUMENT) : n \in OpOf(g).fn}
  ELSE {}

(* CallFunction runs a native handler. *)
NativeOutcomes(g) ==
  UNION {{Out(AfterCall([g EXCEPT !.call = cs], r), r) : r \in NatRes[cs.fn]} :
           cs \in {c \in Prepared(g) : c.fn \in Natives}}

(* Neither registry knows the callee: FX_ERR_NOTFOUND becomes FX_ERR_CALL. *)
NotFoundOutcomes(g) ==
  {Out(FinishCall(g), FX_ERR_CALL) : cs \in {c \in Prepared(g) : c.fn \notin Natives \cup Funcs}}

(* EnterFunction refuses a script function: stack limit. *)
StackLimitOutcomes(g) ==
  IF DepthExhausted(g.depth)
  THEN {Out(FinishCall(g), FX_ERR_STACK) : cs \in {c \in Prepared(g) : c.fn \in Funcs}}
  ELSE {}

(* ExecuteOp runs on frame lvl: called by the ExecuteFunction loop once its *)
(* checks passed, or by ExecuteDebug on the frame it steps (dlvl).          *)
OpCaller ==
  \/ Running /\ NoStop(Cur)
  \/ pc = "dop" /\ lvl = dlvl /\ ~AtEnd(Cur)

OpFrame == IF pc = "dop" THEN Cur ELSE Checked(Cur)

(* What follows ExecuteOp on frame k, now the innermost one on the C++      *)
(* stack: the loop steps past the op on FX_OK and otherwise breaks, making  *)
(* the limit relative; ExecuteDebug (k = dlvl) takes the result as it is.   *)
(* The frames above k become `above`.                                       *)
Resolve(k, o, above) ==
  /\ stack' = Append(SubSeq(stack, 1, k - 1),
                     CASE k = dlvl    -> o.f
                       [] o.r = FX_OK -> NextOp(o.f)
                       [] OTHER       -> [o.f EXCEPT !.tl = @ - now])
              \o above
  /\ pc' = CASE k = dlvl -> "dret" [] o.r = FX_OK -> "loop" [] OTHER -> "ret"
  /\ rc' = o.r
  /\ lvl' = k

-----------------------------------------------------------------------------
(* Host operations *)

Init ==
  /\ stack = <<>> /\ lvl = 0 /\ pc = "idle" /\ rc = FX_OK /\ slot = FALSE
  /\ breaks = InitBreaks /\ gen = 0 /\ now = 0 /\ spent = 0 /\ dlvl = 0

(* The host calls EnterFunction(Entry, ..., pResumeState, ..., Preemption, *)
(* DepthLimit, TimeLimit) with no state to resume.                         *)
EnterFunction(pre, withSlot) ==
  /\ pc = "idle" /\ stack = <<>>
  /\ stack' = <<Prologue(NewState(Entry, pre, DepthLimit, TimeLimit))>>
  /\ lvl' = 1 /\ pc' = "loop" /\ slot' = withSlot /\ spent' = 0
  /\ UNCHANGED <<rc, breaks, gen, now, dlvl>>

(* The host calls EnterFunction again with the state it kept; the         *)
(* cursor check of ExecuteFunction runs first.                             *)
ResumeFunction ==
  /\ pc = "idle" /\ stack # <<>> /\ slot
  /\ \E valid \in ValidPointer(stack[1]) :
       IF valid
       THEN /\ stack' = [stack EXCEPT ![1] = Prologue(@)]
            /\ lvl' = 1 /\ pc' = "loop"
            /\ UNCHANGED rc
       ELSE /\ stack' = <<>> /\ rc' = FX_ERR_INTERRUPT
            /\ UNCHANGED <<lvl, pc>>
  /\ UNCHANGED <<slot, breaks, gen, now, spent, dlvl>>

(* The host deletes the state it kept instead of resuming it. *)
DiscardState ==
  /\ pc = "idle" /\ stack # <<>>
  /\ stack' = <<>>
  /\ UNCHANGED <<lvl, pc, rc, slot, breaks, gen, now, spent, dlvl>>

(* CTuringEngine::SetBreak / ClearBreak, from the host between runs. *)
SetBreak(loc, m) ==
  /\ pc = "idle"
  /\ breaks' = [l \in DOMAIN breaks \cup {loc} |-> IF l = loc THEN m ELSE breaks[l]]
  /\ UNCHANGED <<stack, lvl, pc, rc, slot, gen, now, spent, dlvl>>

ClearBreak(loc) ==
  /\ pc = "idle" /\ loc \in DOMAIN breaks
  /\ breaks' = [l \in DOMAIN breaks \ {loc} |-> breaks[l]]
  /\ UNCHANGED <<stack, lvl, pc, rc, slot, gen, now, spent, dlvl>>

(* CTuringParser::ParseScript: Cleanup frees every FxVector and breakpoint,*)
(* CompileScript rebuilds them from the same source.                        *)
ParseScript ==
  /\ pc = "idle" /\ gen < MaxGen
  /\ ReloadSuspended \/ stack = <<>>
  /\ gen' = gen + 1 /\ breaks' = InitBreaks
  /\ UNCHANGED <<stack, lvl, pc, rc, slot, now, spent, dlvl>>

(* GetCurTick advances while the host has control or between two         *)
(* instructions; the returns through EnterFunction take no time.           *)
Tick ==
  /\ now < MaxTick /\ pc \in {"idle", "loop", "dloop"}
  /\ now' = now + 1
  /\ spent' = IF pc = "idle" THEN spent ELSE spent + 1
  /\ UNCHANGED <<stack, lvl, pc, rc, slot, breaks, gen, dlvl>>

-----------------------------------------------------------------------------
(* One iteration of the ExecuteFunction loop on frame lvl *)

LoopEnd ==
  /\ Running /\ AtEnd(Cur)
  /\ ExitWith(FX_OK, Cur)
  /\ UNCHANGED <<slot, breaks, gen, now, spent, dlvl>>

TimeLimitReached ==
  /\ Running /\ ~AtEnd(Cur) /\ Cur.tl < now
  /\ ExitWith(FX_ERR_TIME, Cur)
  /\ UNCHANGED <<slot, breaks, gen, now, spent, dlvl>>

BreakpointHit ==
  /\ Running /\ ~AtEnd(Cur) /\ Cur.tl >= now
  /\ ~Cur.debug /\ TRUE \in BreakOp(GetBreak(Cur))
  /\ ExitWith(FX_BREAK, [Cur EXCEPT !.debug = TRUE])
  /\ UNCHANGED <<slot, breaks, gen, now, spent, dlvl>>

PreemptionPause ==
  /\ Running /\ ~AtEnd(Cur) /\ Cur.tl >= now
  /\ MayPassBreak(Cur)
  /\ PauseDue(Cur)
  /\ ExitWith(FX_PAUSE, Paused(Checked(Cur)))
  /\ UNCHANGED <<slot, breaks, gen, now, spent, dlvl>>

(* ExecuteOp on a Label, an Equation or a Goto. *)
ExecLabel ==
  /\ OpCaller /\ OpOf(Cur).op = "Label"
  /\ \E o \in LabelOutcomes(OpFrame) : Resolve(lvl, o, Above)
  /\ UNCHANGED <<slot, breaks, gen, now, spent, dlvl>>

ExecEquation ==
  /\ OpCaller /\ OpOf(Cur).op = "Equation"
  /\ \E o \in EquationOutcomes(OpFrame) : Resolve(lvl, o, Above)
  /\ UNCHANGED <<slot, breaks, gen, now, spent, dlvl>>

ExecGoto ==
  /\ OpCaller /\ OpOf(Cur).op = "Goto"
  /\ \E o \in GotoOutcomes(OpFrame) : Resolve(lvl, o, Above)
  /\ UNCHANGED <<slot, breaks, gen, now, spent, dlvl>>

(* ExecuteOp on a Function op, when the call does not enter a script       *)
(* function: PrepareCall fails, a native runs, the callee is unknown, or   *)
(* the depth budget is used up.                                             *)
CallOp == OpCaller /\ OpOf(Cur).op = "Function"

PrepareCallFailed ==
  /\ CallOp
  /\ \E o \in PrepareFailedOutcomes(OpFrame) : Resolve(lvl, o, Above)
  /\ UNCHANGED <<slot, breaks, gen, now, spent, dlvl>>

CallNative ==
  /\ CallOp
  /\ \E o \in NativeOutcomes(OpFrame) : Resolve(lvl, o, Above)
  /\ UNCHANGED <<slot, breaks, gen, now, spent, dlvl>>

CallNotFound ==
  /\ CallOp
  /\ \E o \in NotFoundOutcomes(OpFrame) : Resolve(lvl, o, Above)
  /\ UNCHANGED <<slot, breaks, gen, now, spent, dlvl>>

CallStackLimit ==
  /\ CallOp
  /\ \E o \in StackLimitOutcomes(OpFrame) : Resolve(lvl, o, Above)
  /\ UNCHANGED <<slot, breaks, gen, now, spent, dlvl>>

(* EnterFunction on a script function: the caller's limit is made relative *)
(* and passed on; the SubState is resumed, or a frame is created with      *)
(* --DepthLimit; then ExecuteFunction's cursor check and prologue.  A      *)
(* failed cursor check deletes the callee and fails the call.               *)
CallEnter ==
  /\ CallOp
  /\ \E cs \in Prepared(OpFrame) :
       /\ cs.fn \in Funcs /\ ~DepthExhausted(Cur.depth)
       /\ LET g == [OpFrame EXCEPT !.call = cs]
              sub == IF lvl < Len(stack) THEN stack[lvl + 1]
                     ELSE NewState(cs.fn, g.pause # 0, g.depth, CalleeTimeLimit(g))
          IN \E valid \in ValidPointer(sub) :
               IF valid
               THEN /\ stack' = Append(SubSeq(stack, 1, lvl - 1), [g EXCEPT !.tl = @ - now])
                                \o <<Prologue(sub)>> \o SubSeq(stack, lvl + 2, Len(stack))
                    /\ lvl' = lvl + 1 /\ pc' = "loop"
                    /\ UNCHANGED rc
               ELSE Resolve(lvl, Out(FinishCall(g), FX_ERR_INTERRUPT), <<>>)
  /\ UNCHANGED <<slot, breaks, gen, now, spent, dlvl>>

-----------------------------------------------------------------------------
(* Returns through EnterFunction *)

(* Into the caller's ExecuteOp: the frame is kept as SubState or deleted,  *)
(* the caller's limit is made absolute again and the CallState finished    *)
(* unless the callee was interrupted.                                       *)
ReturnToCaller ==
  /\ pc = "ret" /\ lvl > 1
  /\ Resolve(lvl - 1, Out(AfterCall([stack[lvl - 1] EXCEPT !.tl = @ + now], rc), rc),
             IF Retain(rc) THEN SubSeq(stack, lvl, Len(stack)) ELSE <<>>)
  /\ UNCHANGED <<slot, breaks, gen, now, spent, dlvl>>

(* Back to the host: the chain is kept only in the host's slot. *)
ReturnToHost ==
  /\ pc = "ret" /\ lvl = 1
  /\ IF Retain(rc) /\ slot
     THEN UNCHANGED <<stack, rc>>
     ELSE /\ stack' = <<>>
          /\ rc' = IF Retain(rc) THEN FX_ERR_INTERRUPT ELSE rc
  /\ pc' = "idle" /\ lvl' = 0
  /\ UNCHANGED <<slot, breaks, gen, now, spent, dlvl>>

-----------------------------------------------------------------------------

HostNext ==
  \/ \E pre, withSlot \in BOOLEAN : EnterFunction(pre, withSlot)
  \/ ResumeFunction
  \/ DiscardState
  \/ \E loc \in BreakLocs, m \in BreakModes : SetBreak(loc, m)
  \/ \E loc \in BreakLocs : ClearBreak(loc)
  \/ ParseScript
  \/ Tick

EngineNext ==
  \/ LoopEnd \/ TimeLimitReached \/ BreakpointHit \/ PreemptionPause
  \/ ExecLabel \/ ExecEquation \/ ExecGoto
  \/ PrepareCallFailed \/ CallNative \/ CallNotFound \/ CallStackLimit \/ CallEnter
  \/ ReturnToCaller \/ ReturnToHost

Next == HostNext \/ EngineNext

Spec == Init /\ [][Next]_vars

-----------------------------------------------------------------------------
(* Properties *)

TypeOK ==
  /\ stack \in Seq(Frame)
  /\ \A k \in 1..Len(stack) : stack[k].ptr \in 1..(Len(Body[stack[k].fx]) + 1)
  /\ lvl \in 0..Len(stack)
  /\ pc \in {"idle", "loop", "ret", "dop", "dret", "dloop"}
  /\ dlvl \in 0..Len(stack)
  /\ rc \in Codes
  /\ slot \in BOOLEAN
  /\ gen \in 0..MaxGen
  /\ now \in 0..MaxTick
  /\ spent \in 0..MaxTick

(* Every frame below the innermost one is suspended in a call of the next *)
(* one: its cursor is on a Function op and its CallState names the next    *)
(* frame's function (ExecuteOp keeps the CallState when the callee is      *)
(* interrupted, EnterFunction keeps the callee as SubState).  A CallState  *)
(* lost or left behind makes the resume call the wrong function or re-run  *)
(* PrepareCall on arguments already consumed.                              *)
ChainMirrorsCalls ==
  \A k \in 1..(Len(stack) - 1) :
     /\ ~AtEnd(stack[k]) /\ OpOf(stack[k]).op = "Function"
     /\ stack[k].call # NoCall /\ stack[k].call.fn = stack[k + 1].fx

(* The depth budget decreases by one per nested frame, so the chain never *)
(* grows past the DepthLimit the host passed: EnterFunction refuses the    *)
(* call when the caller's budget is 0 and the new frame gets --DepthLimit. *)
DepthBudget ==
  /\ Len(stack) <= DepthLimit
  /\ \A k \in 1..Len(stack) : stack[k].depth = DepthLimit - k

(* Between invocations every kept frame's TimeLimit is relative again and *)
(* no larger than the TIME_LIMIT the chain started with: ExecuteFunction   *)
(* adds GetCurTick() on entry and subtracts it on exit, and ExecuteOp      *)
(* hands a callee the caller's remaining time, made relative just before   *)
(* (line 731).  A frame leaving with an absolute or doubly rebased limit   *)
(* would get an ever later deadline on each resume.                        *)
TimeBudgetBounded ==
  pc = "idle" => \A k \in 1..Len(stack) : stack[k].tl <= TimeLimit

(* When the host holds a chain between invocations it was kept on purpose *)
(* and can be resumed: the host passed a pResumeState, the last status was *)
(* an interrupt (not FX_TERMINATE, not an error), and after FX_BREAK some  *)
(* frame carries the bDebug mark that lets the resume step over the        *)
(* breakpoint.  Otherwise EnterFunction must have deleted the chain.       *)
SuspendedChainResumable ==
  pc = "idle" /\ stack # <<>> =>
     /\ slot
     /\ rc \in {FX_PAUSE, FX_BREAK, FX_INTERRUPT}
     /\ \A k \in 1..Len(stack) : ~AtEnd(stack[k])
     /\ rc = FX_BREAK => \E k \in 1..Len(stack) : stack[k].debug

(* The engine's whole execution, seen as the call and cursor stack of      *)
(* AbstractInterp: suspending, resuming, time, depth and breakpoint checks *)
(* never move a cursor, and a call op is passed only once its callee       *)
(* returned.                                                                *)
Abs == INSTANCE AbstractInterp
         WITH astack <- [k \in 1..Len(stack) |-> [fx |-> stack[k].fx, ptr |-> stack[k].ptr]]

ImplementsAbstractInterp == Abs!ASpec

(* An operation of the script being run is always one of the loaded       *)
(* script: ExecuteFunction checks the resume cursor on every entrance so   *)
(* that a chain kept across a reload of the script is rejected.            *)
NoStaleExecution == pc \in {"loop", "dop"} => stack[lvl].gen = gen

(* A top-level invocation, with all its nested calls, runs no instruction *)
(* once it has used up TimeLimit ticks of running time: ExecuteFunction's *)
(* deadline check, with ExecuteOp turning the limit relative around each   *)
(* nested call.                                                             *)
InvocationWithinTimeLimit == Running /\ NoStop(Cur) => spent <= TimeLimit

(* A breakpoint stops a frame, marking it bDebug, before its instruction *)
(* starts, never while the frame is in the middle of a call it already     *)
(* dispatched: ExecuteOp keeps the CallState of an interrupted call, and   *)
(* the breakpoint check of the ExecuteFunction loop runs again on the call *)
(* op when the frame resumes.                                               *)
BreakOnlyBeforeDispatch == \A k \in 1..Len(stack) : stack[k].debug => stack[k].call = NoCall

====
