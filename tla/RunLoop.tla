------------------------------- MODULE RunLoop -------------------------------
(***************************************************************************)
(* The same loop with compiled blocks.  A turn first lets Jit::run retire  *)
(* as many instructions as may pass before anything that is counted falls  *)
(* due, accounts for them in bulk, and then interprets one instruction     *)
(* unless the budget was used up.  JitCache is what goes on inside a call: *)
(* its BudgetCeiling is the guard of ChainInsn here.                       *)
(***************************************************************************)
EXTENDS LockStep

CONSTANTS ChainMax,  \* CHAIN_MAX_INSTRUCTIONS
          Window     \* JIT_EXACT_STOP_WINDOW

ASSUME RunLoopAssumption == ChainMax \in Nat /\ Window \in Nat

VARIABLE chain       \* the call of Jit::run, and where the turn came from

vars == <<steps, clock, ticks, thread, multi, shared, next, depth, brk, status, chain>>

NoChain == [budget |-> 0, n |-> 0, from |-> "running"]

CInit == Init /\ chain = NoChain

\* saturating_sub and min.
Less(a, b)  == IF a >= b THEN a - b ELSE 0
Lower(a, b) == IF a <= b THEN a ELSE b

TicksLeft_RunsThrough == IF multi THEN Less(Slice, ticks) ELSE ChainMax

\* WinOs::ticks_left, u64::MAX for a guest with one thread.
TicksLeft == IF multi THEN Less(Slice, ticks + 1) ELSE ChainMax

StepsLeft == IF MaxSteps # 0 THEN Less(MaxSteps, steps) ELSE ChainMax
BreakLeft == IF brk # Never THEN Less(brk, steps) ELSE ChainMax

Budget_NoCap ==
    IF depth # 0 THEN 0
    ELSE Lower(ChainMax, Lower(TicksLeft, Lower(Less(next, steps), BreakLeft)))

\* What may pass before the first of the events falls due.
Budget ==
    IF depth # 0 THEN 0
    ELSE Lower(ChainMax, Lower(TicksLeft, Lower(Less(next, steps), Lower(StepsLeft, BreakLeft))))

\* debug_needs_interpreter, close before a stop.
NeedsInterpreter == brk # Never /\ Less(brk, steps) <= Window

UnchangedLoop == UNCHANGED <<steps, clock, ticks, thread, multi, shared, next, depth, brk>>

EnterChain == /\ Goes /\ ~NeedsInterpreter
              /\ chain' = [budget |-> Budget, n |-> 0, from |-> status]
              /\ status' = "chain"
              /\ UnchangedLoop

InterpretOnly == /\ Goes /\ NeedsInterpreter
                 /\ chain' = [NoChain EXCEPT !.from = status]
                 /\ status' = "step"
                 /\ UnchangedLoop

ChainInsn == /\ status = "chain" /\ chain.n < chain.budget
             /\ chain' = [chain EXCEPT !.n = @ + 1, !.from = "running"]
             /\ UnchangedLoop /\ UNCHANGED status

\* Hooks::retire and the bookkeeping after it.  Were the slice to end here, the
\* scheduler would switch in the middle of what the turn still has to do.
Accounted ==
    LET n == chain.n IN
    IF n = 0 THEN UnchangedLoop
    ELSE /\ steps' = steps + n /\ clock' = clock + n
         /\ ticks' = IF multi /\ ticks + n >= Slice THEN 0 ELSE IF multi THEN ticks + n ELSE ticks
         /\ IF multi /\ ticks + n >= Slice THEN thread' \in Threads ELSE thread' = thread
         /\ Refreshed(steps + n, clock + n)
         /\ depth' \in {0, depth}
         /\ UNCHANGED <<multi, brk>>

\* Run::Executed: the budget is used up, or a breakpoint is next.
Executed == /\ status = "chain" /\ chain.n > 0
            /\ Accounted /\ status' = "running" /\ chain' = NoChain

\* Run::SideExit, NotCompiled and Faulted: an instruction for the interpreter.
LeavesOne == /\ status = "chain" /\ (chain.n < chain.budget \/ chain.n = 0)
             /\ Accounted /\ status' = "step" /\ chain' = [chain EXCEPT !.n = 0]

StepOne == status = "step" /\ Interpreted("running") /\ chain' = NoChain

Stop == (Exhaust \/ DebugStop) /\ UNCHANGED chain

Next == \/ Stop \/ EnterChain \/ InterpretOnly
        \/ ChainInsn \/ Executed \/ LeavesOne \/ StepOne

CSpec == CInit /\ [][Next]_vars

-----------------------------------------------------------------------------
(* The cap and the refresh are exact, however instructions were retired.   *)

\* A run is given up for its instruction budget after exactly that many steps,
\* although a chain retires thousands of them between two looks at the count.
StopsExactly == status = "exhausted" => steps = MaxSteps

\* Every event falls on the instruction it would fall on if the interpreter ran
\* the guest alone: thread switches at the end of a slice, what the shared page
\* shows to each instruction, the cap and the debugger's stop.
Passed == chain.n
Due    == Passed > 0 /\ steps + Passed >= next
Twin   == INSTANCE LockStep WITH
    steps  <- steps + Passed,
    clock  <- clock + Passed,
    ticks  <- IF multi THEN ticks + Passed ELSE ticks,
    shared <- IF Due THEN clock + Passed ELSE shared,
    next   <- IF Due THEN ((steps + Passed) \div Refresh + 1) * Refresh ELSE next,
    status <- IF status \in {"chain", "step"} THEN chain.from ELSE status
RunsInStep == Twin!Spec
=============================================================================
