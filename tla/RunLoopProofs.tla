---------------------------- MODULE RunLoopProofs ----------------------------
(***************************************************************************)
(* A run with compiled blocks is, event for event, a run of the            *)
(* interpreter, whatever the lengths of the slice, the refresh period, the *)
(* chain and the cap.  And a compiled block that keeps the operands of an  *)
(* instruction instead of its flags leaves what the interpreter leaves.    *)
(***************************************************************************)
EXTENDS DeferredFlags, RunLoop, FiniteSetTheorems, WellFoundedInduction, TLAPS

TypeInv ==
    /\ steps \in Nat /\ clock \in Nat /\ ticks \in Nat /\ shared \in Nat /\ next \in Int
    /\ depth \in Nat /\ multi \in BOOLEAN /\ thread \in Threads
    /\ brk \in Breaks \union {Never}
    /\ status \in {"running", "resumed", "chain", "step", "exhausted", "over"}
    /\ chain \in [budget : Nat, n : Nat, from : {"running", "resumed"}]

\* A chain stays within what was allowed when it began, and nothing it was
\* allowed by has moved since.
WithinBudget == status = "chain" => chain.n <= chain.budget /\ chain.budget = Budget

\* Instructions are outstanding only inside a chain, and a turn that owes the
\* interpreter a step may still take it.
Outstanding ==
    /\ status # "chain" => chain.n = 0
    /\ chain.n > 0 => chain.from = "running"
    /\ status \in {"chain", "step"} /\ chain.n = 0 /\ chain.from = "running"
          => ~Capped /\ ~AtBreak

Inv == TypeInv /\ WithinBudget /\ Outstanding

-----------------------------------------------------------------------------
(* What a budget that is not empty says about the state.                   *)

LEMMA BudgetType == TypeInv => Budget \in Nat
  BY LockStepAssumption, RunLoopAssumption
  DEF TypeInv, Budget, Lower, Less, TicksLeft, StepsLeft, BreakLeft, Never

LEMMA BudgetBounds ==
  ASSUME TypeInv, NEW n \in Nat, n > 0, n <= Budget
  PROVE  /\ depth = 0
         /\ multi => ticks + n < Slice
         /\ steps + n <= next
         /\ MaxSteps # 0 => steps + n <= MaxSteps
         /\ brk # Never => steps + n <= brk
<1>1. depth = 0 /\ n <= Lower(ChainMax, Lower(TicksLeft,
                        Lower(Less(next, steps), Lower(StepsLeft, BreakLeft))))
  BY DEF Budget
<1>t. /\ TicksLeft \in Nat /\ Less(next, steps) \in Nat
      /\ StepsLeft \in Nat /\ BreakLeft \in Nat /\ ChainMax \in Nat
  BY LockStepAssumption, RunLoopAssumption
  DEF TypeInv, Less, TicksLeft, StepsLeft, BreakLeft, Never
<1>2. n <= TicksLeft /\ n <= Less(next, steps) /\ n <= StepsLeft /\ n <= BreakLeft
  BY <1>1, <1>t DEF Lower
<1>3. multi => ticks + n < Slice
  BY <1>2, LockStepAssumption DEF TicksLeft, Less, TypeInv
<1>4. steps + n <= next
  BY <1>2 DEF Less, TypeInv
<1>5. MaxSteps # 0 => steps + n <= MaxSteps
  BY <1>2, LockStepAssumption DEF StepsLeft, Less, TypeInv
<1>6. brk # Never => steps + n <= brk
  BY <1>2, LockStepAssumption DEF BreakLeft, Less, TypeInv, Never
<1> QED BY <1>1, <1>3, <1>4, <1>5, <1>6

\* Bulk accounting within a budget is plain addition: the slice does not end.
LEMMA AccountedExactly ==
  ASSUME Inv, status = "chain", chain.n > 0, Accounted
  PROVE  /\ steps' = steps + chain.n /\ clock' = clock + chain.n
         /\ ticks' = IF multi THEN ticks + chain.n ELSE ticks
         /\ thread' = thread /\ multi' = multi /\ brk' = brk
         /\ depth = 0 /\ depth' = 0
         /\ shared' = IF Due THEN clock + chain.n ELSE shared
         /\ next' = IF Due THEN ((steps + chain.n) \div Refresh + 1) * Refresh ELSE next
<1>0. chain.n \in Nat
  BY DEF Inv, TypeInv
<1>1. depth = 0 /\ (multi => ticks + chain.n < Slice)
  BY <1>0, BudgetBounds DEF Inv, WithinBudget
<1>2. ~(multi /\ ticks + chain.n >= Slice)
  BY <1>0, <1>1, LockStepAssumption DEF Inv, TypeInv
<1>3. chain.n # 0 BY <1>0
<1>4. /\ steps' = steps + chain.n /\ clock' = clock + chain.n
      /\ ticks' = IF multi THEN ticks + chain.n ELSE ticks
      /\ thread' = thread /\ multi' = multi /\ brk' = brk
      /\ depth' = 0
      /\ Refreshed(steps + chain.n, clock + chain.n)
  BY <1>1, <1>2, <1>3 DEF Accounted
<1> QED BY <1>1, <1>4 DEF Refreshed, Due, Passed

\* Without outstanding instructions there is nothing to account for.
LEMMA AccountedNothing ==
  ASSUME Inv, chain.n = 0, Accounted
  PROVE  UnchangedLoop
  BY DEF Accounted

-----------------------------------------------------------------------------
(* The invariant is inductive.                                             *)

LEMMA InitInv == CInit => Inv
<1> SUFFICES ASSUME CInit PROVE Inv
  OBVIOUS
<1>1. chain = [budget |-> 0, n |-> 0, from |-> "running"] /\ status = "running"
  BY DEF CInit, Init, NoChain
<1>2. chain \in [budget : Nat, n : Nat, from : {"running", "resumed"}]
  BY <1>1
<1>3. multi \in BOOLEAN /\ thread \in Threads /\ brk \in Breaks \union {Never}
  BY DEF CInit, Init
<1>4. /\ steps \in Nat /\ clock \in Nat /\ ticks \in Nat /\ shared \in Nat /\ next \in Int
      /\ depth \in Nat
  BY LockStepAssumption DEF CInit, Init
<1>5. TypeInv
  BY <1>1, <1>2, <1>3, <1>4 DEF TypeInv
<1> QED BY <1>1, <1>5 DEF Inv, WithinBudget, Outstanding

\* The page is refreshed with a time, and the next refresh lies at a number.
LEMMA RefreshedType ==
  ASSUME NEW s \in Nat, NEW c \in Nat, Refreshed(s, c), shared \in Nat, next \in Int
  PROVE  shared' \in Nat /\ next' \in Int
<1>1. s \div Refresh \in Int
  BY LockStepAssumption
<1>2. (s \div Refresh + 1) * Refresh \in Int
  BY <1>1, LockStepAssumption
<1> QED BY <1>2 DEF Refreshed

LEMMA InterpretedType ==
  ASSUME TypeInv, status = "step", Interpreted("running"), chain' = NoChain
  PROVE  TypeInv' /\ status' \in {"running", "over"}
<1>1. CASE SwitchStep /\ status' = "running"
  BY <1>1, RefreshedType DEF TypeInv, SwitchStep, Counted, NoChain
<1>2. CASE ExecuteStep /\ status' = "running"
  BY <1>2, RefreshedType DEF TypeInv, ExecuteStep, Counted, TicksOn, NoChain
<1>3. CASE SystemStep /\ status' = "running"
  <2>1. /\ steps' \in Nat /\ clock' \in Nat /\ shared' \in Nat /\ next' \in Int
        /\ depth' \in Nat /\ brk' = brk
    BY <1>3, RefreshedType DEF TypeInv, SystemStep, Counted
  <2>2. ticks' \in Nat
    BY <1>3 DEF TypeInv, SystemStep, TicksOn
  <2>3. multi' \in BOOLEAN /\ thread' \in Threads
    BY <1>3 DEF TypeInv, SystemStep
  <2>4. chain' \in [budget : Nat, n : Nat, from : {"running", "resumed"}]
    BY DEF NoChain
  <2> QED BY <1>3, <2>1, <2>2, <2>3, <2>4 DEF TypeInv
<1>4. CASE FaultStep /\ status' = "running"
  BY <1>4 DEF TypeInv, FaultStep, TicksOn, NoChain
<1>5. CASE LastStep /\ status' = "over"
  BY <1>5 DEF TypeInv, LastStep, TicksOn, NoChain
<1> QED BY <1>1, <1>2, <1>3, <1>4, <1>5 DEF Interpreted

LEMMA AccountedType ==
  ASSUME Inv, status = "chain", Accounted
  PROVE  /\ steps' \in Nat /\ clock' \in Nat /\ ticks' \in Nat /\ shared' \in Nat
         /\ next' \in Int /\ depth' \in Nat /\ multi' \in BOOLEAN /\ thread' \in Threads
         /\ brk' \in Breaks \union {Never}
<1>1. CASE chain.n = 0
  BY <1>1, AccountedNothing DEF Inv, TypeInv, UnchangedLoop
<1>2. CASE chain.n > 0
  <2>1. chain.n \in Nat /\ steps + chain.n \in Nat /\ clock + chain.n \in Nat
    BY DEF Inv, TypeInv
  <2>2. Refreshed(steps + chain.n, clock + chain.n)
    BY <1>2, <2>1 DEF Accounted
  <2>3. shared' \in Nat /\ next' \in Int
    BY <2>1, <2>2, RefreshedType DEF Inv, TypeInv
  <2> QED BY <1>2, <2>1, <2>3, AccountedExactly DEF Inv, TypeInv
<1> QED BY <1>1, <1>2 DEF Inv, TypeInv

LEMMA NextInv == Inv /\ [Next]_vars => Inv'
<1> SUFFICES ASSUME Inv, [Next]_vars PROVE Inv'
  OBVIOUS
<1> USE DEF Inv
<1>1. CASE Stop
  <2>1. chain.n = 0 /\ chain' = chain /\ status = "running"
    BY <1>1 DEF Stop, Exhaust, DebugStop, Outstanding
  <2> QED BY <1>1, <2>1 DEF Stop, Exhaust, DebugStop, TypeInv, WithinBudget, Outstanding
<1>2. CASE EnterChain
  <2>1. Budget' = Budget
    BY <1>2 DEF EnterChain, UnchangedLoop, Budget, Lower, Less, TicksLeft, StepsLeft, BreakLeft
  <2>2. TypeInv'
    BY <1>2, BudgetType DEF EnterChain, UnchangedLoop, Goes, TypeInv
  <2>3. WithinBudget'
    BY <1>2, <2>1, BudgetType DEF EnterChain, WithinBudget
  <2>4. Outstanding'
    BY <1>2 DEF EnterChain, UnchangedLoop, Goes, Outstanding, Capped, AtBreak
  <2> QED BY <2>2, <2>3, <2>4
<1>3. CASE InterpretOnly
  <2>1. chain' = [budget |-> 0, n |-> 0, from |-> status] /\ status' = "step"
    BY <1>3 DEF InterpretOnly, NoChain
  <2>s. status \in {"running", "resumed"}
    BY <1>3 DEF InterpretOnly, Goes
  <2>t. chain' \in [budget : Nat, n : Nat, from : {"running", "resumed"}]
    BY <2>1, <2>s
  <2>u. UnchangedLoop
    BY <1>3 DEF InterpretOnly
  <2>2. TypeInv'
    BY <2>1, <2>u, <2>t DEF UnchangedLoop, TypeInv
  <2>3. WithinBudget' /\ Outstanding'
    BY <1>3, <2>1 DEF InterpretOnly, UnchangedLoop, Goes, WithinBudget, Outstanding, Capped, AtBreak
  <2> QED BY <2>2, <2>3
<1>4. CASE ChainInsn
  <2>1. Budget' = Budget
    BY <1>4 DEF ChainInsn, UnchangedLoop, Budget, Lower, Less, TicksLeft, StepsLeft, BreakLeft
  <2>c. chain' = [budget |-> chain.budget, n |-> chain.n + 1, from |-> "running"]
    BY <1>4 DEF ChainInsn, TypeInv
  <2>t. chain' \in [budget : Nat, n : Nat, from : {"running", "resumed"}]
    BY <2>c DEF TypeInv
  <2>2. TypeInv'
    BY <1>4, <2>t DEF ChainInsn, UnchangedLoop, TypeInv
  <2>3. WithinBudget' /\ Outstanding'
    BY <1>4, <2>1, <2>c DEF ChainInsn, UnchangedLoop, TypeInv, WithinBudget, Outstanding
  <2> QED BY <2>2, <2>3
<1>5. CASE Executed
  BY <1>5, AccountedType DEF Executed, NoChain, TypeInv, WithinBudget, Outstanding
<1>6. CASE LeavesOne
  <2>1. TypeInv' /\ chain'.n = 0 /\ chain'.from = chain.from /\ status' = "step"
    BY <1>6, AccountedType DEF LeavesOne, TypeInv
  <2>2. chain.from = "running" => (~Capped /\ ~AtBreak)'
    <3>1. CASE chain.n = 0
      BY <1>6, <3>1, AccountedNothing DEF LeavesOne, Outstanding, Capped, AtBreak, UnchangedLoop
    <3>2. CASE chain.n > 0
      <4>1. chain.n + 1 \in Nat /\ chain.n + 1 > 0 /\ chain.n + 1 <= Budget
        BY <1>6, <3>2, BudgetType DEF LeavesOne, WithinBudget, TypeInv
      <4>2. /\ MaxSteps # 0 => steps + (chain.n + 1) <= MaxSteps
            /\ brk # Never => steps + (chain.n + 1) <= brk
        <5> HIDE DEF Inv
        <5> QED BY <4>1, BudgetBounds DEF Inv
      <4>3. steps' = steps + chain.n /\ brk' = brk
        BY <1>6, <3>2, AccountedExactly DEF LeavesOne
      <4> QED BY <4>2, <4>3, LockStepAssumption DEF Capped, AtBreak, TypeInv, Never
    <3> QED BY <3>1, <3>2 DEF TypeInv
  <2> QED BY <2>1, <2>2 DEF WithinBudget, Outstanding
<1>7. CASE StepOne
  BY <1>7, InterpretedType DEF StepOne, NoChain, WithinBudget, Outstanding
<1>8. CASE UNCHANGED vars
  <2>1. Budget' = Budget
    BY <1>8 DEF vars, Budget, Lower, Less, TicksLeft, StepsLeft, BreakLeft
  <2> QED BY <1>8, <2>1 DEF vars, TypeInv, WithinBudget, Outstanding, Capped, AtBreak
<1> QED BY <1>1, <1>2, <1>3, <1>4, <1>5, <1>6, <1>7, <1>8 DEF Next

\* The counters, the chain and the state of the loop are always well formed, a
\* chain keeps to its budget, and a turn owes the interpreter a step it may take.
THEOREM LoopInvariant == CSpec => []Inv
  BY InitInv, NextInv, PTL DEF CSpec

-----------------------------------------------------------------------------
(* Every step is a step of the twin, or none.                              *)

\* Where nothing is outstanding the twin is in the same state.
LEMMA NothingPassed ==
  ASSUME TypeInv, chain.n = 0
  PROVE  /\ steps + Passed = steps /\ clock + Passed = clock
         /\ (IF multi THEN ticks + Passed ELSE ticks) = ticks
         /\ ~Due
  BY DEF TypeInv, Passed, Due

LEMMA InitTwin == CInit => Twin!Init
<1> SUFFICES ASSUME CInit PROVE Twin!Init
  OBVIOUS
<1>1. chain.n = 0 /\ Inv
  BY InitInv DEF CInit, NoChain
<1> QED BY <1>1, NothingPassed DEF Inv, CInit, Init, Twin!Init, Twin!Never, Never

\* The status the twin is in, and its capped and stopped states.
LEMMA StopTwin == Inv /\ Stop => Twin!Exhaust \/ Twin!DebugStop
<1> SUFFICES ASSUME Inv, Stop PROVE Twin!Exhaust \/ Twin!DebugStop
  OBVIOUS
<1>1. chain.n = 0 /\ chain' = chain /\ status = "running" /\ TypeInv
  BY DEF Inv, Stop, Exhaust, DebugStop, Outstanding
<1>2. chain'.n = 0 /\ Passed = 0 /\ Passed' = 0 /\ ~Due
  BY <1>1 DEF Passed, Due
<1>3. ~Due'
  BY <1>2 DEF Due
<1>4. steps + Passed = steps /\ clock + Passed = clock
  BY <1>1, NothingPassed
<1>5. (IF multi THEN ticks + Passed ELSE ticks) = ticks
  BY <1>1, NothingPassed
<1>6. CASE Exhaust
  BY <1>1, <1>2, <1>3, <1>4, <1>5, <1>6
  DEF Exhaust, Capped, Twin!Exhaust, Twin!Capped
<1>7. CASE DebugStop
  BY <1>1, <1>2, <1>3, <1>4, <1>5, <1>7
  DEF DebugStop, Capped, AtBreak, Never, Twin!DebugStop, Twin!Capped, Twin!AtBreak, Twin!Never
<1> QED BY <1>6, <1>7 DEF Stop

\* Entering a call of Jit::run is nothing to the twin.
LEMMA EnterTwin == Inv /\ (EnterChain \/ InterpretOnly) => UNCHANGED Twin!loopVars
<1> SUFFICES ASSUME Inv, EnterChain \/ InterpretOnly PROVE UNCHANGED Twin!loopVars
  OBVIOUS
<1>1. /\ UnchangedLoop /\ chain'.n = 0 /\ chain'.from = status
      /\ status \in {"running", "resumed"} /\ status' \in {"chain", "step"}
  BY DEF EnterChain, InterpretOnly, Goes, NoChain
<1>2. chain.n = 0 /\ Passed = 0 /\ Passed' = 0 /\ ~Due /\ ~Due'
  BY <1>1 DEF Inv, Outstanding, Passed, Due
<1> QED BY <1>1, <1>2 DEF UnchangedLoop, Twin!loopVars

\* One instruction of compiled code is one step of the twin's interpreter.
LEMMA InsnTwin == Inv /\ ChainInsn => Twin!Step
<1> SUFFICES ASSUME Inv, ChainInsn PROVE Twin!Step
  OBVIOUS
<1> DEFINE n == chain.n
<1>1. /\ status = "chain" /\ status' = "chain" /\ n < chain.budget /\ UnchangedLoop
      /\ chain'.n = n + 1 /\ chain'.from = "running" /\ n \in Nat /\ n + 1 \in Nat
  BY DEF ChainInsn, Inv, TypeInv
<1>2. n + 1 > 0 /\ n + 1 <= Budget
  BY <1>1, BudgetType DEF Inv, WithinBudget, TypeInv
<1>3. /\ depth = 0
      /\ multi => ticks + (n + 1) < Slice
      /\ steps + (n + 1) <= next
      /\ MaxSteps # 0 => steps + (n + 1) <= MaxSteps
      /\ brk # Never => steps + (n + 1) <= brk
  BY <1>1, <1>2, BudgetBounds DEF Inv
<1>4. Passed = n /\ Passed' = n + 1 /\ ~Due
  BY <1>1, <1>3 DEF Passed, Due, Inv, TypeInv
<1>5. Twin!Goes
  <2>1. ~Twin!Capped /\ ~Twin!AtBreak
    BY <1>1, <1>3, <1>4, LockStepAssumption
    DEF Twin!Capped, Twin!AtBreak, Twin!Never, Never, Inv, TypeInv
  <2> QED BY <1>1, <2>1 DEF Twin!Goes, Inv, TypeInv
<1>6. Due' <=> steps + n + 1 >= next
  BY <1>1, <1>4 DEF Due, UnchangedLoop, Inv, TypeInv
<1>7. Twin!Refreshed(steps + n + 1, clock + n + 1)
  BY <1>1, <1>4, <1>6 DEF Twin!Refreshed, UnchangedLoop, Inv, TypeInv
<1>8. Twin!Counted
  BY <1>1, <1>3, <1>4, <1>7 DEF Twin!Counted, UnchangedLoop, Inv, TypeInv
<1>9. Twin!TicksOn
  <2>1. ~Twin!SliceEnds
    BY <1>1, <1>3, <1>4, LockStepAssumption DEF Twin!SliceEnds, Inv, TypeInv
  <2> QED BY <1>1, <1>4, <2>1 DEF Twin!TicksOn, UnchangedLoop, Inv, TypeInv
<1>10. Twin!ExecuteStep
  BY <1>1, <1>8, <1>9 DEF Twin!ExecuteStep, UnchangedLoop
<1> QED BY <1>1, <1>5, <1>10 DEF Twin!Step, Twin!Interpreted

\* The bookkeeping in bulk is nothing to the twin, which has done it already.
LEMMA AccountTwin == Inv /\ (Executed \/ LeavesOne) => UNCHANGED Twin!loopVars
<1> SUFFICES ASSUME Inv, Executed \/ LeavesOne PROVE UNCHANGED Twin!loopVars
  OBVIOUS
<1>1. /\ status = "chain" /\ Accounted /\ chain'.n = 0 /\ chain.n \in Nat
      /\ \/ chain.n > 0 /\ status' = "running"
         \/ status' = "step" /\ chain'.from = chain.from
  BY DEF Executed, LeavesOne, NoChain, Inv, TypeInv
<1>2. Passed' = 0 /\ ~Due'
  BY <1>1 DEF Passed, Due
<1>3. (IF status' \in {"chain", "step"} THEN chain'.from ELSE status') = chain.from
  BY <1>1 DEF Inv, Outstanding
<1>4. CASE chain.n = 0
  BY <1>1, <1>2, <1>3, <1>4, AccountedNothing
  DEF UnchangedLoop, Twin!loopVars, Passed, Due, Inv, TypeInv
<1>5. CASE chain.n > 0
  <2>1. /\ steps' + Passed' = steps + Passed /\ clock' + Passed' = clock + Passed
        /\ (IF multi' THEN ticks' + Passed' ELSE ticks') = (IF multi THEN ticks + Passed ELSE ticks)
    BY <1>1, <1>2, <1>5, AccountedExactly DEF Passed, Inv, TypeInv
  <2>2. /\ thread' = thread /\ multi' = multi /\ brk' = brk /\ depth' = depth
        /\ shared' = IF Due THEN clock + Passed ELSE shared
        /\ next' = IF Due THEN ((steps + Passed) \div Refresh + 1) * Refresh ELSE next
    BY <1>1, <1>5, AccountedExactly DEF Passed
  <2> QED BY <1>1, <1>2, <1>3, <2>1, <2>2 DEF Twin!loopVars
<1> QED BY <1>1, <1>4, <1>5

LEMMA NothingAdded ==
  ASSUME NEW x \in Nat, NEW n \in Nat, n = 0
  PROVE  x + n = x
  OBVIOUS

\* The interpreted instruction at the end of a turn is a step of the twin.
LEMMA StepTwin == Inv /\ StepOne => Twin!Step
<1> SUFFICES ASSUME Inv, StepOne PROVE Twin!Step
  OBVIOUS
<1>1. /\ status = "step" /\ chain.n = 0 /\ chain'.n = 0 /\ chain'.from = "running"
      /\ Interpreted("running") /\ TypeInv
  BY DEF StepOne, Inv, Outstanding, NoChain
<1>2. Passed = 0 /\ Passed' = 0 /\ ~Due /\ ~Due'
  BY <1>1 DEF Passed, Due
<1>3. /\ steps + Passed = steps /\ clock + Passed = clock
      /\ (IF multi THEN ticks + Passed ELSE ticks) = ticks
  BY <1>1, NothingPassed
<1>4. TypeInv' /\ status' \in {"running", "over"}
  BY <1>1, InterpretedType DEF StepOne
<1>t. steps' \in Nat /\ clock' \in Nat /\ ticks' \in Nat
  BY <1>4 DEF TypeInv
<1>5. steps' + Passed' = steps' /\ clock' + Passed' = clock' /\ ticks' + Passed' = ticks'
  BY <1>2, <1>t, NothingAdded
<1>v. (IF multi' THEN ticks' + Passed' ELSE ticks') = ticks'
  BY <1>5
<1>6. Twin!Goes
  BY <1>1, <1>3 DEF Inv, Outstanding, TypeInv, Capped, AtBreak, Never,
     Twin!Goes, Twin!Capped, Twin!AtBreak, Twin!Never
<1>7. Twin!SliceEnds <=> SliceEnds
  BY <1>3 DEF Twin!SliceEnds, SliceEnds
<1>8. Counted => Twin!Counted
  BY <1>2, <1>3, <1>5 DEF Twin!Counted, Counted, Twin!Refreshed, Refreshed
<1>9. TicksOn => Twin!TicksOn
  BY <1>3, <1>v, <1>7 DEF Twin!TicksOn, TicksOn
<1>10. CASE SwitchStep /\ status' = "running"
  <2>1. Twin!SwitchStep
    BY <1>v, <1>7, <1>8, <1>10 DEF Twin!SwitchStep, SwitchStep
  <2> QED BY <1>6, <1>10, <2>1 DEF Twin!Step, Twin!Interpreted
<1>11. CASE ExecuteStep /\ status' = "running"
  <2>1. Twin!ExecuteStep
    BY <1>8, <1>9, <1>11 DEF Twin!ExecuteStep, ExecuteStep
  <2> QED BY <1>6, <1>11, <2>1 DEF Twin!Step, Twin!Interpreted
<1>12. CASE SystemStep /\ status' = "running"
  <2>1. Twin!SystemStep
    BY <1>v, <1>8, <1>9, <1>12 DEF Twin!SystemStep, SystemStep
  <2> QED BY <1>6, <1>12, <2>1 DEF Twin!Step, Twin!Interpreted
<1>13. CASE FaultStep /\ status' = "running"
  <2>1. Twin!FaultStep
    BY <1>2, <1>3, <1>5, <1>9, <1>13 DEF Twin!FaultStep, FaultStep
  <2> QED BY <1>6, <1>13, <2>1 DEF Twin!Step, Twin!Interpreted
<1>14. CASE LastStep /\ status' = "over"
  <2>1. Twin!LastStep
    BY <1>2, <1>3, <1>5, <1>9, <1>14 DEF Twin!LastStep, LastStep
  <2> QED BY <1>6, <1>14, <2>1 DEF Twin!Step, Twin!Interpreted
<1> QED BY <1>1, <1>10, <1>11, <1>12, <1>13, <1>14 DEF Interpreted

LEMMA StutterTwin == UNCHANGED vars => UNCHANGED Twin!loopVars
  BY DEF vars, Twin!loopVars, Passed, Due

\* A compiled run implements the interpreter's loop: every thread switch, every
\* refresh of the shared page, the cap and every stop of the debugger falls on
\* the instruction it would fall on without compiled code.
THEOREM CompiledRunsInStep == CSpec => RunsInStep
<1>1. Inv /\ [Next]_vars => [Twin!LoopNext]_(Twin!loopVars)
  BY StopTwin, EnterTwin, InsnTwin, AccountTwin, StepTwin, StutterTwin
  DEF Next, Twin!LoopNext
<1> QED BY <1>1, InitTwin, LoopInvariant, PTL DEF CSpec, RunsInStep, Twin!Spec

-----------------------------------------------------------------------------
(* The cap.                                                                *)

\* Neither what is counted nor what is outstanding passes the cap, and a turn
\* that was resumed after a stop had not reached it.
CapInv ==
    /\ StopsExactly
    /\ MaxSteps # 0 => steps + chain.n <= MaxSteps
    /\ status = "resumed" => ~Capped
    /\ status \in {"chain", "step"} /\ chain.from = "resumed" => ~Capped

LEMMA CapInit == CInit => CapInv
  BY LockStepAssumption DEF CInit, Init, NoChain, CapInv, StopsExactly

LEMMA CapNext == Inv /\ CapInv /\ [Next]_vars => CapInv'
<1> SUFFICES ASSUME Inv, CapInv, [Next]_vars PROVE CapInv'
  OBVIOUS
<1>1. CASE Stop
  BY <1>1, LockStepAssumption
  DEF Stop, Exhaust, DebugStop, CapInv, StopsExactly, Capped, Inv, Outstanding, TypeInv
<1>2. CASE EnterChain \/ InterpretOnly
  BY <1>2 DEF EnterChain, InterpretOnly, Goes, UnchangedLoop, NoChain, CapInv, StopsExactly,
     Capped, Inv, Outstanding, TypeInv
<1>3. CASE ChainInsn
  <2>1. chain.n + 1 \in Nat /\ chain.n + 1 > 0 /\ chain.n + 1 <= Budget
    BY <1>3, BudgetType DEF ChainInsn, Inv, WithinBudget, TypeInv
  <2>2. MaxSteps # 0 => steps + (chain.n + 1) <= MaxSteps
    BY <2>1, BudgetBounds DEF Inv
  <2>3. chain'.n = chain.n + 1 /\ chain'.from = "running" /\ steps' = steps /\ status' = "chain"
    BY <1>3 DEF ChainInsn, UnchangedLoop, Inv, TypeInv
  <2> QED BY <2>2, <2>3 DEF CapInv, StopsExactly
<1>4. CASE Executed \/ LeavesOne
  <2>1. /\ status = "chain" /\ Accounted /\ chain'.n = 0 /\ chain.n \in Nat
        /\ \/ chain.n > 0 /\ status' = "running" /\ chain'.from = "running"
           \/ status' = "step" /\ chain'.from = chain.from
    BY <1>4 DEF Executed, LeavesOne, NoChain, Inv, TypeInv
  <2>2. steps' = steps + chain.n
    <3>1. CASE chain.n = 0
      BY <2>1, <3>1, AccountedNothing DEF UnchangedLoop, Inv, TypeInv
    <3>2. CASE chain.n > 0
      BY <2>1, <3>2, AccountedExactly
    <3> QED BY <2>1, <3>1, <3>2
  <2>3. steps' + chain'.n = steps + chain.n
    BY <2>1, <2>2 DEF Inv, TypeInv
  <2>4. chain'.from = "resumed" => chain.n = 0 /\ steps' = steps
    BY <2>1, <2>2 DEF Inv, Outstanding, TypeInv
  <2> QED BY <2>1, <2>3, <2>4 DEF CapInv, StopsExactly, Capped
<1>5. CASE StepOne
  <2>s. status = "step" /\ chain.n = 0 /\ chain.from \in {"running", "resumed"}
    BY <1>5 DEF StepOne, Inv, Outstanding, TypeInv
  <2>c. ~Capped
    BY <2>s DEF CapInv, Inv, Outstanding
  <2>1. status' \in {"running", "over"} /\ chain'.n = 0 /\ chain.n = 0 /\ ~Capped
    BY <1>5, <2>s, <2>c DEF StepOne, Interpreted, NoChain
  <2>2. steps' \in {steps, steps + 1}
    BY <1>5 DEF StepOne, Interpreted, SwitchStep, ExecuteStep, SystemStep, FaultStep, LastStep,
       Counted
  <2>3. MaxSteps # 0 => steps < MaxSteps
    BY <2>c, LockStepAssumption DEF Capped, Inv, TypeInv
  <2>4. MaxSteps # 0 => steps' + chain'.n <= MaxSteps
    <3>1. steps \in Nat /\ MaxSteps \in Nat
      BY LockStepAssumption DEF Inv, TypeInv
    <3>2. MaxSteps # 0 => steps' <= MaxSteps /\ steps' \in Nat
      BY <2>2, <2>3, <3>1
    <3> QED BY <2>1, <3>1, <3>2
  <2>5. chain'.from = "running"
    BY <1>5 DEF StepOne, NoChain
  <2> QED BY <2>1, <2>4, <2>5 DEF CapInv, StopsExactly
<1>6. CASE UNCHANGED vars
  BY <1>6 DEF vars, CapInv, StopsExactly, Capped
<1> QED BY <1>1, <1>2, <1>3, <1>4, <1>5, <1>6 DEF Next

\* A run that is given up for its instruction budget ran exactly that many.
THEOREM CapIsExact == CSpec => []StopsExactly
<1>1. CapInv => StopsExactly
  BY DEF CapInv
<1> QED BY <1>1, CapInit, CapNext, LoopInvariant, PTL DEF CSpec

-----------------------------------------------------------------------------
(* Powers of two, and the highest bit of an operand.                        *)
Doubles(f, n) == f[0] = 1 /\ \A i \in 1 .. n : f[i] = 2 * f[i - 1]

LEMMA DoublesOn ==
  ASSUME NEW n \in Nat, NEW f \in [0 .. n -> Nat \ {0}], Doubles(f, n)
  PROVE  \E g \in [0 .. n + 1 -> Nat \ {0}] : Doubles(g, n + 1)
<1> DEFINE g == [i \in 0 .. n + 1 |-> IF i = n + 1 THEN 2 * f[n] ELSE f[i]]
<1>1. f[n] \in Nat \ {0} /\ 2 * f[n] \in Nat \ {0}
  OBVIOUS
<1>2. \A i \in 0 .. n : i \in 0 .. n + 1 /\ i # n + 1
  OBVIOUS
<1>3. g[n + 1] = 2 * f[n] /\ \A i \in 0 .. n : g[i] = f[i]
  BY <1>2
<1>4. \A i \in 0 .. n + 1 : i # n + 1 => i \in 0 .. n
  OBVIOUS
<1>5. g \in [0 .. n + 1 -> Nat \ {0}]
  BY <1>1, <1>4
<1> HIDE DEF g
<1>6. ASSUME NEW i \in 1 .. n + 1
      PROVE  g[i] = 2 * g[i - 1]
  <2>1. i - 1 \in 0 .. n
    OBVIOUS
  <2>2. CASE i = n + 1
    BY <1>3, <2>1, <2>2
  <2>3. CASE i # n + 1
    <3>1. i \in 1 .. n /\ i \in 0 .. n
      BY <2>3
    <3> QED BY <1>3, <2>1, <3>1 DEF Doubles
  <2> QED BY <2>2, <2>3
<1>7. g[0] = 1
  <2>1. 0 \in 0 .. n
    OBVIOUS
  <2> QED BY <1>3, <2>1 DEF Doubles
<1> QED BY <1>5, <1>6, <1>7 DEF Doubles

LEMMA DoublesExist ==
  ASSUME NEW N \in Nat
  PROVE  \E f \in [0 .. N -> Nat \ {0}] : Doubles(f, N)
<1> DEFINE Ends(n) == \E f \in [0 .. n -> Nat \ {0}] : Doubles(f, n)
           S == {n \in Nat : ~Ends(n)}
           R == {ss \in Nat \X Nat : ss[1] < ss[2]}
<1>1. Ends(0)
  <2> DEFINE f == [i \in 0 .. 0 |-> 1]
  <2>1. f \in [0 .. 0 -> Nat \ {0}] /\ f[0] = 1 /\ \A i \in 1 .. 0 : f[i] = 2 * f[i - 1]
    OBVIOUS
  <2> HIDE DEF f
  <2> QED BY <2>1 DEF Doubles
<1>2. ASSUME NEW n \in Nat, Ends(n)
      PROVE  Ends(n + 1)
  BY <1>2, DoublesOn
<1> HIDE DEF Ends
<1>3. ASSUME S # {}
      PROVE  FALSE
  <2>1. PICK m \in S : \A k \in S : ~(<<k, m>> \in R)
    <3> HIDE DEF R
    <3>1. IsWellFoundedOn(R, Nat)
      BY NatLessThanWellFounded DEF R, OpToRel
    <3> QED BY <1>3, <3>1, WFMin
  <2>2. m \in Nat /\ m # 0 /\ ~Ends(m)
    BY <1>1, <2>1
  <2>3. m - 1 \in Nat /\ <<m - 1, m>> \in R
    BY <2>2
  <2>4. m - 1 \notin S
    BY <2>1, <2>3
  <2>5. Ends((m - 1) + 1)
    BY <1>2, <2>3, <2>4
  <2> QED BY <2>2, <2>5
<1> QED BY <1>3 DEF Ends

LEMMA TwoDoubles == Doubles(two, Bits) /\ \A i \in 0 .. Bits : two[i] \in Nat \ {0}
<1> DEFINE body(f) == [n \in 0 .. Bits |-> IF n = 0 THEN 1 ELSE 2 * f[n - 1]]
           t == CHOOSE f : f = body(f)
<1>1. Bits \in Nat
  BY DeferredFlagsAssumption
<1>2. PICK f \in [0 .. Bits -> Nat \ {0}] : Doubles(f, Bits)
  BY <1>1, DoublesExist
<1>3. f = body(f)
  <2>1. \A n \in 0 .. Bits : n # 0 => n \in 1 .. Bits
    BY <1>1
  <2>2. \A n \in 0 .. Bits : f[n] = IF n = 0 THEN 1 ELSE 2 * f[n - 1]
    BY <1>2, <2>1 DEF Doubles
  <2> QED BY <1>2, <2>2
<1>4. t = body(t)
  <2> HIDE DEF body
  <2> QED BY <1>3
<1>5. two = t
  BY DEF two
<1>6. \A n \in 0 .. Bits : two[n] = IF n = 0 THEN 1 ELSE 2 * two[n - 1]
  <2> HIDE DEF t
  <2> QED BY <1>4, <1>5
<1>7. 0 \in 0 .. Bits /\ \A i \in 1 .. Bits : i \in 0 .. Bits /\ i # 0
  BY <1>1
<1>8. Doubles(two, Bits)
  BY <1>6, <1>7 DEF Doubles
<1>9. ASSUME NEW g, g = two
      PROVE  \A i \in 0 .. Bits : g[i] \in Nat \ {0}
  <2> DEFINE Bad == {i \in 0 .. Bits : g[i] \notin Nat \ {0}}
             R == {ss \in Nat \X Nat : ss[1] < ss[2]}
  <2>1. ASSUME Bad # {}
        PROVE  FALSE
    <3>1. PICK m \in Bad : \A k \in Bad : ~(<<k, m>> \in R)
      <4>1. Bad \subseteq Nat
        BY <1>1
      <4> HIDE DEF R, Bad
      <4>2. IsWellFoundedOn(R, Nat)
        BY NatLessThanWellFounded DEF R, OpToRel
      <4> QED BY <2>1, <4>1, <4>2, WFMin
    <3>2. m \in 0 .. Bits /\ m # 0 /\ g[m] \notin Nat \ {0}
      BY <1>1, <1>6, <1>7, <1>9, <3>1
    <3>3. m - 1 \in 0 .. Bits /\ <<m - 1, m>> \in R
      BY <1>1, <3>2
    <3>4. g[m - 1] \in Nat \ {0}
      BY <3>1, <3>3
    <3> QED BY <1>6, <1>9, <3>2, <3>4
  <2> QED BY <2>1
<1> QED BY <1>8, <1>9

Sizes == {Half, Bits}

LEMMA SizeIs ==
  ASSUME NEW size \in Sizes
  PROVE  \E H \in Nat \ {0} : two[size] = 2 * H /\ two[size - 1] = H
<1>1. size \in 1 .. Bits /\ size - 1 \in 0 .. Bits
  BY DeferredFlagsAssumption DEF Sizes
<1> QED BY <1>1, TwoDoubles DEF Doubles

Operands(size) == 0 .. two[size] - 1

LEMMA ModIs ==
  ASSUME NEW M \in Nat \ {0}
  PROVE  /\ \A x \in 0 .. M - 1 : x % M = x
         /\ \A x \in M .. 2 * M - 1 : x % M = x - M
         /\ \A x \in -M .. -1 : x % M = x + M
<1>1. ASSUME NEW x \in 0 .. M - 1
      PROVE  x % M = x
  OBVIOUS
<1>2. ASSUME NEW x \in M .. 2 * M - 1
      PROVE  x % M = x - M
  OBVIOUS
<1>3. ASSUME NEW x \in -M .. -1
      PROVE  x % M = x + M
  OBVIOUS
<1> QED BY <1>1, <1>2, <1>3

LEMMA TopIs ==
  ASSUME NEW H \in Nat \ {0}, NEW x \in 0 .. 2 * H - 1
  PROVE  (x \div H) % 2 = IF x >= H THEN 1 ELSE 0
OBVIOUS

-----------------------------------------------------------------------------
(* What compiled code derives is what alu.rs computes.                      *)
LEMMA BitsAre ==
  ASSUME NEW size \in Sizes, NEW H \in Nat \ {0}, two[size] = 2 * H, two[size - 1] = H,
         NEW v \in Operands(size)
  PROVE  /\ Bit(v, size - 1) = IF v >= H THEN 1 ELSE 0
         /\ Signed(v, size) = IF v >= H THEN v - two[size] ELSE v
<1>1. Bit(v, size - 1) = IF v >= H THEN 1 ELSE 0
  BY TopIs DEF Bit, Operands
<1> QED BY <1>1 DEF Signed

LEMMA AddFlags ==
  ASSUME NEW size \in Sizes, NEW a \in Operands(size), NEW b \in Operands(size),
         NEW r, r = Value(a + b, size)
  PROVE  HostFlags(a, b, r, size, FALSE) = alu_add(a, b, size).fl
<1>1. PICK H \in Nat \ {0} : two[size] = 2 * H /\ two[size - 1] = H
  BY SizeIs
<1>2. r = (a + b) % two[size] /\ a \in 0 .. two[size] - 1 /\ b \in 0 .. two[size] - 1
  BY DEF Value, Operands
<1>0. PICK M, x, y : /\ M = two[size]
                     /\ x = IF a >= H THEN a - M ELSE a
                     /\ y = IF b >= H THEN b - M ELSE b
  OBVIOUS
<1>3. /\ r \in Operands(size)
      /\ (a >= H <=> b >= H) /\ ~(a >= H <=> r >= H) <=> x + y < -H \/ x + y >= H
  <2>1. M = 2 * H /\ r = (a + b) % M /\ a \in 0 .. M - 1 /\ b \in 0 .. M - 1
    BY <1>0, <1>1, <1>2
  <2>2. /\ r \in 0 .. M - 1
        /\ (a >= H <=> b >= H) /\ ~(a >= H <=> r >= H) <=> x + y < -H \/ x + y >= H
    <3>0. M \in Nat \ {0}
      BY <1>1, <2>1
    <3>1. CASE a + b < M
      <4>1. PICK z \in 0 .. M - 1 : z = a + b
        BY <2>1, <3>1
      <4>2. z % M = z
        BY <3>0, ModIs
      <4> QED BY <1>0, <2>1, <3>1, <4>1, <4>2
    <3>2. CASE a + b >= M
      <4>1. PICK z \in M .. 2 * M - 1 : z = a + b
        BY <2>1, <3>0, <3>2
      <4>2. z % M = z - M
        BY <3>0, ModIs
      <4> QED BY <1>0, <2>1, <3>2, <4>1, <4>2
    <3> QED BY <2>1, <3>1, <3>2
  <2> QED BY <1>0, <2>2 DEF Operands
<1>4. /\ Bit(a, size - 1) = IF a >= H THEN 1 ELSE 0
      /\ Bit(b, size - 1) = IF b >= H THEN 1 ELSE 0
      /\ Bit(r, size - 1) = IF r >= H THEN 1 ELSE 0
      /\ Signed(a, size) = IF a >= H THEN a - two[size] ELSE a
      /\ Signed(b, size) = IF b >= H THEN b - two[size] ELSE b
  BY <1>1, <1>3, BitsAre
<1> DEFINE over == Bit(a, size - 1) = Bit(b, size - 1) /\ Bit(a, size - 1) # Bit(r, size - 1)
           exact == Signed(a, size) + Signed(b, size)
<1>5. over <=> exact < -two[size - 1] \/ exact >= two[size - 1]
  BY <1>0, <1>1, <1>3, <1>4
<1>6. HostFlags(a, b, r, size, FALSE) =
        set_szp(r, size) \union Holding(a + b >= two[size],
            exact < -two[size - 1] \/ exact >= two[size - 1], AuxCarry(a, b, r))
  BY DEF HostFlags, flags_szp_into
<1>7. alu_add(a, b, size).fl =
        set_szp(r, size) \union Holding(a + b >= two[size], over, AuxCarry(a, b, r))
  BY DEF alu_add
<1> HIDE DEF over, exact
<1> QED BY <1>5, <1>6, <1>7 DEF Holding

LEMMA SubFlags ==
  ASSUME NEW size \in Sizes, NEW a \in Operands(size), NEW b \in Operands(size),
         NEW r, r = Value(a - b, size)
  PROVE  HostFlags(a, b, r, size, TRUE) = alu_sub(a, b, size).fl
<1>1. PICK H \in Nat \ {0} : two[size] = 2 * H /\ two[size - 1] = H
  BY SizeIs
<1>2. r = (a - b) % two[size] /\ a \in 0 .. two[size] - 1 /\ b \in 0 .. two[size] - 1
  BY DEF Value, Operands
<1>0. PICK M, x, y : /\ M = two[size]
                     /\ x = IF a >= H THEN a - M ELSE a
                     /\ y = IF b >= H THEN b - M ELSE b
  OBVIOUS
<1>3. /\ r \in Operands(size)
      /\ ~(a >= H <=> b >= H) /\ ~(a >= H <=> r >= H) <=> x - y < -H \/ x - y >= H
  <2>1. M = 2 * H /\ r = (a - b) % M /\ a \in 0 .. M - 1 /\ b \in 0 .. M - 1
    BY <1>0, <1>1, <1>2
  <2>2. /\ r \in 0 .. M - 1
        /\ ~(a >= H <=> b >= H) /\ ~(a >= H <=> r >= H) <=> x - y < -H \/ x - y >= H
    <3>0. M \in Nat \ {0}
      BY <1>1, <2>1
    <3>1. CASE a >= b
      <4>1. PICK z \in 0 .. M - 1 : z = a - b
        BY <2>1, <3>1
      <4>2. z % M = z
        BY <3>0, ModIs
      <4> QED BY <1>0, <2>1, <3>1, <4>1, <4>2
    <3>2. CASE a < b
      <4>1. PICK z \in -M .. -1 : z = a - b
        BY <2>1, <3>0, <3>2
      <4>2. z % M = z + M
        BY <3>0, ModIs
      <4> QED BY <1>0, <2>1, <3>2, <4>1, <4>2
    <3> QED BY <2>1, <3>1, <3>2
  <2> QED BY <1>0, <2>2 DEF Operands
<1>4. /\ Bit(a, size - 1) = IF a >= H THEN 1 ELSE 0
      /\ Bit(b, size - 1) = IF b >= H THEN 1 ELSE 0
      /\ Bit(r, size - 1) = IF r >= H THEN 1 ELSE 0
      /\ Signed(a, size) = IF a >= H THEN a - two[size] ELSE a
      /\ Signed(b, size) = IF b >= H THEN b - two[size] ELSE b
  BY <1>1, <1>3, BitsAre
<1> DEFINE over == Bit(a, size - 1) # Bit(b, size - 1) /\ Bit(a, size - 1) # Bit(r, size - 1)
           exact == Signed(a, size) - Signed(b, size)
<1>5. over <=> exact < -two[size - 1] \/ exact >= two[size - 1]
  BY <1>0, <1>1, <1>3, <1>4
<1>6. HostFlags(a, b, r, size, TRUE) =
        set_szp(r, size) \union Holding(a < b,
            exact < -two[size - 1] \/ exact >= two[size - 1], AuxCarry(a, b, r))
  BY DEF HostFlags, flags_szp_into
<1>7. alu_sub(a, b, size).fl =
        set_szp(r, size) \union Holding(a < b, over, AuxCarry(a, b, r))
  BY DEF alu_sub
<1> HIDE DEF over, exact
<1> QED BY <1>5, <1>6, <1>7 DEF Holding

LEMMA SmallOperands ==
  ASSUME NEW size \in Sizes
  PROVE  0 \in Operands(size) /\ 1 \in Operands(size)
<1>1. PICK H \in Nat \ {0} : two[size] = 2 * H
  BY SizeIs
<1> QED BY <1>1 DEF Operands

-----------------------------------------------------------------------------
(* One instruction, from registers m whose flags follow as `how` says.      *)
IsRegs(m) == m = [fl |-> m.fl, a |-> m.a, b |-> m.b, r |-> m.r]
Kept(c, i, fl, a, b) ==
    /\ IsRegs(c.m)
    /\ emit_flags(c.how, Committed(c.m, i)) = execute_one(i, fl, a, b).fl
    /\ Result(i, c.m, a, b) = execute_one(i, fl, a, b).res

LEMMA AluRight ==
  ASSUME NEW i \in Instruction, i.op \in Alu \union {"neg"}, NEW m, IsRegs(m), NEW how, NEW fl,
         NEW a \in Operands(i.size), NEW b \in Operands(i.size), NEW defer \in BOOLEAN,
         NEW c, c = Lowered(Loaded(m, i, a, b), how, i, defer)
  PROVE  Kept(c, i, fl, a, b) /\ (~defer => c.how = Live)
<1> DEFINE first == IF i.op = "neg" THEN 0 ELSE a
<1>1. i.size \in Sizes /\ first \in Operands(i.size)
  BY SmallOperands DEF Instruction, Sizes
<1>2. PICK l : l = Loaded(m, i, a, b)
  OBVIOUS
<1>3. l = [fl |-> m.fl, a |-> first, b |-> b, r |-> m.r]
  <2>1. CASE i.op = "neg"
    <3>1. l = [m EXCEPT !.a = 0, !.b = b] /\ first = 0
      BY <1>2, <2>1 DEF Loaded, Alu, Arithmetic, Shifts
    <3> HIDE DEF first
    <3> QED BY <3>1 DEF IsRegs
  <2>2. CASE i.op \in Alu
    <3>1. l = [m EXCEPT !.a = a, !.b = b] /\ i.op # "neg"
      BY <1>2, <2>2 DEF Loaded, Alu, Arithmetic, Shifts
    <3> QED BY <3>1 DEF IsRegs
  <2> QED BY <2>1, <2>2
<1> HIDE DEF first
<1>4. c = emit_alu(l, i, defer)
  BY <1>2 DEF Lowered, Alu, Arithmetic, Shifts
<1>5. i.op = "and" \/ i.op = "add" \/ i.op \in {"sub", "cmp", "neg"}
  BY DEF Alu, Arithmetic
<1>6. PICK how1 : how1 = IF i.op = "and" THEN Logic(i.size)
                         ELSE IF i.op = "add" THEN Arith(i.size, FALSE, FALSE)
                         ELSE Arith(i.size, TRUE, FALSE)
  OBVIOUS
<1>7. PICK r : r = IF i.op = "and" THEN Meet(first, b)
                   ELSE IF i.op = "add" THEN Value(first + b, i.size)
                   ELSE Value(first - b, i.size)
  OBVIOUS
<1>8. PICK n : n = [fl |-> m.fl, a |-> first, b |-> b, r |-> r]
  OBVIOUS
<1>9. c = IF defer THEN Deferred(n, how1) ELSE Eager(n, how1)
  <2>1. CASE i.op = "and"
    BY <1>3, <1>4, <1>6, <1>7, <1>8, <2>1 DEF emit_alu
  <2>2. CASE i.op = "add"
    <3>1. (i.op \in {"sub", "cmp", "neg"}) = FALSE /\ i.op # "and"
      BY <2>2
    <3>2. c = LET e == emit_arith_value(l, i.size, FALSE)
                  w == Arith(i.size, FALSE, FALSE)
              IN  IF defer THEN Deferred(e, w) ELSE Eager(e, w)
      BY <1>4, <3>1 DEF emit_alu
    <3>3. emit_arith_value(l, i.size, FALSE) = [l EXCEPT !.r = Value(first + b, i.size)]
      BY <1>3 DEF emit_arith_value
    <3>4. [l EXCEPT !.r = Value(first + b, i.size)] = n /\ how1 = Arith(i.size, FALSE, FALSE)
      BY <1>3, <1>6, <1>7, <1>8, <2>2
    <3> QED BY <3>2, <3>3, <3>4
  <2>3. CASE i.op \in {"sub", "cmp", "neg"}
    <3>1. (i.op \in {"sub", "cmp", "neg"}) = TRUE /\ i.op # "and"
      BY <2>3
    <3>2. c = LET e == emit_arith_value(l, i.size, TRUE)
                  w == Arith(i.size, TRUE, FALSE)
              IN  IF defer THEN Deferred(e, w) ELSE Eager(e, w)
      BY <1>4, <3>1 DEF emit_alu
    <3>3. emit_arith_value(l, i.size, TRUE) = [l EXCEPT !.r = Value(first - b, i.size)]
      BY <1>3 DEF emit_arith_value
    <3>4. [l EXCEPT !.r = Value(first - b, i.size)] = n /\ how1 = Arith(i.size, TRUE, FALSE)
      <4>1. i.op # "and" /\ i.op # "add"
        BY <2>3
      <4>2. r = Value(first - b, i.size) /\ how1 = Arith(i.size, TRUE, FALSE)
        BY <1>6, <1>7, <4>1
      <4> QED BY <1>3, <1>8, <4>2
    <3> QED BY <3>2, <3>3, <3>4
  <2> QED BY <1>5, <2>1, <2>2, <2>3
<1>10. /\ emit_flags(how1, n) = execute_one(i, fl, a, b).fl
       /\ n.r = execute_one(i, fl, a, b).res
  <2>1. CASE i.op = "and"
    <3>1. execute_one(i, fl, a, b) = alu_logic(Meet(a, b), i.size)
      BY <2>1 DEF execute_one, Shifts
    <3>2. emit_flags(how1, n) = set_szp(n.r, i.size) /\ n.r = Meet(a, b)
      BY <1>6, <1>7, <1>8, <2>1 DEF emit_flags, Logic, flags_szp_into, first
    <3> QED BY <3>1, <3>2 DEF alu_logic
  <2>2. CASE i.op = "add"
    <3>1. how1 = Arith(i.size, FALSE, FALSE) /\ first = a /\ n.r = Value(a + b, i.size)
      BY <1>6, <1>7, <1>8, <2>2 DEF first
    <3>2. emit_flags(how1, n) = HostFlags(a, b, n.r, i.size, FALSE)
      BY <1>8, <3>1 DEF emit_flags, Arith
    <3>3. execute_one(i, fl, a, b) = alu_add(a, b, i.size)
      BY <2>2 DEF execute_one, Shifts
    <3>4. alu_add(a, b, i.size).res = Value(a + b, i.size)
      BY DEF alu_add
    <3> QED BY <1>1, <3>1, <3>2, <3>3, <3>4, AddFlags
  <2>3. CASE i.op \in {"sub", "cmp", "neg"}
    <3>1. how1 = Arith(i.size, TRUE, FALSE) /\ n.r = Value(first - b, i.size)
      BY <1>6, <1>7, <1>8, <2>3
    <3>2. emit_flags(how1, n) = HostFlags(first, b, n.r, i.size, TRUE)
      BY <1>8, <3>1 DEF emit_flags, Arith
    <3>3. execute_one(i, fl, a, b) = alu_sub(first, b, i.size)
      BY <2>3 DEF execute_one, first, Shifts
    <3>4. alu_sub(first, b, i.size).res = Value(first - b, i.size)
      BY DEF alu_sub
    <3> QED BY <1>1, <3>1, <3>2, <3>3, <3>4, SubFlags
  <2> QED BY <1>5, <2>1, <2>2, <2>3
<1>11. /\ IsRegs(c.m) /\ c.m.r = n.r /\ emit_flags(c.how, c.m) = emit_flags(how1, n)
       /\ ~defer => c.how = Live
  <2>1. CASE defer
    BY <1>8, <1>9, <2>1 DEF Deferred, IsRegs
  <2>2. CASE ~defer
    <3>1. c.m = [n EXCEPT !.fl = emit_flags(how1, n)] /\ c.how = Live
      BY <1>9, <2>2 DEF Eager, materialize
    <3>2. emit_flags(Live, c.m) = c.m.fl
      BY DEF emit_flags, Live
    <3> QED BY <1>8, <3>1, <3>2 DEF IsRegs
  <2> QED BY <2>1, <2>2
<1>12. Committed(c.m, i) = c.m /\ Result(i, c.m, a, b) = c.m.r
  BY DEF Committed, Result, Shifts, Alu, Arithmetic
<1> QED BY <1>10, <1>11, <1>12 DEF Kept

LEMMA AluResults ==
  ASSUME NEW a, NEW b, NEW size
  PROVE  /\ alu_add(a, b, size) = [res |-> Value(a + b, size), fl |-> alu_add(a, b, size).fl]
         /\ alu_sub(a, b, size) = [res |-> Value(a - b, size), fl |-> alu_sub(a, b, size).fl]
BY DEF alu_add, alu_sub

LEMMA IncDecRight ==
  ASSUME NEW i \in Instruction, i.op \in {"inc", "dec"}, NEW m, IsRegs(m), NEW how,
         NEW a \in Operands(i.size), NEW b, NEW defer \in BOOLEAN,
         NEW c, c = Lowered(Loaded(m, i, a, b), how, i, defer)
  PROVE  Kept(c, i, m.fl, a, b) /\ (~defer => c.how = Live)
<1>1. i.size \in Sizes /\ 1 \in Operands(i.size)
  BY SmallOperands DEF Instruction, Sizes
<1>2. PICK l : l = [fl |-> m.fl, a |-> a, b |-> 1, r |-> m.r]
  OBVIOUS
<1>3. PICK sub \in BOOLEAN : i.op = IF sub THEN "dec" ELSE "inc"
  OBVIOUS
<1>4. (i.op = "dec") = sub
  BY <1>3
<1>5. [Loaded(m, i, a, b) EXCEPT !.b = 1] = l
  <2>1. Loaded(m, i, a, b) = [m EXCEPT !.a = a]
    BY DEF Loaded, Alu, Arithmetic, Shifts
  <2>2. PICK w : w = [m EXCEPT !.a = a]
    OBVIOUS
  <2>3. w = [fl |-> m.fl, a |-> a, b |-> m.b, r |-> m.r]
    BY <2>2 DEF IsRegs
  <2>4. [w EXCEPT !.b = 1] = l
    BY <1>2, <2>3
  <2> QED BY <2>1, <2>2, <2>4
<1>6. PICK r : r = Value(IF sub THEN a - 1 ELSE a + 1, i.size)
  OBVIOUS
<1>7. PICK n : n = [fl |-> m.fl, a |-> a, b |-> 1, r |-> r]
  OBVIOUS
<1>8. PICK how1 : how1 = Arith(i.size, sub, TRUE)
  OBVIOUS
<1>9. c = IF defer THEN Deferred(n, how1) ELSE Eager(n, how1)
  <2>1. c = emit_incdec(Loaded(m, i, a, b), i, defer)
    BY DEF Lowered, Alu, Arithmetic, Shifts
  <2>2. emit_arith_value(l, i.size, sub) = n
    BY <1>2, <1>6, <1>7 DEF emit_arith_value
  <2> QED BY <1>4, <1>5, <1>8, <2>1, <2>2 DEF emit_incdec
<1>10. PICK new : new = HostFlags(a, 1, r, i.size, sub)
  OBVIOUS
<1>11. emit_flags(how1, n) = (m.fl \cap {"cf"}) \union (new \ {"cf"})
  BY <1>7, <1>8, <1>10 DEF emit_flags, Arith
<1>12. PICK e : e = IF sub THEN alu_sub(a, 1, i.size) ELSE alu_add(a, 1, i.size)
  OBVIOUS
<1>13. e.fl = new /\ e.res = r /\ e = [res |-> e.res, fl |-> e.fl]
  <2>1. CASE sub
    <3>1. r = Value(a - 1, i.size) /\ e = alu_sub(a, 1, i.size)
      BY <1>6, <1>12, <2>1
    <3>2. new = e.fl
      BY <1>1, <1>10, <2>1, <3>1, SubFlags
    <3> QED BY <3>1, <3>2, AluResults
  <2>2. CASE ~sub
    <3>1. r = Value(a + 1, i.size) /\ e = alu_add(a, 1, i.size)
      BY <1>6, <1>12, <2>2
    <3>2. new = e.fl
      BY <1>1, <1>10, <2>2, <3>1, AddFlags
    <3> QED BY <3>1, <3>2, AluResults
  <2> QED BY <2>1, <2>2
<1>14. execute_one(i, m.fl, a, b) = KeepingCarry(e, m.fl)
  <2>1. CASE sub
    BY <1>3, <1>12, <2>1 DEF execute_one, Shifts
  <2>2. CASE ~sub
    BY <1>3, <1>12, <2>2 DEF execute_one, Shifts
  <2> QED BY <2>1, <2>2
<1>15. KeepingCarry(e, m.fl).fl = (new \ {"cf"}) \union (m.fl \cap {"cf"}) /\ KeepingCarry(e, m.fl).res = r
  BY <1>13 DEF KeepingCarry
<1>16. /\ IsRegs(c.m) /\ c.m.r = r /\ emit_flags(c.how, c.m) = emit_flags(how1, n)
       /\ ~defer => c.how = Live
  <2>1. CASE defer
    BY <1>7, <1>9, <2>1 DEF Deferred, IsRegs
  <2>2. CASE ~defer
    <3>1. c.m = [n EXCEPT !.fl = emit_flags(how1, n)] /\ c.how = Live
      BY <1>9, <2>2 DEF Eager, materialize
    <3>2. emit_flags(Live, c.m) = c.m.fl
      BY DEF emit_flags, Live
    <3> QED BY <1>7, <3>1, <3>2 DEF IsRegs
  <2> QED BY <2>1, <2>2
<1>17. Committed(c.m, i) = c.m /\ Result(i, c.m, a, b) = c.m.r
  BY DEF Committed, Result, Shifts, Alu, Arithmetic
<1> QED BY <1>11, <1>14, <1>15, <1>16, <1>17 DEF Kept

LEMMA ImulRight ==
  ASSUME NEW i, i.op = "imul", NEW m, IsRegs(m), NEW how, NEW a, NEW b, NEW defer,
         NEW c, c = Lowered(Loaded(m, i, a, b), how, i, defer)
  PROVE  Kept(c, i, m.fl, a, b) /\ c.how = Live
<1>1. PICK l : l = [m EXCEPT !.a = a, !.b = b]
  OBVIOUS
<1>2. Loaded(m, i, a, b) = l
  BY <1>1 DEF Loaded, Alu, Arithmetic, Shifts
<1>3. l = [fl |-> m.fl, a |-> a, b |-> b, r |-> m.r]
  BY <1>1 DEF IsRegs
<1>4. PICK e : e = imul_trunc(a, b, i.size, m.fl)
  OBVIOUS
<1>5. c = Deferred([l EXCEPT !.fl = e.fl], Live)
  BY <1>2, <1>3, <1>4 DEF Lowered, Alu, Arithmetic, Shifts
<1>6. c.m = [fl |-> e.fl, a |-> a, b |-> b, r |-> m.r] /\ c.how = Live
  BY <1>3, <1>5 DEF Deferred
<1>7. execute_one(i, m.fl, a, b) = e /\ execute_one(i, {}, a, b) = imul_trunc(a, b, i.size, {})
  BY <1>4 DEF execute_one, Shifts
<1>8. imul_trunc(a, b, i.size, {}).res = e.res
  BY <1>4 DEF imul_trunc
<1>9. Committed(c.m, i) = c.m /\ Result(i, c.m, a, b) = execute_one(i, {}, a, b).res
  BY DEF Committed, Result, Shifts, Alu, Arithmetic
<1>10. emit_flags(Live, c.m) = e.fl
  BY <1>6 DEF emit_flags, Live
<1> QED BY <1>6, <1>7, <1>8, <1>9, <1>10 DEF Kept, IsRegs

LEMMA ShiftRight ==
  ASSUME NEW i, i.op \in Shifts, ShiftCount(i) # 0, NEW m, IsRegs(m), NEW how, NEW a, NEW b, NEW defer,
         NEW c, c = Lowered(Loaded(m, i, a, b), how, i, defer)
  PROVE  Kept(c, i, m.fl, a, b) /\ c.how = Live
<1>1. PICK l : l = [m EXCEPT !.b = b]
  OBVIOUS
<1>2. Loaded(m, i, a, b) = l
  BY <1>1 DEF Loaded, Alu, Arithmetic, Shifts
<1>3. l = [fl |-> m.fl, a |-> m.a, b |-> b, r |-> m.r]
  BY <1>1 DEF IsRegs
<1>4. PICK e : e = alu_shift(i.op, b, ShiftCount(i), i.size, m.fl)
  OBVIOUS
<1>5. c = Deferred(emit_shift(l, i), Live)
  BY <1>2 DEF Lowered, Alu, Arithmetic, Shifts
<1>6. emit_shift(l, i) = [fl |-> m.fl, a |-> e.fl, b |-> b, r |-> m.r]
  BY <1>3, <1>4 DEF emit_shift
<1>7. c.m = [fl |-> m.fl, a |-> e.fl, b |-> b, r |-> m.r] /\ c.how = Live
  BY <1>5, <1>6 DEF Deferred
<1>8. /\ execute_one(i, m.fl, a, b) = e
      /\ execute_one(i, {}, a, b) = alu_shift(i.op, b, ShiftCount(i), i.size, {})
  BY <1>4 DEF execute_one, Shifts
<1>9. alu_shift(i.op, b, ShiftCount(i), i.size, {}).res = e.res
  <2> DEFINE n == ShiftCount(i)
             signed == Signed(b, i.size)
             res == CASE i.op = "shl" -> Value(b * two[n], i.size)
                      [] i.op = "shr" -> b \div two[n]
                      [] i.op = "sar" -> Value(signed \div two[n], i.size)
  <2>1. ASSUME NEW fl
        PROVE  alu_shift(i.op, b, n, i.size, fl).res = res
    BY DEF alu_shift
  <2> HIDE DEF res
  <2> QED BY <1>4, <2>1
<1>10. Result(i, c.m, a, b) = execute_one(i, {}, a, b).res
  BY DEF Result, Shifts, Alu, Arithmetic
<1>11. Committed(c.m, i) = [fl |-> e.fl, a |-> e.fl, b |-> b, r |-> m.r]
  BY <1>7 DEF Committed
<1>12. emit_flags(Live, Committed(c.m, i)) = e.fl
  BY <1>11 DEF emit_flags, Live
<1> QED BY <1>7, <1>8, <1>9, <1>10, <1>12 DEF Kept, IsRegs

(* What has nothing to do with flags, and a shift by nothing.               *)
Inert(i) == i.op = "mov" \/ (i.op \in Shifts /\ ShiftCount(i) = 0)
LEMMA OthersRight ==
  ASSUME NEW i, Inert(i),
         NEW m, IsRegs(m), NEW how, NEW a, NEW b, NEW defer,
         NEW c, c = Lowered(Loaded(m, i, a, b), how, i, defer)
  PROVE  Kept(c, i, emit_flags(how, m), a, b) /\ c.how = how /\ c.m = m
<1>1. Loaded(m, i, a, b) = m
  BY DEF Inert, Loaded, Alu, Arithmetic, Shifts
<1>2. c = Deferred(m, how)
  BY <1>1 DEF Inert, Lowered, Alu, Arithmetic, Shifts
<1>3. c.m = m /\ c.how = how
  BY <1>2 DEF Deferred
<1>4. /\ execute_one(i, emit_flags(how, m), a, b).fl = emit_flags(how, m)
      /\ execute_one(i, emit_flags(how, m), a, b).res = execute_one(i, {}, a, b).res
  BY DEF Inert, execute_one, Alu, Arithmetic, Shifts
<1>5. Committed(m, i) = m /\ Result(i, m, a, b) = execute_one(i, {}, a, b).res
  BY DEF Inert, Committed, Result, Shifts, Alu, Arithmetic
<1> QED BY <1>3, <1>4, <1>5 DEF Kept

(* A jump goes the way of the interpreter's.                                *)
LEMMA OneOfTwo ==
  ASSUME NEW x, NEW y, x # y, NEW S
  PROVE  Cardinality({x, y} \cap S) = 1 <=> ~(x \in S <=> y \in S)
<1>1. CASE x \in S /\ y \in S
  <2>1. {x, y} \cap S = {x} \union {y}
    BY <1>1
  <2>2. IsFiniteSet({x}) /\ Cardinality({x}) = 1 /\ y \notin {x}
    BY FS_Singleton
  <2>3. Cardinality({x} \union {y}) = 2
    BY <2>2, FS_AddElement
  <2> QED BY <1>1, <2>1, <2>3
<1>2. CASE x \in S /\ y \notin S
  <2>1. {x, y} \cap S = {x}
    BY <1>2
  <2> QED BY <1>2, <2>1, FS_Singleton
<1>3. CASE x \notin S /\ y \in S
  <2>1. {x, y} \cap S = {y}
    BY <1>3
  <2> QED BY <1>3, <2>1, FS_Singleton
<1>4. CASE x \notin S /\ y \notin S
  <2>1. {x, y} \cap S = {}
    BY <1>4
  <2> QED BY <1>4, <2>1, FS_EmptySet
<1> QED BY <1>1, <1>2, <1>3, <1>4

LEMMA ConditionRight ==
  ASSUME NEW cc \in 0 .. 15, NEW fl
  PROVE  emit_cond_value(cc, fl) = cond(cc, fl)
<1> DEFINE less == Cardinality({"sf", "of"} \cap fl) = 1
<1>1. less <=> ~("sf" \in fl <=> "of" \in fl)
  BY OneOfTwo
<1> HIDE DEF less
<1> QED BY <1>1 DEF emit_cond_value, cond, Odd, less

-----------------------------------------------------------------------------
(* Flags are outstanding only where the next instruction that has to do with *)
(* flags overwrites them and settles nothing first.                          *)
FlagsInv ==
    /\ code \in Programs /\ at \in Nat
    /\ ref = [fl |-> ref.fl, res |-> ref.res] /\ last = ref.res
    /\ exit = "running" =>
         /\ IsRegs(regs)
         /\ emit_flags(pending, regs) = ref.fl
         /\ pending # Live => defer_pays(at + 1)
    /\ exit # "running" => regs.fl = ref.fl

Plain(i) == i.op = "mov" \/ (flag_effect(i) = "Overwrites" /\ ~overwriter_settles(i))

LEMMA NeutralIs == ASSUME NEW i, flag_effect(i) = "Neutral" PROVE i.op = "mov"
BY DEF flag_effect

LEMMA NextIsPlain ==
  ASSUME FlagsInv, NEW k, RunsOn(k)
  PROVE  /\ k \in Nat /\ k = at + 1 /\ exit = "running"
         /\ code[k] \in Instruction
         /\ code[k].op \in {"jcc", "jmp", "other"} => code[k].rm # "mem"
         /\ code[k].op = "jcc" => code[k].count \in 0 .. 15
         /\ pending # Live => Plain(code[k])
<1>1. k = at + 1 /\ k \in DOMAIN code /\ exit = "running" /\ k \in Nat
  <2>1. code \in Seq(Instruction)
    BY DeferredFlagsAssumption DEF FlagsInv
  <2>2. k \in DOMAIN code /\ at = k - 1 /\ exit = "running"
    BY DEF RunsOn
  <2>3. k \in Nat
    BY <2>1, <2>2
  <2> QED BY <2>2, <2>3
<1>2. /\ code[k] \in Instruction
      /\ code[k].op \in {"jcc", "jmp", "other"} => code[k].rm # "mem"
      /\ code[k].op = "jcc" => code[k].count \in 0 .. 15
  <2>1. code \in Programs /\ k \in DOMAIN code
    BY <1>1 DEF FlagsInv
  <2>2. code \in Seq(Instruction)
    BY <2>1, DeferredFlagsAssumption
  <2>3. code[k] \in Instruction
    BY <2>1, <2>2
  <2> QED BY <2>1, <2>3, DeferredFlagsAssumption, Zenon
<1>3. ASSUME pending # Live
      PROVE  Plain(code[k])
  <2>1. defer_pays(k)
    BY <1>1, <1>3 DEF FlagsInv
  <2>2. DeferScan \in Nat
    BY DeferredFlagsAssumption
  <2>3. PICK n \in k .. k + DeferScan - 1 :
            /\ \A j \in k .. n - 1 : flag_effect(code[j]) = "Neutral"
            /\ flag_effect(code[n]) = "Overwrites" /\ ~overwriter_settles(code[n])
    BY <2>1 DEF defer_pays
  <2>4. CASE n = k
    BY <2>3, <2>4 DEF Plain
  <2>5. CASE n # k
    <3>1. k \in k .. n - 1
      BY <1>1, <2>2, <2>5
    <3>2. flag_effect(code[k]) = "Neutral"
      BY <2>3, <3>1
    <3> QED BY <3>2, NeutralIs DEF Plain
  <2> QED BY <2>4, <2>5
<1> QED BY <1>1, <1>2, <1>3

(* The scan that pays pays on behind an instruction that sets no flags.      *)
LEMMA StillPays ==
  ASSUME NEW k \in Nat, defer_pays(k), flag_effect(code[k]) = "Neutral"
  PROVE  defer_pays(k + 1)
<1>1. DeferScan \in Nat
  BY DeferredFlagsAssumption
<1>2. PICK n \in k .. k + DeferScan - 1 :
        /\ n \in DOMAIN code
        /\ \A j \in k .. n - 1 : flag_effect(code[j]) = "Neutral"
        /\ flag_effect(code[n]) = "Overwrites" /\ ~overwriter_settles(code[n])
  BY DEF defer_pays
<1>3. n # k
  BY <1>2
<1>4. n \in k + 1 .. (k + 1) + DeferScan - 1 /\ \A j \in k + 1 .. n - 1 : j \in k .. n - 1
  BY <1>1, <1>3
<1> QED BY <1>2, <1>4 DEF defer_pays

LEMMA BeginRight ==
  ASSUME FlagsInv, NEW k, RunsOn(k), NEW s, s = Begin(code[k])
  PROVE  /\ IsRegs(s.m) /\ emit_flags(s.how, s.m) = ref.fl
         /\ Settles(code[k]) => s.how = Live /\ s.m.fl = ref.fl
         /\ ~Settles(code[k]) => s.how = pending /\ s.m = regs
<1>1. IsRegs(regs) /\ emit_flags(pending, regs) = ref.fl
  BY NextIsPlain DEF FlagsInv
<1>2. CASE Settles(code[k])
  <2>1. s.m = [regs EXCEPT !.fl = ref.fl] /\ s.how = Live
    BY <1>1, <1>2 DEF Begin, Deferred, materialize
  <2>2. IsRegs(s.m) /\ s.m.fl = ref.fl
    BY <1>1, <2>1 DEF IsRegs
  <2>3. emit_flags(Live, s.m) = s.m.fl
    BY DEF emit_flags, Live
  <2> QED BY <1>2, <2>1, <2>2, <2>3
<1>3. CASE ~Settles(code[k])
  BY <1>1, <1>3 DEF Begin, Deferred
<1> QED BY <1>2, <1>3

LEMMA ComputeRight ==
  ASSUME FlagsInv, NEW k, RunsOn(k), code[k].op \notin {"other", "jcc", "jmp"},
         NEW a \in Operands(code[k].size), NEW b \in Operands(code[k].size),
         NEW c, c = Compute(k, a, b)
  PROVE  /\ Kept(c, code[k], ref.fl, a, b)
         /\ c.how # Live => defer_pays(k + 1)
         /\ flag_effect(code[k]) = "Neutral" => c.m = regs /\ c.how = pending
<1>1. PICK i \in Instruction : i = code[k]
  BY NextIsPlain
<1>2. PICK defer \in BOOLEAN : defer <=> Defers(k)
  OBVIOUS
<1>3. PICK s : s = Begin(code[k])
  OBVIOUS
<1>4. /\ IsRegs(s.m) /\ emit_flags(s.how, s.m) = ref.fl
      /\ Settles(i) => s.how = Live /\ s.m.fl = ref.fl
      /\ ~Settles(i) => s.how = pending /\ s.m = regs
  BY <1>1, <1>3, BeginRight
<1>5. PICK m, how : m = s.m /\ how = s.how
  OBVIOUS
<1>6. c = Lowered(Loaded(m, i, a, b), how, i, defer)
  <2>1. Defers(k) = defer
    BY <1>2 DEF Defers, SetsFlags, defer_pays
  <2> QED BY <1>1, <1>3, <1>5, <2>1 DEF Compute
<1>7. /\ k \in Nat /\ k = at + 1
      /\ pending # Live => Plain(i)
      /\ pending # Live => defer_pays(k)
  BY <1>1, NextIsPlain DEF FlagsInv
<1>8. CASE i.op \in Alu \union {"neg"}
  <2>1. Kept(c, i, ref.fl, a, b) /\ (~defer => c.how = Live)
    BY <1>1, <1>4, <1>5, <1>6, <1>8, AluRight
  <2>2. flag_effect(i) # "Neutral"
    BY <1>8, NeutralIs DEF Alu, Arithmetic
  <2>3. defer => defer_pays(k + 1)
    BY <1>2 DEF Defers
  <2> QED BY <1>1, <2>1, <2>2, <2>3
<1>9. CASE i.op \in {"inc", "dec"}
  <2>1. Settles(i)
    BY <1>9 DEF Settles
  <2>2. Kept(c, i, m.fl, a, b) /\ (~defer => c.how = Live)
    BY <1>1, <1>4, <1>5, <1>6, <1>9, IncDecRight
  <2>3. flag_effect(i) # "Neutral"
    BY <1>9, NeutralIs
  <2>4. defer => defer_pays(k + 1)
    BY <1>2 DEF Defers
  <2> QED BY <1>1, <1>4, <1>5, <2>1, <2>2, <2>3, <2>4
<1>10. CASE i.op = "imul"
  <2>1. Settles(i) /\ flag_effect(i) # "Neutral"
    BY <1>10 DEF Settles, flag_effect, Alu, Arithmetic
  <2>2. Kept(c, i, m.fl, a, b) /\ c.how = Live
    BY <1>4, <1>5, <1>6, <1>10, ImulRight
  <2> QED BY <1>1, <1>4, <1>5, <2>1, <2>2
<1>11. CASE i.op \in Shifts /\ ShiftCount(i) # 0
  <2>1. Settles(i) /\ flag_effect(i) # "Neutral"
    BY <1>11 DEF Settles, flag_effect, Alu, Arithmetic, Shifts
  <2>2. Kept(c, i, m.fl, a, b) /\ c.how = Live
    BY <1>4, <1>5, <1>6, <1>11, ShiftRight
  <2> QED BY <1>1, <1>4, <1>5, <2>1, <2>2
<1>12. CASE i.op \in Shifts /\ ShiftCount(i) = 0
  <2>1. ~Settles(i) /\ flag_effect(i) = "Reads"
    BY <1>12 DEF Settles, settle_for_rm_dest, flag_effect, Alu, Arithmetic, Shifts
  <2>2. Kept(c, i, emit_flags(how, m), a, b) /\ c.how = how
    BY <1>4, <1>5, <1>6, <1>12, OthersRight DEF Inert
  <2>3. pending = Live
    <3>1. i.op # "mov"
      BY <1>12 DEF Shifts
    <3> QED BY <1>7, <2>1, <3>1 DEF Plain
  <2> QED BY <1>1, <1>4, <1>5, <2>1, <2>2, <2>3
<1>13. CASE i.op = "mov"
  <2>1. ~Settles(i) /\ flag_effect(i) = "Neutral"
    BY <1>13 DEF Settles, settle_for_rm_dest, flag_effect, Alu, Arithmetic, Shifts
  <2>2. Kept(c, i, emit_flags(how, m), a, b) /\ c.how = how /\ c.m = m
    BY <1>4, <1>5, <1>6, <1>13, OthersRight DEF Inert
  <2>3. pending # Live => defer_pays(k + 1)
    BY <1>1, <1>7, <2>1, StillPays
  <2> QED BY <1>1, <1>4, <1>5, <2>1, <2>2, <2>3
<1> QED BY <1>1, <1>8, <1>9, <1>10, <1>11, <1>12, <1>13 DEF Instruction, Alu, Shifts

-----------------------------------------------------------------------------
(* The steps of a block.                                                    *)
LEMMA Rounded ==
  ASSUME NEW size \in Sizes, NEW v \in Nat
  PROVE  Value(v, size) \in Operands(size)
<1>1. PICK H \in Nat \ {0} : two[size] = 2 * H
  BY SizeIs
<1>2. PICK M \in Nat \ {0} : M = two[size]
  BY <1>1
<1>3. v % M \in 0 .. M - 1
  OBVIOUS
<1> QED BY <1>2, <1>3 DEF Value, Operands

LEMMA LeaveRight ==
  ASSUME NEW why, why # "running", NEW how, NEW m, IsRegs(m), Leave(why, how, m)
  PROVE  exit' # "running" /\ regs'.fl = emit_flags(how, m)
BY DEF Leave, IsRegs

LEMMA RetireRight ==
  ASSUME FlagsInv, NEW k, RunsOn(k), code[k].op \notin {"other", "jcc", "jmp"}, NEW a, NEW b,
         NEW c, c = Compute(k, a, b), Kept(c, code[k], ref.fl, a, b), Retire(k, a, b)
  PROVE  /\ code' = code /\ code \in Programs /\ at' = k /\ k \in Nat
         /\ ref' = [fl |-> ref'.fl, res |-> ref'.res] /\ last' = ref'.res
         /\ ref'.fl = emit_flags(c.how, Committed(c.m, code[k]))
<1>1. k \in Nat /\ code \in Programs
  BY NextIsPlain DEF FlagsInv
<1>2. PICK e : e = execute_one(code[k], ref.fl, a, b)
  OBVIOUS
<1>3. /\ at' = k /\ code' = code /\ ref' = [fl |-> e.fl, res |-> e.res]
      /\ last' = Result(code[k], c.m, a, b)
  BY <1>2 DEF Retire
<1>4. last' = e.res /\ emit_flags(c.how, Committed(c.m, code[k])) = e.fl
  BY <1>2, <1>3 DEF Kept
<1> QED BY <1>1, <1>3, <1>4

LEMMA CommittedRegs ==
  ASSUME NEW m, IsRegs(m), NEW i
  PROVE  IsRegs(Committed(m, i))
BY DEF Committed, IsRegs

LEMMA RunKeeps ==
  ASSUME FlagsInv, NEW k, NEW a \in Operands(code[k].size), NEW b \in Operands(code[k].size),
         Run(k, a, b)
  PROVE  FlagsInv'
<1>1. RunsOn(k) /\ code[k].op \notin {"other", "jcc", "jmp"} /\ Retire(k, a, b) /\ exit' = exit
  BY DEF Run
<1>2. PICK c : c = Compute(k, a, b)
  OBVIOUS
<1>3. Kept(c, code[k], ref.fl, a, b) /\ (c.how # Live => defer_pays(k + 1))
  BY <1>1, <1>2, ComputeRight
<1>4. regs' = Committed(c.m, code[k]) /\ pending' = c.how
  BY <1>2 DEF Run
<1>5. /\ code' = code /\ code \in Programs /\ at' = k /\ k \in Nat
      /\ ref' = [fl |-> ref'.fl, res |-> ref'.res] /\ last' = ref'.res
      /\ ref'.fl = emit_flags(c.how, Committed(c.m, code[k]))
  BY <1>1, <1>2, <1>3, RetireRight
<1>6. IsRegs(regs')
  BY <1>3, <1>4, CommittedRegs DEF Kept
<1>7. exit' = "running"
  BY <1>1 DEF RunsOn
<1>8. emit_flags(pending', regs') = ref'.fl
  BY <1>4, <1>5
<1>9. pending' # Live => defer_pays(at + 1)'
  BY <1>3, <1>4, <1>5 DEF defer_pays
<1> QED BY <1>5, <1>6, <1>7, <1>8, <1>9 DEF FlagsInv, IsRegs, emit_flags

LEMMA StoreNoticeKeeps ==
  ASSUME FlagsInv, NEW k, NEW a \in Operands(code[k].size), NEW b \in Operands(code[k].size),
         StoreNotice(k, a, b)
  PROVE  FlagsInv'
<1>1. RunsOn(k) /\ Stores(code[k]) /\ Retire(k, a, b)
  BY DEF StoreNotice
<1>2. code[k].op \notin {"other", "jcc", "jmp"}
  BY <1>1, NextIsPlain DEF Stores
<1>3. PICK c : c = Compute(k, a, b)
  OBVIOUS
<1>4. Kept(c, code[k], ref.fl, a, b)
  BY <1>1, <1>2, <1>3, ComputeRight
<1>5. /\ code' = code /\ code \in Programs /\ at' = k /\ k \in Nat
      /\ ref' = [fl |-> ref'.fl, res |-> ref'.res] /\ last' = ref'.res
      /\ ref'.fl = emit_flags(c.how, Committed(c.m, code[k]))
  BY <1>1, <1>2, <1>3, <1>4, RetireRight
<1>6. PICK m : m = Committed(c.m, code[k])
  OBVIOUS
<1>7. IsRegs(m) /\ Leave("stored", c.how, m)
  BY <1>3, <1>4, <1>6, CommittedRegs DEF Kept, StoreNotice, StoreStops
<1>8. exit' # "running" /\ regs'.fl = emit_flags(c.how, m)
  BY <1>7, LeaveRight
<1> QED BY <1>5, <1>6, <1>8 DEF FlagsInv

LEMMA LoadFaultKeeps ==
  ASSUME FlagsInv, NEW k, LoadFault(k)
  PROVE  FlagsInv'
<1>1. RunsOn(k) /\ UNCHANGED <<code, at, ref, last>>
  BY DEF LoadFault
<1>2. PICK s : s = Begin(code[k])
  OBVIOUS
<1>3. IsRegs(s.m) /\ emit_flags(s.how, s.m) = ref.fl
  BY <1>1, <1>2, BeginRight
<1>4. Leave("fault", s.how, s.m)
  BY <1>2 DEF LoadFault
<1>5. exit' # "running" /\ regs'.fl = ref.fl
  BY <1>3, <1>4, LeaveRight
<1> QED BY <1>1, <1>5 DEF FlagsInv

LEMMA StoreFaultKeeps ==
  ASSUME FlagsInv, NEW k, NEW a \in Operands(code[k].size), NEW b \in Operands(code[k].size),
         StoreFault(k, a, b)
  PROVE  FlagsInv'
<1>1. RunsOn(k) /\ Stores(code[k]) /\ UNCHANGED <<code, at, ref, last>>
  BY DEF StoreFault
<1>2. code[k].op \notin {"other", "jcc", "jmp"}
  BY <1>1, NextIsPlain DEF Stores
<1>3. PICK c, how : c = Compute(k, a, b) /\ how = Begin(code[k]).how
  OBVIOUS
<1>4. /\ Kept(c, code[k], ref.fl, a, b)
      /\ flag_effect(code[k]) = "Neutral" => c.m = regs /\ c.how = pending
  BY <1>1, <1>2, <1>3, ComputeRight
<1>5. PICK m : m = Unspilled(c.m, how, code[k])
  OBVIOUS
<1>6. Leave("fault", how, m)
  BY <1>3, <1>5 DEF StoreFault
<1>7. IsRegs(regs) /\ IsRegs(c.m) /\ emit_flags(pending, regs) = ref.fl
  BY <1>1, <1>4, NextIsPlain DEF FlagsInv, Kept
<1>8. IsRegs(m) /\ emit_flags(how, m) = ref.fl
  <2>1. CASE flag_effect(code[k]) = "Neutral"
    <3>1. m = regs
      BY <1>4, <1>5, <2>1 DEF Unspilled, Spills, SetsFlags
    <3>2. code[k].op = "mov"
      BY <2>1, NeutralIs
    <3>3. ~Settles(code[k])
      BY <3>2 DEF Settles, settle_for_rm_dest, Alu, Arithmetic, Shifts
    <3>4. how = pending
      BY <1>1, <1>3, <3>3, BeginRight
    <3> QED BY <1>7, <3>1, <3>4
  <2>2. CASE flag_effect(code[k]) # "Neutral"
    <3>1. Spills(code[k])
      BY <1>1, <2>2 DEF Spills, SetsFlags, Stores
    <3>2. ~Plain(code[k])
      <4>1. code[k].op # "mov"
        BY <2>2 DEF flag_effect, Alu, Arithmetic
      <4>2. flag_effect(code[k]) = "Overwrites" => overwriter_settles(code[k])
        BY <1>1 DEF flag_effect, overwriter_settles, Stores
      <4> QED BY <4>1, <4>2 DEF Plain
    <3>3. pending = Live
      BY <1>1, <3>2, NextIsPlain
    <3>4. how = Live
      BY <1>1, <1>3, <3>3, BeginRight
    <3>5. m = [c.m EXCEPT !.fl = regs.fl, !.r = regs.r]
      BY <1>5, <3>1, <3>4 DEF Unspilled
    <3>6. IsRegs(m) /\ m.fl = regs.fl
      BY <1>7, <3>5 DEF IsRegs
    <3>7. emit_flags(Live, m) = m.fl /\ emit_flags(Live, regs) = regs.fl
      BY DEF emit_flags, Live
    <3> QED BY <1>7, <3>3, <3>4, <3>6, <3>7
  <2> QED BY <2>1, <2>2
<1>9. exit' # "running" /\ regs'.fl = ref.fl
  BY <1>6, <1>8, LeaveRight
<1> QED BY <1>1, <1>9 DEF FlagsInv

LEMMA JumpKeeps ==
  ASSUME FlagsInv, NEW k, Jump(k)
  PROVE  FlagsInv'
<1>1. RunsOn(k) /\ code[k].op \in {"jcc", "jmp"} /\ at' = k /\ code' = code
  BY DEF Jump
<1>2. PICK s : s = Begin(code[k])
  OBVIOUS
<1>3. /\ IsRegs(s.m) /\ emit_flags(s.how, s.m) = ref.fl
      /\ Settles(code[k]) => s.how = Live /\ s.m.fl = ref.fl
  BY <1>1, <1>2, BeginRight
<1>4. Leave("jumped", s.how, s.m)
  BY <1>2 DEF Jump
<1>5. exit' # "running" /\ regs'.fl = ref.fl
  BY <1>3, <1>4, LeaveRight
<1>6. ref = [fl |-> ref.fl, res |-> ref.res] /\ code \in Programs
  BY DEF FlagsInv
<1>7. ref' = [fl |-> ref.fl, res |-> last']
  <2>1. CASE code[k].op = "jmp"
    <3>1. last' = TRUE /\ ref' = [ref EXCEPT !.res = TRUE]
      BY <2>1 DEF Jump
    <3> QED BY <1>6, <3>1
  <2>2. CASE code[k].op = "jcc"
    <3>1. s.m.fl = ref.fl /\ code[k].count \in 0 .. 15
      BY <1>1, <1>3, <2>2, NextIsPlain DEF Settles
    <3>2. PICK way : way = cond(code[k].count, ref.fl)
      OBVIOUS
    <3>3. emit_cond_value(code[k].count, s.m.fl) = way
      BY <3>1, <3>2, ConditionRight
    <3>4. last' = (FALSE \/ way) /\ ref' = [ref EXCEPT !.res = (FALSE \/ way)]
      BY <1>2, <2>2, <3>2, <3>3 DEF Jump
    <3> QED BY <1>6, <3>4
  <2> QED BY <1>1, <2>1, <2>2
<1>8. k \in Nat
  BY <1>1, NextIsPlain
<1> QED BY <1>1, <1>5, <1>6, <1>7, <1>8 DEF FlagsInv

LEMMA EndKeeps == FlagsInv /\ EndOfBlock => FlagsInv'
<1> SUFFICES ASSUME FlagsInv, EndOfBlock
             PROVE  FlagsInv'
  OBVIOUS
<1>1. /\ exit = "running" /\ Leave("ended", pending, regs) /\ UNCHANGED <<code, at, ref, last>>
  BY DEF EndOfBlock
<1>2. IsRegs(regs) /\ emit_flags(pending, regs) = ref.fl
  BY <1>1 DEF FlagsInv
<1>3. exit' # "running" /\ regs'.fl = ref.fl
  BY <1>1, <1>2 DEF Leave, IsRegs
<1> QED BY <1>1, <1>3 DEF FlagsInv

LEMMA FlagsStep == FlagsInv /\ [FlagsNext]_flagVars => FlagsInv'
<1> SUFFICES ASSUME FlagsInv, [FlagsNext]_flagVars
             PROVE  FlagsInv'
  OBVIOUS
<1>1. CASE UNCHANGED flagVars
  BY <1>1 DEF flagVars, FlagsInv, IsRegs, emit_flags, defer_pays
<1>2. ASSUME NEW k \in DOMAIN code, NEW p \in Inputs(code)
      PROVE  Value(p[1], code[k].size) \in Operands(code[k].size) /\ Value(p[2], code[k].size) \in Operands(code[k].size)
  <2>1. p[1] \in Nat /\ p[2] \in Nat /\ code[k] \in Instruction
    BY <1>2, DeferredFlagsAssumption DEF FlagsInv
  <2>2. code[k].size \in Sizes
    BY <2>1 DEF Instruction, Sizes
  <2> QED BY <2>1, <2>2, Rounded
<1>3. CASE FlagsNext
  <2>1. CASE EndOfBlock
    BY <2>1, EndKeeps
  <2>2. ASSUME NEW k \in DOMAIN code, Jump(k) \/ LoadFault(k)
        PROVE  FlagsInv'
    BY <2>2, JumpKeeps, LoadFaultKeeps
  <2>3. ASSUME NEW k \in DOMAIN code, NEW p \in Inputs(code),
               NEW a \in Operands(code[k].size), NEW b \in Operands(code[k].size),
               Run(k, a, b) \/ StoreNotice(k, a, b) \/ StoreFault(k, a, b)
        PROVE  FlagsInv'
    BY <2>3, RunKeeps, StoreNoticeKeeps, StoreFaultKeeps
  <2> QED BY <1>2, <1>3, <2>1, <2>2, <2>3 DEF FlagsNext
<1> QED BY <1>1, <1>3

LEMMA FlagsStart == FlagsInit => FlagsInv
<1> SUFFICES ASSUME FlagsInit
             PROVE  FlagsInv
  OBVIOUS
<1>1. PICK fl : regs = [fl |-> fl, a |-> 0, b |-> 0, r |-> 0] /\ ref = [fl |-> fl, res |-> 0]
  BY DEF FlagsInit
<1>2. emit_flags(Live, regs) = regs.fl
  BY DEF emit_flags, Live
<1> QED BY <1>1, <1>2 DEF FlagsInit, FlagsInv, IsRegs

(* For any program, any operands of any two sizes and any distance of the    *)
(* scan, wherever a compiled block is left (at its end, at a jump, a fault   *)
(* or a store into code) the flags, the last result and the way of a jump    *)
(* are the interpreter's: the late flags of compile.rs never show.           *)
THEOREM FlagsAreInterpreted == FlagsSpec => []LeftAsInterpreted
<1>1. FlagsInv => LeftAsInterpreted
  BY DEF FlagsInv, LeftAsInterpreted
<1> QED BY <1>1, FlagsStart, FlagsStep, PTL DEF FlagsSpec
=============================================================================
