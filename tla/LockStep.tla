------------------------------ MODULE LockStep ------------------------------
(***************************************************************************)
(* Process::run_borrowed of crates/app with the interpreter alone: one     *)
(* turn of the loop is one step.  This is when the events that depend on   *)
(* counting instructions happen - the end of a thread's slice, the refresh *)
(* of the time in KUSER_SHARED_DATA, the step cap and the debugger's stop  *)
(* at a step - and so what a run with compiled blocks owes its guest.      *)
(*                                                                         *)
(* The clock is the virtual one, without the credit for sleeping.          *)
(***************************************************************************)
EXTENDS Integers

CONSTANTS Slice,     \* TIMESLICE
          Refresh,   \* KUSER_REFRESH_INSTRUCTIONS
          MaxSteps,  \* max_steps, 0 for no cap
          MaxDepth,  \* MAX_EXC_DEPTH
          Threads,   \* the guest's threads
          Breaks     \* steps at which a debugger may ask to stop

Never == -1          \* BREAK_AT_STEP_DISABLED

ASSUME LockStepAssumption ==
    /\ Slice \in Nat /\ Refresh \in Nat \ {0} /\ MaxSteps \in Nat /\ MaxDepth \in Nat
    /\ Breaks \subseteq Nat

VARIABLES steps,   \* instructions the guest has run
          clock,   \* GuestClock::instret
          ticks,   \* sched_ticks
          thread,  \* the current thread
          multi,   \* whether a second thread was ever created
          shared,  \* the clock as KUSER_SHARED_DATA shows it
          next,    \* next_kuser_refresh
          depth,   \* exc_depth
          brk,     \* break_at_step
          status   \* where the loop is: at its top, past a stop, or over

loopVars == <<steps, clock, ticks, thread, multi, shared, next, depth, brk, status>>

Init == /\ steps = 0 /\ clock = 0 /\ ticks = 0 /\ shared = 0 /\ depth = 0
        /\ thread \in Threads /\ multi = FALSE
        /\ next = Refresh
        /\ brk \in Breaks \union {Never}
        /\ status = "running"

Capped  == MaxSteps # 0 /\ steps >= MaxSteps
AtBreak == brk # Never /\ steps >= brk
Goes    == status = "resumed" \/ (status = "running" /\ ~Capped /\ ~AtBreak)

Exhaust == /\ status = "running" /\ Capped
           /\ status' = "exhausted"
           /\ UNCHANGED <<steps, clock, ticks, thread, multi, shared, next, depth, brk>>

\* The stop is served once; the loop goes on without looking again.
DebugStop == /\ status = "running" /\ ~Capped /\ AtBreak
             /\ brk' \in Breaks \union {Never}
             /\ status' = "resumed"
             /\ UNCHANGED <<steps, clock, ticks, thread, multi, shared, next, depth>>

-----------------------------------------------------------------------------
(* One step of the interpreter, wherever the loop takes it from.           *)

\* The page shows the time of every Refresh-th step.
Refreshed(s, c) ==
    /\ shared' = IF s >= next THEN c ELSE shared
    /\ next' = IF s >= next THEN (s \div Refresh + 1) * Refresh ELSE next

Counted == /\ steps' = steps + 1
           /\ clock' = clock + 1
           /\ Refreshed(steps + 1, clock + 1)
           /\ depth' \in {0, depth}
           /\ UNCHANGED brk

SliceEnds == multi /\ ticks + 1 >= Slice
TicksOn   == ticks' = IF SliceEnds THEN 0 ELSE IF multi THEN ticks + 1 ELSE ticks

\* The slice's last step goes into the switch; no instruction runs.
SwitchStep == /\ SliceEnds /\ Counted
              /\ \E t \in Threads : t # thread /\ thread' = t
              /\ ticks' = 0 /\ UNCHANGED multi

ExecuteStep == Counted /\ TicksOn /\ UNCHANGED <<thread, multi>>

\* A system call may create a thread, or block this one and switch.
SystemStep == /\ Counted
              /\ \/ multi' = TRUE /\ TicksOn /\ UNCHANGED thread
                 \/ multi /\ thread' \in Threads \ {thread} /\ ticks' = 0 /\ UNCHANGED multi

\* An exception is delivered: time passes, but the step does not count.
FaultStep == /\ depth < MaxDepth /\ depth' = depth + 1
             /\ clock' = clock + 1
             /\ TicksOn
             /\ UNCHANGED <<steps, thread, multi, shared, next, brk>>

\* The guest exits, or faults once too often.
LastStep == /\ clock' = clock + 1 /\ TicksOn
            /\ UNCHANGED <<steps, thread, multi, shared, next, depth, brk>>

Interpreted(after) == \/ (SwitchStep \/ ExecuteStep \/ SystemStep \/ FaultStep) /\ status' = after
                      \/ LastStep /\ status' = "over"

-----------------------------------------------------------------------------
Step == Goes /\ Interpreted("running")

LoopNext == Exhaust \/ DebugStop \/ Step
Spec == Init /\ [][LoopNext]_loopVars
=============================================================================
