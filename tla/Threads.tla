------------------------------ MODULE Threads ------------------------------
(***************************************************************************)
(* The thread table and scheduler of crates/os/src/thread.rs: one guest    *)
(* CPU, a table of threads, a round-robin choice of the next one.  A       *)
(* thread that blocks in a wait keeps its program counter on the call      *)
(* ("call"), so being scheduled again means executing the wait again.      *)
(*                                                                         *)
(* WaitDesc is not a variable of its own: a Blocked thread's descriptor    *)
(* holds the handles and the `all` flag of call[t], and only a Blocked     *)
(* thread's descriptor is ever read.  Stacks and registers are not kept.      *)
(***************************************************************************)
EXTENDS KernelObjects

CONSTANTS TIMESLICE,    \* instructions a thread runs before it is preempted
          MaxSuspend    \* bound: suspend count of one thread

ASSUME SliceAssumption == TIMESLICE \in Nat /\ TIMESLICE >= 2
ASSUME SuspendAssumption == MaxSuspend \in Nat \ {0}

VARIABLES
    nthreads,     \* threads.len()
    current,      \* WinOs::current, also current_tid
    state,        \* Thread::state; "None" for a slot not yet pushed
    suspendCount, \* Thread::suspend_count
    handle,       \* Thread::handle (0 for the main thread)
    call,         \* the wait call Thread::saved.rip stands on, or NoCall
    ticks,        \* sched_ticks
    phase,        \* "run", or how run_borrowed ended: "exited", "deadlock"
    kobj,         \* kobjects
    nextHandle    \* next_handle, counted in handles

threadVars == <<nthreads, current, state, suspendCount, handle, call, ticks, phase>>
objectVars == <<kobj, nextHandle>>

ThreadStates == {"None", "Ready", "Running", "Blocked", "Suspended", "Terminated"}

ThreadTypeOK ==
    /\ nthreads \in Tids
    /\ current \in 1 .. nthreads
    /\ state \in [Tids -> ThreadStates]
    /\ \A t \in Tids : t <= nthreads <=> state[t] # "None"
    /\ suspendCount \in [Tids -> 0 .. MaxSuspend]
    /\ handle \in [Tids -> 0 .. MaxHandles]
    /\ call \in [Tids -> WaitCalls \union {NoCall}]
    /\ ticks \in 0 .. TIMESLICE - 1
    /\ phase \in {"run", "exited", "deadlock"}

ObjectTypeOK ==
    /\ kobj \in [Handles -> KObjects]
    /\ nextHandle \in 1 .. MaxHandles + 1

ThreadsInit ==
    /\ nthreads = 1
    /\ current = 1
    /\ state = [t \in Tids |-> IF t = 1 THEN "Running" ELSE "None"]
    /\ suspendCount = [t \in Tids |-> 0]
    /\ handle = [t \in Tids |-> 0]
    /\ call = [t \in Tids |-> NoCall]
    /\ ticks = 0
    /\ phase = "run"
    /\ kobj = [h \in Handles |-> Missing]
    /\ nextHandle = 1

-----------------------------------------------------------------------------
(* Choosing the next thread. *)

Runnable_AnyBlocked(ko, t) == state[t] \in {"Ready", "Blocked"}

Runnable_NeverBlocked(ko, t) == state[t] = "Ready"

Runnable(ko, t) ==
    \/ state[t] = "Ready"
    \/ state[t] = "Blocked" /\ Satisfied(ko, call[t], t)

\* Slots after `current`, wrapping around: (current + s) % n in pick_next.
Distance(t) == IF t > current THEN t - current ELSE t + nthreads - current

Candidates(ko) == {t \in (1 .. nthreads) \ {current} : Runnable(ko, t)}

Picks_Lowest(ko, t) ==
    /\ t \in Candidates(ko)
    /\ \A u \in Candidates(ko) : t <= u

\* pick_next() returns Some(t); it returns None when Candidates is empty.
Picks(ko, t) ==
    /\ t \in Candidates(ko)
    /\ \A u \in Candidates(ko) : Distance(t) <= Distance(u)

-----------------------------------------------------------------------------
(* One interpreted step.  intercept() first spends a tick; at the end of   *)
(* the slice the step is the switch itself and executes nothing, unless    *)
(* nobody else can run, in which case the slice starts over.               *)

SliceEnds == nthreads >= 2 /\ ticks + 1 >= TIMESLICE

MayExecute ==
    /\ phase = "run"
    /\ SliceEnds => Candidates(kobj) = {}

Ticked_NoReset == IF nthreads < 2 THEN ticks ELSE ticks + 1

Ticked == IF nthreads < 2 THEN ticks ELSE IF SliceEnds THEN 0 ELSE ticks + 1

\* A guest operation other than repeating a wait needs a free program counter.
AtInstruction == MayExecute /\ call[current] = NoCall

\* activate(next), given what the caller left in `state`.
Activate(t, s) ==
    /\ state' = [s EXCEPT ![t] = "Running"]
    /\ current' = t
    /\ ticks' = 0

\* yield_and_switch when pick_next finds t.
YieldTo(t) ==
    /\ Picks(kobj, t)
    /\ Activate(t, [state EXCEPT ![current] = "Ready"])
    /\ UNCHANGED <<nthreads, suspendCount, handle, call, phase, objectVars>>

Stay == ticks' = Ticked /\ UNCHANGED current

-----------------------------------------------------------------------------
(* The actions of the thread table. *)

Preempt ==
    /\ phase = "run"
    /\ SliceEnds
    /\ \E t \in Tids : YieldTo(t)

\* Any instruction that enters no handler.
Compute ==
    /\ AtInstruction
    /\ Stay
    /\ UNCHANGED <<nthreads, state, suspendCount, handle, call, phase, objectVars>>

\* Sleep, SwitchToThread: complete_and_yield.
SleepOrSwitch ==
    /\ AtInstruction
    /\ \/ \E t \in Tids : YieldTo(t)
       \/ /\ Candidates(kobj) = {}
          /\ Stay
          /\ UNCHANGED <<nthreads, state, suspendCount, handle, call, phase, objectVars>>

\* create_thread / nt_create_thread_ex when every mapping succeeds.
CreateThread(suspended) ==
    LET t == nthreads + 1 IN
    /\ AtInstruction
    /\ nthreads < MaxThreads
    /\ nextHandle <= MaxHandles
    /\ nthreads' = t
    /\ state' = [state EXCEPT ![t] = IF suspended THEN "Suspended" ELSE "Ready"]
    /\ suspendCount' = [suspendCount EXCEPT ![t] = IF suspended THEN 1 ELSE 0]
    /\ handle' = [handle EXCEPT ![t] = nextHandle]
    /\ kobj' = [kobj EXCEPT ![nextHandle] = [kind |-> "Thread", exited |-> FALSE]]
    /\ nextHandle' = nextHandle + 1
    /\ Stay
    /\ UNCHANGED <<call, phase>>

\* KObject::Thread { exited } of thread t, when its handle is still open.
Exited(t) ==
    [h \in Handles |-> IF h = handle[t] /\ kobj[h].kind = "Thread"
                       THEN [kobj[h] EXCEPT !.exited = TRUE] ELSE kobj[h]]

\* The end of the current thread: exit_thread, and both terminate handlers
\* when they name the thread that runs them.  With nobody left to run, the
\* thunks end the process while nt_terminate_thread returns to the guest.
EndCurrent(nt) ==
    LET s  == [state EXCEPT ![current] = "Terminated"]
        ko == Exited(current)
    IN
    /\ AtInstruction
    /\ kobj' = ko
    /\ \/ \E t \in Tids : Picks(ko, t) /\ Activate(t, s) /\ UNCHANGED phase
       \/ /\ Candidates(ko) = {}
          /\ state' = s
          /\ Stay
          /\ phase' = IF nt THEN phase ELSE "exited"
    /\ UNCHANGED <<nthreads, suspendCount, handle, call, nextHandle>>

TerminateOther_NoLatch(t) ==
    /\ AtInstruction
    /\ t \in 1 .. nthreads
    /\ handle[t] # 0
    /\ t # current
    /\ state' = [state EXCEPT ![t] = "Terminated"]
    /\ Stay
    /\ UNCHANGED <<nthreads, suspendCount, handle, call, phase, objectVars>>

\* TerminateThread / NtTerminateThread on another thread, whatever its state.
TerminateOther(t) ==
    /\ AtInstruction
    /\ t \in 1 .. nthreads
    /\ handle[t] # 0
    /\ t # current
    /\ state' = [state EXCEPT ![t] = "Terminated"]
    /\ kobj' = Exited(t)
    /\ Stay
    /\ UNCHANGED <<nthreads, suspendCount, handle, call, phase, nextHandle>>

\* A thread names itself by its handle, or through NtCurrentThread() in the
\* NT entry points, which is the only way to name the main thread.
Suspend(t) ==
    /\ AtInstruction
    /\ t \in 1 .. nthreads
    /\ handle[t] # 0 \/ t = current
    /\ suspendCount[t] < MaxSuspend
    /\ suspendCount' = [suspendCount EXCEPT ![t] = @ + 1]
    /\ state' = IF t # current /\ state[t] # "Terminated"
                THEN [state EXCEPT ![t] = "Suspended"] ELSE state
    /\ Stay
    /\ UNCHANGED <<nthreads, handle, call, phase, objectVars>>

Resume_AnyState(t) ==
    /\ AtInstruction
    /\ t \in 1 .. nthreads
    /\ handle[t] # 0 \/ t = current
    /\ suspendCount[t] > 0
    /\ suspendCount' = [suspendCount EXCEPT ![t] = @ - 1]
    /\ state' = IF suspendCount[t] = 1 /\ t # current
                THEN [state EXCEPT ![t] = "Ready"] ELSE state
    /\ Stay
    /\ UNCHANGED <<nthreads, handle, call, phase, objectVars>>

Resume(t) ==
    /\ AtInstruction
    /\ t \in 1 .. nthreads
    /\ handle[t] # 0 \/ t = current
    /\ suspendCount[t] > 0
    /\ suspendCount' = [suspendCount EXCEPT ![t] = @ - 1]
    /\ state' = IF suspendCount[t] = 1 /\ state[t] = "Suspended"
                THEN [state EXCEPT ![t] = "Ready"] ELSE state
    /\ Stay
    /\ UNCHANGED <<nthreads, handle, call, phase, objectVars>>

\* ExitProcess, NtTerminateProcess(self).
ExitProcess ==
    /\ AtInstruction
    /\ phase' = "exited"
    /\ Stay
    /\ UNCHANGED <<nthreads, state, suspendCount, handle, call, objectVars>>
=============================================================================
