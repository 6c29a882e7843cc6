----------------------------- MODULE Scheduler -----------------------------
(***************************************************************************)
(* Threads together with the synchronisation operations of                 *)
(* crates/os/src/sync.rs, the handle operations of fs.rs (close) and       *)
(* server.rs (duplicate, select) and the would-block wait of net.rs: the   *)
(* whole of what decides which guest thread runs and what a wait grants.   *)
(*                                                                         *)
(* Three entry points wait and release under slightly different rules: the *)
(* kernel32 thunks ("win32"), the NT system calls ("nt") and the wineserver *)
(* select call ("server"); Apis says which of them the guest uses.         *)
(***************************************************************************)
EXTENDS Threads

CONSTANTS GuestOps,     \* the groups of operations the guest uses
          Kinds,        \* the kinds of objects it creates
          Timeouts,     \* the timeouts it passes
          Apis,         \* the wait entry points it uses
          Names,        \* object names
          Releases,     \* release counts passed to the semaphore calls
          SemaphoreArgs,\* <<initial, maximum>> pairs passed to the create calls
          MaxCount,     \* bound: |count| of a semaphore
          MaxHold,      \* bound: recursion of a mutex
          MaxWait       \* bound: handles in one wait call

ASSUME GuestAssumption ==
    /\ GuestOps \subseteq {"create", "sleep", "exit", "terminate", "suspend",
                           "names", "close", "dup", "reset"}
    /\ Kinds \subseteq {"AutoEvent", "ManualEvent", "Mutex", "Semaphore"}
    /\ Timeouts \subseteq {"poll", "finite", "infinite"}
    /\ Apis \subseteq {"win32", "nt", "server", "afd"}
ASSUME ArgsAssumption == /\ SemaphoreArgs \subseteq Int \X Int
                         /\ Releases \subseteq Int
                         /\ MaxCount \in Nat /\ MaxHold \in Nat /\ MaxWait \in Nat

VARIABLES
    named,  \* named_kobjects: name -> handle, 0 when the name is unknown
    held,   \* history: mutex grants minus releases each thread was told of
    owed    \* history: signals a guest put in a counted object minus waits
            \* reported as granted on it
histVars == <<held, owed>>
vars == <<threadVars, objectVars, named, histVars>>

None == 0

Init ==
    /\ ThreadsInit
    /\ named = [n \in Names |-> None]
    /\ held = [t \in Tids |-> [h \in Handles |-> 0]]
    /\ owed = [h \in Handles |-> 0]

\* A wait consumes a unit of these; the others are levels.
Counted(o) == \/ o.kind = "Semaphore"
              \/ o.kind = "Event" /\ ~o.manual

Units(o) == IF o.kind = "Semaphore" THEN o.count
            ELSE IF o.kind = "Event" /\ o.signaled THEN 1 ELSE 0

-----------------------------------------------------------------------------
(* Making, naming, duplicating and closing objects. *)

\* The objects the create calls build.  The NT call validates a semaphore's
\* arguments, the thunk does not.
NewObjects ==
    {[kind |-> "Event", manual |-> m, signaled |-> b] :
        m \in {m \in BOOLEAN : (IF m THEN "ManualEvent" ELSE "AutoEvent") \in Kinds},
        b \in BOOLEAN}
    \union {o \in {[kind |-> "Mutex", owner |-> NoOwner, recursion |-> 0],
                   [kind |-> "Mutex", owner |-> current, recursion |-> 1]} :
               "Mutex" \in Kinds}
    \union {[kind |-> "Semaphore", count |-> a[1], max |-> a[2]] :
               a \in {a \in SemaphoreArgs :
                        /\ "Semaphore" \in Kinds
                        /\ \/ "win32" \in Apis
                           \/ a[2] >= 1 /\ 0 <= a[1] /\ a[1] <= a[2]}}

Insert(o) ==
    /\ nextHandle <= MaxHandles
    /\ kobj' = [kobj EXCEPT ![nextHandle] = o]
    /\ nextHandle' = nextHandle + 1

\* make_object: an unnamed object, or one whose name is not taken yet.
CreateObject(o, n) ==
    /\ AtInstruction
    /\ Insert(o)
    /\ named' = IF n \in Names THEN [named EXCEPT ![n] = nextHandle] ELSE named
    /\ n \in Names => named[n] = None
    /\ held' = [held EXCEPT ![current][nextHandle] =
                    IF o.kind = "Mutex" THEN o.recursion ELSE 0]
    /\ owed' = [owed EXCEPT ![nextHandle] = Units(o)]
    /\ Stay
    /\ UNCHANGED <<nthreads, state, suspendCount, handle, call, phase>>

\* make_object on a taken name, and Open*: the existing handle, whatever its
\* kind.  Nothing changes but the time.
OpenNamed(n) ==
    /\ AtInstruction
    /\ named[n] # None
    /\ Stay
    /\ UNCHANGED <<nthreads, state, suspendCount, handle, call, phase, objectVars,
                   named, histVars>>

\* close_handle: the object goes, and every name that led to it.
CloseHandle(h) ==
    /\ AtInstruction
    /\ kobj[h] # Missing
    /\ kobj' = [kobj EXCEPT ![h] = Missing]
    /\ named' = [n \in Names |-> IF named[n] = h THEN None ELSE named[n]]
    /\ Stay
    /\ UNCHANGED <<nthreads, state, suspendCount, handle, call, phase, nextHandle, histVars>>

\* dup_kobject_handle: a second object that starts with a copy of the state.
DupHandle(h) ==
    /\ AtInstruction
    /\ kobj[h] # Missing
    /\ Insert(kobj[h])
    /\ held' = [t \in Tids |-> [held[t] EXCEPT ![nextHandle] =
                                  IF kobj[h].kind = "Mutex" THEN held[t][h] ELSE 0]]
    /\ owed' = [owed EXCEPT ![nextHandle] = owed[h]]
    /\ Stay
    /\ UNCHANGED <<nthreads, state, suspendCount, handle, call, phase, named>>

-----------------------------------------------------------------------------
(* Signalling.  A call on a missing or mismatched object changes nothing   *)
(* and is covered by Compute.                                              *)

Put(h, o) == /\ kobj' = [kobj EXCEPT ![h] = o]
             /\ Stay
             /\ UNCHANGED <<nthreads, state, suspendCount, handle, call, phase,
                            nextHandle, named>>

\* SetEvent / NtSetEvent, and ResetEvent; PulseEvent only resets.
SetEvent(h, signaled) ==
    /\ AtInstruction
    /\ kobj[h].kind = "Event"
    /\ Put(h, [kobj[h] EXCEPT !.signaled = signaled])
    /\ owed' = [owed EXCEPT ![h] = IF signaled THEN 1 ELSE 0]
    /\ UNCHANGED held

ReleaseMutex(h) ==
    /\ AtInstruction
    /\ kobj[h].kind = "Mutex"
    /\ kobj[h].owner = current
    /\ Put(h, Released(kobj[h]))
    /\ held' = [held EXCEPT ![current][h] = @ - 1]
    /\ UNCHANGED owed

\* ReleaseSemaphore takes any count; NtReleaseSemaphore at least one.  A
\* maximum that is not positive is no limit.
ReleaseSemaphore(h, n, api) ==
    /\ AtInstruction
    /\ kobj[h].kind = "Semaphore"
    /\ api = "nt" => n >= 1
    /\ LET bump == kobj[h].count + n IN
       /\ kobj[h].max > 0 => bump <= kobj[h].max
       /\ bump \in -MaxCount .. MaxCount
       /\ Put(h, [kobj[h] EXCEPT !.count = bump])
    /\ owed' = [owed EXCEPT ![h] = @ + n]
    /\ UNCHANGED held

-----------------------------------------------------------------------------
(* Waiting. *)

\* The calls a thread may make; a thread whose program counter was left on a
\* wait makes that one again.
WaitInputs ==
    {c \in [api : Apis \ {"afd"},
            handles : UNION {[1 .. n -> Handles] : n \in 1 .. MaxWait},
            all : BOOLEAN, timeout : Timeouts] :
        /\ \A i, j \in DOMAIN c.handles : c.handles[i] = c.handles[j] => i = j
        /\ Len(c.handles) = 1 => c.all = (c.api = "win32")
        /\ c.api # "nt" => c.timeout # "finite"}  \* only NT tells the two apart

AfdCall == [api |-> "afd", handles |-> <<>>, all |-> TRUE, timeout |-> "finite"]

Arrives(c) ==
    /\ MayExecute
    /\ \/ call[current] = c
       \/ /\ call[current] = NoCall
          /\ \A i \in DOMAIN c.handles : held[current][c.handles[i]] < MaxHold

Returns == /\ call' = [call EXCEPT ![current] = NoCall]
           /\ Stay
           /\ UNCHANGED state

\* block_and_switch: the thread stays on the call and somebody else runs.
BlockOn(c) ==
    \E t \in Tids :
        /\ Picks(kobj, t)
        /\ Activate(t, [state EXCEPT ![current] = "Blocked"])
        /\ call' = [call EXCEPT ![current] = c]

Grants(G) ==
    /\ held' = [held EXCEPT ![current] =
                  [h \in Handles |-> IF h \in G /\ kobj[h].kind = "Mutex"
                                     THEN @[h] + 1 ELSE @[h]]]
    /\ owed' = [h \in Handles |-> IF h \in G /\ Counted(kobj[h])
                                  THEN owed[h] - 1 ELSE owed[h]]

InvalidHandle(c) ==
    c.api = "nt" /\ \E i \in DOMAIN c.handles : kobj[c.handles[i]] = Missing

\* NtWaitFor* on a handle that is not open fails at once.
WaitInvalid(c) ==
    /\ Arrives(c)
    /\ InvalidHandle(c)
    /\ Returns
    /\ UNCHANGED <<nthreads, suspendCount, handle, phase, objectVars, named, histVars>>

WaitGranted(c) ==
    LET G == Granted(kobj, c, current) IN
    /\ Arrives(c)
    /\ ~InvalidHandle(c)
    /\ Satisfied(kobj, c, current)
    /\ kobj' = AcquireAll(kobj, G, current)
    /\ Grants(G)
    /\ Returns
    /\ UNCHANGED <<nthreads, suspendCount, handle, phase, nextHandle, named>>

\* Not satisfied: poll and give up, or block if somebody else can run.
WaitBlocks(c) ==
    /\ Arrives(c)
    /\ ~InvalidHandle(c)
    /\ ~Satisfied(kobj, c, current)
    /\ IF c.timeout = "poll" THEN Returns ELSE BlockOn(c)
    /\ UNCHANGED <<nthreads, suspendCount, handle, phase, objectVars, named, histVars>>

WaitAlone_Hasty(c) ==
    /\ Arrives(c)
    /\ ~InvalidHandle(c)
    /\ ~Satisfied(kobj, c, current)
    /\ c.timeout # "poll"
    /\ Returns
    /\ IF c.api = "nt" THEN UNCHANGED histVars ELSE Grants(Claimed(c))
    /\ phase' = IF c.api = "nt" /\ c.timeout = "infinite" THEN "deadlock" ELSE phase
    /\ UNCHANGED <<nthreads, suspendCount, handle, objectVars, named>>

\* Nobody else can run: the NT calls end the run or time out, the thunks and
\* the server call report success.
WaitAlone(c) ==
    /\ Arrives(c)
    /\ ~InvalidHandle(c)
    /\ ~Satisfied(kobj, c, current)
    /\ c.timeout # "poll"
    /\ Candidates(kobj) = {}
    /\ Returns
    /\ IF c.api = "nt" THEN UNCHANGED histVars ELSE Grants(Claimed(c))
    /\ phase' = IF c.api = "nt" /\ c.timeout = "infinite" THEN "deadlock" ELSE phase
    /\ UNCHANGED <<nthreads, suspendCount, handle, objectVars, named>>

\* afd_block: a socket operation that would block gives way to any runnable
\* thread and is retried when scheduled, which its empty wait always allows;
\* when alone the host thread sleeps until the operation ends.
SocketWait ==
    /\ "afd" \in Apis
    /\ Arrives(AfdCall)
    /\ \/ Returns
       \/ BlockOn(AfdCall)
    /\ UNCHANGED <<nthreads, suspendCount, handle, phase, objectVars, named, histVars>>

Wait(c) == WaitInvalid(c) \/ WaitGranted(c) \/ WaitBlocks(c) \/ WaitAlone(c)

-----------------------------------------------------------------------------

\* run_borrowed has returned.
Ended == phase # "run" /\ UNCHANGED vars

Next ==
    \/ /\ UNCHANGED <<named, histVars>>
       /\ \/ Preempt
          \/ Compute
          \/ "sleep" \in GuestOps /\ SleepOrSwitch
          \/ \E suspended \in {b \in BOOLEAN : b => "suspend" \in GuestOps} :
                CreateThread(suspended)
          \/ "exit" \in GuestOps /\ (ExitProcess \/ \E nt \in {b \in BOOLEAN : b => "nt" \in Apis} : EndCurrent(nt))
          \/ \E t \in Tids :
                \/ "terminate" \in GuestOps /\ TerminateOther(t)
                \/ "suspend" \in GuestOps /\ (Suspend(t) \/ Resume(t))
    \/ "create" \in GuestOps /\ \E o \in NewObjects, n \in Names \union {None} :
          CreateObject(o, n)
    \/ \E n \in Names : OpenNamed(n)
    \/ \E h \in Handles :
          \/ "close" \in GuestOps /\ CloseHandle(h)
          \/ "dup" \in GuestOps /\ DupHandle(h)
          \/ SetEvent(h, TRUE)
          \/ "reset" \in GuestOps /\ SetEvent(h, FALSE)
          \/ ReleaseMutex(h)
          \/ \E n \in Releases, api \in Apis \intersect {"win32", "nt"} :
                ReleaseSemaphore(h, n, api)
    \/ \E c \in WaitInputs : Wait(c)
    \/ SocketWait
    \/ Ended

Spec == Init /\ [][Next]_vars

\* The run loop executes the next guest instruction as long as the process
\* runs: one CPU, no step of which depends on anything but the guest.
FairSpec == Spec /\ WF_vars(Next)

-----------------------------------------------------------------------------
(* Properties. *)

\* Every variable holds a value the program can give it: the thread table
\* and the kernel objects of WinOs, and what the guest was told of them.
TypeOK ==
    /\ ThreadTypeOK
    /\ ObjectTypeOK
    /\ named \in [Names -> 0 .. MaxHandles]
    /\ held \in [Tids -> [Handles -> Int]]
    /\ owed \in [Handles -> Int]

\* A mutex is exactly as owned as its guests were told: the owner's grants
\* minus its releases are the recursion count, and nobody else has any.
MutexAsGranted ==
    \A h \in Handles : kobj[h].kind = "Mutex" =>
        /\ kobj[h].owner = NoOwner <=> kobj[h].recursion = 0
        /\ \A t \in Tids :
             held[t][h] = IF kobj[h].owner = t THEN kobj[h].recursion ELSE 0

\* alloc_khandle never hands out a handle that is or was in use: nothing is
\* known of a handle before its turn.
FreshHandles ==
    \A h \in Handles : h >= nextHandle =>
        kobj[h] = Missing /\ \A t \in Tids : held[t][h] = 0

\* The inductive invariant behind MutexAsGranted: a duplicate or a new object
\* must meet a handle nobody was told anything about.
MutexInv == TypeOK /\ MutexAsGranted /\ FreshHandles

\* Every wait reported as granted used up one signal: what is left in a
\* semaphore or an auto-reset event is what was put in minus what was taken.
SignalsConserved ==
    \A h \in Handles : Counted(kobj[h]) => owed[h] = Units(kobj[h])

\* A thread's own handle is signaled once the thread has ended, so whoever
\* joins it wakes (exit_thread, the terminate handlers).
JoinWakes ==
    \A t \in Tids : state[t] = "Terminated" /\ handle[t] # 0 =>
        IsSignaled(kobj[handle[t]], current)

\* The run is given up as a guest deadlock only when no other thread could
\* make progress (nt_wait's error, pick_next).
DeadlockIsReal ==
    phase = "deadlock" =>
        \A t \in (1 .. nthreads) \ {current} :
            \/ state[t] \in {"Suspended", "Terminated"}
            \/ state[t] = "Blocked" /\ ~Satisfied(kobj, call[t], t)

\* A blocked thread is put on the CPU only when the wait it is about to
\* repeat can be granted, judged after everything the switching step changed
\* (pick_next in exit_thread and block_and_switch).
WokenIsSatisfied ==
    [][\A t \in Tids : state[t] = "Blocked" /\ current' = t /\ current # t =>
            Satisfied(kobj', call[t], t)]_vars

\* An ended thread does not come back (exit_thread, the terminate handlers).
TerminatedIsFinal ==
    [][\A t \in Tids : state[t] = "Terminated" => state'[t] = "Terminated"]_vars

\* Only the owner's own release takes a mutex away from it: no grant, close of
\* another handle, or termination moves ownership from one thread to another.
OwnershipMovesThroughFree ==
    [][\A h \in Handles :
         kobj[h].kind = "Mutex" /\ kobj'[h].kind = "Mutex" /\ kobj[h].owner # NoOwner =>
            \/ kobj'[h].owner = kobj[h].owner
            \/ kobj'[h].owner = NoOwner /\ current = kobj[h].owner]_vars

\* What a guest may rely on about mutexes, whatever the schedule.
Promise == INSTANCE MutexPromise
              WITH Thread <- Tids, Mutex <- Handles, grants <- held
PromiseKept == Promise!Spec

\* The timeslice keeps a CPU-bound thread from starving the others: a ready
\* thread gets the CPU, is suspended or is ended.
ReadyRuns ==
    \A t \in Tids : state[t] = "Ready" ~> (state[t] # "Ready" \/ phase # "run")

\* A blocked thread whose wait stays satisfiable is woken.
SatisfiedWakes ==
    \A t \in Tids :
        ~ <>[](phase = "run" /\ state[t] = "Blocked" /\ Satisfied(kobj, call[t], t))
=============================================================================
