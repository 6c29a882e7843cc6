--------------------------- MODULE KernelObjects ---------------------------
(***************************************************************************)
(* The kernel objects of crates/os/src/sync.rs: what makes an object       *)
(* signaled for a thread, and what a wait that is granted does to it.      *)
(* Threads are numbered in the order of WinOs::threads (1 is the main      *)
(* thread); handles in the order alloc_khandle hands them out.  A waitable *)
(* timer behaves as an event in every operation, so both are "Event".      *)
(*                                                                         *)
(* Here and in the modules above this one, a definition whose name has an  *)
(* underscore is a mutant of the definition that follows it: a plausible   *)
(* bug, used only to see that a property notices it.                       *)
(***************************************************************************)
EXTENDS Integers, Sequences

CONSTANTS MaxThreads,   \* bound: slots of the thread table
          MaxHandles    \* bound: kernel handles ever allocated

ASSUME BoundsAssumption ==
    /\ MaxThreads \in Nat \ {0}
    /\ MaxHandles \in Nat

Tids    == 1 .. MaxThreads
Handles == 1 .. MaxHandles
NoOwner == 0            \* Mutex { owner: None, .. }

Events     == [kind : {"Event"}, manual : BOOLEAN, signaled : BOOLEAN]
Mutexes    == [kind : {"Mutex"}, owner : 0 .. MaxThreads, recursion : Nat]
Semaphores == [kind : {"Semaphore"}, count : Int, max : Int]
Latches    == [kind : {"Thread"}, exited : BOOLEAN]
Missing    == [kind |-> "Missing"]      \* the handle is not in kobjects
KObjects   == Events \union Mutexes \union Semaphores \union Latches \union {Missing}

IsSignaled_AnyMutex(o, t) ==
    CASE o.kind = "Event"     -> o.signaled
      [] o.kind = "Semaphore" -> o.count > 0
      [] o.kind = "Thread"    -> o.exited
      [] OTHER                -> TRUE

\* KObject::is_signaled; a handle that is not in the table counts as signaled.
IsSignaled(o, t) ==
    CASE o.kind = "Event"     -> o.signaled
      [] o.kind = "Semaphore" -> o.count > 0
      [] o.kind = "Mutex"     -> o.owner \in {NoOwner, t}
      [] o.kind = "Thread"    -> o.exited
      [] OTHER                -> TRUE

Acquired_KeepsCount(o, t) ==
    CASE o.kind = "Event" -> [o EXCEPT !.signaled = o.manual]
      [] o.kind = "Mutex" -> [kind |-> "Mutex", owner |-> t, recursion |-> o.recursion + 1]
      [] OTHER            -> o

\* KObject::acquire, for an object that IsSignaled for t.
Acquired(o, t) ==
    CASE o.kind = "Event"     -> [o EXCEPT !.signaled = o.manual]
      [] o.kind = "Semaphore" -> [o EXCEPT !.count = @ - 1]
      [] o.kind = "Mutex"     -> [kind |-> "Mutex", owner |-> t, recursion |-> o.recursion + 1]
      [] OTHER                -> o

\* ReleaseMutex by the owner: recursion.saturating_sub(1), free at zero.
Released(o) ==
    LET left == IF o.recursion = 0 THEN 0 ELSE o.recursion - 1
    IN  [kind |-> "Mutex", owner |-> IF left = 0 THEN NoOwner ELSE o.owner,
         recursion |-> left]

\* A wait call: its entry point, its handles in array order, wait-all or
\* wait-any, and whether it polls, waits a finite time or for ever.
WaitCalls == [api : {"win32", "nt", "server", "afd"}, handles : Seq(Handles),
              all : BOOLEAN, timeout : {"poll", "finite", "infinite"}]
NoCall == [api |-> "none"]

Satisfied(ko, c, t) ==
    IF c.all THEN \A i \in DOMAIN c.handles : IsSignaled(ko[c.handles[i]], t)
             ELSE \E i \in DOMAIN c.handles : IsSignaled(ko[c.handles[i]], t)

\* The handles a satisfied wait acquires: all of them, or the first signaled.
Granted(ko, c, t) ==
    IF c.all THEN {c.handles[i] : i \in DOMAIN c.handles}
    ELSE {c.handles[i] : i \in {i \in DOMAIN c.handles :
              /\ IsSignaled(ko[c.handles[i]], t)
              /\ \A j \in 1 .. i - 1 : ~IsSignaled(ko[c.handles[j]], t)}}

AcquireAll_First(ko, G, t) ==
    [h \in Handles |-> IF h \in G /\ \A g \in G : h <= g THEN Acquired(ko[h], t) ELSE ko[h]]

AcquireAll(ko, G, t) ==
    [h \in Handles |-> IF h \in G THEN Acquired(ko[h], t) ELSE ko[h]]

\* What a caller concludes it was granted when an unsatisfied wait reports
\* success: all the handles, or the one whose index 0 is returned.
Claimed(c) == IF c.all THEN {c.handles[i] : i \in DOMAIN c.handles}
                       ELSE {c.handles[1]}
=============================================================================
