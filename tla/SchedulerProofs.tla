-------------------------- MODULE SchedulerProofs --------------------------
(***************************************************************************)
(* Proofs about Scheduler, for every number of threads and handles, every  *)
(* timeslice and every choice of guest operations; the last part is about  *)
(* the instances in which a guest waits through the NT calls.              *)
(***************************************************************************)
EXTENDS Scheduler, TLAPS

USE BoundsAssumption, SliceAssumption, SuspendAssumption, ArgsAssumption
  DEF BoundsAssumption, SliceAssumption, SuspendAssumption, ArgsAssumption

\* What a step that does not switch does to the slice counter (preempt_by).
LEMMA TickedType == ThreadTypeOK => Ticked \in 0 .. TIMESLICE - 1
  BY DEF ThreadTypeOK, Ticked, SliceEnds, Tids

\* A thread pick_next chooses exists and is not the current one.
LEMMA PickedType ==
  ASSUME NEW ko, NEW t, ThreadTypeOK, Picks(ko, t)
  PROVE  t \in Tids /\ t \in 1 .. nthreads /\ t # current
  BY DEF ThreadTypeOK, Picks, Candidates, Tids

\* Handing the CPU over keeps the thread table well formed (activate).
LEMMA ActivateType ==
  ASSUME NEW ko, NEW t, NEW s, ThreadTypeOK, Picks(ko, t), Activate(t, s),
         s \in [Tids -> ThreadStates],
         \A u \in Tids : u <= nthreads <=> s[u] # "None",
         UNCHANGED <<nthreads, suspendCount, handle>>,
         call' \in [Tids -> WaitCalls \union {NoCall}],
         phase' \in {"run", "exited", "deadlock"}
  PROVE  ThreadTypeOK'
  <1>1. t \in Tids /\ t \in 1 .. nthreads BY PickedType
  <1>2. 0 \in 0 .. TIMESLICE - 1 OBVIOUS
  <1>3. state' \in [Tids -> ThreadStates] BY DEF Activate, ThreadStates
  <1>4. \A u \in Tids : u <= nthreads' <=> state'[u] # "None"
    BY <1>1 DEF Activate, Tids
  <1> QED BY <1>1, <1>2, <1>3, <1>4 DEF Activate, ThreadTypeOK

\* Acquiring, from any well-formed object, leaves one (KObject::acquire).
LEMMA AcquiredType ==
  ASSUME NEW o \in KObjects, NEW t \in Tids
  PROVE  Acquired(o, t) \in KObjects
  <1>1. CASE o \in Events
    BY <1>1 DEF Acquired, KObjects, Events
  <1>2. CASE o \in Mutexes
    BY <1>2 DEF Acquired, KObjects, Mutexes, Tids
  <1>3. CASE o \in Semaphores
    BY <1>3 DEF Acquired, KObjects, Semaphores
  <1>4. CASE o \in Latches \union {Missing}
    BY <1>4 DEF Acquired, KObjects, Latches, Missing
  <1> QED BY <1>1, <1>2, <1>3, <1>4 DEF KObjects

LEMMA AcquireAllType ==
  ASSUME NEW G, NEW t \in Tids, kobj \in [Handles -> KObjects]
  PROVE  AcquireAll(kobj, G, t) \in [Handles -> KObjects]
  BY AcquiredType DEF AcquireAll

\* Setting a thread's latch keeps the object table well formed.
LEMMA ExitedType ==
  ASSUME NEW t \in Tids, kobj \in [Handles -> KObjects]
  PROVE  Exited(t) \in [Handles -> KObjects]
  <1>1. ASSUME NEW o \in KObjects, o.kind = "Thread"
        PROVE  [o EXCEPT !.exited = TRUE] \in KObjects
    BY <1>1 DEF KObjects, Events, Mutexes, Semaphores, Latches, Missing
  <1> QED BY <1>1 DEF Exited

\* A wait the guest may make is a wait call.
LEMMA WaitInputType == WaitInputs \subseteq WaitCalls
  <1> SUFFICES ASSUME NEW c \in WaitInputs PROVE c \in WaitCalls
    OBVIOUS
  <1>1. c.handles \in Seq(Handles)
    <2>1. PICK n \in 1 .. MaxWait : c.handles \in [1 .. n -> Handles]
      BY DEF WaitInputs
    <2> QED BY <2>1
  <1>2. c = [api |-> c.api, handles |-> c.handles, all |-> c.all, timeout |-> c.timeout]
    BY DEF WaitInputs
  <1>3. c.api \in {"win32", "nt", "server", "afd"} /\ c.all \in BOOLEAN
        /\ c.timeout \in {"poll", "finite", "infinite"}
    BY GuestAssumption DEF WaitInputs, GuestAssumption
  <1> QED BY <1>1, <1>2, <1>3 DEF WaitCalls

\* The objects the create calls build are kernel objects.
LEMMA NewObjectType == ThreadTypeOK => NewObjects \subseteq KObjects
  <1> SUFFICES ASSUME ThreadTypeOK, NEW o \in NewObjects PROVE o \in KObjects
    OBVIOUS
  <1>1. current \in 0 .. MaxThreads
    BY DEF ThreadTypeOK, Tids
  <1> QED BY <1>1 DEF NewObjects, KObjects, Events, Mutexes, Semaphores, NoOwner

\* A step that stays on the current thread and leaves the table alone.
LEMMA StayType ==
  ASSUME ThreadTypeOK, Stay, UNCHANGED <<nthreads, state, suspendCount, handle>>,
         call' \in [Tids -> WaitCalls \union {NoCall}],
         phase' \in {"run", "exited", "deadlock"}
  PROVE  ThreadTypeOK'
  BY TickedType DEF ThreadTypeOK, Stay

\* yield_and_switch keeps the thread table well formed.
LEMMA YieldType ==
  ASSUME ThreadTypeOK, NEW t, YieldTo(t)
  PROVE  ThreadTypeOK'
  <1> DEFINE s == [state EXCEPT ![current] = "Ready"]
  <1>1. Picks(kobj, t) /\ Activate(t, s)
        /\ UNCHANGED <<nthreads, suspendCount, handle, call, phase>>
    BY DEF YieldTo
  <1>2. s \in [Tids -> ThreadStates] /\ \A u \in Tids : u <= nthreads <=> s[u] # "None"
    BY DEF ThreadTypeOK, ThreadStates, Tids
  <1>3. call' \in [Tids -> WaitCalls \union {NoCall}]
        /\ phase' \in {"run", "exited", "deadlock"}
    BY <1>1 DEF ThreadTypeOK
  <1> HIDE DEF s
  <1> QED BY <1>1, <1>2, <1>3, ActivateType

\* The operations of the thread table, one by one.
LEMMA ThreadStepType ==
  ASSUME ThreadTypeOK, ObjectTypeOK,
         \/ Preempt \/ Compute \/ SleepOrSwitch \/ ExitProcess
         \/ \E b \in BOOLEAN : CreateThread(b) \/ EndCurrent(b)
         \/ \E t \in Tids : TerminateOther(t) \/ Suspend(t) \/ Resume(t)
  PROVE  ThreadTypeOK' /\ ObjectTypeOK'
  <1>c. call \in [Tids -> WaitCalls \union {NoCall}]
        /\ phase \in {"run", "exited", "deadlock"}
    BY DEF ThreadTypeOK
  <1>1. CASE Preempt
    BY <1>1, YieldType DEF Preempt, YieldTo, objectVars, ObjectTypeOK
  <1>2. CASE Compute
    BY <1>2, <1>c, StayType DEF Compute, objectVars, ObjectTypeOK
  <1>3. CASE SleepOrSwitch
    <2>1. CASE \E t \in Tids : YieldTo(t)
      BY <2>1, YieldType DEF YieldTo, objectVars, ObjectTypeOK
    <2>2. CASE ~ \E t \in Tids : YieldTo(t)
      BY <1>3, <2>2, <1>c, StayType DEF SleepOrSwitch, objectVars, ObjectTypeOK
    <2> QED BY <2>1, <2>2
  <1>4. CASE ExitProcess
    BY <1>4, <1>c, StayType DEF ExitProcess, objectVars, ObjectTypeOK
  <1>5. ASSUME NEW b \in BOOLEAN, CreateThread(b)
        PROVE  ThreadTypeOK' /\ ObjectTypeOK'
    <2> DEFINE t == nthreads + 1
    <2>1. t \in Tids /\ nthreads' = t /\ current' \in 1 .. nthreads'
      BY <1>5 DEF CreateThread, Stay, ThreadTypeOK, Tids
    <2>2. state' \in [Tids -> ThreadStates]
          /\ \A u \in Tids : u <= nthreads' <=> state'[u] # "None"
      <3>1. state' = [state EXCEPT ![t] = IF b THEN "Suspended" ELSE "Ready"]
        BY <1>5 DEF CreateThread
      <3>2. /\ state \in [Tids -> ThreadStates] /\ nthreads \in Tids
            /\ \A u \in Tids : u <= nthreads <=> state[u] # "None"
        BY DEF ThreadTypeOK
      <3>3. state' \in [Tids -> ThreadStates]
        BY <3>1, <3>2 DEF ThreadStates
      <3> QED BY <2>1, <3>1, <3>2, <3>3 DEF Tids
    <2>3. ticks' \in 0 .. TIMESLICE - 1
      BY <1>5, TickedType DEF CreateThread, Stay
    <2>4. handle' \in [Tids -> 0 .. MaxHandles]
      <3>1. nextHandle \in 0 .. MaxHandles
        BY <1>5 DEF CreateThread, ObjectTypeOK
      <3>2. handle \in [Tids -> 0 .. MaxHandles]
        BY DEF ThreadTypeOK
      <3> QED BY <1>5, <3>1, <3>2 DEF CreateThread
    <2>5. suspendCount' \in [Tids -> 0 .. MaxSuspend]
      <3>1. \A b2 \in BOOLEAN : (IF b2 THEN 1 ELSE 0) \in 0 .. MaxSuspend
        OBVIOUS
      <3>2. suspendCount \in [Tids -> 0 .. MaxSuspend]
        BY DEF ThreadTypeOK
      <3> QED BY <1>5, <3>1, <3>2 DEF CreateThread
    <2>6. ObjectTypeOK'
      <3>1. [kind |-> "Thread", exited |-> FALSE] \in KObjects
        BY DEF KObjects, Latches
      <3> QED BY <1>5, <3>1 DEF CreateThread, ObjectTypeOK, Handles
    <2> QED BY <1>5, <1>c, <2>1, <2>2, <2>3, <2>4, <2>5, <2>6 DEF CreateThread, ThreadTypeOK
  <1>6. ASSUME NEW b \in BOOLEAN, EndCurrent(b)
        PROVE  ThreadTypeOK' /\ ObjectTypeOK'
    <2> DEFINE s == [state EXCEPT ![current] = "Terminated"]
    <2>1. s \in [Tids -> ThreadStates] /\ \A u \in Tids : u <= nthreads <=> s[u] # "None"
      BY DEF ThreadTypeOK, ThreadStates, Tids
    <2>2. ObjectTypeOK'
      BY <1>6, ExitedType DEF EndCurrent, ObjectTypeOK, ThreadTypeOK, Tids
    <2>3. UNCHANGED <<nthreads, suspendCount, handle, call>>
          /\ phase' \in {"run", "exited", "deadlock"}
      BY <1>6, <1>c DEF EndCurrent
    <2>4. CASE \E t \in Tids : Picks(Exited(current), t) /\ Activate(t, s)
      <3> HIDE DEF s
      <3> QED BY <2>1, <2>2, <2>3, <2>4, <1>c, ActivateType
    <2>5. CASE state' = s /\ Stay
      BY <2>1, <2>2, <2>3, <2>5, TickedType DEF Stay, ThreadTypeOK
    <2> QED BY <1>6, <2>4, <2>5 DEF EndCurrent
  <1>7. ASSUME NEW t \in Tids, TerminateOther(t)
        PROVE  ThreadTypeOK' /\ ObjectTypeOK'
    <2>1. ObjectTypeOK'
      BY <1>7, ExitedType DEF TerminateOther, ObjectTypeOK
    <2>2. state' \in [Tids -> ThreadStates]
          /\ \A u \in Tids : u <= nthreads <=> state'[u] # "None"
      BY <1>7 DEF TerminateOther, ThreadTypeOK, ThreadStates, Tids
    <2> QED BY <1>7, <2>1, <2>2, TickedType DEF TerminateOther, Stay, ThreadTypeOK
  <1>8. ASSUME NEW t \in Tids, Suspend(t)
        PROVE  ThreadTypeOK' /\ ObjectTypeOK'
    <2>1. suspendCount' \in [Tids -> 0 .. MaxSuspend]
      BY <1>8 DEF Suspend, ThreadTypeOK
    <2>2. state' \in [Tids -> ThreadStates]
          /\ \A u \in Tids : u <= nthreads <=> state'[u] # "None"
      BY <1>8 DEF Suspend, ThreadTypeOK, ThreadStates, Tids
    <2> QED BY <1>8, <2>1, <2>2, TickedType
            DEF Suspend, Stay, ThreadTypeOK, objectVars, ObjectTypeOK
  <1>9. ASSUME NEW t \in Tids, Resume(t)
        PROVE  ThreadTypeOK' /\ ObjectTypeOK'
    <2>1. suspendCount' \in [Tids -> 0 .. MaxSuspend]
      BY <1>9 DEF Resume, ThreadTypeOK
    <2>2. state' \in [Tids -> ThreadStates]
          /\ \A u \in Tids : u <= nthreads <=> state'[u] # "None"
      BY <1>9 DEF Resume, ThreadTypeOK, ThreadStates, Tids
    <2> QED BY <1>9, <2>1, <2>2, TickedType
            DEF Resume, Stay, ThreadTypeOK, objectVars, ObjectTypeOK
  <1> QED BY <1>1, <1>2, <1>3, <1>4, <1>5, <1>6, <1>7, <1>8, <1>9

-----------------------------------------------------------------------------
(* Type correctness of the synchronisation operations. *)

\* Making and duplicating put one more kernel object in the table.
LEMMA InsertType ==
  ASSUME NEW o \in KObjects, ObjectTypeOK, Insert(o)
  PROVE  ObjectTypeOK' /\ nextHandle \in Handles
  BY DEF Insert, ObjectTypeOK, Handles

\* Changing one object in place, on an operation that stays (signal_sync).
LEMMA PutType ==
  ASSUME NEW h \in Handles, NEW o \in KObjects, ThreadTypeOK, ObjectTypeOK, Put(h, o)
  PROVE  ThreadTypeOK' /\ ObjectTypeOK'
  <1>1. ThreadTypeOK'
    BY StayType DEF Put, ThreadTypeOK
  <1> QED BY <1>1 DEF Put, ObjectTypeOK

\* Returning from a wait, and blocking on it.
LEMMA ReturnsType ==
  ASSUME ThreadTypeOK, Returns, UNCHANGED <<nthreads, suspendCount, handle>>,
         phase' \in {"run", "exited", "deadlock"}
  PROVE  ThreadTypeOK'
  <1>1. call' \in [Tids -> WaitCalls \union {NoCall}]
    BY DEF Returns, ThreadTypeOK
  <1> QED BY <1>1, StayType DEF Returns

LEMMA BlockType ==
  ASSUME NEW c \in WaitCalls, ThreadTypeOK, BlockOn(c),
         UNCHANGED <<nthreads, suspendCount, handle, phase>>
  PROVE  ThreadTypeOK'
  <1> DEFINE s == [state EXCEPT ![current] = "Blocked"]
  <1>1. PICK t \in Tids : Picks(kobj, t) /\ Activate(t, s)
    BY DEF BlockOn
  <1>2. s \in [Tids -> ThreadStates] /\ \A u \in Tids : u <= nthreads <=> s[u] # "None"
    BY DEF ThreadTypeOK, ThreadStates, Tids
  <1>3. call' \in [Tids -> WaitCalls \union {NoCall}]
        /\ phase' \in {"run", "exited", "deadlock"}
    BY DEF BlockOn, ThreadTypeOK
  <1> HIDE DEF s
  <1> QED BY <1>1, <1>2, <1>3, ActivateType

LEMMA GrantsType ==
  ASSUME NEW G, TypeOK, Grants(G)
  PROVE  held' \in [Tids -> [Handles -> Int]] /\ owed' \in [Handles -> Int]
  <1> DEFINE row == [h \in Handles |-> IF h \in G /\ kobj[h].kind = "Mutex"
                                      THEN held[current][h] + 1 ELSE held[current][h]]
  <1>1. held \in [Tids -> [Handles -> Int]] /\ owed \in [Handles -> Int] /\ current \in Tids
    BY DEF TypeOK, ThreadTypeOK, Tids
  <1>2. row \in [Handles -> Int]
    BY <1>1
  <1>3. held' = [held EXCEPT ![current] = row]
    BY DEF Grants
  <1>4. owed' \in [Handles -> Int]
    BY <1>1 DEF Grants
  <1> HIDE DEF row
  <1> QED BY <1>1, <1>2, <1>3, <1>4

\* What the kind of a well-formed object says of its other fields.
LEMMA KindType ==
  ASSUME NEW o \in KObjects
  PROVE  /\ o.kind = "Event" => o \in Events
         /\ o.kind = "Mutex" => o \in Mutexes
         /\ o.kind = "Semaphore" => o \in Semaphores
         /\ o.kind = "Thread" => o \in Latches
  <1>1. CASE o \in Events BY <1>1 DEF Events
  <1>2. CASE o \in Mutexes BY <1>2 DEF Mutexes
  <1>3. CASE o \in Semaphores BY <1>3 DEF Semaphores
  <1>4. CASE o \in Latches BY <1>4 DEF Latches
  <1>5. CASE o = Missing BY <1>5 DEF Missing
  <1> QED BY <1>1, <1>2, <1>3, <1>4, <1>5 DEF KObjects

LEMMA ReleasedType == \A m \in Mutexes : Released(m) \in Mutexes
  BY DEF Released, Mutexes, NoOwner

LEMMA AfdCallType == AfdCall \in WaitCalls
  <1>1. <<>> \in Seq(Handles) OBVIOUS
  <1> QED BY <1>1 DEF AfdCall, WaitCalls

\* The synchronisation operations, one by one.
LEMMA SyncStepType ==
  ASSUME TypeOK,
         \/ \E o \in NewObjects, n \in Names \union {None} : CreateObject(o, n)
         \/ \E n \in Names : OpenNamed(n)
         \/ \E h \in Handles :
              \/ CloseHandle(h) \/ DupHandle(h)
              \/ \E b \in BOOLEAN : SetEvent(h, b)
              \/ ReleaseMutex(h)
              \/ \E n \in Releases, api \in {"win32", "nt"} : ReleaseSemaphore(h, n, api)
         \/ \E c \in WaitInputs : Wait(c)
         \/ SocketWait
  PROVE  TypeOK'
  <1>t. /\ ThreadTypeOK /\ ObjectTypeOK
        /\ named \in [Names -> 0 .. MaxHandles]
        /\ held \in [Tids -> [Handles -> Int]]
        /\ owed \in [Handles -> Int]
        /\ kobj \in [Handles -> KObjects]
        /\ current \in Tids
        /\ phase \in {"run", "exited", "deadlock"}
        /\ call \in [Tids -> WaitCalls \union {NoCall}]
    <2>1. ThreadTypeOK /\ ObjectTypeOK
      BY DEF TypeOK
    <2>2. current \in Tids
      BY <2>1 DEF ThreadTypeOK, Tids
    <2>3. call \in [Tids -> WaitCalls \union {NoCall}]
          /\ phase \in {"run", "exited", "deadlock"}
      BY <2>1 DEF ThreadTypeOK
    <2> QED BY <2>1, <2>2, <2>3 DEF TypeOK, ObjectTypeOK
  <1>1. ASSUME NEW o \in NewObjects, NEW n \in Names \union {None}, CreateObject(o, n)
        PROVE  TypeOK'
    <2>1. o \in KObjects /\ ObjectTypeOK' /\ nextHandle \in Handles
      BY <1>1, <1>t, NewObjectType, InsertType DEF CreateObject
    <2>2. ThreadTypeOK'
      BY <1>1, <1>t, StayType DEF CreateObject
    <2>3. named' \in [Names -> 0 .. MaxHandles]
      BY <1>1, <1>t, <2>1 DEF CreateObject, Handles
    <2>4. held' \in [Tids -> [Handles -> Int]]
      <3>1. (IF o.kind = "Mutex" THEN o.recursion ELSE 0) \in Int
        BY <2>1 DEF KObjects, Events, Mutexes, Semaphores, Latches, Missing
      <3> QED BY <1>1, <1>t, <2>1, <3>1 DEF CreateObject
    <2>5. owed' \in [Handles -> Int]
      <3>1. Units(o) \in Int
        BY <2>1 DEF Units, KObjects, Events, Mutexes, Semaphores, Latches, Missing
      <3> QED BY <1>1, <1>t, <2>1, <3>1 DEF CreateObject
    <2> QED BY <2>1, <2>2, <2>3, <2>4, <2>5 DEF TypeOK
  <1>2. ASSUME NEW n \in Names, OpenNamed(n)
        PROVE  TypeOK'
    <2>1. ThreadTypeOK'
      BY <1>2, <1>t, StayType DEF OpenNamed
    <2> QED BY <1>2, <1>t, <2>1 DEF OpenNamed, objectVars, histVars, ObjectTypeOK, TypeOK
  <1>3. ASSUME NEW h \in Handles, CloseHandle(h)
        PROVE  TypeOK'
    <2>1. ThreadTypeOK'
      BY <1>3, <1>t, StayType DEF CloseHandle
    <2>2. ObjectTypeOK'
      BY <1>3, <1>t DEF CloseHandle, ObjectTypeOK, KObjects
    <2>3. named' \in [Names -> 0 .. MaxHandles]
      BY <1>3, <1>t DEF CloseHandle, None
    <2> QED BY <1>3, <1>t, <2>1, <2>2, <2>3 DEF CloseHandle, histVars, TypeOK
  <1>4. ASSUME NEW h \in Handles, DupHandle(h)
        PROVE  TypeOK'
    <2>1. ObjectTypeOK' /\ nextHandle \in Handles
      BY <1>4, <1>t, InsertType DEF DupHandle
    <2>2. ThreadTypeOK'
      BY <1>4, <1>t, StayType DEF DupHandle
    <2>3. held' \in [Tids -> [Handles -> Int]]
      BY <1>4, <1>t, <2>1 DEF DupHandle
    <2> QED BY <1>4, <1>t, <2>1, <2>2, <2>3 DEF DupHandle, TypeOK
  <1>5. ASSUME NEW h \in Handles, NEW b \in BOOLEAN, SetEvent(h, b)
        PROVE  TypeOK'
    <2>1. [kobj[h] EXCEPT !.signaled = b] \in KObjects
      <3>1. kobj[h] \in Events
        BY <1>5, <1>t, KindType DEF SetEvent
      <3> QED BY <3>1 DEF KObjects, Events
    <2>2. ThreadTypeOK' /\ ObjectTypeOK'
      BY <1>5, <1>t, <2>1, PutType DEF SetEvent
    <2> QED BY <1>5, <1>t, <2>2 DEF SetEvent, Put, TypeOK
  <1>6. ASSUME NEW h \in Handles, ReleaseMutex(h)
        PROVE  TypeOK'
    <2>1. Released(kobj[h]) \in KObjects
      BY <1>6, <1>t, KindType, ReleasedType DEF ReleaseMutex, KObjects
    <2>2. Put(h, Released(kobj[h]))
      BY <1>6 DEF ReleaseMutex
    <2>3. ThreadTypeOK' /\ ObjectTypeOK'
      BY <1>t, <2>1, <2>2, PutType
    <2>4. held' \in [Tids -> [Handles -> Int]]
      <3>1. held[current] \in [Handles -> Int]
        BY <1>t
      <3>2. [held[current] EXCEPT ![h] = @ - 1] \in [Handles -> Int]
        BY <3>1
      <3>3. held' = [held EXCEPT ![current] = [held[current] EXCEPT ![h] = @ - 1]]
        BY <1>6 DEF ReleaseMutex
      <3> QED BY <1>t, <3>2, <3>3
    <2>5. UNCHANGED <<named, owed>>
      BY <1>6 DEF ReleaseMutex, Put
    <2> QED BY <1>t, <2>3, <2>4, <2>5 DEF TypeOK
  <1>7. ASSUME NEW h \in Handles, NEW n \in Releases, NEW api \in {"win32", "nt"},
               ReleaseSemaphore(h, n, api)
        PROVE  TypeOK'
    <2> DEFINE o == [kobj[h] EXCEPT !.count = kobj[h].count + n]
    <2>1. n \in Int /\ kobj[h] \in Semaphores
      BY <1>7, <1>t, KindType DEF ReleaseSemaphore
    <2>2. o \in KObjects
      BY <2>1 DEF KObjects, Semaphores
    <2>3. Put(h, o)
      BY <1>7 DEF ReleaseSemaphore
    <2> HIDE DEF o
    <2>4. ThreadTypeOK' /\ ObjectTypeOK'
      BY <1>t, <2>2, <2>3, PutType
    <2>5. owed' \in [Handles -> Int]
      BY <1>7, <1>t, <2>1 DEF ReleaseSemaphore
    <2>6. UNCHANGED <<named, held>>
      BY <1>7 DEF ReleaseSemaphore, Put
    <2> QED BY <1>t, <2>4, <2>5, <2>6 DEF TypeOK
  <1>8. ASSUME NEW c \in WaitInputs, Wait(c)
        PROVE  TypeOK'
    <2>c. c \in WaitCalls
      BY WaitInputType
    <2>1. CASE WaitInvalid(c)
      BY <2>1, <1>t, ReturnsType
         DEF WaitInvalid, TypeOK, objectVars, histVars, ObjectTypeOK
    <2>2. CASE WaitGranted(c)
      <3>1. ThreadTypeOK'
        BY <2>2, <1>t, ReturnsType DEF WaitGranted
      <3>2. ObjectTypeOK'
        BY <2>2, <1>t, AcquireAllType DEF WaitGranted, ObjectTypeOK
      <3> QED BY <2>2, <1>t, <3>1, <3>2, GrantsType DEF WaitGranted, TypeOK
    <2>3. CASE WaitBlocks(c)
      <3>1. ThreadTypeOK'
        BY <2>3, <2>c, <1>t, ReturnsType, BlockType DEF WaitBlocks
      <3> QED BY <2>3, <1>t, <3>1 DEF WaitBlocks, TypeOK, objectVars, histVars, ObjectTypeOK
    <2>4. CASE WaitAlone(c)
      <3>1. ThreadTypeOK'
        BY <2>4, <1>t, ReturnsType DEF WaitAlone
      <3>2. held' \in [Tids -> [Handles -> Int]] /\ owed' \in [Handles -> Int]
        BY <2>4, <1>t, GrantsType DEF WaitAlone, histVars
      <3> QED BY <2>4, <1>t, <3>1, <3>2 DEF WaitAlone, TypeOK, objectVars, ObjectTypeOK
    <2> QED BY <1>8, <2>1, <2>2, <2>3, <2>4 DEF Wait
  <1>9. CASE SocketWait
    <2>1. ThreadTypeOK'
      BY <1>9, <1>t, AfdCallType, ReturnsType, BlockType DEF SocketWait
    <2> QED BY <1>9, <1>t, <2>1 DEF SocketWait, TypeOK, objectVars, histVars, ObjectTypeOK
  <1> QED BY <1>1, <1>2, <1>3, <1>4, <1>5, <1>6, <1>7, <1>8, <1>9
-----------------------------------------------------------------------------
(* Every step of the specification is one of these. *)

LEMMA NextIsAStep ==
  ASSUME Next
  PROVE  \/ /\ UNCHANGED <<named, histVars>>
            /\ \/ Preempt \/ Compute \/ SleepOrSwitch \/ ExitProcess
               \/ \E b \in BOOLEAN : CreateThread(b) \/ EndCurrent(b)
               \/ \E t \in Tids : TerminateOther(t) \/ Suspend(t) \/ Resume(t)
         \/ \/ \E o \in NewObjects, n \in Names \union {None} : CreateObject(o, n)
            \/ \E n \in Names : OpenNamed(n)
            \/ \E h \in Handles :
                 \/ CloseHandle(h) \/ DupHandle(h)
                 \/ \E b \in BOOLEAN : SetEvent(h, b)
                 \/ ReleaseMutex(h)
                 \/ \E n \in Releases, api \in {"win32", "nt"} : ReleaseSemaphore(h, n, api)
            \/ \E c \in WaitInputs : Wait(c)
            \/ SocketWait
         \/ UNCHANGED vars
  BY Zenon DEF Next, Ended

LEMMA TypeInit == Init => TypeOK
  <1> SUFFICES ASSUME Init PROVE TypeOK
    OBVIOUS
  <1>1. ThreadTypeOK
    BY DEF Init, ThreadsInit, ThreadTypeOK, ThreadStates, Tids
  <1>2. ObjectTypeOK
    BY DEF Init, ThreadsInit, ObjectTypeOK, KObjects
  <1> QED BY <1>1, <1>2 DEF Init, TypeOK, None

LEMMA TypeStep == TypeOK /\ [Next]_vars => TypeOK'
  <1> SUFFICES ASSUME TypeOK, [Next]_vars PROVE TypeOK'
    OBVIOUS
  <1>1. CASE UNCHANGED vars
    BY <1>1 DEF vars, threadVars, objectVars, histVars, TypeOK, ThreadTypeOK, ObjectTypeOK,
                Tids, Handles
  <1>2. ASSUME UNCHANGED <<named, histVars>>,
               \/ Preempt \/ Compute \/ SleepOrSwitch \/ ExitProcess
               \/ \E b \in BOOLEAN : CreateThread(b) \/ EndCurrent(b)
               \/ \E t \in Tids : TerminateOther(t) \/ Suspend(t) \/ Resume(t)
        PROVE  TypeOK'
    <2>1. ThreadTypeOK' /\ ObjectTypeOK'
      BY <1>2, ThreadStepType DEF TypeOK
    <2> QED BY <1>2, <2>1 DEF TypeOK, histVars
  <1> QED BY <1>1, <1>2, NextIsAStep, SyncStepType

\* In every reachable state of the scheduler and its kernel objects, for any
\* number of threads, handles and operations, each variable is well formed:
\* the current thread exists, the slice is not overrun, an object is of one kind.
THEOREM TypeCorrect == Spec => []TypeOK
  <1> QED BY TypeInit, TypeStep, PTL DEF Spec

-----------------------------------------------------------------------------
(* Who runs.  For the arguments about thread states a step is of one of    *)
(* five kinds: it leaves the states alone, switches, adds a thread, ends   *)
(* the current one, or is aimed at another thread.                         *)

QuietStep == UNCHANGED <<state, current, handle>>

SwitchStep ==
    \E t \in Tids, w \in {"Ready", "Blocked"} :
        /\ phase = "run" /\ Picks(kobj, t)
        /\ Activate(t, [state EXCEPT ![current] = w])
        /\ UNCHANGED <<handle, phase, objectVars>>

LEMMA StepKinds ==
  ASSUME [Next]_vars
  PROVE  \/ QuietStep \/ SwitchStep
         \/ \E b \in BOOLEAN : CreateThread(b)
         \/ \E b \in BOOLEAN : EndCurrent(b) /\ (b => "nt" \in Apis)
         \/ \E t \in Tids : TerminateOther(t) \/ Suspend(t) \/ Resume(t)
  <1>y. ASSUME NEW t \in Tids, phase = "run", YieldTo(t) PROVE SwitchStep
    BY <1>y DEF YieldTo, SwitchStep
  <1>b. ASSUME NEW c, phase = "run", BlockOn(c), UNCHANGED <<handle, phase, objectVars>>
        PROVE  SwitchStep
    BY <1>b DEF BlockOn, SwitchStep
  <1>1. CASE Preempt
    BY <1>1, <1>y DEF Preempt
  <1>2. CASE Compute \/ ExitProcess
    BY <1>2 DEF Compute, ExitProcess, Stay, QuietStep
  <1>3. CASE SleepOrSwitch
    <2>1. phase = "run"
      BY <1>3 DEF SleepOrSwitch, AtInstruction, MayExecute
    <2>2. CASE \E t \in Tids : YieldTo(t)
      BY <2>1, <2>2, <1>y
    <2>3. CASE ~ \E t \in Tids : YieldTo(t)
      BY <1>3, <2>3 DEF SleepOrSwitch, Stay, QuietStep
    <2> QED BY <2>2, <2>3
  <1>4. ASSUME NEW o, NEW n, CreateObject(o, n) PROVE QuietStep
    BY <1>4 DEF CreateObject, Stay, QuietStep
  <1>5. ASSUME NEW n, OpenNamed(n) PROVE QuietStep
    BY <1>5 DEF OpenNamed, Stay, QuietStep
  <1>6. ASSUME NEW h, CloseHandle(h) \/ DupHandle(h) PROVE QuietStep
    BY <1>6 DEF CloseHandle, DupHandle, Stay, QuietStep
  <1>7. ASSUME NEW h, \/ \E b \in BOOLEAN : SetEvent(h, b)
                      \/ ReleaseMutex(h)
                      \/ \E n \in Releases, api \in {"win32", "nt"} : ReleaseSemaphore(h, n, api)
        PROVE  QuietStep
    BY <1>7 DEF SetEvent, ReleaseMutex, ReleaseSemaphore, Put, Stay, QuietStep
  <1>8. ASSUME NEW c, Wait(c) PROVE QuietStep \/ SwitchStep
    <2>1. phase = "run"
      BY <1>8 DEF Wait, WaitInvalid, WaitGranted, WaitBlocks, WaitAlone, Arrives, MayExecute
    <2>2. UNCHANGED handle
      BY <1>8 DEF Wait, WaitInvalid, WaitGranted, WaitBlocks, WaitAlone
    <2>3. CASE Returns
      BY <2>2, <2>3 DEF Returns, Stay, QuietStep
    <2>4. CASE WaitBlocks(c) /\ ~Returns
      BY <2>1, <2>4, <1>b DEF WaitBlocks
    <2> QED BY <1>8, <2>3, <2>4 DEF Wait, WaitInvalid, WaitGranted, WaitAlone
  <1>9. CASE SocketWait
    <2>1. phase = "run"
      BY <1>9 DEF SocketWait, Arrives, MayExecute
    <2>2. CASE Returns
      BY <1>9, <2>2 DEF SocketWait, Returns, Stay, QuietStep
    <2>3. CASE ~Returns
      BY <1>9, <2>1, <2>3, <1>b DEF SocketWait
    <2> QED BY <2>2, <2>3
  <1>10. CASE UNCHANGED vars
    BY <1>10 DEF vars, threadVars, QuietStep
  <1>11. CASE Next
    BY Zenon, <1>1, <1>2, <1>3, <1>4, <1>5, <1>6, <1>7, <1>8, <1>9, <1>10, <1>11 DEF Next, Ended
  <1> QED BY <1>10, <1>11

\* A switch goes to the thread pick_next chose, judged by the objects as the
\* step leaves them.
LEMMA SwitchPicks ==
  ASSUME TypeOK, [Next]_vars, current' # current
  PROVE  Picks(kobj', current')
  <1>1. CASE SwitchStep
    BY <1>1 DEF SwitchStep, Activate, objectVars
  <1>2. ASSUME NEW b \in BOOLEAN, EndCurrent(b) PROVE Picks(kobj', current')
    BY <1>2 DEF EndCurrent, Activate, Stay
  <1>3. CASE QuietStep
    BY <1>3 DEF QuietStep
  <1>4. ASSUME NEW b \in BOOLEAN, CreateThread(b) PROVE current' = current
    BY <1>4 DEF CreateThread, Stay
  <1>5. ASSUME NEW t \in Tids, TerminateOther(t) \/ Suspend(t) \/ Resume(t)
        PROVE  current' = current
    BY <1>5 DEF TerminateOther, Suspend, Resume, Stay
  <1> QED BY <1>1, <1>2, <1>3, <1>4, <1>5, StepKinds

\* A blocked thread is put on the CPU only when the wait it is about to repeat
\* can be granted, judged after the switching step set the latch of an ended
\* thread (pick_next in exit_thread and block_and_switch).
THEOREM WokenThreadsProceed == Spec => WokenIsSatisfied
  <1>1. ASSUME TypeOK, [Next]_vars, NEW t \in Tids,
               state[t] = "Blocked", current' = t, current # t
        PROVE  Satisfied(kobj', call[t], t)
    <2>1. Runnable(kobj', t)
      BY <1>1, SwitchPicks DEF Picks, Candidates
    <2> QED BY <1>1, <2>1 DEF Runnable
  <1>2. TypeOK /\ [Next]_vars =>
          [\A t \in Tids : state[t] = "Blocked" /\ current' = t /\ current # t =>
             Satisfied(kobj', call[t], t)]_vars
    BY <1>1
  <1> QED BY TypeInit, TypeStep, <1>2, PTL DEF Spec, WokenIsSatisfied

-----------------------------------------------------------------------------
(* Ended threads. *)

\* The CPU belongs to the current thread alone; and while the process runs it
\* runs it, unless the thread ended itself through the NT call.
OnlyCurrentRuns == \A t \in Tids : t # current => state[t] # "Running"
CurrentRuns == phase = "run" => state[current] = "Running"

\* Choosing a thread to run never finds an ended one.
LEMMA PickedIsAlive ==
  ASSUME TypeOK, NEW ko, NEW t, Picks(ko, t)
  PROVE  t \in Tids /\ t # current /\ state[t] \in {"Ready", "Blocked"}
  BY PickedType DEF TypeOK, Picks, Candidates, Runnable

LEMMA OnlyCurrentStep ==
  ASSUME TypeOK, OnlyCurrentRuns, [Next]_vars
  PROVE  OnlyCurrentRuns'
  <1>t. /\ state \in [Tids -> ThreadStates] /\ current \in Tids
        /\ nthreads \in Tids /\ current \in 1 .. nthreads
    BY DEF TypeOK, ThreadTypeOK, Tids
  <1>s. ASSUME NEW t \in Tids, NEW w \in {"Ready", "Blocked", "Terminated"},
               Activate(t, [state EXCEPT ![current] = w])
        PROVE  OnlyCurrentRuns'
    BY <1>s, <1>t DEF Activate, OnlyCurrentRuns
  <1>1. CASE QuietStep
    BY <1>1 DEF QuietStep, OnlyCurrentRuns
  <1>2. CASE SwitchStep
    BY <1>2, <1>s DEF SwitchStep
  <1>3. ASSUME NEW b \in BOOLEAN, CreateThread(b) PROVE OnlyCurrentRuns'
    <2>1. /\ current' = current
          /\ state' = [state EXCEPT ![nthreads + 1] = IF b THEN "Suspended" ELSE "Ready"]
      BY <1>3 DEF CreateThread, Stay
    <2> QED BY <1>t, <2>1 DEF OnlyCurrentRuns
  <1>4. ASSUME NEW b \in BOOLEAN, EndCurrent(b) PROVE OnlyCurrentRuns'
    <2>1. CASE \E t \in Tids : Activate(t, [state EXCEPT ![current] = "Terminated"])
      BY <2>1, <1>s
    <2>2. CASE state' = [state EXCEPT ![current] = "Terminated"] /\ Stay
      BY <1>t, <2>2 DEF Stay, OnlyCurrentRuns
    <2> QED BY <1>4, <2>1, <2>2 DEF EndCurrent
  <1>5. ASSUME NEW t \in Tids, TerminateOther(t) \/ Suspend(t) \/ Resume(t)
        PROVE  OnlyCurrentRuns'
    <2>1. /\ current' = current
          /\ \/ state' = state
             \/ \E w \in {"Terminated", "Suspended", "Ready"} : state' = [state EXCEPT ![t] = w]
      BY <1>5 DEF TerminateOther, Suspend, Resume, Stay
    <2> QED BY <1>t, <2>1 DEF OnlyCurrentRuns
  <1> QED BY <1>1, <1>2, <1>3, <1>4, <1>5, StepKinds

\* A step happens only while the process runs, or changes nothing.
LEMMA OnlyWhileRunning ==
  ASSUME [Next]_vars
  PROVE  phase = "run" \/ UNCHANGED vars
  BY Zenon DEF Next, Ended, Preempt, Compute, SleepOrSwitch, ExitProcess, CreateThread,
     EndCurrent, TerminateOther, Suspend, Resume, CreateObject, OpenNamed, CloseHandle, DupHandle,
     SetEvent, ReleaseMutex, ReleaseSemaphore, Wait, WaitInvalid, WaitGranted, WaitBlocks,
     WaitAlone, SocketWait, Arrives, AtInstruction, MayExecute

LEMMA CurrentRunsStep ==
  ASSUME TypeOK, CurrentRuns, [Next]_vars, "nt" \notin Apis
  PROVE  CurrentRuns'
  <1>t. /\ state \in [Tids -> ThreadStates] /\ current \in Tids
        /\ nthreads \in Tids /\ current \in 1 .. nthreads
    BY DEF TypeOK, ThreadTypeOK, Tids
  <1>s. ASSUME NEW t \in Tids, NEW w \in {"Ready", "Blocked", "Terminated"},
               Activate(t, [state EXCEPT ![current] = w])
        PROVE  CurrentRuns'
    BY <1>s, <1>t DEF Activate, CurrentRuns
  <1>0. CASE UNCHANGED vars
    BY <1>0 DEF vars, threadVars, CurrentRuns
  <1>r. CASE phase = "run"
    <2>0. state[current] = "Running"
      BY <1>r DEF CurrentRuns
    <2>1. CASE QuietStep
      BY <2>0, <2>1 DEF QuietStep, CurrentRuns
    <2>2. CASE SwitchStep
      BY <2>2, <1>s DEF SwitchStep
    <2>3. ASSUME NEW b \in BOOLEAN, CreateThread(b) PROVE CurrentRuns'
      <3>1. /\ current' = current
            /\ state' = [state EXCEPT ![nthreads + 1] = IF b THEN "Suspended" ELSE "Ready"]
        BY <2>3 DEF CreateThread, Stay
      <3> QED BY <1>t, <2>0, <3>1 DEF CurrentRuns
    <2>4. ASSUME NEW b \in BOOLEAN, EndCurrent(b), ~b PROVE CurrentRuns'
      <3>1. CASE \E t \in Tids : Activate(t, [state EXCEPT ![current] = "Terminated"])
        BY <3>1, <1>s
      <3>2. CASE phase' = "exited"
        BY <3>2 DEF CurrentRuns
      <3> QED BY <2>4, <3>1, <3>2 DEF EndCurrent
    <2>5. ASSUME NEW t \in Tids, TerminateOther(t) \/ Suspend(t) \/ Resume(t)
          PROVE  CurrentRuns'
      <3>1. current' = current
        BY <2>5 DEF TerminateOther, Suspend, Resume, Stay
      <3>2. state'[current] = state[current]
        BY <1>t, <2>0, <2>5 DEF TerminateOther, Suspend, Resume
      <3> QED BY <2>0, <3>1, <3>2 DEF CurrentRuns
    <2> QED BY <2>1, <2>2, <2>3, <2>4, <2>5, StepKinds
  <1> QED BY <1>0, <1>r, OnlyWhileRunning

\* An ended thread does not come back, whoever resumes it and whatever it was
\* waiting for (exit_thread, the terminate handlers).  Where threads may end
\* through the NT call this fails: nt_terminate_thread returns to the guest
\* when no other thread can run, and the ended thread goes on.
THEOREM EndedThreadsStayEnded ==
  ASSUME "nt" \notin Apis
  PROVE  Spec => TerminatedIsFinal
  <1> DEFINE Inv == TypeOK /\ CurrentRuns
  <1>1. Init => Inv
    BY TypeInit DEF Init, ThreadsInit, CurrentRuns, Tids
  <1>2. Inv /\ [Next]_vars => Inv'
    BY TypeStep, CurrentRunsStep
  <1>3. ASSUME Inv, Next, NEW u \in Tids, state[u] = "Terminated"
        PROVE  state'[u] = "Terminated"
    <2>t. /\ state \in [Tids -> ThreadStates] /\ current \in Tids
          /\ nthreads \in Tids /\ \A t \in Tids : t <= nthreads <=> state[t] # "None"
      BY <1>3 DEF TypeOK, ThreadTypeOK, Tids
    <2>1. CASE phase # "run"
      BY <1>3, <2>1, OnlyWhileRunning DEF vars, threadVars
    <2>2. CASE phase = "run"
      <3>1. u # current
        BY <1>3, <2>2 DEF CurrentRuns
      <3>2. CASE QuietStep
        BY <1>3, <3>2 DEF QuietStep
      <3>3. ASSUME NEW ko, NEW t \in Tids, NEW w, Picks(ko, t),
                   Activate(t, [state EXCEPT ![current] = w])
            PROVE  state'[u] = "Terminated"
        <4>1. t # u
          BY <1>3, <3>3, PickedIsAlive
        <4> QED BY <1>3, <2>t, <3>1, <3>3, <4>1 DEF Activate
      <3>4. CASE SwitchStep
        BY <3>3, <3>4 DEF SwitchStep
      <3>5. ASSUME NEW b \in BOOLEAN, CreateThread(b) PROVE state'[u] = "Terminated"
        <4>1. u # nthreads + 1
          BY <1>3, <2>t DEF Tids
        <4> QED BY <1>3, <2>t, <3>5, <4>1 DEF CreateThread
      <3>6. ASSUME NEW b \in BOOLEAN, EndCurrent(b) PROVE state'[u] = "Terminated"
        <4>1. \/ \E t \in Tids : /\ Picks(Exited(current), t)
                                 /\ Activate(t, [state EXCEPT ![current] = "Terminated"])
              \/ state' = [state EXCEPT ![current] = "Terminated"]
          BY <3>6 DEF EndCurrent
        <4> QED BY <1>3, <2>t, <3>1, <3>3, <4>1
      <3>7. ASSUME NEW t \in Tids, TerminateOther(t) \/ Suspend(t) \/ Resume(t)
            PROVE  state'[u] = "Terminated"
        BY <1>3, <2>t, <3>7 DEF TerminateOther, Suspend, Resume
      <3> QED BY <1>3, <3>2, <3>4, <3>5, <3>6, <3>7, StepKinds
    <2> QED BY <2>1, <2>2
  <1>4. Inv /\ [Next]_vars =>
          [\A t \in Tids : state[t] = "Terminated" => state'[t] = "Terminated"]_vars
    BY <1>3
  <1> HIDE DEF Inv
  <1> QED BY <1>1, <1>2, <1>4, PTL DEF Spec, TerminatedIsFinal

-----------------------------------------------------------------------------
(* What a step may do to the object table.                                 *)

\* A thread's latch is changed by the end of the thread alone, a closed handle
\* stays closed, and handles are given out in turn.
LatchesKept ==
    /\ nextHandle <= nextHandle'
    /\ \A h \in Handles : h < nextHandle =>
         \/ kobj'[h] = kobj[h] \/ kobj'[h] = Missing
         \/ kobj[h].kind \notin {"Thread", "Missing"}

\* The next handle gets an object; the others keep theirs.
LEMMA InsertKeepsLatches ==
  ASSUME TypeOK, NEW o, Insert(o)
  PROVE  LatchesKept
  <1>1. kobj \in [Handles -> KObjects] /\ nextHandle \in 1 .. MaxHandles + 1
    BY DEF TypeOK, ObjectTypeOK
  <1>2. \A h \in Handles : h < nextHandle => kobj'[h] = kobj[h]
    BY <1>1 DEF Insert, Handles
  <1> QED BY <1>1, <1>2 DEF Insert, LatchesKept

\* A granted wait leaves latches and closed handles alone.
LEMMA AcquireKeepsLatches ==
  ASSUME TypeOK, NEW G, NEW t, kobj' = AcquireAll(kobj, G, t), UNCHANGED nextHandle
  PROVE  LatchesKept
  <1>1. nextHandle \in 1 .. MaxHandles + 1
    BY DEF TypeOK, ObjectTypeOK
  <1>2. \A h \in Handles : kobj'[h] = kobj[h] \/ kobj[h].kind \notin {"Thread", "Missing"}
    BY DEF AcquireAll, Acquired
  <1> QED BY <1>1, <1>2 DEF LatchesKept

LEMMA LatchesStep ==
  ASSUME TypeOK, [Next]_vars
  PROVE  \/ LatchesKept
         \/ \E b \in BOOLEAN : CreateThread(b)
         \/ \E b \in BOOLEAN : EndCurrent(b)
         \/ \E t \in Tids : TerminateOther(t)
  <1>t. kobj \in [Handles -> KObjects] /\ nextHandle \in Int
    BY DEF TypeOK, ObjectTypeOK
  <1>0. ASSUME UNCHANGED objectVars PROVE LatchesKept
    BY <1>0, <1>t DEF objectVars, LatchesKept
  <1>1. CASE Preempt \/ Compute \/ SleepOrSwitch \/ ExitProcess
    BY <1>0, <1>1 DEF Preempt, Compute, SleepOrSwitch, ExitProcess, YieldTo
  <1>2. ASSUME NEW t \in Tids, Suspend(t) \/ Resume(t) PROVE LatchesKept
    BY <1>0, <1>2 DEF Suspend, Resume
  <1>3. ASSUME NEW o, NEW n, CreateObject(o, n) PROVE LatchesKept
    BY <1>3, InsertKeepsLatches DEF CreateObject
  <1>4. ASSUME NEW n, OpenNamed(n) PROVE LatchesKept
    BY <1>0, <1>4 DEF OpenNamed
  <1>5. ASSUME NEW h \in Handles, CloseHandle(h) PROVE LatchesKept
    BY <1>t, <1>5 DEF CloseHandle, LatchesKept
  <1>6. ASSUME NEW h \in Handles, DupHandle(h) PROVE LatchesKept
    BY <1>6, InsertKeepsLatches DEF DupHandle
  <1>7. ASSUME NEW h \in Handles, NEW o, Put(h, o), kobj[h].kind \notin {"Thread", "Missing"}
        PROVE  LatchesKept
    BY <1>t, <1>7 DEF Put, LatchesKept
  <1>8. ASSUME NEW h \in Handles,
               \/ \E b \in BOOLEAN : SetEvent(h, b)
               \/ ReleaseMutex(h)
               \/ \E n \in Releases, api \in {"win32", "nt"} : ReleaseSemaphore(h, n, api)
        PROVE  LatchesKept
    BY <1>7, <1>8 DEF SetEvent, ReleaseMutex, ReleaseSemaphore
  <1>9. ASSUME NEW c, Wait(c) PROVE LatchesKept
    BY <1>0, <1>9, AcquireKeepsLatches
       DEF Wait, WaitInvalid, WaitGranted, WaitBlocks, WaitAlone
  <1>10. CASE SocketWait
    BY <1>0, <1>10 DEF SocketWait
  <1>11. CASE UNCHANGED vars
    BY <1>0, <1>11 DEF vars
  <1> QED BY <1>1, <1>2, <1>3, <1>4, <1>5, <1>6, <1>8, <1>9, <1>10, <1>11, NextIsAStep

\* A thread's handle was given out before, and leads to its latch, set once
\* the thread has ended, unless the guest closed it.
LatchesTold ==
    \A t \in Tids : handle[t] # 0 =>
        /\ handle[t] < nextHandle
        /\ kobj[handle[t]] # Missing =>
             /\ kobj[handle[t]] \in Latches
             /\ state[t] = "Terminated" => kobj[handle[t]].exited

\* Ending a thread sets the latch its handle leads to and no other.
LEMMA ExitTold ==
  ASSUME TypeOK, LatchesTold, NEW t \in Tids, kobj' = Exited(t),
         UNCHANGED <<handle, nextHandle>>,
         \A u \in Tids \ {t} : state'[u] = "Terminated" => state[u] = "Terminated"
  PROVE  LatchesTold'
  <1>t. /\ kobj \in [Handles -> KObjects] /\ handle \in [Tids -> 0 .. MaxHandles]
        /\ \A u \in Tids : handle[u] # 0 => handle[u] \in Handles
    BY DEF TypeOK, ObjectTypeOK, ThreadTypeOK, Handles
  <1>1. ASSUME NEW u \in Tids, handle[u] # 0, kobj'[handle[u]] # Missing
        PROVE  /\ kobj'[handle[u]] \in Latches
               /\ state'[u] = "Terminated" => kobj'[handle[u]].exited
    <2>1. handle[u] \in Handles
      BY <1>1, <1>t
    <2>2. CASE handle[u] = handle[t] /\ kobj[handle[u]].kind = "Thread"
      <3>1. kobj'[handle[u]] = [kobj[handle[u]] EXCEPT !.exited = TRUE]
        BY <2>1, <2>2 DEF Exited
      <3>2. kobj[handle[u]] \in Latches
        BY <1>t, <2>1, <2>2, KindType
      <3> QED BY <3>1, <3>2 DEF Latches
    <2>3. CASE ~(handle[u] = handle[t] /\ kobj[handle[u]].kind = "Thread")
      <3>1. kobj'[handle[u]] = kobj[handle[u]]
        BY <2>1, <2>3 DEF Exited
      <3>2. kobj[handle[u]] \in Latches
        BY <1>1, <3>1 DEF LatchesTold
      <3>3. u # t
        BY <2>3, <3>2 DEF Latches
      <3> QED BY <1>1, <3>1, <3>3 DEF LatchesTold
    <2> QED BY <2>2, <2>3
  <1> QED BY <1>1 DEF LatchesTold

\* A step that ends no thread and keeps the latches.
LEMMA KeptTold ==
  ASSUME TypeOK, LatchesTold, LatchesKept, UNCHANGED handle,
         nextHandle' \in Int,
         \A u \in Tids : state'[u] = "Terminated" => state[u] = "Terminated"
  PROVE  LatchesTold'
  <1>t. /\ handle \in [Tids -> 0 .. MaxHandles] /\ nextHandle \in Int
        /\ \A u \in Tids : handle[u] # 0 => handle[u] \in Handles
    BY DEF TypeOK, ObjectTypeOK, ThreadTypeOK, Handles
  <1>1. ASSUME NEW u \in Tids, handle[u] # 0
        PROVE  /\ handle[u] < nextHandle'
               /\ kobj'[handle[u]] # Missing =>
                    /\ kobj'[handle[u]] \in Latches
                    /\ state'[u] = "Terminated" => kobj'[handle[u]].exited
    <2>1. handle[u] \in Handles /\ handle[u] < nextHandle
      BY <1>1, <1>t DEF LatchesTold
    <2>2. handle[u] < nextHandle'
      BY <1>t, <2>1 DEF LatchesKept, Handles
    <2>3. kobj[handle[u]] = Missing \/ kobj[handle[u]] \in Latches
      BY <1>1 DEF LatchesTold
    <2>4. kobj[handle[u]].kind \in {"Thread", "Missing"}
      BY <2>3 DEF Latches, Missing
    <2>5. kobj'[handle[u]] = kobj[handle[u]] \/ kobj'[handle[u]] = Missing
      BY <2>1, <2>4 DEF LatchesKept
    <2> QED BY <1>1, <2>2, <2>5 DEF LatchesTold
  <1> QED BY <1>1 DEF LatchesTold

LEMMA LatchesToldStep ==
  ASSUME TypeOK, LatchesTold, [Next]_vars
  PROVE  LatchesTold'
  <1>t. /\ state \in [Tids -> ThreadStates] /\ current \in Tids /\ nthreads \in Tids
        /\ handle \in [Tids -> 0 .. MaxHandles] /\ nextHandle \in 1 .. MaxHandles + 1
        /\ kobj \in [Handles -> KObjects]
    BY DEF TypeOK, ObjectTypeOK, ThreadTypeOK, Tids
  <1>n. nextHandle' \in Int
    BY TypeStep DEF TypeOK, ObjectTypeOK
  <1>1. ASSUME NEW b \in BOOLEAN, CreateThread(b) PROVE LatchesTold'
    <2>1. /\ handle' = [handle EXCEPT ![nthreads + 1] = nextHandle]
          /\ state' = [state EXCEPT ![nthreads + 1] = IF b THEN "Suspended" ELSE "Ready"]
          /\ kobj' = [kobj EXCEPT ![nextHandle] = [kind |-> "Thread", exited |-> FALSE]]
          /\ nextHandle' = nextHandle + 1 /\ nextHandle \in Handles /\ nthreads + 1 \in Tids
      BY <1>1, <1>t DEF CreateThread, Handles, Tids
    <2>2. ASSUME NEW u \in Tids, handle'[u] # 0
          PROVE  /\ handle'[u] < nextHandle'
                 /\ kobj'[handle'[u]] # Missing =>
                      /\ kobj'[handle'[u]] \in Latches
                      /\ state'[u] = "Terminated" => kobj'[handle'[u]].exited
      <3>1. CASE u = nthreads + 1
        <4>1. handle'[u] = nextHandle /\ state'[u] # "Terminated"
              /\ kobj'[nextHandle] = [kind |-> "Thread", exited |-> FALSE]
          BY <1>t, <2>1, <3>1
        <4>2. [kind |-> "Thread", exited |-> FALSE] \in Latches
          BY DEF Latches
        <4> QED BY <2>1, <4>1, <4>2 DEF Handles
      <3>2. CASE u # nthreads + 1
        <4>1. handle'[u] = handle[u] /\ state'[u] = state[u]
          BY <1>t, <2>1, <3>2
        <4>2. handle[u] < nextHandle /\ handle[u] \in Handles
          BY <1>t, <2>2, <4>1 DEF LatchesTold, Handles
        <4>3. kobj'[handle[u]] = kobj[handle[u]]
          BY <1>t, <2>1, <4>2 DEF Handles
        <4>4. handle[u] < nextHandle'
          BY <1>t, <2>1, <4>2 DEF Handles
        <4> QED BY <2>2, <4>1, <4>2, <4>3, <4>4 DEF LatchesTold
      <3> QED BY <3>1, <3>2
    <2> QED BY <2>2 DEF LatchesTold
  <1>2. ASSUME NEW b \in BOOLEAN, EndCurrent(b) PROVE LatchesTold'
    <2>1. /\ kobj' = Exited(current) /\ UNCHANGED <<handle, nextHandle>>
          /\ \/ \E t \in Tids : state' = [[state EXCEPT ![current] = "Terminated"]
                                              EXCEPT ![t] = "Running"]
             \/ state' = [state EXCEPT ![current] = "Terminated"]
      BY <1>2 DEF EndCurrent, Activate
    <2>2. \A u \in Tids \ {current} : state'[u] = "Terminated" => state[u] = "Terminated"
      BY <1>t, <2>1
    <2> QED BY <1>t, <2>1, <2>2, ExitTold
  <1>3. ASSUME NEW t \in Tids, TerminateOther(t) PROVE LatchesTold'
    <2>1. /\ kobj' = Exited(t) /\ UNCHANGED <<handle, nextHandle>>
          /\ state' = [state EXCEPT ![t] = "Terminated"]
      BY <1>3 DEF TerminateOther
    <2>2. \A u \in Tids \ {t} : state'[u] = "Terminated" => state[u] = "Terminated"
      BY <1>t, <2>1
    <2> QED BY <2>1, <2>2, ExitTold
  <1>4. CASE LatchesKept
    <2>1. CASE QuietStep
      BY <1>4, <1>n, <2>1, KeptTold DEF QuietStep
    <2>2. CASE SwitchStep
      <3>1. \A u \in Tids : state'[u] = "Terminated" => state[u] = "Terminated"
        BY <1>t, <2>2 DEF SwitchStep, Activate
      <3> QED BY <1>4, <1>n, <2>2, <3>1, KeptTold DEF SwitchStep
    <2>3. ASSUME NEW t \in Tids, Suspend(t) \/ Resume(t) PROVE LatchesTold'
      <3>1. \A u \in Tids : state'[u] = "Terminated" => state[u] = "Terminated"
        BY <1>t, <2>3 DEF Suspend, Resume
      <3>2. UNCHANGED handle
        BY <2>3 DEF Suspend, Resume
      <3> QED BY <1>4, <1>n, <3>1, <3>2, KeptTold
    <2> QED BY <1>1, <1>2, <1>3, <2>1, <2>2, <2>3, StepKinds
  <1> QED BY <1>1, <1>2, <1>3, <1>4, LatchesStep

\* A thread's own handle is signaled once the thread has ended, by its own
\* doing or by another's, so whoever joins it wakes; closing the handle does
\* not make the wait hang (exit_thread, the terminate handlers, is_signaled).
THEOREM JoinersWake == Spec => []JoinWakes
  <1> DEFINE Inv == TypeOK /\ LatchesTold
  <1>1. Init => Inv
    BY TypeInit DEF Init, ThreadsInit, LatchesTold
  <1>2. Inv /\ [Next]_vars => Inv'
    BY TypeStep, LatchesToldStep
  <1>3. Inv => JoinWakes
    <2> SUFFICES ASSUME LatchesTold, NEW t \in Tids, state[t] = "Terminated", handle[t] # 0
                 PROVE  IsSignaled(kobj[handle[t]], current)
      BY DEF JoinWakes
    <2>1. CASE kobj[handle[t]] = Missing
      BY <2>1 DEF IsSignaled, Missing
    <2>2. CASE kobj[handle[t]] # Missing
      <3>1. kobj[handle[t]].kind = "Thread" /\ kobj[handle[t]].exited
        BY <2>2 DEF LatchesTold, Latches
      <3> QED BY <3>1 DEF IsSignaled
    <2> QED BY <2>1, <2>2
  <1> HIDE DEF Inv
  <1> QED BY <1>1, <1>2, <1>3, PTL DEF Spec

-----------------------------------------------------------------------------
(* Giving up. *)

\* Only a wait nobody can end gives the run up (nt_wait).
LEMMA OnlyAloneGivesUp ==
  ASSUME [Next]_vars, phase = "run", phase' = "deadlock"
  PROVE  /\ Candidates(kobj) = {}
         /\ UNCHANGED <<nthreads, state, current, kobj>>
         /\ call' = [call EXCEPT ![current] = NoCall]
  <1>1. CASE \/ Preempt \/ Compute \/ SleepOrSwitch \/ ExitProcess
             \/ \E b \in BOOLEAN : CreateThread(b) \/ EndCurrent(b)
             \/ \E t \in Tids : TerminateOther(t) \/ Suspend(t) \/ Resume(t)
    BY <1>1 DEF Preempt, Compute, SleepOrSwitch, ExitProcess, CreateThread, EndCurrent,
                TerminateOther, Suspend, Resume, YieldTo
  <1>2. CASE \/ \E o \in NewObjects, n \in Names \union {None} : CreateObject(o, n)
             \/ \E n \in Names : OpenNamed(n)
             \/ \E h \in Handles :
                  \/ CloseHandle(h) \/ DupHandle(h)
                  \/ \E b \in BOOLEAN : SetEvent(h, b)
                  \/ ReleaseMutex(h)
                  \/ \E n \in Releases, api \in {"win32", "nt"} : ReleaseSemaphore(h, n, api)
             \/ SocketWait
    BY <1>2 DEF CreateObject, OpenNamed, CloseHandle, DupHandle, SetEvent, ReleaseMutex,
                ReleaseSemaphore, Put, SocketWait
  <1>3. ASSUME NEW c \in WaitInputs, Wait(c)
        PROVE  /\ Candidates(kobj) = {}
               /\ UNCHANGED <<nthreads, state, current, kobj>>
               /\ call' = [call EXCEPT ![current] = NoCall]
    <2>1. CASE WaitInvalid(c) \/ WaitGranted(c) \/ WaitBlocks(c)
      BY <2>1 DEF WaitInvalid, WaitGranted, WaitBlocks
    <2>2. CASE WaitAlone(c)
      BY <2>2 DEF WaitAlone, Returns, Stay, objectVars
    <2> QED BY <1>3, <2>1, <2>2 DEF Wait
  <1>4. CASE UNCHANGED vars
    BY <1>4 DEF vars, threadVars
  <1> QED BY <1>1, <1>2, <1>3, <1>4, NextIsAStep

\* The run is given up as a guest deadlock only when every other thread is
\* ended, suspended, or waits for something that has not happened: nothing
\* that could still make progress is abandoned (nt_wait's error, pick_next).
THEOREM DeadlocksAreReal == Spec => []DeadlockIsReal
  <1> DEFINE Inv == TypeOK /\ OnlyCurrentRuns /\ DeadlockIsReal
  <1>1. Init => Inv
    BY TypeInit DEF Init, ThreadsInit, OnlyCurrentRuns, DeadlockIsReal
  <1>2. Inv /\ [Next]_vars => Inv'
    <2> SUFFICES ASSUME Inv, [Next]_vars PROVE DeadlockIsReal'
      BY TypeStep, OnlyCurrentStep
    <2>1. CASE UNCHANGED vars
      BY <2>1 DEF vars, threadVars, objectVars, DeadlockIsReal, Satisfied
    <2>2. CASE phase = "run"
      <3> SUFFICES ASSUME phase' = "deadlock", NEW t \in (1 .. nthreads') \ {current'}
                   PROVE  \/ state'[t] \in {"Suspended", "Terminated"}
                          \/ state'[t] = "Blocked" /\ ~Satisfied(kobj', call'[t], t)
        BY DEF DeadlockIsReal
      <3>1. /\ Candidates(kobj) = {}
            /\ UNCHANGED <<nthreads, state, current, kobj>>
            /\ call' = [call EXCEPT ![current] = NoCall]
        BY <2>2, OnlyAloneGivesUp
      <3>2. /\ t \in Tids /\ t \in (1 .. nthreads) \ {current} /\ state[t] \in ThreadStates
            /\ state[t] # "None"
        BY <3>1 DEF TypeOK, ThreadTypeOK, Tids
      <3>3. ~Runnable(kobj, t)
        BY <3>1, <3>2 DEF Candidates
      <3>4. state[t] # "Running"
        BY <3>2 DEF OnlyCurrentRuns
      <3>5. call'[t] = call[t]
        BY <3>1, <3>2 DEF TypeOK, ThreadTypeOK
      <3> QED BY <3>1, <3>2, <3>3, <3>4, <3>5 DEF Runnable, ThreadStates
    <2> QED BY <2>1, <2>2, OnlyWhileRunning
  <1>3. Inv => DeadlockIsReal
    OBVIOUS
  <1> HIDE DEF Inv
  <1> QED BY <1>1, <1>2, <1>3, PTL DEF Spec

-----------------------------------------------------------------------------
(* Handing a mutex over. *)

\* A handle that was not given out yet leads to nothing.
UnusedMissing == \A h \in Handles : h >= nextHandle => kobj[h] = Missing

\* What a step does to an object that is there: nothing, or it closes it, or it
\* acquires it for the current thread or releases it for it.
ObjectMoves(h) ==
    \/ kobj'[h] = kobj[h] \/ kobj'[h] = Missing
    \/ kobj[h].kind # "Mutex" /\ kobj'[h].kind = kobj[h].kind
    \/ kobj'[h] = Acquired(kobj[h], current) /\ IsSignaled(kobj[h], current)
    \/ kobj[h].owner = current /\ kobj'[h] = Released(kobj[h])

ObjectsMove ==
    /\ \A h \in Handles : kobj[h] # Missing => ObjectMoves(h)
    /\ UnusedMissing'

LEMMA MovesStep ==
  ASSUME TypeOK, UnusedMissing, [Next]_vars
  PROVE  ObjectsMove
  <1>t. kobj \in [Handles -> KObjects] /\ nextHandle \in 1 .. MaxHandles + 1
        /\ current \in Tids
    BY DEF TypeOK, ObjectTypeOK, ThreadTypeOK, Tids
  <1>0. ASSUME UNCHANGED objectVars PROVE ObjectsMove
    BY <1>0, <1>t DEF objectVars, ObjectMoves, UnusedMissing, ObjectsMove
  <1>i. ASSUME NEW o, Insert(o) PROVE ObjectsMove
    <2>1. /\ kobj' = [kobj EXCEPT ![nextHandle] = o] /\ nextHandle' = nextHandle + 1
          /\ nextHandle \in Handles /\ kobj[nextHandle] = Missing
      BY <1>i, <1>t DEF Insert, UnusedMissing, Handles
    <2>2. \A h \in Handles : h # nextHandle => kobj'[h] = kobj[h]
      BY <1>t, <2>1
    <2>3. \A h \in Handles : h >= nextHandle' => h >= nextHandle /\ h # nextHandle
      BY <1>t, <2>1 DEF Handles
    <2> QED BY <2>1, <2>2, <2>3 DEF ObjectMoves, UnusedMissing, ObjectsMove
  <1>p. ASSUME NEW h \in Handles, NEW o, kobj' = [kobj EXCEPT ![h] = o], UNCHANGED nextHandle,
               kobj[h] # Missing, ObjectMoves(h)
        PROVE  ObjectsMove
    BY <1>p, <1>t DEF ObjectMoves, UnusedMissing, ObjectsMove
  <1>e. ASSUME NEW t, kobj' = Exited(t), UNCHANGED nextHandle PROVE ObjectsMove
    <2>1. \A h \in Handles : \/ kobj'[h] = kobj[h]
                             \/ kobj[h].kind = "Thread" /\ kobj'[h].kind = "Thread"
      <3> TAKE h \in Handles
      <3>1. CASE h = handle[t] /\ kobj[h].kind = "Thread"
        <4>1. kobj[h] \in Latches /\ kobj'[h] = [kobj[h] EXCEPT !.exited = TRUE]
          BY <1>e, <1>t, <3>1, KindType DEF Exited
        <4> QED BY <4>1 DEF Latches
      <3>2. CASE ~(h = handle[t] /\ kobj[h].kind = "Thread")
        BY <1>e, <3>2 DEF Exited
      <3> QED BY <3>1, <3>2
    <2> QED BY <1>e, <1>t, <2>1 DEF ObjectMoves, UnusedMissing, ObjectsMove, Missing
  <1>1. CASE Preempt \/ Compute \/ SleepOrSwitch \/ ExitProcess
    BY <1>0, <1>1 DEF Preempt, Compute, SleepOrSwitch, ExitProcess, YieldTo
  <1>2. ASSUME NEW b \in BOOLEAN, CreateThread(b) PROVE ObjectsMove
    BY <1>2, <1>i DEF CreateThread, Insert
  <1>3. ASSUME NEW b \in BOOLEAN, EndCurrent(b) PROVE ObjectsMove
    BY <1>3, <1>e DEF EndCurrent
  <1>4. ASSUME NEW t \in Tids, TerminateOther(t) PROVE ObjectsMove
    BY <1>4, <1>e DEF TerminateOther
  <1>5. ASSUME NEW t \in Tids, Suspend(t) \/ Resume(t) PROVE ObjectsMove
    BY <1>0, <1>5 DEF Suspend, Resume
  <1>6. ASSUME NEW o, NEW n, CreateObject(o, n) PROVE ObjectsMove
    BY <1>i, <1>6 DEF CreateObject
  <1>7. ASSUME NEW n, OpenNamed(n) PROVE ObjectsMove
    BY <1>0, <1>7 DEF OpenNamed
  <1>8. ASSUME NEW h \in Handles, CloseHandle(h) PROVE ObjectsMove
    BY <1>8, <1>p, <1>t DEF CloseHandle, ObjectMoves
  <1>9. ASSUME NEW h \in Handles, DupHandle(h) PROVE ObjectsMove
    BY <1>9, <1>i DEF DupHandle
  <1>10. ASSUME NEW h \in Handles, NEW b \in BOOLEAN, SetEvent(h, b) PROVE ObjectsMove
    <2>1. /\ kobj' = [kobj EXCEPT ![h] = [kobj[h] EXCEPT !.signaled = b]] /\ UNCHANGED nextHandle
          /\ kobj[h] \in Events
      BY <1>10, <1>t, KindType DEF SetEvent, Put
    <2>2. kobj'[h].kind = "Event" /\ kobj[h].kind = "Event" /\ kobj[h] # Missing
      BY <1>t, <2>1 DEF Events, Missing
    <2> QED BY <1>p, <2>1, <2>2 DEF ObjectMoves
  <1>11. ASSUME NEW h \in Handles, ReleaseMutex(h) PROVE ObjectsMove
    <2>1. /\ kobj' = [kobj EXCEPT ![h] = Released(kobj[h])] /\ UNCHANGED nextHandle
          /\ kobj[h].owner = current /\ kobj[h].kind = "Mutex"
      BY <1>11 DEF ReleaseMutex, Put
    <2>2. kobj[h] # Missing
      BY <2>1 DEF Missing
    <2>3. kobj'[h] = Released(kobj[h])
      BY <1>t, <2>1
    <2>4. ObjectMoves(h)
      BY <2>1, <2>3 DEF ObjectMoves
    <2> QED BY <1>p, <2>1, <2>2, <2>4
  <1>12. ASSUME NEW h \in Handles, NEW n \in Releases, NEW api, ReleaseSemaphore(h, n, api)
         PROVE  ObjectsMove
    <2>1. /\ kobj' = [kobj EXCEPT ![h] = [kobj[h] EXCEPT !.count = kobj[h].count + n]]
          /\ UNCHANGED nextHandle /\ kobj[h] \in Semaphores
      BY <1>12, <1>t, KindType DEF ReleaseSemaphore, Put
    <2>2. kobj'[h].kind = "Semaphore" /\ kobj[h].kind = "Semaphore" /\ kobj[h] # Missing
      BY <1>t, <2>1 DEF Semaphores, Missing
    <2> QED BY <1>p, <2>1, <2>2 DEF ObjectMoves
  <1>13. ASSUME NEW c, Wait(c) PROVE ObjectsMove
    <2>1. CASE UNCHANGED objectVars
      BY <1>0, <2>1
    <2>2. CASE WaitGranted(c)
      <3> DEFINE G == Granted(kobj, c, current)
      <3>1. /\ kobj' = AcquireAll(kobj, G, current) /\ UNCHANGED nextHandle
            /\ \A h \in G : IsSignaled(kobj[h], current)
        BY <2>2 DEF WaitGranted, Satisfied, Granted
      <3> HIDE DEF G
      <3>2. \A h \in Handles : kobj'[h] = IF h \in G THEN Acquired(kobj[h], current) ELSE kobj[h]
        BY <3>1 DEF AcquireAll
      <3>3. Acquired(Missing, current) = Missing
        BY DEF Acquired, Missing
      <3> QED BY <3>1, <3>2, <3>3 DEF ObjectMoves, UnusedMissing, ObjectsMove
    <2> QED BY <1>13, <2>1, <2>2 DEF Wait, WaitInvalid, WaitBlocks, WaitAlone
  <1>14. CASE SocketWait
    BY <1>0, <1>14 DEF SocketWait
  <1>15. CASE UNCHANGED vars
    BY <1>0, <1>15 DEF vars
  <1>16. ObjectsMove
    <2>1. CASE \/ Preempt \/ Compute \/ SleepOrSwitch \/ ExitProcess
               \/ \E b \in BOOLEAN : CreateThread(b) \/ EndCurrent(b)
               \/ \E t \in Tids : TerminateOther(t) \/ Suspend(t) \/ Resume(t)
      BY <2>1, <1>1, <1>2, <1>3, <1>4, <1>5
    <2>2. CASE \E h \in Handles :
                 \/ CloseHandle(h) \/ DupHandle(h)
                 \/ \E b \in BOOLEAN : SetEvent(h, b)
                 \/ ReleaseMutex(h)
                 \/ \E n \in Releases, api \in {"win32", "nt"} : ReleaseSemaphore(h, n, api)
      BY <2>2, <1>8, <1>9, <1>10, <1>11, <1>12
    <2> QED BY <2>1, <2>2, <1>6, <1>7, <1>13, <1>14, <1>15, NextIsAStep
  <1> QED BY <1>16

\* Only the owner's own release takes a mutex away from it: no grant, close of
\* another handle, duplicate or termination moves ownership from one thread to
\* another, whichever of the wait calls the guest uses (signal_sync, acquire).
THEOREM OwnersLetGo == Spec => OwnershipMovesThroughFree
  <1> DEFINE Inv == TypeOK /\ UnusedMissing
  <1>1. Init => Inv
    BY TypeInit DEF Init, ThreadsInit, UnusedMissing
  <1>2. Inv /\ [Next]_vars => Inv'
    BY TypeStep, MovesStep DEF ObjectsMove
  <1>3. ASSUME Inv, [Next]_vars, NEW h \in Handles, kobj[h].kind = "Mutex",
               kobj'[h].kind = "Mutex", kobj[h].owner # NoOwner
        PROVE  \/ kobj'[h].owner = kobj[h].owner
               \/ kobj'[h].owner = NoOwner /\ current = kobj[h].owner
    <2>1. kobj[h] # Missing /\ ObjectMoves(h)
      BY <1>3, MovesStep DEF ObjectsMove, Missing
    <2>2. CASE kobj'[h] = Acquired(kobj[h], current) /\ IsSignaled(kobj[h], current)
      <3>1. kobj[h].owner \in {NoOwner, current}
        BY <1>3, <2>2 DEF IsSignaled
      <3>2. kobj'[h].owner = current
        BY <1>3, <2>2 DEF Acquired
      <3> QED BY <1>3, <3>1, <3>2
    <2>3. CASE kobj[h].owner = current /\ kobj'[h] = Released(kobj[h])
      <3>1. kobj'[h].owner \in {NoOwner, current}
        BY <2>3 DEF Released
      <3> QED BY <2>3, <3>1
    <2> QED BY <1>3, <2>1, <2>2, <2>3 DEF ObjectMoves, Missing
  <1>4. Inv /\ [Next]_vars =>
          [\A h \in Handles :
             kobj[h].kind = "Mutex" /\ kobj'[h].kind = "Mutex" /\ kobj[h].owner # NoOwner =>
                \/ kobj'[h].owner = kobj[h].owner
                \/ kobj'[h].owner = NoOwner /\ current = kobj[h].owner]_vars
    BY <1>3
  <1> HIDE DEF Inv
  <1> QED BY <1>1, <1>2, <1>4, PTL DEF Spec, OwnershipMovesThroughFree

-----------------------------------------------------------------------------
(* Mutual exclusion of guest mutexes, for every instance in which the      *)
(* guest waits through the NT calls (and through would-block socket        *)
(* operations).  The kernel32 thunks and the server call report success to *)
(* a thread that waits alone, and do not have the property.                *)

NtWaitsOnly == Apis \subseteq {"nt", "afd"}

\* What TypeOK says of the variables the argument is about.
LEMMA Shapes ==
  ASSUME TypeOK
  PROVE  /\ current \in Tids /\ kobj \in [Handles -> KObjects]
         /\ held \in [Tids -> [Handles -> Int]] /\ nextHandle \in 1 .. MaxHandles + 1
  <1>1. ThreadTypeOK /\ ObjectTypeOK /\ held \in [Tids -> [Handles -> Int]]
    BY DEF TypeOK
  <1>2. current \in Tids
    <2>1. nthreads \in Tids /\ current \in 1 .. nthreads
      BY <1>1 DEF ThreadTypeOK
    <2> QED BY <2>1 DEF Tids
  <1> QED BY <1>1, <1>2 DEF ObjectTypeOK

\* An object keeps its kind through a wait, and a handle a satisfied wait
\* acquires is signaled (KObject::acquire, nt_wait_satisfiable).
LEMMA AcquiredKind ==
  ASSUME NEW o \in KObjects, NEW t \in Tids
  PROVE  /\ Acquired(o, t).kind = o.kind
         /\ o = Missing => Acquired(o, t) = Missing
         /\ o.kind = "Mutex" => Acquired(o, t).owner = t /\ Acquired(o, t).recursion = o.recursion + 1
  <1>1. CASE o \in Events BY <1>1 DEF Acquired, Events, Missing
  <1>2. CASE o \in Mutexes BY <1>2 DEF Acquired, Mutexes, Missing
  <1>3. CASE o \in Semaphores BY <1>3 DEF Acquired, Semaphores, Missing
  <1>4. CASE o \in Latches BY <1>4 DEF Acquired, Latches, Missing
  <1>5. CASE o = Missing BY <1>5 DEF Acquired, Missing
  <1> QED BY <1>1, <1>2, <1>3, <1>4, <1>5 DEF KObjects

LEMMA GrantedSignaled ==
  ASSUME NEW ko, NEW c, NEW t, Satisfied(ko, c, t)
  PROVE  \A h \in Granted(ko, c, t) : IsSignaled(ko[h], t)
  BY DEF Satisfied, Granted

\* A step that tells nobody anything about a mutex, and changes none.
LEMMA MutexesUntouched ==
  ASSUME MutexInv, TypeOK', UNCHANGED <<held, nextHandle>>,
         \A h \in Handles : kobj'[h] = kobj[h] \/ (kobj[h] # Missing /\ kobj'[h].kind # "Mutex")
  PROVE  MutexInv'
  <1>1. MutexAsGranted'
    BY DEF MutexInv, MutexAsGranted
  <1>2. FreshHandles'
    BY DEF MutexInv, FreshHandles
  <1> QED BY <1>1, <1>2 DEF MutexInv

\* Ending a thread touches its latch only.
LEMMA ExitedUntouched ==
  ASSUME NEW t, kobj \in [Handles -> KObjects]
  PROVE  \A h \in Handles : Exited(t)[h] = kobj[h]
                            \/ (kobj[h] # Missing /\ Exited(t)[h].kind # "Mutex")
  <1> TAKE h \in Handles
  <1>1. CASE h = handle[t] /\ kobj[h].kind = "Thread"
    <2>1. kobj[h] \in Latches /\ Exited(t)[h] = [kobj[h] EXCEPT !.exited = TRUE]
      BY <1>1, KindType DEF Exited
    <2> QED BY <2>1 DEF Latches, Missing
  <1>2. CASE ~(h = handle[t] /\ kobj[h].kind = "Thread")
    BY <1>2 DEF Exited
  <1> QED BY <1>1, <1>2

\* Putting an object that is no mutex in place of one that is no mutex.
LEMMA PutUntouched ==
  ASSUME MutexInv, TypeOK', NEW h \in Handles, NEW o, Put(h, o), kobj[h] # Missing,
         o.kind # "Mutex", UNCHANGED held
  PROVE  MutexInv'
  <1>1. kobj' = [kobj EXCEPT ![h] = o] /\ UNCHANGED nextHandle
    BY DEF Put
  <1>2. \A g \in Handles : kobj'[g] = kobj[g] \/ (kobj[g] # Missing /\ kobj'[g].kind # "Mutex")
    BY <1>1, Shapes DEF MutexInv
  <1> QED BY <1>1, <1>2, MutexesUntouched

\* A granted wait: whoever it is reported to may believe it.
LEMMA GrantedMutex ==
  ASSUME MutexInv, TypeOK', NEW c, Satisfied(kobj, c, current), UNCHANGED nextHandle,
         kobj' = AcquireAll(kobj, Granted(kobj, c, current), current),
         Grants(Granted(kobj, c, current))
  PROVE  MutexInv'
  <1> DEFINE G == Granted(kobj, c, current)
  <1>1. /\ current \in Tids /\ kobj \in [Handles -> KObjects]
        /\ held \in [Tids -> [Handles -> Int]]
    BY Shapes DEF MutexInv
  <1>2. \A h \in G : IsSignaled(kobj[h], current)
    BY GrantedSignaled
  <1> HIDE DEF G
  <1>3. \A t \in Tids, h \in Handles :
          held'[t][h] = IF t = current /\ h \in G /\ kobj[h].kind = "Mutex"
                        THEN held[t][h] + 1 ELSE held[t][h]
    <2>1. held' = [held EXCEPT ![current] =
                     [h \in Handles |-> IF h \in G /\ kobj[h].kind = "Mutex"
                                        THEN held[current][h] + 1 ELSE held[current][h]]]
      BY DEF Grants, G
    <2> QED BY <1>1, <2>1
  <1>4. \A h \in Handles : kobj'[h] = IF h \in G THEN Acquired(kobj[h], current) ELSE kobj[h]
    BY DEF AcquireAll, G
  <1>5. MutexAsGranted'
    <2> SUFFICES ASSUME NEW h \in Handles, kobj'[h].kind = "Mutex"
                 PROVE  /\ kobj'[h].owner = NoOwner <=> kobj'[h].recursion = 0
                        /\ \A t \in Tids : held'[t][h] =
                              IF kobj'[h].owner = t THEN kobj'[h].recursion ELSE 0
      BY DEF MutexAsGranted
    <2>1. kobj[h].kind = "Mutex" /\ kobj[h] \in KObjects
      BY <1>1, <1>4, AcquiredKind
    <2>2. kobj[h] \in Mutexes
      BY <2>1, KindType
    <2>3. /\ kobj[h].owner = NoOwner <=> kobj[h].recursion = 0
          /\ \A t \in Tids : held[t][h] = IF kobj[h].owner = t THEN kobj[h].recursion ELSE 0
      BY <2>1 DEF MutexInv, MutexAsGranted
    <2>4. CASE h \notin G
      BY <1>3, <1>4, <2>3, <2>4
    <2>5. CASE h \in G
      <3>1. kobj'[h].owner = current /\ kobj'[h].recursion = kobj[h].recursion + 1
        BY <1>1, <1>4, <2>1, <2>5, AcquiredKind
      <3>2. kobj[h].owner \in {NoOwner, current}
        BY <1>2, <2>1, <2>5 DEF IsSignaled
      <3>3. kobj[h].recursion \in Nat /\ current # NoOwner
        BY <1>1, <2>2 DEF Mutexes, NoOwner, Tids
      <3> QED BY <1>1, <1>3, <2>1, <2>3, <2>5, <3>1, <3>2, <3>3
    <2> QED BY <2>4, <2>5
  <1>6. FreshHandles'
    <2> SUFFICES ASSUME NEW h \in Handles, h >= nextHandle
                 PROVE  kobj'[h] = Missing /\ \A t \in Tids : held'[t][h] = 0
      BY DEF FreshHandles
    <2>1. kobj[h] = Missing /\ \A t \in Tids : held[t][h] = 0
      BY DEF MutexInv, FreshHandles
    <2> QED BY <1>1, <1>3, <1>4, <2>1, AcquiredKind DEF Missing
  <1> QED BY <1>5, <1>6 DEF MutexInv

\* The owner lets go of one grant.
LEMMA ReleasedMutex ==
  ASSUME MutexInv, TypeOK', NEW h \in Handles, ReleaseMutex(h)
  PROVE  MutexInv'
  <1>1. /\ current \in Tids /\ kobj \in [Handles -> KObjects]
        /\ held \in [Tids -> [Handles -> Int]]
    BY Shapes DEF MutexInv
  <1>2. kobj[h] \in Mutexes /\ kobj[h].owner = current /\ kobj[h].kind = "Mutex"
    BY <1>1, KindType DEF ReleaseMutex
  <1>3. kobj' = [kobj EXCEPT ![h] = Released(kobj[h])] /\ UNCHANGED nextHandle
    BY DEF ReleaseMutex, Put
  <1>4. \A t \in Tids, g \in Handles :
          held'[t][g] = IF t = current /\ g = h THEN held[t][g] - 1 ELSE held[t][g]
    BY <1>1 DEF ReleaseMutex
  <1>5. /\ kobj[h].recursion \in Nat \ {0} /\ current # NoOwner
        /\ \A t \in Tids : held[t][h] = IF current = t THEN kobj[h].recursion ELSE 0
    <2>1. /\ kobj[h].owner = NoOwner <=> kobj[h].recursion = 0
          /\ \A t \in Tids : held[t][h] = IF kobj[h].owner = t THEN kobj[h].recursion ELSE 0
      BY <1>2 DEF MutexInv, MutexAsGranted
    <2>2. kobj[h].recursion \in Nat /\ current # NoOwner
      BY <1>1, <1>2 DEF Mutexes, Tids, NoOwner
    <2> QED BY <1>2, <2>1, <2>2
  <1>6. MutexAsGranted'
    <2>1. ASSUME NEW g \in Handles, g # h, kobj'[g].kind = "Mutex"
          PROVE  /\ kobj'[g].owner = NoOwner <=> kobj'[g].recursion = 0
                 /\ \A t \in Tids : held'[t][g] =
                       IF kobj'[g].owner = t THEN kobj'[g].recursion ELSE 0
      <3>1. kobj'[g] = kobj[g] /\ \A t \in Tids : held'[t][g] = held[t][g]
        BY <1>1, <1>3, <1>4, <2>1
      <3> QED BY <2>1, <3>1 DEF MutexInv, MutexAsGranted
    <2>2. /\ kobj'[h].recursion = kobj[h].recursion - 1
          /\ kobj'[h].owner = IF kobj'[h].recursion = 0 THEN NoOwner ELSE current
      BY <1>1, <1>2, <1>3, <1>5 DEF Released
    <2>3. /\ kobj'[h].owner = NoOwner <=> kobj'[h].recursion = 0
          /\ \A t \in Tids : held'[t][h] = IF kobj'[h].owner = t THEN kobj'[h].recursion ELSE 0
      BY <1>1, <1>4, <1>5, <2>2 DEF Tids, NoOwner
    <2> QED BY <2>1, <2>3 DEF MutexAsGranted
  <1>7. FreshHandles'
    <2>1. h < nextHandle
      <3>1. kobj[h] # Missing
        BY <1>2 DEF Missing
      <3>2. ~(h >= nextHandle)
        BY <3>1 DEF MutexInv, FreshHandles
      <3> QED BY <3>2, Shapes DEF MutexInv, Handles
    <2> SUFFICES ASSUME NEW g \in Handles, g >= nextHandle'
                 PROVE  kobj'[g] = Missing /\ \A t \in Tids : held'[t][g] = 0
      BY DEF FreshHandles
    <2>2. g >= nextHandle /\ g # h
      <3>1. nextHandle' = nextHandle
        BY <1>3
      <3>2. g \in Int /\ h \in Int /\ nextHandle \in Int
        BY Shapes DEF MutexInv, Handles
      <3> QED BY <2>1, <3>1, <3>2
    <2>3. kobj[g] = Missing /\ \A t \in Tids : held[t][g] = 0
      BY <2>2 DEF MutexInv, FreshHandles
    <2>4. kobj'[g] = kobj[g] /\ \A t \in Tids : held'[t][g] = held[t][g]
      BY <1>1, <1>3, <1>4, <2>2
    <2> QED BY <2>3, <2>4
  <1> QED BY <1>6, <1>7 DEF MutexInv
-----------------------------------------------------------------------------
(* The steps. *)

LEMMA MutexInit == Init => MutexInv
  <1> SUFFICES ASSUME Init PROVE MutexInv
    OBVIOUS
  <1>1. TypeOK
    BY TypeInit
  <1>2. MutexAsGranted /\ FreshHandles
    <2>1. \A h \in Handles : kobj[h] = Missing
      BY DEF Init, ThreadsInit
    <2>2. \A t \in Tids, h \in Handles : held[t][h] = 0
      BY DEF Init
    <2> QED BY <2>1, <2>2 DEF MutexAsGranted, FreshHandles, Missing
  <1> QED BY <1>1, <1>2 DEF MutexInv

\* A new object, or a duplicate, comes with exactly the grants it records.
LEMMA InsertedMutex ==
  ASSUME MutexInv, TypeOK', NEW o \in KObjects, Insert(o),
         held' \in [Tids -> [Handles -> Int]],
         \A t \in Tids, h \in Handles : h # nextHandle => held'[t][h] = held[t][h],
         o.kind = "Mutex" =>
            /\ o.owner = NoOwner <=> o.recursion = 0
            /\ \A t \in Tids : held'[t][nextHandle] = IF o.owner = t THEN o.recursion ELSE 0
  PROVE  MutexInv'
  <1>1. /\ kobj' = [kobj EXCEPT ![nextHandle] = o] /\ nextHandle' = nextHandle + 1
        /\ kobj \in [Handles -> KObjects] /\ nextHandle \in Handles
    BY Shapes DEF Insert, MutexInv, Handles
  <1>2. MutexAsGranted'
    <2> SUFFICES ASSUME NEW h \in Handles, kobj'[h].kind = "Mutex"
                 PROVE  /\ kobj'[h].owner = NoOwner <=> kobj'[h].recursion = 0
                        /\ \A t \in Tids : held'[t][h] =
                              IF kobj'[h].owner = t THEN kobj'[h].recursion ELSE 0
      BY DEF MutexAsGranted
    <2>1. CASE h = nextHandle
      BY <1>1, <2>1
    <2>2. CASE h # nextHandle
      BY <1>1, <2>2 DEF MutexInv, MutexAsGranted
    <2> QED BY <2>1, <2>2
  <1>3. FreshHandles'
    <2> SUFFICES ASSUME NEW h \in Handles, h >= nextHandle'
                 PROVE  kobj'[h] = Missing /\ \A t \in Tids : held'[t][h] = 0
      BY DEF FreshHandles
    <2>1. h >= nextHandle /\ h # nextHandle
      BY <1>1 DEF Handles
    <2>2. kobj[h] = Missing /\ \A t \in Tids : held[t][h] = 0
      BY <2>1 DEF MutexInv, FreshHandles
    <2>3. kobj'[h] = kobj[h] /\ \A t \in Tids : held'[t][h] = held[t][h]
      BY <1>1, <2>1
    <2> QED BY <2>2, <2>3
  <1> QED BY <1>2, <1>3 DEF MutexInv

\* The operations of the thread table make no grant and change no mutex.
LEMMA ThreadStepMutex ==
  ASSUME MutexInv, TypeOK', UNCHANGED <<named, histVars>>,
         \/ Preempt \/ Compute \/ SleepOrSwitch \/ ExitProcess
         \/ \E b \in BOOLEAN : CreateThread(b) \/ EndCurrent(b)
         \/ \E t \in Tids : TerminateOther(t) \/ Suspend(t) \/ Resume(t)
  PROVE  MutexInv'
  <1>s. /\ kobj \in [Handles -> KObjects] /\ UNCHANGED held
        /\ held \in [Tids -> [Handles -> Int]]
    BY Shapes DEF MutexInv, histVars
  <1>0. ASSUME UNCHANGED objectVars PROVE MutexInv'
    BY <1>0, <1>s, MutexesUntouched DEF objectVars
  <1>1. CASE Preempt \/ Compute \/ SleepOrSwitch \/ ExitProcess
    BY <1>0, <1>1 DEF Preempt, Compute, SleepOrSwitch, ExitProcess, YieldTo
  <1>2. ASSUME NEW b \in BOOLEAN, CreateThread(b) PROVE MutexInv'
    <2> DEFINE o == [kind |-> "Thread", exited |-> FALSE]
    <2>1. o \in KObjects /\ o.kind # "Mutex"
      BY DEF KObjects, Latches
    <2>2. Insert(o)
      BY <1>2 DEF CreateThread, Insert
    <2> HIDE DEF o
    <2> QED BY <1>s, <2>1, <2>2, InsertedMutex
  <1>3. ASSUME NEW b \in BOOLEAN, EndCurrent(b) PROVE MutexInv'
    <2>1. kobj' = Exited(current) /\ UNCHANGED nextHandle
      BY <1>3 DEF EndCurrent
    <2> QED BY <1>s, <2>1, ExitedUntouched, MutexesUntouched
  <1>4. ASSUME NEW t \in Tids, TerminateOther(t) PROVE MutexInv'
    <2>1. kobj' = Exited(t) /\ UNCHANGED nextHandle
      BY <1>4 DEF TerminateOther
    <2> QED BY <1>s, <2>1, ExitedUntouched, MutexesUntouched
  <1>5. ASSUME NEW t \in Tids, Suspend(t) \/ Resume(t) PROVE MutexInv'
    BY <1>0, <1>5 DEF Suspend, Resume
  <1> QED BY <1>1, <1>2, <1>3, <1>4, <1>5

\* So do waits that report nothing, and the other operations on objects.
LEMMA QuietStepMutex ==
  ASSUME MutexInv, TypeOK', UNCHANGED <<objectVars, histVars>>
  PROVE  MutexInv'
  BY MutexesUntouched DEF objectVars, histVars

LEMMA SyncStepMutex ==
  ASSUME MutexInv, TypeOK', NtWaitsOnly,
         \/ \E o \in NewObjects, n \in Names \union {None} : CreateObject(o, n)
         \/ \E n \in Names : OpenNamed(n)
         \/ \E h \in Handles :
              \/ CloseHandle(h) \/ DupHandle(h)
              \/ \E b \in BOOLEAN : SetEvent(h, b)
              \/ ReleaseMutex(h)
              \/ \E n \in Releases, api \in {"win32", "nt"} : ReleaseSemaphore(h, n, api)
         \/ \E c \in WaitInputs : Wait(c)
         \/ SocketWait
  PROVE  MutexInv'
  <1>s. /\ current \in Tids /\ kobj \in [Handles -> KObjects]
        /\ held \in [Tids -> [Handles -> Int]] /\ nextHandle \in 1 .. MaxHandles + 1
        /\ TypeOK /\ ThreadTypeOK
    BY Shapes DEF MutexInv, TypeOK
  <1>p. held' \in [Tids -> [Handles -> Int]]
    BY DEF TypeOK
  <1>1. ASSUME NEW o \in NewObjects, NEW n \in Names \union {None}, CreateObject(o, n)
        PROVE  MutexInv'
    <2>1. o \in KObjects
      BY <1>s, NewObjectType
    <2>2. Insert(o) /\ nextHandle \in Handles
      BY <1>1, <1>s DEF CreateObject, Insert, Handles
    <2>3. ASSUME o.kind = "Mutex"
          PROVE  \/ o.owner = NoOwner /\ o.recursion = 0
                 \/ o.owner = current /\ o.recursion = 1
      BY <2>3 DEF NewObjects
    <2>4. \A t \in Tids, h \in Handles :
            held'[t][h] = IF t = current /\ h = nextHandle
                          THEN IF o.kind = "Mutex" THEN o.recursion ELSE 0 ELSE held[t][h]
      BY <1>1, <1>s DEF CreateObject
    <2>5. \A t \in Tids : held[t][nextHandle] = 0
      BY <2>2 DEF MutexInv, FreshHandles, Handles
    <2>6. ASSUME o.kind = "Mutex"
          PROVE  /\ o.owner = NoOwner <=> o.recursion = 0
                 /\ \A t \in Tids : held'[t][nextHandle] =
                       IF o.owner = t THEN o.recursion ELSE 0
      BY <1>s, <2>2, <2>3, <2>4, <2>5, <2>6 DEF NoOwner, Tids
    <2> QED BY <1>p, <2>1, <2>2, <2>4, <2>6, InsertedMutex
  <1>2. ASSUME NEW n \in Names, OpenNamed(n) PROVE MutexInv'
    BY <1>2, QuietStepMutex DEF OpenNamed
  <1>3. ASSUME NEW h \in Handles, CloseHandle(h) PROVE MutexInv'
    <2>1. /\ kobj' = [kobj EXCEPT ![h] = Missing] /\ kobj[h] # Missing
          /\ UNCHANGED <<held, nextHandle>>
      BY <1>3 DEF CloseHandle, histVars
    <2> QED BY <1>s, <2>1, MutexesUntouched DEF Missing
  <1>4. ASSUME NEW h \in Handles, DupHandle(h) PROVE MutexInv'
    <2>1. kobj[h] \in KObjects /\ Insert(kobj[h]) /\ nextHandle \in Handles
      BY <1>4, <1>s DEF DupHandle, Insert, Handles
    <2>2. \A t \in Tids, g \in Handles :
            held'[t][g] = IF g # nextHandle THEN held[t][g]
                          ELSE IF kobj[h].kind = "Mutex" THEN held[t][h] ELSE 0
      BY <1>4, <1>s DEF DupHandle
    <2>3. ASSUME kobj[h].kind = "Mutex"
          PROVE  /\ kobj[h].owner = NoOwner <=> kobj[h].recursion = 0
                 /\ \A t \in Tids : held'[t][nextHandle] =
                       IF kobj[h].owner = t THEN kobj[h].recursion ELSE 0
      BY <2>1, <2>2, <2>3 DEF MutexInv, MutexAsGranted
    <2> QED BY <1>p, <2>1, <2>2, <2>3, InsertedMutex
  <1>5. ASSUME NEW h \in Handles, NEW b \in BOOLEAN, SetEvent(h, b) PROVE MutexInv'
    <2>1. kobj[h] \in Events
      BY <1>5, <1>s, KindType DEF SetEvent
    <2>2. kobj[h] # Missing /\ [kobj[h] EXCEPT !.signaled = b].kind # "Mutex"
      BY <2>1 DEF Events, Missing
    <2>3. Put(h, [kobj[h] EXCEPT !.signaled = b]) /\ UNCHANGED held
      BY <1>5 DEF SetEvent
    <2> QED BY <2>2, <2>3, PutUntouched
  <1>6. ASSUME NEW h \in Handles, ReleaseMutex(h) PROVE MutexInv'
    BY <1>6, ReleasedMutex
  <1>7. ASSUME NEW h \in Handles, NEW n \in Releases, NEW api \in {"win32", "nt"},
               ReleaseSemaphore(h, n, api)
        PROVE  MutexInv'
    <2>1. kobj[h] \in Semaphores
      BY <1>7, <1>s, KindType DEF ReleaseSemaphore
    <2>2. /\ kobj[h] # Missing
          /\ [kobj[h] EXCEPT !.count = kobj[h].count + n].kind # "Mutex"
      BY <2>1 DEF Semaphores, Missing
    <2>3. Put(h, [kobj[h] EXCEPT !.count = kobj[h].count + n]) /\ UNCHANGED held
      BY <1>7 DEF ReleaseSemaphore
    <2> QED BY <2>2, <2>3, PutUntouched
  <1>8. ASSUME NEW c \in WaitInputs, Wait(c) PROVE MutexInv'
    <2>1. CASE WaitInvalid(c) \/ WaitBlocks(c)
      BY <2>1, QuietStepMutex DEF WaitInvalid, WaitBlocks
    <2>2. CASE WaitGranted(c)
      BY <2>2, GrantedMutex DEF WaitGranted
    <2>3. CASE WaitAlone(c)
      <3>1. c.api = "nt"
        BY DEF WaitInputs, NtWaitsOnly
      <3> QED BY <2>3, <3>1, QuietStepMutex DEF WaitAlone
    <2> QED BY <1>8, <2>1, <2>2, <2>3 DEF Wait
  <1>9. CASE SocketWait
    BY <1>9, QuietStepMutex DEF SocketWait
  <1> QED BY <1>1, <1>2, <1>3, <1>4, <1>5, <1>6, <1>7, <1>8, <1>9

LEMMA MutexStep ==
  ASSUME NtWaitsOnly, MutexInv, [Next]_vars
  PROVE  MutexInv'
  <1>1. TypeOK'
    BY TypeStep DEF MutexInv
  <1>2. CASE UNCHANGED vars
    BY <1>1, <1>2, QuietStepMutex DEF vars
  <1> QED BY <1>1, <1>2, NextIsAStep, ThreadStepMutex, SyncStepMutex

\* Where the guest waits through the NT calls only, a mutex is owned by exactly
\* the thread that was told so, as often as it was told and did not release,
\* however threads are created, suspended, ended and switched and handles are
\* closed and duplicated (nt_wait_acquire, signal_sync, dup_kobject_handle).
THEOREM MutexCorrect ==
  ASSUME NtWaitsOnly
  PROVE  Spec => []MutexAsGranted
  <1>1. MutexInv /\ [Next]_vars => MutexInv'
    BY MutexStep
  <1>2. MutexInv => MutexAsGranted
    BY DEF MutexInv
  <1> QED BY MutexInit, <1>1, <1>2, PTL DEF Spec

-----------------------------------------------------------------------------
(* The scheduler implements MutexPromise. *)

\* In a state the invariant allows, a signaled mutex is free for the current
\* thread: nobody else was granted it.
LEMMA SignaledIsFree ==
  ASSUME MutexInv, NEW h \in Handles, kobj[h].kind = "Mutex", IsSignaled(kobj[h], current)
  PROVE  Promise!FreeFor(current, h)
  <1>1. kobj[h].owner \in {NoOwner, current}
    BY DEF IsSignaled
  <1>2. \A t \in Tids : held[t][h] = IF kobj[h].owner = t THEN kobj[h].recursion ELSE 0
    BY DEF MutexInv, MutexAsGranted
  <1> QED BY <1>1, <1>2 DEF Promise!FreeFor, Tids, NoOwner

\* Granted waits are acquisitions of the promise.
LEMMA GrantKeepsPromise ==
  ASSUME MutexInv, NEW c, Satisfied(kobj, c, current),
         Grants(Granted(kobj, c, current)), NEW G,
         G = {h \in Handles : h \in Granted(kobj, c, current) /\ kobj[h].kind = "Mutex"}
  PROVE  Promise!Next
  <1>1. current \in Tids
    BY Shapes DEF MutexInv
  <1>2. \A h \in G : Promise!FreeFor(current, h)
    BY GrantedSignaled, SignaledIsFree
  <1>3. held' = [held EXCEPT ![current] =
                   [h \in Handles |-> IF h \in G THEN held[current][h] + 1 ELSE held[current][h]]]
    BY DEF Grants
  <1>4. Promise!Acquire(current, G)
    BY <1>2, <1>3 DEF Promise!Acquire
  <1>5. G \in SUBSET Handles
    OBVIOUS
  <1> QED BY <1>1, <1>4, <1>5 DEF Promise!Next

\* Creating a mutex, owned or not, and duplicating one.
LEMMA CreateKeepsPromise ==
  ASSUME MutexInv, NEW o \in NewObjects, NEW n \in Names \union {None}, CreateObject(o, n)
  PROVE  Promise!Next \/ UNCHANGED held
  <1>1. /\ current \in Tids /\ held \in [Tids -> [Handles -> Int]]
    BY Shapes DEF MutexInv
  <1>2. nextHandle \in Handles
    BY Shapes DEF CreateObject, Insert, Handles, MutexInv
  <1>3. \A t \in Tids : held[t][nextHandle] = 0
    BY <1>2 DEF MutexInv, FreshHandles, Handles
  <1>4. CASE o.kind = "Mutex" /\ o.recursion = 1
    <2>1. held' = [held EXCEPT ![current] =
                     [h \in Handles |-> IF h \in {nextHandle} THEN held[current][h] + 1
                                                            ELSE held[current][h]]]
      <3>1. held' = [held EXCEPT ![current] = [held[current] EXCEPT ![nextHandle] = 1]]
        BY <1>4 DEF CreateObject
      <3>2. [held[current] EXCEPT ![nextHandle] = 1] =
              [h \in Handles |-> IF h \in {nextHandle} THEN held[current][h] + 1
                                                     ELSE held[current][h]]
        BY <1>1, <1>2, <1>3
      <3> QED BY <3>1, <3>2
    <2>2. Promise!Acquire(current, {nextHandle})
      BY <1>1, <1>3, <2>1 DEF Promise!Acquire, Promise!FreeFor
    <2>3. {nextHandle} \in SUBSET Handles
      BY <1>2
    <2> QED BY <1>1, <2>2, <2>3 DEF Promise!Next
  <1>5. CASE ~(o.kind = "Mutex" /\ o.recursion = 1)
    <2>1. (IF o.kind = "Mutex" THEN o.recursion ELSE 0) = 0
      BY <1>5 DEF NewObjects
    <2>2. held' = [held EXCEPT ![current] = [held[current] EXCEPT ![nextHandle] = 0]]
      BY <2>1 DEF CreateObject
    <2> QED BY <1>1, <1>2, <1>3, <2>2
  <1> QED BY <1>4, <1>5

LEMMA DupKeepsPromise ==
  ASSUME MutexInv, NEW h \in Handles, DupHandle(h)
  PROVE  Promise!Next \/ UNCHANGED held
  <1>1. held \in [Tids -> [Handles -> Int]]
    BY Shapes DEF MutexInv
  <1>2. nextHandle \in Handles
    BY Shapes DEF DupHandle, Insert, Handles, MutexInv
  <1>3. \A t \in Tids : held[t][nextHandle] = 0
    BY <1>2 DEF MutexInv, FreshHandles, Handles
  <1>4. held' = [t \in Tids |-> [held[t] EXCEPT ![nextHandle] =
                                   IF kobj[h].kind = "Mutex" THEN held[t][h] ELSE 0]]
    BY DEF DupHandle
  <1>5. CASE \E u \in Tids : kobj[h].kind = "Mutex" /\ kobj[h].owner = u
    <2>1. PICK u \in Tids : kobj[h].kind = "Mutex" /\ kobj[h].owner = u
      BY <1>5
    <2>2. \A t \in Tids \ {u} : held[t][h] = 0
      BY <2>1 DEF MutexInv, MutexAsGranted
    <2>3. \A t \in Tids : held'[t] = IF t = u THEN [held[t] EXCEPT ![nextHandle] = held[t][h]]
                                            ELSE held[t]
      BY <1>1, <1>3, <1>4, <2>1, <2>2
    <2>4. held' = [held EXCEPT ![u] = [held[u] EXCEPT ![nextHandle] = held[u][h]]]
      BY <1>1, <1>4, <2>3
    <2>5. Promise!Appear(u, nextHandle, held[u][h])
      BY <1>3, <2>4 DEF Promise!Appear
    <2> QED BY <1>2, <2>5 DEF Promise!Next
  <1>6. CASE ~ \E u \in Tids : kobj[h].kind = "Mutex" /\ kobj[h].owner = u
    <2>1. \A t \in Tids : (IF kobj[h].kind = "Mutex" THEN held[t][h] ELSE 0) = 0
      BY <1>6 DEF MutexInv, MutexAsGranted
    <2>2. \A t \in Tids : [held[t] EXCEPT ![nextHandle] = 0] = held[t]
      BY <1>1, <1>2, <1>3
    <2>3. held' = [t \in Tids |-> held[t]]
      BY <1>4, <2>1, <2>2
    <2> QED BY <1>1, <2>3
  <1> QED BY <1>5, <1>6

LEMMA ReleaseKeepsPromise ==
  ASSUME MutexInv, NEW h \in Handles, ReleaseMutex(h)
  PROVE  Promise!Next
  <1>1. current \in Tids /\ kobj[h] \in Mutexes
    BY Shapes, KindType DEF ReleaseMutex, MutexInv
  <1>2. kobj[h].kind = "Mutex" /\ kobj[h].owner = current
    BY DEF ReleaseMutex
  <1>3. held[current][h] > 0
    <2>1. held[current][h] = kobj[h].recursion /\ (current = NoOwner <=> kobj[h].recursion = 0)
      BY <1>1, <1>2 DEF MutexInv, MutexAsGranted
    <2>2. kobj[h].recursion \in Nat /\ current # NoOwner
      BY <1>1 DEF Mutexes, Tids, NoOwner
    <2> QED BY <2>1, <2>2
  <1>4. held' = [held EXCEPT ![current][h] = @ - 1]
    BY DEF ReleaseMutex
  <1>5. Promise!Release(current, h)
    BY <1>3, <1>4 DEF Promise!Release
  <1> QED BY <1>1, <1>5 DEF Promise!Next

LEMMA PromiseStep ==
  ASSUME NtWaitsOnly, MutexInv, [Next]_vars
  PROVE  [Promise!Next]_held
  <1>1. CASE UNCHANGED vars
    BY <1>1 DEF vars, histVars
  <1>2. CASE UNCHANGED <<named, histVars>>
    BY <1>2 DEF histVars
  <1>3. ASSUME NEW o \in NewObjects, NEW n \in Names \union {None}, CreateObject(o, n)
        PROVE  [Promise!Next]_held
    BY <1>3, CreateKeepsPromise
  <1>4. ASSUME NEW n \in Names, OpenNamed(n) PROVE UNCHANGED held
    BY <1>4 DEF OpenNamed, histVars
  <1>5. ASSUME NEW h \in Handles,
               \/ CloseHandle(h) \/ DupHandle(h)
               \/ \E b \in BOOLEAN : SetEvent(h, b)
               \/ ReleaseMutex(h)
               \/ \E n \in Releases, api \in {"win32", "nt"} : ReleaseSemaphore(h, n, api)
        PROVE  [Promise!Next]_held
    <2>1. CASE DupHandle(h) BY <2>1, DupKeepsPromise
    <2>2. CASE ReleaseMutex(h) BY <2>2, ReleaseKeepsPromise
    <2>3. CASE CloseHandle(h) BY <2>3 DEF CloseHandle, histVars
    <2>4. ASSUME NEW b \in BOOLEAN, SetEvent(h, b) PROVE UNCHANGED held
      BY <2>4 DEF SetEvent
    <2>5. ASSUME NEW n \in Releases, NEW api \in {"win32", "nt"}, ReleaseSemaphore(h, n, api)
          PROVE  UNCHANGED held
      BY <2>5 DEF ReleaseSemaphore
    <2> QED BY <1>5, <2>1, <2>2, <2>3, <2>4, <2>5
  <1>6. ASSUME NEW c \in WaitInputs, Wait(c) PROVE [Promise!Next]_held
    <2>1. CASE WaitInvalid(c) \/ WaitBlocks(c)
      BY <2>1 DEF WaitInvalid, WaitBlocks, histVars
    <2>2. CASE WaitGranted(c)
      BY <2>2, GrantKeepsPromise DEF WaitGranted
    <2>3. CASE WaitAlone(c)
      <3>1. c.api = "nt"
        BY DEF WaitInputs, NtWaitsOnly
      <3> QED BY <2>3, <3>1 DEF WaitAlone, histVars
    <2> QED BY <1>6, <2>1, <2>2, <2>3 DEF Wait
  <1>7. CASE SocketWait
    BY <1>7 DEF SocketWait, histVars
  <1> QED BY <1>1, <1>2, <1>3, <1>4, <1>5, <1>6, <1>7, NextIsAStep

\* The scheduler implements what a guest relies on when a wait on a mutex
\* reports success, for any number of threads, handles and nested wait-alls:
\* no two threads are ever told that they hold the same mutex.
THEOREM PromiseCorrect ==
  ASSUME NtWaitsOnly
  PROVE  Spec => PromiseKept
  <1>1. Init => Promise!Init
    BY DEF Init, Promise!Init
  <1>2. MutexInv /\ [Next]_vars => [Promise!Next]_held
    BY PromiseStep
  <1>3. MutexInv /\ [Next]_vars => MutexInv'
    BY MutexStep
  <1> QED BY MutexInit, <1>1, <1>2, <1>3, PTL DEF Spec, PromiseKept, Promise!Spec

-----------------------------------------------------------------------------
(* Signals. *)

\* A step that changes no counted object, and adds none.
LEMMA SignalsUntouched ==
  ASSUME SignalsConserved, UNCHANGED owed,
         \A h \in Handles : kobj'[h] = kobj[h] \/ ~Counted(kobj'[h])
  PROVE  SignalsConserved'
  BY DEF SignalsConserved

\* A new object comes with the units it is created with, a duplicate with the
\* units of what it copies.
LEMMA SignalsInserted ==
  ASSUME TypeOK, SignalsConserved, NEW o, Insert(o), NEW n,
         owed' = [owed EXCEPT ![nextHandle] = n], Counted(o) => n = Units(o)
  PROVE  SignalsConserved'
  <1>1. /\ kobj' = [kobj EXCEPT ![nextHandle] = o] /\ nextHandle \in Handles
        /\ kobj \in [Handles -> KObjects] /\ owed \in [Handles -> Int]
    BY DEF Insert, TypeOK, ObjectTypeOK, Handles
  <1>2. \A h \in Handles : h # nextHandle => kobj'[h] = kobj[h] /\ owed'[h] = owed[h]
    BY <1>1
  <1>3. kobj'[nextHandle] = o /\ owed'[nextHandle] = n
    BY <1>1
  <1> QED BY <1>2, <1>3 DEF SignalsConserved

\* One object changes in place, and so does what is owed on it.
LEMMA SignalsPut ==
  ASSUME TypeOK, SignalsConserved, NEW h \in Handles, NEW o, Put(h, o), NEW n,
         owed' = [owed EXCEPT ![h] = n], Counted(o) => n = Units(o)
  PROVE  SignalsConserved'
  <1>1. /\ kobj' = [kobj EXCEPT ![h] = o]
        /\ kobj \in [Handles -> KObjects] /\ owed \in [Handles -> Int]
    BY DEF Put, TypeOK, ObjectTypeOK
  <1>2. \A g \in Handles : g # h => kobj'[g] = kobj[g] /\ owed'[g] = owed[g]
    BY <1>1
  <1>3. kobj'[h] = o /\ owed'[h] = n
    BY <1>1
  <1> QED BY <1>2, <1>3 DEF SignalsConserved

\* Acquiring a signaled object that counts takes one unit from it; one that
\* does not count goes on not counting (KObject::acquire).
LEMMA AcquireTakesOne ==
  ASSUME NEW o \in KObjects, NEW t \in Tids, IsSignaled(o, t)
  PROVE  /\ Counted(Acquired(o, t)) <=> Counted(o)
         /\ Counted(o) => Units(Acquired(o, t)) = Units(o) - 1
  <1>1. CASE o \in Events
    <2>1. o.kind = "Event" /\ o.signaled
      BY <1>1 DEF Events, IsSignaled
    <2>2. Acquired(o, t) = [o EXCEPT !.signaled = o.manual]
      BY <2>1 DEF Acquired
    <2>3. /\ Acquired(o, t).kind = "Event" /\ Acquired(o, t).manual = o.manual
          /\ Acquired(o, t).signaled = o.manual /\ o.manual \in BOOLEAN
      BY <1>1, <2>2 DEF Events
    <2> QED BY <2>1, <2>3 DEF Counted, Units
  <1>2. CASE o \in Semaphores
    <2>1. o.kind = "Semaphore" /\ o.count \in Int
      BY <1>2 DEF Semaphores
    <2>2. Acquired(o, t) = [o EXCEPT !.count = o.count - 1]
      BY <2>1 DEF Acquired
    <2>3. Acquired(o, t).kind = "Semaphore" /\ Acquired(o, t).count = o.count - 1
      BY <1>2, <2>2 DEF Semaphores
    <2> QED BY <2>1, <2>3 DEF Counted, Units
  <1>3. CASE o.kind \notin {"Event", "Semaphore"}
    BY <1>3, AcquiredKind DEF Counted
  <1> QED BY <1>1, <1>2, <1>3, KindType

\* A granted wait.
LEMMA SignalsGranted ==
  ASSUME TypeOK, SignalsConserved, NEW c, Satisfied(kobj, c, current),
         kobj' = AcquireAll(kobj, Granted(kobj, c, current), current),
         Grants(Granted(kobj, c, current))
  PROVE  SignalsConserved'
  <1> DEFINE G == Granted(kobj, c, current)
  <1>1. /\ current \in Tids /\ kobj \in [Handles -> KObjects]
        /\ owed \in [Handles -> Int]
    BY Shapes DEF TypeOK
  <1>2. \A h \in G : IsSignaled(kobj[h], current)
    BY GrantedSignaled
  <1> HIDE DEF G
  <1>3. \A h \in Handles :
          /\ kobj'[h] = IF h \in G THEN Acquired(kobj[h], current) ELSE kobj[h]
          /\ owed'[h] = IF h \in G /\ Counted(kobj[h]) THEN owed[h] - 1 ELSE owed[h]
    BY DEF AcquireAll, Grants, G
  <1> SUFFICES ASSUME NEW h \in Handles, Counted(kobj'[h]) PROVE owed'[h] = Units(kobj'[h])
    BY DEF SignalsConserved
  <1>4. CASE h \notin G
    BY <1>3, <1>4 DEF SignalsConserved
  <1>5. CASE h \in G
    <2> DEFINE o == kobj[h]
    <2>1. o \in KObjects /\ IsSignaled(o, current) /\ kobj'[h] = Acquired(o, current)
      BY <1>1, <1>2, <1>3, <1>5
    <2>2. owed'[h] = IF Counted(o) THEN owed[h] - 1 ELSE owed[h]
      BY <1>3, <1>5
    <2>3. Counted(o) => owed[h] = Units(o)
      BY DEF SignalsConserved
    <2> HIDE DEF o
    <2> QED BY <1>1, <2>1, <2>2, <2>3, AcquireTakesOne
  <1> QED BY <1>4, <1>5

LEMMA ThreadStepSignals ==
  ASSUME TypeOK, SignalsConserved, UNCHANGED <<named, histVars>>,
         \/ Preempt \/ Compute \/ SleepOrSwitch \/ ExitProcess
         \/ \E b \in BOOLEAN : CreateThread(b) \/ EndCurrent(b)
         \/ \E t \in Tids : TerminateOther(t) \/ Suspend(t) \/ Resume(t)
  PROVE  SignalsConserved'
  <1>t. kobj \in [Handles -> KObjects] /\ UNCHANGED owed
    BY DEF TypeOK, ObjectTypeOK, histVars
  <1>0. ASSUME UNCHANGED objectVars PROVE SignalsConserved'
    BY <1>0, <1>t, SignalsUntouched DEF objectVars
  <1>e. ASSUME NEW t, kobj' = Exited(t) PROVE SignalsConserved'
    <2>1. \A h \in Handles : kobj'[h] = kobj[h] \/ ~Counted(kobj'[h])
      <3> TAKE h \in Handles
      <3>1. CASE h = handle[t] /\ kobj[h].kind = "Thread"
        <4>1. kobj[h] \in Latches /\ kobj'[h] = [kobj[h] EXCEPT !.exited = TRUE]
          BY <1>e, <1>t, <3>1, KindType DEF Exited
        <4> QED BY <4>1 DEF Latches, Counted
      <3>2. CASE ~(h = handle[t] /\ kobj[h].kind = "Thread")
        BY <1>e, <3>2 DEF Exited
      <3> QED BY <3>1, <3>2
    <2> QED BY <1>t, <2>1, SignalsUntouched
  <1>1. CASE Preempt \/ Compute \/ SleepOrSwitch \/ ExitProcess
    BY <1>0, <1>1 DEF Preempt, Compute, SleepOrSwitch, ExitProcess, YieldTo
  <1>2. ASSUME NEW b \in BOOLEAN, CreateThread(b) PROVE SignalsConserved'
    <2>1. kobj' = [kobj EXCEPT ![nextHandle] = [kind |-> "Thread", exited |-> FALSE]]
      BY <1>2 DEF CreateThread
    <2>2. \A h \in Handles : kobj'[h] = kobj[h] \/ kobj'[h].kind = "Thread"
      BY <1>t, <2>1
    <2> QED BY <1>t, <2>2, SignalsUntouched DEF Counted
  <1>3. ASSUME NEW b \in BOOLEAN, EndCurrent(b) PROVE SignalsConserved'
    BY <1>e, <1>3 DEF EndCurrent
  <1>4. ASSUME NEW t \in Tids, TerminateOther(t) PROVE SignalsConserved'
    BY <1>e, <1>4 DEF TerminateOther
  <1>5. ASSUME NEW t \in Tids, Suspend(t) \/ Resume(t) PROVE SignalsConserved'
    BY <1>0, <1>5 DEF Suspend, Resume
  <1> QED BY <1>1, <1>2, <1>3, <1>4, <1>5

LEMMA SyncStepSignals ==
  ASSUME TypeOK, SignalsConserved, NtWaitsOnly,
         \/ \E o \in NewObjects, n \in Names \union {None} : CreateObject(o, n)
         \/ \E n \in Names : OpenNamed(n)
         \/ \E h \in Handles :
              \/ CloseHandle(h) \/ DupHandle(h)
              \/ \E b \in BOOLEAN : SetEvent(h, b)
              \/ ReleaseMutex(h)
              \/ \E n \in Releases, api \in {"win32", "nt"} : ReleaseSemaphore(h, n, api)
         \/ \E c \in WaitInputs : Wait(c)
         \/ SocketWait
  PROVE  SignalsConserved'
  <1>t. kobj \in [Handles -> KObjects] /\ owed \in [Handles -> Int]
    BY DEF TypeOK, ObjectTypeOK
  <1>0. ASSUME UNCHANGED <<objectVars, histVars>> PROVE SignalsConserved'
    BY <1>0, SignalsUntouched DEF objectVars, histVars
  <1>1. ASSUME NEW o, NEW n, CreateObject(o, n) PROVE SignalsConserved'
    BY <1>1, SignalsInserted DEF CreateObject
  <1>2. ASSUME NEW n, OpenNamed(n) PROVE SignalsConserved'
    BY <1>0, <1>2 DEF OpenNamed
  <1>3. ASSUME NEW h \in Handles, CloseHandle(h) PROVE SignalsConserved'
    <2>1. kobj' = [kobj EXCEPT ![h] = Missing] /\ UNCHANGED owed
      BY <1>3 DEF CloseHandle, histVars
    <2>2. \A g \in Handles : kobj'[g] = kobj[g] \/ kobj'[g] = Missing
      BY <1>t, <2>1
    <2> QED BY <2>1, <2>2, SignalsUntouched DEF Counted, Missing
  <1>4. ASSUME NEW h \in Handles, DupHandle(h) PROVE SignalsConserved'
    <2>1. Insert(kobj[h]) /\ owed' = [owed EXCEPT ![nextHandle] = owed[h]]
      BY <1>4 DEF DupHandle
    <2>2. Counted(kobj[h]) => owed[h] = Units(kobj[h])
      BY DEF SignalsConserved
    <2> QED BY <2>1, <2>2, SignalsInserted
  <1>5. ASSUME NEW h \in Handles, NEW b \in BOOLEAN, SetEvent(h, b) PROVE SignalsConserved'
    <2> DEFINE o == [kobj[h] EXCEPT !.signaled = b]
               n == IF b THEN 1 ELSE 0
    <2>1. Put(h, o) /\ owed' = [owed EXCEPT ![h] = n]
      BY <1>5 DEF SetEvent
    <2>2. o.kind = "Event" /\ o.signaled = b
      <3>1. kobj[h] \in Events
        BY <1>5, <1>t, KindType DEF SetEvent
      <3> QED BY <3>1 DEF Events
    <2>3. n = Units(o)
      BY <2>2 DEF Units
    <2> HIDE DEF o, n
    <2> QED BY <2>1, <2>3, SignalsPut
  <1>6. ASSUME NEW h \in Handles, ReleaseMutex(h) PROVE SignalsConserved'
    <2>1. kobj' = [kobj EXCEPT ![h] = Released(kobj[h])] /\ UNCHANGED owed
      BY <1>6 DEF ReleaseMutex, Put
    <2>2. \A g \in Handles : kobj'[g] = kobj[g] \/ kobj'[g].kind = "Mutex"
      BY <1>t, <2>1 DEF Released
    <2> QED BY <2>1, <2>2, SignalsUntouched DEF Counted
  <1>7. ASSUME NEW h \in Handles, NEW n \in Releases, NEW api \in {"win32", "nt"},
               ReleaseSemaphore(h, n, api)
        PROVE  SignalsConserved'
    <2> DEFINE o == [kobj[h] EXCEPT !.count = kobj[h].count + n]
               m == owed[h] + n
    <2>1. Put(h, o) /\ owed' = [owed EXCEPT ![h] = m]
      BY <1>7, <1>t DEF ReleaseSemaphore
    <2>2. o.kind = "Semaphore" /\ o.count = kobj[h].count + n /\ kobj[h].kind = "Semaphore"
      <3>1. kobj[h] \in Semaphores
        BY <1>7, <1>t, KindType DEF ReleaseSemaphore
      <3> QED BY <3>1 DEF Semaphores
    <2>3. owed[h] = kobj[h].count
      BY <2>2 DEF SignalsConserved, Counted, Units
    <2>4. m = Units(o)
      BY <2>2, <2>3 DEF Units
    <2> HIDE DEF o, m
    <2> QED BY <2>1, <2>4, SignalsPut
  <1>8. ASSUME NEW c \in WaitInputs, Wait(c) PROVE SignalsConserved'
    <2>1. CASE WaitInvalid(c) \/ WaitBlocks(c)
      BY <1>0, <2>1 DEF WaitInvalid, WaitBlocks
    <2>2. CASE WaitGranted(c)
      BY <2>2, SignalsGranted DEF WaitGranted
    <2>3. CASE WaitAlone(c)
      <3>1. c.api = "nt"
        BY DEF WaitInputs, NtWaitsOnly
      <3> QED BY <1>0, <2>3, <3>1 DEF WaitAlone
    <2> QED BY <1>8, <2>1, <2>2, <2>3 DEF Wait
  <1>9. CASE SocketWait
    BY <1>0, <1>9 DEF SocketWait
  <1> QED BY <1>1, <1>2, <1>3, <1>4, <1>5, <1>6, <1>7, <1>8, <1>9

\* Where the guest waits through the NT calls only, no signal is lost or used
\* twice: what is left in a semaphore or an auto-reset event is what was put
\* in minus the waits reported as granted, for wait-all and wait-any of any
\* length (acquire, release in sync.rs).
THEOREM SignalsAreConserved ==
  ASSUME NtWaitsOnly
  PROVE  Spec => []SignalsConserved
  <1> DEFINE Inv == TypeOK /\ SignalsConserved
  <1>1. Init => Inv
    BY TypeInit DEF Init, ThreadsInit, SignalsConserved, Counted, Missing
  <1>2. Inv /\ [Next]_vars => Inv'
    <2>1. ASSUME TypeOK, SignalsConserved, UNCHANGED vars PROVE SignalsConserved'
      BY <2>1, SignalsUntouched DEF vars, objectVars, histVars
    <2> QED BY <2>1, TypeStep, NextIsAStep, ThreadStepSignals, SyncStepSignals
  <1>3. Inv => SignalsConserved
    OBVIOUS
  <1> HIDE DEF Inv
  <1> QED BY <1>1, <1>2, <1>3, PTL DEF Spec
=============================================================================
