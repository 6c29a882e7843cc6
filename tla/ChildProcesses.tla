--------------------------- MODULE ChildProcesses ---------------------------
(* os/src/process.rs and app/src/spawn.rs.  A child process is created      *)
(* suspended; the resume that brings its count to zero runs the whole child *)
(* inside the call, in an instance of the emulator of its own, and only     *)
(* then does the parent go on.  The instances that are under way form a     *)
(* stack; only the innermost one executes.                                  *)
EXTENDS Integers, Sequences, FiniteSets

CONSTANTS
    MAX_SPAWN_DEPTH,
    ExitCodes,     \* codes a process ends with
    MaxChildren,   \* bound on the children of one process
    MaxObjects     \* bound on the handles of one process

STATUS_UNSUCCESSFUL == "unsuccessful"
STILL_ACTIVE == "still active"

ASSUME ChildProcessesAssumption ==
    /\ MAX_SPAWN_DEPTH \in Nat /\ MaxChildren \in Nat /\ MaxObjects \in Nat
    /\ {STATUS_UNSUCCESSFUL, STILL_ACTIVE} \cap ExitCodes = {}

VARIABLE procs   \* the instances of WinOs under way, the outermost first

(* The part of WinOs that this is about: children has a record for every    *)
(* child that still has a handle, by the process handle it was created      *)
(* with, and so in the order of creation; kobjects maps a handle to whether *)
(* the process or thread behind it has ended; running is the child whose    *)
(* end the instance awaits, 0 if none.                                      *)
NewOs(depth) == [children |-> [i \in {} |-> {}], kobjects |-> <<>>, depth |-> depth, running |-> 0]

procVars == <<procs>>

Os == procs[Len(procs)]
Update_(os) == [procs EXCEPT ![Len(procs)] = os]

child_by_process_handle(os, h) == {i \in DOMAIN os.children : os.children[i].process_handle = h}
child_by_thread_handle(os, h) == {i \in DOMAIN os.children : os.children[i].thread_handle = h}
FirstOf(S) == {i \in S : \A j \in S : i <= j}

(* A handle is the next position in kobjects, "closed" once it is closed.   *)
(* Guests pass handles they have open (0 would match a child whose handle   *)
(* was closed).                                                             *)
Handles_(os) == {h \in DOMAIN os.kobjects : os.kobjects[h] # "closed"}

-----------------------------------------------------------------------------
(* NtCreateUserProcess and CreateProcess leave a child that is not started. *)
Child(h) == [process_handle |-> h, thread_handle |-> h + 1, state |-> "NotStarted",
             exit_code |-> STILL_ACTIVE, suspend_count |-> 1, request |-> TRUE]

NewChild(os) == Len(os.kobjects) + 1
create_child_process(os) ==
    [os EXCEPT !.children = [i \in DOMAIN @ \cup {NewChild(os)} |->
                               IF i = NewChild(os) THEN Child(i) ELSE @[i]],
               !.kobjects = @ \o <<"live", "live">>]

MayCreate == Cardinality(DOMAIN Os.children) < MaxChildren /\ Len(Os.kobjects) + 2 <= MaxObjects

nt_create_user_process == MayCreate /\ procs' = Update_(create_child_process(Os))

-----------------------------------------------------------------------------
(* Running a child                                                         *)

Signal_NotThread(os, c) == [os EXCEPT !.kobjects = [h \in DOMAIN @ |->
    IF h = c.process_handle /\ @[h] = "live" THEN "exited" ELSE @[h]]]
(* The objects behind the handles the record still has become signalled.    *)
Signal(os, c) == [os EXCEPT !.kobjects = [h \in DOMAIN @ |->
    IF h \in {c.process_handle, c.thread_handle} /\ @[h] = "live" THEN "exited" ELSE @[h]]]

Ended(os, i, code) ==
    Signal([os EXCEPT !.children[i].state = "Exited", !.children[i].exit_code = code,
                      !.children[i].request = FALSE, !.running = 0],
           os.children[i])

(* run_child takes the request; the spawner refuses one that is nested too  *)
(* deep or whose image it cannot load, or starts an instance for it.        *)
run_child(os, i) ==
    IF ~os.children[i].request
    THEN procs' = Update_(os)
    ELSE \/ procs' = Update_(Ended(os, i, STATUS_UNSUCCESSFUL))
         \/ /\ os.depth + 1 <= MAX_SPAWN_DEPTH
            /\ procs' = Append(Update_([os EXCEPT !.children[i].request = FALSE,
                                                  !.running = i]),
                               NewOs(os.depth + 1))

resume_child(os, i) ==
    LET c == os.children[i]
        resumed == IF c.suspend_count > 0 THEN [os EXCEPT !.children[i].suspend_count = @ - 1]
                   ELSE os
    IN  IF resumed.children[i].suspend_count = 0 /\ c.state = "NotStarted"
        THEN run_child(resumed, i)
        ELSE procs' = Update_(resumed)

resume_child_thread(h) ==
    \E i \in FirstOf(child_by_thread_handle(Os, h)) : resume_child(Os, i)

(* CreateProcess without CREATE_SUSPENDED resumes at once.                  *)
win32_create_process ==
    /\ MayCreate
    /\ \E os \in {create_child_process(Os)} : resume_child(os, NewChild(Os))

-----------------------------------------------------------------------------
(* NtTerminateProcess on a child that has not been started; one that has is *)
(* over.                                                                    *)
terminate_child(h, code) ==
    /\ \E i \in FirstOf(child_by_process_handle(Os, h)) :
          /\ Os.children[i].state = "NotStarted"
          /\ procs' = Update_(Ended(Os, i, code))

(* CloseHandle, and forget_child_handle.                                    *)
Forgotten(c, h) == [c EXCEPT !.process_handle = IF @ = h THEN 0 ELSE @,
                             !.thread_handle = IF @ = h THEN 0 ELSE @]
Held(c) == c.process_handle # 0 \/ c.thread_handle # 0
forget_child_handle(children, h) ==
    [i \in {j \in DOMAIN children : Held(Forgotten(children[j], h))} |-> Forgotten(children[i], h)]
close_child_handle(h) ==
    /\ procs' = Update_([Os EXCEPT !.kobjects[h] = "closed",
                                   !.children = forget_child_handle(@, h)])

(* A duplicate is an object of its own, with what is known of the end.      *)
DuplicateChild(h) ==
    /\ Len(Os.kobjects) < MaxObjects
    /\ procs' = Update_([Os EXCEPT !.kobjects = Append(@, @[h])])

(* A process ends: the spawner's call returns to its parent.                *)
Finished(parent, code) == Ended(parent, parent.running, code)
EndsWith(code) ==
    /\ Len(procs) > 1
    /\ procs' = Append(SubSeq(procs, 1, Len(procs) - 2), Finished(procs[Len(procs) - 1], code))
Exit == \E code \in ExitCodes : EndsWith(code)
Faulted == EndsWith(STATUS_UNSUCCESSFUL)

ProcInit == procs = <<NewOs(0)>>

ProcNext ==
    \/ nt_create_user_process
    \/ win32_create_process
    \/ \E h \in Handles_(Os) :
          \/ resume_child_thread(h)
          \/ \E code \in ExitCodes : terminate_child(h, code)
          \/ close_child_handle(h)
          \/ DuplicateChild(h)
    \/ Exit
    \/ Faulted

ProcSpec == ProcInit /\ [][ProcNext]_procVars

-----------------------------------------------------------------------------
(* Whatever handles are closed meanwhile and however deep the children      *)
(* nest: both objects of a child are signalled exactly when it is over, it  *)
(* is over exactly when it has a code to report, and while it is under way  *)
(* or over nothing is left to start it once more.                           *)
Told(os, i) ==
    LET c == os.children[i]
        over == c.state = "Exited"
    IN  /\ \A h \in {c.process_handle, c.thread_handle} \ {0} : (os.kobjects[h] = "exited") <=> over
        /\ over <=> c.exit_code # STILL_ACTIVE
        /\ over \/ os.running = i <=> ~c.request
ExitIsTold ==
    \A d \in DOMAIN procs :
       /\ (procs[d].running # 0) <=> d < Len(procs)
       /\ \A i \in DOMAIN procs[d].children : Told(procs[d], i)
=============================================================================
