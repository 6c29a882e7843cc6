------------------------------ MODULE ApiCalls ------------------------------
(***************************************************************************)
(* The stack of a guest thread under the API thunks of api.rs: where a     *)
(* thunk looks for its arguments, what it takes off when it returns, and   *)
(* the functions of the guest it calls on the way: DllMain, window and     *)
(* dialog procedures, TLS callbacks and C initialisers.                    *)
(*                                                                         *)
(* The stack is the sequence of the words above sp, the last one at sp.    *)
(* A word holds what matters of it: an argument, a local of the guest, or  *)
(* the place a return goes to.  What an API does for the guest is left     *)
(* out.  A wait that blocks is run again with the same stack: no step.     *)
(***************************************************************************)
EXTENDS ApiTables, Sequences, SequencesExt

CONSTANTS MaxActive,    \* functions of the guest that are active at once
          MaxList,      \* functions one thunk has to call
          Unbalanced    \* functions the guest does not import

VARIABLES is_64bit, stack,
          rip,           \* where the guest is: in a function, at its entry, at a thunk
          active,        \* the guest's functions that have not returned
          call_frames,   \* WinOs::cb_stack
          initterm_stack, gui_open, dlgproc, dialog_result, pending_process_exit

callVars == <<is_64bit, stack, rip, active, call_frames, initterm_stack, gui_open, dlgproc,
              dialog_result, pending_process_exit>>
dialogVars == <<gui_open, dlgproc, dialog_result>>

Argument == <<"argument", 0>>
Junk == <<"junk", 0>>
Local(d) == <<"local", d>>
Guest(d) == <<"guest", d>>          \* in the guest's function number d
After(d, clean) == <<"call", d, clean>>   \* after a call in it, with words to take off
Function(n) == <<"function", n>>    \* at the entry of one with n arguments
Driver(name) == <<"driver", name>>  \* at a thunk the emulator made for itself
Exited == <<"exited", 0>>

Current == Len(active)
RoundUp(n, m) == ((n + m - 1) \div m) * m
StackWords(n, junk) == [i \in 1 .. junk + n |-> IF i > junk THEN Argument ELSE Junk]

\* The words a caller puts on the stack for n arguments.  In 64-bit code the
\* first four words are the home of the registers and stand for them.
Pushes(n) == IF is_64bit THEN StackWords(n, RoundUp(IF n < 4 THEN 4 ELSE n, 2) - n) ELSE StackWords(n, 0)

(***************************************************************************)
(* The thunks.                                                             *)
(***************************************************************************)
Handler(api) ==
    CASE api \in {"LoadLibrary", "LoadLibraryEx", "FreeLibrary"} -> "notifies"
      [] api \in {"CreateWindowEx", "DispatchMessage"} -> "sends"
      [] api \in {"GetMessage", "PeekMessage"} -> "pumps"
      [] api \in {"EndDialog", "DestroyWindow", "DefWindowProc"} -> "closes"
      [] api = "CreateDialogParam" -> "opens"
      [] api = "Initterm" -> "initterm"
      [] api = "EhProlog" -> "prolog"
      [] api = "ExitProcess" -> "exits"
      [] OTHER -> "returns"

Thunk(name) ==
    [argc |-> Argc(Classify(name)), reads |-> ReadsOf(Classify(name)), takes |-> Prototype[name],
     cdecl |-> name \in DOMAIN Cdecl, modal |-> name = "DialogBoxParam", does |-> Handler(Classify(name))]
Wsprintf(fmt) ==
    [Thunk("malloc") EXCEPT !.argc = Argc("wsprintf"), !.reads = WsprintfReads(fmt),
                            !.takes = 2 + Cardinality({i \in DOMAIN fmt : fmt[i] \notin {"%", "?"}})]
Formats == {<<>>, <<"s">>, <<"d", "%", "X">>, <<"?", "c">>}

Imports == {Thunk(n) : n \in DOMAIN Prototype \ Unbalanced} \union {Wsprintf(f) : f \in Formats}

\* What a thunk takes off the stack is what the guest put there, and it reads no
\* more: the tables of api.rs and the declarations agree for every import.
Balance(t) ==
    /\ t.argc \in Nat /\ t.reads \in Nat /\ t.takes \in Nat /\ t.modal \in BOOLEAN
    /\ t.reads <= t.takes
    /\ t.argc = IF t.cdecl THEN 0 ELSE t.takes
    /\ t.does = "opens" => t.argc = 5
    /\ t.does = "initterm" => t.cdecl
    /\ t.does = "prolog" => t.takes = 0
ASSUME CallsAssumption == MaxList \in Nat /\ \A t \in Imports : Balance(t)

(***************************************************************************)
(* The guest's own steps: enter a function, call a thunk, return.          *)
(***************************************************************************)
Own(d) == active[d].sp
Replace(d, a) == [active EXCEPT ![d] = a]

\* A jump leaves so many words on the stack; where it goes back to a call of the
\* guest, the guest takes off the arguments its callee leaves there.
GoBack(to, words) ==
    IF to[1] = "call"
    THEN rip' = Guest(to[2]) /\ stack' = SubSeq(stack, 1, words - to[3])
    ELSE rip' = to /\ stack' = SubSeq(stack, 1, words)

EnterFunction ==
    /\ rip[1] = "function" /\ Current < MaxActive
    /\ \E locals \in {1, 3} :
        /\ active' = Append(active, [entry |-> Len(stack), ret |-> Last(stack), args |-> rip[2],
                                     sp |-> Len(stack) + locals, framed |-> FALSE])
        /\ stack' = stack \o [i \in 1 .. locals |-> Local(Current + 1)]
    /\ rip' = Guest(Current + 1)
    /\ UNCHANGED <<is_64bit, call_frames, initterm_stack, dialogVars, pending_process_exit>>

CallThunk ==
    /\ rip = Guest(Current)
    /\ \E t \in Imports :
        /\ t.does = "prolog" => ~active[Current].framed
        /\ t.does = "opens" => Current < MaxActive
        /\ LET pushed == Pushes(t.takes)
               left == IF is_64bit \/ t.cdecl THEN Len(pushed) ELSE 0
           IN  stack' = stack \o pushed \o <<After(Current, left)>>
        /\ rip' = <<"thunk", t>>
    /\ UNCHANGED <<is_64bit, active, call_frames, initterm_stack, dialogVars, pending_process_exit>>

\* A function of the guest takes its own arguments off in 32-bit code.
ReturnFunction ==
    /\ rip = Guest(Current)
    /\ LET f == active[Current] IN
       /\ rip' = stack[f.entry]
       /\ stack' = SubSeq(stack, 1, f.entry - 1 - (IF is_64bit THEN 0 ELSE f.args))
    /\ active' = Front(active)
    /\ UNCHANGED <<is_64bit, call_frames, initterm_stack, dialogVars, pending_process_exit>>

(***************************************************************************)
(* setup_call_args: a call of a function with n arguments that returns to  *)
(* a thunk of the emulator, below the first so many words of the stack.    *)
(***************************************************************************)
SetupCall(n, ret, words) ==
    LET kept == SubSeq(stack, 1, IF words < Len(stack) THEN words ELSE Len(stack))
        aligned == RoundUp(words, IF is_64bit THEN 2 ELSE 4)
        pushed == IF is_64bit THEN StackWords(n, 4 - n) ELSE StackWords(n, 0)
    IN  /\ stack' = kept \o [i \in 1 .. aligned - Len(kept) |-> Junk] \o pushed \o <<ret>>
        /\ rip' = Function(n)

\* The return address that is still on the stack is forgotten.
InvokeCallbacks_KeepsReturn(calls, taken, modal) ==
    /\ Current < MaxActive
    /\ call_frames' = Append(call_frames,
            [remaining |-> Tail(calls), ret |-> Last(stack), modal |-> modal,
             final |-> Len(stack) - (IF is_64bit THEN 0 ELSE taken)])
    /\ SetupCall(Head(calls), Driver("callbacks"), Len(stack))

\* invoke_callbacks: calls is the argument counts of the functions to call.
InvokeCallbacks(calls, taken, modal) ==
    /\ Current < MaxActive
    /\ call_frames' = Append(call_frames,
            [remaining |-> Tail(calls), ret |-> Last(stack), modal |-> modal,
             final |-> Len(stack) - 1 - (IF is_64bit THEN 0 ELSE taken)])
    /\ SetupCall(Head(calls), Driver("callbacks"), Len(stack))

Repeat(n, k) == [i \in 1 .. k |-> n]

(***************************************************************************)
(* intercept and dispatch, one action for each way a thunk ends.           *)
(***************************************************************************)
At(does) == rip[1] = "thunk" /\ rip[2].does = does

\* ret: rip from the stack, and the stack above it and the arguments.
Ret(taken) == GoBack(Last(stack), Len(stack) - 1 - (IF is_64bit THEN 0 ELSE taken))
Returns == Ret(rip[2].argc) /\ UNCHANGED call_frames

Answer ==
    /\ At("returns") \/ At("pumps") \/ At("sends") \/ At("notifies")
    /\ Returns
    /\ UNCHANGED <<is_64bit, active, initterm_stack, dialogVars, pending_process_exit>>

\* LoadLibrary and FreeLibrary: DllMain of every DLL that comes or goes.
Notify ==
    /\ At("notifies")
    /\ \E k \in 1 .. MaxList : InvokeCallbacks(Repeat(3, k), rip[2].argc, FALSE)
    /\ UNCHANGED <<is_64bit, active, initterm_stack, dialogVars, pending_process_exit>>

\* CreateWindowEx and DispatchMessage, and the commands of an open dialog in
\* GetMessage and PeekMessage.
SendToWindow ==
    /\ At("sends") \/ (At("pumps") /\ gui_open)
    /\ InvokeCallbacks(<<4>>, rip[2].argc, FALSE)
    /\ UNCHANGED <<is_64bit, active, initterm_stack, dialogVars, pending_process_exit>>

\* CreateDialogParam and DialogBoxParam: without a host window the dialog is
\* initialised and accepted at once, with one a modal dialog has a loop.
OpenDialog ==
    /\ At("opens")
    /\ \/ /\ ~gui_open /\ dlgproc' = FALSE
          /\ Returns /\ UNCHANGED <<gui_open, dialog_result>>
       \/ /\ dlgproc' = TRUE /\ gui_open' = TRUE /\ dialog_result' = FALSE
          /\ InvokeCallbacks(<<4>>, 5, rip[2].modal)
       \/ /\ dlgproc' = TRUE /\ UNCHANGED <<gui_open, dialog_result>>
          /\ InvokeCallbacks(<<4, 4>>, 5, FALSE)
    /\ UNCHANGED <<is_64bit, active, initterm_stack, pending_process_exit>>

\* EndDialog also leaves a result; DefWindowProc closes on WM_CLOSE only.
CloseDialog ==
    /\ At("closes")
    /\ gui_open' \in {FALSE, gui_open} /\ dialog_result' \in {TRUE, dialog_result}
    /\ Returns
    /\ UNCHANGED <<is_64bit, active, initterm_stack, dlgproc, pending_process_exit>>

Initterm ==
    /\ At("initterm")
    /\ \/ Ret(0) /\ UNCHANGED initterm_stack
       \/ \E k \in 1 .. MaxList :
            /\ Current < MaxActive
            /\ initterm_stack' = Append(initterm_stack,
                    [remaining |-> k - 1, ret |-> Last(stack), saved |-> Len(stack)])
            /\ SetupCall(0, Driver("initterm"), Len(stack))
    /\ UNCHANGED <<is_64bit, active, call_frames, dialogVars, pending_process_exit>>

\* The prologue of a C++ function builds its exception frame on the stack: the
\* return address becomes the saved ebp and three words follow.
EhProlog ==
    /\ At("prolog")
    /\ IF is_64bit
       THEN Ret(0) /\ UNCHANGED active
       ELSE /\ rip' = Guest(Current)
            /\ stack' = Front(stack) \o [i \in 1 .. 4 |-> Local(Current)]
            /\ active' = Replace(Current, [active[Current] EXCEPT !.sp = Len(stack) + 3, !.framed = TRUE])
    /\ UNCHANGED <<is_64bit, call_frames, initterm_stack, dialogVars, pending_process_exit>>

\* begin_process_exit: from ExitProcess, and from the return of the entry point.
BeginProcessExit ==
    /\ At("exits") \/ rip = Driver("exit")
    /\ \/ /\ rip' = Exited
          /\ UNCHANGED <<stack, call_frames, pending_process_exit>>
       \/ /\ call_frames = <<>>
          /\ pending_process_exit' = TRUE
          /\ Current < MaxActive
          /\ \E k \in 1 .. MaxList :
                LET words == Len(stack) + 1 IN
                /\ call_frames' = <<[remaining |-> Repeat(3, k - 1), ret |-> Driver("exit"),
                                     modal |-> FALSE, final |-> words - 1]>>
                /\ stack' = stack \o [i \in 1 .. RoundUp(words, IF is_64bit THEN 2 ELSE 4) - Len(stack) |->
                                        IF i = 1 THEN Driver("exit") ELSE Junk]
                                  \o (IF is_64bit THEN StackWords(3, 1) ELSE StackWords(3, 0))
                                  \o <<Driver("callbacks")>>
                /\ rip' = Function(3)
    /\ UNCHANGED <<is_64bit, active, initterm_stack, dialogVars>>

(***************************************************************************)
(* cb_advance: a callback has returned.  The next one is called, or a      *)
(* modal dialog's loop goes on, or the thunk that called returns.          *)
(***************************************************************************)
CbAdvance ==
    LET f == Last(call_frames) IN
    /\ rip = Driver("callbacks")
    /\ \/ /\ f.remaining # <<>>
          /\ SetupCall(Head(f.remaining), Driver("callbacks"), f.final + 1)
          /\ call_frames' = Front(call_frames) \o <<[f EXCEPT !.remaining = Tail(f.remaining)]>>
          /\ UNCHANGED <<dialogVars, pending_process_exit>>
       \/ /\ f.remaining = <<>> /\ f.modal /\ ~dialog_result /\ gui_open
          /\ SetupCall(4, Driver("callbacks"), f.final + 1)
          /\ UNCHANGED <<call_frames, dialogVars, pending_process_exit>>
       \/ /\ f.remaining = <<>>
          /\ call_frames' = Front(call_frames)
          /\ dialog_result' = (dialog_result /\ ~f.modal)
          /\ gui_open' \in IF f.modal THEN {FALSE, gui_open} ELSE {gui_open}
          /\ IF call_frames' = <<>> /\ pending_process_exit
             THEN rip' = Exited /\ pending_process_exit' = FALSE /\ UNCHANGED stack
             ELSE GoBack(f.ret, f.final) /\ UNCHANGED pending_process_exit
          /\ UNCHANGED dlgproc
    /\ UNCHANGED <<is_64bit, active, initterm_stack>>

InittermAdvance ==
    LET f == Last(initterm_stack) IN
    /\ rip = Driver("initterm")
    /\ IF f.remaining > 0
       THEN /\ SetupCall(0, Driver("initterm"), f.saved)
            /\ initterm_stack' = Front(initterm_stack) \o <<[f EXCEPT !.remaining = @ - 1]>>
       ELSE /\ GoBack(f.ret, f.saved - 1)
            /\ initterm_stack' = Front(initterm_stack)
    /\ UNCHANGED <<is_64bit, active, call_frames, dialogVars, pending_process_exit>>

\* thread_start_entry, once a new thread's TLS callbacks have run; and the end
\* of the thread when its function returns.
ThreadStart ==
    /\ rip = Driver("thread_entry")
    /\ SetupCall(1, Driver("thread_exit"), Len(stack))
    /\ UNCHANGED <<is_64bit, active, call_frames, initterm_stack, dialogVars, pending_process_exit>>
ThreadEnd ==
    /\ rip = Driver("thread_exit")
    /\ rip' = Exited
    /\ UNCHANGED <<is_64bit, stack, active, call_frames, initterm_stack, dialogVars, pending_process_exit>>

(***************************************************************************)
(* The first thread starts at the entry point, a thread of the guest's at  *)
(* its function with one argument; both after the TLS callbacks, if there  *)
(* are any.  Four words above the stack are free.                          *)
(***************************************************************************)
CallInit ==
    /\ is_64bit \in BOOLEAN
    /\ active = <<>> /\ initterm_stack = <<>>
    /\ gui_open = FALSE /\ dlgproc = FALSE /\ dialog_result = FALSE /\ pending_process_exit = FALSE
    /\ \E first \in BOOLEAN, k \in 0 .. MaxList :
        LET home == StackWords(0, 4)
            top == home \o (IF first THEN <<Driver("exit"), Function(0)>>
                                     ELSE <<Driver("thread_entry")>>)
            aligned == RoundUp(Len(top), IF is_64bit THEN 2 ELSE 4)
        IN  IF k = 0
            THEN /\ call_frames = <<>>
                 /\ IF first
                    THEN stack = Append(home, Driver("exit")) /\ rip = Function(0)
                    ELSE /\ stack = (IF is_64bit THEN StackWords(1, 3) ELSE home \o StackWords(1, 0))
                                        \o <<Driver("thread_exit")>>
                         /\ rip = Function(1)
            ELSE /\ call_frames = <<[remaining |-> Repeat(3, k - 1), ret |-> Last(top),
                                     modal |-> FALSE, final |-> Len(top) - 1]>>
                 /\ stack = top \o StackWords(0, aligned - Len(top))
                                \o (IF is_64bit THEN StackWords(3, 1) ELSE StackWords(3, 0))
                                \o <<Driver("callbacks")>>
                 /\ rip = Function(3)

CallNext ==
    \/ EnterFunction \/ CallThunk \/ ReturnFunction
    \/ Answer \/ Notify \/ SendToWindow \/ OpenDialog \/ CloseDialog \/ Initterm \/ EhProlog
    \/ BeginProcessExit \/ CbAdvance \/ InittermAdvance \/ ThreadStart \/ ThreadEnd
    \/ (rip = Exited /\ UNCHANGED callVars)
CallSpec == CallInit /\ [][CallNext]_callVars

(***************************************************************************)
(* Whenever a function of the guest runs it is the one that called last,   *)
(* and its stack is where it left it.  A thunk reads nothing but arguments *)
(* of its caller.  A function that is called finds its arguments, in       *)
(* 64-bit code at the alignment it counts on.  And what every active       *)
(* function keeps on the stack, its return address among it, is there      *)
(* until it returns: however many functions thunks have called meanwhile.  *)
(***************************************************************************)
ArgumentsAt(words, n) == \A i \in 1 .. n : stack[words - i] = Argument

StackIsKept ==
    /\ rip[1] = "guest" => rip[2] = Current /\ Len(stack) = Own(Current)
    /\ rip[1] = "thunk" => rip[2].takes >= rip[2].reads /\ ArgumentsAt(Len(stack), rip[2].reads)
    /\ rip[1] = "function" => /\ ArgumentsAt(Len(stack), rip[2])
                              /\ Last(stack)[1] = "driver"
                              /\ is_64bit => Len(stack) % 2 = 1
    /\ rip # Exited =>
        \A d \in 1 .. Current :
            /\ stack[active[d].entry] = active[d].ret
            /\ \A i \in active[d].entry + 1 .. Own(d) : stack[i] = Local(d)
=============================================================================
