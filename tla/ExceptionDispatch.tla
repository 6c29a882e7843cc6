-------------------------- MODULE ExceptionDispatch --------------------------
(* os/src/exc.rs: RaiseException and RtlUnwindEx walk the guest's frames in  *)
(* two phases and call the language handlers they find there; a handler      *)
(* returns to exc_driver, and the walk goes on.  A context is the frame it   *)
(* belongs to, a number in the guest's stack; the guest's functions and      *)
(* handlers act as compiled C++ and SEH code does.                           *)
EXTENDS Integers, Sequences

CONSTANTS
    MaxFrames, MaxRaises,   \* bounds on the stack and on the exceptions
    HandlersRaise           \* what handlers call may raise and catch an exception

ASSUME DispatchAssumption ==
    MaxFrames \in Nat /\ MaxRaises \in Nat /\ HandlersRaise \in BOOLEAN

VARIABLES
    frames,      \* the guest's stack, functions and the handlers called by a dispatch
    exc_stack,   \* the dispatches under way
    executing,          \* what executes: a "body", a "handler", a "landed" target; or "exit", "lost"
    raises       \* the exceptions raised so far

excVars == <<frames, exc_stack, executing, raises>>

(* A function's unwind data names a handler for the search, for the unwind, *)
(* for both or none.  cleaned counts the runs of its cleanups; resume is    *)
(* the frame that the unwind which a landing pad interrupted has to reach.  *)
Function(search, unwind) ==
    [kind |-> "function", search |-> search, unwind |-> unwind, cleaned |-> 0, resume |-> 0]
(* A handler's arguments: the establisher frame, the record's context and   *)
(* the dispatcher context's target.                                         *)
Handler(d, i) ==
    [kind |-> "handler", phase |-> d.phase, frame |-> i, orig |-> d.orig, target |-> d.target]

Top == Len(frames)
Below(i) == SubSeq(frames, 1, i)
IsFunction(i) == i \in DOMAIN frames /\ frames[i].kind = "function"

DispatchFrame(phase, start, target) ==
    [phase |-> phase, work |-> start, orig |-> start, base |-> Top, target |-> target]
Innermost == exc_stack[Len(exc_stack)]
Others == SubSeq(exc_stack, 1, Len(exc_stack) - 1)

-----------------------------------------------------------------------------
(* pump_dispatch: from the working context outwards to the first frame that *)
(* ends the dispatch or has a handler for its phase.  The walk leaves the   *)
(* image, and finishes, where a handler's frame returns to the driver.      *)
HasHandler_OneType(phase, i) == frames[i].search
HasHandler(phase, i) == IF phase = "search" THEN frames[i].search ELSE frames[i].unwind

IsTarget(d, i) == d.phase = "unwind" /\ i = d.target
Stops(d, i) == ~IsFunction(i) \/ IsTarget(d, i) \/ HasHandler(d.phase, i)
FirstStop(d) == CHOOSE i \in 0..d.work : Stops(d, i) /\ \A j \in i + 1 .. d.work : ~Stops(d, j)

(* fs is the guest's stack as the caller leaves it.                         *)
transfer_to_target(fs, i) ==
    /\ frames' = SubSeq(fs, 1, i)
    /\ exc_stack' = <<>>
    /\ executing' = "landed"

finish_dispatch(fs) == frames' = fs /\ exc_stack' = <<>> /\ executing' = "exit"

(* The handler runs on the stack below the dispatch's caller.               *)
CallHandler(fs, others, d, i) ==
    /\ frames' = Append(SubSeq(fs, 1, d.base), Handler(d, i))
    /\ exc_stack' = Append(others, [d EXCEPT !.work = i - 1])
    /\ executing' = "handler"

pump_dispatch(fs, others, d) ==
    LET i == FirstStop(d)
    IN  \/ ~IsFunction(i) /\ finish_dispatch(fs)
        \/ IsFunction(i) /\ IsTarget(d, i) /\ transfer_to_target(fs, i)
        \/ IsFunction(i) /\ ~IsTarget(d, i) /\ CallHandler(fs, others, d, i)

raise_exception == pump_dispatch(frames, exc_stack, DispatchFrame("search", Top, 0))

rtl_unwind_ex(fs, start, target) ==
    pump_dispatch(fs, exc_stack, DispatchFrame("unwind", start, target))

(* The driver's thunk, when a handler has returned.                         *)
exc_advance(fs, disposition) ==
    IF exc_stack = <<>> THEN executing' = "lost" /\ UNCHANGED <<frames, exc_stack>>
    ELSE IF Innermost.phase = "search" /\ disposition = "ContinueExecution"
    THEN frames' = SubSeq(fs, 1, Innermost.orig) /\ exc_stack' = <<>> /\ executing' = "body"
    ELSE pump_dispatch(fs, Others, Innermost)

-----------------------------------------------------------------------------
(* The guest                                                               *)

InFunction == executing \in {"body", "landed"} /\ IsFunction(Top)
InHandler(phase) == executing = "handler" /\ frames[Top].phase = phase
Arguments == frames[Top]

GuestCall ==
    /\ InFunction \/ (executing = "handler" /\ HandlersRaise)
    /\ Top < MaxFrames
    /\ \E search, unwind \in BOOLEAN : frames' = Append(frames, Function(search, unwind))
    /\ executing' = "body"
    /\ UNCHANGED <<exc_stack, raises>>

GuestReturn ==
    /\ InFunction /\ Top > 1 /\ frames[Top].resume = 0
    /\ frames' = Below(Top - 1)
    /\ executing' = IF IsFunction(Top - 1) THEN "body" ELSE "handler"
    /\ UNCHANGED <<exc_stack, raises>>

GuestRaise ==
    /\ InFunction /\ raises < MaxRaises
    /\ raise_exception
    /\ raises' = raises + 1

(* A handler of the search declines, has the program go on where it raised, *)
(* or takes the exception and unwinds to its own frame with the context it  *)
(* was given; one whose frame is in a landing pad terminates the program.   *)
SearchHandler ==
    /\ InHandler("search")
    /\ \/ /\ frames[Arguments.frame].resume = 0
          /\ \/ \E disposition \in {"ContinueSearch", "ContinueExecution"} :
                   exc_advance(Below(Top - 1), disposition)
             \/ rtl_unwind_ex(frames, Arguments.orig, Arguments.frame)
       \/ frames[Arguments.frame].resume # 0 /\ finish_dispatch(frames)
    /\ UNCHANGED raises

(* A handler of the unwind runs its frame's cleanups itself and returns, or *)
(* unwinds to a landing pad that does; a cleaned frame has nothing to run.  *)
HandlerCleans ==
    /\ InHandler("unwind") /\ frames[Arguments.frame].cleaned = 0
    /\ frames' = [frames EXCEPT ![Arguments.frame].cleaned = 1]
    /\ UNCHANGED <<exc_stack, executing, raises>>
HandlerReturns ==
    /\ InHandler("unwind") /\ frames[Arguments.frame].cleaned > 0
    /\ exc_advance(Below(Top - 1), "ContinueSearch")
    /\ UNCHANGED raises
HandlerLands ==
    /\ InHandler("unwind")
    /\ LET i == Arguments.frame
       IN  /\ frames[i].cleaned = 0 /\ frames[i].search
           /\ rtl_unwind_ex([frames EXCEPT ![i].cleaned = 1, ![i].resume = Arguments.target],
                            Arguments.orig, i)
    /\ UNCHANGED raises

(* The end of a landing pad resumes the unwind from its own frame.          *)
UnwindResume ==
    /\ InFunction /\ frames[Top].resume # 0
    /\ rtl_unwind_ex([frames EXCEPT ![Top].resume = 0], Top, frames[Top].resume)
    /\ UNCHANGED raises

ExcInit ==
    /\ frames = <<Function(FALSE, FALSE)>>
    /\ exc_stack = <<>> /\ executing = "body" /\ raises = 0

ExcNext ==
    \/ GuestCall \/ GuestReturn \/ GuestRaise
    \/ SearchHandler
    \/ HandlerCleans \/ HandlerReturns \/ HandlerLands \/ UnwindResume

ExcSpec == ExcInit /\ [][ExcNext]_excVars

-----------------------------------------------------------------------------
(* Whichever handlers decline, take the exception or interrupt the unwind   *)
(* with a landing pad: when control lands, every frame that is gone and has *)
(* cleanups has run them once, and no frame that stays has, but the one     *)
(* whose landing pad it is.                                                 *)
CleanupsRun ==
    [][executing' = "landed" =>
          /\ \A i \in DOMAIN frames \ DOMAIN frames' :
                IsFunction(i) /\ frames[i].unwind =>
                   frames[i].cleaned = 1
          /\ \A i \in DOMAIN frames' :
                frames'[i].kind = "function" =>
                   frames'[i].cleaned = IF frames'[i].resume = 0 THEN 0 ELSE 1]_excVars

(* A handler that returns finds its dispatch under way, however many        *)
(* exceptions were raised and caught while it ran.                          *)
DispatchIsKept == executing # "lost"
=============================================================================
