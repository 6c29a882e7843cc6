------------------------------ MODULE Windows ------------------------------
(* The window manager of the kernel side (crates/os/src/win32k.rs), the       *)
(* message queue of a thread (msg.rs) and the frames through which a syscall  *)
(* calls the guest's window procedures (api.rs).  One desktop, the guest's    *)
(* GUI threads, and the host that sends input.                                *)
(*                                                                            *)
(* Abstractions: rectangles and points keep one axis (the other is treated    *)
(* alike); a message keeps its window, its kind and the host event it carries;*)
(* what a window procedure does is any sequence of the guest's calls.         *)
EXTENDS Naturals, Sequences, SequencesExt

CONSTANTS
    GuiThreads,   \* the guest's threads that call the window manager
    HasInput,     \* a window host feeds input (lib.rs set_input)
    Styles,       \* the windows a guest may create: [x, w, shown, proc, dialog]
    HostEvents,   \* the events a host may send: [mouse, win, x]
    HitRounds,    \* HIT_TEST_ROUNDS_MAX
    MaxWindow,    \* bound on the windows ever created
    MaxEvent,     \* bound on the events ever sent
    MaxDepth,     \* bound on nested window procedures
    MaxQueue,     \* bound on messages the guest posts ahead
    MaxCalls,     \* bound on the calls that change windows, seats or the queue
    SwitchesInCallbacks   \* a slice may end while a window procedure runs

ASSUME WindowsAssumption ==
    /\ {HasInput, SwitchesInCallbacks} \subseteq BOOLEAN
    /\ {HitRounds, MaxWindow, MaxEvent, MaxDepth, MaxQueue, MaxCalls} \subseteq Nat
    /\ GuiThreads # {}

VARIABLES
    windows,      \* Win32kState.windows by handle; a newer window has a higher one
    next_hwnd,    \* the next window handle
    calls,        \* how many such calls the guest has made
    seats,        \* [capture, focus, active]: Win32kState's three window slots
    raw_input,    \* host events not yet routed, each [id, mouse, win, x]
    channel,      \* the mpsc channel from the host, which a retrieval empties:
    closing,      \* its events in order, and whether there is a Close among them
    sent,         \* how many events the host has sent
    msgs,         \* Thread.msgs
    quit_code,    \* Thread.quit_code is set
    win32k_cb,    \* the stack of callback frames, one for the process
    owed,         \* per thread, what its calls under way must return
    gui_current,  \* the running thread
    asking,       \* the running thread is inside GetMessage's loop
    given,        \* event ids a retrieval has handed to the guest
    dropped       \* event ids that no window was under

winVars == <<windows, next_hwnd, calls, seats, raw_input, channel, closing, sent, msgs,
             quit_code, win32k_cb, owed, gui_current, asking, given, dropped>>

NoTest == [hwnd |-> 0]
LResult == MaxWindow + 1   \* the window procedure's own answer

-----------------------------------------------------------------------------
(* The window tree. *)
Has(ws, h) == h \in DOMAIN ws
Orphan(ws, h) == ~Has(ws, h) \/ ~Has(ws, ws[h].parent)
Newest(S) == IF S = {} THEN 0 ELSE CHOOSE h \in S : \A k \in S : k <= h
Oldest(S) == IF S = {} THEN 0 ELSE CHOOSE h \in S : \A k \in S : h <= k
With(ws, h, window) == [k \in DOMAIN ws \union {h} |-> IF k = h THEN window ELSE ws[k]]

surface_owner(ws, hwnd) ==
    LET up[h \in 0..hwnd] == IF Orphan(ws, h) THEN h ELSE up[ws[h].parent]
    IN  up[hwnd]

chain_visible(ws, hwnd) ==
    LET up[h \in 0..hwnd] == /\ Has(ws, h)
                             /\ ws[h].shown
                             /\ Orphan(ws, h) \/ up[ws[h].parent]
    IN  up[hwnd]

client_origin(ws, hwnd) ==
    LET up[h \in 0..hwnd] == IF Orphan(ws, h) THEN 0
                             ELSE ws[h].x + up[ws[h].parent]
    IN  up[hwnd]

contains_point(ws, hwnd, p) ==
    /\ Has(ws, hwnd)
    /\ p >= client_origin(ws, hwnd)
    /\ p < client_origin(ws, hwnd) + ws[hwnd].w

shown_window(ws) == Oldest({h \in DOMAIN ws : ws[h].shown /\ Orphan(ws, h)})

(* From root down to the deepest shown window under p: on each level it is    *)
(* the newest, leaving out the windows of skip.  A window is newer than what  *)
(* it lies in, so the deepest is the newest of all those on the way.          *)
window_from_point_in(ws, root, p, skip) ==
    LET child(h) == Newest({k \in DOMAIN ws : /\ ws[k].parent = h
                                              /\ ws[k].shown
                                              /\ k \notin skip
                                              /\ contains_point(ws, k, p)})
        Way(S) == \A h \in S \ {root} : ws[h].parent \in S /\ child(ws[h].parent) = h
    IN  IF root \in skip \/ ~contains_point(ws, root, p) THEN 0
        ELSE Newest(UNION {S \in SUBSET DOMAIN ws : Way(S)})

input_root(ws, hwnd) ==
    IF hwnd = 0 THEN shown_window(ws)
    ELSE LET root == surface_owner(ws, hwnd)
         IN  IF Has(ws, root) /\ ws[root].shown THEN root ELSE 0

keyboard_target(ws, s, hwnd) ==
    LET root == input_root(ws, hwnd)
        mine(h) == /\ Has(ws, h)
                   /\ hwnd = 0 \/ surface_owner(ws, h) = root
    IN  IF hwnd # 0 /\ root = 0 THEN 0
        ELSE IF mine(s.focus) THEN s.focus
        ELSE IF mine(s.active) THEN s.active
        ELSE root

(* destroy_window: the window goes, and no seat keeps its name. *)
Without(ws, h) == [k \in DOMAIN ws \ {h} |-> ws[k]]
Vacated(s, h) == [seat \in DOMAIN s |-> IF s[seat] = h THEN 0 ELSE s[seat]]

-----------------------------------------------------------------------------
(* Callback frames. *)
Call(h, msg) == [hwnd |-> h, msg |-> msg]
CallsTo(targets) == SelectSeq(targets, LAMBDA c : Has(windows, c.hwnd) /\ windows[c.hwnd].proc)

(* As before the frames kept the handler's own result. *)
PushFrame_NoResult(queue, then, result, due) ==
    IF queue = <<>> THEN UNCHANGED <<win32k_cb, owed>>
    ELSE /\ Len(win32k_cb) < MaxDepth
         /\ win32k_cb' = Append(win32k_cb, [running |-> Head(queue), remaining |-> Tail(queue),
                                            then |-> then, result |-> LResult])
         /\ owed' = [owed EXCEPT ![gui_current] = Append(@, due)]

(* call_wndprocs_from_syscall: the first call is seated, the rest wait in the *)
(* frame with the syscall's own result.                                       *)
PushFrame(queue, then, result, due) ==
    IF queue = <<>> THEN UNCHANGED <<win32k_cb, owed>>
    ELSE /\ Len(win32k_cb) < MaxDepth
         /\ win32k_cb' = Append(win32k_cb, [running |-> Head(queue), remaining |-> Tail(queue),
                                            then |-> then, result |-> result])
         /\ owed' = [owed EXCEPT ![gui_current] = Append(@, due)]
NoCalls == <<>>

Idle == ~asking
Changes == /\ ~asking /\ calls < MaxCalls
           /\ calls' = calls + 1
inputVars == <<raw_input, channel, closing, sent, given, dropped>>
queueVars == <<msgs, quit_code>>

nt_user_create_window_ex(parent, style) ==
    /\ Changes /\ next_hwnd <= MaxWindow
    /\ windows' = With(windows, next_hwnd,
                       [parent |-> parent, x |-> style.x, w |-> style.w, shown |-> style.shown,
                        needs_paint |-> style.shown, proc |-> style.proc,
                        dialog_info |-> style.dialog, dialog_cancelled |-> FALSE])
    /\ next_hwnd' = next_hwnd + 1
    /\ PushFrame(IF style.proc THEN <<Call(next_hwnd, "WM_NCCREATE"), Call(next_hwnd, "WM_CREATE")>>
                               ELSE NoCalls,
                 NoTest, next_hwnd, next_hwnd)
    /\ UNCHANGED <<seats, inputVars, queueVars, gui_current, asking>>

nt_user_show_window(h, shown) ==
    /\ Changes
    /\ windows' = IF Has(windows, h)
                  THEN [windows EXCEPT ![h].shown = shown, ![h].needs_paint = @ \/ shown]
                  ELSE windows
    /\ seats' = IF shown /\ surface_owner(windows, h) = h THEN [seats EXCEPT !.active = h] ELSE seats
    /\ UNCHANGED <<next_hwnd, inputVars, queueVars, win32k_cb, owed, gui_current, asking>>

(* NtUserDestroyWindow, and DefWindowProc's answer to WM_CLOSE. *)
destroy_window(h) ==
    /\ Changes /\ Has(windows, h)
    /\ windows' = Without(windows, h)
    /\ seats' = Vacated(seats, h)
    /\ UNCHANGED <<next_hwnd, inputVars, queueVars, win32k_cb, owed, gui_current, asking>>

nt_user_set_window_pos(h, x) ==
    /\ Changes /\ Has(windows, h)
    /\ windows' = [windows EXCEPT ![h].x = x]
    /\ UNCHANGED <<next_hwnd, seats, inputVars, queueVars, win32k_cb, owed, gui_current, asking>>

set_capture(h) ==
    /\ Changes /\ seats.capture # h
    /\ seats' = [seats EXCEPT !.capture = IF Has(windows, h) THEN h ELSE 0]
    /\ PushFrame(CallsTo(<<Call(seats.capture, "WM_CAPTURECHANGED")>>), NoTest,
                 seats.capture, seats.capture)
    /\ UNCHANGED <<windows, next_hwnd, inputVars, queueVars, gui_current, asking>>

nt_user_set_focus(h) ==
    /\ Changes /\ seats.focus # h /\ Has(windows, h)
    /\ seats' = [seats EXCEPT !.focus = h]
    /\ PushFrame(CallsTo(<<Call(seats.focus, "WM_KILLFOCUS"), Call(h, "WM_SETFOCUS")>>), NoTest,
                 seats.focus, seats.focus)
    /\ UNCHANGED <<windows, next_hwnd, inputVars, queueVars, gui_current, asking>>

nt_user_set_active_window(h) ==
    /\ Changes /\ Has(windows, h)
    /\ seats' = [seats EXCEPT !.active = h]
    /\ UNCHANGED <<windows, next_hwnd, inputVars, queueVars, win32k_cb, owed, gui_current, asking>>

(* SendMessage and DispatchMessage: the procedure's answer is the result. *)
dispatch_to_wndproc(h) ==
    /\ Changes /\ CallsTo(<<Call(h, "message")>>) # NoCalls
    /\ PushFrame(<<Call(h, "message")>>, NoTest, LResult, LResult)
    /\ UNCHANGED <<windows, next_hwnd, seats, inputVars, queueVars, gui_current, asking>>

Message(h, kind, id) == [h |-> h, kind |-> kind, id |-> id]
nt_user_post_message(h) ==
    /\ Changes
    /\ h = 0 \/ Has(windows, h)
    /\ Len(msgs[gui_current]) < MaxQueue
    /\ msgs' = [msgs EXCEPT ![gui_current] = Append(@, Message(h, "posted", 0))]
    /\ UNCHANGED <<windows, next_hwnd, seats, inputVars, quit_code, win32k_cb, owed, gui_current, asking>>

nt_user_post_quit_message ==
    /\ Changes
    /\ quit_code' = [quit_code EXCEPT ![gui_current] = TRUE]
    /\ UNCHANGED <<windows, next_hwnd, seats, inputVars, msgs, win32k_cb, owed, gui_current, asking>>

-----------------------------------------------------------------------------
(* What every retrieval does first: quit_when_headless, drain_input,          *)
(* synthesize_paint and cancel_unattended_dialog, in that order.              *)
Drained ==
    [windows |-> windows, seats |-> seats, quit |-> quit_code[gui_current] \/ ~HasInput \/ closing,
     raw |-> raw_input \o channel, msgs |-> msgs[gui_current]]

synthesize_paint(d) ==
    LET h == Oldest({k \in DOMAIN d.windows : d.windows[k].needs_paint /\ chain_visible(d.windows, k)})
    IN  IF d.msgs # <<>> \/ h = 0 THEN d
        ELSE [d EXCEPT !.windows[h].needs_paint = FALSE,
                       !.msgs = <<Message(h, "WM_PAINT", 0)>>]

cancel_unattended_dialog_Never(d) == d
cancel_unattended_dialog(d) ==
    LET dialog(asked) == Newest({h \in DOMAIN d.windows : /\ d.windows[h].dialog_info
                                                          /\ d.windows[h].dialog_cancelled = asked})
    IN  IF ~d.quit \/ d.msgs # <<>> \/ d.raw # <<>> THEN d
        ELSE IF dialog(FALSE) # 0
        THEN [d EXCEPT !.windows[dialog(FALSE)].dialog_cancelled = TRUE,
                       !.msgs = <<Message(dialog(FALSE), "WM_CLOSE", 0)>>]
        ELSE IF dialog(TRUE) # 0
        THEN [d EXCEPT !.windows = Without(@, dialog(TRUE)), !.seats = Vacated(@, dialog(TRUE))]
        ELSE d

Prepared == cancel_unattended_dialog(synthesize_paint(Drained))

Settle(d) ==
    /\ windows' = d.windows /\ seats' = d.seats
    /\ raw_input' = d.raw /\ channel' = <<>> /\ closing' = FALSE
    /\ msgs' = [msgs EXCEPT ![gui_current] = d.msgs]
    /\ quit_code' = [quit_code EXCEPT ![gui_current] = d.quit]
    /\ UNCHANGED <<calls, next_hwnd, sent, gui_current>>

GivenBy(m) == given' = IF m.id = 0 THEN given ELSE given \union {m.id}

Routed_IntoBuffer(d) ==
    LET ev == Head(d.raw)
        root == input_root(d.windows, ev.win)
        target == window_from_point_in(d.windows, root, ev.x, {})
    IN  IF ~ev.mouse THEN [to |-> keyboard_target(d.windows, d.seats, ev.win), how |-> "post"]
        ELSE [to |-> target, how |-> IF target = 0 THEN "drop" ELSE "write"]

(* route_raw_input, the part that calls no procedure: where the oldest event  *)
(* goes.  "post" queues it, "ask" starts a hit test, "write" puts it straight *)
(* into the caller's buffer (a window without a procedure), "drop" nobody.    *)
Routed(d) ==
    LET ev == Head(d.raw)
        root == input_root(d.windows, ev.win)
        target == window_from_point_in(d.windows, root, ev.x, {})
    IN  IF ~ev.mouse
        THEN LET h == keyboard_target(d.windows, d.seats, ev.win)
             IN  [to |-> h, how |-> IF h = 0 THEN "drop" ELSE "post"]
        ELSE IF Has(d.windows, d.seats.capture) THEN [to |-> d.seats.capture, how |-> "post"]
        ELSE IF root = 0 \/ target = 0 THEN [to |-> 0, how |-> "drop"]
        ELSE [to |-> target, how |-> IF d.windows[target].proc THEN "ask" ELSE "write"]

AfterRoute(d, r) ==
    LET ev == Head(d.raw) IN
    [d EXCEPT !.raw = Tail(@),
              !.msgs = IF r.how = "post" THEN Append(@, Message(r.to, "input", ev.id)) ELSE @]
DroppedBy(d, r) == dropped' = IF r.how = "drop" THEN dropped \union {Head(d.raw).id} ELSE dropped

BeginHitTest(ev, h) ==
    PushFrame(<<Call(h, "WM_NCHITTEST")>>, [hwnd |-> h, ev |-> ev, skipped |-> <<>>], 1, 1)

(* NtUserGetMessage: the call, and one turn of its loop. *)
nt_user_get_message ==
    /\ Idle
    /\ asking' = TRUE
    /\ UNCHANGED <<calls, windows, next_hwnd, seats, inputVars, queueVars, win32k_cb, owed, gui_current>>

GiveQueued(d) ==
    /\ d.msgs # <<>>
    /\ Settle([d EXCEPT !.msgs = Tail(@)])
    /\ GivenBy(Head(d.msgs))
    /\ asking' = FALSE
    /\ UNCHANGED <<dropped, win32k_cb, owed>>

RouteNext(d) ==
    LET r == Routed(d) IN
    /\ d.msgs = <<>> /\ d.raw # <<>>
    /\ Settle(AfterRoute(d, r))
    /\ DroppedBy(d, r)
    /\ IF r.how = "ask" THEN BeginHitTest(Head(d.raw), r.to) /\ asking' = FALSE
                        ELSE UNCHANGED <<win32k_cb, owed, asking>>
    /\ UNCHANGED given

GiveQuit(d) ==
    /\ d.msgs = <<>> /\ d.raw = <<>> /\ d.quit
    /\ Settle([d EXCEPT !.quit = FALSE])
    /\ asking' = FALSE
    /\ UNCHANGED <<given, dropped, win32k_cb, owed>>

GetMessageTurn == /\ asking
                  /\ \/ GiveQueued(Prepared)
                     \/ RouteNext(Prepared)
                     \/ GiveQuit(Prepared)

(* NtUserPeekMessage: one pass; with PM_REMOVE it also routes one event. *)
PeekOnly ==
    /\ Idle
    /\ Settle(Prepared)
    /\ UNCHANGED <<given, dropped, win32k_cb, owed, asking>>
PeekRemove ==
    LET d == Prepared
        e == AfterRoute(d, Routed(d))
    IN  /\ Idle
        /\ asking' = asking
        /\ \/ GiveQueued(d)
           \/ /\ d.msgs = <<>> /\ d.raw # <<>>
              /\ DroppedBy(d, Routed(d))
              /\ IF Routed(d).how = "ask"
                 THEN /\ Settle(e) /\ BeginHitTest(Head(d.raw), Routed(d).to) /\ UNCHANGED given
                 ELSE /\ IF e.msgs = <<>> THEN Settle([e EXCEPT !.quit = FALSE]) /\ UNCHANGED given
                         ELSE Settle([e EXCEPT !.msgs = Tail(@)]) /\ GivenBy(Head(e.msgs))
                      /\ UNCHANGED <<win32k_cb, owed>>
           \/ GiveQuit(d)

-----------------------------------------------------------------------------
(* finish_hit_test: what the frame becomes, and where the event went.         *)
Frame == Last(win32k_cb)
NextUnder(p) ==
    LET root == input_root(windows, p.ev.win)
    IN  window_from_point_in(windows, root, p.ev.x, ToSet(p.skipped))

finish_hit_test(code) ==
    LET p == [Frame.then EXCEPT !.skipped = Append(@, Frame.then.hwnd)]
        next == NextUnder(p)
        again == /\ code = "HTTRANSPARENT"
                 /\ next # 0 /\ next # Frame.then.hwnd
        asks == /\ again
                /\ windows[next].proc
                /\ Len(p.skipped) < HitRounds
        lands == code # "HTTRANSPARENT" \/ (again /\ ~asks)
    IN  [asks |-> asks,
         frame |-> [Frame EXCEPT !.running = Call(next, "WM_NCHITTEST"),
                                 !.then = [p EXCEPT !.hwnd = next]],
         given |-> IF lands THEN {p.ev.id} ELSE {},
         dropped |-> IF lands \/ asks THEN {} ELSE {p.ev.id}]

Codes == {"HTCLIENT", "HTTRANSPARENT"}
Drain == Frame.remaining = <<>> /\ Frame.then # NoTest
Reseated(frame) == [win32k_cb EXCEPT ![Len(win32k_cb)] = frame]
PopFrame == /\ win32k_cb' = Front(win32k_cb)
            /\ owed' = [owed EXCEPT ![gui_current] = Front(@)]

(* win32k_cb_advance: a window procedure returned to the driver thunk. *)
CallbackReturn ==
    /\ Idle /\ owed[gui_current] # <<>> /\ win32k_cb # <<>>
    /\ \/ /\ Frame.remaining # <<>>
          /\ win32k_cb' = Reseated([Frame EXCEPT !.running = Head(Frame.remaining),
                                                 !.remaining = Tail(@)])
          /\ UNCHANGED <<owed, given, dropped>>
       \/ \E code \in Codes :
          LET f == finish_hit_test(code) IN
          /\ Drain
          /\ IF f.asks THEN /\ win32k_cb' = Reseated(f.frame)
                            /\ UNCHANGED owed
                       ELSE PopFrame
          /\ given' = given \union f.given
          /\ dropped' = dropped \union f.dropped
       \/ /\ Frame.remaining = <<>> /\ Frame.then = NoTest
          /\ PopFrame
          /\ UNCHANGED <<given, dropped>>
    /\ UNCHANGED <<calls, windows, next_hwnd, seats, raw_input, channel, closing, sent, queueVars, gui_current, asking>>

-----------------------------------------------------------------------------
(* The host, and the scheduler's preemption of the running guest thread. *)
HostSends(e) ==
    /\ HasInput /\ sent < MaxEvent
    /\ sent' = sent + 1
    /\ channel' = Append(channel, [id |-> sent + 1, mouse |-> e.mouse, win |-> e.win, x |-> e.x])
    /\ UNCHANGED <<calls, windows, next_hwnd, seats, raw_input, closing, queueVars, win32k_cb, owed,
                   gui_current, asking, given, dropped>>
HostCloses ==
    /\ HasInput /\ sent < MaxEvent /\ ~closing
    /\ closing' = TRUE
    /\ UNCHANGED <<calls, windows, next_hwnd, seats, raw_input, channel, sent, queueVars, win32k_cb, owed,
                   gui_current, asking, given, dropped>>
GuiSwitch ==
    /\ Idle
    /\ SwitchesInCallbacks \/ win32k_cb = <<>>
    /\ \E t \in GuiThreads \ {gui_current} : gui_current' = t
    /\ UNCHANGED <<calls, windows, next_hwnd, seats, inputVars, queueVars, win32k_cb, owed, asking>>

WinInit ==
    /\ windows = <<>> /\ next_hwnd = 1 /\ calls = 0   \* no window has a handle
    /\ seats = [capture |-> 0, focus |-> 0, active |-> 0]
    /\ raw_input = <<>> /\ channel = <<>> /\ closing = FALSE /\ sent = 0
    /\ msgs = [t \in GuiThreads |-> <<>>]
    /\ quit_code = [t \in GuiThreads |-> FALSE]
    /\ win32k_cb = <<>> /\ owed = [t \in GuiThreads |-> <<>>]
    /\ gui_current = CHOOSE t \in GuiThreads : TRUE
    /\ asking = FALSE /\ given = {} /\ dropped = {}

Hwnds == 1..MaxWindow
WinNext ==
    \/ \E p \in {0} \union DOMAIN windows, s \in Styles :
           nt_user_create_window_ex(p, s)
    \/ \E h \in Hwnds :
          \/ \E shown \in BOOLEAN : nt_user_show_window(h, shown)
          \/ destroy_window(h)
          \/ \E s \in Styles : nt_user_set_window_pos(h, s.x)
          \/ set_capture(h)
          \/ nt_user_set_focus(h)
          \/ nt_user_set_active_window(h)
          \/ dispatch_to_wndproc(h)
          \/ nt_user_post_message(h)
    \/ set_capture(0)
    \/ nt_user_post_quit_message
    \/ nt_user_get_message \/ GetMessageTurn
    \/ PeekOnly \/ PeekRemove
    \/ CallbackReturn
    \/ \E e \in HostEvents : HostSends(e)
    \/ HostCloses
    \/ GuiSwitch

WinSpec == WinInit /\ [][WinNext]_winVars

-----------------------------------------------------------------------------
(* Properties. *)

(* A host event is never lost: it is on its way, in a queue, the subject of a *)
(* hit test under way, in the guest's hands, or no window was there for it.   *)
OnTheWay(id) ==
    \/ \E i \in DOMAIN channel : channel[i].id = id
    \/ \E i \in DOMAIN raw_input : raw_input[i].id = id
    \/ \E t \in GuiThreads : \E i \in DOMAIN msgs[t] : msgs[t][i].id = id
    \/ \E i \in DOMAIN win32k_cb : win32k_cb[i].then # NoTest /\ win32k_cb[i].then.ev.id = id
ClicksLand == \A id \in 1..sent : OnTheWay(id) \/ id \in given \union dropped

(* What a thread's interrupted call returns is what that call owes: the       *)
(* handle for CreateWindowEx, the previous holder for SetFocus and SetCapture,*)
(* one for a retrieval that asked a hit test, whatever ran in between.        *)
HandleReachesItsCaller ==
    [][\A t \in GuiThreads :
          Len(owed'[t]) < Len(owed[t]) => Last(owed[t]) = Frame.result]_winVars

(* GetMessage gives WM_QUIT only when every dialog still open has been asked  *)
(* to close first.                                                            *)
DialogsCloseFirst ==
    [][asking /\ GiveQuit(Prepared) =>
          \A h \in DOMAIN windows' : windows'[h].dialog_info => windows'[h].dialog_cancelled]_winVars
=============================================================================
