----------------------------- MODULE MCDesktop -----------------------------
(* Windows, GDI handles, and painting in windows that move and go: a run      *)
(* chooses at its start which of them moves; the others stay as they were.    *)
EXTENDS Windows, GdiHandles, Painting
CONSTANTS t1, t2
VARIABLE focus

MCStyles == {[x |-> 0, w |-> 2, shown |-> TRUE, proc |-> TRUE, dialog |-> FALSE],
             [x |-> 1, w |-> 1, shown |-> TRUE, proc |-> TRUE, dialog |-> TRUE]}
MCEvents == {[mouse |-> TRUE, win |-> 0, x |-> 1], [mouse |-> FALSE, win |-> 1, x |-> 0]}

\* A window, its child, and a child of that which reaches out of it.
Pane(parent, x, w) ==
    [parent |-> parent, x |-> x, w |-> w, shown |-> TRUE, needs_paint |-> FALSE,
     proc |-> FALSE, dialog_info |-> FALSE, dialog_cancelled |-> FALSE]
MCPanes == <<Pane(0, 0, 3), Pane(1, 1, 2), Pane(2, -1, 2)>>
MCStrokes == {[x |-> -1, cx |-> 2], [x |-> 1, cx |-> 1]}
\* The windows of a painting: few moves, and nothing else of Windows happens.
PaneInit ==
    /\ windows = MCPanes /\ next_hwnd = 4 /\ calls = MaxCalls - 1
    /\ seats = [capture |-> 0, focus |-> 0, active |-> 0]
    /\ raw_input = <<>> /\ channel = <<>> /\ closing = FALSE /\ sent = 0
    /\ msgs = [t \in GuiThreads |-> <<>>] /\ quit_code = [t \in GuiThreads |-> FALSE]
    /\ win32k_cb = <<>> /\ owed = [t \in GuiThreads |-> <<>>]
    /\ gui_current = t1
    /\ asking = FALSE /\ given = {} /\ dropped = {}

DesktopInit ==
    /\ focus \in {"windows", "gdi", "painting"}
    /\ IF focus = "painting" THEN PaneInit ELSE WinInit
    /\ GdiInit /\ PaintInit
DesktopNext ==
    /\ UNCHANGED focus
    /\ \/ focus = "windows" /\ WinNext /\ UNCHANGED <<gdiVars, paintVars>>
       \/ focus = "gdi" /\ GdiNext /\ UNCHANGED <<winVars, paintVars>>
       \/ focus = "painting" /\ PaintNext /\ UNCHANGED gdiVars
DesktopSpec == DesktopInit /\ [][DesktopNext]_<<focus, winVars, gdiVars, paintVars>>
=============================================================================
