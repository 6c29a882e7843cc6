------------------------------ MODULE Painting ------------------------------
(* What the guest draws (crates/os/src/win32k.rs): device contexts on windows *)
(* and on bitmaps, the surfaces of top-level windows, and what the host shows *)
(* of them.  The windows are those of Windows; they move and go while a       *)
(* context is held.                                                           *)
(*                                                                            *)
(* As there, one axis stands for both.  A pixel holds who painted it last: a  *)
(* number in ever, minus the window that was erased, or 0.  Colours, brushes, *)
(* fonts and the shapes of glyphs are left out: a piece of text and an        *)
(* outline are the pixels they cover.                                         *)
(* The table of handles is GdiHandles': here a context has a number for good. *)
EXTENDS Windows, Integers

CONSTANTS
    Panes,          \* the handles of the windows
    Strokes,        \* what may be drawn, cut or cleared: [x, cx]
    BitmapWidth,    \* the width of the bitmap in a memory context
    MaxDcs,         \* bound on the contexts ever made
    MaxPaints       \* bound on calls that draw or cut

ASSUME PaintingAssumption ==
    /\ Panes \subseteq Nat \ {0}
    /\ Strokes \subseteq [x : Int, cx : Nat]
    /\ {BitmapWidth, MaxDcs, MaxPaints} \subseteq Nat

VARIABLES
    canvas,     \* the pixels of every surface, empty before it is made; 0: the bitmap
    frame,      \* the pixels the host shows
    held_dcs,   \* the DCs the guest holds: [id, hwnd, org, lo, hi, bitmap, painting]
    ever,       \* per context ever made: [hwnd, on, may]
    paints      \* how many calls drew or cut

paintVars == <<canvas, frame, held_dcs, ever, paints>>

Blank == [p \in {} |-> 0]
Bitmap == 0
Higher(a, b) == IF a > b THEN a ELSE b
Lower(a, b) == IF a < b THEN a ELSE b

(* What the host can show of a window, by its own account of where a point is *)
(* that a click lands on: inside it and inside every window it lies in.       *)
Chain(ws, h) ==
    LET up[a \in 0 .. h] == IF Orphan(ws, a) THEN {a} ELSE {a} \union up[ws[a].parent]
    IN  up[h]
Seen(ws, h) ==
    {p \in 0 .. ws[surface_owner(ws, h)].w - 1 :
        \A a \in Chain(ws, h) : contains_point(ws, a, p)}

-----------------------------------------------------------------------------
(* window_visible_rect: the window's client area, cut by each ancestor's.     *)
window_visible_rect(ws, hwnd) ==
    LET own == client_origin(ws, hwnd)
        cut[h \in 0 .. hwnd] ==
            IF Orphan(ws, h) THEN [lo |-> own, hi |-> own + ws[hwnd].w]
            ELSE LET p == ws[h].parent
                     o == client_origin(ws, p)
                 IN  [lo |-> Higher(cut[p].lo, o), hi |-> Lower(cut[p].hi, o + ws[p].w)]
    IN  IF Has(ws, hwnd) THEN cut[hwnd] ELSE [lo |-> 0, hi |-> 0]

\* Only the nearest ancestor cuts.
window_visible_rect_ParentOnly(ws, hwnd) ==
    LET own == client_origin(ws, hwnd)
        r == [lo |-> own, hi |-> own + ws[hwnd].w]
        p == ws[hwnd].parent
        o == client_origin(ws, p)
    IN  IF ~Has(ws, hwnd) THEN [lo |-> 0, hi |-> 0]
        ELSE IF Orphan(ws, hwnd) THEN r
        ELSE [lo |-> Higher(r.lo, o), hi |-> Lower(r.hi, o + ws[p].w)]

(* ensure_surface: a top-level window gets its surface at the first drawing,  *)
(* as wide as it is then.                                                     *)
ensure_surface(h) ==
    LET owner == surface_owner(windows, h) IN
    IF canvas[owner] # Blank THEN canvas
    ELSE [canvas EXCEPT ![owner] = [p \in 0 .. windows[owner].w - 1 |-> 0]]

\* Present under the window's own handle, as for a top-level one.
present_surface_Own(h) ==
    IF h \notin Panes \/ canvas[h] = Blank THEN frame ELSE [frame EXCEPT ![h] = canvas[h]]

(* present_surface: the host gets the whole surface of the top-level window.  *)
present_surface(h) ==
    LET owner == surface_owner(windows, h) IN
    IF owner \notin Panes \/ canvas[owner] = Blank THEN frame
    ELSE [frame EXCEPT ![owner] = canvas[owner]]

(* GetDC (of the window, or of the first top-level one) and BeginPaint.       *)
resolve_dc_hwnd(arg) ==
    IF Has(windows, arg) THEN arg
    ELSE Oldest({h \in DOMAIN windows : surface_owner(windows, h) = h})

NewDc(hwnd, org, lo, hi, painting) ==
    /\ Len(ever) < MaxDcs
    /\ held_dcs' = held_dcs \union {[id |-> Len(ever) + 1, hwnd |-> hwnd, org |-> org, lo |-> lo,
                                     hi |-> hi, bitmap |-> FALSE, painting |-> painting]}
OpenOn(h, painting) ==
    LET r == window_visible_rect(windows, h) IN
    /\ canvas' = ensure_surface(h)
    /\ NewDc(h, client_origin(windows, h), r.lo, r.hi, painting)
    /\ ever' = Append(ever, [hwnd |-> h, on |-> surface_owner(windows, h), may |-> Seen(windows, h)])
    /\ UNCHANGED <<winVars, frame, paints>>

nt_user_get_dc(arg) == resolve_dc_hwnd(arg) # 0 /\ OpenOn(resolve_dc_hwnd(arg), FALSE)
nt_user_begin_paint(h) == Has(windows, h) /\ OpenOn(h, TRUE)
alloc_memory_dc ==
    /\ NewDc(0, 0, 0, 0, FALSE)
    /\ ever' = Append(ever, [hwnd |-> 0, on |-> Bitmap, may |-> 0 .. BitmapWidth - 1])
    /\ UNCHANGED <<winVars, canvas, frame, paints>>

LetGo(d) == {c \in held_dcs : c.id # d.id}
(* ReleaseDC presents the context's window; EndPaint the window it is given,  *)
(* if it still exists; DeleteDC of a memory context nothing.                  *)
nt_user_release_dc(d) ==
    /\ ~d.painting /\ d.hwnd # 0
    /\ frame' = present_surface(d.hwnd)
    /\ held_dcs' = LetGo(d)
    /\ UNCHANGED <<winVars, canvas, ever, paints>>
nt_user_end_paint(d) ==
    /\ d.painting
    /\ frame' = IF Has(windows, d.hwnd) THEN present_surface(d.hwnd) ELSE frame
    /\ held_dcs' = LetGo(d)
    /\ UNCHANGED <<winVars, canvas, ever, paints>>
DeleteDc(d) ==
    /\ d.hwnd = 0
    /\ held_dcs' = LetGo(d)
    /\ UNCHANGED <<winVars, canvas, frame, ever, paints>>

Changed(d, new) == LetGo(d) \union {new}
nt_gdi_select_bitmap(d) ==
    /\ held_dcs' = Changed(d, [d EXCEPT !.bitmap = TRUE])
    /\ UNCHANGED <<winVars, canvas, frame, ever, paints>>

\* The cut is taken in the surface's coordinates, not in the window's.
nt_gdi_intersect_clip_rect_NoOrigin(d, s) ==
    /\ held_dcs' = Changed(d, [d EXCEPT !.lo = Higher(@, s.x), !.hi = Lower(@, s.x + s.cx)])
    /\ ever' = IF d.hwnd = 0 THEN ever
               ELSE [ever EXCEPT ![d.id].may = @ \intersect (s.x + d.org .. s.x + s.cx + d.org - 1)]
    /\ paints < MaxPaints /\ paints' = paints + 1
    /\ UNCHANGED <<winVars, canvas, frame>>

nt_gdi_intersect_clip_rect(d, s) ==
    /\ held_dcs' = Changed(d, [d EXCEPT !.lo = Higher(@, s.x + d.org), !.hi = Lower(@, s.x + s.cx + d.org)])
    /\ ever' = IF d.hwnd = 0 THEN ever
               ELSE [ever EXCEPT ![d.id].may = @ \intersect (s.x + d.org .. s.x + s.cx + d.org - 1)]
    /\ paints < MaxPaints /\ paints' = paints + 1
    /\ UNCHANGED <<winVars, canvas, frame>>

-----------------------------------------------------------------------------
(* dc_surface: what a context draws on, and within which bounds.  A memory    *)
(* context draws on its bitmap; its own origin and clip do not count.         *)
dc_surface(d) ==
    IF d.hwnd = 0 THEN [on |-> Bitmap, org |-> 0, lo |-> 0, hi |-> BitmapWidth]
    ELSE [on |-> surface_owner(windows, d.hwnd), org |-> d.org, lo |-> d.lo, hi |-> d.hi]
CanDraw(d) ==
    IF d.hwnd = 0 THEN d.bitmap
    ELSE LET on == surface_owner(windows, d.hwnd)
         IN  Has(windows, on) /\ canvas[on] # Blank

(* fill_rect cuts a rectangle to the target; put_pixel and composite_coverage *)
(* look at every pixel.                                                       *)
Width(t) == Cardinality(DOMAIN canvas[t.on])
fill_rect(t, s) ==
    Higher(Higher(s.x + t.org, t.lo), 0) .. Lower(Lower(s.x + t.org + s.cx, t.hi), Width(t)) - 1
put_pixel(t, s) ==
    {p \in s.x + t.org .. s.x + t.org + s.cx - 1 : t.lo <= p /\ p < t.hi /\ 0 <= p /\ p < Width(t)}

Painted(on, pixels, id) ==
    /\ paints < MaxPaints /\ paints' = paints + 1
    /\ canvas' = [canvas EXCEPT ![on] = [p \in DOMAIN @ |-> IF p \in pixels THEN id ELSE @[p]]]
nt_gdi_pat_blt(d, s) ==
    /\ CanDraw(d)
    /\ Painted(dc_surface(d).on, fill_rect(dc_surface(d), s), d.id)
    /\ UNCHANGED <<winVars, frame, held_dcs, ever>>
\* Rectangle and ExtTextOut.
DrawPixels(d, s) ==
    /\ CanDraw(d)
    /\ Painted(dc_surface(d).on, put_pixel(dc_surface(d), s), d.id)
    /\ UNCHANGED <<winVars, frame, held_dcs, ever>>

(* DefWindowProc on WM_ERASEBKGND, for a class with a background.             *)
erase_background(h) ==
    LET r == window_visible_rect(windows, h)
        on == surface_owner(windows, h)
        t == [on |-> on, org |-> 0, lo |-> r.lo, hi |-> r.hi]
    IN  /\ Has(windows, h) /\ canvas[on] # Blank
        /\ Painted(on, fill_rect(t, [x |-> r.lo, cx |-> r.hi - r.lo]), -h)
        /\ UNCHANGED <<winVars, frame, held_dcs, ever>>

(* A window goes, and its surface with it; one that moves keeps its surface.  *)
Destroy(h) ==
    /\ destroy_window(h)
    /\ canvas' = [canvas EXCEPT ![h] = Blank]
    /\ frame' = [frame EXCEPT ![h] = Blank]
    /\ UNCHANGED <<held_dcs, ever, paints>>
Move(h, x) == nt_user_set_window_pos(h, x) /\ UNCHANGED paintVars

PaintInit ==
    /\ canvas = [h \in Panes \union {Bitmap} |->
                    IF h = Bitmap THEN [p \in 0 .. BitmapWidth - 1 |-> 0] ELSE Blank]
    /\ frame = [h \in Panes |-> Blank]
    /\ held_dcs = {} /\ ever = <<>> /\ paints = 0

PaintNext ==
    \/ \E h \in Panes :
        \/ nt_user_get_dc(h) \/ nt_user_begin_paint(h) \/ erase_background(h) \/ Destroy(h)
        \/ \E s \in Strokes : Move(h, s.x)
    \/ nt_user_get_dc(0) \/ alloc_memory_dc
    \/ \E d \in held_dcs :
        \/ nt_user_release_dc(d) \/ nt_user_end_paint(d) \/ DeleteDc(d) \/ nt_gdi_select_bitmap(d)
        \/ \E s \in Strokes : \/ nt_gdi_intersect_clip_rect(d, s)
                              \/ nt_gdi_pat_blt(d, s) \/ DrawPixels(d, s)

(* The windows a painting begins with: each is newer than what it lies in.    *)
Window == [parent : Nat, x : Int, w : Nat, shown : BOOLEAN, needs_paint : BOOLEAN,
           proc : BOOLEAN, dialog_info : BOOLEAN, dialog_cancelled : BOOLEAN]
Tree(ws) == /\ DOMAIN ws \subseteq Panes
            /\ \A h \in DOMAIN ws : ws[h] \in Window /\ ws[h].parent < h
PaintSpec == Tree(windows) /\ PaintInit /\ [][PaintNext]_<<winVars, paintVars>>

-----------------------------------------------------------------------------
(* Drawing reaches no pixel of a surface but those where, when the context    *)
(* was made, a click would have landed in its window, less what the guest cut *)
(* off since; erasing those of the window as it lies now.  A bitmap is drawn  *)
(* on through memory contexts alone.  (A context whose window has come to lie *)
(* on another surface, because an ancestor was destroyed, keeps the old       *)
(* place: where it draws then is not judged.)                                 *)
PaintStaysInside ==
    [][\A on \in DOMAIN canvas : \A p \in DOMAIN canvas[on] \intersect DOMAIN canvas'[on] :
          LET d == canvas'[on][p] IN
          d # canvas[on][p] =>
            IF d < 0 THEN on = surface_owner(windows, -d) /\ p \in Seen(windows, -d)
            ELSE /\ on = Bitmap <=> ever[d].hwnd = 0
                 /\ ever[d].on = on => p \in ever[d].may]_paintVars

(* Once the guest has let a context go, the host shows what it drew, unless   *)
(* it is painted over, or its window is gone or lies on another surface.      *)
LetGoOf(d) == d > 0 /\ \A c \in held_dcs : c.id # d
PaintIsShown ==
    \A on \in Panes : \A p \in DOMAIN canvas[on] :
        LET d == canvas[on][p] IN
        LetGoOf(d) /\ Has(windows, ever[d].hwnd) /\ surface_owner(windows, ever[d].hwnd) = on
            => frame[on] # Blank /\ frame[on][p] = d
=============================================================================
