----------------------------- MODULE GdiHandles -----------------------------
(* The GDI handle table the kernel side shares with gdi32 (crates/os/src/     *)
(* win32k.rs): its slots, the stack of free ones, and the lists that say what *)
(* a handle denotes.  A handle is a type and a slot and carries no generation:*)
(* freeing a slot and allocating it again for the same type gives the same    *)
(* handle.  The stock objects' slots are never allocated and left out.        *)
EXTENDS Naturals, Sequences, SequencesExt

CONSTANTS
    FirstSlot,     \* STOCK_SLOT_LAST + 1
    TableSlots,    \* GDI_TABLE_SLOTS
    Surfaces,      \* the windows that have a surface to draw on
    Colours,
    SysColours,    \* the indices of GetSysColorBrush, a subset of Colours
    MaxMade        \* bound on the objects ever made

ASSUME GdiAssumption ==
    /\ FirstSlot \in Nat \ {0} /\ TableSlots \in Nat /\ FirstSlot <= TableSlots
    /\ SysColours \subseteq Colours
    /\ MaxMade \in Nat

VARIABLES
    slot_type,       \* the type last written in a slot's entry ("none" before)
    slot_used,       \* the slots whose entry has GDI_ENTRY_IN_USE
    gdi_free_slots,  \* a stack
    gdi_next_slot,
    dcs,             \* [handle, hwnd, brush, bitmap, font] in the order made
    brushes,         \* [handle, colour]
    bitmaps,         \* handles
    fonts,           \* slots
    sys_brushes,     \* [index, handle]: the brushes GetSysColorBrush made
    made,            \* the handles the guest got from a creating call
    makings          \* how many objects were made

gdiVars == <<slot_type, slot_used, gdi_free_slots, gdi_next_slot, dcs, brushes,
             bitmaps, fonts, sys_brushes, made, makings>>

Types == {"DC", "BRUSH", "BITMAP", "FONT", "PEN", "REGION"}
Slots == FirstSlot .. TableSlots - 1
Handle == [ty : Types, slot : Slots]
NoHandle == [ty |-> "none", slot |-> 0]
SystemFont == [ty |-> "stock", slot |-> 0]

-----------------------------------------------------------------------------
(* alloc_gdi_object: the newest free slot, else the next one.  The slot it    *)
(* takes, and the table afterwards.                                           *)
Room == gdi_free_slots # <<>> \/ gdi_next_slot < TableSlots
Slot == IF gdi_free_slots # <<>> THEN Last(gdi_free_slots) ELSE gdi_next_slot
Allocated(ty) == [ty |-> ty, slot |-> Slot]

alloc_gdi_object(ty) ==
    /\ Room /\ makings < MaxMade
    /\ slot_type' = [slot_type EXCEPT ![Slot] = ty]
    /\ slot_used' = slot_used \union {Slot}
    /\ gdi_free_slots' = IF gdi_free_slots # <<>> THEN Front(gdi_free_slots) ELSE <<>>
    /\ gdi_next_slot' = IF gdi_free_slots # <<>> THEN gdi_next_slot ELSE gdi_next_slot + 1
    /\ makings' = makings + 1

Got(h) == made' = made \union {h}
Dc(h, hwnd) == [handle |-> h, hwnd |-> hwnd, brush |-> NoHandle, bitmap |-> NoHandle,
                font |-> SystemFont]

(* GetDC, BeginPaint (on a window's surface) and CreateCompatibleDC (hwnd 0). *)
alloc_dc(hwnd) ==
    /\ alloc_gdi_object("DC")
    /\ dcs' = Append(dcs, Dc(Allocated("DC"), hwnd))
    /\ Got(Allocated("DC"))
    /\ UNCHANGED <<brushes, bitmaps, fonts, sys_brushes>>
alloc_brush(c) ==
    /\ alloc_gdi_object("BRUSH")
    /\ brushes' = Append(brushes, [handle |-> Allocated("BRUSH"), colour |-> c])
    /\ Got(Allocated("BRUSH"))
    /\ UNCHANGED <<dcs, bitmaps, fonts, sys_brushes>>
alloc_bitmap ==
    /\ alloc_gdi_object("BITMAP")
    /\ bitmaps' = Append(bitmaps, Allocated("BITMAP"))
    /\ Got(Allocated("BITMAP"))
    /\ UNCHANGED <<dcs, brushes, fonts, sys_brushes>>
(* The pixels could not be mapped: the slot stays taken and nobody has it.    *)
alloc_bitmap_unmapped ==
    /\ alloc_gdi_object("BITMAP")
    /\ UNCHANGED <<dcs, brushes, bitmaps, fonts, sys_brushes, made>>
nt_gdi_hfont_create ==
    /\ alloc_gdi_object("FONT")
    /\ fonts' = Append(fonts, Slot)
    /\ Got(Allocated("FONT"))
    /\ UNCHANGED <<dcs, brushes, bitmaps, sys_brushes>>
(* CreatePen and CreateRectRgn keep nothing but the slot. *)
CreateBare(ty) ==
    /\ alloc_gdi_object(ty)
    /\ Got(Allocated(ty))
    /\ UNCHANGED <<dcs, brushes, bitmaps, fonts, sys_brushes>>

(* GetSysColorBrush makes a colour's brush once.  It belongs to the system:   *)
(* the guest uses it and does not delete it.                                  *)
sys_color_brush(i) ==
    /\ ~\E k \in DOMAIN sys_brushes : sys_brushes[k].index = i
    /\ alloc_gdi_object("BRUSH")
    /\ brushes' = Append(brushes, [handle |-> Allocated("BRUSH"), colour |-> i])
    /\ sys_brushes' = Append(sys_brushes, [index |-> i, handle |-> Allocated("BRUSH")])
    /\ UNCHANGED <<dcs, bitmaps, fonts, made>>

(* SelectObject on the first DC with that handle. *)
Named(h) == {k \in DOMAIN dcs : dcs[k].handle = h}
Selected(h, field, v) ==
    LET k == CHOOSE k \in Named(h) : \A j \in Named(h) : k <= j
    IN  [dcs EXCEPT ![k] = [dcs[k] EXCEPT ![field] = v]]
KnownFont(f) == f.ty = "FONT" /\ f.slot \in ToSet(fonts)
SelectObject(h, obj) ==
    /\ Named(h) # {}
    /\ \/ obj.ty = "BRUSH" /\ dcs' = Selected(h, "brush", obj)
       \/ obj \in ToSet(bitmaps) /\ dcs' = Selected(h, "bitmap", obj)
       \/ KnownFont(obj) /\ dcs' = Selected(h, "font", obj)
    /\ UNCHANGED <<slot_type, slot_used, gdi_free_slots, gdi_next_slot, brushes, bitmaps, fonts,
                   sys_brushes, made, makings>>

(* free_gdi_object, for DeleteObject, ReleaseDC and EndPaint: whatever the    *)
(* type of the handle, its slot is freed if the table says it is in use.      *)
FreedAgain(s) == gdi_free_slots' = Append(gdi_free_slots, s) /\ slot_used' = slot_used \ {s}
Freed_Unchecked(s) == FreedAgain(s)
Freed(s) == IF s \in slot_used THEN FreedAgain(s) ELSE UNCHANGED <<gdi_free_slots, slot_used>>

free_gdi_object(h) ==
    /\ Freed(h.slot)
    /\ brushes' = SelectSeq(brushes, LAMBDA b : b.handle # h)
    /\ dcs' = SelectSeq(dcs, LAMBDA d : d.handle # h)
    /\ bitmaps' = SelectSeq(bitmaps, LAMBDA b : b # h)
    /\ fonts' = SelectSeq(fonts, LAMBDA f : f # h.slot)

Delete(h) ==
    /\ free_gdi_object(h)
    /\ slot_type' = [slot_type EXCEPT ![h.slot] = "none"]
    /\ UNCHANGED <<gdi_next_slot, sys_brushes, made, makings>>

GdiInit ==
    /\ slot_type = [s \in Slots |-> "none"] /\ slot_used = {}
    /\ gdi_free_slots = <<>> /\ gdi_next_slot = FirstSlot
    /\ dcs = <<>> /\ brushes = <<>> /\ bitmaps = <<>> /\ fonts = <<>> /\ sys_brushes = <<>>
    /\ made = {} /\ makings = 0

GdiNext ==
    \/ \E w \in Surfaces \union {0} : alloc_dc(w)
    \/ \E c \in Colours : alloc_brush(c)
    \/ alloc_bitmap \/ alloc_bitmap_unmapped \/ nt_gdi_hfont_create
    \/ \E ty \in {"PEN", "REGION"} : CreateBare(ty)
    \/ \E i \in SysColours : sys_color_brush(i)
    \/ \E h, obj \in made : SelectObject(h, obj)
    \/ \E h \in made : Delete(h)

GdiSpec == GdiInit /\ [][GdiNext]_gdiVars

-----------------------------------------------------------------------------
(* Every slot handed out is in use or on the free stack, on it once and never *)
(* both, whatever handles are deleted and however often.                      *)
SlotsConserved ==
    /\ slot_used \intersect ToSet(gdi_free_slots) = {}
    /\ slot_used \union ToSet(gdi_free_slots) = FirstSlot .. gdi_next_slot - 1
    /\ \A i, j \in DOMAIN gdi_free_slots : gdi_free_slots[i] = gdi_free_slots[j] => i = j

=============================================================================
