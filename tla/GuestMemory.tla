---------------------------- MODULE GuestMemory ----------------------------
(***************************************************************************)
(* The guest's address space, crates/memory/src/lib.rs: mapped regions     *)
(* with a protection and bytes of their own, and the three counters the    *)
(* block compiler's cache is validated against.  An address holds one      *)
(* whole instruction (Insns), a page holds PageSize of them, and a region  *)
(* is a run of whole pages with a place of its own in the address space.   *)
(*                                                                         *)
(* A state of the memory is a record:                                      *)
(*   bytes     what each address holds (meaningful where it is mapped)     *)
(*   perm      the protection of each region, Unmapped if it has none      *)
(*   backing   which allocation of host bytes the region has now           *)
(*   pageGen   page_gen: writes into executable memory, page by page       *)
(*   codeGen   code_gen: all such writes                                   *)
(*   layoutGen layout_gen: map, protect and unmap                          *)
(***************************************************************************)
EXTENDS Integers

CONSTANTS NumPages,   \* pages 0 .. NumPages - 1
          PageSize,   \* instructions in a page (CODE_PAGE_SIZE)
          RegionOf,   \* the region a page belongs to
          Insns,      \* what an address may hold, records with a field op
          Zero        \* what freshly mapped memory holds

ASSUME MemoryAssumption ==
    /\ NumPages \in Nat \ {0}
    /\ PageSize \in Nat \ {0}
    /\ Zero \in Insns

Pages     == 0 .. NumPages - 1
Addr      == 0 .. NumPages * PageSize - 1
PageOf(a) == a \div PageSize
Regions   == {RegionOf[p] : p \in Pages}
RegionAt(a) == RegionOf[PageOf(a)]

Unmapped == {"unmapped"}
RW  == {"R", "W"}
RX  == {"R", "X"}
RWX == {"R", "W", "X"}

\* What a state of the memory may be.
Memories ==
    [bytes : [Addr -> Insns], perm : [Regions -> SUBSET (RWX \union Unmapped)],
     backing : [Regions -> Nat], pageGen : [Pages -> Nat], codeGen : Nat, layoutGen : Nat]

\* Memory::code_page_generation.
PageGen(m, p) == IF p \in Pages THEN m.pageGen[p] ELSE 0

\* VirtualMemory::locate: an access lies within one region and has its right.
Allowed(m, a, n, right) ==
    /\ a \in Addr
    /\ a + n - 1 \in Addr
    /\ RegionAt(a) = RegionAt(a + n - 1)
    /\ right \in m.perm[RegionAt(a)]

\* VirtualMemory::note_code_write.
NoteCodeWrite(m, a, n) ==
    [m EXCEPT !.codeGen = @ + 1,
              !.pageGen = [p \in Pages |-> IF p \in PageOf(a) .. PageOf(a + n - 1)
                                           THEN @[p] + 1 ELSE @[p]]]

Stored(m, a, n, v) ==
    [m EXCEPT !.bytes = [b \in Addr |-> IF b \in a .. a + n - 1 THEN v ELSE @[b]]]

\* Memory::write and write_uint, the access being allowed: a write into an
\* executable region moves the code generations.
Written(m, a, n, v) ==
    IF "X" \in m.perm[RegionAt(a)] THEN NoteCodeWrite(Stored(m, a, n, v), a, n)
                                   ELSE Stored(m, a, n, v)

Protected_NoLayout(m, r, q) == [m EXCEPT !.perm[r] = q]

\* Memory::protect on a mapped region.
Protected(m, r, q) == [m EXCEPT !.perm[r] = q, !.layoutGen = @ + 1]

\* Memory::unmap of a whole region.
Freed(m, r) == [m EXCEPT !.perm[r] = Unmapped, !.layoutGen = @ + 1]

\* Memory::map_fixed where nothing is mapped: new, zeroed bytes.
Mapped(m, r, q) ==
    [m EXCEPT !.perm[r] = q, !.backing[r] = @ + 1, !.layoutGen = @ + 1,
              !.bytes = [a \in Addr |-> IF RegionAt(a) = r THEN Zero ELSE @[a]]]

\* Memory::host_span_mut over a page: the host bytes compiled stores may use
\* directly.  Executable pages are refused, so that every store to one is seen.
HostSpan(m, p) == "W" \in m.perm[RegionOf[p]] /\ "X" \notin m.perm[RegionOf[p]]
=============================================================================
