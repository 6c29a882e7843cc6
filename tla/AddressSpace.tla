---------------------------- MODULE AddressSpace ----------------------------
(* The two books of guest memory: the regions that crates/memory maps, and  *)
(* the table `vm_allocs` from which os/src/vm.rs answers VirtualAlloc,      *)
(* VirtualFree, VirtualProtect and VirtualQuery.  Sections (section.rs) and *)
(* thread stacks (thread.rs) map memory through the same allocator, views   *)
(* enter the table and stacks do not.  Addresses and sizes count pages.     *)
EXTENDS Integers, FiniteSets

CONSTANTS
    Gran,         \* GRAN, the alignment of an allocation
    LowCeiling,   \* the last page a 32-bit guest can name
    ArenaBase,    \* where the arena above 4 GiB starts
    ImageRegions, \* the regions the loader mapped before the guest started
    Sizes,        \* sizes the guest asks for
    Asked,        \* pages at which the guest asks for memory of its own choice
    Prots,        \* protections the guest asks for, as sets of rights
    MaxPage,      \* bound on the pages that are named
    MaxBlocks,    \* bound on the regions mapped at a time
    MaxEnded,     \* bound on the threads that ended
    TwiceEnded,   \* the guest may terminate a thread that has ended
    FreesViews    \* bound: the guest may pass a view to VirtualFree

Rights == {"r", "w", "x"}

TableNames == {"valloc", "view"}
StackNames == {"thread-stack", "thread-teb", "stack32", "stack64", "teb-block"}
RegionNames == TableNames \cup StackNames \cup {"image"}

Region == [base : Nat, size : Nat \ {0}, perm : SUBSET Rights, name : RegionNames]

End(b) == b.base + b.size
Disjoint(b, c) == End(b) <= c.base \/ End(c) <= b.base

ASSUME AddressSpaceAssumption ==
    /\ Gran \in Nat \ {0}
    /\ LowCeiling \in Nat
    /\ ArenaBase \in Nat
    /\ Sizes \subseteq Nat \ {0}
    /\ Asked \subseteq Nat
    /\ ImageRegions \subseteq Region
    /\ \A r \in ImageRegions : r.name = "image"
    /\ \A r, s \in ImageRegions : r # s => Disjoint(r, s)
    /\ Prots \subseteq SUBSET Rights
    /\ MaxPage \in Nat
    /\ MaxBlocks \in Nat
    /\ MaxEnded \in Nat
    /\ TwiceEnded \in BOOLEAN
    /\ FreesViews \in BOOLEAN

VmAlloc == [base : Nat, size : Nat \ {0}, prot : SUBSET Rights,
            committed : BOOLEAN, name : TableNames]
Block == [base : Nat, size : Nat \ {0}, name : StackNames]
GuestThread == [alive : BOOLEAN, blocks : SUBSET Block]

VARIABLES
    regions,      \* VirtualMemory.regions
    vm_allocs,    \* WinOs.vm_allocs
    valloc_next,  \* WinOs.valloc_next
    stacks,       \* the memory fields of WinOs.threads, without the main thread
    image_views,  \* bases in DllState.image_views
    wow64         \* whether the guest is a 32-bit one (wow64_peb32 /= 0)

vmVars == <<regions, vm_allocs, valloc_next, stacks, image_views, wow64>>

(* The multiples of GRAN, and the one a page rounds down to.                *)
Aligned == {p \in 0 .. MaxPage : p % Gran = 0}
AlignedDown(page) == {p \in Aligned : p <= page /\ page < p + Gran}
Lowest(S) == {s \in S : \A t \in S : s <= t}

-----------------------------------------------------------------------------
(* Placing and mapping                                                     *)

(* VirtualMemory::insert refuses what overlaps a region.                    *)
Free(rs, base, size) ==
    \A r \in rs : Disjoint(r, [base |-> base, size |-> size])

(* vm_find_free and vm_find_free_below skip to the first aligned page       *)
(* behind the region that is in the way: both find the lowest aligned place *)
(* from `start` on.  The sets are empty when there is none.                 *)
Places(rs, start, size) == Lowest({p \in Aligned : p >= start /\ Free(rs, p, size)})

HighPlaces(rs, next, size) == Places(rs, next, size)
LowPlaces(rs, size) == {p \in Places(rs, Gran, size) : p + size - 1 <= LowCeiling}

(* Where the arena goes on after something of that size was placed.         *)
ArenaAfter(next, base, size) == Lowest({p \in Aligned : p >= base + size})

Mapped(base, size, perm, name) ==
    [base |-> base, size |-> size, perm |-> perm, name |-> name]

Within_OneMore(r, b) == r.base >= b.base /\ r.base <= End(b)
(* VirtualMemory::unmap of a range takes every region that lies within it,  *)
(* of a base the region that starts there.                                  *)
Within(r, b) == r.base >= b.base /\ End(r) <= End(b)
Unmap(rs, blocks) == {r \in rs : \A b \in blocks : ~Within(r, b)}
UnmapAt(rs, base) == {r \in rs : r.base # base}

Room(n) == Cardinality(regions) + n <= MaxBlocks

-----------------------------------------------------------------------------
(* vm.rs                                                                   *)

Entry(base, size, prot, committed, name) ==
    [base |-> base, size |-> size, prot |-> prot, committed |-> committed,
     name |-> name]

Covers(a, page) == a.base <= page /\ page < End(a)
Covering(page) == {a \in vm_allocs : Covers(a, page)}

Insert(base, size, prot, committed, name) ==
    /\ Free(regions, base, size)
    /\ regions' = regions \cup {Mapped(base, size, Rights, name)}
    /\ vm_allocs' = vm_allocs \cup {Entry(base, size, prot, committed, name)}

(* VirtualAlloc with no address and no ceiling.                             *)
AllocHigh(size, prot, committed) ==
    /\ Room(1)
    /\ \E base \in HighPlaces(regions, valloc_next, size) :
          /\ Insert(base, size, prot, committed, "valloc")
          /\ valloc_next' \in ArenaAfter(valloc_next, base, size)
    /\ UNCHANGED <<stacks, image_views, wow64>>

(* A host that refuses the memory, to VirtualAlloc, to a view or to a       *)
(* thread's first stack, has moved the arena on all the same.               *)
HighRefused(size) ==
    /\ \E base \in HighPlaces(regions, valloc_next, size) :
          valloc_next' \in ArenaAfter(valloc_next, base, size)
    /\ UNCHANGED <<regions, vm_allocs, stacks, image_views, wow64>>

(* NtAllocateVirtualMemory with zero bits: below a ceiling, or not at all.  *)
AllocLow(size, prot, committed) ==
    /\ Room(1)
    /\ \E base \in LowPlaces(regions, size) :
           Insert(base, size, prot, committed, "valloc")
    /\ UNCHANGED <<valloc_next, stacks, image_views, wow64>>

Marked(page, a, b) ==
    /\ Covers(a, page)
    /\ vm_allocs' = (vm_allocs \ {a}) \cup {b}
    /\ UNCHANGED <<regions, valloc_next, stacks, image_views, wow64>>

(* VirtualAlloc at an address inside an allocation commits and protects     *)
(* all of it.                                                               *)
Recommit(page, prot, committed) ==
    \E a \in vm_allocs :
        Marked(page, a, [a EXCEPT !.committed = @ \/ committed,
                                  !.prot = IF prot = {} THEN @ ELSE prot])

(* VirtualAlloc at any other address maps what is free.  Where it is not,   *)
(* the call changes nothing and still answers with the address.             *)
AllocFixed(page, size, prot, committed) ==
    /\ Room(1)
    /\ Covering(page) = {}
    /\ Insert(page, size, prot, committed, "valloc")
    /\ UNCHANGED <<valloc_next, stacks, image_views, wow64>>

(* VirtualFree(MEM_RELEASE) wants the base of the allocation, a view's too: *)
(* the list of image views then keeps the base.                             *)
Release(page) ==
    /\ \E a \in vm_allocs :
          /\ a.base = page
          /\ FreesViews \/ a.name # "view"
          /\ vm_allocs' = vm_allocs \ {a}
          /\ regions' = UnmapAt(regions, a.base)
    /\ UNCHANGED <<valloc_next, stacks, image_views, wow64>>

(* VirtualFree(MEM_DECOMMIT) only marks the table.                          *)
Decommit(page) ==
    \E a \in vm_allocs : Marked(page, a, [a EXCEPT !.committed = FALSE])

(* VirtualProtect of an allocation only marks the table: allocated memory   *)
(* is mapped with every right.                                              *)
Protect(page, prot) ==
    \E a \in vm_allocs : Marked(page, a, [a EXCEPT !.prot = prot])

Reprotected_Exact(r, from, to, prot) ==
    [r EXCEPT !.perm = IF r.base < to /\ End(r) > from THEN prot ELSE @]
(* A region that the range covers gets the new rights, one that it only     *)
(* meets keeps its own as well.                                             *)
Reprotected(r, from, to, prot) ==
    [r EXCEPT !.perm =
        IF r.base < to /\ End(r) > from
          THEN IF r.base >= from /\ End(r) <= to THEN prot ELSE @ \cup prot
          ELSE @]

(* NtProtectVirtualMemory outside the table changes the mapped regions      *)
(* (protect_mapped_image_pages).                                            *)
ProtectImage(page, size, prot) ==
    /\ Covering(page) = {}
    /\ \E r \in regions : Covers(r, page)
    /\ regions' = {Reprotected(r, page, page + size, prot) : r \in regions}
    /\ UNCHANGED <<vm_allocs, valloc_next, stacks, image_views, wow64>>

(* vm_query_region: what VirtualQuery says of a page.                       *)
After(page) == Lowest({r.base : r \in {s \in regions : s.base > page}})
Query_Table(page) ==
    IF \E a \in vm_allocs : Covers(a, page)
      THEN LET a == CHOOSE a \in vm_allocs : Covers(a, page)
           IN  [state |-> IF a.committed THEN "commit" ELSE "reserve",
                alloc |-> {a.base}, size |-> a.size]
      ELSE [state |-> "free", alloc |-> {}, size |-> MaxPage + 1]
Query(page) ==
    CASE \E a \in vm_allocs : Covers(a, page) ->
           LET a == CHOOSE a \in vm_allocs : Covers(a, page)
           IN  [state |-> IF a.committed THEN "commit" ELSE "reserve",
                alloc |-> {a.base}, size |-> End(a) - page]
      [] /\ \A a \in vm_allocs : ~Covers(a, page)
         /\ \E r \in regions : Covers(r, page) ->
           LET r == CHOOSE r \in regions : Covers(r, page)
           IN  [state |-> "commit", alloc |-> {r.base}, size |-> End(r) - page]
      [] OTHER ->
           [state |-> "free", alloc |-> {},
            size |-> IF After(page) = {} THEN MaxPage + 1
                     ELSE (CHOOSE b \in After(page) : TRUE) - page]

-----------------------------------------------------------------------------
(* section.rs                                                              *)

View(base, size, prot, image) ==
    /\ Insert(base, size, prot, TRUE, "view")
    /\ image_views' = IF image THEN image_views \cup {base} ELSE image_views

(* NtMapViewOfSection.  A flat view goes low in a 32-bit guest, an image    *)
(* where its own bitness says.                                              *)
MapViewHigh(size, prot, image) ==
    /\ Room(1)
    /\ image \/ ~wow64
    /\ \E base \in HighPlaces(regions, valloc_next, size) :
          /\ View(base, size, prot, image)
          /\ valloc_next' \in ArenaAfter(valloc_next, base, size)
    /\ UNCHANGED <<stacks, wow64>>

MapViewLow(size, prot, image) ==
    /\ Room(1)
    /\ image \/ wow64
    /\ \E base \in LowPlaces(regions, size) : View(base, size, prot, image)
    /\ UNCHANGED <<valloc_next, stacks, wow64>>

(* At an address the view is mapped where the address rounds down to, or    *)
(* the call fails.                                                          *)
MapViewAt(page, size, prot, image) ==
    /\ Room(1)
    /\ \E base \in AlignedDown(page) : View(base, size, prot, image)
    /\ UNCHANGED <<valloc_next, stacks, wow64>>

(* NtUnmapViewOfSection takes the base of anything in the table.            *)
UnmapView(page) ==
    /\ \E a \in vm_allocs :
          /\ a.base = page
          /\ vm_allocs' = vm_allocs \ {a}
          /\ regions' = UnmapAt(regions, a.base)
    /\ image_views' = image_views \ {page}
    /\ UNCHANGED <<valloc_next, stacks, wow64>>

-----------------------------------------------------------------------------
(* thread.rs                                                               *)

BlockOf(base, size, name) == [base |-> base, size |-> size, name |-> name]
BlockRights(name) == IF name \in {"thread-stack", "stack64"} THEN Rights ELSE {"r", "w"}
RegionOf(b) == Mapped(b.base, b.size, BlockRights(b.name), b.name)
With(rs, b) == rs \cup {RegionOf(b)}
Living(bs) == [alive |-> TRUE, blocks |-> bs]

(* The two blocks of spawn_thread, in the order they are placed: a stack    *)
(* and a TEB behind it in the arena.                                        *)
SpawnBlocks(stack, teb, next) ==
    /\ stack.base \in HighPlaces(regions, valloc_next, stack.size)
    /\ Free(regions, stack.base, stack.size)
    /\ \E mid \in ArenaAfter(valloc_next, stack.base, stack.size) :
          /\ teb.base \in HighPlaces(With(regions, stack), mid, teb.size)
          /\ Free(With(regions, stack), teb.base, teb.size)
          /\ next \in ArenaAfter(mid, teb.base, teb.size)

Spawn(size, teb) ==
    /\ Room(2)
    /\ ~wow64
    /\ \E b, c \in Aligned :
          LET stack == BlockOf(b, size, "thread-stack")
              block == BlockOf(c, teb, "thread-teb")
          IN  /\ \E next \in Aligned : /\ SpawnBlocks(stack, block, next)
                                        /\ valloc_next' = next
              /\ regions' = With(With(regions, stack), block)
              /\ stacks' = stacks \cup {Living({stack, block})}
    /\ UNCHANGED <<vm_allocs, image_views, wow64>>

(* The host refuses the TEB: the stack is given back, the arena stays where *)
(* both attempts moved it.                                                  *)
SpawnRefused(size, teb) ==
    /\ Room(2)
    /\ ~wow64
    /\ \E b, c \in Aligned :
          LET stack == BlockOf(b, size, "thread-stack")
          IN  /\ \E next \in Aligned :
                    /\ SpawnBlocks(stack, BlockOf(c, teb, "thread-teb"), next)
                    /\ valloc_next' = next
              /\ regions' = Unmap(With(regions, stack), {stack})
    /\ UNCHANGED <<vm_allocs, stacks, image_views, wow64>>

(* The two stacks of spawn_wow64_thread: a 32-bit one below the ceiling and *)
(* a 64-bit one in the arena.                                               *)
Wow64Stacks(low, high, next) ==
    /\ low.base \in LowPlaces(regions, low.size)
    /\ Free(regions, low.base, low.size)
    /\ high.base \in HighPlaces(With(regions, low), valloc_next, high.size)
    /\ Free(With(regions, low), high.base, high.size)
    /\ next \in ArenaAfter(valloc_next, high.base, high.size)

(* The third block holds both TEBs, below the ceiling again.                *)
SpawnWow64(size, teb) ==
    /\ Room(3)
    /\ wow64
    /\ \E b, c \in Aligned :
          LET low  == BlockOf(b, size, "stack32")
              high == BlockOf(c, size, "stack64")
              both == With(With(regions, low), high)
          IN  /\ \E next \in Aligned : /\ Wow64Stacks(low, high, next)
                                        /\ valloc_next' = next
              /\ \E d \in LowPlaces(both, teb) :
                    LET block == BlockOf(d, teb, "teb-block")
                    IN  /\ Free(both, d, teb)
                        /\ regions' = With(both, block)
                        /\ stacks' = stacks \cup {Living({low, high, block})}
    /\ UNCHANGED <<vm_allocs, image_views, wow64>>

RolledBack(rs, low, high) == Unmap(With(With(rs, low), high), {low, high})

(* No room for the block, or the host refuses it: both stacks are given     *)
(* back.                                                                    *)
SpawnWow64Refused(size) ==
    /\ Room(3)
    /\ wow64
    /\ \E b, c \in Aligned :
          LET low  == BlockOf(b, size, "stack32")
              high == BlockOf(c, size, "stack64")
          IN  /\ \E next \in Aligned : /\ Wow64Stacks(low, high, next)
                                        /\ valloc_next' = next
              /\ regions' = RolledBack(regions, low, high)
    /\ UNCHANGED <<vm_allocs, stacks, image_views, wow64>>

(* free_thread_stack, reached from ExitThread, TerminateThread and          *)
(* NtTerminateThread.  The last two do it to a thread that has ended, too.  *)
EndThread(t) ==
    /\ t.alive \/ TwiceEnded
    /\ t.alive => Cardinality({u \in stacks : ~u.alive}) < MaxEnded
    /\ stacks' = (stacks \ {t}) \cup {[t EXCEPT !.alive = FALSE]}
    /\ regions' = Unmap(regions, t.blocks)
    /\ UNCHANGED <<vm_allocs, valloc_next, image_views, wow64>>

-----------------------------------------------------------------------------

VmInit ==
    /\ regions = ImageRegions
    /\ vm_allocs = {}
    /\ valloc_next = ArenaBase
    /\ stacks = {}
    /\ image_views = {}
    /\ wow64 \in BOOLEAN

Pages == 1 .. MaxPage

VmNext ==
    \/ \E size \in Sizes : HighRefused(size)
    \/ \E size \in Sizes, prot \in Prots, committed \in BOOLEAN :
           AllocHigh(size, prot, committed) \/ AllocLow(size, prot, committed)
    \/ \E page \in Pages, prot \in Prots \cup {{}}, committed \in BOOLEAN :
           Recommit(page, prot, committed)
    \/ \E page \in Asked, size \in Sizes, prot \in Prots, committed \in BOOLEAN :
           AllocFixed(page, size, prot, committed)
    \/ \E page \in Pages : Release(page) \/ Decommit(page) \/ UnmapView(page)
    \/ \E page \in Pages, prot \in Prots : Protect(page, prot)
    \/ \E page \in Pages, size \in Sizes, prot \in Prots : ProtectImage(page, size, prot)
    \/ \E size \in Sizes, prot \in Prots, image \in BOOLEAN :
           MapViewHigh(size, prot, image) \/ MapViewLow(size, prot, image)
    \/ \E page \in Asked, size \in Sizes, prot \in Prots, image \in BOOLEAN :
           MapViewAt(page, size, prot, image)
    \/ \E size, teb \in Sizes : Spawn(size, teb) \/ SpawnRefused(size, teb)
    \/ \E size, teb \in Sizes : SpawnWow64(size, teb)
    \/ \E size \in Sizes : SpawnWow64Refused(size)
    \/ \E t \in stacks : EndThread(t)

VmSpec == VmInit /\ [][VmNext]_vmVars

-----------------------------------------------------------------------------
(* Properties                                                              *)

Same(r, b) == r.base = b.base /\ r.size = b.size /\ r.name = b.name
Owners == vm_allocs \cup UNION {t.blocks : t \in {u \in stacks : u.alive}}

OwnedIsMapped == \A b \in Owners : \E r \in regions : Same(r, b)
MappedIsOwned == \A r \in regions : r.name = "image" \/ \E b \in Owners : Same(r, b)

(* The two books agree.  What the table or a living thread owns is mapped,  *)
(* as one region of its own, so no release, view or thread end ever takes   *)
(* memory from somebody else (unmap goes by address alone); and every       *)
(* region but the images has an owner, so neither a thread's end nor a      *)
(* spawn that failed half-way leaks.                                        *)
BooksAgree == OwnedIsMapped /\ MappedIsOwned

(* A guest that walks its memory with VirtualQuery, from each answer to the *)
(* page behind it, meets every region at its first page and nothing twice:  *)
(* an answer covers pages of one region only, or free ones only.            *)
QueryTiles ==
    \A p \in Pages :
        LET q == Query(p)
        IN  /\ q.size > 0
            /\ \A r \in regions : \/ End(r) <= p \/ p + q.size <= r.base
                                   \/ /\ q.alloc = {r.base}
                                      /\ p + q.size = End(r)

(* NtProtectVirtualMemory takes rights from no page outside its range, even *)
(* where a region lies partly inside it.                                    *)
ProtectKeepsToRange ==
    [][\A r \in regions, s \in regions' :
          r.base = s.base /\ r.size = s.size /\ ~(r.perm \subseteq s.perm) =>
              \E page \in Pages, size \in Sizes, prot \in Prots :
                  /\ ProtectImage(page, size, prot)
                  /\ page <= r.base /\ End(r) <= page + size]_vmVars
=============================================================================
