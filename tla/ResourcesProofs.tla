-------------------------- MODULE ResourcesProofs ---------------------------
(* Theorems about AddressSpace, Files and Registry.  The argument of the    *)
(* first: mapped regions lie apart, so an address names one region; every   *)
(* owner (a table entry or a living thread) has a region of its own name,   *)
(* so what is unmapped for one owner is never another's.                    *)
EXTENDS AddressSpace, Files, Registry, FiniteSetTheorems, SequenceTheorems,
        WellFoundedInduction, TLAPS

(* No two mapped regions share a page.                                      *)
Apart == \A r, s \in regions : r # s => Disjoint(r, s)
(* No two table entries have the same base.                                 *)
UniqueEntries == \A a, b \in vm_allocs : a.base = b.base => a = b
(* No block belongs to two living threads.                                  *)
UniqueBlocks == \A t, u \in stacks : \A b \in t.blocks \cap u.blocks :
                    t.alive /\ u.alive => t = u

Blocks == UNION {t.blocks : t \in {u \in stacks : u.alive}}

VmTyped == /\ regions \subseteq Region
           /\ vm_allocs \subseteq VmAlloc
           /\ stacks \subseteq GuestThread
VmBooks == VmTyped /\ Apart /\ UniqueEntries /\ UniqueBlocks /\ OwnedIsMapped /\ MappedIsOwned

-----------------------------------------------------------------------------
(* Arithmetic of blocks.                                                    *)

(* Two regions of which one lies within the other are not disjoint.         *)
LEMMA WithinMeets ==
    ASSUME NEW r \in [base : Nat, size : Nat \ {0}, perm : SUBSET Rights, name : RegionNames],
           NEW b, b.base \in Nat, b.size \in Nat \ {0}, Within(r, b)
    PROVE  /\ ~(End(r) <= b.base)
           /\ ~(b.base + b.size <= r.base)
<1>1. r.base \in Nat /\ r.size \in Nat /\ r.size > 0
  OBVIOUS
<1> QED
  BY <1>1 DEF Within, End

(* A table entry and a thread block never have the same name.               *)
LEMMA NamesApart ==
    /\ TableNames \cap StackNames = {}
    /\ "image" \notin TableNames
    /\ "image" \notin StackNames
  BY DEF TableNames, StackNames

(* Every owner has a base, a size and a name.                               *)
LEMMA OwnerShape ==
    ASSUME VmTyped, NEW o \in Owners
    PROVE  /\ o.base \in Nat /\ o.size \in Nat \ {0}
           /\ o \in vm_allocs => o.name \in TableNames
           /\ o \in Blocks => o.name \in StackNames /\ o \in Block
           /\ o \in vm_allocs \/ o \in Blocks
  BY DEF VmTyped, Owners, Blocks, VmAlloc, GuestThread, Block

(* An owner's region is the only one at its base.                           *)
LEMMA OneRegion ==
    ASSUME VmTyped, Apart, NEW r \in regions, NEW s \in regions, r.base = s.base
    PROVE  r = s
<1>1. r \in Region /\ s \in Region
  BY DEF VmTyped
<1>2. r.base \in Nat /\ r.size \in Nat /\ r.size > 0 /\ s.size \in Nat /\ s.size > 0
  BY <1>1 DEF Region
<1>3. ~Disjoint(r, s)
  BY <1>2 DEF Disjoint, End
<1> QED
  BY <1>3 DEF Apart

-----------------------------------------------------------------------------
(* One lemma for each way the books change.                                 *)

(* Insert: a new region with its entry.                                     *)
LEMMA InsertKeeps ==
    ASSUME VmBooks, NEW base \in Nat, NEW size \in Nat \ {0}, NEW prot \in SUBSET Rights,
           NEW committed \in BOOLEAN, NEW name \in TableNames,
           Insert(base, size, prot, committed, name), stacks' = stacks
    PROVE  VmBooks'
<1> DEFINE r == Mapped(base, size, Rights, name)
           a == Entry(base, size, prot, committed, name)
<1>1. /\ regions' = regions \cup {r} /\ vm_allocs' = vm_allocs \cup {a}
      /\ Free(regions, base, size)
  BY DEF Insert
<1>2. /\ r \in Region /\ a \in VmAlloc /\ Same(r, a)
      /\ r.base = base /\ r.size = size /\ a.base = base /\ a.size = size
  BY DEF Mapped, Entry, Region, VmAlloc, Same, RegionNames
<1>3. \A s \in regions : Disjoint(s, r) /\ Disjoint(r, s)
  BY <1>1, <1>2 DEF Free, Disjoint, End
<1>4. \A s \in regions : s.base # base
  <2> SUFFICES ASSUME NEW s \in regions, s.base = base PROVE FALSE
    OBVIOUS
  <2>1. s.base \in Nat /\ s.size \in Nat /\ s.size > 0
    BY DEF VmBooks, VmTyped, Region
  <2>2. Disjoint(s, r)
    BY <1>3
  <2> QED
    BY <2>1, <2>2, <1>2 DEF Disjoint, End
<1>5. VmTyped'
  BY <1>1, <1>2 DEF VmBooks, VmTyped
<1>6. Apart'
  BY <1>1, <1>3 DEF VmBooks, Apart
<1>7. \A b \in vm_allocs : b.base # base
  BY <1>4 DEF VmBooks, OwnedIsMapped, Owners, Same
<1>8. UniqueEntries'
  BY <1>1, <1>2, <1>7 DEF VmBooks, UniqueEntries
<1>9. Owners' = Owners \cup {a}
  BY <1>1 DEF Owners
<1>10. OwnedIsMapped'
  BY <1>1, <1>2, <1>9 DEF VmBooks, OwnedIsMapped
<1>11. MappedIsOwned'
  BY <1>1, <1>2, <1>9 DEF VmBooks, MappedIsOwned
<1>12. UniqueBlocks'
  BY DEF VmBooks, UniqueBlocks
<1> QED
  BY <1>5, <1>6, <1>8, <1>10, <1>11, <1>12 DEF VmBooks

(* Marked: an entry gets other rights and another state.                    *)
LEMMA MarkedKeeps ==
    ASSUME VmBooks, NEW page, NEW a \in vm_allocs, NEW b \in VmAlloc,
           b.base = a.base, b.size = a.size, b.name = a.name, Marked(page, a, b)
    PROVE  VmBooks'
<1>1. /\ vm_allocs' = (vm_allocs \ {a}) \cup {b} /\ regions' = regions /\ stacks' = stacks
  BY DEF Marked
<1>2. VmTyped' /\ Apart' /\ UniqueBlocks'
  BY <1>1 DEF VmBooks, VmTyped, Apart, UniqueBlocks
<1>3. UniqueEntries'
  BY <1>1 DEF VmBooks, UniqueEntries
<1>4. Owners' = (vm_allocs \ {a}) \cup {b} \cup Blocks /\ Owners = vm_allocs \cup Blocks
  BY <1>1 DEF Owners, Blocks
<1>5. \A r : Same(r, a) <=> Same(r, b)
  BY DEF Same
<1>6. OwnedIsMapped'
  BY <1>1, <1>4, <1>5 DEF VmBooks, OwnedIsMapped
<1>7. MappedIsOwned'
  BY <1>1, <1>4, <1>5 DEF VmBooks, MappedIsOwned
<1> QED
  BY <1>2, <1>3, <1>6, <1>7 DEF VmBooks

(* Release and UnmapView: an entry goes with the region at its base.        *)
LEMMA RemoveKeeps ==
    ASSUME VmBooks, NEW a \in vm_allocs, vm_allocs' = vm_allocs \ {a},
           regions' = UnmapAt(regions, a.base), stacks' = stacks
    PROVE  VmBooks'
<1>1. regions' = {r \in regions : r.base # a.base}
  BY DEF UnmapAt
<1>2. VmTyped' /\ Apart' /\ UniqueBlocks' /\ UniqueEntries'
  BY <1>1 DEF VmBooks, VmTyped, Apart, UniqueBlocks, UniqueEntries
<1>3. Owners = vm_allocs \cup Blocks /\ Owners' = (vm_allocs \ {a}) \cup Blocks
  BY DEF Owners, Blocks
<1>4. a \in Owners
  BY <1>3
<1>5. ASSUME NEW o \in Owners'
      PROVE  \E r \in regions' : Same(r, o)
  <2>1. o \in Owners
    BY <1>3
  <2>2. PICK r \in regions : Same(r, o)
    BY <2>1 DEF VmBooks, OwnedIsMapped
  <2>3. ASSUME r.base = a.base PROVE FALSE
    <3>1. PICK s \in regions : Same(s, a)
      BY <1>4 DEF VmBooks, OwnedIsMapped
    <3>2. r = s
      BY <2>3, <3>1, OneRegion DEF VmBooks, Same
    <3>3. o.name = a.name /\ o.base = a.base
      BY <2>2, <3>1, <3>2 DEF Same
    <3>4. o \in vm_allocs
      BY <2>1, <1>4, <3>3, OwnerShape, NamesApart DEF VmBooks
    <3>5. o = a
      BY <3>3, <3>4 DEF VmBooks, UniqueEntries
    <3>6. a \in Blocks
      BY <1>3, <3>5
    <3> QED
      BY <3>6, <1>4, OwnerShape, NamesApart DEF VmBooks
  <2> QED
    BY <2>2, <2>3, <1>1
<1>6. OwnedIsMapped'
  BY <1>5 DEF OwnedIsMapped
<1>7. MappedIsOwned'
  BY <1>1, <1>3 DEF VmBooks, MappedIsOwned, Same
<1> QED
  BY <1>2, <1>6, <1>7 DEF VmBooks

(* Refused placements and anything else that leaves the books alone.        *)
LEMMA NothingKeeps ==
    ASSUME VmBooks, regions' = regions, vm_allocs' = vm_allocs, stacks' = stacks
    PROVE  VmBooks'
  BY DEF VmBooks, VmTyped, Apart, UniqueEntries, UniqueBlocks, OwnedIsMapped,
         MappedIsOwned, Owners

(* NtProtectVirtualMemory changes rights only.                              *)
LEMMA ProtectKeeps ==
    ASSUME VmBooks, NEW page, NEW size, NEW prot \in SUBSET Rights,
           ProtectImage(page, size, prot)
    PROVE  VmBooks'
<1> DEFINE f(r) == Reprotected(r, page, page + size, prot)
<1>1. /\ regions' = {f(r) : r \in regions}
      /\ vm_allocs' = vm_allocs /\ stacks' = stacks
  BY DEF ProtectImage
<1>2. \A r \in regions : /\ f(r) \in Region
                         /\ f(r).base = r.base /\ f(r).size = r.size /\ f(r).name = r.name
  <2> SUFFICES ASSUME NEW r \in regions
               PROVE  /\ f(r) \in Region
                      /\ f(r).base = r.base /\ f(r).size = r.size /\ f(r).name = r.name
    OBVIOUS
  <2>1. r \in Region
    BY DEF VmBooks, VmTyped
  <2>2. r.perm \cup prot \in SUBSET Rights
    BY <2>1 DEF Region
  <2> QED
    BY <2>1, <2>2 DEF Reprotected, Region
<1> HIDE DEF f
<1>3. VmTyped'
  BY <1>1, <1>2 DEF VmBooks, VmTyped
<1>4. Apart'
  <2> SUFFICES ASSUME NEW r \in regions, NEW s \in regions, f(r) # f(s)
               PROVE  Disjoint(f(r), f(s))
    BY <1>1 DEF Apart
  <2>1. Disjoint(r, s)
    BY DEF VmBooks, Apart
  <2> QED
    BY <2>1, <1>2 DEF Disjoint, End
<1>5. \A r \in regions : \A o : Same(r, o) <=> Same(f(r), o)
  BY <1>2 DEF Same
<1>6. Owners' = Owners
  BY <1>1 DEF Owners
<1>7. OwnedIsMapped'
  BY <1>1, <1>5, <1>6 DEF VmBooks, OwnedIsMapped
<1>8. MappedIsOwned'
  BY <1>1, <1>2, <1>5, <1>6 DEF VmBooks, MappedIsOwned
<1>9. UniqueEntries' /\ UniqueBlocks'
  BY <1>1 DEF VmBooks, UniqueEntries, UniqueBlocks
<1> QED
  BY <1>3, <1>4, <1>7, <1>8, <1>9 DEF VmBooks

-----------------------------------------------------------------------------
(* Threads.                                                                 *)

(* The regions of a thread's blocks.                                        *)
RegionsOf(bs) == {RegionOf(b) : b \in bs}

(* A block that is free can be mapped: the regions stay apart, and no       *)
(* owner's block had its base.                                              *)
LEMMA MapBlock ==
    ASSUME NEW rs, rs \subseteq Region,
           \A r, s \in rs : r # s => Disjoint(r, s),
           NEW b \in Block, Free(rs, b.base, b.size)
    PROVE  /\ With(rs, b) \subseteq Region
           /\ \A r, s \in With(rs, b) : r # s => Disjoint(r, s)
           /\ RegionOf(b) \in With(rs, b)
           /\ Same(RegionOf(b), b)
           /\ rs \subseteq With(rs, b)
           /\ \A r \in rs : ~Same(r, b) /\ ~Within(r, b)
<1>1. /\ RegionOf(b) \in Region
      /\ RegionOf(b).base = b.base /\ RegionOf(b).size = b.size /\ RegionOf(b).name = b.name
  BY DEF RegionOf, Mapped, Region, Block, BlockRights, Rights, RegionNames
<1>2. With(rs, b) = rs \cup {RegionOf(b)}
  BY DEF With
<1>3. \A r \in rs : Disjoint(r, RegionOf(b)) /\ Disjoint(RegionOf(b), r)
  BY <1>1 DEF Free, Disjoint, End
<1>4. ASSUME NEW r \in rs PROVE ~Same(r, b) /\ ~Within(r, b)
  <2>1. r \in [base : Nat, size : Nat \ {0}, perm : SUBSET Rights, name : RegionNames]
    BY DEF Region
  <2>2. b.base \in Nat /\ b.size \in Nat \ {0}
    BY DEF Block
  <2>3. End(r) <= b.base \/ b.base + b.size <= r.base
    BY <1>1, <1>3 DEF Disjoint, End
  <2>4. ~Within(r, b)
    BY <2>1, <2>2, <2>3, WithinMeets
  <2>5. r.base \in Nat /\ r.size \in Nat /\ r.size > 0
    BY <2>1
  <2>6. ~Same(r, b)
    BY <2>2, <2>3, <2>5 DEF Same, End
  <2> QED
    BY <2>4, <2>6
<1>5. Same(RegionOf(b), b)
  BY <1>1 DEF Same
<1> QED
  BY <1>1, <1>2, <1>3, <1>4, <1>5

(* A spawn: blocks that nobody owned, each with its region.                 *)
LEMMA SpawnKeeps ==
    ASSUME VmBooks, NEW bs \in SUBSET Block, NEW rs,
           rs \subseteq Region, \A r, s \in rs : r # s => Disjoint(r, s),
           rs = regions \cup RegionsOf(bs),
           \A b \in bs, r \in regions : ~Same(r, b),
           regions' = rs, stacks' = stacks \cup {Living(bs)}, vm_allocs' = vm_allocs
    PROVE  VmBooks'
<1>1. Living(bs) \in GuestThread /\ Living(bs).alive /\ Living(bs).blocks = bs
  BY DEF Living, GuestThread
<1>2. VmTyped' /\ Apart' /\ UniqueEntries'
  BY <1>1 DEF VmBooks, VmTyped, Apart, UniqueEntries
<1>3. Owners' = Owners \cup bs
  BY <1>1 DEF Owners
<1>4. \A b \in bs : Same(RegionOf(b), b) /\ RegionOf(b) \in rs
  BY DEF RegionOf, Mapped, Same, RegionsOf
<1>5. OwnedIsMapped'
  BY <1>3, <1>4 DEF VmBooks, OwnedIsMapped
<1>6. MappedIsOwned'
  BY <1>3, <1>4 DEF VmBooks, MappedIsOwned, RegionsOf
<1>7. \A t \in stacks : t.alive => t.blocks \cap bs = {}
  <2> SUFFICES ASSUME NEW t \in stacks, t.alive, NEW b \in t.blocks, b \in bs PROVE FALSE
    OBVIOUS
  <2>1. b \in Owners
    BY DEF Owners
  <2> QED
    BY <2>1 DEF VmBooks, OwnedIsMapped
<1>8. UniqueBlocks'
  BY <1>1, <1>7 DEF VmBooks, UniqueBlocks
<1> QED
  BY <1>2, <1>5, <1>6, <1>8 DEF VmBooks

(* The end of a living thread: its blocks go, and nobody else's.            *)
LEMMA EndKeeps ==
    ASSUME VmBooks, NEW t \in stacks, t.alive, EndThread(t)
    PROVE  VmBooks'
<1> DEFINE dead == [t EXCEPT !.alive = FALSE]
<1>1. /\ stacks' = (stacks \ {t}) \cup {dead}
      /\ regions' = {r \in regions : \A b \in t.blocks : ~Within(r, b)}
      /\ vm_allocs' = vm_allocs
  BY DEF EndThread, Unmap
<1>2. t \in GuestThread /\ dead \in GuestThread /\ dead.alive = FALSE
  BY DEF VmBooks, VmTyped, GuestThread
<1>3. VmTyped' /\ Apart' /\ UniqueEntries'
  BY <1>1, <1>2 DEF VmBooks, VmTyped, Apart, UniqueEntries
<1>4. UniqueBlocks'
  BY <1>1, <1>2 DEF VmBooks, UniqueBlocks
<1>5. /\ Owners = vm_allocs \cup Blocks
      /\ Owners' = vm_allocs \cup UNION {u.blocks : u \in {v \in stacks \ {t} : v.alive}}
  BY <1>1, <1>2 DEF Owners, Blocks
<1>6. \A b \in t.blocks : b \in Owners /\ b \in Blocks
  BY DEF Owners, Blocks
<1>7. ASSUME NEW o \in Owners'
      PROVE  o \in Owners /\ o \notin t.blocks
  <2>1. o \in Owners
    BY <1>5 DEF Blocks
  <2>2. CASE o \in vm_allocs
    BY <2>1, <2>2, <1>6, OwnerShape, NamesApart DEF VmBooks
  <2>3. CASE \E u \in stacks \ {t} : u.alive /\ o \in u.blocks
    BY <2>1, <2>3 DEF VmBooks, UniqueBlocks
  <2> QED
    BY <1>5, <2>2, <2>3
<1>8. ASSUME NEW o \in Owners'
      PROVE  \E r \in regions' : Same(r, o)
  <2>1. o \in Owners /\ o \notin t.blocks
    BY <1>7
  <2>2. PICK r \in regions : Same(r, o)
    BY <2>1 DEF VmBooks, OwnedIsMapped
  <2>3. ASSUME NEW b \in t.blocks, Within(r, b) PROVE FALSE
    <3>1. b \in Block /\ b \in Owners
      BY <1>6, OwnerShape DEF VmBooks
    <3>2. PICK s \in regions : Same(s, b)
      BY <3>1 DEF VmBooks, OwnedIsMapped
    <3>3. b.base \in Nat /\ b.size \in Nat \ {0}
      BY <3>1 DEF Block
    <3>4. r \in [base : Nat, size : Nat \ {0}, perm : SUBSET Rights, name : RegionNames]
      BY DEF VmBooks, VmTyped, Region
    <3>5. ~(End(r) <= b.base) /\ ~(b.base + b.size <= r.base)
      BY <2>3, <3>3, <3>4, WithinMeets
    <3>6. ~Disjoint(r, s)
      BY <3>2, <3>5 DEF Disjoint, End, Same
    <3>7. r = s
      BY <3>6 DEF VmBooks, Apart
    <3>8. o.base = b.base /\ o.size = b.size /\ o.name = b.name
      BY <2>2, <3>2, <3>7 DEF Same
    <3>9. o \in Blocks /\ o \in Block
      BY <2>1, <3>1, <3>8, <1>6, OwnerShape, NamesApart DEF VmBooks
    <3>10. o = b
      BY <3>1, <3>8, <3>9 DEF Block
    <3> QED
      BY <2>1, <3>10
  <2> QED
    BY <2>2, <2>3, <1>1
<1>9. OwnedIsMapped'
  BY <1>8 DEF OwnedIsMapped
<1>10. ASSUME NEW r \in regions', r.name # "image"
       PROVE  \E o \in Owners' : Same(r, o)
  <2>1. r \in regions /\ \A b \in t.blocks : ~Within(r, b)
    BY <1>1
  <2>2. PICK o \in Owners : Same(r, o)
    BY <2>1, <1>10 DEF VmBooks, MappedIsOwned
  <2>3. o \notin t.blocks
    <3> SUFFICES ASSUME o \in t.blocks PROVE Within(r, o)
      BY <2>1
    <3>1. r.base = o.base /\ r.size = o.size /\ r.base \in Nat /\ r.size \in Nat
      BY <2>1, <2>2 DEF Same, VmBooks, VmTyped, Region
    <3> QED
      BY <3>1 DEF Within, End
  <2>4. o \in Owners'
    BY <2>2, <2>3, <1>5 DEF Blocks
  <2> QED
    BY <2>2, <2>4
<1>11. MappedIsOwned'
  BY <1>10 DEF MappedIsOwned
<1> QED
  BY <1>3, <1>4, <1>9, <1>11 DEF VmBooks

-----------------------------------------------------------------------------
(* The steps.                                                               *)

(* The pages the allocator hands out are numbers.                           *)
LEMMA PlacesAreNat ==
    /\ Aligned \subseteq Nat
    /\ \A rs, next, size : HighPlaces(rs, next, size) \subseteq Nat
    /\ \A rs, size : LowPlaces(rs, size) \subseteq Nat
    /\ \A page : AlignedDown(page) \subseteq Nat
<1>1. Aligned \subseteq 0 .. MaxPage
  BY DEF Aligned
<1>2. Aligned \subseteq Nat
  BY <1>1, AddressSpaceAssumption
<1>3. \A rs, start, size : Places(rs, start, size) \subseteq Aligned
  BY DEF Places, Lowest
<1>4. \A rs, size : LowPlaces(rs, size) \subseteq Aligned
  BY <1>3 DEF LowPlaces
<1> QED
  BY <1>2, <1>3, <1>4 DEF HighPlaces, AlignedDown

(* A failed spawn leaves the regions as they were.                          *)
LEMMA RollBackRestores ==
    ASSUME NEW rs, rs \subseteq Region, \A r, s \in rs : r # s => Disjoint(r, s),
           NEW b \in Block, Free(rs, b.base, b.size)
    PROVE  Unmap(With(rs, b), {b}) = rs
<1>1. /\ Same(RegionOf(b), b) /\ \A r \in rs : ~Within(r, b)
      /\ With(rs, b) = rs \cup {RegionOf(b)}
      /\ RegionOf(b) \in Region
  BY MapBlock DEF With
<1>2. Within(RegionOf(b), b)
  BY <1>1 DEF Within, Same, End, Region
<1> QED
  BY <1>1, <1>2 DEF Unmap

(* ... and so does one that failed at its third block.                      *)
LEMMA RollBackRestoresBoth ==
    ASSUME NEW rs, rs \subseteq Region, \A r, s \in rs : r # s => Disjoint(r, s),
           NEW b \in Block, Free(rs, b.base, b.size),
           NEW c \in Block, Free(With(rs, b), c.base, c.size)
    PROVE  RolledBack(rs, b, c) = rs
<1>1. /\ With(rs, b) \subseteq Region
      /\ \A r, s \in With(rs, b) : r # s => Disjoint(r, s)
  BY MapBlock
<1>2. Unmap(With(rs, b), {b}) = rs
  BY RollBackRestores
<1>3. Unmap(With(With(rs, b), c), {c}) = With(rs, b)
  BY <1>1, RollBackRestores
<1>4. Unmap(With(With(rs, b), c), {b, c}) = Unmap(Unmap(With(With(rs, b), c), {c}), {b})
  BY DEF Unmap
<1> QED
  BY <1>2, <1>3, <1>4 DEF RolledBack

(* spawn_thread.                                                            *)
LEMMA SpawnStep ==
    ASSUME VmBooks, NEW size \in Nat \ {0}, NEW teb \in Nat \ {0}, Spawn(size, teb)
    PROVE  VmBooks'
<1>1. PICK b \in Aligned, c \in Aligned :
          /\ \E next \in Aligned : SpawnBlocks(BlockOf(b, size, "thread-stack"),
                                                BlockOf(c, teb, "thread-teb"), next)
          /\ regions' = With(With(regions, BlockOf(b, size, "thread-stack")),
                             BlockOf(c, teb, "thread-teb"))
          /\ stacks' = stacks \cup {Living({BlockOf(b, size, "thread-stack"),
                                            BlockOf(c, teb, "thread-teb")})}
          /\ vm_allocs' = vm_allocs
  BY DEF Spawn
<1> DEFINE x == BlockOf(b, size, "thread-stack")
           y == BlockOf(c, teb, "thread-teb")
<1>2. x \in Block /\ y \in Block
  BY PlacesAreNat DEF BlockOf, Block, StackNames
<1>3. Free(regions, x.base, x.size) /\ Free(With(regions, x), y.base, y.size)
  BY <1>1 DEF SpawnBlocks
<1> HIDE DEF x, y
<1>4. /\ regions \subseteq Region
      /\ \A r, s \in regions : r # s => Disjoint(r, s)
  BY DEF VmBooks, VmTyped, Apart
<1>5. /\ With(regions, x) \subseteq Region
      /\ \A r, s \in With(regions, x) : r # s => Disjoint(r, s)
      /\ \A r \in regions : ~Same(r, x)
      /\ regions \subseteq With(regions, x)
  BY <1>2, <1>3, <1>4, MapBlock
<1>6. /\ With(With(regions, x), y) \subseteq Region
      /\ \A r, s \in With(With(regions, x), y) : r # s => Disjoint(r, s)
      /\ \A r \in With(regions, x) : ~Same(r, y)
  BY <1>2, <1>3, <1>5, MapBlock
<1>7. With(With(regions, x), y) = regions \cup RegionsOf({x, y})
  BY DEF With, RegionsOf
<1>8. \A d \in {x, y}, r \in regions : ~Same(r, d)
  BY <1>5, <1>6
<1>9. {x, y} \in SUBSET Block
  BY <1>2
<1>10. /\ regions' = With(With(regions, x), y) /\ stacks' = stacks \cup {Living({x, y})}
       /\ vm_allocs' = vm_allocs
  BY <1>1 DEF x, y
<1> QED
  BY <1>6, <1>7, <1>8, <1>9, <1>10, SpawnKeeps

(* spawn_wow64_thread.                                                      *)
LEMMA SpawnWow64Step ==
    ASSUME VmBooks, NEW size \in Nat \ {0}, NEW teb \in Nat \ {0}, SpawnWow64(size, teb)
    PROVE  VmBooks'
<1>1. PICK b \in Aligned, c \in Aligned :
          LET low  == BlockOf(b, size, "stack32")
              high == BlockOf(c, size, "stack64")
              both == With(With(regions, low), high)
          IN  /\ \E next \in Aligned : Wow64Stacks(low, high, next)
              /\ \E d \in LowPlaces(both, teb) :
                    LET block == BlockOf(d, teb, "teb-block")
                    IN  /\ Free(both, d, teb)
                        /\ regions' = With(both, block)
                        /\ stacks' = stacks \cup {Living({low, high, block})}
  BY DEF SpawnWow64
<1> DEFINE x == BlockOf(b, size, "stack32")
           y == BlockOf(c, size, "stack64")
           both == With(With(regions, x), y)
<1>2. PICK d \in LowPlaces(both, teb) :
          /\ Free(both, d, teb)
          /\ regions' = With(both, BlockOf(d, teb, "teb-block"))
          /\ stacks' = stacks \cup {Living({x, y, BlockOf(d, teb, "teb-block")})}
  BY <1>1
<1> DEFINE z == BlockOf(d, teb, "teb-block")
<1>3. x \in Block /\ y \in Block
  BY PlacesAreNat DEF BlockOf, Block, StackNames
<1>4. d \in Nat
  BY PlacesAreNat
<1>5. z \in Block /\ z.base = d /\ z.size = teb
  BY <1>4 DEF BlockOf, Block, StackNames
<1>6. Free(regions, x.base, x.size) /\ Free(With(regions, x), y.base, y.size)
  BY <1>1 DEF Wow64Stacks
<1>7. Free(both, z.base, z.size)
  BY <1>2, <1>5
<1>8. vm_allocs' = vm_allocs /\ regions' = With(both, z) /\ stacks' = stacks \cup {Living({x, y, z})}
  BY <1>2 DEF SpawnWow64
<1> HIDE DEF x, y, z
<1>9. /\ regions \subseteq Region
      /\ \A r, s \in regions : r # s => Disjoint(r, s)
  BY DEF VmBooks, VmTyped, Apart
<1>10. /\ With(regions, x) \subseteq Region
       /\ \A r, s \in With(regions, x) : r # s => Disjoint(r, s)
       /\ \A r \in regions : ~Same(r, x)
       /\ regions \subseteq With(regions, x)
  BY <1>3, <1>6, <1>9, MapBlock
<1>11. /\ both \subseteq Region
       /\ \A r, s \in both : r # s => Disjoint(r, s)
       /\ \A r \in With(regions, x) : ~Same(r, y)
       /\ With(regions, x) \subseteq both
  BY <1>3, <1>6, <1>10, MapBlock
<1>12. /\ With(both, z) \subseteq Region
       /\ \A r, s \in With(both, z) : r # s => Disjoint(r, s)
       /\ \A r \in both : ~Same(r, z)
  <2> HIDE DEF both
  <2> QED
    BY <1>5, <1>7, <1>11, MapBlock
<1>13. With(both, z) = regions \cup RegionsOf({x, y, z})
  BY DEF With, RegionsOf
<1>14. \A e \in {x, y, z}, r \in regions : ~Same(r, e)
  BY <1>10, <1>11, <1>12
<1>15. {x, y, z} \in SUBSET Block
  BY <1>3, <1>5
<1> HIDE DEF both
<1> QED
  BY <1>8, <1>12, <1>13, <1>14, <1>15, SpawnKeeps

LEMMA BooksInit == VmInit => VmBooks
  BY AddressSpaceAssumption
  DEF VmInit, VmBooks, VmTyped, Apart, UniqueEntries, UniqueBlocks, OwnedIsMapped,
      MappedIsOwned, Owners

(* Every operation keeps the books, if no thread is ended twice.            *)
LEMMA BooksStep ==
    ASSUME ~TwiceEnded, VmBooks, [VmNext]_vmVars
    PROVE  VmBooks'
<1> USE AddressSpaceAssumption
<1>r. Rights \in SUBSET Rights /\ {} \in SUBSET Rights
  OBVIOUS
<1>v. "valloc" \in TableNames /\ "view" \in TableNames
  BY DEF TableNames
<1>1. ASSUME NEW size \in Sizes, HighRefused(size) PROVE VmBooks'
  BY <1>1, NothingKeeps DEF HighRefused
<1>2. ASSUME NEW size \in Sizes, NEW prot \in Prots, NEW committed \in BOOLEAN,
             AllocHigh(size, prot, committed) \/ AllocLow(size, prot, committed)
      PROVE  VmBooks'
  <2>1. PICK base \in Nat : Insert(base, size, prot, committed, "valloc")
    BY <1>2, PlacesAreNat DEF AllocHigh, AllocLow
  <2>2. stacks' = stacks
    BY <1>2 DEF AllocHigh, AllocLow
  <2> QED
    BY <2>1, <2>2, <1>v, InsertKeeps
<1>3. ASSUME NEW page \in Pages, NEW prot \in Prots \cup {{}}, NEW committed \in BOOLEAN,
             Recommit(page, prot, committed)
      PROVE  VmBooks'
  <2> DEFINE m(a) == [a EXCEPT !.committed = @ \/ committed,
                               !.prot = IF prot = {} THEN @ ELSE prot]
  <2>1. PICK a \in vm_allocs : Marked(page, a, m(a))
    BY <1>3 DEF Recommit
  <2>2. a \in VmAlloc
    BY DEF VmBooks, VmTyped
  <2>3. prot \in SUBSET Rights
    OBVIOUS
  <2>4. (a.committed \/ committed) \in BOOLEAN /\ (IF prot = {} THEN a.prot ELSE prot) \in SUBSET Rights
    BY <2>2, <2>3 DEF VmAlloc
  <2>5. m(a) \in VmAlloc /\ m(a).base = a.base /\ m(a).size = a.size /\ m(a).name = a.name
    BY <2>2, <2>4 DEF VmAlloc
  <2> HIDE DEF m
  <2> QED
    BY <2>1, <2>5, MarkedKeeps
<1>4. ASSUME NEW page \in Asked, NEW size \in Sizes, NEW prot \in Prots,
             NEW committed \in BOOLEAN, AllocFixed(page, size, prot, committed)
      PROVE  VmBooks'
  BY <1>4, <1>v, InsertKeeps DEF AllocFixed
<1>5. ASSUME NEW page \in Pages, Release(page) \/ UnmapView(page) PROVE VmBooks'
  <2>1. PICK a \in vm_allocs : vm_allocs' = vm_allocs \ {a} /\ regions' = UnmapAt(regions, a.base)
    BY <1>5 DEF Release, UnmapView
  <2>2. stacks' = stacks
    BY <1>5 DEF Release, UnmapView
  <2> QED
    BY <2>1, <2>2, RemoveKeeps
<1>6. ASSUME NEW page \in Pages, Decommit(page) PROVE VmBooks'
  <2>1. PICK a \in vm_allocs : Marked(page, a, [a EXCEPT !.committed = FALSE])
    BY <1>6 DEF Decommit
  <2>2. a \in VmAlloc
    BY DEF VmBooks, VmTyped
  <2>3. LET b == [a EXCEPT !.committed = FALSE]
        IN  b \in VmAlloc /\ b.base = a.base /\ b.size = a.size /\ b.name = a.name
    BY <2>2 DEF VmAlloc
  <2> QED
    BY <2>1, <2>3, MarkedKeeps
<1>7. ASSUME NEW page \in Pages, NEW prot \in Prots, Protect(page, prot) PROVE VmBooks'
  <2>1. PICK a \in vm_allocs : Marked(page, a, [a EXCEPT !.prot = prot])
    BY <1>7 DEF Protect
  <2>2. a \in VmAlloc /\ prot \in SUBSET Rights
    BY DEF VmBooks, VmTyped
  <2>3. LET b == [a EXCEPT !.prot = prot]
        IN  b \in VmAlloc /\ b.base = a.base /\ b.size = a.size /\ b.name = a.name
    BY <2>2 DEF VmAlloc
  <2> QED
    BY <2>1, <2>3, MarkedKeeps
<1>8. ASSUME NEW page \in Pages, NEW size \in Sizes, NEW prot \in Prots,
             ProtectImage(page, size, prot)
      PROVE  VmBooks'
  BY <1>8, ProtectKeeps
<1>9. ASSUME NEW page, NEW size \in Sizes, NEW prot \in Prots, NEW image \in BOOLEAN,
             MapViewHigh(size, prot, image) \/ MapViewLow(size, prot, image)
             \/ MapViewAt(page, size, prot, image)
      PROVE  VmBooks'
  <2>1. PICK base \in Nat : Insert(base, size, prot, TRUE, "view")
    BY <1>9, PlacesAreNat DEF MapViewHigh, MapViewLow, MapViewAt, View
  <2>2. stacks' = stacks
    BY <1>9 DEF MapViewHigh, MapViewLow, MapViewAt
  <2> QED
    BY <2>1, <2>2, <1>v, InsertKeeps
<1>10. ASSUME NEW size \in Sizes, NEW teb \in Sizes, Spawn(size, teb) PROVE VmBooks'
  BY <1>10, SpawnStep
<1>11. ASSUME NEW size \in Sizes, NEW teb \in Sizes, SpawnRefused(size, teb) PROVE VmBooks'
  <2>1. PICK b \in Aligned, c \in Aligned :
            /\ \E next \in Aligned : SpawnBlocks(BlockOf(b, size, "thread-stack"),
                                                  BlockOf(c, teb, "thread-teb"), next)
            /\ regions' = Unmap(With(regions, BlockOf(b, size, "thread-stack")),
                                {BlockOf(b, size, "thread-stack")})
    BY <1>11 DEF SpawnRefused
  <2> DEFINE x == BlockOf(b, size, "thread-stack")
  <2>2. x \in Block
    BY PlacesAreNat DEF BlockOf, Block, StackNames
  <2>3. Free(regions, x.base, x.size)
    BY <2>1 DEF SpawnBlocks
  <2> HIDE DEF x
  <2>4. regions' = regions
    BY <2>1, <2>2, <2>3, RollBackRestores DEF x, VmBooks, VmTyped, Apart
  <2> QED
    BY <2>4, <1>11, NothingKeeps DEF SpawnRefused
<1>12. ASSUME NEW size \in Sizes, NEW teb \in Sizes, SpawnWow64(size, teb) PROVE VmBooks'
  BY <1>12, SpawnWow64Step
<1>13. ASSUME NEW size \in Sizes, SpawnWow64Refused(size) PROVE VmBooks'
  <2>1. PICK b \in Aligned, c \in Aligned :
            /\ \E next \in Aligned : Wow64Stacks(BlockOf(b, size, "stack32"),
                                                  BlockOf(c, size, "stack64"), next)
            /\ regions' = RolledBack(regions, BlockOf(b, size, "stack32"),
                                     BlockOf(c, size, "stack64"))
    BY <1>13 DEF SpawnWow64Refused
  <2> DEFINE x == BlockOf(b, size, "stack32")
             y == BlockOf(c, size, "stack64")
  <2>2. x \in Block /\ y \in Block
    BY PlacesAreNat DEF BlockOf, Block, StackNames
  <2>3. Free(regions, x.base, x.size) /\ Free(With(regions, x), y.base, y.size)
    BY <2>1 DEF Wow64Stacks
  <2> HIDE DEF x, y
  <2>4. RolledBack(regions, x, y) = regions
    BY <2>2, <2>3, RollBackRestoresBoth DEF VmBooks, VmTyped, Apart
  <2>5. regions' = regions
    BY <2>1, <2>4 DEF x, y
  <2> QED
    BY <2>5, <1>13, NothingKeeps DEF SpawnWow64Refused
<1>14. ASSUME NEW t \in stacks, EndThread(t) PROVE VmBooks'
  <2>1. t.alive
    BY <1>14 DEF EndThread
  <2> QED
    BY <1>14, <2>1, EndKeeps
<1>15. CASE UNCHANGED vmVars
  BY <1>15, NothingKeeps DEF vmVars
<1> QED
  BY <1>1, <1>2, <1>3, <1>4, <1>5, <1>6, <1>7, <1>8, <1>9, <1>10, <1>11, <1>12, <1>13,
     <1>14, <1>15 DEF VmNext

(* Whatever the guest allocates, maps, frees and starts, and whatever the   *)
(* host refuses, what the table of allocations or a living thread owns is   *)
(* mapped as one region of its own, and nothing else but the images is: a   *)
(* release never takes a neighbour's memory, and nothing leaks.  It needs   *)
(* that no thread is terminated twice.                                      *)
THEOREM BooksCorrect ==
    ASSUME ~TwiceEnded
    PROVE  VmSpec => []BooksAgree
<1>1. VmInit => VmBooks
  BY BooksInit
<1>2. VmBooks /\ [VmNext]_vmVars => VmBooks'
  BY BooksStep
<1>3. VmBooks => BooksAgree
  BY DEF VmBooks, BooksAgree
<1> QED
  BY <1>1, <1>2, <1>3, PTL DEF VmSpec
-----------------------------------------------------------------------------
(* What VirtualQuery says.                                                  *)

(* A set of pages has a lowest one.                                         *)
LEMMA LowestExists ==
    ASSUME NEW S, S \subseteq Nat, S # {}
    PROVE  \E m \in Lowest(S) : m \in S /\ \A n \in S : m <= n
<1> DEFINE R == {ss \in Nat \X Nat : ss[1] < ss[2]}
<1>2. \E m \in S : \A n \in S : ~(<<n, m>> \in R)
  <2> HIDE DEF R
  <2>1. IsWellFoundedOn(R, Nat)
    BY NatLessThanWellFounded DEF R, OpToRel
  <2> QED
    BY <2>1, WFMin
<1>3. PICK m \in S : \A n \in S : ~(n < m)
  BY <1>2
<1>4. \A n \in S : m <= n
  <2> SUFFICES ASSUME NEW n \in S PROVE m <= n
    OBVIOUS
  <2>1. ~(n < m)
    BY <1>3
  <2>2. n \in Nat /\ m \in Nat
    OBVIOUS
  <2> QED
    BY <2>1, <2>2
<1> QED
  BY <1>4 DEF Lowest

(* An answer about a page: it is not empty, and every region is behind it,  *)
(* before it, or the one it is about.                                       *)
Tiled(q, p) ==
    /\ q.size > 0
    /\ \A r \in regions : \/ End(r) <= p \/ p + q.size <= r.base
                           \/ /\ q.alloc = {r.base}
                              /\ p + q.size = End(r)

(* The answer from the extent of a region that covers the page.             *)
LEMMA RegionTiles ==
    ASSUME VmTyped, Apart, NEW s \in regions, NEW p \in Nat, s.base <= p, p < End(s),
           NEW q, q.alloc = {s.base}, q.size = End(s) - p
    PROVE  Tiled(q, p)
<1>1. s.base \in Nat /\ s.size \in Nat /\ End(s) = s.base + s.size
  BY DEF VmTyped, Region, End
<1>2. q.size > 0 /\ p + q.size = End(s)
  BY <1>1
<1>3. ASSUME NEW r \in regions, r # s
      PROVE  End(r) <= p \/ p + q.size <= r.base
  <2>1. r.base \in Nat /\ r.size \in Nat /\ End(r) = r.base + r.size
    BY DEF VmTyped, Region, End
  <2>2. End(r) <= s.base \/ End(s) <= r.base
    BY <1>3 DEF Apart, Disjoint
  <2> QED
    BY <1>1, <1>2, <2>1, <2>2
<1> QED
  BY <1>2, <1>3 DEF Tiled

(* The answer about a page that nothing covers.                             *)
LEMMA HoleTiles ==
    ASSUME VmTyped, NEW p \in Nat, \A r \in regions : ~Covers(r, p),
           NEW q, q.size = IF After(p) = {} THEN MaxPage + 1
                           ELSE (CHOOSE b \in After(p) : TRUE) - p
    PROVE  Tiled(q, p)
<1> DEFINE S == {r.base : r \in {s \in regions : s.base > p}}
<1>1. \A r \in regions : r.base \in Nat /\ r.size \in Nat /\ End(r) = r.base + r.size
  BY DEF VmTyped, Region, End
<1>2. S \subseteq Nat /\ After(p) = Lowest(S)
  BY <1>1 DEF After
<1>3. \A r \in regions : r.base <= p => End(r) <= p
  BY <1>1 DEF Covers
<1>4. CASE S = {}
  <2>1. After(p) = {}
    BY <1>2, <1>4 DEF Lowest
  <2>2. q.size > 0
    BY <2>1, AddressSpaceAssumption
  <2>3. ASSUME NEW r \in regions PROVE r.base <= p
    <3>1. r.base > p => r.base \in S
      OBVIOUS
    <3>2. r.base \in Nat
      BY <1>1
    <3> HIDE DEF S
    <3> QED
      BY <1>4, <3>1, <3>2
  <2> QED
    BY <1>3, <2>2, <2>3 DEF Tiled
<1>5. CASE S # {}
  <2> HIDE DEF S
  <2>0. \E m \in Lowest(S) : m \in S
    BY <1>2, <1>5, LowestExists
  <2>1. After(p) # {}
    BY <1>2, <2>0
  <2> DEFINE b == CHOOSE b \in After(p) : TRUE
  <2>2. b \in Lowest(S) /\ q.size = b - p
    BY <1>2, <2>1
  <2> HIDE DEF b
  <2>3. b \in S /\ \A n \in S : b <= n
    BY <2>2 DEF Lowest
  <2> USE DEF S
  <2>4. b \in Nat /\ b > p
    BY <1>1, <2>3
  <2>5. q.size > 0 /\ p + q.size = b
    BY <2>2, <2>4
  <2>6. \A r \in regions : r.base > p => b <= r.base
    BY <2>3
  <2>7. ASSUME NEW r \in regions PROVE End(r) <= p \/ p + q.size <= r.base
    BY <1>1, <1>3, <2>5, <2>6
  <2> QED
    BY <2>5, <2>7 DEF Tiled
<1> QED
  BY <1>4, <1>5

LEMMA BooksTile ==
    ASSUME VmBooks, NEW p \in Pages
    PROVE  Tiled(Query(p), p)
<1>1. p \in Nat
  BY DEF Pages
<1>t. VmTyped /\ Apart
  BY DEF VmBooks
<1>2. CASE \E a \in vm_allocs : Covers(a, p)
  <2> DEFINE a == CHOOSE a \in vm_allocs : Covers(a, p)
  <2>1. a \in vm_allocs /\ Covers(a, p)
    BY <1>2
  <2>2. Query(p).alloc = {a.base} /\ Query(p).size = End(a) - p
    BY <1>2 DEF Query
  <2> HIDE DEF a
  <2>3. PICK s \in regions : Same(s, a)
    BY <2>1 DEF VmBooks, OwnedIsMapped, Owners
  <2>4. s.base = a.base /\ End(s) = End(a) /\ s.base <= p /\ p < End(s)
    BY <2>1, <2>3 DEF Same, End, Covers
  <2> QED
    BY <1>1, <1>t, <2>2, <2>4, RegionTiles
<1>3. CASE /\ \A a \in vm_allocs : ~Covers(a, p)
           /\ \E r \in regions : Covers(r, p)
  <2> DEFINE s == CHOOSE r \in regions : Covers(r, p)
  <2>1. s \in regions /\ Covers(s, p)
    BY <1>3
  <2>2. Query(p).alloc = {s.base} /\ Query(p).size = End(s) - p
    BY <1>3 DEF Query
  <2> HIDE DEF s
  <2>3. s.base <= p /\ p < End(s)
    BY <2>1 DEF Covers
  <2> QED
    BY <1>1, <1>t, <2>1, <2>2, <2>3, RegionTiles
<1>4. CASE /\ \A a \in vm_allocs : ~Covers(a, p)
           /\ \A r \in regions : ~Covers(r, p)
  <2>1. Query(p).size = IF After(p) = {} THEN MaxPage + 1
                        ELSE (CHOOSE b \in After(p) : TRUE) - p
    BY <1>4 DEF Query
  <2> QED
    BY <1>1, <1>t, <1>4, <2>1, HoleTiles
<1> QED
  BY <1>2, <1>3, <1>4

(* A guest that walks its memory with VirtualQuery meets every region at    *)
(* its first page and nothing twice, however the table and the regions came *)
(* about: answers from the table end where the region ends, answers about   *)
(* holes at the next region (vm_query_region).  It needs the agreement of   *)
(* the two books, and so that no thread is terminated twice.                *)
THEOREM QueriesTile ==
    ASSUME ~TwiceEnded
    PROVE  VmSpec => []QueryTiles
<1>1. VmInit => VmBooks
  BY BooksInit
<1>2. VmBooks /\ [VmNext]_vmVars => VmBooks'
  BY BooksStep
<1>3. VmBooks => QueryTiles
  BY BooksTile DEF QueryTiles, Tiled
<1> QED
  BY <1>1, <1>2, <1>3, PTL DEF VmSpec

-----------------------------------------------------------------------------
(* Rights.                                                                  *)

(* The regions alone: they lie apart, whoever owns them and however often a *)
(* thread is ended.                                                         *)
RegionsApart == regions \subseteq Region /\ Apart

(* A step that changes no region: it removes some, or adds some at places   *)
(* where none was.                                                          *)
ChangesNone == \A s \in regions' : s \in regions \/ \A r \in regions : r.base # s.base

LEMMA FewerRegions ==
    ASSUME RegionsApart, regions' \subseteq regions
    PROVE  RegionsApart' /\ ChangesNone
  BY DEF RegionsApart, Apart, ChangesNone

(* Insert.                                                                  *)
LEMMA InsertedRegion ==
    ASSUME RegionsApart, NEW base \in Nat, NEW size \in Nat \ {0}, NEW prot, NEW committed,
           NEW name \in TableNames, Insert(base, size, prot, committed, name)
    PROVE  RegionsApart' /\ ChangesNone
<1> DEFINE n == Mapped(base, size, Rights, name)
<1>1. regions' = regions \cup {n} /\ Free(regions, base, size)
  BY DEF Insert
<1>2. n \in Region /\ n.base = base /\ n.size = size
  BY DEF Mapped, Region, RegionNames
<1> HIDE DEF n
<1>3. \A r \in regions : Disjoint(r, n) /\ Disjoint(n, r)
  BY <1>1, <1>2 DEF Free, Disjoint, End
<1>4. \A r \in regions : r.base # n.base
  <2> SUFFICES ASSUME NEW r \in regions, r.base = n.base PROVE FALSE
    OBVIOUS
  <2>1. r.base \in Nat /\ r.size \in Nat /\ r.size > 0
    BY DEF RegionsApart, Region
  <2>2. Disjoint(r, n)
    BY <1>3
  <2> QED
    BY <2>1, <2>2, <1>2 DEF Disjoint, End
<1> QED
  BY <1>1, <1>2, <1>3, <1>4 DEF RegionsApart, Apart, ChangesNone

(* Mapping a block of a thread where it is free.                            *)
LEMMA BlockIsNew ==
    ASSUME NEW rs, rs \subseteq Region, NEW b \in Block, Free(rs, b.base, b.size)
    PROVE  \A r \in rs : r.base # b.base
<1> SUFFICES ASSUME NEW r \in rs, r.base = b.base PROVE FALSE
  OBVIOUS
<1>1. r.base \in Nat /\ r.size \in Nat /\ r.size > 0
  BY DEF Region
<1>2. b.base \in Nat /\ b.size \in Nat /\ b.size > 0
  BY DEF Block
<1>3. r.base + r.size <= b.base \/ b.base + b.size <= r.base
  BY DEF Free, Disjoint, End
<1> QED
  BY <1>1, <1>2, <1>3

LEMMA MappedBlock ==
    ASSUME NEW rs, rs \subseteq Region, \A r, s \in rs : r # s => Disjoint(r, s),
           NEW old, \A s \in rs : s \in old \/ \A r \in old : r.base # s.base, old \subseteq rs,
           NEW b \in Block, Free(rs, b.base, b.size)
    PROVE  /\ With(rs, b) \subseteq Region
           /\ \A r, s \in With(rs, b) : r # s => Disjoint(r, s)
           /\ \A s \in With(rs, b) : s \in old \/ \A r \in old : r.base # s.base
           /\ old \subseteq With(rs, b)
<1>1. /\ With(rs, b) \subseteq Region
      /\ \A r, s \in With(rs, b) : r # s => Disjoint(r, s)
  BY MapBlock
<1>2. \A r \in rs : r.base # b.base
  BY BlockIsNew
<1>3. With(rs, b) = rs \cup {RegionOf(b)} /\ RegionOf(b).base = b.base
  BY DEF With, RegionOf, Mapped
<1> QED
  BY <1>1, <1>2, <1>3

(* Ending a thread that has ended before may take other memory away, and    *)
(* still changes no region.                                                 *)
LEMMA RegionsStep ==
    ASSUME RegionsApart, [VmNext]_vmVars
    PROVE  /\ RegionsApart'
           /\ \/ ChangesNone
              \/ \E page \in Pages, size \in Sizes, prot \in Prots : ProtectImage(page, size, prot)
<1> USE AddressSpaceAssumption
<1> DEFINE Good == RegionsApart' /\ ChangesNone
<1>v. "valloc" \in TableNames /\ "view" \in TableNames
  BY DEF TableNames
<1>i. ASSUME NEW base \in Nat, NEW size \in Sizes, NEW prot, NEW committed,
             NEW name \in {"valloc", "view"}, Insert(base, size, prot, committed, name)
      PROVE  Good
  BY <1>i, <1>v, InsertedRegion
<1>s. ASSUME regions' = regions PROVE Good
  BY <1>s, FewerRegions
<1>1. ASSUME NEW size \in Sizes, HighRefused(size) PROVE Good
  BY <1>1, <1>s DEF HighRefused
<1>2. ASSUME NEW size \in Sizes, NEW prot \in Prots, NEW committed \in BOOLEAN,
             AllocHigh(size, prot, committed) \/ AllocLow(size, prot, committed)
      PROVE  Good
  <2>1. PICK base \in Nat : Insert(base, size, prot, committed, "valloc")
    BY <1>2, PlacesAreNat DEF AllocHigh, AllocLow
  <2> QED
    BY <2>1, <1>i
<1>3. ASSUME NEW page, NEW a, NEW b, Marked(page, a, b) PROVE Good
  BY <1>3, <1>s DEF Marked
<1>4. ASSUME NEW page \in Asked, NEW size \in Sizes, NEW prot \in Prots,
             NEW committed \in BOOLEAN, AllocFixed(page, size, prot, committed)
      PROVE  Good
  BY <1>4, <1>i DEF AllocFixed
<1>5. ASSUME NEW page, Release(page) \/ UnmapView(page) PROVE Good
  BY <1>5, FewerRegions DEF Release, UnmapView, UnmapAt
<1>9. ASSUME NEW page, NEW size \in Sizes, NEW prot \in Prots, NEW image \in BOOLEAN,
             MapViewHigh(size, prot, image) \/ MapViewLow(size, prot, image)
             \/ MapViewAt(page, size, prot, image)
      PROVE  Good
  <2>1. PICK base \in Nat : Insert(base, size, prot, TRUE, "view")
    BY <1>9, PlacesAreNat DEF MapViewHigh, MapViewLow, MapViewAt, View
  <2> QED
    BY <2>1, <1>i
<1>r. /\ regions \subseteq Region /\ \A r, s \in regions : r # s => Disjoint(r, s)
      /\ regions \subseteq regions
      /\ \A s \in regions : s \in regions \/ \A r \in regions : r.base # s.base
  BY DEF RegionsApart, Apart
<1>b. \A b \in Aligned, size \in Sizes, name \in StackNames : BlockOf(b, size, name) \in Block
  BY PlacesAreNat DEF BlockOf, Block
<1>n. {"thread-stack", "thread-teb", "stack32", "stack64", "teb-block"} \subseteq StackNames
  BY DEF StackNames
<1>10. ASSUME NEW size \in Sizes, NEW teb \in Sizes, Spawn(size, teb) PROVE Good
  <2>1. PICK b \in Aligned, c \in Aligned :
            /\ \E next \in Aligned : SpawnBlocks(BlockOf(b, size, "thread-stack"),
                                                  BlockOf(c, teb, "thread-teb"), next)
            /\ regions' = With(With(regions, BlockOf(b, size, "thread-stack")),
                               BlockOf(c, teb, "thread-teb"))
    BY <1>10 DEF Spawn
  <2> DEFINE x == BlockOf(b, size, "thread-stack")
             y == BlockOf(c, teb, "thread-teb")
  <2>2. x \in Block /\ y \in Block
    BY <1>b, <1>n
  <2>3. Free(regions, x.base, x.size) /\ Free(With(regions, x), y.base, y.size)
    BY <2>1 DEF SpawnBlocks
  <2>4. regions' = With(With(regions, x), y)
    BY <2>1
  <2> HIDE DEF x, y
  <2>5. /\ With(regions, x) \subseteq Region
        /\ \A r, s \in With(regions, x) : r # s => Disjoint(r, s)
        /\ \A s \in With(regions, x) : s \in regions \/ \A r \in regions : r.base # s.base
        /\ regions \subseteq With(regions, x)
    BY <1>r, <2>2, <2>3, MappedBlock
  <2>6. /\ With(With(regions, x), y) \subseteq Region
        /\ \A r, s \in With(With(regions, x), y) : r # s => Disjoint(r, s)
        /\ \A s \in With(With(regions, x), y) :
             s \in regions \/ \A r \in regions : r.base # s.base
    BY <2>2, <2>3, <2>5, MappedBlock
  <2> QED
    BY <2>4, <2>6 DEF RegionsApart, Apart, ChangesNone
<1>11. ASSUME NEW size \in Sizes, NEW teb \in Sizes, SpawnRefused(size, teb) PROVE Good
  <2>1. PICK b \in Aligned, c \in Aligned :
            /\ \E next \in Aligned : SpawnBlocks(BlockOf(b, size, "thread-stack"),
                                                  BlockOf(c, teb, "thread-teb"), next)
            /\ regions' = Unmap(With(regions, BlockOf(b, size, "thread-stack")),
                                {BlockOf(b, size, "thread-stack")})
    BY <1>11 DEF SpawnRefused
  <2> DEFINE x == BlockOf(b, size, "thread-stack")
  <2>2. x \in Block /\ Free(regions, x.base, x.size) /\ regions' = Unmap(With(regions, x), {x})
    BY <1>b, <1>n, <2>1 DEF SpawnBlocks
  <2> HIDE DEF x
  <2> QED
    BY <1>r, <1>s, <2>2, RollBackRestores
<1>12. ASSUME NEW size \in Sizes, NEW teb \in Sizes, SpawnWow64(size, teb) PROVE Good
  <2>1. PICK b \in Aligned, c \in Aligned :
            LET low  == BlockOf(b, size, "stack32")
                high == BlockOf(c, size, "stack64")
                both == With(With(regions, low), high)
            IN  /\ \E next \in Aligned : Wow64Stacks(low, high, next)
                /\ \E d \in LowPlaces(both, teb) :
                      LET block == BlockOf(d, teb, "teb-block")
                      IN  /\ Free(both, d, teb)
                          /\ regions' = With(both, block)
    BY <1>12 DEF SpawnWow64
  <2> DEFINE x == BlockOf(b, size, "stack32")
             y == BlockOf(c, size, "stack64")
             both == With(With(regions, x), y)
  <2>2. PICK d \in LowPlaces(both, teb) :
            /\ Free(both, d, teb)
            /\ regions' = With(both, BlockOf(d, teb, "teb-block"))
    BY <2>1
  <2> DEFINE z == BlockOf(d, teb, "teb-block")
  <2>3. x \in Block /\ y \in Block
    BY <1>b, <1>n
  <2>4. d \in Nat
    BY PlacesAreNat
  <2>5. z \in Block /\ z.base = d /\ z.size = teb
    BY <1>n, <2>4 DEF BlockOf, Block
  <2>6. Free(regions, x.base, x.size) /\ Free(With(regions, x), y.base, y.size)
    BY <2>1 DEF Wow64Stacks
  <2>7. Free(both, z.base, z.size) /\ regions' = With(both, z)
    BY <2>2, <2>5
  <2> HIDE DEF x, y, z
  <2>8. /\ With(regions, x) \subseteq Region
        /\ \A r, s \in With(regions, x) : r # s => Disjoint(r, s)
        /\ \A s \in With(regions, x) : s \in regions \/ \A r \in regions : r.base # s.base
        /\ regions \subseteq With(regions, x)
    BY <1>r, <2>3, <2>6, MappedBlock
  <2>9. /\ both \subseteq Region
        /\ \A r, s \in both : r # s => Disjoint(r, s)
        /\ \A s \in both : s \in regions \/ \A r \in regions : r.base # s.base
        /\ regions \subseteq both
    BY <2>3, <2>6, <2>8, MappedBlock
  <2> HIDE DEF both
  <2>10. /\ With(both, z) \subseteq Region
         /\ \A r, s \in With(both, z) : r # s => Disjoint(r, s)
         /\ \A s \in With(both, z) : s \in regions \/ \A r \in regions : r.base # s.base
    BY <2>5, <2>7, <2>9, MappedBlock
  <2> QED
    BY <2>7, <2>10 DEF RegionsApart, Apart, ChangesNone
<1>13. ASSUME NEW size \in Sizes, SpawnWow64Refused(size) PROVE Good
  <2>1. PICK b \in Aligned, c \in Aligned :
            /\ \E next \in Aligned : Wow64Stacks(BlockOf(b, size, "stack32"),
                                                  BlockOf(c, size, "stack64"), next)
            /\ regions' = RolledBack(regions, BlockOf(b, size, "stack32"),
                                     BlockOf(c, size, "stack64"))
    BY <1>13 DEF SpawnWow64Refused
  <2> DEFINE x == BlockOf(b, size, "stack32")
             y == BlockOf(c, size, "stack64")
  <2>2. x \in Block /\ y \in Block
    BY <1>b, <1>n
  <2>3. /\ Free(regions, x.base, x.size) /\ Free(With(regions, x), y.base, y.size)
        /\ regions' = RolledBack(regions, x, y)
    BY <2>1 DEF Wow64Stacks
  <2> HIDE DEF x, y
  <2> QED
    BY <1>r, <1>s, <2>2, <2>3, RollBackRestoresBoth
<1>14. ASSUME NEW t \in stacks, EndThread(t) PROVE Good
  BY <1>14, FewerRegions DEF EndThread, Unmap
<1>15. ASSUME UNCHANGED vmVars PROVE Good
  BY <1>15, <1>s DEF vmVars
<1>p. ASSUME NEW page \in Pages, NEW size \in Sizes, NEW prot \in Prots,
             ProtectImage(page, size, prot)
      PROVE  RegionsApart'
  <2> DEFINE f(r) == Reprotected(r, page, page + size, prot)
  <2>1. regions' = {f(r) : r \in regions}
    BY <1>p DEF ProtectImage
  <2>2. \A r \in regions : f(r) \in Region /\ f(r).base = r.base /\ f(r).size = r.size
    BY <1>r DEF Reprotected, Region
  <2> HIDE DEF f
  <2>3. ASSUME NEW r \in regions, NEW s \in regions, f(r) # f(s) PROVE Disjoint(f(r), f(s))
    BY <1>r, <2>2, <2>3 DEF Disjoint, End
  <2> QED
    BY <2>1, <2>2, <2>3 DEF RegionsApart, Apart
<1> HIDE DEF Good
<1>16. \/ Good
       \/ RegionsApart' /\ \E page \in Pages, size \in Sizes, prot \in Prots :
                              ProtectImage(page, size, prot)
  <2>1. ASSUME NEW page, NEW prot, NEW committed,
               Recommit(page, prot, committed) \/ Decommit(page) \/ Protect(page, prot)
        PROVE  Good
    BY <2>1, <1>3 DEF Recommit, Decommit, Protect
  <2>2. CASE \/ \E size \in Sizes : HighRefused(size)
             \/ \E size \in Sizes, prot \in Prots, committed \in BOOLEAN :
                   AllocHigh(size, prot, committed) \/ AllocLow(size, prot, committed)
             \/ \E page \in Asked, size \in Sizes, prot \in Prots, committed \in BOOLEAN :
                   AllocFixed(page, size, prot, committed)
    BY <2>2, <1>1, <1>2, <1>4
  <2>3. CASE \/ \E page \in Pages, prot \in Prots \cup {{}}, committed \in BOOLEAN :
                   Recommit(page, prot, committed)
             \/ \E page \in Pages : Release(page) \/ Decommit(page) \/ UnmapView(page)
             \/ \E page \in Pages, prot \in Prots : Protect(page, prot)
    BY <2>3, <2>1, <1>5
  <2>4. CASE \E page \in Pages, size \in Sizes, prot \in Prots : ProtectImage(page, size, prot)
    BY <2>4, <1>p
  <2>5. CASE \/ \E size \in Sizes, prot \in Prots, image \in BOOLEAN :
                   MapViewHigh(size, prot, image) \/ MapViewLow(size, prot, image)
             \/ \E page \in Asked, size \in Sizes, prot \in Prots, image \in BOOLEAN :
                   MapViewAt(page, size, prot, image)
    BY <2>5, <1>9
  <2>6. CASE \/ \E size, teb \in Sizes : Spawn(size, teb) \/ SpawnRefused(size, teb)
             \/ \E size, teb \in Sizes : SpawnWow64(size, teb)
             \/ \E size \in Sizes : SpawnWow64Refused(size)
             \/ \E t \in stacks : EndThread(t)
    BY <2>6, <1>10, <1>11, <1>12, <1>13, <1>14
  <2>7. CASE VmNext
    BY <2>7, <2>2, <2>3, <2>4, <2>5, <2>6 DEF VmNext
  <2> QED
    BY <2>7, <1>15
<1> QED
  BY <1>16 DEF Good

(* NtProtectVirtualMemory takes rights from no page outside its range, and  *)
(* no other call of the guest or failure of the host takes any: a region    *)
(* that lost a right lay in the range as a whole.  Threads may be           *)
(* terminated twice here.                                                   *)
THEOREM RightsOutsideStay == VmSpec => ProtectKeepsToRange
<1>1. VmInit => RegionsApart
  BY AddressSpaceAssumption DEF VmInit, RegionsApart, Apart
<1>2. RegionsApart /\ [VmNext]_vmVars => RegionsApart'
  BY RegionsStep
<1>3. ASSUME RegionsApart, [VmNext]_vmVars, NEW r \in regions, NEW s \in regions',
             r.base = s.base, r.size = s.size, ~(r.perm \subseteq s.perm)
      PROVE  \E page \in Pages, size \in Sizes, prot \in Prots :
                 /\ ProtectImage(page, size, prot)
                 /\ page <= r.base /\ End(r) <= page + size
  <2>0. ASSUME NEW u \in regions, u.base = r.base PROVE u = r
    <3>1. /\ r.base \in Nat /\ r.size \in Nat /\ r.size > 0
          /\ u.base \in Nat /\ u.size \in Nat /\ u.size > 0
      BY <1>3 DEF RegionsApart, Region
    <3>2. ~Disjoint(u, r)
      BY <2>0, <3>1 DEF Disjoint, End
    <3> QED
      BY <1>3, <3>2 DEF RegionsApart, Apart
  <2>1. ~ChangesNone
    <3> SUFFICES ASSUME ChangesNone PROVE FALSE
      OBVIOUS
    <3>1. s \in regions
      BY <1>3 DEF ChangesNone
    <3> QED
      BY <1>3, <2>0, <3>1
  <2>2. PICK page \in Pages, size \in Sizes, prot \in Prots : ProtectImage(page, size, prot)
    BY <1>3, <2>1, RegionsStep
  <2>3. PICK u \in regions : s = Reprotected(u, page, page + size, prot)
    BY <2>2 DEF ProtectImage
  <2>4. u \in Region /\ r \in Region
    BY <1>3 DEF RegionsApart
  <2>5. u = r
    <3>1. s.base = u.base
      BY <2>3, <2>4 DEF Reprotected, Region
    <3> QED
      BY <1>3, <2>0, <3>1
  <2>6. r.base < page + size /\ End(r) > page /\ r.base >= page /\ End(r) <= page + size
    BY <1>3, <2>3, <2>4, <2>5 DEF Reprotected, Region
  <2>7. page \in Int /\ r.base \in Int
    BY <2>4 DEF Pages, Region
  <2> QED
    BY <2>2, <2>6, <2>7
<1>4. RegionsApart /\ [VmNext]_vmVars =>
        [\A r \in regions, s \in regions' :
            r.base = s.base /\ r.size = s.size /\ ~(r.perm \subseteq s.perm) =>
                \E page \in Pages, size \in Sizes, prot \in Prots :
                    /\ ProtectImage(page, size, prot)
                    /\ page <= r.base /\ End(r) <= page + size]_vmVars
  BY <1>3
<1> QED
  BY <1>1, <1>2, <1>4, PTL DEF VmSpec, ProtectKeepsToRange

-----------------------------------------------------------------------------
(* A path names nothing, a directory or a file that was created; so does an *)
(* open handle, and it is never before the start of its file.               *)
Node(n) == n = Dir \/ n \in 1 .. Len(lengths)
FilesExist ==
    /\ lengths \in Seq(Nat)
    /\ DOMAIN fs = Paths /\ \A p \in Paths : fs[p] = None \/ Node(fs[p])
    /\ \A h \in DOMAIN files : Node(files[h].node) /\ files[h].pos \in Nat

NodesOf(f, n) == DOMAIN f = Paths /\ \A p \in Paths : f[p] = None \/ f[p] = Dir \/ f[p] \in 1 .. n

(* Making directories and renaming leave no path that names nothing made.   *)
LEMMA MadeNodes ==
    ASSUME NEW f, NEW p, NEW n, NodesOf(f, n)
    PROVE  NodesOf(MadeAll(f, p), n)
  BY DEF NodesOf, MadeAll

LEMMA RenamedNodes ==
    ASSUME NEW f, NEW s, NEW d, NEW n, NodesOf(f, n)
    PROVE  NodesOf(Renamed(f, s, d), n)
<1>1. DOMAIN Renamed(f, s, d) = Paths
  BY DEF Renamed
<1>2. ASSUME NEW q \in Paths
      PROVE  LET g == Renamed(f, s, d) IN g[q] = None \/ g[q] = Dir \/ g[q] \in 1 .. n
  <2>1. CASE Inside(s, q) \/ ~Inside(d, q)
    BY <2>1, ZenonT(20) DEF Renamed, NodesOf
  <2>2. CASE ~Inside(s, q) /\ Inside(d, q)
    <3> DEFINE from == s \o SubSeq(q, Len(d) + 1, Len(q))
    <3>1. Renamed(f, s, d)[q] = IF from \in Paths THEN f[from] ELSE None
      BY <2>2 DEF Renamed
    <3> HIDE DEF from
    <3> QED
      BY <3>1 DEF NodesOf
  <2> QED
    BY <2>1, <2>2
<1> QED
  BY <1>1, <1>2 DEF NodesOf

(* A file more, or a file emptied or of another length.                     *)
LEMMA Grown ==
    ASSUME FilesExist
    PROVE  /\ Len(lengths) \in Nat /\ NodesOf(fs, Len(lengths))
           /\ lengths \in Seq(Nat) /\ Append(lengths, 0) \in Seq(Nat)
           /\ Len(Append(lengths, 0)) = Len(lengths) + 1
           /\ \A n \in 1 .. Len(lengths) : /\ Emptied(n) \in Seq(Nat)
                                           /\ Len(Emptied(n)) = Len(lengths)
           /\ \A n \in 1 .. Len(lengths), k \in Nat :
                 /\ [lengths EXCEPT ![n] = k] \in Seq(Nat)
                 /\ Len([lengths EXCEPT ![n] = k]) = Len(lengths)
  BY DEF FilesExist, NodesOf, Node, Emptied

(* What a call leaves of the state, when it makes no file but the next.     *)
Keeps(f, ls) == /\ ls \in Seq(Nat) /\ Len(ls) >= Len(lengths)
                /\ NodesOf(f, Len(ls))
LEMMA SameHandles ==
    ASSUME FilesExist, Keeps(fs', lengths'), UNCHANGED files
    PROVE  FilesExist'
<1>1. Len(lengths) \in Nat /\ Len(lengths') \in Nat
  BY DEF FilesExist, Keeps
<1>2. \A h \in DOMAIN files : Node(files[h].node)'
  BY <1>1 DEF FilesExist, Keeps, Node
<1> QED
  BY <1>1, <1>2 DEF FilesExist, Keeps, NodesOf, Node

(* A handle is opened on something that is there.                           *)
LEMMA OneHandle ==
    ASSUME FilesExist, Keeps(fs', lengths'),
           NEW n, NEW writes, NewHandle(n, writes), n = Dir \/ n \in 1 .. Len(lengths')
    PROVE  FilesExist'
<1>1. Len(lengths) \in Nat /\ Len(lengths') \in Nat
  BY DEF FilesExist, Keeps
<1> DEFINE r == [node |-> n, pos |-> 0, writes |-> writes]
<1>2. /\ DOMAIN files' = DOMAIN files \cup {given'}
      /\ \A k \in DOMAIN files' : files'[k] = IF k = given' THEN r ELSE files[k]
  BY DEF NewHandle, Plus
<1>3. r.node = n /\ r.pos = 0
  OBVIOUS
<1> HIDE DEF r
<1>4. \A h \in DOMAIN files : Node(files[h].node)' \/ h = given'
  BY <1>1, <1>2 DEF FilesExist, Keeps, Node
<1>5. \A h \in DOMAIN files' : Node(files[h].node)' /\ files'[h].pos \in Nat
  <2> TAKE h \in DOMAIN files'
  <2>1. CASE h = given'
    BY <2>1, <1>2, <1>3 DEF Node
  <2>2. CASE h # given'
    BY <2>2, <1>1, <1>2 DEF Node, FilesExist, Keeps
  <2> QED
    BY <2>1, <2>2
<1> QED
  BY <1>5 DEF FilesExist, Keeps, NodesOf, Node

(* The calls, one lemma for those that do alike: NtCreateFile, NtOpenFile,  *)
(* CreateFile, GetTempFileName, the changes of paths and CopyFile.          *)
LEMMA CreateFileKeeps ==
    ASSUME FilesExist, NEW p \in Paths, NEW kind, NEW want, NEW writes, NEW hosts,
           nt_create_file(p, kind, want, writes, hosts)
    PROVE  FilesExist'
<1> DEFINE refusal == Refusal(p, kind, want)
           made == IF fs[p] = None /\ want = {"dir"} THEN [fs EXCEPT ![p] = Dir] ELSE fs
           node == IF made[p] # None THEN made[p] ELSE Len(lengths) + 1
<1>1. NodesOf(made, Len(lengths)) /\ Len(lengths) \in Nat
  BY Grown DEF NodesOf
<1>2. CASE refusal # "none" \/ ~hosts
  <2>1. fs' = (IF refusal # "none" THEN fs ELSE made) /\ UNCHANGED <<lengths, files>>
    BY <1>2 DEF nt_create_file
  <2> HIDE DEF refusal, made, node
  <2>2. Keeps(fs', lengths')
    BY <2>1, <1>1, Grown DEF Keeps
  <2> QED
    BY <2>1, <2>2, SameHandles
<1>3. CASE ~(refusal # "none" \/ ~hosts)
  <2>1. /\ fs' = [made EXCEPT ![p] = node]
        /\ lengths' = IF node > Len(lengths) THEN Append(lengths, 0)
                      ELSE IF node > 0 /\ kind \in Truncating THEN Emptied(node)
                      ELSE lengths
        /\ NewHandle(node, node # Dir /\ (writes \/ kind # "open"))
    BY <1>3 DEF nt_create_file
  <2>2. node = Dir \/ node \in 1 .. Len(lengths) + 1
    BY <1>1 DEF NodesOf
  <2> HIDE DEF refusal, made, node
  <2>3. /\ lengths' \in Seq(Nat) /\ Len(lengths') >= Len(lengths)
        /\ node = Dir \/ node \in 1 .. Len(lengths')
    <3>1. CASE node > Len(lengths)
      BY <3>1, <1>1, <2>1, <2>2, Grown
    <3>2. CASE ~(node > Len(lengths))
      <4>1. node = Dir \/ node \in 1 .. Len(lengths)
        BY <3>2, <1>1, <2>2
      <4>2. lengths' = lengths \/ (node \in 1 .. Len(lengths) /\ lengths' = Emptied(node))
        BY <3>2, <4>1, <2>1 DEF Dir
      <4> QED
        BY <1>1, <4>1, <4>2, Grown
    <3> QED
      BY <3>1, <3>2
  <2>4. Keeps(fs', lengths')
    BY <2>1, <2>3, <1>1 DEF Keeps, NodesOf
  <2> QED
    BY <2>1, <2>3, <2>4, OneHandle
<1> QED
  BY <1>2, <1>3

LEMMA OpenFileKeeps ==
    ASSUME FilesExist, NEW p \in Paths, NEW write, nt_open_file(p, write)
    PROVE  FilesExist'
<1>1. NewHandle(fs[p], write /\ fs[p] # Dir) /\ UNCHANGED <<fs, lengths>> /\ fs[p] # None
  BY DEF nt_open_file
<1>2. Keeps(fs', lengths') /\ (fs[p] = Dir \/ fs[p] \in 1 .. Len(lengths'))
  BY <1>1, Grown DEF Keeps, NodesOf
<1> QED
  BY <1>1, <1>2, OneHandle

LEMMA Win32CreateKeeps ==
    ASSUME FilesExist, NEW p \in Paths, NEW kind, NEW write, create_file(p, kind, write)
    PROVE  FilesExist'
<1> DEFINE f == MadeAll(fs, Parent(p))
           writes == write \/ kind # "OPEN_EXISTING"
           fails == \/ ~IsDir(f, Parent(p))
                    \/ f[p] = None /\ kind \in {"OPEN_EXISTING", "TRUNCATE_EXISTING"}
                    \/ f[p] # None /\ kind = "CREATE_NEW"
                    \/ f[p] = Dir /\ writes
           node == IF f[p] # None THEN f[p] ELSE Len(lengths) + 1
<1>1. NodesOf(f, Len(lengths)) /\ Len(lengths) \in Nat
  BY Grown, MadeNodes
<1>2. CASE fails
  <2>1. fs' = f /\ UNCHANGED <<lengths, files>>
    BY <1>2 DEF create_file
  <2> HIDE DEF f, fails, node
  <2>2. Keeps(fs', lengths')
    BY <2>1, <1>1, Grown DEF Keeps
  <2> QED
    BY <2>1, <2>2, SameHandles
<1>3. CASE ~fails
  <2>1. /\ fs' = [f EXCEPT ![p] = node]
        /\ lengths' = IF node > Len(lengths) THEN Append(lengths, 0)
                      ELSE IF node > 0 /\ kind \in {"CREATE_ALWAYS", "TRUNCATE_EXISTING"} THEN Emptied(node)
                      ELSE lengths
        /\ NewHandle(node, writes)
    BY <1>3 DEF create_file
  <2> HIDE DEF f, fails
  <2>2. node = Dir \/ node \in 1 .. Len(lengths) + 1
    BY <1>1 DEF NodesOf
  <2> HIDE DEF node, writes
  <2>3. /\ lengths' \in Seq(Nat) /\ Len(lengths') >= Len(lengths)
        /\ node = Dir \/ node \in 1 .. Len(lengths')
    <3>1. CASE node > Len(lengths)
      BY <3>1, <1>1, <2>1, <2>2, Grown
    <3>2. CASE ~(node > Len(lengths))
      <4>1. node = Dir \/ node \in 1 .. Len(lengths)
        BY <3>2, <1>1, <2>2
      <4>2. lengths' = lengths \/ (node \in 1 .. Len(lengths) /\ lengths' = Emptied(node))
        BY <3>2, <4>1, <2>1 DEF Dir
      <4> QED
        BY <1>1, <4>1, <4>2, Grown
    <3> QED
      BY <3>1, <3>2
  <2>4. Keeps(fs', lengths')
    BY <2>1, <2>3, <1>1 DEF Keeps, NodesOf
  <2> QED
    BY <2>1, <2>3, <2>4, OneHandle
<1> QED
  BY <1>2, <1>3

LEMMA TempFileKeeps ==
    ASSUME FilesExist, NEW p \in Paths, temp_file_name(p)
    PROVE  FilesExist'
<1> DEFINE f == MadeAll(fs, Parent(p))
<1>1. NodesOf(f, Len(lengths)) /\ Len(lengths) \in Nat
  BY Grown, MadeNodes
<1>2. /\ fs' = IF IsDir(f, Parent(p)) /\ f[p] = None THEN [f EXCEPT ![p] = Len(lengths) + 1] ELSE f
      /\ lengths' = IF fs'[p] > Len(lengths) THEN Append(lengths, 0)
                    ELSE IF fs'[p] > 0 THEN Emptied(fs'[p])
                    ELSE lengths
      /\ UNCHANGED files
  BY DEF temp_file_name
<1> HIDE DEF f
<1>3. CASE IsDir(f, Parent(p)) /\ f[p] = None
  <2>1. fs'[p] = Len(lengths) + 1
    BY <1>1, <1>2, <1>3 DEF NodesOf
  <2>2. lengths' \in Seq(Nat) /\ Len(lengths') = Len(lengths) + 1
    BY <1>1, <1>2, <2>1, Grown
  <2>3. Keeps(fs', lengths')
    BY <1>1, <1>2, <1>3, <2>2 DEF Keeps, NodesOf
  <2> QED
    BY <1>2, <2>3, SameHandles
<1>4. CASE ~(IsDir(f, Parent(p)) /\ f[p] = None)
  <2>1. fs' = f /\ (f[p] = None \/ f[p] = Dir \/ f[p] \in 1 .. Len(lengths))
    BY <1>1, <1>2, <1>4 DEF NodesOf
  <2>2. lengths' \in Seq(Nat) /\ Len(lengths') = Len(lengths)
    BY <1>1, <1>2, <2>1, Grown DEF None, Dir
  <2>3. Keeps(fs', lengths')
    BY <1>1, <2>1, <2>2 DEF Keeps, NodesOf
  <2> QED
    BY <1>2, <2>3, SameHandles
<1> QED
  BY <1>3, <1>4

LEMMA PathsChangeKeeps ==
    ASSUME FilesExist, NEW p \in Paths,
           \/ create_directory(p) \/ delete_file(p)
           \/ \E d \in Paths : move_file(p, d)
    PROVE  FilesExist'
<1>1. UNCHANGED <<lengths, files>>
  BY DEF create_directory, delete_file, move_file
<1>2. NodesOf(fs', Len(lengths))
  <2>1. CASE create_directory(p)
    BY <2>1, Grown, MadeNodes DEF create_directory
  <2>2. CASE delete_file(p)
    BY <2>2, Grown DEF delete_file, NodesOf
  <2>3. ASSUME NEW d \in Paths, move_file(p, d) PROVE NodesOf(fs', Len(lengths))
    BY <2>3, Grown, MadeNodes, RenamedNodes DEF move_file
  <2> QED
    BY <2>1, <2>2, <2>3
<1>3. Keeps(fs', lengths')
  BY <1>1, <1>2, Grown DEF Keeps
<1> QED
  BY <1>1, <1>3, SameHandles

LEMMA CopyKeeps ==
    ASSUME FilesExist, NEW s \in Paths, NEW d \in Paths, NEW fail, copy_file(s, d, fail)
    PROVE  FilesExist'
<1> DEFINE f == MadeAll(fs, Parent(d))
<1>1. NodesOf(f, Len(lengths)) /\ Len(lengths) \in Nat
  BY Grown, MadeNodes
<1>2. /\ IF IsFile(f, s) /\ IsDir(f, Parent(d)) /\ f[d] # Dir
          THEN /\ fs' = [f EXCEPT ![d] = IF @ = None THEN Len(lengths) + 1 ELSE @]
               /\ lengths' = IF f[d] = None THEN Append(lengths, lengths[f[s]])
                             ELSE IF s = d THEN Emptied(f[s])
                             ELSE [lengths EXCEPT ![f[d]] = lengths[f[s]]]
          ELSE fs' = f /\ lengths' = lengths
      /\ UNCHANGED files
  BY DEF copy_file
<1> HIDE DEF f
<1>3. CASE ~(IsFile(f, s) /\ IsDir(f, Parent(d)) /\ f[d] # Dir)
  <2>1. Keeps(fs', lengths')
    BY <1>1, <1>2, <1>3, Grown DEF Keeps
  <2> QED
    BY <1>2, <2>1, SameHandles
<1>4. CASE IsFile(f, s) /\ IsDir(f, Parent(d)) /\ f[d] # Dir
  <2>1. f[s] \in 1 .. Len(lengths) /\ lengths[f[s]] \in Nat
    BY <1>1, <1>4 DEF IsFile, NodesOf, FilesExist, None, Dir
  <2>2. /\ lengths' \in Seq(Nat) /\ Len(lengths') >= Len(lengths)
        /\ f[d] = None => Len(lengths') = Len(lengths) + 1
    <3>1. CASE f[d] = None
      <4>1. lengths' = Append(lengths, lengths[f[s]])
        BY <3>1, <1>2, <1>4
      <4>2. lengths \in Seq(Nat) /\ Len(lengths) \in Nat
        BY <1>1 DEF FilesExist
      <4> QED
        BY <4>1, <4>2, <2>1
    <3>2. CASE f[d] # None
      <4>1. f[d] \in 1 .. Len(lengths)
        BY <3>2, <1>1, <1>4 DEF NodesOf
      <4>2. lengths' = Emptied(f[s]) \/ lengths' = [lengths EXCEPT ![f[d]] = lengths[f[s]]]
        BY <3>2, <1>2, <1>4
      <4>3. lengths' \in Seq(Nat) /\ Len(lengths') = Len(lengths)
        BY <4>1, <4>2, <2>1, Grown
      <4> QED
        BY <3>2, <4>3, <1>1
    <3> QED
      BY <3>1, <3>2
  <2>3. Keeps(fs', lengths')
    BY <1>1, <1>2, <1>4, <2>2 DEF Keeps, NodesOf
  <2> QED
    BY <1>2, <2>3, SameHandles
<1> QED
  BY <1>3, <1>4

(* What moves a handle's position, and may lengthen its file.               *)
LEMMA MovedHandle ==
    ASSUME FilesExist, UNCHANGED fs, NEW h \in DOMAIN files, NEW at \in Nat,
           files' = [files EXCEPT ![h].pos = at],
           lengths' \in Seq(Nat), Len(lengths') = Len(lengths)
    PROVE  FilesExist'
<1>1. /\ DOMAIN files' = DOMAIN files
      /\ \A k \in DOMAIN files : k # h => files'[k] = files[k]
      /\ files'[h] = [files[h] EXCEPT !.pos = at]
  OBVIOUS
<1>2. [files[h] EXCEPT !.pos = at].node = files[h].node
  OBVIOUS
<1>4. \A k \in DOMAIN files' : Node(files[k].node)'
  BY <1>1, <1>2 DEF FilesExist, Node
<1> QED
  BY <1>1, <1>4 DEF FilesExist, Node

LEMMA HandleCallsKeep ==
    ASSUME FilesExist, NEW h \in DOMAIN files,
           \/ \E offset \in -1 .. MaxSize, length \in 0 .. 1 : nt_read_file(h, offset, length)
           \/ \E offset \in {"start", "here", "end"} : nt_write_file(h, offset)
           \/ \E distance \in -1 .. 1, method \in 0 .. 2 : set_file_pointer(h, distance, method)
    PROVE  FilesExist'
<1>1. /\ files[h].pos \in Nat /\ Len(lengths) \in Nat
      /\ files[h].node > 0 => files[h].node \in 1 .. Len(lengths) /\ lengths[files[h].node] \in Nat
  BY DEF FilesExist, Node, Dir
<1>2. ASSUME NEW offset \in -1 .. MaxSize, NEW length \in 0 .. 1, nt_read_file(h, offset, length)
      PROVE  FilesExist'
  <2> DEFINE from == IF offset >= 0 THEN offset ELSE files[h].pos
             left == lengths[files[h].node] - from
             at == from + (IF left > 0 THEN Smaller(left, length) ELSE 0)
  <2>1. /\ files' = [files EXCEPT ![h].pos = at] /\ UNCHANGED <<fs, lengths>>
        /\ files[h].node > 0
    BY <1>2 DEF nt_read_file
  <2>2. at \in Nat
    BY <1>1, <2>1 DEF Smaller
  <2> HIDE DEF at
  <2> QED
    BY <2>1, <2>2, MovedHandle DEF FilesExist
<1>3. ASSUME NEW offset \in {"start", "here", "end"}, nt_write_file(h, offset)
      PROVE  FilesExist'
  <2> DEFINE n == files[h].node
             at == CASE offset = "end"  -> lengths[n]
                     [] offset = "here" -> files[h].pos
                     [] OTHER           -> 0
             written == IF files[h].writes THEN 1 ELSE 0
  <2>1. /\ files' = [files EXCEPT ![h].pos = at + written] /\ UNCHANGED fs /\ n > 0
        /\ lengths' = IF at + written > lengths[n] /\ written = 1 THEN [lengths EXCEPT ![n] = at + 1]
                      ELSE lengths
    BY <1>3 DEF nt_write_file
  <2>2. n \in 1 .. Len(lengths) /\ lengths[n] \in Nat
    BY <1>1, <2>1
  <2>3. at \in Nat
    BY <1>1, <2>2
  <2>4. written \in Nat
    OBVIOUS
  <2> HIDE DEF n, at, written
  <2>5. lengths' \in Seq(Nat) /\ Len(lengths') = Len(lengths)
    BY <2>1, <2>2, <2>3, Grown
  <2>6. at + written \in Nat
    BY <2>3, <2>4
  <2> QED
    BY <2>1, <2>5, <2>6, MovedHandle
<1>4. ASSUME NEW distance \in -1 .. 1, NEW method \in 0 .. 2, set_file_pointer(h, distance, method)
      PROVE  FilesExist'
  <2> DEFINE n == files[h].node
             to == CASE method = 0 -> IF distance < 0 THEN 0 ELSE distance
                     [] method = 1 -> files[h].pos + distance
                     [] OTHER      -> lengths[n] + distance
             at == IF to < 0 THEN files[h].pos ELSE to
  <2>1. /\ files' = [files EXCEPT ![h].pos = IF to < 0 THEN @ ELSE to] /\ UNCHANGED <<fs, lengths>>
        /\ n > 0
    BY <1>4 DEF set_file_pointer
  <2>2. to \in Int
    BY <1>1, <2>1
  <2> HIDE DEF to
  <2>3. files' = [files EXCEPT ![h].pos = at] /\ at \in Nat
    BY <1>1, <2>1, <2>2
  <2> HIDE DEF at
  <2> QED
    BY <2>1, <2>3, MovedHandle DEF FilesExist
<1> QED
  BY <1>2, <1>3, <1>4

(* NtClose, and a step of any call.                                         *)
LEMMA CloseKeeps ==
    ASSUME FilesExist, NEW h, close_handle(h)
    PROVE  FilesExist'
<1>1. /\ UNCHANGED <<fs, lengths>>
      /\ DOMAIN files' = DOMAIN files \ {h}
      /\ \A k \in DOMAIN files' : files'[k] = files[k]
  BY DEF close_handle, Closing, Minus
<1> QED
  BY <1>1 DEF FilesExist, Node

LEMMA FilesStep == FilesExist /\ [FsNext]_fsvars => FilesExist'
<1> SUFFICES ASSUME FilesExist, [FsNext]_fsvars PROVE FilesExist'
  OBVIOUS
<1>1. ASSUME UNCHANGED <<fs, lengths, files>> PROVE FilesExist'
  BY <1>1 DEF FilesExist, Node
<1>2. CASE UNCHANGED fsvars
  BY <1>1, <1>2 DEF fsvars
<1>3. CASE Returns
  BY <1>1, <1>3 DEF Returns
<1>4. ASSUME Calls PROVE FilesExist'
  <2>1. ASSUME NEW p \in Paths,
               \/ \E kind \in Kinds, want \in SUBSET {"dir", "file"}, hosts \in BOOLEAN :
                     \E writes \in IF kind = "open" THEN BOOLEAN ELSE {TRUE} :
                         nt_create_file(p, kind, want, writes, hosts)
               \/ \E write \in BOOLEAN : nt_open_file(p, write)
               \/ \E kind \in {"CREATE_NEW", "CREATE_ALWAYS", "OPEN_EXISTING", "OPEN_ALWAYS", "TRUNCATE_EXISTING"},
                     write \in BOOLEAN : create_file(p, kind, write)
               \/ temp_file_name(p)
        PROVE  FilesExist'
    BY <2>1, CreateFileKeeps, OpenFileKeeps, Win32CreateKeeps, TempFileKeeps
  <2>2. ASSUME NEW p \in Paths, NEW d \in Paths,
               \/ create_directory(p) \/ delete_file(p) \/ move_file(p, d)
               \/ \E fail \in BOOLEAN : copy_file(p, d, fail)
        PROVE  FilesExist'
    BY <2>2, PathsChangeKeeps, CopyKeeps
  <2>3. ASSUME NEW p \in Paths, find_first_file(p) PROVE FilesExist'
    BY <2>3, <1>1 DEF find_first_file
  <2>4. ASSUME NEW h, \/ find_next_file(h) \/ find_close(h)
                      \/ \E restart \in BOOLEAN : nt_query_directory_file(h, restart)
        PROVE  FilesExist'
    BY <2>4, <1>1 DEF find_next_file, find_close, nt_query_directory_file
  <2> QED
    BY <1>4, <2>1, <2>2, <2>3, <2>4, HandleCallsKeep, CloseKeeps DEF Calls
<1> QED
  BY <1>2, <1>3, <1>4 DEF FsNext

LEMMA FilesInit == FsInit => FilesExist
  BY DEF FsInit, FilesExist, Node

(* Whatever is created, renamed, copied and deleted, and in whatever order,  *)
(* no path and no open handle of fs.rs ever stands for a file that was not  *)
(* made, and no handle's position is before the start of its file.          *)
THEOREM NodesAreFiles == FsSpec => []FilesExist
  BY FilesInit, FilesStep, PTL DEF FsSpec

(* Only NtCreateFile leaves word of what it was asked.                      *)
LEMMA OnlyCreate ==
    ASSUME [FsNext]_fsvars, created' # NoCall, ~UNCHANGED fsvars
    PROVE  \E p \in Paths, kind \in Kinds, want \in SUBSET {"dir", "file"},
               writes \in BOOLEAN, hosts \in BOOLEAN : nt_create_file(p, kind, want, writes, hosts)
<1>1. Calls
  BY DEF FsNext, Returns
<1>2. \A p, write : ~nt_open_file(p, write)
  BY DEF nt_open_file
<1>3. \A p, kind, write : ~create_file(p, kind, write)
  BY DEF create_file
<1>4. \A p : /\ ~temp_file_name(p) /\ ~create_directory(p) /\ ~delete_file(p)
             /\ ~find_first_file(p) /\ ~close_handle(p) /\ ~find_next_file(p) /\ ~find_close(p)
  BY DEF temp_file_name, create_directory, delete_file, find_first_file, close_handle, find_next_file,
         find_close
<1>5. \A p, d, fail : ~move_file(p, d) /\ ~copy_file(p, d, fail)
  BY DEF move_file, copy_file
<1>6. \A h, a, b : /\ ~nt_read_file(h, a, b) /\ ~nt_write_file(h, a)
                   /\ ~set_file_pointer(h, a, b) /\ ~nt_query_directory_file(h, a)
  BY DEF nt_read_file, nt_write_file, set_file_pointer, nt_query_directory_file
<1>7. \E p \in Paths, kind \in Kinds, want \in SUBSET {"dir", "file"}, hosts \in BOOLEAN :
         \E writes \in IF kind = "open" THEN BOOLEAN ELSE {TRUE} :
             nt_create_file(p, kind, want, writes, hosts)
  BY <1>1, <1>2, <1>3, <1>4, <1>5, <1>6 DEF Calls
<1>8. \A kind : \A writes \in (IF kind = "open" THEN BOOLEAN ELSE {TRUE}) : writes \in BOOLEAN
  OBVIOUS
<1> QED
  BY <1>7, <1>8

(* What NtCreateFile has established when it refuses nothing.               *)
LEMMA NotRefused ==
    ASSUME NEW p, NEW kind, NEW want, Refusal(p, kind, want) = "none"
    PROVE  /\ IsDir(fs, Parent(p))
           /\ fs[p] > 0 => want # {"dir"}
           /\ fs[p] = Dir => want # {"file"} /\ kind \notin Truncating
           /\ want = {"dir"} => kind \notin Truncating
  BY DEF Refusal

(* NtCreateFile never misreports: what nt_create_file answers in the status *)
(* block is what became of the path, and of no other path or file.          *)
THEOREM CreateTellsTheTruth == FsSpec => CreateIsTrue
<1> DEFINE Tells ==
        LET p == created'.path
            same == lengths' = lengths
            elsewhere == \A q \in Paths \ {p} : fs'[q] = fs[q] IN
        /\ elsewhere
        /\ IF created'.status # "SUCCESS"
            THEN /\ same
                 /\ fs'[p] # fs[p] => /\ created'.status = "ACCESS_DENIED"
                                      /\ created'.want = {"dir"} /\ fs[p] = None
            ELSE /\ IsDir(fs, Parent(p))
                 /\ created'.want = {"dir"} => fs'[p] = Dir
                 /\ created'.want = {"file"} => fs'[p] > 0
                 /\ CASE created'.information = "created" -> fs[p] = None /\ fs'[p] # None
                      [] created'.information = "opened"  -> fs'[p] = fs[p] /\ fs[p] # None /\ same
                      [] OTHER -> fs'[p] = fs[p] /\ fs[p] > 0 /\ lengths'[fs[p]] = 0
                 /\ \A n \in DOMAIN lengths : n # fs[p] => lengths'[n] = lengths[n]
<1>1. ASSUME FilesExist, NEW p \in Paths, NEW kind \in Kinds, NEW want \in SUBSET {"dir", "file"},
             NEW writes, NEW hosts, nt_create_file(p, kind, want, writes, hosts)
      PROVE  Tells
  <2> DEFINE refusal == Refusal(p, kind, want)
             made == IF fs[p] = None /\ want = {"dir"} THEN [fs EXCEPT ![p] = Dir] ELSE fs
             node == IF made[p] # None THEN made[p] ELSE Len(lengths) + 1
  <2>1. /\ DOMAIN fs = Paths /\ Len(lengths) \in Nat /\ lengths \in Seq(Nat)
        /\ fs[p] = None \/ fs[p] = Dir \/ fs[p] \in 1 .. Len(lengths)
    BY <1>1 DEF FilesExist, Node
  <2>2. CASE refusal # "none" \/ ~hosts
    <3> DEFINE told == IF refusal # "none" THEN refusal ELSE "ACCESS_DENIED"
    <3>1. /\ fs' = (IF refusal # "none" THEN fs ELSE made) /\ lengths' = lengths
          /\ created' = [status |-> told, path |-> p, want |-> want]
      BY <1>1, <2>2 DEF nt_create_file
    <3>2. told # "SUCCESS"
      BY DEF Refusal
    <3>3. refusal = "none" => told = "ACCESS_DENIED"
      OBVIOUS
    <3>4. /\ \A q \in Paths \ {p} : made[q] = fs[q]
          /\ made[p] # fs[p] => fs[p] = None /\ want = {"dir"}
      BY <2>1
    <3> HIDE DEF told, refusal, made, node
    <3>5. created'.status = told /\ created'.path = p /\ created'.want = want
      BY <3>1
    <3> QED
      BY <3>1, <3>2, <3>3, <3>4, <3>5
  <2>3. CASE ~(refusal # "none" \/ ~hosts)
    <3>1. /\ fs' = [made EXCEPT ![p] = node]
          /\ lengths' = IF node > Len(lengths) THEN Append(lengths, 0)
                        ELSE IF node > 0 /\ kind \in Truncating THEN Emptied(node)
                        ELSE lengths
          /\ created' = [status |-> "SUCCESS", path |-> p, want |-> want,
                         information |-> Information(p, kind)]
      BY <1>1, <2>3 DEF nt_create_file
    <3>2. /\ created'.status = "SUCCESS" /\ created'.path = p /\ created'.want = want
          /\ created'.information = Information(p, kind)
      BY <3>1
    <3>3. /\ IsDir(fs, Parent(p))
          /\ fs[p] > 0 => want # {"dir"}
          /\ fs[p] = Dir => want # {"file"} /\ kind \notin Truncating
          /\ want = {"dir"} => kind \notin Truncating
      BY <2>3, NotRefused
    <3>4. /\ fs'[p] = node /\ \A q \in Paths \ {p} : fs'[q] = fs[q]
      BY <2>1, <3>1
    <3>5. /\ fs[p] # None => node = fs[p]
          /\ fs[p] = None => node = IF want = {"dir"} THEN Dir ELSE Len(lengths) + 1
      BY <2>1 DEF Dir, None
    <3> HIDE DEF refusal, made, node
    <3>6. /\ want = {"dir"} => fs'[p] = Dir
          /\ want = {"file"} => fs'[p] > 0
      <4>1. {"dir"} # {"file"}
        OBVIOUS
      <4>2. CASE fs[p] = None
        <5>1. /\ want = {"dir"} => node = Dir
              /\ want # {"dir"} => node = Len(lengths) + 1
          BY <3>5, <4>2
        <5>2. want = {"file"} => want # {"dir"}
          BY <4>1
        <5>3. Len(lengths) + 1 > 0
          BY <2>1
        <5> QED
          BY <3>4, <5>1, <5>2, <5>3
      <4>3. CASE fs[p] # None
        BY <2>1, <3>3, <3>4, <3>5, <4>3 DEF Dir, None
      <4> QED
        BY <4>2, <4>3
    <3>7. \A n \in DOMAIN lengths : n # fs[p] => lengths'[n] = lengths[n]
      <4> SUFFICES ASSUME NEW n \in DOMAIN lengths, n # fs[p] PROVE lengths'[n] = lengths[n]
        OBVIOUS
      <4>1. node > Len(lengths) \/ node = fs[p] \/ node = Dir
        BY <2>1, <3>5
      <4>2. CASE node > Len(lengths)
        BY <4>2, <3>1, <2>1
      <4>3. CASE ~(node > Len(lengths))
        BY <4>1, <4>3, <3>1, <2>1 DEF Emptied, Dir
      <4> QED
        BY <4>2, <4>3
    <3>8. CASE fs[p] = None
      <4>1. Information(p, kind) = "created" /\ fs'[p] # None
        BY <2>1, <3>4, <3>5, <3>8 DEF Information, Dir, None
      <4> QED
        BY <3>2, <3>3, <3>4, <3>6, <3>7, <3>8, <4>1
    <3>9. CASE fs[p] # None /\ kind \in Truncating
      <4>1. fs[p] \in 1 .. Len(lengths) /\ lengths' = Emptied(fs[p])
        BY <2>1, <3>1, <3>3, <3>5, <3>9
      <4>2. /\ fs'[p] = fs[p] /\ fs[p] > 0 /\ lengths'[fs[p]] = 0
            /\ Information(p, kind) \in {"superseded", "overwritten"}
        BY <2>1, <3>4, <3>5, <3>9, <4>1 DEF Emptied, Information, Truncating
      <4> QED
        BY <3>2, <3>3, <3>4, <3>6, <3>7, <4>2
    <3>10. CASE fs[p] # None /\ kind \notin Truncating
      <4>1. /\ Information(p, kind) = "opened" /\ fs'[p] = fs[p] /\ lengths' = lengths
        BY <2>1, <3>1, <3>4, <3>5, <3>10 DEF Information, Truncating, Dir, None
      <4> QED
        BY <3>2, <3>3, <3>4, <3>6, <3>7, <3>10, <4>1
    <3> QED
      BY <3>8, <3>9, <3>10
  <2> QED
    BY <2>2, <2>3
<1> HIDE DEF Tells
<1>2. FilesExist /\ [FsNext]_fsvars => [created' # NoCall => Tells]_fsvars
  BY <1>1, OnlyCreate
<1>3. FilesExist /\ [FsNext]_fsvars => FilesExist'
  BY FilesStep
<1> QED
  BY FilesInit, <1>2, <1>3, PTL DEF FsSpec, CreateIsTrue, Tells
-----------------------------------------------------------------------------
(* The registry.  The spelling a hive has for a path is found step by step. *)
LEMMA UpToAll ==
  ASSUME NEW N \in Nat, NEW S, 0 \in S, \A i \in 1 .. N : i - 1 \in S => i \in S
  PROVE  0 .. N \subseteq S
<1> SUFFICES ASSUME (0 .. N) \ S # {}
             PROVE  FALSE
  OBVIOUS
<1>1. PICK m \in (0 .. N) \ S : \A k \in (0 .. N) \ S : m <= k
  <2>1. (0 .. N) \ S \subseteq Nat
    OBVIOUS
  <2> QED BY <2>1, LowestExists
<1>2. m \in 1 .. N /\ m - 1 \in 0 .. N
  BY <1>1
<1>3. m - 1 \in S
  BY <1>1, <1>2
<1> QED BY <1>1, <1>2, <1>3

(* A function that takes N steps from a.                                     *)
Steps(f, n, a, g) == f[0] = a /\ \A i \in 1 .. n : f[i] = g[<<i, f[i - 1]>>]

LEMMA StepsExist ==
  ASSUME NEW N \in Nat, NEW T, NEW a \in T, NEW g, \A i \in 1 .. N : \A v \in T : g[<<i, v>>] \in T
  PROVE  \E f \in [0 .. N -> T] : Steps(f, N, a, g)
<1> DEFINE Taken(n) == \E f \in [0 .. n -> T] : f[0] = a /\ \A i \in 1 .. n : f[i] = g[<<i, f[i - 1]>>]
           S == {n \in 0 .. N : Taken(n)}
<1>1. 0 \in S
  <2> DEFINE f == [i \in 0 .. 0 |-> a]
  <2>1. f \in [0 .. 0 -> T] /\ f[0] = a /\ \A i \in 1 .. 0 : f[i] = g[<<i, f[i - 1]>>]
    OBVIOUS
  <2> HIDE DEF f
  <2>2. Taken(0)
    BY <2>1
  <2> QED BY <2>2
<1>2. ASSUME NEW n \in 1 .. N, n - 1 \in S
      PROVE  n \in S
  <2>1. PICK f \in [0 .. n - 1 -> T] : f[0] = a /\ \A i \in 1 .. n - 1 : f[i] = g[<<i, f[i - 1]>>]
    BY <1>2
  <2> DEFINE e == [i \in 0 .. n |-> IF i = n THEN g[<<n, f[n - 1]>>] ELSE f[i]]
  <2>2. n - 1 \in 0 .. n - 1 /\ f[n - 1] \in T
    BY <2>1
  <2>3. g[<<n, f[n - 1]>>] \in T
    BY <2>2
  <2>4. /\ e[n] = g[<<n, f[n - 1]>>]
        /\ \A i \in 0 .. n - 1 : i \in 0 .. n /\ i # n
    OBVIOUS
  <2>5. \A i \in 0 .. n - 1 : e[i] = f[i]
    BY <2>4
  <2>6. e \in [0 .. n -> T]
    <3>1. ASSUME NEW i \in 0 .. n
          PROVE  (IF i = n THEN g[<<n, f[n - 1]>>] ELSE f[i]) \in T
      <4>1. i # n => i \in 0 .. n - 1
        OBVIOUS
      <4> QED BY <2>1, <2>3, <4>1
    <3> QED BY <3>1
  <2> HIDE DEF e
  <2>7. ASSUME NEW i \in 1 .. n
        PROVE  e[i] = g[<<i, e[i - 1]>>]
    <3>1. i - 1 \in 0 .. n - 1
      OBVIOUS
    <3>2. CASE i = n
      BY <2>4, <2>5, <3>1, <3>2
    <3>3. CASE i # n
      <4>1. i \in 1 .. n - 1 /\ i \in 0 .. n - 1
        BY <3>3
      <4> QED BY <2>1, <2>5, <3>1, <4>1
    <3> QED BY <3>2, <3>3
  <2>8. e[0] = a
    <3>1. 0 \in 0 .. n - 1
      OBVIOUS
    <3> QED BY <2>1, <2>5, <3>1
  <2>9. Taken(n)
    BY <2>6, <2>7, <2>8
  <2> QED BY <2>9
<1> HIDE DEF S
<1>3. 0 .. N \subseteq S
  BY <1>1, <1>2, UpToAll
<1>4. N \in S
  BY <1>3
<1> QED BY <1>4 DEF S, Steps

-----------------------------------------------------------------------------
(* Paths, compared by letters.                                               *)
IsPath(p) == p \in Seq(Range(p))
Alike(p, k) == Len(p) <= Len(k) /\ \A i \in 1 .. Len(p) : p[i][1] = k[i][1]

LEMMA PathShape ==
  ASSUME NEW p, IsPath(p)
  PROVE  Len(p) \in Nat /\ DOMAIN p = 1 .. Len(p) /\ p = [i \in 1 .. Len(p) |-> p[i]]
<1> DEFINE S == Range(p)
<1>1. p \in Seq(S)
  BY DEF IsPath
<1> HIDE DEF S
<1>2. Len(p) \in Nat /\ DOMAIN p = 1 .. Len(p) /\ p \in [1 .. Len(p) -> S]
  BY <1>1, LenProperties
<1> QED BY <1>2

LEMMA AnyPath ==
  ASSUME NEW S, NEW p \in Seq(S)
  PROVE  IsPath(p)
<1> DEFINE R == Range(p)
<1>1. Len(p) \in Nat /\ DOMAIN p = 1 .. Len(p) /\ p \in [1 .. Len(p) -> S]
  BY LenProperties
<1>2. p \in [1 .. Len(p) -> R]
  BY <1>1 DEF Range
<1> HIDE DEF R
<1>3. p \in Seq(R)
  BY <1>1, <1>2
<1> QED BY <1>3 DEF IsPath, R

LEMMA SamePaths ==
  ASSUME NEW p, NEW q, IsPath(p), IsPath(q), Len(p) = Len(q), \A i \in 1 .. Len(p) : p[i] = q[i]
  PROVE  p = q
<1>1. /\ p = [i \in 1 .. Len(p) |-> p[i]] /\ q = [i \in 1 .. Len(q) |-> q[i]]
  BY PathShape
<1> QED BY <1>1

LEMMA FoldShape ==
  ASSUME NEW p, IsPath(p)
  PROVE  IsPath(Fold(p)) /\ Len(Fold(p)) = Len(p) /\ \A i \in 1 .. Len(p) : Fold(p)[i] = p[i][1]
<1> DEFINE S == {p[i][1] : i \in 1 .. Len(p)}
           q == [i \in 1 .. Len(p) |-> p[i][1]]
<1>1. Len(p) \in Nat /\ Fold(p) = q
  BY PathShape DEF Fold
<1>2. q \in [1 .. Len(p) -> S] /\ \A i \in 1 .. Len(p) : q[i] = p[i][1]
  OBVIOUS
<1> HIDE DEF q, S
<1>3. q \in Seq(S)
  BY <1>1, <1>2
<1>4. Len(q) = Len(p)
  BY <1>1, <1>2, <1>3, LenProperties
<1> QED BY <1>1, <1>2, <1>3, <1>4, AnyPath

LEMMA PrefixMeans ==
  ASSUME NEW s, NEW t, IsPath(s), IsPath(t)
  PROVE  /\ IsPrefix(s, t) <=> Len(s) <= Len(t) /\ \A i \in 1 .. Len(s) : s[i] = t[i]
         /\ Promise!Below(s, t) <=> Len(s) < Len(t) /\ \A i \in 1 .. Len(s) : s[i] = t[i]
<1> DEFINE S == Range(s) \union Range(t)
           part == SubSeq(t, 1, Len(s))
<1>1. /\ Len(s) \in Nat /\ Len(t) \in Nat
      /\ DOMAIN s = 1 .. Len(s) /\ DOMAIN t = 1 .. Len(t)
  BY PathShape
<1>2. SubSeq(s, 1, Len(s)) = s
  BY SubSeqFull DEF IsPath
<1>3. CASE ~(Len(s) <= Len(t))
  BY <1>1, <1>3 DEF IsPrefix, Promise!Below
<1>4. CASE Len(s) <= Len(t)
  <2>1. \A i \in 1 .. Len(s) : i \in DOMAIN t
    BY <1>1, <1>4
  <2>2. \A i \in 1 .. Len(s) : t[i] \in S
    BY <2>1 DEF Range
  <2>3. /\ part \in Seq(S)
        /\ Len(part) = IF 1 <= Len(s) THEN Len(s) - 1 + 1 ELSE 0
        /\ \A i \in 1 .. Len(s) - 1 + 1 : part[i] = t[1 + i - 1]
    <3> HIDE DEF S
    <3> QED BY <1>1, <2>2, SubSeqProperties
  <2> HIDE DEF part, S
  <2>4. Len(part) = Len(s) /\ \A i \in 1 .. Len(s) : part[i] = t[i]
    BY <1>1, <2>3
  <2>5. IsPath(part)
    BY <2>3, AnyPath
  <2>6. part = s <=> \A i \in 1 .. Len(s) : s[i] = t[i]
    BY <2>4, <2>5, SamePaths
  <2>7. part = t => Len(s) = Len(t)
    BY <2>4
  <2> QED BY <1>1, <1>2, <1>4, <2>4, <2>5, <2>6 DEF IsPrefix, Promise!Below, part
<1> QED BY <1>3, <1>4

LEMMA FoldPrefixes ==
  ASSUME NEW p, NEW k, IsPath(p), IsPath(k)
  PROVE  /\ IsPrefix(Fold(p), Fold(k)) <=> Alike(p, k)
         /\ Promise!Below(Fold(p), Fold(k)) <=> Alike(p, k) /\ Len(p) < Len(k)
         /\ strip_prefix_ci(k, p) <=> Alike(p, k) /\ Len(p) < Len(k)
         /\ Fold(p) = Fold(k) <=> Alike(p, k) /\ Len(p) = Len(k)
<1>1. /\ IsPath(Fold(p)) /\ Len(Fold(p)) = Len(p) /\ \A i \in 1 .. Len(p) : Fold(p)[i] = p[i][1]
      /\ IsPath(Fold(k)) /\ Len(Fold(k)) = Len(k) /\ \A i \in 1 .. Len(k) : Fold(k)[i] = k[i][1]
  BY FoldShape
<1>2. Len(p) \in Nat /\ Len(k) \in Nat
  BY PathShape
<1>3. Len(p) <= Len(k) =>
        ((\A i \in 1 .. Len(p) : Fold(p)[i] = Fold(k)[i]) <=> \A i \in 1 .. Len(p) : p[i][1] = k[i][1])
  BY <1>1, <1>2
<1>4. IsPrefix(Fold(p), Fold(k)) <=> Alike(p, k)
  BY <1>1, <1>3, PrefixMeans DEF Alike
<1>5. Promise!Below(Fold(p), Fold(k)) <=> Alike(p, k) /\ Len(p) < Len(k)
  BY <1>1, <1>2, <1>3, PrefixMeans DEF Alike
<1>6. strip_prefix_ci(k, p) <=> Alike(p, k) /\ Len(p) < Len(k)
  BY <1>2, <1>4 DEF strip_prefix_ci
<1>7. Fold(p) = Fold(k) <=> Alike(p, k) /\ Len(p) = Len(k)
  <2>1. Alike(p, k) /\ Len(p) = Len(k) => Fold(p) = Fold(k)
    BY <1>1, <1>2, <1>3, SamePaths DEF Alike
  <2>2. Fold(p) = Fold(k) => Len(p) = Len(k)
    BY <1>1
  <2>3. Fold(p) = Fold(k) => Alike(p, k)
    BY <1>2, <1>3, <2>2 DEF Alike
  <2> QED BY <2>1, <2>2, <2>3
<1> QED BY <1>4, <1>5, <1>6, <1>7

-----------------------------------------------------------------------------
(* Spellings.  A path fits the hive if it is written as the hive's keys are   *)
(* written wherever it goes the same way.                                    *)
Fits(K, c) ==
    \A k \in K : \A n \in 1 .. Len(c) :
        n <= Len(k) /\ (\A i \in 1 .. n : k[i][1] = c[i][1]) => k[n] = c[n]
KeysFit(K) == \A k \in K : IsPath(k) /\ Fits(K, k)

LEMMA FittingPrefix ==
  ASSUME NEW K, KeysFit(K), NEW c, IsPath(c), Fits(K, c), NEW k \in K
  PROVE  /\ IsPath(k)
         /\ Alike(c, k) => \A i \in 1 .. Len(c) : c[i] = k[i]
         /\ IsPrefix(c, k) <=> Alike(c, k)
         /\ Fold(c) = Fold(k) <=> c = k
<1>1. IsPath(k) /\ Len(c) \in Nat /\ Len(k) \in Nat
  BY PathShape DEF KeysFit
<1>2. ASSUME Alike(c, k), NEW n \in 1 .. Len(c)
      PROVE  c[n] = k[n]
  <2>1. n <= Len(k) /\ \A i \in 1 .. n : k[i][1] = c[i][1]
    BY <1>1, <1>2 DEF Alike
  <2> QED BY <2>1 DEF Fits
<1>3. IsPrefix(c, k) => Alike(c, k)
  BY <1>1, PrefixMeans DEF Alike
<1>4. Alike(c, k) => IsPrefix(c, k)
  BY <1>1, <1>2, PrefixMeans DEF Alike
<1>5. Fold(c) = Fold(k) => c = k
  <2>1. Fold(c) = Fold(k) => Alike(c, k) /\ Len(c) = Len(k)
    BY <1>1, FoldPrefixes
  <2> QED BY <1>1, <1>2, <2>1, SamePaths
<1> QED BY <1>1, <1>2, <1>3, <1>4, <1>5

LEMMA ChildIs ==
  ASSUME NEW base, NEW name, NEW s \in reg_child_spelling(base, name)
  PROVE  /\ s[1] = name[1]
         /\ \E k \in DOMAIN reg_hive : strip_prefix_ci(k, base) /\ s = k[Len(base) + 1]
BY DEF reg_child_spelling, SameName

LEMMA ChildThere ==
  ASSUME NEW base, NEW name, NEW k \in DOMAIN reg_hive, strip_prefix_ci(k, base),
         k[Len(base) + 1][1] = name[1]
  PROVE  reg_child_spelling(base, name) # {}
<1> DEFINE children == {p[Len(base) + 1] : p \in {q \in DOMAIN reg_hive : strip_prefix_ci(q, base)}}
           ci == {c \in children : SameName(c, name)}
<1>1. k[Len(base) + 1] \in ci
  BY DEF SameName
<1>2. reg_child_spelling(base, name) = IF name \in ci THEN {name} ELSE ci
  BY DEF reg_child_spelling
<1> QED BY <1>1, <1>2

Spelled(base, name) ==
    IF reg_child_spelling(base, name) = {} THEN name
    ELSE CHOOSE s \in reg_child_spelling(base, name) : TRUE

LEMMA SpelledIs ==
  ASSUME KeysFit(DOMAIN reg_hive), NEW S, NEW base \in Seq(S), Fits(DOMAIN reg_hive, base),
         NEW name \in S, \A k \in DOMAIN reg_hive : Range(k) \subseteq S
  PROVE  LET to == Append(base, Spelled(base, name)) IN
         /\ to \in Seq(S) /\ Len(to) = Len(base) + 1 /\ \A i \in 1 .. Len(base) : to[i] = base[i]
         /\ to[Len(base) + 1][1] = name[1]
         /\ Fits(DOMAIN reg_hive, to)
<1> DEFINE w == Spelled(base, name)
           to == Append(base, w)
           n == Len(base) + 1
<1>1. IsPath(base) /\ Len(base) \in Nat
  BY AnyPath, PathShape
<1>2. CASE reg_child_spelling(base, name) = {}
  <2>1. w = name
    BY <1>2 DEF Spelled
  <2> HIDE DEF w
  <2>2. /\ to \in Seq(S) /\ Len(to) = n /\ \A i \in 1 .. Len(base) : to[i] = base[i]
        /\ to[n] = name
    BY <2>1, AppendProperties
  <2> HIDE DEF to
  <2>3. ASSUME NEW k \in DOMAIN reg_hive, NEW m \in 1 .. n, m <= Len(k),
               \A i \in 1 .. m : k[i][1] = to[i][1]
        PROVE  k[m] = to[m]
    <3>1. CASE m = n
      <4>1. \A i \in 1 .. Len(base) : base[i][1] = k[i][1]
        BY <1>1, <2>2, <2>3, <3>1
      <4>2. k[n][1] = name[1] /\ Len(base) < Len(k)
        BY <1>1, <2>2, <2>3, <3>1, PathShape DEF KeysFit
      <4>3. Alike(base, k) /\ IsPath(k)
        BY <1>1, <4>1, <4>2, PathShape DEF Alike, KeysFit
      <4>4. strip_prefix_ci(k, base)
        BY <1>1, <4>2, <4>3, FoldPrefixes
      <4> QED BY <1>2, <4>2, <4>4, ChildThere
    <3>2. CASE m # n
      <4>1. m \in 1 .. Len(base) /\ \A i \in 1 .. m : i \in 1 .. Len(base)
        BY <1>1, <3>2
      <4>2. \A i \in 1 .. m : k[i][1] = base[i][1]
        BY <2>2, <2>3, <4>1
      <4> QED BY <2>2, <2>3, <4>1, <4>2 DEF Fits
    <3> QED BY <3>1, <3>2
  <2>4. Fits(DOMAIN reg_hive, to)
    BY <2>2, <2>3 DEF Fits
  <2> QED BY <2>1, <2>2, <2>4 DEF to, w
<1>3. CASE reg_child_spelling(base, name) # {}
  <2>1. w \in reg_child_spelling(base, name)
    BY <1>3 DEF Spelled
  <2>2. PICK key \in DOMAIN reg_hive : strip_prefix_ci(key, base) /\ w = key[n]
    BY <2>1, ChildIs
  <2>3. w[1] = name[1]
    BY <2>1, ChildIs
  <2>4. IsPath(key) /\ Alike(base, key) /\ Len(base) < Len(key) /\ Len(key) \in Nat
    BY <1>1, <2>2, FoldPrefixes, PathShape DEF KeysFit
  <2>5. \A i \in 1 .. Len(base) : base[i] = key[i]
    BY <1>1, <2>4, FittingPrefix
  <2>6. n \in DOMAIN key
    BY <1>1, <2>4, PathShape
  <2>7. w \in S
    BY <2>2, <2>6 DEF Range
  <2> HIDE DEF w
  <2>8. /\ to \in Seq(S) /\ Len(to) = n /\ \A i \in 1 .. Len(base) : to[i] = base[i]
        /\ to[n] = w
    BY <2>7, AppendProperties
  <2> HIDE DEF to
  <2>9. \A i \in 1 .. n : to[i] = key[i]
    <3>1. \A i \in 1 .. n : i = n \/ i \in 1 .. Len(base)
      BY <1>1
    <3> QED BY <2>2, <2>5, <2>8, <3>1
  <2>10. ASSUME NEW k \in DOMAIN reg_hive, NEW m \in 1 .. n, m <= Len(k),
                \A i \in 1 .. m : k[i][1] = to[i][1]
         PROVE  k[m] = to[m]
    <3>1. m \in 1 .. Len(key) /\ \A i \in 1 .. m : i \in 1 .. n
      BY <1>1, <2>4
    <3>2. \A i \in 1 .. m : k[i][1] = key[i][1]
      BY <2>9, <2>10, <3>1
    <3>3. k[m] = key[m]
      BY <2>10, <3>1, <3>2 DEF KeysFit, Fits
    <3> QED BY <2>9, <3>3
  <2>11. Fits(DOMAIN reg_hive, to)
    BY <2>8, <2>10 DEF Fits
  <2> QED BY <2>3, <2>8, <2>11 DEF to, w
<1> QED BY <1>2, <1>3

LEMMA CanonicalIs ==
  ASSUME KeysFit(DOMAIN reg_hive), NEW path, IsPath(path)
  PROVE  /\ IsPath(reg_canonical(path)) /\ Fits(DOMAIN reg_hive, reg_canonical(path))
         /\ Fold(reg_canonical(path)) = Fold(path) /\ Len(reg_canonical(path)) = Len(path)
<1> DEFINE K == DOMAIN reg_hive
           N == Len(path)
           S == Range(path) \union UNION {Range(k) : k \in K}
           T == {p \in Seq(S) : Fits(K, p)}
           body(out) == [i \in 0 .. N |->
                IF i = 0 THEN <<>>
                ELSE LET spelled == reg_child_spelling(out[i - 1], path[i])
                     IN  Append(out[i - 1], IF spelled = {} THEN path[i] ELSE CHOOSE s \in spelled : TRUE)]
           g == [x \in (1 .. N) \X T |-> Append(x[2], Spelled(x[2], path[x[1]]))]
           walk == CHOOSE out : out = body(out)
<1>1. N \in Nat /\ \A i \in 1 .. N : path[i] \in S
  BY PathShape DEF Range
<1>2. \A k \in K : Range(k) \subseteq S
  OBVIOUS
<1>3. <<>> \in T
  <2> HIDE DEF S
  <2>1. <<>> \in Seq(S) /\ Len(<<>>) = 0
    BY EmptySeq
  <2> QED BY <2>1 DEF Fits
<1>4. ASSUME NEW i \in 1 .. N, NEW v \in T
      PROVE  /\ g[<<i, v>>] = Append(v, Spelled(v, path[i]))
             /\ Append(v, Spelled(v, path[i])) \in T
             /\ Len(Append(v, Spelled(v, path[i]))) = Len(v) + 1
             /\ Append(v, Spelled(v, path[i]))[Len(v) + 1][1] = path[i][1]
             /\ \A j \in 1 .. Len(v) : Append(v, Spelled(v, path[i]))[j] = v[j]
  <2>1. g[<<i, v>>] = Append(v, Spelled(v, path[i]))
    OBVIOUS
  <2> HIDE DEF S, g
  <2> QED BY <1>1, <1>2, <2>1, SpelledIs
<1>5. \E f : f = body(f)
  <2>1. \A i \in 1 .. N : \A v \in T : g[<<i, v>>] \in T
    BY <1>4
  <2>9. N \in Nat
    BY <1>1
  <2> HIDE DEF T, g, N, S, K
  <2>2. PICK f \in [0 .. N -> T] : f[0] = <<>> /\ \A i \in 1 .. N : f[i] = g[<<i, f[i - 1]>>]
    <3>1. \E f \in [0 .. N -> T] : Steps(f, N, <<>>, g)
      BY <1>3, <2>1, <2>9, StepsExist
    <3> QED BY <3>1 DEF Steps
  <2>3. ASSUME NEW i \in 1 .. N
        PROVE  f[i] = Append(f[i - 1], Spelled(f[i - 1], path[i]))
    <3>1. i - 1 \in 0 .. N
      BY <1>1
    <3> QED BY <1>4, <2>2, <3>1
  <2>4. \A i \in 0 .. N : i = 0 \/ i \in 1 .. N
    BY <1>1
  <2>5. \A i \in 0 .. N : f[i] = IF i = 0 THEN <<>> ELSE Append(f[i - 1], Spelled(f[i - 1], path[i]))
    BY <2>2, <2>3, <2>4
  <2>6. f = [i \in 0 .. N |-> f[i]]
    BY <2>2
  <2> QED BY <2>5, <2>6 DEF Spelled
<1>6. walk = body(walk)
  <2> HIDE DEF body
  <2> QED BY <1>5
<1>7. reg_canonical(path) = walk[N]
  BY DEF reg_canonical
<1> HIDE DEF walk, g, K, T, N
<1>8. walk[0] = <<>>
  BY <1>1, <1>6
<1>9. ASSUME NEW i \in 1 .. N
      PROVE  walk[i] = Append(walk[i - 1], Spelled(walk[i - 1], path[i]))
  BY <1>1, <1>6 DEF Spelled
<1> DEFINE Good == {i \in 0 .. N : /\ walk[i] \in T /\ Len(walk[i]) = i
                                  /\ \A j \in 1 .. i : walk[i][j][1] = path[j][1]}
<1>10. 0 \in Good
  BY <1>1, <1>3, <1>8, EmptySeq
<1>11. ASSUME NEW i \in 1 .. N, i - 1 \in Good
       PROVE  i \in Good
  <2>1. PICK v : v = walk[i - 1]
    OBVIOUS
  <2>2. v \in T /\ Len(v) = i - 1 /\ \A j \in 1 .. i - 1 : v[j][1] = path[j][1]
    BY <1>11, <2>1
  <2>7. walk[i] = Append(v, Spelled(v, path[i]))
    BY <1>9, <2>1
  <2>3. /\ walk[i] \in T /\ Len(walk[i]) = Len(v) + 1 /\ walk[i][Len(v) + 1][1] = path[i][1]
        /\ \A j \in 1 .. Len(v) : walk[i][j] = v[j]
    <3>1. PICK to : to = Append(v, Spelled(v, path[i]))
      OBVIOUS
    <3>2. /\ to \in T /\ Len(to) = Len(v) + 1 /\ to[Len(v) + 1][1] = path[i][1]
          /\ \A j \in 1 .. Len(v) : to[j] = v[j]
      BY <1>4, <2>2, <3>1
    <3> QED BY <2>7, <3>1, <3>2
  <2>4. Len(walk[i]) = i /\ i \in 0 .. N
    BY <1>1, <2>2, <2>3
  <2>5. \A j \in 1 .. i : (j = Len(v) + 1 /\ j = i) \/ (j \in 1 .. i - 1 /\ j \in 1 .. Len(v))
    BY <1>1, <2>2
  <2>6. \A j \in 1 .. i : walk[i][j][1] = path[j][1]
    BY <2>2, <2>3, <2>5
  <2> QED BY <2>3, <2>4, <2>6
<1> HIDE DEF Good
<1>12. 0 .. N \subseteq Good
  BY <1>1, <1>10, <1>11, UpToAll
<1>13. N \in Good
  BY <1>1, <1>12
<1>14. /\ walk[N] \in T /\ Len(walk[N]) = N /\ \A j \in 1 .. N : walk[N][j][1] = path[j][1]
  BY <1>13 DEF Good
<1>15. IsPath(walk[N]) /\ Fits(K, walk[N])
  <2>1. walk[N] \in Seq(S) /\ Fits(K, walk[N])
    BY <1>14 DEF T
  <2> QED BY <2>1, AnyPath
<1>16. Fold(walk[N]) = Fold(path)
  <2>1. Alike(walk[N], path) /\ Len(walk[N]) = Len(path)
    BY <1>1, <1>14 DEF Alike, N
  <2> QED BY <1>15, <2>1, FoldPrefixes
<1> QED BY <1>7, <1>14, <1>15, <1>16 DEF K, N

-----------------------------------------------------------------------------
(* The hive, and what a caller who knows no capitals sees of it.             *)
ValuesAre(v) ==
    /\ v = [n \in DOMAIN v |-> v[n]] /\ IsFiniteSet(DOMAIN v)
    /\ \A n, m \in DOMAIN v : n[1] = m[1] => n = m
HiveRight(H) ==
    /\ H = [k \in DOMAIN H |-> H[k]] /\ IsFiniteSet(DOMAIN H)
    /\ KeysFit(DOMAIN H)
    /\ \A k \in DOMAIN H : ValuesAre(H[k])
Place(H, c) == IsPath(c) /\ Fits(DOMAIN H, c)

KeysOf(H) == {Fold(k) : k \in DOMAIN H}
ValuesIn(H) == UNION {{<<Fold(k), n[1], H[k][n]>> : n \in DOMAIN H[k]} : k \in DOMAIN H}
SubsOf(K, p) == {q[Len(p) + 1] : q \in {k \in K : Promise!Below(p, k)}}

LEMMA InValues ==
  ASSUME NEW H, NEW v
  PROVE  v \in ValuesIn(H) <=> \E k \in DOMAIN H : \E n \in DOMAIN H[k] : v = <<Fold(k), n[1], H[k][n]>>
BY DEF ValuesIn

LEMMA KeyOnce ==
  ASSUME NEW H, HiveRight(H), NEW c, Place(H, c)
  PROVE  /\ \A k \in DOMAIN H : Fold(k) = Fold(c) <=> k = c
         /\ c \in DOMAIN H <=> Fold(c) \in KeysOf(H)
<1>1. \A k \in DOMAIN H : Fold(c) = Fold(k) <=> c = k
  BY FittingPrefix DEF HiveRight, Place
<1> QED BY <1>1 DEF KeysOf

LEMMA KeyThere ==
  ASSUME NEW H, HiveRight(H), NEW c, Place(H, c)
  PROVE  (c \in DOMAIN H \/ \E k \in DOMAIN H : IsPrefix(Fold(c), Fold(k)))
            <=> (Fold(c) \in KeysOf(H) \/ \E q \in KeysOf(H) : Promise!Below(Fold(c), q))
<1>1. ASSUME NEW k \in DOMAIN H
      PROVE  IsPrefix(Fold(c), Fold(k)) <=> k = c \/ Promise!Below(Fold(c), Fold(k))
  <2>1. IsPath(k) /\ Len(c) \in Nat /\ Len(k) \in Nat
    BY PathShape DEF HiveRight, KeysFit, Place
  <2>2. /\ IsPrefix(Fold(c), Fold(k)) <=> Alike(c, k)
        /\ Promise!Below(Fold(c), Fold(k)) <=> Alike(c, k) /\ Len(c) < Len(k)
        /\ Fold(c) = Fold(k) <=> Alike(c, k) /\ Len(c) = Len(k)
    BY <2>1, FoldPrefixes DEF Place
  <2>3. Alike(c, k) => Len(c) <= Len(k)
    BY DEF Alike
  <2> QED BY <2>1, <2>2, <2>3, KeyOnce
<1> QED BY <1>1, KeyOnce DEF KeysOf

LEMMA SubkeysAre ==
  ASSUME HiveRight(reg_hive), NEW c, Place(reg_hive, c)
  PROVE  /\ subkeys(c) = SubsOf(KeysOf(reg_hive), Fold(c))
         /\ IsFiniteSet(subkeys(c))
<1> DEFINE D == {p \in DOMAIN reg_hive : strip_prefix_ci(p, c)}
           at == [k \in D |-> Fold(k)[Len(c) + 1]]
<1>1. ASSUME NEW k \in DOMAIN reg_hive
      PROVE  strip_prefix_ci(k, c) <=> Promise!Below(Fold(c), Fold(k))
  BY FoldPrefixes DEF HiveRight, KeysFit, Place
<1>2. Len(Fold(c)) = Len(c)
  BY FoldShape DEF Place
<1>3. subkeys(c) = {Fold(k)[Len(c) + 1] : k \in D}
  BY DEF subkeys
<1>4. {Fold(k)[Len(c) + 1] : k \in D} = SubsOf(KeysOf(reg_hive), Fold(c))
  BY <1>1, <1>2 DEF SubsOf, KeysOf
<1>5. IsFiniteSet(D)
  <2>1. D \in SUBSET DOMAIN reg_hive
    OBVIOUS
  <2> QED BY <2>1, FS_Subset DEF HiveRight
<1>6. at \in Surjection(D, {Fold(k)[Len(c) + 1] : k \in D})
  BY DEF Surjection
<1> HIDE DEF D, at
<1>7. IsFiniteSet({Fold(k)[Len(c) + 1] : k \in D})
  BY <1>5, <1>6, FS_Surjection
<1> QED BY <1>3, <1>4, <1>7

LEMMA ValuesAtKey ==
  ASSUME NEW H, HiveRight(H), NEW c, Place(H, c), NEW names,
         names = IF c \in DOMAIN H THEN DOMAIN H[c] ELSE {}
  PROVE  {v \in ValuesIn(H) : v[1] = Fold(c)} = {<<Fold(c), n[1], H[c][n]>> : n \in names}
<1>1. ASSUME NEW v \in ValuesIn(H), v[1] = Fold(c)
      PROVE  v \in {<<Fold(c), n[1], H[c][n]>> : n \in names}
  <2>0. PICK k \in DOMAIN H : \E n \in DOMAIN H[k] : v = <<Fold(k), n[1], H[k][n]>>
    BY InValues
  <2>1. PICK n \in DOMAIN H[k] : v = <<Fold(k), n[1], H[k][n]>>
    BY <2>0
  <2>2. k = c
    BY <1>1, <2>1, KeyOnce
  <2> QED BY <2>1, <2>2
<1>2. ASSUME NEW n \in names
      PROVE  <<Fold(c), n[1], H[c][n]>> \in {v \in ValuesIn(H) : v[1] = Fold(c)}
  BY InValues
<1> QED BY <1>1, <1>2

Triples(p, u) == {<<p, n[1], u[n]>> : n \in DOMAIN u}
AtKey(V, p) == {v \in V : v[1] = p}
OffKey(V, p) == {v \in V : v[1] # p}
Put(H, c, u) == [H EXCEPT ![c] = u]
FreeFor(old, s) == s \in DOMAIN old \/ \A n \in DOMAIN old : n[1] # s[1]

LEMMA TriplesAtKey ==
  ASSUME NEW H, HiveRight(H), NEW c \in DOMAIN H, Place(H, c)
  PROVE  AtKey(ValuesIn(H), Fold(c)) = Triples(Fold(c), H[c])
<1> DEFINE names == DOMAIN H[c]
<1>1. names = IF c \in DOMAIN H THEN DOMAIN H[c] ELSE {}
  OBVIOUS
<1>2. {v \in ValuesIn(H) : v[1] = Fold(c)} = {<<Fold(c), n[1], H[c][n]>> : n \in names}
  <2> HIDE DEF names
  <2> QED BY <1>1, ValuesAtKey
<1> QED BY <1>2 DEF Triples, AtKey

LEMMA HiveWithout ==
  ASSUME NEW H, HiveRight(H), NEW P, NEW dead, \A k \in DOMAIN H : k \in P <=> Fold(k) \in dead
  PROVE  LET W == Restrict(H, DOMAIN H \ P) IN
         /\ HiveRight(W) /\ KeysOf(W) = KeysOf(H) \ dead
         /\ ValuesIn(W) = {v \in ValuesIn(H) : v[1] \notin dead}
<1> DEFINE W == Restrict(H, DOMAIN H \ P)
<1>1. /\ DOMAIN W = DOMAIN H \ P /\ W = [k \in DOMAIN W |-> W[k]]
      /\ \A k \in DOMAIN W : W[k] = H[k] /\ k \in DOMAIN H
  BY DEF Restrict
<1> HIDE DEF W
<1>2. IsFiniteSet(DOMAIN W)
  BY <1>1, FS_Subset DEF HiveRight
<1>3. HiveRight(W)
  BY <1>1, <1>2 DEF HiveRight, KeysFit, Fits
<1>4. KeysOf(W) = KeysOf(H) \ dead
  BY <1>1 DEF KeysOf
<1>5. ASSUME NEW v
      PROVE  v \in ValuesIn(W) <=> v \in ValuesIn(H) /\ v[1] \notin dead
  <2>1. ASSUME v \in ValuesIn(W)
        PROVE  v \in ValuesIn(H) /\ v[1] \notin dead
    <3>0. PICK k \in DOMAIN W : \E n \in DOMAIN W[k] : v = <<Fold(k), n[1], W[k][n]>>
      BY <2>1, InValues
    <3>1. PICK n \in DOMAIN W[k] : v = <<Fold(k), n[1], W[k][n]>>
      BY <3>0
    <3>2. k \in DOMAIN H /\ W[k] = H[k] /\ Fold(k) \notin dead
      BY <1>1
    <3> QED BY <3>1, <3>2, InValues
  <2>2. ASSUME v \in ValuesIn(H), v[1] \notin dead
        PROVE  v \in ValuesIn(W)
    <3>0. PICK k \in DOMAIN H : \E n \in DOMAIN H[k] : v = <<Fold(k), n[1], H[k][n]>>
      BY <2>2, InValues
    <3>1. PICK n \in DOMAIN H[k] : v = <<Fold(k), n[1], H[k][n]>>
      BY <3>0
    <3>2. k \in DOMAIN W /\ W[k] = H[k]
      BY <1>1, <2>2, <3>1
    <3> QED BY <3>1, <3>2, InValues
  <2> QED BY <2>1, <2>2
<1> QED BY <1>3, <1>4, <1>5 DEF W

LEMMA NoValues == ValuesAre(<<>>) /\ DOMAIN <<>> = {}
<1>1. IsPath(<<>>) /\ Len(<<>>) = 0
  BY EmptySeq, AnyPath
<1>2. DOMAIN <<>> = {} /\ <<>> = [i \in 1 .. 0 |-> <<>>[i]]
  BY <1>1, PathShape
<1> QED BY <1>2, FS_EmptySet DEF ValuesAre

LEMMA HiveWithKey ==
  ASSUME HiveRight(reg_hive), NEW c, Place(reg_hive, c)
  PROVE  /\ HiveRight(HiveWith(c)) /\ KeysOf(HiveWith(c)) = KeysOf(reg_hive) \union {Fold(c)}
         /\ DOMAIN HiveWith(c) = DOMAIN reg_hive \union {c}
         /\ HiveWith(c)[c] = IF c \in DOMAIN reg_hive THEN reg_hive[c] ELSE <<>>
         /\ ValuesIn(HiveWith(c)) = ValuesIn(reg_hive) /\ Place(HiveWith(c), c)
<1> DEFINE H == reg_hive
           W == HiveWith(c)
<1>1. CASE c \in DOMAIN H
  BY <1>1 DEF HiveWith, KeysOf
<1>2. CASE c \notin DOMAIN H
  <2>1. /\ DOMAIN W = DOMAIN H \union {c} /\ W = [k \in DOMAIN W |-> W[k]] /\ W[c] = <<>>
        /\ \A k \in DOMAIN H : W[k] = H[k]
    <3>1. PICK e : e = <<>>
      OBVIOUS
    <3>2. W = [x \in (DOMAIN H) \union {c} |-> IF x = c THEN e ELSE H[x]]
      BY <1>2, <3>1 DEF HiveWith, WithEntry
    <3> HIDE DEF W
    <3> QED BY <1>2, <3>1, <3>2
  <2> HIDE DEF W
  <2>2. IsFiniteSet(DOMAIN W)
    BY <2>1, FS_AddElement DEF HiveRight
  <2>3. Fits(DOMAIN W, c)
    BY <2>1 DEF Fits, Place
  <2>4. ASSUME NEW k \in DOMAIN H
        PROVE  Fits(DOMAIN W, k)
    <3>1. ASSUME NEW n \in 1 .. Len(k), n <= Len(c), \A i \in 1 .. n : c[i][1] = k[i][1]
          PROVE  c[n] = k[n]
      <4>1. n \in 1 .. Len(c) /\ n <= Len(k) /\ Len(c) \in Nat /\ Len(k) \in Nat
        BY <3>1, PathShape DEF HiveRight, KeysFit, Place
      <4> QED BY <3>1, <4>1 DEF Place, Fits
    <3> QED BY <2>1, <3>1 DEF HiveRight, KeysFit, Fits
  <2>5. KeysFit(DOMAIN W)
    BY <2>1, <2>3, <2>4 DEF KeysFit, HiveRight, Place
  <2>6. HiveRight(W)
    BY <2>1, <2>2, <2>5, NoValues DEF HiveRight
  <2>7. KeysOf(W) = KeysOf(H) \union {Fold(c)}
    BY <2>1 DEF KeysOf
  <2>8. ASSUME NEW v
        PROVE  v \in ValuesIn(W) <=> v \in ValuesIn(H)
    <3>1. DOMAIN W[c] = {}
      BY <2>1, NoValues
    <3> QED BY <2>1, <3>1, InValues
  <2> QED BY <1>2, <2>1, <2>3, <2>6, <2>7, <2>8 DEF Place, W
<1> QED BY <1>1, <1>2

LEMMA HiveChanged ==
  ASSUME NEW H, HiveRight(H), NEW c \in DOMAIN H, NEW u, ValuesAre(u)
  PROVE  /\ HiveRight(Put(H, c, u)) /\ KeysOf(Put(H, c, u)) = KeysOf(H)
         /\ ValuesIn(Put(H, c, u)) = OffKey(ValuesIn(H), Fold(c)) \union Triples(Fold(c), u)
<1> DEFINE W == Put(H, c, u)
           New == {<<Fold(c), n[1], u[n]>> : n \in DOMAIN u}
<1>1. /\ DOMAIN W = DOMAIN H /\ W = [k \in DOMAIN W |-> W[k]] /\ W[c] = u
      /\ \A k \in DOMAIN H : k # c => W[k] = H[k]
  BY DEF Put
<1> HIDE DEF W
<1>2. HiveRight(W)
  BY <1>1 DEF HiveRight
<1>3. KeysOf(W) = KeysOf(H)
  BY <1>1 DEF KeysOf
<1>4. Place(H, c)
  BY DEF HiveRight, KeysFit, Place
<1>5. ASSUME NEW v \in ValuesIn(W)
      PROVE  (v \in ValuesIn(H) /\ v[1] # Fold(c)) \/ v \in New
  <2>0. PICK k \in DOMAIN W : \E n \in DOMAIN W[k] : v = <<Fold(k), n[1], W[k][n]>>
    BY InValues
  <2>1. PICK n \in DOMAIN W[k] : v = <<Fold(k), n[1], W[k][n]>>
    BY <2>0
  <2>2. CASE k = c
    BY <1>1, <2>1, <2>2
  <2>3. CASE k # c
    BY <1>1, <1>4, <2>1, <2>3, InValues, KeyOnce
  <2> QED BY <2>2, <2>3
<1>6. ASSUME NEW v \in ValuesIn(H), v[1] # Fold(c)
      PROVE  v \in ValuesIn(W)
  <2>0. PICK k \in DOMAIN H : \E n \in DOMAIN H[k] : v = <<Fold(k), n[1], H[k][n]>>
    BY InValues
  <2>1. PICK n \in DOMAIN H[k] : v = <<Fold(k), n[1], H[k][n]>>
    BY <2>0
  <2>2. k # c
    BY <1>6, <2>1
  <2> QED BY <1>1, <2>1, <2>2, InValues
<1>7. ASSUME NEW n \in DOMAIN u
      PROVE  <<Fold(c), n[1], u[n]>> \in ValuesIn(W)
  BY <1>1, InValues
<1>8. ValuesIn(W) = {v \in ValuesIn(H) : v[1] # Fold(c)} \union New
  BY <1>5, <1>6, <1>7
<1> QED BY <1>2, <1>3, <1>8 DEF Triples, OffKey, W

-----------------------------------------------------------------------------
(* The paths a call can name.                                                *)
LEMMA RootIs == IsPath(HKLM) /\ Len(HKLM) = 1 /\ HKLM[1][1] = "HKLM"
                /\ IsPath(HKCR) /\ Len(HKCR) = 2 /\ HKCR[1][1] = "HKLM" /\ HKCR[2][1] = "k"
<1> DEFINE root == <<"HKLM", "up">>
           classes == <<"k", "up">>
<1>1. root[1] = "HKLM" /\ classes[1] = "k"
  OBVIOUS
<1>2. HKLM = <<root>> /\ HKCR = Append(HKLM, classes)
  BY DEF HKLM, HKCR
<1> HIDE DEF root, classes
<1>3. HKLM \in Seq({root, classes}) /\ Len(HKLM) = 1 /\ HKLM[1] = root
  BY <1>2
<1>4. /\ HKCR \in Seq({root, classes}) /\ Len(HKCR) = 2 /\ HKCR[1] = root /\ HKCR[2] = classes
  BY <1>2, <1>3, AppendProperties
<1> QED BY <1>1, <1>3, <1>4, AnyPath

LEMMA FoldedIs ==
  ASSUME NEW c, IsPath(c)
  PROVE  Fold(c) \in Folded <=> /\ Len(c) \in 1 .. MaxPath /\ c[1][1] = "HKLM"
                               /\ \A i \in 2 .. Len(c) : c[i][1] \in Letters
<1> DEFINE root == Fold(HKLM)
           S == {"HKLM"} \union Letters
<1>1. Len(c) \in Nat /\ IsPath(Fold(c)) /\ Len(Fold(c)) = Len(c) /\ \A i \in 1 .. Len(c) : Fold(c)[i] = c[i][1]
  BY FoldShape, PathShape
<1>2. root = <<"HKLM">>
  <2>1. IsPath(root) /\ Len(root) = 1 /\ root[1] = "HKLM"
    BY FoldShape, RootIs
  <2>2. root = [i \in 1 .. 1 |-> "HKLM"]
    BY <2>1, PathShape
  <2> QED BY <2>2
<1>3. root \in Seq(S) /\ Len(root) = 1 /\ root[1] = "HKLM"
  BY <1>2
<1> HIDE DEF root
<1>4. ASSUME NEW n \in Nat, NEW p \in [1 .. n -> Letters]
      PROVE  /\ IsPath(root \o p) /\ Len(root \o p) = n + 1 /\ (root \o p)[1] = "HKLM"
             /\ \A i \in 2 .. n + 1 : (root \o p)[i] = p[i - 1]
  <2>1. p \in Seq(S) /\ Len(p) = n
    <3>1. p \in Seq(Letters)
      OBVIOUS
    <3>2. DOMAIN p = 1 .. Len(p) /\ Len(p) \in Nat /\ DOMAIN p = 1 .. n
      BY <3>1, LenProperties
    <3>3. Len(p) = n
      BY <3>2
    <3> QED BY <3>1, <3>3, SeqMonotonic
  <2> HIDE DEF S
  <2>4. PICK q : q = root \o p
    OBVIOUS
  <2>6. /\ q \in Seq(S) /\ Len(q) = Len(root) + Len(p)
        /\ \A i \in 1 .. Len(root) + Len(p) : q[i] = IF i <= Len(root) THEN root[i] ELSE p[i - Len(root)]
    BY <1>3, <2>1, <2>4, ConcatProperties
  <2>2. /\ Len(q) = 1 + n
        /\ \A i \in 1 .. 1 + n : q[i] = IF i <= 1 THEN root[i] ELSE p[i - 1]
    BY <1>3, <2>1, <2>6
  <2>3. IsPath(q)
    BY <2>6, AnyPath
  <2>5. Len(q) = n + 1 /\ q[1] = "HKLM" /\ \A i \in 2 .. n + 1 : q[i] = p[i - 1]
    BY <1>3, <2>2
  <2> QED BY <2>3, <2>4, <2>5
<1>5. ASSUME Fold(c) \in Folded
      PROVE  /\ Len(c) \in 1 .. MaxPath /\ c[1][1] = "HKLM"
             /\ \A i \in 2 .. Len(c) : c[i][1] \in Letters
  <2>1. PICK n \in 0 .. MaxPath - 1 : \E p \in [1 .. n -> Letters] : Fold(c) = root \o p
    BY <1>5 DEF Folded, root
  <2>2. PICK p \in [1 .. n -> Letters] : Fold(c) = root \o p
    BY <2>1
  <2>3. n \in Nat /\ MaxPath \in Nat
    BY RegistryAssumption
  <2>4. /\ Len(Fold(c)) = n + 1 /\ Fold(c)[1] = "HKLM"
        /\ \A i \in 2 .. n + 1 : Fold(c)[i] = p[i - 1]
    BY <1>4, <2>2, <2>3
  <2>5. Len(c) \in 1 .. MaxPath /\ c[1][1] = "HKLM"
    BY <1>1, <2>3, <2>4
  <2>6. ASSUME NEW i \in 2 .. Len(c)
        PROVE  c[i][1] \in Letters
    <3>1. i - 1 \in 1 .. n /\ i \in 1 .. Len(c) /\ i \in 2 .. n + 1
      BY <1>1, <2>3, <2>4
    <3> QED BY <1>1, <2>4, <3>1
  <2> QED BY <2>5, <2>6
<1>6. ASSUME Len(c) \in 1 .. MaxPath, c[1][1] = "HKLM", \A i \in 2 .. Len(c) : c[i][1] \in Letters
      PROVE  Fold(c) \in Folded
  <2>1. PICK n : n = Len(c) - 1
    OBVIOUS
  <2>2. n \in Nat /\ Len(c) = n + 1 /\ n \in 0 .. MaxPath - 1
    BY <1>6, <2>1, RegistryAssumption
  <2>3. PICK p : p = [i \in 1 .. n |-> c[i + 1][1]]
    OBVIOUS
  <2>4. p \in [1 .. n -> Letters]
    <3>1. \A i \in 1 .. n : i + 1 \in 2 .. Len(c)
      BY <2>2
    <3> QED BY <1>6, <2>3, <3>1
  <2>5. \A i \in 2 .. n + 1 : p[i - 1] = c[i][1]
    <3>1. \A i \in 2 .. n + 1 : i - 1 \in 1 .. n /\ i - 1 + 1 = i
      BY <2>2
    <3> QED BY <2>3, <3>1
  <2>6. \A i \in 1 .. Len(c) : Fold(c)[i] = (root \o p)[i]
    <3>1. \A i \in 1 .. Len(c) : i = 1 \/ i \in 2 .. n + 1
      BY <2>2
    <3> QED BY <1>1, <1>4, <1>6, <2>2, <2>4, <2>5, <3>1
  <2>7. Fold(c) = root \o p
    <3>1. PICK q : q = root \o p
      OBVIOUS
    <3>2. IsPath(q) /\ Len(q) = Len(Fold(c)) /\ IsPath(Fold(c))
      BY <1>1, <1>4, <2>2, <2>4, <3>1
    <3>3. \A i \in 1 .. Len(Fold(c)) : Fold(c)[i] = q[i]
      BY <1>1, <2>6, <3>1
    <3> QED BY <3>1, <3>2, <3>3, SamePaths
  <2> QED BY <2>2, <2>4, <2>7 DEF Folded, root
<1> QED BY <1>5, <1>6

HandlesRight(G) ==
    /\ G = [h \in DOMAIN G |-> G[h]]
    /\ \A h \in DOMAIN G : IsPath(G[h]) /\ Fold(G[h]) \in Folded
RegInv == HiveRight(reg_hive) /\ HandlesRight(reg_handles)

LEMMA BaseIs ==
  ASSUME RegInv, NEW base \in reg_resolve
  PROVE  IsPath(base) /\ Fold(base) \in Folded
<1>1. "k" \in Letters
  <2>1. DOMAIN HKCR = 1 .. 2
    BY RootIs, PathShape
  <2>2. HKCR[2] \in Range(HKCR) /\ HKCR[2][1] = "k"
    BY <2>1, RootIs DEF Range
  <2> QED BY <2>2 DEF Letters
<1>2. Fold(HKLM) \in Folded
  <2>1. 1 \in 1 .. MaxPath /\ 2 .. 1 = {}
    BY RegistryAssumption
  <2> QED BY <2>1, RootIs, FoldedIs
<1>3. Fold(HKCR) \in Folded
  <2>1. 2 \in 1 .. MaxPath /\ \A i \in 2 .. 2 : i = 2
    BY RegistryAssumption
  <2> QED BY <1>1, <2>1, RootIs, FoldedIs
<1> QED BY <1>2, <1>3, RootIs DEF reg_resolve, reg_hkey_root, RegInv, HandlesRight

LEMMA JoinIs ==
  ASSUME RegInv, NEW base \in reg_resolve, NEW sub \in Subkeys, Len(base) + Len(sub) <= MaxPath
  PROVE  IsPath(base \o sub) /\ Fold(base \o sub) \in Folded
<1>1. /\ IsPath(base) /\ Len(base) \in 1 .. MaxPath /\ base[1][1] = "HKLM"
      /\ \A i \in 2 .. Len(base) : base[i][1] \in Letters
  BY BaseIs, FoldedIs
<1>2. IsPath(sub) /\ Len(sub) \in Nat /\ Len(base) \in Nat /\ MaxPath \in Nat
  BY <1>1, RegistryAssumption, PathShape DEF IsPath
<1>3. \A i \in 1 .. Len(sub) : sub[i][1] \in Letters
  BY <1>2, PathShape DEF Letters, Range
<1>4. PICK S, q : S = Range(base) \union Range(sub) /\ q = base \o sub
  OBVIOUS
<1>5. base \in Seq(S) /\ sub \in Seq(S)
  BY <1>1, <1>2, <1>4, SeqMonotonic DEF IsPath
<1>6. /\ q \in Seq(S) /\ Len(q) = Len(base) + Len(sub)
      /\ \A i \in 1 .. Len(base) + Len(sub) : q[i] = IF i <= Len(base) THEN base[i] ELSE sub[i - Len(base)]
  BY <1>4, <1>5, ConcatProperties
<1>7. Len(q) \in 1 .. MaxPath /\ q[1] = base[1]
  BY <1>1, <1>2, <1>6
<1>8. ASSUME NEW i \in 2 .. Len(q)
      PROVE  q[i][1] \in Letters
  <2>1. \/ i \in 2 .. Len(base) /\ q[i] = base[i]
        \/ i - Len(base) \in 1 .. Len(sub) /\ q[i] = sub[i - Len(base)]
    BY <1>2, <1>6
  <2> QED BY <1>1, <1>3, <2>1
<1>9. IsPath(q)
  BY <1>6, AnyPath
<1> QED BY <1>1, <1>4, <1>7, <1>8, <1>9, FoldedIs

(* Where a call arrives: a path that fits, under the name it was given.      *)
Arrives(path) == Place(reg_hive, path) /\ Fold(path) \in Folded

LEMMA CanonicalArrives ==
  ASSUME RegInv, NEW path, IsPath(path), Fold(path) \in Folded
  PROVE  Arrives(reg_canonical(path))
BY CanonicalIs DEF RegInv, HiveRight, Arrives, Place

-----------------------------------------------------------------------------
(* Handles                                                                   *)
OpenedAs(G) == [h \in DOMAIN G |-> Fold(G[h])]

LEMMA HiveStays ==
  ASSUME UNCHANGED reg_hive
  PROVE  KeysOf(reg_hive') = KeysOf(reg_hive) /\ ValuesIn(reg_hive') = ValuesIn(reg_hive)
OBVIOUS

LEMMA HandlesStay ==
  ASSUME UNCHANGED reg_handles
  PROVE  OpenedAs(reg_handles') = OpenedAs(reg_handles)
OBVIOUS

LEMMA HandedOut ==
  ASSUME RegInv, NEW path, IsPath(path), Fold(path) \in Folded, Unused # {}, Hands(path)
  PROVE  /\ HandlesRight(reg_handles')
         /\ \E h \in Handle \ DOMAIN OpenedAs(reg_handles) :
               OpenedAs(reg_handles') = WithEntry(OpenedAs(reg_handles), h, Fold(path))
<1>1. PICK h \in Unused : reg_handles' = WithEntry(reg_handles, h, path)
  BY DEF Hands
<1>2. /\ DOMAIN reg_handles' = DOMAIN reg_handles \union {h} /\ reg_handles'[h] = path
      /\ \A g \in DOMAIN reg_handles : g # h => reg_handles'[g] = reg_handles[g]
      /\ reg_handles' = [g \in DOMAIN reg_handles' |-> reg_handles'[g]]
  BY <1>1 DEF WithEntry
<1>3. HandlesRight(reg_handles')
  BY <1>2 DEF RegInv, HandlesRight
<1>4. h \in Handle \ DOMAIN OpenedAs(reg_handles)
  BY DEF Unused, OpenedAs
<1>5. OpenedAs(reg_handles') = WithEntry(OpenedAs(reg_handles), h, Fold(path))
  BY <1>2 DEF OpenedAs, WithEntry
<1> QED BY <1>3, <1>4, <1>5

LEMMA CloseKeyKeeps ==
  ASSUME RegInv, NEW h \in DOMAIN reg_handles, reg_close(h)
  PROVE  RegInv' /\ Promise!Close
<1>1. /\ reg_handles' = [g \in DOMAIN reg_handles \ {h} |-> reg_handles[g]]
      /\ UNCHANGED reg_hive /\ reg_answer' = <<"ok">>
  BY DEF reg_close, Restrict, Answered
<1>2. RegInv'
  BY <1>1 DEF RegInv, HandlesRight
<1>3. OpenedAs(reg_handles') = [g \in DOMAIN OpenedAs(reg_handles) \ {h} |-> OpenedAs(reg_handles)[g]]
  BY <1>1 DEF OpenedAs
<1>4. h \in DOMAIN OpenedAs(reg_handles)
  BY DEF OpenedAs
<1>5. KeysOf(reg_hive') = KeysOf(reg_hive) /\ ValuesIn(reg_hive') = ValuesIn(reg_hive)
  BY <1>1, HiveStays
<1>7. \E g \in DOMAIN OpenedAs(reg_handles) :
         OpenedAs(reg_handles') = Promise!Restrict(OpenedAs(reg_handles), DOMAIN OpenedAs(reg_handles) \ {g})
  BY <1>3, <1>4 DEF Promise!Restrict
<1>6. Promise!Close
  BY <1>1, <1>5, <1>7 DEF Promise!Close, OpenedAs, KeysOf, ValuesIn
<1> QED BY <1>2, <1>6

-----------------------------------------------------------------------------
(* Keys                                                                      *)
LEMMA CreatedKeeps ==
  ASSUME RegInv, NEW path, Arrives(path), NEW existed, Created(path, existed),
         existed = (path \in DOMAIN reg_hive) \/ existed = reg_key_exists(path)
  PROVE  RegInv' /\ Promise!Create(Fold(path))
<1>1. /\ HiveRight(reg_hive') /\ KeysOf(reg_hive') = KeysOf(reg_hive) \union {Fold(path)}
      /\ ValuesIn(reg_hive') = ValuesIn(reg_hive)
  BY HiveWithKey DEF RegInv, Arrives, Created
<1>2. /\ HandlesRight(reg_handles')
      /\ \E h \in Handle \ DOMAIN OpenedAs(reg_handles) :
            OpenedAs(reg_handles') = WithEntry(OpenedAs(reg_handles), h, Fold(path))
  BY HandedOut DEF Created, Arrives, Place
<1>3. /\ path \in DOMAIN reg_hive <=> Fold(path) \in KeysOf(reg_hive)
      /\ reg_key_exists(path) <=>
            (Fold(path) \in KeysOf(reg_hive) \/ \E q \in KeysOf(reg_hive) : Promise!Below(Fold(path), q))
  BY KeyOnce, KeyThere DEF reg_key_exists, RegInv, Arrives
<1>4. PICK told : told = IF existed THEN "opened" ELSE "created"
  OBVIOUS
<1>5. /\ told \in {"created", "opened"} /\ reg_answer' = <<told>>
      /\ Fold(path) \in KeysOf(reg_hive) => told = "opened"
      /\ ~(Fold(path) \in KeysOf(reg_hive) \/ \E q \in KeysOf(reg_hive) : Promise!Below(Fold(path), q))
            => told = "created"
  BY <1>3, <1>4 DEF Created, Answered
<1>6. Promise!Create(Fold(path))
  BY <1>1, <1>2, <1>5 DEF Promise!Create, Promise!There, Promise!WithEntry, WithEntry, KeysOf, ValuesIn, OpenedAs
<1> QED BY <1>1, <1>2, <1>6 DEF RegInv

LEMMA OpenedKeeps ==
  ASSUME RegInv, NEW path, Arrives(path), Opened(path)
  PROVE  RegInv' /\ Promise!Open(Fold(path))
<1>1. reg_key_exists(path) <=>
         (Fold(path) \in KeysOf(reg_hive) \/ \E q \in KeysOf(reg_hive) : Promise!Below(Fold(path), q))
  BY KeyThere DEF reg_key_exists, RegInv, Arrives
<1>2. /\ UNCHANGED reg_hive
      /\ KeysOf(reg_hive') = KeysOf(reg_hive) /\ ValuesIn(reg_hive') = ValuesIn(reg_hive)
  BY HiveStays DEF Opened
<1>3. CASE reg_key_exists(path)
  <2>1. reg_answer' = <<"ok">> /\ Hands(path) /\ Unused # {}
    BY <1>3 DEF Opened, Answered
  <2>2. /\ HandlesRight(reg_handles')
        /\ \E h \in Handle \ DOMAIN OpenedAs(reg_handles) :
              OpenedAs(reg_handles') = WithEntry(OpenedAs(reg_handles), h, Fold(path))
    BY <2>1, HandedOut DEF Arrives, Place
  <2>3. Promise!Open(Fold(path))
    BY <1>1, <1>2, <1>3, <2>1, <2>2
       DEF Promise!Open, Promise!There, Promise!WithEntry, WithEntry, KeysOf, ValuesIn, OpenedAs
  <2> QED BY <1>2, <2>2, <2>3 DEF RegInv
<1>4. CASE ~reg_key_exists(path)
  <2>1. reg_answer' = <<"not found">> /\ UNCHANGED reg_handles
        /\ OpenedAs(reg_handles') = OpenedAs(reg_handles)
    BY <1>4, HandlesStay DEF Opened, Answered
  <2>2. Promise!Open(Fold(path))
    BY <1>1, <1>2, <1>4, <2>1 DEF Promise!Open, Promise!There, KeysOf, ValuesIn, OpenedAs
  <2> QED BY <1>2, <2>1, <2>2 DEF RegInv
<1> QED BY <1>3, <1>4

LEMMA DeleteTreeKeeps ==
  ASSUME RegInv, NEW base, NEW sub, NEW path, path = reg_join(base, sub), NEW p, p = Fold(path),
         Arrives(path), reg_delete_key(base, sub)
  PROVE  RegInv' /\ Promise!DeleteTree(p)
<1> DEFINE P == {k \in DOMAIN reg_hive : IsPrefix(path, k)}
           dead == {q \in KeysOf(reg_hive) : q = p \/ Promise!Below(p, q)}
<1>1. /\ reg_hive' = Restrict(reg_hive, DOMAIN reg_hive \ P)
      /\ reg_answer' = <<"ok">> /\ UNCHANGED reg_handles
  BY DEF reg_delete_key, Removed, Answered
<1>2. ASSUME NEW k \in DOMAIN reg_hive
      PROVE  IsPrefix(path, k) <=> Fold(k) = p \/ Promise!Below(p, Fold(k))
  <2>0. Place(reg_hive, path) /\ HiveRight(reg_hive)
    BY DEF Arrives, RegInv
  <2>1. IsPath(k) /\ Len(path) \in Nat /\ Len(k) \in Nat /\ IsPath(path)
    BY <2>0, PathShape DEF HiveRight, KeysFit, Place
  <2>2. IsPrefix(path, k) <=> Alike(path, k)
    BY <2>0, FittingPrefix DEF HiveRight, Place
  <2>3. /\ Promise!Below(p, Fold(k)) <=> Alike(path, k) /\ Len(path) < Len(k)
        /\ p = Fold(k) <=> Alike(path, k) /\ Len(path) = Len(k)
    BY <2>1, FoldPrefixes
  <2>4. Alike(path, k) => Len(path) <= Len(k)
    BY DEF Alike
  <2> QED BY <2>1, <2>2, <2>3, <2>4
<1>3. \A k \in DOMAIN reg_hive : k \in P <=> Fold(k) \in dead
  BY <1>2 DEF KeysOf
<1> HIDE DEF P, dead
<1>4. /\ HiveRight(reg_hive') /\ KeysOf(reg_hive') = KeysOf(reg_hive) \ dead
      /\ ValuesIn(reg_hive') = {v \in ValuesIn(reg_hive) : v[1] \notin dead}
  BY <1>1, <1>3, HiveWithout DEF RegInv
<1>5. Promise!Gone(dead)
  BY <1>1, <1>4 DEF Promise!Gone, KeysOf, ValuesIn
<1>6. Promise!DeleteTree(p)
  BY <1>5 DEF Promise!DeleteTree, dead, KeysOf
<1> QED BY <1>1, <1>4, <1>6 DEF RegInv

LEMMA DeleteKeyKeeps ==
  ASSUME RegInv, NEW base, NEW path, path = reg_path_of(base), NEW p, p = Fold(path),
         Arrives(path), nt_delete_key(base)
  PROVE  RegInv' /\ Promise!DeleteKey(p)
<1> DEFINE there == Promise!There(p)
           below == Promise!SubkeysOf(p)
<1>0. Place(reg_hive, path) /\ HiveRight(reg_hive)
  BY DEF Arrives, RegInv
<1>1. /\ reg_key_exists(path) <=> there
      /\ subkeys(path) = below
  <2>1. reg_key_exists(path) <=>
          (p \in KeysOf(reg_hive) \/ \E q \in KeysOf(reg_hive) : Promise!Below(p, q))
    BY <1>0, KeyThere DEF reg_key_exists
  <2>2. subkeys(path) = SubsOf(KeysOf(reg_hive), p)
    BY <1>0, SubkeysAre
  <2>3. below = SubsOf(KeysOf(reg_hive), p)
    BY DEF Promise!SubkeysOf, SubsOf, KeysOf
  <2> QED BY <2>1, <2>2, <2>3 DEF Promise!There, KeysOf
<1>2. UNCHANGED reg_handles /\ OpenedAs(reg_handles') = OpenedAs(reg_handles)
  BY HandlesStay DEF nt_delete_key
<1>3. CASE there /\ below = {}
  <2>0. PICK P, dead : P = {path} /\ dead = {p}
    OBVIOUS
  <2>1. reg_hive' = Restrict(reg_hive, DOMAIN reg_hive \ P) /\ reg_answer' = <<"ok">>
    BY <1>1, <1>3, <2>0 DEF nt_delete_key, Removed, Answered
  <2>2. \A k \in DOMAIN reg_hive : k \in P <=> Fold(k) \in dead
    BY <1>0, <2>0, KeyOnce
  <2> HIDE DEF there, below
  <2>3. /\ HiveRight(reg_hive') /\ KeysOf(reg_hive') = KeysOf(reg_hive) \ dead
        /\ ValuesIn(reg_hive') = {v \in ValuesIn(reg_hive) : v[1] \notin dead}
    BY <1>0, <2>1, <2>2, HiveWithout
  <2>4. Promise!Gone({p})
    BY <1>2, <2>0, <2>1, <2>3 DEF Promise!Gone, KeysOf, ValuesIn
  <2> QED BY <1>2, <1>3, <2>3, <2>4 DEF RegInv, Promise!DeleteKey, there, below
<1>4. CASE ~there
  <2>1. reg_hive' = reg_hive /\ reg_answer' = <<"not found">>
    BY <1>1, <1>4 DEF nt_delete_key, Answered
  <2>2. RegInv'
    BY <1>2, <2>1 DEF RegInv
  <2>3. KeysOf(reg_hive') = KeysOf(reg_hive) /\ ValuesIn(reg_hive') = ValuesIn(reg_hive)
    BY <2>1, HiveStays
  <2>4. Promise!DeleteKey(p)
    BY <1>2, <1>4, <2>1, <2>3 DEF Promise!DeleteKey, KeysOf, ValuesIn, OpenedAs
  <2> QED BY <2>2, <2>4
<1>5. CASE there /\ below # {}
  <2>1. reg_hive' = reg_hive /\ reg_answer' = <<"cannot delete">>
    BY <1>1, <1>5 DEF nt_delete_key, Answered
  <2>2. RegInv'
    BY <1>2, <2>1 DEF RegInv
  <2>3. KeysOf(reg_hive') = KeysOf(reg_hive) /\ ValuesIn(reg_hive') = ValuesIn(reg_hive)
    BY <2>1, HiveStays
  <2>4. Promise!DeleteKey(p)
    BY <1>2, <1>5, <2>1, <2>3 DEF Promise!DeleteKey, KeysOf, ValuesIn, OpenedAs
  <2> QED BY <2>2, <2>4
<1> QED BY <1>3, <1>4, <1>5

-----------------------------------------------------------------------------
(* Values                                                                    *)
LEMMA StoredIs ==
  ASSUME NEW path, NEW name
  PROVE  /\ \A s \in StoredAs(path, name) : s \in ValuesOf(path) /\ s[1] = name[1]
         /\ StoredAs(path, name) = {} => \A n \in ValuesOf(path) : n[1] # name[1]
<1> DEFINE ci == {n \in ValuesOf(path) : SameName(n, name)}
<1>1. StoredAs(path, name) = IF name \in ci THEN {name} ELSE ci
  BY DEF StoredAs
<1>2. \A n : n \in ci <=> n \in ValuesOf(path) /\ n[1] = name[1]
  BY DEF SameName
<1> HIDE DEF ci
<1> QED BY <1>1, <1>2

(* What is stored under a name's letters.                                    *)
LEMMA DataIs ==
  ASSUME RegInv, NEW path, Arrives(path), NEW name
  PROVE  /\ StoredAs(path, name) = {} <=> Promise!DataOf(Fold(path), name[1]) = {}
         /\ \A s \in StoredAs(path, name) :
               path \in DOMAIN reg_hive /\ reg_hive[path][s] \in Promise!DataOf(Fold(path), name[1])
<1> DEFINE p == Fold(path)
<1>1. \A d : d \in Promise!DataOf(p, name[1]) <=> \E v \in ValuesIn(reg_hive) : v[1] = p /\ v[2] = name[1] /\ d = v[3]
  BY DEF Promise!DataOf, ValuesIn
<1>2. ASSUME NEW s \in StoredAs(path, name)
      PROVE  path \in DOMAIN reg_hive /\ reg_hive[path][s] \in Promise!DataOf(p, name[1])
  <2>1. s \in ValuesOf(path) /\ s[1] = name[1]
    BY StoredIs
  <2>2. path \in DOMAIN reg_hive /\ s \in DOMAIN reg_hive[path]
    BY <2>1 DEF ValuesOf
  <2>3. PICK v : v = <<p, s[1], reg_hive[path][s]>>
    OBVIOUS
  <2>4. v \in ValuesIn(reg_hive) /\ v[1] = p /\ v[2] = s[1] /\ v[3] = reg_hive[path][s]
    BY <2>2, <2>3, InValues
  <2> QED BY <1>1, <2>1, <2>2, <2>4
<1>3. ASSUME StoredAs(path, name) = {}, NEW d \in Promise!DataOf(p, name[1])
      PROVE  FALSE
  <2>1. PICK v \in ValuesIn(reg_hive) : v[1] = p /\ v[2] = name[1]
    BY <1>1, <1>3
  <2>2. PICK k \in DOMAIN reg_hive : \E n \in DOMAIN reg_hive[k] : v = <<Fold(k), n[1], reg_hive[k][n]>>
    BY InValues
  <2>3. PICK n \in DOMAIN reg_hive[k] : v = <<Fold(k), n[1], reg_hive[k][n]>>
    BY <2>2
  <2>4. Fold(k) = p /\ n[1] = name[1]
    BY <2>1, <2>3
  <2>5. k = path
    BY <2>4, KeyOnce DEF RegInv, Arrives
  <2>6. n \in ValuesOf(path)
    BY <2>5 DEF ValuesOf
  <2> QED BY <1>3, <2>4, <2>6, StoredIs
<1> QED BY <1>2, <1>3

LEMMA AnswerKeeps ==
  ASSUME RegInv, UNCHANGED <<reg_hive, reg_handles>>
  PROVE  /\ RegInv' /\ OpenedAs(reg_handles') = OpenedAs(reg_handles)
         /\ KeysOf(reg_hive') = KeysOf(reg_hive) /\ ValuesIn(reg_hive') = ValuesIn(reg_hive)
<1>1. RegInv'
  BY DEF RegInv
<1> QED BY <1>1, HiveStays, HandlesStay

LEMMA QueryKeeps ==
  ASSUME RegInv, NEW path, Arrives(path), NEW name, Asks(reg_value(path, name))
  PROVE  RegInv' /\ Promise!QueryValue(Fold(path), name[1])
<1>1. reg_answer' = reg_value(path, name) /\ UNCHANGED <<reg_hive, reg_handles>>
  BY DEF Asks
<1>2. /\ RegInv' /\ OpenedAs(reg_handles') = OpenedAs(reg_handles)
      /\ KeysOf(reg_hive') = KeysOf(reg_hive) /\ ValuesIn(reg_hive') = ValuesIn(reg_hive)
  BY <1>1, AnswerKeeps
<1>3. \/ \E d \in Promise!DataOf(Fold(path), name[1]) : reg_answer' = <<"data", d>>
      \/ Promise!DataOf(Fold(path), name[1]) = {} /\ reg_answer' = <<"not found">>
  <2>1. CASE StoredAs(path, name) = {}
    BY <1>1, <2>1, DataIs DEF reg_value
  <2>2. CASE StoredAs(path, name) # {}
    <3>1. PICK s \in StoredAs(path, name) : reg_answer' = <<"data", reg_hive[path][s]>>
      BY <1>1, <2>2 DEF reg_value
    <3> QED BY <3>1, DataIs
  <2> QED BY <2>1, <2>2
<1>4. Promise!QueryValue(Fold(path), name[1])
  BY <1>2, <1>3 DEF Promise!QueryValue, KeysOf, ValuesIn, OpenedAs
<1> QED BY <1>2, <1>4

LEMMA ValuesWith ==
  ASSUME NEW old, ValuesAre(old), NEW s, NEW data, FreeFor(old, s), NEW u, u = WithEntry(old, s, data)
  PROVE  ValuesAre(u)
<1>1. /\ DOMAIN u = DOMAIN old \union {s} /\ u[s] = data /\ u = [n \in DOMAIN u |-> u[n]]
      /\ \A n \in DOMAIN old : n # s => u[n] = old[n]
  BY DEF WithEntry
<1>2. \A n \in DOMAIN old : n # s => n[1] # s[1]
  BY DEF ValuesAre, FreeFor
<1>3. IsFiniteSet(DOMAIN u)
  BY <1>1, FS_AddElement DEF ValuesAre
<1> QED BY <1>1, <1>2, <1>3 DEF ValuesAre

LEMMA SetKeeps ==
  ASSUME RegInv, NEW base, NEW name, NEW data, Arrives(reg_path_of(base)), reg_set(base, name, data)
  PROVE  RegInv' /\ Promise!SetValue(Fold(reg_path_of(base)), name[1], data)
<1>1. PICK path, p : path = reg_path_of(base) /\ p = Fold(path)
  OBVIOUS
<1>2. /\ reg_hive' = reg_value_set(path, name, data) /\ reg_answer' = <<"ok">> /\ UNCHANGED reg_handles
      /\ OpenedAs(reg_handles') = OpenedAs(reg_handles)
  BY <1>1, HandlesStay DEF reg_set, Answered
<1>3. Arrives(path) /\ HiveRight(reg_hive)
  BY <1>1 DEF RegInv
<1>4. PICK s : s = IF StoredAs(path, name) = {} THEN name ELSE CHOOSE x \in StoredAs(path, name) : TRUE
  OBVIOUS
<1>5. PICK W : W = HiveWith(path)
  OBVIOUS
<1>6. PICK old, u : old = W[path] /\ u = WithEntry(old, s, data)
  OBVIOUS
<1>7. /\ HiveRight(W) /\ KeysOf(W) = KeysOf(reg_hive) \union {p} /\ path \in DOMAIN W
      /\ old = IF path \in DOMAIN reg_hive THEN reg_hive[path] ELSE <<>>
      /\ ValuesIn(W) = ValuesIn(reg_hive) /\ Place(W, path)
  BY <1>1, <1>3, <1>5, <1>6, HiveWithKey DEF Arrives
<1>8. DOMAIN old = ValuesOf(path) /\ ValuesAre(old)
  <2>1. DOMAIN old = ValuesOf(path)
    BY <1>7, NoValues DEF ValuesOf
  <2> QED BY <1>6, <1>7, <2>1 DEF HiveRight
<1>9. s[1] = name[1] /\ FreeFor(old, s)
  <2>1. CASE StoredAs(path, name) = {}
    BY <1>4, <1>8, <2>1, StoredIs DEF FreeFor
  <2>2. CASE StoredAs(path, name) # {}
    <3>1. s \in StoredAs(path, name)
      BY <1>4, <2>2
    <3> QED BY <1>8, <3>1, StoredIs DEF FreeFor
  <2> QED BY <2>1, <2>2
<1>10. /\ ValuesAre(u) /\ DOMAIN u = DOMAIN old \union {s} /\ u[s] = data
       /\ \A n \in DOMAIN old : n # s => u[n] = old[n] /\ n[1] # s[1]
  <2>1. ValuesAre(old) /\ FreeFor(old, s) /\ u = WithEntry(old, s, data)
    BY <1>6, <1>8, <1>9
  <2>2. ValuesAre(u)
    BY <2>1, ValuesWith
  <2>3. DOMAIN u = DOMAIN old \union {s} /\ u[s] = data
    BY <2>1 DEF WithEntry
  <2>4. \A n \in DOMAIN old : n # s => u[n] = old[n] /\ n[1] # s[1]
    BY <2>1 DEF WithEntry, ValuesAre, FreeFor
  <2> QED BY <2>2, <2>3, <2>4
<1>11. reg_hive' = Put(W, path, u)
  BY <1>2, <1>4, <1>5, <1>6 DEF reg_value_set, Put
<1>12. /\ HiveRight(reg_hive') /\ KeysOf(reg_hive') = KeysOf(W)
       /\ ValuesIn(reg_hive') = OffKey(ValuesIn(W), p) \union Triples(p, u)
  BY <1>1, <1>7, <1>10, <1>11, HiveChanged
<1>13. AtKey(ValuesIn(W), p) = Triples(p, old)
  BY <1>1, <1>6, <1>7, TriplesAtKey
<1>14. Triples(p, u) = {v \in Triples(p, old) : v[2] # name[1]} \union {<<p, name[1], data>>}
  <2>1. ASSUME NEW n \in DOMAIN u
        PROVE  \/ <<p, n[1], u[n]>> = <<p, name[1], data>>
               \/ <<p, n[1], u[n]>> \in {v \in {<<p, m[1], old[m]>> : m \in DOMAIN old} : v[2] # name[1]}
    BY <1>9, <1>10
  <2>2. ASSUME NEW n \in DOMAIN old, n[1] # name[1]
        PROVE  <<p, n[1], old[n]>> \in {<<p, m[1], u[m]>> : m \in DOMAIN u}
    <3>1. n \in DOMAIN u /\ u[n] = old[n]
      BY <1>9, <1>10, <2>2
    <3> QED BY <3>1
  <2>3. <<p, name[1], data>> \in {<<p, m[1], u[m]>> : m \in DOMAIN u}
    BY <1>9, <1>10
  <2> QED BY <2>1, <2>2, <2>3 DEF Triples
<1>15. ValuesIn(reg_hive') = {v \in ValuesIn(reg_hive) : v[1] # p \/ v[2] # name[1]} \union {<<p, name[1], data>>}
  <2> DEFINE Old == Triples(p, old)
             New == Triples(p, u)
  <2>1. /\ Old = {v \in ValuesIn(reg_hive) : v[1] = p}
        /\ New = {v \in Old : v[2] # name[1]} \union {<<p, name[1], data>>}
        /\ ValuesIn(reg_hive') = {v \in ValuesIn(reg_hive) : v[1] # p} \union New
    BY <1>7, <1>12, <1>13, <1>14 DEF AtKey, OffKey
  <2> HIDE DEF Old, New
  <2> QED BY <2>1
<1>16. RegInv'
  BY <1>2, <1>12 DEF RegInv
<1>17. Promise!SetValue(p, name[1], data)
  BY <1>2, <1>7, <1>12, <1>15 DEF Promise!SetValue, KeysOf, ValuesIn, OpenedAs
<1> QED BY <1>1, <1>16, <1>17

LEMMA DeleteValueKeeps ==
  ASSUME RegInv, NEW base, NEW name, NEW path, path = reg_path_of(base), NEW p, p = Fold(path),
         Arrives(path), reg_delete_value(base, name)
  PROVE  RegInv' /\ Promise!DeleteValue(p, name[1])
<1>1. path = reg_path_of(base) /\ p = Fold(path)
  OBVIOUS
<1>2. /\ reg_hive' = reg_value_remove(path, name) /\ UNCHANGED reg_handles
      /\ reg_answer' = <<IF StoredAs(path, name) = {} THEN "not found" ELSE "ok">>
      /\ OpenedAs(reg_handles') = OpenedAs(reg_handles)
  BY <1>1, HandlesStay DEF reg_delete_value, Answered
<1>3. Arrives(path) /\ HiveRight(reg_hive)
  BY <1>1 DEF RegInv
<1>4. reg_answer' = IF Promise!DataOf(p, name[1]) = {} THEN <<"not found">> ELSE <<"ok">>
  BY <1>1, <1>2, <1>3, DataIs
<1>5. /\ HiveRight(reg_hive') /\ KeysOf(reg_hive') = KeysOf(reg_hive)
      /\ ValuesIn(reg_hive') = {v \in ValuesIn(reg_hive) : v[1] # p \/ v[2] # name[1]}
  <2>1. CASE StoredAs(path, name) = {}
    <3>1. reg_hive' = reg_hive
      BY <1>2, <2>1 DEF reg_value_remove
    <3>2. ASSUME NEW v \in ValuesIn(reg_hive), v[1] = p, v[2] = name[1]
          PROVE  FALSE
      <4>1. v[3] \in Promise!DataOf(p, name[1])
        BY <3>2 DEF Promise!DataOf, ValuesIn
      <4> QED BY <1>1, <1>3, <2>1, <4>1, DataIs
    <3> QED BY <1>3, <3>1, <3>2
  <2>2. CASE StoredAs(path, name) # {}
    <3>1. PICK s \in StoredAs(path, name) :
             reg_hive' = [reg_hive EXCEPT ![path] = Restrict(@, DOMAIN @ \ {s})]
      BY <1>2, <2>2 DEF reg_value_remove
    <3>2. path \in DOMAIN reg_hive /\ s[1] = name[1]
      BY <1>3, DataIs, StoredIs
    <3>3. PICK old, u : old = reg_hive[path] /\ u = Restrict(old, DOMAIN old \ {s})
      OBVIOUS
    <3>4. ValuesAre(old) /\ s \in DOMAIN old /\ reg_hive' = Put(reg_hive, path, u)
      BY <1>3, <3>1, <3>2, <3>3, StoredIs DEF HiveRight, ValuesOf, Put
    <3>5. /\ DOMAIN u = DOMAIN old \ {s} /\ u = [n \in DOMAIN u |-> u[n]]
          /\ \A n \in DOMAIN u : u[n] = old[n] /\ n[1] # name[1] /\ n \in DOMAIN old
      BY <3>2, <3>3, <3>4 DEF Restrict, ValuesAre
    <3>6. ValuesAre(u)
      BY <3>4, <3>5, FS_Subset DEF ValuesAre
    <3>7. /\ HiveRight(reg_hive') /\ KeysOf(reg_hive') = KeysOf(reg_hive)
          /\ ValuesIn(reg_hive') = OffKey(ValuesIn(reg_hive), p) \union Triples(p, u)
      BY <1>1, <1>3, <3>2, <3>4, <3>6, HiveChanged
    <3>8. AtKey(ValuesIn(reg_hive), p) = Triples(p, old)
      BY <1>1, <1>3, <3>2, <3>3, TriplesAtKey DEF Arrives
    <3>9. Triples(p, u) = {v \in Triples(p, old) : v[2] # name[1]}
      <4>1. \A n \in DOMAIN old : n[1] # name[1] => n \in DOMAIN u /\ u[n] = old[n]
        BY <3>2, <3>5
      <4> QED BY <3>5, <4>1 DEF Triples
    <3> DEFINE Old == Triples(p, old)
               New == Triples(p, u)
    <3>10. /\ Old = {v \in ValuesIn(reg_hive) : v[1] = p}
           /\ New = {v \in Old : v[2] # name[1]}
           /\ ValuesIn(reg_hive') = {v \in ValuesIn(reg_hive) : v[1] # p} \union New
      BY <3>7, <3>8, <3>9 DEF AtKey, OffKey
    <3> HIDE DEF Old, New
    <3>11. ValuesIn(reg_hive') = {v \in ValuesIn(reg_hive) : v[1] # p \/ v[2] # name[1]}
      BY <3>10
    <3> QED BY <3>7, <3>11
  <2> QED BY <2>1, <2>2
<1>6. RegInv'
  BY <1>2, <1>5 DEF RegInv
<1>7. Promise!DeleteValue(p, name[1])
  BY <1>2, <1>4, <1>5 DEF Promise!DeleteValue, KeysOf, ValuesIn, OpenedAs
<1> QED BY <1>6, <1>7

-----------------------------------------------------------------------------
(* Counts and enumerations                                                   *)
LEMMA NameIs ==
  ASSUME NEW names, IsFiniteSet(names), NEW index \in Nat, index < Cardinality(names)
  PROVE  SetToSeq(names)[index + 1] \in names
<1> DEFINE n == Cardinality(names)
           order == SetToSeq(names)
<1>1. n \in Nat /\ ExistsBijection(1 .. n, names)
  BY FS_CardinalityType
<1>2. \E f \in [1 .. n -> names] : IsInjective(f)
  BY <1>1 DEF ExistsBijection, Bijection, Injection
<1>3. order \in [1 .. n -> names]
  BY <1>2 DEF SetToSeq
<1>4. index + 1 \in 1 .. n
  BY <1>1
<1> HIDE DEF order, n
<1> QED BY <1>3, <1>4 DEF order

LEMMA CountsAgree == ASSUME NEW S PROVE Promise!Cardinality(S) = Cardinality(S)
BY DEF Promise!Cardinality, Cardinality

LEMMA ValueCount ==
  ASSUME RegInv, NEW path, Arrives(path)
  PROVE  /\ IsFiniteSet(ValuesOf(path))
         /\ Cardinality(ValuesOf(path)) = Cardinality(AtKey(ValuesIn(reg_hive), Fold(path)))
         /\ {n[1] : n \in ValuesOf(path)} = {v[2] : v \in AtKey(ValuesIn(reg_hive), Fold(path))}
         /\ IsFiniteSet({n[1] : n \in ValuesOf(path)})
<1> DEFINE p == Fold(path)
           names == ValuesOf(path)
           V == AtKey(ValuesIn(reg_hive), p)
           to == [n \in names |-> <<p, n[1], reg_hive[path][n]>>]
           letters == [n \in names |-> n[1]]
<1>1. names = IF path \in DOMAIN reg_hive THEN DOMAIN reg_hive[path] ELSE {}
  BY DEF ValuesOf
<1>2. V = {<<p, n[1], reg_hive[path][n]>> : n \in names}
  BY <1>1, ValuesAtKey DEF AtKey, RegInv, Arrives
<1>3. IsFiniteSet(names) /\ \A n, m \in names : n[1] = m[1] => n = m
  BY <1>1, FS_EmptySet DEF RegInv, HiveRight, ValuesAre
<1> HIDE DEF names
<1>4. to \in Bijection(names, V)
  <2>1. to \in [names -> V] /\ \A t \in V : \E n \in names : to[n] = t
    BY <1>2
  <2>2. \A n, m \in names : to[n] = to[m] => n = m
    BY <1>3
  <2> HIDE DEF to, V
  <2> QED BY <2>1, <2>2 DEF Bijection, Injection, Surjection, IsInjective
<1>5. ExistsBijection(names, V)
  BY <1>4 DEF ExistsBijection
<1>6. Cardinality(V) = Cardinality(names)
  <2> HIDE DEF V
  <2> QED BY <1>3, <1>5, FS_Bijection
<1>7. {n[1] : n \in names} = {v[2] : v \in V}
  <2>1. \A n \in names : to[n] \in V /\ to[n][2] = n[1]
    BY <1>2
  <2>2. \A v \in V : \E n \in names : v[2] = n[1]
    BY <1>2
  <2> HIDE DEF V, to
  <2> QED BY <2>1, <2>2
<1>8. letters \in Surjection(names, {n[1] : n \in names})
  BY DEF Surjection
<1>9. IsFiniteSet({n[1] : n \in names})
  BY <1>3, <1>8, FS_Surjection
<1> QED BY <1>3, <1>6, <1>7, <1>9 DEF names

LEMMA EnumerateKeeps ==
  ASSUME RegInv, NEW names, IsFiniteSet(names), NEW index \in 0 .. MaxKeys, Asks(Nth(names, index))
  PROVE  RegInv' /\ Promise!Enumerate(names)
<1>1. /\ reg_answer' = Nth(names, index) /\ UNCHANGED <<reg_hive, reg_handles>>
      /\ index \in Nat /\ Cardinality(names) \in Nat
  BY FS_CardinalityType, RegistryAssumption DEF Asks
<1>2. /\ RegInv' /\ OpenedAs(reg_handles') = OpenedAs(reg_handles)
      /\ KeysOf(reg_hive') = KeysOf(reg_hive) /\ ValuesIn(reg_hive') = ValuesIn(reg_hive)
  BY <1>1, AnswerKeeps
<1>3. \/ index < Cardinality(names) /\ \E n \in names : reg_answer' = <<"name", index, n>>
      \/ index >= Cardinality(names) /\ reg_answer' = <<"no more", index>>
  <2>1. CASE index < Cardinality(names)
    <3>1. PICK n : n = SetToSeq(names)[index + 1]
      OBVIOUS
    <3>2. n \in names
      BY <1>1, <2>1, <3>1, NameIs
    <3>3. reg_answer' = <<"name", index, n>>
      BY <1>1, <2>1, <3>1 DEF Nth
    <3> QED BY <2>1, <3>2, <3>3
  <2>2. CASE ~(index < Cardinality(names))
    <3>1. index >= Cardinality(names)
      BY <1>1, <2>2
    <3>2. reg_answer' = <<"no more", index>>
      BY <1>1, <2>2 DEF Nth
    <3> QED BY <3>1, <3>2
  <2> QED BY <2>1, <2>2
<1>4. Promise!Enumerate(names)
  BY <1>2, <1>3, CountsAgree DEF Promise!Enumerate, KeysOf, ValuesIn, OpenedAs
<1> QED BY <1>2, <1>4

LEMMA CountsKeep ==
  ASSUME RegInv, NEW path, Arrives(path), NEW p, p = Fold(path), Asks(Counts(path))
  PROVE  RegInv' /\ Promise!Describe(p)
<1>1. reg_answer' = Counts(path) /\ UNCHANGED <<reg_hive, reg_handles>>
  BY DEF Asks
<1>2. /\ RegInv' /\ OpenedAs(reg_handles') = OpenedAs(reg_handles)
      /\ KeysOf(reg_hive') = KeysOf(reg_hive) /\ ValuesIn(reg_hive') = ValuesIn(reg_hive)
  BY <1>1, AnswerKeeps
<1>3. PICK names : names = SubsOf(KeysOf(reg_hive), p)
  OBVIOUS
<1>4. PICK held : held = AtKey(ValuesIn(reg_hive), p)
  OBVIOUS
<1>5. reg_answer' = <<"counts", Cardinality(names), Cardinality(held)>>
  BY <1>1, <1>3, <1>4, SubkeysAre, ValueCount DEF Counts, RegInv, Arrives
<1>6. names = Promise!SubkeysOf(p)
  BY <1>3 DEF Promise!SubkeysOf, SubsOf, KeysOf
<1>7. held = {v \in ValuesIn(reg_hive) : v[1] = p}
  BY <1>4 DEF AtKey
<1>8. Promise!Describe(p)
  BY <1>2, <1>5, <1>6, <1>7, CountsAgree DEF Promise!Describe, KeysOf, ValuesIn, OpenedAs
<1> QED BY <1>2, <1>8

-----------------------------------------------------------------------------
(* Every call is one of the promise's.                                       *)
LEMMA CallKeeps ==
  ASSUME RegInv, NEW base \in reg_resolve, NEW path, path = reg_canonical(base), NEW p, p = Fold(path),
         \/ nt_delete_key(base)
         \/ \E name \in ValueNames :
                \/ \E data \in Datas : reg_set(base, name, data) \/ nt_set_value_key(base, name, data)
                \/ reg_query(base, name) \/ nt_query_value_key(base, name)
                \/ reg_delete_value(base, name) \/ nt_delete_value_key(base, name)
         \/ \E index \in 0 .. MaxKeys :
                \/ reg_enum_key(base, index) \/ nt_enumerate_key(base, index)
                \/ reg_enum_value(base, index) \/ nt_enumerate_value_key(base, index)
         \/ reg_query_info(base) \/ nt_query_key(base)
  PROVE  RegInv' /\ Promise!PromiseNext
<1>1. path = reg_path_of(base) /\ Arrives(path) /\ p \in Folded
  BY BaseIs, CanonicalArrives DEF reg_path_of, Arrives
<1>2. CASE nt_delete_key(base)
  <2>1. RegInv' /\ Promise!DeleteKey(p)
    BY <1>1, <1>2, DeleteKeyKeeps
  <2> QED BY <1>1, <2>1 DEF Promise!PromiseNext
<1>3. ASSUME NEW name \in ValueNames, NEW data \in Datas,
             reg_set(base, name, data) \/ nt_set_value_key(base, name, data)
      PROVE  RegInv' /\ Promise!PromiseNext
  <2>1. RegInv' /\ Promise!SetValue(p, name[1], data)
    BY <1>1, <1>3, SetKeeps DEF nt_set_value_key
  <2>2. name[1] \in {n[1] : n \in ValueNames}
    OBVIOUS
  <2> QED BY <1>1, <2>1, <2>2 DEF Promise!PromiseNext
<1>4. ASSUME NEW name \in ValueNames, reg_query(base, name) \/ nt_query_value_key(base, name)
      PROVE  RegInv' /\ Promise!PromiseNext
  <2>1. RegInv' /\ Promise!QueryValue(p, name[1])
    BY <1>1, <1>4, QueryKeeps DEF reg_query, nt_query_value_key
  <2>2. name[1] \in {n[1] : n \in ValueNames}
    OBVIOUS
  <2> QED BY <1>1, <2>1, <2>2 DEF Promise!PromiseNext
<1>5. ASSUME NEW name \in ValueNames, reg_delete_value(base, name) \/ nt_delete_value_key(base, name)
      PROVE  RegInv' /\ Promise!PromiseNext
  <2>1. RegInv' /\ Promise!DeleteValue(p, name[1])
    BY <1>1, <1>5, DeleteValueKeeps DEF nt_delete_value_key
  <2>2. name[1] \in {n[1] : n \in ValueNames}
    OBVIOUS
  <2> QED BY <1>1, <2>1, <2>2 DEF Promise!PromiseNext
<1>6. ASSUME NEW index \in 0 .. MaxKeys, reg_enum_key(base, index) \/ nt_enumerate_key(base, index)
      PROVE  RegInv' /\ Promise!PromiseNext
  <2>1. PICK names : names = subkeys(path)
    OBVIOUS
  <2>2. IsFiniteSet(names) /\ names = SubsOf(KeysOf(reg_hive), p)
    BY <1>1, <2>1, SubkeysAre DEF RegInv, Arrives
  <2>3. RegInv' /\ Promise!Enumerate(names)
    BY <1>1, <1>6, <2>1, <2>2, EnumerateKeeps DEF reg_enum_key, nt_enumerate_key
  <2>4. names = Promise!SubkeysOf(p)
    BY <2>2 DEF Promise!SubkeysOf, SubsOf, KeysOf
  <2> QED BY <1>1, <2>3, <2>4 DEF Promise!PromiseNext
<1>7. ASSUME NEW index \in 0 .. MaxKeys, reg_enum_value(base, index) \/ nt_enumerate_value_key(base, index)
      PROVE  RegInv' /\ Promise!PromiseNext
  <2>1. PICK names : names = {n[1] : n \in ValuesOf(path)}
    OBVIOUS
  <2>2. IsFiniteSet(names) /\ names = {v[2] : v \in AtKey(ValuesIn(reg_hive), p)}
    BY <1>1, <2>1, ValueCount
  <2>3. RegInv' /\ Promise!Enumerate(names)
    BY <1>1, <1>7, <2>1, <2>2, EnumerateKeeps DEF reg_enum_value, nt_enumerate_value_key, Listed
  <2> QED BY <1>1, <2>2, <2>3 DEF Promise!PromiseNext, AtKey, ValuesIn
<1>8. CASE reg_query_info(base) \/ nt_query_key(base)
  <2>1. RegInv' /\ Promise!Describe(p)
    BY <1>1, <1>8, CountsKeep DEF reg_query_info, nt_query_key
  <2> QED BY <1>1, <2>1 DEF Promise!PromiseNext
<1> QED BY <1>2, <1>3, <1>4, <1>5, <1>6, <1>7, <1>8

LEMMA CallBelowKeeps ==
  ASSUME RegInv, NEW base \in reg_resolve, NEW sub \in Subkeys, Len(base) + Len(sub) <= MaxPath,
         NEW path, path = reg_canonical(base \o sub), NEW p, p = Fold(path),
         \/ reg_create(base, sub) \/ nt_create_key(base, sub)
         \/ reg_open(base, sub) \/ nt_open_key(base, sub)
         \/ reg_delete_key(base, sub)
  PROVE  RegInv' /\ Promise!PromiseNext
<1>1. path = reg_join(base, sub) /\ path = nt_reg_resolve(base, sub) /\ Arrives(path) /\ p \in Folded
  BY JoinIs, CanonicalArrives DEF reg_join, nt_reg_resolve, Arrives
<1>2. CASE reg_create(base, sub) \/ nt_create_key(base, sub)
  <2>1. RegInv' /\ Promise!Create(p)
    BY <1>1, <1>2, CreatedKeeps DEF reg_create, nt_create_key
  <2> QED BY <1>1, <2>1 DEF Promise!PromiseNext
<1>3. CASE reg_open(base, sub) \/ nt_open_key(base, sub)
  <2>1. RegInv' /\ Promise!Open(p)
    BY <1>1, <1>3, OpenedKeeps DEF reg_open, nt_open_key
  <2> QED BY <1>1, <2>1 DEF Promise!PromiseNext
<1>4. CASE reg_delete_key(base, sub)
  <2>1. RegInv' /\ Promise!DeleteTree(p)
    BY <1>1, <1>4, DeleteTreeKeeps
  <2> QED BY <1>1, <2>1 DEF Promise!PromiseNext
<1> QED BY <1>2, <1>3, <1>4

LEMMA RegStep == RegInv /\ RegNext => RegInv' /\ Promise!PromiseNext
<1> SUFFICES ASSUME RegInv, RegNext
             PROVE  RegInv' /\ Promise!PromiseNext
  OBVIOUS
<1>1. ASSUME NEW h \in DOMAIN reg_handles, reg_close(h)
      PROVE  RegInv' /\ Promise!PromiseNext
  BY <1>1, CloseKeyKeeps DEF Promise!PromiseNext
<1>2. ASSUME NEW base \in reg_resolve, NEW sub \in Subkeys, Len(base) + Len(sub) <= MaxPath,
             \/ reg_create(base, sub) \/ nt_create_key(base, sub)
             \/ reg_open(base, sub) \/ nt_open_key(base, sub)
             \/ reg_delete_key(base, sub)
      PROVE  RegInv' /\ Promise!PromiseNext
  BY <1>2, CallBelowKeeps
<1>3. ASSUME NEW base \in reg_resolve,
             \/ nt_delete_key(base)
             \/ \E name \in ValueNames :
                    \/ \E data \in Datas : reg_set(base, name, data) \/ nt_set_value_key(base, name, data)
                    \/ reg_query(base, name) \/ nt_query_value_key(base, name)
                    \/ reg_delete_value(base, name) \/ nt_delete_value_key(base, name)
             \/ \E index \in 0 .. MaxKeys :
                    \/ reg_enum_key(base, index) \/ nt_enumerate_key(base, index)
                    \/ reg_enum_value(base, index) \/ nt_enumerate_value_key(base, index)
             \/ reg_query_info(base) \/ nt_query_key(base)
      PROVE  RegInv' /\ Promise!PromiseNext
  BY <1>3, CallKeeps
<1> QED BY <1>1, <1>2, <1>3 DEF RegNext

LEMMA RegStarts == RegInit => RegInv /\ Promise!PromiseInit
<1> SUFFICES ASSUME RegInit
             PROVE  RegInv /\ Promise!PromiseInit
  OBVIOUS
<1>1. PICK none : none = <<>>
  OBVIOUS
<1>2. /\ DOMAIN reg_hive = {HKCR} /\ reg_hive[HKCR] = none /\ reg_hive = [k \in DOMAIN reg_hive |-> reg_hive[k]]
      /\ reg_handles = none /\ reg_answer = <<"none">>
  BY <1>1 DEF RegInit, Seed
<1>3. ValuesAre(none) /\ DOMAIN none = {} /\ none = [h \in DOMAIN none |-> none[h]]
  BY <1>1, NoValues DEF ValuesAre
<1>4. HiveRight(reg_hive)
  <2>1. Fits({HKCR}, HKCR) /\ IsFiniteSet({HKCR})
    BY FS_Singleton DEF Fits
  <2> QED BY <1>2, <1>3, <2>1, RootIs DEF HiveRight, KeysFit
<1>5. HandlesRight(reg_handles)
  BY <1>2, <1>3 DEF HandlesRight
<1>6. KeysOf(reg_hive) = {Fold(Seed)} /\ ValuesIn(reg_hive) = {}
  BY <1>2, <1>3 DEF KeysOf, ValuesIn, Seed
<1>7. OpenedAs(reg_handles) = <<>>
  <2>1. OpenedAs(reg_handles) = [h \in {} |-> none]
    BY <1>2, <1>3 DEF OpenedAs
  <2>2. none = [h \in {} |-> none]
    BY <1>3
  <2> QED BY <1>1, <2>1, <2>2
<1>8. Promise!PromiseInit
  BY <1>2, <1>6, <1>7, <1>1 DEF Promise!PromiseInit, KeysOf, ValuesIn, OpenedAs
<1> QED BY <1>4, <1>5, <1>8 DEF RegInv

(* Whatever capitals callers write, and however old their handles are, each  *)
(* call of reg.rs answers and acts as a registry whose names have none       *)
(* (RegistryPromise), for any hive and any number of keys and values.        *)
THEOREM RegistryIsCorrect == RegSpec => RegistryKeepsPromise
<1>1. RegInv /\ [RegNext]_regVars => RegInv'
  <2>1. RegInv /\ UNCHANGED regVars => RegInv'
    BY DEF RegInv, regVars
  <2> QED BY <2>1, RegStep
<1>2. RegInv /\ [RegNext]_regVars => [UNCHANGED regVars \/ Promise!PromiseNext]_(Promise!promiseVars)
  BY RegStep
<1> QED BY <1>1, <1>2, RegStarts, PTL DEF RegSpec, RegistryKeepsPromise
=============================================================================
