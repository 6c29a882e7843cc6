-------------------------- MODULE JitMachineProofs --------------------------
(***************************************************************************)
(* What the guest sees of compiled code is a run of the interpreter: the   *)
(* refinement of Machine by JitCache, proved for every size of the cache   *)
(* and every program, where memory keeps its rights, the interpreter and   *)
(* the OS layer do not write into executable memory, and no store covers   *)
(* two addresses.  Compiled code may write into compiled code.             *)
(***************************************************************************)
EXTENDS JitCacheProofs

\* The links of a chain are followed without looking at memory, so a write
\* the run loop makes between two calls is not seen there (see jit_host), and
\* of a store over two pages only the first is remembered.
Sparing ==
    /\ NothingRemapped /\ Widths \subseteq {1}
    /\ \A m \in InitRams, a \in HostStores : "X" \notin m.perm[RegionAt(a)]

\* Where the guest is.
Rip == IF call.phase = "native" THEN Running.rip + native.pc - 1 ELSE cpu.rip

-----------------------------------------------------------------------------
(* The inductive invariant.                                                *)

\* Memory holds the block now, from its k-th instruction on.
HoldsFrom(b, m, k) == \A i \in k .. Len(b.code) : m.bytes[b.rip + i - 1] = b.code[i]
Holds(b, m) == HoldsFrom(b, m, 1)

\* Every link that may be followed leads to a block memory holds.
Chain(j, m) ==
    \A s \in Slots : j.links[s].epoch = j.epoch => Holds(j.blocks[j.links[s].to], m)

\* A store into a page with compiled code was recorded, so that the links go
\* when compiled code returns.
LinksDoomed(n, j) == n.hits > 1 \/ (n.hits = 1 /\ PageOf(n.smc) \in j.codePages)

MachineInv ==
    /\ \A a \in HostStores : "X" \notin ram.perm[RegionAt(a)]
    /\ Chain(jit, ram) \/ (call.phase = "native" /\ LinksDoomed(native, jit))
    /\ call.phase = "native" =>
          /\ native.hits # 0 => native.epoch = EpochDead
          /\ HoldsFrom(Running, ram, native.pc)

-----------------------------------------------------------------------------
(* The steps of the abstract machine.                                      *)

LEMMA MachineReads ==
  ASSUME NEW a, NEW n, NEW right
  PROVE  M!Allowed(M!Memory, a, n, right) <=> Allowed(ram, a, n, right)
  BY DEF M!Allowed, M!Memory, M!Addr, M!RegionAt, M!PageOf, Allowed, Addr, RegionAt, PageOf

LEMMA MachinePlain ==
  ASSUME Allowed(ram, Rip, 1, "X"), ram.bytes[Rip].op = "plain",
         Rip' = Rip + 1, cpu'.mode = cpu.mode, ram'.bytes = ram.bytes, ram'.perm = ram.perm
  PROVE  M!Step
  BY MachineReads DEF M!Step, M!Plain, M!Decodes, M!Fetches, Rip

LEMMA MachineBranch ==
  ASSUME Allowed(ram, Rip, 1, "X"),
         \/ ram.bytes[Rip].op = "jmp" /\ Rip' = ram.bytes[Rip].to
         \/ ram.bytes[Rip].op = "jcc" /\ Rip' \in {ram.bytes[Rip].to, Rip + 1}
         \/ ram.bytes[Rip].op = "ind" /\ Rip' \in Targets,
         cpu'.mode = cpu.mode, ram'.bytes = ram.bytes, ram'.perm = ram.perm
  PROVE  M!Step
  BY MachineReads DEF M!Step, M!Branch, M!Decodes, M!Fetches, Rip

\* What memory holds after a store.
After(a, n, v) == [b \in Addr |-> IF b \in a .. a + n - 1 THEN v ELSE ram.bytes[b]]

LEMMA AfterStore ==
  ASSUME ram \in Memories, NEW a, NEW n, NEW v
  PROVE  Stored(ram, a, n, v).bytes = After(a, n, v) /\ Written(ram, a, n, v).bytes = After(a, n, v)
<1>1. /\ Stored(ram, a, n, v).bytes = After(a, n, v)
      /\ Stored(ram, a, n, v) \in [bytes : {After(a, n, v)}, perm : {ram.perm}, backing : {ram.backing},
                                   pageGen : {ram.pageGen}, codeGen : {ram.codeGen},
                                   layoutGen : {ram.layoutGen}]
  BY DEF Stored, After, Memories
<1> DEFINE s == Stored(ram, a, n, v)
<1> HIDE DEF s
<1>2. NoteCodeWrite(s, a, n).bytes = s.bytes
  BY <1>1 DEF NoteCodeWrite, s
<1> QED BY <1>1, <1>2 DEF Written, s

LEMMA MachineWrites ==
  ASSUME NEW a \in NativeStores \union HostStores, NEW n \in Widths, NEW v \in Values,
         Allowed(ram, a, n, "W"), ram'.bytes = After(a, n, v)
  PROVE  M!Writes
<1>1. M!Allowed(M!Memory, a, n, "W")
  BY MachineReads
<1>2. M!Stored(M!Memory, a, n, v).bytes = After(a, n, v)
  BY DEF M!Stored, M!Memory, After, M!Addr, Addr
<1> QED BY <1>1, <1>2 DEF M!Writes

LEMMA MachineStore ==
  ASSUME Allowed(ram, Rip, 1, "X"), ram.bytes[Rip].op = "store", M!Writes,
         Rip' = Rip + 1, cpu'.mode = cpu.mode, ram'.perm = ram.perm
  PROVE  M!Step
  BY MachineReads DEF M!Step, M!Store, M!Decodes, M!Fetches, Rip

LEMMA MachineFault ==
  ASSUME Allowed(ram, Rip, 1, "X") => ram.bytes[Rip].op \in {"plain", "store"},
         Rip' \in Handlers, cpu'.mode = cpu.mode, ram' = ram
  PROVE  M!Step
  BY MachineReads DEF M!Step, M!Fault, M!Decodes, M!Fetches, Rip

LEMMA MachineOther ==
  ASSUME Allowed(ram, Rip, 1, "X"), ram.bytes[Rip].op = "other", cpu'.mode \in Modes,
         Rip' = Rip + 1, ram' = ram \/ (M!Writes /\ ram'.perm = ram.perm)
  PROVE  M!Step
  BY MachineReads DEF M!Step, M!Other, M!Decodes, M!Fetches, Rip

LEMMA MachineSwitch ==
  ASSUME Rip' \in Handlers, cpu'.mode \in Modes, ram' = ram
  PROVE  M!Step
  BY DEF M!Step, M!Switch, Rip

LEMMA MachineStutter ==
  ASSUME Rip' = Rip, cpu'.mode = cpu.mode, ram' = ram
  PROVE  UNCHANGED M!vars
  BY DEF M!vars, Rip

-----------------------------------------------------------------------------
(* The links through the operations of the engine.                         *)

\* An engine none of whose links is followed.
LEMMA NoLinks ==
  ASSUME NEW j, \A s \in Slots : j.links[s].epoch # j.epoch, NEW m
  PROVE  Chain(j, m)
  BY DEF Chain

LEMMA ChainUnlinked ==
  ASSUME NEW j, Engine(j), NEW m
  PROVE  Chain(UnlinkAll(j), m)
<1> DEFINE u == UnlinkAll(j)
<1>1. EngineTyped(j) /\ \A s \in Slots : j.links[s].epoch <= j.epoch
  BY DEF Engine, LinksRight
<1>2. EngineTyped(u) /\ \A s \in Slots : u.links[s].epoch < u.epoch
  BY <1>1, UnlinkAllIs
<1> HIDE DEF u
<1>3. u.epoch \in Nat /\ \A s \in Slots : u.links[s].epoch \in Nat
  BY <1>2, JitAssumption DEF EngineTyped
<1>4. \A s \in Slots : u.links[s].epoch # u.epoch
  BY <1>2, <1>3
<1>5. Chain(u, m)
  BY <1>4, NoLinks
<1> QED BY <1>5 DEF u

LEMMA ChainFlushed ==
  ASSUME NEW j, Engine(j), NEW m
  PROVE  Chain(Flush(j), m)
<1> DEFINE u == Flush(j)
<1>1. Engine(u) /\ u.blocks = <<>>
  BY FlushIs
<1> HIDE DEF u
<1>2. \A s \in Slots : u.links[s].epoch = u.epoch => u.links[s].to \in 1 .. Len(u.blocks)
  BY <1>1 DEF Engine, LinksRight
<1>3. Len(u.blocks) = 0
  BY <1>1
<1>4. \A s \in Slots : u.links[s].epoch # u.epoch
  BY <1>2, <1>3
<1>5. Chain(u, m)
  BY <1>4, NoLinks
<1> QED BY <1>5 DEF u

\* Links that stay, to blocks that stay.
LEMMA ChainKept ==
  ASSUME NEW j, Engine(j), NEW u, u.links = j.links, u.epoch = j.epoch,
         \A i \in 1 .. Len(j.blocks) :
             u.blocks[i].rip = j.blocks[i].rip /\ u.blocks[i].code = j.blocks[i].code,
         NEW m, Chain(j, m)
  PROVE  Chain(u, m)
<1> SUFFICES ASSUME NEW s \in Slots, u.links[s].epoch = u.epoch
             PROVE  Holds(u.blocks[u.links[s].to], m)
  BY DEF Chain
<1> DEFINE b == j.blocks[j.links[s].to]
           c == u.blocks[u.links[s].to]
<1>1. j.links[s].to \in 1 .. Len(j.blocks)
  BY DEF Engine, LinksRight
<1>2. c.rip = b.rip /\ c.code = b.code
  BY <1>1
<1>3. Holds(b, m)
  BY DEF Chain
<1> HIDE DEF b, c
<1>4. Holds(c, m)
  BY <1>2, <1>3 DEF Holds, HoldsFrom
<1> QED BY <1>4 DEF c

LEMMA ChainInstalled ==
  ASSUME NEW j, Engine(j), NEW b, WellFormed(b), NEW m, Chain(j, m)
  PROVE  Chain(Installed(j, b), m)
<1> DEFINE u == Installed(j, b)
<1>0. EngineTyped(j) /\ b \in Blocks
  BY DEF Engine, WellFormed
<1>1. u.links = j.links /\ u.epoch = j.epoch /\ u.blocks = Append(j.blocks, b)
  BY <1>0 DEF Installed, EngineTyped
<1> HIDE DEF u
<1>2. j.blocks \in Seq(Blocks)
  BY <1>0 DEF EngineTyped
<1>3. \A i \in 1 .. Len(j.blocks) : u.blocks[i] = j.blocks[i]
  BY <1>0, <1>1, <1>2
<1>4. Chain(u, m)
  BY <1>1, <1>3, ChainKept
<1> QED BY <1>4 DEF u

LEMMA ChainBlockAt ==
  ASSUME NEW j, Engine(j), NEW m \in Memories, NEW rip \in Rips, NEW mode \in Modes, Chain(j, m)
  PROVE  Chain(BlockAt(j, m, rip, mode).jit, m)
<1> DEFINE r == BlockAt(j, m, rip, mode)
           l == j.lines[LineOf(rip)]
           b == NewBlock(m, rip, mode)
           room == IF j.used + Len(b.code) > Capacity THEN Flush(j) ELSE j
           u == [j EXCEPT !.lines[LineOf(rip)] = Line(rip, mode, j.map[<<rip, mode>>], j.cacheGen)]
<1>1. \/ r = [jit |-> j, idx |-> l.idx]
      \/ r = [jit |-> u, idx |-> j.map[<<rip, mode>>]]
      \/ r = [jit |-> Installed(room, b), idx |-> Len(room.blocks) + 1]
  BY DEF BlockAt
<1>2. Chain(u, m)
  <2>1. EngineTyped(j)
    BY DEF Engine
  <2>2. u.links = j.links /\ u.epoch = j.epoch /\ u.blocks = j.blocks
    BY <2>1 DEF EngineTyped
  <2> HIDE DEF u
  <2> QED BY <2>2, ChainKept
<1>3. Engine(room) /\ Chain(room, m)
  <2>1. Engine(Flush(j)) /\ Chain(Flush(j), m)
    BY FlushIs, ChainFlushed
  <2> QED BY <2>1
<1>4. WellFormed(b)
  BY NewBlockIs
<1> HIDE DEF room, b
<1>5. Chain(Installed(room, b), m)
  BY <1>3, <1>4, ChainInstalled
<1> HIDE DEF r, u
<1>6. Chain(r.jit, m)
  BY <1>1, <1>2, <1>5
<1> QED BY <1>6 DEF r

LEMMA ChainLooked ==
  ASSUME NEW j, Engine(j), NEW m \in Memories, NEW rip \in Rips, NEW mode \in Modes, Chain(j, m)
  PROVE  Chain(Looked(j, m, rip, mode).jit, m)
<1> DEFINE found == BlockAt(j, m, rip, mode)
           r == Looked(j, m, rip, mode)
<1>1. /\ Looks(j, m, rip, mode, found) /\ found = [jit |-> found.jit, idx |-> found.idx]
      /\ Chain(found.jit, m)
  BY BlockAtIs, ChainBlockAt
<1>2. r = IF Valid(found.jit.blocks[found.idx], m)
          THEN [found EXCEPT !.jit.blocks[found.idx].global = m.codeGen]
          ELSE BlockAt(Flush(found.jit), m, rip, mode)
  BY DEF Looked
<1> HIDE DEF found, r
<1>3. CASE Valid(found.jit.blocks[found.idx], m)
  <2> DEFINE u == [found.jit EXCEPT !.blocks[found.idx].global = m.codeGen]
  <2>1. r.jit = u
    BY <1>1, <1>2, <1>3
  <2>2. EngineTyped(found.jit) /\ m.codeGen \in Nat /\ Engine(found.jit)
        /\ found.idx \in 1 .. Len(found.jit.blocks)
    BY <1>1 DEF Looks, Engine, Memories
  <2>3. /\ u.blocks[found.idx] = [found.jit.blocks[found.idx] EXCEPT !.global = m.codeGen]
        /\ \A k \in 1 .. Len(found.jit.blocks) : k # found.idx => u.blocks[k] = found.jit.blocks[k]
    BY <2>2, MarkedIs
  <2>4. u.links = found.jit.links /\ u.epoch = found.jit.epoch
    BY <2>2 DEF EngineTyped
  <2> HIDE DEF u
  <2>5. found.jit.blocks \in Seq(Blocks)
    BY <2>2 DEF EngineTyped
  <2>6. found.jit.blocks[found.idx] \in Blocks
    BY <2>2, <2>5
  <2>7. \A k \in 1 .. Len(found.jit.blocks) :
           u.blocks[k].rip = found.jit.blocks[k].rip /\ u.blocks[k].code = found.jit.blocks[k].code
    BY <2>3, <2>6 DEF Blocks
  <2>8. Chain(u, m)
    BY <1>1, <2>2, <2>4, <2>7, ChainKept
  <2> QED BY <2>1, <2>8 DEF r
<1>4. CASE ~Valid(found.jit.blocks[found.idx], m)
  <2> DEFINE f == Flush(found.jit)
  <2>1. Engine(f) /\ Chain(f, m)
    BY <1>1, FlushIs, ChainFlushed DEF Looks
  <2>2. r = BlockAt(f, m, rip, mode)
    BY <1>2, <1>4
  <2> HIDE DEF f
  <2> QED BY <2>1, <2>2, ChainBlockAt DEF r
<1> QED BY <1>3, <1>4

LEMMA ChainFilled ==
  ASSUME NEW j, Engine(j), NEW rip, NEW mode, NEW idx, NEW m,
         Chain(j, m), Holds(j.blocks[idx], m)
  PROVE  Chain(Filled(j, rip, mode, idx), m)
<1> DEFINE u == Filled(j, rip, mode, idx)
           new == [epoch |-> j.epoch, key |-> rip, to |-> idx]
<1>0. EngineTyped(j)
  BY DEF Engine
<1>1. /\ u.blocks = j.blocks /\ u.epoch = j.epoch
      /\ u.links = j.links \/ u.links = [j.links EXCEPT ![j.pending.slot] = new]
  BY <1>0 DEF Filled, EngineTyped
<1>2. DOMAIN j.links = Slots /\ new.to = idx
  BY <1>0 DEF EngineTyped
<1> HIDE DEF u, new
<1>3. \A s \in Slots : u.links[s] = j.links[s] \/ u.links[s] = new
  BY <1>1, <1>2
<1>4. Chain(u, m)
  BY <1>1, <1>2, <1>3 DEF Chain
<1> QED BY <1>4 DEF u

-----------------------------------------------------------------------------
(* What stores do to the blocks that links reach.                          *)

\* A store outside executable memory spares every block.
LEMMA HoldsAfterPlainStore ==
  ASSUME NEW m, NEW b, WellFormed(b), Fresh(b, m), NEW a \in Addr, "X" \notin m.perm[RegionAt(a)],
         NEW u, Spares(m, u, a, 1), NEW k \in Nat \ {0}, HoldsFrom(b, m, k)
  PROVE  HoldsFrom(b, u, k)
<1> SUFFICES ASSUME NEW i \in k .. Len(b.code) PROVE u.bytes[b.rip + i - 1] = b.code[i]
  BY DEF HoldsFrom
<1> DEFINE x == b.rip + i - 1
<1>0. Len(b.code) \in Nat
  BY DEF WellFormed, Blocks
<1>1. i \in 1 .. Len(b.code)
  BY <1>0
<1>2. x \in Addr /\ Allowed(m, x, 1, "X") /\ m.bytes[x] = b.code[i]
  BY <1>1, BlockPages DEF Fresh, HoldsFrom
<1> HIDE DEF x
<1>3. x # a
  BY <1>2 DEF Allowed
<1>4. u.bytes[x] = m.bytes[x]
  BY <1>2, <1>3 DEF Spares
<1> QED BY <1>2, <1>4 DEF x

\* A store into a page without compiled code spares every block.
LEMMA HoldsElsewhere ==
  ASSUME NEW m, NEW b, WellFormed(b), NEW a \in Addr, PageOf(a) \notin {b.page0, b.page1},
         NEW u, Spares(m, u, a, 1), NEW k \in Nat \ {0}, HoldsFrom(b, m, k)
  PROVE  HoldsFrom(b, u, k)
<1> SUFFICES ASSUME NEW i \in k .. Len(b.code) PROVE u.bytes[b.rip + i - 1] = b.code[i]
  BY DEF HoldsFrom
<1> DEFINE x == b.rip + i - 1
<1>0. Len(b.code) \in Nat
  BY DEF WellFormed, Blocks
<1>1. i \in 1 .. Len(b.code)
  BY <1>0
<1>2. x \in Addr /\ PageOf(x) \in {b.page0, b.page1} /\ m.bytes[x] = b.code[i]
  BY <1>1, BlockPages DEF HoldsFrom
<1> HIDE DEF x
<1>3. u.bytes[x] = m.bytes[x]
  BY <1>2 DEF Spares
<1> QED BY <1>2, <1>3 DEF x

\* A store beside a block spares it.
LEMMA HoldsBeside ==
  ASSUME NEW m, NEW b, WellFormed(b), NEW a \in Addr,
         ~(a < b.rip + Len(b.code) /\ a + 1 > b.rip),
         NEW u, Spares(m, u, a, 1), NEW k \in Nat \ {0}, HoldsFrom(b, m, k)
  PROVE  HoldsFrom(b, u, k)
<1> SUFFICES ASSUME NEW i \in k .. Len(b.code) PROVE u.bytes[b.rip + i - 1] = b.code[i]
  BY DEF HoldsFrom
<1> DEFINE x == b.rip + i - 1
<1>0. Len(b.code) \in Nat /\ b.rip \in Nat /\ a \in Nat
  BY MemoryAssumption DEF WellFormed, Blocks, Rips, Addr
<1>1. i \in 1 .. Len(b.code)
  BY <1>0
<1>2. x \in Addr /\ m.bytes[x] = b.code[i]
  BY <1>1, BlockPages DEF HoldsFrom
<1>3. x # a
  BY <1>0, <1>1
<1> HIDE DEF x
<1>4. u.bytes[x] = m.bytes[x]
  BY <1>2, <1>3 DEF Spares
<1> QED BY <1>2, <1>4 DEF x

LEMMA ChainAfterPlainStore ==
  ASSUME CacheInv, FreshInv, Chain(jit, ram), NEW a \in Addr, "X" \notin ram.perm[RegionAt(a)],
         NEW u, Spares(ram, u, a, 1)
  PROVE  Chain(jit, u)
<1> SUFFICES ASSUME NEW s \in Slots, jit.links[s].epoch = jit.epoch
             PROVE  Holds(jit.blocks[jit.links[s].to], u)
  BY DEF Chain
<1> DEFINE b == jit.blocks[jit.links[s].to]
<1>1. WellFormed(b) /\ Fresh(b, ram) /\ Holds(b, ram)
  BY DEF CacheInv, Engine, LinksRight, BlocksRight, FreshInv, Chain
<1> HIDE DEF b
<1>2. Holds(b, u)
  BY <1>1, HoldsAfterPlainStore DEF Holds
<1> QED BY <1>2 DEF b

LEMMA ChainElsewhere ==
  ASSUME CacheInv, Chain(jit, ram), NEW a \in Addr, PageOf(a) \notin jit.codePages,
         NEW u, Spares(ram, u, a, 1)
  PROVE  Chain(jit, u)
<1> SUFFICES ASSUME NEW s \in Slots, jit.links[s].epoch = jit.epoch
             PROVE  Holds(jit.blocks[jit.links[s].to], u)
  BY DEF Chain
<1> DEFINE b == jit.blocks[jit.links[s].to]
<1>1. /\ WellFormed(b) /\ Holds(b, ram) /\ {b.page0, b.page1} \subseteq jit.codePages
  BY DEF CacheInv, Engine, LinksRight, BlocksRight, Chain
<1> HIDE DEF b
<1>2. Holds(b, u)
  BY <1>1, HoldsElsewhere DEF Holds
<1> QED BY <1>2 DEF b

-----------------------------------------------------------------------------
(* Each step of the specification is a step of the machine, or none.       *)

MachineSteps == MachineInv' /\ (M!Step \/ UNCHANGED M!vars)

LEMMA HoldsNext ==
  ASSUME NEW b, NEW m, NEW k \in Nat, HoldsFrom(b, m, k)
  PROVE  HoldsFrom(b, m, k + 1)
<1> SUFFICES ASSUME NEW i \in k + 1 .. Len(b.code) PROVE m.bytes[b.rip + i - 1] = b.code[i]
  BY DEF HoldsFrom
<1>1. i \in k .. Len(b.code)
  OBVIOUS
<1> QED BY <1>1 DEF HoldsFrom

\* The instruction compiled code executes is the one memory holds.
LEMMA InsnIs ==
  ASSUME CacheInv, FreshInv, MachineInv, AtInsn
  PROVE  /\ Rip = Running.rip + native.pc - 1 /\ Rip \in Nat
         /\ Allowed(ram, Rip, 1, "X") /\ ram.bytes[Rip] = Insn /\ Insn \in Insns
         /\ native.pc \in 1 .. Len(Running.code) /\ native.pc \in Nat \ {0}
<1>1. call.phase = "native" /\ native.pc <= Len(Running.code)
  BY DEF AtInsn
<1>2. /\ WellFormed(Running) /\ native.pc \in 1 .. Len(Running.code) + 1
      /\ Len(Running.code) \in Nat \ {0} /\ native.blk \in 1 .. Len(jit.blocks)
  BY <1>1, InCode
<1>3. native.pc \in 1 .. Len(Running.code) /\ native.pc \in Nat \ {0}
  BY <1>1, <1>2
<1>4. Rip = Running.rip + native.pc - 1
  BY <1>1 DEF Rip
<1>5. Fresh(Running, ram)
  BY <1>2 DEF FreshInv, Running
<1>6. Allowed(ram, Rip, 1, "X")
  BY <1>3, <1>4, <1>5 DEF Fresh
<1>7. ram.bytes[Rip] = Insn
  BY <1>1, <1>2, <1>3, <1>4 DEF MachineInv, HoldsFrom, Insn
<1>8. Insn \in Insns
  BY <1>2, <1>3 DEF WellFormed, Blocks, Insn
<1>9. Rip \in Nat
  BY <1>6, MemoryAssumption DEF Allowed, Addr
<1> QED BY <1>3, <1>4, <1>6, <1>7, <1>8, <1>9

LEMMA AdvancesIs ==
  ASSUME CacheInv, FreshInv, MachineInv, AtInsn, UNCHANGED <<cpu, call>>, jit'.blocks = jit.blocks,
         native'.blk = native.blk, native'.pc = native.pc + 1
  PROVE  Rip' = Rip + 1 /\ Running' = Running
<1>1. /\ Rip = Running.rip + native.pc - 1 /\ native.pc \in Nat \ {0}
      /\ call'.phase = "native" /\ WellFormed(Running)
  BY InsnIs, InCode DEF AtInsn
<1>2. Running' = Running
  BY DEF Running
<1>3. Running.rip \in Nat
  BY <1>1, MemoryAssumption DEF WellFormed, Blocks, Rips
<1>4. Rip' = Running.rip + native'.pc - 1
  BY <1>1, <1>2 DEF Rip
<1> QED BY <1>1, <1>2, <1>3, <1>4

\* Back in Jit::run, every link that is left may be followed.
LEMMA BackIs ==
  ASSUME CacheInv, NEW j, Engine(j), NEW n, NEW total, NEW rip, NEW p \in PendingType,
         p # Nothing => p.slot \in Slots /\ Joins(j, p.slot, p.mode, p.rip),
         NEW fault, ComesBack(j, n, total, rip, p, fault),
         NEW m, Chain(j, m) \/ LinksDoomed(n, j)
  PROVE  Rip' = rip /\ cpu'.mode = cpu.mode /\ Chain(jit', m) /\ call'.phase # "native"
<1> DEFINE q == [j EXCEPT !.pending = p]
           smc == n.hits > 1 \/ (n.hits = 1 /\ PageOf(n.smc) \in q.codePages)
<1>1. /\ jit' = IF smc THEN UnlinkAll(q) ELSE q
      /\ cpu' = [cpu EXCEPT !.rip = rip]
      /\ \/ call' = Idle("step") \/ call' = Idle("jit")
         \/ call' = [call EXCEPT !.phase = "loop", !.retired = total]
  BY DEF ComesBack
<1>2. Engine(q) /\ q.blocks = j.blocks /\ q.codePages = j.codePages /\ q.epoch = j.epoch
  BY PendingIs DEF PendingType
<1>3. q.links = j.links
  BY DEF Engine, EngineTyped
<1>4. call \in Calls /\ cpu \in [rip : Rips, mode : Modes]
  BY DEF CacheInv, Typed, Calls
<1>5. call'.phase # "native"
  <2>1. CASE call' = Idle("step") \/ call' = Idle("jit")
    BY <2>1 DEF Idle
  <2>2. CASE call' = [call EXCEPT !.phase = "loop", !.retired = total]
    BY <1>4, <2>2 DEF Calls
  <2> QED BY <1>1, <2>1, <2>2
<1>6. cpu'.rip = rip /\ cpu'.mode = cpu.mode
  BY <1>1, <1>4
<1>7. smc <=> LinksDoomed(n, j)
  BY <1>2 DEF LinksDoomed
<1> HIDE DEF q, smc
<1>8. Chain(jit', m)
  <2>1. CASE smc
    BY <1>1, <1>2, <2>1, ChainUnlinked
  <2>2. CASE ~smc
    BY <1>1, <1>2, <1>3, <1>7, <2>2, ChainKept
  <2> QED BY <2>1, <2>2
<1> QED BY <1>5, <1>6, <1>8 DEF Rip

LEMMA LeavesIs ==
  ASSUME CacheInv, MachineInv, call.phase = "native",
         NEW k \in 1 .. Len(LinkExits(Running)), NEW rip \in Rips,
         LinkExits(Running)[k] \in {rip, Indirect},
         LeaveByLink(k, rip), UNCHANGED ram
  PROVE  MachineInv' /\ Rip' = rip /\ cpu'.mode = cpu.mode
<1> DEFINE total == call.retired + Len(Running.code)
           slot == <<native.blk, k>>
           link == jit.links[slot]
           p == [slot |-> slot, rip |-> rip, mode |-> cpu.mode]
           exit == LinkExits(Running)[k]
<1>1. /\ Engine(jit) /\ WellFormed(Running) /\ native.blk \in 1 .. Len(jit.blocks)
      /\ native.blk \in Nat /\ Running.mode = cpu.mode /\ cpu.mode \in AnyMode
  BY InCode DEF CacheInv
<1>2. k \in Nat /\ k \in DOMAIN LinkExits(Running)
  <2>1. Len(LinkExits(Running)) \in Nat /\ DOMAIN LinkExits(Running) = 1 .. Len(LinkExits(Running))
    BY <1>1, ExitsAre DEF MaxLinks
  <2> QED BY <2>1
<1>3. Chain(jit, ram) \/ LinksDoomed(native, jit)
  BY DEF MachineInv
<1>4. ASSUME Chain(jit', ram), call'.phase # "native"
      PROVE  MachineInv'
  BY <1>4 DEF MachineInv
<1>5. CASE slot \notin Slots
  <2>1. ComesBack(jit, native, total, rip, Nothing, FALSE)
    BY <1>5 DEF LeaveByLink
  <2>2. Nothing \in PendingType
    BY NothingIs DEF PendingType
  <2> HIDE DEF total
  <2>3. Rip' = rip /\ cpu'.mode = cpu.mode /\ Chain(jit', ram) /\ call'.phase # "native"
    BY <1>1, <1>3, <2>1, <2>2, BackIs
  <2> QED BY <1>4, <2>3
<1>6. CASE slot \in Slots /\ ~FollowsLink(link, total, rip, exit)
  <2>1. ComesBack(jit, native, total, rip, p, FALSE)
    BY <1>6 DEF LeaveByLink
  <2>2. p \in PendingType /\ p.slot = slot /\ p.mode = cpu.mode /\ p.rip = rip
    BY <1>1, <1>2 DEF PendingType
  <2>3. slot[1] = native.blk /\ slot[2] = k
    OBVIOUS
  <2> HIDE DEF total, p, slot
  <2>4. Joins(jit, p.slot, p.mode, p.rip)
    BY <1>1, <1>2, <2>2, <2>3 DEF Joins, Running
  <2>5. Rip' = rip /\ cpu'.mode = cpu.mode /\ Chain(jit', ram) /\ call'.phase # "native"
    BY <1>1, <1>3, <1>6, <2>1, <2>2, <2>4, BackIs
  <2> QED BY <1>4, <2>5
<1>7. CASE slot \in Slots /\ FollowsLink(link, total, rip, exit)
  <2>1. /\ native' = [native EXCEPT !.blk = link.to, !.pc = 1]
        /\ call' = [call EXCEPT !.retired = total]
        /\ cpu' = [cpu EXCEPT !.rip = rip] /\ jit' = jit
    BY <1>7 DEF LeaveByLink
  <2>2. link.epoch = native.epoch /\ (exit = Indirect => link.key = rip)
    BY <1>7 DEF FollowsLink
  <2>3. slot[1] = native.blk /\ slot[2] = k
    OBVIOUS
  <2> HIDE DEF total, slot
  <2>4. /\ jit.epoch \in Nat /\ jit.epoch < EpochDead /\ link.epoch <= jit.epoch
        /\ link.epoch \in Nat /\ EpochDead \in Nat
    <3>1. /\ jit.epoch \in 1 .. EpochDead - 1
          /\ jit.links \in [Slots -> [epoch : Nat, key : Rips, to : Nat]]
      BY <1>1 DEF Engine, EngineTyped
    <3> QED BY <1>1, <1>7, <3>1, JitAssumption DEF Engine, LinksRight
  <2>5. native.epoch \in {jit.epoch, EpochDead}
    BY DEF CacheInv, InBlock
  <2>6. link.epoch = jit.epoch /\ native.epoch # EpochDead
    BY <2>2, <2>4, <2>5
  <2>7. /\ jit.blocks[link.to].rip = link.key
        /\ Joins(jit, slot, jit.blocks[link.to].mode, link.key)
    BY <1>1, <1>7, <2>6 DEF Engine, LinksRight
  <2>8. link.key = rip
    <3>1. exit \in {link.key, Indirect}
      BY <2>3, <2>7 DEF Joins, Running
    <3>2. rip # Indirect
      BY MemoryAssumption DEF Rips, Indirect
    <3> QED BY <2>2, <3>1, <3>2
  <2>9. native.hits = 0
    BY <2>6 DEF MachineInv
  <2>10. Chain(jit, ram)
    BY <1>3, <2>9 DEF LinksDoomed
  <2>11. Holds(jit.blocks[link.to], ram)
    BY <1>7, <2>6, <2>10 DEF Chain
  <2>12. /\ native'.blk = link.to /\ native'.pc = 1 /\ native'.hits = 0
         /\ call'.phase = "native" /\ cpu'.mode = cpu.mode /\ Running' = jit.blocks[link.to]
    BY <2>1, <2>9 DEF CacheInv, Typed, Running
  <2>13. Rip' = rip
    <3>1. Rip' = Running'.rip + native'.pc - 1
      BY <2>12 DEF Rip
    <3>2. rip \in Nat
      BY MemoryAssumption DEF Rips
    <3> QED BY <2>7, <2>8, <2>12, <3>1, <3>2
  <2>14. MachineInv'
    <3>1. HoldsFrom(Running', ram', native'.pc)
      BY <2>11, <2>12 DEF Holds
    <3>2. Chain(jit', ram')
      BY <2>1, <2>10
    <3> QED BY <2>12, <3>1, <3>2 DEF MachineInv
  <2> QED BY <2>12, <2>13, <2>14
<1> QED BY <1>5, <1>6, <1>7

LEMMA PlainSteps ==
  ASSUME CacheInv, FreshInv, MachineInv, NativePlain
  PROVE  MachineSteps
<1>1. /\ AtInsn /\ Insn.op = "plain" /\ native' = [native EXCEPT !.pc = @ + 1]
      /\ UNCHANGED <<ram, cpu, jit, call>> /\ native \in Natives
  BY DEF NativePlain, CacheInv, Typed, Natives
<1>2. /\ native'.blk = native.blk /\ native'.pc = native.pc + 1 /\ native'.epoch = native.epoch
      /\ native'.hits = native.hits /\ native'.smc = native.smc
  BY <1>1 DEF Natives
<1>3. Rip' = Rip + 1 /\ Running' = Running
  BY <1>1, <1>2, AdvancesIs
<1>4. Allowed(ram, Rip, 1, "X") /\ ram.bytes[Rip] = Insn /\ native.pc \in Nat
  BY <1>1, InsnIs
<1>5. M!Step
  BY <1>1, <1>3, <1>4, MachinePlain
<1>6. HoldsFrom(Running', ram', native'.pc)
  BY <1>1, <1>2, <1>3, <1>4, HoldsNext DEF MachineInv, AtInsn
<1>7. MachineInv'
  BY <1>1, <1>2, <1>6 DEF MachineInv, LinksDoomed
<1> QED BY <1>5, <1>7 DEF MachineSteps

\* A branch is the last instruction of its block, and its exits are where it
\* may go.
LEMMA BranchIs ==
  ASSUME CacheInv, AtInsn, Terminates(Insn)
  PROVE  /\ native.pc = Len(Running.code)
         /\ Insn.op = "jmp" => LinkExits(Running) = <<Insn.to>>
         /\ Insn.op = "jcc" => LinkExits(Running) = <<Running.rip + native.pc, Insn.to>>
         /\ Insn.op = "ind" => LinkExits(Running) = <<Indirect>>
<1>1. /\ WellFormed(Running) /\ native.pc \in 1 .. Len(Running.code) + 1
      /\ Len(Running.code) \in Nat \ {0} /\ native.pc <= Len(Running.code)
  BY InCode DEF AtInsn
<1>2. native.pc = Len(Running.code)
  <2>1. native.pc \in 1 .. Len(Running.code) - 1 => ~Terminates(Running.code[native.pc])
    BY <1>1 DEF WellFormed
  <2> QED BY <1>1, <2>1 DEF Insn
<1> QED BY <1>1, <1>2 DEF LinkExits, Insn

LEMMA BranchSteps ==
  ASSUME CacheInv, FreshInv, MachineInv, NativeBranch
  PROVE  MachineSteps
<1>1. AtInsn /\ Terminates(Insn) /\ UNCHANGED ram /\ call.phase = "native"
  BY DEF NativeBranch, AtInsn
<1>2. PICK k \in 1 .. Len(LinkExits(Running)) :
         \E rip \in IF LinkExits(Running)[k] = Indirect THEN Targets ELSE {LinkExits(Running)[k]} :
             LeaveByLink(k, rip)
  BY DEF NativeBranch
<1>3. PICK rip \in IF LinkExits(Running)[k] = Indirect THEN Targets ELSE {LinkExits(Running)[k]} :
         LeaveByLink(k, rip)
  BY <1>2
<1>4. WellFormed(Running)
  BY <1>1, InCode
<1>5. LinkExits(Running) \in Seq(Rips \union {Indirect})
  BY <1>4, ExitsAre
<1>6. rip \in Rips /\ LinkExits(Running)[k] \in {rip, Indirect}
  <2>1. LinkExits(Running)[k] \in Rips \union {Indirect}
    BY <1>5
  <2>2. Targets \subseteq Rips
    BY JitAssumption, MemoryAssumption DEF Rips, Addr
  <2> QED BY <1>3, <2>1, <2>2
<1>7. MachineInv' /\ Rip' = rip /\ cpu'.mode = cpu.mode
  BY <1>1, <1>3, <1>6, LeavesIs
<1>8. /\ Rip = Running.rip + native.pc - 1 /\ Rip \in Nat
      /\ Allowed(ram, Rip, 1, "X") /\ ram.bytes[Rip] = Insn /\ Insn \in Insns
      /\ native.pc \in Nat \ {0}
  BY <1>1, InsnIs
<1>9. Running.rip + native.pc = Rip + 1 /\ Running.rip + native.pc # Indirect /\ Insn.to # Indirect
  <2>1. Running.rip \in Nat
    BY <1>4, MemoryAssumption DEF WellFormed, Blocks, Rips
  <2>2. Insn.to \in Nat
    BY <1>8, JitAssumption, MemoryAssumption DEF Addr
  <2> QED BY <1>8, <2>1, <2>2 DEF Indirect
<1>10. \/ Insn.op = "jmp" /\ rip = Insn.to
       \/ Insn.op = "jcc" /\ rip \in {Insn.to, Rip + 1}
       \/ Insn.op = "ind" /\ rip \in Targets
  <2>1. CASE Insn.op = "jmp"
    <3>1. LinkExits(Running) = <<Insn.to>>
      BY <1>1, <2>1, BranchIs
    <3>2. LinkExits(Running)[k] = Insn.to
      BY <3>1
    <3> QED BY <1>3, <1>9, <2>1, <3>2
  <2>2. CASE Insn.op = "jcc"
    <3>1. LinkExits(Running) = <<Running.rip + native.pc, Insn.to>>
      BY <1>1, <2>2, BranchIs
    <3>2. LinkExits(Running)[k] \in {Running.rip + native.pc, Insn.to}
      BY <3>1
    <3> QED BY <1>3, <1>9, <2>2, <3>2
  <2>3. CASE Insn.op = "ind"
    <3>1. LinkExits(Running) = <<Indirect>>
      BY <1>1, <2>3, BranchIs
    <3>2. LinkExits(Running)[k] = Indirect
      BY <3>1
    <3> QED BY <1>3, <2>3, <3>2
  <2> QED BY <1>1, <2>1, <2>2, <2>3 DEF Terminates
<1>11. M!Step
  BY <1>1, <1>7, <1>8, <1>10, MachineBranch
<1> QED BY <1>7, <1>11 DEF MachineSteps

LEMMA EndSteps ==
  ASSUME CacheInv, FreshInv, MachineInv, NativeEnd
  PROVE  MachineSteps
<1> DEFINE n == Len(Running.code)
           rip == Running.rip + n
<1>1. call.phase = "native" /\ native.pc > n /\ UNCHANGED ram
  BY DEF NativeEnd
<1>2. /\ WellFormed(Running) /\ n \in Nat \ {0} /\ rip \in Rips /\ native.pc \in 1 .. n + 1
      /\ Running.code # <<>> /\ ~Terminates(Running.code[n]) /\ Engine(jit)
  <2>1. /\ \A i \in 0 .. n : Running.rip + i \in Rips
        /\ WellFormed(Running) /\ n \in Nat \ {0} /\ native.pc \in 1 .. n + 1
    BY <1>1, InCode
  <2>2. Running.code # <<>> /\ ~Terminates(Running.code[n])
    BY <1>1 DEF CacheInv, InBlock
  <2> QED BY <2>1, <2>2 DEF CacheInv
<1>3. Rip = rip
  <2>1. native.pc = n + 1
    BY <1>1, <1>2
  <2>2. Rip = Running.rip + native.pc - 1
    BY <1>1 DEF Rip
  <2>3. Running.rip \in Nat
    BY <1>2, MemoryAssumption DEF WellFormed, Blocks, Rips
  <2> QED BY <1>2, <2>1, <2>2, <2>3
<1>4. MachineInv' /\ Rip' = rip /\ cpu'.mode = cpu.mode
  <2>1. CASE n = MaxInsns
    <3>1. LinkExits(Running) = <<rip>>
      BY <1>2, <2>1, ExitsAre
    <3>2. LeaveByLink(1, rip)
      BY <2>1 DEF NativeEnd
    <3> HIDE DEF n, rip
    <3>3. 1 \in 1 .. Len(LinkExits(Running)) /\ LinkExits(Running)[1] = rip
      BY <3>1
    <3> QED BY <1>1, <1>2, <3>2, <3>3, LeavesIs
  <2>2. CASE n # MaxInsns
    <3>1. ComesBack(jit, native, call.retired + n, rip, Nothing, FALSE)
      BY <2>2 DEF NativeEnd
    <3>2. Nothing \in PendingType
      BY NothingIs DEF PendingType
    <3>3. Chain(jit, ram) \/ LinksDoomed(native, jit)
      BY DEF MachineInv
    <3> HIDE DEF n, rip
    <3>4. Rip' = rip /\ cpu'.mode = cpu.mode /\ Chain(jit', ram) /\ call'.phase # "native"
      BY <1>2, <3>1, <3>2, <3>3, BackIs
    <3> QED BY <1>1, <3>4 DEF MachineInv
  <2> QED BY <2>1, <2>2
<1> HIDE DEF rip, n
<1>5. UNCHANGED M!vars
  BY <1>1, <1>3, <1>4, MachineStutter
<1> QED BY <1>4, <1>5 DEF MachineSteps

LEMMA FaultSteps ==
  ASSUME CacheInv, FreshInv, MachineInv, NativeFault
  PROVE  MachineSteps
<1>1. /\ call.phase = "native" /\ UNCHANGED ram
      /\ ComesBack(jit, native, call.retired + native.pc - 1, Rip, Nothing, TRUE)
  BY DEF NativeFault, AtInsn, Rip
<1>2. Engine(jit) /\ Nothing \in PendingType /\ (Chain(jit, ram) \/ LinksDoomed(native, jit))
  BY NothingIs DEF CacheInv, MachineInv, PendingType
<1>3. Rip' = Rip /\ cpu'.mode = cpu.mode /\ Chain(jit', ram) /\ call'.phase # "native"
  <2> DEFINE total == call.retired + native.pc - 1
             rip == Rip
  <2>1. ComesBack(jit, native, total, rip, Nothing, TRUE)
    BY <1>1
  <2> HIDE DEF total, rip
  <2>2. Rip' = rip /\ cpu'.mode = cpu.mode /\ Chain(jit', ram) /\ call'.phase # "native"
    BY <1>2, <2>1, BackIs
  <2> QED BY <2>2 DEF rip
<1>4. MachineInv'
  BY <1>1, <1>3 DEF MachineInv
<1>5. UNCHANGED M!vars
  BY <1>1, <1>3, MachineStutter
<1> QED BY <1>4, <1>5 DEF MachineSteps

\* A store straight into host bytes goes to a page without any code.
LEMMA DirectStoreSteps ==
  ASSUME Sparing, CacheInv, FreshInv, MachineInv,
         NEW a \in NativeStores, NEW n \in Widths, NEW v \in Values, DirectStore(a, n, v)
  PROVE  MachineSteps
<1>1. /\ AtInsn /\ Insn.op = "store" /\ call.phase = "native" /\ Cached(a, n)
      /\ native' = [native EXCEPT !.pc = @ + 1] /\ UNCHANGED <<cpu, jit, call>>
      /\ ram' = IF jit.tlb[PageOf(a)] = ram.backing[RegionAt(a)] THEN Stored(ram, a, n, v) ELSE ram
  BY DEF DirectStore, AtInsn
<1>2. /\ a \in Addr /\ n = 1 /\ n \in {1, 2} /\ v \in Insns /\ ram \in Memories /\ native \in Natives
  BY JitAssumption DEF Sparing, CacheInv, Typed, Natives
<1>3. PageOf(a) \in Pages /\ HostSpan(ram, PageOf(a)) /\ ram' = Stored(ram, a, n, v)
  <2>1. TlbRight(jit, ram)
    BY <1>1, TlbInNative
  <2> QED BY <1>1, <1>2, <2>1, PagesOfAddresses DEF TlbRight, Cached, RegionAt
<1>4. Allowed(ram, a, n, "W") /\ "X" \notin ram.perm[RegionAt(a)]
  <2>1. a + n - 1 = a
    BY <1>2, MemoryAssumption DEF Addr
  <2> QED BY <1>2, <1>3, <2>1 DEF HostSpan, RegionAt, Allowed
<1>5. ram'.perm = ram.perm /\ Spares(ram, ram', a, 1)
  BY <1>2, <1>3, StoredIs
<1>6. /\ native'.blk = native.blk /\ native'.pc = native.pc + 1 /\ native'.epoch = native.epoch
      /\ native'.hits = native.hits /\ native'.smc = native.smc
  BY <1>1, <1>2 DEF Natives
<1>7. /\ Allowed(ram, Rip, 1, "X") /\ ram.bytes[Rip] = Insn
      /\ native.pc \in Nat /\ native.pc \in Nat \ {0}
  BY <1>1, InsnIs
<1>8. Rip' = Rip + 1 /\ Running' = Running
  BY <1>1, <1>6, AdvancesIs
<1>9. M!Step
  <2>1. ram'.bytes = After(a, n, v)
    BY <1>2, <1>3, AfterStore
  <2>2. M!Writes
    BY <1>4, <2>1, MachineWrites
  <2> QED BY <1>1, <1>5, <1>7, <1>8, <2>2, MachineStore
<1>10. HoldsFrom(Running, ram', native.pc)
  <2>1. WellFormed(Running) /\ Fresh(Running, ram)
    BY <1>1, InCode DEF FreshInv, Running
  <2>2. HoldsFrom(Running, ram, native.pc)
    BY <1>1 DEF MachineInv
  <2> QED BY <1>2, <1>4, <1>5, <1>7, <2>1, <2>2, HoldsAfterPlainStore
<1>11. HoldsFrom(Running, ram', native'.pc)
  BY <1>6, <1>7, <1>10, HoldsNext
<1>12. Chain(jit, ram) => Chain(jit, ram')
  BY <1>2, <1>4, <1>5, ChainAfterPlainStore
<1>13. MachineInv'
  BY <1>1, <1>5, <1>6, <1>8, <1>11, <1>12 DEF MachineInv, LinksDoomed
<1> QED BY <1>9, <1>13 DEF MachineSteps

\* A store into compiled code is remembered, and the links with it; one into
\* the running block's own instructions ends the block.
LEMMA HelperStoreSteps ==
  ASSUME Sparing, CacheInv, FreshInv, MachineInv,
         NEW a \in NativeStores, NEW n \in Widths, NEW v \in Values, HelperStore(a, n, v)
  PROVE  MachineSteps
<1> DEFINE hit == IF CodePageHit(a, n) THEN Noticed(native, a) ELSE native
           j == IF HostSpan(ram, PageOf(a))
                THEN [jit EXCEPT !.tlb[PageOf(a)] = ram.backing[RegionAt(a)]] ELSE jit
           own == a < Running.rip + Len(Running.code) /\ a + n > Running.rip
           total == call.retired + native.pc
           rip == Running.rip + native.pc
<1>1. /\ AtInsn /\ Insn.op = "store" /\ call.phase = "native" /\ Allowed(ram, a, n, "W")
      /\ ram' = Written(ram, a, n, v)
      /\ IF own THEN ComesBack(j, hit, total, rip, Nothing, FALSE)
         ELSE /\ native' = [hit EXCEPT !.pc = @ + 1] /\ jit' = j /\ UNCHANGED <<cpu, call>>
  BY DEF HelperStore, AtInsn
<1>2. /\ a \in Addr /\ n = 1 /\ n \in {1, 2} /\ v \in Insns /\ ram \in Memories /\ native \in Natives
      /\ TlbRight(jit, ram) /\ Engine(jit)
  BY <1>1, TlbInNative, JitAssumption DEF Sparing, CacheInv, Typed, Natives
<1>3. ram'.perm = ram.perm /\ Spares(ram, ram', a, 1) /\ ram'.bytes = After(a, n, v)
  BY <1>1, <1>2, WrittenIs, AfterStore
<1>4. M!Writes
  BY <1>1, <1>3, MachineWrites
<1>5. /\ hit \in Natives /\ hit.blk = native.blk /\ hit.pc = native.pc
      /\ CodePageHit(a, n) =>
            /\ hit.epoch = EpochDead
            /\ native.hits = 0 => hit.hits = 1 /\ hit.smc = a
            /\ native.hits # 0 => hit.hits = 2
      /\ ~CodePageHit(a, n) => hit = native
  BY <1>2, HitIs
<1>6. /\ Engine(j) /\ j.blocks = jit.blocks /\ j.epoch = jit.epoch
      /\ j.links = jit.links /\ j.codePages = jit.codePages
  BY <1>2, HelperPageIs
<1> HIDE DEF hit, j, total
<1>7. /\ Rip = Running.rip + native.pc - 1 /\ Rip \in Nat
      /\ Allowed(ram, Rip, 1, "X") /\ ram.bytes[Rip] = Insn
      /\ native.pc \in 1 .. Len(Running.code) /\ native.pc \in Nat \ {0} /\ native.pc \in Nat
  BY <1>1, InsnIs
<1>8. rip = Rip + 1
  <2>1. Running.rip \in Nat
    BY <1>1, InCode, MemoryAssumption DEF WellFormed, Blocks, Rips
  <2> QED BY <1>7, <2>1
<1>9. PageOf(a) \in jit.codePages => CodePageHit(a, n)
  <2>1. PageOf(a) \in PageOf(a) .. PageOf(a + n - 1)
    <3>1. a + n - 1 = a /\ PageOf(a) \in Nat
      BY <1>2, PagesOfAddresses, MemoryAssumption DEF Addr, Pages
    <3> QED BY <3>1
  <2> QED BY <2>1 DEF CodePageHit
<1>10. hit.hits # 0 => hit.epoch = EpochDead
  BY <1>1, <1>5 DEF MachineInv
<1>11. Chain(j, ram') \/ LinksDoomed(hit, j)
  <2>1. CASE PageOf(a) \in jit.codePages
    <3>1. CodePageHit(a, n)
      BY <1>9, <2>1
    <3> QED BY <1>5, <1>6, <2>1, <3>1 DEF LinksDoomed
  <2>2. CASE PageOf(a) \notin jit.codePages
    <3>1. ASSUME Chain(jit, ram) PROVE Chain(j, ram')
      <4>1. Chain(jit, ram')
        BY <1>2, <1>3, <2>2, <3>1, ChainElsewhere
      <4> QED BY <1>2, <1>6, <4>1, ChainKept
    <3>2. ASSUME LinksDoomed(native, jit) PROVE LinksDoomed(hit, j)
      <4>1. native.hits \in 0 .. 2 /\ native.hits # 0
        BY <1>2, <3>2 DEF LinksDoomed, Natives
      <4>2. CASE CodePageHit(a, n)
        BY <1>5, <4>1, <4>2 DEF LinksDoomed
      <4>3. CASE ~CodePageHit(a, n)
        BY <1>5, <1>6, <3>2, <4>3 DEF LinksDoomed
      <4> QED BY <4>2, <4>3
    <3> QED BY <1>1, <3>1, <3>2 DEF MachineInv
  <2> QED BY <2>1, <2>2
<1>12. CASE own
  <2>1. ComesBack(j, hit, total, rip, Nothing, FALSE)
    BY <1>1, <1>12
  <2>2. Nothing \in PendingType
    BY NothingIs DEF PendingType
  <2> HIDE DEF rip
  <2>3. Rip' = rip /\ cpu'.mode = cpu.mode /\ Chain(jit', ram') /\ call'.phase # "native"
    BY <1>6, <1>11, <2>1, <2>2, BackIs
  <2>4. MachineInv'
    BY <1>3, <2>3 DEF MachineInv
  <2>5. M!Step
    BY <1>1, <1>3, <1>4, <1>7, <1>8, <2>3, MachineStore
  <2> QED BY <2>4, <2>5 DEF MachineSteps
<1>13. CASE ~own
  <2>1. native' = [hit EXCEPT !.pc = @ + 1] /\ jit' = j /\ UNCHANGED <<cpu, call>>
    BY <1>1, <1>13
  <2>2. /\ native'.blk = native.blk /\ native'.pc = native.pc + 1 /\ native'.epoch = hit.epoch
        /\ native'.hits = hit.hits /\ native'.smc = hit.smc
    BY <1>5, <2>1 DEF Natives
  <2>3. Rip' = Rip + 1 /\ Running' = Running
    BY <1>1, <1>6, <2>1, <2>2, AdvancesIs
  <2>4. M!Step
    BY <1>1, <1>3, <1>4, <1>7, <2>1, <2>3, MachineStore
  <2>5. HoldsFrom(Running, ram', native.pc)
    <3>1. WellFormed(Running) /\ HoldsFrom(Running, ram, native.pc)
      BY <1>1, InCode DEF MachineInv
    <3>2. ~(a < Running.rip + Len(Running.code) /\ a + 1 > Running.rip)
      BY <1>2, <1>13
    <3> QED BY <1>2, <1>3, <1>7, <3>1, <3>2, HoldsBeside
  <2>6. HoldsFrom(Running, ram', native'.pc)
    BY <1>7, <2>2, <2>5, HoldsNext
  <2>7. Chain(jit', ram') \/ LinksDoomed(native', jit')
    BY <1>11, <2>1, <2>2 DEF LinksDoomed
  <2>8. MachineInv'
    BY <1>1, <1>3, <1>10, <2>1, <2>2, <2>3, <2>6, <2>7 DEF MachineInv
  <2> QED BY <2>4, <2>8 DEF MachineSteps
<1> QED BY <1>12, <1>13

LEMMA StoreSteps ==
  ASSUME Sparing, CacheInv, FreshInv, MachineInv, NativeStore
  PROVE  MachineSteps
  BY DirectStoreSteps, HelperStoreSteps DEF NativeStore

\* The lookup: what is linked, and what is entered, memory holds.
LEMMA DispatchSteps ==
  ASSUME CacheInv, FreshInv, MachineInv, Dispatch
  PROVE  MachineSteps
<1> DEFINE r == Looked(jit, ram, cpu.rip, cpu.mode)
           c == r.jit.blocks[r.idx]
           j == Filled(r.jit, cpu.rip, cpu.mode, r.idx)
           o == [r.jit EXCEPT !.pending = Nothing]
<1>0. /\ Engine(jit) /\ ram \in Memories /\ cpu.rip \in Rips /\ cpu.mode \in Modes
      /\ call \in Calls /\ call.phase = "loop" /\ UNCHANGED <<ram, cpu>>
  BY DEF CacheInv, Typed, Dispatch, Calls
<1>1. /\ Engine(r.jit) /\ r.idx \in 1 .. Len(r.jit.blocks)
      /\ c.rip = cpu.rip /\ c.mode = cpu.mode /\ Valid(c, ram)
      /\ \A i \in 1 .. Len(r.jit.blocks) : Marked(jit, ram, cpu.rip, cpu.mode, r.jit.blocks[i])
  BY <1>0, LookedIs DEF Looks
<1>2. Chain(r.jit, ram)
  <2>1. Chain(jit, ram)
    BY <1>0 DEF MachineInv
  <2> QED BY <1>0, <2>1, ChainLooked
<1>3. \/ jit' = o /\ call' = Idle("step")
      \/ c.code # <<>> /\ jit' = j /\ call' = Idle("step")
      \/ /\ c.code # <<>> /\ jit' = j /\ native' = Entered(j, r.idx)
         /\ call' = [call EXCEPT !.phase = "native"]
  BY DEF Dispatch
<1>4. c.code # <<>> => j.blocks = r.jit.blocks
  BY <1>1, FilledIs
<1>5. o.blocks = r.jit.blocks /\ o.links = r.jit.links /\ o.epoch = r.jit.epoch
  BY <1>1 DEF Engine, EngineTyped
<1> HIDE DEF r, j, o
<1>6. jit'.blocks = r.jit.blocks
  BY <1>3, <1>4, <1>5
<1>7. Fresh(c, ram)
  <2>1. FreshInv'
    BY DispatchIs
  <2> QED BY <1>0, <1>1, <1>6, <2>1 DEF FreshInv
<1>8. Holds(c, ram)
  BY <1>1, <1>7 DEF Fresh, Holds, HoldsFrom
<1>9. Chain(o, ram)
  BY <1>1, <1>2, <1>5, ChainKept
<1>10. Chain(j, ram)
  BY <1>1, <1>2, <1>8, ChainFilled DEF j
<1>11. Chain(jit', ram')
  BY <1>0, <1>3, <1>9, <1>10
<1>12. CASE call' = Idle("step")
  <2>1. Rip' = Rip /\ call'.phase # "native"
    BY <1>0, <1>12 DEF Rip, Idle
  <2>2. MachineInv'
    BY <1>0, <1>11, <2>1 DEF MachineInv
  <2>3. UNCHANGED M!vars
    BY <1>0, <2>1, MachineStutter
  <2> QED BY <2>2, <2>3 DEF MachineSteps
<1>13. CASE native' = Entered(j, r.idx) /\ call' = [call EXCEPT !.phase = "native"]
  <2>1. /\ native'.blk = r.idx /\ native'.pc = 1 /\ native'.hits = 0 /\ call'.phase = "native"
    BY <1>0, <1>13 DEF Entered, Calls
  <2>2. Running' = c
    BY <1>6, <2>1 DEF Running
  <2> HIDE DEF c
  <2>3. Rip' = Rip
    <3>1. Rip' = c.rip + 1 - 1 /\ Rip = cpu.rip
      BY <1>0, <2>1, <2>2 DEF Rip
    <3>2. cpu.rip \in Nat
      BY <1>0, MemoryAssumption DEF Rips
    <3> QED BY <1>1, <3>1, <3>2
  <2>4. HoldsFrom(Running', ram', native'.pc)
    BY <1>0, <1>8, <2>1, <2>2 DEF Holds
  <2>5. MachineInv'
    BY <1>0, <1>11, <2>1, <2>4 DEF MachineInv
  <2>6. UNCHANGED M!vars
    BY <1>0, <2>3, MachineStutter
  <2> QED BY <2>5, <2>6 DEF MachineSteps
<1> QED BY <1>3, <1>12, <1>13

LEMMA EnterSteps ==
  ASSUME CacheInv, MachineInv, Enter \/ InterpretOnly
  PROVE  MachineSteps
<1>1. /\ UNCHANGED <<ram, cpu, native>> /\ call.phase = "out" /\ call'.phase # "native"
  BY DEF Enter, InterpretOnly, Idle
<1>2. jit'.links = jit.links /\ jit'.epoch = jit.epoch /\ jit'.blocks = jit.blocks
  <2>1. EngineTyped(jit)
    BY DEF CacheInv, Engine
  <2>2. CASE Enter
    BY <2>1, <2>2 DEF Enter, TlbChecked, EngineTyped
  <2>3. CASE InterpretOnly
    BY <2>3 DEF InterpretOnly
  <2> QED BY <2>2, <2>3
<1>3. Engine(jit) /\ Chain(jit, ram)
  BY <1>1 DEF CacheInv, MachineInv
<1>4. Chain(jit', ram)
  BY <1>2, <1>3, ChainKept
<1>5. Rip' = Rip
  BY <1>1 DEF Rip
<1>6. MachineInv'
  BY <1>1, <1>4 DEF MachineInv
<1>7. UNCHANGED M!vars
  BY <1>1, <1>5, MachineStutter
<1> QED BY <1>6, <1>7 DEF MachineSteps

\* Between two calls.
LEMMA HostWritesSpare ==
  ASSUME Sparing, CacheInv, FreshInv, MachineInv, call.phase # "native", HostWrites
  PROVE  M!Writes /\ ram'.perm = ram.perm /\ Chain(jit, ram')
<1>1. PICK a \in HostStores, n \in Widths, v \in Values :
         Allowed(ram, a, n, "W") /\ ram' = Written(ram, a, n, v)
  BY DEF HostWrites
<1>2. a \in Addr /\ n = 1 /\ n \in {1, 2} /\ v \in Insns /\ ram \in Memories
  BY JitAssumption DEF Sparing, CacheInv, Typed
<1>3. ram'.perm = ram.perm /\ Spares(ram, ram', a, 1) /\ ram'.bytes = After(a, n, v)
  BY <1>1, <1>2, WrittenIs, AfterStore
<1>4. M!Writes
  BY <1>1, <1>3, MachineWrites
<1>5. Chain(jit, ram) /\ "X" \notin ram.perm[RegionAt(a)]
  BY DEF MachineInv
<1> QED BY <1>2, <1>3, <1>4, <1>5, ChainAfterPlainStore

LEMMA OutsideSteps ==
  ASSUME Sparing, CacheInv, FreshInv, MachineInv, Steps
  PROVE  MachineSteps
<1>1. /\ call.phase = "out" /\ call' = Idle("jit") /\ UNCHANGED <<jit, native>>
      /\ cpu' \in [rip : Rips, mode : Modes]
  BY StepsAre DEF CacheInv
<1>2. call.phase # "native" /\ call'.phase # "native" /\ Rip = cpu.rip /\ Rip' = cpu'.rip
  BY <1>1 DEF Idle, Rip
<1>3. Chain(jit, ram) /\ cpu \in [rip : Rips, mode : Modes]
  BY <1>2 DEF MachineInv, CacheInv, Typed
<1>4. ASSUME UNCHANGED ram \/ HostWrites
      PROVE  MachineInv' /\ ram'.perm = ram.perm
  <2>1. Chain(jit, ram') /\ ram'.perm = ram.perm
    BY <1>2, <1>3, <1>4, HostWritesSpare
  <2> QED BY <1>1, <1>2, <2>1 DEF MachineInv
<1>5. ASSUME NEW rip, Stepped(rip) PROVE Rip' = rip /\ cpu'.mode = cpu.mode
  BY <1>2, <1>3, <1>5 DEF Stepped
<1>6. ASSUME NEW op, Interprets(op)
      PROVE  Allowed(ram, Rip, 1, "X") /\ ram.bytes[Rip].op = op /\ ram.bytes[Rip] = Decoded
  BY <1>2, <1>6 DEF Interprets, Fetches, Decoded
<1>7. CASE StepPlain
  <2>1. Interprets("plain") /\ Stepped(cpu.rip + 1) /\ UNCHANGED ram
    BY <1>7 DEF StepPlain
  <2>2. M!Step
    BY <1>2, <1>5, <1>6, <2>1, MachinePlain
  <2> QED BY <1>4, <2>1, <2>2 DEF MachineSteps
<1>8. CASE StepBranch
  <2>1. /\ UNCHANGED ram
        /\ \/ Interprets("jmp") /\ Stepped(Decoded.to)
           \/ Interprets("jcc") /\ \E rip \in {Decoded.to, cpu.rip + 1} : Stepped(rip)
           \/ Interprets("ind") /\ \E rip \in Targets : Stepped(rip)
    BY <1>8 DEF StepBranch
  <2>2. ASSUME NEW rip, Stepped(rip),
               \/ Interprets("jmp") /\ rip = Decoded.to
               \/ Interprets("jcc") /\ rip \in {Decoded.to, cpu.rip + 1}
               \/ Interprets("ind") /\ rip \in Targets
        PROVE  M!Step
    <3>1. Rip' = rip /\ cpu'.mode = cpu.mode
      BY <1>5, <2>2
    <3>2. Allowed(ram, Rip, 1, "X") /\ ram.bytes[Rip] = Decoded
      BY <1>6, <2>2
    <3>3. /\ Interprets("jmp") => ram.bytes[Rip].op = "jmp"
          /\ Interprets("jcc") => ram.bytes[Rip].op = "jcc"
          /\ Interprets("ind") => ram.bytes[Rip].op = "ind"
      BY <1>6
    <3>4. \/ ram.bytes[Rip].op = "jmp" /\ Rip' = ram.bytes[Rip].to
          \/ ram.bytes[Rip].op = "jcc" /\ Rip' \in {ram.bytes[Rip].to, Rip + 1}
          \/ ram.bytes[Rip].op = "ind" /\ Rip' \in Targets
      BY <1>2, <2>2, <3>1, <3>2, <3>3
    <3> QED BY <2>1, <3>1, <3>2, <3>4, MachineBranch
  <2>3. M!Step
    BY <2>1, <2>2
  <2> QED BY <1>4, <2>1, <2>3 DEF MachineSteps
<1>9. CASE StepStore
  <2>1. Interprets("store") /\ HostWrites /\ Stepped(cpu.rip + 1)
    BY <1>9 DEF StepStore
  <2>2. M!Writes /\ ram'.perm = ram.perm
    BY <1>2, <2>1, HostWritesSpare
  <2>3. M!Step
    BY <1>2, <1>5, <1>6, <2>1, <2>2, MachineStore
  <2> QED BY <1>4, <2>1, <2>3 DEF MachineSteps
<1>10. CASE StepOther
  <2>1. /\ Interprets("other") /\ (UNCHANGED ram \/ HostWrites \/ LayoutChanges)
        /\ \E mode \in Modes : cpu' = [rip |-> cpu.rip + 1, mode |-> mode]
    BY <1>10 DEF StepOther
  <2>2. UNCHANGED ram \/ HostWrites
    BY <2>1 DEF LayoutChanges, Sparing, NothingRemapped
  <2>3. cpu'.mode \in Modes /\ Rip' = Rip + 1
    BY <1>2, <2>1
  <2>4. ram' = ram \/ (M!Writes /\ ram'.perm = ram.perm)
    BY <1>2, <2>2, HostWritesSpare
  <2>5. M!Step
    BY <1>6, <2>1, <2>3, <2>4, MachineOther
  <2> QED BY <1>4, <2>2, <2>5 DEF MachineSteps
<1>11. CASE StepFault
  <2>1. /\ Fetches => Decoded.op \in {"plain", "store"}
        /\ \E rip \in Handlers : Stepped(rip)
        /\ UNCHANGED ram
    BY <1>11 DEF StepFault
  <2>2. Rip' \in Handlers /\ cpu'.mode = cpu.mode
    BY <1>5, <2>1
  <2>3. Allowed(ram, Rip, 1, "X") => ram.bytes[Rip].op \in {"plain", "store"}
    BY <1>2, <2>1 DEF Fetches, Decoded
  <2>4. M!Step
    BY <2>1, <2>2, <2>3, MachineFault
  <2> QED BY <1>4, <2>1, <2>4 DEF MachineSteps
<1>12. CASE StepSwitch
  <2>1. cpu' \in [rip : Handlers, mode : Modes] /\ UNCHANGED ram
    BY <1>12 DEF StepSwitch
  <2>2. M!Step
    BY <1>2, <2>1, MachineSwitch
  <2> QED BY <1>4, <2>1, <2>2 DEF MachineSteps
<1> QED BY <1>7, <1>8, <1>9, <1>10, <1>11, <1>12 DEF Steps

LEMMA MachineKeeps ==
  ASSUME Sparing, CacheInv, FreshInv, MachineInv, [Next]_vars
  PROVE  MachineSteps
<1>1. CASE UNCHANGED vars
  <2>1. UNCHANGED <<ram, cpu, jit, call, native>>
    BY <1>1 DEF vars
  <2>2. Rip' = Rip /\ Running' = Running
    BY <2>1 DEF Rip, Running
  <2>3. MachineInv'
    BY <2>1, <2>2 DEF MachineInv
  <2>4. UNCHANGED M!vars
    BY <2>1, <2>2, MachineStutter
  <2> QED BY <2>3, <2>4 DEF MachineSteps
<1>2. CASE Next
  BY <1>2, EnterSteps, DispatchSteps, PlainSteps, BranchSteps, EndSteps, StoreSteps, FaultSteps,
     OutsideSteps DEF Next, Steps
<1> QED BY <1>1, <1>2

LEMMA MachineInvHolds ==
  ASSUME Sparing
  PROVE  Spec => [](CacheInv /\ FreshInv /\ MachineInv)
<1>1. Init => FreshInv
  BY DEF Init, NewJit, FreshInv
<1>2. Init => MachineInv
  <2> SUFFICES ASSUME Init PROVE MachineInv
    OBVIOUS
  <2>1. ram \in InitRams /\ jit = NewJit /\ call.phase = "out"
    BY DEF Init, Idle
  <2>2. Chain(jit, ram)
    BY <2>1 DEF Chain, NewJit, EmptySlot
  <2> QED BY <2>1, <2>2 DEF MachineInv, Sparing
<1>3. CacheInv /\ FreshInv /\ [Next]_vars => FreshInv'
  BY FreshStep DEF Sparing
<1>4. CacheInv /\ FreshInv /\ MachineInv /\ [Next]_vars => MachineInv'
  BY MachineKeeps DEF MachineSteps
<1> QED BY <1>1, <1>2, <1>3, <1>4, CacheTyped, PTL DEF Spec

\* What compiled code executes is what memory holds at that moment, in memory
\* the guest may execute.
THEOREM NativeCodeIsFresh ==
  ASSUME Sparing
  PROVE  Spec => []NativeIsFresh
<1>1. CacheInv /\ FreshInv /\ MachineInv => NativeIsFresh
  <2> SUFFICES ASSUME CacheInv, FreshInv, MachineInv, AtInsn
               PROVE  LET a == Running.rip + native.pc - 1
                      IN  Allowed(ram, a, 1, "X") /\ ram.bytes[a] = Insn
    BY DEF NativeIsFresh
  <2> QED BY InsnIs
<1> QED BY <1>1, MachineInvHolds, PTL

\* A program that runs compiled is, instruction by instruction, a run of the
\* interpreter: also when compiled code writes into compiled code, its own
\* block or the next of the chain.
THEOREM CompiledRunsAsInterpreted ==
  ASSUME Sparing
  PROVE  Spec => RunsAsInterpreted
<1>1. Init => M!Init
  BY DEF Init, M!Init, Idle, M!Addr, Addr
<1>2. CacheInv /\ FreshInv /\ MachineInv /\ [Next]_vars => [M!Step]_(M!vars)
  BY MachineKeeps DEF MachineSteps
<1> QED BY <1>1, <1>2, MachineInvHolds, PTL DEF Spec, RunsAsInterpreted, M!Spec
=============================================================================
