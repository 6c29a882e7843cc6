--------------------------- MODULE JitCacheProofs ---------------------------
(***************************************************************************)
(* The cache of compiled blocks, proved for every size of the code buffer, *)
(* of the tables and of blocks, and for every memory a run starts from.    *)
(***************************************************************************)
EXTENDS JitCache, WellFoundedInduction, SequenceTheorems, TLAPS

-----------------------------------------------------------------------------
(* Arithmetic.                                                             *)

\* Among finitely many naturals one is the largest.
LEMMA MaxOfBounded ==
  ASSUME NEW S, NEW n \in Nat, S \subseteq 0 .. n, S # {}
  PROVE  Max(S) \in S /\ \A x \in S : x <= Max(S)
<1> DEFINE T == {n - x : x \in S}
           R == {ss \in Nat \X Nat : ss[1] < ss[2]}
<1>1. T \subseteq Nat /\ T # {}
  <2>1. \A x \in S : n - x \in Nat
    OBVIOUS
  <2> QED BY <2>1
<1>2. \E t \in T : \A u \in T : ~(<<u, t>> \in R)
  <2> HIDE DEF T, R
  <2>1. IsWellFoundedOn(R, Nat)
    BY NatLessThanWellFounded DEF R, OpToRel
  <2> QED BY <2>1, <1>1, WFMin
<1>3. PICK t \in T : \A u \in T : ~(u < t)
  BY <1>1, <1>2
<1>4. PICK m \in S : t = n - m
  OBVIOUS
<1>5. \A x \in S : m >= x
  <2> SUFFICES ASSUME NEW x \in S PROVE m >= x
    OBVIOUS
  <2>1. ~(n - x < n - m)
    BY <1>3, <1>4
  <2> QED BY <2>1
<1>6. Max(S) \in S /\ \A x \in S : Max(S) >= x
  BY <1>4, <1>5 DEF Max
<1> QED BY <1>6

LEMMA MaxOfTwo ==
  ASSUME NEW x \in Int, NEW y \in Int
  PROVE  Max({x, y}) = IF x >= y THEN x ELSE y
<1>1. CASE x >= y
  BY <1>1 DEF Max
<1>2. CASE y > x
  BY <1>2 DEF Max
<1> QED BY <1>1, <1>2

LEMMA Division ==
  ASSUME NEW P \in Nat \ {0}, NEW x \in Nat
  PROVE  /\ x \div P \in Nat
         /\ P * (x \div P) <= x /\ x < P * (x \div P + 1)
  OBVIOUS

LEMMA Remainder ==
  ASSUME NEW P \in Nat \ {0}, NEW x \in Nat
  PROVE  /\ x % P \in 0 .. P - 1
         /\ x < P => x % P = x
         /\ x = P => x % P = 0
  OBVIOUS

\* Addresses lie in pages, in order, and a block of at most PageSize + 1
\* addresses lies in the page of its first and the page of its last.
LEMMA PagesOfAddresses ==
  /\ \A a \in Addr : PageOf(a) \in Pages
  /\ \A a \in Rips : PageOf(a) \in Nat
<1>1. \A a \in Nat : PageOf(a) \in Nat /\ PageSize * PageOf(a) <= a
  BY Division, MemoryAssumption DEF PageOf
<1>2. ASSUME NEW a \in Addr PROVE PageOf(a) < NumPages
  <2> DEFINE low == PageSize * PageOf(a)
             top == NumPages * PageSize
  <2>1. a \in Nat /\ a < top /\ top \in Nat
    BY MemoryAssumption DEF Addr
  <2>2. low \in Nat /\ low <= a /\ PageOf(a) \in Nat
    BY <1>1, <2>1, MemoryAssumption
  <2> HIDE DEF low, top
  <2>3. low < top
    BY <2>1, <2>2
  <2>4. PageSize * PageOf(a) < NumPages * PageSize
    BY <2>3 DEF low, top
  <2> QED BY <2>2, <2>4, MemoryAssumption
<1>3. Rips \subseteq Nat /\ Addr \subseteq Nat
  BY MemoryAssumption DEF Rips, Addr
<1> QED BY <1>1, <1>2, <1>3, MemoryAssumption DEF Pages

LEMMA PagesInOrder ==
  ASSUME NEW a \in Nat, NEW b \in Nat, a <= b
  PROVE  /\ PageOf(a) <= PageOf(b)
         /\ b <= a + PageSize => PageOf(b) <= PageOf(a) + 1
<1> DEFINE p == PageOf(a)  q == PageOf(b)
<1>1. /\ p \in Nat /\ PageSize * p <= a /\ a < PageSize * (p + 1)
      /\ q \in Nat /\ PageSize * q <= b /\ b < PageSize * (q + 1)
      /\ PageSize \in Nat /\ PageSize > 0
  BY Division, MemoryAssumption DEF PageOf
<1> HIDE DEF p, q
<1>2. p <= q
  <2> SUFFICES ASSUME q + 1 <= p PROVE FALSE
    BY <1>1
  <2>1. PageSize * (q + 1) <= PageSize * p
    BY <1>1
  <2> QED BY <1>1, <2>1
<1>3. ASSUME b <= a + PageSize PROVE q <= p + 1
  <2> SUFFICES ASSUME p + 2 <= q PROVE FALSE
    BY <1>1
  <2>1. PageSize * (p + 2) <= PageSize * q
    BY <1>1
  <2>2. PageSize * (p + 2) = PageSize * (p + 1) + PageSize
    BY <1>1
  <2> QED BY <1>1, <1>3, <2>1, <2>2
<1> QED BY <1>2, <1>3 DEF p, q

-----------------------------------------------------------------------------
(* The inductive invariant.  First the engine alone, a record j.           *)

AnyMode == {"long", "prot"}

\* A block holds at most MaxInsns instructions, of which only the last may be
\* a branch, and lies within the address space.
Blocks ==
    [rip : Rips, mode : Modes, code : Seq(Insns), page0 : Nat, page1 : Nat,
     gen0 : Nat, gen1 : Nat, global : Nat]
WellFormed(b) ==
    /\ b \in Blocks
    /\ Len(b.code) <= MaxInsns /\ b.rip + Len(b.code) \in Rips
    /\ \A k \in 1 .. Len(b.code) - 1 : ~Terminates(b.code[k])
    /\ b.page0 = PageOf(b.rip)
    /\ b.code # <<>> => b.page1 = PageOf(b.rip + Len(b.code) - 1)

EngineTyped(j) ==
    j \in [blocks : Seq(Blocks), map : [Keys -> Nat],
           lines : [Lines -> [rip : Rips, mode : AnyMode, idx : Nat, gen : Nat]],
           cacheGen : 1 .. GenWrap - 1, used : Nat, longest : Nat,
           links : [Slots -> [epoch : Nat, key : Rips, to : Nat]], epoch : 1 .. EpochDead - 1,
           pending : [slot : Nat \X Nat, rip : Rips, mode : AnyMode], codePages : SUBSET Nat,
           tlb : [Pages -> Nat], tlbLive : BOOLEAN, tlbGen : Nat]

\* Every block is well formed, no longer than the longest, and its pages are
\* known to hold code.
BlocksRight(j) ==
    \A i \in 1 .. Len(j.blocks) :
        /\ WellFormed(j.blocks[i])
        /\ Len(j.blocks[i].code) <= j.longest
        /\ j.blocks[i].code # <<>> => {j.blocks[i].page0, j.blocks[i].page1} \subseteq j.codePages

MapRight(j) ==
    \A k \in Keys : j.map[k] # 0 =>
        /\ j.map[k] \in 1 .. Len(j.blocks)
        /\ j.blocks[j.map[k]].rip = k[1] /\ j.blocks[j.map[k]].mode = k[2]

\* No line is of a generation to come, and those of the present one repeat
\* the map.
LinesRight(j) ==
    \A l \in Lines :
        /\ j.lines[l].gen <= j.cacheGen
        /\ j.lines[l].gen = j.cacheGen =>
              /\ <<j.lines[l].rip, j.lines[l].mode>> \in Keys
              /\ j.lines[l].idx = j.map[<<j.lines[l].rip, j.lines[l].mode>>]
              /\ j.lines[l].idx # 0

\* The link of slot s, filled with this key and target, is a right one.
Joins(j, s, mode, key) ==
    /\ s[1] \in 1 .. Len(j.blocks) /\ j.blocks[s[1]].mode = mode
    /\ s[2] \in DOMAIN LinkExits(j.blocks[s[1]])
    /\ LinkExits(j.blocks[s[1]])[s[2]] \in {key, Indirect}

\* No link is of an epoch to come, and those of the present one are right.
LinksRight(j) ==
    \A s \in Slots :
        /\ j.links[s].epoch <= j.epoch
        /\ j.links[s].epoch = j.epoch =>
              /\ j.links[s].to \in 1 .. Len(j.blocks)
              /\ j.blocks[j.links[s].to].code # <<>>
              /\ j.blocks[j.links[s].to].rip = j.links[s].key
              /\ Joins(j, s, j.blocks[j.links[s].to].mode, j.links[s].key)

\* What waits to be linked is an exit of a block.
PendingRight(j) ==
    j.pending # Nothing =>
        j.pending.slot \in Slots /\ Joins(j, j.pending.slot, j.pending.mode, j.pending.rip)

Engine(j) == /\ EngineTyped(j) /\ BlocksRight(j) /\ MapRight(j) /\ LinesRight(j)
             /\ LinksRight(j) /\ PendingRight(j)

\* What the table of host pages says of the memory m.
TlbRight(j, m) ==
    \A p \in Pages : j.tlb[p] # 0 => HostSpan(m, p) /\ j.tlb[p] = m.backing[RegionOf[p]]
TlbKnown(j, m) == j.tlbLive /\ j.tlbGen = m.layoutGen

Typed ==
    /\ ram \in Memories /\ cpu \in [rip : Rips, mode : Modes]
    /\ call \in [phase : {"out", "loop", "native"}, due : {"jit", "step"},
                 budget : Nat, retired : Nat]
    /\ native \in [blk : Nat, pc : Nat, epoch : Nat, limit : Nat, smc : Nat, hits : 0 .. 2]

\* The compiled block that runs fits under the ceiling, so does every other
\* while the limit is not passed, and links are followed only in this epoch.
InBlock ==
    call.phase = "native" =>
        /\ native.blk \in 1 .. Len(jit.blocks)
        /\ Running.mode = cpu.mode
        /\ native.pc \in 1 .. Len(Running.code) + 1
        /\ Running.code # <<>>
        /\ native.pc > Len(Running.code) => ~Terminates(Running.code[Len(Running.code)])
        /\ native.epoch \in {jit.epoch, EpochDead}
        /\ native.limit = Max({0, call.budget + 1 - jit.longest})
        /\ call.retired + Len(Running.code) <= call.budget

TlbInv == /\ jit.tlbGen <= ram.layoutGen
          /\ TlbKnown(jit, ram) => TlbRight(jit, ram)
          /\ call.phase # "out" => TlbKnown(jit, ram)

CacheInv == Typed /\ Engine(jit) /\ InBlock /\ TlbInv

\* For memory whose rights never change: a block that would be found valid
\* holds what memory holds, and all of it is executable.
NothingRemapped == Remappable = {}
Fresh(b, m) ==
    /\ b.global <= m.codeGen /\ b.gen0 <= PageGen(m, b.page0) /\ b.gen1 <= PageGen(m, b.page1)
    /\ \A k \in 1 .. Len(b.code) : Allowed(m, b.rip + k - 1, 1, "X")
    /\ Valid(b, m) => \A k \in 1 .. Len(b.code) : m.bytes[b.rip + k - 1] = b.code[k]
FreshInv == \A i \in 1 .. Len(jit.blocks) : Fresh(jit.blocks[i], ram)

-----------------------------------------------------------------------------
(* Compiling.                                                              *)

LEMMA BlockLengthIs ==
  ASSUME NEW m, NEW rip
  PROVE  /\ BlockLength(m, rip) \in 0 .. MaxInsns
         /\ \A k \in 1 .. BlockLength(m, rip) :
               /\ Lowers(m, rip + k - 1)
               /\ k < BlockLength(m, rip) => ~Terminates(m.bytes[rip + k - 1])
<1> DEFINE S == {n \in 0 .. MaxInsns : \A k \in 1 .. n :
                    /\ Lowers(m, rip + k - 1)
                    /\ k < n => ~Terminates(m.bytes[rip + k - 1])}
<1>1. MaxInsns \in Nat /\ S \subseteq 0 .. MaxInsns
  BY JitAssumption
<1>2. 0 \in S
  BY <1>1
<1>3. Max(S) \in S
  <2> HIDE DEF S
  <2> QED BY <1>1, <1>2, MaxOfBounded
<1>4. BlockLength(m, rip) = Max(S)
  BY DEF BlockLength
<1>5. PICK n \in S : n = Max(S)
  BY <1>3
<1> HIDE DEF S
<1>6. BlockLength(m, rip) = n
  BY <1>4, <1>5
<1> QED BY <1>6 DEF S

LEMMA NewBlockIs ==
  ASSUME NEW m \in Memories, NEW rip \in Rips, NEW mode \in Modes
  PROVE  /\ WellFormed(NewBlock(m, rip, mode))
         /\ NewBlock(m, rip, mode).rip = rip /\ NewBlock(m, rip, mode).mode = mode
         /\ Fresh(NewBlock(m, rip, mode), m)
<1> DEFINE b == NewBlock(m, rip, mode)
           n == BlockLength(m, rip)
           at(k) == rip + k - 1
<1>1. n \in 0 .. MaxInsns /\ MaxInsns \in Nat /\ n \in Nat
  BY BlockLengthIs, JitAssumption
<1>2. \A k \in 1 .. n : /\ Allowed(m, at(k), 1, "X") /\ at(k) \in Addr
                        /\ k < n => ~Terminates(m.bytes[at(k)])
  BY BlockLengthIs DEF Lowers, Allowed
<1>3. m.bytes \in [Addr -> Insns]
  BY DEF Memories
<1> HIDE DEF n
<1>4. CompiledCode(m, rip) = [k \in 1 .. n |-> m.bytes[at(k)]]
  BY DEF CompiledCode, n
<1>5. /\ CompiledCode(m, rip) \in Seq(Insns) /\ Len(CompiledCode(m, rip)) = n
      /\ \A k \in 1 .. n : CompiledCode(m, rip)[k] = m.bytes[at(k)]
  BY <1>1, <1>2, <1>3, <1>4
<1>6. rip \in Nat /\ rip + n \in Rips
  <2>1. rip \in Nat /\ rip <= NumPages * PageSize /\ NumPages * PageSize \in Nat
    BY MemoryAssumption DEF Rips
  <2>2. CASE n = 0
    BY <2>1, <2>2
  <2>3. CASE n > 0
    <3>1. rip + n - 1 \in Addr
      BY <1>1, <1>2, <2>3
    <3> QED BY <2>1, <3>1, <1>1 DEF Addr, Rips
  <2> QED BY <1>1, <2>2, <2>3
<1>7. /\ b.rip = rip /\ b.mode = mode /\ b.code = CompiledCode(m, rip)
      /\ b.page0 = PageOf(rip)
      /\ b.page1 = PageOf(IF n = 0 THEN rip ELSE rip + n - 1)
      /\ b.gen0 = PageGen(m, b.page0) /\ b.gen1 = PageGen(m, b.page1) /\ b.global = m.codeGen
      /\ b = [rip |-> b.rip, mode |-> b.mode, code |-> b.code, page0 |-> b.page0, page1 |-> b.page1,
              gen0 |-> b.gen0, gen1 |-> b.gen1, global |-> b.global]
  BY <1>5 DEF NewBlock
<1> HIDE DEF b
<1>8. b.page0 \in Nat /\ b.page1 \in Nat
  BY <1>1, <1>2, <1>6, <1>7, PagesOfAddresses DEF Pages, Rips, Addr
<1>9. \A p : PageGen(m, p) \in Nat
  BY DEF PageGen, Memories
<1>10. m.codeGen \in Nat
  BY DEF Memories
<1>11. b \in Blocks
  BY <1>5, <1>7, <1>8, <1>9, <1>10 DEF Blocks
<1>12. WellFormed(b)
  <2>1. \A k \in 1 .. Len(b.code) - 1 : ~Terminates(b.code[k])
    BY <1>1, <1>2, <1>5, <1>7
  <2>2. b.code # <<>> => n # 0
    BY <1>5, <1>7
  <2> QED BY <1>1, <1>5, <1>6, <1>7, <1>11, <2>1, <2>2 DEF WellFormed
<1>13. Fresh(b, m)
  BY <1>1, <1>2, <1>5, <1>7, <1>9, <1>10 DEF Fresh
<1> QED BY <1>7, <1>12, <1>13 DEF b

\* The exits of a block are addresses or computed.
LEMMA ExitsAre ==
  ASSUME NEW b, WellFormed(b)
  PROVE  /\ LinkExits(b) \in Seq(Rips \union {Indirect}) /\ Len(LinkExits(b)) \in 0 .. MaxLinks
         /\ DOMAIN LinkExits(b) = 1 .. Len(LinkExits(b))
         /\ b.code # <<>> /\ ~Terminates(b.code[Len(b.code)]) /\ Len(b.code) = MaxInsns
               => LinkExits(b) = <<b.rip + MaxInsns>>
<1> DEFINE n == Len(b.code)
<1>1. n \in Nat /\ b.rip + n \in Rips /\ b.code \in Seq(Insns)
  BY DEF WellFormed, Blocks
<1>2. \A i \in Insns : i.to \in Rips
  BY JitAssumption, MemoryAssumption DEF Addr, Rips
<1>3. n # 0 => b.code[n] \in Insns
  BY <1>1
<1> DEFINE E == Rips \union {Indirect}
<1>4. LinkExits(b) = <<>> \/ (\E x \in E : LinkExits(b) = <<x>>)
         \/ (\E x, y \in E : LinkExits(b) = <<x, y>>)
  <2>1. CASE n = 0
    BY <2>1 DEF LinkExits
  <2>2. CASE n # 0 /\ b.code[n].op = "jmp"
    BY <1>2, <1>3, <2>2 DEF LinkExits
  <2>3. CASE n # 0 /\ b.code[n].op = "jcc"
    BY <1>1, <1>2, <1>3, <2>3 DEF LinkExits
  <2>4. CASE n # 0 /\ b.code[n].op = "ind"
    BY <2>4 DEF LinkExits
  <2>5. CASE n # 0 /\ ~Terminates(b.code[n])
    BY <1>1, <2>5 DEF LinkExits, Terminates
  <2> QED BY <2>1, <2>2, <2>3, <2>4, <2>5 DEF Terminates
<1>5. b.code # <<>> /\ ~Terminates(b.code[n]) /\ n = MaxInsns => LinkExits(b) = <<b.rip + MaxInsns>>
  BY <1>1, JitAssumption DEF LinkExits, Terminates
<1>6. LinkExits(b) \in Seq(E) /\ Len(LinkExits(b)) \in 0 .. MaxLinks
  <2> HIDE DEF E
  <2>1. CASE LinkExits(b) = <<>>
    BY <2>1 DEF MaxLinks
  <2>2. CASE \E x \in E : LinkExits(b) = <<x>>
    BY <2>2 DEF MaxLinks
  <2>3. CASE \E x, y \in E : LinkExits(b) = <<x, y>>
    BY <2>3 DEF MaxLinks
  <2> QED BY <1>4, <2>1, <2>2, <2>3
<1> QED BY <1>5, <1>6

-----------------------------------------------------------------------------
(* The operations of the engine keep it right.                             *)

LEMMA KeysAre ==
  /\ \A rip \in Rips, mode \in Modes : <<rip, mode>> \in Keys
  /\ \A k \in Keys : k[1] \in Rips /\ k[2] \in Modes /\ k = <<k[1], k[2]>>
  BY DEF Keys

\* One step of the epoch, or its wrap, leaves no link of the present one.
LEMMA UnlinkAllIs ==
  ASSUME NEW j, EngineTyped(j), \A s \in Slots : j.links[s].epoch <= j.epoch,
         NEW u, u = UnlinkAll(j)
  PROVE  /\ EngineTyped(u) /\ u.pending = Nothing
         /\ u.blocks = j.blocks /\ u.map = j.map /\ u.lines = j.lines /\ u.cacheGen = j.cacheGen
         /\ u.longest = j.longest /\ u.codePages = j.codePages
         /\ u.tlb = j.tlb /\ u.tlbLive = j.tlbLive /\ u.tlbGen = j.tlbGen
         /\ \A s \in Slots : u.links[s].epoch < u.epoch
<1>0. j.epoch \in 1 .. EpochDead - 1 /\ EpochDead \in Nat /\ EpochDead - 1 \in Nat
  BY JitAssumption DEF EngineTyped
<1>1. /\ u.blocks = j.blocks /\ u.map = j.map /\ u.lines = j.lines /\ u.cacheGen = j.cacheGen
      /\ u.longest = j.longest /\ u.codePages = j.codePages /\ u.pending = Nothing
      /\ u.tlb = j.tlb /\ u.tlbLive = j.tlbLive /\ u.tlbGen = j.tlbGen
      /\ u.epoch = IF j.epoch + 1 = EpochDead THEN 1 ELSE j.epoch + 1
      /\ u.links = IF j.epoch + 1 = EpochDead THEN [s \in Slots |-> EmptySlot] ELSE j.links
  BY DEF UnlinkAll, EngineTyped
<1>2. EngineTyped(u)
  <2>1. Nothing \in [slot : Nat \X Nat, rip : Rips, mode : AnyMode]
    BY MemoryAssumption DEF Nothing, Rips, AnyMode
  <2>2. EmptySlot \in [epoch : Nat, key : Rips, to : Nat]
    BY MemoryAssumption DEF EmptySlot, Rips
  <2>3. u.epoch \in 1 .. EpochDead - 1
    BY <1>0, <1>1
  <2>4. u.links \in [Slots -> [epoch : Nat, key : Rips, to : Nat]]
    BY <1>1, <2>2 DEF EngineTyped
  <2>5. u = [j EXCEPT !.epoch = u.epoch, !.links = u.links, !.pending = Nothing]
    BY <1>1 DEF UnlinkAll, EngineTyped
  <2> QED BY <2>1, <2>3, <2>4, <2>5 DEF EngineTyped
<1>3. \A s \in Slots : u.links[s].epoch < u.epoch
  BY <1>0, <1>1 DEF EngineTyped, EmptySlot
<1> QED BY <1>1, <1>2, <1>3

\* The same for the lines and their generation.
LEMMA RetireLinesIs ==
  ASSUME NEW j, EngineTyped(j), \A l \in Lines : j.lines[l].gen <= j.cacheGen,
         NEW u, u = RetireLines(j)
  PROVE  /\ EngineTyped(u)
         /\ u.blocks = j.blocks /\ u.map = j.map /\ u.epoch = j.epoch /\ u.links = j.links
         /\ u.longest = j.longest /\ u.codePages = j.codePages /\ u.pending = j.pending
         /\ u.tlb = j.tlb /\ u.tlbLive = j.tlbLive /\ u.tlbGen = j.tlbGen
         /\ \A l \in Lines : u.lines[l].gen < u.cacheGen
<1> DEFINE g == j.cacheGen + 1
           Retired == [l \in Lines |-> [j.lines[l] EXCEPT !.gen = 0]]
<1>0. /\ j.cacheGen \in 1 .. GenWrap - 1 /\ GenWrap \in Nat \ {0} /\ GenWrap > 1 /\ g \in Nat
      /\ g <= GenWrap
  BY JitAssumption DEF EngineTyped
<1>1. g % GenWrap = 0 <=> g = GenWrap
  <2>1. g # 0
    BY <1>0
  <2> HIDE DEF g
  <2>2. CASE g = GenWrap
    BY <1>0, <2>2, Remainder
  <2>3. CASE g < GenWrap
    BY <1>0, <2>1, <2>3, Remainder
  <2> QED BY <1>0, <2>2, <2>3
<1>2. /\ u.blocks = j.blocks /\ u.map = j.map /\ u.epoch = j.epoch /\ u.links = j.links
      /\ u.longest = j.longest /\ u.codePages = j.codePages /\ u.pending = j.pending
      /\ u.tlb = j.tlb /\ u.tlbLive = j.tlbLive /\ u.tlbGen = j.tlbGen
      /\ u.cacheGen = IF g = GenWrap THEN 1 ELSE g
      /\ u.lines = IF g = GenWrap THEN Retired ELSE j.lines
  BY <1>0, <1>1 DEF RetireLines, EngineTyped
<1>3. Retired \in [Lines -> [rip : Rips, mode : AnyMode, idx : Nat, gen : Nat]]
      /\ \A l \in Lines : Retired[l].gen = 0
  BY ZenonT(20) DEF EngineTyped
<1> HIDE DEF Retired
<1>4. EngineTyped(u)
  <2>1. u.cacheGen \in 1 .. GenWrap - 1
    BY <1>0, <1>2
  <2>2. u.lines \in [Lines -> [rip : Rips, mode : AnyMode, idx : Nat, gen : Nat]]
    BY <1>2, <1>3 DEF EngineTyped
  <2>3. u = [j EXCEPT !.cacheGen = u.cacheGen, !.lines = u.lines]
    BY <1>1, <1>2 DEF RetireLines, EngineTyped
  <2> QED BY <2>1, <2>2, <2>3 DEF EngineTyped
<1>5. \A l \in Lines : u.lines[l].gen < u.cacheGen
  <2> SUFFICES ASSUME NEW l \in Lines PROVE u.lines[l].gen < u.cacheGen
    OBVIOUS
  <2>1. j.lines[l].gen <= j.cacheGen /\ j.lines[l].gen \in Nat
    BY DEF EngineTyped
  <2> QED BY <1>0, <1>2, <1>3, <2>1
<1> QED BY <1>2, <1>4, <1>5

LEMMA UnlinkAllKeeps ==
  ASSUME NEW j, Engine(j)
  PROVE  Engine(UnlinkAll(j))
<1> DEFINE u == UnlinkAll(j)
<1>1. EngineTyped(j) /\ \A s \in Slots : j.links[s].epoch <= j.epoch
  BY DEF Engine, LinksRight
<1>2. /\ EngineTyped(u) /\ u.pending = Nothing
      /\ u.blocks = j.blocks /\ u.map = j.map /\ u.lines = j.lines /\ u.cacheGen = j.cacheGen
      /\ u.longest = j.longest /\ u.codePages = j.codePages
      /\ \A s \in Slots : u.links[s].epoch < u.epoch
  BY <1>1, UnlinkAllIs
<1> HIDE DEF u
<1>3. BlocksRight(u) /\ MapRight(u) /\ LinesRight(u)
  BY <1>2 DEF Engine, BlocksRight, MapRight, LinesRight
<1>4. \A s \in Slots : u.links[s].epoch <= u.epoch /\ u.links[s].epoch # u.epoch
  <2>1. u.epoch \in Nat /\ \A s \in Slots : u.links[s].epoch \in Nat
    BY <1>2, JitAssumption DEF EngineTyped
  <2> QED BY <1>2, <2>1
<1>5. LinksRight(u) /\ PendingRight(u)
  BY <1>2, <1>4 DEF LinksRight, PendingRight
<1> QED BY <1>2, <1>3, <1>5 DEF u, Engine

\* A flush leaves an engine in which nothing is found and nothing followed.
LEMMA FlushIs ==
  ASSUME NEW j, Engine(j), NEW u, u = Flush(j)
  PROVE  /\ Engine(u) /\ u.pending = Nothing
         /\ u.blocks = <<>> /\ u.map = [k \in Keys |-> 0]
         /\ u.tlb = j.tlb /\ u.tlbLive = j.tlbLive /\ u.tlbGen = j.tlbGen
         /\ \A l \in Lines : u.lines[l].gen # u.cacheGen
<1> DEFINE e == [j EXCEPT !.blocks = <<>>, !.map = [k \in Keys |-> 0],
                          !.used = 0, !.longest = 0, !.codePages = {}]
           f == UnlinkAll(e)
<1>0. EngineTyped(j)
  BY DEF Engine
<1>a. /\ e.links = j.links /\ e.epoch = j.epoch /\ e.lines = j.lines /\ e.cacheGen = j.cacheGen
      /\ e.blocks = <<>> /\ e.map = [k \in Keys |-> 0]
      /\ e.tlb = j.tlb /\ e.tlbLive = j.tlbLive /\ e.tlbGen = j.tlbGen
  BY <1>0 DEF EngineTyped
<1>b. EngineTyped(e)
  <2> DEFINE none == [k \in Keys |-> 0]
  <2>1. <<>> \in Seq(Blocks) /\ {} \in SUBSET Nat /\ none \in [Keys -> Nat] /\ 0 \in Nat
    OBVIOUS
  <2>2. e = [j EXCEPT !.blocks = <<>>, !.map = none, !.used = 0, !.longest = 0, !.codePages = {}]
    OBVIOUS
  <2> HIDE DEF none, e
  <2> QED BY <1>0, <2>1, <2>2 DEF EngineTyped
<1>1. /\ EngineTyped(e) /\ \A s \in Slots : e.links[s].epoch <= e.epoch
      /\ \A l \in Lines : e.lines[l].gen <= e.cacheGen
      /\ e.blocks = <<>> /\ e.map = [k \in Keys |-> 0]
      /\ e.tlb = j.tlb /\ e.tlbLive = j.tlbLive /\ e.tlbGen = j.tlbGen
  BY <1>a, <1>b DEF Engine, LinksRight, LinesRight
<1> HIDE DEF e
<1>2. /\ EngineTyped(f) /\ f.pending = Nothing /\ \A s \in Slots : f.links[s].epoch < f.epoch
      /\ f.blocks = <<>> /\ f.map = [k \in Keys |-> 0]
      /\ \A l \in Lines : f.lines[l].gen <= f.cacheGen
      /\ f.tlb = j.tlb /\ f.tlbLive = j.tlbLive /\ f.tlbGen = j.tlbGen
  BY <1>1, UnlinkAllIs
<1>3. u = RetireLines(f)
  BY DEF Flush, e
<1> HIDE DEF f
<1>4. /\ EngineTyped(u) /\ u.pending = Nothing /\ \A s \in Slots : u.links[s].epoch < u.epoch
      /\ u.blocks = <<>> /\ u.map = [k \in Keys |-> 0]
      /\ \A l \in Lines : u.lines[l].gen < u.cacheGen
      /\ u.tlb = j.tlb /\ u.tlbLive = j.tlbLive /\ u.tlbGen = j.tlbGen
  BY <1>2, <1>3, RetireLinesIs
<1>5. BlocksRight(u) /\ MapRight(u) /\ PendingRight(u)
  BY <1>4 DEF BlocksRight, MapRight, PendingRight
<1>6. /\ \A s \in Slots : u.links[s].epoch <= u.epoch /\ u.links[s].epoch # u.epoch
      /\ \A l \in Lines : u.lines[l].gen <= u.cacheGen /\ u.lines[l].gen # u.cacheGen
  <2>1. /\ u.epoch \in Nat /\ \A s \in Slots : u.links[s].epoch \in Nat
        /\ u.cacheGen \in Nat /\ \A l \in Lines : u.lines[l].gen \in Nat
    BY <1>4, JitAssumption DEF EngineTyped
  <2> QED BY <1>4, <2>1
<1>7. LinksRight(u) /\ LinesRight(u)
  BY <1>6 DEF LinksRight, LinesRight
<1> QED BY <1>4, <1>5, <1>6, <1>7 DEF Engine

\* A new block at a place where the cache has none.
LEMMA InstalledIs ==
  ASSUME NEW j, Engine(j), NEW b, WellFormed(b), j.map[<<b.rip, b.mode>>] = 0,
         NEW u, u = Installed(j, b)
  PROVE  /\ Engine(u) /\ u.blocks = Append(j.blocks, b) /\ u.pending = j.pending
         /\ u.tlb = j.tlb /\ u.tlbLive = j.tlbLive /\ u.tlbGen = j.tlbGen
<1> DEFINE idx == Len(j.blocks) + 1
           key == <<b.rip, b.mode>>
           new == Line(b.rip, b.mode, idx, j.cacheGen)
           n == Len(b.code)
<1>a. EngineTyped(j) /\ b \in Blocks
  BY DEF Engine, WellFormed
<1>b. /\ j.blocks \in Seq(Blocks) /\ j.longest \in Nat /\ j.codePages \in SUBSET Nat /\ j.used \in Nat
      /\ j.cacheGen \in 1 .. GenWrap - 1 /\ j.map \in [Keys -> Nat]
      /\ j.lines \in [Lines -> [rip : Rips, mode : AnyMode, idx : Nat, gen : Nat]]
  BY <1>a DEF EngineTyped
<1>c. /\ b.rip \in Rips /\ b.mode \in Modes /\ b.code \in Seq(Insns)
      /\ b.page0 \in Nat /\ b.page1 \in Nat
  BY <1>a DEF Blocks
<1>d. n \in Nat /\ idx \in Nat \ {0} /\ key \in Keys /\ (b.code = <<>> => n = 0)
  BY <1>b, <1>c DEF Keys
<1>0. /\ EngineTyped(j) /\ j.blocks \in Seq(Blocks) /\ b \in Blocks /\ idx \in Nat \ {0}
      /\ j.map \in [Keys -> Nat] /\ j.longest \in Nat /\ j.codePages \in SUBSET Nat
      /\ b.rip \in Rips /\ b.mode \in Modes /\ n \in Nat /\ key \in Keys
      /\ j.cacheGen \in Nat
  BY <1>a, <1>b, <1>c, <1>d, JitAssumption
<1>1. LineOf(b.rip) \in Lines
  <2>1. b.rip \in Nat /\ NumLines \in Nat \ {0}
    BY <1>c, JitAssumption, MemoryAssumption DEF Rips
  <2> QED BY <2>1, Remainder DEF LineOf, Lines
<1>2. /\ u.blocks = Append(j.blocks, b)
      /\ u.map = [j.map EXCEPT ![key] = idx]
      /\ u.lines = [j.lines EXCEPT ![LineOf(b.rip)] = new]
      /\ u.used = j.used + n
      /\ u.longest = IF b.code # <<>> THEN Max({j.longest, n}) ELSE j.longest
      /\ u.codePages = IF b.code # <<>> THEN j.codePages \union {b.page0, b.page1} ELSE j.codePages
      /\ u.cacheGen = j.cacheGen /\ u.links = j.links /\ u.epoch = j.epoch /\ u.pending = j.pending
      /\ u.tlb = j.tlb /\ u.tlbLive = j.tlbLive /\ u.tlbGen = j.tlbGen
  BY <1>0 DEF Installed, EngineTyped
<1>e. u = [j EXCEPT !.blocks = u.blocks, !.map = u.map, !.lines = u.lines, !.used = u.used,
                      !.longest = u.longest, !.codePages = u.codePages]
  BY <1>a, <1>2 DEF Installed, EngineTyped
<1>5. /\ new \in [rip : Rips, mode : AnyMode, idx : Nat, gen : Nat]
      /\ new.rip = b.rip /\ new.mode = b.mode /\ new.idx = idx /\ new.gen = j.cacheGen
  <2>1. b.mode \in AnyMode
    BY <1>c, JitAssumption DEF AnyMode
  <2> HIDE DEF idx
  <2> QED BY <1>0, <2>1 DEF Line
<1> HIDE DEF idx, new, key, n
<1>3. /\ u.longest \in Nat /\ j.longest <= u.longest /\ n <= u.longest
      /\ j.codePages \subseteq u.codePages /\ u.codePages \in SUBSET Nat
      /\ b.code # <<>> => {b.page0, b.page1} \subseteq u.codePages
  <2>1. j.longest \in Int /\ n \in Int
    BY <1>0
  <2>2. Max({j.longest, n}) = IF j.longest >= n THEN j.longest ELSE n
    BY <2>1, MaxOfTwo
  <2> QED BY <1>0, <1>2, <1>c, <1>d, <2>2
<1>4. /\ u.blocks \in Seq(Blocks) /\ Len(u.blocks) = idx /\ u.blocks[idx] = b
      /\ \A i \in 1 .. Len(j.blocks) : u.blocks[i] = j.blocks[i] /\ i \in 1 .. Len(u.blocks)
      /\ \A i \in 1 .. Len(u.blocks) : i \in 1 .. Len(j.blocks) \/ i = idx
  BY <1>0, <1>2 DEF idx
<1>6. EngineTyped(u)
  <2>1. u.map \in [Keys -> Nat] /\ u.used \in Nat
    BY <1>b, <1>d, <1>2
  <2>2. u.lines \in [Lines -> [rip : Rips, mode : AnyMode, idx : Nat, gen : Nat]]
    BY <1>b, <1>1, <1>2, <1>5
  <2> QED BY <1>a, <1>e, <1>3, <1>4, <2>1, <2>2 DEF EngineTyped
<1>7. BlocksRight(u)
  <2> SUFFICES ASSUME NEW i \in 1 .. Len(u.blocks)
               PROVE  /\ WellFormed(u.blocks[i]) /\ Len(u.blocks[i].code) <= u.longest
                      /\ u.blocks[i].code # <<>> =>
                            {u.blocks[i].page0, u.blocks[i].page1} \subseteq u.codePages
    BY DEF BlocksRight
  <2>1. CASE i = idx
    BY <1>3, <1>4, <2>1 DEF n
  <2>2. CASE i \in 1 .. Len(j.blocks)
    <3>1. /\ WellFormed(j.blocks[i]) /\ Len(j.blocks[i].code) <= j.longest
          /\ j.blocks[i].code # <<>> =>
                {j.blocks[i].page0, j.blocks[i].page1} \subseteq j.codePages
      BY <2>2 DEF Engine, BlocksRight
    <3>2. Len(j.blocks[i].code) \in Nat
      <4>1. j.blocks[i].code \in Seq(Insns)
        BY <3>1 DEF WellFormed, Blocks
      <4> QED BY <4>1
    <3>3. u.blocks[i] = j.blocks[i]
      BY <1>4, <2>2
    <3> QED BY <1>0, <1>3, <3>1, <3>2, <3>3
  <2> QED BY <1>4, <2>1, <2>2
<1>8. MapRight(u)
  <2> SUFFICES ASSUME NEW k \in Keys, u.map[k] # 0
               PROVE  /\ u.map[k] \in 1 .. Len(u.blocks)
                      /\ u.blocks[u.map[k]].rip = k[1] /\ u.blocks[u.map[k]].mode = k[2]
    BY DEF MapRight
  <2>1. CASE k = key
    BY <1>0, <1>2, <1>4, <2>1 DEF key
  <2>2. CASE k # key
    <3>1. u.map[k] = j.map[k]
      BY <1>0, <1>2, <2>2
    <3> QED BY <1>4, <3>1 DEF Engine, MapRight
  <2> QED BY <2>1, <2>2
<1>9. LinesRight(u)
  <2> SUFFICES ASSUME NEW l \in Lines
               PROVE  /\ u.lines[l].gen <= u.cacheGen
                      /\ u.lines[l].gen = u.cacheGen =>
                            /\ <<u.lines[l].rip, u.lines[l].mode>> \in Keys
                            /\ u.lines[l].idx = u.map[<<u.lines[l].rip, u.lines[l].mode>>]
                            /\ u.lines[l].idx # 0
    BY DEF LinesRight
  <2>1. CASE l = LineOf(b.rip)
    <3>1. u.lines[l] = new
      BY <1>b, <1>1, <1>2, <2>1
    <3>2. u.map[key] = idx
      BY <1>0, <1>2
    <3>3. u.lines[l].rip = b.rip /\ u.lines[l].mode = b.mode /\ u.lines[l].idx = idx
          /\ u.lines[l].gen = j.cacheGen
      BY <1>5, <3>1
    <3>4. <<u.lines[l].rip, u.lines[l].mode>> = key
      BY <3>3 DEF key
    <3>5. u.lines[l].gen <= u.cacheGen
      BY <1>0, <1>2, <3>3
    <3>6. <<u.lines[l].rip, u.lines[l].mode>> \in Keys
      BY <1>0, <3>4
    <3>7. u.lines[l].idx = u.map[<<u.lines[l].rip, u.lines[l].mode>>]
      BY <3>2, <3>3, <3>4
    <3>8. u.lines[l].idx # 0
      BY <1>0, <3>3
    <3> QED BY <3>5, <3>6, <3>7, <3>8
  <2>2. CASE l # LineOf(b.rip)
    <3>1. u.lines[l] = j.lines[l]
      BY <1>0, <1>2, <2>2
    <3>2. /\ j.lines[l].gen <= j.cacheGen
          /\ j.lines[l].gen = j.cacheGen =>
                /\ <<j.lines[l].rip, j.lines[l].mode>> \in Keys
                /\ j.lines[l].idx = j.map[<<j.lines[l].rip, j.lines[l].mode>>]
                /\ j.lines[l].idx # 0
      BY DEF Engine, LinesRight
    <3>3. \A k \in Keys : j.map[k] # 0 => u.map[k] = j.map[k]
      BY <1>0, <1>2 DEF key
    <3> QED BY <1>2, <3>1, <3>2, <3>3
  <2> QED BY <2>1, <2>2
<1>10. \A s, mode, k : Joins(j, s, mode, k) => Joins(u, s, mode, k)
  BY <1>4 DEF Joins
<1>11. LinksRight(u)
  <2> SUFFICES ASSUME NEW s \in Slots
               PROVE  /\ u.links[s].epoch <= u.epoch
                      /\ u.links[s].epoch = u.epoch =>
                          /\ u.links[s].to \in 1 .. Len(u.blocks)
                          /\ u.blocks[u.links[s].to].code # <<>>
                          /\ u.blocks[u.links[s].to].rip = u.links[s].key
                          /\ Joins(u, s, u.blocks[u.links[s].to].mode, u.links[s].key)
    BY DEF LinksRight
  <2> QED BY <1>2, <1>4, <1>10 DEF Engine, LinksRight
<1>12. PendingRight(u)
  BY <1>2, <1>10 DEF Engine, PendingRight
<1> QED BY <1>2, <1>6, <1>7, <1>8, <1>9, <1>11, <1>12 DEF Engine

\* A block found in the map goes into its line.
LEMMA LineFilledIs ==
  ASSUME NEW j, Engine(j), NEW rip \in Rips, NEW mode \in Modes, j.map[<<rip, mode>>] # 0,
         NEW u, u = [j EXCEPT !.lines[LineOf(rip)] = Line(rip, mode, j.map[<<rip, mode>>], j.cacheGen)]
  PROVE  /\ Engine(u) /\ u.blocks = j.blocks /\ u.pending = j.pending
         /\ u.tlb = j.tlb /\ u.tlbLive = j.tlbLive /\ u.tlbGen = j.tlbGen
<1> DEFINE key == <<rip, mode>>
           new == Line(rip, mode, j.map[key], j.cacheGen)
<1>a. EngineTyped(j) /\ key \in Keys
  BY DEF Engine, Keys
<1>0. /\ EngineTyped(j) /\ key \in Keys /\ j.cacheGen \in Nat /\ j.map[key] \in Nat
      /\ j.lines \in [Lines -> [rip : Rips, mode : AnyMode, idx : Nat, gen : Nat]]
  <2>1. /\ j.map \in [Keys -> Nat] /\ j.cacheGen \in 1 .. GenWrap - 1
        /\ j.lines \in [Lines -> [rip : Rips, mode : AnyMode, idx : Nat, gen : Nat]]
    BY <1>a DEF EngineTyped
  <2> QED BY <1>a, <2>1, JitAssumption
<1>1. LineOf(rip) \in Lines
  <2>1. rip \in Nat /\ NumLines \in Nat \ {0}
    BY JitAssumption, MemoryAssumption DEF Rips
  <2> QED BY <2>1, Remainder DEF LineOf, Lines
<1>2. /\ new \in [rip : Rips, mode : AnyMode, idx : Nat, gen : Nat]
      /\ new.rip = rip /\ new.mode = mode /\ new.idx = j.map[key] /\ new.gen = j.cacheGen
  <2>1. mode \in AnyMode
    BY JitAssumption DEF AnyMode
  <2> HIDE DEF key
  <2> QED BY <1>0, <2>1 DEF Line
<1>3. /\ u.lines = [j.lines EXCEPT ![LineOf(rip)] = new]
      /\ u.map = j.map /\ u.blocks = j.blocks /\ u.longest = j.longest /\ u.codePages = j.codePages
      /\ u.cacheGen = j.cacheGen /\ u.links = j.links /\ u.epoch = j.epoch /\ u.pending = j.pending
      /\ u.tlb = j.tlb /\ u.tlbLive = j.tlbLive /\ u.tlbGen = j.tlbGen
  BY <1>0 DEF EngineTyped
<1>4. u = [j EXCEPT !.lines = u.lines]
  BY <1>0, <1>3 DEF EngineTyped
<1> HIDE DEF new
<1>5. EngineTyped(u)
  <2>1. u.lines \in [Lines -> [rip : Rips, mode : AnyMode, idx : Nat, gen : Nat]]
    BY <1>0, <1>1, <1>2, <1>3
  <2> QED BY <1>0, <1>4, <2>1 DEF EngineTyped
<1>6. LinesRight(u)
  <2> SUFFICES ASSUME NEW l \in Lines
               PROVE  /\ u.lines[l].gen <= u.cacheGen
                      /\ u.lines[l].gen = u.cacheGen =>
                            /\ <<u.lines[l].rip, u.lines[l].mode>> \in Keys
                            /\ u.lines[l].idx = u.map[<<u.lines[l].rip, u.lines[l].mode>>]
                            /\ u.lines[l].idx # 0
    BY DEF LinesRight
  <2>1. CASE l = LineOf(rip)
    <3>1. u.lines[l] = new
      BY <1>0, <1>1, <1>3, <2>1
    <3>2. <<u.lines[l].rip, u.lines[l].mode>> = key
      BY <3>1, <1>2
    <3>3. u.lines[l].gen <= u.cacheGen /\ u.lines[l].idx = u.map[key] /\ u.map[key] # 0
      BY <1>0, <1>2, <1>3, <3>1
    <3> QED BY <1>0, <3>2, <3>3
  <2>2. CASE l # LineOf(rip)
    <3>1. u.lines[l] = j.lines[l]
      BY <1>0, <1>3, <2>2
    <3> QED BY <1>3, <3>1 DEF Engine, LinesRight
  <2> QED BY <2>1, <2>2
<1>7. BlocksRight(u) /\ MapRight(u) /\ LinksRight(u) /\ PendingRight(u)
  <2>1. BlocksRight(u)
    BY <1>3 DEF Engine, BlocksRight
  <2>2. MapRight(u)
    BY <1>3 DEF Engine, MapRight
  <2>3. LinksRight(u)
    BY <1>3 DEF Engine, LinksRight, Joins
  <2>4. PendingRight(u)
    BY <1>3 DEF Engine, PendingRight, Joins
  <2> QED BY <2>1, <2>2, <2>3, <2>4
<1> QED BY <1>3, <1>5, <1>6, <1>7 DEF Engine

\* What a lookup may do to the engine: the block it finds is the one asked
\* for, and every block is an old one or the one memory holds now.
Looks(j, m, rip, mode, r) ==
    /\ Engine(r.jit) /\ r.jit.pending \in {j.pending, Nothing}
    /\ r.jit.tlb = j.tlb /\ r.jit.tlbLive = j.tlbLive /\ r.jit.tlbGen = j.tlbGen
    /\ r.idx \in 1 .. Len(r.jit.blocks)
    /\ r.jit.blocks[r.idx].rip = rip /\ r.jit.blocks[r.idx].mode = mode
OldOrNew(j, m, rip, mode, b) ==
    b = NewBlock(m, rip, mode) \/ \E i \in 1 .. Len(j.blocks) : b = j.blocks[i]

LEMMA BlockAtIs ==
  ASSUME NEW j, Engine(j), NEW m \in Memories, NEW rip \in Rips, NEW mode \in Modes,
         NEW r, r = BlockAt(j, m, rip, mode)
  PROVE  /\ Looks(j, m, rip, mode, r) /\ r = [jit |-> r.jit, idx |-> r.idx]
         /\ \A i \in 1 .. Len(r.jit.blocks) : OldOrNew(j, m, rip, mode, r.jit.blocks[i])
         /\ (\A l \in Lines : j.lines[l].gen # j.cacheGen) /\ j.map = [k \in Keys |-> 0]
               => r.jit.blocks[r.idx] = NewBlock(m, rip, mode)
<1> DEFINE key == <<rip, mode>>
           l == j.lines[LineOf(rip)]
           b == NewBlock(m, rip, mode)
           room == IF j.used + Len(b.code) > Capacity THEN Flush(j) ELSE j
<1>0. key \in Keys /\ EngineTyped(j)
  BY DEF Keys, Engine
<1>1. LineOf(rip) \in Lines
  <2>1. rip \in Nat /\ NumLines \in Nat \ {0}
    BY JitAssumption, MemoryAssumption DEF Rips
  <2> QED BY <2>1, Remainder DEF LineOf, Lines
<1>a. \A i \in 1 .. Len(j.blocks) : OldOrNew(j, m, rip, mode, j.blocks[i])
  BY DEF OldOrNew
<1>2. CASE l.gen = j.cacheGen /\ l.rip = rip /\ l.mode = mode
  <2>1. r = [jit |-> j, idx |-> l.idx]
    BY <1>2 DEF BlockAt
  <2>2. l.idx = j.map[key] /\ l.idx # 0
    BY <1>1, <1>2 DEF Engine, LinesRight
  <2>3. r.idx \in 1 .. Len(j.blocks) /\ j.blocks[r.idx].rip = rip /\ j.blocks[r.idx].mode = mode
    BY <1>0, <2>1, <2>2 DEF Engine, MapRight
  <2> QED BY <1>1, <1>2, <1>a, <2>1, <2>3 DEF Looks
<1>3. CASE ~(l.gen = j.cacheGen /\ l.rip = rip /\ l.mode = mode) /\ j.map[key] # 0
  <2> DEFINE u == [j EXCEPT !.lines[LineOf(rip)] = Line(rip, mode, j.map[key], j.cacheGen)]
  <2>1. r = [jit |-> u, idx |-> j.map[key]]
    BY <1>3 DEF BlockAt
  <2>2. /\ Engine(u) /\ u.blocks = j.blocks /\ u.pending = j.pending
        /\ u.tlb = j.tlb /\ u.tlbLive = j.tlbLive /\ u.tlbGen = j.tlbGen
    BY <1>3, LineFilledIs
  <2> HIDE DEF u
  <2>3. r.idx \in 1 .. Len(j.blocks) /\ j.blocks[r.idx].rip = rip /\ j.blocks[r.idx].mode = mode
    BY <1>0, <1>3, <2>1 DEF Engine, MapRight
  <2> QED BY <1>0, <1>3, <1>a, <2>1, <2>2, <2>3 DEF Looks
<1>4. CASE ~(l.gen = j.cacheGen /\ l.rip = rip /\ l.mode = mode) /\ j.map[key] = 0
  <2> DEFINE u == Installed(room, b)
  <2>1. r = [jit |-> u, idx |-> Len(room.blocks) + 1]
    BY <1>4 DEF BlockAt
  <2>2. /\ Engine(room) /\ room.map[key] = 0 /\ room.pending \in {j.pending, Nothing}
        /\ room.tlb = j.tlb /\ room.tlbLive = j.tlbLive /\ room.tlbGen = j.tlbGen
        /\ room.blocks = j.blocks \/ room.blocks = <<>>
    <3>1. CASE j.used + Len(b.code) > Capacity
      <4>1. room = Flush(j)
        BY <3>1
      <4> HIDE DEF room
      <4> QED BY <1>0, <4>1, FlushIs
    <3>2. CASE ~(j.used + Len(b.code) > Capacity)
      BY <1>4, <3>2
    <3> QED BY <3>1, <3>2
  <2>3. WellFormed(b) /\ b.rip = rip /\ b.mode = mode
    BY NewBlockIs
  <2> HIDE DEF room, b
  <2>4. /\ Engine(u) /\ u.blocks = Append(room.blocks, b) /\ u.pending = room.pending
        /\ u.tlb = room.tlb /\ u.tlbLive = room.tlbLive /\ u.tlbGen = room.tlbGen
    BY <2>2, <2>3, InstalledIs
  <2> HIDE DEF u
  <2>5. room.blocks \in Seq(Blocks)
    BY <2>2 DEF Engine, EngineTyped
  <2>6. /\ Len(u.blocks) = Len(room.blocks) + 1 /\ Len(u.blocks) \in 1 .. Len(u.blocks)
        /\ u.blocks[Len(room.blocks) + 1] = b
        /\ \A i \in 1 .. Len(u.blocks) :
              i \in 1 .. Len(room.blocks) \/ i = Len(room.blocks) + 1
        /\ \A i \in 1 .. Len(room.blocks) : u.blocks[i] = room.blocks[i]
    <3>1. b \in Blocks
      BY <2>3 DEF WellFormed
    <3> QED BY <2>4, <2>5, <3>1
  <2>7. \A i \in 1 .. Len(u.blocks) : OldOrNew(j, m, rip, mode, u.blocks[i])
    <3>1. CASE room.blocks = j.blocks
      BY <2>6, <3>1 DEF OldOrNew, b
    <3>2. CASE room.blocks = <<>>
      BY <2>6, <3>2 DEF OldOrNew, b
    <3> QED BY <2>2, <3>1, <3>2
  <2> QED BY <2>1, <2>2, <2>3, <2>4, <2>6, <2>7, SMTT(20) DEF Looks, b
<1> QED BY <1>2, <1>3, <1>4

LEMMA SameExits ==
  ASSUME NEW a, NEW b, a.rip = b.rip, a.code = b.code
  PROVE  LinkExits(a) = LinkExits(b)
  BY DEF LinkExits

\* Validating a block only marks it as seen at this generation.
LEMMA MarkedIs ==
  ASSUME NEW j, Engine(j), NEW i \in 1 .. Len(j.blocks), NEW g \in Nat,
         NEW u, u = [j EXCEPT !.blocks[i].global = g]
  PROVE  /\ Engine(u) /\ u.pending = j.pending
         /\ u.tlb = j.tlb /\ u.tlbLive = j.tlbLive /\ u.tlbGen = j.tlbGen
         /\ Len(u.blocks) = Len(j.blocks) /\ u.blocks[i] = [j.blocks[i] EXCEPT !.global = g]
         /\ \A k \in 1 .. Len(j.blocks) : k # i => u.blocks[k] = j.blocks[k]
<1> DEFINE b == [j.blocks[i] EXCEPT !.global = g]
<1>0. EngineTyped(j) /\ j.blocks \in Seq(Blocks) /\ j.blocks[i] \in Blocks
  BY DEF Engine, EngineTyped
<1>1. /\ u.blocks = [j.blocks EXCEPT ![i] = b]
      /\ u.lines = j.lines
      /\ u.map = j.map /\ u.longest = j.longest /\ u.codePages = j.codePages
      /\ u.cacheGen = j.cacheGen /\ u.links = j.links /\ u.epoch = j.epoch /\ u.pending = j.pending
      /\ u.tlb = j.tlb /\ u.tlbLive = j.tlbLive /\ u.tlbGen = j.tlbGen
  BY <1>0 DEF EngineTyped
<1>2. u = [j EXCEPT !.blocks = u.blocks]
  BY <1>0, <1>1 DEF EngineTyped
<1>3. /\ b \in Blocks /\ b.rip = j.blocks[i].rip /\ b.mode = j.blocks[i].mode
      /\ b.code = j.blocks[i].code /\ b.page0 = j.blocks[i].page0 /\ b.page1 = j.blocks[i].page1
  BY <1>0 DEF Blocks
<1> HIDE DEF b
<1>4. /\ u.blocks \in Seq(Blocks) /\ Len(u.blocks) = Len(j.blocks) /\ u.blocks[i] = b
      /\ \A k \in 1 .. Len(j.blocks) : k # i => u.blocks[k] = j.blocks[k]
  <2>1. /\ [j.blocks EXCEPT ![i] = b] \in Seq(Blocks)
        /\ Len([j.blocks EXCEPT ![i] = b]) = Len(j.blocks)
        /\ \A k \in 1 .. Len(j.blocks) :
              [j.blocks EXCEPT ![i] = b][k] = IF k = i THEN b ELSE j.blocks[k]
    BY <1>0, <1>3, ExceptSeq
  <2> QED BY <1>1, <2>1
<1>5. \A k \in 1 .. Len(u.blocks) :
         /\ u.blocks[k].rip = j.blocks[k].rip /\ u.blocks[k].mode = j.blocks[k].mode
         /\ u.blocks[k].code = j.blocks[k].code
         /\ u.blocks[k].page0 = j.blocks[k].page0 /\ u.blocks[k].page1 = j.blocks[k].page1
         /\ u.blocks[k] \in Blocks
  BY <1>3, <1>4
<1>6. EngineTyped(u)
  BY <1>0, <1>2, <1>4 DEF EngineTyped
<1>7. \A k \in 1 .. Len(u.blocks) : LinkExits(u.blocks[k]) = LinkExits(j.blocks[k])
  <2> SUFFICES ASSUME NEW k \in 1 .. Len(u.blocks)
               PROVE  LinkExits(u.blocks[k]) = LinkExits(j.blocks[k])
    OBVIOUS
  <2>1. u.blocks[k].rip = j.blocks[k].rip /\ u.blocks[k].code = j.blocks[k].code
    BY <1>5
  <2> QED BY <2>1, SameExits
<1>8. BlocksRight(u)
  <2>1. \A k \in 1 .. Len(u.blocks) : WellFormed(j.blocks[k]) => WellFormed(u.blocks[k])
    BY <1>5 DEF WellFormed
  <2> QED BY <1>1, <1>4, <1>5, <2>1, SMTT(20) DEF Engine, BlocksRight
<1>9. MapRight(u) /\ LinesRight(u)
  BY <1>1, <1>4, <1>5 DEF Engine, MapRight, LinesRight
<1>10. \A s, mode, k : Joins(j, s, mode, k) => Joins(u, s, mode, k)
  BY <1>4, <1>5, <1>7 DEF Joins
<1>11. LinksRight(u)
  <2> SUFFICES ASSUME NEW s \in Slots
               PROVE  /\ u.links[s].epoch <= u.epoch
                      /\ u.links[s].epoch = u.epoch =>
                          /\ u.links[s].to \in 1 .. Len(u.blocks)
                          /\ u.blocks[u.links[s].to].code # <<>>
                          /\ u.blocks[u.links[s].to].rip = u.links[s].key
                          /\ Joins(u, s, u.blocks[u.links[s].to].mode, u.links[s].key)
    BY DEF LinksRight
  <2>1. /\ j.links[s].epoch <= j.epoch
        /\ j.links[s].epoch = j.epoch =>
              /\ j.links[s].to \in 1 .. Len(j.blocks)
              /\ j.blocks[j.links[s].to].code # <<>>
              /\ j.blocks[j.links[s].to].rip = j.links[s].key
              /\ Joins(j, s, j.blocks[j.links[s].to].mode, j.links[s].key)
    BY DEF Engine, LinksRight
  <2>2. ASSUME u.links[s].epoch = u.epoch
        PROVE  /\ u.links[s].to \in 1 .. Len(u.blocks)
               /\ u.blocks[u.links[s].to].code # <<>>
               /\ u.blocks[u.links[s].to].rip = u.links[s].key
               /\ Joins(u, s, u.blocks[u.links[s].to].mode, u.links[s].key)
    <3>1. u.links[s].to \in 1 .. Len(u.blocks)
      BY <1>1, <1>4, <2>1, <2>2
    <3>2. /\ u.blocks[u.links[s].to].code = j.blocks[j.links[s].to].code
          /\ u.blocks[u.links[s].to].rip = j.blocks[j.links[s].to].rip
          /\ u.blocks[u.links[s].to].mode = j.blocks[j.links[s].to].mode
      BY <1>1, <1>5, <3>1
    <3> QED BY <1>1, <1>10, <2>1, <2>2, <3>1, <3>2
  <2> QED BY <1>1, <2>1, <2>2
<1>12. PendingRight(u)
  BY <1>1, <1>10 DEF Engine, PendingRight
<1> QED BY <1>12, <1>1, <1>4, <1>6, <1>8, <1>9, <1>11 DEF Engine, b

\* The lookup from Rust: the block found is valid, and so was every other
\* one it marked.
Marked(j, m, rip, mode, b) ==
    \E c : /\ OldOrNew(j, m, rip, mode, c)
           /\ b = c \/ (Valid(c, m) /\ b = [c EXCEPT !.global = m.codeGen])

LEMMA LookedIs ==
  ASSUME NEW j, Engine(j), NEW m \in Memories, NEW rip \in Rips, NEW mode \in Modes,
         NEW r, r = Looked(j, m, rip, mode)
  PROVE  /\ Looks(j, m, rip, mode, r) /\ Valid(r.jit.blocks[r.idx], m)
         /\ \A i \in 1 .. Len(r.jit.blocks) : Marked(j, m, rip, mode, r.jit.blocks[i])
<1> DEFINE found == BlockAt(j, m, rip, mode)
           b == found.jit.blocks[found.idx]
           new == NewBlock(m, rip, mode)
<1>0. m.codeGen \in Nat
  BY DEF Memories
<1>1. /\ Looks(j, m, rip, mode, found) /\ found = [jit |-> found.jit, idx |-> found.idx]
      /\ \A i \in 1 .. Len(found.jit.blocks) : OldOrNew(j, m, rip, mode, found.jit.blocks[i])
  BY BlockAtIs
<1>2. r = IF Valid(b, m) THEN [found EXCEPT !.jit.blocks[found.idx].global = m.codeGen]
          ELSE BlockAt(Flush(found.jit), m, rip, mode)
  BY DEF Looked
<1> HIDE DEF found
<1>3. CASE Valid(b, m)
  <2> DEFINE u == [found.jit EXCEPT !.blocks[found.idx].global = m.codeGen]
  <2>1. r.jit = u /\ r.idx = found.idx
    BY <1>1, <1>2, <1>3
  <2>2. /\ Engine(u) /\ u.pending = found.jit.pending
        /\ u.tlb = found.jit.tlb /\ u.tlbLive = found.jit.tlbLive /\ u.tlbGen = found.jit.tlbGen
        /\ Len(u.blocks) = Len(found.jit.blocks)
        /\ u.blocks[found.idx] = [b EXCEPT !.global = m.codeGen]
        /\ \A k \in 1 .. Len(found.jit.blocks) : k # found.idx => u.blocks[k] = found.jit.blocks[k]
    BY <1>0, <1>1, MarkedIs DEF Looks
  <2> HIDE DEF u
  <2>3. b \in Blocks
    <3>1. found.jit.blocks \in Seq(Blocks) /\ found.idx \in 1 .. Len(found.jit.blocks)
      BY <1>1 DEF Looks, Engine, EngineTyped
    <3> QED BY <3>1
  <2>4. /\ [b EXCEPT !.global = m.codeGen].global = m.codeGen
        /\ [b EXCEPT !.global = m.codeGen].rip = b.rip
        /\ [b EXCEPT !.global = m.codeGen].mode = b.mode
    BY <2>3 DEF Blocks
  <2>5. Valid(r.jit.blocks[r.idx], m)
    BY <2>1, <2>2, <2>4 DEF Valid
  <2>6. Looks(j, m, rip, mode, r)
    BY <1>1, <2>1, <2>2, <2>4 DEF Looks
  <2>7. \A i \in 1 .. Len(r.jit.blocks) : Marked(j, m, rip, mode, r.jit.blocks[i])
    <3> SUFFICES ASSUME NEW i \in 1 .. Len(r.jit.blocks) PROVE Marked(j, m, rip, mode, r.jit.blocks[i])
      OBVIOUS
    <3>1. OldOrNew(j, m, rip, mode, found.jit.blocks[i])
      BY <1>1, <2>1, <2>2
    <3>2. \/ r.jit.blocks[i] = found.jit.blocks[i]
          \/ Valid(found.jit.blocks[i], m)
             /\ r.jit.blocks[i] = [found.jit.blocks[i] EXCEPT !.global = m.codeGen]
      BY <1>3, <2>1, <2>2
    <3> QED BY <3>1, <3>2 DEF Marked
  <2> QED BY <2>5, <2>6, <2>7
<1>4. CASE ~Valid(b, m)
  <2> DEFINE f == Flush(found.jit)
  <2>1. /\ Engine(f) /\ f.pending = Nothing /\ f.blocks = <<>> /\ f.map = [k \in Keys |-> 0]
        /\ f.tlb = found.jit.tlb /\ f.tlbLive = found.jit.tlbLive /\ f.tlbGen = found.jit.tlbGen
        /\ \A l \in Lines : f.lines[l].gen # f.cacheGen
    BY <1>1, FlushIs DEF Looks
  <2>2. r = BlockAt(f, m, rip, mode)
    BY <1>2, <1>4
  <2> HIDE DEF f
  <2>3. /\ Looks(f, m, rip, mode, r) /\ r.jit.blocks[r.idx] = new
        /\ \A i \in 1 .. Len(r.jit.blocks) : OldOrNew(f, m, rip, mode, r.jit.blocks[i])
    BY <2>1, <2>2, BlockAtIs
  <2>4. Looks(j, m, rip, mode, r)
    BY <1>1, <2>1, <2>3 DEF Looks
  <2>5. \A i \in 1 .. Len(r.jit.blocks) : Marked(j, m, rip, mode, r.jit.blocks[i])
    <3>1. Len(f.blocks) = 0
      BY <2>1
    <3>2. \A i \in 1 .. Len(r.jit.blocks) : r.jit.blocks[i] = new
      BY <2>3, <3>1 DEF OldOrNew
    <3> QED BY <3>2 DEF OldOrNew, Marked
  <2>6. Valid(new, m)
    BY DEF Valid, NewBlock
  <2> QED BY <2>3, <2>4, <2>5, <2>6
<1> QED BY <1>3, <1>4

\* What waits to be linked may change, and the table of host pages may.
LEMMA PendingIs ==
  ASSUME NEW j, Engine(j), NEW p \in [slot : Nat \X Nat, rip : Rips, mode : AnyMode],
         p # Nothing => p.slot \in Slots /\ Joins(j, p.slot, p.mode, p.rip),
         NEW u, u = [j EXCEPT !.pending = p]
  PROVE  /\ Engine(u) /\ u.blocks = j.blocks /\ u.longest = j.longest
         /\ u.epoch = j.epoch /\ u.codePages = j.codePages
         /\ u.tlb = j.tlb /\ u.tlbLive = j.tlbLive /\ u.tlbGen = j.tlbGen
<1>0. EngineTyped(j)
  BY DEF Engine
<1>1. /\ u.blocks = j.blocks /\ u.map = j.map /\ u.lines = j.lines /\ u.cacheGen = j.cacheGen
      /\ u.longest = j.longest /\ u.codePages = j.codePages /\ u.links = j.links
      /\ u.epoch = j.epoch /\ u.pending = p
      /\ u.tlb = j.tlb /\ u.tlbLive = j.tlbLive /\ u.tlbGen = j.tlbGen
  BY <1>0 DEF EngineTyped
<1>2. EngineTyped(u)
  BY <1>0 DEF EngineTyped
<1>3. BlocksRight(u) /\ MapRight(u) /\ LinesRight(u) /\ LinksRight(u)
  BY <1>1 DEF Engine, BlocksRight, MapRight, LinesRight, LinksRight, Joins
<1>4. PendingRight(u)
  BY <1>1 DEF PendingRight, Joins
<1> QED BY <1>1, <1>2, <1>3, <1>4 DEF Engine

LEMMA NothingIs ==
  Nothing \in [slot : Nat \X Nat, rip : Rips, mode : AnyMode]
  BY MemoryAssumption DEF Nothing, Rips, AnyMode

LEMMA HostPagesIs ==
  ASSUME NEW j, Engine(j), NEW u,
         u = [j EXCEPT !.tlb = u.tlb, !.tlbLive = u.tlbLive, !.tlbGen = u.tlbGen],
         u.tlb \in [Pages -> Nat], u.tlbLive \in BOOLEAN, u.tlbGen \in Nat
  PROVE  /\ Engine(u) /\ u.blocks = j.blocks /\ u.longest = j.longest
         /\ u.epoch = j.epoch /\ u.codePages = j.codePages /\ u.pending = j.pending
<1>0. EngineTyped(j)
  BY DEF Engine
<1>1. /\ u.blocks = j.blocks /\ u.map = j.map /\ u.lines = j.lines /\ u.cacheGen = j.cacheGen
      /\ u.longest = j.longest /\ u.codePages = j.codePages /\ u.links = j.links
      /\ u.epoch = j.epoch /\ u.pending = j.pending /\ u.used = j.used
  BY <1>0 DEF EngineTyped
<1>2. EngineTyped(u)
  BY <1>0, ZenonT(20) DEF EngineTyped
<1>3. BlocksRight(u) /\ MapRight(u) /\ LinesRight(u) /\ LinksRight(u) /\ PendingRight(u)
  <2>1. BlocksRight(u)
    BY <1>1 DEF Engine, BlocksRight
  <2>2. MapRight(u)
    BY <1>1 DEF Engine, MapRight
  <2>3. LinesRight(u)
    BY <1>1 DEF Engine, LinesRight
  <2>4. LinksRight(u)
    BY <1>1 DEF Engine, LinksRight, Joins
  <2>5. PendingRight(u)
    BY <1>1 DEF Engine, PendingRight, Joins
  <2> QED BY <2>1, <2>2, <2>3, <2>4, <2>5
<1> QED BY <1>1, <1>2, <1>3 DEF Engine

\* Filling the slot that waits with the block found for its address and mode.
LEMMA FilledIs ==
  ASSUME NEW j, Engine(j), NEW idx \in 1 .. Len(j.blocks), j.blocks[idx].code # <<>>,
         NEW u, u = Filled(j, j.blocks[idx].rip, j.blocks[idx].mode, idx)
  PROVE  /\ Engine(u) /\ u.blocks = j.blocks /\ u.longest = j.longest /\ u.epoch = j.epoch
         /\ u.tlb = j.tlb /\ u.tlbLive = j.tlbLive /\ u.tlbGen = j.tlbGen
<1> DEFINE rip == j.blocks[idx].rip
           mode == j.blocks[idx].mode
           p == j.pending
           fits == p # Nothing /\ p.mode = mode /\ p.rip = rip
           new == [epoch |-> j.epoch, key |-> rip, to |-> idx]
<1>0. EngineTyped(j) /\ WellFormed(j.blocks[idx])
  BY DEF Engine, BlocksRight
<1>1. /\ u.blocks = j.blocks /\ u.map = j.map /\ u.lines = j.lines /\ u.cacheGen = j.cacheGen
      /\ u.longest = j.longest /\ u.codePages = j.codePages /\ u.pending = Nothing
      /\ u.epoch = j.epoch /\ u.tlb = j.tlb /\ u.tlbLive = j.tlbLive /\ u.tlbGen = j.tlbGen
      /\ u.links = IF fits THEN [j.links EXCEPT ![p.slot] = new] ELSE j.links
  BY <1>0 DEF Filled, EngineTyped
<1>2. u = [j EXCEPT !.links = u.links, !.pending = Nothing]
  BY <1>0, <1>1 DEF Filled, EngineTyped
<1>3. j.epoch \in Nat /\ idx \in Nat /\ rip \in Rips
      /\ j.links \in [Slots -> [epoch : Nat, key : Rips, to : Nat]]
  <2>1. j.epoch \in 1 .. EpochDead - 1 /\ j.links \in [Slots -> [epoch : Nat, key : Rips, to : Nat]]
    BY <1>0 DEF EngineTyped
  <2>2. rip \in Rips
    BY <1>0 DEF WellFormed, Blocks
  <2> QED BY <2>1, <2>2, JitAssumption
<1>4. /\ new \in [epoch : Nat, key : Rips, to : Nat]
      /\ new.epoch = j.epoch /\ new.key = rip /\ new.to = idx
  BY <1>3
<1> HIDE DEF new, fits
<1>5. u.links \in [Slots -> [epoch : Nat, key : Rips, to : Nat]]
  <2>1. CASE fits
    <3>1. u.links = [j.links EXCEPT ![p.slot] = new]
      BY <1>1, <2>1
    <3> QED BY <1>3, <1>4, <3>1, ZenonT(20)
  <2>2. CASE ~fits
    BY <1>1, <1>3, <2>2
  <2> QED BY <2>1, <2>2
<1>6. EngineTyped(u)
  BY <1>0, <1>2, <1>5, NothingIs DEF EngineTyped
<1>7. BlocksRight(u) /\ MapRight(u) /\ LinesRight(u) /\ PendingRight(u)
  <2>1. BlocksRight(u)
    BY <1>1 DEF Engine, BlocksRight
  <2>2. MapRight(u)
    BY <1>1 DEF Engine, MapRight
  <2>3. LinesRight(u)
    BY <1>1 DEF Engine, LinesRight
  <2>4. PendingRight(u)
    BY <1>1 DEF PendingRight
  <2> QED BY <2>1, <2>2, <2>3, <2>4
<1>8. \A s, md, k : Joins(u, s, md, k) = Joins(j, s, md, k)
  BY <1>1 DEF Joins
<1>9. fits => p.slot \in Slots /\ Joins(j, p.slot, mode, rip)
  BY DEF fits, Engine, PendingRight
<1>10. LinksRight(u)
  <2> SUFFICES ASSUME NEW s \in Slots
               PROVE  /\ u.links[s].epoch <= u.epoch
                      /\ u.links[s].epoch = u.epoch =>
                          /\ u.links[s].to \in 1 .. Len(u.blocks)
                          /\ u.blocks[u.links[s].to].code # <<>>
                          /\ u.blocks[u.links[s].to].rip = u.links[s].key
                          /\ Joins(u, s, u.blocks[u.links[s].to].mode, u.links[s].key)
    BY DEF LinksRight
  <2>1. /\ j.links[s].epoch <= j.epoch
        /\ j.links[s].epoch = j.epoch =>
              /\ j.links[s].to \in 1 .. Len(j.blocks)
              /\ j.blocks[j.links[s].to].code # <<>>
              /\ j.blocks[j.links[s].to].rip = j.links[s].key
              /\ Joins(j, s, j.blocks[j.links[s].to].mode, j.links[s].key)
    BY DEF Engine, LinksRight
  <2>2. CASE fits /\ s = p.slot
    <3>1. u.links[s] = new
      BY <1>1, <1>3, <2>2
    <3>2. Joins(u, s, mode, rip)
      BY <1>8, <1>9, <2>2
    <3> QED BY <1>1, <1>3, <1>4, <3>1, <3>2, SMTT(20)
  <2>3. CASE ~(fits /\ s = p.slot)
    <3>1. u.links[s] = j.links[s]
      BY <1>1, <1>3, <2>3
    <3> QED BY <1>1, <1>8, <2>1, <3>1
  <2> QED BY <2>2, <2>3
<1> QED BY <1>1, <1>6, <1>7, <1>10 DEF Engine

-----------------------------------------------------------------------------
(* The specification's steps.                                              *)

LEMMA NewJitIs == Engine(NewJit) /\ NewJit.tlbGen = 0 /\ ~NewJit.tlbLive
<1>0. EngineTyped(NewJit)
  <2>1. EmptySlot \in [epoch : Nat, key : Rips, to : Nat]
    BY MemoryAssumption DEF EmptySlot, Rips
  <2>2. EmptyLine \in [rip : Rips, mode : AnyMode, idx : Nat, gen : Nat]
    BY MemoryAssumption DEF EmptyLine, Rips, AnyMode
  <2>3. 1 \in 1 .. EpochDead - 1 /\ 1 \in 1 .. GenWrap - 1
    BY JitAssumption
  <2> QED BY <2>1, <2>2, <2>3, NothingIs DEF NewJit, EngineTyped
<1>1. /\ NewJit.blocks = <<>> /\ NewJit.map = [k \in Keys |-> 0] /\ NewJit.pending = Nothing
      /\ NewJit.epoch = 1 /\ NewJit.cacheGen = 1
      /\ \A s \in Slots : NewJit.links[s].epoch = 0
      /\ \A l \in Lines : NewJit.lines[l].gen = 0
      /\ NewJit.tlbGen = 0 /\ ~NewJit.tlbLive
  BY DEF NewJit, EmptySlot, EmptyLine
<1> QED BY <1>0, <1>1 DEF Engine, BlocksRight, MapRight, LinesRight, LinksRight, PendingRight

\* A store of n addresses from a changes no byte but theirs, and one that is
\* noticed moves the generation of all its pages and of no other.
Spares(m, u, a, n) == \A x \in Addr : x # a /\ (n = 2 => x # a + 1) => u.bytes[x] = m.bytes[x]
Moves(m, u, a, n) ==
    /\ u.codeGen = m.codeGen + 1
    /\ \A p \in Pages : u.pageGen[p] = IF p \in PageOf(a) .. PageOf(a + n - 1)
                                       THEN m.pageGen[p] + 1 ELSE m.pageGen[p]

\* What memory operations leave as it was.
LEMMA StoredIs ==
  ASSUME NEW m \in Memories, NEW a \in Addr, NEW n \in {1, 2}, NEW v \in Insns,
         NEW u, u = Stored(m, a, n, v)
  PROVE  /\ u \in Memories /\ u.perm = m.perm /\ u.backing = m.backing
         /\ u.layoutGen = m.layoutGen /\ u.pageGen = m.pageGen /\ u.codeGen = m.codeGen
         /\ Spares(m, u, a, n)
<1>1. /\ u.bytes = [b \in Addr |-> IF b \in a .. a + n - 1 THEN v ELSE m.bytes[b]]
      /\ u.perm = m.perm /\ u.backing = m.backing
      /\ u.layoutGen = m.layoutGen /\ u.pageGen = m.pageGen /\ u.codeGen = m.codeGen
  BY DEF Stored, Memories
<1>2. u.bytes \in [Addr -> Insns]
  BY <1>1 DEF Memories
<1>3. u = [m EXCEPT !.bytes = u.bytes]
  BY <1>1 DEF Stored, Memories
<1>4. u \in Memories
  BY <1>2, <1>3 DEF Memories
<1>5. \A b \in Addr : b # a /\ (n = 2 => b # a + 1) => b \notin a .. a + n - 1
  BY MemoryAssumption DEF Addr
<1>6. Spares(m, u, a, n)
  BY <1>1, <1>5 DEF Spares
<1> QED BY <1>1, <1>4, <1>6

LEMMA WrittenIs ==
  ASSUME NEW m \in Memories, NEW a \in Addr, NEW n \in {1, 2}, NEW v \in Insns,
         NEW u, u = Written(m, a, n, v)
  PROVE  /\ u \in Memories /\ u.perm = m.perm /\ u.backing = m.backing
         /\ u.layoutGen = m.layoutGen /\ Spares(m, u, a, n)
         /\ "X" \in m.perm[RegionAt(a)] => Moves(m, u, a, n)
         /\ "X" \notin m.perm[RegionAt(a)] => u.codeGen = m.codeGen /\ u.pageGen = m.pageGen
<1> DEFINE s == Stored(m, a, n, v)
<1>1. /\ s \in Memories /\ s.perm = m.perm /\ s.backing = m.backing
      /\ s.layoutGen = m.layoutGen /\ s.pageGen = m.pageGen /\ s.codeGen = m.codeGen
      /\ Spares(m, s, a, n)
  BY StoredIs
<1>2. u = IF "X" \in m.perm[RegionAt(a)] THEN NoteCodeWrite(s, a, n) ELSE s
  BY DEF Written
<1> HIDE DEF s
<1>3. CASE "X" \in m.perm[RegionAt(a)]
  <2>1. /\ u.bytes = s.bytes /\ u.perm = s.perm /\ u.backing = s.backing
        /\ u.layoutGen = s.layoutGen /\ u.codeGen = s.codeGen + 1
        /\ u.pageGen = [p \in Pages |-> IF p \in PageOf(a) .. PageOf(a + n - 1)
                                        THEN s.pageGen[p] + 1 ELSE s.pageGen[p]]
    BY <1>1, <1>2, <1>3 DEF NoteCodeWrite, Memories
  <2>2. u.pageGen \in [Pages -> Nat] /\ u.codeGen \in Nat
    BY <1>1, <2>1 DEF Memories
  <2>3. u = [s EXCEPT !.codeGen = u.codeGen, !.pageGen = u.pageGen]
    BY <1>1, <1>2, <1>3, <2>1 DEF NoteCodeWrite, Memories
  <2>4. u \in Memories
    BY <1>1, <2>2, <2>3 DEF Memories
  <2>5. Spares(m, u, a, n) /\ Moves(m, u, a, n)
    BY <1>1, <2>1 DEF Spares, Moves
  <2> QED BY <1>1, <1>3, <2>1, <2>4, <2>5
<1>4. CASE "X" \notin m.perm[RegionAt(a)]
  BY <1>1, <1>2, <1>4
<1> QED BY <1>3, <1>4

LEMMA LayoutIs ==
  ASSUME NEW m \in Memories, NEW r, NEW q \in SUBSET (RWX \union Unmapped), NEW u,
         u = Protected(m, r, q) \/ u = Freed(m, r) \/ u = Mapped(m, r, q)
  PROVE  u \in Memories /\ u.layoutGen = m.layoutGen + 1
<1>1. /\ m.perm \in [Regions -> SUBSET (RWX \union Unmapped)] /\ m.layoutGen \in Nat
      /\ m.backing \in [Regions -> Nat] /\ m.bytes \in [Addr -> Insns]
  BY DEF Memories
<1> DEFINE perm(x) == [m.perm EXCEPT ![r] = x]
           backing == [m.backing EXCEPT ![r] = @ + 1]
           bytes == [a \in Addr |-> IF RegionAt(a) = r THEN Zero ELSE m.bytes[a]]
           g == m.layoutGen + 1
<1>5. \A x \in SUBSET (RWX \union Unmapped) :
         perm(x) \in [Regions -> SUBSET (RWX \union Unmapped)]
  BY <1>1
<1>6. /\ g \in Nat /\ bytes \in [Addr -> Insns] /\ backing \in [Regions -> Nat]
      /\ Unmapped \in SUBSET (RWX \union Unmapped)
  <2>1. bytes \in [Addr -> Insns]
    BY <1>1, MemoryAssumption
  <2>2. backing \in [Regions -> Nat]
    <3>1. CASE r \in Regions
      <4>1. m.backing[r] + 1 \in Nat
        BY <1>1, <3>1
      <4> QED BY <1>1, <4>1
    <3>2. CASE r \notin Regions
      BY <1>1, <3>2
    <3> QED BY <3>1, <3>2
  <2>3. g \in Nat
    BY <1>1
  <2> QED BY <2>1, <2>2, <2>3
<1>2. CASE u = Protected(m, r, q)
  <2>1. u = [m EXCEPT !.perm = perm(q), !.layoutGen = g]
    BY <1>2 DEF Protected, Memories
  <2>2. perm(q) \in [Regions -> SUBSET (RWX \union Unmapped)]
    BY <1>5
  <2> HIDE DEF g, perm
  <2>3. u \in Memories /\ u.layoutGen = g
    BY <1>6, <2>1, <2>2 DEF Memories
  <2> QED BY <2>3 DEF g
<1>3. CASE u = Freed(m, r)
  <2>1. u = [m EXCEPT !.perm = perm(Unmapped), !.layoutGen = g]
    BY <1>3 DEF Freed, Memories
  <2>2. perm(Unmapped) \in [Regions -> SUBSET (RWX \union Unmapped)]
    BY <1>5, <1>6
  <2> HIDE DEF g, perm
  <2>3. u \in Memories /\ u.layoutGen = g
    BY <1>6, <2>1, <2>2 DEF Memories
  <2> QED BY <2>3 DEF g
<1>4. CASE u = Mapped(m, r, q)
  <2>1. u = [m EXCEPT !.perm = perm(q), !.backing = backing, !.layoutGen = g, !.bytes = bytes]
    BY <1>4 DEF Mapped, Memories
  <2>2. perm(q) \in [Regions -> SUBSET (RWX \union Unmapped)]
    BY <1>5
  <2> HIDE DEF g, perm, backing, bytes
  <2>3. u \in Memories /\ u.layoutGen = g
    BY <1>6, <2>1, <2>2 DEF Memories
  <2> QED BY <2>3 DEF g
<1> QED BY <1>2, <1>3, <1>4

LEMMA SameHostPages ==
  ASSUME NEW j, NEW m, NEW u, u.perm = m.perm, u.backing = m.backing, TlbRight(j, m)
  PROVE  TlbRight(j, u)
  BY DEF TlbRight, HostSpan

PendingType == [slot : Nat \X Nat, rip : Rips, mode : AnyMode]

LEMMA TlbKept ==
  ASSUME TlbInv, call.phase # "out", TlbRight(jit', ram'), ram'.layoutGen = ram.layoutGen,
         jit'.tlbLive = jit.tlbLive, jit'.tlbGen = jit.tlbGen
  PROVE  TlbInv'
  BY DEF TlbInv, TlbKnown

\* In compiled code the table is current.
LEMMA TlbInNative ==
  ASSUME CacheInv, call.phase # "out"
  PROVE  TlbRight(jit, ram)
  BY DEF CacheInv, TlbInv

LEMMA ComesBackIs ==
  ASSUME CacheInv, call.phase = "native",
         NEW j, Engine(j), j.blocks = jit.blocks, TlbRight(j, ram'),
         j.tlbLive = jit.tlbLive, j.tlbGen = jit.tlbGen,
         NEW n, NEW total \in Nat, NEW rip \in Rips, NEW p \in PendingType,
         p # Nothing => p.slot \in Slots /\ Joins(j, p.slot, p.mode, p.rip),
         NEW fault \in BOOLEAN, ComesBack(j, n, total, rip, p, fault),
         ram' \in Memories, ram'.layoutGen = ram.layoutGen
  PROVE  CacheInv' /\ jit'.blocks = jit.blocks /\ call'.phase # "native"
<1> DEFINE q == [j EXCEPT !.pending = p]
<1>1. /\ Engine(q) /\ q.blocks = j.blocks
      /\ q.tlb = j.tlb /\ q.tlbLive = j.tlbLive /\ q.tlbGen = j.tlbGen
  BY PendingIs DEF PendingType
<1>2. /\ jit' = q \/ jit' = UnlinkAll(q)
      /\ \/ call' = Idle("step") \/ call' = Idle("jit")
         \/ call' = [call EXCEPT !.phase = "loop", !.retired = total]
      /\ cpu' = [cpu EXCEPT !.rip = rip] /\ native' = NoNative
  BY DEF ComesBack
<1> HIDE DEF q
<1>3. /\ Engine(jit') /\ jit'.blocks = j.blocks
      /\ jit'.tlb = j.tlb /\ jit'.tlbLive = j.tlbLive /\ jit'.tlbGen = j.tlbGen
  <2>1. CASE jit' = q
    BY <1>1, <2>1
  <2>2. CASE jit' = UnlinkAll(q)
    <3>1. EngineTyped(q) /\ \A s \in Slots : q.links[s].epoch <= q.epoch
      BY <1>1 DEF Engine, LinksRight
    <3>2. /\ jit'.blocks = q.blocks /\ jit'.tlb = q.tlb
          /\ jit'.tlbLive = q.tlbLive /\ jit'.tlbGen = q.tlbGen
      BY <2>2, <3>1, UnlinkAllIs
    <3>3. Engine(jit')
      BY <1>1, <2>2, UnlinkAllKeeps
    <3> QED BY <1>1, <3>2, <3>3
  <2> QED BY <1>2, <2>1, <2>2
<1>4. Typed' /\ call'.phase # "native"
  <2>1. cpu' \in [rip : Rips, mode : Modes]
    BY <1>2 DEF CacheInv, Typed
  <2>2. /\ call' \in [phase : {"out", "loop", "native"}, due : {"jit", "step"},
                      budget : Nat, retired : Nat]
        /\ call'.phase # "native"
    <3> DEFINE Calls == [phase : {"out", "loop", "native"}, due : {"jit", "step"},
                         budget : Nat, retired : Nat]
    <3>1. call \in Calls
      BY DEF CacheInv, Typed
    <3>2. CASE call' = Idle("step") \/ call' = Idle("jit")
      BY <3>2 DEF Idle
    <3>3. CASE call' = [call EXCEPT !.phase = "loop", !.retired = total]
      BY <3>1, <3>3
    <3> QED BY <1>2, <3>2, <3>3
  <2>3. native' \in [blk : Nat, pc : Nat, epoch : Nat, limit : Nat, smc : Nat, hits : 0 .. 2]
    BY <1>2 DEF NoNative
  <2> QED BY <2>1, <2>2, <2>3 DEF Typed
<1>5. TlbInv'
  <2>1. TlbRight(jit', ram')
    BY <1>3 DEF TlbRight
  <2> QED BY <1>3, <2>1, TlbKept DEF CacheInv
<1>6. InBlock'
  BY <1>4 DEF InBlock
<1> QED BY <1>3, <1>4, <1>5, <1>6 DEF CacheInv

\* Compiled code is inside a block.
LEMMA InCode ==
  ASSUME CacheInv, call.phase = "native"
  PROVE  /\ WellFormed(Running) /\ Len(Running.code) \in Nat \ {0}
         /\ native.blk \in 1 .. Len(jit.blocks) /\ native.blk \in Nat
         /\ native.pc \in 1 .. Len(Running.code) + 1
         /\ Running.mode = cpu.mode /\ cpu.mode \in AnyMode
         /\ \A n \in 0 .. Len(Running.code) : Running.rip + n \in Rips
         /\ \A n \in 0 .. Len(Running.code) - 1 : Running.rip + n \in Addr
<1>1. /\ native.blk \in 1 .. Len(jit.blocks) /\ Running.mode = cpu.mode
      /\ native.pc \in 1 .. Len(Running.code) + 1 /\ Running.code # <<>>
  BY DEF CacheInv, InBlock
<1>2. WellFormed(Running) /\ native.blk \in Nat /\ cpu.mode \in AnyMode
  BY <1>1, JitAssumption DEF CacheInv, Engine, BlocksRight, Running, Typed, AnyMode
<1> DEFINE b == Running
<1>3. b.code \in Seq(Insns) /\ b.rip \in Rips /\ b.rip + Len(b.code) \in Rips
  BY <1>2 DEF WellFormed, Blocks
<1> HIDE DEF b
<1>4. Len(b.code) \in Nat /\ (Len(b.code) = 0 => b.code = <<>>)
  BY <1>3
<1>5. /\ \A n \in 0 .. Len(b.code) : b.rip + n \in Rips
      /\ \A n \in 0 .. Len(b.code) - 1 : b.rip + n \in Addr
  BY <1>3, <1>4, MemoryAssumption, SMTT(20) DEF Rips, Addr
<1> QED BY <1>1, <1>2, <1>4, <1>5 DEF b

LEMMA LeaveByLinkIs ==
  ASSUME CacheInv, call.phase = "native",
         NEW k \in 1 .. Len(LinkExits(Running)), NEW rip \in Rips,
         LinkExits(Running)[k] \in {rip, Indirect},
         LeaveByLink(k, rip), UNCHANGED ram
  PROVE  CacheInv' /\ jit'.blocks = jit.blocks
<1> DEFINE total == call.retired + Len(Running.code)
           slot == <<native.blk, k>>
           link == jit.links[slot]
           p == [slot |-> slot, rip |-> rip, mode |-> cpu.mode]
           exit == LinkExits(Running)[k]
<1>0. /\ Engine(jit) /\ Typed /\ InBlock /\ TlbInv /\ TlbRight(jit, ram) /\ ram \in Memories
  BY TlbInNative DEF CacheInv, Typed
<1>1. /\ WellFormed(Running) /\ Len(Running.code) \in Nat \ {0} /\ native.blk \in 1 .. Len(jit.blocks)
      /\ native.blk \in Nat /\ Running.mode = cpu.mode /\ cpu.mode \in AnyMode
  BY InCode
<1>2. total \in Nat /\ total <= call.budget
  BY <1>0, <1>1, SMTT(20) DEF Typed, InBlock
<1>3. k \in Nat /\ k \in DOMAIN LinkExits(Running)
  <2>1. Len(LinkExits(Running)) \in Nat /\ DOMAIN LinkExits(Running) = 1 .. Len(LinkExits(Running))
    BY <1>1, ExitsAre DEF MaxLinks
  <2> QED BY <2>1
<1>4. CASE slot \notin Slots
  <2>1. ComesBack(jit, native, total, rip, Nothing, FALSE)
    BY <1>4 DEF LeaveByLink
  <2> HIDE DEF total
  <2> QED BY <1>0, <1>2, <2>1, NothingIs, ComesBackIs DEF PendingType
<1>5. CASE slot \in Slots /\ ~FollowsLink(link, total, rip, exit)
  <2>1. ComesBack(jit, native, total, rip, p, FALSE)
    BY <1>5 DEF LeaveByLink
  <2>2. p \in PendingType /\ p.slot = slot /\ p.mode = cpu.mode /\ p.rip = rip
    BY <1>1, <1>3 DEF PendingType
  <2>3. slot[1] = native.blk /\ slot[2] = k
    OBVIOUS
  <2> HIDE DEF total, p, slot
  <2>4. Joins(jit, p.slot, p.mode, p.rip)
    BY <1>1, <1>3, <2>2, <2>3 DEF Joins, Running
  <2> QED BY <1>0, <1>2, <1>5, <2>1, <2>2, <2>4, ComesBackIs
<1>6. CASE slot \in Slots /\ FollowsLink(link, total, rip, exit)
  <2>1. /\ native' = [native EXCEPT !.blk = link.to, !.pc = 1]
        /\ call' = [call EXCEPT !.retired = total]
        /\ cpu' = [cpu EXCEPT !.rip = rip]
        /\ jit' = jit
    BY <1>6 DEF LeaveByLink
  <2>2. /\ total < native.limit /\ link.epoch = native.epoch
        /\ (exit = Indirect => link.key = rip)
    BY <1>6 DEF FollowsLink
  <2>3. slot[1] = native.blk /\ slot[2] = k
    OBVIOUS
  <2> HIDE DEF total, slot
  <2>4. jit.epoch \in Nat /\ jit.epoch < EpochDead /\ link.epoch <= jit.epoch /\ link.to \in Nat
        /\ link.epoch \in Nat /\ EpochDead \in Nat
    <3>1. /\ jit.epoch \in 1 .. EpochDead - 1
          /\ jit.links \in [Slots -> [epoch : Nat, key : Rips, to : Nat]]
      BY <1>0 DEF Engine, EngineTyped
    <3> QED BY <1>0, <1>6, <3>1, JitAssumption DEF Engine, LinksRight
  <2>5. native.epoch \in {jit.epoch, EpochDead}
    BY <1>0 DEF InBlock
  <2>6. link.epoch = jit.epoch
    BY <2>2, <2>4, <2>5
  <2>7. /\ link.to \in 1 .. Len(jit.blocks) /\ jit.blocks[link.to].code # <<>>
        /\ jit.blocks[link.to].rip = link.key
        /\ Joins(jit, slot, jit.blocks[link.to].mode, link.key)
    BY <1>0, <1>6, <2>6 DEF Engine, LinksRight
  <2>8. jit.blocks[link.to].mode = cpu.mode
    BY <1>1, <2>3, <2>7 DEF Joins, Running
  <2> DEFINE c == jit.blocks[link.to].code
  <2>9. WellFormed(jit.blocks[link.to]) /\ Len(c) <= jit.longest /\ Len(c) \in Nat \ {0}
    <3>1. WellFormed(jit.blocks[link.to]) /\ Len(c) <= jit.longest
      BY <1>0, <2>7 DEF Engine, BlocksRight
    <3>2. c \in Seq(Insns)
      BY <3>1 DEF WellFormed, Blocks
    <3> QED BY <2>7, <3>1, <3>2
  <2>10. total + Len(c) <= call.budget
    <3>1. jit.longest \in Nat /\ call.budget \in Nat
      BY <1>0 DEF Engine, EngineTyped, Typed
    <3>2. native.limit = Max({0, call.budget + 1 - jit.longest})
      BY <1>0 DEF InBlock
    <3>3. Max({0, call.budget + 1 - jit.longest}) =
             IF 0 >= call.budget + 1 - jit.longest THEN 0 ELSE call.budget + 1 - jit.longest
      BY <3>1, MaxOfTwo
    <3> HIDE DEF c
    <3>4. CASE call.budget + 1 - jit.longest <= 0
      BY <1>2, <2>2, <3>1, <3>2, <3>3, <3>4
    <3>5. CASE call.budget + 1 - jit.longest > 0
      <4>1. native.limit = call.budget + 1 - jit.longest
        BY <3>1, <3>2, <3>3, <3>5
      <4>2. total < call.budget + 1 - jit.longest
        BY <2>2, <4>1
      <4> QED BY <1>2, <2>9, <3>1, <4>2
    <3> QED BY <3>1, <3>4, <3>5
  <2>11. /\ native'.blk = link.to /\ native'.pc = 1 /\ native'.epoch = native.epoch
         /\ native'.limit = native.limit
         /\ call'.phase = "native" /\ call'.budget = call.budget /\ call'.retired = total
         /\ cpu'.mode = cpu.mode /\ Running' = jit.blocks[link.to]
    BY <1>0, <2>1 DEF Typed, Running
  <2> HIDE DEF c
  <2>12. InBlock'
    <3>1. /\ Running'.code = c /\ Running'.mode = cpu.mode
      BY <2>8, <2>11 DEF c
    <3>2. native'.pc \in 1 .. Len(c) + 1 /\ ~(native'.pc > Len(c)) /\ c # <<>>
      <4>1. Len(c) \in Nat \ {0} /\ native'.pc = 1
        BY <2>9, <2>11
      <4>2. c # <<>>
        BY <2>7 DEF c
      <4>3. 1 \in 1 .. Len(c) + 1 /\ ~(1 > Len(c))
        BY <4>1
      <4> QED BY <4>1, <4>2, <4>3
    <3>3. native'.limit = Max({0, call'.budget + 1 - jit'.longest}) /\ native'.epoch \in {jit'.epoch, EpochDead}
      BY <1>0, <2>1, <2>11 DEF InBlock
    <3> QED BY <2>1, <2>7, <2>10, <2>11, <3>1, <3>2, <3>3 DEF InBlock
  <2>13. Typed'
    <3>1. native' \in [blk : Nat, pc : Nat, epoch : Nat, limit : Nat, smc : Nat, hits : 0 .. 2]
      BY <1>0, <2>1, <2>4 DEF Typed
    <3>2. cpu' \in [rip : Rips, mode : Modes]
      BY <1>0, <2>1 DEF Typed
    <3>3. call' \in [phase : {"out", "loop", "native"}, due : {"jit", "step"},
                     budget : Nat, retired : Nat]
      BY <1>0, <1>2, <2>1 DEF Typed
    <3> QED BY <1>0, <3>1, <3>2, <3>3 DEF Typed
  <2>14. TlbInv'
    BY <1>0, <2>1, TlbKept DEF TlbRight
  <2> QED BY <1>0, <2>1, <2>12, <2>13, <2>14 DEF CacheInv
<1> QED BY <1>4, <1>5, <1>6

Calls == [phase : {"out", "loop", "native"}, due : {"jit", "step"}, budget : Nat, retired : Nat]
Natives == [blk : Nat, pc : Nat, epoch : Nat, limit : Nat, smc : Nat, hits : 0 .. 2]

LEMMA IdleIs ==
  ASSUME NEW due \in {"jit", "step"}
  PROVE  Idle(due) \in Calls /\ Idle(due).phase = "out"
  BY DEF Idle, Calls

LEMMA InitIs == Init => CacheInv
<1> SUFFICES ASSUME Init PROVE CacheInv
  OBVIOUS
<1>1. /\ ram \in Memories /\ cpu \in [rip : Addr, mode : Modes]
      /\ jit = NewJit /\ call = Idle("jit") /\ native = NoNative
  BY JitAssumption DEF Init
<1>2. Typed
  <2>1. cpu \in [rip : Rips, mode : Modes]
    BY <1>1, MemoryAssumption DEF Addr, Rips
  <2>2. native \in Natives
    BY <1>1 DEF NoNative, Natives
  <2> QED BY <1>1, <2>1, <2>2, IdleIs DEF Typed, Calls, Natives
<1>3. ram.layoutGen \in Nat
  BY <1>1 DEF Memories
<1> QED BY <1>1, <1>2, <1>3, IdleIs, NewJitIs DEF CacheInv, InBlock, TlbInv, TlbKnown

\* Outside compiled code the invariant is about the engine and the memory.
LEMMA OutsideIs ==
  ASSUME CacheInv, UNCHANGED native, Engine(jit'), cpu' \in [rip : Rips, mode : Modes],
         call' \in Calls, call'.phase # "native", ram' \in Memories,
         jit'.tlbGen <= ram'.layoutGen, TlbKnown(jit', ram') => TlbRight(jit', ram'),
         call'.phase # "out" => TlbKnown(jit', ram')
  PROVE  CacheInv'
<1>1. Typed'
  BY DEF CacheInv, Typed, Calls
<1> QED BY <1>1 DEF CacheInv, InBlock, TlbInv

LEMMA EnterKeeps == CacheInv /\ Enter => CacheInv'
<1> SUFFICES ASSUME CacheInv, Enter PROVE CacheInv'
  OBVIOUS
<1>0. Engine(jit) /\ EngineTyped(jit) /\ Typed /\ TlbInv /\ ram.layoutGen \in Nat
  BY DEF CacheInv, Engine, Typed, Memories
<1>1. call' \in Calls /\ call'.phase = "loop"
  BY JitAssumption DEF Enter, Calls
<1>2. Engine(jit') /\ TlbKnown(jit', ram) /\ TlbRight(jit', ram)
  <2>1. CASE jit.tlbLive /\ jit.tlbGen = ram.layoutGen
    <3>1. jit' = jit
      BY <2>1 DEF Enter, TlbChecked
    <3> QED BY <1>0, <2>1, <3>1 DEF TlbInv, TlbKnown
  <2>2. CASE ~(jit.tlbLive /\ jit.tlbGen = ram.layoutGen)
    <3> DEFINE none == [p \in Pages |-> 0]
    <3>1. jit' = [jit EXCEPT !.tlb = none, !.tlbLive = TRUE, !.tlbGen = ram.layoutGen]
      BY <2>2 DEF Enter, TlbChecked
    <3>2. none \in [Pages -> Nat] /\ \A p \in Pages : none[p] = 0
      OBVIOUS
    <3> HIDE DEF none
    <3>3. jit'.tlb = none /\ jit'.tlbLive /\ jit'.tlbLive \in BOOLEAN /\ jit'.tlbGen = ram.layoutGen
      BY <1>0, <3>1 DEF EngineTyped
    <3>4. jit' = [jit EXCEPT !.tlb = jit'.tlb, !.tlbLive = jit'.tlbLive, !.tlbGen = jit'.tlbGen]
      BY <1>0, <3>1, <3>3 DEF EngineTyped
    <3>5. Engine(jit')
      BY <1>0, <3>2, <3>3, <3>4, HostPagesIs
    <3> QED BY <3>2, <3>3, <3>5 DEF TlbKnown, TlbRight
  <2> QED BY <2>1, <2>2
<1>3. UNCHANGED <<ram, cpu, native>>
  BY DEF Enter
<1> QED BY <1>0, <1>1, <1>2, <1>3, OutsideIs DEF Typed, TlbKnown

LEMMA InterpretOnlyKeeps == CacheInv /\ InterpretOnly => CacheInv'
<1> SUFFICES ASSUME CacheInv, InterpretOnly PROVE CacheInv'
  OBVIOUS
<1>1. call' = Idle("step") /\ UNCHANGED <<ram, cpu, jit, native>>
  BY DEF InterpretOnly
<1> QED BY <1>1, IdleIs, OutsideIs DEF CacheInv, Typed, TlbInv, Idle

LEMMA DispatchKeeps == CacheInv /\ Dispatch => CacheInv'
<1> SUFFICES ASSUME CacheInv, Dispatch PROVE CacheInv'
  OBVIOUS
<1> DEFINE r == Looked(jit, ram, cpu.rip, cpu.mode)
           b == r.jit.blocks[r.idx]
           j == Filled(r.jit, cpu.rip, cpu.mode, r.idx)
<1>0. /\ Engine(jit) /\ TlbInv /\ TlbKnown(jit, ram) /\ TlbRight(jit, ram) /\ Typed
      /\ ram \in Memories /\ cpu.rip \in Rips /\ cpu.mode \in Modes
      /\ call \in Calls /\ call.phase = "loop"
  BY DEF CacheInv, TlbInv, Typed, Calls, Dispatch
<1>1. /\ Engine(r.jit) /\ r.idx \in 1 .. Len(r.jit.blocks)
      /\ b.rip = cpu.rip /\ b.mode = cpu.mode
      /\ r.jit.tlb = jit.tlb /\ r.jit.tlbLive = jit.tlbLive /\ r.jit.tlbGen = jit.tlbGen
  BY <1>0, LookedIs DEF Looks
<1>2. /\ UNCHANGED <<ram, cpu>>
      /\ \/ /\ jit' = [r.jit EXCEPT !.pending = Nothing] /\ call' = Idle("step") /\ UNCHANGED native
         \/ b.code # <<>> /\ jit' = j /\ call' = Idle("step") /\ UNCHANGED native
         \/ /\ b.code # <<>> /\ call.retired + Len(b.code) <= call.budget
            /\ jit' = j /\ call' = [call EXCEPT !.phase = "native"] /\ native' = Entered(j, r.idx)
  BY DEF Dispatch
<1>3. b.code # <<>> =>
         /\ Engine(j) /\ j.blocks = r.jit.blocks /\ j.epoch = r.jit.epoch
         /\ j.longest = r.jit.longest
         /\ j.tlb = jit.tlb /\ j.tlbLive = jit.tlbLive /\ j.tlbGen = jit.tlbGen
  BY <1>1, FilledIs
<1>4. /\ Engine([r.jit EXCEPT !.pending = Nothing])
      /\ [r.jit EXCEPT !.pending = Nothing].tlb = jit.tlb
      /\ [r.jit EXCEPT !.pending = Nothing].tlbLive = jit.tlbLive
      /\ [r.jit EXCEPT !.pending = Nothing].tlbGen = jit.tlbGen
  BY <1>1, NothingIs, PendingIs
<1> HIDE DEF r, j
<1>5. /\ Engine(jit') /\ jit'.tlb = jit.tlb /\ jit'.tlbLive = jit.tlbLive /\ jit'.tlbGen = jit.tlbGen
  BY <1>2, <1>3, <1>4
<1>6. TlbInv' /\ TlbRight(jit', ram') /\ TlbKnown(jit', ram') /\ jit'.tlbGen <= ram'.layoutGen
  BY <1>0, <1>2, <1>5 DEF TlbInv, TlbKnown, TlbRight
<1>7. CASE call' = Idle("step") /\ UNCHANGED native
  BY <1>0, <1>2, <1>5, <1>6, <1>7, IdleIs, OutsideIs DEF Typed
<1>8. CASE /\ b.code # <<>> /\ call.retired + Len(b.code) <= call.budget
           /\ jit' = j /\ call' = [call EXCEPT !.phase = "native"] /\ native' = Entered(j, r.idx)
  <2>1. /\ call' \in Calls /\ call'.phase = "native"
        /\ call'.budget = call.budget /\ call'.retired = call.retired /\ call.budget \in Nat
    BY <1>0, <1>8 DEF Calls
  <2>2. r.idx \in Nat /\ j.epoch \in Nat /\ j.longest \in Nat /\ Len(b.code) \in Nat \ {0}
    <3>1. j.epoch \in 1 .. EpochDead - 1 /\ j.longest \in Nat /\ j.blocks \in Seq(Blocks)
      BY <1>3, <1>8 DEF Engine, EngineTyped
    <3>2. b \in Blocks
      BY <1>1, <1>3, <1>8, <3>1
    <3>3. b.code \in Seq(Insns)
      BY <3>2 DEF Blocks
    <3> HIDE DEF b
    <3>4. Len(b.code) \in Nat \ {0}
      BY <1>8, <3>3
    <3>5. r.idx \in Nat /\ j.epoch \in Nat
      BY <1>1, <3>1, JitAssumption
    <3> QED BY <3>1, <3>4, <3>5
  <2>3. Max({0, call.budget + 1 - j.longest}) \in Nat
    BY <2>1, <2>2, MaxOfTwo
  <2>4. /\ native'.blk = r.idx /\ native'.pc = 1 /\ native'.epoch = j.epoch
        /\ native'.limit = Max({0, call.budget + 1 - j.longest}) /\ native' \in Natives
    BY <1>8, <2>2, <2>3 DEF Entered, Natives
  <2>5. Typed'
    BY <1>0, <1>2, <2>1, <2>4 DEF Typed, Calls, Natives
  <2>6. Running' = b
    BY <1>3, <1>8, <2>4 DEF Running
  <2> HIDE DEF b
  <2>7. native'.pc \in 1 .. Len(b.code) + 1 /\ ~(native'.pc > Len(b.code))
    BY <2>2, <2>4
  <2>8. native'.blk \in 1 .. Len(jit'.blocks) /\ b.mode = cpu'.mode
    BY <1>1, <1>2, <1>3, <1>8, <2>4
  <2>9. /\ native'.limit = Max({0, call'.budget + 1 - jit'.longest})
        /\ call'.retired + Len(b.code) <= call'.budget /\ native'.epoch \in {jit'.epoch, EpochDead}
    BY <1>8, <2>1, <2>4
  <2>10. InBlock'
    BY <1>8, <2>6, <2>7, <2>8, <2>9 DEF InBlock
  <2> QED BY <1>5, <1>6, <2>5, <2>10 DEF CacheInv
<1> QED BY <1>2, <1>7, <1>8

\* In compiled code: on to the next instruction of the block.
LEMMA AdvanceIs ==
  ASSUME CacheInv, AtInsn, ~Terminates(Insn), UNCHANGED <<cpu, call>>,
         Engine(jit'), jit'.blocks = jit.blocks, jit'.epoch = jit.epoch, jit'.longest = jit.longest,
         TlbRight(jit', ram'), jit'.tlbLive = jit.tlbLive, jit'.tlbGen = jit.tlbGen,
         ram' \in Memories, ram'.layoutGen = ram.layoutGen,
         native' \in Natives, native'.blk = native.blk, native'.pc = native.pc + 1,
         native'.limit = native.limit, native'.epoch \in {native.epoch, EpochDead}
  PROVE  CacheInv'
<1>0. /\ call.phase = "native" /\ native.pc <= Len(Running.code) /\ Typed /\ InBlock
  BY DEF CacheInv, AtInsn
<1>1. /\ Len(Running.code) \in Nat \ {0} /\ native.pc \in 1 .. Len(Running.code) + 1
  BY <1>0, InCode
<1>2. Typed'
  BY <1>0 DEF Typed, Natives
<1>3. Running' = Running
  BY DEF Running
<1>4. /\ native'.pc \in 1 .. Len(Running.code) + 1
      /\ native'.pc > Len(Running.code) => ~Terminates(Running.code[Len(Running.code)])
  <2>1. native'.pc > Len(Running.code) => native.pc = Len(Running.code)
    BY <1>0, <1>1
  <2> QED BY <1>0, <1>1, <2>1 DEF Insn
<1>5. InBlock'
  BY <1>0, <1>3, <1>4 DEF InBlock
<1>6. TlbInv'
  BY <1>0, TlbKept DEF CacheInv
<1> QED BY <1>2, <1>5, <1>6 DEF CacheInv

LEMMA NativePlainKeeps == CacheInv /\ NativePlain => CacheInv'
<1> SUFFICES ASSUME CacheInv, NativePlain PROVE CacheInv'
  OBVIOUS
<1>1. /\ AtInsn /\ Insn.op = "plain" /\ native' = [native EXCEPT !.pc = @ + 1]
      /\ UNCHANGED <<ram, cpu, jit, call>> /\ ~Terminates(Insn)
  BY DEF NativePlain, Terminates
<1>2. Engine(jit) /\ TlbRight(jit, ram) /\ ram \in Memories /\ native \in Natives
  BY <1>1, TlbInNative DEF CacheInv, Typed, Natives, AtInsn
<1>3. /\ native' \in Natives /\ native'.blk = native.blk /\ native'.pc = native.pc + 1
      /\ native'.limit = native.limit /\ native'.epoch = native.epoch
  BY <1>1, <1>2 DEF Natives
<1>4. TlbRight(jit', ram')
  BY <1>1, <1>2 DEF TlbRight
<1> QED BY <1>1, <1>2, <1>3, <1>4, AdvanceIs

LEMMA NativeBranchKeeps == CacheInv /\ NativeBranch => CacheInv' /\ jit'.blocks = jit.blocks
<1> SUFFICES ASSUME CacheInv, NativeBranch PROVE CacheInv' /\ jit'.blocks = jit.blocks
  OBVIOUS
<1>1. call.phase = "native" /\ UNCHANGED ram
  BY DEF NativeBranch, AtInsn
<1>2. PICK k \in 1 .. Len(LinkExits(Running)) :
         \E rip \in IF LinkExits(Running)[k] = Indirect THEN Targets ELSE {LinkExits(Running)[k]} :
             LeaveByLink(k, rip)
  BY DEF NativeBranch
<1>3. PICK rip \in IF LinkExits(Running)[k] = Indirect THEN Targets ELSE {LinkExits(Running)[k]} :
         LeaveByLink(k, rip)
  BY <1>2
<1>4. WellFormed(Running)
  BY <1>1, InCode
<1>5. LinkExits(Running) \in Seq(Rips \union {Indirect})
  BY <1>4, ExitsAre
<1>6. rip \in Rips /\ LinkExits(Running)[k] \in {rip, Indirect}
  <2>1. LinkExits(Running)[k] \in Rips \union {Indirect}
    BY <1>5
  <2>2. Targets \subseteq Rips
    BY JitAssumption, MemoryAssumption DEF Rips, Addr
  <2> QED BY <1>3, <2>1, <2>2
<1> QED BY <1>1, <1>3, <1>6, LeaveByLinkIs

LEMMA NativeEndKeeps == CacheInv /\ NativeEnd => CacheInv' /\ jit'.blocks = jit.blocks
<1> SUFFICES ASSUME CacheInv, NativeEnd PROVE CacheInv' /\ jit'.blocks = jit.blocks
  OBVIOUS
<1> DEFINE n == Len(Running.code)
<1>1. call.phase = "native" /\ native.pc > n /\ UNCHANGED ram
  BY DEF NativeEnd
<1>2. /\ WellFormed(Running) /\ n \in Nat \ {0} /\ Running.rip + n \in Rips
      /\ Running.code # <<>> /\ ~Terminates(Running.code[n]) /\ call.retired \in Nat
      /\ Engine(jit) /\ TlbRight(jit, ram) /\ ram \in Memories
  <2>1. \A i \in 0 .. n : Running.rip + i \in Rips
    BY <1>1, InCode
  <2>2. WellFormed(Running) /\ n \in Nat \ {0}
    BY <1>1, InCode
  <2>3. Running.code # <<>> /\ ~Terminates(Running.code[n])
    BY <1>1 DEF CacheInv, InBlock
  <2> QED BY <1>1, <2>1, <2>2, <2>3, TlbInNative DEF CacheInv, Typed
<1>3. CASE n = MaxInsns
  <2>1. LinkExits(Running) = <<Running.rip + n>>
    BY <1>2, <1>3, ExitsAre
  <2>2. LeaveByLink(1, Running.rip + n)
    BY <1>3 DEF NativeEnd
  <2> HIDE DEF n
  <2>3. 1 \in 1 .. Len(LinkExits(Running)) /\ LinkExits(Running)[1] = Running.rip + n
    BY <2>1
  <2> QED BY <1>1, <1>2, <2>2, <2>3, LeaveByLinkIs
<1>4. CASE n # MaxInsns
  <2>1. ComesBack(jit, native, call.retired + n, Running.rip + n, Nothing, FALSE)
    BY <1>4 DEF NativeEnd
  <2>2. call.retired + n \in Nat /\ Nothing \in PendingType
    BY <1>2, NothingIs DEF PendingType
  <2>3. TlbRight(jit, ram')
    BY <1>1, <1>2
  <2> HIDE DEF n
  <2> QED BY <1>1, <1>2, <2>1, <2>2, <2>3, ComesBackIs
<1> QED BY <1>3, <1>4

LEMMA NativeFaultKeeps == CacheInv /\ NativeFault => CacheInv' /\ jit'.blocks = jit.blocks
<1> SUFFICES ASSUME CacheInv, NativeFault PROVE CacheInv' /\ jit'.blocks = jit.blocks
  OBVIOUS
<1> DEFINE total == call.retired + native.pc - 1
           rip == Running.rip + native.pc - 1
<1>1. /\ call.phase = "native" /\ UNCHANGED ram
      /\ ComesBack(jit, native, total, rip, Nothing, TRUE)
  BY DEF NativeFault, AtInsn
<1>2. /\ Len(Running.code) \in Nat /\ native.pc \in 1 .. Len(Running.code) + 1
      /\ \A i \in 0 .. Len(Running.code) : Running.rip + i \in Rips
      /\ WellFormed(Running)
  BY <1>1, InCode
<1>3. Engine(jit) /\ TlbRight(jit, ram) /\ ram \in Memories /\ call.retired \in Nat
  BY <1>1, TlbInNative DEF CacheInv, Typed
<1>4. total \in Nat /\ rip \in Rips
  <2>1. native.pc - 1 \in 0 .. Len(Running.code) /\ native.pc - 1 \in Nat
    BY <1>2
  <2>2. Running.rip + (native.pc - 1) \in Rips
    BY <1>2, <2>1
  <2>3. Running.rip \in Int /\ native.pc \in Int
    BY <1>2, MemoryAssumption DEF WellFormed, Blocks, Rips
  <2> QED BY <1>3, <2>1, <2>2, <2>3
<1> HIDE DEF total, rip
<1>5. Nothing \in PendingType /\ TlbRight(jit, ram')
  BY <1>1, <1>3, NothingIs DEF PendingType
<1> QED BY <1>1, <1>3, <1>4, <1>5, ComesBackIs

\* What the guest's stores may be.
LEMMA StoresAre ==
  ASSUME NEW n \in Widths, NEW v \in Values
  PROVE  n \in {1, 2} /\ v \in Insns
  BY JitAssumption

LEMMA DirectStoreKeeps ==
  ASSUME CacheInv, NEW a \in Addr, NEW n \in Widths, NEW v \in Values, DirectStore(a, n, v)
  PROVE  CacheInv'
<1>1. /\ AtInsn /\ Insn.op = "store" /\ ~Terminates(Insn)
      /\ ram' = Stored(ram, a, n, v) \/ ram' = ram
      /\ native' = [native EXCEPT !.pc = @ + 1] /\ UNCHANGED <<cpu, jit, call>>
  BY DEF DirectStore, Terminates
<1>2. Engine(jit) /\ TlbRight(jit, ram) /\ ram \in Memories /\ native \in Natives
  BY <1>1, TlbInNative DEF CacheInv, Typed, Natives, AtInsn
<1>3. /\ native' \in Natives /\ native'.blk = native.blk /\ native'.pc = native.pc + 1
      /\ native'.limit = native.limit /\ native'.epoch = native.epoch
  BY <1>1, <1>2 DEF Natives
<1>4. /\ ram' \in Memories /\ ram'.perm = ram.perm /\ ram'.backing = ram.backing
      /\ ram'.layoutGen = ram.layoutGen
  <2>1. n \in {1, 2} /\ v \in Insns
    BY StoresAre
  <2> QED BY <1>1, <1>2, <2>1, StoredIs
<1>5. TlbRight(jit', ram')
  BY <1>1, <1>2, <1>4, SameHostPages
<1> QED BY <1>1, <1>2, <1>3, <1>4, <1>5, AdvanceIs

\* What a store through the helper notes in the BlockCtx, and which host page
\* it lets compiled code use from then on.
LEMMA HitIs ==
  ASSUME native \in Natives, NEW a \in Addr, NEW n,
         NEW hit, hit = IF CodePageHit(a, n) THEN Noticed(native, a) ELSE native
  PROVE  /\ hit \in Natives /\ hit.blk = native.blk /\ hit.pc = native.pc
         /\ hit.limit = native.limit /\ hit.epoch \in {native.epoch, EpochDead}
         /\ CodePageHit(a, n) =>
               /\ hit.epoch = EpochDead
               /\ native.hits = 0 => hit.hits = 1 /\ hit.smc = a
               /\ native.hits # 0 => hit.hits = 2
<1>1. CASE CodePageHit(a, n)
  <2> DEFINE hits == Min({2, native.hits + 1})
             smc == IF native.hits = 0 THEN a ELSE native.smc
  <2>1. hit = [native EXCEPT !.smc = smc, !.hits = hits, !.epoch = EpochDead]
    BY <1>1 DEF Noticed, Natives
  <2>2. native.hits \in 0 .. 2 /\ native.smc \in Nat /\ a \in Nat /\ EpochDead \in Nat
    BY JitAssumption, MemoryAssumption DEF Natives, Addr
  <2>3. hits \in 0 .. 2 /\ (native.hits = 0 => hits = 1) /\ (native.hits # 0 => hits = 2)
    <3>1. native.hits + 1 \in {1, 2, 3}
      BY <2>2
    <3>2. CASE native.hits + 1 = 1
      BY <2>2, <3>2 DEF Min
    <3>3. CASE native.hits + 1 = 2
      BY <2>2, <3>3 DEF Min
    <3>4. CASE native.hits + 1 = 3
      BY <2>2, <3>4 DEF Min
    <3> QED BY <3>1, <3>2, <3>3, <3>4
  <2>4. smc \in Nat /\ (native.hits = 0 => smc = a)
    BY <2>2
  <2> HIDE DEF hits, smc
  <2> QED BY <2>1, <2>2, <2>3, <2>4 DEF Natives
<1>2. CASE ~CodePageHit(a, n)
  BY <1>2
<1> QED BY <1>1, <1>2

LEMMA HelperPageIs ==
  ASSUME Engine(jit), TlbRight(jit, ram), ram \in Memories, NEW a \in Addr,
         NEW j, j = IF HostSpan(ram, PageOf(a))
                    THEN [jit EXCEPT !.tlb[PageOf(a)] = ram.backing[RegionAt(a)]] ELSE jit
  PROVE  /\ Engine(j) /\ j.blocks = jit.blocks /\ j.epoch = jit.epoch
         /\ j.longest = jit.longest /\ j.links = jit.links /\ j.codePages = jit.codePages
         /\ j.tlbLive = jit.tlbLive /\ j.tlbGen = jit.tlbGen /\ TlbRight(j, ram)
<1>1. CASE HostSpan(ram, PageOf(a))
  <2> DEFINE t == [jit.tlb EXCEPT ![PageOf(a)] = ram.backing[RegionAt(a)]]
  <2>1. EngineTyped(jit) /\ PageOf(a) \in Pages
    BY PagesOfAddresses DEF Engine
  <2>2. jit.tlb \in [Pages -> Nat] /\ jit.tlbLive \in BOOLEAN /\ jit.tlbGen \in Nat
    BY <2>1 DEF EngineTyped
  <2>3. RegionAt(a) \in Regions /\ ram.backing[RegionAt(a)] \in Nat
    BY <2>1 DEF RegionAt, Regions, Memories
  <2>4. /\ t \in [Pages -> Nat] /\ t[PageOf(a)] = ram.backing[RegionAt(a)]
        /\ \A p \in Pages : p # PageOf(a) => t[p] = jit.tlb[p]
    BY <2>1, <2>2, <2>3
  <2>5. j = [jit EXCEPT !.tlb = t]
    BY <1>1, <2>1 DEF EngineTyped
  <2> HIDE DEF t
  <2>6. /\ j.tlb = t /\ j.tlbLive = jit.tlbLive /\ j.tlbGen = jit.tlbGen /\ j.links = jit.links
    BY <2>1, <2>5 DEF EngineTyped
  <2>7. j = [jit EXCEPT !.tlb = j.tlb, !.tlbLive = j.tlbLive, !.tlbGen = j.tlbGen]
    BY <2>1, <2>5, <2>6 DEF EngineTyped
  <2>8. /\ Engine(j) /\ j.blocks = jit.blocks /\ j.epoch = jit.epoch
        /\ j.longest = jit.longest /\ j.codePages = jit.codePages
    <3>1. j.tlb \in [Pages -> Nat] /\ j.tlbLive \in BOOLEAN /\ j.tlbGen \in Nat
      BY <2>2, <2>4, <2>6
    <3> DEFINE e == jit
    <3>2. Engine(e) /\ j = [e EXCEPT !.tlb = j.tlb, !.tlbLive = j.tlbLive, !.tlbGen = j.tlbGen]
      BY <2>7
    <3> HIDE DEF e
    <3>3. /\ Engine(j) /\ j.blocks = e.blocks /\ j.epoch = e.epoch
          /\ j.longest = e.longest /\ j.codePages = e.codePages
      BY ONLY <3>1, <3>2, HostPagesIs
    <3> QED BY <3>3 DEF e
  <2>9. TlbRight(j, ram)
    BY <1>1, <2>4, <2>6 DEF TlbRight, RegionAt
  <2> QED BY <2>6, <2>8, <2>9
<1>2. CASE ~HostSpan(ram, PageOf(a))
  BY <1>2
<1> QED BY <1>1, <1>2

LEMMA HelperStoreKeeps ==
  ASSUME CacheInv, NEW a \in Addr, NEW n \in Widths, NEW v \in Values, HelperStore(a, n, v)
  PROVE  CacheInv' /\ jit'.blocks = jit.blocks
<1> DEFINE hit == IF CodePageHit(a, n) THEN Noticed(native, a) ELSE native
           j == IF HostSpan(ram, PageOf(a))
                THEN [jit EXCEPT !.tlb[PageOf(a)] = ram.backing[RegionAt(a)]] ELSE jit
           own == a < Running.rip + Len(Running.code) /\ a + n > Running.rip
<1>1. /\ AtInsn /\ Insn.op = "store" /\ ~Terminates(Insn) /\ call.phase = "native"
      /\ ram' = Written(ram, a, n, v)
      /\ IF own THEN ComesBack(j, hit, call.retired + native.pc, Running.rip + native.pc,
                               Nothing, FALSE)
         ELSE /\ native' = [hit EXCEPT !.pc = @ + 1] /\ jit' = j /\ UNCHANGED <<cpu, call>>
  BY DEF HelperStore, Terminates, AtInsn
<1>2. /\ Engine(jit) /\ TlbRight(jit, ram) /\ ram \in Memories /\ native \in Natives
      /\ call.retired \in Nat
  BY <1>1, TlbInNative DEF CacheInv, Typed, Natives
<1>3. /\ ram' \in Memories /\ ram'.perm = ram.perm /\ ram'.backing = ram.backing
      /\ ram'.layoutGen = ram.layoutGen
  <2>1. n \in {1, 2} /\ v \in Insns
    BY StoresAre
  <2> QED BY <1>1, <1>2, <2>1, WrittenIs
<1>4. /\ hit \in Natives /\ hit.blk = native.blk /\ hit.pc = native.pc /\ hit.limit = native.limit
      /\ hit.epoch \in {native.epoch, EpochDead}
  BY <1>2, HitIs
<1>5. /\ Engine(j) /\ j.blocks = jit.blocks /\ j.epoch = jit.epoch /\ j.longest = jit.longest
      /\ j.tlbLive = jit.tlbLive /\ j.tlbGen = jit.tlbGen /\ TlbRight(j, ram)
  BY <1>2, HelperPageIs
<1> HIDE DEF hit, j
<1>6. TlbRight(j, ram')
  BY <1>3, <1>5, SameHostPages
<1>7. CASE own
  <2> DEFINE total == call.retired + native.pc
             rip == Running.rip + native.pc
  <2>1. ComesBack(j, hit, total, rip, Nothing, FALSE)
    BY <1>1, <1>7
  <2>2. Nothing \in PendingType
    BY NothingIs DEF PendingType
  <2>3. total \in Nat /\ rip \in Rips
    <3>1. /\ Len(Running.code) \in Nat /\ native.pc \in 1 .. Len(Running.code) + 1
          /\ \A i \in 0 .. Len(Running.code) : Running.rip + i \in Rips
      BY <1>1, InCode
    <3>2. native.pc \in 0 .. Len(Running.code) /\ native.pc \in Nat
      BY <1>1, <3>1 DEF AtInsn
    <3> QED BY <1>2, <3>1, <3>2
  <2> HIDE DEF total, rip
  <2>4. FALSE \in BOOLEAN
    OBVIOUS
  <2> QED BY <1>1, <1>3, <1>5, <1>6, <2>1, <2>2, <2>3, <2>4, ComesBackIs
<1>8. CASE ~own
  <2>1. native' = [hit EXCEPT !.pc = @ + 1] /\ jit' = j /\ UNCHANGED <<cpu, call>>
    BY <1>1, <1>8
  <2>2. /\ native' \in Natives /\ native'.blk = native.blk /\ native'.pc = native.pc + 1
        /\ native'.limit = native.limit /\ native'.epoch \in {native.epoch, EpochDead}
    BY <1>4, <2>1 DEF Natives
  <2>3. TlbRight(jit', ram')
    BY <1>6, <2>1
  <2> QED BY <1>1, <1>3, <1>5, <2>1, <2>2, <2>3, AdvanceIs
<1> QED BY <1>7, <1>8

LEMMA NativeStoreKeeps == CacheInv /\ NativeStore => CacheInv'
<1> SUFFICES ASSUME CacheInv, NativeStore PROVE CacheInv'
  OBVIOUS
<1>1. PICK a \in NativeStores, n \in Widths, v \in Values :
         DirectStore(a, n, v) \/ HelperStore(a, n, v)
  BY DEF NativeStore
<1>2. a \in Addr
  BY JitAssumption
<1> QED BY <1>1, <1>2, DirectStoreKeeps, HelperStoreKeeps

\* Between two calls the engine stands still.
LEMMA SteppedIs ==
  ASSUME CacheInv, call' = Idle("jit"), UNCHANGED <<jit, native>>,
         cpu' \in [rip : Rips, mode : Modes], ram' \in Memories,
         \/ ram'.layoutGen = ram.layoutGen /\ ram'.perm = ram.perm /\ ram'.backing = ram.backing
         \/ ram'.layoutGen = ram.layoutGen + 1
  PROVE  CacheInv'
<1>1. call' \in Calls /\ call'.phase = "out"
  BY IdleIs
<1>2. Engine(jit) /\ TlbInv /\ ram.layoutGen \in Nat /\ jit.tlbGen \in Nat
  BY DEF CacheInv, Typed, Memories, Engine, EngineTyped
<1>3. jit'.tlbGen <= ram'.layoutGen
  BY <1>2 DEF TlbInv
<1>4. ASSUME TlbKnown(jit', ram') PROVE TlbRight(jit', ram')
  <2>1. jit.tlbLive /\ jit.tlbGen = ram'.layoutGen
    BY <1>4 DEF TlbKnown
  <2>2. ram'.layoutGen # ram.layoutGen + 1
    BY <1>2, <2>1 DEF TlbInv
  <2>3. ram'.layoutGen = ram.layoutGen /\ ram'.perm = ram.perm /\ ram'.backing = ram.backing
    BY <2>2
  <2>4. TlbRight(jit, ram)
    BY <1>2, <2>1, <2>3 DEF TlbInv, TlbKnown
  <2> QED BY <2>3, <2>4, SameHostPages
<1> QED BY <1>1, <1>2, <1>3, <1>4, OutsideIs

\* Where one step of the interpreter leads, and what it does to the memory.
StepsMemory ==
    /\ ram' \in Memories
    /\ \/ ram' = ram
       \/ \E a \in Addr, n \in {1, 2}, v \in Insns :
             Allowed(ram, a, n, "W") /\ ram' = Written(ram, a, n, v)
       \/ \E r \in Remappable, q \in SUBSET (RWX \union Unmapped) :
             ram' = Protected(ram, r, q) \/ ram' = Freed(ram, r) \/ ram' = Mapped(ram, r, q)

LEMMA HostWritesAre ==
  ASSUME ram \in Memories, HostWrites
  PROVE  StepsMemory
<1>1. PICK a \in HostStores, n \in Widths, v \in Values :
         Allowed(ram, a, n, "W") /\ ram' = Written(ram, a, n, v)
  BY DEF HostWrites
<1>2. a \in Addr /\ n \in {1, 2} /\ v \in Insns
  BY StoresAre, JitAssumption
<1>3. ram' \in Memories
  BY <1>1, <1>2, WrittenIs
<1> QED BY <1>1, <1>2, <1>3 DEF StepsMemory

LEMMA LayoutChangesAre ==
  ASSUME ram \in Memories, LayoutChanges
  PROVE  StepsMemory
<1>1. PICK r \in Remappable :
         \/ \E q \in Protections : ram' = Protected(ram, r, q)
         \/ ram' = Freed(ram, r)
         \/ ram' = Mapped(ram, r, RWX)
  BY DEF LayoutChanges
<1>2. PICK q \in SUBSET (RWX \union Unmapped) :
         ram' = Protected(ram, r, q) \/ ram' = Freed(ram, r) \/ ram' = Mapped(ram, r, q)
  <2>1. \A q \in Protections : q \in SUBSET (RWX \union Unmapped)
    BY JitAssumption
  <2>2. RWX \in SUBSET (RWX \union Unmapped)
    OBVIOUS
  <2> QED BY <1>1, <2>1, <2>2
<1>3. ram' \in Memories
  BY <1>2, LayoutIs
<1> QED BY <1>2, <1>3 DEF StepsMemory

Steps == StepPlain \/ StepBranch \/ StepStore \/ StepOther \/ StepFault \/ StepSwitch

LEMMA StepsAre ==
  ASSUME Typed, Steps
  PROVE  /\ call.phase = "out" /\ call' = Idle("jit") /\ UNCHANGED <<jit, native>>
         /\ cpu' \in [rip : Rips, mode : Modes] /\ StepsMemory
<1>0. ram \in Memories /\ cpu \in [rip : Rips, mode : Modes] /\ (UNCHANGED ram => StepsMemory)
  BY DEF Typed, StepsMemory
<1>1. ASSUME Fetches
      PROVE  /\ cpu.rip + 1 \in Rips /\ Decoded.to \in Rips
  <2>1. cpu.rip \in Addr
    BY <1>1 DEF Fetches, Allowed
  <2>2. Decoded \in Insns
    BY <1>0, <2>1 DEF Decoded, Memories
  <2> QED BY <2>1, <2>2, JitAssumption, MemoryAssumption DEF Addr, Rips
<1>2. Targets \subseteq Rips /\ Handlers \subseteq Rips
  BY JitAssumption, MemoryAssumption DEF Addr, Rips
<1>3. ASSUME NEW rip \in Rips, Stepped(rip)
      PROVE  /\ call' = Idle("jit") /\ UNCHANGED <<jit, native>> /\ cpu' \in [rip : Rips, mode : Modes]
  BY <1>0, <1>3 DEF Stepped
<1>4. CASE StepPlain
  BY <1>0, <1>1, <1>3, <1>4 DEF StepPlain, Interprets
<1>5. CASE StepBranch
  BY <1>0, <1>1, <1>2, <1>3, <1>5 DEF StepBranch, Interprets
<1>6. CASE StepStore
  BY <1>0, <1>1, <1>3, <1>6, HostWritesAre DEF StepStore, Interprets
<1>7. CASE StepOther
  <2>1. call.phase = "out" /\ call' = Idle("jit") /\ UNCHANGED <<jit, native>>
    BY <1>7 DEF StepOther, Interprets
  <2>2. cpu' \in [rip : Rips, mode : Modes]
    BY <1>1, <1>7 DEF StepOther, Interprets
  <2>3. StepsMemory
    BY <1>0, <1>7, HostWritesAre, LayoutChangesAre DEF StepOther
  <2> QED BY <2>1, <2>2, <2>3
<1>8. CASE StepFault
  BY <1>0, <1>2, <1>3, <1>8 DEF StepFault
<1>9. CASE StepSwitch
  BY <1>0, <1>2, <1>9 DEF StepSwitch
<1> QED BY <1>4, <1>5, <1>6, <1>7, <1>8, <1>9 DEF Steps

LEMMA StepsKeep == CacheInv /\ Steps => CacheInv'
<1> SUFFICES ASSUME CacheInv, Steps PROVE CacheInv'
  OBVIOUS
<1>1. /\ call' = Idle("jit") /\ UNCHANGED <<jit, native>>
      /\ cpu' \in [rip : Rips, mode : Modes] /\ StepsMemory /\ ram \in Memories
  BY StepsAre DEF CacheInv, Typed
<1>2. \/ ram'.layoutGen = ram.layoutGen /\ ram'.perm = ram.perm /\ ram'.backing = ram.backing
      \/ ram'.layoutGen = ram.layoutGen + 1
  <2>1. CASE ram' = ram
    BY <2>1
  <2>2. CASE \E a \in Addr, n \in {1, 2}, v \in Insns : ram' = Written(ram, a, n, v)
    BY <1>1, <2>2, WrittenIs
  <2>3. CASE \E r \in Remappable, q \in SUBSET (RWX \union Unmapped) :
                ram' = Protected(ram, r, q) \/ ram' = Freed(ram, r) \/ ram' = Mapped(ram, r, q)
    <3>1. PICK r \in Remappable, q \in SUBSET (RWX \union Unmapped) :
             ram' = Protected(ram, r, q) \/ ram' = Freed(ram, r) \/ ram' = Mapped(ram, r, q)
      BY <2>3
    <3> QED BY <1>1, <3>1, LayoutIs
  <2> QED BY <1>1, <2>1, <2>2, <2>3 DEF StepsMemory
<1>3. ram' \in Memories
  BY <1>1 DEF StepsMemory
<1> QED BY <1>1, <1>2, <1>3, SteppedIs

LEMMA CacheStep == CacheInv /\ [Next]_vars => CacheInv'
<1> SUFFICES ASSUME CacheInv, [Next]_vars PROVE CacheInv'
  OBVIOUS
<1>1. CASE UNCHANGED vars
  BY <1>1 DEF vars, CacheInv, Typed, InBlock, Running, TlbInv
<1>2. CASE Next
  BY <1>2, EnterKeeps, InterpretOnlyKeeps, DispatchKeeps, NativePlainKeeps, NativeBranchKeeps,
     NativeEndKeeps, NativeStoreKeeps, NativeFaultKeeps, StepsKeep DEF Next, Steps
<1> QED BY <1>1, <1>2

THEOREM CacheTyped == Spec => []CacheInv
  BY InitIs, CacheStep, PTL DEF Spec

\* The block map and the lookup lines never disagree about a block, and stores
\* into a page some compiled block was built from are noticed.
THEOREM CacheIsCoherent == Spec => []CacheCoherent
<1>1. CacheInv => CacheCoherent
  <2> SUFFICES ASSUME CacheInv PROVE CacheCoherent
    OBVIOUS
  <2>1. MapRight(jit) /\ LinesRight(jit) /\ BlocksRight(jit)
    BY DEF CacheInv, Engine
  <2> QED BY <2>1 DEF CacheCoherent, MapRight, LinesRight, BlocksRight
<1> QED BY <1>1, CacheTyped, PTL

\* No link of the present epoch leads out of the cache or into another block
\* than the one its exit was meant for.
THEOREM LinksAreLive == Spec => []LinksLive
<1>1. CacheInv => LinksLive
  <2> SUFFICES ASSUME CacheInv PROVE LinksLive
    OBVIOUS
  <2>1. LinksRight(jit)
    BY DEF CacheInv, Engine
  <2> QED BY <2>1 DEF LinksLive, LinksRight, Joins
<1> QED BY <1>1, CacheTyped, PTL

\* However many links are followed, a call of Jit::run keeps to its budget.
THEOREM BudgetIsKept == Spec => []BudgetCeiling
<1>1. CacheInv => BudgetCeiling
  BY DEF CacheInv, InBlock, BudgetCeiling
<1> QED BY <1>1, CacheTyped, PTL

\* Compiled stores never go to host bytes a page does not have any more.
THEOREM HostPagesAreCurrent == Spec => []TlbIsCurrent
<1>1. CacheInv => TlbIsCurrent
  BY DEF CacheInv, TlbInv, TlbRight, TlbIsCurrent
<1> QED BY <1>1, CacheTyped, PTL

-----------------------------------------------------------------------------
(* Memory whose rights never change: what Jit::validate promises.          *)

\* The addresses of a block lie in its two pages.
LEMMA BlockPages ==
  ASSUME NEW b, WellFormed(b), NEW k \in 1 .. Len(b.code)
  PROVE  /\ b.rip + k - 1 \in Addr
         /\ PageOf(b.rip + k - 1) \in {b.page0, b.page1}
         /\ b.page0 \in Pages /\ b.page1 \in Pages
<1> DEFINE n == Len(b.code)
           at == b.rip + k - 1
           last == b.rip + n - 1
<1>1. b.code \in Seq(Insns) /\ b.rip \in Rips /\ b.rip + n \in Rips /\ n <= MaxInsns
  BY DEF WellFormed, Blocks
<1> HIDE DEF n
<1>2. n \in Nat \ {0} /\ k \in 1 .. n /\ b.code # <<>>
  BY <1>1 DEF n
<1>3. b.page0 = PageOf(b.rip) /\ b.page1 = PageOf(last)
  BY <1>2 DEF WellFormed, n
<1>4. /\ b.rip \in Nat /\ at \in Nat /\ last \in Nat
      /\ b.rip <= at /\ at <= last /\ last <= b.rip + PageSize
      /\ b.rip \in Addr /\ at \in Addr /\ last \in Addr
  <2>1. /\ b.rip \in Nat /\ b.rip + n <= NumPages * PageSize /\ NumPages * PageSize \in Nat
        /\ n <= PageSize + 1 /\ PageSize \in Nat /\ MaxInsns \in Nat
    BY <1>1, <1>2, MemoryAssumption, JitAssumption DEF Rips
  <2> DEFINE top == NumPages * PageSize
  <2>2. Addr = 0 .. top - 1
    BY DEF Addr
  <2> HIDE DEF top
  <2>3. /\ b.rip \in Nat /\ b.rip + n <= top /\ top \in Nat
        /\ n <= PageSize + 1 /\ PageSize \in Nat
    BY <2>1 DEF top
  <2>4. at \in Nat /\ last \in Nat /\ b.rip <= at /\ at <= last /\ last <= b.rip + PageSize
    BY <1>2, <2>3
  <2>5. last <= top - 1
    BY <1>2, <2>3
  <2> HIDE DEF at, last
  <2> QED BY <2>2, <2>3, <2>4, <2>5
<1> HIDE DEF at, last
<1>5. /\ PageOf(b.rip) <= PageOf(at) /\ PageOf(at) <= PageOf(last)
      /\ PageOf(last) <= PageOf(b.rip) + 1
  <2>1. b.rip <= last
    BY <1>4
  <2> QED BY <1>4, <2>1, PagesInOrder
<1>6. PageOf(b.rip) \in Pages /\ PageOf(at) \in Pages /\ PageOf(last) \in Pages
  BY <1>4, PagesOfAddresses
<1>7. PageOf(at) = PageOf(b.rip) \/ PageOf(at) = PageOf(last)
  BY <1>5, <1>6 DEF Pages
<1> QED BY <1>3, <1>4, <1>6, <1>7 DEF at

\* A store outside executable memory touches no instruction of a block.
LEMMA FreshAfterPlainStore ==
  ASSUME NEW m \in Memories, NEW u, NEW b, WellFormed(b), Fresh(b, m),
         NEW a \in Addr, NEW n \in {1, 2}, a + n - 1 \in Addr, RegionAt(a + n - 1) = RegionAt(a),
         "X" \notin m.perm[RegionAt(a)],
         u.perm = m.perm, u.codeGen = m.codeGen, u.pageGen = m.pageGen, Spares(m, u, a, n)
  PROVE  Fresh(b, u)
<1>1. \A k \in 1 .. Len(b.code) :
         /\ b.rip + k - 1 \in Addr /\ Allowed(m, b.rip + k - 1, 1, "X")
         /\ b.rip + k - 1 # a /\ (n = 2 => b.rip + k - 1 # a + 1)
  <2> SUFFICES ASSUME NEW k \in 1 .. Len(b.code)
               PROVE  /\ b.rip + k - 1 \in Addr /\ Allowed(m, b.rip + k - 1, 1, "X")
                      /\ b.rip + k - 1 # a /\ (n = 2 => b.rip + k - 1 # a + 1)
    OBVIOUS
  <2> DEFINE x == b.rip + k - 1
  <2>1. x \in Addr /\ Allowed(m, x, 1, "X")
    BY BlockPages DEF Fresh
  <2> HIDE DEF x
  <2>2. "X" \in m.perm[RegionAt(x)]
    BY <2>1 DEF Allowed
  <2>3. n = 2 => a + n - 1 = a + 1
    BY MemoryAssumption DEF Addr
  <2> QED BY <2>1, <2>2, <2>3 DEF x
<1>2. \A p : PageGen(u, p) = PageGen(m, p)
  BY DEF PageGen
<1>3. Valid(b, u) <=> Valid(b, m)
  BY <1>2 DEF Valid
<1>4. \A x : Allowed(m, x, 1, "X") <=> Allowed(u, x, 1, "X")
  BY DEF Allowed
<1> QED BY <1>1, <1>2, <1>3, <1>4 DEF Fresh, Spares

\* A store into executable memory moves the generation of every page it
\* touches: a block that is still valid afterwards has none of them.
LEMMA FreshAfterCodeStore ==
  ASSUME NEW m \in Memories, NEW u, NEW b, WellFormed(b), Fresh(b, m),
         NEW a \in Addr, NEW n \in {1, 2}, a + n - 1 \in Addr,
         u.perm = m.perm, Moves(m, u, a, n), Spares(m, u, a, n)
  PROVE  Fresh(b, u)
<1>0. /\ b.global \in Nat /\ b.gen0 \in Nat /\ b.gen1 \in Nat /\ m.codeGen \in Nat
      /\ b.global <= m.codeGen /\ b.gen0 <= PageGen(m, b.page0) /\ b.gen1 <= PageGen(m, b.page1)
  BY DEF WellFormed, Blocks, Fresh, Memories
<1>1. \A p : /\ PageGen(m, p) \in Nat /\ PageGen(u, p) \in Nat /\ PageGen(m, p) <= PageGen(u, p)
             /\ p \in Pages /\ p \in PageOf(a) .. PageOf(a + n - 1)
                   => PageGen(u, p) = PageGen(m, p) + 1
             /\ p \notin PageOf(a) .. PageOf(a + n - 1) => PageGen(u, p) = PageGen(m, p)
  BY DEF PageGen, Memories, Moves
<1>2. \A x : Allowed(m, x, 1, "X") <=> Allowed(u, x, 1, "X")
  BY DEF Allowed
<1>3. PageOf(a) \in PageOf(a) .. PageOf(a + n - 1) /\ PageOf(a + n - 1) \in PageOf(a) .. PageOf(a + n - 1)
  <2>1. a \in Nat /\ a + n - 1 \in Nat /\ a <= a + n - 1
    BY MemoryAssumption DEF Addr
  <2>2. PageOf(a) <= PageOf(a + n - 1)
    BY <2>1, PagesInOrder
  <2>3. PageOf(a) \in Pages /\ PageOf(a + n - 1) \in Pages
    BY PagesOfAddresses
  <2> QED BY <2>2, <2>3 DEF Pages
<1>4. ASSUME Valid(b, u), NEW k \in 1 .. Len(b.code)
      PROVE  u.bytes[b.rip + k - 1] = b.code[k]
  <2> DEFINE x == b.rip + k - 1
  <2>1. /\ x \in Addr /\ PageOf(x) \in {b.page0, b.page1}
        /\ b.page0 \in Pages /\ b.page1 \in Pages
    BY BlockPages
  <2>2. PageGen(u, b.page0) = b.gen0 /\ PageGen(u, b.page1) = b.gen1
    BY <1>0, <1>4 DEF Valid, Moves
  <2>3. b.page0 \notin PageOf(a) .. PageOf(a + n - 1) /\ b.page1 \notin PageOf(a) .. PageOf(a + n - 1)
    BY <1>0, <1>1, <2>1, <2>2
  <2>4. Valid(b, m)
    BY <1>1, <2>2, <2>3 DEF Valid
  <2> HIDE DEF x
  <2>5. x # a /\ x # a + n - 1
    BY <1>3, <2>1, <2>3
  <2>6. n = 2 => x # a + 1
    BY <2>5, MemoryAssumption DEF Addr
  <2>7. u.bytes[x] = m.bytes[x]
    BY <2>1, <2>5, <2>6 DEF Spares
  <2> QED BY <2>4, <2>7 DEF Fresh, x
<1> QED BY <1>0, <1>1, <1>2, <1>4 DEF Fresh, Moves

LEMMA FreshAfterWrite ==
  ASSUME NEW m \in Memories, NEW b, WellFormed(b), Fresh(b, m),
         NEW a \in Addr, NEW n \in {1, 2}, NEW v \in Insns, Allowed(m, a, n, "W"),
         NEW u, u = Written(m, a, n, v)
  PROVE  Fresh(b, u)
<1>1. a + n - 1 \in Addr /\ RegionAt(a + n - 1) = RegionAt(a)
  BY DEF Allowed
<1>2. CASE "X" \in m.perm[RegionAt(a)]
  <2>1. u.perm = m.perm /\ Moves(m, u, a, n) /\ Spares(m, u, a, n)
    BY <1>2, WrittenIs
  <2> QED BY <1>1, <2>1, FreshAfterCodeStore
<1>3. CASE "X" \notin m.perm[RegionAt(a)]
  <2>1. /\ u.perm = m.perm /\ u.codeGen = m.codeGen /\ u.pageGen = m.pageGen
        /\ Spares(m, u, a, n)
    BY <1>3, WrittenIs
  <2> QED BY <1>1, <1>3, <2>1, FreshAfterPlainStore
<1> QED BY <1>2, <1>3

\* What the lookup leaves in the cache, and what it enters.
LEMMA DispatchIs ==
  ASSUME CacheInv, FreshInv, Dispatch
  PROVE  /\ FreshInv'
         /\ call'.phase = "native" =>
               LET b == jit'.blocks[native'.blk]
               IN  /\ b.mode = cpu.mode
                   /\ \A k \in 1 .. Len(b.code) : ram.bytes[b.rip + k - 1] = b.code[k]
<1> DEFINE r == Looked(jit, ram, cpu.rip, cpu.mode)
           c == r.jit.blocks[r.idx]
           j == Filled(r.jit, cpu.rip, cpu.mode, r.idx)
<1>0. Engine(jit) /\ ram \in Memories /\ cpu.rip \in Rips /\ cpu.mode \in Modes
  BY DEF CacheInv, Typed
<1>1. /\ Engine(r.jit) /\ r.idx \in 1 .. Len(r.jit.blocks)
      /\ c.rip = cpu.rip /\ c.mode = cpu.mode /\ Valid(c, ram)
      /\ \A i \in 1 .. Len(r.jit.blocks) : Marked(jit, ram, cpu.rip, cpu.mode, r.jit.blocks[i])
  BY <1>0, LookedIs DEF Looks
<1>2. /\ UNCHANGED <<ram, cpu>>
      /\ \/ jit' = [r.jit EXCEPT !.pending = Nothing] /\ call' = Idle("step")
         \/ c.code # <<>> /\ jit' = j /\ call' = Idle("step")
         \/ c.code # <<>> /\ jit' = j /\ native' = Entered(j, r.idx)
  BY DEF Dispatch
<1>3. c.code # <<>> => j.blocks = r.jit.blocks
  BY <1>1, FilledIs
<1>4. [r.jit EXCEPT !.pending = Nothing].blocks = r.jit.blocks
  BY <1>1, NothingIs, PendingIs
<1>5. jit'.blocks = r.jit.blocks
  <2> HIDE DEF r, j
  <2> QED BY <1>2, <1>3, <1>4
<1>6. call'.phase = "native" => native'.blk = r.idx
  <2> HIDE DEF r, j
  <2> QED BY <1>2 DEF Idle, Entered
<1> HIDE DEF r
<1>7. \A i \in 1 .. Len(r.jit.blocks) : Fresh(r.jit.blocks[i], ram)
  <2> SUFFICES ASSUME NEW i \in 1 .. Len(r.jit.blocks) PROVE Fresh(r.jit.blocks[i], ram)
    OBVIOUS
  <2> DEFINE b == r.jit.blocks[i]
  <2>1. PICK o : /\ OldOrNew(jit, ram, cpu.rip, cpu.mode, o)
                 /\ b = o \/ (Valid(o, ram) /\ b = [o EXCEPT !.global = ram.codeGen])
    BY <1>1 DEF Marked
  <2>2. Fresh(o, ram) /\ WellFormed(o)
    <3>1. CASE o = NewBlock(ram, cpu.rip, cpu.mode)
      BY <1>0, <3>1, NewBlockIs
    <3>2. CASE \E e \in 1 .. Len(jit.blocks) : o = jit.blocks[e]
      BY <1>0, <3>2 DEF FreshInv, Engine, BlocksRight
    <3> QED BY <2>1, <3>1, <3>2 DEF OldOrNew
  <2>3. CASE b = o
    BY <2>2, <2>3
  <2>4. CASE Valid(o, ram) /\ b = [o EXCEPT !.global = ram.codeGen]
    <3>1. /\ b.rip = o.rip /\ b.code = o.code /\ b.page0 = o.page0 /\ b.page1 = o.page1
          /\ b.gen0 = o.gen0 /\ b.gen1 = o.gen1 /\ b.global = ram.codeGen
      BY <2>2, <2>4 DEF WellFormed, Blocks
    <3>2. ram.codeGen \in Nat
      BY <1>0 DEF Memories
    <3> HIDE DEF b
    <3>3. Fresh(b, ram)
      BY <2>2, <2>4, <3>1, <3>2 DEF Fresh, Valid
    <3> QED BY <3>3 DEF b
  <2> QED BY <2>1, <2>3, <2>4
<1>8. FreshInv'
  BY <1>2, <1>5, <1>7 DEF FreshInv
<1>9. c.mode = cpu.mode /\ \A k \in 1 .. Len(c.code) : ram.bytes[c.rip + k - 1] = c.code[k]
  BY <1>1, <1>7 DEF Fresh
<1> QED BY <1>5, <1>6, <1>8, <1>9

\* Every other step leaves the blocks alone, and enters none from Jit::run.
LEMMA BlocksStay ==
  ASSUME CacheInv, NothingRemapped, [Next]_vars, ~Dispatch
  PROVE  /\ jit'.blocks = jit.blocks /\ ~(call.phase = "loop" /\ call'.phase = "native")
         /\ \/ ram' = ram
            \/ \E a \in Addr, n \in {1, 2}, v \in Insns :
                  /\ a + n - 1 \in Addr /\ RegionAt(a + n - 1) = RegionAt(a)
                  /\ \/ ram' = Stored(ram, a, n, v) /\ "X" \notin ram.perm[RegionAt(a)]
                     \/ ram' = Written(ram, a, n, v) /\ Allowed(ram, a, n, "W")
<1>1. CASE UNCHANGED vars
  BY <1>1 DEF vars
<1>2. CASE Enter
  <2>1. EngineTyped(jit) /\ jit' = TlbChecked(jit, ram) /\ UNCHANGED ram /\ call.phase = "out"
    BY <1>2 DEF CacheInv, Engine, Enter
  <2>2. jit'.blocks = jit.blocks
    BY <2>1 DEF EngineTyped, TlbChecked
  <2> QED BY <2>1, <2>2
<1>3. CASE InterpretOnly
  BY <1>3 DEF InterpretOnly, Idle
<1>4. CASE NativePlain
  BY <1>4 DEF NativePlain, AtInsn
<1>5. CASE NativeBranch
  <2>1. call.phase = "native" /\ UNCHANGED ram
    BY <1>5 DEF NativeBranch, AtInsn
  <2> QED BY <1>5, <2>1, NativeBranchKeeps
<1>6. CASE NativeEnd
  <2>1. call.phase = "native" /\ UNCHANGED ram
    BY <1>6 DEF NativeEnd
  <2> QED BY <1>6, <2>1, NativeEndKeeps
<1>7. CASE NativeFault
  <2>1. call.phase = "native" /\ UNCHANGED ram
    BY <1>7 DEF NativeFault, AtInsn
  <2> QED BY <1>7, <2>1, NativeFaultKeeps
<1>8. CASE NativeStore
  <2>1. PICK a \in NativeStores, n \in Widths, v \in Values :
           a + n - 1 \in Addr /\ (DirectStore(a, n, v) \/ HelperStore(a, n, v))
    BY <1>8 DEF NativeStore
  <2>2. a \in Addr /\ n \in {1, 2} /\ v \in Insns
    BY JitAssumption
  <2>3. CASE DirectStore(a, n, v)
    <3>1. /\ call.phase = "native" /\ Cached(a, n) /\ UNCHANGED <<call, jit>>
          /\ ram' = ram \/ ram' = Stored(ram, a, n, v)
      BY <2>3 DEF DirectStore, AtInsn
    <3>2. TlbRight(jit, ram)
      BY <3>1, TlbInNative
    <3>3. /\ PageOf(a) \in Pages /\ PageOf(a + n - 1) = PageOf(a) /\ HostSpan(ram, PageOf(a))
      BY <2>2, <3>1, <3>2, PagesOfAddresses DEF Cached, TlbRight
    <3>4. "X" \notin ram.perm[RegionAt(a)] /\ RegionAt(a + n - 1) = RegionAt(a)
      BY <3>3 DEF HostSpan, RegionAt
    <3> QED BY <2>1, <2>2, <3>1, <3>4
  <2>4. CASE HelperStore(a, n, v)
    <3>1. /\ call.phase = "native" /\ Allowed(ram, a, n, "W") /\ ram' = Written(ram, a, n, v)
      BY <2>4 DEF HelperStore, AtInsn
    <3>2. jit'.blocks = jit.blocks
      BY <2>2, <2>4, HelperStoreKeeps
    <3> QED BY <2>2, <3>1, <3>2 DEF Allowed
  <2> QED BY <2>1, <2>3, <2>4
<1>9. CASE Steps
  <2>1. call.phase = "out" /\ UNCHANGED jit /\ StepsMemory
    BY <1>9, StepsAre DEF CacheInv
  <2> QED BY <2>1 DEF StepsMemory, NothingRemapped, Allowed
<1> QED BY <1>1, <1>2, <1>3, <1>4, <1>5, <1>6, <1>7, <1>8, <1>9 DEF Next, Steps

LEMMA FreshStep ==
  ASSUME CacheInv, FreshInv, NothingRemapped, [Next]_vars
  PROVE  FreshInv'
<1>1. CASE Dispatch
  BY <1>1, DispatchIs
<1>2. CASE ~Dispatch
  <2>1. /\ jit'.blocks = jit.blocks
        /\ \/ ram' = ram
           \/ \E a \in Addr, n \in {1, 2}, v \in Insns :
                 /\ a + n - 1 \in Addr /\ RegionAt(a + n - 1) = RegionAt(a)
                 /\ \/ ram' = Stored(ram, a, n, v) /\ "X" \notin ram.perm[RegionAt(a)]
                    \/ ram' = Written(ram, a, n, v) /\ Allowed(ram, a, n, "W")
    BY <1>2, BlocksStay
  <2> SUFFICES ASSUME NEW i \in 1 .. Len(jit.blocks) PROVE Fresh(jit.blocks[i], ram')
    BY <2>1 DEF FreshInv
  <2> DEFINE b == jit.blocks[i]
  <2>2. WellFormed(b) /\ Fresh(b, ram) /\ ram \in Memories
    BY DEF CacheInv, Engine, BlocksRight, FreshInv, Typed
  <2> HIDE DEF b
  <2>3. CASE ram' = ram
    BY <2>2, <2>3 DEF b
  <2>4. ASSUME NEW a \in Addr, NEW n \in {1, 2}, NEW v \in Insns,
               a + n - 1 \in Addr, RegionAt(a + n - 1) = RegionAt(a),
               ram' = Stored(ram, a, n, v), "X" \notin ram.perm[RegionAt(a)]
        PROVE  Fresh(b, ram')
    <3>1. /\ ram'.perm = ram.perm /\ ram'.codeGen = ram.codeGen /\ ram'.pageGen = ram.pageGen
          /\ Spares(ram, ram', a, n)
      BY <2>2, <2>4, StoredIs
    <3> QED BY <2>2, <2>4, <3>1, FreshAfterPlainStore
  <2>5. ASSUME NEW a \in Addr, NEW n \in {1, 2}, NEW v \in Insns,
               ram' = Written(ram, a, n, v), Allowed(ram, a, n, "W")
        PROVE  Fresh(b, ram')
    BY <2>2, <2>5, FreshAfterWrite
  <2> QED BY <2>1, <2>3, <2>4, <2>5 DEF b
<1> QED BY <1>1, <1>2

\* In memory whose rights the guest leaves as they are, the block Jit::run
\* enters was compiled from what its addresses hold at that moment: the two
\* page generations are enough, whatever was written since.
THEOREM EntersAreFresh ==
  ASSUME NothingRemapped
  PROVE  Spec => EntersFresh
<1>1. Init => FreshInv
  BY DEF Init, NewJit, FreshInv
<1>2. CacheInv /\ FreshInv /\ [Next]_vars => FreshInv'
  BY FreshStep
<1>3. CacheInv /\ FreshInv /\ [Next]_vars =>
         [(call.phase = "loop" /\ call'.phase = "native") =>
             LET b == jit'.blocks[native'.blk]
             IN  /\ b.mode = cpu.mode
                 /\ \A k \in 1 .. Len(b.code) : ram.bytes[b.rip + k - 1] = b.code[k]]_vars
  BY BlocksStay, DispatchIs
<1> QED BY <1>1, <1>2, <1>3, CacheTyped, PTL DEF Spec, EntersFresh
=============================================================================
