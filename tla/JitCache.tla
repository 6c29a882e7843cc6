------------------------------ MODULE JitCache ------------------------------
(***************************************************************************)
(* The block compiler of crates/jit/src/engine.rs: its cache of compiled   *)
(* blocks, the links through which one block branches straight into the    *)
(* next, the table of host pages compiled stores use directly, and one     *)
(* call of Jit::run inside the run loop, with the interpreter and the OS   *)
(* layer at work between two calls.                                        *)
(*                                                                         *)
(* A compiled block is the sequence of instructions it was compiled from,  *)
(* so that what native code executes can be compared with what memory      *)
(* holds at that moment.  Where a branch goes and what a store writes are  *)
(* chosen freely: they depend on registers the model does not keep.        *)
(*                                                                         *)
(* Here and in GuestMemory a definition whose name has an underscore is a  *)
(* plausible mistake in the definition named before it; nothing uses it.   *)
(***************************************************************************)
EXTENDS GuestMemory, Sequences, FiniteSetsExt

CONSTANTS Modes,       \* CPU modes, subset of {"long", "prot"}
          MaxInsns,    \* max_insns: instructions in a block
          Capacity,    \* instructions the code buffer has room for
          LinkBlocks,  \* link_blocks: blocks whose exits get link slots
          EpochDead,   \* LINK_EPOCH_DEAD
          GenWrap,     \* cache_gen counts modulo this
          NumLines,    \* LINES, the direct-mapped lookup lines
          PageBit,     \* code_page_bit: the bit a page has in code_pages
          MaxBudget,   \* bound: budgets of one call are 0 .. MaxBudget
          MaxGen,      \* bound: writes into executable memory
          MaxLayout,   \* bound: changes of the layout
          Values,      \* what stores write, subset of Insns
          Widths,      \* how many addresses a store covers, subset of {1, 2}
          NativeStores,\* addresses compiled stores may be aimed at
          HostStores,  \* addresses the interpreter and the OS may write
          Protections, \* protections the guest asks for
          Remappable,  \* regions the guest may protect, free and allocate again
          Targets,     \* where computed branches lead
          Handlers,    \* where exception handlers and other threads run
          Debugging,   \* whether a debugger is attached
          InitRams     \* the memories a run starts from

VARIABLES ram,    \* the guest's memory
          cpu,    \* CpuState: the instruction pointer and the mode
          jit,    \* the engine between two blocks
          call,   \* the call of Jit::run that is under way
          native  \* the compiled block that is executing, and its BlockCtx

vars == <<ram, cpu, jit, call, native>>

MaxLinks == 2                             \* MAX_LINKS
Slots    == (1 .. LinkBlocks) \X (1 .. MaxLinks)
Nothing  == [slot |-> <<0, 0>>, rip |-> 0, mode |-> "long"]   \* NO_SLOT pending
Lines    == 0 .. NumLines - 1
LineOf(rip) == rip % NumLines
Rips     == 0 .. NumPages * PageSize         \* and one past the last address
Keys     == Rips \X Modes
Indirect == -1                            \* INDIRECT_TARGET, no address
EmptySlot == [epoch |-> 0, key |-> 0, to |-> 0]
EmptyLine == [rip |-> 0, mode |-> "long", idx |-> 0, gen |-> 0]

\* A block reaches over two pages at most (64 instructions of 15 bytes, pages
\* of 4096), the buffer has room for one, and counters have values to take.
ASSUME JitAssumption ==
    /\ Modes \subseteq {"long", "prot"}
    /\ MaxInsns \in Nat \ {0} /\ MaxInsns <= PageSize + 1
    /\ Capacity \in Nat /\ Capacity >= MaxInsns
    /\ LinkBlocks \in Nat /\ NumLines \in Nat \ {0}
    /\ EpochDead \in Nat \ {0, 1} /\ GenWrap \in Nat \ {0, 1}
    /\ MaxBudget \in Nat
    /\ \A i \in Insns : i.to \in Addr
    /\ Values \subseteq Insns /\ Widths \subseteq {1, 2}
    /\ NativeStores \subseteq Addr /\ HostStores \subseteq Addr
    /\ Targets \subseteq Addr /\ Handlers \subseteq Addr
    /\ Protections \subseteq SUBSET RWX
    /\ InitRams \subseteq Memories

-----------------------------------------------------------------------------
(* Compiling a block.                                                      *)

\* An instruction the compiler can fetch and lower.
Lowers(m, a) == Allowed(m, a, 1, "X") /\ m.bytes[a].op # "other"
Terminates(i) == i.op \in {"jmp", "jcc", "ind"}

\* Compiler::compile: instructions up to the first terminator, the first one
\* it cannot lower, or max_insns.
BlockLength(m, rip) ==
    Max({n \in 0 .. MaxInsns : \A k \in 1 .. n :
            /\ Lowers(m, rip + k - 1)
            /\ k < n => ~Terminates(m.bytes[rip + k - 1])})

CompiledCode(m, rip) == [k \in 1 .. BlockLength(m, rip) |-> m.bytes[rip + k - 1]]

\* The exits of a block that take a link, in the order of their slots.
LinkExits(b) ==
    LET n == Len(b.code) IN
    IF n = 0 THEN <<>>
    ELSE CASE b.code[n].op = "jmp" -> <<b.code[n].to>>
           [] b.code[n].op = "jcc" -> <<b.rip + n, b.code[n].to>>
           [] b.code[n].op = "ind" -> <<Indirect>>
           [] OTHER                -> IF n = MaxInsns THEN <<b.rip + n>> ELSE <<>>

NewBlock(m, rip, mode) ==
    LET code == CompiledCode(m, rip)
        last == IF Len(code) = 0 THEN rip ELSE rip + Len(code) - 1
    IN  [rip |-> rip, mode |-> mode, code |-> code,
         page0 |-> PageOf(rip), page1 |-> PageOf(last),
         gen0 |-> PageGen(m, PageOf(rip)), gen1 |-> PageGen(m, PageOf(last)),
         global |-> m.codeGen]

-----------------------------------------------------------------------------
(* The cache.                                                              *)

NewJit == [blocks |-> <<>>, map |-> [k \in Keys |-> 0],
           lines |-> [l \in Lines |-> EmptyLine], cacheGen |-> 1, used |-> 0,
           longest |-> 0, links |-> [s \in Slots |-> EmptySlot], epoch |-> 1,
           pending |-> Nothing, codePages |-> {},
           tlb |-> [p \in Pages |-> 0], tlbLive |-> FALSE, tlbGen |-> 0]

UnlinkAll_NoWrap(j) == [j EXCEPT !.epoch = IF @ + 1 = EpochDead THEN 1 ELSE @ + 1,
                                 !.pending = Nothing]

\* Jit::unlink_all: one step of the epoch retires every link.
UnlinkAll(j) ==
    [j EXCEPT !.epoch = IF @ + 1 = EpochDead THEN 1 ELSE @ + 1,
              !.links = IF j.epoch + 1 = EpochDead
                        THEN [s \in Slots |-> EmptySlot] ELSE @,
              !.pending = Nothing]

\* The lookup lines are retired by their generation, which may wrap.
RetireLines(j) ==
    IF (j.cacheGen + 1) % GenWrap = 0
    THEN [j EXCEPT !.lines = [l \in Lines |-> [@[l] EXCEPT !.gen = 0]], !.cacheGen = 1]
    ELSE [j EXCEPT !.cacheGen = @ + 1]

\* Jit::flush.
Flush(j) ==
    RetireLines(UnlinkAll([j EXCEPT !.blocks = <<>>, !.map = [k \in Keys |-> 0],
                                    !.used = 0, !.longest = 0, !.codePages = {}]))

Line(rip, mode, idx, gen) == [rip |-> rip, mode |-> mode, idx |-> idx, gen |-> gen]

Installed_FirstPage(j, b) ==
    LET idx == Len(j.blocks) + 1
        ok  == b.code # <<>>
    IN  [j EXCEPT !.blocks = Append(@, b), !.map[<<b.rip, b.mode>>] = idx,
                  !.lines[LineOf(b.rip)] = Line(b.rip, b.mode, idx, j.cacheGen),
                  !.used = @ + Len(b.code),
                  !.longest = IF ok THEN Max({@, Len(b.code)}) ELSE @,
                  !.codePages = IF ok THEN @ \union {b.page0} ELSE @]

\* The end of Jit::block_at: the block, compiled or declined, becomes the last.
Installed(j, b) ==
    LET idx == Len(j.blocks) + 1
        ok  == b.code # <<>>
    IN  [j EXCEPT !.blocks = Append(@, b), !.map[<<b.rip, b.mode>>] = idx,
                  !.lines[LineOf(b.rip)] = Line(b.rip, b.mode, idx, j.cacheGen),
                  !.used = @ + Len(b.code),
                  !.longest = IF ok THEN Max({@, Len(b.code)}) ELSE @,
                  !.codePages = IF ok THEN @ \union {b.page0, b.page1} ELSE @]

\* Jit::block_at: the engine afterwards and the index of the block at rip.
BlockAt(j, m, rip, mode) ==
    LET l == j.lines[LineOf(rip)]
        b == NewBlock(m, rip, mode)
        room == IF j.used + Len(b.code) > Capacity THEN Flush(j) ELSE j
    IN  IF l.gen = j.cacheGen /\ l.rip = rip /\ l.mode = mode
        THEN [jit |-> j, idx |-> l.idx]
        ELSE IF j.map[rip, mode] # 0
        THEN [jit |-> [j EXCEPT !.lines[LineOf(rip)] =
                                     Line(rip, mode, j.map[rip, mode], j.cacheGen)],
              idx |-> j.map[rip, mode]]
        ELSE [jit |-> Installed(room, b), idx |-> Len(room.blocks) + 1]

Valid_FirstPage(b, m) == b.global = m.codeGen \/ PageGen(m, b.page0) = b.gen0

\* Jit::validate: nothing was written to executable memory since, or at least
\* not to the block's own pages.
Valid(b, m) == \/ b.global = m.codeGen
               \/ PageGen(m, b.page0) = b.gen0 /\ PageGen(m, b.page1) = b.gen1

\* A block that is not valid costs the whole cache.
Looked(j, m, rip, mode) ==
    LET found == BlockAt(j, m, rip, mode)
    IN  IF Valid(found.jit.blocks[found.idx], m)
        THEN [found EXCEPT !.jit.blocks[found.idx].global = m.codeGen]
        ELSE BlockAt(Flush(found.jit), m, rip, mode)

\* The exit the previous block left through is linked to the block at rip.
Filled(j, rip, mode, idx) ==
    LET fits == j.pending # Nothing /\ j.pending.mode = mode /\ j.pending.rip = rip
    IN  [j EXCEPT !.links = IF fits THEN [@ EXCEPT ![j.pending.slot] =
                                              [epoch |-> j.epoch, key |-> rip, to |-> idx]]
                                    ELSE @,
                  !.pending = Nothing]

-----------------------------------------------------------------------------
(* One call of Jit::run.                                                   *)

NoNative == [blk |-> 0, pc |-> 0, epoch |-> 0, limit |-> 0, smc |-> 0, hits |-> 0]
Idle(due) == [phase |-> "out", due |-> due, budget |-> 0, retired |-> 0]

Init == /\ ram \in InitRams
        /\ cpu \in [rip : Addr, mode : Modes]
        /\ jit = NewJit
        /\ call = Idle("jit")
        /\ native = NoNative

\* The pages compiled code may store to directly are forgotten when the
\* layout of the address space has changed since the last call.
TlbChecked(j, m) ==
    IF j.tlbLive /\ j.tlbGen = m.layoutGen THEN j
    ELSE [j EXCEPT !.tlb = [p \in Pages |-> 0], !.tlbLive = TRUE, !.tlbGen = m.layoutGen]

\* The run loop calls Jit::run with the instructions that may be retired.
Enter == /\ call.phase = "out" /\ call.due = "jit"
         /\ \E b \in 0 .. MaxBudget :
                call' = [phase |-> "loop", due |-> "jit", budget |-> b, retired |-> 0]
         /\ jit' = TlbChecked(jit, ram)
         /\ UNCHANGED <<ram, cpu, native>>

\* BlockCtx for a block entered from Rust.
Entered(j, idx) ==
    [blk |-> idx, pc |-> 1, epoch |-> j.epoch,
     limit |-> Max({0, call.budget + 1 - j.longest}), smc |-> 0, hits |-> 0]

\* One turn of the loop in Jit::run up to the call of compiled code.  The run
\* loop interprets an instruction when there is no block, or one that would
\* cross the budget.
Dispatch ==
    LET found == Looked(jit, ram, cpu.rip, cpu.mode)
        code  == found.jit.blocks[found.idx].code
        j     == Filled(found.jit, cpu.rip, cpu.mode, found.idx)
    IN  /\ call.phase = "loop"
        /\ \/ /\ code = <<>>
              /\ jit' = [found.jit EXCEPT !.pending = Nothing]
              /\ call' = Idle("step") /\ UNCHANGED native
           \/ /\ code # <<>> /\ call.retired + Len(code) > call.budget
              /\ jit' = j
              /\ call' = Idle("step") /\ UNCHANGED native
           \/ /\ code # <<>> /\ call.retired + Len(code) <= call.budget
              /\ jit' = j
              /\ call' = [call EXCEPT !.phase = "native"]
              /\ native' = Entered(j, found.idx)
        /\ UNCHANGED <<ram, cpu>>

-----------------------------------------------------------------------------
(* Compiled code.                                                          *)

Running == jit.blocks[native.blk]
AtInsn  == call.phase = "native" /\ native.pc <= Len(Running.code)
Insn    == Running.code[native.pc]

\* Compiled code comes back to Jit::run with the guest at rip: n is its
\* BlockCtx, total what the call has retired by now.
ComesBack(j0, n, total, rip, pending, fault) ==
    LET j == [j0 EXCEPT !.pending = pending]
        smc == n.hits > 1 \/ (n.hits = 1 /\ PageOf(n.smc) \in j.codePages)
    IN  /\ jit' = IF smc THEN UnlinkAll(j) ELSE j
        /\ call' = IF fault THEN Idle("step")
                   ELSE IF total >= call.budget THEN Idle("jit")
                   ELSE [call EXCEPT !.phase = "loop", !.retired = total]
        /\ cpu' = [cpu EXCEPT !.rip = rip]
        /\ native' = NoNative

FollowsLink_AtOrUnder(link, total, rip, exit) ==
    total <= native.limit /\ link.epoch = native.epoch /\ (exit = Indirect => link.key = rip)

\* The test every linkable exit ends in.
FollowsLink(link, total, rip, exit) ==
    total < native.limit /\ link.epoch = native.epoch /\ (exit = Indirect => link.key = rip)

\* A block is left by its k-th linkable exit: on into the next block, or back
\* to Jit::run with the slot to fill.
LeaveByLink(k, rip) ==
    LET total == call.retired + Len(Running.code)
        slot  == <<native.blk, k>>
        link  == jit.links[slot]
    IN  IF slot \notin Slots
        THEN ComesBack(jit, native, total, rip, Nothing, FALSE)
        ELSE IF FollowsLink(link, total, rip, LinkExits(Running)[k])
        THEN /\ native' = [native EXCEPT !.blk = link.to, !.pc = 1]
             /\ call' = [call EXCEPT !.retired = total]
             /\ cpu' = [cpu EXCEPT !.rip = rip]
             /\ UNCHANGED jit
        ELSE ComesBack(jit, native, total, rip, [slot |-> slot, rip |-> rip, mode |-> cpu.mode], FALSE)

NativePlain == /\ AtInsn /\ Insn.op = "plain"
               /\ native' = [native EXCEPT !.pc = @ + 1]
               /\ UNCHANGED <<ram, cpu, jit, call>>

NativeBranch ==
    /\ AtInsn /\ Terminates(Insn)
    /\ \E k \in 1 .. Len(LinkExits(Running)) :
          LET exit == LinkExits(Running)[k]
          IN  \E rip \in IF exit = Indirect THEN Targets ELSE {exit} : LeaveByLink(k, rip)
    /\ UNCHANGED ram

\* A block that ends without a branch: full, and so linkable, or cut short by
\* an instruction that does not compile.
NativeEnd ==
    LET n == Len(Running.code)
    IN  /\ call.phase = "native" /\ native.pc > n
        /\ IF n = MaxInsns THEN LeaveByLink(1, Running.rip + n)
           ELSE ComesBack(jit, native, call.retired + n, Running.rip + n, Nothing, FALSE)
        /\ UNCHANGED ram

\* A load or store that is refused: nothing of the instruction happens, and
\* the run loop interprets it.
NativeFault ==
    /\ AtInsn /\ Insn.op \in {"plain", "store"}
    /\ ComesBack(jit, native, call.retired + native.pc - 1, Running.rip + native.pc - 1, Nothing, TRUE)
    /\ UNCHANGED ram

\* The emitted probe: the store lies in one page whose host bytes are known.
Cached(a, n) == PageOf(a) = PageOf(a + n - 1) /\ jit.tlb[PageOf(a)] # 0

\* A store straight into host bytes: no counter moves.  Into bytes the region
\* does not have any more it is lost.
DirectStore(a, n, v) ==
    /\ AtInsn /\ Insn.op = "store" /\ Cached(a, n)
    /\ ram' = IF jit.tlb[PageOf(a)] = ram.backing[RegionAt(a)] THEN Stored(ram, a, n, v) ELSE ram
    /\ native' = [native EXCEPT !.pc = @ + 1]
    /\ UNCHANGED <<cpu, jit, call>>

\* BlockCtx::code_page_hit for every page the store touches.
CodePageHit(a, n) ==
    \E q \in PageOf(a) .. PageOf(a + n - 1) : PageBit[q] \in {PageBit[p] : p \in jit.codePages}

Noticed_LinksLive(n, a) ==
    [n EXCEPT !.smc = IF n.hits = 0 THEN a ELSE @, !.hits = Min({2, @ + 1})]

\* What jit_write records of a store into a page with compiled code: the
\* links are dead for the rest of the chain.  More than one hit is kept as two.
Noticed(n, a) ==
    [n EXCEPT !.smc = IF n.hits = 0 THEN a ELSE @, !.hits = Min({2, @ + 1}), !.epoch = EpochDead]

\* jit_write: a store through the helper.  One into the running block's own
\* instructions ends the block after it.
HelperStore(a, n, v) ==
    LET hit == IF CodePageHit(a, n) THEN Noticed(native, a) ELSE native
        own == a < Running.rip + Len(Running.code) /\ a + n > Running.rip
        j   == IF HostSpan(ram, PageOf(a))
               THEN [jit EXCEPT !.tlb[PageOf(a)] = ram.backing[RegionAt(a)]] ELSE jit
    IN  /\ AtInsn /\ Insn.op = "store" /\ ~Cached(a, n)
        /\ Allowed(ram, a, n, "W") /\ ram.codeGen < MaxGen
        /\ ram' = Written(ram, a, n, v)
        /\ IF own THEN ComesBack(j, hit, call.retired + native.pc, Running.rip + native.pc,
                               Nothing, FALSE)
           ELSE /\ native' = [hit EXCEPT !.pc = @ + 1]
                /\ jit' = j
                /\ UNCHANGED <<cpu, call>>

NativeStore == \E a \in NativeStores, n \in Widths, v \in Values :
                   a + n - 1 \in Addr /\ (DirectStore(a, n, v) \/ HelperStore(a, n, v))

-----------------------------------------------------------------------------
(* Between two calls: the interpreter runs one instruction, or the OS layer  *)
(* serves one.                                                             *)

Fetches == Allowed(ram, cpu.rip, 1, "X")
Decoded == ram.bytes[cpu.rip]
Stepped(rip) == /\ cpu' = [cpu EXCEPT !.rip = rip]
                /\ call' = Idle("jit")
                /\ UNCHANGED <<jit, native>>
Interprets(op) == call.phase = "out" /\ call.due = "step" /\ Fetches /\ Decoded.op = op

StepPlain == Interprets("plain") /\ Stepped(cpu.rip + 1) /\ UNCHANGED ram

StepBranch ==
    /\ \/ Interprets("jmp") /\ Stepped(Decoded.to)
       \/ Interprets("jcc") /\ \E rip \in {Decoded.to, cpu.rip + 1} : Stepped(rip)
       \/ Interprets("ind") /\ \E rip \in Targets : Stepped(rip)
    /\ UNCHANGED ram

HostWrites == \E a \in HostStores, n \in Widths, v \in Values :
                  /\ Allowed(ram, a, n, "W") /\ ram.codeGen < MaxGen
                  /\ ram' = Written(ram, a, n, v)

StepStore == Interprets("store") /\ HostWrites /\ Stepped(cpu.rip + 1)

\* An exception: no instruction to fetch, or an access where there may be none.
\* The guest goes on in a handler, wherever that is.
StepFault == /\ call.phase = "out" /\ call.due = "step"
             /\ Fetches => Decoded.op \in {"plain", "store"}
             /\ \E rip \in Handlers : Stepped(rip)
             /\ UNCHANGED ram

LayoutChanges ==
    /\ ram.layoutGen < MaxLayout
    /\ \E r \in Remappable :
          \/ \E q \in Protections : ram.perm[r] # Unmapped /\ ram' = Protected(ram, r, q)
          \/ ram.perm[r] # Unmapped /\ ram' = Freed(ram, r)
          \/ ram.perm[r] = Unmapped /\ ram' = Mapped(ram, r, RWX)

\* What only the interpreter runs: a system call, which may write the guest's
\* memory or change its layout, or a far transfer into another mode.
StepOther ==
    /\ Interprets("other")
    /\ UNCHANGED ram \/ HostWrites \/ LayoutChanges
    /\ \E mode \in Modes : cpu' = [rip |-> cpu.rip + 1, mode |-> mode]
    /\ call' = Idle("jit")
    /\ UNCHANGED <<jit, native>>

\* The timeslice ends: the step is spent on the switch to another thread.
StepSwitch == /\ call.phase = "out" /\ call.due = "step"
              /\ cpu' \in [rip : Handlers, mode : Modes]
              /\ call' = Idle("jit")
              /\ UNCHANGED <<ram, jit, native>>

\* A debugger that has to see every instruction keeps the run loop from
\* compiled code for this one.
InterpretOnly == /\ Debugging
                 /\ call = Idle("jit") /\ call' = Idle("step")
                 /\ UNCHANGED <<ram, cpu, jit, native>>

Next == \/ Enter \/ InterpretOnly \/ Dispatch
        \/ NativePlain \/ NativeBranch \/ NativeEnd \/ NativeStore \/ NativeFault
        \/ StepPlain \/ StepBranch \/ StepStore \/ StepOther \/ StepFault
        \/ StepSwitch

Spec == Init /\ [][Next]_vars
-----------------------------------------------------------------------------
(* What a compiled run owes to its interpreted twin.                       *)

\* An instruction that compiled code executes is the one memory holds there
\* at that moment, in memory the guest may execute: the interpreter, which
\* decodes every instruction from live memory, would execute the same.
NativeIsFresh ==
    AtInsn => LET a == Running.rip + native.pc - 1
              IN  Allowed(ram, a, 1, "X") /\ ram.bytes[a] = Insn

\* The weaker promise of Jit::validate: a block entered from Rust was compiled
\* from what its addresses hold now, in the mode the processor is in.
EntersFresh ==
    [][(call.phase = "loop" /\ call'.phase = "native") =>
          LET b == jit'.blocks[native'.blk]
          IN  /\ b.mode = cpu.mode
              /\ \A k \in 1 .. Len(b.code) : ram.bytes[b.rip + k - 1] = b.code[k]]_vars

\* A call of Jit::run never retires more than it was allowed: whatever links
\* are followed, the block that is entered still fits under the ceiling.
BudgetCeiling ==
    call.phase = "native" => call.retired + Len(Running.code) <= call.budget

\* A link of the present epoch joins an exit of a block that is in the cache
\* to the block, compiled in the same mode, at the address the exit leads to;
\* flushes, which use slots and blocks again, retire every other link.
LinksLive ==
    \A s \in Slots : LET link == jit.links[s] IN
        link.epoch = jit.epoch =>
            /\ s[1] \in 1 .. Len(jit.blocks) /\ link.to \in 1 .. Len(jit.blocks)
            /\ LET from == jit.blocks[s[1]]
                   to   == jit.blocks[link.to]
               IN  /\ to.code # <<>> /\ to.rip = link.key /\ to.mode = from.mode
                   /\ s[2] \in DOMAIN LinkExits(from)
                   /\ LinkExits(from)[s[2]] \in {link.key, Indirect}

\* The two ways to look a block up agree, and every page a compiled block was
\* built from is one whose stores are noticed.
CacheCoherent ==
    /\ \A k \in Keys : jit.map[k] # 0 =>
          /\ jit.map[k] \in 1 .. Len(jit.blocks)
          /\ jit.blocks[jit.map[k]].rip = k[1] /\ jit.blocks[jit.map[k]].mode = k[2]
    /\ \A l \in Lines : LET line == jit.lines[l] IN
          line.gen = jit.cacheGen => line.idx = jit.map[line.rip, line.mode] /\ line.idx # 0
    /\ \A i \in 1 .. Len(jit.blocks) : jit.blocks[i].code # <<>> =>
          {jit.blocks[i].page0, jit.blocks[i].page1} \subseteq jit.codePages

\* A compiled store that bypasses the memory's own bookkeeping goes to the
\* bytes the page has now, and never to a page the guest may execute.
TlbIsCurrent ==
    call.phase = "native" =>
        \A p \in Pages : jit.tlb[p] # 0 =>
            HostSpan(ram, p) /\ jit.tlb[p] = ram.backing[RegionOf[p]]

\* The whole of it: what the guest sees of a compiled run is a run of the
\* interpreter, one instruction after the other, each as memory holds it then.
M == INSTANCE Machine WITH
        Stores <- NativeStores \union HostStores,
        bytes <- ram.bytes, perm <- ram.perm, mode <- cpu.mode,
        rip <- IF call.phase = "native" THEN Running.rip + native.pc - 1 ELSE cpu.rip
RunsAsInterpreted == M!Spec
=============================================================================
