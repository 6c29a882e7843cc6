---------------------------- MODULE ProcessorProofs ----------------------------
(***************************************************************************)
(* What runs on one guest thread: that it never gets past what the debugger *)
(* armed, for every program, filter and order of the two threads; and that  *)
(* its stack is what its functions left there, whatever they call.          *)
(***************************************************************************)
EXTENDS DebugControl, ApiCalls, FiniteSetTheorems, WellFoundedInduction,
        SequenceTheorems, TLAPS

-----------------------------------------------------------------------------
(* The inductive invariant.                                                *)

Sets == [breaks : SUBSET Armable, watches : SUBSET Words]
Rips == 1 .. Len(Text)
Blocks == UNION {[D -> Nat] : D \in SUBSET Rips}
InChain == {"check", "block_at", "block", "declined"}
DbgTyped ==
    /\ armed \in Sets /\ owed \in Sets
    /\ IsFiniteSet(armed.breaks) /\ IsFiniteSet(armed.watches)
    /\ front \in {"idle", "bp_filter", "wp_filter", "generation"}
    /\ generation \in Nat
    /\ runner \in [stage : {"head", "enter", "step", "stopped", "detached", "killed"} \cup InChain,
                   rip : Rips, stepping : {"no", "asked", "done"}, stopped : BOOLEAN,
                   retired : Nat, watched : BOOLEAN, block : Nat, pending : Nat \X Nat,
                   seen : {{}}]
    /\ cache \in [ends : Blocks, open : SUBSET Nat, links : SUBSET (Nat \X Nat), generation : Nat]

\* A filter is behind the sets only until mutate has stored it, and what is
\* still to be found was in the sets before and after the change.
FiltersRight ==
    /\ front # "bp_filter" => bp_filter = Filter(armed.breaks)
    /\ front \in {"idle", "generation"} => wp_filter = Filter(armed.watches)
    /\ owed.breaks \subseteq armed.breaks /\ Filter(owed.breaks) \subseteq bp_filter
    /\ owed.watches \subseteq armed.watches /\ Filter(owed.watches) \subseteq wp_filter

\* A block is left by its last instruction only, and a link leads to a block
\* that has one.
BlocksRight(c) ==
    /\ \A a \in DOMAIN c.ends :
         /\ a <= c.ends[a]
         /\ \A k \in Rips : a <= k /\ k + 1 < c.ends[a] => Text[k].kind \notin {"jmp", "jcc"}
    /\ \A l \in c.links : l[2] \in DOMAIN c.ends /\ l[2] < c.ends[l[2]]

\* No block has an instruction at one of the addresses.
Respects(c, breaks) == \A a \in DOMAIN c.ends, b \in breaks : b < a \/ c.ends[a] <= b

\* Blocks of the present generation were compiled for the sets it stands for.
CacheRight ==
    /\ cache.generation <= generation
    /\ cache.generation = generation => Respects(cache, Published.breaks)
    /\ runner.stage \in {"block_at", "block", "declined"} => Respects(cache, owed.breaks)

\* The head looked at the address it goes on from, and a chain that may pass
\* the watchpoints has none to find.
RunnerRight ==
    /\ runner.stage = "stopped" => runner.stopped
    /\ \/ runner.stage \in {"enter", "step"}
       \/ runner.stage \in {"check", "block_at"} /\ runner.retired = 0
       => runner.rip \notin owed.breaks \/ runner.stopped
    /\ runner.stage = "block" =>
          /\ runner.block \in DOMAIN cache.ends
          /\ runner.block <= runner.rip /\ runner.rip < cache.ends[runner.block]
    /\ runner.stage \in InChain /\ ~runner.watched => owed.watches = {}

DebugInv == DbgTyped /\ FiltersRight /\ BlocksRight(cache) /\ CacheRight /\ RunnerRight /\ ~slipped

-----------------------------------------------------------------------------
(* Where a block ends.                                                     *)

LEMMA LeastIs ==
  ASSUME NEW S, S \subseteq Nat, S # {}
  PROVE  Min(S) \in S /\ \A n \in S : Min(S) <= n
<1> DEFINE R == {ss \in Nat \X Nat : ss[1] < ss[2]}
<1>1. \E m \in S : \A n \in S : ~(<<n, m>> \in R)
  <2> HIDE DEF R
  <2>1. IsWellFoundedOn(R, Nat)
    BY NatLessThanWellFounded DEF R, OpToRel
  <2> QED BY <2>1, WFMin
<1>2. PICK m \in S : \A n \in S : ~(n < m)
  BY <1>1
<1>3. ASSUME NEW n \in S PROVE m <= n
  <2>1. ~(n < m)
    BY <1>2
  <2>2. n \in Nat /\ m \in Nat
    OBVIOUS
  <2> QED BY <2>1, <2>2
<1> QED BY <1>3 DEF Min

LEMMA EndsIs ==
  ASSUME NEW start \in Rips, NEW breaks, breaks \subseteq Nat, \A b \in breaks : start <= b
  PROVE  /\ Ends(start, breaks) \in Nat /\ start <= Ends(start, breaks)
         /\ \A b \in breaks : Ends(start, breaks) <= b
         /\ \A k \in Rips : start <= k /\ k + 1 < Ends(start, breaks) =>
                                Text[k].kind \notin {"jmp", "jcc"}
<1> USE DebugControlAssumption DEF Rips
<1> DEFINE S == {a \in start .. Len(Text) + 1 :
                   \/ breaks # {} /\ a = Min(breaks)
                   \/ a > Len(Text) \/ Text[a].kind = "other"
                   \/ a = start + BlockMax
                   \/ a > start /\ Text[a - 1].kind \in {"jmp", "jcc"}}
           e == Ends(start, breaks)
<1>1. e = Min(S)
  BY DEF Ends
<1>2. Len(Text) + 1 \in S
  OBVIOUS
<1>3. S \subseteq Nat /\ S # {}
  BY <1>2
<1>4. e \in S /\ \A n \in S : e <= n
  BY <1>1, <1>3, LeastIs
<1>5. e \in Nat /\ start <= e /\ e <= Len(Text) + 1
  BY <1>4
<1>6. ASSUME NEW b \in breaks PROVE e <= b
  <2>1. Min(breaks) \in breaks /\ Min(breaks) <= b
    BY LeastIs
  <2>2. Min(breaks) \in Nat /\ b \in Nat /\ start <= Min(breaks)
    BY <2>1
  <2>3. CASE Min(breaks) <= Len(Text) + 1
    <3>1. Min(breaks) \in S
      BY <2>2, <2>3
    <3>2. e <= Min(breaks)
      BY <1>4, <3>1
    <3> QED BY <1>5, <2>1, <2>2, <3>2
  <2>4. CASE ~(Min(breaks) <= Len(Text) + 1)
    BY <1>5, <2>1, <2>2, <2>4
  <2> QED BY <2>3, <2>4
<1>7. ASSUME NEW k \in Rips, start <= k, k + 1 < e, Text[k].kind \in {"jmp", "jcc"} PROVE FALSE
  <2>1. k + 1 \in start .. Len(Text) + 1 /\ k + 1 > start /\ (k + 1) - 1 = k
    BY <1>5, <1>7
  <2>2. k + 1 \in S
    BY <1>7, <2>1
  <2>3. e <= k + 1
    BY <1>4, <2>2
  <2> QED BY <1>5, <1>7, <2>3
<1> QED BY <1>5, <1>6, <1>7

-----------------------------------------------------------------------------
(* What the filters tell the runner.                                       *)

LEMMA FilterGrows ==
  ASSUME NEW A, NEW B, A \subseteq B
  PROVE  Filter(A) \subseteq Filter(B)
  BY DEF Filter

LEMMA PublishedIs ==
  ASSUME DbgTyped, FiltersRight
  PROVE  /\ Published \in Sets
         /\ front = "idle" => Published = armed
         /\ front # "idle" => Published.breaks = owed.breaks /\ Published.watches = owed.watches
         /\ owed.breaks \subseteq Published.breaks /\ owed.watches \subseteq Published.watches
         /\ Published.breaks \subseteq armed.breaks /\ Filter(Published.breaks) \subseteq bp_filter
         /\ Published.watches \subseteq armed.watches /\ Filter(Published.watches) \subseteq wp_filter
<1>1. CASE front = "idle"
  BY <1>1 DEF DbgTyped, FiltersRight, Published
<1>2. CASE front # "idle"
  <2>1. Published = StillArmed(armed)
    BY <1>2 DEF Published
  <2>2. Published.breaks = owed.breaks /\ Published.watches = owed.watches
    BY <2>1 DEF StillArmed, FiltersRight
  <2>3. Published \in Sets
    BY <2>1 DEF StillArmed, DbgTyped, Sets
  <2> QED BY <1>2, <2>2, <2>3 DEF FiltersRight
<1> QED BY <1>1, <1>2

\* An address the runner asks about and is not stopped at is none it must find.
LEMMA NotFound ==
  ASSUME DbgTyped, FiltersRight, NEW a, CanAnswer(bp_filter, a), ~is_break(a)
  PROVE  a \notin Published.breaks
<1> SUFFICES ASSUME a \in Published.breaks PROVE FALSE
  OBVIOUS
<1>1. Published.breaks \subseteq armed.breaks /\ Filter(Published.breaks) \subseteq bp_filter
  BY PublishedIs
<1>2. BloomBits[a] \subseteq Filter(Published.breaks)
  BY DEF Filter
<1> QED BY <1>1, <1>2 DEF is_break

\* Where a filter is empty there is nothing to find.
LEMMA NothingToFind ==
  ASSUME NEW A, A \subseteq Armable \cup Words, Filter(A) = {}
  PROVE  A = {}
  BY DebugControlAssumption DEF Filter

\* While the sets and their filters stay, the runner may look again.
LEMMA OwedStep ==
  ASSUME DbgTyped, FiltersRight,
         UNCHANGED <<armed, bp_filter, wp_filter, generation, front>>,
         owed' \in Sets, owed'.breaks \subseteq Published.breaks,
         owed'.watches \subseteq Published.watches
  PROVE  FiltersRight' /\ (Published.breaks)' \subseteq Published.breaks
<1>1. /\ Published.breaks \subseteq armed.breaks /\ Filter(Published.breaks) \subseteq bp_filter
      /\ Published.watches \subseteq armed.watches /\ Filter(Published.watches) \subseteq wp_filter
  BY PublishedIs
<1>2. Filter(owed'.breaks) \subseteq bp_filter /\ Filter(owed'.watches) \subseteq wp_filter
  BY <1>1, FilterGrows
<1>3. FiltersRight'
  <2>1. Filter(armed.breaks)' = Filter(armed.breaks) /\ Filter(armed.watches)' = Filter(armed.watches)
    BY DEF Filter
  <2>2. Filter(owed.breaks)' = Filter(owed'.breaks) /\ Filter(owed.watches)' = Filter(owed'.watches)
    BY DEF Filter
  <2> QED BY <1>1, <1>2, <2>1, <2>2 DEF FiltersRight
<1>4. (Published.breaks)' \subseteq Published.breaks
  <2>1. CASE front = "idle"
    BY <2>1 DEF Published
  <2>2. CASE front # "idle"
    <3>1. (Published.breaks)' = owed'.breaks \cap armed.breaks
      BY <2>2 DEF Published, StillArmed
    <3> QED BY <3>1
  <2> QED BY <2>1, <2>2
<1> QED BY <1>3, <1>4
\* A step that touches nothing of all this.
LEMMA Quiet ==
  ASSUME DebugInv,
         UNCHANGED <<armed, bp_filter, wp_filter, generation, front, slipped, runner, cache, owed>>
  PROVE  DebugInv'
  BY DEF DebugInv, DbgTyped, FiltersRight, Filter, BlocksRight, CacheRight, Respects, RunnerRight,
         Published, StillArmed

-----------------------------------------------------------------------------
(* The runner's own steps.                                                 *)

RunnerType == [stage : {"head", "enter", "step", "stopped", "detached", "killed"} \cup InChain,
               rip : Rips, stepping : {"no", "asked", "done"}, stopped : BOOLEAN,
               retired : Nat, watched : BOOLEAN, block : Nat, pending : Nat \X Nat,
               seen : {{}}]
CacheType == [ends : Blocks, open : SUBSET Nat, links : SUBSET (Nat \X Nat), generation : Nat]

LEMMA RunnerStep ==
  ASSUME DebugInv, UNCHANGED <<armed, bp_filter, wp_filter, generation, front, cache>>, ~slipped',
         owed' \in Sets, owed'.breaks \subseteq Published.breaks,
         owed'.watches \subseteq Published.watches,
         runner' \in RunnerType, RunnerRight',
         runner'.stage \in {"block_at", "block", "declined"} => Respects(cache, owed'.breaks)
  PROVE  DebugInv'
<1>1. FiltersRight' /\ (Published.breaks)' \subseteq Published.breaks
  BY OwedStep DEF DebugInv
<1>2. DbgTyped'
  BY DEF DebugInv, DbgTyped, RunnerType
<1>3. BlocksRight(cache)'
  BY DEF DebugInv, BlocksRight
<1>4. CacheRight'
  <2>1. cache.generation = generation => Respects(cache, (Published.breaks)')
    BY <1>1 DEF DebugInv, CacheRight, Respects
  <2>2. Respects(cache, Published.breaks)' = Respects(cache, (Published.breaks)')
        /\ Respects(cache, owed.breaks)' = Respects(cache, owed'.breaks)
    BY DEF Respects
  <2>3. cache.generation <= generation
    BY DEF DebugInv, CacheRight
  <2> QED BY <2>1, <2>2, <2>3 DEF CacheRight
<1> QED BY <1>1, <1>2, <1>3, <1>4 DEF DebugInv

\* Where a chain is not under way, or has only begun, blocks do not matter.
LEMMA Typed ==
  ASSUME DebugInv
  PROVE  /\ runner \in RunnerType /\ armed \in Sets /\ owed \in Sets /\ Published \in Sets
         /\ cache \in CacheType /\ generation \in Nat
  BY PublishedIs DEF DebugInv, DbgTyped, RunnerType, CacheType

LEMMA HaltsKeeps ==
  ASSUME DebugInv, Halts, Unmoved, UNCHANGED cache
  PROVE  DebugInv'
<1>1. runner' \in RunnerType /\ runner'.stage = "stopped" /\ runner'.stopped
  BY Typed DEF Halts, RunnerType
<1>2. owed' = Published /\ owed' \in Sets
  BY Typed DEF Halts
<1>3. RunnerRight'
  BY <1>1 DEF RunnerRight, InChain
<1> QED BY <1>1, <1>2, <1>3, RunnerStep DEF Unmoved, DebugInv

LEMMA GoesOnKeeps ==
  ASSUME DebugInv, ~StaleLoads, NEW stepping \in BOOLEAN, GoesOn(stepping), Unmoved,
         UNCHANGED cache, runner.stopped \/ runner.rip \notin Published.breaks
  PROVE  DebugInv'
<1>1. /\ runner' \in RunnerType /\ runner'.stage \in {"enter", "step"}
      /\ runner'.stopped = runner.stopped /\ runner'.rip = runner.rip
  BY Typed DEF GoesOn, RunnerType
<1>2. owed' = Published /\ owed' \in Sets
  BY Typed DEF GoesOn
<1>3. RunnerRight'
  BY <1>1, <1>2 DEF RunnerRight, InChain
<1> QED BY <1>1, <1>2, <1>3, RunnerStep DEF Unmoved, DebugInv

LEMMA HeadKeeps ==
  ASSUME DebugInv, ~StaleLoads, HeadPending \/ HeadLooks
  PROVE  DebugInv'
<1>1. CASE HeadPending
  BY <1>1, HaltsKeeps DEF HeadPending
<1>2. CASE HeadLooks
  <2>1. CASE stop_request = "Pause" \/ is_break(runner.rip)
    BY <1>2, <2>1, HaltsKeeps DEF HeadLooks
  <2>2. CASE ~(stop_request = "Pause" \/ is_break(runner.rip))
    <3>1. runner.rip \notin Published.breaks
      BY <1>2, <2>2, NotFound DEF HeadLooks, DebugInv
    <3> QED BY <1>2, <2>2, <3>1, GoesOnKeeps DEF HeadLooks
  <2> QED BY <2>1, <2>2
<1> QED BY <1>1, <1>2

\* Leaving Jit::run, for the interpreter or for the head.
LEMMA LeavesChain ==
  ASSUME DebugInv, UNCHANGED <<armed, bp_filter, wp_filter, generation, front, cache, owed>>,
         ~slipped',
         runner' \in RunnerType, runner'.stage \in {"head", "step"},
         runner'.stage = "step" => runner'.rip \notin owed.breaks \/ runner'.stopped
  PROVE  DebugInv'
<1>1. RunnerRight'
  BY DEF RunnerRight, InChain
<1> QED BY <1>1, PublishedIs, RunnerStep, Typed DEF DebugInv

LEMMA EnterChainKeeps ==
  ASSUME DebugInv, EnterChain
  PROVE  DebugInv'
<1>1. /\ runner' \in RunnerType /\ runner'.stage = "check" /\ runner'.retired = 0
      /\ runner'.stopped = runner.stopped /\ runner'.rip = runner.rip
      /\ runner'.watched = any_watchpoints
  BY Typed DEF EnterChain, RunnerType, InChain, any_watchpoints
<1>2. /\ owed' \in Sets /\ owed'.breaks = owed.breaks /\ owed'.watches = Published.watches
  BY Typed DEF EnterChain, Sets
<1>3. owed.breaks \subseteq Published.breaks /\ Filter(Published.watches) \subseteq wp_filter
  BY PublishedIs DEF DebugInv
<1>4. ~any_watchpoints => Published.watches = {}
  BY <1>3, NothingToFind, Typed DEF any_watchpoints, Sets
<1>5. RunnerRight'
  BY <1>1, <1>2, <1>4 DEF RunnerRight, DebugInv, EnterChain, Runner
<1> QED BY <1>1, <1>2, <1>3, <1>5, RunnerStep DEF EnterChain, Unmoved, DebugInv

LEMMA DeclinedKeeps ==
  ASSUME DebugInv, Declined
  PROVE  DebugInv'
<1>1. /\ runner' \in RunnerType /\ runner'.rip = runner.rip
      /\ runner'.stage = IF is_break(runner.rip) THEN "head" ELSE "step"
  BY Typed DEF Declined, Back, RunnerType
<1>2. ~is_break(runner.rip) => runner.rip \notin owed.breaks
  BY NotFound, PublishedIs DEF Declined, DebugInv
<1> QED BY <1>1, <1>2, LeavesChain DEF Declined, Unmoved, DebugInv

\* In a block no address is one the runner must find.
LEMMA InBlockIsClear ==
  ASSUME DebugInv, runner.stage = "block"
  PROVE  /\ runner.rip \notin owed.breaks
         /\ runner.block \in DOMAIN cache.ends /\ runner.block \in Rips
         /\ cache.ends[runner.block] \in Nat /\ runner.block <= runner.rip
         /\ runner.rip < cache.ends[runner.block]
<1>1. /\ runner.block \in DOMAIN cache.ends
      /\ runner.block <= runner.rip /\ runner.rip < cache.ends[runner.block]
      /\ Respects(cache, owed.breaks)
  BY DEF DebugInv, RunnerRight, CacheRight
<1>2. runner.block \in Rips /\ cache.ends[runner.block] \in Nat
  <2>1. PICK D \in SUBSET Rips : cache.ends \in [D -> Nat]
    BY Typed DEF CacheType, Blocks
  <2> QED BY <1>1, <2>1
<1>3. runner.rip \in Nat /\ owed.breaks \subseteq Nat /\ runner.block \in Nat
  <2>1. Rips \subseteq Nat /\ Armable \subseteq Nat
    BY DebugControlAssumption DEF Rips
  <2>2. runner.rip \in Rips /\ runner.block \in Nat /\ owed.breaks \subseteq Armable
    BY Typed DEF RunnerType, Sets
  <2> QED BY <2>1, <2>2
<1>4. ASSUME runner.rip \in owed.breaks PROVE FALSE
  <2>1. runner.rip < runner.block \/ cache.ends[runner.block] <= runner.rip
    BY <1>1, <1>4 DEF Respects
  <2> QED BY <1>1, <1>2, <1>3, <2>1
<1> QED BY <1>1, <1>2, <1>4

LEMMA RefusesKeeps ==
  ASSUME DebugInv, Refuses
  PROVE  DebugInv'
<1>1. runner' \in RunnerType /\ runner'.rip = runner.rip /\ runner'.stage = "step"
  BY Typed DEF Refuses, Back, RunnerType
<1>2. runner.rip \notin owed.breaks
  BY InBlockIsClear DEF Refuses, Runner
<1> QED BY <1>1, <1>2, LeavesChain DEF Refuses, Unmoved, DebugInv
-----------------------------------------------------------------------------
(* Where the chain comes back to the engine.                               *)

\* debug_generation_check: blocks of another generation go.
LEMMA CheckKeeps ==
  ASSUME DebugInv, debug_generation_check
  PROVE  DebugInv'
<1>0. /\ UNCHANGED <<armed, bp_filter, wp_filter, generation, front, slipped>>
      /\ runner.stage = "check"
  BY DEF debug_generation_check, Unmoved, Runner
<1>1. /\ runner' \in RunnerType /\ runner'.stage = "block_at" /\ runner'.rip = runner.rip
      /\ runner'.stopped = runner.stopped /\ runner'.retired = runner.retired
      /\ runner'.watched = runner.watched
  <2>1. NoLink \in Nat \X Nat
    BY DEF NoLink
  <2> QED BY <2>1, Typed DEF debug_generation_check, RunnerType, InChain
<1>2. /\ owed' \in Sets /\ owed'.watches = owed.watches
      /\ owed'.breaks = IF runner.retired > 0 THEN Published.breaks
                        ELSE Published.breaks \ ({runner.rip} \ owed.breaks)
  BY Typed DEF debug_generation_check, LooksAgain, Sets
<1>3. FiltersRight' /\ (Published.breaks)' \subseteq Published.breaks
  BY <1>0, <1>2, OwedStep, PublishedIs DEF DebugInv
<1>4. /\ cache' \in CacheType /\ cache'.generation = generation
      /\ BlocksRight(cache') /\ Respects(cache', Published.breaks)
  <2>1. CASE generation = cache.generation
    BY <2>1, Typed DEF debug_generation_check, DebugInv, CacheRight
  <2>2. CASE generation # cache.generation
    <3>1. cache' = [ends |-> NoBlocks, open |-> {}, links |-> {}, generation |-> generation]
      BY <2>2 DEF debug_generation_check, Flushed
    <3>2. NoBlocks \in [{} -> Nat] /\ DOMAIN NoBlocks = {}
      BY DEF NoBlocks
    <3>3. NoBlocks \in Blocks
      BY <3>2 DEF Blocks
    <3> QED BY <3>1, <3>2, <3>3, Typed DEF CacheType, BlocksRight, Respects
  <2> QED BY <2>1, <2>2
<1>5. DbgTyped'
  BY <1>0, <1>1, <1>2, <1>4 DEF DebugInv, DbgTyped, RunnerType, CacheType
<1>6. CacheRight'
  <2>1. Respects(cache', (Published.breaks)') /\ Respects(cache', owed'.breaks)
    BY <1>2, <1>3, <1>4 DEF Respects
  <2>2. Respects(cache, Published.breaks)' = Respects(cache', (Published.breaks)')
        /\ Respects(cache, owed.breaks)' = Respects(cache', owed'.breaks)
    BY DEF Respects
  <2> QED BY <1>0, <1>4, <2>1, <2>2, Typed DEF CacheRight
<1>7. RunnerRight'
  <2>1. /\ runner.retired = 0 => runner.rip \notin owed.breaks \/ runner.stopped
        /\ ~runner.watched => owed.watches = {}
    BY <1>0 DEF DebugInv, RunnerRight, InChain
  <2>2. runner.retired = 0 => runner.rip \notin owed'.breaks \/ runner.stopped
    BY <1>2, <2>1
  <2> QED BY <1>1, <1>2, <2>1, <2>2 DEF RunnerRight
<1>8. BlocksRight(cache)'
  BY <1>4 DEF BlocksRight
<1> QED BY <1>0, <1>3, <1>5, <1>6, <1>7, <1>8 DEF DebugInv

\* The block that is found or compiled at the address of the runner.
Found(c) ==
    /\ c \in CacheType /\ c.generation = cache.generation
    /\ runner.rip \in DOMAIN c.ends
    /\ BlocksRight(c) /\ Respects(c, owed.breaks)
    /\ cache.generation = generation => Respects(c, Published.breaks)

LEMMA EntersKeeps ==
  ASSUME DebugInv, runner.stage = "block_at", NEW c, Found(c), EntersBlock(c)
  PROVE  DebugInv'
<1> DEFINE address == runner.rip
           insns == c.ends[address] - address
<1>0. UNCHANGED <<armed, bp_filter, wp_filter, generation, front, slipped, owed>>
  BY DEF EntersBlock, Unmoved
<1>1. c.ends[address] \in Nat /\ address \in Nat /\ address <= c.ends[address]
  <2>1. PICK D \in SUBSET Rips : c.ends \in [D -> Nat]
    BY DEF Found, CacheType, Blocks
  <2>2. Rips \subseteq Nat
    BY DebugControlAssumption DEF Rips
  <2> QED BY <2>1, <2>2 DEF Found, BlocksRight
<1>2. runner \in RunnerType /\ runner.retired \in Nat
  BY Typed DEF RunnerType
<1>3. /\ cache' \in CacheType /\ cache'.ends = c.ends /\ cache'.generation = cache.generation
      /\ BlocksRight(cache')
  <2>1. CASE runner.pending # NoLink /\ runner.pending[2] = address /\ insns # 0
    <3>1. /\ cache' = [c EXCEPT !.links = @ \cup {runner.pending}]
          /\ runner.pending \in Nat \X Nat
      BY <1>2, <2>1 DEF EntersBlock, RunnerType
    <3>2. /\ cache' \in CacheType /\ cache'.ends = c.ends /\ cache'.generation = c.generation
          /\ cache'.links = c.links \cup {runner.pending}
      BY <3>1 DEF Found, CacheType
    <3>3. address < c.ends[address]
      BY <1>1, <2>1
    <3> QED BY <2>1, <3>2, <3>3 DEF Found, BlocksRight
  <2>2. CASE ~(runner.pending # NoLink /\ runner.pending[2] = address /\ insns # 0)
    <3>1. cache' = c
      BY <2>2 DEF EntersBlock
    <3> QED BY <3>1 DEF Found
  <2> QED BY <2>1, <2>2
<1>4. FiltersRight' /\ (Published.breaks)' = Published.breaks
  BY <1>0 DEF DebugInv, FiltersRight, Filter, Published, StillArmed
<1>5. Respects(cache', owed.breaks)
      /\ (cache'.generation = generation => Respects(cache', Published.breaks))
  BY <1>3 DEF Found, Respects
<1>6. /\ runner' \in RunnerType /\ runner'.rip = address /\ runner'.stopped = runner.stopped
      /\ runner'.stage \in {"declined", "step", "block"}
      /\ runner'.stage = "step" =>
            runner.retired = 0 \/ address < c.ends[address]
      /\ runner'.stage = "block" => runner'.block = address /\ address < c.ends[address]
      /\ runner'.stage # "step" => runner'.watched = runner.watched
  <2> DEFINE r == [runner EXCEPT !.pending = NoLink]
  <2>1. /\ r \in RunnerType /\ r.rip = address /\ r.stopped = runner.stopped
        /\ r.retired = runner.retired /\ r.watched = runner.watched
    <3>1. NoLink \in Nat \X Nat
      BY DEF NoLink
    <3> QED BY <1>2, <3>1 DEF RunnerType
  <2>2. CASE insns = 0 /\ runner.retired > 0
    <3>1. runner' = [r EXCEPT !.stage = "declined"]
      BY <2>1, <2>2 DEF EntersBlock
    <3> HIDE DEF r
    <3> QED BY <2>1, <3>1 DEF RunnerType, InChain
  <2>3. CASE ~(insns = 0 /\ runner.retired > 0) /\ (insns = 0 \/ runner.retired + insns > BudgetMax)
    <3>1. runner' = Back(r, "step")
      BY <2>1, <2>3 DEF EntersBlock
    <3> HIDE DEF r
    <3>2. runner' \in RunnerType /\ runner'.rip = address /\ runner'.stopped = runner.stopped
          /\ runner'.stage = "step"
      BY <2>1, <3>1 DEF Back, RunnerType
    <3>3. runner.retired = 0 \/ address < c.ends[address]
      BY <1>1, <1>2, <2>3
    <3> QED BY <3>2, <3>3
  <2>4. CASE ~(insns = 0 /\ runner.retired > 0) /\ ~(insns = 0 \/ runner.retired + insns > BudgetMax)
    <3>1. runner' = [r EXCEPT !.stage = "block", !.block = address]
      BY <2>1, <2>4 DEF EntersBlock
    <3>2. address < c.ends[address]
      BY <1>1, <2>4
    <3> HIDE DEF r
    <3> QED BY <1>1, <2>1, <3>1, <3>2 DEF RunnerType, InChain
  <2> QED BY <2>2, <2>3, <2>4
<1>7. address < c.ends[address] => address \notin owed.breaks
  <2>1. owed.breaks \subseteq Nat
    BY Typed, DebugControlAssumption DEF Sets
  <2>2. ASSUME address \in owed.breaks, address < c.ends[address] PROVE FALSE
    <3>1. address < address \/ c.ends[address] <= address
      BY <2>2 DEF Found, Respects
    <3> QED BY <1>1, <2>2, <3>1
  <2> QED BY <2>2
<1>8. RunnerRight'
  <2>1. /\ runner.retired = 0 => address \notin owed.breaks \/ runner.stopped
        /\ ~runner.watched => owed.watches = {}
    BY DEF DebugInv, RunnerRight, InChain
  <2>2. runner'.stage = "step" => address \notin owed.breaks \/ runner.stopped
    BY <1>6, <1>7, <2>1
  <2>3. runner'.stage = "block" => address \in DOMAIN cache'.ends /\ address < cache'.ends[address]
    BY <1>3, <1>6 DEF Found
  <2> HIDE DEF address
  <2>4. runner'.rip <= runner'.rip
    BY <1>1, <1>6
  <2> QED BY <1>0, <1>6, <2>1, <2>2, <2>3, <2>4 DEF RunnerRight, InChain
<1>9. CacheRight'
  <2>1. Respects(cache, Published.breaks)' = Respects(cache', Published.breaks)
        /\ Respects(cache, owed.breaks)' = Respects(cache', owed.breaks)
    BY <1>0, <1>4 DEF Respects
  <2>2. cache.generation <= generation
    BY DEF DebugInv, CacheRight
  <2> QED BY <1>0, <1>3, <1>5, <2>1, <2>2 DEF CacheRight
<1>10. DbgTyped'
  BY <1>0, <1>3, <1>6 DEF DebugInv, DbgTyped, RunnerType, CacheType
<1>11. BlocksRight(cache)'
  BY <1>3 DEF BlocksRight
<1> QED BY <1>0, <1>4, <1>8, <1>9, <1>10, <1>11 DEF DebugInv

\* A block is compiled behind no address that must be found.
LEMMA CompiledIsFound ==
  ASSUME DebugInv, runner.stage = "block_at", runner.rip \notin DOMAIN cache.ends,
         bp_filter # {} => front = "idle"
  PROVE  Found(Compiled(runner.rip, next_break_at_or_after(runner.rip, bp_filter)))
<1> DEFINE address == runner.rip
           breaks == next_break_at_or_after(address, bp_filter)
           c == Compiled(address, breaks)
           e == Ends(address, breaks)
<1>1. /\ address \in Rips /\ address \in Nat /\ Rips \subseteq Nat /\ Armable \subseteq Nat
  BY Typed, DebugControlAssumption DEF RunnerType, Rips
<1>2. breaks \subseteq Nat /\ \A b \in breaks : address <= b
  BY <1>1, Typed DEF next_break_at_or_after, Sets
<1>3. /\ e \in Nat /\ address <= e /\ \A b \in breaks : e <= b
      /\ \A k \in Rips : address <= k /\ k + 1 < e => Text[k].kind \notin {"jmp", "jcc"}
  <2> HIDE DEF address, breaks
  <2> QED BY <1>1, <1>2, EndsIs
<1>4. \A b \in Published.breaks : address <= b => b \in breaks
  <2>1. Published.breaks \subseteq armed.breaks /\ Filter(Published.breaks) \subseteq bp_filter
    BY PublishedIs DEF DebugInv
  <2>2. CASE bp_filter = {}
    <3>1. Published.breaks \subseteq Armable \cup Words
      BY Typed DEF Sets
    <3>2. Published.breaks = {}
      BY <2>1, <2>2, <3>1, NothingToFind
    <3> QED BY <3>2
  <2>3. CASE bp_filter # {}
    BY <2>1, <2>3 DEF next_break_at_or_after
  <2> QED BY <2>2, <2>3
<1>5. /\ c \in CacheType /\ c.generation = cache.generation /\ c.links = cache.links
      /\ c.ends = [a \in DOMAIN cache.ends \cup {address} |-> IF a = address THEN e ELSE cache.ends[a]]
  <2> HIDE DEF address, breaks, e
  <2>1. c = [cache EXCEPT !.ends = [a \in DOMAIN @ \cup {address} |-> IF a = address THEN e ELSE @[a]],
                          !.open = IF e # address /\ Links(address, e) THEN @ \cup {address} ELSE @]
    BY DEF Compiled, e
  <2>2. PICK D \in SUBSET Rips : cache.ends \in [D -> Nat]
    BY Typed DEF CacheType, Blocks
  <2>3. [a \in DOMAIN cache.ends \cup {address} |-> IF a = address THEN e ELSE cache.ends[a]]
            \in [D \cup {address} -> Nat]
    BY <1>3, <2>2
  <2>4. [a \in DOMAIN cache.ends \cup {address} |-> IF a = address THEN e ELSE cache.ends[a]] \in Blocks
    BY <1>1, <2>3 DEF Blocks
  <2> HIDE DEF c
  <2> QED BY <1>1, <2>1, <2>4, Typed DEF CacheType
<1>6. /\ DOMAIN c.ends = DOMAIN cache.ends \cup {address} /\ c.ends[address] = e
      /\ \A a \in DOMAIN cache.ends : c.ends[a] = cache.ends[a]
  <2> HIDE DEF address, breaks, e, c
  <2> QED BY <1>5 DEF address
<1>7. BlocksRight(c)
  <2> HIDE DEF breaks, e, c
  <2>1. BlocksRight(cache)
    BY DEF DebugInv
  <2>2. \A l \in c.links : l[2] \in DOMAIN c.ends /\ l[2] < c.ends[l[2]]
    BY <1>5, <1>6, <2>1 DEF BlocksRight
  <2>3. ASSUME NEW a \in DOMAIN c.ends
        PROVE  /\ a <= c.ends[a]
               /\ \A k \in Rips : a <= k /\ k + 1 < c.ends[a] => Text[k].kind \notin {"jmp", "jcc"}
    <3>1. CASE a = address
      BY <1>3, <1>6, <3>1
    <3>2. CASE a \in DOMAIN cache.ends
      BY <1>6, <2>1, <3>2 DEF BlocksRight
    <3> QED BY <1>6, <3>1, <3>2
  <2> QED BY <2>2, <2>3 DEF BlocksRight
<1>8. ASSUME NEW B, B \subseteq Published.breaks, Respects(cache, B) PROVE Respects(c, B)
  <2> HIDE DEF breaks, e, c, address
  <2> SUFFICES ASSUME NEW a \in DOMAIN c.ends, NEW b \in B PROVE b < a \/ c.ends[a] <= b
    BY DEF Respects
  <2>1. CASE a \in DOMAIN cache.ends
    BY <1>6, <1>8, <2>1 DEF Respects
  <2>2. CASE a = address
    <3>1. b \in Published.breaks /\ b \in Nat
      BY <1>1, <1>8, Typed DEF Sets
    <3>2. address <= b => e <= b
      BY <1>3, <1>4, <3>1
    <3> QED BY <1>1, <1>6, <2>2, <3>1, <3>2
  <2> QED BY <1>6, <2>1, <2>2
<1>9. Respects(cache, owed.breaks) /\ owed.breaks \subseteq Published.breaks
  BY PublishedIs DEF DebugInv, CacheRight
<1>10. cache.generation = generation => Respects(cache, Published.breaks)
  BY DEF DebugInv, CacheRight
<1> HIDE DEF c
<1> QED BY <1>5, <1>6, <1>7, <1>8, <1>9, <1>10 DEF Found, c

LEMMA BlockAtKeeps ==
  ASSUME DebugInv, ~StaleLoads, block_at
  PROVE  DebugInv'
<1>1. runner.stage = "block_at"
  BY DEF block_at, Runner
<1>2. CASE runner.rip \in DOMAIN cache.ends /\ EntersBlock(cache)
  <2>1. Found(cache)
    BY <1>1, <1>2, Typed DEF Found, DebugInv, CacheRight
  <2> QED BY <1>1, <1>2, <2>1, EntersKeeps
<1>3. CASE /\ runner.rip \notin DOMAIN cache.ends
           /\ bp_filter # {} => front = "idle"
           /\ EntersBlock(Compiled(runner.rip, next_break_at_or_after(runner.rip, bp_filter)))
  BY <1>1, <1>3, CompiledIsFound, EntersKeeps
<1> QED BY <1>2, <1>3 DEF block_at
-----------------------------------------------------------------------------
(* Instructions.                                                           *)

LEMMA StepsInterpretedKeeps ==
  ASSUME DebugInv, StepsInterpreted
  PROVE  DebugInv'
<1>0. runner.stage = "step"
  BY DEF StepsInterpreted, Runner
<1>1. runner \in RunnerType
  BY Typed
<1>2. runner' \in RunnerType /\ runner'.stage = "head"
  <2>1. PICK address \in NextRips(runner.rip) : runner' = [Retires EXCEPT !.stage = "head", !.rip = address]
    BY DEF StepsInterpreted
  <2>2. address \in Rips
    BY <1>1, DebugControlAssumption DEF RunnerType, Rips
  <2>3. Retires \in RunnerType
    BY <1>1 DEF Retires, RunnerType
  <2> QED BY <2>1, <2>2, <2>3 DEF RunnerType
<1>3. runner.rip \notin owed.breaks \/ runner.stopped
  BY <1>0 DEF DebugInv, RunnerRight
<1>4. ~slipped'
  BY <1>3 DEF StepsInterpreted, Access, Passes, DebugInv
<1> QED BY <1>2, <1>4, LeavesChain DEF StepsInterpreted

LEMMA RunsCompiledKeeps ==
  ASSUME DebugInv, RunsCompiled
  PROVE  DebugInv'
<1>0. /\ runner.stage = "block" /\ runner \in RunnerType /\ runner.retired \in Nat
      /\ UNCHANGED <<armed, bp_filter, wp_filter, generation, front, cache, owed>>
  BY Typed DEF RunsCompiled, Runner, RunnerType
<1>1. /\ runner.rip \notin owed.breaks
      /\ runner.block \in DOMAIN cache.ends /\ runner.block \in Rips
      /\ cache.ends[runner.block] \in Nat /\ runner.block <= runner.rip
      /\ runner.rip < cache.ends[runner.block]
  BY <1>0, InBlockIsClear
<1>2. ~runner.watched => owed.watches = {}
  BY <1>0 DEF DebugInv, RunnerRight, InChain
<1>3. ~slipped'
  <2>1. PICK fast \in BOOLEAN : (fast => ~runner.watched) /\ Passes(~fast)
    BY DEF RunsCompiled, Access
  <2> QED BY <1>1, <1>2, <2>1 DEF Passes, DebugInv
<1>4. PICK address \in NextRips(runner.rip) :
         runner' = IF runner.rip + 1 = cache.ends[runner.block] THEN Left(address, runner.retired + 1)
                   ELSE [Retires EXCEPT !.rip = address, !.retired = runner.retired + 1]
  BY DEF RunsCompiled
<1>5. address \in Rips /\ address \in Nat /\ runner.rip \in Rips /\ runner.rip \in Nat
  <2>1. Rips \subseteq Nat
    BY DebugControlAssumption DEF Rips
  <2> QED BY <1>0, <2>1, DebugControlAssumption DEF RunnerType, Rips
<1>6. /\ Retires \in RunnerType /\ Retires.stage = "block" /\ Retires.rip = runner.rip
      /\ Retires.watched = runner.watched /\ Retires.block = runner.block
  BY <1>0 DEF Retires, RunnerType
<1> DEFINE Goes ==
      /\ runner' \in RunnerType
      /\ \/ runner'.stage = "head"
         \/ runner'.stage = "check" /\ runner'.retired # 0 /\ runner'.watched = runner.watched
         \/ /\ runner'.stage = "block" /\ runner'.watched = runner.watched
            /\ runner'.block \in DOMAIN cache.ends
            /\ runner'.block <= runner'.rip /\ runner'.rip < cache.ends[runner'.block]
<1>7. Goes
  <2>1. ASSUME runner.rip + 1 # cache.ends[runner.block]  PROVE Goes
    <3> DEFINE n == runner.retired + 1
    <3>0. n \in Nat
      BY <1>0
    <3>1. runner' = [Retires EXCEPT !.rip = address, !.retired = n]
      BY <1>4, <2>1
    <3>2. /\ runner' \in RunnerType /\ runner'.stage = "block" /\ runner'.rip = address
          /\ runner'.watched = runner.watched /\ runner'.block = runner.block
      <4> HIDE DEF n
      <4> QED BY <1>5, <1>6, <3>0, <3>1 DEF RunnerType
    <3>3. runner.rip + 1 < cache.ends[runner.block]
      BY <1>1, <1>5, <2>1
    <3>4. Text[runner.rip].kind \notin {"jmp", "jcc"}
      BY <1>1, <1>5, <3>3 DEF DebugInv, BlocksRight
    <3>5. address = runner.rip + 1
      BY <3>4 DEF NextRips
    <3>6. runner.block <= address
      BY <1>1, <1>5, <3>5 DEF Rips
    <3> QED BY <1>1, <3>2, <3>3, <3>5, <3>6
  <2>2. ASSUME runner.rip + 1 = cache.ends[runner.block]  PROVE Goes
    <3> DEFINE exit == <<runner.block, address>>
               n == runner.retired + 1
    <3>0. runner' = Left(address, n) /\ n \in Nat /\ n # 0
      BY <1>0, <1>4, <2>2
    <3>1. CASE exit \in cache.links /\ n + Longest <= BudgetMax
      <4>1. runner' = [Retires EXCEPT !.block = address, !.rip = address, !.retired = n]
        BY <3>0, <3>1 DEF Left
      <4>2. address \in DOMAIN cache.ends /\ address < cache.ends[address]
        BY <3>1 DEF DebugInv, BlocksRight
      <4> HIDE DEF n
      <4>3. /\ runner' \in RunnerType /\ runner'.stage = "block" /\ runner'.rip = address
            /\ runner'.watched = runner.watched /\ runner'.block = address
        BY <1>5, <1>6, <3>0, <4>1 DEF RunnerType
      <4> QED BY <1>5, <4>2, <4>3
    <3>2. CASE ~(exit \in cache.links /\ n + Longest <= BudgetMax)
      <4> DEFINE r == [Retires EXCEPT !.rip = address,
                                      !.pending = IF runner.block \in cache.open THEN exit ELSE NoLink]
      <4>1. r \in RunnerType /\ r.watched = runner.watched
        <5>1. exit \in Nat \X Nat /\ NoLink \in Nat \X Nat
          BY <1>0, <1>5 DEF RunnerType, NoLink
        <5> HIDE DEF exit
        <5> QED BY <1>5, <1>6, <5>1 DEF RunnerType
      <4>2. CASE n >= BudgetMax
        <5>1. runner' = Back(r, "head")
          BY <3>0, <3>2, <4>2 DEF Left
        <5> HIDE DEF r
        <5> QED BY <4>1, <5>1 DEF Back, RunnerType
      <4>3. CASE ~(n >= BudgetMax)
        <5>1. runner' = [r EXCEPT !.stage = "check", !.block = 0, !.retired = n]
          BY <3>0, <3>2, <4>3 DEF Left
        <5> HIDE DEF r, n
        <5>2. runner' \in RunnerType
          <6>1. "check" \in InChain /\ 0 \in Nat /\ n \in Nat
            BY <3>0 DEF InChain
          <6> QED BY <4>1, <5>1, <6>1 DEF RunnerType
        <5>3. runner'.stage = "check" /\ runner'.retired = n /\ runner'.watched = r.watched
          BY <3>0, <4>1, <5>1 DEF RunnerType
        <5> QED BY <3>0, <4>1, <5>2, <5>3
      <4> QED BY <4>2, <4>3
    <3> QED BY <3>1, <3>2
  <2> HIDE DEF Goes
  <2> QED BY <2>1, <2>2
<1>8. RunnerRight'
  BY <1>0, <1>2, <1>7 DEF RunnerRight, InChain
<1>9. Respects(cache, owed.breaks)
  BY <1>0 DEF DebugInv, CacheRight
<1> QED BY <1>0, <1>3, <1>7, <1>8, <1>9, RunnerStep, PublishedIs, Typed DEF DebugInv

-----------------------------------------------------------------------------
(* Commands served while the runner is stopped.                            *)

LEMMA ChangesAreSets ==
  ASSUME DebugInv, NEW sets \in Changes
  PROVE  sets \in Sets /\ IsFiniteSet(sets.breaks) /\ IsFiniteSet(sets.watches)
<1>1. armed \in Sets /\ IsFiniteSet(armed.breaks) /\ IsFiniteSet(armed.watches)
  BY DEF DebugInv, DbgTyped
<1>2. ASSUME NEW a \in Armable
      PROVE  /\ sets = [armed EXCEPT !.breaks = @ \cup {a}] \/ sets = [armed EXCEPT !.breaks = @ \ {a}] =>
                  sets \in Sets /\ IsFiniteSet(sets.breaks) /\ IsFiniteSet(sets.watches)
  BY <1>1, FS_AddElement, FS_RemoveElement DEF Sets
<1>3. ASSUME NEW w \in Words
      PROVE  /\ sets = [armed EXCEPT !.watches = @ \cup {w}] \/ sets = [armed EXCEPT !.watches = @ \ {w}] =>
                  sets \in Sets /\ IsFiniteSet(sets.breaks) /\ IsFiniteSet(sets.watches)
  BY <1>1, FS_AddElement, FS_RemoveElement DEF Sets
<1> QED BY <1>2, <1>3 DEF Changes

LEMMA ServeArmsKeeps ==
  ASSUME DebugInv, NEW sets \in Changes, ServeArms(sets)
  PROVE  DebugInv'
<1>1. /\ armed' = sets /\ owed' = sets /\ bp_filter' = Filter(sets.breaks)
      /\ wp_filter' = Filter(sets.watches) /\ generation' = generation + 1
      /\ UNCHANGED <<front, runner, cache, slipped>> /\ runner.stage = "stopped"
  BY DEF ServeArms, Runner
<1>2. DbgTyped'
  BY <1>1, ChangesAreSets DEF DebugInv, DbgTyped
<1>3. FiltersRight'
  BY <1>1 DEF FiltersRight, Filter
<1>4. CacheRight'
  <2>1. cache.generation <= generation /\ cache.generation \in Nat /\ generation \in Nat
    BY Typed DEF DebugInv, CacheRight, CacheType
  <2> QED BY <1>1, <2>1 DEF CacheRight
<1>5. RunnerRight' /\ BlocksRight(cache)'
  BY <1>1 DEF DebugInv, RunnerRight, BlocksRight, InChain
<1> QED BY <1>1, <1>2, <1>3, <1>4, <1>5 DEF DebugInv

LEMMA ServeDetachKeeps ==
  ASSUME DebugInv, ServeDetach
  PROVE  DebugInv'
<1> DEFINE n == Cardinality(armed.breaks) + Cardinality(armed.watches)
<1>1. /\ armed' = NoArms /\ owed' = NoArms /\ bp_filter' = {} /\ wp_filter' = {}
      /\ generation' = generation + n /\ front = "idle"
      /\ runner' = [runner EXCEPT !.stage = "detached"]
      /\ UNCHANGED <<front, cache, slipped>>
  BY DEF ServeDetach
<1>2. n \in Nat
  BY FS_CardinalityType DEF DebugInv, DbgTyped
<1> HIDE DEF n
<1>3. NoArms \in Sets /\ NoArms.breaks = {} /\ NoArms.watches = {} /\ IsFiniteSet({})
  BY FS_EmptySet DEF NoArms, Sets
<1>4. DbgTyped'
  BY <1>1, <1>2, <1>3 DEF DebugInv, DbgTyped
<1>5. FiltersRight'
  BY <1>1, <1>3 DEF FiltersRight, Filter
<1>6. runner'.stage = "detached"
  BY <1>1, Typed DEF RunnerType
<1>7. CacheRight'
  <2>1. cache.generation <= generation /\ cache.generation \in Nat /\ generation \in Nat
    BY Typed DEF DebugInv, CacheRight, CacheType
  <2>2. (Published.breaks)' = {}
    BY <1>1, <1>3 DEF Published
  <2>3. Respects(cache, Published.breaks)'
    BY <2>2 DEF Respects
  <2> QED BY <1>1, <1>2, <1>6, <2>1, <2>3 DEF CacheRight
<1>8. RunnerRight' /\ BlocksRight(cache)'
  BY <1>1, <1>6 DEF DebugInv, RunnerRight, BlocksRight, InChain
<1> QED BY <1>1, <1>4, <1>5, <1>7, <1>8 DEF DebugInv

LEMMA ServesKeep ==
  ASSUME DebugInv, ~StaleLoads,
         \/ \E sets \in Changes : ServeArms(sets)
         \/ \E w \in Words : ServeReads(w)
         \/ \E stepping \in BOOLEAN : ServeGoes(stepping)
         \/ ServeDetach \/ ServeKill
  PROVE  DebugInv'
<1>1. CASE \E w \in Words : ServeReads(w)
  <2>1. UNCHANGED <<armed, bp_filter, wp_filter, generation, front, slipped, runner, cache, owed>>
    BY <1>1 DEF ServeReads, Unmoved
  <2> QED BY <2>1, Quiet
<1>2. ASSUME NEW stepping \in BOOLEAN, ServeGoes(stepping) PROVE DebugInv'
  <2>1. runner.stopped
    BY <1>2 DEF ServeGoes, Runner, DebugInv, RunnerRight
  <2> QED BY <1>2, <2>1, GoesOnKeeps DEF ServeGoes
<1>3. CASE ServeKill
  <2>1. runner' \in RunnerType /\ runner'.stage = "killed"
    BY <1>3, Typed DEF ServeKill, RunnerType
  <2>2. RunnerRight'
    BY <2>1 DEF RunnerRight, InChain
  <2> QED BY <1>3, <2>1, <2>2, RunnerStep, PublishedIs, Typed DEF ServeKill, Unmoved, DebugInv
<1> QED BY <1>1, <1>2, <1>3, ServeArmsKeeps, ServeDetachKeeps

-----------------------------------------------------------------------------
(* The front end's thread.                                                 *)

\* What is to be found only shrinks, and the runner does not move.
LEMMA FrontStep ==
  ASSUME DebugInv, UNCHANGED <<runner, cache, slipped>>, owed' \in Sets,
         owed'.breaks \subseteq owed.breaks, owed'.watches \subseteq owed.watches,
         FiltersRight', armed' \in Sets, IsFiniteSet(armed'.breaks), IsFiniteSet(armed'.watches),
         front' \in {"idle", "bp_filter", "wp_filter", "generation"},
         \/ generation' = generation /\ (Published.breaks)' \subseteq Published.breaks
         \/ generation' = generation + 1
  PROVE  DebugInv'
<1>1. generation \in Nat /\ generation' \in Nat /\ cache.generation <= generation
      /\ cache.generation \in Nat
  BY Typed DEF DebugInv, CacheRight, CacheType
<1>2. DbgTyped'
  BY <1>1 DEF DebugInv, DbgTyped
<1>3. CacheRight'
  <2>1. cache.generation <= generation'
    BY <1>1
  <2>2. cache.generation = generation' => Respects(cache, (Published.breaks)')
    <3>1. cache.generation = generation' =>
            generation' = generation /\ (Published.breaks)' \subseteq Published.breaks
      BY <1>1
    <3> QED BY <3>1 DEF DebugInv, CacheRight, Respects
  <2>3. runner.stage \in {"block_at", "block", "declined"} => Respects(cache, owed'.breaks)
    BY DEF DebugInv, CacheRight, Respects
  <2>4. Respects(cache, Published.breaks)' = Respects(cache, (Published.breaks)')
        /\ Respects(cache, owed.breaks)' = Respects(cache, owed'.breaks)
    BY DEF Respects
  <2> QED BY <2>1, <2>2, <2>3, <2>4 DEF CacheRight
<1>4. RunnerRight' /\ BlocksRight(cache)'
  BY DEF DebugInv, RunnerRight, BlocksRight
<1> QED BY <1>2, <1>3, <1>4 DEF DebugInv

LEMMA MutateKeeps ==
  ASSUME DebugInv, NEW sets \in Changes, mutate(sets)
  PROVE  DebugInv'
<1>1. /\ front = "idle" /\ front' = "bp_filter" /\ armed' = sets
      /\ owed' = StillArmed(sets)
      /\ UNCHANGED <<bp_filter, wp_filter, generation, runner, cache, slipped>>
  BY DEF mutate
<1>2. sets \in Sets /\ IsFiniteSet(sets.breaks) /\ IsFiniteSet(sets.watches) /\ owed \in Sets
  BY ChangesAreSets, Typed
<1>3. /\ owed' \in Sets /\ owed'.breaks = owed.breaks \cap sets.breaks
      /\ owed'.watches = owed.watches \cap sets.watches
  BY <1>1, <1>2 DEF StillArmed, Sets
<1>4. /\ Filter(owed'.breaks) \subseteq Filter(owed.breaks)
      /\ Filter(owed'.watches) \subseteq Filter(owed.watches)
  BY <1>3, FilterGrows
<1>5. FiltersRight'
  <2>1. Filter(owed.breaks)' = Filter(owed'.breaks) /\ Filter(owed.watches)' = Filter(owed'.watches)
    BY DEF Filter
  <2> QED BY <1>1, <1>3, <1>4, <2>1 DEF FiltersRight, DebugInv
<1>6. (Published.breaks)' \subseteq Published.breaks
  <2>1. (Published.breaks)' = owed'.breaks \cap sets.breaks
    BY <1>1 DEF Published, StillArmed
  <2>2. owed.breaks \subseteq Published.breaks
    BY PublishedIs DEF DebugInv
  <2> QED BY <1>3, <2>1, <2>2
<1> QED BY <1>1, <1>2, <1>3, <1>5, <1>6, FrontStep

\* The filters follow the sets one after the other, the generation last.
LEMMA StoresKeep ==
  ASSUME DebugInv, StoresBreaks \/ StoresWatches \/ Publishes
  PROVE  DebugInv'
<1>1. UNCHANGED <<armed, runner, cache, slipped, owed>> /\ front # "idle"
  BY DEF StoresBreaks, StoresWatches, Publishes
<1>2. /\ owed.breaks \subseteq armed.breaks /\ owed.watches \subseteq armed.watches
      /\ Filter(owed.breaks) \subseteq Filter(armed.breaks)
      /\ Filter(owed.watches) \subseteq Filter(armed.watches)
  BY FilterGrows DEF DebugInv, FiltersRight
<1>3. FiltersRight'
  <2>1. /\ Filter(armed.breaks)' = Filter(armed.breaks) /\ Filter(armed.watches)' = Filter(armed.watches)
        /\ Filter(owed.breaks)' = Filter(owed.breaks) /\ Filter(owed.watches)' = Filter(owed.watches)
    BY <1>1 DEF Filter
  <2> QED BY <1>1, <1>2, <2>1 DEF DebugInv, FiltersRight, StoresBreaks, StoresWatches, Publishes
<1>4. \/ generation' = generation /\ (Published.breaks)' \subseteq Published.breaks
      \/ generation' = generation + 1
  <2>1. CASE Publishes
    BY <2>1 DEF Publishes
  <2>2. CASE StoresBreaks \/ StoresWatches
    <3>1. front' # "idle" /\ generation' = generation
      BY <2>2 DEF StoresBreaks, StoresWatches
    <3> QED BY <1>1, <3>1 DEF Published, StillArmed
  <2> QED BY <2>1, <2>2
<1>5. front' \in {"idle", "bp_filter", "wp_filter", "generation"}
  BY DEF StoresBreaks, StoresWatches, Publishes
<1> QED BY <1>1, <1>3, <1>4, <1>5, FrontStep, Typed DEF DebugInv, DbgTyped

-----------------------------------------------------------------------------
(* The theorem.                                                            *)

LEMMA DebugStep ==
  ASSUME DebugInv, ~StaleLoads, [DbgNext]_dbgVars
  PROVE  DebugInv'
<1>1. CASE UNCHANGED dbgVars
  <2>1. UNCHANGED <<armed, bp_filter, wp_filter, generation, front, slipped, runner, cache, owed>>
    BY <1>1 DEF dbgVars
  <2> QED BY <2>1, Quiet
<1>2. ASSUME NEW r, Requests(r) PROVE DebugInv'
  <2>1. UNCHANGED <<armed, bp_filter, wp_filter, generation, front, slipped, runner, cache, owed>>
    BY <1>2 DEF Requests
  <2> QED BY <2>1, Quiet
<1>3. CASE \/ \E sets \in Changes : ServeArms(sets)
           \/ \E w \in Words : ServeReads(w)
           \/ \E stepping \in BOOLEAN : ServeGoes(stepping)
           \/ ServeDetach \/ ServeKill
  BY <1>3, ServesKeep
<1>4. CASE DbgNext
  BY <1>2, <1>3, <1>4, StoresKeep, MutateKeeps, HeadKeeps, EnterChainKeeps, CheckKeeps,
     BlockAtKeeps, DeclinedKeeps, StepsInterpretedKeeps, RunsCompiledKeeps, RefusesKeeps
  DEF DbgNext
<1> QED BY <1>1, <1>4

LEMMA DebugStarts ==
  ASSUME DbgInit, Len(Text) # 0
  PROVE  DebugInv
<1>1. NoArms \in Sets /\ NoArms.breaks = {} /\ NoArms.watches = {} /\ IsFiniteSet({})
  BY FS_EmptySet DEF NoArms, Sets
<1>2. NoBlocks \in Blocks /\ DOMAIN NoBlocks = {}
  <2>1. NoBlocks \in [{} -> Nat] /\ DOMAIN NoBlocks = {}
    BY DEF NoBlocks
  <2> QED BY <2>1 DEF Blocks
<1>3. 1 \in Rips /\ NoLink \in Nat \X Nat
  BY DebugControlAssumption DEF Rips, NoLink
<1>4. DbgTyped
  BY <1>1, <1>2, <1>3 DEF DbgInit, DbgTyped
<1>5. FiltersRight
  BY <1>1 DEF DbgInit, FiltersRight, Filter
<1>6. BlocksRight(cache) /\ CacheRight /\ RunnerRight
  BY <1>1, <1>2 DEF DbgInit, BlocksRight, CacheRight, RunnerRight, Respects, InChain
<1> QED BY <1>4, <1>5, <1>6 DEF DebugInv, DbgInit

\* Where the runner's loads see the newest filter, the guest never gets past an
\* address and never uses a word that was armed for good when the runner last
\* looked: for every program, every way filters confuse addresses, every size
\* of blocks and budget, and every moment the front end's thread may change the
\* sets, store a filter or publish a generation (mutate, is_break,
\* debug_generation_check, the helpers chosen at the start of a chain).
THEOREM NeverPastArmed ==
  ASSUME ~StaleLoads, Len(Text) # 0
  PROVE  DbgSpec => []NeverRunsPast
<1>1. DbgInit => DebugInv
  BY DebugStarts
<1>2. DebugInv /\ [DbgNext]_dbgVars => DebugInv'
  BY DebugStep
<1>3. DebugInv => NeverRunsPast
  BY DEF DebugInv, NeverRunsPast
<1> QED BY <1>1, <1>2, <1>3, PTL DEF DbgSpec

-----------------------------------------------------------------------------
(* The argument.  Between two active functions lies the call of a thunk: the *)
(* driver that the upper one returns to belongs to exactly one list of calls,*)
(* and the list's place in the thunk's return address says whose call it is. *)
(* A frame that no function called has the level e: the callbacks before a   *)
(* thread starts, at level 0, and those before the process ends.             *)

DriverNames == {"callbacks", "initterm", "exit", "thread_entry", "thread_exit"}
Word == {Argument, Junk} \cup {Local(d) : d \in Nat} \cup {Function(n) : n \in Nat}
        \cup {After(d, left) : d, left \in Nat} \cup {Driver(name) : name \in DriverNames}
ActiveFunction == [entry : Nat, ret : Word, args : Nat, sp : Nat, framed : BOOLEAN]
CallFrame == [remaining : Seq(0 .. 4), ret : Word, modal : BOOLEAN, final : Nat]
InitFrame == [remaining : Nat, ret : Word, saved : Nat]

CallsTyped ==
    /\ is_64bit \in BOOLEAN /\ pending_process_exit \in BOOLEAN
    /\ stack \in Seq(Word)
    /\ active \in Seq(ActiveFunction)
    /\ call_frames \in Seq(CallFrame)
    /\ initterm_stack \in Seq(InitFrame)

(* While the callbacks before a thread's start run, what is below them: the  *)
(* home of the first function, and what it returns to.                       *)
TlsRuns == /\ ~pending_process_exit /\ call_frames # <<>>
           /\ call_frames[1].ret[1] # "call"
Floor(d) == IF d > 0 THEN active[d].sp ELSE IF TlsRuns THEN 5 ELSE 0

(* What every active function keeps on the stack, above what is below it.    *)
FunctionKept(d) ==
    /\ active[d].entry <= active[d].sp /\ active[d].sp <= Len(stack)
    /\ \A c \in 0 .. d - 1 : Floor(c) + active[d].args < active[d].entry
    /\ stack[active[d].entry] = active[d].ret
    /\ \A i \in active[d].entry + 1 .. active[d].sp : stack[i] = Local(d)
AllKept == /\ \A d \in 1 .. Current : FunctionKept(d)
           /\ Floor(0) <= Len(stack)

Level(f, e) == IF f.ret[1] = "call" THEN f.ret[2] ELSE e
CallFrameRight(i, e) ==
    LET f == call_frames[i] IN
    \/ \E d \in 1 .. Current, left \in Nat : f.ret = After(d, left) /\ f.final = active[d].sp + left
    \/ i = 1 /\ pending_process_exit /\ f.ret = Driver("exit") /\ Floor(e) <= f.final
    \/ /\ i = 1 /\ ~pending_process_exit /\ e = 0
       /\ \/ f.ret = Function(0) /\ f.final = 5 /\ stack[5] = Driver("exit")
          \/ f.ret = Driver("thread_entry") /\ f.final = 4
InitFrameRight(i) ==
    LET f == initterm_stack[i] IN
    \E d \in 1 .. Current, left \in Nat : f.ret = After(d, left) /\ f.saved = active[d].sp + left + 1
FramesRight(e) ==
    /\ e \in 0 .. Current
    /\ pending_process_exit => call_frames # <<>> /\ call_frames[1].ret = Driver("exit")
    /\ \A i \in 1 .. Len(call_frames) : CallFrameRight(i, e)
    /\ \A i, j \in 1 .. Len(call_frames) : i < j => Level(call_frames[i], e) < Level(call_frames[j], e)
    /\ \A i \in 1 .. Len(initterm_stack) : InitFrameRight(i)
    /\ \A i, j \in 1 .. Len(initterm_stack) : i < j => initterm_stack[i].ret[2] < initterm_stack[j].ret[2]

CallsBack(d, e) == \E i \in 1 .. Len(call_frames) : Level(call_frames[i], e) = d
Initialises(d) == \E i \in 1 .. Len(initterm_stack) : initterm_stack[i].ret[2] = d
Calls0(d, e) == ~CallsBack(d, e) /\ ~Initialises(d)
Driven(r, d, e) ==
    \/ r = Driver("callbacks") /\ CallsBack(d, e) /\ ~Initialises(d)
    \/ r = Driver("initterm") /\ ~CallsBack(d, e) /\ Initialises(d)
    \/ r \in {Driver("exit"), Driver("thread_exit")} /\ d = 0 /\ Calls0(0, e)
Chained(e) == \A d \in 1 .. Current : Driven(active[d].ret, d - 1, e)

InThunk(t) ==
    LET n == Len(Pushes(t.takes))
        left == IF is_64bit \/ t.cdecl THEN n ELSE 0
    IN  /\ Len(stack) = active[Current].sp + n + 1
        /\ Last(stack) = After(Current, left)
        /\ ArgumentsAt(Len(stack), t.takes)
AtEntry(n) ==
    /\ Floor(Current) + n < Len(stack)
    /\ ArgumentsAt(Len(stack), n)
    /\ is_64bit => Len(stack) % 2 = 1
AtRip(e) ==
    \/ rip = Guest(Current) /\ Current > 0 /\ Len(stack) = active[Current].sp /\ Calls0(Current, e)
    \/ \E t \in Imports : rip = <<"thunk", t>> /\ Current > 0 /\ InThunk(t) /\ Calls0(Current, e)
    \/ \E n \in Nat : rip = Function(n) /\ AtEntry(n) /\ Driven(Last(stack), Current, e)
    \/ Driven(rip, Current, e)
    \/ rip = Driver("thread_entry") /\ Current = 0 /\ Calls0(0, e)

StackRight(e) ==
    CallsTyped /\ AllKept /\ FramesRight(e) /\ Chained(e) /\ AtRip(e)
       /\ (~pending_process_exit => e = 0)
CallsInv == rip = Exited \/ \E e \in Nat : StackRight(e)

-----------------------------------------------------------------------------
(* Words, and the sequences they are pushed in.                             *)

LEMMA RoundUpEven ==
    ASSUME NEW n \in Nat
    PROVE  /\ RoundUp(n, 2) \in Nat /\ n <= RoundUp(n, 2) /\ RoundUp(n, 2) <= n + 1
           /\ RoundUp(n, 2) % 2 = 0
  BY DEF RoundUp

LEMMA OddAfter == \A n \in Nat : n % 2 = 0 => (n + 4 + 1) % 2 = 1
  OBVIOUS

LEMMA RoundUpFour ==
    ASSUME NEW n \in Nat
    PROVE  RoundUp(n, 4) \in Nat /\ n <= RoundUp(n, 4)
  BY DEF RoundUp

LEMMA WordForms ==
    /\ Argument[1] = "argument" /\ Junk[1] = "junk" /\ Exited[1] = "exited"
    /\ \A d \in Nat : Local(d)[1] = "local" /\ Local(d)[2] = d
    /\ \A d \in Nat : Guest(d)[1] = "guest" /\ Guest(d)[2] = d
    /\ \A n \in Nat : Function(n)[1] = "function" /\ Function(n)[2] = n
    /\ \A d \in Nat, left \in Nat : After(d, left)[1] = "call" /\ After(d, left)[2] = d /\ After(d, left)[3] = left
    /\ \A name \in DriverNames : Driver(name)[1] = "driver" /\ Driver(name)[2] = name
    /\ \A t : <<"thunk", t>>[1] = "thunk" /\ <<"thunk", t>>[2] = t
  BY DEF Argument, Junk, Exited, Local, Guest, Function, After, Driver

LEMMA Names == DriverNames = {"callbacks", "initterm", "exit", "thread_entry", "thread_exit"}
  BY DEF DriverNames

LEMMA WordsOf ==
    /\ Argument \in Word /\ Junk \in Word
    /\ \A d \in Nat : Local(d) \in Word /\ Function(d) \in Word
    /\ \A d \in Nat, left \in Nat : After(d, left) \in Word
    /\ \A name \in DriverNames : Driver(name) \in Word
  BY DEF Word

LEMMA StackWordsShape ==
    ASSUME NEW n \in Nat, NEW junk \in Nat
    PROVE  /\ StackWords(n, junk) \in Seq(Word) /\ Len(StackWords(n, junk)) = junk + n
           /\ \A i \in junk + 1 .. junk + n : StackWords(n, junk)[i] = Argument
  BY WordsOf DEF StackWords

LEMMA RepeatedWord ==
    ASSUME NEW w \in Word, NEW k \in Nat
    PROVE  /\ [i \in 1 .. k |-> w] \in Seq(Word) /\ Len([i \in 1 .. k |-> w]) = k
           /\ \A i \in 1 .. k : [j \in 1 .. k |-> w][i] = w
  OBVIOUS

LEMMA Joined ==
    ASSUME NEW s \in Seq(Word), NEW t \in Seq(Word)
    PROVE  /\ s \o t \in Seq(Word) /\ Len(s \o t) = Len(s) + Len(t)
           /\ \A i \in 1 .. Len(s) : (s \o t)[i] = s[i]
           /\ \A i \in 1 .. Len(t) : (s \o t)[Len(s) + i] = t[i]
  OBVIOUS

LEMMA CutTo ==
    ASSUME NEW S, NEW s \in Seq(S), NEW k \in 0 .. Len(s)
    PROVE  /\ SubSeq(s, 1, k) \in Seq(S) /\ Len(SubSeq(s, 1, k)) = k
           /\ \A i \in 1 .. k : SubSeq(s, 1, k)[i] = s[i]
  OBVIOUS

LEMMA LastOf ==
    ASSUME NEW S, NEW s \in Seq(S), s # <<>>
    PROVE  /\ Len(s) \in Nat \ {0} /\ Last(s) = s[Len(s)] /\ Last(s) \in S
           /\ Front(s) \in Seq(S) /\ Len(Front(s)) = Len(s) - 1
           /\ \A i \in 1 .. Len(s) - 1 : Front(s)[i] = s[i]
<1>1. Len(s) \in Nat \ {0} /\ Len(s) - 1 \in 0 .. Len(s)
  OBVIOUS
<1>2. Last(s) = s[Len(s)] /\ Last(s) \in S
  BY <1>1 DEF Last
<1>3. Front(s) = SubSeq(s, 1, Len(s) - 1)
  BY DEF Front
<1> DEFINE k == Len(s) - 1
<1>4. /\ SubSeq(s, 1, k) \in Seq(S) /\ Len(SubSeq(s, 1, k)) = k
      /\ \A i \in 1 .. k : SubSeq(s, 1, k)[i] = s[i]
  <2>1. k \in 0 .. Len(s)
    BY <1>1
  <2> HIDE DEF k
  <2> QED
    BY <2>1, CutTo
<1> QED
  BY <1>1, <1>2, <1>3, <1>4

LEMMA OneWord ==
    ASSUME NEW w \in Word
    PROVE  <<w>> \in Seq(Word) /\ Len(<<w>>) = 1 /\ <<w>>[1] = w
  OBVIOUS

-----------------------------------------------------------------------------
(* The stack below k is as it was.                                          *)
Agrees(k) == k <= Len(stack) /\ k <= Len(stack') /\ \A i \in 1 .. k : stack'[i] = stack[i]

(* The arguments of a function and the word it returns to, put on a stack    *)
(* that is aligned.                                                         *)
PushedFor(n) == IF is_64bit THEN StackWords(n, 4 - n) ELSE StackWords(n, 0)
LEMMA ArgumentWords ==
    ASSUME is_64bit \in BOOLEAN, NEW n \in 0 .. 4
    PROVE  /\ PushedFor(n) \in Seq(Word) /\ Len(PushedFor(n)) \in Nat /\ n <= Len(PushedFor(n))
           /\ is_64bit => Len(PushedFor(n)) = 4
           /\ \A i \in Len(PushedFor(n)) - n + 1 .. Len(PushedFor(n)) : PushedFor(n)[i] = Argument
<1>1. n \in Nat /\ 4 - n \in Nat /\ 4 - n + n = 4
  OBVIOUS
<1>2. CASE is_64bit
  <2>1. /\ StackWords(n, 4 - n) \in Seq(Word) /\ Len(StackWords(n, 4 - n)) = 4
        /\ \A i \in 4 - n + 1 .. 4 : StackWords(n, 4 - n)[i] = Argument
    BY <1>1, StackWordsShape
  <2>2. PushedFor(n) = StackWords(n, 4 - n)
    BY <1>2 DEF PushedFor
  <2> QED
    BY <1>2, <2>1, <2>2, <1>1
<1>3. CASE ~is_64bit
  <2>1. /\ StackWords(n, 0) \in Seq(Word) /\ Len(StackWords(n, 0)) = n
        /\ \A i \in 1 .. n : StackWords(n, 0)[i] = Argument
    BY <1>1, StackWordsShape
  <2>2. PushedFor(n) = StackWords(n, 0)
    BY <1>3 DEF PushedFor
  <2> QED
    BY <1>3, <2>1, <2>2, <1>1
<1> QED
  BY <1>2, <1>3

LEMMA ArgumentsPushed ==
    ASSUME is_64bit \in BOOLEAN, NEW n \in 0 .. 4, NEW ret \in Word, NEW lower \in Seq(Word),
           is_64bit => Len(lower) % 2 = 0
    PROVE  LET s == lower \o PushedFor(n) \o <<ret>> IN
           /\ s \in Seq(Word) /\ Len(s) \in Nat /\ Len(lower) + n < Len(s) /\ Last(s) = ret
           /\ \A i \in 1 .. Len(lower) : s[i] = lower[i]
           /\ \A i \in 1 .. n : s[Len(s) - i] = Argument
           /\ is_64bit => Len(s) % 2 = 1
<1>1. PICK pushed : pushed = PushedFor(n)
  OBVIOUS
<1>2. /\ pushed \in Seq(Word) /\ Len(pushed) \in Nat /\ n <= Len(pushed)
      /\ is_64bit => Len(pushed) = 4
      /\ \A i \in Len(pushed) - n + 1 .. Len(pushed) : pushed[i] = Argument
  BY <1>1, ArgumentWords
<1>3. PICK upper : upper = lower \o pushed
  OBVIOUS
<1>4. /\ upper \in Seq(Word) /\ Len(upper) = Len(lower) + Len(pushed)
      /\ \A i \in 1 .. Len(lower) : upper[i] = lower[i]
      /\ \A i \in 1 .. Len(pushed) : upper[Len(lower) + i] = pushed[i]
  BY <1>2, <1>3, Joined
<1>5. PICK s : s = upper \o <<ret>>
  OBVIOUS
<1>6. n \in Nat /\ Len(lower) \in Nat
  OBVIOUS
<1>7. /\ s \in Seq(Word) /\ Len(s) = Len(lower) + Len(pushed) + 1
      /\ \A i \in 1 .. Len(lower) + Len(pushed) : s[i] = upper[i]
      /\ s[Len(lower) + Len(pushed) + 1] = ret
  <2>1. <<ret>> \in Seq(Word) /\ Len(<<ret>>) = 1 /\ <<ret>>[1] = ret
    BY OneWord
  <2>2. /\ s \in Seq(Word) /\ Len(s) = Len(upper) + Len(<<ret>>)
        /\ \A i \in 1 .. Len(upper) : s[i] = upper[i]
        /\ \A i \in 1 .. Len(<<ret>>) : s[Len(upper) + i] = <<ret>>[i]
    BY <1>4, <1>5, <2>1, Joined
  <2>3. Len(upper) = Len(lower) + Len(pushed) /\ Len(upper) \in Nat
    BY <1>2, <1>4, <1>6
  <2>4. s[Len(upper) + 1] = ret
    BY <2>1, <2>2
  <2> QED
    BY <2>1, <2>2, <2>3, <2>4
<1>8. Last(s) = ret
  BY <1>2, <1>6, <1>7 DEF Last
<1>9. \A i \in 1 .. Len(lower) : s[i] = lower[i]
  BY <1>2, <1>4, <1>6, <1>7
<1>10. ASSUME NEW i \in 1 .. n PROVE s[Len(s) - i] = Argument
  <2>1. /\ Len(s) - i = Len(lower) + (Len(pushed) - i + 1)
        /\ Len(pushed) - i + 1 \in Len(pushed) - n + 1 .. Len(pushed)
        /\ Len(pushed) - i + 1 \in 1 .. Len(pushed)
    BY <1>2, <1>6, <1>7
  <2>2. PICK j : j = Len(pushed) - i + 1
    OBVIOUS
  <2>3. s[Len(lower) + j] = upper[Len(lower) + j]
    <3>1. Len(lower) + j \in 1 .. Len(lower) + Len(pushed)
      BY <2>1, <2>2, <1>2, <1>6
    <3> QED
      BY <3>1, <1>7
  <2>4. upper[Len(lower) + j] = pushed[j] /\ pushed[j] = Argument
    BY <2>1, <2>2, <1>2, <1>4
  <2> QED
    BY <2>1, <2>2, <2>3, <2>4
<1>11. is_64bit => Len(s) % 2 = 1
  BY <1>2, <1>6, <1>7, OddAfter
<1>12. Len(s) \in Nat /\ Len(lower) + n < Len(s)
  BY <1>2, <1>6, <1>7
<1>13. s = lower \o PushedFor(n) \o <<ret>>
  BY <1>1, <1>3, <1>5
<1> QED
  BY <1>7, <1>8, <1>9, <1>10, <1>11, <1>12, <1>13

(* setup_call_args keeps the words it is told to, and puts the arguments and *)
(* the return rip above them.                                           *)
LEMMA SetupCallShape ==
    ASSUME CallsTyped, NEW n \in 0 .. 4, NEW ret \in Word, NEW words \in Nat,
           SetupCall(n, ret, words)
    PROVE  /\ stack' \in Seq(Word) /\ rip' = Function(n)
           /\ \A k \in Nat : k <= words /\ k <= Len(stack) => Agrees(k)
           /\ words + n < Len(stack') /\ Last(stack') = ret
           /\ \A i \in 1 .. n : stack'[Len(stack') - i] = Argument
           /\ is_64bit => Len(stack') % 2 = 1
<1> DEFINE keep == IF words < Len(stack) THEN words ELSE Len(stack)
           kept == SubSeq(stack, 1, keep)
           aligned == RoundUp(words, IF is_64bit THEN 2 ELSE 4)
           junk == [i \in 1 .. aligned - Len(kept) |-> Junk]
           lower == kept \o junk
<1>1. /\ stack' = lower \o PushedFor(n) \o <<ret>>
      /\ rip' = Function(n)
  BY DEF SetupCall, PushedFor
<1>2. stack \in Seq(Word) /\ Len(stack) \in Nat /\ is_64bit \in BOOLEAN
  BY DEF CallsTyped
<1>3. keep \in 0 .. Len(stack) /\ keep <= words
  BY <1>2
<1>4. kept \in Seq(Word) /\ Len(kept) = keep /\ \A i \in 1 .. keep : kept[i] = stack[i]
  <2> HIDE DEF keep
  <2> QED
    BY <1>2, <1>3, CutTo
<1>5. aligned \in Nat /\ words <= aligned /\ (is_64bit => aligned % 2 = 0)
  BY RoundUpEven, RoundUpFour
<1>6. /\ junk \in Seq(Word) /\ Len(junk) = aligned - keep
  <2> HIDE DEF keep, kept, aligned
  <2>1. aligned - Len(kept) \in Nat
    BY <1>2, <1>3, <1>4, <1>5
  <2> QED
    BY <2>1, <1>4, WordsOf, RepeatedWord
<1> HIDE DEF keep, kept, aligned, junk
<1>7. /\ lower \in Seq(Word) /\ Len(lower) = aligned
      /\ \A i \in 1 .. keep : lower[i] = stack[i]
  <2>1. /\ lower \in Seq(Word) /\ Len(lower) = Len(kept) + Len(junk)
        /\ \A i \in 1 .. Len(kept) : lower[i] = kept[i]
    BY <1>4, <1>6, Joined
  <2> HIDE DEF lower
  <2>2. Len(kept) + Len(junk) = aligned
    BY <1>3, <1>4, <1>5, <1>6
  <2> QED
    BY <2>1, <2>2, <1>4
<1> HIDE DEF lower
<1>8. /\ stack' \in Seq(Word) /\ Len(stack') \in Nat /\ aligned + n < Len(stack') /\ Last(stack') = ret
      /\ \A i \in 1 .. aligned : stack'[i] = lower[i]
      /\ \A i \in 1 .. n : stack'[Len(stack') - i] = Argument
      /\ is_64bit => Len(stack') % 2 = 1
  <2>1. is_64bit => Len(lower) % 2 = 0
    BY <1>5, <1>7
  <2> QED
    BY <1>1, <1>2, <1>7, <2>1, ArgumentsPushed
<1>9. \A k \in Nat : k <= words /\ k <= Len(stack) => Agrees(k)
  <2> SUFFICES ASSUME NEW k \in Nat, k <= words, k <= Len(stack) PROVE Agrees(k)
    OBVIOUS
  <2>1. k <= keep
    BY <1>2 DEF keep
  <2>2. \A i \in 1 .. k : stack'[i] = stack[i]
    BY <2>1, <1>3, <1>5, <1>7, <1>8
  <2>3. k <= Len(stack')
    BY <1>5, <1>8
  <2> QED
    BY <2>2, <2>3 DEF Agrees
<1>10. words + n < Len(stack')
  BY <1>5, <1>8
<1> QED
  BY <1>1, <1>8, <1>9, <1>10

-----------------------------------------------------------------------------
(* What the invariant says of where the guest is.                           *)
LEMMA RipSays ==
    ASSUME NEW e \in Nat, StackRight(e)
    PROVE  /\ rip[1] = "guest" => /\ rip = Guest(Current) /\ Current > 0 /\ Calls0(Current, e)
                                  /\ Len(stack) = active[Current].sp
           /\ rip[1] = "thunk" => \E t \in Imports : /\ rip[2] = t /\ Current > 0 /\ InThunk(t)
                                                     /\ Calls0(Current, e)
           /\ rip[1] = "function" => /\ rip[2] \in Nat /\ AtEntry(rip[2])
                                     /\ Driven(Last(stack), Current, e)
           /\ rip = Driver("callbacks") => CallsBack(Current, e) /\ ~Initialises(Current)
           /\ rip = Driver("initterm") => ~CallsBack(Current, e) /\ Initialises(Current)
           /\ rip[1] = "driver" /\ rip \notin {Driver("callbacks"), Driver("initterm")}
                => Current = 0 /\ Calls0(0, e)
<1> USE WordForms, Names
<1>0. Current \in Nat
  BY DEF StackRight, CallsTyped, Current
<1>1. CASE rip = Guest(Current) /\ Current > 0 /\ Len(stack) = active[Current].sp /\ Calls0(Current, e)
  BY <1>0, <1>1
<1>2. ASSUME NEW t \in Imports, rip = <<"thunk", t>>, Current > 0, InThunk(t), Calls0(Current, e)
      PROVE  /\ rip[1] = "thunk" /\ rip[2] = t
             /\ rip # Driver("callbacks") /\ rip # Driver("initterm")
  BY <1>2
<1>3. ASSUME NEW n \in Nat, rip = Function(n), AtEntry(n), Driven(Last(stack), Current, e)
      PROVE  /\ rip[1] = "function" /\ rip[2] = n
             /\ rip # Driver("callbacks") /\ rip # Driver("initterm")
  BY <1>3
<1>4. ASSUME Driven(rip, Current, e)
      PROVE  /\ rip[1] = "driver"
             /\ \/ rip = Driver("callbacks") /\ CallsBack(Current, e) /\ ~Initialises(Current)
                \/ rip = Driver("initterm") /\ ~CallsBack(Current, e) /\ Initialises(Current)
                \/ Current = 0 /\ Calls0(0, e) /\ rip # Driver("callbacks") /\ rip # Driver("initterm")
  BY <1>4 DEF Driven
<1>5. Driver("callbacks") # Driver("initterm") /\ Driver("thread_entry")[1] = "driver"
      /\ Driver("thread_entry") # Driver("callbacks") /\ Driver("thread_entry") # Driver("initterm")
  OBVIOUS
<1>6. AtRip(e)
  BY DEF StackRight
<1> QED
  BY <1>1, <1>2, <1>3, <1>4, <1>5, <1>6 DEF AtRip

(* The places of the active functions rise, up to the top of the stack.     *)
LEMMA FloorsRise ==
    ASSUME CallsTyped, AllKept
    PROVE  /\ Current \in Nat
           /\ \A c \in 0 .. Current : Floor(c) \in Nat /\ Floor(c) <= Floor(Current)
           /\ Floor(Current) <= Len(stack) /\ Len(stack) \in Nat
           /\ \A d \in 1 .. Current : active[d] \in ActiveFunction /\ Floor(d) = active[d].sp
<1>1. Current \in Nat /\ Len(stack) \in Nat /\ \A d \in 1 .. Current : active[d] \in ActiveFunction
  BY DEF CallsTyped, Current
<1>2. \A d \in 1 .. Current : Floor(d) = active[d].sp /\ active[d].sp \in Nat
  BY <1>1 DEF Floor, ActiveFunction
<1>3. Floor(0) \in Nat /\ Floor(0) <= Len(stack)
  BY DEF Floor, AllKept
<1>4. ASSUME Current > 0, NEW c \in 0 .. Current PROVE Floor(c) <= Floor(Current)
  <2>1. FunctionKept(Current) /\ active[Current] \in ActiveFunction
    BY <1>1, <1>4 DEF AllKept
  <2>2. CASE c = Current
    BY <2>2, <1>1, <1>2, <1>4
  <2>3. CASE c # Current
    <3>1. c \in 0 .. Current - 1 /\ Floor(c) \in Nat
      BY <2>3, <1>1, <1>2, <1>3
    <3>2. Floor(c) + active[Current].args < active[Current].entry
      BY <2>1, <3>1 DEF FunctionKept
    <3>3. active[Current].entry <= active[Current].sp
      BY <2>1 DEF FunctionKept
    <3> QED
      BY <2>1, <3>1, <3>2, <3>3, <1>1, <1>2, <1>4 DEF ActiveFunction
  <2> QED
    BY <2>2, <2>3
<1>5. Current > 0 => Floor(Current) <= Len(stack)
  BY <1>1, <1>2 DEF AllKept, FunctionKept
<1> QED
  BY <1>1, <1>2, <1>3, <1>4, <1>5

(* Functions that stay active keep what is on the stack below the last.     *)
LEMMA KeptBelow ==
    ASSUME CallsTyped, AllKept, NEW p \in 0 .. Current,
           \A d \in 1 .. p : active'[d] = active[d],
           stack' \in Seq(Word), Agrees(Floor(p)), TlsRuns' => TlsRuns
    PROVE  /\ \A d \in 1 .. p : FunctionKept(d)'
           /\ \A c \in 0 .. p : Floor(c)' \in Nat /\ Floor(c)' <= Floor(c)
           /\ Floor(0)' <= Len(stack')
<1>1. Current \in Nat /\ \A c \in 0 .. Current : Floor(c) \in Nat
  BY FloorsRise
<1>2. \A c \in 0 .. p : Floor(c)' \in Nat /\ Floor(c)' <= Floor(c)
  <2> TAKE c \in 0 .. p
  <2>1. CASE c > 0
    <3>1. Floor(c) = active[c].sp /\ Floor(c)' = active'[c].sp /\ active'[c] = active[c]
      BY <2>1 DEF Floor
    <3> QED
      BY <3>1, <1>1
  <2>2. CASE c = 0
    BY <2>2 DEF Floor
  <2> QED
    BY <2>1, <2>2, <1>1
<1>3. \A c \in 0 .. p : Floor(c) <= Floor(p)
  <2>1. CASE p = 0
    BY <2>1, <1>1
  <2>2. CASE p > 0
    <3>1. FunctionKept(p) /\ active[p] \in ActiveFunction /\ Floor(p) = active[p].sp
      BY <2>2, FloorsRise DEF AllKept
    <3>2. \A c \in 0 .. p - 1 : Floor(c) + active[p].args < active[p].entry
      BY <3>1 DEF FunctionKept
    <3>3. active[p].entry <= active[p].sp
      BY <3>1 DEF FunctionKept
    <3>4. active[p].entry \in Nat /\ active[p].args \in Nat /\ active[p].sp \in Nat
      BY <3>1 DEF ActiveFunction
    <3>5. ASSUME NEW c \in 0 .. p, c # p PROVE Floor(c) <= Floor(p)
      <4>1. c \in 0 .. p - 1 /\ Floor(c) \in Nat
        BY <3>5, <1>1
      <4> QED
        BY <4>1, <3>1, <3>2, <3>3, <3>4
    <3>6. Floor(p) <= Floor(p)
      BY <3>1, <3>4
    <3> QED
      BY <3>5, <3>6
  <2> QED
    BY <2>1, <2>2, <1>1
<1>4. ASSUME NEW d \in 1 .. p PROVE FunctionKept(d)'
  <2>1. /\ active'[d] = active[d] /\ active[d] \in ActiveFunction
        /\ FunctionKept(d) /\ Floor(d) = active[d].sp /\ d \in 0 .. p
    BY <1>1, FloorsRise DEF AllKept
  <2>2. active[d].sp <= Floor(p) /\ active[d].sp \in Nat /\ Floor(p) \in Nat
    BY <2>1, <1>1, <1>3
  <2>3. \A i \in 1 .. active[d].sp : stack'[i] = stack[i]
    BY <2>2 DEF Agrees
  <2>4. active[d].entry \in 1 .. active[d].sp
    <3>1. 0 \in 0 .. d - 1 /\ Floor(0) \in Nat
      BY <1>1
    <3>2. Floor(0) + active[d].args < active[d].entry
      BY <2>1, <3>1 DEF FunctionKept
    <3> QED
      BY <2>1, <3>1, <3>2 DEF FunctionKept, ActiveFunction
  <2>5. active[d].sp <= Len(stack')
    <3>1. Floor(p) <= Len(stack') /\ Floor(p) <= Len(stack)
      BY DEF Agrees
    <3>2. Len(stack) \in Nat
      BY FloorsRise
    <3> QED
      BY <3>1, <3>2, <2>2, SMT DEF CallsTyped
  <2>6. \A c \in 0 .. d - 1 : Floor(c)' + active[d].args < active[d].entry
    <3> TAKE c \in 0 .. d - 1
    <3>1. Floor(c) + active[d].args < active[d].entry
      BY <2>1 DEF FunctionKept
    <3>2. Floor(c)' \in Nat /\ Floor(c)' <= Floor(c) /\ Floor(c) \in Nat
      BY <1>1, <1>2
    <3> QED
      BY <2>1, <3>1, <3>2 DEF ActiveFunction
  <2>7. stack'[active[d].entry] = active[d].ret
    BY <2>1, <2>3, <2>4 DEF FunctionKept
  <2>8. \A i \in active[d].entry + 1 .. active[d].sp : stack'[i] = Local(d)
    BY <2>1, <2>2, <2>3, <2>4 DEF FunctionKept
  <2> QED
    BY <2>1, <2>5, <2>6, <2>7, <2>8 DEF FunctionKept
<1>5. Floor(0)' <= Len(stack')
  <2>1. Floor(0)' <= Floor(0) /\ Floor(0) <= Floor(p) /\ Floor(p) <= Len(stack') /\ 0 \in 0 .. p
    BY <1>1, <1>2, <1>3 DEF Agrees
  <2>2. Floor(0)' \in Nat /\ Floor(0) \in Nat /\ Floor(p) \in Nat /\ Len(stack') \in Nat
    BY <1>1, <1>2, <2>1
  <2> QED
    BY <2>1, <2>2
<1> QED
  BY <1>2, <1>4, <1>5

(* Frames that stay are right where their functions stay.                   *)
SameFrame(f, g) == f.ret = g.ret /\ f.final = g.final
SameInit(f, g) == f.ret = g.ret /\ f.saved = g.saved
LEMMA FramesStay ==
    ASSUME NEW e \in Nat, CallsTyped, AllKept, FramesRight(e),
           NEW p \in 0 .. Current, p <= Current', Current' \in Nat, e <= p,
           \A d \in 1 .. p : active'[d] = active[d],
           stack' \in Seq(Word), Agrees(Floor(p)), TlsRuns' => TlsRuns,
           UNCHANGED pending_process_exit,
           NEW m \in 0 .. Len(call_frames), NEW k \in 0 .. Len(initterm_stack),
           \A i \in 1 .. m : /\ SameFrame(call_frames'[i], call_frames[i])
                             /\ Level(call_frames[i], e) <= p,
           \A i \in 1 .. k : /\ SameInit(initterm_stack'[i], initterm_stack[i])
                             /\ initterm_stack[i].ret[2] <= p
    PROVE  /\ \A i \in 1 .. m : CallFrameRight(i, e)'
           /\ \A i \in 1 .. k : InitFrameRight(i)'
<1>1. /\ Current \in Nat /\ p \in Nat /\ Len(call_frames) \in Nat /\ Len(initterm_stack) \in Nat
      /\ \A c \in 0 .. p : Floor(c) \in Nat /\ Floor(c)' \in Nat /\ Floor(c)' <= Floor(c)
      /\ \A d \in 1 .. Current : active[d] \in ActiveFunction
  <2>1. Len(call_frames) \in Nat /\ Len(initterm_stack) \in Nat
    BY DEF CallsTyped
  <2>2. \A c \in 0 .. p : Floor(c)' \in Nat /\ Floor(c)' <= Floor(c)
    BY KeptBelow
  <2> QED
    BY <2>1, <2>2, FloorsRise, SMTT(20)
<1>2. ASSUME NEW i \in 1 .. m PROVE CallFrameRight(i, e)'
  <2> DEFINE f == call_frames[i]
             g == call_frames'[i]
  <2>1. g.ret = f.ret /\ g.final = f.final /\ Level(f, e) <= p /\ CallFrameRight(i, e)
        /\ f \in CallFrame
    BY <1>1, <1>2 DEF SameFrame, FramesRight, CallsTyped
  <2>2. ASSUME NEW d \in 1 .. Current, NEW left \in Nat,
               f.ret = After(d, left), f.final = active[d].sp + left
        PROVE  CallFrameRight(i, e)'
    <3>1. Level(f, e) = d
      BY <2>2, WordForms DEF Level
    <3>2. d \in 1 .. p /\ d \in 1 .. Current'
      BY <2>1, <3>1, <1>1
    <3>3. active'[d].sp = active[d].sp
      BY <3>2
    <3> QED
      BY <2>1, <2>2, <3>2, <3>3 DEF CallFrameRight
  <2>3. CASE i = 1 /\ pending_process_exit /\ f.ret = Driver("exit") /\ Floor(e) <= f.final
    <3>1. Floor(e)' <= f.final
      <4>1. Floor(e)' \in Nat /\ Floor(e) \in Nat /\ Floor(e)' <= Floor(e) /\ f.final \in Nat
        BY <1>1, <2>1 DEF CallFrame
      <4> QED
        BY <2>3, <4>1
    <3> QED
      BY <2>1, <2>3, <3>1 DEF CallFrameRight
  <2>4. CASE /\ i = 1 /\ ~pending_process_exit /\ e = 0
             /\ \/ f.ret = Function(0) /\ f.final = 5 /\ stack[5] = Driver("exit")
                \/ f.ret = Driver("thread_entry") /\ f.final = 4
    <3>1. f.ret = Function(0) => stack'[5] = stack[5]
      <4> SUFFICES ASSUME f.ret = Function(0) PROVE stack'[5] = stack[5]
        OBVIOUS
      <4>1. call_frames # <<>> /\ call_frames[1].ret[1] # "call"
        BY <2>4, <1>1, WordForms, SMTT(20)
      <4>2. Floor(0) = 5
        BY <2>4, <4>1 DEF TlsRuns, Floor
      <4>3. Floor(0) <= Floor(p)
        <5>1. CASE p = 0
          BY <5>1, <1>1
        <5>2. CASE p > 0
          <6>1. FunctionKept(p) /\ active[p] \in ActiveFunction /\ Floor(p) = active[p].sp
            BY <5>2, FloorsRise DEF AllKept
          <6>2. Floor(0) + active[p].args < active[p].entry /\ active[p].entry <= active[p].sp
            BY <5>2, <6>1, <1>1 DEF FunctionKept
          <6> QED
            BY <6>1, <6>2, <1>1, SMTT(20) DEF ActiveFunction
        <5> QED
          BY <5>1, <5>2, <1>1
      <4> QED
        BY <4>2, <4>3, <1>1, SMTT(20) DEF Agrees
    <3> QED
      BY <2>1, <2>4, <3>1 DEF CallFrameRight
  <2> QED
    BY <2>1, <2>2, <2>3, <2>4 DEF CallFrameRight
<1>3. ASSUME NEW i \in 1 .. k PROVE InitFrameRight(i)'
  <2> DEFINE f == initterm_stack[i]
             g == initterm_stack'[i]
  <2>1. g.ret = f.ret /\ g.saved = f.saved /\ f.ret[2] <= p /\ InitFrameRight(i)
    <3>1. SameInit(g, f) /\ f.ret[2] <= p
      BY <1>3
    <3>2. i \in 1 .. Len(initterm_stack)
      BY <1>1, <1>3
    <3>3. InitFrameRight(i)
      BY <3>2 DEF FramesRight
    <3> QED
      BY <3>1, <3>3 DEF SameInit
  <2>2. PICK d \in 1 .. Current, left \in Nat : f.ret = After(d, left) /\ f.saved = active[d].sp + left + 1
    BY <2>1 DEF InitFrameRight
  <2>3. f.ret[2] = d
    BY <2>2, WordForms
  <2>4. d \in 1 .. p /\ d \in 1 .. Current'
    BY <2>1, <2>3, <1>1
  <2> QED
    BY <2>1, <2>2, <2>4 DEF InitFrameRight
<1> QED
  BY <1>2, <1>3

(* The level of a frame is one of the functions', or that of the emulator.  *)
LEMMA Levels ==
    ASSUME NEW e \in Nat, CallsTyped, FramesRight(e)
    PROVE  /\ \A i \in 1 .. Len(call_frames) : Level(call_frames[i], e) \in 0 .. Current
           /\ \A i \in 1 .. Len(initterm_stack) : initterm_stack[i].ret[2] \in 1 .. Current
           /\ Current \in Nat /\ Len(call_frames) \in Nat /\ Len(initterm_stack) \in Nat
           /\ e \in 0 .. Current
<1>1. Current \in Nat /\ Len(call_frames) \in Nat /\ Len(initterm_stack) \in Nat /\ e \in 0 .. Current
  BY DEF CallsTyped, Current, FramesRight
<1>2. ASSUME NEW i \in 1 .. Len(call_frames) PROVE Level(call_frames[i], e) \in 0 .. Current
  <2>1. CallFrameRight(i, e)
    BY DEF FramesRight
  <2>2. ASSUME NEW d \in 1 .. Current, NEW left \in Nat, call_frames[i].ret = After(d, left)
        PROVE  Level(call_frames[i], e) = d
    <3>1. d \in Nat
      BY <1>1
    <3> QED
      BY <2>2, <3>1, WordForms DEF Level
  <2>3. ASSUME call_frames[i].ret[1] # "call" PROVE Level(call_frames[i], e) = e
    BY <2>3 DEF Level
  <2>4. /\ Driver("exit")[1] # "call" /\ Function(0)[1] # "call"
        /\ Driver("thread_entry")[1] # "call"
    BY WordForms, Names
  <2> QED
    BY <1>1, <2>1, <2>2, <2>3, <2>4 DEF CallFrameRight
<1>3. ASSUME NEW i \in 1 .. Len(initterm_stack) PROVE initterm_stack[i].ret[2] \in 1 .. Current
  BY <1>1, WordForms DEF FramesRight, InitFrameRight
<1> QED
  BY <1>1, <1>2, <1>3

(* The first frame, if any, is the one it was or the one of a call.         *)
LEMMA TlsStays ==
    ASSUME CallsTyped, NEW m \in 0 .. Len(call_frames), UNCHANGED pending_process_exit,
           call_frames' \in Seq(CallFrame),
           \A i \in 1 .. m : SameFrame(call_frames'[i], call_frames[i]),
           \/ Len(call_frames') = m
           \/ Len(call_frames') = m + 1 /\ \E d, left \in Nat : call_frames'[m + 1].ret = After(d, left)
    PROVE  TlsRuns' => TlsRuns
<1> SUFFICES ASSUME TlsRuns' PROVE TlsRuns
  OBVIOUS
<1>1. m \in Nat /\ Len(call_frames) \in Nat /\ Len(call_frames') \in Nat
  BY DEF CallsTyped
<1>2. ~pending_process_exit /\ Len(call_frames') > 0 /\ call_frames'[1].ret[1] # "call"
  BY <1>1 DEF TlsRuns
<1>3. m # 0
  BY <1>1, <1>2, WordForms
<1>4. call_frames'[1].ret = call_frames[1].ret /\ call_frames # <<>>
  BY <1>1, <1>3 DEF SameFrame
<1> QED
  BY <1>2, <1>4 DEF TlsRuns

(* A frame comes or goes at the level of the function that runs.            *)
FrameComes(m, e) ==
    /\ Len(call_frames') = m + 1 /\ m = Len(call_frames) /\ Calls0(Current, e) /\ Current > 0
    /\ \E left \in Nat : /\ call_frames'[m + 1].ret = After(Current, left)
                         /\ call_frames'[m + 1].final = active[Current].sp + left
InitComes(k, e) ==
    /\ Len(initterm_stack') = k + 1 /\ k = Len(initterm_stack) /\ Calls0(Current, e) /\ Current > 0
    /\ \E left \in Nat : /\ initterm_stack'[k + 1].ret = After(Current, left)
                         /\ initterm_stack'[k + 1].saved = active[Current].sp + left + 1
LEMMA FramesChange ==
    ASSUME NEW e \in Nat, CallsTyped, AllKept, FramesRight(e), Chained(e),
           UNCHANGED <<active, pending_process_exit>>,
           stack' \in Seq(Word), Agrees(Floor(Current)),
           call_frames' \in Seq(CallFrame), initterm_stack' \in Seq(InitFrame),
           NEW m \in 0 .. Len(call_frames), NEW k \in 0 .. Len(initterm_stack),
           \A i \in 1 .. m : SameFrame(call_frames'[i], call_frames[i]),
           \A i \in 1 .. k : SameInit(initterm_stack'[i], initterm_stack[i]),
           pending_process_exit => m > 0,
           Len(call_frames') = m \/ FrameComes(m, e),
           Len(initterm_stack') = k \/ InitComes(k, e),
           m < Len(call_frames) => m + 1 = Len(call_frames) /\ Level(call_frames[m + 1], e) = Current,
           k < Len(initterm_stack) => k + 1 = Len(initterm_stack) /\ initterm_stack[k + 1].ret[2] = Current
    PROVE  /\ AllKept' /\ FramesRight(e)' /\ Chained(e)'
           /\ FrameComes(m, e) => CallsBack(Current, e)'
           /\ InitComes(k, e) => Initialises(Current)'
           /\ Len(call_frames') = m /\ m < Len(call_frames) => ~CallsBack(Current, e)'
           /\ Len(call_frames') = m /\ m = Len(call_frames) => (CallsBack(Current, e)' <=> CallsBack(Current, e))
           /\ Len(initterm_stack') = k /\ k < Len(initterm_stack) => ~Initialises(Current)'
           /\ Len(initterm_stack') = k /\ k = Len(initterm_stack) => (Initialises(Current)' <=> Initialises(Current))
<1>1. /\ Current \in Nat /\ Current' = Current /\ m \in Nat /\ k \in Nat
      /\ Len(call_frames) \in Nat /\ Len(initterm_stack) \in Nat /\ e \in 0 .. Current
      /\ \A i \in 1 .. Len(call_frames) : Level(call_frames[i], e) \in 0 .. Current
      /\ \A i \in 1 .. Len(initterm_stack) : initterm_stack[i].ret[2] \in 1 .. Current
  <2>1. Current' = Current
    BY DEF Current
  <2> QED
    BY <2>1, Levels
<1>2. TlsRuns' => TlsRuns
  <2>1. \/ Len(call_frames') = m
        \/ Len(call_frames') = m + 1 /\ \E d, left \in Nat : call_frames'[m + 1].ret = After(d, left)
    BY <1>1 DEF FrameComes
  <2> QED
    BY <2>1, TlsStays
<1>3. AllKept'
  <2>1. /\ Current \in 0 .. Current
        /\ \A d \in 1 .. Current : active'[d] = active[d]
    BY <1>1
  <2> QED
    BY <1>1, <1>2, <2>1, KeptBelow DEF AllKept
<1>4. /\ \A i \in 1 .. m : CallFrameRight(i, e)'
      /\ \A i \in 1 .. k : InitFrameRight(i)'
  <2>1. /\ Current \in 0 .. Current /\ Current <= Current' /\ Current' \in Nat /\ e <= Current
        /\ \A d \in 1 .. Current : active'[d] = active[d]
    BY <1>1
  <2>2. /\ \A i \in 1 .. m : /\ SameFrame(call_frames'[i], call_frames[i])
                             /\ Level(call_frames[i], e) <= Current
        /\ \A i \in 1 .. k : /\ SameInit(initterm_stack'[i], initterm_stack[i])
                             /\ initterm_stack[i].ret[2] <= Current
    BY <1>1
  <2> QED
    BY <1>2, <2>1, <2>2, FramesStay
<1>5. /\ \A i \in 1 .. m : Level(call_frames'[i], e) = Level(call_frames[i], e)
      /\ \A i \in 1 .. k : initterm_stack'[i].ret[2] = initterm_stack[i].ret[2]
  BY DEF SameFrame, SameInit, Level
<1>6. FrameComes(m, e) => /\ CallFrameRight(m + 1, e)' /\ Level(call_frames'[m + 1], e) = Current
                          /\ \A i \in 1 .. m : Level(call_frames[i], e) < Current
  <2> SUFFICES ASSUME FrameComes(m, e)
               PROVE  /\ CallFrameRight(m + 1, e)' /\ Level(call_frames'[m + 1], e) = Current
                      /\ \A i \in 1 .. m : Level(call_frames[i], e) < Current
    OBVIOUS
  <2>1. PICK left \in Nat : /\ call_frames'[m + 1].ret = After(Current, left)
                            /\ call_frames'[m + 1].final = active[Current].sp + left
    BY DEF FrameComes
  <2>2. Current \in 1 .. Current'
    BY <1>1 DEF FrameComes
  <2>3. CallFrameRight(m + 1, e)'
    BY <2>1, <2>2, <1>1 DEF CallFrameRight
  <2>4. Level(call_frames'[m + 1], e) = Current
    BY <2>1, <1>1, WordForms, SMTT(20) DEF Level
  <2>5. \A i \in 1 .. m : Level(call_frames[i], e) # Current
    BY DEF FrameComes, Calls0, CallsBack
  <2> QED
    BY <2>3, <2>4, <2>5, <1>1
<1>7. InitComes(k, e) => /\ InitFrameRight(k + 1)' /\ initterm_stack'[k + 1].ret[2] = Current
                         /\ \A i \in 1 .. k : initterm_stack[i].ret[2] < Current
  <2> SUFFICES ASSUME InitComes(k, e)
               PROVE  /\ InitFrameRight(k + 1)' /\ initterm_stack'[k + 1].ret[2] = Current
                      /\ \A i \in 1 .. k : initterm_stack[i].ret[2] < Current
    OBVIOUS
  <2>1. PICK left \in Nat : /\ initterm_stack'[k + 1].ret = After(Current, left)
                            /\ initterm_stack'[k + 1].saved = active[Current].sp + left + 1
    BY DEF InitComes
  <2>2. Current \in 1 .. Current'
    BY <1>1 DEF InitComes
  <2>3. InitFrameRight(k + 1)'
    BY <2>1, <2>2, <1>1 DEF InitFrameRight
  <2>4. initterm_stack'[k + 1].ret[2] = Current
    BY <2>1, <1>1, WordForms, SMTT(20)
  <2>5. \A i \in 1 .. k : initterm_stack[i].ret[2] # Current
    BY DEF InitComes, Calls0, Initialises
  <2> QED
    BY <2>3, <2>4, <2>5, <1>1
<1>8. Len(call_frames') \in Nat /\ (Len(call_frames') = m \/ (Len(call_frames') = m + 1 /\ FrameComes(m, e)))
  BY <1>1 DEF FrameComes
<1>9. Len(initterm_stack') \in Nat /\ (Len(initterm_stack') = k \/ (Len(initterm_stack') = k + 1 /\ InitComes(k, e)))
  BY <1>1 DEF InitComes
<1>10. /\ \A i \in 1 .. Len(call_frames') : CallFrameRight(i, e)'
       /\ \A i, j \in 1 .. Len(call_frames') : i < j => Level(call_frames'[i], e) < Level(call_frames'[j], e)
  <2>1. \A i, j \in 1 .. m : i < j => Level(call_frames[i], e) < Level(call_frames[j], e)
    BY <1>1 DEF FramesRight
  <2>2. \A i \in 1 .. Len(call_frames') : i \in 1 .. m \/ (i = m + 1 /\ FrameComes(m, e))
    BY <1>1, <1>8
  <2>3. ASSUME NEW i \in 1 .. Len(call_frames') PROVE CallFrameRight(i, e)'
    BY <2>2, <1>4, <1>6
  <2>4. ASSUME NEW i \in 1 .. Len(call_frames'), NEW j \in 1 .. Len(call_frames'), i < j
        PROVE  Level(call_frames'[i], e) < Level(call_frames'[j], e)
    <3>1. i \in 1 .. m
      BY <2>2, <2>4, <1>1, <1>8
    <3>2. CASE j \in 1 .. m
      BY <2>1, <2>4, <3>1, <3>2, <1>5
    <3>3. CASE j = m + 1 /\ FrameComes(m, e)
      BY <3>1, <3>3, <1>5, <1>6
    <3> QED
      BY <2>2, <3>2, <3>3
  <2> QED
    BY <2>3, <2>4
<1>11. /\ \A i \in 1 .. Len(initterm_stack') : InitFrameRight(i)'
       /\ \A i, j \in 1 .. Len(initterm_stack') : i < j => initterm_stack'[i].ret[2] < initterm_stack'[j].ret[2]
  <2>1. \A i, j \in 1 .. k : i < j => initterm_stack[i].ret[2] < initterm_stack[j].ret[2]
    <3>1. \A i \in 1 .. k : i \in 1 .. Len(initterm_stack)
      BY <1>1
    <3>2. \A i, j \in 1 .. Len(initterm_stack) : i < j => initterm_stack[i].ret[2] < initterm_stack[j].ret[2]
      BY DEF FramesRight
    <3> QED
      BY <3>1, <3>2
  <2>2. \A i \in 1 .. Len(initterm_stack') : i \in 1 .. k \/ (i = k + 1 /\ InitComes(k, e))
    BY <1>1, <1>9
  <2>3. ASSUME NEW i \in 1 .. Len(initterm_stack') PROVE InitFrameRight(i)'
    BY <2>2, <1>4, <1>7
  <2>4. ASSUME NEW i \in 1 .. Len(initterm_stack'), NEW j \in 1 .. Len(initterm_stack'), i < j
        PROVE  initterm_stack'[i].ret[2] < initterm_stack'[j].ret[2]
    <3>1. i \in 1 .. k
      BY <2>2, <2>4, <1>1, <1>9
    <3>2. CASE j \in 1 .. k
      BY <2>1, <2>4, <3>1, <3>2, <1>5
    <3>3. CASE j = k + 1 /\ InitComes(k, e)
      BY <3>1, <3>3, <1>5, <1>7
    <3> QED
      BY <2>2, <3>2, <3>3
  <2> QED
    BY <2>3, <2>4
<1>12. FramesRight(e)'
  <2>1. pending_process_exit' => call_frames' # <<>> /\ call_frames'[1].ret = Driver("exit")
    <3> SUFFICES ASSUME pending_process_exit PROVE call_frames' # <<>> /\ call_frames'[1].ret = Driver("exit")
      OBVIOUS
    <3>1. 1 \in 1 .. m /\ call_frames[1].ret = Driver("exit") /\ Len(call_frames') > 0
      BY <1>1, <1>8 DEF FramesRight
    <3> QED
      BY <3>1 DEF SameFrame
  <2> QED
    BY <1>1, <1>10, <1>11, <2>1 DEF FramesRight, Level
<1>13. ASSUME NEW d \in 0 .. Current, d # Current
       PROVE  (CallsBack(d, e)' <=> CallsBack(d, e)) /\ (Initialises(d)' <=> Initialises(d))
  <2>1. CallsBack(d, e)' <=> \E i \in 1 .. Len(call_frames') : Level(call_frames'[i], e) = d
    BY DEF CallsBack, Level
  <2>2. Initialises(d)' <=> \E i \in 1 .. Len(initterm_stack') : initterm_stack'[i].ret[2] = d
    BY DEF Initialises
  <2>3. (\E i \in 1 .. Len(call_frames') : Level(call_frames'[i], e) = d) <=>
            \E i \in 1 .. m : Level(call_frames[i], e) = d
    BY <1>1, <1>5, <1>6, <1>8, <1>13
  <2>4. CallsBack(d, e) <=> \E i \in 1 .. m : Level(call_frames[i], e) = d
    <3>1. \A i \in 1 .. Len(call_frames) : i \in 1 .. m \/ Level(call_frames[i], e) = Current
      BY <1>1
    <3> QED
      BY <3>1, <1>1, <1>13 DEF CallsBack
  <2>5. (\E i \in 1 .. Len(initterm_stack') : initterm_stack'[i].ret[2] = d) <=>
            \E i \in 1 .. k : initterm_stack[i].ret[2] = d
    <3>1. \A i \in 1 .. Len(initterm_stack') :
             i \in 1 .. k \/ initterm_stack'[i].ret[2] = Current
      BY <1>1, <1>7, <1>9
    <3>2. \A i \in 1 .. k : i \in 1 .. Len(initterm_stack')
      BY <1>1, <1>9
    <3> QED
      BY <1>5, <1>13, <3>1, <3>2
  <2>6. Initialises(d) <=> \E i \in 1 .. k : initterm_stack[i].ret[2] = d
    <3>1. \A i \in 1 .. Len(initterm_stack) : i \in 1 .. k \/ initterm_stack[i].ret[2] = Current
      BY <1>1
    <3> QED
      BY <3>1, <1>1, <1>13 DEF Initialises
  <2> QED
    BY <2>1, <2>2, <2>3, <2>4, <2>5, <2>6
<1>14. Chained(e)'
  <2> SUFFICES ASSUME NEW d \in 1 .. Current PROVE Driven(active[d].ret, d - 1, e)'
    BY <1>1 DEF Chained
  <2>1. Driven(active[d].ret, d - 1, e) /\ d - 1 \in 0 .. Current /\ d - 1 # Current
    BY <1>1 DEF Chained
  <2>2. /\ CallsBack(d - 1, e)' <=> CallsBack(d - 1, e)
        /\ Initialises(d - 1)' <=> Initialises(d - 1)
    BY <2>1, <1>13
  <2>3. active'[d] = active[d]
    OBVIOUS
  <2> HIDE DEF Calls0
  <2>4. d - 1 = 0 => (Calls0(0, e)' <=> Calls0(0, e))
    BY <2>2 DEF Calls0
  <2> QED
    BY <2>1, <2>2, <2>3, <2>4 DEF Driven
<1>15. FrameComes(m, e) => CallsBack(Current, e)'
  BY <1>1, <1>6, <1>8 DEF CallsBack, FrameComes, Level
<1>16. InitComes(k, e) => Initialises(Current)'
  <2> SUFFICES ASSUME InitComes(k, e) PROVE Initialises(Current)'
    OBVIOUS
  <2>1. k + 1 \in 1 .. Len(initterm_stack')
    BY <1>1 DEF InitComes
  <2>2. initterm_stack'[k + 1].ret[2] = Current
    BY <1>7
  <2> QED
    BY <1>1, <2>1, <2>2 DEF Initialises
<1>17. Len(call_frames') = m /\ m < Len(call_frames) => ~CallsBack(Current, e)'
  <2> SUFFICES ASSUME Len(call_frames') = m, m < Len(call_frames), NEW i \in 1 .. m
               PROVE  Level(call_frames'[i], e) # Current
    BY <1>1 DEF CallsBack, Level
  <2>0. i \in 1 .. Len(call_frames) /\ m + 1 \in 1 .. Len(call_frames) /\ i < m + 1
    BY <1>1
  <2>1. Level(call_frames[i], e) < Level(call_frames[m + 1], e)
    BY <2>0 DEF FramesRight
  <2>2. Level(call_frames[m + 1], e) = Current
    BY <2>0, <1>1
  <2>3. Current \in Nat /\ Level(call_frames'[i], e) = Level(call_frames[i], e)
    BY <1>1, <1>5
  <2> QED
    BY <2>1, <2>2, <2>3
<1>18. Len(initterm_stack') = k /\ k < Len(initterm_stack) => ~Initialises(Current)'
  <2> SUFFICES ASSUME Len(initterm_stack') = k, k < Len(initterm_stack), NEW i \in 1 .. k
               PROVE  initterm_stack'[i].ret[2] # Current
    BY <1>1 DEF Initialises
  <2>0. i \in 1 .. Len(initterm_stack) /\ k + 1 \in 1 .. Len(initterm_stack) /\ i < k + 1
    <3>1. PICK n \in Nat : n = Len(initterm_stack)
      BY <1>1
    <3>2. k \in Nat /\ k < n /\ i \in 1 .. k
      BY <1>1, <3>1
    <3>3. i \in 1 .. n /\ k + 1 \in 1 .. n /\ i < k + 1
      BY <3>2
    <3> QED
      BY <3>1, <3>3
  <2>1. initterm_stack[i].ret[2] < initterm_stack[k + 1].ret[2]
    BY <2>0 DEF FramesRight
  <2>2. initterm_stack[k + 1].ret[2] = Current
    BY <2>0, <1>1
  <2>3. Current \in Nat /\ initterm_stack'[i].ret[2] = initterm_stack[i].ret[2]
    BY <1>1, <1>5
  <2> QED
    BY <2>1, <2>2, <2>3
<1>19. /\ Len(call_frames') = m /\ m = Len(call_frames) => (CallsBack(Current, e)' <=> CallsBack(Current, e))
       /\ Len(initterm_stack') = k /\ k = Len(initterm_stack) => (Initialises(Current)' <=> Initialises(Current))
  BY <1>1, <1>5 DEF CallsBack, Initialises, Level
<1> QED
  BY <1>3, <1>12, <1>14, <1>15, <1>16, <1>17, <1>18, <1>19

(* Frames stay as they are when a function comes, goes or is reframed.      *)
LEMMA FramesSame ==
    ASSUME NEW e \in Nat, CallsTyped, AllKept, FramesRight(e), Chained(e),
           UNCHANGED <<call_frames, initterm_stack, pending_process_exit>>,
           NEW p \in 0 .. Current, p <= Current', Current' \in Nat,
           \A d \in 1 .. p : active'[d] = active[d],
           stack' \in Seq(Word), Agrees(Floor(p)),
           p = Current \/ (p = Current - 1 /\ Calls0(Current, e) /\ (~pending_process_exit => e = 0))
    PROVE  /\ FramesRight(e)'
           /\ \A d \in 1 .. p : FunctionKept(d)' /\ Driven(active[d].ret, d - 1, e)'
           /\ \A c \in 0 .. p : Floor(c)' \in Nat /\ Floor(c)' <= Floor(c)
           /\ Floor(0)' <= Len(stack')
           /\ \A d : /\ CallsBack(d, e)' <=> CallsBack(d, e)
                     /\ Initialises(d)' <=> Initialises(d)
                     /\ Calls0(d, e)' <=> Calls0(d, e)
           /\ \A r, d : Driven(r, d, e)' <=> Driven(r, d, e)
           /\ \A i \in 1 .. Len(call_frames) : Level(call_frames[i], e) <= p
           /\ \A i \in 1 .. Len(initterm_stack) : initterm_stack[i].ret[2] <= p
<1>1. /\ \A i \in 1 .. Len(call_frames) : Level(call_frames[i], e) \in 0 .. Current
      /\ \A i \in 1 .. Len(initterm_stack) : initterm_stack[i].ret[2] \in 1 .. Current
      /\ Current \in Nat /\ Len(call_frames) \in Nat /\ Len(initterm_stack) \in Nat
      /\ e \in 0 .. Current
  BY Levels
<1>2. \A i \in 1 .. Len(call_frames) : Level(call_frames[i], e) <= p
  BY <1>1 DEF Calls0, CallsBack
<1>3. \A i \in 1 .. Len(initterm_stack) : initterm_stack[i].ret[2] <= p
  BY <1>1 DEF Calls0, Initialises
<1>4. e <= p
  <2>1. CASE p = Current
    BY <2>1, <1>1
  <2>2. CASE p # Current /\ ~pending_process_exit
    BY <2>2, <1>1
  <2>3. CASE p # Current /\ pending_process_exit
    <3>1. call_frames # <<>> /\ call_frames[1].ret = Driver("exit") /\ 1 \in 1 .. Len(call_frames)
      BY <2>3, <1>1 DEF FramesRight, CallsTyped
    <3>2. Driver("exit")[1] # "call"
      BY WordForms, Names
    <3>3. Level(call_frames[1], e) = e
      BY <3>1, <3>2 DEF Level
    <3> QED
      BY <3>1, <3>3, <1>2
  <2> QED
    BY <2>1, <2>2, <2>3
<1>5. TlsRuns' => TlsRuns
  BY DEF TlsRuns
<1>6. /\ \A d : /\ CallsBack(d, e)' <=> CallsBack(d, e)
                /\ Initialises(d)' <=> Initialises(d)
                /\ Calls0(d, e)' <=> Calls0(d, e)
      /\ \A r, d : Driven(r, d, e)' <=> Driven(r, d, e)
  <2>1. \A d : /\ CallsBack(d, e)' <=> CallsBack(d, e)
               /\ Initialises(d)' <=> Initialises(d)
    BY DEF CallsBack, Initialises, Level
  <2>2. \A d : Calls0(d, e)' <=> Calls0(d, e)
    BY <2>1 DEF Calls0
  <2> QED
    BY <2>1, <2>2 DEF Driven
<1>7. /\ \A d \in 1 .. p : FunctionKept(d)'
      /\ \A c \in 0 .. p : Floor(c)' \in Nat /\ Floor(c)' <= Floor(c)
      /\ Floor(0)' <= Len(stack')
  BY <1>5, KeptBelow
<1>8. /\ \A i \in 1 .. Len(call_frames) : CallFrameRight(i, e)'
      /\ \A i \in 1 .. Len(initterm_stack) : InitFrameRight(i)'
  <2>1. /\ Len(call_frames) \in 0 .. Len(call_frames) /\ Len(initterm_stack) \in 0 .. Len(initterm_stack)
        /\ \A i \in 1 .. Len(call_frames) : /\ SameFrame(call_frames'[i], call_frames[i])
                                            /\ Level(call_frames[i], e) <= p
        /\ \A i \in 1 .. Len(initterm_stack) : /\ SameInit(initterm_stack'[i], initterm_stack[i])
                                               /\ initterm_stack[i].ret[2] <= p
    BY <1>1, <1>2, <1>3 DEF SameFrame, SameInit
  <2> QED
    BY <1>4, <1>5, <2>1, FramesStay
<1>9. FramesRight(e)'
  <2>1. e \in 0 .. Current'
    BY <1>1, <1>4
  <2>2. \A i, j \in 1 .. Len(call_frames) : i < j => Level(call_frames[i], e) < Level(call_frames[j], e)
    BY DEF FramesRight
  <2>3. \A i, j \in 1 .. Len(initterm_stack) : i < j => initterm_stack[i].ret[2] < initterm_stack[j].ret[2]
    BY DEF FramesRight
  <2>4. pending_process_exit => call_frames # <<>> /\ call_frames[1].ret = Driver("exit")
    BY DEF FramesRight
  <2> QED
    BY <1>8, <2>1, <2>2, <2>3, <2>4 DEF FramesRight, Level
<1>10. \A d \in 1 .. p : Driven(active[d].ret, d - 1, e)'
  BY <1>1, <1>6 DEF Chained
<1> QED
  BY <1>2, <1>3, <1>6, <1>7, <1>9, <1>10

-----------------------------------------------------------------------------
(* The steps of the guest.                                                  *)

LEMMA EnterKeeps ==
    ASSUME NEW e \in Nat, StackRight(e), EnterFunction
    PROVE  StackRight(e)'
<1>0. PICK n, top : n = Current /\ top = Last(stack)
  OBVIOUS
<1> DEFINE entered(locals) == [entry |-> Len(stack), ret |-> top, args |-> rip[2],
                               sp |-> Len(stack) + locals, framed |-> FALSE]
<1>1. PICK locals \in {1, 3} :
          /\ active' = Append(active, entered(locals))
          /\ stack' = stack \o [i \in 1 .. locals |-> Local(n + 1)]
  BY <1>0 DEF EnterFunction
<1>2. /\ rip[1] = "function" /\ rip' = Guest(n + 1)
      /\ UNCHANGED <<is_64bit, call_frames, initterm_stack, pending_process_exit>>
  BY <1>0 DEF EnterFunction
<1>3. /\ rip[2] \in Nat /\ AtEntry(rip[2]) /\ Driven(top, n, e)
  BY <1>0, <1>2, RipSays
<1>4. /\ CallsTyped /\ AllKept /\ FramesRight(e) /\ Chained(e)
  BY DEF StackRight
<1>5. /\ n \in Nat /\ Len(stack) \in Nat /\ Floor(n) \in Nat /\ Floor(n) <= Len(stack)
      /\ \A c \in 0 .. n : Floor(c) \in Nat /\ Floor(c) <= Floor(n)
      /\ stack \in Seq(Word) /\ active \in Seq(ActiveFunction)
  <2>1. n \in 0 .. n /\ n \in Nat
    BY <1>0, <1>4, FloorsRise
  <2> QED
    BY <1>0, <1>4, <2>1, FloorsRise DEF CallsTyped
<1>6. Floor(n) + rip[2] < Len(stack)
  BY <1>0, <1>3 DEF AtEntry
<1>7. top \in Word /\ top = stack[Len(stack)] /\ Len(stack) > 0
  BY <1>0, <1>3, <1>5, <1>6, LastOf
<1>8. entered(locals) \in ActiveFunction
  BY <1>3, <1>5, <1>7 DEF ActiveFunction
<1>9. /\ entered(locals).entry = Len(stack) /\ entered(locals).ret = top
      /\ entered(locals).args = rip[2] /\ entered(locals).sp = Len(stack) + locals
  OBVIOUS
<1> HIDE DEF entered
<1>10. /\ active' \in Seq(ActiveFunction) /\ Current' = n + 1
       /\ active'[n + 1] = entered(locals) /\ \A d \in 1 .. n : active'[d] = active[d]
  BY <1>0, <1>1, <1>5, <1>8 DEF Current
<1>11. /\ stack' \in Seq(Word) /\ Len(stack') = Len(stack) + locals
       /\ \A i \in 1 .. Len(stack) : stack'[i] = stack[i]
       /\ \A i \in Len(stack) + 1 .. Len(stack) + locals : stack'[i] = Local(n + 1)
  <2> DEFINE more == [i \in 1 .. locals |-> Local(n + 1)]
  <2>1. more \in Seq(Word) /\ Len(more) = locals /\ \A i \in 1 .. locals : more[i] = Local(n + 1)
    <3>1. Local(n + 1) \in Word /\ locals \in Nat
      BY <1>5, WordsOf
    <3> QED
      BY <3>1, RepeatedWord
  <2>2. stack' = stack \o more
    BY <1>1
  <2> HIDE DEF more
  <2>3. /\ stack' \in Seq(Word) /\ Len(stack') = Len(stack) + Len(more)
        /\ \A i \in 1 .. Len(stack) : stack'[i] = stack[i]
        /\ \A i \in 1 .. Len(more) : stack'[Len(stack) + i] = more[i]
    BY <2>1, <2>2, <1>5, Joined
  <2>4. ASSUME NEW i \in Len(stack) + 1 .. Len(stack) + locals PROVE stack'[i] = Local(n + 1)
    <3>1. i - Len(stack) \in 1 .. locals /\ i = Len(stack) + (i - Len(stack))
      BY <1>5
    <3> QED
      BY <3>1, <2>1, <2>3
  <2> QED
    BY <2>1, <2>3, <2>4
<1>12. Agrees(Floor(n))
  BY <1>5, <1>11 DEF Agrees
<1>13. /\ FramesRight(e)'
       /\ \A d \in 1 .. n : FunctionKept(d)' /\ Driven(active[d].ret, d - 1, e)'
       /\ \A c \in 0 .. n : Floor(c)' \in Nat /\ Floor(c)' <= Floor(c)
       /\ Floor(0)' <= Len(stack')
       /\ \A d : Calls0(d, e)' <=> Calls0(d, e)
       /\ \A r, d : Driven(r, d, e)' <=> Driven(r, d, e)
       /\ \A i \in 1 .. Len(call_frames) : Level(call_frames[i], e) <= n
       /\ \A i \in 1 .. Len(initterm_stack) : initterm_stack[i].ret[2] <= n
  <2>1. n \in 0 .. Current /\ n <= Current' /\ Current' \in Nat /\ n = Current
    BY <1>0, <1>5, <1>10
  <2> QED
    BY <1>2, <1>4, <1>10, <1>11, <1>12, <2>1, FramesSame
<1>14. FunctionKept(n + 1)'
  <2> DEFINE g == active'[n + 1]
  <2>1. /\ g.entry = Len(stack) /\ g.ret = top /\ g.args = rip[2] /\ g.sp = Len(stack) + locals
    BY <1>9, <1>10
  <2> HIDE DEF g
  <2>2. g.entry <= g.sp /\ g.sp <= Len(stack')
    BY <1>5, <1>11, <2>1
  <2>3. \A c \in 0 .. n + 1 - 1 : Floor(c)' + g.args < g.entry
    <3> TAKE c \in 0 .. n + 1 - 1
    <3>1. c \in 0 .. n
      BY <1>5
    <3>2. Floor(c)' \in Nat /\ Floor(c)' <= Floor(c) /\ Floor(c) <= Floor(n) /\ Floor(c) \in Nat
      BY <3>1, <1>5, <1>13
    <3> HIDE DEF Floor
    <3> QED
      BY <1>3, <1>5, <1>6, <2>1, <3>2
  <2>4. stack'[g.entry] = g.ret
    <3>1. Len(stack) \in 1 .. Len(stack)
      BY <1>5, <1>7
    <3>2. stack'[Len(stack)] = stack[Len(stack)]
      BY <1>11, <3>1
    <3> QED
      BY <1>7, <2>1, <3>2
  <2>5. \A i \in g.entry + 1 .. g.sp : stack'[i] = Local(n + 1)
    BY <1>11, <2>1
  <2> QED
    BY <1>5, <2>2, <2>3, <2>4, <2>5, SMTT(20) DEF FunctionKept, g
<1>15. AllKept'
  <2>1. \A d \in 1 .. n + 1 : d \in 1 .. n \/ d = n + 1
    BY <1>5
  <2> QED
    BY <1>10, <1>13, <1>14, <2>1 DEF AllKept
<1>16. Chained(e)'
  <2>1. \A d \in 1 .. n + 1 : d \in 1 .. n \/ (d = n + 1 /\ d - 1 = n)
    BY <1>5
  <2>2. ASSUME NEW d \in 1 .. n + 1, NEW r, r = active'[d].ret PROVE Driven(r, d - 1, e)'
    <3>1. CASE d \in 1 .. n
      <4>1. r = active[d].ret
        BY <2>2, <3>1, <1>10
      <4>2. Driven(r, d - 1, e)
        BY <3>1, <4>1, <1>0, <1>4 DEF Chained
      <4> QED
        BY <4>2, <1>13
    <3>2. CASE d = n + 1
      <4>1. r = top /\ d - 1 = n
        BY <2>2, <3>2, <1>5, <1>9, <1>10
      <4> QED
        BY <4>1, <1>3, <1>13
    <3> QED
      BY <2>1, <3>1, <3>2
  <2> QED
    BY <1>10, <2>2 DEF Chained
<1>17. Calls0(n + 1, e)'
  <2>1. Calls0(n + 1, e)
    <3>1. \A i \in 1 .. Len(call_frames) : Level(call_frames[i], e) # n + 1
      <4>1. \A i \in 1 .. Len(call_frames) : Level(call_frames[i], e) \in Nat
        BY <1>4, Levels
      <4> QED
        BY <1>5, <1>13, <4>1
    <3>2. \A i \in 1 .. Len(initterm_stack) : initterm_stack[i].ret[2] # n + 1
      <4>1. \A i \in 1 .. Len(initterm_stack) : initterm_stack[i].ret[2] \in Nat
        BY <1>4, Levels
      <4> QED
        BY <1>5, <1>13, <4>1
    <3> QED
      BY <3>1, <3>2 DEF Calls0, CallsBack, Initialises
  <2> QED
    BY <2>1, <1>13
<1>18. AtRip(e)'
  BY <1>2, <1>5, <1>9, <1>10, <1>11, <1>17 DEF AtRip
<1>19. CallsTyped'
  BY <1>2, <1>4, <1>10, <1>11 DEF CallsTyped
<1> QED
  BY <1>2, <1>13, <1>15, <1>16, <1>18, <1>19 DEF StackRight

LEMMA ReturnKeeps ==
    ASSUME NEW e \in Nat, StackRight(e), ReturnFunction
    PROVE  StackRight(e)'
<1>0. PICK n, f : n = Current /\ f = active[n]
  OBVIOUS
<1> DEFINE w == f.entry - 1 - (IF is_64bit THEN 0 ELSE f.args)
<1>1. /\ rip = Guest(n) /\ rip' = stack[f.entry] /\ stack' = SubSeq(stack, 1, w)
      /\ active' = Front(active)
      /\ UNCHANGED <<is_64bit, call_frames, initterm_stack, pending_process_exit>>
  BY <1>0 DEF ReturnFunction
<1>2. /\ CallsTyped /\ AllKept /\ FramesRight(e) /\ Chained(e)
      /\ ~pending_process_exit => e = 0
  BY DEF StackRight
<1>3. n \in Nat /\ rip[1] = "guest"
  <2>1. n \in Nat
    BY <1>0, <1>2, FloorsRise
  <2> QED
    BY <2>1, <1>1, WordForms
<1>4. n > 0 /\ Calls0(n, e) /\ Len(stack) = f.sp
  BY <1>0, <1>3, RipSays
<1>5. /\ f \in ActiveFunction /\ FunctionKept(n) /\ n - 1 \in 0 .. Current
      /\ \A c \in 0 .. n - 1 : Floor(c) \in Nat /\ Floor(c) + f.args < f.entry
      /\ f.entry <= f.sp /\ stack[f.entry] = f.ret
      /\ stack \in Seq(Word) /\ active \in Seq(ActiveFunction) /\ Len(stack) \in Nat
  <2>1. /\ f \in ActiveFunction /\ FunctionKept(n) /\ n - 1 \in 0 .. Current
        /\ \A c \in 0 .. n - 1 : Floor(c) \in Nat
        /\ stack \in Seq(Word) /\ active \in Seq(ActiveFunction) /\ Len(stack) \in Nat
    BY <1>0, <1>2, <1>3, <1>4, FloorsRise DEF AllKept, CallsTyped
  <2> QED
    BY <2>1, <1>0 DEF FunctionKept
<1>6. /\ w \in 0 .. Len(stack) /\ \A c \in 0 .. n - 1 : Floor(c) <= w
      /\ 0 \in 0 .. n - 1
  BY <1>3, <1>4, <1>5 DEF ActiveFunction
<1>7. /\ stack' \in Seq(Word) /\ Len(stack') = w /\ \A i \in 1 .. w : stack'[i] = stack[i]
  <2> HIDE DEF w
  <2> QED
    BY <1>1, <1>5, <1>6, CutTo
<1>8. /\ active' \in Seq(ActiveFunction) /\ Current' = n - 1
      /\ \A d \in 1 .. n - 1 : active'[d] = active[d]
  <2>1. active # <<>>
    BY <1>0, <1>4 DEF Current
  <2> QED
    BY <2>1, <1>0, <1>1, <1>5, LastOf DEF Current
<1> HIDE DEF w
<1>9. Agrees(Floor(n - 1))
  BY <1>3, <1>4, <1>5, <1>6, <1>7 DEF Agrees
<1>10. /\ FramesRight(e)'
       /\ \A d \in 1 .. n - 1 : FunctionKept(d)' /\ Driven(active[d].ret, d - 1, e)'
       /\ Floor(0)' <= Len(stack')
       /\ \A r, d : Driven(r, d, e)' <=> Driven(r, d, e)
  <2>1. /\ n - 1 <= Current' /\ Current' \in Nat /\ n - 1 = Current - 1 /\ Calls0(Current, e)
    BY <1>0, <1>3, <1>4, <1>8
  <2> QED
    BY <1>1, <1>2, <1>5, <1>7, <1>8, <1>9, <2>1, FramesSame
<1>11. AllKept' /\ Chained(e)'
  BY <1>8, <1>10 DEF AllKept, Chained
<1>12. Driven(rip, Current, e)'
  <2>1. Driven(f.ret, n - 1, e)
    BY <1>0, <1>2, <1>3, <1>4 DEF Chained
  <2>2. \A r : r = f.ret => Driven(r, n - 1, e)'
    BY <2>1, <1>10
  <2>3. \A r, d : r = rip' /\ d = Current' => Driven(r, d, e)'
    BY <2>2, <1>1, <1>5, <1>8
  <2> QED
    BY <2>3
<1>13. CallsTyped'
  BY <1>1, <1>2, <1>7, <1>8 DEF CallsTyped
<1> QED
  BY <1>1, <1>2, <1>10, <1>11, <1>12, <1>13 DEF StackRight, AtRip

LEMMA PushesShape ==
    ASSUME NEW n \in Nat, is_64bit \in BOOLEAN
    PROVE  /\ Pushes(n) \in Seq(Word) /\ Len(Pushes(n)) \in Nat /\ n <= Len(Pushes(n))
           /\ ~is_64bit => Len(Pushes(n)) = n
           /\ \A i \in Len(Pushes(n)) - n + 1 .. Len(Pushes(n)) : Pushes(n)[i] = Argument
<1> DEFINE junk == IF is_64bit THEN RoundUp(IF n < 4 THEN 4 ELSE n, 2) - n ELSE 0
<1>1. Pushes(n) = StackWords(n, junk)
  BY DEF Pushes
<1>2. junk \in Nat /\ (~is_64bit => junk = 0)
  <2> DEFINE k == IF n < 4 THEN 4 ELSE n
  <2>1. k \in Nat /\ n <= k
    OBVIOUS
  <2>2. RoundUp(k, 2) \in Nat /\ k <= RoundUp(k, 2)
    <3> HIDE DEF k
    <3> QED
      BY <2>1, RoundUpEven
  <2> QED
    BY <2>1, <2>2
<1> HIDE DEF junk
<1>3. /\ StackWords(n, junk) \in Seq(Word) /\ Len(StackWords(n, junk)) = junk + n
      /\ \A i \in junk + 1 .. junk + n : StackWords(n, junk)[i] = Argument
  BY <1>2, StackWordsShape
<1> QED
  BY <1>1, <1>2, <1>3

LEMMA CallThunkKeeps ==
    ASSUME NEW e \in Nat, StackRight(e), CallThunk
    PROVE  StackRight(e)'
<1>1. PICK t \in Imports :
          /\ stack' = stack \o Pushes(t.takes)
                        \o <<After(Current, IF is_64bit \/ t.cdecl THEN Len(Pushes(t.takes)) ELSE 0)>>
          /\ rip' = <<"thunk", t>>
  BY DEF CallThunk
<1>2. /\ rip = Guest(Current)
      /\ UNCHANGED <<is_64bit, active, call_frames, initterm_stack, pending_process_exit>>
  BY DEF CallThunk
<1>3. /\ CallsTyped /\ AllKept /\ FramesRight(e) /\ Chained(e)
      /\ ~pending_process_exit => e = 0
  BY DEF StackRight
<1>0. PICK n : n = Current
  OBVIOUS
<1>4. n \in Nat /\ Floor(n) <= Len(stack) /\ Len(stack) \in Nat /\ stack \in Seq(Word)
      /\ Floor(n) \in Nat
  <2>1. Current \in 0 .. Current
    BY <1>3, FloorsRise
  <2> QED
    BY <2>1, <1>0, <1>3, FloorsRise DEF CallsTyped
<1>5. n > 0 /\ Calls0(n, e) /\ Len(stack) = active[n].sp
  <2>1. rip[1] = "guest"
    BY <1>0, <1>2, <1>4, WordForms
  <2> QED
    BY <2>1, <1>0, RipSays
<1> DEFINE pushed == Pushes(t.takes)
           left == IF is_64bit \/ t.cdecl THEN Len(pushed) ELSE 0
<1>6. /\ pushed \in Seq(Word) /\ Len(pushed) \in Nat /\ t.takes \in Nat /\ t.takes <= Len(pushed)
      /\ \A i \in Len(pushed) - t.takes + 1 .. Len(pushed) : pushed[i] = Argument
  <2>1. t.takes \in Nat /\ is_64bit \in BOOLEAN
    BY <1>3, CallsAssumption DEF Balance, CallsTyped
  <2> QED
    BY <2>1, PushesShape
<1>7. stack' = stack \o pushed \o <<After(n, left)>> /\ After(n, left) \in Word
  <2>1. left \in Nat
    BY <1>6
  <2> HIDE DEF left
  <2>2. After(n, left) \in Word
    BY <2>1, <1>4, WordsOf
  <2> QED
    BY <2>2, <1>0, <1>1 DEF left
<1> HIDE DEF pushed, left
<1>8. /\ stack' \in Seq(Word) /\ Len(stack') = Len(stack) + Len(pushed) + 1
      /\ \A i \in 1 .. Len(stack) : stack'[i] = stack[i]
      /\ \A i \in 1 .. Len(pushed) : stack'[Len(stack) + i] = pushed[i]
      /\ stack'[Len(stack) + Len(pushed) + 1] = After(n, left)
  <2> DEFINE lower == stack \o pushed
  <2>1. /\ lower \in Seq(Word) /\ Len(lower) = Len(stack) + Len(pushed)
        /\ \A i \in 1 .. Len(stack) : lower[i] = stack[i]
        /\ \A i \in 1 .. Len(pushed) : lower[Len(stack) + i] = pushed[i]
    BY <1>4, <1>6, Joined
  <2> HIDE DEF lower
  <2>2. <<After(n, left)>> \in Seq(Word) /\ Len(<<After(n, left)>>) = 1
        /\ <<After(n, left)>>[1] = After(n, left)
    BY <1>7, OneWord
  <2>3. stack' = lower \o <<After(n, left)>>
    BY <1>7 DEF lower
  <2>4. /\ stack' \in Seq(Word) /\ Len(stack') = Len(lower) + Len(<<After(n, left)>>)
        /\ \A i \in 1 .. Len(lower) : stack'[i] = lower[i]
        /\ \A i \in 1 .. Len(<<After(n, left)>>) : stack'[Len(lower) + i] = <<After(n, left)>>[i]
    BY <2>1, <2>2, <2>3, Joined
  <2> HIDE DEF pushed, left
  <2>5. /\ Len(stack) \in Nat /\ Len(pushed) \in Nat /\ Len(lower) = Len(stack) + Len(pushed)
        /\ Len(stack') = Len(lower) + 1
    BY <1>4, <1>6, <2>1, <2>2, <2>4
  <2>6. \A i \in 1 .. Len(stack) : i \in 1 .. Len(lower)
    BY <2>5
  <2>7. \A i \in 1 .. Len(pushed) : Len(stack) + i \in 1 .. Len(lower)
    BY <2>5
  <2>8. stack'[Len(lower) + 1] = After(n, left)
    BY <2>2, <2>4
  <2>9. Len(lower) + 1 = Len(stack) + Len(pushed) + 1
    BY <2>5
  <2> QED
    BY <2>1, <2>4, <2>5, <2>6, <2>7, <2>8, <2>9
<1>9. Agrees(Floor(n))
  BY <1>4, <1>6, <1>8 DEF Agrees
<1>10. Current' = n
  BY <1>0, <1>2 DEF Current
<1>11. /\ FramesRight(e)'
       /\ \A d \in 1 .. n : FunctionKept(d)' /\ Driven(active[d].ret, d - 1, e)'
       /\ Floor(0)' <= Len(stack')
       /\ \A d : Calls0(d, e)' <=> Calls0(d, e)
  <2>1. /\ n \in 0 .. Current /\ n <= Current' /\ Current' \in Nat /\ n = Current
        /\ \A d \in 1 .. n : active'[d] = active[d]
    BY <1>0, <1>2, <1>4, <1>10
  <2> QED
    BY <1>2, <1>3, <1>8, <1>9, <2>1, FramesSame
<1>12. AllKept' /\ Chained(e)'
  BY <1>2, <1>10, <1>11 DEF AllKept, Chained
<1>13. InThunk(t)'
  <2>1. /\ Pushes(t.takes)' = pushed
        /\ (IF is_64bit \/ t.cdecl THEN Len(Pushes(t.takes)) ELSE 0)' = left
    BY <1>2 DEF pushed, left, Pushes
  <2>2. Len(stack') = active'[n].sp + Len(pushed) + 1
    BY <1>2, <1>5, <1>8
  <2>3. Last(stack') = After(n, left)
    BY <1>4, <1>6, <1>8 DEF Last
  <2>4. \A i \in 1 .. t.takes : stack'[Len(stack') - i] = Argument
    <3> TAKE i \in 1 .. t.takes
    <3>1. /\ Len(stack') - i = Len(stack) + (Len(pushed) - i + 1)
          /\ Len(pushed) - i + 1 \in 1 .. Len(pushed)
          /\ Len(pushed) - i + 1 \in Len(pushed) - t.takes + 1 .. Len(pushed)
      BY <1>4, <1>6, <1>8
    <3> QED
      BY <3>1, <1>6, <1>8
  <2> QED
    BY <1>10, <2>1, <2>2, <2>3, <2>4 DEF InThunk, ArgumentsAt
<1>14. AtRip(e)'
  BY <1>1, <1>5, <1>10, <1>11, <1>13 DEF AtRip
<1>15. CallsTyped'
  BY <1>2, <1>3, <1>8 DEF CallsTyped
<1> QED
  BY <1>2, <1>3, <1>11, <1>12, <1>14, <1>15 DEF StackRight

-----------------------------------------------------------------------------
(* The thunks.                                                              *)

(* The words above what the caller keeps are those it pushed, and the table *)
(* of argument counts says how many of them the thunk takes off.            *)
LEMMA ThunkShape ==
    ASSUME NEW e \in Nat, StackRight(e), rip[1] = "thunk"
    PROVE  /\ rip[2] \in Imports /\ Balance(rip[2]) /\ Current > 0 /\ Calls0(Current, e)
           /\ ArgumentsAt(Len(stack), rip[2].takes)
           /\ \E k \in Nat, left \in Nat :
                /\ Last(stack) = After(Current, left) /\ Len(stack) = active[Current].sp + k + 1
                /\ is_64bit => left = k
                /\ ~is_64bit => left + rip[2].argc = k /\ k = rip[2].takes
<1>1. PICK t \in Imports : rip[2] = t /\ Current > 0 /\ InThunk(t) /\ Calls0(Current, e)
  BY RipSays
<1>2. Balance(t)
  BY CallsAssumption
<1>3. is_64bit \in BOOLEAN /\ t.takes \in Nat /\ t.argc = IF t.cdecl THEN 0 ELSE t.takes
  BY <1>2 DEF StackRight, CallsTyped, Balance
<1>4. Len(Pushes(t.takes)) \in Nat /\ (~is_64bit => Len(Pushes(t.takes)) = t.takes)
  BY <1>3, PushesShape
<1> DEFINE k == Len(Pushes(t.takes))
           left == IF is_64bit \/ t.cdecl THEN k ELSE 0
<1>5. /\ Last(stack) = After(Current, left) /\ Len(stack) = active[Current].sp + k + 1
      /\ ArgumentsAt(Len(stack), t.takes)
  BY <1>1 DEF InThunk
<1>6. k \in Nat /\ left \in Nat /\ (is_64bit => left = k) /\ (~is_64bit => left + t.argc = k /\ k = t.takes)
  BY <1>3, <1>4
<1> HIDE DEF k, left
<1>7. \E j \in Nat, l \in Nat :
          /\ Last(stack) = After(Current, l) /\ Len(stack) = active[Current].sp + j + 1
          /\ is_64bit => l = j
          /\ ~is_64bit => l + t.argc = j /\ j = t.takes
  BY <1>5, <1>6
<1> QED
  BY <1>1, <1>2, <1>5, <1>7

(* A jump back to the function that called leaves it what it kept.          *)
LEMMA GoBackShape ==
    ASSUME CallsTyped, AllKept, Current > 0, NEW left \in Nat, NEW words,
           words = active[Current].sp + left, GoBack(After(Current, left), words)
    PROVE  /\ rip' = Guest(Current) /\ stack' \in Seq(Word)
           /\ Len(stack') = active[Current].sp /\ Agrees(Floor(Current))
<1>0. PICK n : n = Current
  OBVIOUS
<1>1. /\ n \in Nat /\ active[n].sp \in Nat /\ Floor(n) = active[n].sp
      /\ active[n].sp <= Len(stack) /\ stack \in Seq(Word) /\ Len(stack) \in Nat
  <2>1. Current \in Nat /\ Current \in 0 .. Current /\ Current \in 1 .. Current
    BY FloorsRise
  <2> QED
    BY <1>0, <2>1, FloorsRise DEF CallsTyped
<1> DEFINE to == After(n, left)
<1>2. to[1] = "call" /\ to[2] = n /\ to[3] = left
  BY <1>1, WordForms
<1>3. GoBack(to, words)
  BY <1>0
<1> HIDE DEF to
<1>4. rip' = Guest(n) /\ stack' = SubSeq(stack, 1, words - left)
  BY <1>2, <1>3 DEF GoBack
<1>5. words - left = active[n].sp /\ active[n].sp \in 0 .. Len(stack)
  BY <1>0, <1>1
<1>6. /\ stack' \in Seq(Word) /\ Len(stack') = active[n].sp
      /\ \A i \in 1 .. active[n].sp : stack'[i] = stack[i]
  <2>1. PICK k : k = active[n].sp
    OBVIOUS
  <2>2. k \in 0 .. Len(stack) /\ stack' = SubSeq(stack, 1, k) /\ stack \in Seq(Word)
    BY <1>1, <1>4, <1>5, <2>1
  <2>3. /\ stack' \in Seq(Word) /\ Len(stack') = k
        /\ \A i \in 1 .. k : stack'[i] = stack[i]
    BY <2>2, CutTo
  <2> QED
    BY <2>1, <2>3
<1> QED
  BY <1>0, <1>1, <1>4, <1>6 DEF Agrees

LEMMA RetKeeps ==
    ASSUME NEW e \in Nat, StackRight(e), rip[1] = "thunk",
           NEW taken, is_64bit \/ taken = rip[2].argc, Ret(taken),
           UNCHANGED <<is_64bit, active, call_frames, initterm_stack, pending_process_exit>>
    PROVE  StackRight(e)'
<1>1. /\ CallsTyped /\ AllKept /\ FramesRight(e) /\ Chained(e)
      /\ ~pending_process_exit => e = 0
  BY DEF StackRight
<1>2. PICK k \in Nat, left \in Nat :
          /\ Last(stack) = After(Current, left) /\ Len(stack) = active[Current].sp + k + 1
          /\ is_64bit => left = k
          /\ ~is_64bit => left + rip[2].argc = k
  BY ThunkShape
<1>3. Current > 0 /\ Calls0(Current, e) /\ Current \in Nat /\ active[Current].sp \in Nat
      /\ rip[2].argc \in Nat /\ is_64bit \in BOOLEAN
  <2>1. Current \in Nat
    BY <1>1, FloorsRise
  <2>2. Current > 0 /\ Calls0(Current, e) /\ rip[2].argc \in Nat
    BY ThunkShape DEF Balance
  <2>3. Current \in 0 .. Current /\ Current \in 1 .. Current
    BY <2>1, <2>2
  <2> QED
    BY <1>1, <2>1, <2>2, <2>3, FloorsRise DEF CallsTyped
<1> DEFINE words == Len(stack) - 1 - (IF is_64bit THEN 0 ELSE taken)
<1>4. GoBack(After(Current, left), words) /\ words = active[Current].sp + left
  <2>1. GoBack(Last(stack), words)
    BY DEF Ret
  <2>2. PICK sp : sp = active[Current].sp
    OBVIOUS
  <2>3. PICK count : count = rip[2].argc
    OBVIOUS
  <2>4. sp \in Nat /\ count \in Nat /\ Len(stack) = sp + k + 1
    BY <1>2, <1>3, <2>2, <2>3
  <2>5. CASE is_64bit
    <3>1. words = sp + left
      BY <1>2, <2>4, <2>5
    <3> QED
      BY <1>2, <2>1, <2>2, <3>1
  <2>6. CASE ~is_64bit
    <3>1. taken = count /\ left + count = k
      BY <1>2, <2>3, <2>6
    <3>2. words = sp + left
      BY <2>4, <2>6, <3>1
    <3> QED
      BY <1>2, <2>1, <2>2, <3>2
  <2> QED
    BY <1>3, <2>5, <2>6
<1> HIDE DEF words
<1>5. /\ rip' = Guest(Current) /\ stack' \in Seq(Word)
      /\ Len(stack') = active[Current].sp /\ Agrees(Floor(Current))
  BY <1>1, <1>3, <1>4, GoBackShape
<1>0. PICK n : n = Current
  OBVIOUS
<1>6. Current' = n
  BY <1>0 DEF Current
<1>7. /\ FramesRight(e)'
      /\ \A d \in 1 .. n : FunctionKept(d)' /\ Driven(active[d].ret, d - 1, e)'
      /\ Floor(0)' <= Len(stack')
      /\ \A d : Calls0(d, e)' <=> Calls0(d, e)
  <2>1. /\ n \in 0 .. Current /\ n <= Current' /\ Current' \in Nat /\ n = Current
        /\ \A d \in 1 .. n : active'[d] = active[d]
    BY <1>0, <1>3, <1>6
  <2> QED
    BY <1>0, <1>1, <1>5, <2>1, FramesSame
<1>8. AllKept' /\ Chained(e)'
  BY <1>6, <1>7 DEF AllKept, Chained
<1>9. AtRip(e)'
  <2>1. Calls0(n, e)'
    BY <1>0, <1>3, <1>7
  <2> QED
    BY <1>0, <1>3, <1>5, <1>6, <2>1 DEF AtRip
<1>10. CallsTyped'
  BY <1>1, <1>5 DEF CallsTyped
<1> QED
  BY <1>1, <1>7, <1>8, <1>9, <1>10 DEF StackRight

(* A function that is called is at its entry, whatever called it.           *)
LEMMA EntryRight ==
    ASSUME NEW e \in Nat, CallsTyped, NEW n \in 0 .. 4, NEW r,
           UNCHANGED <<is_64bit, active>>, CallsTyped',
           Floor(Current) <= Len(stack), NEW words \in Nat, Floor(Current) <= words,
           Floor(Current) \in Nat, Floor(Current)' \in Nat, Floor(Current)' <= Floor(Current),
           rip' = Function(n), words + n < Len(stack'), Last(stack') = r,
           \A i \in 1 .. n : stack'[Len(stack') - i] = Argument,
           is_64bit => Len(stack') % 2 = 1,
           \A q : q = r => Driven(q, Current, e)'
    PROVE  AtRip(e)'
<1>1. AtEntry(n)'
  <2>1. Floor(Current)' + n < Len(stack')
    <3>1. Len(stack') \in Nat /\ n \in Nat
      BY DEF CallsTyped
    <3> QED
      BY <3>1
  <2> QED
    BY <2>1 DEF AtEntry, ArgumentsAt
<1>2. Driven(Last(stack), Current, e)'
  OBVIOUS
<1>3. n \in Nat
  OBVIOUS
<1> QED
  BY <1>1, <1>2, <1>3 DEF AtRip

LEMMA InvokeKeeps ==
    ASSUME NEW e \in Nat, StackRight(e), rip[1] = "thunk",
           NEW calls \in Seq(0 .. 4), calls # <<>>, NEW modal \in BOOLEAN,
           NEW taken, taken = rip[2].argc, InvokeCallbacks(calls, taken, modal),
           UNCHANGED <<is_64bit, active, initterm_stack, pending_process_exit>>
    PROVE  StackRight(e)'
<1>1. /\ CallsTyped /\ AllKept /\ FramesRight(e) /\ Chained(e)
      /\ ~pending_process_exit => e = 0
  BY DEF StackRight
<1>2. PICK k \in Nat, left \in Nat :
          /\ Last(stack) = After(Current, left) /\ Len(stack) = active[Current].sp + k + 1
          /\ is_64bit => left = k
          /\ ~is_64bit => left + rip[2].argc = k
  BY ThunkShape
<1>3. /\ Current > 0 /\ Calls0(Current, e) /\ Current \in Nat /\ active[Current].sp \in Nat
      /\ rip[2].argc \in Nat /\ is_64bit \in BOOLEAN
      /\ Floor(Current) = active[Current].sp
      /\ Floor(Current) <= Len(stack) /\ Len(stack) \in Nat
  <2>1. Current \in Nat
    BY <1>1, FloorsRise
  <2>2. Current > 0 /\ Calls0(Current, e) /\ rip[2].argc \in Nat
    BY ThunkShape DEF Balance
  <2>3. Current \in 0 .. Current /\ Current \in 1 .. Current
    BY <2>1, <2>2
  <2> QED
    BY <1>1, <2>1, <2>2, <2>3, FloorsRise DEF CallsTyped
<1> DEFINE final == Len(stack) - 1 - (IF is_64bit THEN 0 ELSE taken)
           g == [remaining |-> Tail(calls), ret |-> Last(stack), modal |-> modal, final |-> final]
           m == Len(call_frames)
<1>4. call_frames' = Append(call_frames, g) /\ SetupCall(Head(calls), Driver("callbacks"), Len(stack))
  BY DEF InvokeCallbacks
<1>5. final = active[Current].sp + left /\ final \in Nat
  <2>1. PICK sp : sp = active[Current].sp
    OBVIOUS
  <2>2. PICK count : count = rip[2].argc
    OBVIOUS
  <2>3. sp \in Nat /\ count \in Nat /\ taken = count /\ Len(stack) = sp + k + 1
    BY <1>2, <1>3, <2>1, <2>2
  <2>4. CASE is_64bit
    BY <1>2, <2>1, <2>3, <2>4
  <2>5. CASE ~is_64bit
    <3>1. left + count = k
      BY <1>2, <2>2, <2>5
    <3>2. final = Len(stack) - 1 - count
      BY <2>3, <2>5
    <3>3. final = sp + left /\ sp + left \in Nat
      <4> HIDE DEF final
      <4> QED
        BY <2>3, <3>1, <3>2
    <3> QED
      BY <2>1, <3>3
  <2> QED
    BY <1>3, <2>4, <2>5
<1>6. Head(calls) \in 0 .. 4 /\ Tail(calls) \in Seq(0 .. 4)
  OBVIOUS
<1>7. g \in CallFrame /\ g.ret = After(Current, left) /\ g.final = active[Current].sp + left
  <2>1. After(Current, left) \in Word
    BY <1>3, WordsOf
  <2> HIDE DEF final
  <2> QED
    BY <2>1, <1>2, <1>5, <1>6 DEF CallFrame
<1> HIDE DEF final, g
<1>8. Driver("callbacks") \in Word
  BY WordsOf, Names
<1>9. /\ stack' \in Seq(Word) /\ rip' = Function(Head(calls))
      /\ Agrees(Floor(Current))
      /\ Len(stack) + Head(calls) < Len(stack') /\ Last(stack') = Driver("callbacks")
      /\ \A i \in 1 .. Head(calls) : stack'[Len(stack') - i] = Argument
      /\ is_64bit => Len(stack') % 2 = 1
  BY <1>1, <1>3, <1>4, <1>6, <1>8, SetupCallShape
<1>10. /\ call_frames' \in Seq(CallFrame) /\ m \in Nat /\ Len(call_frames') = m + 1
       /\ call_frames'[m + 1] = g /\ \A i \in 1 .. m : call_frames'[i] = call_frames[i]
       /\ call_frames \in Seq(CallFrame) /\ initterm_stack \in Seq(InitFrame)
       /\ Len(initterm_stack) \in Nat
  BY <1>1, <1>4, <1>7 DEF CallsTyped
<1>0. PICK n, mm : n = Current /\ mm = m
  OBVIOUS
<1>11. FrameComes(mm, e)
  BY <1>0, <1>3, <1>7, <1>10 DEF FrameComes
<1>12. /\ AllKept' /\ FramesRight(e)' /\ Chained(e)'
       /\ CallsBack(Current, e)' /\ (Initialises(Current)' <=> Initialises(Current))
  <2>1. /\ mm \in 0 .. Len(call_frames) /\ Len(initterm_stack) \in 0 .. Len(initterm_stack)
        /\ \A i \in 1 .. mm : SameFrame(call_frames'[i], call_frames[i])
        /\ \A i \in 1 .. Len(initterm_stack) : SameInit(initterm_stack'[i], initterm_stack[i])
        /\ pending_process_exit => mm > 0
        /\ ~(mm < Len(call_frames)) /\ initterm_stack' \in Seq(InitFrame)
    BY <1>0, <1>1, <1>10 DEF SameFrame, SameInit, FramesRight
  <2>2. Len(initterm_stack') = Len(initterm_stack) /\ ~(Len(initterm_stack) < Len(initterm_stack))
    BY <1>10
  <2> DEFINE kk == Len(initterm_stack)
  <2>3. kk \in 0 .. Len(initterm_stack) /\ Len(initterm_stack') = kk /\ kk = Len(initterm_stack)
    BY <2>1, <2>2
  <2> QED
    BY <1>1, <1>9, <1>10, <1>11, <2>1, <2>2, <2>3, FramesChange
<1>13. CallsTyped'
  BY <1>1, <1>9, <1>10 DEF CallsTyped
<1>14. AtRip(e)'
  <2>1. \A q : q = Driver("callbacks") => Driven(q, Current, e)'
    BY <1>3, <1>12 DEF Driven, Calls0
  <2>2. Floor(Current)' \in Nat /\ Floor(Current)' <= Floor(Current)
    BY <1>3 DEF Floor, Current
  <2> QED
    BY <1>1, <1>3, <1>6, <1>9, <1>13, <2>1, <2>2, EntryRight
<1> QED
  BY <1>1, <1>12, <1>13, <1>14 DEF StackRight

(* Every thunk that answers, or calls the guest's window procedures, dialog  *)
(* procedures or DllMains first.                                            *)
LEMMA CallLists ==
    ASSUME NEW k \in Nat, k > 0
    PROVE  /\ Repeat(3, k) \in Seq(0 .. 4) /\ Repeat(3, k) # <<>>
           /\ Repeat(3, k - 1) \in Seq(0 .. 4)
<1>1. Len(Repeat(3, k)) = k /\ Repeat(3, k) \in Seq(0 .. 4)
  BY DEF Repeat
<1>2. Repeat(3, k - 1) \in Seq(0 .. 4)
  BY DEF Repeat
<1> QED
  BY <1>1, <1>2

LEMMA ThunksKeep ==
    ASSUME NEW e \in Nat, StackRight(e),
           Answer \/ Notify \/ SendToWindow \/ OpenDialog \/ CloseDialog
    PROVE  StackRight(e)'
<1>1. ASSUME Answer \/ CloseDialog PROVE StackRight(e)'
  <2>1. /\ rip[1] = "thunk" /\ Ret(rip[2].argc)
        /\ UNCHANGED <<is_64bit, active, call_frames, initterm_stack, pending_process_exit>>
    BY <1>1 DEF Answer, CloseDialog, Returns, At
  <2> QED
    BY <2>1, RetKeeps
<1>2. ASSUME Notify PROVE StackRight(e)'
  <2>1. PICK k \in 1 .. MaxList : InvokeCallbacks(Repeat(3, k), rip[2].argc, FALSE)
    BY <1>2 DEF Notify
  <2>2. /\ rip[1] = "thunk" /\ UNCHANGED <<is_64bit, active, initterm_stack, pending_process_exit>>
    BY <1>2 DEF Notify, At
  <2>3. Repeat(3, k) \in Seq(0 .. 4) /\ Repeat(3, k) # <<>>
    BY CallLists, CallsAssumption
  <2> QED
    BY <2>1, <2>2, <2>3, InvokeKeeps
<1>3. ASSUME SendToWindow PROVE StackRight(e)'
  <2>1. /\ rip[1] = "thunk" /\ UNCHANGED <<is_64bit, active, initterm_stack, pending_process_exit>>
        /\ InvokeCallbacks(<<4>>, rip[2].argc, FALSE)
    BY <1>3 DEF SendToWindow, At
  <2>2. <<4>> \in Seq(0 .. 4) /\ <<4>> # <<>>
    OBVIOUS
  <2> QED
    BY <2>1, <2>2, InvokeKeeps
<1>4. ASSUME OpenDialog PROVE StackRight(e)'
  <2>1. /\ rip[1] = "thunk" /\ rip[2].does = "opens"
        /\ UNCHANGED <<is_64bit, active, initterm_stack, pending_process_exit>>
    BY <1>4 DEF OpenDialog, At
  <2>2. rip[2].argc = 5 /\ rip[2].modal \in BOOLEAN
    BY <2>1, ThunkShape DEF Balance
  <2>3. CASE Returns
    BY <2>1, <2>3, RetKeeps DEF Returns
  <2>4. CASE InvokeCallbacks(<<4>>, 5, rip[2].modal)
    <3>1. <<4>> \in Seq(0 .. 4) /\ <<4>> # <<>>
      OBVIOUS
    <3> QED
      BY <2>1, <2>2, <2>4, <3>1, InvokeKeeps
  <2>5. CASE InvokeCallbacks(<<4, 4>>, 5, FALSE)
    <3>1. <<4, 4>> \in Seq(0 .. 4) /\ <<4, 4>> # <<>>
      OBVIOUS
    <3> QED
      BY <2>1, <2>2, <2>5, <3>1, InvokeKeeps
  <2> QED
    BY <1>4, <2>3, <2>4, <2>5 DEF OpenDialog
<1> QED
  BY <1>1, <1>2, <1>3, <1>4

(* What a thunk that is not one of the guest's finds: the stack of the       *)
(* function that called it.                                                 *)
LEMMA Below ==
    ASSUME NEW e \in Nat, StackRight(e)
    PROVE  /\ CallsTyped /\ AllKept /\ FramesRight(e) /\ Chained(e)
           /\ ~pending_process_exit => e = 0
           /\ Current \in Nat /\ Len(stack) \in Nat /\ stack \in Seq(Word)
           /\ Floor(Current) \in Nat /\ Floor(Current) <= Len(stack)
           /\ is_64bit \in BOOLEAN
           /\ call_frames \in Seq(CallFrame) /\ Len(call_frames) \in Nat
           /\ initterm_stack \in Seq(InitFrame) /\ Len(initterm_stack) \in Nat
<1>1. /\ CallsTyped /\ AllKept /\ FramesRight(e) /\ Chained(e)
      /\ ~pending_process_exit => e = 0
  BY DEF StackRight
<1>2. Current \in Nat /\ Current \in 0 .. Current
  BY <1>1, FloorsRise
<1> QED
  BY <1>1, <1>2, FloorsRise DEF CallsTyped

LEMMA InittermKeeps ==
    ASSUME NEW e \in Nat, StackRight(e), Initterm
    PROVE  StackRight(e)'
<1>1. /\ rip[1] = "thunk" /\ rip[2].does = "initterm"
      /\ UNCHANGED <<is_64bit, active, call_frames, pending_process_exit>>
  BY DEF Initterm, At
<1>2. /\ rip[2].argc = 0 /\ Current > 0 /\ Calls0(Current, e)
  BY <1>1, ThunkShape DEF Balance
<1>3. CASE Ret(0) /\ UNCHANGED initterm_stack
  BY <1>1, <1>2, <1>3, RetKeeps
<1>4. ASSUME NEW c \in 1 .. MaxList,
             initterm_stack' = Append(initterm_stack,
                    [remaining |-> c - 1, ret |-> Last(stack), saved |-> Len(stack)]),
             SetupCall(0, Driver("initterm"), Len(stack))
      PROVE  StackRight(e)'
  <2>1. /\ CallsTyped /\ AllKept /\ FramesRight(e) /\ Chained(e)
        /\ ~pending_process_exit => e = 0
        /\ Current \in Nat /\ Len(stack) \in Nat /\ stack \in Seq(Word)
        /\ Floor(Current) \in Nat /\ Floor(Current) <= Len(stack)
        /\ is_64bit \in BOOLEAN
        /\ call_frames \in Seq(CallFrame) /\ Len(call_frames) \in Nat
        /\ initterm_stack \in Seq(InitFrame) /\ Len(initterm_stack) \in Nat
    BY Below
  <2>2. PICK k \in Nat, left \in Nat :
            /\ Last(stack) = After(Current, left) /\ Len(stack) = active[Current].sp + k + 1
            /\ is_64bit => left = k
            /\ ~is_64bit => left + rip[2].argc = k
    BY <1>1, ThunkShape
  <2>3. left = k
    BY <1>2, <2>1, <2>2
  <2> DEFINE g == [remaining |-> c - 1, ret |-> Last(stack), saved |-> Len(stack)]
  <2>4. g \in InitFrame /\ g.ret = After(Current, left) /\ g.saved = active[Current].sp + left + 1
    <3>1. After(Current, left) \in Word /\ c - 1 \in Nat
      BY <2>1, WordsOf
    <3> QED
      BY <3>1, <2>1, <2>2, <2>3 DEF InitFrame
  <2> HIDE DEF g
  <2>5. PICK m, d : m = Len(initterm_stack) /\ d = Len(call_frames)
    OBVIOUS
  <2>6. /\ initterm_stack' \in Seq(InitFrame) /\ m \in Nat /\ Len(initterm_stack') = m + 1
        /\ initterm_stack'[m + 1] = g /\ \A i \in 1 .. m : initterm_stack'[i] = initterm_stack[i]
    <3>1. initterm_stack' = Append(initterm_stack, g)
      BY <1>4 DEF g
    <3> QED
      BY <2>1, <2>4, <2>5, <3>1
  <2>7. Driver("initterm") \in Word
    BY WordsOf, Names
  <2>8. /\ stack' \in Seq(Word) /\ rip' = Function(0)
        /\ Agrees(Floor(Current))
        /\ Len(stack) + 0 < Len(stack') /\ Last(stack') = Driver("initterm")
        /\ \A i \in 1 .. 0 : stack'[Len(stack') - i] = Argument
        /\ is_64bit => Len(stack') % 2 = 1
    <3>1. 0 \in 0 .. 4
      OBVIOUS
    <3> QED
      BY <1>4, <2>1, <2>7, <3>1, SetupCallShape
  <2>9. InitComes(m, e)
    BY <1>2, <2>1, <2>4, <2>5, <2>6 DEF InitComes
  <2>10. /\ AllKept' /\ FramesRight(e)' /\ Chained(e)'
         /\ Initialises(Current)' /\ (CallsBack(Current, e)' <=> CallsBack(Current, e))
    <3>1. /\ m \in 0 .. Len(initterm_stack) /\ d \in 0 .. Len(call_frames) /\ Len(call_frames') = d
          /\ \A i \in 1 .. d : SameFrame(call_frames'[i], call_frames[i])
          /\ \A i \in 1 .. m : SameInit(initterm_stack'[i], initterm_stack[i])
          /\ pending_process_exit => d > 0
          /\ ~(m < Len(initterm_stack)) /\ ~(d < Len(call_frames)) /\ d = Len(call_frames)
          /\ call_frames' \in Seq(CallFrame)
      BY <1>1, <2>1, <2>5, <2>6 DEF SameFrame, SameInit, FramesRight
    <3> QED
      BY <1>1, <2>1, <2>6, <2>8, <2>9, <3>1, FramesChange
  <2>11. CallsTyped'
    BY <1>1, <2>1, <2>6, <2>8 DEF CallsTyped
  <2>12. AtRip(e)'
    <3>1. \A q : q = Driver("initterm") => Driven(q, Current, e)'
      BY <1>2, <2>10 DEF Driven, Calls0
    <3>2. Floor(Current)' \in Nat /\ Floor(Current)' <= Floor(Current)
      <4>1. Floor(Current)' = Floor(Current)
        BY <1>1, <1>2 DEF Floor, Current
      <4> QED
        BY <2>1, <4>1
    <3>3. 0 \in 0 .. 4
      OBVIOUS
    <3> QED
      BY <1>1, <2>1, <2>8, <2>11, <3>1, <3>2, <3>3, EntryRight
  <2> QED
    BY <1>1, <2>1, <2>10, <2>11, <2>12 DEF StackRight
<1> QED
  BY <1>3, <1>4 DEF Initterm

(* The frame that the prologue builds is the caller's from then on.         *)
LEMMA PrologKeeps ==
    ASSUME NEW e \in Nat, StackRight(e), EhProlog
    PROVE  StackRight(e)'
<1>0. PICK n : n = Current
  OBVIOUS
<1>1. /\ rip[1] = "thunk" /\ rip[2].does = "prolog"
      /\ UNCHANGED <<is_64bit, call_frames, initterm_stack, pending_process_exit>>
  BY DEF EhProlog, At
<1>2. /\ CallsTyped /\ AllKept /\ FramesRight(e) /\ Chained(e)
      /\ ~pending_process_exit => e = 0
      /\ n \in Nat /\ Len(stack) \in Nat /\ stack \in Seq(Word)
      /\ is_64bit \in BOOLEAN
  BY <1>0, Below
<1>3. /\ n > 0 /\ Calls0(n, e) /\ rip[2].takes = 0 /\ rip[2].argc = 0
  BY <1>0, <1>1, ThunkShape DEF Balance
<1>4. CASE is_64bit
  <2>1. Ret(0) /\ UNCHANGED active
    BY <1>4 DEF EhProlog
  <2> QED
    BY <1>1, <1>4, <2>1, RetKeeps
<1>5. CASE ~is_64bit
  <2>1. PICK f : f = active[n]
    OBVIOUS
  <2>2. /\ f \in ActiveFunction /\ active \in Seq(ActiveFunction) /\ Len(active) = n
        /\ FunctionKept(n)
    BY <1>0, <1>2, <1>3, <2>1, FloorsRise DEF AllKept, CallsTyped, Current
  <2>3. /\ rip' = Guest(n) /\ stack' = Front(stack) \o [i \in 1 .. 4 |-> Local(n)]
        /\ active' = [active EXCEPT ![n] = [f EXCEPT !.sp = Len(stack) + 3, !.framed = TRUE]]
    BY <1>0, <1>5, <2>1 DEF EhProlog, Replace
  <2>4. Len(stack) = f.sp + 1
    <3>1. PICK k \in Nat, left \in Nat :
              /\ Len(stack) = active[Current].sp + k + 1
              /\ ~is_64bit => k = rip[2].takes
      BY <1>1, ThunkShape
    <3>2. k = 0 /\ f.sp \in Nat
      BY <1>3, <1>5, <2>2, <3>1 DEF ActiveFunction
    <3> QED
      BY <1>0, <2>1, <3>1, <3>2
  <2>5. PICK sp : sp = f.sp
    OBVIOUS
  <2>6. sp \in Nat /\ Len(stack) = sp + 1
    BY <2>2, <2>4, <2>5 DEF ActiveFunction
  <2>7. /\ Front(stack) \in Seq(Word) /\ Len(Front(stack)) = sp
        /\ \A i \in 1 .. sp : Front(stack)[i] = stack[i]
    <3>1. stack # <<>>
      BY <1>2, <2>6
    <3> QED
      BY <1>2, <2>6, <3>1, LastOf
  <2>8. /\ stack' \in Seq(Word) /\ Len(stack') = sp + 4
        /\ \A i \in 1 .. sp : stack'[i] = stack[i]
        /\ \A i \in sp + 1 .. sp + 4 : stack'[i] = Local(n)
    <3>1. Local(n) \in Word
      BY <1>2, WordsOf
    <3>2. PICK four : four = [i \in 1 .. 4 |-> Local(n)]
      OBVIOUS
    <3>3. four \in Seq(Word) /\ Len(four) = 4 /\ \A i \in 1 .. 4 : four[i] = Local(n)
      BY <3>1, <3>2, RepeatedWord
    <3>4. PICK rest : rest = Front(stack)
      OBVIOUS
    <3>5. stack' = rest \o four /\ rest \in Seq(Word) /\ Len(rest) = sp
      BY <2>3, <2>7, <3>2, <3>4
    <3>6. /\ stack' \in Seq(Word) /\ Len(stack') = Len(rest) + Len(four)
          /\ \A i \in 1 .. Len(rest) : stack'[i] = rest[i]
          /\ \A i \in 1 .. Len(four) : stack'[Len(rest) + i] = four[i]
      BY <3>3, <3>5, Joined
    <3>7. /\ stack' \in Seq(Word) /\ Len(stack') = sp + 4
          /\ \A i \in 1 .. sp : stack'[i] = stack[i]
      BY <2>7, <3>3, <3>4, <3>5, <3>6
    <3>8. ASSUME NEW i \in sp + 1 .. sp + 4 PROVE stack'[i] = Local(n)
      <4>1. i - sp \in 1 .. 4 /\ sp + (i - sp) = i
        BY <2>6
      <4>2. stack'[sp + (i - sp)] = four[i - sp]
        BY <4>1, <3>3, <3>5, <3>6
      <4> QED
        BY <4>1, <4>2, <3>3
    <3> QED
      BY <3>7, <3>8
  <2>9. PICK g : g = [f EXCEPT !.sp = Len(stack) + 3, !.framed = TRUE]
    OBVIOUS
  <2>10. /\ g \in ActiveFunction /\ g.sp = sp + 4
         /\ g.entry = f.entry /\ g.ret = f.ret /\ g.args = f.args
    <3>1. PICK k : k = Len(stack) + 3
      OBVIOUS
    <3>2. PICK h : h = [f EXCEPT !.sp = k]
      OBVIOUS
    <3>3. g = [h EXCEPT !.framed = TRUE]
      BY <2>2, <2>9, <3>1, <3>2 DEF ActiveFunction
    <3>4. k \in Nat /\ k = sp + 4
      BY <2>6, <3>1
    <3>5. /\ h \in ActiveFunction /\ h.sp = k
          /\ h.entry = f.entry /\ h.ret = f.ret /\ h.args = f.args
      BY <2>2, <3>2, <3>4 DEF ActiveFunction
    <3>6. /\ g \in ActiveFunction /\ g.sp = h.sp
          /\ g.entry = h.entry /\ g.ret = h.ret /\ g.args = h.args
      BY <3>3, <3>5 DEF ActiveFunction
    <3> QED
      BY <3>4, <3>5, <3>6
  <2>11. /\ active' \in Seq(ActiveFunction) /\ Len(active') = n /\ active'[n] = g
         /\ \A d \in 1 .. n - 1 : active'[d] = active[d]
    <3>1. active' = [active EXCEPT ![n] = g]
      BY <2>3, <2>9
    <3> QED
      BY <1>2, <1>3, <2>2, <2>10, <3>1
  <2>12. Current' = n
    BY <2>11 DEF Current
  <2>13. /\ n - 1 \in 0 .. Current /\ n - 1 <= Current' /\ Current' \in Nat /\ n - 1 = Current - 1
         /\ Calls0(Current, e)
    BY <1>0, <1>2, <1>3, <2>12
  <2>14. /\ \A c \in 0 .. n - 1 : Floor(c) \in Nat /\ Floor(c) + f.args < f.entry
         /\ f.entry \in Nat /\ f.args \in Nat /\ f.entry <= sp
         /\ stack[f.entry] = f.ret /\ \A i \in f.entry + 1 .. sp : stack[i] = Local(n)
    <3>1. \A c \in 0 .. n - 1 : Floor(c) \in Nat
      BY <1>0, <1>2, <1>3, FloorsRise
    <3> QED
      BY <3>1, <2>1, <2>2, <2>5 DEF FunctionKept, ActiveFunction
  <2>15. Agrees(Floor(n - 1))
    <3>1. n - 1 \in 0 .. n - 1
      BY <1>2, <1>3
    <3>2. Floor(n - 1) \in Nat /\ Floor(n - 1) <= sp
      BY <2>6, <2>14, <3>1
    <3> QED
      BY <2>6, <2>8, <3>2 DEF Agrees
  <2>16. /\ FramesRight(e)'
         /\ \A d \in 1 .. n - 1 : FunctionKept(d)' /\ Driven(active[d].ret, d - 1, e)'
         /\ \A c \in 0 .. n - 1 : Floor(c)' \in Nat /\ Floor(c)' <= Floor(c)
         /\ Floor(0)' <= Len(stack')
         /\ \A d : Calls0(d, e)' <=> Calls0(d, e)
         /\ \A r, d : Driven(r, d, e)' <=> Driven(r, d, e)
    BY <1>1, <1>2, <2>8, <2>11, <2>13, <2>15, FramesSame
  <2>17. FunctionKept(n)'
    <3>1. g.entry <= g.sp /\ g.sp <= Len(stack')
      BY <2>6, <2>8, <2>10, <2>14
    <3>2. \A c \in 0 .. n - 1 : Floor(c)' + g.args < g.entry
      <4> TAKE c \in 0 .. n - 1
      <4>1. Floor(c)' \in Nat /\ Floor(c)' <= Floor(c) /\ Floor(c) \in Nat /\ Floor(c) + f.args < f.entry
        BY <2>14, <2>16
      <4> QED
        BY <4>1, <2>10, <2>14
    <3>3. stack'[g.entry] = g.ret
      <4>1. 0 \in 0 .. n - 1
        BY <1>2, <1>3
      <4>2. f.entry \in 1 .. sp
        BY <4>1, <2>6, <2>14
      <4> QED
        BY <4>2, <2>8, <2>10, <2>14
    <3>4. \A i \in g.entry + 1 .. g.sp : stack'[i] = Local(n)
      <4> TAKE i \in g.entry + 1 .. g.sp
      <4>1. i \in f.entry + 1 .. sp + 4
        BY <2>10
      <4>2. CASE i <= sp
        <5>1. i \in 1 .. sp /\ i \in f.entry + 1 .. sp
          BY <4>1, <4>2, <2>6, <2>14
        <5> QED
          BY <5>1, <2>8, <2>14
      <4>3. CASE i > sp
        <5>1. i \in sp + 1 .. sp + 4
          BY <4>1, <4>3, <2>6, <2>14
        <5> QED
          BY <5>1, <2>8
      <4> QED
        BY <4>1, <4>2, <4>3, <2>6, <2>14
    <3> QED
      BY <2>11, <3>1, <3>2, <3>3, <3>4 DEF FunctionKept
  <2>18. AllKept'
    <3>1. \A d \in 1 .. n : d \in 1 .. n - 1 \/ d = n
      BY <1>2
    <3> QED
      BY <3>1, <2>12, <2>16, <2>17 DEF AllKept
  <2>19. Chained(e)'
    <3>1. \A d \in 1 .. n : d \in 1 .. n - 1 \/ d = n
      BY <1>2
    <3>2. Driven(f.ret, n - 1, e)
      BY <1>0, <1>2, <1>3, <2>1 DEF Chained
    <3>3. \A r : r = f.ret => Driven(r, n - 1, e)'
      BY <3>2, <2>16
    <3>4. Driven(active[n].ret, n - 1, e)'
      <4>1. \A r : r = active'[n].ret => Driven(r, n - 1, e)'
        BY <3>3, <2>10, <2>11
      <4> QED
        BY <4>1
    <3> QED
      BY <3>1, <3>4, <2>12, <2>16 DEF Chained
  <2>20. AtRip(e)'
    <3>1. Len(stack') = active'[n].sp
      BY <2>8, <2>10, <2>11
    <3>2. Calls0(n, e)'
      BY <1>3, <2>16
    <3> QED
      BY <3>1, <3>2, <1>3, <2>3, <2>12 DEF AtRip
  <2>21. CallsTyped'
    BY <1>1, <1>2, <2>8, <2>11 DEF CallsTyped
  <2> QED
    BY <1>1, <1>2, <2>16, <2>18, <2>19, <2>20, <2>21 DEF StackRight
<1> QED
  BY <1>2, <1>4, <1>5

-----------------------------------------------------------------------------
(* The thunks of the emulator.                                              *)

LEMMA ThreadStartKeeps ==
    ASSUME NEW e \in Nat, StackRight(e), ThreadStart
    PROVE  StackRight(e)'
<1>1. /\ rip = Driver("thread_entry") /\ SetupCall(1, Driver("thread_exit"), Len(stack))
      /\ UNCHANGED <<is_64bit, active, call_frames, initterm_stack, pending_process_exit>>
  BY DEF ThreadStart
<1>2. /\ CallsTyped /\ AllKept /\ FramesRight(e) /\ Chained(e)
      /\ ~pending_process_exit => e = 0
      /\ Current \in Nat /\ Len(stack) \in Nat /\ stack \in Seq(Word)
      /\ Floor(Current) \in Nat /\ Floor(Current) <= Len(stack)
      /\ is_64bit \in BOOLEAN
  BY Below
<1>3. Current = 0 /\ Calls0(0, e)
  <2>1. /\ rip[1] = "driver" /\ rip # Driver("callbacks") /\ rip # Driver("initterm")
    BY <1>1, WordForms, Names
  <2> QED
    BY <2>1, RipSays
<1>4. Driver("thread_exit") \in Word /\ 1 \in 0 .. 4
  BY WordsOf, Names
<1>5. /\ stack' \in Seq(Word) /\ rip' = Function(1)
      /\ Agrees(Floor(Current))
      /\ Len(stack) + 1 < Len(stack') /\ Last(stack') = Driver("thread_exit")
      /\ \A i \in 1 .. 1 : stack'[Len(stack') - i] = Argument
      /\ is_64bit => Len(stack') % 2 = 1
  BY <1>1, <1>2, <1>4, SetupCallShape
<1>6. /\ FramesRight(e)'
      /\ \A c \in 0 .. 0 : Floor(c)' \in Nat /\ Floor(c)' <= Floor(c)
      /\ Floor(0)' <= Len(stack')
      /\ \A d : Calls0(d, e)' <=> Calls0(d, e)
  <2>1. /\ 0 \in 0 .. Current /\ 0 <= Current' /\ Current' = 0 /\ Current' \in Nat /\ 0 = Current
        /\ \A d \in 1 .. 0 : active'[d] = active[d]
    BY <1>1, <1>3 DEF Current
  <2> QED
    BY <1>1, <1>2, <1>3, <1>5, <2>1, FramesSame
<1>7. Current' = 0
  BY <1>1, <1>3 DEF Current
<1>8. AllKept' /\ Chained(e)'
  BY <1>6, <1>7 DEF AllKept, Chained
<1>9. CallsTyped'
  BY <1>1, <1>2, <1>5 DEF CallsTyped
<1>10. AtRip(e)'
  <2>1. \A q : q = Driver("thread_exit") => Driven(q, Current, e)'
    <3>1. Calls0(0, e)'
      BY <1>3, <1>6
    <3> QED
      BY <3>1, <1>7 DEF Driven
  <2>2. Floor(Current)' \in Nat /\ Floor(Current)' <= Floor(Current)
    <3>1. Floor(0)' \in Nat /\ Floor(0)' <= Floor(0)
      BY <1>6
    <3>2. \A c : c = Current' => Floor(c)' = Floor(0)'
      BY <1>7
    <3> QED
      BY <3>1, <3>2, <1>3
  <2> QED
    BY <1>1, <1>2, <1>4, <1>5, <1>9, <2>1, <2>2, EntryRight
<1> QED
  BY <1>1, <1>2, <1>6, <1>8, <1>9, <1>10 DEF StackRight

(* The frame of the function that runs is the last of its list.             *)
LEMMA LastFrame ==
    ASSUME NEW e \in Nat, CallsTyped, FramesRight(e), CallsBack(Current, e)
    PROVE  /\ Len(call_frames) > 0 /\ Last(call_frames) = call_frames[Len(call_frames)]
           /\ Level(call_frames[Len(call_frames)], e) = Current
           /\ call_frames[Len(call_frames)] \in CallFrame
<1>0. PICK n, m : n = Current /\ m = Len(call_frames)
  OBVIOUS
<1>1. n \in Nat /\ m \in Nat /\ \A i \in 1 .. m : Level(call_frames[i], e) \in 0 .. n
  BY <1>0, Levels
<1>2. PICK i \in 1 .. m : Level(call_frames[i], e) = n
  BY <1>0 DEF CallsBack
<1>3. m > 0 /\ m \in 1 .. m
  BY <1>1, <1>2
<1>4. i = m
  <2>1. i < m => Level(call_frames[i], e) < Level(call_frames[m], e)
    BY <1>0, <1>3 DEF FramesRight
  <2> QED
    BY <2>1, <1>1, <1>2, <1>3
<1>5. call_frames[m] \in CallFrame
  BY <1>0, <1>3 DEF CallsTyped
<1> QED
  BY <1>0, <1>2, <1>3, <1>4, <1>5 DEF Last

LEMMA LastInit ==
    ASSUME NEW e \in Nat, CallsTyped, FramesRight(e), Initialises(Current)
    PROVE  /\ Len(initterm_stack) > 0 /\ Last(initterm_stack) = initterm_stack[Len(initterm_stack)]
           /\ initterm_stack[Len(initterm_stack)].ret[2] = Current
           /\ initterm_stack[Len(initterm_stack)] \in InitFrame
<1>0. PICK n, m : n = Current /\ m = Len(initterm_stack)
  OBVIOUS
<1>1. n \in Nat /\ m \in Nat /\ \A i \in 1 .. m : initterm_stack[i].ret[2] \in 1 .. n
  BY <1>0, Levels
<1>2. PICK i \in 1 .. m : initterm_stack[i].ret[2] = n
  BY <1>0 DEF Initialises
<1>3. m > 0 /\ m \in 1 .. m
  BY <1>1, <1>2
<1>4. i = m
  <2>1. i < m => initterm_stack[i].ret[2] < initterm_stack[m].ret[2]
    BY <1>0, <1>3 DEF FramesRight
  <2> QED
    BY <2>1, <1>1, <1>2, <1>3
<1>5. initterm_stack[m] \in InitFrame
  BY <1>0, <1>3 DEF CallsTyped
<1> QED
  BY <1>0, <1>2, <1>3, <1>4, <1>5 DEF Last

(* What the last frame says.                                                *)
LEMMA LastFrameSays ==
    ASSUME NEW e \in Nat, StackRight(e), CallsBack(Current, e),
           NEW f, f = Last(call_frames)
    PROVE  /\ f \in CallFrame /\ Floor(Current) <= f.final + 1
           /\ \/ /\ Current > 0
                 /\ \E left \in Nat : f.ret = After(Current, left) /\ f.final = active[Current].sp + left
              \/ Len(call_frames) = 1 /\ pending_process_exit
              \/ /\ Len(call_frames) = 1 /\ Current = 0 /\ ~pending_process_exit
                 /\ 5 <= Len(stack)
                 /\ \/ f.ret = Function(0) /\ f.final = 5 /\ stack[5] = Driver("exit")
                    \/ f.ret = Driver("thread_entry") /\ f.final = 4
<1>0. PICK n, m : n = Current /\ m = Len(call_frames)
  OBVIOUS
<1>1. /\ CallsTyped /\ AllKept /\ FramesRight(e)
      /\ ~pending_process_exit => e = 0
      /\ n \in Nat /\ m \in Nat /\ Len(stack) \in Nat
      /\ Floor(n) \in Nat /\ Floor(n) <= Len(stack)
  BY <1>0, Below
<1>2. m > 0 /\ f = call_frames[m] /\ Level(f, e) = n /\ f \in CallFrame
  BY <1>0, <1>1, LastFrame
<1>3. CallFrameRight(m, e) /\ f.final \in Nat
  BY <1>0, <1>1, <1>2 DEF FramesRight, CallFrame
<1>4. ASSUME NEW d \in 1 .. Current, NEW left \in Nat,
             f.ret = After(d, left), f.final = active[d].sp + left
      PROVE  /\ n > 0 /\ f.ret = After(n, left) /\ f.final = active[n].sp + left
             /\ Floor(n) <= f.final + 1
  <2>1. d = n
    <3>1. d \in Nat /\ left \in Nat
      BY <1>0, <1>1
    <3>2. After(d, left)[1] = "call" /\ After(d, left)[2] = d
      BY <3>1, WordForms
    <3>3. Level(f, e) = d
      BY <1>4, <3>2 DEF Level
    <3> QED
      BY <1>2, <3>3
  <2>2. n > 0
    BY <1>0, <1>1, <2>1
  <2>3. PICK sp : sp = active[n].sp
    OBVIOUS
  <2>4. Floor(n) = sp /\ sp \in Nat
    BY <1>1, <2>2, <2>3 DEF Floor
  <2> QED
    BY <1>4, <2>1, <2>2, <2>3, <2>4
<1>5. CASE m = 1 /\ pending_process_exit /\ f.ret = Driver("exit") /\ Floor(e) <= f.final
  <2>1. e = n
    BY <1>2, <1>5, WordForms, Names DEF Level
  <2>2. Floor(n) <= f.final
    BY <1>5, <2>1
  <2>3. Floor(n) <= f.final + 1
    BY <1>1, <1>3, <2>2
  <2> QED
    BY <1>0, <1>2, <1>5, <2>3
<1>6. CASE /\ m = 1 /\ ~pending_process_exit /\ e = 0
           /\ \/ f.ret = Function(0) /\ f.final = 5 /\ stack[5] = Driver("exit")
              \/ f.ret = Driver("thread_entry") /\ f.final = 4
  <2>1. f.ret[1] # "call"
    BY <1>6, WordForms, Names
  <2>2. n = 0
    BY <1>2, <1>6, <2>1 DEF Level
  <2>3. Floor(n) = 5
    <3>1. call_frames[1].ret[1] # "call"
      BY <1>2, <1>6, <2>1
    <3>2. call_frames # <<>>
      BY <1>0, <1>2
    <3> QED
      BY <1>6, <2>2, <3>1, <3>2 DEF Floor, TlsRuns
  <2> QED
    BY <1>0, <1>1, <1>2, <1>6, <2>2, <2>3
<1>7. \/ \E d \in 1 .. Current, left \in Nat : f.ret = After(d, left) /\ f.final = active[d].sp + left
      \/ m = 1 /\ pending_process_exit /\ f.ret = Driver("exit") /\ Floor(e) <= f.final
      \/ /\ m = 1 /\ ~pending_process_exit /\ e = 0
         /\ \/ f.ret = Function(0) /\ f.final = 5 /\ stack[5] = Driver("exit")
            \/ f.ret = Driver("thread_entry") /\ f.final = 4
  BY <1>2, <1>3 DEF CallFrameRight
<1>8. CASE \E d \in 1 .. Current, left \in Nat : f.ret = After(d, left) /\ f.final = active[d].sp + left
  BY <1>0, <1>2, <1>4, <1>8
<1> QED
  BY <1>5, <1>6, <1>7, <1>8

(* A thread on which no function of the guest is active and no list of calls *)
(* is left.                                                                 *)
LEMMA Fresh ==
    ASSUME CallsTyped', active' = <<>>, call_frames' = <<>>, initterm_stack' = <<>>,
           pending_process_exit' = FALSE, NEW n \in Nat, rip' = Function(n), n < Len(stack'),
           ArgumentsAt(Len(stack), n)', Last(stack') \in {Driver("exit"), Driver("thread_exit")},
           is_64bit' => Len(stack') % 2 = 1
    PROVE  StackRight(0)'
<1>1. Current' = 0 /\ Len(call_frames') = 0 /\ Len(initterm_stack') = 0 /\ Len(stack') \in Nat
  BY DEF Current, CallsTyped
<1>2. \A d : ~CallsBack(d, 0)' /\ ~Initialises(d)' /\ Calls0(d, 0)'
  BY <1>1 DEF CallsBack, Initialises, Calls0
<1>3. Floor(0)' = 0
  BY DEF Floor, TlsRuns
<1>4. AllKept' /\ Chained(0)'
  BY <1>1, <1>3 DEF AllKept, Chained
<1>5. FramesRight(0)'
  BY <1>1 DEF FramesRight
<1>6. Driven(Last(stack), Current, 0)'
  BY <1>1, <1>2 DEF Driven
<1>7. AtEntry(n)'
  BY <1>1, <1>3 DEF AtEntry
<1>8. AtRip(0)'
  BY <1>6, <1>7 DEF AtRip
<1> QED
  BY <1>4, <1>5, <1>8 DEF StackRight

(* The next callback is called where the first was, and so is the dialog's   *)
(* procedure while its loop runs.                                           *)
LEMMA CalledAgain ==
    ASSUME NEW e \in Nat, StackRight(e), rip = Driver("callbacks"),
           NEW f, f = Last(call_frames), NEW n \in 0 .. 4,
           SetupCall(n, Driver("callbacks"), f.final + 1),
           call_frames' \in Seq(CallFrame), Len(call_frames') = Len(call_frames),
           \A i \in 1 .. Len(call_frames) : SameFrame(call_frames'[i], call_frames[i]),
           UNCHANGED <<is_64bit, active, initterm_stack, pending_process_exit>>
    PROVE  StackRight(e)'
<1>1. /\ CallsTyped /\ AllKept /\ FramesRight(e) /\ Chained(e)
      /\ ~pending_process_exit => e = 0
      /\ Current \in Nat /\ Len(stack) \in Nat /\ stack \in Seq(Word)
      /\ Floor(Current) \in Nat /\ Floor(Current) <= Len(stack)
      /\ is_64bit \in BOOLEAN
      /\ call_frames \in Seq(CallFrame) /\ Len(call_frames) \in Nat
      /\ initterm_stack \in Seq(InitFrame) /\ Len(initterm_stack) \in Nat
  BY Below
<1>2. CallsBack(Current, e) /\ ~Initialises(Current)
  BY RipSays
<1>3. f \in CallFrame /\ Floor(Current) <= f.final + 1
  BY <1>2, LastFrameSays
<1>4. PICK words : words = f.final + 1
  OBVIOUS
<1>5. words \in Nat /\ Floor(Current) <= words /\ SetupCall(n, Driver("callbacks"), words)
      /\ Driver("callbacks") \in Word
  BY <1>3, <1>4, WordsOf, Names DEF CallFrame
<1>6. /\ stack' \in Seq(Word) /\ rip' = Function(n)
      /\ Agrees(Floor(Current))
      /\ words + n < Len(stack') /\ Last(stack') = Driver("callbacks")
      /\ \A i \in 1 .. n : stack'[Len(stack') - i] = Argument
      /\ is_64bit => Len(stack') % 2 = 1
  BY <1>1, <1>5, SetupCallShape
<1>7. PICK m, k : m = Len(call_frames) /\ k = Len(initterm_stack)
  OBVIOUS
<1>8. /\ AllKept' /\ FramesRight(e)' /\ Chained(e)'
      /\ CallsBack(Current, e)' /\ ~Initialises(Current)'
  <2>1. /\ m \in 0 .. Len(call_frames) /\ k \in 0 .. Len(initterm_stack) /\ Len(call_frames') = m
        /\ Len(initterm_stack') = k
        /\ \A i \in 1 .. m : SameFrame(call_frames'[i], call_frames[i])
        /\ \A i \in 1 .. k : SameInit(initterm_stack'[i], initterm_stack[i])
        /\ pending_process_exit => m > 0
        /\ ~(m < Len(call_frames)) /\ ~(k < Len(initterm_stack))
        /\ m = Len(call_frames) /\ k = Len(initterm_stack)
        /\ initterm_stack' \in Seq(InitFrame)
    BY <1>1, <1>7 DEF SameInit, FramesRight
  <2> QED
    BY <1>1, <1>2, <1>6, <2>1, FramesChange
<1>9. CallsTyped'
  BY <1>1, <1>6 DEF CallsTyped
<1>10. AtRip(e)'
  <2>1. \A q : q = Driver("callbacks") => Driven(q, Current, e)'
    BY <1>8 DEF Driven
  <2>2. Floor(Current)' \in Nat /\ Floor(Current)' <= Floor(Current)
    <3>1. PICK p : p = Current
      OBVIOUS
    <3>2. /\ p \in 0 .. Current /\ Current' = p
          /\ \A d \in 1 .. p : active'[d] = active[d]
      BY <1>1, <3>1 DEF Current
    <3>3. TlsRuns' => TlsRuns
      <4>1. \A i \in 1 .. m : SameFrame(call_frames'[i], call_frames[i])
        BY <1>7
      <4> QED
        BY <1>1, <1>7, <4>1, TlsStays
    <3>4. \A c \in 0 .. p : Floor(c)' \in Nat /\ Floor(c)' <= Floor(c)
      BY <1>1, <1>6, <3>1, <3>2, <3>3, KeptBelow
    <3>5. Floor(p)' \in Nat /\ Floor(p)' <= Floor(p)
      BY <1>1, <3>1, <3>4
    <3>6. \A c : c = Current' => Floor(c)' = Floor(p)'
      BY <3>2
    <3> QED
      BY <3>1, <3>5, <3>6
  <2> QED
    BY <1>1, <1>5, <1>6, <1>9, <2>1, <2>2, EntryRight
<1> QED
  BY <1>1, <1>8, <1>9, <1>10 DEF StackRight

LEMMA CbAdvanceKeeps ==
    ASSUME NEW e \in Nat, StackRight(e), CbAdvance
    PROVE  CallsInv'
<1>0. PICK f : f = Last(call_frames)
  OBVIOUS
<1>1. /\ CallsTyped /\ AllKept /\ FramesRight(e) /\ Chained(e)
      /\ ~pending_process_exit => e = 0
      /\ Current \in Nat /\ Len(stack) \in Nat /\ stack \in Seq(Word)
      /\ Floor(Current) \in Nat /\ Floor(Current) <= Len(stack)
      /\ is_64bit \in BOOLEAN
      /\ call_frames \in Seq(CallFrame) /\ Len(call_frames) \in Nat
      /\ initterm_stack \in Seq(InitFrame) /\ Len(initterm_stack) \in Nat
  BY Below
<1>2. rip = Driver("callbacks") /\ UNCHANGED <<is_64bit, active, initterm_stack>>
  BY DEF CbAdvance
<1>3. CallsBack(Current, e) /\ ~Initialises(Current)
  BY <1>2, RipSays
<1>4. PICK m : m = Len(call_frames)
  OBVIOUS
<1>5. /\ m > 0 /\ m \in Nat /\ f = call_frames[m] /\ Level(f, e) = Current /\ f \in CallFrame
      /\ call_frames # <<>>
      /\ Front(call_frames) \in Seq(CallFrame) /\ Len(Front(call_frames)) = m - 1
      /\ \A i \in 1 .. m - 1 : Front(call_frames)[i] = call_frames[i]
  <2>1. m > 0 /\ f = call_frames[m] /\ Level(f, e) = Current /\ f \in CallFrame
    BY <1>0, <1>1, <1>3, <1>4, LastFrame
  <2>2. call_frames # <<>> /\ m \in Nat
    BY <1>1, <1>4, <2>1
  <2> QED
    BY <1>1, <1>4, <2>1, <2>2, LastOf
<1>6. ASSUME f.remaining # <<>>, SetupCall(Head(f.remaining), Driver("callbacks"), f.final + 1),
             call_frames' = Front(call_frames) \o <<[f EXCEPT !.remaining = Tail(f.remaining)]>>,
             UNCHANGED pending_process_exit
      PROVE  StackRight(e)'
  <2>1. f.remaining \in Seq(0 .. 4)
    BY <1>5 DEF CallFrame
  <2>2. Head(f.remaining) \in 0 .. 4 /\ Tail(f.remaining) \in Seq(0 .. 4)
    BY <1>6, <2>1
  <2>3. PICK g, rest : g = [f EXCEPT !.remaining = Tail(f.remaining)] /\ rest = Front(call_frames)
    OBVIOUS
  <2>4. g \in CallFrame /\ g.ret = f.ret /\ g.final = f.final
    BY <1>5, <2>2, <2>3 DEF CallFrame
  <2>5. call_frames' = rest \o <<g>> /\ rest \in Seq(CallFrame) /\ Len(rest) = m - 1
        /\ \A i \in 1 .. m - 1 : rest[i] = call_frames[i]
    BY <1>5, <1>6, <2>3
  <2>6. /\ call_frames' \in Seq(CallFrame) /\ Len(call_frames') = m
        /\ \A i \in 1 .. m - 1 : call_frames'[i] = rest[i]
        /\ call_frames'[m] = g
    BY <1>5, <2>4, <2>5
  <2>7. \A i \in 1 .. m : SameFrame(call_frames'[i], call_frames[i])
    <3> TAKE i \in 1 .. m
    <3>1. CASE i = m
      BY <3>1, <1>5, <2>4, <2>6 DEF SameFrame
    <3>2. CASE i # m
      <4>1. i \in 1 .. m - 1
        BY <3>2, <1>5
      <4> QED
        BY <4>1, <2>5, <2>6 DEF SameFrame
    <3> QED
      BY <3>1, <3>2
  <2> QED
    BY <1>0, <1>2, <1>4, <1>6, <2>2, <2>6, <2>7, CalledAgain
<1>7. ASSUME SetupCall(4, Driver("callbacks"), f.final + 1), UNCHANGED <<call_frames, pending_process_exit>>
      PROVE  StackRight(e)'
  <2>1. /\ 4 \in 0 .. 4 /\ call_frames' \in Seq(CallFrame) /\ Len(call_frames') = Len(call_frames)
        /\ \A i \in 1 .. Len(call_frames) : SameFrame(call_frames'[i], call_frames[i])
    BY <1>1, <1>7 DEF SameFrame
  <2> QED
    BY <1>0, <1>2, <1>7, <2>1, CalledAgain
<1>8. ASSUME call_frames' = Front(call_frames),
             ~(call_frames' = <<>> /\ pending_process_exit),
             GoBack(f.ret, f.final), UNCHANGED pending_process_exit
      PROVE  StackRight(e)' \/ StackRight(0)'
  <2>1. /\ call_frames' \in Seq(CallFrame) /\ Len(call_frames') = m - 1
        /\ \A i \in 1 .. m - 1 : call_frames'[i] = call_frames[i]
    BY <1>5, <1>8
  <2>2. ASSUME Current > 0, NEW left \in Nat, f.ret = After(Current, left),
               f.final = active[Current].sp + left
        PROVE  StackRight(e)'
    <3>0. PICK n, k, l : n = Current /\ k = Len(initterm_stack) /\ l = m - 1
      OBVIOUS
    <3>1. /\ rip' = Guest(Current) /\ stack' \in Seq(Word)
          /\ Len(stack') = active[Current].sp /\ Agrees(Floor(Current))
      BY <1>1, <1>8, <2>2, GoBackShape
    <3>2. Current' = n
      BY <1>2, <3>0 DEF Current
    <3>3. /\ AllKept' /\ FramesRight(e)' /\ Chained(e)'
          /\ ~CallsBack(Current, e)' /\ ~Initialises(Current)'
      <4>1. /\ l \in 0 .. Len(call_frames) /\ k \in 0 .. Len(initterm_stack) /\ Len(call_frames') = l
            /\ Len(initterm_stack') = k
            /\ \A i \in 1 .. l : SameFrame(call_frames'[i], call_frames[i])
            /\ \A i \in 1 .. k : SameInit(initterm_stack'[i], initterm_stack[i])
            /\ l < Len(call_frames)
            /\ l + 1 = Len(call_frames) /\ Level(call_frames[l + 1], e) = Current
            /\ ~(k < Len(initterm_stack)) /\ k = Len(initterm_stack)
            /\ initterm_stack' \in Seq(InitFrame)
        BY <1>1, <1>2, <1>4, <1>5, <2>1, <3>0 DEF SameInit, SameFrame
      <4>2. pending_process_exit => l > 0
        <5> SUFFICES ASSUME pending_process_exit PROVE l > 0
          OBVIOUS
        <5>1. call_frames' # <<>>
          BY <1>8
        <5>2. Len(call_frames') # 0
          BY <2>1, <5>1
        <5> QED
          BY <1>5, <2>1, <3>0, <5>2
      <4> QED
        BY <1>1, <1>2, <1>3, <1>8, <2>1, <3>1, <4>1, <4>2, FramesChange
    <3>4. CallsTyped'
      BY <1>1, <1>2, <1>8, <2>1, <3>1 DEF CallsTyped
    <3>5. AtRip(e)'
      <4>1. Calls0(Current, e)'
        BY <3>3 DEF Calls0
      <4>2. Calls0(n, e)'
        BY <3>2, <4>1
      <4>3. Len(stack') = active'[n].sp
        BY <1>2, <3>0, <3>1
      <4> QED
        BY <2>2, <3>0, <3>1, <3>2, <4>2, <4>3 DEF AtRip
    <3> QED
      BY <1>1, <1>8, <3>3, <3>4, <3>5 DEF StackRight
  <2>3. CASE m = 1 /\ pending_process_exit
    <3>1. Len(call_frames') = 0
      BY <2>1, <2>3
    <3>2. call_frames' = <<>>
      BY <2>1, <3>1
    <3> QED
      BY <1>8, <2>3, <3>2
  <2>4. ASSUME m = 1, Current = 0, ~pending_process_exit, 5 <= Len(stack),
               \/ f.ret = Function(0) /\ f.final = 5 /\ stack[5] = Driver("exit")
               \/ f.ret = Driver("thread_entry") /\ f.final = 4
        PROVE  StackRight(0)'
    <3>1. call_frames' = <<>> /\ active = <<>> /\ active' = <<>> /\ active \in Seq(ActiveFunction)
      <4>1. active \in Seq(ActiveFunction) /\ Len(active) = 0
        BY <1>1, <2>4 DEF CallsTyped, Current
      <4> QED
        BY <1>2, <2>1, <2>4, <4>1
    <3>2. initterm_stack = <<>>
      <4>1. \A i \in 1 .. Len(initterm_stack) : initterm_stack[i].ret[2] \in 1 .. Current
        BY <1>1, Levels
      <4>2. ~(1 \in 1 .. Len(initterm_stack))
        <5>1. \A i \in 1 .. Len(initterm_stack) : initterm_stack[i].ret[2] \in 1 .. 0
          BY <2>4, <4>1
        <5>2. PICK lowest : lowest = initterm_stack[1].ret[2]
          OBVIOUS
        <5>3. ~(lowest \in 1 .. 0)
          OBVIOUS
        <5> QED
          BY <5>1, <5>2, <5>3
      <4>3. Len(initterm_stack) = 0
        BY <1>1, <4>2
      <4> QED
        BY <1>1, <4>3
    <3>3. f.ret[1] # "call"
      BY <2>4, WordForms, Names
    <3>4. rip' = f.ret /\ stack' = SubSeq(stack, 1, f.final)
      BY <1>8, <3>3 DEF GoBack
    <3>5. CASE f.ret = Function(0) /\ f.final = 5 /\ stack[5] = Driver("exit")
      <4>1. /\ stack' \in Seq(Word) /\ Len(stack') = 5 /\ \A i \in 1 .. 5 : stack'[i] = stack[i]
        <5>1. 5 \in 0 .. Len(stack)
          BY <1>1, <2>4
        <5> QED
          BY <1>1, <3>4, <3>5, <5>1, CutTo
      <4>2. Last(stack') = Driver("exit")
        BY <3>5, <4>1 DEF Last
      <4>3. CallsTyped'
        BY <1>1, <1>2, <1>8, <2>1, <4>1 DEF CallsTyped
      <4>4. ArgumentsAt(Len(stack), 0)' /\ 0 < Len(stack') /\ Len(stack') % 2 = 1 /\ 0 \in Nat
        BY <4>1 DEF ArgumentsAt
      <4>5. initterm_stack' = <<>> /\ pending_process_exit' = FALSE
        BY <1>2, <1>8, <2>4, <3>2
      <4> QED
        BY <3>1, <3>4, <3>5, <4>2, <4>3, <4>4, <4>5, Fresh
    <3>6. CASE f.ret = Driver("thread_entry") /\ f.final = 4
      <4>1. /\ stack' \in Seq(Word) /\ Len(stack') = 4
        <5>1. 4 \in 0 .. Len(stack)
          BY <1>1, <2>4
        <5> QED
          BY <1>1, <3>4, <3>6, <5>1, CutTo
      <4>2. Current' = 0 /\ Len(call_frames') = 0 /\ Len(initterm_stack') = 0
            /\ pending_process_exit' = FALSE
        BY <1>2, <1>8, <2>4, <3>1, <3>2 DEF Current
      <4>3. CallsTyped'
        BY <1>1, <1>2, <1>8, <2>1, <4>1 DEF CallsTyped
      <4>4. \A d : ~CallsBack(d, 0)' /\ ~Initialises(d)' /\ Calls0(d, 0)'
        BY <4>2 DEF CallsBack, Initialises, Calls0
      <4>5. Floor(0)' = 0
        BY <3>1 DEF Floor, TlsRuns
      <4>6. AllKept' /\ Chained(0)'
        BY <4>1, <4>2, <4>5 DEF AllKept, Chained
      <4>7. FramesRight(0)'
        BY <4>2 DEF FramesRight
      <4>8. AtRip(0)'
        BY <3>4, <3>6, <4>2, <4>4 DEF AtRip
      <4> QED
        BY <4>3, <4>6, <4>7, <4>8 DEF StackRight
    <3> QED
      BY <2>4, <3>5, <3>6
  <2>5. \/ /\ Current > 0
           /\ \E left \in Nat : f.ret = After(Current, left) /\ f.final = active[Current].sp + left
        \/ m = 1 /\ pending_process_exit
        \/ /\ m = 1 /\ Current = 0 /\ ~pending_process_exit
           /\ 5 <= Len(stack)
           /\ \/ f.ret = Function(0) /\ f.final = 5 /\ stack[5] = Driver("exit")
              \/ f.ret = Driver("thread_entry") /\ f.final = 4
    BY <1>0, <1>3, <1>4, LastFrameSays
  <2> QED
    BY <2>2, <2>3, <2>4, <2>5
<1>9. \/ /\ f.remaining # <<>>
         /\ SetupCall(Head(f.remaining), Driver("callbacks"), f.final + 1)
         /\ call_frames' = Front(call_frames) \o <<[f EXCEPT !.remaining = Tail(f.remaining)]>>
         /\ UNCHANGED pending_process_exit
      \/ SetupCall(4, Driver("callbacks"), f.final + 1) /\ UNCHANGED <<call_frames, pending_process_exit>>
      \/ /\ call_frames' = Front(call_frames)
         /\ \/ rip' = Exited
            \/ /\ ~(call_frames' = <<>> /\ pending_process_exit)
               /\ GoBack(f.ret, f.final) /\ UNCHANGED pending_process_exit
  BY <1>0 DEF CbAdvance
<1> QED
  BY <1>6, <1>7, <1>8, <1>9 DEF CallsInv

LEMMA InittermAdvanceKeeps ==
    ASSUME NEW e \in Nat, StackRight(e), InittermAdvance
    PROVE  StackRight(e)'
<1>0. PICK f, n : f = Last(initterm_stack) /\ n = Current
  OBVIOUS
<1>1. /\ CallsTyped /\ AllKept /\ FramesRight(e) /\ Chained(e)
      /\ ~pending_process_exit => e = 0
      /\ Current \in Nat /\ Len(stack) \in Nat /\ stack \in Seq(Word)
      /\ Floor(Current) \in Nat /\ Floor(Current) <= Len(stack)
      /\ is_64bit \in BOOLEAN
      /\ call_frames \in Seq(CallFrame) /\ Len(call_frames) \in Nat
      /\ initterm_stack \in Seq(InitFrame) /\ Len(initterm_stack) \in Nat
  BY Below
<1>2. rip = Driver("initterm") /\ UNCHANGED <<is_64bit, active, call_frames, pending_process_exit>>
  BY DEF InittermAdvance
<1>3. ~CallsBack(Current, e) /\ Initialises(Current)
  BY <1>2, RipSays
<1>4. PICK m, l : m = Len(initterm_stack) /\ l = Len(call_frames)
  OBVIOUS
<1>5. /\ m > 0 /\ m \in Nat /\ f = initterm_stack[m] /\ f.ret[2] = n /\ f \in InitFrame
      /\ initterm_stack # <<>>
      /\ Front(initterm_stack) \in Seq(InitFrame) /\ Len(Front(initterm_stack)) = m - 1
      /\ \A i \in 1 .. m - 1 : Front(initterm_stack)[i] = initterm_stack[i]
  <2>1. m > 0 /\ f = initterm_stack[m] /\ f.ret[2] = n /\ f \in InitFrame
    BY <1>0, <1>1, <1>3, <1>4, LastInit
  <2>2. initterm_stack # <<>> /\ m \in Nat
    BY <1>1, <1>4, <2>1
  <2> QED
    BY <1>1, <1>4, <2>1, <2>2, LastOf
<1>6. PICK left \in Nat : /\ n > 0 /\ f.ret = After(n, left) /\ f.saved = active[n].sp + left + 1
  <2>1. InitFrameRight(m)
    BY <1>1, <1>4, <1>5 DEF FramesRight
  <2>2. PICK d \in 1 .. Current, left \in Nat : f.ret = After(d, left) /\ f.saved = active[d].sp + left + 1
    BY <1>5, <2>1 DEF InitFrameRight
  <2>3. After(d, left)[2] = d
    <3>1. d \in Nat /\ left \in Nat
      BY <1>1, <2>2
    <3> QED
      BY <3>1, WordForms
  <2>4. d = n /\ n > 0
    BY <1>0, <1>1, <1>5, <2>2, <2>3
  <2> QED
    BY <2>2, <2>4
<1>7. PICK sp : sp = active[n].sp
  OBVIOUS
<1>8. sp \in Nat /\ Floor(n) = sp /\ f.saved = sp + left + 1 /\ f.saved \in Nat
  BY <1>0, <1>1, <1>6, <1>7 DEF Floor
<1>9. Current' = n
  BY <1>0, <1>2 DEF Current
<1>10. CASE f.remaining > 0
  <2>1. /\ SetupCall(0, Driver("initterm"), f.saved)
        /\ initterm_stack' = Front(initterm_stack) \o <<[f EXCEPT !.remaining = @ - 1]>>
    BY <1>0, <1>10 DEF InittermAdvance
  <2>2. PICK g, rest : g = [f EXCEPT !.remaining = @ - 1] /\ rest = Front(initterm_stack)
    OBVIOUS
  <2>3. g \in InitFrame /\ g.ret = f.ret /\ g.saved = f.saved
    BY <1>5, <1>10, <2>2 DEF InitFrame
  <2>4. initterm_stack' = rest \o <<g>> /\ rest \in Seq(InitFrame) /\ Len(rest) = m - 1
        /\ \A i \in 1 .. m - 1 : rest[i] = initterm_stack[i]
    BY <1>5, <2>1, <2>2
  <2>5. /\ initterm_stack' \in Seq(InitFrame) /\ Len(initterm_stack') = m
        /\ \A i \in 1 .. m - 1 : initterm_stack'[i] = rest[i]
        /\ initterm_stack'[m] = g
    BY <1>5, <2>3, <2>4
  <2>6. \A i \in 1 .. m : SameInit(initterm_stack'[i], initterm_stack[i])
    <3> TAKE i \in 1 .. m
    <3>1. CASE i = m
      BY <3>1, <1>5, <2>3, <2>5 DEF SameInit
    <3>2. CASE i # m
      <4>1. i \in 1 .. m - 1
        BY <3>2, <1>5
      <4> QED
        BY <4>1, <2>4, <2>5 DEF SameInit
    <3> QED
      BY <3>1, <3>2
  <2>7. PICK words : words = f.saved
    OBVIOUS
  <2>8. words \in Nat /\ Floor(Current) <= words /\ SetupCall(0, Driver("initterm"), words)
        /\ Driver("initterm") \in Word /\ 0 \in 0 .. 4
    BY <1>0, <1>8, <2>1, <2>7, WordsOf, Names
  <2>9. /\ stack' \in Seq(Word) /\ rip' = Function(0)
        /\ Agrees(Floor(Current))
        /\ words + 0 < Len(stack') /\ Last(stack') = Driver("initterm")
        /\ \A i \in 1 .. 0 : stack'[Len(stack') - i] = Argument
        /\ is_64bit => Len(stack') % 2 = 1
    BY <1>1, <2>8, SetupCallShape
  <2>10. /\ AllKept' /\ FramesRight(e)' /\ Chained(e)'
         /\ ~CallsBack(Current, e)' /\ Initialises(Current)'
    <3>1. /\ m \in 0 .. Len(initterm_stack) /\ l \in 0 .. Len(call_frames) /\ Len(call_frames') = l
          /\ Len(initterm_stack') = m
          /\ \A i \in 1 .. l : SameFrame(call_frames'[i], call_frames[i])
          /\ \A i \in 1 .. m : SameInit(initterm_stack'[i], initterm_stack[i])
          /\ pending_process_exit => l > 0
          /\ ~(l < Len(call_frames)) /\ ~(m < Len(initterm_stack))
          /\ l = Len(call_frames) /\ m = Len(initterm_stack)
          /\ call_frames' \in Seq(CallFrame)
      BY <1>1, <1>2, <1>4, <2>5, <2>6 DEF SameFrame, FramesRight
    <3> QED
      BY <1>1, <1>2, <1>3, <2>5, <2>9, <3>1, FramesChange
  <2>11. CallsTyped'
    BY <1>1, <1>2, <2>5, <2>9 DEF CallsTyped
  <2>12. AtRip(e)'
    <3>1. \A q : q = Driver("initterm") => Driven(q, Current, e)'
      BY <2>10 DEF Driven
    <3>2. Floor(Current)' \in Nat /\ Floor(Current)' <= Floor(Current)
      <4>1. Floor(n)' = Floor(n)
        BY <1>2, <1>6 DEF Floor
      <4>2. \A c : c = Current' => Floor(c)' = Floor(n)'
        BY <1>9
      <4> QED
        BY <1>0, <1>8, <4>1, <4>2
    <3> QED
      BY <1>1, <1>2, <2>8, <2>9, <2>11, <3>1, <3>2, EntryRight
  <2> QED
    BY <1>1, <1>2, <2>10, <2>11, <2>12 DEF StackRight
<1>11. CASE ~(f.remaining > 0)
  <2>1. GoBack(f.ret, f.saved - 1) /\ initterm_stack' = Front(initterm_stack)
    BY <1>0, <1>11 DEF InittermAdvance
  <2>2. /\ initterm_stack' \in Seq(InitFrame) /\ Len(initterm_stack') = m - 1
        /\ \A i \in 1 .. m - 1 : initterm_stack'[i] = initterm_stack[i]
    BY <1>5, <2>1
  <2>3. PICK words : words = f.saved - 1
    OBVIOUS
  <2>4. words = active[Current].sp + left /\ GoBack(After(Current, left), words) /\ Current > 0
    BY <1>0, <1>6, <1>7, <1>8, <2>1, <2>3
  <2>5. /\ rip' = Guest(Current) /\ stack' \in Seq(Word)
        /\ Len(stack') = active[Current].sp /\ Agrees(Floor(Current))
    BY <1>1, <2>4, GoBackShape
  <2>6. PICK k : k = m - 1
    OBVIOUS
  <2>7. /\ AllKept' /\ FramesRight(e)' /\ Chained(e)'
        /\ ~CallsBack(Current, e)' /\ ~Initialises(Current)'
    <3>1. /\ k \in 0 .. Len(initterm_stack) /\ l \in 0 .. Len(call_frames) /\ Len(call_frames') = l
          /\ Len(initterm_stack') = k
          /\ \A i \in 1 .. l : SameFrame(call_frames'[i], call_frames[i])
          /\ \A i \in 1 .. k : SameInit(initterm_stack'[i], initterm_stack[i])
          /\ pending_process_exit => l > 0
          /\ ~(l < Len(call_frames)) /\ l = Len(call_frames)
          /\ k < Len(initterm_stack)
          /\ k + 1 = Len(initterm_stack) /\ initterm_stack[k + 1].ret[2] = Current
          /\ call_frames' \in Seq(CallFrame)
      <4>1. k \in Nat /\ k < m /\ k + 1 = m
        BY <1>5, <2>6
      <4>2. /\ k \in 0 .. Len(initterm_stack) /\ Len(initterm_stack') = k
            /\ k < Len(initterm_stack) /\ k + 1 = Len(initterm_stack)
            /\ initterm_stack[k + 1].ret[2] = Current
        BY <1>0, <1>4, <1>5, <2>2, <2>6, <4>1
      <4>3. \A i \in 1 .. k : SameInit(initterm_stack'[i], initterm_stack[i])
        BY <2>2, <2>6 DEF SameInit
      <4>4. /\ l \in 0 .. Len(call_frames) /\ Len(call_frames') = l
            /\ \A i \in 1 .. l : SameFrame(call_frames'[i], call_frames[i])
            /\ pending_process_exit => l > 0
            /\ ~(l < Len(call_frames)) /\ l = Len(call_frames)
            /\ call_frames' \in Seq(CallFrame)
        BY <1>1, <1>2, <1>4 DEF SameFrame, FramesRight
      <4> QED
        BY <4>2, <4>3, <4>4
    <3> QED
      BY <1>1, <1>2, <1>3, <2>2, <2>5, <3>1, FramesChange
  <2>8. CallsTyped'
    BY <1>1, <1>2, <2>2, <2>5 DEF CallsTyped
  <2>9. AtRip(e)'
    <3>1. Calls0(Current, e)'
      BY <2>7 DEF Calls0
    <3>2. Calls0(n, e)'
      BY <1>9, <3>1
    <3>3. Len(stack') = active'[n].sp
      BY <1>0, <1>2, <2>5
    <3> QED
      BY <1>0, <1>6, <1>9, <2>5, <3>2, <3>3 DEF AtRip
  <2> QED
    BY <1>1, <1>2, <2>7, <2>8, <2>9 DEF StackRight
<1> QED
  BY <1>10, <1>11

(* Before the process ends the DllMains of its modules are called, as from a *)
(* function that stays active below them and is never gone back to.         *)
LEMMA BeginExitKeeps ==
    ASSUME NEW e \in Nat, StackRight(e), BeginProcessExit
    PROVE  CallsInv'
<1>0. PICK n : n = Current
  OBVIOUS
<1>1. /\ CallsTyped /\ AllKept /\ FramesRight(e) /\ Chained(e)
      /\ ~pending_process_exit => e = 0
      /\ Current \in Nat /\ Len(stack) \in Nat /\ stack \in Seq(Word)
      /\ Floor(Current) \in Nat /\ Floor(Current) <= Len(stack)
      /\ is_64bit \in BOOLEAN
      /\ call_frames \in Seq(CallFrame) /\ Len(call_frames) \in Nat
      /\ initterm_stack \in Seq(InitFrame) /\ Len(initterm_stack) \in Nat
  BY Below
<1>2. Calls0(n, e)
  <2>1. CASE At("exits")
    <3>1. rip[1] = "thunk"
      BY <2>1 DEF At
    <3> QED
      BY <3>1, <1>0, ThunkShape
  <2>2. CASE rip = Driver("exit")
    <3>1. /\ rip[1] = "driver" /\ rip # Driver("callbacks") /\ rip # Driver("initterm")
      BY <2>2, WordForms, Names
    <3>2. Current = 0 /\ Calls0(0, e)
      BY <3>1, RipSays
    <3> QED
      BY <3>2, <1>0
  <2> QED
    BY <2>1, <2>2 DEF BeginProcessExit
<1>3. UNCHANGED <<is_64bit, active, initterm_stack>>
  BY DEF BeginProcessExit
<1>4. ASSUME call_frames = <<>>, pending_process_exit' = TRUE, NEW c \in 1 .. MaxList,
             call_frames' = <<[remaining |-> Repeat(3, c - 1), ret |-> Driver("exit"),
                               modal |-> FALSE, final |-> Len(stack) + 1 - 1]>>,
             stack' = stack \o [i \in 1 .. RoundUp(Len(stack) + 1, IF is_64bit THEN 2 ELSE 4) - Len(stack) |->
                                        IF i = 1 THEN Driver("exit") ELSE Junk]
                            \o (IF is_64bit THEN StackWords(3, 1) ELSE StackWords(3, 0))
                            \o <<Driver("callbacks")>>,
             rip' = Function(3)
      PROVE  StackRight(n)'
  <2>1. ~pending_process_exit /\ e = 0
    BY <1>1, <1>4 DEF FramesRight
  <2>2. PICK aligned : aligned = RoundUp(Len(stack) + 1, IF is_64bit THEN 2 ELSE 4)
    OBVIOUS
  <2>3. aligned \in Nat /\ Len(stack) + 1 <= aligned /\ (is_64bit => aligned % 2 = 0)
    <3>1. Len(stack) + 1 \in Nat
      BY <1>1
    <3>2. PICK words : words = Len(stack) + 1
      OBVIOUS
    <3> QED
      BY <2>2, <3>1, <3>2, RoundUpEven, RoundUpFour
  <2>4. PICK gap : gap = [i \in 1 .. aligned - Len(stack) |-> IF i = 1 THEN Driver("exit") ELSE Junk]
    OBVIOUS
  <2>5. gap \in Seq(Word) /\ Len(gap) = aligned - Len(stack)
    <3>1. Driver("exit") \in Word /\ Junk \in Word
      BY WordsOf, Names
    <3>2. aligned - Len(stack) \in Nat
      BY <1>1, <2>3
    <3> QED
      BY <2>4, <3>1, <3>2
  <2>6. PICK lower : lower = stack \o gap
    OBVIOUS
  <2>7. /\ lower \in Seq(Word) /\ Len(lower) = aligned
        /\ \A i \in 1 .. Len(stack) : lower[i] = stack[i]
    <3>1. /\ lower \in Seq(Word) /\ Len(lower) = Len(stack) + Len(gap)
          /\ \A i \in 1 .. Len(stack) : lower[i] = stack[i]
      BY <1>1, <2>5, <2>6, Joined
    <3> QED
      BY <3>1, <1>1, <2>3, <2>5
  <2>8. stack' = lower \o PushedFor(3) \o <<Driver("callbacks")>>
    BY <1>4, <2>2, <2>4, <2>6 DEF PushedFor
  <2>9. /\ stack' \in Seq(Word) /\ Len(stack') \in Nat /\ aligned + 3 < Len(stack')
        /\ Last(stack') = Driver("callbacks")
        /\ \A i \in 1 .. aligned : stack'[i] = lower[i]
        /\ \A i \in 1 .. 3 : stack'[Len(stack') - i] = Argument
        /\ is_64bit => Len(stack') % 2 = 1
    <3>1. Driver("callbacks") \in Word /\ 3 \in 0 .. 4 /\ (is_64bit => Len(lower) % 2 = 0)
      BY <2>3, <2>7, WordsOf, Names
    <3> QED
      BY <1>1, <2>7, <2>8, <3>1, ArgumentsPushed
  <2>10. Agrees(Floor(n))
    <3>1. \A i \in 1 .. Len(stack) : stack'[i] = stack[i]
      <4> TAKE i \in 1 .. Len(stack)
      <4>1. i \in 1 .. aligned
        BY <1>1, <2>3
      <4> QED
        BY <4>1, <2>7, <2>9
    <3> QED
      BY <1>0, <1>1, <2>3, <2>9, <3>1 DEF Agrees
  <2>11. Current' = n
    BY <1>0, <1>3 DEF Current
  <2>12. PICK g : g = [remaining |-> Repeat(3, c - 1), ret |-> Driver("exit"),
                       modal |-> FALSE, final |-> Len(stack) + 1 - 1]
    OBVIOUS
  <2>13. /\ g \in CallFrame /\ g.ret = Driver("exit") /\ g.final = Len(stack)
    <3>1. Repeat(3, c - 1) \in Seq(0 .. 4)
      BY CallLists, CallsAssumption
    <3>2. Driver("exit") \in Word
      BY WordsOf, Names
    <3>3. Len(stack) + 1 - 1 = Len(stack)
      BY <1>1
    <3> QED
      BY <1>1, <2>12, <3>1, <3>2, <3>3 DEF CallFrame
  <2>14. /\ call_frames' = <<g>> /\ call_frames' \in Seq(CallFrame) /\ Len(call_frames') = 1
         /\ call_frames'[1] = g
    BY <1>4, <2>12, <2>13
  <2>15. TlsRuns' => TlsRuns
    BY <1>4 DEF TlsRuns
  <2>16. /\ \A d \in 1 .. n : FunctionKept(d)'
         /\ \A d \in 0 .. n : Floor(d)' \in Nat /\ Floor(d)' <= Floor(d)
         /\ Floor(0)' <= Len(stack')
    <3>1. n \in 0 .. Current /\ \A d \in 1 .. n : active'[d] = active[d]
      BY <1>0, <1>1, <1>3
    <3> QED
      BY <1>1, <2>9, <2>10, <2>15, <3>1, KeptBelow
  <2>17. AllKept'
    BY <2>11, <2>16 DEF AllKept
  <2>18. Level(g, n) = n /\ g.ret[1] # "call"
    BY <2>13, WordForms, Names DEF Level
  <2>19. \A d : CallsBack(d, n)' <=> d = n
    <3>1. \A d : CallsBack(d, n)' <=> \E i \in 1 .. 1 : Level(call_frames'[i], n) = d
      BY <2>14 DEF CallsBack, Level
    <3> QED
      BY <3>1, <2>14, <2>18
  <2>20. \A d : Initialises(d)' <=> Initialises(d)
    BY <1>3 DEF Initialises
  <2>21. FramesRight(n)'
    <3>1. CallFrameRight(1, n)'
      <4>1. Floor(n)' <= g.final
        <5>1. Floor(n)' \in Nat /\ Floor(n)' <= Floor(n)
          BY <1>0, <1>1, <2>16
        <5> QED
          BY <1>0, <1>1, <2>13, <5>1
      <4> QED
        BY <1>4, <2>13, <2>14, <4>1 DEF CallFrameRight
    <3>2. \A i \in 1 .. Len(initterm_stack) : InitFrameRight(i)'
      BY <1>0, <1>1, <1>3, <2>11 DEF FramesRight, InitFrameRight
    <3>3. \A i, j \in 1 .. Len(initterm_stack) : i < j => initterm_stack[i].ret[2] < initterm_stack[j].ret[2]
      BY <1>1 DEF FramesRight
    <3>4. n \in 0 .. Current' /\ call_frames' # <<>>
      BY <1>0, <1>1, <2>11, <2>14
    <3>5. /\ \A i \in 1 .. 1 : i = 1
          /\ \A i, j \in 1 .. 1 : ~(i < j)
      OBVIOUS
    <3> QED
      BY <1>3, <2>13, <2>14, <3>1, <3>2, <3>3, <3>4, <3>5 DEF FramesRight
  <2>22. Chained(n)'
    <3> SUFFICES ASSUME NEW d \in 1 .. n PROVE Driven(active[d].ret, d - 1, n)'
      BY <2>11 DEF Chained
    <3>1. Driven(active[d].ret, d - 1, e) /\ d - 1 # n
      BY <1>0, <1>1 DEF Chained
    <3>2. \A k : ~CallsBack(k, e)
      <4>1. Len(call_frames) = 0
        BY <1>4
      <4> QED
        BY <4>1 DEF CallsBack
    <3>3. ~CallsBack(d - 1, n)' /\ (Initialises(d - 1)' <=> Initialises(d - 1))
      BY <3>1, <2>19, <2>20
    <3>4. d - 1 = 0 => (Calls0(0, n)' <=> Calls0(0, e))
      BY <3>2, <3>3 DEF Calls0
    <3>5. active'[d] = active[d]
      BY <1>3
    <3> QED
      BY <3>1, <3>2, <3>3, <3>4, <3>5 DEF Driven
  <2>23. CallsTyped'
    BY <1>1, <1>3, <1>4, <2>9, <2>14 DEF CallsTyped
  <2>24. AtRip(n)'
    <3>1. \A q : q = Driver("callbacks") => Driven(q, Current, n)'
      <4>1. CallsBack(n, n)' /\ ~Initialises(n)'
        BY <1>2, <2>19, <2>20 DEF Calls0
      <4>2. \A q : q = Driver("callbacks") => Driven(q, n, n)'
        BY <4>1 DEF Driven
      <4>3. \A q, d : d = Current' => (Driven(q, d, n)' <=> Driven(q, n, n)')
        BY <2>11
      <4> QED
        BY <4>2, <4>3
    <3>2. Floor(Current)' \in Nat /\ Floor(Current)' <= Floor(Current)
      <4>1. Floor(n)' \in Nat /\ Floor(n)' <= Floor(n)
        BY <1>0, <1>1, <2>16
      <4>2. \A d : d = Current' => Floor(d)' = Floor(n)'
        BY <2>11
      <4> QED
        BY <1>0, <4>1, <4>2
    <3>3. Floor(Current) <= aligned /\ 3 \in 0 .. 4 /\ n \in Nat
      BY <1>0, <1>1, <2>3
    <3> QED
      BY <1>1, <1>3, <1>4, <2>3, <2>9, <2>23, <3>1, <3>2, <3>3, EntryRight
  <2> QED
    BY <1>4, <2>17, <2>21, <2>22, <2>23, <2>24 DEF StackRight
<1>5. \/ rip' = Exited
      \/ /\ call_frames = <<>> /\ pending_process_exit' = TRUE /\ rip' = Function(3)
         /\ \E c \in 1 .. MaxList :
              /\ call_frames' = <<[remaining |-> Repeat(3, c - 1), ret |-> Driver("exit"),
                                   modal |-> FALSE, final |-> Len(stack) + 1 - 1]>>
              /\ stack' = stack \o [i \in 1 .. RoundUp(Len(stack) + 1, IF is_64bit THEN 2 ELSE 4) - Len(stack) |->
                                        IF i = 1 THEN Driver("exit") ELSE Junk]
                            \o (IF is_64bit THEN StackWords(3, 1) ELSE StackWords(3, 0))
                            \o <<Driver("callbacks")>>
  <2>1. CASE rip' = Exited
    BY <2>1
  <2>2. CASE rip' # Exited
    <3>1. call_frames = <<>> /\ pending_process_exit' = TRUE
      BY <2>2 DEF BeginProcessExit
    <3>2. PICK c \in 1 .. MaxList :
              LET words == Len(stack) + 1 IN
              /\ call_frames' = <<[remaining |-> Repeat(3, c - 1), ret |-> Driver("exit"),
                                   modal |-> FALSE, final |-> words - 1]>>
              /\ stack' = stack \o [i \in 1 .. RoundUp(words, IF is_64bit THEN 2 ELSE 4) - Len(stack) |->
                                      IF i = 1 THEN Driver("exit") ELSE Junk]
                                \o (IF is_64bit THEN StackWords(3, 1) ELSE StackWords(3, 0))
                                \o <<Driver("callbacks")>>
              /\ rip' = Function(3)
      BY <2>2 DEF BeginProcessExit
    <3>3. rip' = Function(3)
      BY <3>2
    <3>4. call_frames' = <<[remaining |-> Repeat(3, c - 1), ret |-> Driver("exit"),
                            modal |-> FALSE, final |-> Len(stack) + 1 - 1]>>
      BY <3>2
    <3>5. stack' = stack \o [i \in 1 .. RoundUp(Len(stack) + 1, IF is_64bit THEN 2 ELSE 4) - Len(stack) |->
                                        IF i = 1 THEN Driver("exit") ELSE Junk]
                            \o (IF is_64bit THEN StackWords(3, 1) ELSE StackWords(3, 0))
                            \o <<Driver("callbacks")>>
      BY <3>2
    <3> QED
      BY <3>1, <3>3, <3>4, <3>5
  <2> QED
    BY <2>1, <2>2
<1>6. n \in Nat
  BY <1>0, <1>1
<1> QED
  BY <1>4, <1>5, <1>6 DEF CallsInv

-----------------------------------------------------------------------------
(* Every step keeps it.                                                     *)
LEMMA CallsStep ==
    ASSUME CallsInv, [CallNext]_callVars
    PROVE  CallsInv'
<1>1. CASE UNCHANGED callVars
  <2>1. /\ UNCHANGED <<is_64bit, stack, rip, active, call_frames, initterm_stack>>
        /\ UNCHANGED pending_process_exit
    BY <1>1 DEF callVars
  <2>2. ASSUME NEW e \in Nat, StackRight(e) PROVE StackRight(e)'
    <3>0. Current' = Current
      BY <2>1 DEF Current
    <3>1. CallsTyped'
      BY <2>1, <2>2 DEF StackRight, CallsTyped
    <3>2. TlsRuns' <=> TlsRuns
      BY <2>1 DEF TlsRuns
    <3>3. \A d : Floor(d)' = Floor(d)
      BY <2>1, <3>2 DEF Floor
    <3>4. AllKept'
      BY <2>1, <2>2, <3>0, <3>3 DEF StackRight, AllKept, FunctionKept
    <3>5. /\ \A d : CallsBack(d, e)' <=> CallsBack(d, e)
          /\ \A d : Initialises(d)' <=> Initialises(d)
      BY <2>1 DEF CallsBack, Initialises, Level
    <3>6. \A r, d : Driven(r, d, e)' <=> Driven(r, d, e)
      BY <3>5 DEF Driven, Calls0
    <3>7. Chained(e)'
      <4>1. \A d \in 1 .. Current : Driven(active[d].ret, d - 1, e)
        BY <2>2 DEF StackRight, Chained
      <4>2. \A d \in 1 .. Current : Driven(active[d].ret, d - 1, e)'
        <5> TAKE d \in 1 .. Current
        <5>1. \A r : r = active[d].ret => Driven(r, d - 1, e)'
          BY <3>6, <4>1
        <5>2. active'[d].ret = active[d].ret
          BY <2>1
        <5> QED
          BY <5>1, <5>2
      <4> QED
        BY <3>0, <4>2 DEF Chained
    <3>8. FramesRight(e)'
      <4>1. /\ \A i : CallFrameRight(i, e) => CallFrameRight(i, e)'
            /\ \A i : InitFrameRight(i) => InitFrameRight(i)'
        BY <2>1, <3>0, <3>3 DEF CallFrameRight, InitFrameRight
      <4> QED
        BY <2>1, <2>2, <3>0, <4>1 DEF StackRight, FramesRight, Level
    <3>9. AtRip(e)'
      <4>1. /\ Calls0(Current, e)' <=> Calls0(Current, e)
            /\ Calls0(0, e)' <=> Calls0(0, e)
        BY <3>0, <3>5 DEF Calls0
      <4>2. \A t : InThunk(t) => InThunk(t)'
        BY <2>1, <3>0 DEF InThunk, Pushes, ArgumentsAt
      <4>3. \A n : AtEntry(n) => AtEntry(n)'
        BY <2>1, <3>0, <3>3 DEF AtEntry, ArgumentsAt
      <4>4. /\ Driven(rip, Current, e) => Driven(rip, Current, e)'
            /\ Driven(Last(stack), Current, e) => Driven(Last(stack), Current, e)'
        BY <2>1, <3>0, <3>5 DEF Driven, Calls0
      <4> QED
        BY <2>1, <2>2, <3>0, <4>1, <4>2, <4>3, <4>4 DEF StackRight, AtRip
    <3> QED
      BY <2>1, <2>2, <3>1, <3>4, <3>7, <3>8, <3>9 DEF StackRight
  <2> QED
    BY <2>1, <2>2 DEF CallsInv
<1>2. CASE CallNext /\ rip = Exited
  <2>1. /\ rip[1] = "exited" /\ \A d : rip # Guest(d)
        /\ rip[1] # "function" /\ rip[1] # "thunk"
        /\ \A name : rip # Driver(name)
    BY <1>2 DEF Exited, Guest, Driver
  <2>2. UNCHANGED callVars
    BY <1>2, <2>1 DEF CallNext, EnterFunction, CallThunk, ReturnFunction, Answer, Notify,
        SendToWindow, OpenDialog, CloseDialog, Initterm, EhProlog, BeginProcessExit, CbAdvance,
        InittermAdvance, ThreadStart, ThreadEnd, At
  <2> QED
    BY <1>2, <2>2 DEF CallsInv, callVars
<1>3. CASE CallNext /\ rip # Exited
  <2>1. PICK e \in Nat : StackRight(e)
    BY <1>3 DEF CallsInv
  <2>2. CASE EnterFunction
    BY <2>1, <2>2, EnterKeeps DEF CallsInv
  <2>3. CASE CallThunk
    BY <2>1, <2>3, CallThunkKeeps DEF CallsInv
  <2>4. CASE ReturnFunction
    BY <2>1, <2>4, ReturnKeeps DEF CallsInv
  <2>5. CASE Answer \/ Notify \/ SendToWindow \/ OpenDialog \/ CloseDialog
    BY <2>1, <2>5, ThunksKeep DEF CallsInv
  <2>6. CASE Initterm
    BY <2>1, <2>6, InittermKeeps DEF CallsInv
  <2>7. CASE EhProlog
    BY <2>1, <2>7, PrologKeeps DEF CallsInv
  <2>8. CASE BeginProcessExit
    BY <2>1, <2>8, BeginExitKeeps
  <2>9. CASE CbAdvance
    BY <2>1, <2>9, CbAdvanceKeeps
  <2>10. CASE InittermAdvance
    BY <2>1, <2>10, InittermAdvanceKeeps DEF CallsInv
  <2>11. CASE ThreadStart
    BY <2>1, <2>11, ThreadStartKeeps DEF CallsInv
  <2>12. CASE ThreadEnd
    BY <2>12 DEF ThreadEnd, CallsInv
  <2> QED
    BY <1>3, <2>2, <2>3, <2>4, <2>5, <2>6, <2>7, <2>8, <2>9, <2>10, <2>11, <2>12 DEF CallNext
<1> QED
  BY <1>1, <1>2, <1>3 DEF CallsInv

(* What the invariant says is what the promise does.                        *)
LEMMA CallsKept ==
    ASSUME CallsInv
    PROVE  StackIsKept
<1>1. CASE rip = Exited
  BY <1>1 DEF StackIsKept, Exited
<1>2. ASSUME NEW e \in Nat, StackRight(e) PROVE StackIsKept
  <2>1. rip[1] = "guest" => rip[2] = Current /\ Len(stack) = Own(Current)
    <3>1. Current \in Nat
      BY <1>2, Below
    <3> QED
      BY <1>2, <3>1, RipSays, WordForms DEF Own
  <2>2. rip[1] = "thunk" => rip[2].takes >= rip[2].reads /\ ArgumentsAt(Len(stack), rip[2].reads)
    <3> SUFFICES ASSUME rip[1] = "thunk"
                 PROVE  rip[2].takes >= rip[2].reads /\ ArgumentsAt(Len(stack), rip[2].reads)
      OBVIOUS
    <3>1. PICK t : t = rip[2]
      OBVIOUS
    <3>2. Balance(t) /\ ArgumentsAt(Len(stack), t.takes)
      BY <1>2, <3>1, ThunkShape
    <3>3. PICK takes, reads_ : takes = t.takes /\ reads_ = t.reads
      OBVIOUS
    <3>4. takes \in Nat /\ reads_ \in Nat /\ reads_ <= takes
      BY <3>2, <3>3 DEF Balance
    <3>5. \A i \in 1 .. reads_ : stack[Len(stack) - i] = Argument
      <4>1. \A i \in 1 .. reads_ : i \in 1 .. takes
        BY <3>4
      <4> QED
        BY <4>1, <3>2, <3>3 DEF ArgumentsAt
    <3> QED
      BY <3>1, <3>3, <3>4, <3>5 DEF ArgumentsAt
  <2>3. rip[1] = "function" => /\ ArgumentsAt(Len(stack), rip[2])
                               /\ Last(stack)[1] = "driver"
                               /\ is_64bit => Len(stack) % 2 = 1
    <3> SUFFICES ASSUME rip[1] = "function"
                 PROVE  /\ ArgumentsAt(Len(stack), rip[2])
                        /\ Last(stack)[1] = "driver"
                        /\ is_64bit => Len(stack) % 2 = 1
      OBVIOUS
    <3>1. AtEntry(rip[2]) /\ Driven(Last(stack), Current, e)
      BY <1>2, RipSays
    <3>2. Last(stack)[1] = "driver"
      BY <3>1, WordForms, Names DEF Driven
    <3> QED
      BY <3>1, <3>2 DEF AtEntry
  <2>4. \A d \in 1 .. Current :
            /\ stack[active[d].entry] = active[d].ret
            /\ \A i \in active[d].entry + 1 .. Own(d) : stack[i] = Local(d)
    BY <1>2 DEF StackRight, AllKept, FunctionKept, Own
  <2> QED
    BY <2>1, <2>2, <2>3, <2>4 DEF StackIsKept
<1> QED
  BY <1>1, <1>2 DEF CallsInv

-----------------------------------------------------------------------------
(* A thread as it is made.                                                  *)
LEMMA CallsInit ==
    ASSUME CallInit
    PROVE  CallsInv
<1>1. /\ is_64bit \in BOOLEAN /\ active = <<>> /\ initterm_stack = <<>>
      /\ pending_process_exit = FALSE
  BY DEF CallInit
<1>2. /\ Current = 0 /\ Len(initterm_stack) = 0
      /\ active \in Seq(ActiveFunction) /\ initterm_stack \in Seq(InitFrame)
  <2>1. <<>> \in Seq(ActiveFunction) /\ <<>> \in Seq(InitFrame) /\ Len(<<>>) = 0
    OBVIOUS
  <2> QED
    BY <1>1, <2>1 DEF Current
<1>3. PICK home : home = StackWords(0, 4)
  OBVIOUS
<1>4. home \in Seq(Word) /\ Len(home) = 4
  <2>1. StackWords(0, 4) \in Seq(Word) /\ Len(StackWords(0, 4)) = 4 + 0
    BY StackWordsShape
  <2> QED
    BY <1>3, <2>1
<1>5. /\ Driver("exit") \in Word /\ Driver("thread_entry") \in Word /\ Driver("thread_exit") \in Word
      /\ Driver("callbacks") \in Word /\ Function(0) \in Word
  BY WordsOf, Names
<1>6. ASSUME call_frames = <<>>, NEW n \in Nat, rip = Function(n), n < Len(stack),
             stack \in Seq(Word), ArgumentsAt(Len(stack), n),
             Last(stack) \in {Driver("exit"), Driver("thread_exit")},
             is_64bit => Len(stack) % 2 = 1
      PROVE  StackRight(0)
  <2>1. Len(call_frames) = 0 /\ Len(stack) \in Nat
    BY <1>6
  <2>2. \A d : ~CallsBack(d, 0) /\ ~Initialises(d) /\ Calls0(d, 0)
    BY <1>2, <2>1 DEF CallsBack, Initialises, Calls0
  <2>3. Floor(0) = 0
    BY <1>6 DEF Floor, TlsRuns
  <2>4. AllKept /\ Chained(0)
    BY <1>2, <2>1, <2>3 DEF AllKept, Chained
  <2>5. FramesRight(0)
    BY <1>1, <1>2, <2>1 DEF FramesRight
  <2>6. Driven(Last(stack), Current, 0)
    BY <1>2, <1>6, <2>2 DEF Driven
  <2>7. AtRip(0)
    BY <1>2, <1>6, <2>1, <2>3, <2>6 DEF AtRip, AtEntry
  <2>8. CallsTyped
    <3>1. <<>> \in Seq(CallFrame)
      OBVIOUS
    <3> QED
      BY <1>1, <1>2, <1>6, <3>1 DEF CallsTyped
  <2> QED
    BY <2>4, <2>5, <2>7, <2>8 DEF StackRight
<1>7. ASSUME NEW k \in 1 .. MaxList, NEW top \in Seq(Word), NEW h \in {4, 5}, Len(top) = h + 1,
             \/ Last(top) = Function(0) /\ h = 5 /\ top[5] = Driver("exit")
             \/ Last(top) = Driver("thread_entry") /\ h = 4,
             call_frames = <<[remaining |-> Repeat(3, k - 1), ret |-> Last(top),
                              modal |-> FALSE, final |-> Len(top) - 1]>>,
             NEW aligned, aligned = RoundUp(Len(top), IF is_64bit THEN 2 ELSE 4),
             stack = top \o StackWords(0, aligned - Len(top))
                         \o (IF is_64bit THEN StackWords(3, 1) ELSE StackWords(3, 0))
                         \o <<Driver("callbacks")>>,
             rip = Function(3)
      PROVE  StackRight(0)
  <2>1. /\ aligned \in Nat /\ Len(top) <= aligned /\ 6 <= aligned /\ (is_64bit => aligned % 2 = 0)
    <3>1. /\ RoundUp(5, 2) = 6 /\ RoundUp(6, 2) = 6 /\ RoundUp(5, 4) = 8 /\ RoundUp(6, 4) = 8
          /\ 6 % 2 = 0
      BY DEF RoundUp
    <3>2. Len(top) = 5 \/ Len(top) = 6
      BY <1>7
    <3> QED
      BY <1>7, <3>1, <3>2
  <2>2. PICK gap : gap = StackWords(0, aligned - Len(top))
    OBVIOUS
  <2>3. gap \in Seq(Word) /\ Len(gap) = aligned - Len(top)
    <3>1. PICK j : j = aligned - Len(top)
      OBVIOUS
    <3>2. j \in Nat /\ j + 0 = j
      BY <1>7, <2>1, <3>1
    <3>3. StackWords(0, j) \in Seq(Word) /\ Len(StackWords(0, j)) = j
      BY <3>2, StackWordsShape
    <3> QED
      BY <2>2, <3>1, <3>3
  <2>4. PICK lower : lower = top \o gap
    OBVIOUS
  <2>5. /\ lower \in Seq(Word) /\ Len(lower) = aligned
        /\ \A i \in 1 .. Len(top) : lower[i] = top[i]
    <3>1. /\ lower \in Seq(Word) /\ Len(lower) = Len(top) + Len(gap)
          /\ \A i \in 1 .. Len(top) : lower[i] = top[i]
      BY <2>3, <2>4, Joined
    <3> QED
      BY <3>1, <1>7, <2>1, <2>3
  <2>6. stack = lower \o PushedFor(3) \o <<Driver("callbacks")>>
    BY <1>7, <2>2, <2>4 DEF PushedFor
  <2>7. /\ stack \in Seq(Word) /\ Len(stack) \in Nat /\ aligned + 3 < Len(stack)
        /\ Last(stack) = Driver("callbacks")
        /\ \A i \in 1 .. aligned : stack[i] = lower[i]
        /\ \A i \in 1 .. 3 : stack[Len(stack) - i] = Argument
        /\ is_64bit => Len(stack) % 2 = 1
    <3>1. 3 \in 0 .. 4 /\ (is_64bit => Len(lower) % 2 = 0)
      BY <2>1, <2>5
    <3>2. PICK word : word = Driver("callbacks")
      OBVIOUS
    <3>3. word \in Word /\ lower \in Seq(Word)
      BY <1>5, <2>5, <3>2
    <3>4. LET s == lower \o PushedFor(3) \o <<word>> IN
          /\ s \in Seq(Word) /\ Len(s) \in Nat /\ Len(lower) + 3 < Len(s) /\ Last(s) = word
          /\ \A i \in 1 .. Len(lower) : s[i] = lower[i]
          /\ \A i \in 1 .. 3 : s[Len(s) - i] = Argument
          /\ is_64bit => Len(s) % 2 = 1
      BY <1>1, <3>1, <3>3, ArgumentsPushed
    <3>5. stack = lower \o PushedFor(3) \o <<word>> /\ Len(lower) = aligned
      BY <2>5, <2>6, <3>2
    <3> QED
      BY <3>2, <3>4, <3>5
  <2>8. PICK g : g = [remaining |-> Repeat(3, k - 1), ret |-> Last(top),
                      modal |-> FALSE, final |-> Len(top) - 1]
    OBVIOUS
  <2>9. /\ g \in CallFrame /\ g.ret = Last(top) /\ g.final = h
    <3>1. Repeat(3, k - 1) \in Seq(0 .. 4)
      BY CallLists, CallsAssumption
    <3>2. Last(top) \in Word /\ Len(top) - 1 = h /\ h \in Nat
      BY <1>5, <1>7
    <3> QED
      BY <2>8, <3>1, <3>2 DEF CallFrame
  <2>10. /\ call_frames \in Seq(CallFrame) /\ Len(call_frames) = 1 /\ call_frames[1] = g
         /\ call_frames # <<>>
    BY <1>7, <2>8, <2>9
  <2>11. g.ret[1] # "call" /\ Level(g, 0) = 0
    BY <1>7, <2>9, WordForms, Names DEF Level
  <2>12. CallsBack(0, 0) /\ \A d : ~Initialises(d)
    BY <1>2, <2>10, <2>11 DEF CallsBack, Initialises
  <2>13. Floor(0) = 5
    BY <1>1, <2>10, <2>11 DEF Floor, TlsRuns
  <2>14. AllKept /\ Chained(0)
    BY <1>2, <2>1, <2>7, <2>13 DEF AllKept, Chained
  <2>15. CallFrameRight(1, 0)
    <3>1. CASE Last(top) = Function(0) /\ h = 5 /\ top[5] = Driver("exit")
      <4>1. stack[5] = lower[5] /\ lower[5] = top[5]
        <5>1. 5 \in 1 .. Len(top) /\ 5 \in 1 .. aligned
          BY <1>7, <2>1, <3>1
        <5> QED
          BY <5>1, <2>5, <2>7
      <4> QED
        BY <1>1, <2>9, <2>10, <3>1, <4>1 DEF CallFrameRight
    <3>2. CASE Last(top) = Driver("thread_entry") /\ h = 4
      BY <1>1, <2>9, <2>10, <3>2 DEF CallFrameRight
    <3> QED
      BY <1>7, <3>1, <3>2
  <2>16. FramesRight(0)
    <3>1. /\ \A i \in 1 .. 1 : i = 1
          /\ \A i, j \in 1 .. 1 : ~(i < j)
      OBVIOUS
    <3> QED
      BY <1>1, <1>2, <2>10, <2>15, <3>1 DEF FramesRight
  <2>17. AtRip(0)
    <3>1. Driven(Last(stack), Current, 0)
      BY <1>2, <2>7, <2>12 DEF Driven
    <3>2. AtEntry(3)
      BY <1>2, <2>1, <2>7, <2>13 DEF AtEntry, ArgumentsAt
    <3> QED
      BY <1>7, <3>1, <3>2 DEF AtRip
  <2>18. CallsTyped
    BY <1>1, <1>2, <2>7, <2>10 DEF CallsTyped
  <2> QED
    BY <2>14, <2>16, <2>17, <2>18 DEF StackRight
<1>8. PICK first \in BOOLEAN, k \in 0 .. MaxList :
        LET top == home \o (IF first THEN <<Driver("exit"), Function(0)>>
                                     ELSE <<Driver("thread_entry")>>)
            aligned == RoundUp(Len(top), IF is_64bit THEN 2 ELSE 4)
        IN  IF k = 0
            THEN /\ call_frames = <<>>
                 /\ IF first
                    THEN stack = Append(home, Driver("exit")) /\ rip = Function(0)
                    ELSE /\ stack = (IF is_64bit THEN StackWords(1, 3) ELSE home \o StackWords(1, 0))
                                        \o <<Driver("thread_exit")>>
                         /\ rip = Function(1)
            ELSE /\ call_frames = <<[remaining |-> Repeat(3, k - 1), ret |-> Last(top),
                                     modal |-> FALSE, final |-> Len(top) - 1]>>
                 /\ stack = top \o StackWords(0, aligned - Len(top))
                                \o (IF is_64bit THEN StackWords(3, 1) ELSE StackWords(3, 0))
                                \o <<Driver("callbacks")>>
                 /\ rip = Function(3)
  BY <1>3 DEF CallInit
<1>9. CASE k = 0 /\ first
  <2>1. call_frames = <<>> /\ rip = Function(0) /\ stack = Append(home, Driver("exit"))
    BY <1>8, <1>9
  <2>2. stack \in Seq(Word) /\ Len(stack) = 5 /\ stack[5] = Driver("exit")
    <3>1. PICK w : w = Driver("exit")
      OBVIOUS
    <3>2. w \in Word /\ home \in Seq(Word)
      BY <1>4, <1>5, <3>1
    <3>3. /\ Append(home, w) \in Seq(Word) /\ Len(Append(home, w)) = Len(home) + 1
          /\ Append(home, w)[Len(home) + 1] = w
      BY <3>2
    <3>4. stack = Append(home, w) /\ Len(home) + 1 = 5
      BY <1>4, <2>1, <3>1
    <3> QED
      BY <3>1, <3>3, <3>4
  <2>3. /\ Last(stack) = Driver("exit") /\ ArgumentsAt(Len(stack), 0) /\ 0 < Len(stack)
        /\ Len(stack) % 2 = 1 /\ 0 \in Nat
    BY <2>2 DEF Last, ArgumentsAt
  <2> QED
    BY <1>6, <2>1, <2>2, <2>3 DEF CallsInv
<1>10. CASE k = 0 /\ ~first
  <2>1. /\ call_frames = <<>> /\ rip = Function(1)
        /\ stack = (IF is_64bit THEN StackWords(1, 3) ELSE home \o StackWords(1, 0))
                       \o <<Driver("thread_exit")>>
    BY <1>8, <1>10
  <2>2. PICK lower : lower = IF is_64bit THEN StackWords(1, 3) ELSE home \o StackWords(1, 0)
    OBVIOUS
  <2>3. /\ lower \in Seq(Word) /\ Len(lower) \in {4, 5} /\ lower[Len(lower)] = Argument
        /\ is_64bit => Len(lower) = 4
    <3>1. CASE is_64bit
      <4>1. /\ StackWords(1, 3) \in Seq(Word) /\ Len(StackWords(1, 3)) = 3 + 1
            /\ \A i \in 3 + 1 .. 3 + 1 : StackWords(1, 3)[i] = Argument
        BY StackWordsShape
      <4> QED
        BY <2>2, <3>1, <4>1
    <3>2. CASE ~is_64bit
      <4>1. /\ StackWords(1, 0) \in Seq(Word) /\ Len(StackWords(1, 0)) = 0 + 1
            /\ \A i \in 0 + 1 .. 0 + 1 : StackWords(1, 0)[i] = Argument
        BY StackWordsShape
      <4>2. PICK one : one = StackWords(1, 0)
        OBVIOUS
      <4>3. lower = home \o one /\ one \in Seq(Word) /\ Len(one) = 1 /\ one[1] = Argument
        BY <2>2, <3>2, <4>1, <4>2
      <4>4. /\ lower \in Seq(Word) /\ Len(lower) = Len(home) + Len(one)
            /\ \A i \in 1 .. Len(one) : lower[Len(home) + i] = one[i]
        BY <1>4, <4>3, Joined
      <4> QED
        BY <1>4, <3>2, <4>3, <4>4
    <3> QED
      BY <3>1, <3>2
  <2>4. /\ stack \in Seq(Word) /\ Len(stack) = Len(lower) + 1 /\ stack[Len(stack)] = Driver("thread_exit")
        /\ stack[Len(lower)] = Argument
    <3>1. stack = lower \o <<Driver("thread_exit")>>
      BY <2>1, <2>2
    <3> QED
      BY <1>5, <2>3, <3>1
  <2>5. /\ Last(stack) = Driver("thread_exit") /\ 1 < Len(stack) /\ 1 \in Nat
        /\ is_64bit => Len(stack) % 2 = 1
    BY <2>3, <2>4 DEF Last
  <2>6. ArgumentsAt(Len(stack), 1)
    <3>1. \A i \in 1 .. 1 : Len(stack) - i = Len(lower)
      BY <2>3, <2>4
    <3> QED
      BY <2>4, <3>1 DEF ArgumentsAt
  <2> QED
    BY <1>6, <2>1, <2>4, <2>5, <2>6 DEF CallsInv
<1>11. CASE k # 0
  <2>1. PICK top : top = home \o (IF first THEN <<Driver("exit"), Function(0)>>
                                     ELSE <<Driver("thread_entry")>>)
    OBVIOUS
  <2>2. PICK aligned : aligned = RoundUp(Len(top), IF is_64bit THEN 2 ELSE 4)
    OBVIOUS
  <2>3. /\ call_frames = <<[remaining |-> Repeat(3, k - 1), ret |-> Last(top),
                            modal |-> FALSE, final |-> Len(top) - 1]>>
        /\ stack = top \o StackWords(0, aligned - Len(top))
                                \o (IF is_64bit THEN StackWords(3, 1) ELSE StackWords(3, 0))
                                \o <<Driver("callbacks")>>
        /\ rip = Function(3)
    BY <1>8, <1>11, <2>1, <2>2
  <2>4. k \in 1 .. MaxList
    BY <1>11
  <2>5. CASE first
    <3>1. top = home \o <<Driver("exit"), Function(0)>>
      BY <2>1, <2>5
    <3>2. /\ top \in Seq(Word) /\ Len(top) = 5 + 1 /\ top[5] = Driver("exit") /\ top[6] = Function(0)
      <4>1. PICK v, w : v = Driver("exit") /\ w = Function(0)
        OBVIOUS
      <4>2. PICK two : two = <<v, w>>
        OBVIOUS
      <4>3. two \in Seq(Word) /\ Len(two) = 2 /\ two[1] = v /\ two[2] = w
        BY <1>5, <4>1, <4>2
      <4>4. top = home \o two
        BY <3>1, <4>1, <4>2
      <4>5. /\ top \in Seq(Word) /\ Len(top) = Len(home) + Len(two)
            /\ \A i \in 1 .. Len(two) : top[Len(home) + i] = two[i]
        BY <1>4, <4>3, <4>4, Joined
      <4>6. top[4 + 1] = v /\ top[4 + 2] = w
        BY <1>4, <4>3, <4>5
      <4> QED
        BY <1>4, <4>1, <4>3, <4>5, <4>6
    <3>3. Last(top) = Function(0) /\ 5 \in {4, 5}
      BY <3>2 DEF Last
    <3>4. StackRight(0)
      BY <1>7, <2>2, <2>3, <2>4, <3>2, <3>3
    <3> QED
      BY <3>4 DEF CallsInv
  <2>6. CASE ~first
    <3>1. top = home \o <<Driver("thread_entry")>>
      BY <2>1, <2>6
    <3>2. /\ top \in Seq(Word) /\ Len(top) = 4 + 1 /\ top[5] = Driver("thread_entry")
      <4>1. PICK v : v = Driver("thread_entry")
        OBVIOUS
      <4>2. PICK one : one = <<v>>
        OBVIOUS
      <4>3. one \in Seq(Word) /\ Len(one) = 1 /\ one[1] = v
        BY <1>5, <4>1, <4>2
      <4>4. top = home \o one
        BY <3>1, <4>1, <4>2
      <4>5. /\ top \in Seq(Word) /\ Len(top) = Len(home) + Len(one)
            /\ \A i \in 1 .. Len(one) : top[Len(home) + i] = one[i]
        BY <1>4, <4>3, <4>4, Joined
      <4>6. top[4 + 1] = v
        BY <1>4, <4>3, <4>5
      <4> QED
        BY <1>4, <4>1, <4>3, <4>5, <4>6
    <3>3. Last(top) = Driver("thread_entry") /\ 4 \in {4, 5}
      BY <3>2 DEF Last
    <3>4. StackRight(0)
      BY <1>7, <2>2, <2>3, <2>4, <3>2, <3>3
    <3> QED
      BY <3>4 DEF CallsInv
  <2> QED
    BY <2>5, <2>6
<1> QED
  BY <1>9, <1>10, <1>11

(* A guest function runs on the stack it left, finds its arguments, and what *)
(* it keeps on the stack is there until it returns: for any depth at which   *)
(* functions and thunks call one another, any lists of DllMains, dialog      *)
(* procedures, TLS callbacks and initialisers that a thunk has to call       *)
(* (setup_call_args, invoke_callbacks, cb_advance, initterm_advance and      *)
(* begin_process_exit of api.rs), and for every import for which the tables  *)
(* of argument counts agree with the declarations.                           *)
THEOREM GuestStackIsKept == CallSpec => []StackIsKept
<1>1. CallInit => CallsInv
  BY CallsInit
<1>2. CallsInv /\ [CallNext]_callVars => CallsInv'
  BY CallsStep
<1>3. CallsInv => StackIsKept
  BY CallsKept
<1> QED
  BY <1>1, <1>2, <1>3, PTL DEF CallSpec
=============================================================================
