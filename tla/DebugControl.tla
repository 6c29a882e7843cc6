---------------------------- MODULE DebugControl ----------------------------
(***************************************************************************)
(* The control block a debugger front end shares with a running process    *)
(* (core/src/debug.rs), the head of the run loop that stops for it, and    *)
(* compiled code that must never run past an armed address.                *)
(*                                                                         *)
(* The front end is a thread of its own: it changes the sets under a lock  *)
(* and then publishes them, filter by filter and the generation last.  The *)
(* runner looks at a filter without the lock, takes the lock only when the *)
(* filter does not rule the address out, compiles blocks that end before   *)
(* the next armed address, and runs them one after the other by links that *)
(* look at nothing.                                                        *)
(*                                                                         *)
(* Break-at-step is part of RunLoop; watch kinds, snapshots and what runs  *)
(* after the front end has detached are left out.  owed and slipped are    *)
(* history: what was published when the runner last looked and still is,   *)
(* and whether the guest got past any of it.                               *)
(***************************************************************************)
EXTENDS Integers, Sequences, FiniteSetsExt

CONSTANTS Text,       \* the guest: instructions [kind, to, word], to is 0 where it falls through
          Armable,    \* the addresses a front end arms
          Words,      \* the data words instructions access
          BloomBits,  \* bloom_bits of every address and word
          BlockMax,   \* max_insns of a block
          BudgetMax,  \* budget of a chain
          StaleLoads, \* a relaxed load of a filter may see an older value
          MaxArms     \* changes of the sets (a bound of the model)

NextRips(a) == LET i == Text[a] IN
    CASE i.kind = "jmp" -> {i.to}
      [] i.kind = "jcc" -> {i.to, a + 1}
      [] OTHER -> {a + 1}

\* The guest stays in its code; bloom_bits sets one or two bits of every word.
ASSUME DebugControlAssumption ==
    /\ Len(Text) \in Nat /\ \A a \in 1 .. Len(Text) : NextRips(a) \subseteq 1 .. Len(Text)
    /\ Armable \subseteq Nat /\ \A a \in Armable \cup Words : BloomBits[a] # {}
    /\ BlockMax \in Nat /\ StaleLoads \in BOOLEAN

VARIABLES armed, bp_filter, wp_filter, generation, front, stop_request, watch_hit,
          runner, cache, owed, slipped

dbgVars == <<armed, bp_filter, wp_filter, generation, front, stop_request, watch_hit,
             runner, cache, owed, slipped>>

NoWord == 0
NoArms == [breaks |-> {}, watches |-> {}]
NoLink == <<0, 0>>
NoBlocks == [a \in {} |-> 0]

DbgInit ==
    /\ armed = NoArms
    /\ bp_filter = {} /\ wp_filter = {}
    /\ generation = 0
    /\ front = "idle"
    /\ stop_request = "Run"
    /\ watch_hit = NoWord
    /\ runner = [stage |-> "head", rip |-> 1, stepping |-> "no", stopped |-> FALSE,
                 retired |-> 0, watched |-> FALSE, block |-> 0, pending |-> NoLink, seen |-> {}]
    /\ cache = [ends |-> NoBlocks, open |-> {}, links |-> {}, generation |-> 0]
    /\ owed = NoArms
    /\ slipped = FALSE

Filter(set) == UNION {BloomBits[a] : a \in set}

(***************************************************************************)
(* The control block.                                                      *)
(***************************************************************************)

\* What every change leaves to be looked for until the runner looks again.
StillArmed(sets) == [breaks |-> owed.breaks \cap sets.breaks, watches |-> owed.watches \cap sets.watches]

Changes ==
    {[armed EXCEPT !.breaks = @ \cup {a}] : a \in Armable}
    \cup {[armed EXCEPT !.breaks = @ \ {a}] : a \in Armable}
    \cup {[armed EXCEPT !.watches = @ \cup {w}] : w \in Words}
    \cup {[armed EXCEPT !.watches = @ \ {w}] : w \in Words}

\* mutate, in the front end's thread: the lock is held from the change of the
\* sets to the new generation.
mutate(sets) ==
    /\ front = "idle"
    /\ sets # armed
    /\ generation < MaxArms
    /\ armed' = sets
    /\ owed' = StillArmed(sets)
    /\ front' = "bp_filter"
    /\ UNCHANGED <<bp_filter, wp_filter, generation, stop_request, watch_hit, runner, cache, slipped>>

StoresBreaks ==
    /\ front = "bp_filter"
    /\ bp_filter' = Filter(armed.breaks)
    /\ front' = "wp_filter"
    /\ UNCHANGED <<armed, wp_filter, generation, stop_request, watch_hit, runner, cache, owed, slipped>>

StoresWatches ==
    /\ front = "wp_filter"
    /\ wp_filter' = Filter(armed.watches)
    /\ front' = "generation"
    /\ UNCHANGED <<armed, bp_filter, generation, stop_request, watch_hit, runner, cache, owed, slipped>>

Publishes ==
    /\ front = "generation"
    /\ generation' = generation + 1
    /\ front' = "idle"
    /\ UNCHANGED <<armed, bp_filter, wp_filter, stop_request, watch_hit, runner, cache, owed, slipped>>

Requests(r) ==
    /\ stop_request' = r
    /\ UNCHANGED <<armed, bp_filter, wp_filter, generation, front, watch_hit, runner, cache, owed, slipped>>

\* is_break, is_watched and next_break_at_or_after answer at once where the
\* filter rules the address out, and wait for the lock where it does not.
CanAnswer(filter, a) == front = "idle" \/ ~(BloomBits[a] \subseteq filter)
is_break(a) == BloomBits[a] \subseteq bp_filter /\ a \in armed.breaks
is_watched(w) == w # NoWord /\ BloomBits[w] \subseteq wp_filter /\ w \in armed.watches
any_watchpoints == wp_filter # {}

\* What the runner must find: a change under way may be seen or not.
Published == IF front = "idle" THEN armed ELSE StillArmed(armed)

(***************************************************************************)
(* The head of the run loop.                                               *)
(***************************************************************************)
Runner(stage) == runner.stage = stage
Unmoved == UNCHANGED <<armed, bp_filter, wp_filter, generation, front, slipped>>

Halts == /\ runner' = [runner EXCEPT !.stage = "stopped", !.stopped = TRUE]
         /\ owed' = Published

GoesOn(stepping) == /\ runner' = [runner EXCEPT !.stage = IF stepping THEN "step" ELSE "enter",
                                              !.stepping = IF stepping THEN "asked" ELSE "no",
                                              !.seen = IF StaleLoads THEN bp_filter ELSE {}]
                  /\ owed' = Published

\* debug_pending_stop, then take_request, then the address.
HeadPending ==
    /\ Runner("head")
    /\ watch_hit # NoWord \/ runner.stepping = "done"
    /\ watch_hit' = NoWord
    /\ Halts
    /\ Unmoved /\ UNCHANGED <<stop_request, cache>>

HeadLooks ==
    /\ Runner("head")
    /\ watch_hit = NoWord /\ runner.stepping # "done"
    /\ stop_request # "Pause" => CanAnswer(bp_filter, runner.rip)
    /\ stop_request' = "Run"
    /\ IF stop_request = "Pause" \/ is_break(runner.rip) THEN Halts
       ELSE GoesOn(stop_request = "Step" \/ runner.stepping = "asked")
    /\ Unmoved /\ UNCHANGED <<watch_hit, cache>>

(***************************************************************************)
(* debug_serve: commands are served in the runner's thread, one at a time. *)
(***************************************************************************)
ServeArms(sets) ==
    /\ Runner("stopped")
    /\ front = "idle"
    /\ sets # armed
    /\ generation < MaxArms
    /\ armed' = sets
    /\ bp_filter' = Filter(sets.breaks)
    /\ wp_filter' = Filter(sets.watches)
    /\ generation' = generation + 1
    /\ owed' = sets
    /\ UNCHANGED <<front, stop_request, watch_hit, runner, cache, slipped>>

\* A read of guest memory goes the way of the guest's own reads.
ServeReads(w) ==
    /\ Runner("stopped")
    /\ CanAnswer(wp_filter, w)
    /\ is_watched(w)
    /\ watch_hit' = w
    /\ Unmoved /\ UNCHANGED <<stop_request, runner, cache, owed>>

ServeGoes(stepping) ==
    /\ Runner("stopped")
    /\ GoesOn(stepping)
    /\ Unmoved /\ UNCHANGED <<stop_request, watch_hit, cache>>

\* debug_disarm_all takes the addresses one by one, each with a generation; the
\* loop stops for nobody from then on.
ServeDetach ==
    LET n == Cardinality(armed.breaks) + Cardinality(armed.watches) IN
    /\ Runner("stopped")
    /\ front = "idle"
    /\ generation + n <= MaxArms
    /\ armed' = NoArms
    /\ bp_filter' = {} /\ wp_filter' = {}
    /\ generation' = generation + n
    /\ stop_request' = "Run"
    /\ owed' = NoArms
    /\ runner' = [runner EXCEPT !.stage = "detached"]
    /\ UNCHANGED <<front, watch_hit, cache, slipped>>

ServeKill ==
    /\ Runner("stopped")
    /\ runner' = [runner EXCEPT !.stage = "killed"]
    /\ Unmoved /\ UNCHANGED <<stop_request, watch_hit, cache, owed>>

(***************************************************************************)
(* Compiled code: Jit::run.                                                *)
(***************************************************************************)

\* The helpers that refuse watched accesses are chosen once for the chain.
EnterChain ==
    /\ Runner("enter")
    /\ runner' = [runner EXCEPT !.stage = "check", !.retired = 0, !.watched = any_watchpoints]
    /\ owed' = [owed EXCEPT !.watches = Published.watches]
    /\ Unmoved /\ UNCHANGED <<stop_request, watch_hit, cache>>

\* Jit::run returns, and its locals are gone.
Back(r, stage) == [r EXCEPT !.stage = stage, !.retired = 0, !.watched = FALSE, !.block = 0]

Flushed == [ends |-> NoBlocks, open |-> {}, links |-> {}, generation |-> generation]

\* The instruction a chain begins with was looked at by the head.
LooksAgain == owed' = [owed EXCEPT !.breaks = IF runner.retired > 0 THEN Published.breaks
                                              ELSE Published.breaks \ ({runner.rip} \ @)]

debug_generation_check_KeepsBlocks ==
    /\ Runner("check")
    /\ runner' = [runner EXCEPT !.stage = "block_at"]
    /\ cache' = [cache EXCEPT !.generation = generation]
    /\ LooksAgain
    /\ Unmoved /\ UNCHANGED <<stop_request, watch_hit>>

debug_generation_check ==
    /\ Runner("check")
    /\ runner' = [runner EXCEPT !.stage = "block_at",
                                !.pending = IF generation = cache.generation THEN @ ELSE NoLink]
    /\ cache' = IF generation = cache.generation THEN cache ELSE Flushed
    /\ LooksAgain
    /\ Unmoved /\ UNCHANGED <<stop_request, watch_hit>>

\* Compiler::compile: a block ends at the next armed address, before what is
\* not compiled, behind a jump, or when it is full; its exit links only when it
\* is full and behind a jump.
next_break_at_or_after(a, filter) ==
    IF filter = {} THEN {} ELSE {b \in armed.breaks : b >= a}
Ends(start, breaks) ==
    Min({a \in start .. Len(Text) + 1 :
            \/ breaks # {} /\ a = Min(breaks)
            \/ a > Len(Text) \/ Text[a].kind = "other"
            \/ a = start + BlockMax
            \/ a > start /\ Text[a - 1].kind \in {"jmp", "jcc"}})
Links(start, end) == Text[end - 1].kind \in {"jmp", "jcc"} \/ end = start + BlockMax

Compiled(start, breaks) ==
    LET end == Ends(start, breaks) IN
    [cache EXCEPT !.ends = [a \in DOMAIN @ \cup {start} |-> IF a = start THEN end ELSE @[a]],
                  !.open = IF end # start /\ Links(start, end) THEN @ \cup {start} ELSE @]

\* block_at, and what Jit::run makes of the block it finds: the exit the chain
\* came by is linked to it, and one that exceeds the budget is not begun.
EntersBlock(found) ==
    LET rip == runner.rip
        insns == found.ends[rip] - rip
        came == runner.pending # NoLink /\ runner.pending[2] = rip IN
    /\ cache' = IF came /\ insns # 0 THEN [found EXCEPT !.links = @ \cup {runner.pending}] ELSE found
    /\ LET r == [runner EXCEPT !.pending = NoLink] IN
       runner' = IF insns = 0 /\ r.retired > 0 THEN [r EXCEPT !.stage = "declined"]
                 ELSE IF insns = 0 \/ r.retired + insns > BudgetMax THEN Back(r, "step")
                 ELSE [r EXCEPT !.stage = "block", !.block = rip]
    /\ Unmoved /\ UNCHANGED <<stop_request, watch_hit, owed>>

block_at ==
    /\ Runner("block_at")
    /\ \/ runner.rip \in DOMAIN cache.ends /\ EntersBlock(cache)
       \/ /\ runner.rip \notin DOMAIN cache.ends
          /\ \E filter \in {bp_filter} \cup (IF StaleLoads THEN {runner.seen} ELSE {}) :
                /\ filter # {} => front = "idle"
                /\ EntersBlock(Compiled(runner.rip, next_break_at_or_after(runner.rip, filter)))

\* An address without code in the middle of a chain: an armed one goes back to
\* the head, any other is the interpreter's.
Declined ==
    /\ Runner("declined")
    /\ CanAnswer(bp_filter, runner.rip)
    /\ runner' = Back(runner, IF is_break(runner.rip) THEN "head" ELSE "step")
    /\ Unmoved /\ UNCHANGED <<stop_request, watch_hit, cache, owed>>

(***************************************************************************)
(* Instructions.                                                           *)
(***************************************************************************)
\* The guest gets past an address, or past a word, that it should stop at.
Passes(noted) ==
    slipped' = (\/ slipped
                \/ runner.rip \in owed.breaks /\ ~runner.stopped
                \/ Text[runner.rip].word \in owed.watches /\ ~noted)

Retires == [runner EXCEPT !.stopped = FALSE,
                           !.stepping = IF @ = "asked" THEN "done" ELSE @]

\* A store or a load through the table of host pages, which is off while
\* anything is watched, passes the memory's own look at the watchpoints.
Access(refuses, fast) ==
    LET w == Text[runner.rip].word IN
    /\ w # NoWord /\ ~fast => CanAnswer(wp_filter, w)
    /\ ~(refuses /\ is_watched(w))
    /\ watch_hit' = IF ~fast /\ is_watched(w) THEN w ELSE watch_hit
    /\ Passes(~fast)

\* Cpu::step.
StepsInterpreted ==
    /\ Runner("step")
    /\ Access(FALSE, FALSE)
    /\ \E rip \in NextRips(runner.rip) : runner' = [Retires EXCEPT !.stage = "head", !.rip = rip]
    /\ UNCHANGED <<armed, bp_filter, wp_filter, generation, front, stop_request, cache, owed>>

Longest == Max({cache.ends[a] - a : a \in DOMAIN cache.ends})

\* The last instruction of a block goes on with the block its exit is linked
\* to, while the longest one still fits, and else hands back to the engine.
Left(rip, retired) ==
    LET exit == <<runner.block, rip>> IN
    IF exit \in cache.links /\ retired + Longest <= BudgetMax
    THEN [Retires EXCEPT !.block = rip, !.rip = rip, !.retired = retired]
    ELSE LET r == [Retires EXCEPT !.rip = rip, !.pending = IF runner.block \in cache.open THEN exit
                                                           ELSE NoLink] IN
         IF retired >= BudgetMax THEN Back(r, "head")
         ELSE [r EXCEPT !.stage = "check", !.block = 0, !.retired = retired]

RunsCompiled ==
    /\ Runner("block")
    /\ \E fast \in BOOLEAN :
          /\ fast => ~runner.watched /\ Text[runner.rip].word # NoWord
          /\ Access(runner.watched, fast)
    /\ LET retired == runner.retired + 1 IN
       \E rip \in NextRips(runner.rip) :
          runner' = IF runner.rip + 1 = cache.ends[runner.block] THEN Left(rip, retired)
                    ELSE [Retires EXCEPT !.rip = rip, !.retired = retired]
    /\ UNCHANGED <<armed, bp_filter, wp_filter, generation, front, stop_request, cache, owed>>

\* A watched access is refused before anything changed: the interpreter does it.
Refuses ==
    LET w == Text[runner.rip].word IN
    /\ Runner("block")
    /\ runner.watched /\ w # NoWord
    /\ CanAnswer(wp_filter, w) /\ is_watched(w)
    /\ runner' = Back(runner, "step")
    /\ Unmoved /\ UNCHANGED <<stop_request, watch_hit, cache, owed>>

DbgNext ==
    \/ StoresBreaks \/ StoresWatches \/ Publishes
    \/ \E r \in {"Pause", "Step"} : Requests(r)
    \/ \E sets \in Changes : mutate(sets) \/ ServeArms(sets)
    \/ \E w \in Words : ServeReads(w)
    \/ \E stepping \in BOOLEAN : ServeGoes(stepping)
    \/ HeadPending \/ HeadLooks \/ ServeDetach \/ ServeKill
    \/ EnterChain \/ debug_generation_check \/ block_at \/ Declined
    \/ StepsInterpreted \/ RunsCompiled \/ Refuses

DbgSpec == DbgInit /\ [][DbgNext]_dbgVars

(***************************************************************************)
(* What the debugger may rely on.                                          *)
(***************************************************************************)

\* Whatever the front end's thread does meanwhile, the guest never gets past an
\* address, and never uses a word, that was armed for good when the runner last
\* looked: at the head of its loop, at the start of a chain for words, and
\* where the chain comes back to the engine for addresses.  Blocks compiled,
\* links made and helpers chosen before stand in no armed address's way.
NeverRunsPast == ~slipped
=============================================================================
