------------------------------ MODULE Unwinder ------------------------------
(***************************************************************************)
(* The x64 unwinder (core/src/unwind.rs) over the unwind data the loader   *)
(* decodes (loader/src/unwind.rs), beside a guest that executes the code   *)
(* the data describes: calls, prologues, epilogues, and interrupts that    *)
(* push a machine frame at any instruction.                                *)
(*                                                                         *)
(* An instruction is one address long, a stack slot is eight bytes and one *)
(* address; a 16-byte register is kept as one slot of its two.  callers is *)
(* history: what the code below each frame will find when it goes on.      *)
(***************************************************************************)
EXTENDS Integers, Sequences, FiniteSetsExt, SequencesExt

CONSTANTS UnwindPrograms,  \* [code : Seq(instructions), records : Seq(RUNTIME_FUNCTION)]
          StackSlots,      \* slots of the stack
          MaxInterrupts    \* interrupts in a run (a bound of the model)

VARIABLES program, function_table, ctx, stack, callers, interrupts

unwVars == <<program, function_table, ctx, stack, callers, interrupts>>

Gprs == {3, 5, 7}
Xmms == {6}
Clobbered == 0

(***************************************************************************)
(* parse_unwind_info: a slot is [off, op, info]; the slots that follow one *)
(* hold its operand in raw.                                                *)
(***************************************************************************)
SlotsUsed(s) == CASE s.op = 1 -> IF s.info = 0 THEN 2 ELSE 3
                  [] s.op \in {4, 8} -> 2
                  [] s.op \in {5, 9} -> 3
                  [] OTHER -> 1

\* Sizes and offsets in slots of the stack.
Long(slots, i) == (slots[i].raw + 65536 * slots[i + 1].raw) \div 8
Decoded(slots, i) ==
    LET s == slots[i]
        Is(op, reg, n) == [off |-> s.off, op |-> op, reg |-> reg, n |-> n] IN
    CASE s.op = 0  -> Is("push", s.info, 0)
      [] s.op = 1  -> Is("alloc", 0, IF s.info = 0 THEN slots[i + 1].raw ELSE Long(slots, i + 1))
      [] s.op = 2  -> Is("alloc", 0, s.info + 1)
      [] s.op = 3  -> Is("set_frame", 0, 0)
      [] s.op = 4  -> Is("save", s.info, slots[i + 1].raw)
      [] s.op = 5  -> Is("save", s.info, Long(slots, i + 1))
      [] s.op = 8  -> Is("save_xmm", s.info, 2 * slots[i + 1].raw)
      [] s.op = 9  -> Is("save_xmm", s.info, Long(slots, i + 1))
      [] s.op = 10 -> Is("machine_frame", 0, IF s.info = 1 THEN 1 ELSE 0)

Codes(slots) ==
    LET From[i \in Nat] == IF i > Len(slots) THEN <<>>
                           ELSE <<Decoded(slots, i)>> \o From[i + SlotsUsed(slots[i])]
    IN From[1]

NoRegister == 0
parse_unwind_info(r) ==
    [codes |-> Codes(r.slots), frame_register |-> r.frame % 16, frame_offset |-> 2 * (r.frame \div 16)]

\* The parents of a fragment, innermost first, are parsed with it.
parse_runtime_function(r) ==
    [begin |-> r.begin, end |-> r.end,
     levels |-> [i \in 1 .. Len(r.chained) + 1 |-> parse_unwind_info((<<r>> \o r.chained)[i])]]

parse_function_table(records) ==
    SortSeq([i \in DOMAIN records |-> parse_runtime_function(records[i])],
            LAMBDA a, b : a.begin < b.begin)

(***************************************************************************)
(* virtual_unwind_typed.                                                   *)
(***************************************************************************)
NoEntry == 0
lookup(table, rip) ==
    LET last == Max({NoEntry} \cup {i \in DOMAIN table : table[i].begin <= rip}) IN
    IF last # NoEntry /\ rip < table[last].end THEN last ELSE NoEntry

pop_return_address(c) == [c EXCEPT !.rip = stack[c.rsp], !.rsp = @ + 1]
Popped(c, reg) == [c EXCEPT !.gpr[reg] = stack[c.rsp], !.rsp = @ + 1]

\* An add to rsp or a lea into it, pops, and a way out of the entry's range.
try_simulate_epilog(e, c) ==
    LET code == program.code
        first == code[c.rip]
        moves == first.op \in {"add", "lea"}
        pops == IF moves THEN c.rip + 1 ELSE c.rip
        last == Min({pc \in pops .. Len(code) : code[pc].op # "pop"})
        leaves == \/ code[last].op \in {"ret", "jmp_reg"}
                  \/ code[last].op = "jmp" /\ ~(code[last].to \in e.begin .. e.end - 1)
        moved == CASE first.op = "add" -> [c EXCEPT !.rsp = @ + first.n]
                   [] first.op = "lea" -> [c EXCEPT !.rsp = c.gpr[first.reg] + first.n]
                   [] OTHER -> c
        popped == FoldLeft(LAMBDA d, i : Popped(d, i.reg), moved, SubSeq(code, pops, last - 1)) IN
    [simulated |-> leaves, ctx |-> pop_return_address(popped)]

Applies_EarlyBy1(code, offset) == code.off < offset
Applies(code, offset) == code.off <= offset

\* One code of a level, whose frame was computed before its first one.
Undone(c, code, frame) ==
    CASE code.op = "push"      -> Popped(c, code.reg)
      [] code.op = "alloc"     -> [c EXCEPT !.rsp = @ + code.n]
      [] code.op = "set_frame" -> [c EXCEPT !.rsp = frame]
      [] code.op = "save"      -> [c EXCEPT !.gpr[code.reg] = stack[frame + code.n]]
      [] code.op = "save_xmm"  -> [c EXCEPT !.xmm[code.reg] = stack[frame + code.n]]
      [] code.op = "machine_frame" ->
            [c EXCEPT !.rip = stack[c.rsp + code.n], !.rsp = stack[c.rsp + code.n + 3],
                      !.machine = TRUE]

FrameOf(info, c) == IF info.frame_register = NoRegister THEN c.rsp
                    ELSE c.gpr[info.frame_register] - info.frame_offset

Level(c, info, offset) ==
    LET frame == FrameOf(info, c) IN
    FoldLeft(LAMBDA d, code : IF Applies(code, offset) THEN Undone(d, code, frame) ELSE d, c, info.codes)

\* The codes of a chained parent apply in full.
Whole == 255
virtual_unwind_typed(table, c) ==
    LET at == lookup(table, c.rip) IN
    IF at = NoEntry THEN [ctx |-> pop_return_address(c), frame |-> c.rsp + 1, in_body |-> FALSE]
    ELSE LET e == table[at]
             epilog == try_simulate_epilog(e, c)
             own == Level([c EXCEPT !.machine = FALSE], Head(e.levels), c.rip - e.begin)
             undone == FoldLeft(LAMBDA d, parent : Level(d, parent, Whole), own, Tail(e.levels))
         IN IF epilog.simulated
            THEN [ctx |-> epilog.ctx, frame |-> epilog.ctx.rsp, in_body |-> FALSE]
            ELSE [ctx |-> IF undone.machine THEN undone ELSE pop_return_address(undone),
                  frame |-> FrameOf(Head(e.levels), c), in_body |-> TRUE]

(***************************************************************************)
(* The guest.                                                              *)
(***************************************************************************)
UnwindInit ==
    /\ program \in UnwindPrograms
    /\ function_table = parse_function_table(program.records)
    /\ ctx = [rip |-> 1, rsp |-> StackSlots, gpr |-> [r \in Gprs |-> r], xmm |-> [x \in Xmms |-> x],
              machine |-> FALSE]
    /\ stack = [a \in 1 .. StackSlots |-> Clobbered]
    /\ callers = <<>>
    /\ interrupts = 0

Instruction_ == program.code[ctx.rip]
Is(op) == Instruction_.op = op
Moves(c) == ctx' = [c EXCEPT !.rip = @ + 1]
Kept == UNCHANGED <<program, function_table, interrupts>>
OnStack(a) == a \in 1 .. StackSlots

\* A call remembers what its caller will see after it: the way back, the stack
\* pointer, and the registers that a callee must keep.
Called(back) == [rip |-> back, rsp |-> ctx.rsp, gpr |-> ctx.gpr, xmm |-> ctx.xmm]

Call == /\ Is("call")
        /\ OnStack(ctx.rsp - 1)
        /\ stack' = [stack EXCEPT ![ctx.rsp - 1] = ctx.rip + 1]
        /\ callers' = Append(callers, Called(ctx.rip + 1))
        /\ ctx' = [ctx EXCEPT !.rip = Instruction_.to, !.rsp = @ - 1]
        /\ Kept

Return == /\ Is("ret")
          /\ callers # <<>>
          /\ ctx' = pop_return_address(ctx)
          /\ callers' = Front(callers)
          /\ UNCHANGED stack /\ Kept

\* The processor pushes where it was, on the way into a handler that never
\* returns; the handler's data says whether an error code lies below.
Interrupt ==
    LET h == program.handler
        base == ctx.rsp - 5 IN
    /\ interrupts < MaxInterrupts
    /\ h # 0
    /\ OnStack(base - 1)
    /\ interrupts' = interrupts + 1
    /\ stack' = [stack EXCEPT ![base] = ctx.rip, ![base + 3] = ctx.rsp]
    /\ callers' = Append(callers, Called(ctx.rip))
    /\ ctx' = [ctx EXCEPT !.rip = h, !.rsp = IF program.error_code THEN base - 1 ELSE base]
    /\ UNCHANGED <<program, function_table>>

Push == /\ Is("push")
        /\ OnStack(ctx.rsp - 1)
        /\ stack' = [stack EXCEPT ![ctx.rsp - 1] = ctx.gpr[Instruction_.reg]]
        /\ Moves([ctx EXCEPT !.rsp = @ - 1])
        /\ UNCHANGED callers /\ Kept

Sub == /\ Is("sub")
       /\ OnStack(ctx.rsp - Instruction_.n)
       /\ Moves([ctx EXCEPT !.rsp = @ - Instruction_.n])
       /\ UNCHANGED <<stack, callers>> /\ Kept

Save == /\ Instruction_.op \in {"save", "save_xmm"}
        /\ stack' = [stack EXCEPT ![ctx.rsp + Instruction_.n] =
                        IF Is("save") THEN ctx.gpr[Instruction_.reg] ELSE ctx.xmm[Instruction_.reg]]
        /\ Moves(ctx)
        /\ UNCHANGED callers /\ Kept

\* Everything that changes registers alone.
Changed ==
    LET i == Instruction_ IN
    CASE i.op = "frame"    -> [ctx EXCEPT !.gpr[i.reg] = ctx.rsp + i.n]
      [] i.op = "work"     -> [ctx EXCEPT !.gpr[i.reg] = Clobbered]
      [] i.op = "work_xmm" -> [ctx EXCEPT !.xmm[i.reg] = Clobbered]
      [] i.op = "load"     -> [ctx EXCEPT !.gpr[i.reg] = stack[ctx.rsp + i.n]]
      [] i.op = "load_xmm" -> [ctx EXCEPT !.xmm[i.reg] = stack[ctx.rsp + i.n]]
      [] i.op = "add"      -> [ctx EXCEPT !.rsp = @ + i.n]
      [] i.op = "lea"      -> [ctx EXCEPT !.rsp = ctx.gpr[i.reg] + i.n]
      [] i.op = "pop"      -> Popped(ctx, i.reg)
      [] OTHER             -> ctx

Calculate == /\ ~(Instruction_.op \in {"call", "ret", "push", "sub", "save", "save_xmm", "jmp", "stop"})
           /\ Moves(Changed)
           /\ UNCHANGED <<stack, callers>> /\ Kept

Branch == /\ Instruction_.op \in {"jmp", "jcc"}
        /\ ctx' = [ctx EXCEPT !.rip = Instruction_.to]
        /\ UNCHANGED <<stack, callers>> /\ Kept

UnwindNext == Call \/ Return \/ Interrupt \/ Push \/ Sub \/ Save \/ Calculate \/ Branch

(***************************************************************************)
(* What unwinding promises.                                                *)
(***************************************************************************)

\* What the codes of an entry and its parents have put on the stack, once the
\* prologue is done.
Size(e) ==
    LET all == FoldLeft(LAMBDA cs, info : cs \o info.codes, <<>>, e.levels) IN
    FoldLeft(LAMBDA n, c : CASE c.op = "push" -> n + 1 [] c.op = "alloc" -> n + c.n [] OTHER -> n, 0, all)
PrologueDone(e, rip) ==
    \A i \in DOMAIN Head(e.levels).codes : LET code == Head(e.levels).codes[i] IN
        code.op # "machine_frame" /\ Applies(code, rip - e.begin)

\* Stopped at any instruction of any function, in its prologue, body, fragment,
\* epilogue or on the way out to a tail call, and below any interrupt, the walk
\* finds every caller in turn with the stack pointer and the registers that the
\* caller will find when the calls return; and a handler is offered one frame,
\* wherever the body was left and however far the stack has grown.
UnwindFindsCallers ==
    LET depth == Len(callers)
        Walk[n \in 0 .. depth] ==
            IF n = 0 THEN [ctx |-> ctx] ELSE virtual_unwind_typed(function_table, Walk[n - 1].ctx)
    IN \A n \in 1 .. depth : LET c == callers[depth + 1 - n]
                                 w == Walk[n].ctx
                                 rip == Walk[n - 1].ctx.rip
                                 e == function_table[lookup(function_table, rip)] IN
          /\ w.rip = c.rip /\ w.rsp = c.rsp /\ w.gpr = c.gpr /\ w.xmm = c.xmm
          /\ Walk[n].in_body /\ PrologueDone(e, rip) => Walk[n].frame = c.rsp - 1 - Size(e)
=============================================================================
