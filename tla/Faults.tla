------------------------------- MODULE Faults -------------------------------
(* Hardware exceptions and how exact they are: an instruction of the          *)
(* interpreter (crates/cpu) stops at the access that faults; the run loop     *)
(* writes the registers below the guest's stack pointer and enters the        *)
(* guest's dispatcher (app/src/process/exception.rs, os/src/exc.rs); the      *)
(* handler makes the memory accessible and NtContinue starts the instruction  *)
(* again.  Values are uninterpreted: what an instruction computes is the term *)
(* of its name and its operands, so that two values are equal only when they  *)
(* are whatever the instruction computes.  Only pointers are numbers.         *)
EXTENDS Integers, Sequences, TLC
LOCAL INSTANCE SequencesExt

CONSTANTS
    Forms,                       \* the instructions of a run
    UnsavedUse,                  \* registers no CONTEXT carries that handlers change
    MAX_EXC_DEPTH, MAX_IDENTICAL_DELIVERIES, MAX_CHAIN_DELIVERIES,
    MaxContexts                  \* bound on nested handlers

VARIABLES
    insn,        \* the instruction at the program counter
    before,      \* registers and memory when it was first started
    gpr, mem,    \* the registers and the guest's memory
    rights,      \* of each region: "r" and "w"
    contexts,    \* the addresses of the CONTEXTs the guest's handlers hold
    exc_chain, exc_depth,
    run_state    \* "running"; or "fault", "unhandled": the run has ended

faultVars == <<insn, before, gpr, mem, rights, contexts, exc_chain, exc_depth, run_state>>

-----------------------------------------------------------------------------
(* Memory: cells of eight bytes in three regions; an access lies in one      *)
(* region, which must allow it.                                              *)

HighEnd == 6
Cells == -4 .. HighEnd
RegionOfCell(a) == CASE a \in -4 .. -1 -> "low" [] a \in 0 .. 1 -> "mid"
                 [] a \in 2 .. HighEnd -> "high" [] OTHER -> "unmapped"
Allows(rs, a, n, right) ==
    LET region == RegionOfCell(a)
    IN  region # "unmapped" /\ RegionOfCell(a + n - 1) = region /\ right \in rs[region]
AllRights == [region \in {"low", "mid", "high"} |-> {"r", "w"}]

(* One step of an instruction, in the order the code takes them.  ea is the  *)
(* register that addresses the operand, reg the other operand; imm and end   *)
(* are an immediate and the next instruction's address, none and zero the    *)
(* pointer 0 and the value 0; t, u, v and w are the function's locals.       *)
Load(to, base, off) == [do |-> "load", to |-> to, base |-> base, off |-> off, cells |-> 1, cond |-> "always"]
LoadN(n, to) == [Load(to, "ea", 0) EXCEPT !.cells = n]
Store(base, off, of) == [do |-> "store", of |-> of, base |-> base, off |-> off, cells |-> 1, cond |-> "always"]
StoreN(n, of) == [Store("ea", 0, of) EXCEPT !.cells = n]
Let(to, name, of) == [do |-> "let", to |-> to, name |-> name, of |-> of, cond |-> "always"]
Copy(to, of) == [do |-> "copy", to |-> to, of |-> of, cond |-> "always"]
Move(reg, by) == [do |-> "move", to |-> reg, by |-> by, cond |-> "always"]
Traps(n) == [do |-> "interrupt", n |-> n, cond |-> "always"]
EndsRepeat(rep) == [do |-> "ends", rep |-> rep, cond |-> "always"]
When(cond, op) == [op EXCEPT !.cond = cond]

AtCode(n) == <<"code", n>>      \* n bytes after the start of the instruction
Locals == [t |-> <<>>, u |-> <<>>, v |-> <<>>, w |-> <<>>]

(* The last comparison found its operands equal, so set ZF.                  *)
ZeroFlag(m) == m.gpr.flags[2] = m.gpr.flags[3]

Reads(m, op, rs) ==
    LET a == m.gpr[op.base] + op.off
    IN  IF Allows(rs, a, op.cells, "r")
        THEN [m EXCEPT !.gpr[op.to] = IF op.cells = 1 THEN m.mem[a]
                                      ELSE <<"cells">> \o [i \in 1 .. op.cells |-> m.mem[a + i - 1]]]
        ELSE [m EXCEPT !.stop = <<"access", a>>]
Writes(m, op, rs) ==
    LET a == m.gpr[op.base] + op.off
        v == m.gpr[op.of]
    IN  IF ~Allows(rs, a, op.cells, "w") THEN [m EXCEPT !.stop = <<"access", a>>]
        ELSE IF op.cells = 1 THEN [m EXCEPT !.mem[a] = v]
        ELSE [m EXCEPT !.mem = [c \in Cells |-> IF c \in a .. a + op.cells - 1
                                                THEN <<"part", c - a, v>> ELSE m.mem[c]]]

Holds(m, cond) ==
    CASE cond = "always" -> TRUE
      [] cond = "equal" -> ZeroFlag(m)
      [] cond = "differ" -> ~ZeroFlag(m)
      [] cond = "left" -> m.gpr.rcx # 0
      [] cond = "unaligned" -> m.gpr.ea % 2 # 0

(* rep_string_break: one iteration less, and none if the comparison ends it. *)
rep_string_break(m, rep) ==
    LET c == m.gpr.rcx - 1
        ends == c = 0 \/ (rep = "repe" /\ ~ZeroFlag(m)) \/ (rep = "repne" /\ ZeroFlag(m))
    IN  [m EXCEPT !.gpr.rcx = c, !.stop = IF ends THEN <<"end">> ELSE <<>>]

Performed(rs, m, op) ==
    IF m.stop # <<>> \/ ~Holds(m, op.cond) THEN m
    ELSE CASE op.do = "load" -> Reads(m, op, rs)
           [] op.do = "store" -> Writes(m, op, rs)
           [] op.do = "let" ->
                [m EXCEPT !.gpr[op.to] = <<op.name>> \o [i \in DOMAIN op.of |-> m.gpr[op.of[i]]]]
           [] op.do = "copy" -> [m EXCEPT !.gpr[op.to] = m.gpr[op.of]]
           [] op.do = "move" -> [m EXCEPT !.gpr[op.to] = @ + op.by]
           [] op.do = "ends" -> rep_string_break(m, op.rep)
           [] op.do = "interrupt" -> [m EXCEPT !.stop = <<"interrupt", op.n>>]

-----------------------------------------------------------------------------
(* The instructions, by the function and the opcodes of its arms: one for    *)
(* each order in which the arms read and write registers, flags and memory.  *)

Flags(name, of) == <<Let("cf", name, of), Let("flags", name, of)>>
(* A subtraction; ZF is set when its operands are equal.                     *)
Subtracts(of) == <<Let("cf", "sub", of), Let("flags", "sub", of)>>
(* adc, sbb and the rotations through carry read CF and write it.            *)
WithCarry(name) ==
    <<Load("t", "ea", 0), Let("u", name, <<"t", "reg", "cf">>), Let("cf", name, <<"t", "reg", "cf">>),
      Copy("t", "u"), Store("ea", 0, "t")>>

push_stack(of) == <<Move("rsp", -1), Store("rsp", 0, of)>>
pop_stack(to) == <<Load(to, "rsp", 0), Move("rsp", 1)>>

Stack_50_6B ==
    [push |-> push_stack("reg"), pop |-> pop_stack("reg"),
     pusha |-> <<Let("t", "esp", <<"rsp">>)>> \o push_stack("rax") \o push_stack("t") \o push_stack("reg"),
     popa |-> pop_stack("reg") \o pop_stack("t") \o pop_stack("rax"),
     movsxd |-> <<Load("t", "ea", 0), Let("reg", "sext", <<"t">>)>>,
     imul_imm |-> <<Load("t", "ea", 0)>> \o Flags("imul", <<"t">>) \o <<Let("reg", "imul", <<"t">>)>>]

exchange_RegisterFirst ==
    <<Load("t", "ea", 0), Copy("u", "reg"), Copy("reg", "t"), Store("ea", 0, "u")>>
exchange == <<Load("t", "ea", 0), Store("ea", 0, "reg"), Copy("reg", "t")>>
Group1_80_8F ==
    [add_imm |-> <<Load("t", "ea", 0)>> \o Flags("add", <<"t">>) \o <<Let("t", "add", <<"t">>), Store("ea", 0, "t")>>,
     cmp_imm |-> <<Load("t", "ea", 0)>> \o Subtracts(<<"t", "imm">>),
     test |-> <<Load("t", "ea", 0)>> \o Flags("and", <<"t", "reg">>),
     xchg |-> exchange,
     mov_store |-> <<Store("ea", 0, "reg")>>, mov_load |-> <<Load("reg", "ea", 0)>>,
     mov_to_segment |-> <<Load("t", "ea", 0)>>,
     pop_mem |-> pop_stack("t") \o <<Store("ea", 0, "t")>>]
Moffs_9C_A3 ==
    [pushf |-> <<Let("t", "rflags", <<"cf", "flags">>)>> \o push_stack("t"),
     popf |-> pop_stack("t") \o Flags("popf", <<"t">>),
     mov_rax_moffs |-> <<Load("t", "ea", 0), Copy("rax", "t")>>,
     mov_moffs_rax |-> <<Store("ea", 0, "rax")>>]

ShiftsAndReturns_C0_CF ==
    [shl |-> <<Load("t", "ea", 0)>> \o Flags("shl", <<"t", "rcx">>) \o <<Let("t", "shl", <<"t", "rcx">>), Store("ea", 0, "t")>>,
     rcl |-> WithCarry("rcl"),
     ret |-> pop_stack("rip"), ret_imm |-> pop_stack("rip") \o <<Move("rsp", 1)>>,
     mov_imm |-> <<Store("ea", 0, "imm")>>,
     leave |-> <<Copy("rsp", "rbp")>> \o pop_stack("rbp"),
     int3 |-> <<Traps(3)>>,
     int_imm |-> <<Copy("rip", "end"), Traps(3)>>,
     \* The frame's stack pointer is the one above it.
     iret |-> <<Load("t", "rsp", 0), Load("v", "rsp", 1), Load("u", "rsp", 2), Load("v", "rsp", 3)>>
              \o Flags("popf", <<"u">>) \o <<Move("rsp", 4), Copy("rip", "t")>>]

CallsAndGroups_E8_FF ==
    [call |-> push_stack("end") \o <<Copy("rip", "imm")>>,
     test_imm |-> <<Load("t", "ea", 0)>> \o Flags("and", <<"t", "imm">>),
     not |-> <<Load("t", "ea", 0), Let("t", "not", <<"t">>), Store("ea", 0, "t")>>,
     neg |-> <<Load("t", "ea", 0)>> \o Flags("neg", <<"t">>) \o <<Let("t", "neg", <<"t">>), Store("ea", 0, "t")>>,
     inc |-> <<Load("t", "ea", 0), Let("flags", "inc", <<"t">>), Let("t", "inc", <<"t">>), Store("ea", 0, "t")>>,
     call_mem |-> <<Load("t", "ea", 0)>> \o push_stack("end") \o <<Copy("rip", "t")>>,
     jmp_mem |-> <<Load("rip", "ea", 0)>>,
     jmp_far |-> <<Load("t", "ea", 0), Load("u", "ea", 1), Copy("rip", "t")>>,
     push_mem |-> <<Load("t", "ea", 0)>> \o push_stack("t")]

alu_regular ==
    [add |-> <<Load("t", "ea", 0)>> \o Flags("add", <<"t", "reg">>) \o <<Let("t", "add", <<"t", "reg">>), Store("ea", 0, "t")>>,
     adc |-> WithCarry("adc"),
     adc_load |-> <<Load("t", "ea", 0), Let("u", "adc", <<"reg", "t", "cf">>), Let("cf", "adc", <<"reg", "t", "cf">>),
                    Copy("reg", "u")>>,
     sub_load |-> <<Load("t", "ea", 0)>> \o Subtracts(<<"reg", "t">>) \o <<Let("reg", "sub", <<"reg", "t">>)>>]

mul_op ==
    [mul |-> <<Load("t", "ea", 0), Copy("u", "rax"), Let("rax", "mul", <<"u", "t">>), Let("rdx", "mulhi", <<"u", "t">>)>>
             \o Flags("mul", <<"u", "t">>)]
div_op ==
    [div |-> <<Load("t", "ea", 0), Let("u", "dividend", <<"rdx", "rax">>),
               Let("rax", "div", <<"u", "t">>), Let("rdx", "rem", <<"u", "t">>)>>,
     div_by_zero |-> <<Load("t", "ea", 0), Traps(0)>>]

(* One iteration; rep runs it rcx times, here two, and then clears rcx.      *)
string_stos == <<Store("rdi", 0, "rax"), Move("rdi", 1)>>
string_movs == <<Load("t", "rsi", 0), Store("rdi", 0, "t"), Move("rsi", 1), Move("rdi", 1)>>
string_lods == <<Load("rax", "rsi", 0), Move("rsi", 1)>>
string_scas == <<Load("t", "rdi", 0)>> \o Subtracts(<<"rax", "t">>) \o <<Move("rdi", 1)>>
string_cmps ==
    <<Load("t", "rsi", 0), Load("u", "rdi", 0)>> \o Subtracts(<<"t", "u">>) \o <<Move("rsi", 1), Move("rdi", 1)>>
WhileLeft(one) == [i \in DOMAIN one |-> When("left", one[i])]
Repeated(one) == WhileLeft(one) \o WhileLeft(one) \o <<Copy("rcx", "none")>>
(* scas and cmps count rcx down as they go.                                  *)
Compared(one, rep) ==
    WhileLeft(one) \o <<When("left", EndsRepeat(rep))>> \o WhileLeft(one) \o <<When("left", EndsRepeat(rep))>>
Strings ==
    [stos |-> string_stos, movs |-> string_movs, lods |-> string_lods,
     scas |-> string_scas, cmps |-> string_cmps,
     rep_stos |-> Repeated(string_stos), rep_movs |-> Repeated(string_movs), rep_lods |-> Repeated(string_lods),
     repe_scas |-> Compared(string_scas, "repe"), repne_scas |-> Compared(string_scas, "repne"),
     repe_cmps |-> Compared(string_cmps, "repe")]

bit_op ==
    [bt |-> <<Load("t", "ea", 0), Let("cf", "bit", <<"t", "reg">>)>>,
     bts |-> <<Load("t", "ea", 0), Let("cf", "bit", <<"t", "reg">>), Let("t", "bts", <<"t", "reg">>), Store("ea", 0, "t")>>]

restore_fxsave_area == <<Let("st", "fx", <<"t">>), Let("mxcsr", "fx", <<"t">>), Let("xmm", "fx", <<"t">>)>>
Group15_0F_AE ==
    [ldmxcsr |-> <<Load("mxcsr", "ea", 0)>>, stmxcsr |-> <<Store("ea", 0, "mxcsr")>>,
     fxsave |-> <<Let("t", "area", <<"st", "mxcsr", "xmm">>), Store("ea", 0, "t")>>,
     fxrstor |-> <<Load("t", "ea", 0)>> \o restore_fxsave_area,
     \* The header is in the second cell, the upper halves in the third.
     xsave |-> <<Let("t", "area", <<"st", "mxcsr", "xmm">>), Store("ea", 0, "t"), Store("ea", 2, "ymm_hi"),
                 Load("u", "ea", 1), Let("u", "components", <<"u">>), Store("ea", 1, "u")>>,
     xrstor |-> <<Load("t", "ea", 0), Load("u", "ea", 1)>> \o restore_fxsave_area \o <<Load("ymm_hi", "ea", 2)>>]

Arms_0F_40_AD ==
    [cmov |-> <<Load("t", "ea", 0), Let("reg", "cmov", <<"cf", "flags", "t", "reg">>)>>,
     setcc |-> <<Let("t", "setcc", <<"cf", "flags">>), Store("ea", 0, "t")>>,
     imul |-> <<Load("t", "ea", 0)>> \o Flags("imul", <<"reg", "t">>) \o <<Let("reg", "imul", <<"reg", "t">>)>>,
     movzx |-> <<Load("t", "ea", 0), Let("reg", "zext", <<"t">>)>>,
     shld |-> <<Load("t", "ea", 0)>> \o Flags("shld", <<"t", "reg", "rcx">>)
              \o <<Let("t", "shld", <<"t", "reg", "rcx">>), Store("ea", 0, "t")>>]

Arms_0F_B0_C7 ==
    [bsf |-> <<Load("t", "ea", 0), Let("flags", "bsf", <<"t">>), Let("reg", "bsf", <<"reg", "t">>)>>,
     popcnt |-> <<Load("t", "ea", 0), Let("reg", "popcnt", <<"t">>)>> \o Flags("popcnt", <<"t">>),
     xadd |-> <<Load("t", "ea", 0), Let("u", "add", <<"t", "reg">>)>> \o Flags("add", <<"t", "reg">>)
              \o <<Copy("reg", "t"), Store("ea", 0, "u")>>,
     cmpxchg |-> <<Load("t", "ea", 0)>> \o Subtracts(<<"rax", "t">>)
                 \o <<When("equal", Copy("u", "reg")), When("differ", Copy("u", "t")),
                       Copy("rax", "t"), Store("ea", 0, "u")>>,
     \* An operand that is not aligned is refused: both halves lie in a region.
     cmpxchg16b |-> <<When("unaligned", Copy("rip", "end")), When("unaligned", Traps(13)),
                      Load("t", "ea", 0), Load("u", "ea", 1), Let("w", "both", <<"t", "u">>),
                      Let("v", "both", <<"rax", "rdx">>), Let("flags", "zf", <<"v", "w">>),
                      When("equal", Store("ea", 0, "reg")), When("equal", Store("ea", 1, "imm")),
                      When("differ", Copy("rax", "t")), When("differ", Copy("rdx", "u"))>>,
     movbe_load |-> <<Load("t", "ea", 0), Let("reg", "bswap", <<"t">>)>>,
     movbe_store |-> <<Let("t", "bswap", <<"reg">>), Store("ea", 0, "t")>>,
     adcx |-> <<Load("t", "ea", 0), Let("u", "adc", <<"reg", "t", "cf">>), Let("v", "carry", <<"reg", "t", "cf">>),
                Copy("reg", "u"), Copy("cf", "v")>>]

(* The x87 state is one value; a load pushes, a store may pop.               *)
x87_mem_form ==
    [fld |-> <<Load("t", "ea", 0), Let("st", "push", <<"st", "t">>)>>,
     fld_ext |-> <<Load("t", "ea", 0), Load("u", "ea", 1), Let("st", "push", <<"st", "t", "u">>)>>,
     fst |-> <<Let("t", "top", <<"st">>), Store("ea", 0, "t")>>,
     fstp |-> <<Let("t", "top", <<"st">>), Store("ea", 0, "t"), Let("st", "pop", <<"st">>)>>,
     fstp_ext |-> <<Let("t", "low", <<"st">>), Let("u", "high", <<"st">>), Store("ea", 0, "t"), Store("ea", 1, "u"),
                    Let("st", "pop", <<"st">>)>>,
     fldcw |-> <<Load("t", "ea", 0), Let("st", "control", <<"st", "t">>)>>,
     fadd |-> <<Load("t", "ea", 0), Let("st", "add", <<"st", "t">>)>>,
     fcomp |-> <<Load("t", "ea", 0), Let("st", "compare", <<"st", "t">>), Let("st", "pop", <<"st">>)>>]
exec_mmx ==
    [movq_mmx_load |-> <<Load("t", "ea", 0), Let("st", "mmx", <<"st", "t">>)>>,
     movq_mmx_store |-> <<Let("t", "mmx", <<"st">>), Store("ea", 0, "t")>>,
     padd_mmx |-> <<Load("t", "ea", 0), Let("st", "paddmmx", <<"st", "t">>)>>]

(* SSE: sixteen bytes are two cells, also for the scalar operations.         *)
sse_arith == [addsd |-> <<LoadN(2, "t"), Let("xmm", "addsd", <<"xmm", "t">>)>>]
sse_unary == [sqrtsd |-> <<LoadN(2, "t"), Let("xmm", "sqrtsd", <<"xmm", "t">>)>>]
SseMoves_10_5F ==
    [movups_load |-> <<LoadN(2, "xmm")>>, movups_store |-> <<StoreN(2, "xmm")>>,
     movsd_load |-> <<Load("xmm", "ea", 0)>>,
     movlps_load |-> <<Load("t", "ea", 0), Let("xmm", "merge", <<"xmm", "t">>)>>,
     movlps_store |-> <<Let("t", "lane", <<"xmm">>), Store("ea", 0, "t")>>,
     cvtsi2sd |-> <<Load("t", "ea", 0), Let("xmm", "cvt", <<"xmm", "t">>)>>,
     movmskps |-> <<LoadN(2, "t"), Let("reg", "signs", <<"t">>)>>,
     cvttsd2si |-> <<Load("t", "ea", 0), Let("reg", "cvtt", <<"t">>)>>,
     comisd |-> <<Load("t", "ea", 0)>> \o Flags("comis", <<"xmm", "t">>)]
SseIntegers_60_FE ==
    [movd_load |-> <<Load("xmm", "ea", 0)>>,
     movd_store |-> <<Let("t", "lane", <<"xmm">>), Store("ea", 0, "t")>>,
     pextrw |-> <<LoadN(2, "t"), Let("reg", "word", <<"t">>)>>,
     paddb |-> <<LoadN(2, "t"), Let("xmm", "padd", <<"xmm", "t">>)>>,
     pshufd |-> <<LoadN(2, "t"), Let("xmm", "pshuf", <<"t">>)>>]
SseShuffles_C2_F3 ==
    [cmpps |-> <<LoadN(2, "t"), Let("xmm", "cmp", <<"xmm", "t">>)>>,
     pinsrw |-> <<Load("t", "ea", 0), Let("xmm", "insert", <<"xmm", "t">>)>>,
     cmpsd |-> <<Load("t", "ea", 0), Let("xmm", "cmp", <<"xmm", "t">>)>>,
     psrlw |-> <<LoadN(2, "t"), Let("xmm", "psrl", <<"xmm", "t">>)>>,
     psrlw_imm |-> <<LoadN(2, "t"), Let("t", "psrl", <<"t", "imm">>), StoreN(2, "t")>>]
exec_sse_0f38 ==
    [pshufb |-> <<LoadN(2, "t"), Let("xmm", "pshufb", <<"xmm", "t">>)>>,
     ptest |-> <<LoadN(2, "t")>> \o Flags("ptest", <<"xmm", "t">>),
     pmovzx |-> <<Load("t", "ea", 0), Let("xmm", "pmovzx", <<"t">>)>>]
exec_sse_0f3a ==
    [roundps |-> <<LoadN(2, "t"), Let("xmm", "round", <<"xmm", "t">>)>>,
     pextr |-> <<Let("t", "extract", <<"xmm">>), Store("ea", 0, "t")>>,
     pinsr |-> <<Load("t", "ea", 0), Let("xmm", "insert", <<"xmm", "t">>)>>]
crc32 == [crc32 |-> <<Load("t", "ea", 0), Let("reg", "crc", <<"reg", "t">>)>>]
pcmpstr ==
    [pcmpistri |-> <<LoadN(2, "t")>> \o Flags("pcmpstr", <<"xmm", "t">>) \o <<Let("reg", "index", <<"xmm", "t">>)>>]

(* VEX: an operation on 128 bits clears the upper half, one on 256 sets it.  *)
vload_rm(l) == LoadN(IF l THEN 4 ELSE 2, "t")
vstore(l) == IF l THEN <<Let("t", "ymm", <<"xmm", "ymm_hi">>), StoreN(4, "t")>> ELSE <<StoreN(2, "xmm")>>
vdst(l, name, of) ==
    <<Let("u", name, of), Let("xmm", "lane", <<"u">>),
      IF l THEN Let("ymm_hi", "upper lane", <<"u">>) ELSE Copy("ymm_hi", "zero")>>
ymm == <<"xmm", "ymm_hi", "t">>
vex_lane_bin(l) == <<vload_rm(l)>> \o vdst(l, "lanes", ymm)
vex_unary_lane(l) == <<vload_rm(l)>> \o vdst(l, "lane", <<"t">>)
vex_scalar(name, of) == <<Load("t", "ea", 0)>> \o vdst(FALSE, name, of)
vex_ptest(l) == <<vload_rm(l)>> \o Flags("ptest", ymm)

VexMoves ==
    [vmovups_load |-> <<vload_rm(TRUE)>> \o vdst(TRUE, "ymm", <<"t">>), vmovups_store |-> vstore(TRUE),
     vmovdqa_load |-> <<vload_rm(FALSE)>> \o vdst(FALSE, "ymm", <<"t">>), vmovdqa_store |-> vstore(FALSE),
     vmovlps |-> vex_scalar("merge", ymm),
     vmovq_store |-> <<Let("t", "low", <<"xmm">>), Store("ea", 0, "t")>>]
VexArithmetic == [vpaddb |-> vex_lane_bin(TRUE), vpaddb_128 |-> vex_lane_bin(FALSE), vsqrtps |-> vex_unary_lane(TRUE)]
vex_farith == [vaddsd |-> vex_scalar("add", ymm), vaddps |-> vex_lane_bin(TRUE)]
vex_movss_sd == [vmovsd_load |-> vex_scalar("movsd", <<"t">>),
                 vmovsd_store |-> <<Let("t", "low", <<"xmm">>), Store("ea", 0, "t")>>]
vex_cmp == [vcmpsd |-> vex_scalar("cmp", ymm), vcmpps |-> vex_lane_bin(TRUE)]
vex_0f38 ==
    [vpshufb |-> vex_lane_bin(TRUE), vpabsd |-> vex_unary_lane(FALSE), vptest |-> vex_ptest(TRUE),
     vpbroadcastq |-> <<Load("t", "ea", 0)>> \o vdst(TRUE, "broadcast", <<"t">>),
     vpmovzx |-> <<LoadN(2, "t")>> \o vdst(TRUE, "pmovx", <<"t">>)]
vex_0f3a ==
    [vinserti128 |-> <<LoadN(2, "t")>> \o vdst(TRUE, "insert", ymm), vextracti128 |-> <<StoreN(2, "ymm_hi")>>,
     vpextr |-> <<Let("t", "extract", <<"xmm">>), Store("ea", 0, "t")>>, vpinsr |-> vex_scalar("insert", ymm)]
VexShiftsAndPermutes ==
    [vpsllvd |-> vex_lane_bin(TRUE), vpermq |-> <<LoadN(4, "t")>> \o vdst(TRUE, "permq", <<"t">>),
     vblendps |-> vex_lane_bin(TRUE), vroundsd |-> vex_scalar("round", ymm)]
vex_cvtps2ph == [vcvtps2ph |-> <<Let("t", "half", <<"xmm", "ymm_hi">>), StoreN(2, "t")>>,
                 vcvtph2ps |-> <<LoadN(2, "t")>> \o vdst(TRUE, "float", <<"t">>)]
Bmi ==
    [andn |-> <<Load("t", "ea", 0), Let("u", "andn", <<"rax", "t">>), Copy("reg", "u")>> \o Flags("andn", <<"u">>),
     blsr |-> <<Load("t", "ea", 0), Let("reg", "blsr", <<"t">>)>> \o Flags("blsr", <<"t">>),
     pext |-> <<Load("t", "ea", 0), Let("reg", "pext", <<"rax", "t">>)>>,
     mulx |-> <<Load("t", "ea", 0), Let("rax", "mullo", <<"rdx", "t">>), Let("reg", "mulhi", <<"rdx", "t">>)>>,
     bextr |-> <<Load("t", "ea", 0), Let("reg", "bextr", <<"rax", "t">>)>> \o Flags("bextr", <<"reg">>),
     rorx |-> <<Load("t", "ea", 0), Let("reg", "rorx", <<"t">>)>>]

Instructions ==
    Stack_50_6B @@ Group1_80_8F @@ Moffs_9C_A3 @@ ShiftsAndReturns_C0_CF @@ CallsAndGroups_E8_FF
    @@ alu_regular @@ mul_op @@ div_op @@ Strings @@ bit_op
    @@ Group15_0F_AE @@ Arms_0F_40_AD @@ Arms_0F_B0_C7 @@ x87_mem_form @@ exec_mmx
    @@ SseMoves_10_5F @@ sse_arith @@ sse_unary @@ SseIntegers_60_FE @@ SseShuffles_C2_F3
    @@ exec_sse_0f38 @@ exec_sse_0f3a @@ crc32 @@ pcmpstr
    @@ VexMoves @@ VexArithmetic @@ vex_farith @@ vex_movss_sd @@ vex_cmp @@ vex_0f38 @@ vex_0f3a
    @@ VexShiftsAndPermutes @@ vex_cvtps2ph @@ Bmi

(* Those that change something and fault later, or read what they change.   *)
Inexact ==
    {"push", "pusha", "popa", "pop_mem", "pushf", "rcl", "int_imm", "call", "call_mem", "push_mem", "adc",
     "rep_stos", "rep_movs", "rep_lods", "xadd", "cmpxchg"}
Exact == DOMAIN Instructions \ Inexact

ASSUME FaultsAssumption ==
    /\ Forms \subseteq DOMAIN Instructions
    /\ UnsavedUse \subseteq {"st", "ymm_hi", "mxcsr"}
    /\ {MAX_EXC_DEPTH, MAX_IDENTICAL_DELIVERIES, MAX_CHAIN_DELIVERIES, MaxContexts} \subseteq Nat

(* execute_one: the instruction up to its end, or to the access that faults. *)
EndOf(form) == AtCode(IF form = "int_imm" THEN 2 ELSE 1)
Registers == {"rsp", "rbp", "rax", "rdx", "rcx", "reg", "rsi", "rdi", "ea", "cf", "flags", "rip",
              "xmm", "ymm_hi", "st", "mxcsr"}
interpret(form, c, m, rs) ==
    LET fixed == [imm |-> <<"imm">>, end |-> EndOf(form), none |-> 0, zero |-> <<"zero">>]
        start == [gpr |-> c @@ Locals @@ fixed, mem |-> m, stop |-> <<>>]
        ended == FoldLeft(LAMBDA s, op : Performed(rs, s, op), start, Instructions[form])
        rip == IF ended.stop \in {<<>>, <<"end">>} /\ ended.gpr.rip = c.rip THEN fixed.end ELSE ended.gpr.rip
    IN  [gpr |-> [r \in Registers |-> IF r = "rip" THEN rip ELSE ended.gpr[r]], mem |-> ended.mem,
         stop |-> IF ended.stop = <<"end">> THEN <<>> ELSE ended.stop]

-----------------------------------------------------------------------------
(* Delivery and the guest's handlers                                         *)

AtInstruction == gpr.rip = AtCode(0)
AtDispatcher == gpr.rip = <<"dispatcher">>
InHandlerCode == gpr.rip = <<"handler">>
Done == run_state = "running" /\ ~AtInstruction /\ ~AtDispatcher /\ ~InHandlerCode

(* What a CONTEXT carries: the general registers, the program counter, the   *)
(* flags and the low halves of the vector registers.                         *)
Carried == Registers \ {"ymm_hi", "st", "mxcsr"}
write_context(c) == [r \in Carried |-> c[r]]
read_context(context, c) == [r \in Registers |-> IF r \in DOMAIN context THEN context[r] ELSE c[r]]

NoDeliveries == [last |-> <<>>, repeats |-> 0, depth |-> 0]
note_delivery(at) ==
    [last |-> at, depth |-> exc_chain.depth + 1,
     repeats |-> IF exc_chain.last = at THEN exc_chain.repeats + 1 ELSE 1]
Unhandled(chain) == chain.repeats >= MAX_IDENTICAL_DELIVERIES \/ chain.depth > MAX_CHAIN_DELIVERIES

(* The frame: a CONTEXT and a record, in the cell below the stack pointer.   *)
Deliverable(c) == Allows(rights, c.rsp - 1, 1, "w")
deliver_hw_exception(c, m, code, address, below) ==
    LET new_rsp == c.rsp - 1
        frame == [context |-> write_context(c), code |-> code, address |-> address]
    IN  /\ mem' = [m EXCEPT ![new_rsp] = <<"frame", frame>>]
        /\ gpr' = [c EXCEPT !.rsp = new_rsp, !.rip = <<"dispatcher">>]
        /\ contexts' = Append(below, new_rsp)

(* try_deliver_hw_exception, after a step that left c and m and stopped; a   *)
(* breakpoint is reported one byte further on.                               *)
try_deliver(c, m, stop) ==
    LET trap == IF stop = <<"interrupt", 3>> THEN [c EXCEPT !.rip = AtCode(@[2] + 1)] ELSE c
        code == CASE stop[1] = "access" -> "access violation"
                  [] stop = <<"interrupt", 0>> -> "divide by zero"
                  [] stop = <<"interrupt", 3>> -> "breakpoint"
                  [] OTHER -> "none"
        address == IF stop[1] = "access" THEN stop[2] ELSE trap.rip
        chain == note_delivery(<<code, address, c.rip>>)
        Ends(state) == gpr' = c /\ mem' = m /\ run_state' = state /\ UNCHANGED <<contexts, exc_depth>>
    IN  IF exc_depth >= MAX_EXC_DEPTH \/ code = "none" THEN Ends("fault") /\ UNCHANGED exc_chain
        ELSE /\ exc_chain' = chain
             /\ IF Unhandled(chain) THEN Ends("unhandled")
                ELSE IF ~Deliverable(trap) THEN Ends("fault")
                ELSE /\ deliver_hw_exception(trap, m, code, address, contexts)
                     /\ exc_depth' = exc_depth + 1
                     /\ UNCHANGED run_state

Goes == run_state = "running"
(* run_borrowed: one instruction, which ends or is delivered as an exception.*)
RunInstruction ==
    /\ Goes /\ AtInstruction
    /\ LET ran == interpret(insn, gpr, mem, rights)
       IN  IF ran.stop = <<>>
           THEN /\ gpr' = ran.gpr /\ mem' = ran.mem /\ exc_depth' = 0
                /\ UNCHANGED <<contexts, exc_chain, run_state>>
           ELSE try_deliver(ran.gpr, ran.mem, ran.stop)
    /\ UNCHANGED <<insn, before, rights>>

(* The dispatcher and the handler run on the same processor: they change     *)
(* what the calling convention lets them, and whatever else they use.        *)
HandlerUses == {"rax", "rdx", "cf", "flags", "xmm"} \cup UnsavedUse
RunDispatcher ==
    /\ Goes /\ AtDispatcher
    /\ gpr' = [r \in Registers |-> CASE r = "rip" -> <<"handler">> [] r \in HandlerUses -> <<"clobbered">>
                                      [] OTHER -> gpr[r]]
    /\ exc_depth' = 0
    /\ UNCHANGED <<insn, before, mem, rights, contexts, exc_chain, run_state>>

(* They may fault as well, the dispatcher at its first instruction.          *)
HandlerFaults ==
    /\ Goes /\ (AtDispatcher \/ InHandlerCode) /\ Len(contexts) < MaxContexts
    /\ try_deliver(gpr, mem, <<"access", HighEnd + 1>>)
    /\ UNCHANGED <<insn, before, rights>>

Context == mem[contexts[Len(contexts)]][2]
Outer == SubSeq(contexts, 1, Len(contexts) - 1)
Repair(region) == rights' = [rights EXCEPT ![region] = {"r", "w"}]

(* The handler repairs something or nothing and has the program go on.       *)
NtContinue ==
    /\ Goes /\ InHandlerCode
    /\ (\E region \in {"mid", "high"} : Repair(region)) \/ UNCHANGED rights
    /\ gpr' = read_context(Context.context, gpr)
    /\ contexts' = Outer
    /\ exc_chain' = NoDeliveries
    /\ UNCHANGED <<insn, before, mem, exc_depth, run_state>>

(* It raises the exception again, to the dispatcher or as the last resort:   *)
(* the new frame takes the place of the one its context came from.           *)
RaiseAgain ==
    /\ Goes /\ InHandlerCode
    /\ LET c == read_context(Context.context, gpr)
           chain == note_delivery(<<Context.code, Context.address, c.rip>>)
       IN  /\ exc_chain' = chain
           /\ IF Unhandled(chain)
              THEN gpr' = c /\ run_state' = "unhandled" /\ UNCHANGED <<mem, contexts>>
              ELSE deliver_hw_exception(c, mem, Context.code, Context.address, Outer) /\ UNCHANGED run_state
    /\ UNCHANGED <<insn, before, rights, exc_depth>>
LastChance ==
    /\ Goes /\ InHandlerCode
    /\ exc_chain' = NoDeliveries /\ run_state' = "unhandled"
    /\ UNCHANGED <<insn, before, gpr, mem, rights, contexts, exc_depth>>

(* The operand and the strings lie at or above the stack pointer; a register *)
(* may hold what the memory does, and all cells may hold the same.           *)
FaultInit ==
    /\ insn \in Forms
    /\ \E sp \in 0 .. 2, ea \in 1 .. 2, apart \in 0 .. 1, same \in BOOLEAN :
          /\ ea >= sp
          /\ mem = [c \in Cells |-> <<"cell", IF same THEN 0 ELSE c>>]
          /\ gpr = [rsp |-> sp, rbp |-> ea, rsi |-> ea, rdi |-> ea + apart, ea |-> ea, rcx |-> 2,
                    rax |-> IF same THEN <<"cell", 0>> ELSE <<"rax">>,
                    rdx |-> IF same THEN <<"cell", 0>> ELSE <<"rdx">>,
                    reg |-> <<"reg">>, cf |-> <<"cf">>, flags |-> <<"flags">>, rip |-> AtCode(0),
                    xmm |-> <<"xmm">>, ymm_hi |-> <<"ymm_hi">>, st |-> <<"st">>, mxcsr |-> <<"mxcsr">>]
    /\ before = [gpr |-> gpr, mem |-> mem]
    /\ rights \in [{"low", "mid", "high"} -> {{}, {"r"}, {"r", "w"}}] /\ rights["low"] = {"r", "w"}
    /\ contexts = <<>> /\ exc_chain = NoDeliveries /\ exc_depth = 0 /\ run_state = "running"

FaultNext ==
    \/ RunInstruction \/ RunDispatcher \/ HandlerFaults
    \/ NtContinue \/ RaiseAgain \/ LastChance
FaultSpec == FaultInit /\ [][FaultNext]_faultVars

-----------------------------------------------------------------------------
(* What the instruction does where every access is allowed; a breakpoint is  *)
(* passed.                                                                   *)
AtOnce ==
    LET whole == interpret(insn, before.gpr, before.mem, AllRights)
    IN  IF whole.stop = <<"interrupt", 3>> THEN [whole EXCEPT !.gpr.rip = EndOf(insn), !.stop = <<>>] ELSE whole

(* An instruction that faults, is handled and restarted, as often as it      *)
(* takes and with faults in the handlers, does in the end what it would have *)
(* done at once: the same registers, the same memory from the stack pointer  *)
(* up; a breakpoint is passed once.                                          *)
RestartIsExact ==
    Done /\ AtOnce.stop = <<>> =>
        /\ gpr = AtOnce.gpr
        /\ \A a \in Cells : a >= AtOnce.gpr.rsp => mem[a] = AtOnce.mem[a]
=============================================================================
