--------------------------- MODULE DeferredFlags ---------------------------
(* How jit/src/compile.rs computes the six status flags only where they can *)
(* be seen.  A compiled instruction leaves its operands and its result in   *)
(* host registers and notes how the flags follow from them; they are        *)
(* settled when an instruction needs them or the block is left: at its end, *)
(* at a faulting load or store, or at a store that hits compiled code.  The *)
(* reference is the interpreter (cpu/src/exec.rs, cpu/src/alu.rs).          *)
(* Operands have `Half` or `Bits` bits, a low byte is the low `Half` bits.  *)
EXTENDS Integers, Sequences, FiniteSets

CONSTANTS
    Bits, Half,   \* the two operand sizes
    AfBit,        \* the bit whose carry is AF
    DeferScan,    \* how far defer_pays looks ahead
    Programs,     \* sequences of instructions
    Inputs(_)     \* pairs of operands tried in a program

Status == {"cf", "pf", "af", "zf", "sf", "of"}
Arithmetic == {"add", "sub", "cmp"}
Alu == Arithmetic \cup {"and"}
Shifts == {"shl", "shr", "sar"}

(* An instruction with its operand: a register, a memory source or a memory *)
(* destination; `count` is a shift's count or a jump's condition.  "other"  *)
(* is an instruction that the compiler leaves to the interpreter.           *)
Instruction == [op : Alu \cup Shifts \cup
                     {"mov", "neg", "inc", "dec", "imul", "jcc", "jmp", "other"},
                rm : {"reg", "src", "mem"}, size : {Half, Bits}, count : Nat]

(* What the interpreter is left with, and jumps, store nothing; a condition *)
(* has four bits.                                                           *)
ASSUME DeferredFlagsAssumption ==
    /\ {AfBit, Half, Bits, DeferScan} \subseteq Nat
    /\ 0 < AfBit /\ AfBit < Half /\ Half < Bits
    /\ \A p \in Programs :
          /\ p \in Seq(Instruction) /\ Inputs(p) \subseteq Nat \X Nat
          /\ \A k \in DOMAIN p : /\ p[k].op \in {"jcc", "jmp", "other"} => p[k].rm # "mem"
                                 /\ p[k].op = "jcc" => p[k].count \in 0 .. 15

VARIABLES
    code,     \* the instructions from the block's start on
    limit,    \* max_insns
    at,       \* how many instructions have been compiled and run
    pending,  \* Compiler.flags: how the flags follow from the registers
    regs,     \* R_FLAGS, R_FA, R_FB, R_FR
    ref,      \* the interpreter: its flags and its last result
    last,     \* the last result that compiled code committed
    exit      \* "running", or why the block was left

flagVars == <<code, limit, at, pending, regs, ref, last, exit>>

two[n \in 0 .. Bits] == IF n = 0 THEN 1 ELSE 2 * two[n - 1]   \* 1 << n
Bit(v, k) == (v \div two[k]) % 2
Odd(n) == n % 2 = 1
Value(v, size) == v % two[size]
Signed(v, size) == IF Bit(v, size - 1) = 1 THEN v - two[size] ELSE v
Meet(a, b) == LET bits == {k \in 0 .. Bits - 1 : Bit(a, k) = 1 /\ Bit(b, k) = 1}
                  sum[k \in 0 .. Bits] ==
                      IF k = 0 THEN 0
                      ELSE sum[k - 1] + (IF k - 1 \in bits THEN two[k - 1] ELSE 0)
              IN  sum[Bits]

-----------------------------------------------------------------------------
(* The interpreter: alu.rs                                                 *)

(* The flags of T that hold.                                                *)
Holding(cf, of, af) ==
    (IF cf THEN {"cf"} ELSE {}) \cup (IF of THEN {"of"} ELSE {}) \cup
    (IF af THEN {"af"} ELSE {})

set_szp(res, size) ==
    (IF res = 0 THEN {"zf"} ELSE {}) \cup
    (IF Bit(res, size - 1) = 1 THEN {"sf"} ELSE {}) \cup
    (IF Odd(Cardinality({k \in 0 .. Half - 1 : Bit(res, k) = 1})) THEN {} ELSE {"pf"})

AuxCarry(a, b, res) == Odd(Bit(a, AfBit) + Bit(b, AfBit) + Bit(res, AfBit))

alu_add(a, b, size) ==
    LET res == Value(a + b, size)
        top(v) == Bit(v, size - 1)
    IN  [res |-> res,
         fl  |-> set_szp(res, size) \cup
                 Holding(a + b >= two[size], top(a) = top(b) /\ top(a) # top(res),
                         AuxCarry(a, b, res))]

alu_sub(a, b, size) ==
    LET res == Value(a - b, size)
        top(v) == Bit(v, size - 1)
    IN  [res |-> res,
         fl  |-> set_szp(res, size) \cup
                 Holding(a < b, top(a) # top(b) /\ top(a) # top(res), AuxCarry(a, b, res))]

alu_logic(res, size) == [res |-> res, fl |-> set_szp(res, size)]

(* INC and DEC keep the carry.                                              *)
KeepingCarry(result, fl) ==
    [result EXCEPT !.fl = (@ \ {"cf"}) \cup (fl \cap {"cf"})]

(* SHL, SHR, SAR: AF is left alone, OF too unless the count is one.         *)
ShiftCount(i) == i.count % Bits
alu_shift(op, v, n, size, fl) ==
    LET signed == Signed(v, size)
        res == CASE op = "shl" -> Value(v * two[n], size)
                 [] op = "shr" -> v \div two[n]
                 [] op = "sar" -> Value(signed \div two[n], size)
        cf  == CASE op = "shl" -> n <= size /\ Bit(v, size - n) = 1
                 [] op = "shr" -> Bit(v, n - 1) = 1
                 [] op = "sar" -> Odd(signed \div two[n - 1])
        of  == CASE op = "shl" -> (Bit(res, size - 1) = 1) # cf
                 [] op = "shr" -> Bit(v, size - 1) = 1
                 [] op = "sar" -> FALSE
        kept == fl \cap (IF n = 1 THEN {"af"} ELSE {"af", "of"})
    IN  [res |-> res,
         fl  |-> kept \cup set_szp(res, size) \cup Holding(cf, n = 1 /\ of, FALSE)]

imul_trunc(a, b, size, fl) ==
    LET product == Signed(a, size) * Signed(b, size)
        res == Value(product, size)
        overflow == Signed(res, size) # product
    IN  [res |-> res, fl |-> (fl \ {"cf", "of"}) \cup Holding(overflow, overflow, FALSE)]

(* What one instruction of execute_one computes.                            *)
execute_one(i, fl, a, b) ==
    CASE i.op = "add"           -> alu_add(a, b, i.size)
      [] i.op \in {"sub", "cmp"} -> alu_sub(a, b, i.size)
      [] i.op = "and"           -> alu_logic(Meet(a, b), i.size)
      [] i.op = "neg"           -> alu_sub(0, b, i.size)
      [] i.op = "inc"           -> KeepingCarry(alu_add(a, 1, i.size), fl)
      [] i.op = "dec"           -> KeepingCarry(alu_sub(a, 1, i.size), fl)
      [] i.op = "imul"          -> imul_trunc(a, b, i.size, fl)
      [] i.op \in Shifts        ->
            IF ShiftCount(i) = 0 THEN [res |-> b, fl |-> fl]
            ELSE alu_shift(i.op, b, ShiftCount(i), i.size, fl)
      [] OTHER                  -> [res |-> b, fl |-> fl]

(* Interpreter::cond, the condition of a jump.                              *)
cond(cc, fl) ==
    LET cf == "cf" \in fl
        zf == "zf" \in fl
        less == ("sf" \in fl) # ("of" \in fl)
    IN  CASE cc = 0 -> "of" \in fl     [] cc = 1 -> "of" \notin fl
          [] cc = 2 -> cf              [] cc = 3 -> ~cf
          [] cc = 4 -> zf              [] cc = 5 -> ~zf
          [] cc = 6 -> cf \/ zf        [] cc = 7 -> ~(cf \/ zf)
          [] cc = 8 -> "sf" \in fl     [] cc = 9 -> "sf" \notin fl
          [] cc = 10 -> "pf" \in fl    [] cc = 11 -> "pf" \notin fl
          [] cc = 12 -> less           [] cc = 13 -> ~less
          [] cc = 14 -> zf \/ less     [] cc = 15 -> ~zf /\ ~less

-----------------------------------------------------------------------------
(* The compiler's decisions                                                *)

flag_effect(i) ==
    CASE i.op \in Alu \cup {"neg"} -> "Overwrites"
      [] i.op = "mov"              -> "Neutral"
      [] OTHER                     -> "Reads"

WritesBack(i) == i.op # "cmp"
overwriter_settles_NotNeg(i) == i.rm = "mem" /\ i.op \in Alu /\ WritesBack(i)
overwriter_settles(i) == i.rm = "mem" /\ i.op \in Alu \cup {"neg"} /\ WritesBack(i)

(* The first instruction ahead that has to do with flags, if the scan       *)
(* reaches it, must be one that overwrites them without settling first.     *)
defer_pays(k) ==
    \E n \in k .. k + DeferScan - 1 :
        /\ n \in DOMAIN code
        /\ \A j \in k .. n - 1 : flag_effect(code[j]) = "Neutral"
        /\ flag_effect(code[n]) = "Overwrites"
        /\ ~overwriter_settles(code[n])

SetsFlags(i) == flag_effect(i) # "Neutral"
Defers(k) == SetsFlags(code[k]) /\ defer_pays(k + 1)
Spills(i) == SetsFlags(i) /\ i.rm # "reg"

(* Which instructions call `materialize` before anything else.              *)
settle_for_rm_dest(i) == i.op \in Alu \cup {"neg"} /\ i.rm = "mem" /\ WritesBack(i)
Settles(i) ==
    \/ settle_for_rm_dest(i)
    \/ i.op \in {"inc", "dec", "imul", "jcc"}
    \/ i.op \in Shifts /\ ShiftCount(i) # 0

Live == [kind |-> "Live"]
Arith(size, sub, keep) == [kind |-> "Arith", size |-> size, sub |-> sub, keep_cf |-> keep]
Logic(size) == [kind |-> "Logic", size |-> size]

-----------------------------------------------------------------------------
(* The code it emits                                                       *)

(* flags_szp_into reads the sign, the zero test and the parity table.       *)
flags_szp_into(res, size) == set_szp(res, size)

(* The host's adds and subs: carry and signed overflow at the operand size. *)
HostFlags(a, b, r, size, sub) ==
    LET exact == IF sub THEN Signed(a, size) - Signed(b, size)
                 ELSE Signed(a, size) + Signed(b, size)
        carry == IF sub THEN a < b ELSE a + b >= two[size]
        overflow == exact < -(two[size - 1]) \/ exact >= two[size - 1]
    IN  flags_szp_into(r, size) \cup Holding(carry, overflow, AuxCarry(a, b, r))

emit_flags(how, m) ==
    CASE how.kind = "Live"  -> m.fl
      [] how.kind = "Logic" -> flags_szp_into(m.r, how.size)
      [] how.kind = "Arith" ->
            LET new == HostFlags(m.a, m.b, m.r, how.size, how.sub)
            IN  IF how.keep_cf THEN (m.fl \cap {"cf"}) \cup (new \ {"cf"}) ELSE new

materialize(how, m) == [m EXCEPT !.fl = emit_flags(how, m)]

emit_arith_value(m, size, sub) ==
    [m EXCEPT !.r = Value(IF sub THEN m.a - m.b ELSE m.a + m.b, size)]

(* Each of these yields the registers and how the flags follow from them.   *)
Deferred(m, how) == [m |-> m, how |-> how]
Eager(m, how) == [m |-> materialize(how, m), how |-> Live]

emit_alu(m, i, defer) ==
    LET sub == i.op \in {"sub", "cmp", "neg"}
        how == IF i.op = "and" THEN Logic(i.size) ELSE Arith(i.size, sub, FALSE)
        n   == IF i.op = "and" THEN [m EXCEPT !.r = Meet(m.a, m.b)]
               ELSE emit_arith_value(m, i.size, sub)
    IN  IF defer THEN Deferred(n, how) ELSE Eager(n, how)

emit_incdec(m, i, defer) ==
    LET sub == i.op = "dec"
        n == emit_arith_value([m EXCEPT !.b = 1], i.size, sub)
        how == Arith(i.size, sub, TRUE)
    IN  IF defer THEN Deferred(n, how) ELSE Eager(n, how)

(* A shift builds the flags in R_FA; they are committed with the result.    *)
emit_shift(m, i) ==
    LET s == alu_shift(i.op, m.b, ShiftCount(i), i.size, m.fl)
    IN  [m EXCEPT !.a = s.fl]
Committed(m, i) == IF i.op \in Shifts /\ ShiftCount(i) # 0 THEN [m EXCEPT !.fl = m.a] ELSE m

(* A condition is computed for its even code and flipped for the odd one.   *)
emit_cond_value(cc, fl) ==
    LET tested == CASE cc \div 2 = 0 -> {"of"}  [] cc \div 2 = 1 -> {"cf"}
                    [] cc \div 2 = 2 -> {"zf"}  [] cc \div 2 = 3 -> {"cf", "zf"}
                    [] cc \div 2 = 4 -> {"sf"}  [] cc \div 2 = 5 -> {"pf"}
                    [] cc \div 2 = 6 -> {}      [] cc \div 2 = 7 -> {"zf"}
        less == cc >= 12 /\ Cardinality({"sf", "of"} \cap fl) = 1
    IN  (tested \cap fl # {} \/ less) # Odd(cc)

(* Where the operands of an instruction are loaded to.                      *)
Loaded(m, i, a, b) ==
    CASE i.op \in Alu             -> [m EXCEPT !.a = a, !.b = b]
      [] i.op = "neg"             -> [m EXCEPT !.a = 0, !.b = b]
      [] i.op \in {"inc", "dec"}  -> [m EXCEPT !.a = a]
      [] i.op = "imul"            -> [m EXCEPT !.a = a, !.b = b]
      [] i.op \in Shifts /\ ShiftCount(i) # 0 -> [m EXCEPT !.b = b]
      [] OTHER                    -> m

(* The registers before the stores of an instruction, and the flags after.  *)
Lowered(m, how, i, defer) ==
    CASE i.op \in Alu \cup {"neg"} -> emit_alu(m, i, defer)
      [] i.op \in {"inc", "dec"}   -> emit_incdec(m, i, defer)
      [] i.op = "imul"             ->
            Deferred([m EXCEPT !.fl = imul_trunc(m.a, m.b, i.size, m.fl).fl], Live)
      [] i.op \in Shifts /\ ShiftCount(i) # 0 -> Deferred(emit_shift(m, i), Live)
      [] OTHER                     -> Deferred(m, how)

Result(i, m, a, b) ==
    IF i.op \in Alu \cup {"neg", "inc", "dec"} THEN m.r ELSE execute_one(i, {}, a, b).res

-----------------------------------------------------------------------------
(* Running the block                                                       *)

Stores(i) == i.rm = "mem" /\ WritesBack(i)
Loads(i) == i.rm # "reg" /\ ~(i.op = "mov" /\ i.rm = "mem")

Leave(why, how, m) ==
    /\ exit' = why
    /\ regs' = [m EXCEPT !.fl = emit_flags(how, m)]
    /\ pending' = Live

RunsOn(k) == exit = "running" /\ at = k - 1 /\ k <= limit /\ k \in DOMAIN code

(* The compiled instruction, with the operands it reads.                    *)
Begin(i) == IF Settles(i) THEN Deferred(materialize(pending, regs), Live)
            ELSE Deferred(regs, pending)
Compute(k, a, b) ==
    LET s == Begin(code[k]) IN Lowered(Loaded(s.m, code[k], a, b), s.how, code[k], Defers(k))

Retire(k, a, b) ==
    /\ at' = k
    /\ ref' = LET e == execute_one(code[k], ref.fl, a, b) IN [fl |-> e.fl, res |-> e.res]
    /\ last' = Result(code[k], Compute(k, a, b).m, a, b)
    /\ UNCHANGED <<code, limit>>

Run(k, a, b) ==
    /\ RunsOn(k)
    /\ code[k].op \notin {"other", "jcc", "jmp"}
    /\ LET c == Compute(k, a, b) IN /\ regs' = Committed(c.m, code[k])
                                    /\ pending' = c.how
    /\ Retire(k, a, b)
    /\ UNCHANGED exit

(* A store that lands in compiled code commits and leaves after it.         *)
StoreStops(k, a, b) ==
    LET c == Compute(k, a, b) IN Leave("stored", c.how, Committed(c.m, code[k]))
StoreNotice(k, a, b) ==
    /\ RunsOn(k)
    /\ Stores(code[k])
    /\ StoreStops(k, a, b)
    /\ Retire(k, a, b)

(* A faulting access rewinds to its instruction: a load before anything was *)
(* overwritten, a store with the registers that were spilled.               *)
LoadFault(k) ==
    /\ RunsOn(k)
    /\ code[k].op # "other" /\ Loads(code[k])
    /\ LET s == Begin(code[k]) IN Leave("fault", s.how, s.m)
    /\ UNCHANGED <<code, limit, at, ref, last>>

Unspilled(m, before, i) ==
    IF ~Spills(i) THEN m
    ELSE IF before = Live THEN [m EXCEPT !.fl = regs.fl, !.r = regs.r]
    ELSE [m EXCEPT !.fl = regs.fl, !.r = regs.r, !.a = regs.a, !.b = regs.b]
StoreFault(k, a, b) ==
    /\ RunsOn(k)
    /\ code[k].op # "other" /\ Stores(code[k])
    /\ LET before == Begin(code[k]).how
       IN  Leave("fault", before, Unspilled(Compute(k, a, b).m, before, code[k]))
    /\ UNCHANGED <<code, limit, at, ref, last>>

(* A jump ends the block.  Its result is which way it goes.                 *)
Jump(k) ==
    /\ RunsOn(k)
    /\ code[k].op \in {"jcc", "jmp"}
    /\ at' = k
    /\ LET s == Begin(code[k])
       IN  /\ Leave("jumped", s.how, s.m)
           /\ last' = (code[k].op = "jmp" \/ emit_cond_value(code[k].count, s.m.fl))
    /\ ref' = [ref EXCEPT !.res = code[k].op = "jmp" \/ cond(code[k].count, ref.fl)]
    /\ UNCHANGED <<code, limit>>

(* The block ends at its limit or at what is not compiled.                  *)
EndOfBlock ==
    /\ exit = "running"
    /\ at = limit \/ (at + 1 \in DOMAIN code /\ code[at + 1].op = "other")
    /\ Leave("ended", pending, regs)
    /\ UNCHANGED <<code, limit, at, ref, last>>

FlagsInit ==
    /\ code \in Programs
    /\ limit \in 1 .. Len(code)
    /\ at = 0
    /\ pending = Live
    /\ \E fl \in {{}, Status} :
          /\ regs = [fl |-> fl, a |-> 0, b |-> 0, r |-> 0]
          /\ ref = [fl |-> fl, res |-> 0]
    /\ last = 0
    /\ exit = "running"

FlagsNext ==
    \/ EndOfBlock
    \/ \E k \in DOMAIN code :
          \/ Jump(k)
          \/ LoadFault(k)
          \/ \E p \in Inputs(code) :
                LET a == Value(p[1], code[k].size)
                    b == Value(p[2], code[k].size)
                IN  \/ Run(k, a, b)
                    \/ StoreNotice(k, a, b)
                    \/ StoreFault(k, a, b)

FlagsSpec == FlagsInit /\ [][FlagsNext]_flagVars

-----------------------------------------------------------------------------
(* Wherever a block is left, the guest's flags, the last committed result   *)
(* and the way of a jump are the interpreter's: none of the scans ahead,    *)
(* settlings, spills and late derivations of compile.rs shows.              *)
LeftAsInterpreted == exit # "running" => regs.fl = ref.fl /\ last = ref.res
=============================================================================
