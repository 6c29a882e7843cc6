----------------------------- MODULE MCProcessor -----------------------------
(* The parts of the processor, each on a small instance of its own: compiled  *)
(* blocks and their cache, deferred flags, instructions that fault, blocks    *)
(* that end where a debugger wants them to, and the stack of a thread across  *)
(* the calls of thunks.  They share no state, so a run chooses at its start   *)
(* which of them moves, the others stay as they were.                         *)
EXTENDS MCJitCache, DeferredFlags, Faults, DebugControl, ApiCalls
CONSTANT Parts      \* those of this run
VARIABLE focus

\* Every sequence of three of some instructions, every instruction that sets
\* flags before one that reads none, and a comparison before every condition.
I(op, rm, size, n) == [op |-> op, rm |-> rm, size |-> size, count |-> n]
Mixed ==
    {I("mov", "src", Bits, 0), I("mov", "mem", Bits, 0), I("add", "reg", Bits, 0),
     I("add", "mem", Half, 0), I("sub", "src", Bits, 0), I("cmp", "src", Half, 0),
     I("cmp", "mem", Bits, 0), I("and", "reg", Half, 0), I("neg", "mem", Bits, 0),
     I("inc", "reg", Half, 0), I("dec", "mem", Bits, 0), I("shl", "mem", Half, 1),
     I("jcc", "reg", Bits, 14), I("other", "reg", Bits, 0)}
Setters ==
    {I(op, rm, size, 0) : op \in Alu \union {"neg", "inc", "dec", "imul"},
                          rm \in {"reg", "mem"}, size \in {Half, Bits}}
    \union {I(op, "mem", size, n) : op \in Shifts, size \in {Half, Bits}, n \in 1 .. 3}
MCPrograms ==
    {<<i, j, k>> : i, j, k \in Mixed}
    \union {<<i, I("add", "reg", Bits, 0)>> : i \in Setters}
    \union {<<I("cmp", "reg", Bits, 0), I("jcc", "reg", Bits, cc)>> : cc \in 0 .. 15}
MCInputs(p) == IF Len(p) = 2 THEN (0 .. 15) \X {0, 1, 7, 8, 15} ELSE {<<7, 9>>, <<15, 1>>}

\* A loop of compiled blocks around an instruction that is interpreted.
In(kind, to, word) == [kind |-> kind, to |-> to, word |-> word]
MCText == <<In("plain", 0, 11), In("jcc", 1, 0), In("other", 0, 0), In("jmp", 2, 0)>>
MCBloom == [a \in 1 .. 4 \cup {11} |-> {a % 3}]

\* Functions whose prototype the table of argument counts does not match.
MCUnbalanced ==
    {"GetWindowText", "RegCreateKey", "RegOpenKey", "RegDeleteKeyEx", "CreatePenIndirect",
     "_beginthreadex", "GetModuleHandleExW", "LoadIconW", "LoadIconA", "LoadCursorA", "RegFlushKey",
     "SetConsoleTitleA", "RegNotifyChangeKeyValue", "UpdateWindow", "DrawTextW", "RtlCaptureContext",
     "RtlLookupFunctionEntry", "RtlVirtualUnwind", "RtlPcToFileHeader", "LdrGetDllHandle", "LdrLoadDll"}

ProcessorInit ==
    /\ focus \in Parts
    /\ Init /\ (focus # "cache" => cpu.rip = 0 /\ ram = CHOOSE m \in InitRams : TRUE)
    /\ IF focus = "flags" THEN FlagsInit
       ELSE /\ code = <<>> /\ limit = 0 /\ at = 0 /\ pending = Live /\ last = 0
            /\ regs = 0 /\ ref = 0 /\ exit = "running"
    /\ IF focus = "faults" THEN FaultInit
       ELSE /\ insn = 0 /\ before = 0 /\ gpr = 0 /\ mem = 0 /\ rights = 0 /\ contexts = 0
            /\ exc_chain = 0 /\ exc_depth = 0 /\ run_state = "rests"
    /\ DbgInit
    /\ IF focus = "calls" THEN CallInit
       ELSE /\ is_64bit = TRUE /\ stack = <<>> /\ rip = Exited /\ active = <<>>
            /\ call_frames = <<>> /\ initterm_stack = <<>> /\ gui_open = FALSE /\ dlgproc = FALSE
            /\ dialog_result = FALSE /\ pending_process_exit = FALSE

Stays(part, variables) == focus # part /\ UNCHANGED variables
ProcessorNext ==
    /\ UNCHANGED focus
    /\ (focus = "cache" /\ Next) \/ Stays("cache", vars)
    /\ (focus = "flags" /\ FlagsNext) \/ Stays("flags", flagVars)
    /\ (focus = "faults" /\ FaultNext) \/ Stays("faults", faultVars)
    /\ (focus = "debug" /\ DbgNext) \/ Stays("debug", dbgVars)
    /\ (focus = "calls" /\ CallNext) \/ Stays("calls", callVars)
\* The run loop goes on for ever; the other instances may stop.
Stops == focus # "cache" /\ UNCHANGED <<focus, vars, flagVars, faultVars, dbgVars, callVars>>
ProcessorSpec == ProcessorInit /\ [][ProcessorNext \/ Stops]_<<focus, vars, flagVars, faultVars, dbgVars, callVars>>
=============================================================================
