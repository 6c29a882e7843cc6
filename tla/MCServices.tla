----------------------------- MODULE MCServices -----------------------------
(* Components that share no state, each on a small instance of its own: a run *)
(* chooses at its start which of them moves, the others stay as they were.    *)
EXTENDS AddressSpace, ChildProcesses, Registry, ExceptionDispatch, RunLoop,
        Audio, Sockets, Files, Unwinder, Dlls
VARIABLE focus

MCProts == {{"r", "w"}}
MCImage == {[base |-> 3, size |-> 2, perm |-> {"r", "x"}, name |-> "image"]}

MCSubs == {<<>>, <<<<"k", "up">>>>, <<<<"k", "low">>>>, <<<<"k", "low">>, <<"k", "up">>>>}
MCNames == {<<"v", "up">>, <<"v", "low">>}

\* A file, a directory with one name in it, or a directory and a file.
MCPaths == {<<1>>, <<1, 2>>, <<2>>}

\* One DLL imports the next but one both itself and through the other.
MCImports == [d \in DllNames |-> CASE d = "a" -> <<>> [] d = "b" -> <<"a">> [] d = "c" -> <<"b", "a">>]

Op(op, reg, n, to) == [op |-> op, reg |-> reg, n |-> n, to |-> to]
Does(op) == Op(op, 0, 0, 0)
On(op, reg) == Op(op, reg, 0, 0)
At(op, reg, n) == Op(op, reg, n, 0)
To(op, to) == Op(op, 0, 0, to)
Slot(off, op, info) == [off |-> off, op |-> op, info |-> info, raw |-> 0]
Raw(n) == [off |-> 0, op |-> 0, info |-> 0, raw |-> n]
Record(begin, end, frame, slots, chained) ==
    [begin |-> begin, end |-> end, frame |-> frame, slots |-> slots, chained |-> chained]

\* 1: a function that calls the others in turn.
UnwindCode ==
    <<To("call", 5), To("call", 18), To("call", 34), To("jmp", 1),
\* 5: two pushes and a small allocation; 16: a leaf.
      On("push", 3), On("push", 7), At("sub", 0, 2), On("work", 3), To("call", 16), On("work", 7),
      To("jcc", 9), At("add", 0, 2), On("pop", 7), On("pop", 3), Does("ret"),
      Does("nop"), Does("ret"),
\* 18: a frame register, and a frame that grows.
      On("push", 5), At("sub", 0, 4), At("frame", 5, 2), At("save", 3, 1), On("work", 3), At("sub", 0, 1),
      To("call", 5), To("jcc", 24), At("lea", 5, -2), At("load", 3, 1), At("lea", 5, 2), On("pop", 5),
      Does("ret"), Does("nop"), Does("nop"), Does("nop"),
\* 34: saved registers, a tail call, and a fragment at 43 that saves one more.
      At("sub", 0, 5), At("save_xmm", 6, 2), At("save", 7, 1), On("work_xmm", 6), To("jcc", 43),
      To("call", 16), At("load_xmm", 6, 2), At("add", 0, 5), To("jmp", 5),
      At("save", 3, 0), On("work", 3), To("call", 5), At("load", 3, 0), At("load_xmm", 6, 2),
      At("add", 0, 5), Does("ret"),
\* 50: the handler of interrupts.
      Does("nop"), To("call", 5), To("jmp", 50)>>

Body == Record(34, 43, 0, <<Slot(3, 4, 7), Raw(1), Slot(2, 8, 6), Raw(1), Slot(1, 2, 4)>>, <<>>)
UnwindProgram(error_code) ==
    [code |-> UnwindCode, handler |-> 50, error_code |-> error_code, records |->
      <<Record(18, 31, 5 + 16,
               <<Slot(4, 4, 3), Raw(1), Slot(3, 3, 0), Slot(2, 1, 0), Raw(4), Slot(1, 0, 5)>>, <<>>),
        Body,
        Record(5, 16, 0, <<Slot(3, 2, 1), Slot(2, 0, 7), Slot(1, 0, 3)>>, <<>>),
        Record(43, 50, 0, <<Slot(1, 4, 3), Raw(0)>>, <<Body>>),
        Record(50, 53, 0, <<Slot(0, 10, IF error_code THEN 1 ELSE 0)>>, <<>>)>>]
MCUnwindPrograms == {UnwindProgram(FALSE), UnwindProgram(TRUE)}

Components == {"memory", "children", "registry", "exceptions", "loop",
               "audio", "sockets", "files", "unwinder", "dlls"}

Rests(c) == focus # c
ServicesInit ==
    /\ focus \in Components
    /\ VmInit /\ (Rests("memory") => ~wow64)
    /\ ProcInit
    /\ RegInit
    /\ ExcInit
    /\ CInit /\ (Rests("loop") => thread = 1 /\ brk = Never)
    /\ AInit /\ SktInit /\ FsInit /\ DllInit
    /\ IF focus = "unwinder" THEN UnwindInit
       ELSE /\ program = 0 /\ function_table = 0 /\ ctx = 0 /\ stack = 0
            /\ callers = <<>> /\ interrupts = 0

Stays(c, variables) == focus # c /\ UNCHANGED variables
ServicesNext ==
    /\ UNCHANGED focus
    /\ (focus = "memory" /\ VmNext) \/ Stays("memory", vmVars)
    /\ (focus = "children" /\ ProcNext) \/ Stays("children", procVars)
    /\ (focus = "registry" /\ RegNext) \/ Stays("registry", regVars)
    /\ (focus = "exceptions" /\ ExcNext) \/ Stays("exceptions", excVars)
    /\ (focus = "loop" /\ Next) \/ Stays("loop", vars)
    /\ (focus = "audio" /\ ANext) \/ Stays("audio", avars)
    /\ (focus = "sockets" /\ SktNext) \/ Stays("sockets", sktvars)
    /\ (focus = "files" /\ FsNext) \/ Stays("files", fsvars)
    /\ (focus = "unwinder" /\ UnwindNext) \/ Stays("unwinder", unwVars)
    /\ (focus = "dlls" /\ DllNext) \/ Stays("dlls", dllVars)
ServicesSpec ==
    ServicesInit
    /\ [][ServicesNext]_<<focus, vmVars, procVars, regVars, excVars, vars,
                          avars, sktvars, fsvars, unwVars, dllVars>>
=============================================================================
