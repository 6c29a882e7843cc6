----------------------------- MODULE MCJitCache -----------------------------
(* JitCache on small instances; the .cfg files choose among these.         *)
EXTENDS JitCache

Plain   == [op |-> "plain", to |-> 0]
Stosb   == [op |-> "store", to |-> 0]
Other   == [op |-> "other", to |-> 0]
Ind     == [op |-> "ind", to |-> 0]
Jmp(a)  == [op |-> "jmp", to |-> a]
Jcc(a)  == [op |-> "jcc", to |-> a]

AllInsns == {Plain, Stosb, Other, Ind} \union UNION {{Jmp(a), Jcc(a)} : a \in Addr}

Code == "code"
Data == "data"
OneRegion == [p \in 0 .. NumPages - 1 |-> Code]            \* all of it RWX code
WithData  == [p \in 0 .. NumPages - 1 |-> IF p = 0 THEN Data ELSE Code]

Identity  == [p \in 0 .. NumPages - 1 |-> p]
Colliding == [p \in 0 .. NumPages - 1 |-> 0]

Ram(bytes, dataPerm) ==
    [bytes |-> [a \in Addr |-> bytes[a + 1]],
     perm |-> [r \in Regions |-> IF r = Data THEN dataPerm ELSE RWX],
     backing |-> [r \in Regions |-> 1],
     pageGen |-> [p \in Pages |-> 0], codeGen |-> 0, layoutGen |-> 0]

\* Two blocks that lead to each other by computed branches, and one block over
\* two pages that ends in one.
CacheRams == {Ram(<<Ind, Jmp(0)>>, RW), Ram(<<Stosb, Ind>>, RW)}

\* A data page, and a store that loops with a block on the next page.
SmcRams   == {Ram(<<Plain, Plain, Stosb, Jmp(4), Jcc(2), Other>>, RW)}

\* The same loop over two pages of code.
LoopRams  == {Ram(<<Stosb, Jmp(2), Jcc(0), Other>>, RW)}

PlainOrOther == {Plain, Other}
=============================================================================
