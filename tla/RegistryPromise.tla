--------------------------- MODULE RegistryPromise ---------------------------
(* What the registry promises its callers, whatever capitals they write:    *)
(* names are compared without case, a key is there when it or a key below   *)
(* it was made, and a handle reaches the key it was opened for by name.     *)
EXTENDS Naturals, FiniteSets, Sequences, Functions

CONSTANTS AbstractPaths, AbstractNames, Indices, Datas, Handle, Seeded

VARIABLES
    keys,     \* the paths of the keys that were made
    values,   \* triples of path, name and data
    opened,   \* maps an open handle to its path
    answer    \* what the last call answered

promiseVars == <<keys, values, opened, answer>>

WithEntry(f, x, y) == [z \in DOMAIN f \union {x} |-> IF z = x THEN y ELSE f[z]]
Below(p, q) == Len(p) < Len(q) /\ SubSeq(q, 1, Len(p)) = p
There(p) == p \in keys \/ \E q \in keys : Below(p, q)
SubkeysOf(p) == {q[Len(p) + 1] : q \in {k \in keys : Below(p, k)}}
DataOf(p, n) == {v[3] : v \in {w \in values : w[1] = p /\ w[2] = n}}

(* RegCreateKeyEx tells whether the key itself was there, NtCreateKey also  *)
(* counts a key that is there for the keys below it.                        *)
Create(p) ==
    /\ \E told \in {"created", "opened"} :
          /\ answer' = <<told>>
          /\ p \in keys => told = "opened"
          /\ ~There(p) => told = "created"
    /\ keys' = keys \cup {p}
    /\ \E h \in Handle \ DOMAIN opened : opened' = WithEntry(opened, h, p)
    /\ UNCHANGED values

Open(p) ==
    /\ \/ /\ There(p) /\ answer' = <<"ok">>
          /\ \E h \in Handle \ DOMAIN opened : opened' = WithEntry(opened, h, p)
       \/ ~There(p) /\ answer' = <<"not found">> /\ UNCHANGED opened
    /\ UNCHANGED <<keys, values>>

Close ==
    /\ \E h \in DOMAIN opened : opened' = Restrict(opened, DOMAIN opened \ {h})
    /\ answer' = <<"ok">>
    /\ UNCHANGED <<keys, values>>

SetValue(p, n, d) ==
    /\ keys' = keys \cup {p}
    /\ values' = {v \in values : v[1] # p \/ v[2] # n} \cup {<<p, n, d>>}
    /\ answer' = <<"ok">>
    /\ UNCHANGED opened

QueryValue(p, n) ==
    /\ \/ \E d \in DataOf(p, n) : answer' = <<"data", d>>
       \/ DataOf(p, n) = {} /\ answer' = <<"not found">>
    /\ UNCHANGED <<keys, values, opened>>

DeleteValue(p, n) ==
    /\ answer' = IF DataOf(p, n) = {} THEN <<"not found">> ELSE <<"ok">>
    /\ values' = {v \in values : v[1] # p \/ v[2] # n}
    /\ UNCHANGED <<keys, opened>>

(* RegDeleteKey takes the keys below with it, NtDeleteKey refuses.          *)
Gone(dead) ==
    /\ keys' = keys \ dead
    /\ values' = {v \in values : v[1] \notin dead}
    /\ answer' = <<"ok">>
    /\ UNCHANGED opened
DeleteTree(p) == Gone({q \in keys : q = p \/ Below(p, q)})
DeleteKey(p) ==
    \/ There(p) /\ SubkeysOf(p) = {} /\ Gone({p})
    \/ /\ \/ ~There(p) /\ answer' = <<"not found">>
          \/ There(p) /\ SubkeysOf(p) # {} /\ answer' = <<"cannot delete">>
       /\ UNCHANGED <<keys, values, opened>>

Describe(p) ==
    /\ answer' = <<"counts", Cardinality(SubkeysOf(p)), Cardinality({v \in values : v[1] = p})>>
    /\ UNCHANGED <<keys, values, opened>>

(* By its index, an enumeration meets as many names as the counts say.      *)
Enumerate(names) ==
    /\ \E index \in Indices :
          \/ index < Cardinality(names) /\ \E n \in names : answer' = <<"name", index, n>>
          \/ index >= Cardinality(names) /\ answer' = <<"no more", index>>
    /\ UNCHANGED <<keys, values, opened>>

PromiseInit == keys = Seeded /\ values = {} /\ opened = <<>> /\ answer = <<"none">>

PromiseNext ==
    \/ Close
    \/ \E p \in AbstractPaths :
          \/ Create(p) \/ Open(p) \/ DeleteTree(p) \/ DeleteKey(p) \/ Describe(p)
          \/ Enumerate(SubkeysOf(p)) \/ Enumerate({v[2] : v \in {w \in values : w[1] = p}})
          \/ \E n \in AbstractNames : \/ \E d \in Datas : SetValue(p, n, d)
                                      \/ QueryValue(p, n)
                                      \/ DeleteValue(p, n)
=============================================================================
