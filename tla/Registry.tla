------------------------------ MODULE Registry ------------------------------
(* os/src/reg.rs and the resolution of key handles in os/src/lib.rs.  Keys  *)
(* and value names keep the capitals they were first written with and are   *)
(* found under any; every path is made canonical, component by component,   *)
(* against the spellings that are in the hive, again at each use of a       *)
(* handle.  A component of a path, and a value's name, is a pair of its     *)
(* letters and its capitals.                                                *)
EXTENDS Naturals, FiniteSets, Sequences, SequencesExt, Functions

CONSTANTS
    Subkeys,     \* the paths a caller passes, relative to a key
    ValueNames, Datas,
    Handle,
    MaxPath, MaxKeys, MaxValues   \* bounds on the hive

ASSUME RegistryAssumption ==
    /\ MaxPath \in Nat \ {0, 1} /\ MaxKeys \in Nat /\ MaxValues \in Nat
    /\ \A p \in Subkeys : p \in Seq(Range(p)) /\ Len(p) <= MaxPath

VARIABLES
    reg_hive,      \* maps a path to its values, names to data
    reg_handles,   \* maps an open handle to the path it was opened with
    reg_answer     \* what the last call answered

regVars == <<reg_hive, reg_handles, reg_answer>>

Fold(path) == [i \in DOMAIN path |-> path[i][1]]
SameName(n, m) == n[1] = m[1]

(* HKEY_LOCAL_MACHINE and HKEY_CLASSES_ROOT, which names a key below it.    *)
HKLM == <<<<"HKLM", "up">>>>
HKCR == Append(HKLM, <<"k", "up">>)
reg_hkey_root == {HKLM, HKCR}
reg_resolve == reg_hkey_root \cup {reg_handles[h] : h \in DOMAIN reg_handles}

strip_prefix_ci(path, base) == IsPrefix(Fold(base), Fold(path)) /\ Len(path) > Len(base)

(* The spelling of a component below a key: its own if the hive has it, or  *)
(* any that differs in capitals; the map keeps no order.                    *)
reg_child_spelling(base, name) ==
    LET children == {k[Len(base) + 1] : k \in {p \in DOMAIN reg_hive : strip_prefix_ci(p, base)}}
        ci == {c \in children : SameName(c, name)}
    IN  IF name \in ci THEN {name} ELSE ci

reg_canonical_Verbatim(path) == path
reg_canonical(path) ==
    LET out[i \in 0 .. Len(path)] ==
            IF i = 0 THEN <<>>
            ELSE LET spelled == reg_child_spelling(out[i - 1], path[i])
                 IN  Append(out[i - 1], IF spelled = {} THEN path[i] ELSE CHOOSE s \in spelled : TRUE)
    IN  out[Len(path)]

reg_path_of(base) == reg_canonical(base)
reg_join(base, sub) == reg_canonical(base \o sub)
nt_reg_resolve(root, name) == reg_canonical(root \o name)

reg_key_exists(path) ==
    path \in DOMAIN reg_hive \/ \E k \in DOMAIN reg_hive : IsPrefix(Fold(path), Fold(k))

subkeys(path) == {Fold(k)[Len(path) + 1] : k \in {p \in DOMAIN reg_hive : strip_prefix_ci(p, path)}}

-----------------------------------------------------------------------------
(* Keys                                                                    *)

WithEntry(f, x, y) == [z \in DOMAIN f \union {x} |-> IF z = x THEN y ELSE f[z]]
HiveWith(path) == IF path \in DOMAIN reg_hive THEN reg_hive ELSE WithEntry(reg_hive, path, <<>>)
Answered(a) == reg_answer' = <<a>>
Unused == Handle \ DOMAIN reg_handles
Hands(path) == reg_handles' = WithEntry(reg_handles, CHOOSE h \in Unused : TRUE, path)

Created(path, existed) ==
    /\ Unused # {}
    /\ reg_hive' = HiveWith(path)
    /\ Hands(path)
    /\ Answered(IF existed THEN "opened" ELSE "created")
reg_create(base, sub) ==
    LET path == reg_join(base, sub) IN Created(path, path \in DOMAIN reg_hive)
nt_create_key(base, sub) ==
    LET path == nt_reg_resolve(base, sub) IN Created(path, reg_key_exists(path))

Opened(path) ==
    /\ Unused # {}
    /\ IF reg_key_exists(path) THEN Hands(path) /\ Answered("ok")
       ELSE Answered("not found") /\ UNCHANGED reg_handles
    /\ UNCHANGED reg_hive
reg_open(base, sub) == Opened(reg_join(base, sub))
nt_open_key(base, sub) == Opened(nt_reg_resolve(base, sub))

reg_close(h) ==
    /\ reg_handles' = Restrict(reg_handles, DOMAIN reg_handles \ {h})
    /\ Answered("ok")
    /\ UNCHANGED reg_hive

Removed(paths) == Restrict(reg_hive, DOMAIN reg_hive \ paths)
reg_delete_key(base, sub) ==
    LET path == reg_join(base, sub)
    IN  /\ reg_hive' = Removed({k \in DOMAIN reg_hive : IsPrefix(path, k)})
        /\ Answered("ok")
        /\ UNCHANGED reg_handles

nt_delete_key(base) ==
    LET path == reg_path_of(base)
        status == IF ~reg_key_exists(path) THEN "not found"
                  ELSE IF subkeys(path) # {} THEN "cannot delete"
                  ELSE "ok"
    IN  /\ reg_hive' = IF status = "ok" THEN Removed({path}) ELSE reg_hive
        /\ Answered(status)
        /\ UNCHANGED reg_handles

-----------------------------------------------------------------------------
(* Values                                                                  *)

ValuesOf(path) == IF path \in DOMAIN reg_hive THEN DOMAIN reg_hive[path] ELSE {}
StoredAs(path, name) ==
    LET ci == {n \in ValuesOf(path) : SameName(n, name)} IN IF name \in ci THEN {name} ELSE ci
reg_value(path, name) ==
    LET stored == StoredAs(path, name)
    IN  IF stored = {} THEN <<"not found">>
        ELSE <<"data", reg_hive[path][CHOOSE s \in stored : TRUE]>>

reg_value_set_AsWritten(path, name, data) ==
    [HiveWith(path) EXCEPT ![path] = WithEntry(@, name, data)]
reg_value_set(path, name, data) ==
    LET stored == StoredAs(path, name)
    IN  [HiveWith(path) EXCEPT ![path] =
            WithEntry(@, IF stored = {} THEN name ELSE CHOOSE s \in stored : TRUE, data)]

reg_value_remove(path, name) ==
    LET stored == StoredAs(path, name)
    IN  IF stored = {} THEN reg_hive
        ELSE [reg_hive EXCEPT ![path] = Restrict(@, DOMAIN @ \ {CHOOSE s \in stored : TRUE})]

reg_set(base, name, data) ==
    /\ reg_hive' = reg_value_set(reg_path_of(base), name, data)
    /\ Answered("ok")
    /\ UNCHANGED reg_handles
nt_set_value_key(base, name, data) == reg_set(base, name, data)

Asks(answer) == reg_answer' = answer /\ UNCHANGED <<reg_hive, reg_handles>>
reg_query(base, name) == Asks(reg_value(reg_path_of(base), name))
nt_query_value_key(base, name) == Asks(reg_value(reg_path_of(base), name))

reg_delete_value(base, name) ==
    LET path == reg_path_of(base)
    IN  /\ reg_hive' = reg_value_remove(path, name)
        /\ Answered(IF StoredAs(path, name) = {} THEN "not found" ELSE "ok")
        /\ UNCHANGED reg_handles
nt_delete_value_key(base, name) == reg_delete_value(base, name)

-----------------------------------------------------------------------------
(* Enumeration: the n-th of the keys below, or of the values, in an order   *)
(* of their own, and the numbers that bound it.                             *)
Nth(names, index) ==
    IF index < Cardinality(names) THEN <<"name", index, SetToSeq(names)[index + 1]>>
    ELSE <<"no more", index>>
reg_enum_key(base, index) == Asks(Nth(subkeys(reg_path_of(base)), index))
nt_enumerate_key(base, index) == Asks(Nth(subkeys(reg_path_of(base)), index))

Listed(path, index) == Nth({n[1] : n \in ValuesOf(path)}, index)
reg_enum_value(base, index) == Asks(Listed(reg_path_of(base), index))
nt_enumerate_value_key(base, index) == Asks(Listed(reg_path_of(base), index))

Counts(path) == <<"counts", Cardinality(subkeys(path)), Cardinality(ValuesOf(path))>>
reg_query_info(base) == Asks(Counts(reg_path_of(base)))
nt_query_key(base) == Asks(Counts(reg_path_of(base)))

-----------------------------------------------------------------------------
(* reg_seed makes the keys below HKEY_LOCAL_MACHINE's classes.              *)
Seed == HKCR
RegInit ==
    /\ reg_hive = [k \in {Seed} |-> <<>>]
    /\ reg_handles = <<>>
    /\ reg_answer = <<"none">>

(* Bounds the hive: keys and values.                                        *)
HiveBound ==
    /\ Cardinality(DOMAIN reg_hive) <= MaxKeys
    /\ \A k \in DOMAIN reg_hive : Cardinality(DOMAIN reg_hive[k]) <= MaxValues

RegNext ==
    \/ \E base \in reg_resolve :
       /\ \/ \E sub \in Subkeys :
                /\ Len(base) + Len(sub) <= MaxPath
                /\ \/ reg_create(base, sub)
                   \/ nt_create_key(base, sub)
                   \/ reg_open(base, sub)
                   \/ nt_open_key(base, sub)
                   \/ reg_delete_key(base, sub)
          \/ nt_delete_key(base)
          \/ \E name \in ValueNames :
                \/ \E data \in Datas :
                      reg_set(base, name, data) \/ nt_set_value_key(base, name, data)
                \/ reg_query(base, name) \/ nt_query_value_key(base, name)
                \/ reg_delete_value(base, name) \/ nt_delete_value_key(base, name)
          \/ \E index \in 0..MaxKeys :
                \/ reg_enum_key(base, index) \/ nt_enumerate_key(base, index)
                \/ reg_enum_value(base, index) \/ nt_enumerate_value_key(base, index)
          \/ reg_query_info(base) \/ nt_query_key(base)
       /\ HiveBound'
    \/ \E h \in DOMAIN reg_handles : reg_close(h)

RegSpec == RegInit /\ [][RegNext]_regVars

-----------------------------------------------------------------------------
(* Under any capitals, through any handle however old, the calls of reg.rs  *)
(* answer and act as if names had no capitals: no key or value ever splits  *)
(* into two that differ in them.                                            *)
Letters == UNION {{name[1] : name \in Range(p)} : p \in Subkeys \cup {HKCR}}
Folded == {Fold(HKLM) \o p : p \in UNION {[1..n -> Letters] : n \in 0..MaxPath - 1}}
Promise == INSTANCE RegistryPromise WITH
    AbstractPaths <- Folded,
    Indices <- 0..MaxKeys,
    AbstractNames <- {n[1] : n \in ValueNames},
    Seeded <- {Fold(Seed)},
    keys <- {Fold(k) : k \in DOMAIN reg_hive},
    values <- UNION {{<<Fold(k), n[1], reg_hive[k][n]>> : n \in DOMAIN reg_hive[k]} :
                     k \in DOMAIN reg_hive},
    opened <- [h \in DOMAIN reg_handles |-> Fold(reg_handles[h])],
    answer <- reg_answer
RegistryKeepsPromise ==
    Promise!PromiseInit /\ [][UNCHANGED regVars \/ Promise!PromiseNext]_(Promise!promiseVars)
=============================================================================
