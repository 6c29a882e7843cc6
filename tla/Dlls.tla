-------------------------------- MODULE Dlls --------------------------------
(***************************************************************************)
(* The DLLs that exemu's own loader maps (dll.rs), and the calls to their  *)
(* DllMain that LoadLibrary, FreeLibrary, new threads and ExitProcess make *)
(* through the callback frames of api.rs.                                  *)
(*                                                                         *)
(* An image is one mapping of a file and its base is its number in the     *)
(* order of mapping; images holds them in the order their loading ended.   *)
(* Exports, relocation, the PEB's lists and the handles of emulated DLLs   *)
(* are left out, the loader lock, which is only written to the PEB, and    *)
(* the dialogs that use the same callback frames.                          *)
(* A DllMain here neither loads, frees nor exits, and no thread is         *)
(* preempted inside one: cb_stack is one stack for all threads.            *)
(* phase is history: the calls that the DllMain of an image has had.       *)
(***************************************************************************)
EXTENDS Integers, Sequences, SequencesExt

CONSTANTS DllNames,    \* the files a guest may load
          Imports,     \* [DllNames -> Seq(DllNames)]: their imports, in order
          Arena,       \* images that fit the DLL arena
          Guests,      \* the threads, of which MainGuest starts the process
          MainGuest,
          MaxRefs,     \* LoadLibrary calls counted in an image (a bound of the model)
          LoadsAfterFree   \* the guest goes on loading after it has freed

ASSUME DllsAssumption ==
    /\ Imports \in [DllNames -> Seq(DllNames)]
    /\ Arena \in Nat /\ MaxRefs \in Nat
    /\ MainGuest \in Guests

VARIABLES images, by_name, cb_stack, in_call, started, ending, phase, freed

dllVars == <<images, by_name, cb_stack, in_call, started, ending, phase, freed>>

Unloaded == 0
NoCallNow == [thread |-> MainGuest, base |-> Unloaded, reason |-> "none"]

DllInit == /\ images = <<>>
           /\ by_name = [d \in DllNames |-> Unloaded]
           /\ cb_stack = <<>>
           /\ in_call = NoCallNow
           /\ started = [t \in Guests |-> IF t = MainGuest THEN "runs" ELSE "none"]
           /\ ending = FALSE
           /\ phase = [b \in 1 .. Arena |-> "mapped"]
           /\ freed = FALSE

(***************************************************************************)
(* Loading.  l is the loader's tables on the way: images, by_name, loading *)
(* and pending_dllmain, and the bases given out.                           *)
(***************************************************************************)

Image == [name : DllNames, base : 1 .. Arena, refs : Nat, attached : BOOLEAN, disabled : BOOLEAN,
          bound : SUBSET (1 .. Arena)]
Loader == [images : Seq(Image), by_name : [DllNames -> 0 .. Arena], loading : SUBSET DllNames,
           pending : Seq(1 .. Arena), mapped : 0 .. Arena]

Begun(l, name) ==
    [l EXCEPT !.mapped = @ + 1, !.by_name[name] = l.mapped + 1, !.loading = @ \cup {name}]

\* Which imports are missing is decided before the first of them is loaded, and
\* not again: one that arrives through another meanwhile is mapped once more.
Missing(begun, name) ==
    {k \in DOMAIN Imports[name] : /\ begun.by_name[Imports[name][k]] = Unloaded
                                  /\ \A j \in 1 .. k - 1 : Imports[name][j] # Imports[name][k]}

\* The tables after each of the imports; load says what loading one makes of them.
ImportsOf(load, begun, name) ==
    LET missing == Missing(begun, name)
        after[k \in 0 .. Len(Imports[name])] ==
            IF k = 0 THEN begun
            ELSE IF k \in missing THEN load[Imports[name][k]][after[k - 1]] ELSE after[k - 1]
    IN  after

Enlisted(done, name, base) ==
    LET bound == {done.by_name[i] : i \in Range(Imports[name])} \ {Unloaded}
        image == [name |-> name, base |-> base, refs |-> 1, attached |-> FALSE, disabled |-> FALSE,
                  bound |-> bound]
    IN  [done EXCEPT !.images = Append(@, image), !.loading = @ \ {name}, !.pending = Append(@, base)]

Loads(nested) ==
    [name \in DllNames |-> [l \in Loader |->
        IF name \in l.loading \/ l.mapped = Arena THEN l
        ELSE LET begun == Begun(l, name)
                 after == ImportsOf(nested, begun, name)
             IN  Enlisted(after[Len(Imports[name])], name, begun.mapped)]]

\* Loads nest no deeper than images still fit the arena.
load_plugin[depth \in 0 .. Arena] ==
    IF depth = 0 THEN [name \in DllNames |-> [l \in Loader |-> l]] ELSE Loads(load_plugin[depth - 1])

mark_attached(is, bases) == [i \in DOMAIN is |-> [is[i] EXCEPT !.attached = @ \/ is[i].base \in Range(bases)]]

\* The bases of some of the images, in the order of the images.
Bases(chosen) ==
    LET kept[n \in 0 .. Len(images)] ==
            IF n = 0 THEN <<>>
            ELSE IF n \in chosen THEN Append(kept[n - 1], images[n].base) ELSE kept[n - 1]
    IN  kept[Len(images)]

thread_notify_targets == Bases({i \in DOMAIN images : images[i].attached /\ ~images[i].disabled})

take_process_detach_targets_Forward == Bases({i \in DOMAIN images : images[i].attached})
take_process_detach_targets == Reverse(Bases({i \in DOMAIN images : images[i].attached}))

(***************************************************************************)
(* invoke_callbacks and cb_advance.                                        *)
(***************************************************************************)
Phase(reason, before) ==
    CASE reason = "attach" /\ before = "mapped"   -> "attaching"
      [] reason = "detach" /\ before = "attached" -> "detaching"
      [] reason = "thread" /\ before = "attached" -> "attached"
      [] OTHER                                    -> "wrong"
Returned(before) == CASE before = "attaching" -> "attached"
                      [] before = "detaching" -> "gone"
                      [] OTHER                -> before

Entering(ph, t, base, reason) == /\ in_call' = [thread |-> t, base |-> base, reason |-> reason]
                                 /\ phase' = [ph EXCEPT ![base] = Phase(reason, @)]

invoke_callbacks(t, bases, reason) ==
    IF bases = <<>> THEN UNCHANGED <<cb_stack, in_call, phase>>
    ELSE /\ cb_stack' = Append(cb_stack, Tail(bases))
         /\ Entering(phase, t, Head(bases), reason)

\* A DllMain returns into the driver: the next one of the frame is called, or the
\* frame is done and its thread goes on, or the process ends.
cb_advance ==
    LET t == in_call.thread
        after == [phase EXCEPT ![in_call.base] = Returned(@)]
        remaining == Last(cb_stack) IN
    /\ in_call # NoCallNow
    /\ IF remaining # <<>>
        THEN /\ cb_stack' = Append(Front(cb_stack), Tail(remaining))
             /\ Entering(after, t, Head(remaining), in_call.reason)
             /\ UNCHANGED started
        ELSE /\ cb_stack' = Front(cb_stack)
             /\ in_call' = NoCallNow
             /\ phase' = after
             /\ started' = IF ending THEN [g \in Guests |-> "none"]
                           ELSE [started EXCEPT ![t] = "runs"]
    /\ UNCHANGED <<images, by_name, ending, freed>>

(***************************************************************************)
(* The guest's calls.                                                      *)
(***************************************************************************)
Runs(t) == started[t] = "runs" /\ in_call = NoCallNow /\ ~ending

First(name) == CHOOSE i \in DOMAIN images : /\ images[i].name = name
                                            /\ \A j \in 1 .. i - 1 : images[j].name # name

LoadLibrary(t, name) ==
    LET loaded == load_plugin[Arena][name][[images |-> images, by_name |-> by_name, loading |-> {},
                               pending |-> <<>>, mapped |-> Len(images)]] IN
    /\ Runs(t)
    /\ freed => LoadsAfterFree
    /\ IF by_name[name] # Unloaded
        THEN /\ images[First(name)].refs < MaxRefs
             /\ images' = [images EXCEPT ![First(name)].refs = @ + 1]
             /\ UNCHANGED <<by_name, cb_stack, in_call, phase>>
        ELSE /\ images' = mark_attached(loaded.images, loaded.pending)
             /\ by_name' = loaded.by_name
             /\ invoke_callbacks(t, loaded.pending, "attach")
    /\ UNCHANGED <<started, ending, freed>>

FreeLibrary(t, i) ==
    LET m == images[i]
        last == m.refs <= 1 /\ m.attached IN
    /\ Runs(t)
    /\ images' = [images EXCEPT ![i].refs = IF @ > 0 THEN @ - 1 ELSE 0,
                                ![i].attached = @ /\ ~last]
    /\ invoke_callbacks(t, IF last THEN <<m.base>> ELSE <<>>, "detach")
    /\ freed' = TRUE
    /\ UNCHANGED <<by_name, started, ending>>

DisableThreadLibraryCalls(t, i) ==
    /\ Runs(t)
    /\ images' = [images EXCEPT ![i].disabled = TRUE]
    /\ UNCHANGED <<by_name, cb_stack, in_call, started, ending, phase, freed>>

\* Whether a thread starts in the notifications is settled when it is made, whom
\* they tell when it runs first.
spawn_thread(t, new) ==
    /\ Runs(t)
    /\ started[new] = "none"
    /\ started' = [started EXCEPT ![new] = IF thread_notify_targets = <<>> THEN "runs" ELSE "made"]
    /\ UNCHANGED <<images, by_name, cb_stack, in_call, ending, phase, freed>>

thread_tls_attach(t) ==
    /\ started[t] = "made" /\ in_call = NoCallNow /\ ~ending
    /\ started' = [started EXCEPT ![t] = IF thread_notify_targets = <<>> THEN "runs" ELSE "told"]
    /\ invoke_callbacks(t, thread_notify_targets, "thread")
    /\ UNCHANGED <<images, by_name, ending, freed>>

exit_thread(t) ==
    /\ Runs(t)
    /\ started' = [started EXCEPT ![t] = "ended"]
    /\ UNCHANGED <<images, by_name, cb_stack, in_call, ending, phase, freed>>

begin_process_exit(t) ==
    /\ Runs(t)
    /\ ending' = TRUE
    /\ images' = [i \in DOMAIN images |-> [images[i] EXCEPT !.attached = FALSE]]
    /\ invoke_callbacks(t, take_process_detach_targets, "detach")
    /\ UNCHANGED <<by_name, started, freed>>

DllNext ==
    \/ cb_advance
    \/ \E t \in Guests :
        \/ \E name \in DllNames : LoadLibrary(t, name)
        \/ \E i \in DOMAIN images : FreeLibrary(t, i) \/ DisableThreadLibraryCalls(t, i)
        \/ \E new \in Guests : spawn_thread(t, new)
        \/ thread_tls_attach(t) \/ exit_thread(t) \/ begin_process_exit(t)

DllSpec == DllInit /\ [][DllNext]_dllVars

(***************************************************************************)
(* What DLLs rely on.                                                      *)
(***************************************************************************)

\* However loads, frees, new threads and the exit follow each other: an image is
\* attached when everything it was bound to is, and only once; it is told of
\* threads and detached only while it is attached; and at the exit it goes when
\* no image that is bound to it is left.
NotifiedInOrder ==
    \A i \in DOMAIN images : LET b == images[i].base IN
        /\ phase[b] # "wrong"
        /\ phase[b] = "attaching" => \A d \in images[i].bound : phase[d] = "attached"
        /\ ending /\ phase[b] = "detaching" =>
             \A j \in DOMAIN images : b \in images[j].bound => phase[images[j].base] \in {"detaching", "gone"}
=============================================================================
