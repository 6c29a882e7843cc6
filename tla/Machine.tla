------------------------------ MODULE Machine ------------------------------
(***************************************************************************)
(* What the guest is promised: the interpreter, Interpreter::step of       *)
(* crates/cpu, which decodes every instruction from the memory as it is at *)
(* that moment.  One step is one instruction.  Registers other than the    *)
(* instruction pointer are not kept, so a computed branch leads anywhere   *)
(* in Targets and a store may be aimed at any address of Stores.           *)
(***************************************************************************)
EXTENDS GuestMemory

CONSTANTS Modes, Values, Widths, Stores, Protections, Remappable, Targets, Handlers

VARIABLES bytes,  \* what each address holds
          perm,   \* the protection of each region
          rip,    \* CpuState::rip
          mode    \* Interpreter::bits

vars == <<bytes, perm, rip, mode>>

Memory  == [bytes |-> bytes, perm |-> perm]
Fetches == Allowed(Memory, rip, 1, "X")
Decodes(op) == Fetches /\ bytes[rip].op = op

Writes == \E a \in Stores, n \in Widths, v \in Values :
              Allowed(Memory, a, n, "W") /\ bytes' = Stored(Memory, a, n, v).bytes

Plain  == Decodes("plain") /\ rip' = rip + 1 /\ UNCHANGED <<bytes, perm, mode>>

Branch == /\ \/ Decodes("jmp") /\ rip' = bytes[rip].to
             \/ Decodes("jcc") /\ rip' \in {bytes[rip].to, rip + 1}
             \/ Decodes("ind") /\ rip' \in Targets
          /\ UNCHANGED <<bytes, perm, mode>>

Store  == Decodes("store") /\ Writes /\ rip' = rip + 1 /\ UNCHANGED <<perm, mode>>

\* An instruction that faults changes nothing; a handler runs next.
Fault  == /\ Fetches => Decodes("plain") \/ Decodes("store")
          /\ rip' \in Handlers /\ UNCHANGED <<bytes, perm, mode>>

\* Free, map or protect a region; what it holds is new when it is mapped.
Layout == \E r \in Remappable :
             \/ /\ perm[r] # Unmapped /\ UNCHANGED bytes
                /\ \E q \in Protections \union {Unmapped} : perm' = [perm EXCEPT ![r] = q]
             \/ /\ perm[r] = Unmapped /\ perm' = [perm EXCEPT ![r] = RWX]
                /\ bytes' = [a \in Addr |-> IF RegionAt(a) = r THEN Zero ELSE bytes[a]]

\* A system call or another instruction of the interpreter's own.
Other  == /\ Decodes("other") /\ rip' = rip + 1 /\ mode' \in Modes
          /\ \/ UNCHANGED <<bytes, perm>>
             \/ Writes /\ UNCHANGED perm
             \/ Layout

\* The step is spent on a switch to another thread's context.
Switch == rip' \in Handlers /\ mode' \in Modes /\ UNCHANGED <<bytes, perm>>

Step == Plain \/ Branch \/ Store \/ Fault \/ Other \/ Switch
Init == rip \in Addr /\ mode \in Modes
Spec == Init /\ [][Step]_vars
=============================================================================
