--------------------------- MODULE MutexPromise ---------------------------
(***************************************************************************)
(* What a guest relies on when a wait on a mutex reports success: the      *)
(* grants it was told of and has not released exclude every other thread.  *)
(* grants[t][h] counts them; there are no objects, handles or schedules.   *)
(***************************************************************************)
EXTENDS Integers

CONSTANTS Thread, Mutex
VARIABLE grants

Init == grants = [t \in Thread |-> [h \in Mutex |-> 0]]

FreeFor(t, h) == \A u \in Thread \ {t} : grants[u][h] = 0

\* One wait may grant several mutexes at once (wait-all).
Acquire(t, G) ==
    /\ \A h \in G : FreeFor(t, h)
    /\ grants' = [grants EXCEPT ![t] =
                    [h \in Mutex |-> IF h \in G THEN @[h] + 1 ELSE @[h]]]

Release(t, h) ==
    /\ grants[t][h] > 0
    /\ grants' = [grants EXCEPT ![t][h] = @ - 1]

\* A handle to a mutex that somebody already holds comes into being.
Appear(t, h, n) ==
    /\ \A u \in Thread : grants[u][h] = 0
    /\ grants' = [grants EXCEPT ![t][h] = n]

Next ==
    \E t \in Thread :
        \/ \E G \in SUBSET Mutex : Acquire(t, G)
        \/ \E h \in Mutex : Release(t, h)
        \/ \E h, src \in Mutex : Appear(t, h, grants[t][src])

Spec == Init /\ [][Next]_grants
=============================================================================
