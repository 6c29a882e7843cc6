---------------------------- MODULE MCScheduler ----------------------------
(* Scheduler on small instances; the .cfg files give the constants. *)
EXTENDS Scheduler

CONSTANT n1   \* an object name
SemArgs == {<<0, 1>>, <<1, 1>>}
=============================================================================
