--------------------------- MODULE MCBlockedCalls ---------------------------
(***************************************************************************)
(* BlockedCalls for TLC.  The first futex is the clear_child_tid of every  *)
(* thread but the main one, so that a wait on it is also a join.           *)
(***************************************************************************)
EXTENDS BlockedCalls

CONSTANTS t1, t2, t3, f

MCTid == [t \in Threads |-> IF t = Main THEN NoFutex ELSE f]
=============================================================================
