---------------------------- MODULE MCLookahead -----------------------------
(***************************************************************************)
(* Lookahead on a graph of two vertices with self-loops.  A millisecond is *)
(* ten nanoseconds, which keeps what the code's mixing of units does: the  *)
(* comparison of milliseconds with nanoseconds is true for any two         *)
(* latencies here, as it is for any that differ by less than a factor of   *)
(* a million.                                                              *)
(***************************************************************************)
EXTENDS Lookahead

MCVertices == {1, 2}

\* Whole milliseconds, the same in both directions.
WholeMs ==
    [p \in MCVertices \X MCVertices |->
        IF p = <<1, 1>> THEN 30 ELSE IF p = <<2, 2>> THEN 50 ELSE 20]
=============================================================================
