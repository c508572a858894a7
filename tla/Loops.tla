------------------------------- MODULE Loops -------------------------------
(***************************************************************************)
(* The loops of the code, for the modules whose operators take a record to *)
(* its new value: at most n turns of Step from x.  (The set of one element *)
(* makes TLC evaluate each turn once.)                                     *)
(***************************************************************************)
EXTENDS Naturals

Loop(Step(_), n, x) ==
    LET turn[k \in 0..n] ==
            IF k = 0 THEN x ELSE CHOOSE y \in {Step(z) : z \in {turn[k - 1]}} : TRUE
    IN  turn[n]
=============================================================================
