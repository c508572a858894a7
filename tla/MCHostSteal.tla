---------------------------- MODULE MCHostSteal -----------------------------
(***************************************************************************)
(* HostSteal, with its log, on three hosts and two threads.  An event      *)
(* makes its host send to another host at once, so that the barrier        *)
(* postpones it, or with a delay, and to itself within or beyond the round.*)
(***************************************************************************)
EXTENDS Determinism

MCHosts == 1 .. 3

MCBootTimes == [h \in MCHosts |-> IF h = 3 THEN {} ELSE {h - 1}]

Succ(h) == IF h = 3 THEN 1 ELSE h + 1

\* What a host sends depends on the event alone: from a boot event one event
\* to the next host and one to itself, from any other event nothing or one.
MCEmits(h, e) ==
    IF e.id = 0 THEN {<< <<Succ(h), 0>>, <<h, 1>> >>, << <<h, 0>>, <<Succ(h), 2>> >>}
    ELSE {<<>>, << <<Succ(h), 1>> >>}
=============================================================================
