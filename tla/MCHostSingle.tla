---------------------------- MODULE MCHostSingle ----------------------------
(***************************************************************************)
(* HostSingle on three hosts.  A boot event makes its host send to another *)
(* host at once, so that the barrier postpones the event, or with a delay, *)
(* and to itself within or beyond the round.                               *)
(***************************************************************************)
EXTENDS HostSingle

MCHosts == 1 .. 3

MCBootTimes == [h \in MCHosts |-> IF h = 3 THEN {} ELSE {h - 1}]

Succ(h) == IF h = 3 THEN 1 ELSE h + 1

MCEmits(h, e) ==
    IF e.id = 0 THEN {<< <<Succ(h), 0>>, <<h, 1>> >>, << <<h, 0>>, <<Succ(h), 2>> >>}
    ELSE {<<>>, << <<Succ(h), 1>> >>}
=============================================================================
