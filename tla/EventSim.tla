------------------------------ MODULE EventSim ------------------------------
(***************************************************************************)
(* What a scheduler promises: a conservative parallel discrete-event       *)
(* simulation.  Every host executes its events in order of time; a window  *)
(* ends when no host has an event before its end, and the next one starts  *)
(* at the time of the earliest event anywhere.  Threads, locks, queues and *)
(* the way the earliest time is found do not appear.                       *)
(***************************************************************************)
EXTENDS SimEvents

VARIABLES
    pending,   \* pending[h]: events h has still to execute
    clock,     \* clock[h]: time of the event h executed last
    nextId,    \* nextId[h]: number of events h has created
    barrier,   \* end of the current window
    over       \* the simulation has ended

vars == <<pending, clock, nextId, barrier, over>>

Init ==
    /\ pending = [h \in Hosts |-> BootEvents(h)]
    /\ clock = [h \in Hosts |-> 0]
    /\ nextId = [h \in Hosts |-> 0]
    /\ barrier = 1
    /\ over = FALSE

\* The events s creates that will arrive at host g.
Arrivals(s, h, now, g) ==
    {Adjusted(e, barrier) :
        e \in {f \in {NewEvents(s, h, now, nextId[h])[k] : k \in 1 .. Len(s)} :
                  Kept(f) /\ f.dst = g}}

Execute(h) ==
    \E e \in pending[h] : \E s \in Emits(h, e) :
        /\ ~over
        /\ IsFirst(e, pending[h])
        /\ clock[h] <= e.time /\ e.time < barrier
        /\ nextId[h] + Len(s) <= MaxEvents
        /\ pending' = [g \in Hosts |->
               (pending[g] \ {e}) \cup Arrivals(s, h, e.time, g)]
        /\ clock' = [clock EXCEPT ![h] = e.time]
        /\ nextId' = [nextId EXCEPT ![h] = @ + Len(s)]
        /\ UNCHANGED <<barrier, over>>

NextWindow ==
    LET m == LeastTime(UNION {pending[h] : h \in Hosts})
    IN  /\ ~over
        /\ m >= barrier
        /\ \E jump \in Jumps :
              IF m < WindowEnd(m, jump)
              THEN barrier' = WindowEnd(m, jump) /\ over' = FALSE
              ELSE over' = TRUE /\ barrier' = barrier
        /\ UNCHANGED <<pending, clock, nextId>>

Next == (\E h \in Hosts : Execute(h)) \/ NextWindow

Spec == Init /\ [][Next]_vars
=============================================================================
