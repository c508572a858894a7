----------------------------- MODULE SimEvents ------------------------------
(***************************************************************************)
(* Simulation events, their order and the adjustment of the time of an     *)
(* event that crosses hosts: what the scheduler policies of                *)
(* src/phantom/src/main/core/scheduler and the abstract simulation share.  *)
(***************************************************************************)
EXTENDS Integers, Sequences

CONSTANTS
    Hosts,          \* host ids (naturals: host_compare compares them)
    EndTime,        \* simulation stop time
    SIMTIME_MAX,    \* "no event"; later than any time
    Jumps,          \* lengths a round's window may have
    Emits(_, _),    \* Emits(h, e): the sequences of <<destination, delay>>
                    \* that executing e on h may send
    BootTimes,      \* BootTimes[h]: times of the events h schedules at boot
    MaxEvents       \* bound: events a host may create

\* An event that has been pushed.
Event == [time : 0 .. EndTime, dst : Hosts, src : Hosts, id : 0 .. MaxEvents]

ASSUME EventsAssumption ==
    /\ Hosts \subseteq Nat
    /\ EndTime \in Nat \ {0}
    /\ SIMTIME_MAX \in Nat /\ SIMTIME_MAX > EndTime
    /\ Jumps \subseteq Nat \ {0} /\ Jumps # {}
    /\ \A h \in Hosts : \A e \in Event : Emits(h, e) \subseteq Seq(Hosts \X Nat)
    /\ BootTimes \in [Hosts -> SUBSET Nat]
    /\ MaxEvents \in Nat

\* event_compare: time, destination, source, creation order on the source.
EventBefore(a, b) ==
    \/ a.time < b.time
    \/ a.time = b.time /\ a.dst < b.dst
    \/ a.time = b.time /\ a.dst = b.dst /\ a.src < b.src
    \/ a.time = b.time /\ a.dst = b.dst /\ a.src = b.src /\ a.id < b.id

\* Faulty variant: a queue that orders events by time only.
IsFirstByTime(e, S) == e \in S /\ \A f \in S : e.time <= f.time

\* priorityqueue_peek
IsFirst(e, S) == e \in S /\ \A f \in S \ {e} : EventBefore(e, f)

\* The time of the event at the head of a queue; SIMTIME_MAX when empty.
LeastTime(S) ==
    IF S = {} THEN SIMTIME_MAX
    ELSE CHOOSE t \in {e.time : e \in S} : \A e \in S : t <= e.time

Lesser(a, b) == IF a < b THEN a ELSE b

\* event_new_ for each <<destination, delay>> of s: event k of s, created on
\* host h at time now, when h has already created n events.
NewEvents(s, h, now, n) ==
    [k \in 1 .. Len(s) |->
        [time |-> now + s[k][2], dst |-> s[k][1], src |-> h, id |-> n + k]]

\* Faulty variant: no adjustment.
NotAdjusted(e, barrier) == e

\* An event to another host is not delivered before the round's end.
Adjusted(e, barrier) ==
    IF e.src # e.dst /\ e.time < barrier THEN [e EXCEPT !.time = barrier] ELSE e

\* scheduler_push drops what lies beyond the end of the simulation.
Kept(e) == e.time < EndTime

\* controller_managerFinishedCurrentRound: the end of a window that starts
\* at the time m of the next event; the simulation goes on while it is after m.
WindowEnd(m, jump) == IF m + jump > EndTime THEN EndTime ELSE m + jump

\* The events the boot tasks leave in a host's queue.
BootEvents(h) == {e \in [time : BootTimes[h], dst : {h}, src : {h}, id : {0}] : Kept(e)}
=============================================================================
