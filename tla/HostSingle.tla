----------------------------- MODULE HostSingle -----------------------------
(***************************************************************************)
(* The default scheduler policy                                            *)
(* (src/phantom/src/main/core/scheduler/scheduler_policy_host_single.c):   *)
(* every host has a queue with a lock, and every thread runs the hosts it  *)
(* was given, one after the other.  A critical section under a queue's lock*)
(* is one step: its holder waits for nothing.                              *)
(***************************************************************************)
EXTENDS Rounds

VARIABLES
    unproc,       \* unprocessedHosts, in order
    proc,         \* processedHosts, in order
    curBarrier,   \* currentBarrier of each thread
    pq, lastTime, \* the queue of each host and the time popped from it last
    scan, scanMin \* getNextTime: hosts still to look at, least time so far

policyVars == <<unproc, proc, curBarrier, pq, lastTime, scan, scanMin>>
vars == <<barrier, over, pc, cur, outbox, minTime, clock, nextId,
          unproc, proc, curBarrier, pq, lastTime, scan, scanMin>>

Orders == {f \in [1 .. Cardinality(Hosts) -> Hosts] : \A i, j \in DOMAIN f : f[i] = f[j] => i = j}

\* Host k of the order is given to thread (k - 1) % NThreads.
Hand(order, t) ==
    [j \in 1 .. (Len(order) + NThreads - 1 - t) \div NThreads |->
        order[(j - 1) * NThreads + t + 1]]

Init ==
    /\ RoundInit
    /\ pc = [t \in Threads |-> "pop"]
    /\ \E order \in Orders : unproc = [t \in Threads |-> Hand(order, t)]
    /\ proc = [t \in Threads |-> <<>>]
    /\ curBarrier = [t \in Threads |-> 0]
    /\ pq = [h \in Hosts |-> BootEvents(h)]
    /\ lastTime = [h \in Hosts |-> 0]
    /\ scan = [t \in Threads |-> <<>>]
    /\ scanMin = [t \in Threads |-> SIMTIME_MAX]

(***************************************************************************)
(* _schedulerpolicyhostsingle_pop                                          *)
(***************************************************************************)

\* The first pop of a round: what was processed is to be processed again.
RefillHosts(t) ==
    /\ pc[t] = "pop"
    /\ t < ThreadCount
    /\ barrier > curBarrier[t]
    /\ curBarrier' = [curBarrier EXCEPT ![t] = barrier]
    /\ unproc' = [unproc EXCEPT ![t] = @ \o proc[t]]
    /\ proc' = [proc EXCEPT ![t] = <<>>]
    /\ UNCHANGED <<roundVars, pq, lastTime, scan, scanMin>>

MayPop(t) == pc[t] = "pop" /\ barrier <= curBarrier[t] /\ unproc[t] # <<>>

PopEvent(t) ==
    LET h == Head(unproc[t])
    IN  /\ MayPop(t)
        /\ \E e \in pq[h] :
              /\ IsFirst(e, pq[h])
              /\ e.time < barrier
              /\ pq' = [pq EXCEPT ![h] = @ \ {e}]
              /\ lastTime' = [lastTime EXCEPT ![h] = e.time]
              /\ Popped(t, e)
        /\ UNCHANGED <<barrier, over, outbox, minTime, clock, nextId, unproc, proc,
                       curBarrier, scan, scanMin>>

HostProcessed(t) ==
    LET h == Head(unproc[t])
    IN  /\ MayPop(t)
        /\ \A e \in pq[h] : e.time >= barrier
        /\ unproc' = [unproc EXCEPT ![t] = Tail(@)]
        /\ proc' = [proc EXCEPT ![t] = Append(@, h)]
        /\ UNCHANGED <<roundVars, curBarrier, pq, lastTime, scan, scanMin>>

\* No host is left, or the thread never had one: pop returns NULL, and
\* getNextTime starts.
PopReturnsNull(t) ==
    /\ pc[t] = "pop"
    /\ t < ThreadCount => barrier <= curBarrier[t] /\ unproc[t] = <<>>
    /\ scan' = [scan EXCEPT ![t] = unproc[t] \o proc[t]]
    /\ Goto(t, "scan")
    /\ UNCHANGED <<roundVarsButPc, unproc, proc, curBarrier, pq, lastTime, scanMin>>

(***************************************************************************)
(* _schedulerpolicyhostsingle_push and _getNextTime                        *)
(***************************************************************************)
PushEvent(t) ==
    LET e == Adjusted(Head(outbox[t]), barrier)
    IN  /\ PushNext(t, e.time)
        /\ pq' = [pq EXCEPT ![e.dst] = @ \cup {e}]
        /\ UNCHANGED <<unproc, proc, curBarrier, lastTime, scan, scanMin>>

\* The queues are looked at one by one, while other threads push.
FindMinTime(t) ==
    /\ pc[t] = "scan"
    /\ scan[t] # <<>>
    /\ scan' = [scan EXCEPT ![t] = Tail(@)]
    /\ scanMin' = [scanMin EXCEPT ![t] = Lesser(LeastTime(pq[Head(scan[t])]), @)]
    /\ UNCHANGED <<roundVars, unproc, proc, curBarrier, pq, lastTime>>

NextTimeFound(t) ==
    /\ pc[t] = "scan"
    /\ scan[t] = <<>>
    /\ FinishRound(t, scanMin[t])
    /\ scanMin' = [scanMin EXCEPT ![t] = SIMTIME_MAX]
    /\ UNCHANGED <<unproc, proc, curBarrier, pq, lastTime, scan>>

ThreadStep(t) ==
    \/ RefillHosts(t)
    \/ PopEvent(t)
    \/ HostProcessed(t)
    \/ PopReturnsNull(t)
    \/ ExecuteEvent(t) /\ UNCHANGED policyVars
    \/ PushEvent(t)
    \/ PushDropped(t) /\ UNCHANGED policyVars
    \/ EventDone(t) /\ UNCHANGED policyVars
    \/ FindMinTime(t)
    \/ NextTimeFound(t)

MainStep == \E jump \in Jumps : NextRound(jump) /\ UNCHANGED policyVars

\* The simulation has ended.
Stopped == over /\ UNCHANGED vars

Next == (\E t \in Threads : ThreadStep(t)) \/ MainStep \/ Stopped

Spec == Init /\ [][Next]_vars

\* Every worker thread and the main thread keep running.
Fairness == WF_vars(MainStep) /\ \A t \in Threads : WF_vars(ThreadStep(t))

FairSpec == Spec /\ Fairness

-----------------------------------------------------------------------------
(***************************************************************************)
(* Properties                                                              *)
(***************************************************************************)

Pending == [h \in Hosts |-> pq[h] \cup UNION {InFlight(t, h) : t \in Threads}]

Sim == INSTANCE EventSim WITH pending <- Pending

\* The policy is a conservative parallel simulation: with the popped events
\* and the events on their way to a queue counted as pending, every step of
\* the threads is a step of EventSim or changes nothing there.  The windows
\* in particular are the ones EventSim prescribes, so the times that
\* getNextTime and scheduler_push report while others still push suffice.
ImplementsEventSim == Sim!Spec

\* Every simulation comes to its end.
SimulationEnds == <>over
=============================================================================
