----------------------------- MODULE HostSteal ------------------------------
(***************************************************************************)
(* The work-stealing scheduler policy                                      *)
(* (src/phantom/src/main/core/scheduler/scheduler_policy_host_steal.c).    *)
(*                                                                         *)
(* Every thread runs the hosts of its own list and then steals hosts from  *)
(* the lists of the others.  A thread's lock is explicit, because a thief  *)
(* holds two of them.  The lock of a host's queue is not: its holder waits *)
(* for nothing but the tables' lock, whose holders wait for nothing, so a  *)
(* critical section under it is one step.  The two lists of a thread are   *)
(* sets: their order decides which host runs first and nothing else.       *)
(***************************************************************************)
EXTENDS Rounds

VARIABLES
    \* HostStealThreadData; thread t's tnumber is t
    unproc, proc, running, curBarrier, stealable, tlock,
    \* HostStealQueueData and the host-to-thread table
    pq, lastTime, hostThread,
    \* a worker's local variables: the offset of its victim and, in
    \* getNextTime, the hosts still to look at and the least time so far
    off, scan, scanMin

threadVars == <<unproc, proc, running, curBarrier, stealable>>
queueVars == <<pq, lastTime, hostThread>>
policyVars == <<unproc, proc, running, curBarrier, stealable, tlock, pq,
                lastTime, hostThread, off, scan, scanMin>>
vars == <<barrier, over, pc, cur, outbox, minTime, clock, nextId,
          unproc, proc, running, curBarrier, stealable, tlock, pq, lastTime,
          hostThread, off, scan, scanMin>>

Init ==
    /\ RoundInit
    /\ pc = [t \in Threads |-> "pop"]
    /\ \E assigned \in [Hosts -> Threads] :
          /\ Dealt(assigned)
          /\ hostThread = assigned
          /\ unproc = [t \in Threads |-> {h \in Hosts : assigned[h] = t}]
    /\ proc = [t \in Threads |-> {}]
    /\ running = [t \in Threads |-> None]
    /\ curBarrier = [t \in Threads |-> 0]
    /\ stealable = [t \in Threads |-> FALSE]
    /\ tlock = [t \in Threads |-> None]
    /\ pq = [h \in Hosts |-> BootEvents(h)]
    /\ lastTime = [h \in Hosts |-> 0]
    /\ off = [t \in Threads |-> 0]
    /\ scan = [t \in Threads |-> {}]
    /\ scanMin = [t \in Threads |-> SIMTIME_MAX]

(***************************************************************************)
(* _schedulerpolicyhoststeal_pop                                           *)
(***************************************************************************)

NewRound(t) == barrier > curBarrier[t]

\* Take the thread's own lock and, the first time in a round, make the hosts
\* processed in the last round available again.
PopLock(t) ==
    /\ pc[t] = "pop"
    /\ t < ThreadCount
    /\ tlock[t] = None
    /\ tlock' = [tlock EXCEPT ![t] = t]
    /\ IF NewRound(t)
       THEN /\ curBarrier' = [curBarrier EXCEPT ![t] = barrier]
            /\ unproc' = [unproc EXCEPT ![t] = @ \cup proc[t]]
            /\ proc' = [proc EXCEPT ![t] = {}]
            /\ stealable' = [stealable EXCEPT ![t] = TRUE]
       ELSE UNCHANGED <<curBarrier, unproc, proc, stealable>>
    /\ off' = [off EXCEPT ![t] = 0]
    /\ Goto(t, "popFrom")
    /\ UNCHANGED <<roundVarsButPc, running, queueVars, scan, scanMin>>

\* The thread whose list t pops from: itself at offset 0, else its victim.
Victim(t) == IF t + off[t] < ThreadCount THEN t + off[t] ELSE t + off[t] - ThreadCount

Release(t) == tlock' = [u \in Threads |-> IF tlock[u] = t THEN None ELSE tlock[u]]

\* The host popFromThread works on: the running one, else any from the list.
PopsHost(t, h) ==
    \/ running[t] = h
    \/ running[t] = None /\ h \in unproc[Victim(t)]

\* Faulty variant: the host is looked at, and stays in the list.
LeaveInList(t, h) == UNCHANGED unproc

TakeFromList(t, h) == unproc' = [unproc EXCEPT ![Victim(t)] = @ \ {h}]

\* _schedulerpolicyhoststeal_migrateHost
MigrateHost(h, t) == hostThread' = [hostThread EXCEPT ![h] = t]

\* popFromThread finds an event of h before the barrier; a host that ran on
\* another thread migrates to this one.
PopEvent(t, h) ==
    /\ pc[t] = "popFrom"
    /\ PopsHost(t, h)
    /\ \E e \in pq[h] :
          /\ IsFirst(e, pq[h])
          /\ e.time < barrier
          /\ pq' = [pq EXCEPT ![h] = @ \ {e}]
          /\ lastTime' = [lastTime EXCEPT ![h] = e.time]
          /\ Popped(t, e)
    /\ MigrateHost(h, t)
    /\ running' = [running EXCEPT ![t] = h]
    /\ TakeFromList(t, h)
    /\ Release(t)
    /\ UNCHANGED <<barrier, over, proc, curBarrier, stealable, off, outbox,
                   scan, scanMin, minTime, clock, nextId>>

\* popFromThread finds h has no more events this round.
HostProcessed(t, h) ==
    /\ pc[t] = "popFrom"
    /\ PopsHost(t, h)
    /\ \A e \in pq[h] : e.time >= barrier
    /\ TakeFromList(t, h)
    /\ proc' = [proc EXCEPT ![t] = @ \cup {h}]
    /\ running' = [running EXCEPT ![t] = None]
    /\ UNCHANGED <<roundVars, curBarrier, stealable, tlock, queueVars, off,
                   scan, scanMin>>

\* popFromThread returns no event: go on with the next thread to steal from.
ListExhausted(t) ==
    /\ pc[t] = "popFrom"
    /\ running[t] = None
    /\ unproc[Victim(t)] = {}
    /\ Release(t)
    /\ off' = [off EXCEPT ![t] = @ + 1]
    /\ Goto(t, "probe")
    /\ UNCHANGED <<roundVarsButPc, threadVars, queueVars, scan, scanMin>>

MoreToSteal(t) == off[t] < ThreadCount

\* Under the victim's lock: has it begun this round?  If not, wait for it.
Probe(t) ==
    /\ pc[t] = "probe"
    /\ MoreToSteal(t)
    /\ tlock[Victim(t)] = None
    /\ IF barrier > curBarrier[Victim(t)]
       THEN /\ stealable' = [stealable EXCEPT ![Victim(t)] = FALSE]
            /\ Goto(t, "spin")
       ELSE /\ Goto(t, "peek")
            /\ UNCHANGED stealable
    /\ UNCHANGED <<roundVarsButPc, unproc, proc, running, curBarrier, tlock,
                   queueVars, off, scan, scanMin>>

Spin(t) ==
    /\ pc[t] = "spin"
    /\ stealable[Victim(t)]
    /\ Goto(t, "peek")
    /\ UNCHANGED <<roundVarsButPc, threadVars, tlock, queueVars, off, scan,
                   scanMin>>

\* The unlocked look at the victim's list.
Peek(t) ==
    /\ pc[t] = "peek"
    /\ IF unproc[Victim(t)] = {}
       THEN off' = [off EXCEPT ![t] = @ + 1] /\ Goto(t, "probe")
       ELSE Goto(t, "lockFirst") /\ UNCHANGED off
    /\ UNCHANGED <<roundVarsButPc, threadVars, tlock, queueVars, scan,
                   scanMin>>

\* Both locks, the one of the lower thread number first.
FirstLock(t) == Lesser(t, Victim(t))
SecondLock(t) == IF t < Victim(t) THEN Victim(t) ELSE t

LockFirst(t) ==
    /\ pc[t] = "lockFirst"
    /\ tlock[FirstLock(t)] = None
    /\ tlock' = [tlock EXCEPT ![FirstLock(t)] = t]
    /\ Goto(t, "lockSecond")
    /\ UNCHANGED <<roundVarsButPc, threadVars, queueVars, off, scan, scanMin>>

LockSecond(t) ==
    /\ pc[t] = "lockSecond"
    /\ tlock[SecondLock(t)] = None
    /\ tlock' = [tlock EXCEPT ![SecondLock(t)] = t]
    /\ Goto(t, "popFrom")
    /\ UNCHANGED <<roundVarsButPc, threadVars, queueVars, off, scan, scanMin>>

(***************************************************************************)
(* _schedulerpolicyhoststeal_push, under the thread's own lock             *)
(***************************************************************************)
PushEvent(t) ==
    LET e == Adjusted(Head(outbox[t]), barrier)
    IN  /\ PushNext(t, e.time)
        /\ tlock[t] = None
        /\ pq' = [pq EXCEPT ![e.dst] = @ \cup {e}]
        /\ UNCHANGED <<threadVars, tlock, lastTime, hostThread, off, scan,
                       scanMin>>

(***************************************************************************)
(* After the last pop: _schedulerpolicyhoststeal_getNextTime looks at the  *)
(* queues of the thread's hosts one by one, while other threads push.      *)
(***************************************************************************)
PopReturnsNull(t) ==
    /\ \/ pc[t] = "pop" /\ t >= ThreadCount   \* no tdata: t was given no host
       \/ pc[t] = "probe" /\ ~MoreToSteal(t)
    /\ scan' = [scan EXCEPT ![t] = unproc[t] \cup proc[t]]
    /\ Goto(t, "scan")
    /\ UNCHANGED <<roundVarsButPc, threadVars, tlock, queueVars, off,
                   scanMin>>

FindMinTime(t, h) ==
    /\ pc[t] = "scan"
    /\ h \in scan[t]
    /\ scan' = [scan EXCEPT ![t] = @ \ {h}]
    /\ scanMin' = [scanMin EXCEPT ![t] = Lesser(LeastTime(pq[h]), @)]
    /\ UNCHANGED <<roundVars, threadVars, tlock, queueVars, off>>

NextTimeFound(t) ==
    /\ pc[t] = "scan"
    /\ scan[t] = {}
    /\ FinishRound(t, scanMin[t])
    /\ scanMin' = [scanMin EXCEPT ![t] = SIMTIME_MAX]
    /\ UNCHANGED <<threadVars, tlock, queueVars, off, scan>>

ThreadStep(t) ==
    \/ PopLock(t)
    \/ \E h \in Hosts : PopEvent(t, h) \/ HostProcessed(t, h) \/ FindMinTime(t, h)
    \/ ListExhausted(t)
    \/ Probe(t)
    \/ Spin(t)
    \/ Peek(t)
    \/ LockFirst(t)
    \/ LockSecond(t)
    \/ ExecuteEvent(t) /\ UNCHANGED policyVars
    \/ PushEvent(t)
    \/ PushDropped(t) /\ UNCHANGED policyVars
    \/ EventDone(t) /\ UNCHANGED policyVars
    \/ PopReturnsNull(t)
    \/ NextTimeFound(t)

MainStep == \E jump \in Jumps : NextRound(jump) /\ UNCHANGED policyVars

\* The simulation has ended.
Stopped == over /\ UNCHANGED vars

Next == (\E t \in Threads : ThreadStep(t)) \/ MainStep \/ Stopped

Spec == Init /\ [][Next]_vars

\* Every worker thread and the main thread keep running.
Fairness == WF_vars(MainStep) /\ \A t \in Threads : WF_vars(ThreadStep(t))

FairSpec == Spec /\ Fairness

-----------------------------------------------------------------------------
(***************************************************************************)
(* Properties                                                              *)
(***************************************************************************)
TypeOK ==
    /\ RoundTypeOK
    /\ unproc \in [Threads -> SUBSET Hosts]
    /\ proc \in [Threads -> SUBSET Hosts]
    /\ running \in [Threads -> Hosts \cup {None}]
    /\ curBarrier \in [Threads -> 0 .. EndTime]
    /\ stealable \in [Threads -> BOOLEAN]
    /\ tlock \in [Threads -> Threads \cup {None}]
    /\ pq \in [Hosts -> SUBSET Event]
    /\ lastTime \in [Hosts -> 0 .. EndTime]
    /\ hostThread \in [Hosts -> Threads]
    /\ pc \in [Threads -> {"pop", "popFrom", "probe", "spin", "peek", "lockFirst",
                            "lockSecond", "execute", "push", "scan", "done"}]
    /\ off \in [Threads -> 0 .. NThreads]
    /\ scan \in [Threads -> SUBSET Hosts]
    /\ scanMin \in [Threads -> 0 .. EndTime \cup {SIMTIME_MAX}]

Places(h) == {<<t, "unproc">> : t \in {u \in Threads : h \in unproc[u]}}
             \cup {<<t, "proc">> : t \in {u \in Threads : h \in proc[u]}}
             \cup {<<t, "running">> : t \in {u \in Threads : running[u] = h}}

\* However threads steal from one another, a host is at every moment in
\* exactly one list or on exactly one thread: it is neither lost, so that its
\* events would never run again, nor held twice, so that two threads would run
\* it at once.  (The assertion of migrateHost looks at one thread only.)
HostInOnePlace == \A h \in Hosts : Cardinality(Places(h)) = 1

\* The assertion eventTime >= qdata->lastEventTime of popFromThread, for all
\* events that are or will be in the queue: no thread has an event on the way
\* that lies in the past of the host it is for.
NoEventInThePast ==
    /\ \A h \in Hosts : \A e \in pq[h] : e.time >= lastTime[h]
    /\ \A t \in Threads : \A k \in 1 .. Len(outbox[t]) :
          LET e == Adjusted(outbox[t][k], barrier) IN e.time >= lastTime[e.dst]

\* When all workers are through with a round, no host has an event left that
\* belongs to it, although a thread that finds a list empty does not look at
\* it again and an unlocked look may be wrong.
RoundComplete ==
    (\A t \in Threads : pc[t] = "done") =>
        \A h \in Hosts : \A e \in pq[h] : e.time >= barrier

\* A thread that is executing an event is the one hostToThreadMap names: the
\* map follows every migration.
MapFollowsHost ==
    \A t \in Threads : \A e \in cur[t] : running[t] = e.dst /\ hostThread[e.dst] = t

\* Migration keeps the three records of a host together: the lists, the
\* thread that runs it and the map that push consults.
HostsPlaced == TypeOK /\ HostInOnePlace /\ MapFollowsHost

\* A round takes exactly the events of its window: none behind the host it is
\* for, none left for the next round.
RoundExact == NoEventInThePast /\ RoundComplete

Pending == [h \in Hosts |-> pq[h] \cup UNION {InFlight(t, h) : t \in Threads}]

Sim == INSTANCE EventSim WITH pending <- Pending

\* The policy is a conservative parallel simulation: with the popped events
\* and the events on their way to a queue counted as pending, every step of
\* the threads is a step of EventSim or changes nothing there.  The windows
\* in particular are the ones EventSim prescribes, so the times that
\* getNextTime and scheduler_push report while others still push suffice.
ImplementsEventSim == Sim!Spec

\* Neither the spinning, nor the locks taken in pairs, nor the lists that move
\* between threads keep the simulation from its end.
SimulationEnds == <>over
=============================================================================
