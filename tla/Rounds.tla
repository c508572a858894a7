------------------------------- MODULE Rounds -------------------------------
(***************************************************************************)
(* What drives every scheduler policy: a worker's round                    *)
(* (_scheduler_runEventsWorkerTaskFn), the execution of an event           *)
(* (worker_runEvent), scheduler_push up to the call of the policy, and the *)
(* main thread's step from one round to the next (manager_run).  A policy's*)
(* module extends this one and adds the policy's state and its push, pop   *)
(* and getNextTime.                                                        *)
(***************************************************************************)
EXTENDS SimEvents, FiniteSets

CONSTANT NThreads   \* worker threads

ASSUME ThreadsAssumption == NThreads \in Nat \ {0} /\ IsFiniteSet(Hosts)

Threads == 0 .. NThreads - 1

\* Hosts are dealt to the workers in turn, so only the first of the threads
\* get hosts when there are more threads than hosts.
ThreadCount == Lesser(NThreads, Cardinality(Hosts))

None == -1

VARIABLES
    barrier,   \* currentRound.endTime
    over,      \* the main thread has left the loop of manager_run
    pc,        \* where each worker is
    cur,       \* the event a worker has popped and not yet executed
    outbox,    \* the events it has created and not yet pushed
    minTime,   \* its entry of minEventTimes
    clock,     \* per host: the time of the event executed last
    nextId     \* per host: the number of events created

roundVars == <<barrier, over, pc, cur, outbox, minTime, clock, nextId>>
roundVarsButPc == <<barrier, over, cur, outbox, minTime, clock, nextId>>

\* Everything but pc, when the first round starts.
RoundInit ==
    /\ barrier = 1
    /\ over = FALSE
    /\ cur = [t \in Threads |-> {}]
    /\ outbox = [t \in Threads |-> <<>>]
    /\ minTime = [t \in Threads |-> SIMTIME_MAX]
    /\ clock = [h \in Hosts |-> 0]
    /\ nextId = [h \in Hosts |-> 0]

RoundTypeOK ==
    /\ barrier \in 1 .. EndTime
    /\ over \in BOOLEAN
    /\ cur \in [Threads -> SUBSET Event]
    /\ outbox \in [Threads -> Seq([time : Nat, dst : Hosts, src : Hosts,
                                   id : 0 .. MaxEvents])]
    /\ minTime \in [Threads -> 0 .. EndTime \cup {SIMTIME_MAX}]
    /\ clock \in [Hosts -> 0 .. EndTime]
    /\ nextId \in [Hosts -> 0 .. MaxEvents]

\* _scheduler_assignHosts: some order of the hosts, dealt in turn.
Dealt(assigned) ==
    \A t \in Threads :
        Cardinality({h \in Hosts : assigned[h] = t})
            = (Cardinality(Hosts) + NThreads - 1 - t) \div NThreads

Goto(t, label) == pc' = [pc EXCEPT ![t] = label]

\* The worker's part of a pop that returns e.
Popped(t, e) == cur' = [cur EXCEPT ![t] = {e}] /\ Goto(t, "execute")

\* worker_runEvent: the host executes the event and creates new ones.
ExecuteEvent(t) ==
    /\ pc[t] = "execute"
    /\ \E e \in cur[t] : \E s \in Emits(e.dst, e) :
          /\ nextId[e.dst] + Len(s) <= MaxEvents
          /\ outbox' = [outbox EXCEPT ![t] = NewEvents(s, e.dst, e.time, nextId[e.dst])]
          /\ clock' = [clock EXCEPT ![e.dst] = e.time]
          /\ nextId' = [nextId EXCEPT ![e.dst] = @ + Len(s)]
    /\ cur' = [cur EXCEPT ![t] = {}]
    /\ Goto(t, "push")
    /\ UNCHANGED <<barrier, over, minTime>>

\* Faulty variant: an event of this round counts, too.
SetAnyEventTime(t, time) == minTime' = [minTime EXCEPT ![t] = Lesser(time, @)]

\* worker_setMinEventTimeNextRound: an event of this round does not count.
SetMinEventTime(t, time) ==
    minTime' = IF time < barrier THEN minTime
               ELSE [minTime EXCEPT ![t] = Lesser(time, @)]

\* Faulty variant: the event pushed is not reported for the next round.
PushNextUnreported(t, time) ==
    /\ pc[t] = "push"
    /\ outbox[t] # <<>>
    /\ Kept(Head(outbox[t]))
    /\ outbox' = [outbox EXCEPT ![t] = Tail(@)]
    /\ UNCHANGED <<barrier, over, pc, cur, minTime, clock, nextId>>

\* scheduler_push of the next event, which the policy delivers at time.
PushNext(t, time) ==
    /\ pc[t] = "push"
    /\ outbox[t] # <<>>
    /\ Kept(Head(outbox[t]))
    /\ SetMinEventTime(t, time)
    /\ outbox' = [outbox EXCEPT ![t] = Tail(@)]
    /\ UNCHANGED <<barrier, over, pc, cur, clock, nextId>>

\* scheduler_push of an event beyond the end of the simulation.
PushDropped(t) ==
    /\ pc[t] = "push"
    /\ outbox[t] # <<>>
    /\ ~Kept(Head(outbox[t]))
    /\ outbox' = [outbox EXCEPT ![t] = Tail(@)]
    /\ UNCHANGED <<barrier, over, pc, cur, minTime, clock, nextId>>

EventDone(t) ==
    /\ pc[t] = "push"
    /\ outbox[t] = <<>>
    /\ Goto(t, "pop")
    /\ UNCHANGED <<barrier, over, cur, outbox, minTime, clock, nextId>>

\* The worker's last step in a round, when getNextTime returned time.
FinishRound(t, time) ==
    /\ SetMinEventTime(t, time)
    /\ Goto(t, "done")
    /\ UNCHANGED <<barrier, over, cur, outbox, clock, nextId>>

GlobalNextEventTime ==
    CHOOSE m \in {minTime[t] : t \in Threads} : \A t \in Threads : m <= minTime[t]

\* Faulty variant: the times of the last round are kept.
TimesNotReset == UNCHANGED minTime

\* workerpool_getGlobalNextEventTime leaves no time behind.
TimesReset == minTime' = [t \in Threads |-> SIMTIME_MAX]

\* The main thread, between rounds: manager_run.
NextRound(jump) ==
    /\ ~over
    /\ \A t \in Threads : pc[t] = "done"
    /\ TimesReset
    /\ IF GlobalNextEventTime < WindowEnd(GlobalNextEventTime, jump)
       THEN /\ barrier' = WindowEnd(GlobalNextEventTime, jump)
            /\ pc' = [t \in Threads |-> "pop"]
            /\ UNCHANGED over
       ELSE /\ over' = TRUE
            /\ UNCHANGED <<barrier, pc>>
    /\ UNCHANGED <<cur, outbox, clock, nextId>>

-----------------------------------------------------------------------------
\* The events of thread t that are in no queue: the one it has popped and the
\* ones it will still push, as the host policies' push will deliver them.
InFlight(t, h) ==
    {e \in cur[t] : e.dst = h} \cup
    {Adjusted(e, barrier) :
        e \in {f \in {outbox[t][k] : k \in 1 .. Len(outbox[t])} : f.dst = h /\ Kept(f)}}
=============================================================================
