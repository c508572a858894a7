-------------------------- MODULE HostSteal_proofs --------------------------
(***************************************************************************)
(* Proofs about HostSteal, for every number of threads and every finite    *)
(* set of hosts, whatever the hosts send: however hosts migrate between    *)
(* threads, none is lost or run twice, a round takes exactly the events of *)
(* its window, and the policy is the simulation EventSim.                  *)
(***************************************************************************)
EXTENDS HostSteal, FiniteSetTheorems, WellFoundedInduction, TLAPS

Stealing == {"spin", "peek", "lockFirst", "lockSecond"}

\* Where a worker is says what it holds.
WorkInv ==
    \A t \in Threads :
        /\ cur[t] # {} => pc[t] = "execute"
        /\ \A d, e \in cur[t] : d = e
        /\ outbox[t] # <<>> => pc[t] = "push"
        /\ running[t] # None => pc[t] \in {"pop", "popFrom", "execute", "push"}
        /\ pc[t] \in {"execute", "push"} => running[t] # None
        /\ pc[t] \notin {"pop", "scan", "done"} => t < ThreadCount
        /\ pc[t] \in {"popFrom"} \cup Stealing => off[t] < ThreadCount
        /\ pc[t] = "probe" => off[t] <= ThreadCount
        /\ t >= ThreadCount => unproc[t] = {} /\ proc[t] = {} /\ running[t] = None
        /\ scan[t] # {} => pc[t] = "scan"
        /\ scan[t] \subseteq proc[t]
        /\ scanMin[t] # SIMTIME_MAX => pc[t] = "scan"
        /\ over => pc[t] = "done"

Holds(t, h) == h \in unproc[t] \/ h \in proc[t] \/ running[t] = h

\* Every host is somewhere, and nowhere twice.
PlaceInv ==
    /\ \A h \in Hosts : \E t \in Threads : Holds(t, h)
    /\ \A t, u \in Threads : \A h \in Hosts : Holds(t, h) /\ Holds(u, h) => t = u
    /\ \A t \in Threads :
          /\ unproc[t] \cap proc[t] = {}
          /\ running[t] \notin unproc[t] \cup proc[t]

\* The events in a queue are its host's and lie ahead of it; the popped one is
\* the first of them; what a host has sent carries its name and lies ahead.
EventsInv ==
    /\ \A h \in Hosts :
          /\ clock[h] <= lastTime[h] /\ lastTime[h] < barrier
          /\ \A e \in pq[h] : e.dst = h /\ lastTime[h] <= e.time
    /\ \A t \in Threads : \A e \in cur[t] :
          /\ e.dst = running[t] /\ hostThread[e.dst] = t /\ e.time = lastTime[e.dst]
          /\ \A f \in pq[e.dst] : EventBefore(e, f)
    /\ \A t \in Threads : \A k \in 1 .. Len(outbox[t]) :
          outbox[t][k].src = running[t] /\ lastTime[running[t]] <= outbox[t][k].time

\* Thread v has begun the round, and no host of its list is left.
Begun(v) == curBarrier[v] = barrier
Emptied(v) == Begun(v) /\ unproc[v] = {}

\* The victim of t at an offset.
At(t, k) == IF t + k < ThreadCount THEN t + k ELSE t + k - ThreadCount

\* What thread t has looked at stays so until the next round: a list that was
\* found empty after its owner had begun is empty.
RoundOf(t) ==
    /\ pc[t] # "pop" => Begun(t)
    /\ pc[t] \in {"popFrom", "peek", "lockFirst", "lockSecond"} => Begun(Victim(t))
    /\ pc[t] = "spin" /\ stealable[Victim(t)] => Begun(Victim(t))
    /\ pc[t] \in {"popFrom", "probe"} \cup Stealing => \A k \in 0 .. off[t] - 1 : Emptied(At(t, k))
    /\ pc[t] \in {"scan", "done"} => \A v \in 0 .. ThreadCount - 1 : Emptied(v)

RoundInv ==
    /\ \A t \in Threads : curBarrier[t] <= barrier
    /\ \A t \in Threads : \A h \in proc[t] : Begun(t) => \A e \in pq[h] : barrier <= e.time
    /\ \A t \in 0 .. ThreadCount - 1 : RoundOf(t)

\* A time that is reported is "none" or that of an event of a later round.
Reported(time) ==
    time = SIMTIME_MAX \/ (barrier <= time /\ \E h \in Hosts : \E e \in pq[h] : e.time = time)

\* The host will still be looked at by getNextTime in this round.
ToBeScanned(h) ==
    \E t \in Threads :
        \/ h \in unproc[t] \/ running[t] = h
        \/ h \in proc[t] /\ (pc[t] \notin {"scan", "done"} \/ h \in scan[t])

Covered(time) ==
    \E t \in Threads : minTime[t] <= time \/ (pc[t] = "scan" /\ scanMin[t] <= time)

\* The times reported so far and those still to come make up the earliest.
TimesInv ==
    /\ \A t \in Threads : Reported(minTime[t]) /\ Reported(scanMin[t])
    /\ ~over => \A h \in Hosts : \A e \in pq[h] :
          barrier <= e.time => Covered(e.time) \/ ToBeScanned(h)

\* The inductive invariant.
IInv == TypeOK /\ WorkInv /\ PlaceInv /\ EventsInv /\ RoundInv /\ TimesInv

-----------------------------------------------------------------------------
(***************************************************************************)
(* The operators the policy is built from                                  *)
(***************************************************************************)

\* An event as it is created: it may lie beyond the end of the simulation.
NewEvent == [time : Nat, dst : Hosts, src : Hosts, id : 0 .. MaxEvents]

\* The hosts are finite in number, so there is a number of threads with hosts.
LEMMA ThreadCountType ==
    /\ ThreadCount \in Nat /\ ThreadCount <= NThreads
    /\ 0 .. ThreadCount - 1 \subseteq Threads
    /\ \A t \in Threads : t < ThreadCount => t \in 0 .. ThreadCount - 1
<1>1. Cardinality(Hosts) \in Nat /\ NThreads \in Nat
    BY ThreadsAssumption, FS_CardinalityType
<1> QED BY <1>1 DEF ThreadCount, Lesser, Threads

\* A victim is a thread with hosts.
LEMMA AtThread ==
    ASSUME NEW t \in Threads, t < ThreadCount, NEW k \in Nat, k < ThreadCount
    PROVE  At(t, k) \in 0 .. ThreadCount - 1 /\ At(t, k) \in Threads
    BY ThreadCountType DEF At, Threads

\* The thread whose list is popped from is one of them.
LEMMA VictimThread ==
    ASSUME TypeOK, NEW t \in Threads, t < ThreadCount, off[t] < ThreadCount
    PROVE  /\ Victim(t) = At(t, off[t]) /\ off[t] \in Nat
           /\ Victim(t) \in 0 .. ThreadCount - 1 /\ Victim(t) \in Threads
<1>1. off[t] \in Nat
    BY ThreadsAssumption DEF TypeOK
<1> QED BY <1>1, AtThread DEF Victim, At

\* All threads with hosts are victims, the thread itself included.
LEMMA AllVictims ==
    ASSUME NEW t \in Threads, t < ThreadCount, NEW v \in 0 .. ThreadCount - 1
    PROVE  \E k \in 0 .. ThreadCount - 1 : At(t, k) = v
<1>1. CASE v >= t
  <2>1. v - t \in 0 .. ThreadCount - 1 /\ At(t, v - t) = v
      BY <1>1, ThreadCountType DEF At, Threads
  <2> QED BY <2>1
<1>2. CASE v < t
  <2>1. v - t + ThreadCount \in 0 .. ThreadCount - 1 /\ At(t, v - t + ThreadCount) = v
      BY <1>2, ThreadCountType DEF At, Threads
  <2> QED BY <2>1
<1> QED BY <1>1, <1>2, ThreadCountType DEF Threads

\* None is no host.
LEMMA NoneNoHost == None \notin Hosts
    BY EventsAssumption DEF None

\* A set of times has a least one.
LEMMA LeastNumber ==
    ASSUME NEW T, T \subseteq Nat, T # {}
    PROVE  \E x \in T : \A y \in T : x <= y
<1>1. PICK x \in T : \A y \in T : ~(<<y, x>> \in OpToRel(<, Nat))
    BY NatLessThanWellFounded, WFMin
<1>2. \A y \in T : ~(y < x)
    BY <1>1 DEF OpToRel
<1> QED BY <1>2

\* The time at the head of a queue.
LEMMA LeastTimeOf ==
    ASSUME NEW S, \A e \in S : e.time \in Nat
    PROVE  /\ S = {} => LeastTime(S) = SIMTIME_MAX
           /\ S # {} => \E e \in S : e.time = LeastTime(S)
           /\ \A e \in S : LeastTime(S) <= e.time
<1>1. CASE S = {}
    BY <1>1 DEF LeastTime
<1>2. CASE S # {}
  <2>1. \E x \in {e.time : e \in S} : \A y \in {e.time : e \in S} : x <= y
      BY <1>2, LeastNumber
  <2>2. \E x \in {e.time : e \in S} : \A e \in S : x <= e.time
      BY <2>1
  <2>3. LeastTime(S) \in {e.time : e \in S} /\ \A e \in S : LeastTime(S) <= e.time
      BY <1>2, <2>2 DEF LeastTime
  <2> QED BY <1>2, <2>3
<1> QED BY <1>1, <1>2

\* A time that is the time of an event and no later than any is the least.
LEMMA LeastTimeUnique ==
    ASSUME NEW S, \A e \in S : e.time \in Nat, NEW d \in S, \A e \in S : d.time <= e.time
    PROVE  LeastTime(S) = d.time
<1>1. \E e \in S : e.time = LeastTime(S)
    BY LeastTimeOf
<1>2. LeastTime(S) <= d.time /\ d.time <= LeastTime(S)
    BY <1>1, LeastTimeOf
<1> QED BY <1>1, <1>2

\* The time at which push delivers an event.
LEMMA AdjustedEvent ==
    ASSUME NEW e \in NewEvent, NEW b \in 1 .. EndTime
    PROVE  /\ Adjusted(e, b).dst = e.dst /\ Adjusted(e, b).src = e.src
           /\ Adjusted(e, b).time \in Nat
           /\ e.time <= Adjusted(e, b).time
           /\ e.src # e.dst => b <= Adjusted(e, b).time
           /\ e.src = e.dst => Adjusted(e, b) = e
           /\ Kept(e) => Adjusted(e, b) \in Event
<1>1. CASE e.src # e.dst /\ e.time < b
  <2>1. Adjusted(e, b) = [e EXCEPT !.time = b]
      BY <1>1 DEF Adjusted
  <2> QED BY <1>1, <2>1, EventsAssumption DEF NewEvent, Event
<1>2. CASE ~(e.src # e.dst /\ e.time < b)
  <2>1. Adjusted(e, b) = e
      BY <1>2 DEF Adjusted
  <2> QED BY <1>2, <2>1, EventsAssumption DEF NewEvent, Event, Kept
<1> QED BY <1>1, <1>2

\* The events that a host creates.
LEMMA NewEventsType ==
    ASSUME NEW s \in Seq(Hosts \X Nat), NEW h \in Hosts, NEW now \in Nat, NEW n \in Nat,
           n + Len(s) <= MaxEvents
    PROVE  /\ NewEvents(s, h, now, n) \in Seq(NewEvent)
           /\ Len(NewEvents(s, h, now, n)) = Len(s)
           /\ \A k \in 1 .. Len(s) : /\ NewEvents(s, h, now, n)[k].src = h
                                     /\ now <= NewEvents(s, h, now, n)[k].time
<1>1. \A k \in 1 .. Len(s) : s[k] \in Hosts \X Nat
    OBVIOUS
<1>2. \A k \in 1 .. Len(s) : s[k][1] \in Hosts /\ s[k][2] \in Nat /\ n + k \in 0 .. MaxEvents
  <2>1. MaxEvents \in Nat /\ Len(s) \in Nat
      BY EventsAssumption
  <2>2. \A k \in 1 .. Len(s) : n + k \in 0 .. MaxEvents
      BY <2>1
  <2>3. \A x \in Hosts \X Nat : x[1] \in Hosts /\ x[2] \in Nat
      OBVIOUS
  <2> QED BY <1>1, <2>2, <2>3
<1>3. \A k \in 1 .. Len(s) :
         [time |-> now + s[k][2], dst |-> s[k][1], src |-> h, id |-> n + k] \in NewEvent
    BY <1>2 DEF NewEvent
<1>4. NewEvents(s, h, now, n) \in [1 .. Len(s) -> NewEvent] /\ Len(s) \in Nat
    BY <1>3 DEF NewEvents
<1>5. NewEvents(s, h, now, n) \in Seq(NewEvent) /\ Len(NewEvents(s, h, now, n)) = Len(s)
    BY <1>4
<1> QED BY <1>2, <1>5 DEF NewEvents

\* The first event of a queue is no later than the others.
LEMMA FirstEvent ==
    ASSUME NEW S \in SUBSET Event, NEW e, IsFirst(e, S)
    PROVE  /\ e \in S /\ \A f \in S : e.time <= f.time
           /\ \A f \in S \ {e} : EventBefore(e, f)
    BY DEF IsFirst, EventBefore, Event

-----------------------------------------------------------------------------
(***************************************************************************)
(* What a step that leaves some variables alone preserves                  *)
(***************************************************************************)

\* The lists and the running hosts decide about PlaceInv.
LEMMA PlaceFrame ==
    ASSUME PlaceInv, UNCHANGED <<unproc, proc, running>>
    PROVE  PlaceInv'
    BY DEF PlaceInv, Holds

\* EventsInv is about events, and who runs whom.
LEMMA EventsFrame ==
    ASSUME EventsInv,
           UNCHANGED <<clock, lastTime, barrier, pq, cur, running, hostThread, outbox>>
    PROVE  EventsInv'
    BY DEF EventsInv

\* TimesInv is not disturbed while the same threads scan and are done.
LEMMA TimesFrame ==
    ASSUME TimesInv,
           UNCHANGED <<minTime, scanMin, barrier, over, pq, unproc, proc, running, scan>>,
           \A t \in Threads : /\ pc'[t] = "scan" <=> pc[t] = "scan"
                              /\ pc'[t] = "done" <=> pc[t] = "done"
    PROVE  TimesInv'
    BY DEF TimesInv, Reported, Covered, ToBeScanned

\* What holds of the victims of a thread that is looking for a host.
LEMMA VictimsOf ==
    ASSUME IInv, NEW t \in Threads, pc[t] \in {"popFrom", "probe"} \cup Stealing
    PROVE  /\ t \in 0 .. ThreadCount - 1 /\ off[t] \in Nat /\ off[t] <= ThreadCount
           /\ \A k \in 0 .. off[t] - 1 : At(t, k) \in Threads
           /\ off[t] < ThreadCount => Victim(t) = At(t, off[t]) /\ Victim(t) \in Threads
           /\ pc[t] # "probe" => off[t] < ThreadCount
<1>1. t < ThreadCount
    BY DEF IInv, WorkInv, Stealing
<1>2. off[t] \in 0 .. NThreads
    BY DEF IInv, TypeOK
<1>3. off[t] \in Nat
    BY <1>2, ThreadsAssumption
<1>4. off[t] <= ThreadCount /\ (pc[t] # "probe" => off[t] < ThreadCount)
    BY <1>3, ThreadCountType DEF IInv, WorkInv, Stealing
<1>5. off[t] < ThreadCount => Victim(t) = At(t, off[t]) /\ Victim(t) \in Threads
    BY <1>1, VictimThread DEF IInv
<1>6. \A k \in 0 .. off[t] - 1 : At(t, k) \in Threads
    BY <1>1, <1>3, <1>4, AtThread, ThreadCountType
<1> QED BY <1>1, <1>3, <1>4, <1>5, <1>6, ThreadCountType

\* A thread that does not move keeps what it knows about the round.
LEMMA OthersRound ==
    ASSUME IInv, NEW u \in 0 .. ThreadCount - 1, pc'[u] = pc[u], off'[u] = off[u],
           \A v \in Threads : /\ Begun(v) => Begun(v)'
                              /\ Emptied(v) => Emptied(v)'
                              /\ stealable'[v] => stealable[v] \/ Begun(v)'
    PROVE  RoundOf(u)'
<1>1. u \in Threads /\ RoundOf(u) /\ \A v \in 0 .. ThreadCount - 1 : v \in Threads
    BY ThreadCountType DEF IInv, RoundInv
<1>2. Victim(u)' = Victim(u)
    BY DEF Victim
<1>3. pc[u] # "pop" => Begun(u)'
    BY <1>1 DEF RoundOf
<1>4. pc[u] \in {"popFrom"} \cup Stealing => Victim(u) \in Threads
    BY <1>1, VictimsOf DEF Stealing
<1>5. pc[u] \in {"popFrom", "peek", "lockFirst", "lockSecond"} => Begun(Victim(u))'
    BY <1>1, <1>2, <1>4 DEF RoundOf, Stealing, Begun
<1>6. pc[u] = "spin" /\ stealable'[Victim(u)] => Begun(Victim(u))'
    BY <1>1, <1>2, <1>4 DEF RoundOf, Stealing, Begun
<1>7. pc[u] \in {"popFrom", "probe"} \cup Stealing => \A k \in 0 .. off[u] - 1 : Emptied(At(u, k))'
    BY <1>1, VictimsOf DEF RoundOf
<1>8. pc[u] \in {"scan", "done"} => \A v \in 0 .. ThreadCount - 1 : Emptied(v)'
    BY <1>1 DEF RoundOf
<1> QED BY <1>2, <1>3, <1>5, <1>6, <1>7, <1>8 DEF RoundOf

-----------------------------------------------------------------------------
(***************************************************************************)
(* The steps of a thread that looks for a host                             *)
(***************************************************************************)

\* The own lock, and in a new round the lists are swapped.
LEMMA PopLockInv ==
    ASSUME IInv, NEW t \in Threads, PopLock(t)
    PROVE  IInv'
<1> USE DEF PopLock, Goto, NewRound, roundVarsButPc, queueVars, IInv
<1>0. /\ t < ThreadCount /\ t \in 0 .. ThreadCount - 1 /\ 0 < ThreadCount
      /\ off'[t] = 0 /\ Victim(t)' = t
      /\ \A u \in Threads : u # t => off'[u] = off[u] /\ pc'[u] = pc[u]
      /\ pc'[t] = "popFrom"
    BY ThreadCountType DEF TypeOK, Victim, Threads
<1>a. barrier \in Int /\ \A u \in Threads : curBarrier[u] \in Int
    BY EventsAssumption DEF TypeOK, RoundTypeOK
<1>b. /\ curBarrier'[t] = barrier /\ \A u \in Threads : u # t => curBarrier'[u] = curBarrier[u]
      /\ \A u \in Threads : u # t => unproc'[u] = unproc[u] /\ proc'[u] = proc[u]
      /\ \A u \in Threads : u # t => stealable'[u] = stealable[u]
      /\ Begun(t) => unproc'[t] = unproc[t] /\ proc'[t] = proc[t] /\ stealable'[t] = stealable[t]
      /\ ~Begun(t) => unproc'[t] = unproc[t] \cup proc[t] /\ proc'[t] = {}
  <2>1. CASE NewRound(t)
    <3>1. ~Begun(t)
        BY <2>1, <1>a DEF Begun
    <3>2. /\ curBarrier'[t] = barrier /\ \A u \in Threads : u # t => curBarrier'[u] = curBarrier[u]
          /\ unproc'[t] = unproc[t] \cup proc[t] /\ proc'[t] = {}
        BY <2>1 DEF TypeOK
    <3>3. \A u \in Threads : u # t => unproc'[u] = unproc[u] /\ proc'[u] = proc[u]
        BY <2>1 DEF TypeOK
    <3>4. \A u \in Threads : u # t => stealable'[u] = stealable[u]
        BY <2>1 DEF TypeOK
    <3> QED BY <3>1, <3>2, <3>3, <3>4
  <2>2. CASE ~NewRound(t)
    <3>1. curBarrier[t] = barrier /\ Begun(t)
        BY <2>2, <1>a DEF Begun, RoundInv
    <3>2. UNCHANGED <<curBarrier, unproc, proc, stealable>>
        BY <2>2
    <3> QED BY <3>1, <3>2
  <2> QED BY <2>1, <2>2
<1>1. TypeOK'
  <2>1. 0 \in 0 .. NThreads /\ barrier \in 0 .. EndTime
      BY ThreadsAssumption DEF TypeOK, RoundTypeOK
  <2>2. tlock' \in [Threads -> Threads \cup {None}] /\ off' \in [Threads -> 0 .. NThreads]
      BY <2>1 DEF TypeOK
  <2>3. unproc' \in [Threads -> SUBSET Hosts] /\ proc' \in [Threads -> SUBSET Hosts]
    <3>1. CASE NewRound(t)
        BY <3>1 DEF TypeOK
    <3>2. CASE ~NewRound(t)
        BY <3>2 DEF TypeOK
    <3> QED BY <3>1, <3>2
  <2>4. curBarrier' \in [Threads -> 0 .. EndTime]
      BY <2>1 DEF TypeOK
  <2>5. stealable' \in [Threads -> BOOLEAN]
      BY DEF TypeOK
  <2> QED BY <2>2, <2>3, <2>4, <2>5 DEF TypeOK, RoundTypeOK
<1>2. WorkInv'
  <2>1. \A u \in Threads : scan'[u] \subseteq proc'[u]
      BY <1>b DEF WorkInv, TypeOK
  <2>2. \A u \in Threads : u >= ThreadCount => unproc'[u] = {} /\ proc'[u] = {} /\ running'[u] = None
      BY <1>0, <1>b, ThreadCountType DEF WorkInv, Threads
  <2> QED BY <1>0, <2>1, <2>2 DEF WorkInv, Stealing
<1>3. PlaceInv'
  <2>1. \A u \in Threads : \A h : Holds(u, h)' <=> Holds(u, h)
      BY <1>b DEF Holds
  <2>2. \A u \in Threads : unproc'[u] \cap proc'[u] = {} /\ running'[u] \notin unproc'[u] \cup proc'[u]
      BY <1>b DEF PlaceInv
  <2> QED BY <2>1, <2>2 DEF PlaceInv
<1>4. EventsInv'
    BY EventsFrame
<1>5. RoundInv'
  <2>1. \A v \in Threads : (Begun(v) => Begun(v)') /\ (Emptied(v) => Emptied(v)')
      BY <1>b DEF Begun, Emptied
  <2>2. \A u \in Threads : \A h \in proc'[u] : Begun(u)' => \A e \in pq[h] : barrier <= e.time
      BY <1>b DEF RoundInv, Begun
  <2>3. \A v \in Threads : stealable'[v] => stealable[v] \/ Begun(v)'
      BY <1>b DEF Begun
  <2>4. ASSUME NEW u \in 0 .. ThreadCount - 1, u # t
        PROVE  RoundOf(u)'
      BY <1>0, <2>1, <2>3, <2>4, OthersRound, ThreadCountType
  <2>5. RoundOf(t)'
    <3>1. Begun(t)' /\ Begun(Victim(t))' /\ 0 .. off'[t] - 1 = {}
        BY <1>0, <1>b DEF Begun
    <3> QED BY <3>1, <1>0 DEF RoundOf
  <2>6. \A u \in Threads : curBarrier'[u] <= barrier
      BY <1>a, <1>b DEF RoundInv
  <2> QED BY <2>2, <2>4, <2>5, <2>6 DEF RoundInv, Begun
<1>6. TimesInv'
  <2>1. \A h \in Hosts : ToBeScanned(h) => ToBeScanned(h)'
    <3> SUFFICES ASSUME NEW h \in Hosts, NEW u \in Threads,
                        \/ h \in unproc[u] \/ running[u] = h
                        \/ h \in proc[u] /\ (pc[u] \notin {"scan", "done"} \/ h \in scan[u])
                 PROVE  \/ h \in unproc'[u] \/ running'[u] = h
                        \/ h \in proc'[u] /\ (pc'[u] \notin {"scan", "done"} \/ h \in scan'[u])
        BY DEF ToBeScanned
    <3>1. CASE u = t
        BY <3>1, <1>0, <1>b
    <3>2. CASE u # t
        BY <3>2, <1>0, <1>b
    <3> QED BY <3>1, <3>2
  <2> QED BY <1>0, <2>1 DEF TimesInv, Reported, Covered
<1> QED BY <1>1, <1>2, <1>3, <1>4, <1>5, <1>6

\* A step of a thread between two lists: it only learns something of a victim.
LEMMA LookingInv ==
    ASSUME IInv, NEW t \in Threads,
           NEW p \in {"probe", "spin", "peek", "lockFirst", "lockSecond", "popFrom"},
           pc[t] \in {"popFrom", "probe"} \cup Stealing,
           pc' = [pc EXCEPT ![t] = p],
           running[t] = None,
           UNCHANGED <<roundVarsButPc, unproc, proc, running, curBarrier, queueVars, scan, scanMin>>,
           tlock' \in [Threads -> Threads \cup {None}],
           \/ off' = off /\ (p \in {"popFrom"} \cup Stealing => off[t] < ThreadCount)
           \/ /\ off' = [off EXCEPT ![t] = off[t] + 1] /\ p = "probe"
              /\ off[t] < ThreadCount /\ Emptied(Victim(t)),
           p \in {"popFrom", "peek", "lockFirst", "lockSecond"} => Begun(Victim(t)),
           \/ stealable' = stealable /\ p # "spin"
           \/ stealable' = [stealable EXCEPT ![Victim(t)] = FALSE]
    PROVE  IInv'
<1> USE DEF roundVarsButPc, queueVars, IInv
<1>0. /\ t \in 0 .. ThreadCount - 1 /\ off[t] \in Nat /\ off[t] <= ThreadCount
      /\ \A k \in 0 .. off[t] - 1 : At(t, k) \in Threads
      /\ off[t] < ThreadCount => Victim(t) = At(t, off[t]) /\ Victim(t) \in Threads
      /\ pc'[t] = p
      /\ \A u \in Threads : u # t => pc'[u] = pc[u] /\ off'[u] = off[u] /\ Victim(u)' = Victim(u)
    BY VictimsOf DEF TypeOK, Victim
<1>1. TypeOK'
  <2>1. off' \in [Threads -> 0 .. NThreads]
      BY <1>0, ThreadCountType, ThreadsAssumption DEF TypeOK
  <2>2. stealable' \in [Threads -> BOOLEAN]
      BY DEF TypeOK
  <2>3. pc' \in [Threads -> {"pop", "popFrom", "probe", "spin", "peek", "lockFirst",
                            "lockSecond", "execute", "push", "scan", "done"}]
      BY DEF TypeOK
  <2> QED BY <2>1, <2>2, <2>3 DEF TypeOK, RoundTypeOK
<1>2. WorkInv'
  <2>0. UNCHANGED <<cur, outbox, running, unproc, proc, scan, scanMin, over>> /\ ThreadCount \in Nat
      BY ThreadCountType
  <2>1. ASSUME NEW u \in Threads, u # t
        PROVE  pc'[u] = pc[u] /\ off'[u] = off[u]
      BY <1>0, <2>1
  <2>2. /\ cur[t] = {} /\ outbox[t] = <<>> /\ scan[t] = {} /\ scanMin[t] = SIMTIME_MAX /\ ~over
        /\ t < ThreadCount
      BY DEF WorkInv, Stealing
  <2>3. /\ p \in {"popFrom"} \cup Stealing => off'[t] < ThreadCount
        /\ p = "probe" => off'[t] <= ThreadCount
      BY <1>0, <2>0 DEF TypeOK, Stealing
  <2> QED BY <1>0, <2>0, <2>1, <2>2, <2>3 DEF WorkInv, Stealing
<1>3. PlaceInv' /\ EventsInv'
    BY PlaceFrame, EventsFrame
<1>5. RoundInv'
  <2>1. \A v \in Threads : (Begun(v)' <=> Begun(v)) /\ (Emptied(v)' <=> Emptied(v))
      BY DEF Begun, Emptied
  <2>2. \A v \in Threads : stealable'[v] => stealable[v] \/ Begun(v)'
      BY DEF TypeOK
  <2>3. ASSUME NEW u \in 0 .. ThreadCount - 1, u # t
        PROVE  RoundOf(u)'
      BY <1>0, <2>1, <2>2, <2>3, OthersRound, ThreadCountType
  <2>4. RoundOf(t)'
    <3>0. RoundOf(t)
        BY <1>0 DEF RoundInv
    <3>1. Begun(t)'
        BY <2>1, <3>0 DEF RoundOf, Stealing
    <3>2. CASE off' = off
      <4>1. Victim(t)' = Victim(t)
          BY <3>2 DEF Victim
      <4>2. p = "spin" => ~stealable'[Victim(t)]
          BY <3>2, <1>0 DEF TypeOK, Stealing
      <4>3. p \in {"popFrom", "peek", "lockFirst", "lockSecond"} => Begun(Victim(t))'
          BY <4>1 DEF Begun
      <4>4. \A k \in 0 .. off'[t] - 1 : Emptied(At(t, k))'
          BY <1>0, <2>1, <3>0, <3>2 DEF RoundOf
      <4> QED BY <1>0, <3>1, <4>1, <4>2, <4>3, <4>4 DEF RoundOf
    <3>3. CASE off' # off
      <4>1. /\ p = "probe" /\ off'[t] = off[t] + 1 /\ Emptied(Victim(t))
            /\ Victim(t) = At(t, off[t]) /\ Victim(t) \in Threads
          BY <3>3, <1>0 DEF TypeOK
      <4>2. \A k \in 0 .. off'[t] - 1 : Emptied(At(t, k)) /\ At(t, k) \in Threads
          BY <4>1, <1>0, <3>0 DEF RoundOf
      <4>3. \A k \in 0 .. off'[t] - 1 : Emptied(At(t, k))'
          BY <4>2, <2>1
      <4> QED BY <1>0, <3>1, <4>1, <4>3 DEF RoundOf, Stealing
    <3> QED BY <3>2, <3>3
  <2> QED BY <2>1, <2>3, <2>4 DEF RoundInv, Begun
<1>6. TimesInv'
    BY <1>0, TimesFrame DEF Stealing
<1> QED BY <1>1, <1>2, <1>3, <1>5, <1>6

\* Nothing is left on the list that is popped from.
LEMMA ListExhaustedInv ==
    ASSUME IInv, NEW t \in Threads, ListExhausted(t)
    PROVE  IInv'
<1> USE DEF ListExhausted, Goto, Release, threadVars, IInv
<1>1. off[t] < ThreadCount /\ t \in 0 .. ThreadCount - 1 /\ Emptied(Victim(t))
    BY VictimsOf DEF WorkInv, RoundInv, RoundOf, Emptied
<1>2. tlock' \in [Threads -> Threads \cup {None}]
    BY DEF TypeOK
<1> QED BY <1>1, <1>2, LookingInv

\* Has the victim begun the round?
LEMMA ProbeInv ==
    ASSUME IInv, NEW t \in Threads, Probe(t)
    PROVE  IInv'
<1> USE DEF Probe, Goto, MoreToSteal, IInv
<1>0. off[t] < ThreadCount /\ Victim(t) \in Threads /\ running[t] = None
    BY VictimsOf DEF WorkInv
<1>1. CASE barrier > curBarrier[Victim(t)]
    BY <1>0, <1>1, LookingInv DEF TypeOK
<1>2. CASE ~(barrier > curBarrier[Victim(t)])
  <2>1. Begun(Victim(t))
      BY <1>0, <1>2 DEF RoundInv, Begun, TypeOK, RoundTypeOK
  <2> QED BY <1>0, <1>2, <2>1, LookingInv DEF TypeOK
<1> QED BY <1>1, <1>2

\* The victim has begun since.
LEMMA SpinInv ==
    ASSUME IInv, NEW t \in Threads, Spin(t)
    PROVE  IInv'
<1> USE DEF Spin, Goto, threadVars, IInv
<1>1. /\ off[t] < ThreadCount /\ running[t] = None /\ Begun(Victim(t))
    BY VictimsOf DEF WorkInv, RoundInv, RoundOf, Stealing
<1> QED BY <1>1, LookingInv DEF TypeOK, Stealing

\* The unlocked look: a list that is empty now stays empty.
LEMMA PeekInv ==
    ASSUME IInv, NEW t \in Threads, Peek(t)
    PROVE  IInv'
<1> USE DEF Peek, Goto, threadVars, IInv
<1>1. /\ off[t] < ThreadCount /\ running[t] = None /\ Begun(Victim(t))
    BY VictimsOf DEF WorkInv, RoundInv, RoundOf, Stealing
<1>2. CASE unproc[Victim(t)] = {}
    BY <1>1, <1>2, LookingInv DEF TypeOK, Stealing, Emptied
<1>3. CASE unproc[Victim(t)] # {}
    BY <1>1, <1>3, LookingInv DEF TypeOK, Stealing
<1> QED BY <1>2, <1>3

\* The two locks.
LEMMA LocksInv ==
    ASSUME IInv, NEW t \in Threads, LockFirst(t) \/ LockSecond(t)
    PROVE  IInv'
<1> USE DEF LockFirst, LockSecond, Goto, threadVars, IInv
<1>1. /\ off[t] < ThreadCount /\ running[t] = None /\ Begun(Victim(t))
    BY VictimsOf DEF WorkInv, RoundInv, RoundOf, Stealing
<1>2. tlock' \in [Threads -> Threads \cup {None}]
    BY DEF TypeOK
<1>3. CASE LockFirst(t)
    BY <1>1, <1>2, <1>3, LookingInv DEF Stealing
<1>4. CASE LockSecond(t)
    BY <1>1, <1>2, <1>4, LookingInv DEF Stealing
<1> QED BY <1>3, <1>4

-----------------------------------------------------------------------------
(***************************************************************************)
(* popFromThread                                                           *)
(***************************************************************************)

\* The host that popFromThread takes was held by the victim's list or by the
\* thread, and by nobody else; afterwards no list of hosts to run has it.
LEMMA Taken ==
    ASSUME IInv, NEW t \in Threads, NEW h \in Hosts, pc[t] = "popFrom",
           PopsHost(t, h), TakeFromList(t, h)
    PROVE  /\ t \in 0 .. ThreadCount - 1 /\ Victim(t) \in 0 .. ThreadCount - 1
           /\ unproc' \in [Threads -> SUBSET Hosts]
           /\ \A u \in Threads : unproc'[u] \subseteq unproc[u] /\ h \notin unproc'[u]
           /\ \A u \in Threads : \A g \in Hosts \ {h} : g \in unproc[u] => g \in unproc'[u]
           /\ \A u \in Threads : h \notin proc[u] /\ (u # t => running[u] # h)
           /\ running[t] \in {h, None}
           /\ Begun(t) /\ cur[t] = {} /\ outbox[t] = <<>> /\ scan[t] = {} /\ ~over
<1> USE DEF IInv
<1>1. t \in 0 .. ThreadCount - 1 /\ off[t] < ThreadCount /\ Victim(t) \in Threads
    BY VictimsOf DEF WorkInv
<1>2. Victim(t) \in 0 .. ThreadCount - 1
    BY <1>1, VictimThread, ThreadCountType DEF Threads
<1>3. /\ unproc'[Victim(t)] = unproc[Victim(t)] \ {h}
      /\ \A u \in Threads : u # Victim(t) => unproc'[u] = unproc[u]
      /\ unproc' \in [Threads -> SUBSET Hosts]
    BY <1>1 DEF TakeFromList, TypeOK
<1>4. Begun(t) /\ cur[t] = {} /\ outbox[t] = <<>> /\ scan[t] = {} /\ ~over
    BY <1>1 DEF RoundInv, RoundOf, WorkInv
<1>5. /\ \A u \in Threads : h \notin proc[u] /\ (u # t => running[u] # h)
      /\ \A u \in Threads : u # Victim(t) => h \notin unproc[u]
      /\ running[t] \in {h, None}
  <2>1. CASE running[t] = h
      BY <2>1 DEF PlaceInv, Holds
  <2>2. CASE running[t] = None /\ h \in unproc[Victim(t)]
      BY <2>2, <1>1, NoneNoHost DEF PlaceInv, Holds
  <2> QED BY <2>1, <2>2 DEF PopsHost
<1>6. \A u \in Threads : unproc'[u] \subseteq unproc[u] /\ h \notin unproc'[u]
    BY <1>1, <1>3, <1>5
<1>7. \A u \in Threads : \A g \in Hosts \ {h} : g \in unproc[u] => g \in unproc'[u]
    BY <1>3
<1> QED BY <1>1, <1>2, <1>3, <1>4, <1>5, <1>6, <1>7

\* An event of this round: the host runs on this thread.
LEMMA PopEventInv ==
    ASSUME IInv, NEW t \in Threads, NEW h \in Hosts, PopEvent(t, h)
    PROVE  IInv'
<1> USE DEF IInv
<1>0. PICK e \in pq[h] :
         /\ IsFirst(e, pq[h]) /\ e.time < barrier
         /\ pq' = [pq EXCEPT ![h] = @ \ {e}]
         /\ lastTime' = [lastTime EXCEPT ![h] = e.time]
         /\ cur' = [cur EXCEPT ![t] = {e}]
         /\ pc' = [pc EXCEPT ![t] = "execute"]
    BY DEF PopEvent, Popped, Goto
<1>a. /\ pc[t] = "popFrom"
      /\ UNCHANGED <<barrier, over, proc, curBarrier, stealable, off, outbox,
                     scan, scanMin, minTime, clock, nextId>>
      /\ hostThread' = [hostThread EXCEPT ![h] = t]
      /\ running' = [running EXCEPT ![t] = h]
      /\ tlock' = [u \in Threads |-> IF tlock[u] = t THEN None ELSE tlock[u]]
    BY DEF PopEvent, MigrateHost, Release
<1>b. /\ t \in 0 .. ThreadCount - 1
      /\ unproc' \in [Threads -> SUBSET Hosts]
      /\ \A u \in Threads : unproc'[u] \subseteq unproc[u] /\ h \notin unproc'[u]
      /\ \A u \in Threads : \A g \in Hosts \ {h} : g \in unproc[u] => g \in unproc'[u]
      /\ \A u \in Threads : h \notin proc[u] /\ (u # t => running[u] # h)
      /\ running[t] \in {h, None}
      /\ Begun(t) /\ cur[t] = {} /\ outbox[t] = <<>> /\ scan[t] = {} /\ ~over
    BY Taken DEF PopEvent
<1>c. /\ running'[t] = h /\ pc'[t] = "execute" /\ cur'[t] = {e}
      /\ \A u \in Threads : u # t => running'[u] = running[u] /\ pc'[u] = pc[u] /\ cur'[u] = cur[u]
    BY <1>0, <1>a DEF TypeOK, RoundTypeOK
<1>d. /\ hostThread'[h] = t /\ lastTime'[h] = e.time /\ pq'[h] = pq[h] \ {e}
      /\ \A g \in Hosts : g # h => /\ hostThread'[g] = hostThread[g]
                                   /\ lastTime'[g] = lastTime[g]
                                   /\ pq'[g] = pq[g]
    BY <1>0, <1>a DEF TypeOK
<1>e. /\ pq[h] \in SUBSET Event /\ e \in Event /\ e.dst = h /\ e.time \in Nat
      /\ lastTime[h] <= e.time /\ clock[h] <= e.time
  <2>1. e.dst = h /\ lastTime[h] <= e.time /\ clock[h] <= lastTime[h]
      BY DEF EventsInv
  <2>2. pq[h] \in SUBSET Event /\ e \in Event /\ lastTime[h] \in Nat /\ clock[h] \in Nat
      BY EventsAssumption DEF TypeOK, RoundTypeOK
  <2>3. e.time \in Nat
      BY <2>2, EventsAssumption DEF Event
  <2> QED BY <2>1, <2>2, <2>3
<1>f. \A f \in pq[h] \ {e} : EventBefore(e, f) /\ e.time <= f.time
    BY <1>0, <1>e, FirstEvent
<1>1. TypeOK'
  <2>1. /\ pq' \in [Hosts -> SUBSET Event] /\ hostThread' \in [Hosts -> Threads]
        /\ running' \in [Threads -> Hosts \cup {None}]
      BY <1>0, <1>a DEF TypeOK
  <2>2. lastTime' \in [Hosts -> 0 .. EndTime]
      BY <1>0, <1>e DEF TypeOK, Event
  <2>3. tlock' \in [Threads -> Threads \cup {None}]
      BY <1>a DEF TypeOK
  <2>4. cur' \in [Threads -> SUBSET Event]
      BY <1>0, <1>e DEF TypeOK, RoundTypeOK
  <2>5. pc' \in [Threads -> {"pop", "popFrom", "probe", "spin", "peek", "lockFirst",
                            "lockSecond", "execute", "push", "scan", "done"}]
      BY <1>0 DEF TypeOK
  <2> QED BY <1>a, <1>b, <2>1, <2>2, <2>3, <2>4, <2>5 DEF TypeOK, RoundTypeOK
<1>2. WorkInv'
  <2>1. ASSUME NEW u \in Threads, u # t
        PROVE  /\ u >= ThreadCount => unproc'[u] = {} /\ proc'[u] = {} /\ running'[u] = None
               /\ scan'[u] \subseteq proc'[u]
      BY <1>a, <1>b, <1>c, <2>1 DEF WorkInv
  <2>2. /\ ~(t >= ThreadCount) /\ t < ThreadCount /\ scan'[t] \subseteq proc'[t]
        /\ h # None
      BY <1>a, <1>b, ThreadCountType, NoneNoHost DEF WorkInv, Threads
  <2> QED BY <1>a, <1>b, <1>c, <2>1, <2>2 DEF WorkInv, Stealing
<1>3. PlaceInv'
  <2>1. \A u \in Threads : \A g \in Hosts : g # h => (Holds(u, g)' <=> Holds(u, g))
      BY <1>a, <1>b, <1>c, NoneNoHost DEF Holds
  <2>2. \A u \in Threads : Holds(u, h)' <=> u = t
      BY <1>a, <1>b, <1>c DEF Holds
  <2>3. ASSUME NEW g \in Hosts
        PROVE  \E u \in Threads : Holds(u, g)'
      BY <2>1, <2>2 DEF PlaceInv
  <2>4. ASSUME NEW u \in Threads, NEW v \in Threads, NEW g \in Hosts, Holds(u, g)', Holds(v, g)'
        PROVE  u = v
      BY <2>1, <2>2, <2>4 DEF PlaceInv
  <2>5. ASSUME NEW u \in Threads
        PROVE  unproc'[u] \cap proc'[u] = {} /\ running'[u] \notin unproc'[u] \cup proc'[u]
      BY <1>a, <1>b, <1>c DEF PlaceInv
  <2> QED BY <2>3, <2>4, <2>5 DEF PlaceInv
<1>4. EventsInv'
  <2>1. ASSUME NEW g \in Hosts
        PROVE  /\ clock'[g] <= lastTime'[g] /\ lastTime'[g] < barrier'
               /\ \A f \in pq'[g] : f.dst = g /\ lastTime'[g] <= f.time
    <3>1. CASE g = h
        BY <1>0, <1>a, <1>d, <1>e, <1>f, <3>1 DEF EventsInv
    <3>2. CASE g # h
        BY <1>a, <1>d, <3>2 DEF EventsInv
    <3> QED BY <3>1, <3>2
  <2>2. ASSUME NEW u \in Threads, NEW d \in cur'[u]
        PROVE  /\ d.dst = running'[u] /\ hostThread'[d.dst] = u /\ d.time = lastTime'[d.dst]
               /\ \A f \in pq'[d.dst] : EventBefore(d, f)
    <3>1. CASE u = t
        BY <1>c, <1>d, <1>e, <1>f, <3>1
    <3>2. CASE u # t
      <4>1. d \in cur[u]
          BY <1>c, <3>2
      <4>2. d \in Event
          BY <4>1 DEF TypeOK, RoundTypeOK
      <4>3. d.dst \in Hosts
          BY <4>2 DEF Event
      <4>4. /\ d.dst = running[u] /\ hostThread[d.dst] = u /\ d.time = lastTime[d.dst]
            /\ \A f \in pq[d.dst] : EventBefore(d, f)
          BY <4>1 DEF EventsInv
      <4>5. d.dst # h /\ running'[u] = running[u]
          BY <4>4, <1>b, <1>c, <3>2
      <4> QED BY <1>d, <4>3, <4>4, <4>5
    <3> QED BY <3>1, <3>2
  <2>3. ASSUME NEW u \in Threads, NEW k \in 1 .. Len(outbox'[u])
        PROVE  outbox'[u][k].src = running'[u] /\ lastTime'[running'[u]] <= outbox'[u][k].time
    <3>1. u # t /\ running[u] # h /\ running[u] \in Hosts
      <4>1. outbox[u] # <<>>
          BY <1>a, <2>3
      <4>2. u # t /\ running[u] # None
          BY <4>1, <1>b DEF WorkInv
      <4> QED BY <4>2, <1>b DEF TypeOK
    <3> QED BY <1>a, <1>c, <1>d, <3>1 DEF EventsInv
  <2> QED BY <2>1, <2>2, <2>3 DEF EventsInv
<1>5. RoundInv'
  <2>1. \A v \in Threads : (Begun(v)' <=> Begun(v)) /\ (Emptied(v) => Emptied(v)')
      BY <1>a, <1>b DEF Begun, Emptied
  <2>2. ASSUME NEW u \in 0 .. ThreadCount - 1, u # t
        PROVE  RoundOf(u)'
      BY <1>a, <1>c, <2>1, <2>2, OthersRound, ThreadCountType
  <2>3. RoundOf(t)'
      BY <1>b, <1>c, <2>1 DEF RoundOf, Stealing
  <2>4. \A u \in Threads : \A g \in proc'[u] : Begun(u)' => \A f \in pq'[g] : barrier' <= f.time
    <3>1. \A u \in Threads : proc[u] \subseteq Hosts
        BY DEF TypeOK
    <3>2. \A g \in Hosts : pq'[g] \subseteq pq[g]
        BY <1>d
    <3> QED BY <1>a, <2>1, <3>1, <3>2 DEF RoundInv
  <2>5. \A u \in Threads : curBarrier'[u] <= barrier'
      BY <1>a DEF RoundInv
  <2> QED BY <2>2, <2>3, <2>4, <2>5 DEF RoundInv
<1>6. TimesInv'
  <2>1. \A g \in Hosts : ToBeScanned(g) => ToBeScanned(g)'
    <3>1. ToBeScanned(h)'
        BY <1>c DEF ToBeScanned
    <3>2. ASSUME NEW g \in Hosts, g # h, ToBeScanned(g)
          PROVE  ToBeScanned(g)'
        BY <1>a, <1>b, <1>c, <3>2, NoneNoHost DEF ToBeScanned
    <3> QED BY <3>1, <3>2
  <2>2. ASSUME NEW time, Reported(time)
        PROVE  Reported(time)'
    <3>1. CASE time = SIMTIME_MAX
        BY <3>1 DEF Reported
    <3>2. CASE time # SIMTIME_MAX
      <4>0. PICK g \in Hosts : barrier <= time /\ \E f \in pq[g] : f.time = time
          BY <3>2, <2>2 DEF Reported
      <4>1. PICK f \in pq[g] : f.time = time /\ barrier <= time
          BY <4>0
      <4>2. f # e
        <5>1. e.time < barrier /\ e.time \in Nat
            BY <1>0, <1>e
        <5>2. barrier \in Nat
            BY EventsAssumption DEF TypeOK, RoundTypeOK
        <5> QED BY <4>1, <5>1, <5>2
      <4>3. f \in pq'[g]
          BY <1>d, <4>1, <4>2
      <4> QED BY <1>a, <4>1, <4>3 DEF Reported
    <3> QED BY <3>1, <3>2
  <2>3. \A time : Covered(time) => Covered(time)'
      BY <1>a, <1>c DEF Covered
  <2>4. \A g \in Hosts : pq'[g] \subseteq pq[g]
      BY <1>d
  <2> QED BY <1>a, <2>1, <2>2, <2>3, <2>4 DEF TimesInv
<1> QED BY <1>1, <1>2, <1>3, <1>4, <1>5, <1>6

\* No event of this round: the host goes to the processed ones.
LEMMA HostProcessedInv ==
    ASSUME IInv, NEW t \in Threads, NEW h \in Hosts, HostProcessed(t, h)
    PROVE  IInv'
<1> USE DEF IInv
<1>a. /\ pc[t] = "popFrom" /\ \A e \in pq[h] : e.time >= barrier
      /\ proc' = [proc EXCEPT ![t] = @ \cup {h}]
      /\ running' = [running EXCEPT ![t] = None]
      /\ UNCHANGED <<barrier, over, pc, cur, outbox, minTime, clock, nextId, curBarrier,
                     stealable, tlock, pq, lastTime, hostThread, off, scan, scanMin>>
    BY DEF HostProcessed, roundVars, queueVars
<1>b. /\ t \in 0 .. ThreadCount - 1
      /\ unproc' \in [Threads -> SUBSET Hosts]
      /\ \A u \in Threads : unproc'[u] \subseteq unproc[u] /\ h \notin unproc'[u]
      /\ \A u \in Threads : \A g \in Hosts \ {h} : g \in unproc[u] => g \in unproc'[u]
      /\ \A u \in Threads : h \notin proc[u] /\ (u # t => running[u] # h)
      /\ running[t] \in {h, None}
      /\ Begun(t) /\ cur[t] = {} /\ outbox[t] = <<>> /\ scan[t] = {} /\ ~over
    BY Taken DEF HostProcessed
<1>c. /\ running'[t] = None /\ proc'[t] = proc[t] \cup {h}
      /\ \A u \in Threads : u # t => running'[u] = running[u] /\ proc'[u] = proc[u]
    BY <1>a DEF TypeOK
<1>1. TypeOK'
  <2>1. running' \in [Threads -> Hosts \cup {None}] /\ proc' \in [Threads -> SUBSET Hosts]
      BY <1>a DEF TypeOK
  <2> QED BY <1>a, <1>b, <2>1 DEF TypeOK, RoundTypeOK
<1>2. WorkInv'
  <2>1. ASSUME NEW u \in Threads, u # t
        PROVE  /\ u >= ThreadCount => unproc'[u] = {} /\ proc'[u] = {} /\ running'[u] = None
               /\ scan'[u] \subseteq proc'[u]
      BY <1>a, <1>b, <1>c, <2>1 DEF WorkInv
  <2>2. ~(t >= ThreadCount) /\ scan'[t] \subseteq proc'[t]
      BY <1>a, <1>b, ThreadCountType DEF Threads
  <2> QED BY <1>a, <1>b, <1>c, <2>1, <2>2 DEF WorkInv, Stealing
<1>3. PlaceInv'
  <2>1. \A u \in Threads : \A g \in Hosts : g # h => (Holds(u, g)' <=> Holds(u, g))
      BY <1>b, <1>c, NoneNoHost DEF Holds
  <2>2. \A u \in Threads : Holds(u, h)' <=> u = t
      BY <1>b, <1>c, NoneNoHost DEF Holds
  <2>3. ASSUME NEW g \in Hosts
        PROVE  \E u \in Threads : Holds(u, g)'
      BY <2>1, <2>2 DEF PlaceInv
  <2>4. ASSUME NEW u \in Threads, NEW v \in Threads, NEW g \in Hosts, Holds(u, g)', Holds(v, g)'
        PROVE  u = v
      BY <2>1, <2>2, <2>4 DEF PlaceInv
  <2>5. ASSUME NEW u \in Threads
        PROVE  unproc'[u] \cap proc'[u] = {} /\ running'[u] \notin unproc'[u] \cup proc'[u]
    <3>1. None \notin unproc[u] \cup proc[u] \cup {h}
        BY NoneNoHost DEF TypeOK
    <3>2. unproc[u] \cap proc[u] = {} /\ running[u] \notin unproc[u] \cup proc[u]
        BY DEF PlaceInv
    <3>3. CASE u = t
        BY <1>b, <1>c, <3>1, <3>2, <3>3
    <3>4. CASE u # t
        BY <1>b, <1>c, <3>2, <3>4
    <3> QED BY <3>3, <3>4
  <2> QED BY <2>3, <2>4, <2>5 DEF PlaceInv
<1>4. EventsInv'
  <2>1. ASSUME NEW u \in Threads, NEW d \in cur'[u]
        PROVE  d.dst = running'[u] /\ u # t
      BY <1>a, <1>b, <1>c DEF EventsInv
  <2>2. ASSUME NEW u \in Threads, NEW k \in 1 .. Len(outbox'[u])
        PROVE  u # t
      BY <1>a, <1>b
  <2> QED BY <1>a, <1>c, <2>1, <2>2 DEF EventsInv
<1>5. RoundInv'
  <2>1. \A v \in Threads : (Begun(v)' <=> Begun(v)) /\ (Emptied(v) => Emptied(v)')
      BY <1>a, <1>b DEF Begun, Emptied
  <2>2. ASSUME NEW u \in 0 .. ThreadCount - 1
        PROVE  RoundOf(u)'
      BY <1>a, <2>1, OthersRound
  <2>3. \A u \in Threads : \A g \in proc'[u] : Begun(u)' => \A f \in pq'[g] : barrier' <= f.time
    <3>1. \A f \in pq[h] : barrier <= f.time
        BY <1>a, EventsAssumption DEF TypeOK, RoundTypeOK, Event
    <3> QED BY <1>a, <1>c, <2>1, <3>1 DEF RoundInv
  <2>4. \A u \in Threads : curBarrier'[u] <= barrier'
      BY <1>a DEF RoundInv
  <2> QED BY <2>2, <2>3, <2>4 DEF RoundInv
<1>6. TimesInv'
  <2>1. \A g \in Hosts : ToBeScanned(g) => ToBeScanned(g)'
    <3>1. ToBeScanned(h)'
        BY <1>a, <1>c DEF ToBeScanned
    <3>2. ASSUME NEW g \in Hosts, g # h, ToBeScanned(g)
          PROVE  ToBeScanned(g)'
        BY <1>a, <1>b, <1>c, <3>2, NoneNoHost DEF ToBeScanned
    <3> QED BY <3>1, <3>2
  <2>2. \A time : (Reported(time) => Reported(time)') /\ (Covered(time) => Covered(time)')
      BY <1>a DEF Reported, Covered
  <2> QED BY <1>a, <2>1, <2>2 DEF TimesInv
<1> QED BY <1>1, <1>2, <1>3, <1>4, <1>5, <1>6

-----------------------------------------------------------------------------
(***************************************************************************)
(* The execution of an event, and the events it pushes                     *)
(***************************************************************************)

\* An event that a host has created and that lies before the stop time is
\* pushed to its own queue in order, to another host's at the barrier or later.
LEMMA Pushed ==
    ASSUME IInv, NEW t \in Threads, outbox[t] # <<>>
    PROVE  /\ Head(outbox[t]) \in NewEvent /\ Tail(outbox[t]) \in Seq(NewEvent)
           /\ outbox[t] \in Seq(NewEvent)
           /\ Len(Tail(outbox[t])) = Len(outbox[t]) - 1
           /\ \A k \in 1 .. Len(Tail(outbox[t])) :
                 k + 1 \in 1 .. Len(outbox[t]) /\ Tail(outbox[t])[k] = outbox[t][k + 1]
           /\ Head(outbox[t]) = outbox[t][1] /\ 1 \in 1 .. Len(outbox[t])
           /\ Head(outbox[t]).src = running[t] /\ running[t] \in Hosts
           /\ lastTime[running[t]] <= Head(outbox[t]).time
           /\ cur[t] = {} /\ pc[t] = "push"
<1> USE DEF IInv
<1>0. outbox[t] \in Seq(NewEvent)
    BY DEF TypeOK, RoundTypeOK, NewEvent
<1>1. outbox[t] \in Seq(NewEvent) /\ Len(outbox[t]) \in Nat \ {0}
    BY <1>0
<1>2. /\ Head(outbox[t]) = outbox[t][1] /\ 1 \in 1 .. Len(outbox[t])
      /\ Len(Tail(outbox[t])) = Len(outbox[t]) - 1
      /\ Head(outbox[t]) \in NewEvent /\ Tail(outbox[t]) \in Seq(NewEvent)
      /\ \A k \in 1 .. Len(Tail(outbox[t])) :
            k + 1 \in 1 .. Len(outbox[t]) /\ Tail(outbox[t])[k] = outbox[t][k + 1]
    BY <1>1
<1>3. pc[t] = "push" /\ running[t] # None /\ cur[t] = {}
    BY DEF WorkInv
<1>4. running[t] \in Hosts
    BY <1>3 DEF TypeOK
<1>5. Head(outbox[t]).src = running[t] /\ lastTime[running[t]] <= Head(outbox[t]).time
    BY <1>2 DEF EventsInv
<1> QED BY <1>1, <1>2, <1>3, <1>4, <1>5

\* worker_runEvent
LEMMA ExecuteEventInv ==
    ASSUME IInv, NEW t \in Threads, ExecuteEvent(t), UNCHANGED policyVars
    PROVE  IInv'
<1> USE DEF IInv, policyVars
<1>0. PICK e \in cur[t] : \E s \in Emits(e.dst, e) :
         /\ nextId[e.dst] + Len(s) <= MaxEvents
         /\ outbox' = [outbox EXCEPT ![t] = NewEvents(s, e.dst, e.time, nextId[e.dst])]
         /\ clock' = [clock EXCEPT ![e.dst] = e.time]
         /\ nextId' = [nextId EXCEPT ![e.dst] = @ + Len(s)]
    BY DEF ExecuteEvent
<1>a. PICK s \in Emits(e.dst, e) :
         /\ nextId[e.dst] + Len(s) <= MaxEvents
         /\ outbox' = [outbox EXCEPT ![t] = NewEvents(s, e.dst, e.time, nextId[e.dst])]
         /\ clock' = [clock EXCEPT ![e.dst] = e.time]
         /\ nextId' = [nextId EXCEPT ![e.dst] = @ + Len(s)]
    BY <1>0
<1>b. /\ pc[t] = "execute" /\ cur' = [cur EXCEPT ![t] = {}]
      /\ pc' = [pc EXCEPT ![t] = "push"] /\ UNCHANGED <<barrier, over, minTime>>
    BY DEF ExecuteEvent, Goto
<1>c. /\ e \in Event /\ e.dst \in Hosts /\ e.time \in 0 .. EndTime /\ e.time \in Nat
      /\ s \in Seq(Hosts \X Nat) /\ Len(s) \in Nat /\ nextId[e.dst] \in Nat
  <2>1. e \in Event /\ nextId \in [Hosts -> 0 .. MaxEvents]
      BY DEF TypeOK, RoundTypeOK
  <2>2. e.dst \in Hosts /\ e.time \in 0 .. EndTime /\ e.time \in Nat
      BY <2>1, EventsAssumption DEF Event
  <2>3. s \in Seq(Hosts \X Nat)
      BY <2>1, <2>2, EventsAssumption
  <2>4. Len(s) \in Nat
      BY <2>3
  <2>5. nextId[e.dst] \in Nat
      BY <2>1, <2>2, EventsAssumption
  <2> QED BY <2>1, <2>2, <2>3, <2>4, <2>5
<1> DEFINE new == NewEvents(s, e.dst, e.time, nextId[e.dst])
<1>d. /\ new \in Seq(NewEvent) /\ Len(new) = Len(s)
      /\ \A k \in 1 .. Len(new) : new[k].src = e.dst /\ e.time <= new[k].time
  <2>1. nextId[e.dst] + Len(s) <= MaxEvents
      BY <1>a
  <2>2. /\ new \in Seq(NewEvent) /\ Len(new) = Len(s)
        /\ \A k \in 1 .. Len(s) : new[k].src = e.dst /\ e.time <= new[k].time
    <3> HIDE DEF new
    <3>1. \A n \in Nat : n + Len(s) <= MaxEvents =>
             /\ NewEvents(s, e.dst, e.time, n) \in Seq(NewEvent)
             /\ Len(NewEvents(s, e.dst, e.time, n)) = Len(s)
             /\ \A k \in 1 .. Len(s) : /\ NewEvents(s, e.dst, e.time, n)[k].src = e.dst
                                       /\ e.time <= NewEvents(s, e.dst, e.time, n)[k].time
        BY <1>c, NewEventsType
    <3> QED BY <1>c, <2>1, <3>1 DEF new
  <2> QED BY <2>2
<1>e. e.dst = running[t] /\ e.time = lastTime[e.dst] /\ clock[e.dst] <= e.time
    BY <1>c DEF EventsInv
<1> HIDE DEF new
<1>f. /\ pc'[t] = "push" /\ cur'[t] = {} /\ outbox'[t] = new
      /\ \A u \in Threads : u # t => pc'[u] = pc[u] /\ cur'[u] = cur[u] /\ outbox'[u] = outbox[u]
      /\ clock'[e.dst] = e.time /\ \A g \in Hosts : g # e.dst => clock'[g] = clock[g]
    BY <1>a, <1>b, <1>c DEF TypeOK, RoundTypeOK, new
<1>1. TypeOK'
  <2>1. outbox' \in [Threads -> Seq(NewEvent)]
      BY <1>a, <1>d DEF TypeOK, RoundTypeOK, NewEvent, new
  <2>2. nextId' \in [Hosts -> 0 .. MaxEvents] /\ clock' \in [Hosts -> 0 .. EndTime]
    <3>1. nextId[e.dst] + Len(s) \in 0 .. MaxEvents
        BY <1>a, <1>c, EventsAssumption
    <3> QED BY <1>a, <1>c, <3>1 DEF TypeOK, RoundTypeOK
  <2>3. cur' \in [Threads -> SUBSET Event]
      BY <1>b DEF TypeOK, RoundTypeOK
  <2>4. pc' \in [Threads -> {"pop", "popFrom", "probe", "spin", "peek", "lockFirst",
                            "lockSecond", "execute", "push", "scan", "done"}]
      BY <1>b DEF TypeOK
  <2> QED BY <1>b, <2>1, <2>2, <2>3, <2>4 DEF TypeOK, RoundTypeOK, NewEvent
<1>2. WorkInv'
  <2>1. ASSUME NEW u \in Threads, u # t
        PROVE  /\ pc'[u] = pc[u] /\ cur'[u] = cur[u] /\ outbox'[u] = outbox[u]
      BY <1>f, <2>1
  <2> QED BY <1>b, <1>f, <2>1 DEF WorkInv, Stealing
<1>3. PlaceInv'
    BY PlaceFrame
<1>4. EventsInv'
  <2>1. ASSUME NEW g \in Hosts
        PROVE  /\ clock'[g] <= lastTime'[g] /\ lastTime'[g] < barrier'
               /\ \A f \in pq'[g] : f.dst = g /\ lastTime'[g] <= f.time
    <3>1. CASE g = e.dst
        BY <1>b, <1>c, <1>e, <1>f, <3>1 DEF EventsInv
    <3>2. CASE g # e.dst
        BY <1>b, <1>f, <3>2 DEF EventsInv
    <3> QED BY <3>1, <3>2
  <2>2. ASSUME NEW u \in Threads, NEW d \in cur'[u]
        PROVE  /\ d.dst = running'[u] /\ hostThread'[d.dst] = u /\ d.time = lastTime'[d.dst]
               /\ \A f \in pq'[d.dst] : EventBefore(d, f)
      BY <1>f DEF EventsInv
  <2>3. ASSUME NEW u \in Threads, NEW k \in 1 .. Len(outbox'[u])
        PROVE  outbox'[u][k].src = running'[u] /\ lastTime'[running'[u]] <= outbox'[u][k].time
      BY <1>d, <1>e, <1>f DEF EventsInv
  <2> QED BY <2>1, <2>2, <2>3 DEF EventsInv
<1>5. RoundInv'
  <2>1. \A v \in Threads : (Begun(v)' <=> Begun(v)) /\ (Emptied(v) <=> Emptied(v)')
      BY <1>b DEF Begun, Emptied
  <2>2. ASSUME NEW u \in 0 .. ThreadCount - 1, u # t
        PROVE  RoundOf(u)'
      BY <1>f, <2>1, <2>2, OthersRound, ThreadCountType
  <2>3. t \in 0 .. ThreadCount - 1 => RoundOf(t)'
      BY <1>b, <1>f, <2>1 DEF RoundInv, RoundOf, Stealing
  <2> QED BY <1>b, <2>1, <2>2, <2>3 DEF RoundInv
<1>6. TimesInv'
    BY <1>b, <1>f, TimesFrame
<1> QED BY <1>1, <1>2, <1>3, <1>4, <1>5, <1>6

\* A push that delivers: the event goes to the queue of its host, and its time
\* is reported if it belongs to a later round.
LEMMA PushEventInv ==
    ASSUME IInv, NEW t \in Threads, PushEvent(t)
    PROVE  IInv'
<1> USE DEF IInv
<1> DEFINE e == Adjusted(Head(outbox[t]), barrier)
<1>a. /\ outbox[t] # <<>> /\ Kept(Head(outbox[t]))
      /\ minTime' = IF e.time < barrier THEN minTime
                    ELSE [minTime EXCEPT ![t] = Lesser(e.time, @)]
      /\ outbox' = [outbox EXCEPT ![t] = Tail(@)]
      /\ pq' = [pq EXCEPT ![e.dst] = @ \cup {e}]
      /\ UNCHANGED <<barrier, over, pc, cur, clock, nextId, unproc, proc, running, curBarrier,
                     stealable, tlock, lastTime, hostThread, off, scan, scanMin>>
    BY DEF PushEvent, PushNext, SetMinEventTime, threadVars
<1>b. /\ Head(outbox[t]) \in NewEvent /\ Tail(outbox[t]) \in Seq(NewEvent)
      /\ \A k \in 1 .. Len(Tail(outbox[t])) :
            k + 1 \in 1 .. Len(outbox[t]) /\ Tail(outbox[t])[k] = outbox[t][k + 1]
      /\ Head(outbox[t]).src = running[t] /\ running[t] \in Hosts
      /\ lastTime[running[t]] <= Head(outbox[t]).time
      /\ cur[t] = {} /\ pc[t] = "push"
    BY <1>a, Pushed
<1>c. /\ e.dst = Head(outbox[t]).dst /\ e.time \in Nat /\ e \in Event /\ e.dst \in Hosts
      /\ e.dst # running[t] => barrier <= e.time
      /\ e.dst = running[t] => e.time = Head(outbox[t]).time
  <2>1. barrier \in 1 .. EndTime
      BY DEF TypeOK, RoundTypeOK
  <2>2. /\ e.dst = Head(outbox[t]).dst /\ e.time \in Nat /\ e \in Event
        /\ Head(outbox[t]).dst # Head(outbox[t]).src => barrier <= e.time
        /\ Head(outbox[t]).dst = Head(outbox[t]).src => e.time = Head(outbox[t]).time
    <3> HIDE DEF e
    <3> QED BY <1>a, <1>b, <2>1, AdjustedEvent DEF e
  <2>3. e.dst \in Hosts
      BY <2>2 DEF Event
  <2> QED BY <1>b, <2>2, <2>3
<1> HIDE DEF e
<1>d. /\ barrier \in Nat /\ \A g \in Hosts : lastTime[g] \in Nat /\ lastTime[g] < barrier
      /\ \A u \in Threads : minTime[u] \in Nat
    BY EventsAssumption DEF TypeOK, RoundTypeOK, EventsInv
<1>e. lastTime[e.dst] <= e.time
    BY <1>b, <1>c, <1>d
<1>f. /\ pq'[e.dst] = pq[e.dst] \cup {e} /\ \A g \in Hosts : g # e.dst => pq'[g] = pq[g]
      /\ outbox'[t] = Tail(outbox[t]) /\ \A u \in Threads : u # t => outbox'[u] = outbox[u]
    BY <1>a, <1>c DEF TypeOK, RoundTypeOK
<1>g. /\ \A u \in Threads : minTime'[u] <= minTime[u] /\ (minTime'[u] = minTime[u] \/ (minTime'[u] = e.time /\ barrier <= e.time))
      /\ barrier <= e.time => minTime'[t] <= e.time
  <2>1. CASE e.time < barrier
      BY <1>a, <1>c, <1>d, <2>1
  <2>2. CASE ~(e.time < barrier)
    <3>1. minTime'[t] = Lesser(e.time, minTime[t]) /\ \A u \in Threads : u # t => minTime'[u] = minTime[u]
        BY <1>a, <2>2 DEF TypeOK, RoundTypeOK
    <3> QED BY <3>1, <1>c, <1>d, <2>2 DEF Lesser
  <2> QED BY <2>1, <2>2
<1>1. TypeOK'
  <2>1. outbox' \in [Threads -> Seq(NewEvent)]
      BY <1>a, <1>b DEF TypeOK, RoundTypeOK, NewEvent
  <2>2. pq' \in [Hosts -> SUBSET Event]
      BY <1>a, <1>c DEF TypeOK
  <2>3. minTime' \in [Threads -> 0 .. EndTime \cup {SIMTIME_MAX}]
    <3>1. e.time \in 0 .. EndTime
        BY <1>c DEF Event
    <3> QED BY <1>a, <3>1 DEF TypeOK, RoundTypeOK, Lesser
  <2> QED BY <1>a, <2>1, <2>2, <2>3 DEF TypeOK, RoundTypeOK, NewEvent
<1>2. WorkInv'
  <2>1. \A u \in Threads : outbox'[u] # <<>> => pc[u] = "push"
      BY <1>b, <1>f DEF WorkInv
  <2> QED BY <1>a, <2>1 DEF WorkInv
<1>3. PlaceInv'
    BY <1>a, PlaceFrame
<1>4. EventsInv'
  <2>1. ASSUME NEW g \in Hosts
        PROVE  /\ clock'[g] <= lastTime'[g] /\ lastTime'[g] < barrier'
               /\ \A f \in pq'[g] : f.dst = g /\ lastTime'[g] <= f.time
      BY <1>a, <1>c, <1>e, <1>f DEF EventsInv
  <2>2. ASSUME NEW u \in Threads, NEW d \in cur'[u]
        PROVE  /\ d.dst = running'[u] /\ hostThread'[d.dst] = u /\ d.time = lastTime'[d.dst]
               /\ \A f \in pq'[d.dst] : EventBefore(d, f)
    <3>1. /\ d \in cur[u] /\ u # t /\ d \in Event /\ d.dst \in Hosts /\ d.dst = running[u]
          /\ d.time = lastTime[d.dst]
      <4>1. d \in cur[u] /\ u # t
          BY <1>a, <1>b
      <4>2. d \in Event
          BY <4>1 DEF TypeOK, RoundTypeOK
      <4> QED BY <4>1, <4>2 DEF EventsInv, Event
    <3>2. running[u] # running[t]
        BY <3>1, <1>b DEF PlaceInv, Holds
    <3>3. d.dst = e.dst => d.time < e.time
        BY <1>c, <1>d, <3>1, <3>2
    <3>4. \A f \in pq'[d.dst] : EventBefore(d, f)
      <4>1. ASSUME NEW f \in pq[d.dst] PROVE EventBefore(d, f)
          BY <3>1 DEF EventsInv
      <4>2. d.dst = e.dst => EventBefore(d, e)
          BY <3>3 DEF EventBefore
      <4> QED BY <1>f, <3>1, <4>1, <4>2
    <3> QED BY <1>a, <3>1, <3>4 DEF EventsInv
  <2>3. ASSUME NEW u \in Threads, NEW k \in 1 .. Len(outbox'[u])
        PROVE  outbox'[u][k].src = running'[u] /\ lastTime'[running'[u]] <= outbox'[u][k].time
    <3>1. CASE u = t
        BY <1>a, <1>b, <1>f, <3>1 DEF EventsInv
    <3>2. CASE u # t
        BY <1>a, <1>f, <3>2 DEF EventsInv
    <3> QED BY <3>1, <3>2
  <2> QED BY <2>1, <2>2, <2>3 DEF EventsInv
<1>5. RoundInv'
  <2>1. \A v \in Threads : (Begun(v)' <=> Begun(v)) /\ (Emptied(v) <=> Emptied(v)')
      BY <1>a DEF Begun, Emptied
  <2>2. ASSUME NEW u \in 0 .. ThreadCount - 1
        PROVE  RoundOf(u)'
      BY <1>a, <2>1, OthersRound, ThreadCountType
  <2>3. ASSUME NEW u \in Threads, NEW h \in proc[u], Begun(u), NEW f \in pq'[h]
        PROVE  barrier <= f.time
    <3>1. h \in Hosts /\ h # running[t]
        BY <1>b DEF PlaceInv, Holds, TypeOK
    <3>2. CASE f \in pq[h]
        BY <2>3, <3>2 DEF RoundInv
    <3>3. CASE f = e /\ h = e.dst
        BY <1>c, <3>1, <3>3
    <3> QED BY <1>f, <3>1, <3>2, <3>3
  <2> QED BY <1>a, <2>1, <2>2, <2>3 DEF RoundInv
<1>6. TimesInv'
  <2>1. \A g \in Hosts : pq[g] \subseteq pq'[g]
      BY <1>f
  <2>2. \A time : Reported(time) => Reported(time)'
      BY <1>a, <2>1 DEF Reported
  <2>3. barrier <= e.time => \E g \in Hosts : \E f \in pq'[g] : f.time = e.time
      BY <1>c, <1>f
  <2>4. \A u \in Threads : Reported(scanMin[u])'
      BY <1>a, <2>1 DEF TimesInv, Reported
  <2>5. ASSUME NEW u \in Threads
        PROVE  Reported(minTime[u])'
    <3>1. CASE minTime'[u] = minTime[u]
        BY <1>a, <2>1, <3>1 DEF TimesInv, Reported
    <3>2. CASE minTime'[u] = e.time /\ barrier <= e.time
        BY <1>a, <2>3, <3>2 DEF Reported
    <3> QED BY <3>1, <3>2, <1>g
  <2>6. ASSUME NEW time \in Nat, Covered(time)
        PROVE  Covered(time)'
    <3>1. \A u \in Threads : minTime'[u] \in Nat
        BY <1>c, <1>d, <1>g
    <3>2. PICK u \in Threads : minTime[u] <= time \/ (pc[u] = "scan" /\ scanMin[u] <= time)
        BY <2>6 DEF Covered
    <3>3. minTime[u] <= time => minTime'[u] <= time
        BY <3>1, <1>d, <1>g
    <3> QED BY <1>a, <3>2, <3>3 DEF Covered
  <2>7. \A h \in Hosts : ToBeScanned(h) => ToBeScanned(h)'
      BY <1>a DEF ToBeScanned
  <2>8. ASSUME NEW h \in Hosts, NEW f \in pq'[h], barrier <= f.time, ~over
        PROVE  Covered(f.time)' \/ ToBeScanned(h)'
    <3>1. CASE f = e
        BY <1>g, <2>8, <3>1 DEF Covered
    <3>2. CASE f # e
      <4>1. f \in pq[h] /\ f.time \in Nat
        <5>1. f \in pq[h]
            BY <1>f, <3>2
        <5>2. f \in Event
            BY <5>1 DEF TypeOK
        <5> QED BY <5>1, <5>2, EventsAssumption DEF Event
      <4> QED BY <2>6, <2>7, <2>8, <4>1 DEF TimesInv
    <3> QED BY <3>1, <3>2
  <2> QED BY <1>a, <2>2, <2>4, <2>5, <2>8 DEF TimesInv
<1> QED BY <1>1, <1>2, <1>3, <1>4, <1>5, <1>6

\* A push that is dropped, and the end of the pushes.
LEMMA OtherPushInv ==
    ASSUME IInv, NEW t \in Threads, PushDropped(t) \/ EventDone(t), UNCHANGED policyVars
    PROVE  IInv'
<1> USE DEF IInv, policyVars
<1>a. /\ UNCHANGED <<barrier, over, cur, minTime, clock, nextId>>
      /\ pc[t] = "push"
      /\ \A u \in Threads : u # t => outbox'[u] = outbox[u] /\ pc'[u] = pc[u]
      /\ pc'[t] = "push" \/ (pc'[t] = "pop" /\ outbox'[t] = <<>>)
      /\ pc' \in [Threads -> {"pop", "popFrom", "probe", "spin", "peek", "lockFirst",
                            "lockSecond", "execute", "push", "scan", "done"}]
    BY DEF PushDropped, EventDone, Goto, TypeOK, RoundTypeOK
<1>b. /\ outbox' \in [Threads -> Seq(NewEvent)]
      /\ \A k \in 1 .. Len(outbox'[t]) : \E j \in 1 .. Len(outbox[t]) : outbox'[t][k] = outbox[t][j]
  <2>1. CASE PushDropped(t)
    <3>1. /\ outbox' = [outbox EXCEPT ![t] = Tail(@)] /\ Tail(outbox[t]) \in Seq(NewEvent)
          /\ \A k \in 1 .. Len(Tail(outbox[t])) :
                k + 1 \in 1 .. Len(outbox[t]) /\ Tail(outbox[t])[k] = outbox[t][k + 1]
        BY <2>1, Pushed DEF PushDropped
    <3> QED BY <3>1 DEF TypeOK, RoundTypeOK, NewEvent
  <2>2. CASE EventDone(t)
      BY <2>2 DEF EventDone, TypeOK, RoundTypeOK, NewEvent
  <2> QED BY <2>1, <2>2
<1>1. TypeOK'
    BY <1>a, <1>b DEF TypeOK, RoundTypeOK, NewEvent
<1>2. WorkInv'
  <2>1. cur[t] = {} /\ scan[t] = {} /\ scanMin[t] = SIMTIME_MAX /\ ~over
      BY <1>a DEF WorkInv
  <2> QED BY <1>a, <2>1 DEF WorkInv, Stealing
<1>3. PlaceInv'
    BY PlaceFrame
<1>4. EventsInv'
  <2>1. ASSUME NEW u \in Threads, NEW k \in 1 .. Len(outbox'[u])
        PROVE  outbox'[u][k].src = running'[u] /\ lastTime'[running'[u]] <= outbox'[u][k].time
      BY <1>a, <1>b DEF EventsInv
  <2> QED BY <1>a, <2>1 DEF EventsInv
<1>5. RoundInv'
  <2>1. \A v \in Threads : (Begun(v)' <=> Begun(v)) /\ (Emptied(v) <=> Emptied(v)')
      BY <1>a DEF Begun, Emptied
  <2>2. ASSUME NEW u \in 0 .. ThreadCount - 1, u # t
        PROVE  RoundOf(u)'
      BY <1>a, <2>1, <2>2, OthersRound, ThreadCountType
  <2>3. t \in 0 .. ThreadCount - 1 => RoundOf(t)'
      BY <1>a, <2>1 DEF RoundInv, RoundOf, Stealing
  <2> QED BY <1>a, <2>1, <2>2, <2>3 DEF RoundInv
<1>6. TimesInv'
    BY <1>a, TimesFrame
<1> QED BY <1>1, <1>2, <1>3, <1>4, <1>5, <1>6

-----------------------------------------------------------------------------
(***************************************************************************)
(* The end of a round                                                      *)
(***************************************************************************)

\* A worker that finds nothing more to pop has seen every list empty.
LEMMA PopReturnsNullInv ==
    ASSUME IInv, NEW t \in Threads, PopReturnsNull(t)
    PROVE  IInv'
<1> USE DEF IInv
<1>a. /\ scan' = [scan EXCEPT ![t] = unproc[t] \cup proc[t]]
      /\ pc' = [pc EXCEPT ![t] = "scan"]
      /\ UNCHANGED <<barrier, over, cur, outbox, minTime, clock, nextId, unproc, proc, running,
                     curBarrier, stealable, tlock, pq, lastTime, hostThread, off, scanMin>>
    BY DEF PopReturnsNull, Goto, roundVarsButPc, threadVars, queueVars
<1>b. /\ scan'[t] = unproc[t] \cup proc[t] /\ pc'[t] = "scan"
      /\ \A u \in Threads : u # t => scan'[u] = scan[u] /\ pc'[u] = pc[u]
    BY <1>a DEF TypeOK
<1>c. /\ pc[t] \in {"pop", "probe"} /\ cur[t] = {} /\ outbox[t] = <<>> /\ running[t] = None /\ ~over
      /\ unproc[t] = {}
      /\ t \in 0 .. ThreadCount - 1 => \A v \in 0 .. ThreadCount - 1 : Emptied(v)
  <2>1. CASE pc[t] = "pop" /\ t >= ThreadCount
      BY <2>1, ThreadCountType DEF WorkInv, Threads
  <2>2. CASE pc[t] = "probe" /\ ~MoreToSteal(t)
    <3>1. t \in 0 .. ThreadCount - 1 /\ off[t] = ThreadCount /\ t < ThreadCount
        BY <2>2, VictimsOf, ThreadCountType DEF MoreToSteal, WorkInv
    <3>2. \A k \in 0 .. ThreadCount - 1 : Emptied(At(t, k))
        BY <2>2, <3>1 DEF RoundInv, RoundOf
    <3>3. \A v \in 0 .. ThreadCount - 1 : Emptied(v)
      <4> SUFFICES ASSUME NEW v \in 0 .. ThreadCount - 1
                   PROVE  Emptied(v)
          OBVIOUS
      <4>1. PICK k \in 0 .. ThreadCount - 1 : At(t, k) = v
          BY <3>1, AllVictims
      <4> QED BY <3>2, <4>1
    <3> QED BY <2>2, <3>1, <3>3 DEF WorkInv, Emptied
  <2> QED BY <2>1, <2>2 DEF PopReturnsNull
<1>1. TypeOK'
  <2>1. scan' \in [Threads -> SUBSET Hosts]
      BY <1>a DEF TypeOK
  <2>2. pc' \in [Threads -> {"pop", "popFrom", "probe", "spin", "peek", "lockFirst",
                            "lockSecond", "execute", "push", "scan", "done"}]
      BY <1>a DEF TypeOK
  <2> QED BY <1>a, <2>1, <2>2 DEF TypeOK, RoundTypeOK
<1>2. WorkInv'
    BY <1>a, <1>b, <1>c DEF WorkInv, Stealing
<1>3. PlaceInv' /\ EventsInv'
    BY <1>a, PlaceFrame, EventsFrame
<1>5. RoundInv'
  <2>1. \A v \in Threads : (Begun(v)' <=> Begun(v)) /\ (Emptied(v) <=> Emptied(v)')
      BY <1>a DEF Begun, Emptied
  <2>2. ASSUME NEW u \in 0 .. ThreadCount - 1, u # t
        PROVE  RoundOf(u)'
      BY <1>a, <1>b, <2>1, <2>2, OthersRound, ThreadCountType
  <2>3. t \in 0 .. ThreadCount - 1 => RoundOf(t)'
      BY <1>b, <1>c, <2>1, ThreadCountType DEF RoundOf, Stealing, Emptied
  <2> QED BY <1>a, <2>1, <2>2, <2>3 DEF RoundInv
<1>6. TimesInv'
  <2>1. \A g \in Hosts : ToBeScanned(g) => ToBeScanned(g)'
    <3> SUFFICES ASSUME NEW g \in Hosts, NEW u \in Threads,
                        \/ g \in unproc[u] \/ running[u] = g
                        \/ g \in proc[u] /\ (pc[u] \notin {"scan", "done"} \/ g \in scan[u])
                 PROVE  \/ g \in unproc'[u] \/ running'[u] = g
                        \/ g \in proc'[u] /\ (pc'[u] \notin {"scan", "done"} \/ g \in scan'[u])
        BY DEF ToBeScanned
    <3>1. CASE u = t
        BY <3>1, <1>a, <1>b
    <3>2. CASE u # t
        BY <3>2, <1>a, <1>b
    <3> QED BY <3>1, <3>2
  <2>2. \A time : (Reported(time) => Reported(time)') /\ (Covered(time) => Covered(time)')
      BY <1>a, <1>b, <1>c DEF Reported, Covered
  <2> QED BY <1>a, <2>1, <2>2 DEF TimesInv
<1> QED BY <1>1, <1>2, <1>3, <1>5, <1>6

\* getNextTime looks at one more queue.
LEMMA FindMinTimeInv ==
    ASSUME IInv, NEW t \in Threads, NEW h \in Hosts, FindMinTime(t, h)
    PROVE  IInv'
<1> USE DEF IInv
<1> DEFINE m == LeastTime(pq[h])
<1>a. /\ pc[t] = "scan" /\ h \in scan[t]
      /\ scan' = [scan EXCEPT ![t] = @ \ {h}]
      /\ scanMin' = [scanMin EXCEPT ![t] = Lesser(m, @)]
      /\ UNCHANGED <<barrier, over, pc, cur, outbox, minTime, clock, nextId, unproc, proc, running,
                     curBarrier, stealable, tlock, pq, lastTime, hostThread, off>>
    BY DEF FindMinTime, roundVars, threadVars, queueVars
<1>b. /\ scan'[t] = scan[t] \ {h} /\ scanMin'[t] = Lesser(m, scanMin[t])
      /\ \A u \in Threads : u # t => scan'[u] = scan[u] /\ scanMin'[u] = scanMin[u]
    BY <1>a DEF TypeOK
<1>c. \A e \in pq[h] : e \in Event /\ e.time \in Nat /\ e.time \in 0 .. EndTime
    BY EventsAssumption DEF TypeOK, Event
<1>d. /\ pq[h] = {} => m = SIMTIME_MAX
      /\ pq[h] # {} => \E e \in pq[h] : e.time = m
      /\ \A e \in pq[h] : m <= e.time
    BY <1>c, LeastTimeOf
<1> HIDE DEF m
<1>e. Begun(t) /\ h \in proc[t]
  <2>1. h \in proc[t]
      BY <1>a DEF WorkInv
  <2>2. t \in 0 .. ThreadCount - 1
      BY <2>1, ThreadCountType DEF WorkInv, Threads
  <2> QED BY <1>a, <2>1, <2>2 DEF RoundInv, RoundOf
<1>f. \A e \in pq[h] : barrier <= e.time
    BY <1>e DEF RoundInv
<1>g. /\ m \in 0 .. EndTime \cup {SIMTIME_MAX} /\ m \in Nat /\ scanMin[t] \in Nat
      /\ \A u \in Threads : scanMin[u] \in Nat
  <2>1. m \in 0 .. EndTime \cup {SIMTIME_MAX}
      BY <1>c, <1>d
  <2>2. \A u \in Threads : scanMin[u] \in 0 .. EndTime \cup {SIMTIME_MAX}
      BY DEF TypeOK
  <2> QED BY <2>1, <2>2, EventsAssumption
<1>h. scanMin'[t] <= m /\ scanMin'[t] <= scanMin[t] /\ scanMin'[t] \in {m, scanMin[t]}
    BY <1>b, <1>g DEF Lesser
<1>1. TypeOK'
  <2>1. scan' \in [Threads -> SUBSET Hosts]
      BY <1>a DEF TypeOK
  <2>2. scanMin' \in [Threads -> 0 .. EndTime \cup {SIMTIME_MAX}]
      BY <1>a, <1>g DEF TypeOK, Lesser
  <2> QED BY <1>a, <2>1, <2>2 DEF TypeOK, RoundTypeOK
<1>2. WorkInv'
  <2>1. \A u \in Threads : scan'[u] \subseteq scan[u] /\ (u # t => scanMin'[u] = scanMin[u])
      BY <1>b
  <2> QED BY <1>a, <2>1 DEF WorkInv
<1>3. PlaceInv' /\ EventsInv'
    BY <1>a, PlaceFrame, EventsFrame
<1>5. RoundInv'
  <2>1. \A v \in Threads : (Begun(v)' <=> Begun(v)) /\ (Emptied(v) <=> Emptied(v)')
      BY <1>a DEF Begun, Emptied
  <2>2. ASSUME NEW u \in 0 .. ThreadCount - 1
        PROVE  RoundOf(u)'
      BY <1>a, <2>1, OthersRound
  <2> QED BY <1>a, <2>1, <2>2 DEF RoundInv
<1>6. TimesInv'
  <2>1. \A u \in Threads : Reported(minTime[u])'
      BY <1>a DEF TimesInv, Reported
  <2>2. ASSUME NEW u \in Threads
        PROVE  Reported(scanMin[u])'
    <3>1. CASE scanMin'[u] = scanMin[u]
        BY <1>a, <3>1 DEF TimesInv, Reported
    <3>2. CASE scanMin'[u] = m
        BY <1>a, <1>d, <1>f, <3>2 DEF Reported
    <3> QED BY <1>b, <1>h, <3>1, <3>2
  <2>5. \A g \in Hosts : g # h /\ ToBeScanned(g) => ToBeScanned(g)'
      BY <1>a, <1>b DEF ToBeScanned
  <2>6. ASSUME NEW g \in Hosts, NEW e \in pq[g], barrier <= e.time, ~over
        PROVE  \E u \in Threads : \/ minTime'[u] <= e.time \/ (pc'[u] = "scan" /\ scanMin'[u] <= e.time)
                                  \/ ToBeScanned(g)'
    <3>1. CASE g = h
      <4>1. scanMin'[t] <= e.time
          BY <1>c, <1>d, <1>g, <1>h, <3>1
      <4> QED BY <1>a, <4>1
    <3>2. CASE g # h
      <4>1. Covered(e.time) \/ ToBeScanned(g)
          BY <2>6 DEF TimesInv
      <4>2. e \in Event /\ e.time \in Nat
          BY EventsAssumption DEF TypeOK, Event
      <4>3. CASE ToBeScanned(g)
          BY <2>5, <3>2, <4>3
      <4>4. CASE Covered(e.time)
        <5>1. PICK u \in Threads : minTime[u] <= e.time \/ (pc[u] = "scan" /\ scanMin[u] <= e.time)
            BY <4>4 DEF Covered
        <5>2. scanMin[u] <= e.time => scanMin'[u] <= e.time
            BY <1>b, <1>g, <1>h, <4>2
        <5> QED BY <1>a, <5>1, <5>2
      <4> QED BY <4>1, <4>3, <4>4
    <3> QED BY <3>1, <3>2
  <2> QED BY <1>a, <2>1, <2>2, <2>6 DEF TimesInv, Covered
<1> QED BY <1>1, <1>2, <1>3, <1>5, <1>6

\* The worker reports what getNextTime found.
LEMMA NextTimeFoundInv ==
    ASSUME IInv, NEW t \in Threads, NextTimeFound(t)
    PROVE  IInv'
<1> USE DEF IInv
<1>a. /\ pc[t] = "scan" /\ scan[t] = {}
      /\ minTime' = IF scanMin[t] < barrier THEN minTime
                    ELSE [minTime EXCEPT ![t] = Lesser(scanMin[t], @)]
      /\ pc' = [pc EXCEPT ![t] = "done"]
      /\ scanMin' = [scanMin EXCEPT ![t] = SIMTIME_MAX]
      /\ UNCHANGED <<barrier, over, cur, outbox, clock, nextId, unproc, proc, running,
                     curBarrier, stealable, tlock, pq, lastTime, hostThread, off, scan>>
    BY DEF NextTimeFound, FinishRound, SetMinEventTime, Goto, threadVars, queueVars
<1>b. /\ pc'[t] = "done" /\ scanMin'[t] = SIMTIME_MAX
      /\ \A u \in Threads : u # t => pc'[u] = pc[u] /\ scanMin'[u] = scanMin[u]
    BY <1>a DEF TypeOK
<1>c. /\ barrier \in 1 .. EndTime /\ barrier \in Nat
      /\ \A u \in Threads : scanMin[u] \in Nat /\ minTime[u] \in Nat
  <2>1. barrier \in 1 .. EndTime /\ barrier \in Nat
      BY EventsAssumption DEF TypeOK, RoundTypeOK
  <2>2. \A u \in Threads : /\ scanMin[u] \in 0 .. EndTime \cup {SIMTIME_MAX}
                           /\ minTime[u] \in 0 .. EndTime \cup {SIMTIME_MAX}
      BY DEF TypeOK, RoundTypeOK
  <2> QED BY <2>1, <2>2, EventsAssumption
<1>d. barrier <= scanMin[t]
    BY <1>c, EventsAssumption DEF TimesInv, Reported
<1>e. /\ minTime'[t] <= scanMin[t] /\ minTime'[t] <= minTime[t] /\ minTime'[t] \in {scanMin[t], minTime[t]}
      /\ \A u \in Threads : u # t => minTime'[u] = minTime[u]
  <2>1. minTime'[t] = Lesser(scanMin[t], minTime[t]) /\ \A u \in Threads : u # t => minTime'[u] = minTime[u]
      BY <1>a, <1>c, <1>d DEF TypeOK, RoundTypeOK
  <2> QED BY <2>1, <1>c DEF Lesser
<1>1. TypeOK'
  <2>1. scanMin' \in [Threads -> 0 .. EndTime \cup {SIMTIME_MAX}]
      BY <1>a DEF TypeOK
  <2>2. minTime' \in [Threads -> 0 .. EndTime \cup {SIMTIME_MAX}]
      BY <1>a DEF TypeOK, RoundTypeOK, Lesser
  <2>3. pc' \in [Threads -> {"pop", "popFrom", "probe", "spin", "peek", "lockFirst",
                            "lockSecond", "execute", "push", "scan", "done"}]
      BY <1>a DEF TypeOK
  <2> QED BY <1>a, <2>1, <2>2, <2>3 DEF TypeOK, RoundTypeOK
<1>2. WorkInv'
    BY <1>a, <1>b DEF WorkInv, Stealing
<1>3. PlaceInv' /\ EventsInv'
    BY <1>a, PlaceFrame, EventsFrame
<1>5. RoundInv'
  <2>1. \A v \in Threads : (Begun(v)' <=> Begun(v)) /\ (Emptied(v) <=> Emptied(v)')
      BY <1>a DEF Begun, Emptied
  <2>2. ASSUME NEW u \in 0 .. ThreadCount - 1, u # t
        PROVE  RoundOf(u)'
      BY <1>a, <1>b, <2>1, <2>2, OthersRound, ThreadCountType
  <2>3. t \in 0 .. ThreadCount - 1 => RoundOf(t)'
      BY <1>a, <1>b, <2>1, ThreadCountType DEF RoundInv, RoundOf, Stealing
  <2> QED BY <1>a, <2>1, <2>2, <2>3 DEF RoundInv
<1>6. TimesInv'
  <2>1. ASSUME NEW u \in Threads
        PROVE  Reported(minTime[u])'
    <3>1. CASE minTime'[u] = minTime[u]
        BY <1>a, <3>1 DEF TimesInv, Reported
    <3>2. CASE minTime'[u] = scanMin[u]
        BY <1>a, <3>2 DEF TimesInv, Reported
    <3> QED BY <1>e, <3>1, <3>2
  <2>2. \A u \in Threads : Reported(scanMin[u])'
      BY <1>a, <1>b DEF TimesInv, Reported
  <2>3. ASSUME NEW g \in Hosts, NEW e \in pq[g], barrier <= e.time, ~over
        PROVE  \E u \in Threads : \/ minTime'[u] <= e.time \/ (pc'[u] = "scan" /\ scanMin'[u] <= e.time)
                                  \/ ToBeScanned(g)'
    <3>1. Covered(e.time) \/ ToBeScanned(g)
        BY <2>3 DEF TimesInv
    <3>2. e \in Event /\ e.time \in Nat
        BY EventsAssumption DEF TypeOK, Event
    <3>3. CASE ToBeScanned(g)
      <4>1. ToBeScanned(g)'
          BY <1>a, <1>b, <3>3 DEF ToBeScanned
      <4> QED BY <4>1
    <3>4. CASE Covered(e.time)
      <4>1. PICK u \in Threads : minTime[u] <= e.time \/ (pc[u] = "scan" /\ scanMin[u] <= e.time)
          BY <3>4 DEF Covered
      <4>2. CASE u = t
        <5>1. minTime'[t] <= e.time
            BY <1>c, <1>e, <3>2, <4>1, <4>2
        <5> QED BY <5>1
      <4>3. CASE u # t
          BY <1>b, <1>e, <4>1, <4>3
      <4> QED BY <4>2, <4>3
    <3> QED BY <3>1, <3>3, <3>4
  <2> QED BY <1>a, <2>1, <2>2, <2>3 DEF TimesInv, Covered
<1> QED BY <1>1, <1>2, <1>3, <1>5, <1>6

\* The time that the main thread reads is that of the earliest event, which
\* belongs to a later round, or "none".
LEMMA GlobalTime ==
    ASSUME IInv
    PROVE  /\ GlobalNextEventTime \in Nat /\ barrier <= GlobalNextEventTime
           /\ GlobalNextEventTime \in 0 .. EndTime \cup {SIMTIME_MAX}
           /\ \A t \in Threads : GlobalNextEventTime <= minTime[t]
           /\ \E t \in Threads : GlobalNextEventTime = minTime[t]
<1> USE DEF IInv
<1>1. /\ barrier \in 1 .. EndTime
      /\ \A t \in Threads : minTime[t] \in 0 .. EndTime \cup {SIMTIME_MAX}
    BY DEF TypeOK, RoundTypeOK
<1>2. barrier \in Nat /\ barrier < SIMTIME_MAX /\ \A t \in Threads : minTime[t] \in Nat
    BY <1>1, EventsAssumption
<1>3. 0 \in Threads
    BY ThreadsAssumption DEF Threads
<1> DEFINE T == {minTime[t] : t \in Threads}
<1>4. T \subseteq Nat /\ T # {}
    BY <1>2, <1>3
<1>5. PICK x \in T : \A y \in T : x <= y
    BY <1>4, LeastNumber
<1>6. /\ GlobalNextEventTime \in T
      /\ \A t \in Threads : GlobalNextEventTime <= minTime[t]
    BY <1>5 DEF GlobalNextEventTime
<1>7. PICK t \in Threads : GlobalNextEventTime = minTime[t]
    BY <1>6
<1>8. barrier <= minTime[t]
    BY <1>2 DEF TimesInv, Reported
<1> QED BY <1>1, <1>2, <1>6, <1>7, <1>8

\* manager_run goes on to the next window, or ends.
LEMMA NextRoundInv ==
    ASSUME IInv, NEW jump \in Jumps, NextRound(jump), UNCHANGED policyVars
    PROVE  IInv'
<1> USE DEF IInv, policyVars
<1> DEFINE m == GlobalNextEventTime
<1>a. /\ ~over /\ \A t \in Threads : pc[t] = "done"
      /\ minTime' = [t \in Threads |-> SIMTIME_MAX]
      /\ UNCHANGED <<cur, outbox, clock, nextId>>
    BY DEF NextRound, TimesReset
<1>b. \A t \in Threads : /\ cur[t] = {} /\ outbox[t] = <<>> /\ running[t] = None
                         /\ scan[t] = {} /\ scanMin[t] = SIMTIME_MAX
    BY <1>a DEF WorkInv
<1>c. m \in Nat /\ barrier <= m /\ barrier \in Nat /\ barrier \in 1 .. EndTime
  <2>1. barrier \in 1 .. EndTime
      BY DEF TypeOK, RoundTypeOK
  <2> QED BY <2>1, GlobalTime
<1>d. \/ /\ barrier' = WindowEnd(m, jump) /\ m < WindowEnd(m, jump)
         /\ pc' = [t \in Threads |-> "pop"] /\ over' = over
      \/ over' = TRUE /\ barrier' = barrier /\ pc' = pc
    BY DEF NextRound
<1> HIDE DEF m
<1>e. CASE /\ barrier' = WindowEnd(m, jump) /\ m < WindowEnd(m, jump)
           /\ pc' = [t \in Threads |-> "pop"] /\ over' = over
  <2>1. barrier' \in 1 .. EndTime /\ barrier < barrier'
      BY <1>c, <1>e, EventsAssumption DEF WindowEnd
  <2>2. TypeOK'
    <3>1. minTime' \in [Threads -> 0 .. EndTime \cup {SIMTIME_MAX}]
        BY <1>a
    <3>2. pc' \in [Threads -> {"pop", "popFrom", "probe", "spin", "peek", "lockFirst",
                            "lockSecond", "execute", "push", "scan", "done"}]
        BY <1>e
    <3> QED BY <1>a, <1>e, <2>1, <3>1, <3>2 DEF TypeOK, RoundTypeOK
  <2>3. WorkInv'
      BY <1>a, <1>b, <1>e DEF WorkInv, Stealing
  <2>4. PlaceInv'
      BY PlaceFrame
  <2>5. EventsInv'
    <3>1. \A h \in Hosts : lastTime[h] < barrier'
        BY <1>c, <2>1, EventsAssumption DEF EventsInv, TypeOK
    <3> QED BY <1>a, <1>b, <3>1 DEF EventsInv
  <2>6. RoundInv'
    <3>1. \A t \in Threads : curBarrier[t] < barrier'
        BY <1>c, <2>1, EventsAssumption DEF RoundInv, TypeOK
    <3>2. \A t \in Threads : curBarrier'[t] <= barrier' /\ ~Begun(t)'
        BY <2>1, <3>1, EventsAssumption DEF Begun, TypeOK
    <3>3. \A t \in 0 .. ThreadCount - 1 : RoundOf(t)'
        BY <1>e, ThreadCountType DEF RoundOf, Stealing
    <3> QED BY <3>2, <3>3 DEF RoundInv
  <2>7. TimesInv'
    <3>1. \A t \in Threads : Reported(minTime[t])' /\ Reported(scanMin[t])'
        BY <1>a, <1>b DEF Reported
    <3>2. \A h \in Hosts : ToBeScanned(h)'
        BY <1>e DEF ToBeScanned, PlaceInv, Holds
    <3> QED BY <3>1, <3>2 DEF TimesInv
  <2> QED BY <2>2, <2>3, <2>4, <2>5, <2>6, <2>7
<1>f. CASE over' = TRUE /\ barrier' = barrier /\ pc' = pc
  <2>2. TypeOK'
    <3>1. minTime' \in [Threads -> 0 .. EndTime \cup {SIMTIME_MAX}]
        BY <1>a
    <3> QED BY <1>a, <1>f, <3>1 DEF TypeOK, RoundTypeOK
  <2>3. WorkInv'
      BY <1>a, <1>f DEF WorkInv
  <2>4. PlaceInv' /\ EventsInv'
      BY <1>a, <1>f, PlaceFrame, EventsFrame
  <2>5. RoundInv'
    <3>1. \A v \in Threads : (Begun(v)' <=> Begun(v)) /\ (Emptied(v) <=> Emptied(v)')
        BY <1>f DEF Begun, Emptied
    <3>2. ASSUME NEW u \in 0 .. ThreadCount - 1
          PROVE  RoundOf(u)'
        BY <1>f, <3>1, OthersRound
    <3> QED BY <1>f, <3>1, <3>2 DEF RoundInv
  <2>6. TimesInv'
    <3>1. \A t \in Threads : Reported(minTime[t])' /\ Reported(scanMin[t])'
        BY <1>a, <1>b DEF Reported
    <3> QED BY <1>f, <3>1 DEF TimesInv
  <2> QED BY <2>2, <2>3, <2>4, <2>5, <2>6
<1> QED BY <1>d, <1>e, <1>f

-----------------------------------------------------------------------------
(***************************************************************************)
(* The invariant                                                           *)
(***************************************************************************)

\* The boot events lie before the stop time and belong to their host.
LEMMA BootEventsType ==
    ASSUME NEW h \in Hosts
    PROVE  BootEvents(h) \subseteq Event /\ \A e \in BootEvents(h) : e.dst = h /\ 0 <= e.time
    BY EventsAssumption DEF BootEvents, Event, Kept

\* A thread beyond the number of hosts is dealt none.
LEMMA NoHostsBeyond ==
    ASSUME NEW assigned \in [Hosts -> Threads], Dealt(assigned), NEW t \in Threads,
           t >= ThreadCount
    PROVE  {h \in Hosts : assigned[h] = t} = {}
<1> DEFINE n == Cardinality(Hosts)
           mine == {h \in Hosts : assigned[h] = t}
<1>1. n \in Nat /\ NThreads \in Nat \ {0} /\ t \in 0 .. NThreads - 1
    BY ThreadsAssumption, FS_CardinalityType DEF Threads
<1>2. Cardinality(mine) = (n + NThreads - 1 - t) \div NThreads
    BY DEF Dealt
<1>3. t >= n
    BY <1>1 DEF ThreadCount, Lesser
<1> HIDE DEF n
<1>4. (n + NThreads - 1 - t) \div NThreads = 0
  <2>1. n + NThreads - 1 - t \in 0 .. NThreads - 1
      BY <1>1, <1>3
  <2>2. \A k \in 0 .. NThreads - 1 : k \div NThreads = 0
      BY <1>1, Z3
  <2> QED BY <2>1, <2>2
<1>5. IsFiniteSet(mine)
    BY ThreadsAssumption, FS_Subset
<1> QED BY <1>2, <1>4, <1>5, FS_EmptySet

LEMMA InitInv == Init => IInv
<1> SUFFICES ASSUME Init
             PROVE  IInv
    OBVIOUS
<1> USE DEF Init, RoundInit
<1>0. PICK assigned \in [Hosts -> Threads] :
         /\ Dealt(assigned) /\ hostThread = assigned
         /\ unproc = [t \in Threads |-> {h \in Hosts : assigned[h] = t}]
    OBVIOUS
<1>1. TypeOK
  <2>1. /\ 0 \in 0 .. EndTime /\ 1 \in 1 .. EndTime /\ 0 \in 0 .. MaxEvents /\ 0 \in 0 .. NThreads
        /\ barrier \in 1 .. EndTime
      BY EventsAssumption, ThreadsAssumption
  <2>2. pq \in [Hosts -> SUBSET Event]
      BY BootEventsType
  <2>3. /\ unproc \in [Threads -> SUBSET Hosts] /\ proc \in [Threads -> SUBSET Hosts]
        /\ running \in [Threads -> Hosts \cup {None}] /\ tlock \in [Threads -> Threads \cup {None}]
        /\ scan \in [Threads -> SUBSET Hosts] /\ scanMin \in [Threads -> 0 .. EndTime \cup {SIMTIME_MAX}]
        /\ hostThread \in [Hosts -> Threads]
      BY <1>0
  <2>4. /\ curBarrier \in [Threads -> 0 .. EndTime] /\ off \in [Threads -> 0 .. NThreads]
        /\ lastTime \in [Hosts -> 0 .. EndTime]
      BY <2>1
  <2>5. stealable \in [Threads -> BOOLEAN]
      OBVIOUS
  <2>6. pc \in [Threads -> {"pop", "popFrom", "probe", "spin", "peek", "lockFirst",
                            "lockSecond", "execute", "push", "scan", "done"}]
      OBVIOUS
  <2>7. RoundTypeOK
    <3>1. /\ over \in BOOLEAN /\ cur \in [Threads -> SUBSET Event]
          /\ minTime \in [Threads -> 0 .. EndTime \cup {SIMTIME_MAX}]
        OBVIOUS
    <3>2. outbox \in [Threads -> Seq([time : Nat, dst : Hosts, src : Hosts, id : 0 .. MaxEvents])]
        OBVIOUS
    <3>3. clock \in [Hosts -> 0 .. EndTime] /\ nextId \in [Hosts -> 0 .. MaxEvents]
        BY <2>1
    <3> QED BY <2>1, <3>1, <3>2, <3>3 DEF RoundTypeOK
  <2> QED BY <2>2, <2>3, <2>4, <2>5, <2>6, <2>7 DEF TypeOK
<1>2. WorkInv
  <2>1. \A t \in Threads : t >= ThreadCount => unproc[t] = {}
      BY <1>0, NoHostsBeyond
  <2>2. \A t \in Threads : cur[t] = {} /\ scan[t] = {} /\ outbox[t] = <<>> /\ proc[t] = {}
      OBVIOUS
  <2>3. \A t \in Threads : pc[t] = "pop" /\ running[t] = None /\ scanMin[t] = SIMTIME_MAX
      OBVIOUS
  <2> QED BY <2>1, <2>2, <2>3 DEF WorkInv, Stealing
<1>3. PlaceInv
  <2>1. \A t \in Threads : \A h \in Hosts : Holds(t, h) <=> assigned[h] = t
      BY <1>0, NoneNoHost DEF Holds
  <2>2. \A t \in Threads : /\ unproc[t] \subseteq Hosts /\ proc[t] = {} /\ running[t] = None
      BY <1>0
  <2>3. \A h \in Hosts : assigned[h] \in Threads
      OBVIOUS
  <2> QED BY <2>1, <2>2, <2>3, NoneNoHost DEF PlaceInv
<1>4. EventsInv
  <2>1. \A h \in Hosts : clock[h] = 0 /\ lastTime[h] = 0 /\ pq[h] = BootEvents(h)
      OBVIOUS
  <2>2. \A t \in Threads : cur[t] = {} /\ outbox[t] = <<>>
      OBVIOUS
  <2> QED BY <2>1, <2>2, BootEventsType DEF EventsInv
<1>5. RoundInv
  <2>1. \A t \in Threads : curBarrier[t] = 0 /\ pc[t] = "pop" /\ barrier = 1
      OBVIOUS
  <2>2. \A t \in 0 .. ThreadCount - 1 : RoundOf(t)
      BY <2>1, ThreadCountType DEF RoundOf, Stealing
  <2>3. \A t \in Threads : ~Begun(t)
      BY <2>1 DEF Begun
  <2> QED BY <2>1, <2>2, <2>3 DEF RoundInv
<1>6. TimesInv
  <2>1. \A t \in Threads : Reported(minTime[t]) /\ Reported(scanMin[t])
      BY DEF Reported
  <2>2. \A h \in Hosts : ToBeScanned(h)
      BY <1>0 DEF ToBeScanned
  <2> QED BY <2>1, <2>2 DEF TimesInv
<1> QED BY <1>1, <1>2, <1>3, <1>4, <1>5, <1>6 DEF IInv

\* Every step of a thread keeps the invariant.
LEMMA ThreadStepInv ==
    ASSUME IInv, NEW t \in Threads, ThreadStep(t)
    PROVE  IInv'
<1>1. CASE PopLock(t)
    BY <1>1, PopLockInv
<1>2. CASE \E h \in Hosts : PopEvent(t, h)
    BY <1>2, PopEventInv
<1>3. CASE \E h \in Hosts : HostProcessed(t, h)
    BY <1>3, HostProcessedInv
<1>4. CASE \E h \in Hosts : FindMinTime(t, h)
    BY <1>4, FindMinTimeInv
<1>5. CASE ListExhausted(t)
    BY <1>5, ListExhaustedInv
<1>6. CASE Probe(t)
    BY <1>6, ProbeInv
<1>7. CASE Spin(t)
    BY <1>7, SpinInv
<1>8. CASE Peek(t)
    BY <1>8, PeekInv
<1>9. CASE LockFirst(t) \/ LockSecond(t)
    BY <1>9, LocksInv
<1>10. CASE ExecuteEvent(t) /\ UNCHANGED policyVars
    BY <1>10, ExecuteEventInv
<1>11. CASE PushEvent(t)
    BY <1>11, PushEventInv
<1>12. CASE (PushDropped(t) \/ EventDone(t)) /\ UNCHANGED policyVars
    BY <1>12, OtherPushInv
<1>13. CASE PopReturnsNull(t)
    BY <1>13, PopReturnsNullInv
<1>14. CASE NextTimeFound(t)
    BY <1>14, NextTimeFoundInv
<1> QED BY <1>1, <1>2, <1>3, <1>4, <1>5, <1>6, <1>7, <1>8, <1>9, <1>10, <1>11, <1>12, <1>13, <1>14
        DEF ThreadStep

\* A step that changes nothing keeps the invariant.
LEMMA StutterInv ==
    ASSUME IInv, UNCHANGED vars
    PROVE  IInv'
<1> USE DEF vars, IInv
<1>1. TypeOK'
    BY DEF TypeOK, RoundTypeOK
<1>2. WorkInv'
    BY DEF WorkInv
<1>3. PlaceInv' /\ EventsInv'
    BY PlaceFrame, EventsFrame
<1>4. RoundInv'
    BY DEF RoundInv, RoundOf, Begun, Emptied, Victim
<1>5. TimesInv'
    BY TimesFrame
<1> QED BY <1>1, <1>2, <1>3, <1>4, <1>5

LEMMA StepInv == IInv /\ [Next]_vars => IInv'
<1> SUFFICES ASSUME IInv, [Next]_vars
             PROVE  IInv'
    OBVIOUS
<1>1. CASE \E t \in Threads : ThreadStep(t)
    BY <1>1, ThreadStepInv
<1>2. CASE MainStep
    BY <1>2, NextRoundInv DEF MainStep
<1>3. CASE Stopped \/ UNCHANGED vars
    BY <1>3, StutterInv DEF Stopped
<1> QED BY <1>1, <1>2, <1>3 DEF Next

\* The inductive invariant holds in every state the policy reaches.
THEOREM Invariance == Spec => []IInv
    BY InitInv, StepInv, PTL DEF Spec

-----------------------------------------------------------------------------
(***************************************************************************)
(* What it implies                                                         *)
(***************************************************************************)

\* A host is in one place.
LEMMA OnePlace ==
    ASSUME IInv, NEW h \in Hosts
    PROVE  Cardinality(Places(h)) = 1
<1> USE DEF IInv
<1>1. PICK t \in Threads : Holds(t, h)
    BY DEF PlaceInv
<1>2. \A u \in Threads : Holds(u, h) => u = t
    BY <1>1 DEF PlaceInv
<1>3. \E place : Places(h) = {place}
  <2>1. CASE h \in unproc[t]
    <3>1. h \notin proc[t] /\ running[t] # h
        BY <2>1 DEF PlaceInv
    <3>2. Places(h) = {<<t, "unproc">>}
        BY <1>2, <2>1, <3>1 DEF Places, Holds
    <3> QED BY <3>2
  <2>2. CASE h \in proc[t]
    <3>1. h \notin unproc[t] /\ running[t] # h
        BY <2>2 DEF PlaceInv
    <3>2. Places(h) = {<<t, "proc">>}
        BY <1>2, <2>2, <3>1 DEF Places, Holds
    <3> QED BY <3>2
  <2>3. CASE running[t] = h
    <3>1. h \notin unproc[t] /\ h \notin proc[t]
        BY <2>3 DEF PlaceInv
    <3>2. Places(h) = {<<t, "running">>}
        BY <1>2, <2>3, <3>1 DEF Places, Holds
    <3> QED BY <3>2
  <2> QED BY <1>1, <2>1, <2>2, <2>3 DEF Holds
<1> QED BY <1>3, FS_Singleton

\* However threads steal hosts from one another, every host is in exactly one
\* list or on one thread, and hostToThreadMap names the thread that runs it.
THEOREM HostsArePlaced == Spec => []HostsPlaced
<1>1. IInv => HostsPlaced
  <2> SUFFICES ASSUME IInv
               PROVE  HostsPlaced
      OBVIOUS
  <2>1. HostInOnePlace
      BY OnePlace DEF HostInOnePlace
  <2>2. MapFollowsHost
      BY DEF MapFollowsHost, IInv, EventsInv
  <2> QED BY <2>1, <2>2 DEF HostsPlaced, IInv
<1> QED BY <1>1, Invariance, PTL

\* When all workers are through, no event of the round is left: every list is
\* empty, no thread runs a host, and the hosts that were processed have none.
LEMMA RoundDone ==
    ASSUME IInv, \A t \in Threads : pc[t] = "done"
    PROVE  \A h \in Hosts : \A e \in pq[h] : barrier <= e.time
<1> USE DEF IInv
<1> SUFFICES ASSUME NEW h \in Hosts
             PROVE  \A e \in pq[h] : barrier <= e.time
    OBVIOUS
<1>1. PICK t \in Threads : Holds(t, h)
    BY DEF PlaceInv
<1>2. t < ThreadCount /\ t \in 0 .. ThreadCount - 1 /\ running[t] = None
    BY <1>1, NoneNoHost, ThreadCountType DEF WorkInv, Holds, Threads
<1>3. Begun(t) /\ unproc[t] = {}
    BY <1>2 DEF RoundInv, RoundOf, Emptied
<1>4. h \in proc[t]
    BY <1>1, <1>2, <1>3, NoneNoHost DEF Holds
<1> QED BY <1>3, <1>4 DEF RoundInv

\* A round takes exactly the events of its window: no event is delivered in
\* the past of its host, and none of the round is left when all are through.
THEOREM RoundsAreExact == Spec => []RoundExact
<1>1. IInv => RoundExact
  <2> SUFFICES ASSUME IInv
               PROVE  RoundExact
      OBVIOUS
  <2> USE DEF IInv
  <2>1. RoundComplete
    <3>1. \A h \in Hosts : \A e \in pq[h] : e.time \in Nat /\ barrier \in Nat
        BY EventsAssumption DEF TypeOK, RoundTypeOK, Event
    <3> QED BY <3>1, RoundDone DEF RoundComplete
  <2>2. ASSUME NEW h \in Hosts, NEW e \in pq[h]
        PROVE  e.time >= lastTime[h]
    <3>1. e \in Event /\ lastTime[h] \in Nat /\ lastTime[h] <= e.time
        BY EventsAssumption DEF TypeOK, EventsInv
    <3> QED BY <3>1, EventsAssumption DEF Event
  <2>3. ASSUME NEW t \in Threads, NEW k \in 1 .. Len(outbox[t])
        PROVE  LET e == Adjusted(outbox[t][k], barrier) IN e.time >= lastTime[e.dst]
    <3> DEFINE f == outbox[t][k]
               e == Adjusted(f, barrier)
    <3>1. f \in NewEvent /\ f.src = running[t] /\ lastTime[running[t]] <= f.time
      <4>1. outbox[t] \in Seq(NewEvent)
          BY DEF TypeOK, RoundTypeOK, NewEvent
      <4> QED BY <4>1 DEF EventsInv
    <3>2. barrier \in 1 .. EndTime /\ \A g \in Hosts : lastTime[g] \in Nat /\ lastTime[g] < barrier
        BY EventsAssumption DEF TypeOK, RoundTypeOK, EventsInv
    <3>3. /\ e.dst = f.dst /\ e.time \in Nat /\ f.time <= e.time /\ f.dst \in Hosts /\ f.src \in Hosts
          /\ f.src # f.dst => barrier <= e.time
        BY <3>1, <3>2, AdjustedEvent DEF NewEvent
    <3> HIDE DEF f, e
    <3>4. f.time \in Nat
        BY <3>1 DEF NewEvent
    <3>5. lastTime[e.dst] <= e.time
        BY <3>1, <3>2, <3>3, <3>4
    <3> QED BY <3>2, <3>3, <3>5 DEF e, f
  <2> QED BY <2>1, <2>2, <2>3 DEF RoundExact, NoEventInThePast
<1> QED BY <1>1, Invariance, PTL

-----------------------------------------------------------------------------
(***************************************************************************)
(* The policy is the simulation EventSim                                   *)
(***************************************************************************)

\* Event e is for h, and thread t has popped it or is about to push it.
OnTheWay(t, h, e) ==
    \/ e \in cur[t] /\ e.dst = h
    \/ \E k \in 1 .. Len(outbox[t]) :
          outbox[t][k].dst = h /\ Kept(outbox[t][k]) /\ e = Adjusted(outbox[t][k], barrier)

\* The events that are pending, before and after a step.
LEMMA InPending ==
    /\ \A h \in Hosts : \A e :
          e \in Pending[h] <=> e \in pq[h] \/ \E t \in Threads : OnTheWay(t, h, e)
    /\ \A h \in Hosts : \A e :
          e \in Pending'[h] <=> e \in pq'[h] \/ \E t \in Threads : OnTheWay(t, h, e)'
<1>1. ASSUME NEW h \in Hosts, NEW e
      PROVE  e \in Pending[h] <=> e \in pq[h] \/ \E t \in Threads : OnTheWay(t, h, e)
    BY DEF Pending, InFlight, OnTheWay
<1>2. ASSUME NEW h \in Hosts, NEW e
      PROVE  e \in Pending'[h] <=> e \in pq'[h] \/ \E t \in Threads : OnTheWay(t, h, e)'
    BY DEF Pending, InFlight, OnTheWay
<1> QED BY <1>1, <1>2

LEMMA SamePending ==
    ASSUME NEW P, \A h \in Hosts : P[h] = Pending'[h], P = [h \in Hosts |-> P[h]]
    PROVE  P = Pending'
<1>1. Pending' = [h \in Hosts |-> Pending'[h]]
    BY DEF Pending
<1> QED BY <1>1

\* A step that leaves queues, popped events and events to push alone.
LEMMA PendingFrame ==
    ASSUME UNCHANGED <<pq, cur, outbox, barrier>>
    PROVE  Pending' = Pending
    BY DEF Pending, InFlight

\* A popped event is still pending.
LEMMA PendingPopEvent ==
    ASSUME IInv, NEW t \in Threads, NEW h \in Hosts, PopEvent(t, h)
    PROVE  Pending' = Pending
<1> USE DEF IInv
<1>0. PICK e \in pq[h] : pq' = [pq EXCEPT ![h] = @ \ {e}] /\ cur' = [cur EXCEPT ![t] = {e}]
    BY DEF PopEvent, Popped
<1>1. /\ cur[t] = {} /\ outbox' = outbox /\ barrier' = barrier /\ e.dst = h
    BY DEF PopEvent, WorkInv, EventsInv
<1>2. /\ cur'[t] = {e} /\ \A u \in Threads : u # t => cur'[u] = cur[u]
      /\ pq'[h] = pq[h] \ {e} /\ \A g \in Hosts : g # h => pq'[g] = pq[g]
    BY <1>0 DEF TypeOK, RoundTypeOK
<1>3. /\ \A g \in Hosts : \A d : OnTheWay(t, g, d)' <=> OnTheWay(t, g, d) \/ (d = e /\ g = h)
      /\ \A u \in Threads : u # t => \A g \in Hosts : \A d : OnTheWay(u, g, d)' <=> OnTheWay(u, g, d)
    BY <1>1, <1>2 DEF OnTheWay
<1>4. ASSUME NEW g \in Hosts, NEW d
      PROVE  d \in Pending'[g] <=> d \in Pending[g]
  <2>1. (\E u \in Threads : OnTheWay(u, g, d)') <=> (\E u \in Threads : OnTheWay(u, g, d)) \/ (d = e /\ g = h)
      BY <1>3
  <2>2. d \in pq[g] <=> d \in pq'[g] \/ (d = e /\ g = h)
      BY <1>2
  <2> QED BY <2>1, <2>2, InPending
<1>5. \A g \in Hosts : Pending[g] = Pending'[g]
    BY <1>4
<1>6. Pending = [g \in Hosts |-> Pending[g]]
    BY DEF Pending
<1> QED BY <1>5, <1>6, SamePending

\* A pushed event was pending before.
LEMMA PendingPushEvent ==
    ASSUME IInv, NEW t \in Threads, PushEvent(t)
    PROVE  Pending' = Pending
<1> USE DEF IInv
<1> DEFINE f == Head(outbox[t])
           e == Adjusted(f, barrier)
<1>0. /\ outbox[t] # <<>> /\ Kept(f) /\ UNCHANGED <<cur, barrier>>
      /\ outbox' = [outbox EXCEPT ![t] = Tail(@)] /\ pq' = [pq EXCEPT ![e.dst] = @ \cup {e}]
    BY DEF PushEvent, PushNext
<1>1. /\ f \in NewEvent /\ f = outbox[t][1] /\ outbox[t] \in Seq(NewEvent)
      /\ \A k \in 1 .. Len(Tail(outbox[t])) :
            k + 1 \in 1 .. Len(outbox[t]) /\ Tail(outbox[t])[k] = outbox[t][k + 1]
      /\ Len(Tail(outbox[t])) = Len(outbox[t]) - 1 /\ 1 \in 1 .. Len(outbox[t])
    BY <1>0, Pushed
<1>2. e.dst = f.dst /\ f.dst \in Hosts
    BY <1>1, AdjustedEvent DEF TypeOK, RoundTypeOK, NewEvent
<1>3. /\ outbox'[t] = Tail(outbox[t]) /\ \A u \in Threads : u # t => outbox'[u] = outbox[u]
      /\ pq'[f.dst] = pq[f.dst] \cup {e} /\ \A g \in Hosts : g # f.dst => pq'[g] = pq[g]
    BY <1>0, <1>2 DEF TypeOK, RoundTypeOK
<1> HIDE DEF e
<1>4. ASSUME NEW g \in Hosts, NEW d
      PROVE  OnTheWay(t, g, d) <=> OnTheWay(t, g, d)' \/ (d = e /\ g = f.dst)
  <2>1. ASSUME OnTheWay(t, g, d)'
        PROVE  OnTheWay(t, g, d)
      BY <1>0, <1>1, <1>3, <2>1 DEF OnTheWay
  <2>2. ASSUME d = e, g = f.dst
        PROVE  OnTheWay(t, g, d)
      BY <1>0, <1>1, <2>2 DEF OnTheWay, e
  <2>3. ASSUME OnTheWay(t, g, d), ~(d = e /\ g = f.dst)
        PROVE  OnTheWay(t, g, d)'
    <3>1. CASE d \in cur[t] /\ d.dst = g
        BY <1>0, <3>1 DEF OnTheWay
    <3>2. CASE \E k \in 1 .. Len(outbox[t]) :
                  outbox[t][k].dst = g /\ Kept(outbox[t][k]) /\ d = Adjusted(outbox[t][k], barrier)
      <4>1. PICK k \in 1 .. Len(outbox[t]) :
               outbox[t][k].dst = g /\ Kept(outbox[t][k]) /\ d = Adjusted(outbox[t][k], barrier)
          BY <3>2
      <4>2. k # 1
          BY <1>1, <2>3, <4>1 DEF e
      <4>3. k - 1 \in 1 .. Len(Tail(outbox[t])) /\ Tail(outbox[t])[k - 1] = outbox[t][k]
          BY <1>1, <4>2
      <4> QED BY <1>0, <1>3, <4>1, <4>3 DEF OnTheWay
    <3> QED BY <2>3, <3>1, <3>2 DEF OnTheWay
  <2> QED BY <2>1, <2>2, <2>3
<1>5. \A u \in Threads : u # t => \A g \in Hosts : \A d : OnTheWay(u, g, d)' <=> OnTheWay(u, g, d)
    BY <1>0, <1>3 DEF OnTheWay
<1>6. ASSUME NEW g \in Hosts, NEW d
      PROVE  d \in Pending'[g] <=> d \in Pending[g]
  <2>1. (\E u \in Threads : OnTheWay(u, g, d)) <=> (\E u \in Threads : OnTheWay(u, g, d)') \/ (d = e /\ g = f.dst)
      BY <1>4, <1>5
  <2>2. d \in pq'[g] <=> d \in pq[g] \/ (d = e /\ g = f.dst)
      BY <1>3
  <2> QED BY <2>1, <2>2, InPending
<1>7. \A g \in Hosts : Pending[g] = Pending'[g]
    BY <1>6
<1>8. Pending = [g \in Hosts |-> Pending[g]]
    BY DEF Pending
<1> QED BY <1>7, <1>8, SamePending

\* An event that is dropped never was pending.
LEMMA PendingPushDropped ==
    ASSUME IInv, NEW t \in Threads, PushDropped(t), UNCHANGED policyVars
    PROVE  Pending' = Pending
<1> USE DEF IInv
<1>0. /\ outbox[t] # <<>> /\ ~Kept(Head(outbox[t])) /\ UNCHANGED <<cur, barrier, pq>>
      /\ outbox' = [outbox EXCEPT ![t] = Tail(@)]
    BY DEF PushDropped, policyVars
<1>1. /\ Head(outbox[t]) = outbox[t][1] /\ outbox[t] \in Seq(NewEvent)
      /\ \A k \in 1 .. Len(Tail(outbox[t])) :
            k + 1 \in 1 .. Len(outbox[t]) /\ Tail(outbox[t])[k] = outbox[t][k + 1]
      /\ Len(Tail(outbox[t])) = Len(outbox[t]) - 1 /\ 1 \in 1 .. Len(outbox[t])
    BY <1>0, Pushed
<1>2. /\ outbox'[t] = Tail(outbox[t]) /\ \A u \in Threads : u # t => outbox'[u] = outbox[u]
    BY <1>0 DEF TypeOK, RoundTypeOK
<1>3. ASSUME NEW g \in Hosts, NEW d
      PROVE  OnTheWay(t, g, d) <=> OnTheWay(t, g, d)'
  <2>1. ASSUME OnTheWay(t, g, d)'
        PROVE  OnTheWay(t, g, d)
      BY <1>0, <1>1, <1>2, <2>1 DEF OnTheWay
  <2>2. ASSUME OnTheWay(t, g, d)
        PROVE  OnTheWay(t, g, d)'
    <3>1. CASE d \in cur[t] /\ d.dst = g
        BY <1>0, <3>1 DEF OnTheWay
    <3>2. CASE \E k \in 1 .. Len(outbox[t]) :
                  outbox[t][k].dst = g /\ Kept(outbox[t][k]) /\ d = Adjusted(outbox[t][k], barrier)
      <4>1. PICK k \in 1 .. Len(outbox[t]) :
               outbox[t][k].dst = g /\ Kept(outbox[t][k]) /\ d = Adjusted(outbox[t][k], barrier)
          BY <3>2
      <4>2. k # 1
          BY <1>0, <1>1, <4>1
      <4>3. k - 1 \in 1 .. Len(Tail(outbox[t])) /\ Tail(outbox[t])[k - 1] = outbox[t][k]
          BY <1>1, <4>2
      <4> QED BY <1>0, <1>2, <4>1, <4>3 DEF OnTheWay
    <3> QED BY <2>2, <3>1, <3>2 DEF OnTheWay
  <2> QED BY <2>1, <2>2
<1>4. \A u \in Threads : u # t => \A g \in Hosts : \A d : OnTheWay(u, g, d)' <=> OnTheWay(u, g, d)
    BY <1>0, <1>2 DEF OnTheWay
<1>5. ASSUME NEW g \in Hosts, NEW d
      PROVE  d \in Pending'[g] <=> d \in Pending[g]
  <2>1. (\E u \in Threads : OnTheWay(u, g, d)) <=> (\E u \in Threads : OnTheWay(u, g, d)')
      BY <1>3, <1>4
  <2> QED BY <1>0, <2>1, InPending
<1>6. \A g \in Hosts : Pending[g] = Pending'[g]
    BY <1>5
<1>7. Pending = [g \in Hosts |-> Pending[g]]
    BY DEF Pending
<1> QED BY <1>6, <1>7, SamePending

\* The operators of EventSim are those of the policy.
LEMMA SimOperators ==
    /\ \A e, S : Sim!IsFirst(e, S) <=> IsFirst(e, S)
    /\ \A S : Sim!LeastTime(S) = LeastTime(S)
    /\ \A m, jump : Sim!WindowEnd(m, jump) = WindowEnd(m, jump)
    /\ \A s, h, now, n : Sim!NewEvents(s, h, now, n) = NewEvents(s, h, now, n)
    /\ \A e, b : Sim!Adjusted(e, b) = Adjusted(e, b)
    /\ \A e : Sim!Kept(e) <=> Kept(e)
    /\ \A h : Sim!BootEvents(h) = BootEvents(h)
    BY DEF Sim!IsFirst, IsFirst, Sim!EventBefore, EventBefore, Sim!LeastTime, LeastTime,
           Sim!WindowEnd, WindowEnd, Sim!NewEvents, NewEvents, Sim!Adjusted, Adjusted,
           Sim!Kept, Kept, Sim!BootEvents, BootEvents

\* The event that a thread has popped is the first that is pending for its
\* host: what other threads have on the way to the host belongs to a later
\* round.
LEMMA PoppedIsFirst ==
    ASSUME IInv, NEW t \in Threads, NEW e \in cur[t]
    PROVE  /\ e \in Event /\ e.dst \in Hosts /\ e \in Pending[e.dst]
           /\ IsFirst(e, Pending[e.dst]) /\ clock[e.dst] <= e.time /\ e.time < barrier
           /\ \A h \in Hosts : e \notin pq[h]
           /\ \A u \in Threads : u # t => \A h \in Hosts : ~OnTheWay(u, h, e)
<1> USE DEF IInv
<1>1. /\ e \in Event /\ barrier \in 1 .. EndTime /\ barrier \in Nat
    BY EventsAssumption DEF TypeOK, RoundTypeOK
<1>2. e.dst \in Hosts /\ e.time \in Nat /\ e.id \in Int /\ e.src \in Nat /\ e.dst \in Nat
  <2>1. e.dst \in Hosts /\ e.src \in Hosts /\ e.time \in 0 .. EndTime /\ e.id \in 0 .. MaxEvents
      BY <1>1 DEF Event
  <2>2. e.dst \in Nat /\ e.src \in Nat
      BY <2>1, EventsAssumption
  <2>3. e.time \in Nat /\ e.id \in Int
      BY <2>1
  <2> QED BY <2>1, <2>2, <2>3
<1>3. e.dst = running[t] /\ e.time = lastTime[e.dst] /\ \A f \in pq[e.dst] : EventBefore(e, f)
    BY DEF EventsInv
<1>4. clock[e.dst] <= e.time /\ e.time < barrier
    BY <1>2, <1>3 DEF EventsInv
<1>5. outbox[t] = <<>> /\ \A d \in cur[t] : d = e
    BY DEF WorkInv
<1>6. ASSUME NEW u \in Threads, u # t, NEW d, OnTheWay(u, e.dst, d)
      PROVE  e.time < d.time
  <2>1. running[u] # e.dst
      BY <1>2, <1>3, <1>6 DEF PlaceInv, Holds
  <2>2. ~(d \in cur[u] /\ d.dst = e.dst)
      BY <2>1 DEF EventsInv
  <2>3. PICK k \in 1 .. Len(outbox[u]) :
           outbox[u][k].dst = e.dst /\ d = Adjusted(outbox[u][k], barrier)
      BY <1>6, <2>2 DEF OnTheWay
  <2>4. outbox[u] \in Seq(NewEvent)
      BY DEF TypeOK, RoundTypeOK, NewEvent
  <2>5. outbox[u][k] \in NewEvent /\ outbox[u][k].src # outbox[u][k].dst
      BY <2>1, <2>3, <2>4 DEF EventsInv
  <2>6. barrier <= d.time /\ d.time \in Nat
      BY <1>1, <2>3, <2>5, AdjustedEvent
  <2> QED BY <1>1, <1>2, <1>4, <2>6
<1>7. e \in Pending[e.dst]
    BY <1>2, InPending DEF OnTheWay
<1>8. IsFirst(e, Pending[e.dst])
  <2> SUFFICES ASSUME NEW f \in Pending[e.dst], f # e
               PROVE  EventBefore(e, f)
      BY <1>7 DEF IsFirst
  <2>1. CASE f \in pq[e.dst]
      BY <1>3, <2>1
  <2>2. CASE \E u \in Threads : OnTheWay(u, e.dst, f)
    <3>1. PICK u \in Threads : OnTheWay(u, e.dst, f)
        BY <2>2
    <3>2. u # t
        BY <1>5, <3>1 DEF OnTheWay
    <3> QED BY <1>6, <3>1, <3>2 DEF EventBefore
  <2> QED BY <1>2, <2>1, <2>2, InPending
<1>9. \A h \in Hosts : e \notin pq[h]
  <2>1. ~EventBefore(e, e)
      BY <1>2 DEF EventBefore
  <2> QED BY <1>3, <2>1 DEF EventsInv
<1>10. ASSUME NEW u \in Threads, u # t, NEW h \in Hosts, OnTheWay(u, h, e)
       PROVE  FALSE
  <2>1. h = e.dst
    <3>1. CASE e \in cur[u] /\ e.dst = h
        BY <3>1
    <3>2. CASE \E k \in 1 .. Len(outbox[u]) :
                  outbox[u][k].dst = h /\ e = Adjusted(outbox[u][k], barrier)
      <4>1. PICK k \in 1 .. Len(outbox[u]) : outbox[u][k].dst = h /\ e = Adjusted(outbox[u][k], barrier)
          BY <3>2
      <4>2. outbox[u] \in Seq(NewEvent)
          BY DEF TypeOK, RoundTypeOK, NewEvent
      <4> QED BY <1>1, <4>1, <4>2, AdjustedEvent
    <3> QED BY <1>10, <3>1, <3>2 DEF OnTheWay
  <2>2. e.time < e.time
      BY <1>6, <1>10, <2>1
  <2> QED BY <1>2, <2>2
<1> QED BY <1>1, <1>2, <1>4, <1>7, <1>8, <1>9, <1>10

\* worker_runEvent is the step of the host.
LEMMA SimExecute ==
    ASSUME IInv, NEW t \in Threads, ExecuteEvent(t), UNCHANGED policyVars
    PROVE  Sim!Next
<1> USE DEF IInv
<1>0. PICK e \in cur[t] : \E s \in Emits(e.dst, e) :
         /\ nextId[e.dst] + Len(s) <= MaxEvents
         /\ outbox' = [outbox EXCEPT ![t] = NewEvents(s, e.dst, e.time, nextId[e.dst])]
         /\ clock' = [clock EXCEPT ![e.dst] = e.time]
         /\ nextId' = [nextId EXCEPT ![e.dst] = @ + Len(s)]
    BY DEF ExecuteEvent
<1>1. PICK s \in Emits(e.dst, e) :
         /\ nextId[e.dst] + Len(s) <= MaxEvents
         /\ outbox' = [outbox EXCEPT ![t] = NewEvents(s, e.dst, e.time, nextId[e.dst])]
         /\ clock' = [clock EXCEPT ![e.dst] = e.time]
         /\ nextId' = [nextId EXCEPT ![e.dst] = @ + Len(s)]
    BY <1>0
<1>2. /\ pc[t] = "execute" /\ cur' = [cur EXCEPT ![t] = {}] /\ UNCHANGED <<barrier, over, pq>>
      /\ ~over /\ outbox[t] = <<>> /\ \A d \in cur[t] : d = e
    BY DEF ExecuteEvent, policyVars, WorkInv
<1>3. /\ e \in Event /\ e.dst \in Hosts /\ e \in Pending[e.dst]
      /\ IsFirst(e, Pending[e.dst]) /\ clock[e.dst] <= e.time /\ e.time < barrier
      /\ \A h \in Hosts : e \notin pq[h]
      /\ \A u \in Threads : u # t => \A h \in Hosts : ~OnTheWay(u, h, e)
    BY PoppedIsFirst
<1> DEFINE new == NewEvents(s, e.dst, e.time, nextId[e.dst])
<1>4. Len(new) = Len(s) /\ Len(s) \in Nat
  <2>1. s \in Seq(Hosts \X Nat)
      BY <1>3, EventsAssumption
  <2> QED BY <2>1 DEF NewEvents
<1> HIDE DEF new
<1>5. /\ cur'[t] = {} /\ outbox'[t] = new
      /\ \A u \in Threads : u # t => cur'[u] = cur[u] /\ outbox'[u] = outbox[u]
    BY <1>1, <1>2 DEF TypeOK, RoundTypeOK, new
<1>6. ASSUME NEW g \in Hosts, NEW d
      PROVE  d \in Sim!Arrivals(s, e.dst, e.time, g) <=>
                \E k \in 1 .. Len(new) : /\ new[k].dst = g /\ Kept(new[k])
                                         /\ d = Adjusted(new[k], barrier)
    BY <1>4, SimOperators DEF Sim!Arrivals, new
<1>7. ASSUME NEW g \in Hosts, NEW d
      PROVE  d \in Pending'[g] <=> d \in (Pending[g] \ {e}) \cup Sim!Arrivals(s, e.dst, e.time, g)
  <2>1. OnTheWay(t, g, d)' <=> d \in Sim!Arrivals(s, e.dst, e.time, g)
      BY <1>2, <1>5, <1>6 DEF OnTheWay
  <2>2. OnTheWay(t, g, d) => d = e
      BY <1>2 DEF OnTheWay
  <2>3. \A u \in Threads : u # t => (OnTheWay(u, g, d)' <=> OnTheWay(u, g, d))
      BY <1>2, <1>5 DEF OnTheWay
  <2>4. d = e => d \notin pq[g] /\ \A u \in Threads : u # t => ~OnTheWay(u, g, d)
      BY <1>3
  <2>5. (\E u \in Threads : OnTheWay(u, g, d)')
           <=> d \in Sim!Arrivals(s, e.dst, e.time, g) \/ \E u \in Threads : u # t /\ OnTheWay(u, g, d)
      BY <2>1, <2>3
  <2>6. d \in Pending[g] \ {e} <=> d \in pq[g] \/ \E u \in Threads : u # t /\ OnTheWay(u, g, d)
      BY <2>2, <2>4, InPending
  <2> QED BY <1>2, <2>5, <2>6, InPending
<1> DEFINE P == [g \in Hosts |-> (Pending[g] \ {e}) \cup Sim!Arrivals(s, e.dst, e.time, g)]
<1>8. P = Pending'
  <2>1. \A g \in Hosts : P[g] = Pending'[g]
      BY <1>7
  <2> HIDE DEF P
  <2>2. P = [g \in Hosts |-> P[g]]
      BY DEF P
  <2> QED BY <2>1, <2>2, SamePending
<1>9. Sim!Execute(e.dst)
    BY <1>1, <1>2, <1>3, <1>8, SimOperators DEF Sim!Execute
<1> QED BY <1>3, <1>9 DEF Sim!Next

\* Between two rounds what is pending is in the queues, and the time that the
\* main thread reads is the earliest.
LEMMA EarliestTime ==
    ASSUME IInv, ~over, \A t \in Threads : pc[t] = "done"
    PROVE  /\ \A h \in Hosts : Pending[h] = pq[h]
           /\ GlobalNextEventTime = LeastTime(UNION {Pending[h] : h \in Hosts})
<1> USE DEF IInv
<1>1. \A t \in Threads : cur[t] = {} /\ outbox[t] = <<>> /\ running[t] = None /\ scan[t] = {}
    BY DEF WorkInv
<1>2. \A h \in Hosts : Pending[h] = pq[h]
  <2>1. \A t \in Threads : \A h \in Hosts : \A e : ~OnTheWay(t, h, e)
      BY <1>1 DEF OnTheWay
  <2>2. \A h \in Hosts : \A e : e \in Pending[h] <=> e \in pq[h]
      BY <2>1, InPending
  <2> QED BY <2>2
<1>3. \A t \in Threads : unproc[t] = {}
  <2>1. ASSUME NEW t \in Threads, t < ThreadCount
        PROVE  unproc[t] = {}
      BY <2>1, ThreadCountType DEF RoundInv, RoundOf, Emptied
  <2>2. ASSUME NEW t \in Threads, ~(t < ThreadCount)
        PROVE  unproc[t] = {}
      BY <2>2, ThreadCountType DEF WorkInv, Threads
  <2> QED BY <2>1, <2>2
<1>4. \A h \in Hosts : ~ToBeScanned(h)
    BY <1>1, <1>3, NoneNoHost DEF ToBeScanned
<1> DEFINE m == GlobalNextEventTime
           S == UNION {Pending[h] : h \in Hosts}
<1>5. \A e : e \in S <=> \E h \in Hosts : e \in pq[h]
    BY <1>2
<1>6. /\ m \in Nat /\ \A t \in Threads : m <= minTime[t] /\ minTime[t] \in Nat
      /\ \E t \in Threads : m = minTime[t]
  <2>1. \A t \in Threads : minTime[t] \in 0 .. EndTime \cup {SIMTIME_MAX}
      BY DEF TypeOK, RoundTypeOK
  <2> QED BY <2>1, GlobalTime, EventsAssumption
<1> HIDE DEF m, S
<1>7. \A e \in S : e.time \in Nat /\ e.time <= EndTime
  <2>1. \A e \in S : e \in Event
      BY <1>5 DEF TypeOK
  <2> QED BY <2>1, EventsAssumption DEF Event
<1>8. ASSUME NEW e \in S
      PROVE  m <= e.time
  <2>1. PICK h \in Hosts : e \in pq[h]
      BY <1>5
  <2>2. barrier <= e.time
      BY <2>1, RoundDone
  <2>3. Covered(e.time)
      BY <1>4, <2>1, <2>2 DEF TimesInv
  <2>4. PICK t \in Threads : minTime[t] <= e.time
      BY <2>3 DEF Covered
  <2> QED BY <1>6, <1>7, <2>4
<1>9. m = LeastTime(S)
  <2>1. CASE m = SIMTIME_MAX
    <3>1. S = {}
        BY <1>7, <1>8, <2>1, EventsAssumption
    <3> QED BY <2>1, <3>1 DEF LeastTime
  <2>2. CASE m # SIMTIME_MAX
    <3>1. Reported(m)
        BY <1>6 DEF TimesInv
    <3>2. PICK d \in S : d.time = m
        BY <1>5, <2>2, <3>1 DEF Reported
    <3> QED BY <1>7, <1>8, <3>2, LeastTimeUnique
  <2> QED BY <2>1, <2>2
<1> QED BY <1>2, <1>9 DEF m, S

\* manager_run's step is the next window.
LEMMA SimNextWindow ==
    ASSUME IInv, NEW jump \in Jumps, NextRound(jump), UNCHANGED policyVars
    PROVE  Sim!Next
<1> USE DEF IInv
<1> DEFINE m == GlobalNextEventTime
<1>1. /\ ~over /\ \A t \in Threads : pc[t] = "done"
      /\ UNCHANGED <<cur, outbox, clock, nextId, pq>>
      /\ IF m < WindowEnd(m, jump)
         THEN barrier' = WindowEnd(m, jump) /\ over' = over
         ELSE over' = TRUE /\ barrier' = barrier
    BY DEF NextRound, policyVars
<1>2. m = LeastTime(UNION {Pending[h] : h \in Hosts}) /\ \A h \in Hosts : Pending[h] = pq[h]
    BY <1>1, EarliestTime
<1>3. m \in Nat /\ barrier <= m /\ barrier \in Nat
  <2>1. barrier \in 1 .. EndTime
      BY DEF TypeOK, RoundTypeOK
  <2> QED BY <2>1, GlobalTime
<1>4. Pending' = Pending
  <2>1. \A t \in Threads : cur[t] = {} /\ outbox[t] = <<>>
      BY <1>1 DEF WorkInv
  <2>2. \A t \in Threads : \A h \in Hosts : \A e : ~OnTheWay(t, h, e)'
      BY <1>1, <2>1 DEF OnTheWay
  <2>3. \A h \in Hosts : \A e : e \in Pending'[h] <=> e \in Pending[h]
      BY <1>1, <1>2, <2>2, InPending
  <2>4. \A h \in Hosts : Pending[h] = Pending'[h]
      BY <2>3
  <2>5. Pending = [g \in Hosts |-> Pending[g]]
      BY DEF Pending
  <2> QED BY <2>4, <2>5, SamePending
<1> HIDE DEF m
<1>5. over' = FALSE \/ over' = TRUE
    BY <1>1 DEF TypeOK, RoundTypeOK
<1>6. IF m < WindowEnd(m, jump)
      THEN barrier' = WindowEnd(m, jump) /\ over' = FALSE
      ELSE over' = TRUE /\ barrier' = barrier
    BY <1>1 DEF TypeOK, RoundTypeOK
<1>7. Sim!NextWindow
    BY <1>1, <1>2, <1>3, <1>4, <1>6, SimOperators DEF Sim!NextWindow
<1> QED BY <1>7 DEF Sim!Next

LEMMA SimInit == Init => Sim!Init
<1> SUFFICES ASSUME Init
             PROVE  Sim!Init
    OBVIOUS
<1>1. \A t \in Threads : cur[t] = {} /\ outbox[t] = <<>>
    BY DEF Init, RoundInit
<1>2. \A h \in Hosts : pq[h] = BootEvents(h)
    BY DEF Init
<1>3. \A t \in Threads : \A h \in Hosts : InFlight(t, h) = {}
    BY <1>1 DEF InFlight
<1>4. \A h \in Hosts : pq[h] \cup UNION {InFlight(t, h) : t \in Threads} = BootEvents(h)
    BY <1>2, <1>3
<1>5. Pending = [h \in Hosts |-> Sim!BootEvents(h)]
    BY <1>4, SimOperators DEF Pending
<1> QED BY <1>5 DEF Sim!Init, Init, RoundInit

\* Every step of the policy is a step of the simulation or none.
LEMMA SimStep == IInv /\ [Next]_vars => [Sim!Next]_(Sim!vars)
<1> SUFFICES ASSUME IInv, [Next]_vars
             PROVE  Sim!Next \/ UNCHANGED Sim!vars
    OBVIOUS
<1>0. UNCHANGED <<barrier, over, clock, nextId>> /\ Pending' = Pending => UNCHANGED Sim!vars
    BY DEF Sim!vars
<1>1. ASSUME NEW t \in Threads, ThreadStep(t)
      PROVE  Sim!Next \/ UNCHANGED Sim!vars
  <2>1. CASE \E h \in Hosts : PopEvent(t, h)
      BY <2>1, <1>0, PendingPopEvent DEF PopEvent
  <2>2. CASE ExecuteEvent(t) /\ UNCHANGED policyVars
      BY <2>2, SimExecute
  <2>3. CASE PushEvent(t)
      BY <2>3, <1>0, PendingPushEvent DEF PushEvent, PushNext
  <2>4. CASE PushDropped(t) /\ UNCHANGED policyVars
      BY <2>4, <1>0, PendingPushDropped DEF PushDropped
  <2>5. CASE UNCHANGED <<pq, cur, outbox, barrier, over, clock, nextId>>
      BY <2>5, <1>0, PendingFrame
  <2>6. \/ \E h \in Hosts : PopEvent(t, h)
        \/ ExecuteEvent(t) /\ UNCHANGED policyVars
        \/ PushEvent(t)
        \/ PushDropped(t) /\ UNCHANGED policyVars
        \/ UNCHANGED <<pq, cur, outbox, barrier, over, clock, nextId>>
      BY <1>1 DEF ThreadStep, PopLock, HostProcessed, FindMinTime, ListExhausted, Probe, Spin, Peek,
             LockFirst, LockSecond, EventDone, PopReturnsNull, NextTimeFound, FinishRound,
             policyVars, roundVars, roundVarsButPc, queueVars
  <2> QED BY <2>1, <2>2, <2>3, <2>4, <2>5, <2>6
<1>2. CASE MainStep
    BY <1>2, SimNextWindow DEF MainStep
<1>3. CASE Stopped \/ UNCHANGED vars
    BY <1>3, <1>0, PendingFrame DEF Stopped, vars
<1> QED BY <1>1, <1>2, <1>3 DEF Next

\* The policy implements a conservative parallel simulation: every host
\* executes its events in order, and the windows are those of the earliest
\* event anywhere, whatever the threads do at the same time.
THEOREM StealImplementsEventSim == Spec => ImplementsEventSim
    BY Invariance, SimInit, SimStep, PTL DEF Spec, ImplementsEventSim, Sim!Spec
=============================================================================
