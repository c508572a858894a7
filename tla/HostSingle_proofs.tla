------------------------- MODULE HostSingle_proofs -------------------------
(***************************************************************************)
(* Proofs about HostSingle, the default policy, for every number of        *)
(* threads and every finite set of hosts, whatever the hosts send: the     *)
(* policy is the simulation EventSim.                                      *)
(***************************************************************************)
EXTENDS HostSingle, FiniteSetTheorems, WellFoundedInduction, TLAPS

\* An event as it is created: it may lie beyond the end of the simulation.
NewEvent == [time : Nat, dst : Hosts, src : Hosts, id : 0 .. MaxEvents]

Elems(s) == {s[k] : k \in 1 .. Len(s)}
Distinct(s) == \A i, j \in 1 .. Len(s) : s[i] = s[j] => i = j

TypeInv ==
    /\ RoundTypeOK
    /\ unproc \in [Threads -> Seq(Hosts)]
    /\ proc \in [Threads -> Seq(Hosts)]
    /\ curBarrier \in [Threads -> 0 .. EndTime]
    /\ pq \in [Hosts -> SUBSET Event]
    /\ lastTime \in [Hosts -> 0 .. EndTime]
    /\ pc \in [Threads -> {"pop", "execute", "push", "scan", "done"}]
    /\ scan \in [Threads -> Seq(Hosts)]
    /\ scanMin \in [Threads -> 0 .. EndTime \cup {SIMTIME_MAX}]

\* Thread t has begun the round.
Begun(t) == curBarrier[t] = barrier

\* Where a worker is says what it holds.
WorkInv ==
    \A t \in Threads :
        /\ cur[t] # {} => pc[t] = "execute"
        /\ \A d, e \in cur[t] : d = e
        /\ outbox[t] # <<>> => pc[t] = "push"
        /\ pc[t] \in {"execute", "push"} => unproc[t] # <<>>
        /\ pc[t] \in {"scan", "done"} => unproc[t] = <<>>
        /\ t >= ThreadCount => unproc[t] = <<>> /\ proc[t] = <<>>
        /\ t < ThreadCount /\ pc[t] # "pop" => Begun(t)
        /\ scan[t] # <<>> => pc[t] = "scan"
        /\ Elems(scan[t]) \subseteq Elems(proc[t])
        /\ scanMin[t] # SIMTIME_MAX => pc[t] = "scan"
        /\ over => pc[t] = "done"

Holds(t, h) == h \in Elems(unproc[t]) \/ h \in Elems(proc[t])

\* Every host is in a list, and in none twice.
PlaceInv ==
    /\ \A h \in Hosts : \E t \in Threads : Holds(t, h)
    /\ \A t, u \in Threads : \A h \in Hosts : Holds(t, h) /\ Holds(u, h) => t = u
    /\ \A t \in Threads :
          /\ Distinct(unproc[t]) /\ Distinct(proc[t])
          /\ Elems(unproc[t]) \cap Elems(proc[t]) = {}

\* The events in a queue are its host's and lie ahead of it; the popped one is
\* the first of them; what a host has sent carries its name and lies ahead.
EventsInv ==
    /\ \A h \in Hosts :
          /\ clock[h] <= lastTime[h] /\ lastTime[h] < barrier
          /\ \A e \in pq[h] : e.dst = h /\ lastTime[h] <= e.time
    /\ \A t \in Threads : \A e \in cur[t] :
          /\ e.dst = Head(unproc[t]) /\ e.time = lastTime[e.dst]
          /\ \A f \in pq[e.dst] : EventBefore(e, f)
    /\ \A t \in Threads : \A k \in 1 .. Len(outbox[t]) :
          outbox[t][k].src = Head(unproc[t]) /\ lastTime[Head(unproc[t])] <= outbox[t][k].time

\* The hosts that were processed in this round have no event of it left.
RoundInv ==
    /\ \A t \in Threads : curBarrier[t] <= barrier
    /\ \A t \in Threads : \A h \in Elems(proc[t]) :
          Begun(t) => \A e \in pq[h] : barrier <= e.time

\* A time that is reported is "none" or that of an event of a later round.
Reported(time) ==
    time = SIMTIME_MAX \/ (barrier <= time /\ \E h \in Hosts : \E e \in pq[h] : e.time = time)

\* The host will still be looked at by getNextTime in this round.
ToBeScanned(h) ==
    \E t \in Threads :
        \/ h \in Elems(unproc[t])
        \/ h \in Elems(proc[t]) /\ (pc[t] \notin {"scan", "done"} \/ h \in Elems(scan[t]))

Covered(time) ==
    \E t \in Threads : minTime[t] <= time \/ (pc[t] = "scan" /\ scanMin[t] <= time)

\* The times reported so far and those still to come make up the earliest.
TimesInv ==
    /\ \A t \in Threads : Reported(minTime[t]) /\ Reported(scanMin[t])
    /\ ~over => \A h \in Hosts : \A e \in pq[h] :
          barrier <= e.time => Covered(e.time) \/ ToBeScanned(h)

\* The inductive invariant.
IInv == TypeInv /\ WorkInv /\ PlaceInv /\ EventsInv /\ RoundInv /\ TimesInv

-----------------------------------------------------------------------------
(***************************************************************************)
(* The operators the policy is built from                                  *)
(***************************************************************************)

\* The hosts are finite in number, so there is a number of threads with hosts.
LEMMA ThreadCountType ==
    /\ ThreadCount \in Nat /\ ThreadCount <= NThreads /\ Cardinality(Hosts) \in Nat
    /\ \A t \in Threads : t \in Nat /\ t < NThreads /\ (t < ThreadCount \/ t >= ThreadCount)
<1>1. Cardinality(Hosts) \in Nat /\ NThreads \in Nat
    BY ThreadsAssumption, FS_CardinalityType
<1> QED BY <1>1 DEF ThreadCount, Lesser, Threads

\* A set of times has a least one.
LEMMA LeastNumber ==
    ASSUME NEW T, T \subseteq Nat, T # {}
    PROVE  \E x \in T : \A y \in T : x <= y
<1>1. PICK x \in T : \A y \in T : ~(<<y, x>> \in OpToRel(<, Nat))
    BY NatLessThanWellFounded, WFMin
<1>2. \A y \in T : ~(y < x)
    BY <1>1 DEF OpToRel
<1> QED BY <1>2

\* The time at the head of a queue.
LEMMA LeastTimeOf ==
    ASSUME NEW S, \A e \in S : e.time \in Nat
    PROVE  /\ S = {} => LeastTime(S) = SIMTIME_MAX
           /\ S # {} => \E e \in S : e.time = LeastTime(S)
           /\ \A e \in S : LeastTime(S) <= e.time
<1>1. CASE S = {}
    BY <1>1 DEF LeastTime
<1>2. CASE S # {}
  <2>1. \E x \in {e.time : e \in S} : \A y \in {e.time : e \in S} : x <= y
      BY <1>2, LeastNumber
  <2>2. \E x \in {e.time : e \in S} : \A e \in S : x <= e.time
      BY <2>1
  <2>3. LeastTime(S) \in {e.time : e \in S} /\ \A e \in S : LeastTime(S) <= e.time
      BY <1>2, <2>2 DEF LeastTime
  <2> QED BY <1>2, <2>3
<1> QED BY <1>1, <1>2

\* A time that is the time of an event and no later than any is the least.
LEMMA LeastTimeUnique ==
    ASSUME NEW S, \A e \in S : e.time \in Nat, NEW d \in S, \A e \in S : d.time <= e.time
    PROVE  LeastTime(S) = d.time
<1>1. \E e \in S : e.time = LeastTime(S)
    BY LeastTimeOf
<1>2. LeastTime(S) <= d.time /\ d.time <= LeastTime(S)
    BY <1>1, LeastTimeOf
<1> QED BY <1>1, <1>2

\* The time at which push delivers an event.
LEMMA AdjustedEvent ==
    ASSUME NEW e \in NewEvent, NEW b \in 1 .. EndTime
    PROVE  /\ Adjusted(e, b).dst = e.dst /\ Adjusted(e, b).src = e.src
           /\ Adjusted(e, b).time \in Nat
           /\ e.time <= Adjusted(e, b).time
           /\ e.src # e.dst => b <= Adjusted(e, b).time
           /\ e.src = e.dst => Adjusted(e, b) = e
           /\ Kept(e) => Adjusted(e, b) \in Event
<1>1. CASE e.src # e.dst /\ e.time < b
  <2>1. Adjusted(e, b) = [e EXCEPT !.time = b]
      BY <1>1 DEF Adjusted
  <2> QED BY <1>1, <2>1, EventsAssumption DEF NewEvent, Event
<1>2. CASE ~(e.src # e.dst /\ e.time < b)
  <2>1. Adjusted(e, b) = e
      BY <1>2 DEF Adjusted
  <2> QED BY <1>2, <2>1, EventsAssumption DEF NewEvent, Event, Kept
<1> QED BY <1>1, <1>2

\* The events that a host creates.
LEMMA NewEventsType ==
    ASSUME NEW s \in Seq(Hosts \X Nat), NEW h \in Hosts, NEW now \in Nat, NEW n \in Nat,
           n + Len(s) <= MaxEvents
    PROVE  /\ NewEvents(s, h, now, n) \in Seq(NewEvent)
           /\ Len(NewEvents(s, h, now, n)) = Len(s)
           /\ \A k \in 1 .. Len(s) : /\ NewEvents(s, h, now, n)[k].src = h
                                     /\ now <= NewEvents(s, h, now, n)[k].time
<1>1. \A k \in 1 .. Len(s) : s[k] \in Hosts \X Nat
    OBVIOUS
<1>2. \A k \in 1 .. Len(s) : s[k][1] \in Hosts /\ s[k][2] \in Nat /\ n + k \in 0 .. MaxEvents
    BY <1>1, EventsAssumption
<1>3. \A k \in 1 .. Len(s) :
         [time |-> now + s[k][2], dst |-> s[k][1], src |-> h, id |-> n + k] \in NewEvent
    BY <1>2 DEF NewEvent
<1>4. NewEvents(s, h, now, n) \in [1 .. Len(s) -> NewEvent] /\ Len(s) \in Nat
    BY <1>3 DEF NewEvents
<1>5. NewEvents(s, h, now, n) \in Seq(NewEvent) /\ Len(NewEvents(s, h, now, n)) = Len(s)
    BY <1>4
<1> QED BY <1>2, <1>5 DEF NewEvents

\* The first event of a queue is no later than the others.
LEMMA FirstEvent ==
    ASSUME NEW S \in SUBSET Event, NEW e, IsFirst(e, S)
    PROVE  /\ e \in S /\ \A f \in S : e.time <= f.time
           /\ \A f \in S \ {e} : EventBefore(e, f)
    BY DEF IsFirst, EventBefore, Event

\* The boot events lie before the stop time and belong to their host.
LEMMA BootEventsType ==
    ASSUME NEW h \in Hosts
    PROVE  BootEvents(h) \subseteq Event /\ \A e \in BootEvents(h) : e.dst = h /\ 0 <= e.time
    BY EventsAssumption DEF BootEvents, Event, Kept

\* The elements of a sequence.
LEMMA ElemsOf ==
    ASSUME NEW S, NEW s \in Seq(S), NEW r \in Seq(S), NEW x \in S
    PROVE  /\ Elems(s) \subseteq S
           /\ s = <<>> <=> Elems(s) = {}
           /\ s # <<>> => /\ Head(s) \in Elems(s) /\ Tail(s) \in Seq(S)
                          /\ Elems(s) = {Head(s)} \cup Elems(Tail(s))
           /\ s \o r \in Seq(S) /\ Elems(s \o r) = Elems(s) \cup Elems(r)
           /\ Append(s, x) \in Seq(S) /\ Elems(Append(s, x)) = Elems(s) \cup {x}
<1>1. Len(s) \in Nat /\ Len(r) \in Nat /\ \A k \in 1 .. Len(s) : s[k] \in S
    OBVIOUS
<1>2. Elems(s) \subseteq S
    BY DEF Elems
<1>3. s = <<>> <=> Elems(s) = {}
  <2>1. s # <<>> => s[1] \in Elems(s)
      BY <1>1 DEF Elems
  <2>2. s = <<>> => Elems(s) = {}
      BY DEF Elems
  <2> QED BY <2>1, <2>2
<1>4. ASSUME s # <<>>
      PROVE  Head(s) \in Elems(s) /\ Tail(s) \in Seq(S) /\ Elems(s) = {Head(s)} \cup Elems(Tail(s))
  <2>1. /\ 1 \in 1 .. Len(s) /\ Head(s) = s[1] /\ Tail(s) \in Seq(S) /\ Len(Tail(s)) = Len(s) - 1
        /\ \A k \in 1 .. Len(s) - 1 : Tail(s)[k] = s[k + 1]
      BY <1>4
  <2>2. \A k \in 1 .. Len(s) : k # 1 => k - 1 \in 1 .. Len(Tail(s)) /\ Tail(s)[k - 1] = s[k]
      BY <1>1, <2>1
  <2>3. \A k \in 1 .. Len(Tail(s)) : k + 1 \in 1 .. Len(s) /\ Tail(s)[k] = s[k + 1]
      BY <1>1, <2>1
  <2>4. \A y : y \in Elems(s) => y = Head(s) \/ y \in Elems(Tail(s))
      BY <2>1, <2>2 DEF Elems
  <2>5. \A y : y = Head(s) \/ y \in Elems(Tail(s)) => y \in Elems(s)
      BY <2>1, <2>3 DEF Elems
  <2>6. Head(s) \in Elems(s)
      BY <2>5
  <2> QED BY <2>1, <2>4, <2>5, <2>6
<1>5. s \o r \in Seq(S) /\ Elems(s \o r) = Elems(s) \cup Elems(r)
  <2>1. /\ s \o r \in Seq(S) /\ Len(s \o r) = Len(s) + Len(r)
        /\ \A k \in 1 .. Len(s) + Len(r) : (s \o r)[k] = IF k <= Len(s) THEN s[k] ELSE r[k - Len(s)]
      OBVIOUS
  <2>2. \A k \in 1 .. Len(s) : k \in 1 .. Len(s \o r) /\ (s \o r)[k] = s[k]
      BY <1>1, <2>1
  <2>3. \A k \in 1 .. Len(r) : k + Len(s) \in 1 .. Len(s \o r) /\ (s \o r)[k + Len(s)] = r[k]
      BY <1>1, <2>1
  <2>4. \A k \in 1 .. Len(s \o r) : k \in 1 .. Len(s) \/ k - Len(s) \in 1 .. Len(r)
      BY <1>1, <2>1
  <2>5. \A y : y \in Elems(s \o r) => y \in Elems(s) \cup Elems(r)
      BY <1>1, <2>1, <2>4 DEF Elems
  <2>6. \A y : y \in Elems(s) \cup Elems(r) => y \in Elems(s \o r)
      BY <2>2, <2>3 DEF Elems
  <2> QED BY <2>1, <2>5, <2>6
<1>6. Append(s, x) \in Seq(S) /\ Elems(Append(s, x)) = Elems(s) \cup {x}
  <2>1. /\ Append(s, x) \in Seq(S) /\ Len(Append(s, x)) = Len(s) + 1 /\ Append(s, x)[Len(s) + 1] = x
        /\ \A k \in 1 .. Len(s) : Append(s, x)[k] = s[k]
      OBVIOUS
  <2>2. /\ \A k \in 1 .. Len(Append(s, x)) : k \in 1 .. Len(s) \/ k = Len(s) + 1
        /\ \A k \in 1 .. Len(s) : k \in 1 .. Len(Append(s, x))
        /\ Len(s) + 1 \in 1 .. Len(Append(s, x))
      BY <1>1, <2>1
  <2>3. \A y : y \in Elems(Append(s, x)) => y \in Elems(s) \cup {x}
      BY <2>1, <2>2 DEF Elems
  <2>4. \A y : y \in Elems(s) \cup {x} => y \in Elems(Append(s, x))
      BY <2>1, <2>2 DEF Elems
  <2> QED BY <2>1, <2>3, <2>4
<1> QED BY <1>2, <1>3, <1>4, <1>5, <1>6

\* Sequences in which nothing occurs twice.
LEMMA DistinctOf ==
    ASSUME NEW S, NEW s \in Seq(S), NEW r \in Seq(S), NEW x \in S, Distinct(s), Distinct(r)
    PROVE  /\ s # <<>> => Distinct(Tail(s)) /\ Head(s) \notin Elems(Tail(s))
           /\ Elems(s) \cap Elems(r) = {} => Distinct(s \o r)
           /\ x \notin Elems(s) => Distinct(Append(s, x))
<1>1. Len(s) \in Nat /\ Len(r) \in Nat
    OBVIOUS
<1>2. ASSUME s # <<>>
      PROVE  Distinct(Tail(s)) /\ Head(s) \notin Elems(Tail(s))
  <2>1. /\ 1 \in 1 .. Len(s) /\ Head(s) = s[1] /\ Len(Tail(s)) = Len(s) - 1
        /\ \A k \in 1 .. Len(s) - 1 : k + 1 \in 1 .. Len(s) /\ Tail(s)[k] = s[k + 1]
      BY <1>2
  <2>2. Distinct(Tail(s))
      BY <1>1, <2>1 DEF Distinct
  <2>3. \A k \in 1 .. Len(Tail(s)) : Tail(s)[k] # Head(s)
      BY <1>1, <2>1 DEF Distinct
  <2> QED BY <2>2, <2>3 DEF Elems
<1>3. ASSUME Elems(s) \cap Elems(r) = {}
      PROVE  Distinct(s \o r)
  <2>1. /\ Len(s \o r) = Len(s) + Len(r)
        /\ \A k \in 1 .. Len(s) + Len(r) : (s \o r)[k] = IF k <= Len(s) THEN s[k] ELSE r[k - Len(s)]
      OBVIOUS
  <2>2. \A i \in 1 .. Len(s) : \A j \in 1 .. Len(r) : s[i] # r[j]
      BY <1>3 DEF Elems
  <2> SUFFICES ASSUME NEW i \in 1 .. Len(s \o r), NEW j \in 1 .. Len(s \o r), (s \o r)[i] = (s \o r)[j]
               PROVE  i = j
      BY DEF Distinct
  <2>3. CASE i <= Len(s) /\ j <= Len(s)
      BY <1>1, <2>1, <2>3 DEF Distinct
  <2>4. CASE i > Len(s) /\ j > Len(s)
    <3>1. i - Len(s) \in 1 .. Len(r) /\ j - Len(s) \in 1 .. Len(r) /\ r[i - Len(s)] = r[j - Len(s)]
        BY <1>1, <2>1, <2>4
    <3>2. i - Len(s) = j - Len(s)
        BY <3>1 DEF Distinct
    <3> QED BY <1>1, <3>2
  <2>5. CASE i <= Len(s) /\ j > Len(s)
    <3>1. i \in 1 .. Len(s) /\ j - Len(s) \in 1 .. Len(r) /\ s[i] = r[j - Len(s)]
        BY <1>1, <2>1, <2>5
    <3> QED BY <2>2, <3>1
  <2>6. CASE i > Len(s) /\ j <= Len(s)
    <3>1. j \in 1 .. Len(s) /\ i - Len(s) \in 1 .. Len(r) /\ s[j] = r[i - Len(s)]
        BY <1>1, <2>1, <2>6
    <3> QED BY <2>2, <3>1
  <2> QED BY <1>1, <2>1, <2>3, <2>4, <2>5, <2>6
<1>4. ASSUME x \notin Elems(s)
      PROVE  Distinct(Append(s, x))
  <2>1. /\ Len(Append(s, x)) = Len(s) + 1 /\ Append(s, x)[Len(s) + 1] = x
        /\ \A k \in 1 .. Len(s) : Append(s, x)[k] = s[k] /\ s[k] # x
        /\ \A k \in 1 .. Len(Append(s, x)) : k \in 1 .. Len(s) \/ k = Len(s) + 1
      BY <1>4, <1>1 DEF Elems
  <2> QED BY <1>1, <2>1 DEF Distinct
<1> QED BY <1>2, <1>3, <1>4

-----------------------------------------------------------------------------
(***************************************************************************)
(* What a step that leaves some variables alone preserves                  *)
(***************************************************************************)

\* A thread that was given hosts shows that there are some.
LEMMA SomeHost ==
    ASSUME NEW t \in Threads, t < ThreadCount
    PROVE  \E x \in Hosts : TRUE
<1>1. ThreadCount <= Cardinality(Hosts) /\ t \in Nat /\ Cardinality(Hosts) \in Nat
    BY ThreadCountType, ThreadsAssumption DEF ThreadCount, Lesser
<1>2. Cardinality(Hosts) # 0
    BY <1>1, ThreadCountType
<1> QED BY <1>2, ThreadsAssumption, FS_EmptySet

\* The lists of a thread are sequences of hosts.
LEMMA ListsType ==
    ASSUME IInv, NEW t \in Threads
    PROVE  /\ unproc[t] \in Seq(Hosts) /\ proc[t] \in Seq(Hosts) /\ scan[t] \in Seq(Hosts)
           /\ Elems(unproc[t]) \subseteq Hosts /\ Elems(proc[t]) \subseteq Hosts
           /\ Elems(scan[t]) \subseteq Hosts
<1>1. unproc[t] \in Seq(Hosts) /\ proc[t] \in Seq(Hosts) /\ scan[t] \in Seq(Hosts)
    BY DEF IInv, TypeInv
<1>2. \A s \in Seq(Hosts) : Elems(s) \subseteq Hosts
    BY DEF Elems
<1> QED BY <1>1, <1>2

\* The host that a thread runs is the first of its list.
LEMMA RunningHost ==
    ASSUME IInv, NEW t \in Threads, unproc[t] # <<>>
    PROVE  /\ Head(unproc[t]) \in Hosts /\ Head(unproc[t]) \in Elems(unproc[t])
           /\ \A u \in Threads : Head(unproc[t]) \notin Elems(proc[u])
           /\ \A u \in Threads : u # t => Head(unproc[t]) \notin Elems(unproc[u])
<1>1. Head(unproc[t]) \in Elems(unproc[t]) /\ Head(unproc[t]) \in Hosts
  <2>1. unproc[t] \in Seq(Hosts)
      BY ListsType
  <2>2. 1 \in 1 .. Len(unproc[t]) /\ Head(unproc[t]) = unproc[t][1] /\ unproc[t][1] \in Hosts
      BY <2>1
  <2> QED BY <2>2 DEF Elems
<1>2. ASSUME NEW u \in Threads
      PROVE  Head(unproc[t]) \notin Elems(proc[u])
    BY <1>1 DEF IInv, PlaceInv, Holds
<1>3. ASSUME NEW u \in Threads, u # t
      PROVE  Head(unproc[t]) \notin Elems(unproc[u])
    BY <1>1, <1>3 DEF IInv, PlaceInv, Holds
<1> QED BY <1>1, <1>2, <1>3

\* The lists decide about PlaceInv.
LEMMA PlaceFrame ==
    ASSUME PlaceInv, UNCHANGED <<unproc, proc>>
    PROVE  PlaceInv'
    BY DEF PlaceInv, Holds

\* EventsInv is about events, and which host a busy thread runs.
LEMMA EventsFrame ==
    ASSUME EventsInv, UNCHANGED <<clock, lastTime, barrier, pq, cur, outbox>>,
           \A t \in Threads : cur[t] # {} \/ outbox[t] # <<>> => unproc'[t] = unproc[t]
    PROVE  EventsInv'
<1>1. ASSUME NEW t \in Threads, NEW e \in cur[t]
      PROVE  unproc'[t] = unproc[t]
    OBVIOUS
<1>2. ASSUME NEW t \in Threads, NEW k \in 1 .. Len(outbox[t])
      PROVE  unproc'[t] = unproc[t]
  <2>1. outbox[t] # <<>>
      BY <1>2
  <2> QED BY <2>1
<1> QED BY <1>1, <1>2 DEF EventsInv

\* TimesInv is not disturbed while the same hosts are to be looked at.
LEMMA TimesFrame ==
    ASSUME TimesInv, UNCHANGED <<minTime, scanMin, barrier, over, pq>>,
           \A t \in Threads : pc[t] = "scan" => pc'[t] = "scan",
           \A h \in Hosts : ToBeScanned(h) => ToBeScanned(h)'
    PROVE  TimesInv'
    BY DEF TimesInv, Reported, Covered

-----------------------------------------------------------------------------
(***************************************************************************)
(* pop                                                                     *)
(***************************************************************************)

\* A new round: what was processed is to be processed again.
LEMMA RefillHostsInv ==
    ASSUME IInv, NEW t \in Threads, RefillHosts(t)
    PROVE  IInv'
<1> USE DEF IInv
<1>a. /\ pc[t] = "pop" /\ t < ThreadCount /\ barrier > curBarrier[t]
      /\ curBarrier' = [curBarrier EXCEPT ![t] = barrier]
      /\ unproc' = [unproc EXCEPT ![t] = @ \o proc[t]]
      /\ proc' = [proc EXCEPT ![t] = <<>>]
      /\ UNCHANGED <<barrier, over, pc, cur, outbox, minTime, clock, nextId, pq, lastTime, scan,
                     scanMin>>
    BY DEF RefillHosts, roundVars
<1>b. /\ unproc'[t] = unproc[t] \o proc[t] /\ proc'[t] = <<>> /\ curBarrier'[t] = barrier
      /\ \A u \in Threads : u # t => /\ unproc'[u] = unproc[u] /\ proc'[u] = proc[u]
                                     /\ curBarrier'[u] = curBarrier[u]
    BY <1>a DEF TypeInv
<1>c. /\ unproc[t] \o proc[t] \in Seq(Hosts)
      /\ Elems(unproc'[t]) = Elems(unproc[t]) \cup Elems(proc[t])
      /\ Elems(proc'[t]) = {}
  <2>1. unproc[t] \in Seq(Hosts) /\ proc[t] \in Seq(Hosts)
      BY ListsType
  <2>2. \A x \in Hosts : /\ unproc[t] \o proc[t] \in Seq(Hosts)
                         /\ Elems(unproc[t] \o proc[t]) = Elems(unproc[t]) \cup Elems(proc[t])
      BY <2>1, ElemsOf
  <2>3. \E x \in Hosts : TRUE
      BY <1>a, SomeHost
  <2>4. Elems(<<>>) = {}
      BY DEF Elems
  <2> QED BY <1>b, <2>2, <2>3, <2>4
<1>d. cur[t] = {} /\ outbox[t] = <<>> /\ scan[t] = <<>>
    BY <1>a DEF WorkInv
<1>1. TypeInv'
  <2>1. unproc' \in [Threads -> Seq(Hosts)] /\ proc' \in [Threads -> Seq(Hosts)]
      BY <1>a, <1>c DEF TypeInv
  <2>2. barrier \in 0 .. EndTime
      BY DEF TypeInv, RoundTypeOK
  <2>3. curBarrier' \in [Threads -> 0 .. EndTime]
      BY <1>a, <2>2 DEF TypeInv
  <2> QED BY <1>a, <2>1, <2>3 DEF TypeInv, RoundTypeOK
<1>2. WorkInv'
  <2>1. \A u \in Threads : Elems(scan'[u]) \subseteq Elems(proc'[u])
    <3>1. Elems(scan[t]) = {}
        BY <1>d DEF Elems
    <3> QED BY <1>a, <1>b, <3>1 DEF WorkInv
  <2>2. ~(t >= ThreadCount)
      BY <1>a, ThreadCountType
  <2> QED BY <1>a, <1>b, <2>1, <2>2 DEF WorkInv, Begun
<1>3. PlaceInv'
  <2>1. \A u \in Threads : \A h : Holds(u, h)' <=> Holds(u, h)
      BY <1>b, <1>c DEF Holds
  <2>2. Distinct(unproc'[t])
    <3>1. unproc[t] \in Seq(Hosts) /\ proc[t] \in Seq(Hosts)
        BY ListsType
    <3>2. PICK x \in Hosts : TRUE
        BY <1>a, SomeHost
    <3>3. Distinct(unproc[t]) /\ Distinct(proc[t]) /\ Elems(unproc[t]) \cap Elems(proc[t]) = {}
        BY DEF PlaceInv
    <3> QED BY <1>b, <3>1, <3>2, <3>3, DistinctOf
  <2>3. Distinct(proc'[t])
      BY <1>b DEF Distinct
  <2> QED BY <1>b, <1>c, <2>1, <2>2, <2>3 DEF PlaceInv
<1>4. EventsInv'
    BY <1>a, <1>b, <1>d, EventsFrame
<1>5. RoundInv'
  <2>1. barrier \in Int /\ \A u \in Threads : curBarrier[u] \in Int
      BY EventsAssumption DEF TypeInv, RoundTypeOK
  <2>2. \A u \in Threads : curBarrier'[u] <= barrier'
      BY <1>a, <1>b, <1>c, <2>1 DEF RoundInv
  <2>3. ASSUME NEW u \in Threads, NEW h \in Elems(proc'[u]), Begun(u)'
        PROVE  \A e \in pq'[h] : barrier' <= e.time
    <3>1. u # t
        BY <1>b, <2>3 DEF Elems
    <3> QED BY <1>a, <1>b, <1>c, <2>3, <3>1 DEF RoundInv, Begun
  <2> QED BY <2>2, <2>3 DEF RoundInv
<1>6. TimesInv'
  <2>1. ASSUME NEW h \in Hosts, ToBeScanned(h)
        PROVE  ToBeScanned(h)'
    <3>1. PICK u \in Threads : \/ h \in Elems(unproc[u])
                               \/ /\ h \in Elems(proc[u])
                                  /\ (pc[u] \notin {"scan", "done"} \/ h \in Elems(scan[u]))
        BY <2>1 DEF ToBeScanned
    <3>2. CASE u = t
      <4>1. h \in Elems(unproc'[t])
          BY <1>c, <3>1, <3>2
      <4> QED BY <4>1 DEF ToBeScanned
    <3>3. CASE u # t
        BY <1>a, <1>b, <3>1, <3>3 DEF ToBeScanned
    <3> QED BY <3>2, <3>3
  <2> QED BY <1>a, <2>1, TimesFrame
<1> QED BY <1>1, <1>2, <1>3, <1>4, <1>5, <1>6

\* What holds when a thread looks at the queue of its first host.
LEMMA Looking ==
    ASSUME IInv, NEW t \in Threads, MayPop(t)
    PROVE  /\ Head(unproc[t]) \in Hosts /\ Head(unproc[t]) \in Elems(unproc[t])
           /\ \A u \in Threads : Head(unproc[t]) \notin Elems(proc[u])
           /\ \A u \in Threads : u # t => Head(unproc[t]) \notin Elems(unproc[u])
           /\ t < ThreadCount /\ Begun(t) /\ cur[t] = {} /\ outbox[t] = <<>> /\ scan[t] = <<>>
           /\ ~over /\ pc[t] = "pop" /\ unproc[t] # <<>>
<1>1. pc[t] = "pop" /\ unproc[t] # <<>> /\ barrier <= curBarrier[t]
    BY DEF MayPop
<1>2. t < ThreadCount /\ cur[t] = {} /\ outbox[t] = <<>> /\ scan[t] = <<>> /\ ~over
    BY <1>1, ThreadCountType DEF IInv, WorkInv
<1>3. Begun(t)
    BY <1>1, EventsAssumption DEF IInv, RoundInv, Begun, TypeInv, RoundTypeOK
<1> QED BY <1>1, <1>2, <1>3, RunningHost

\* An event of this round.
LEMMA PopEventInv ==
    ASSUME IInv, NEW t \in Threads, PopEvent(t)
    PROVE  IInv'
<1> USE DEF IInv
<1> DEFINE h == Head(unproc[t])
<1>0. PICK e \in pq[h] :
         /\ IsFirst(e, pq[h]) /\ e.time < barrier
         /\ pq' = [pq EXCEPT ![h] = @ \ {e}]
         /\ lastTime' = [lastTime EXCEPT ![h] = e.time]
         /\ cur' = [cur EXCEPT ![t] = {e}]
         /\ pc' = [pc EXCEPT ![t] = "execute"]
    BY DEF PopEvent, Popped, Goto
<1>a. UNCHANGED <<barrier, over, outbox, minTime, clock, nextId, unproc, proc, curBarrier, scan,
                  scanMin>>
    BY DEF PopEvent
<1>b. /\ h \in Hosts
      /\ \A u \in Threads : h \notin Elems(proc[u])
      /\ \A u \in Threads : u # t => h \notin Elems(unproc[u])
      /\ t < ThreadCount /\ Begun(t) /\ cur[t] = {} /\ outbox[t] = <<>> /\ scan[t] = <<>>
      /\ ~over /\ pc[t] = "pop" /\ unproc[t] # <<>>
    BY Looking DEF PopEvent
<1> HIDE DEF h
<1>c. /\ pc'[t] = "execute" /\ cur'[t] = {e}
      /\ \A u \in Threads : u # t => pc'[u] = pc[u] /\ cur'[u] = cur[u]
    BY <1>0 DEF TypeInv, RoundTypeOK
<1>d. /\ lastTime'[h] = e.time /\ pq'[h] = pq[h] \ {e}
      /\ \A g \in Hosts : g # h => lastTime'[g] = lastTime[g] /\ pq'[g] = pq[g]
    BY <1>0, <1>b DEF TypeInv
<1>e. /\ pq[h] \in SUBSET Event /\ e \in Event /\ e.dst = h /\ e.time \in Nat
      /\ lastTime[h] <= e.time /\ clock[h] <= e.time
  <2>1. e.dst = h /\ lastTime[h] <= e.time /\ clock[h] <= lastTime[h]
      BY <1>b DEF EventsInv
  <2>2. pq[h] \in SUBSET Event /\ e \in Event /\ lastTime[h] \in Nat /\ clock[h] \in Nat
      BY <1>b, EventsAssumption DEF TypeInv, RoundTypeOK
  <2>3. e.time \in Nat
      BY <2>2, EventsAssumption DEF Event
  <2> QED BY <2>1, <2>2, <2>3
<1>f. \A f \in pq[h] \ {e} : EventBefore(e, f) /\ e.time <= f.time
    BY <1>0, <1>e, FirstEvent
<1>1. TypeInv'
  <2>1. pq' \in [Hosts -> SUBSET Event]
      BY <1>0 DEF TypeInv
  <2>2. lastTime' \in [Hosts -> 0 .. EndTime]
      BY <1>0, <1>e DEF TypeInv, Event
  <2>4. cur' \in [Threads -> SUBSET Event]
      BY <1>0, <1>e DEF TypeInv, RoundTypeOK
  <2>5. pc' \in [Threads -> {"pop", "execute", "push", "scan", "done"}]
      BY <1>0 DEF TypeInv
  <2> QED BY <1>a, <2>1, <2>2, <2>4, <2>5 DEF TypeInv, RoundTypeOK
<1>2. WorkInv'
    BY <1>a, <1>b, <1>c DEF WorkInv, Begun
<1>3. PlaceInv'
    BY <1>a, PlaceFrame
<1>4. EventsInv'
  <2>1. ASSUME NEW g \in Hosts
        PROVE  /\ clock'[g] <= lastTime'[g] /\ lastTime'[g] < barrier'
               /\ \A f \in pq'[g] : f.dst = g /\ lastTime'[g] <= f.time
    <3>1. CASE g = h
        BY <1>0, <1>a, <1>d, <1>e, <1>f, <3>1 DEF EventsInv
    <3>2. CASE g # h
        BY <1>a, <1>d, <3>2 DEF EventsInv
    <3> QED BY <3>1, <3>2
  <2>2. ASSUME NEW u \in Threads, NEW d \in cur'[u]
        PROVE  /\ d.dst = Head(unproc'[u]) /\ d.time = lastTime'[d.dst]
               /\ \A f \in pq'[d.dst] : EventBefore(d, f)
    <3>1. CASE u = t
        BY <1>a, <1>c, <1>d, <1>e, <1>f, <3>1 DEF h
    <3>2. CASE u # t
      <4>1. d \in cur[u] /\ unproc[u] # <<>>
          BY <1>c, <3>2 DEF WorkInv
      <4>2. d.dst = Head(unproc[u]) /\ d.dst \in Hosts /\ d.dst # h
          BY <1>b, <3>2, <4>1, RunningHost DEF EventsInv
      <4> QED BY <1>a, <1>d, <4>1, <4>2 DEF EventsInv
    <3> QED BY <3>1, <3>2
  <2>3. ASSUME NEW u \in Threads, NEW k \in 1 .. Len(outbox'[u])
        PROVE  /\ outbox'[u][k].src = Head(unproc'[u])
               /\ lastTime'[Head(unproc'[u])] <= outbox'[u][k].time
    <3>1. outbox[u] # <<>>
        BY <1>a, <2>3
    <3>2. u # t /\ unproc[u] # <<>>
        BY <3>1, <1>b DEF WorkInv
    <3>3. Head(unproc[u]) \in Hosts /\ Head(unproc[u]) # h
        BY <1>b, <3>2, RunningHost
    <3> QED BY <1>a, <1>d, <3>3 DEF EventsInv
  <2> QED BY <2>1, <2>2, <2>3 DEF EventsInv
<1>5. RoundInv'
  <2>1. \A u \in Threads : Elems(proc[u]) \subseteq Hosts
      BY ListsType
  <2>2. \A g \in Hosts : pq'[g] \subseteq pq[g]
      BY <1>d
  <2> QED BY <1>a, <2>1, <2>2 DEF RoundInv, Begun
<1>6. TimesInv'
  <2>1. \A g \in Hosts : ToBeScanned(g) => ToBeScanned(g)'
      BY <1>a, <1>c DEF ToBeScanned
  <2>2. ASSUME NEW time, Reported(time)
        PROVE  Reported(time)'
    <3>1. CASE time = SIMTIME_MAX
        BY <3>1 DEF Reported
    <3>2. CASE time # SIMTIME_MAX
      <4>0. PICK g \in Hosts : barrier <= time /\ \E f \in pq[g] : f.time = time
          BY <3>2, <2>2 DEF Reported
      <4>1. PICK f \in pq[g] : f.time = time /\ barrier <= time
          BY <4>0
      <4>2. f # e
          BY <4>1, <1>0, <1>e DEF TypeInv, RoundTypeOK
      <4>3. f \in pq'[g]
          BY <1>d, <4>1, <4>2
      <4> QED BY <1>a, <4>1, <4>3 DEF Reported
    <3> QED BY <3>1, <3>2
  <2>3. \A time : Covered(time) => Covered(time)'
      BY <1>a, <1>b, <1>c DEF Covered
  <2>4. \A g \in Hosts : pq'[g] \subseteq pq[g]
      BY <1>d
  <2> QED BY <1>a, <2>1, <2>2, <2>3, <2>4 DEF TimesInv
<1> QED BY <1>1, <1>2, <1>3, <1>4, <1>5, <1>6

\* No event of this round: the host goes to the processed ones.
LEMMA HostProcessedInv ==
    ASSUME IInv, NEW t \in Threads, HostProcessed(t)
    PROVE  IInv'
<1> USE DEF IInv
<1> DEFINE h == Head(unproc[t])
<1>a. /\ \A e \in pq[h] : e.time >= barrier
      /\ unproc' = [unproc EXCEPT ![t] = Tail(@)]
      /\ proc' = [proc EXCEPT ![t] = Append(@, h)]
      /\ UNCHANGED <<barrier, over, pc, cur, outbox, minTime, clock, nextId, curBarrier, pq, lastTime,
                     scan, scanMin>>
    BY DEF HostProcessed, roundVars
<1>b. /\ h \in Hosts /\ h \in Elems(unproc[t])
      /\ \A u \in Threads : h \notin Elems(proc[u])
      /\ \A u \in Threads : u # t => h \notin Elems(unproc[u])
      /\ t < ThreadCount /\ Begun(t) /\ cur[t] = {} /\ outbox[t] = <<>> /\ scan[t] = <<>>
      /\ ~over /\ pc[t] = "pop" /\ unproc[t] # <<>>
    BY Looking DEF HostProcessed
<1>c. /\ unproc'[t] = Tail(unproc[t]) /\ proc'[t] = Append(proc[t], h)
      /\ \A u \in Threads : u # t => unproc'[u] = unproc[u] /\ proc'[u] = proc[u]
    BY <1>a DEF TypeInv
<1>d. /\ unproc[t] \in Seq(Hosts) /\ proc[t] \in Seq(Hosts)
      /\ Distinct(unproc[t]) /\ Distinct(proc[t]) /\ Elems(unproc[t]) \cap Elems(proc[t]) = {}
    BY ListsType DEF PlaceInv
<1>e. /\ Tail(unproc[t]) \in Seq(Hosts) /\ Append(proc[t], h) \in Seq(Hosts)
      /\ Elems(unproc[t]) = {h} \cup Elems(unproc'[t]) /\ Elems(proc'[t]) = Elems(proc[t]) \cup {h}
    BY <1>b, <1>c, <1>d, ElemsOf
<1>f. Distinct(unproc'[t]) /\ Distinct(proc'[t]) /\ h \notin Elems(unproc'[t])
    BY <1>b, <1>c, <1>d, DistinctOf
<1> HIDE DEF h
<1>1. TypeInv'
  <2>1. unproc' \in [Threads -> Seq(Hosts)] /\ proc' \in [Threads -> Seq(Hosts)]
      BY <1>a, <1>e DEF TypeInv
  <2> QED BY <1>a, <2>1 DEF TypeInv, RoundTypeOK
<1>2. WorkInv'
  <2>1. \A u \in Threads : Elems(scan'[u]) \subseteq Elems(proc'[u])
    <3>1. Elems(scan[t]) = {}
        BY <1>b DEF Elems
    <3> QED BY <1>a, <1>c, <3>1 DEF WorkInv
  <2>2. ~(t >= ThreadCount)
      BY <1>b, ThreadCountType
  <2>3. ASSUME NEW u \in Threads, u # t
        PROVE  unproc'[u] = unproc[u] /\ proc'[u] = proc[u]
      BY <1>c, <2>3
  <2>4. ASSUME NEW u \in Threads
        PROVE  Begun(u)' <=> Begun(u)
      BY <1>a DEF Begun
  <2>5. ASSUME NEW u \in Threads, u = t
        PROVE  /\ ~(u >= ThreadCount) /\ pc'[u] = "pop" /\ cur'[u] = {} /\ outbox'[u] = <<>>
               /\ scan'[u] = <<>> /\ scanMin'[u] = SIMTIME_MAX /\ ~over'
      BY <1>a, <1>b, <2>2, <2>5 DEF WorkInv
  <2>6. ASSUME NEW u \in Threads, u # t
        PROVE  /\ pc'[u] \in {"execute", "push"} => unproc'[u] # <<>>
               /\ pc'[u] \in {"scan", "done"} => unproc'[u] = <<>>
               /\ u >= ThreadCount => unproc'[u] = <<>> /\ proc'[u] = <<>>
      BY <1>a, <2>3, <2>6 DEF WorkInv
  <2> QED BY <1>a, <2>1, <2>4, <2>5, <2>6 DEF WorkInv
<1>3. PlaceInv'
  <2>1. \A u \in Threads : \A g : Holds(u, g)' <=> Holds(u, g)
      BY <1>c, <1>e DEF Holds
  <2>2. \A u \in Threads : Elems(unproc'[u]) \cap Elems(proc'[u]) = {}
    <3>1. Elems(unproc'[t]) \cap Elems(proc'[t]) = {}
        BY <1>d, <1>e, <1>f
    <3> QED BY <1>c, <3>1 DEF PlaceInv
  <2> QED BY <1>c, <1>f, <2>1, <2>2 DEF PlaceInv
<1>4. EventsInv'
    BY <1>a, <1>b, <1>c, EventsFrame
<1>5. RoundInv'
  <2>1. \A f \in pq[h] : barrier <= f.time
      BY <1>a, <1>b, EventsAssumption DEF TypeInv, RoundTypeOK, Event
  <2> QED BY <1>a, <1>c, <1>e, <2>1 DEF RoundInv, Begun
<1>6. TimesInv'
  <2>1. ASSUME NEW g \in Hosts, ToBeScanned(g)
        PROVE  ToBeScanned(g)'
    <3>1. PICK u \in Threads : \/ g \in Elems(unproc[u])
                               \/ /\ g \in Elems(proc[u])
                                  /\ (pc[u] \notin {"scan", "done"} \/ g \in Elems(scan[u]))
        BY <2>1 DEF ToBeScanned
    <3>2. CASE u = t
      <4>1. g \in Elems(unproc'[t]) \/ g \in Elems(proc'[t])
          BY <1>e, <3>1, <3>2
      <4> QED BY <1>a, <1>b, <4>1 DEF ToBeScanned
    <3>3. CASE u # t
        BY <1>a, <1>c, <3>1, <3>3 DEF ToBeScanned
    <3> QED BY <3>2, <3>3
  <2> QED BY <1>a, <2>1, TimesFrame
<1> QED BY <1>1, <1>2, <1>3, <1>4, <1>5, <1>6
-----------------------------------------------------------------------------
(***************************************************************************)
(* The execution of an event, and the events it pushes                     *)
(***************************************************************************)

\* An event that a host has created and that lies before the stop time is
\* pushed to its own queue in order, to another host's at the barrier or later.
LEMMA Pushed ==
    ASSUME IInv, NEW t \in Threads, outbox[t] # <<>>
    PROVE  /\ Head(outbox[t]) \in NewEvent /\ Tail(outbox[t]) \in Seq(NewEvent)
           /\ outbox[t] \in Seq(NewEvent)
           /\ Len(Tail(outbox[t])) = Len(outbox[t]) - 1
           /\ \A k \in 1 .. Len(Tail(outbox[t])) :
                 k + 1 \in 1 .. Len(outbox[t]) /\ Tail(outbox[t])[k] = outbox[t][k + 1]
           /\ Head(outbox[t]) = outbox[t][1] /\ 1 \in 1 .. Len(outbox[t])
           /\ Head(outbox[t]).src = Head(unproc[t]) /\ Head(unproc[t]) \in Hosts
           /\ lastTime[Head(unproc[t])] <= Head(outbox[t]).time
           /\ cur[t] = {} /\ pc[t] = "push"
<1> USE DEF IInv
<1>0. outbox[t] \in Seq(NewEvent)
    BY DEF TypeInv, RoundTypeOK, NewEvent
<1>1. outbox[t] \in Seq(NewEvent) /\ Len(outbox[t]) \in Nat \ {0}
    BY <1>0
<1>2. /\ Head(outbox[t]) = outbox[t][1] /\ 1 \in 1 .. Len(outbox[t])
      /\ Len(Tail(outbox[t])) = Len(outbox[t]) - 1
      /\ Head(outbox[t]) \in NewEvent /\ Tail(outbox[t]) \in Seq(NewEvent)
      /\ \A k \in 1 .. Len(Tail(outbox[t])) :
            k + 1 \in 1 .. Len(outbox[t]) /\ Tail(outbox[t])[k] = outbox[t][k + 1]
    BY <1>1
<1>3. pc[t] = "push" /\ unproc[t] # <<>> /\ cur[t] = {}
    BY DEF WorkInv
<1>4. Head(unproc[t]) \in Hosts
    BY <1>3, RunningHost
<1>5. Head(outbox[t]).src = Head(unproc[t]) /\ lastTime[Head(unproc[t])] <= Head(outbox[t]).time
    BY <1>2 DEF EventsInv
<1> QED BY <1>1, <1>2, <1>3, <1>4, <1>5

\* worker_runEvent
LEMMA ExecuteEventInv ==
    ASSUME IInv, NEW t \in Threads, ExecuteEvent(t), UNCHANGED policyVars
    PROVE  IInv'
<1> USE DEF IInv, policyVars
<1>0. PICK e \in cur[t] : \E s \in Emits(e.dst, e) :
         /\ nextId[e.dst] + Len(s) <= MaxEvents
         /\ outbox' = [outbox EXCEPT ![t] = NewEvents(s, e.dst, e.time, nextId[e.dst])]
         /\ clock' = [clock EXCEPT ![e.dst] = e.time]
         /\ nextId' = [nextId EXCEPT ![e.dst] = @ + Len(s)]
    BY DEF ExecuteEvent
<1>a. PICK s \in Emits(e.dst, e) :
         /\ nextId[e.dst] + Len(s) <= MaxEvents
         /\ outbox' = [outbox EXCEPT ![t] = NewEvents(s, e.dst, e.time, nextId[e.dst])]
         /\ clock' = [clock EXCEPT ![e.dst] = e.time]
         /\ nextId' = [nextId EXCEPT ![e.dst] = @ + Len(s)]
    BY <1>0
<1>b. /\ pc[t] = "execute" /\ cur' = [cur EXCEPT ![t] = {}]
      /\ pc' = [pc EXCEPT ![t] = "push"] /\ UNCHANGED <<barrier, over, minTime>>
    BY DEF ExecuteEvent, Goto
<1>c. /\ e \in Event /\ e.dst \in Hosts /\ e.time \in 0 .. EndTime /\ e.time \in Nat
      /\ s \in Seq(Hosts \X Nat) /\ Len(s) \in Nat /\ nextId[e.dst] \in Nat
  <2>1. e \in Event /\ nextId \in [Hosts -> 0 .. MaxEvents]
      BY DEF TypeInv, RoundTypeOK
  <2>2. e.dst \in Hosts /\ e.time \in 0 .. EndTime /\ e.time \in Nat
      BY <2>1, EventsAssumption DEF Event
  <2>3. s \in Seq(Hosts \X Nat)
      BY <2>1, <2>2, EventsAssumption
  <2>4. Len(s) \in Nat
      BY <2>3
  <2>5. nextId[e.dst] \in Nat
      BY <2>1, <2>2, EventsAssumption
  <2> QED BY <2>1, <2>2, <2>3, <2>4, <2>5
<1> DEFINE new == NewEvents(s, e.dst, e.time, nextId[e.dst])
<1>d. /\ new \in Seq(NewEvent) /\ Len(new) = Len(s)
      /\ \A k \in 1 .. Len(new) : new[k].src = e.dst /\ e.time <= new[k].time
  <2>1. nextId[e.dst] + Len(s) <= MaxEvents
      BY <1>a
  <2>2. /\ new \in Seq(NewEvent) /\ Len(new) = Len(s)
        /\ \A k \in 1 .. Len(s) : new[k].src = e.dst /\ e.time <= new[k].time
    <3> HIDE DEF new
    <3>1. \A n \in Nat : n + Len(s) <= MaxEvents =>
             /\ NewEvents(s, e.dst, e.time, n) \in Seq(NewEvent)
             /\ Len(NewEvents(s, e.dst, e.time, n)) = Len(s)
             /\ \A k \in 1 .. Len(s) : /\ NewEvents(s, e.dst, e.time, n)[k].src = e.dst
                                       /\ e.time <= NewEvents(s, e.dst, e.time, n)[k].time
        BY <1>c, NewEventsType
    <3> QED BY <1>c, <2>1, <3>1 DEF new
  <2> QED BY <2>2
<1>e. e.dst = Head(unproc[t]) /\ e.time = lastTime[e.dst] /\ clock[e.dst] <= e.time
    BY <1>c DEF EventsInv
<1> HIDE DEF new
<1>f. /\ pc'[t] = "push" /\ cur'[t] = {} /\ outbox'[t] = new
      /\ \A u \in Threads : u # t => pc'[u] = pc[u] /\ cur'[u] = cur[u] /\ outbox'[u] = outbox[u]
      /\ clock'[e.dst] = e.time /\ \A g \in Hosts : g # e.dst => clock'[g] = clock[g]
    BY <1>a, <1>b, <1>c DEF TypeInv, RoundTypeOK, new
<1>1. TypeInv'
  <2>1. outbox' \in [Threads -> Seq(NewEvent)]
      BY <1>a, <1>d DEF TypeInv, RoundTypeOK, NewEvent, new
  <2>2. nextId' \in [Hosts -> 0 .. MaxEvents] /\ clock' \in [Hosts -> 0 .. EndTime]
    <3>1. nextId[e.dst] + Len(s) \in 0 .. MaxEvents
        BY <1>a, <1>c, EventsAssumption
    <3> QED BY <1>a, <1>c, <3>1 DEF TypeInv, RoundTypeOK
  <2>3. cur' \in [Threads -> SUBSET Event]
      BY <1>b DEF TypeInv, RoundTypeOK
  <2>4. pc' \in [Threads -> {"pop", "execute", "push", "scan", "done"}]
      BY <1>b DEF TypeInv
  <2> QED BY <1>b, <2>1, <2>2, <2>3, <2>4 DEF TypeInv, RoundTypeOK, NewEvent
<1>2. WorkInv'
  <2>1. ASSUME NEW u \in Threads, u # t
        PROVE  /\ pc'[u] = pc[u] /\ cur'[u] = cur[u] /\ outbox'[u] = outbox[u]
      BY <1>f, <2>1
  <2> QED BY <1>b, <1>f, <2>1 DEF WorkInv, Begun
<1>3. PlaceInv'
    BY PlaceFrame
<1>4. EventsInv'
  <2>1. ASSUME NEW g \in Hosts
        PROVE  /\ clock'[g] <= lastTime'[g] /\ lastTime'[g] < barrier'
               /\ \A f \in pq'[g] : f.dst = g /\ lastTime'[g] <= f.time
    <3>1. CASE g = e.dst
        BY <1>b, <1>c, <1>e, <1>f, <3>1 DEF EventsInv
    <3>2. CASE g # e.dst
        BY <1>b, <1>f, <3>2 DEF EventsInv
    <3> QED BY <3>1, <3>2
  <2>2. ASSUME NEW u \in Threads, NEW d \in cur'[u]
        PROVE  /\ d.dst = Head(unproc'[u]) /\ d.time = lastTime'[d.dst]
               /\ \A f \in pq'[d.dst] : EventBefore(d, f)
      BY <1>f DEF EventsInv
  <2>3. ASSUME NEW u \in Threads, NEW k \in 1 .. Len(outbox'[u])
        PROVE  outbox'[u][k].src = Head(unproc'[u]) /\ lastTime'[Head(unproc'[u])] <= outbox'[u][k].time
      BY <1>d, <1>e, <1>f DEF EventsInv
  <2> QED BY <2>1, <2>2, <2>3 DEF EventsInv
<1>5. RoundInv'
    BY <1>b DEF RoundInv, Begun
<1>6. TimesInv'
  <2>1. \A h \in Hosts : ToBeScanned(h) => ToBeScanned(h)'
      BY <1>b, <1>f DEF ToBeScanned
  <2> QED BY <1>b, <1>f, <2>1, TimesFrame
<1> QED BY <1>1, <1>2, <1>3, <1>4, <1>5, <1>6

\* A push that delivers: the event goes to the queue of its host, and its time
\* is reported if it belongs to a later round.
LEMMA PushEventInv ==
    ASSUME IInv, NEW t \in Threads, PushEvent(t)
    PROVE  IInv'
<1> USE DEF IInv
<1> DEFINE e == Adjusted(Head(outbox[t]), barrier)
<1>a. /\ outbox[t] # <<>> /\ Kept(Head(outbox[t]))
      /\ minTime' = IF e.time < barrier THEN minTime
                    ELSE [minTime EXCEPT ![t] = Lesser(e.time, @)]
      /\ outbox' = [outbox EXCEPT ![t] = Tail(@)]
      /\ pq' = [pq EXCEPT ![e.dst] = @ \cup {e}]
      /\ UNCHANGED <<barrier, over, pc, cur, clock, nextId, unproc, proc, curBarrier,
                     lastTime, scan, scanMin>>
    BY DEF PushEvent, PushNext, SetMinEventTime
<1>b. /\ Head(outbox[t]) \in NewEvent /\ Tail(outbox[t]) \in Seq(NewEvent)
      /\ \A k \in 1 .. Len(Tail(outbox[t])) :
            k + 1 \in 1 .. Len(outbox[t]) /\ Tail(outbox[t])[k] = outbox[t][k + 1]
      /\ Head(outbox[t]).src = Head(unproc[t]) /\ Head(unproc[t]) \in Hosts
      /\ lastTime[Head(unproc[t])] <= Head(outbox[t]).time
      /\ cur[t] = {} /\ pc[t] = "push" /\ unproc[t] # <<>>
    BY <1>a, Pushed DEF WorkInv
<1>c. /\ e.dst = Head(outbox[t]).dst /\ e.time \in Nat /\ e \in Event /\ e.dst \in Hosts
      /\ e.dst # Head(unproc[t]) => barrier <= e.time
      /\ e.dst = Head(unproc[t]) => e.time = Head(outbox[t]).time
  <2>1. barrier \in 1 .. EndTime
      BY DEF TypeInv, RoundTypeOK
  <2>2. /\ e.dst = Head(outbox[t]).dst /\ e.time \in Nat /\ e \in Event
        /\ Head(outbox[t]).dst # Head(outbox[t]).src => barrier <= e.time
        /\ Head(outbox[t]).dst = Head(outbox[t]).src => e.time = Head(outbox[t]).time
    <3> HIDE DEF e
    <3> QED BY <1>a, <1>b, <2>1, AdjustedEvent DEF e
  <2>3. e.dst \in Hosts
      BY <2>2 DEF Event
  <2> QED BY <1>b, <2>2, <2>3
<1> HIDE DEF e
<1>d. /\ barrier \in Nat /\ \A g \in Hosts : lastTime[g] \in Nat /\ lastTime[g] < barrier
      /\ \A u \in Threads : minTime[u] \in Nat
    BY EventsAssumption DEF TypeInv, RoundTypeOK, EventsInv
<1>e. lastTime[e.dst] <= e.time
    BY <1>b, <1>c, <1>d
<1>f. /\ pq'[e.dst] = pq[e.dst] \cup {e} /\ \A g \in Hosts : g # e.dst => pq'[g] = pq[g]
      /\ outbox'[t] = Tail(outbox[t]) /\ \A u \in Threads : u # t => outbox'[u] = outbox[u]
    BY <1>a, <1>c DEF TypeInv, RoundTypeOK
<1>g. /\ \A u \in Threads : minTime'[u] <= minTime[u] /\ (minTime'[u] = minTime[u] \/ (minTime'[u] = e.time /\ barrier <= e.time))
      /\ barrier <= e.time => minTime'[t] <= e.time
  <2>1. CASE e.time < barrier
      BY <1>a, <1>c, <1>d, <2>1
  <2>2. CASE ~(e.time < barrier)
    <3>1. minTime'[t] = Lesser(e.time, minTime[t]) /\ \A u \in Threads : u # t => minTime'[u] = minTime[u]
        BY <1>a, <2>2 DEF TypeInv, RoundTypeOK
    <3> QED BY <3>1, <1>c, <1>d, <2>2 DEF Lesser
  <2> QED BY <2>1, <2>2
<1>1. TypeInv'
  <2>1. outbox' \in [Threads -> Seq(NewEvent)]
      BY <1>a, <1>b DEF TypeInv, RoundTypeOK, NewEvent
  <2>2. pq' \in [Hosts -> SUBSET Event]
      BY <1>a, <1>c DEF TypeInv
  <2>3. minTime' \in [Threads -> 0 .. EndTime \cup {SIMTIME_MAX}]
    <3>1. e.time \in 0 .. EndTime
        BY <1>c DEF Event
    <3> QED BY <1>a, <3>1 DEF TypeInv, RoundTypeOK, Lesser
  <2> QED BY <1>a, <2>1, <2>2, <2>3 DEF TypeInv, RoundTypeOK, NewEvent
<1>2. WorkInv'
  <2>1. \A u \in Threads : outbox'[u] # <<>> => pc[u] = "push"
      BY <1>b, <1>f DEF WorkInv
  <2> QED BY <1>a, <2>1 DEF WorkInv, Begun
<1>3. PlaceInv'
    BY <1>a, PlaceFrame
<1>4. EventsInv'
  <2>1. ASSUME NEW g \in Hosts
        PROVE  /\ clock'[g] <= lastTime'[g] /\ lastTime'[g] < barrier'
               /\ \A f \in pq'[g] : f.dst = g /\ lastTime'[g] <= f.time
      BY <1>a, <1>c, <1>e, <1>f DEF EventsInv
  <2>2. ASSUME NEW u \in Threads, NEW d \in cur'[u]
        PROVE  /\ d.dst = Head(unproc'[u]) /\ d.time = lastTime'[d.dst]
               /\ \A f \in pq'[d.dst] : EventBefore(d, f)
    <3>1. /\ d \in cur[u] /\ u # t /\ d \in Event /\ d.dst \in Hosts /\ d.dst = Head(unproc[u])
          /\ d.time = lastTime[d.dst]
      <4>1. d \in cur[u] /\ u # t
          BY <1>a, <1>b
      <4>2. d \in Event
          BY <4>1 DEF TypeInv, RoundTypeOK
      <4> QED BY <4>1, <4>2 DEF EventsInv, Event
    <3>2. Head(unproc[u]) # Head(unproc[t])
      <4>1. unproc[u] # <<>>
          BY <3>1 DEF WorkInv
      <4> QED BY <3>1, <1>b, <4>1, RunningHost
    <3>3. d.dst = e.dst => d.time < e.time
        BY <1>c, <1>d, <3>1, <3>2
    <3>4. \A f \in pq'[d.dst] : EventBefore(d, f)
      <4>1. ASSUME NEW f \in pq[d.dst] PROVE EventBefore(d, f)
          BY <3>1 DEF EventsInv
      <4>2. d.dst = e.dst => EventBefore(d, e)
          BY <3>3 DEF EventBefore
      <4> QED BY <1>f, <3>1, <4>1, <4>2
    <3> QED BY <1>a, <3>1, <3>4 DEF EventsInv
  <2>3. ASSUME NEW u \in Threads, NEW k \in 1 .. Len(outbox'[u])
        PROVE  outbox'[u][k].src = Head(unproc'[u]) /\ lastTime'[Head(unproc'[u])] <= outbox'[u][k].time
    <3>1. CASE u = t
        BY <1>a, <1>b, <1>f, <3>1 DEF EventsInv
    <3>2. CASE u # t
        BY <1>a, <1>f, <3>2 DEF EventsInv
    <3> QED BY <3>1, <3>2
  <2> QED BY <2>1, <2>2, <2>3 DEF EventsInv
<1>5. RoundInv'
  <2>1. ASSUME NEW u \in Threads, NEW h \in Elems(proc[u]), Begun(u), NEW f \in pq'[h]
        PROVE  barrier <= f.time
    <3>1. h \in Hosts /\ h # Head(unproc[t])
        BY <1>b, RunningHost, ListsType
    <3>2. CASE f \in pq[h]
        BY <2>1, <3>2 DEF RoundInv
    <3>3. CASE f = e /\ h = e.dst
        BY <1>c, <3>1, <3>3
    <3> QED BY <1>f, <3>1, <3>2, <3>3
  <2> QED BY <1>a, <2>1 DEF RoundInv, Begun
<1>6. TimesInv'
  <2>1. \A g \in Hosts : pq[g] \subseteq pq'[g]
      BY <1>f
  <2>2. \A time : Reported(time) => Reported(time)'
      BY <1>a, <2>1 DEF Reported
  <2>3. barrier <= e.time => \E g \in Hosts : \E f \in pq'[g] : f.time = e.time
      BY <1>c, <1>f
  <2>4. \A u \in Threads : Reported(scanMin[u])'
      BY <1>a, <2>1 DEF TimesInv, Reported
  <2>5. ASSUME NEW u \in Threads
        PROVE  Reported(minTime[u])'
    <3>1. CASE minTime'[u] = minTime[u]
        BY <1>a, <2>1, <3>1 DEF TimesInv, Reported
    <3>2. CASE minTime'[u] = e.time /\ barrier <= e.time
        BY <1>a, <2>3, <3>2 DEF Reported
    <3> QED BY <3>1, <3>2, <1>g
  <2>6. ASSUME NEW time \in Nat, Covered(time)
        PROVE  Covered(time)'
    <3>1. \A u \in Threads : minTime'[u] \in Nat
        BY <1>c, <1>d, <1>g
    <3>2. PICK u \in Threads : minTime[u] <= time \/ (pc[u] = "scan" /\ scanMin[u] <= time)
        BY <2>6 DEF Covered
    <3>3. minTime[u] <= time => minTime'[u] <= time
        BY <3>1, <1>d, <1>g
    <3> QED BY <1>a, <3>2, <3>3 DEF Covered
  <2>7. \A h \in Hosts : ToBeScanned(h) => ToBeScanned(h)'
      BY <1>a DEF ToBeScanned
  <2>8. ASSUME NEW h \in Hosts, NEW f \in pq'[h], barrier <= f.time, ~over
        PROVE  Covered(f.time)' \/ ToBeScanned(h)'
    <3>1. CASE f = e
        BY <1>g, <2>8, <3>1 DEF Covered
    <3>2. CASE f # e
      <4>1. f \in pq[h] /\ f.time \in Nat
        <5>1. f \in pq[h]
            BY <1>f, <3>2
        <5>2. f \in Event
            BY <5>1 DEF TypeInv
        <5> QED BY <5>1, <5>2, EventsAssumption DEF Event
      <4> QED BY <2>6, <2>7, <2>8, <4>1 DEF TimesInv
    <3> QED BY <3>1, <3>2
  <2> QED BY <1>a, <2>2, <2>4, <2>5, <2>8 DEF TimesInv
<1> QED BY <1>1, <1>2, <1>3, <1>4, <1>5, <1>6

\* A push that is dropped, and the end of the pushes.
LEMMA OtherPushInv ==
    ASSUME IInv, NEW t \in Threads, PushDropped(t) \/ EventDone(t), UNCHANGED policyVars
    PROVE  IInv'
<1> USE DEF IInv, policyVars
<1>a. /\ UNCHANGED <<barrier, over, cur, minTime, clock, nextId>>
      /\ pc[t] = "push"
      /\ \A u \in Threads : u # t => outbox'[u] = outbox[u] /\ pc'[u] = pc[u]
      /\ pc'[t] = "push" \/ (pc'[t] = "pop" /\ outbox'[t] = <<>>)
      /\ pc' \in [Threads -> {"pop", "execute", "push", "scan", "done"}]
    BY DEF PushDropped, EventDone, Goto, TypeInv, RoundTypeOK
<1>b. /\ outbox' \in [Threads -> Seq(NewEvent)]
      /\ \A k \in 1 .. Len(outbox'[t]) : \E j \in 1 .. Len(outbox[t]) : outbox'[t][k] = outbox[t][j]
  <2>1. CASE PushDropped(t)
    <3>1. /\ outbox' = [outbox EXCEPT ![t] = Tail(@)] /\ Tail(outbox[t]) \in Seq(NewEvent)
          /\ \A k \in 1 .. Len(Tail(outbox[t])) :
                k + 1 \in 1 .. Len(outbox[t]) /\ Tail(outbox[t])[k] = outbox[t][k + 1]
        BY <2>1, Pushed DEF PushDropped
    <3> QED BY <3>1 DEF TypeInv, RoundTypeOK, NewEvent
  <2>2. CASE EventDone(t)
      BY <2>2 DEF EventDone, TypeInv, RoundTypeOK, NewEvent
  <2> QED BY <2>1, <2>2
<1>1. TypeInv'
    BY <1>a, <1>b DEF TypeInv, RoundTypeOK, NewEvent
<1>2. WorkInv'
  <2>1. cur[t] = {} /\ scan[t] = <<>> /\ scanMin[t] = SIMTIME_MAX /\ ~over
      BY <1>a DEF WorkInv
  <2> QED BY <1>a, <2>1 DEF WorkInv, Begun
<1>3. PlaceInv'
    BY PlaceFrame
<1>4. EventsInv'
  <2>1. ASSUME NEW u \in Threads, NEW k \in 1 .. Len(outbox'[u])
        PROVE  outbox'[u][k].src = Head(unproc'[u]) /\ lastTime'[Head(unproc'[u])] <= outbox'[u][k].time
    <3>1. CASE u = t
      <4>1. PICK j \in 1 .. Len(outbox[t]) : outbox'[t][k] = outbox[t][j]
          BY <1>b, <3>1
      <4> QED BY <1>a, <3>1, <4>1 DEF EventsInv
    <3>2. CASE u # t
        BY <1>a, <3>2 DEF EventsInv
    <3> QED BY <3>1, <3>2
  <2> QED BY <1>a, <2>1 DEF EventsInv
<1>5. RoundInv'
    BY <1>a DEF RoundInv, Begun
<1>6. TimesInv'
  <2>1. \A h \in Hosts : ToBeScanned(h) => ToBeScanned(h)'
      BY <1>a DEF ToBeScanned
  <2> QED BY <1>a, <2>1, TimesFrame
<1> QED BY <1>1, <1>2, <1>3, <1>4, <1>5, <1>6

-----------------------------------------------------------------------------
(***************************************************************************)
(* The end of a round                                                      *)
(***************************************************************************)

\* pop returns NULL: the thread has processed every host it has.
LEMMA PopReturnsNullInv ==
    ASSUME IInv, NEW t \in Threads, PopReturnsNull(t)
    PROVE  IInv'
<1> USE DEF IInv
<1>a. /\ pc[t] = "pop"
      /\ scan' = [scan EXCEPT ![t] = unproc[t] \o proc[t]]
      /\ pc' = [pc EXCEPT ![t] = "scan"]
      /\ UNCHANGED <<barrier, over, cur, outbox, minTime, clock, nextId, unproc, proc, curBarrier, pq,
                     lastTime, scanMin>>
    BY DEF PopReturnsNull, Goto, roundVarsButPc
<1>b. /\ scan'[t] = unproc[t] \o proc[t] /\ pc'[t] = "scan"
      /\ \A u \in Threads : u # t => scan'[u] = scan[u] /\ pc'[u] = pc[u]
    BY <1>a DEF TypeInv
<1>c. /\ cur[t] = {} /\ outbox[t] = <<>> /\ ~over
      /\ unproc[t] = <<>> /\ (t < ThreadCount => Begun(t))
  <2>1. cur[t] = {} /\ outbox[t] = <<>> /\ ~over
      BY <1>a DEF WorkInv
  <2>2. CASE t >= ThreadCount
    <3>1. ~(t < ThreadCount)
        BY <2>2, ThreadCountType
    <3> QED BY <2>1, <2>2, <3>1 DEF WorkInv
  <2>3. CASE t < ThreadCount
    <3>1. unproc[t] = <<>> /\ barrier <= curBarrier[t]
        BY <2>3 DEF PopReturnsNull
    <3>2. Begun(t)
        BY <3>1, EventsAssumption DEF RoundInv, Begun, TypeInv, RoundTypeOK
    <3> QED BY <2>1, <3>1, <3>2
  <2> QED BY <2>2, <2>3, ThreadCountType
<1>d. scan'[t] \in Seq(Hosts) /\ scan'[t] = proc[t]
  <2>1. proc[t] \in Seq(Hosts)
      BY ListsType
  <2>2. <<>> \o proc[t] = proc[t]
      BY <2>1
  <2> QED BY <1>b, <1>c, <2>1, <2>2
<1>1. TypeInv'
  <2>1. scan' \in [Threads -> Seq(Hosts)]
      BY <1>a, <1>b, <1>d DEF TypeInv
  <2>2. pc' \in [Threads -> {"pop", "execute", "push", "scan", "done"}]
      BY <1>a DEF TypeInv
  <2> QED BY <1>a, <2>1, <2>2 DEF TypeInv, RoundTypeOK
<1>2. WorkInv'
    BY <1>a, <1>b, <1>c, <1>d DEF WorkInv, Begun
<1>3. PlaceInv' /\ EventsInv'
    BY <1>a, PlaceFrame, EventsFrame
<1>5. RoundInv'
    BY <1>a DEF RoundInv, Begun
<1>6. TimesInv'
  <2>1. \A g \in Hosts : ToBeScanned(g) => ToBeScanned(g)'
    <3> SUFFICES ASSUME NEW g \in Hosts, NEW u \in Threads,
                        \/ g \in Elems(unproc[u])
                        \/ /\ g \in Elems(proc[u])
                           /\ (pc[u] \notin {"scan", "done"} \/ g \in Elems(scan[u]))
                 PROVE  \/ g \in Elems(unproc'[u])
                        \/ /\ g \in Elems(proc'[u])
                           /\ (pc'[u] \notin {"scan", "done"} \/ g \in Elems(scan'[u]))
        BY DEF ToBeScanned
    <3>1. CASE u = t
        BY <3>1, <1>a, <1>d
    <3>2. CASE u # t
        BY <3>2, <1>a, <1>b
    <3> QED BY <3>1, <3>2
  <2>2. \A time : (Reported(time) => Reported(time)') /\ (Covered(time) => Covered(time)')
      BY <1>a, <1>b, <1>c DEF Reported, Covered
  <2> QED BY <1>a, <2>1, <2>2 DEF TimesInv
<1> QED BY <1>1, <1>2, <1>3, <1>5, <1>6

\* getNextTime looks at one more queue.
LEMMA FindMinTimeInv ==
    ASSUME IInv, NEW t \in Threads, FindMinTime(t)
    PROVE  IInv'
<1> USE DEF IInv
<1> DEFINE h == Head(scan[t])
           m == LeastTime(pq[h])
<1>a. /\ pc[t] = "scan" /\ scan[t] # <<>>
      /\ scan' = [scan EXCEPT ![t] = Tail(@)]
      /\ scanMin' = [scanMin EXCEPT ![t] = Lesser(m, @)]
      /\ UNCHANGED <<barrier, over, pc, cur, outbox, minTime, clock, nextId, unproc, proc,
                     curBarrier, pq, lastTime>>
    BY DEF FindMinTime, roundVars
<1>i. /\ h \in Hosts /\ h \in Elems(scan[t]) /\ Tail(scan[t]) \in Seq(Hosts)
      /\ Elems(scan[t]) = {h} \cup Elems(Tail(scan[t]))
  <2>1. scan[t] \in Seq(Hosts)
      BY ListsType
  <2>2. h \in Hosts
    <3>1. 1 \in 1 .. Len(scan[t]) /\ Head(scan[t]) = scan[t][1]
        BY <1>a, <2>1
    <3> QED BY <2>1, <3>1
  <2> HIDE DEF h
  <2> QED BY <1>a, <2>1, <2>2, ElemsOf DEF h
<1> HIDE DEF h
<1>b. /\ scan'[t] = Tail(scan[t]) /\ scanMin'[t] = Lesser(m, scanMin[t])
      /\ \A u \in Threads : u # t => scan'[u] = scan[u] /\ scanMin'[u] = scanMin[u]
    BY <1>a DEF TypeInv
<1>c. \A e \in pq[h] : e \in Event /\ e.time \in Nat /\ e.time \in 0 .. EndTime
    BY <1>i, EventsAssumption DEF TypeInv, Event
<1>d. /\ pq[h] = {} => m = SIMTIME_MAX
      /\ pq[h] # {} => \E e \in pq[h] : e.time = m
      /\ \A e \in pq[h] : m <= e.time
    BY <1>c, LeastTimeOf
<1> HIDE DEF m
<1>e. Begun(t) /\ h \in Elems(proc[t])
  <2>1. h \in Elems(proc[t])
      BY <1>i DEF WorkInv
  <2>2. proc[t] # <<>>
      BY <2>1 DEF Elems
  <2>3. t < ThreadCount
      BY <2>2, ThreadCountType DEF WorkInv
  <2> QED BY <1>a, <2>1, <2>3 DEF WorkInv
<1>f. \A e \in pq[h] : barrier <= e.time
    BY <1>e DEF RoundInv
<1>g. /\ m \in 0 .. EndTime \cup {SIMTIME_MAX} /\ m \in Nat /\ scanMin[t] \in Nat
      /\ \A u \in Threads : scanMin[u] \in Nat
  <2>1. m \in 0 .. EndTime \cup {SIMTIME_MAX}
      BY <1>c, <1>d
  <2>2. \A u \in Threads : scanMin[u] \in 0 .. EndTime \cup {SIMTIME_MAX}
      BY DEF TypeInv
  <2> QED BY <2>1, <2>2, EventsAssumption
<1>h. scanMin'[t] <= m /\ scanMin'[t] <= scanMin[t] /\ scanMin'[t] \in {m, scanMin[t]}
    BY <1>b, <1>g DEF Lesser
<1>1. TypeInv'
  <2>1. scan' \in [Threads -> Seq(Hosts)]
      BY <1>a, <1>i DEF TypeInv
  <2>2. scanMin' \in [Threads -> 0 .. EndTime \cup {SIMTIME_MAX}]
      BY <1>a, <1>g DEF TypeInv, Lesser
  <2> QED BY <1>a, <2>1, <2>2 DEF TypeInv, RoundTypeOK
<1>2. WorkInv'
  <2>1. \A u \in Threads : /\ Elems(scan'[u]) \subseteq Elems(scan[u])
                           /\ u # t => scan'[u] = scan[u] /\ scanMin'[u] = scanMin[u]
      BY <1>b, <1>i
  <2>2. scan'[t] # <<>> => pc[t] = "scan"
      BY <1>a
  <2> QED BY <1>a, <2>1, <2>2 DEF WorkInv, Begun
<1>3. PlaceInv' /\ EventsInv'
    BY <1>a, PlaceFrame, EventsFrame
<1>5. RoundInv'
    BY <1>a DEF RoundInv, Begun
<1>6. TimesInv'
  <2>1. \A u \in Threads : Reported(minTime[u])'
      BY <1>a DEF TimesInv, Reported
  <2>2. ASSUME NEW u \in Threads
        PROVE  Reported(scanMin[u])'
    <3>1. CASE scanMin'[u] = scanMin[u]
        BY <1>a, <3>1 DEF TimesInv, Reported
    <3>2. CASE scanMin'[u] = m
        BY <1>a, <1>d, <1>f, <1>i, <3>2 DEF Reported
    <3> QED BY <1>b, <1>h, <3>1, <3>2
  <2>5. \A g \in Hosts : g # h /\ ToBeScanned(g) => ToBeScanned(g)'
    <3> SUFFICES ASSUME NEW g \in Hosts, g # h, NEW u \in Threads,
                        \/ g \in Elems(unproc[u])
                        \/ /\ g \in Elems(proc[u])
                           /\ (pc[u] \notin {"scan", "done"} \/ g \in Elems(scan[u]))
                 PROVE  \/ g \in Elems(unproc'[u])
                        \/ /\ g \in Elems(proc'[u])
                           /\ (pc'[u] \notin {"scan", "done"} \/ g \in Elems(scan'[u]))
        BY DEF ToBeScanned
    <3>1. g \in Elems(scan[u]) => g \in Elems(scan'[u])
        BY <1>b, <1>i
    <3> QED BY <1>a, <3>1
  <2>6. ASSUME NEW g \in Hosts, NEW e \in pq[g], barrier <= e.time, ~over
        PROVE  \E u \in Threads : \/ minTime'[u] <= e.time \/ (pc'[u] = "scan" /\ scanMin'[u] <= e.time)
                                  \/ ToBeScanned(g)'
    <3>1. CASE g = h
      <4>1. scanMin'[t] <= e.time
          BY <1>c, <1>d, <1>g, <1>h, <3>1
      <4> QED BY <1>a, <4>1
    <3>2. CASE g # h
      <4>1. Covered(e.time) \/ ToBeScanned(g)
          BY <2>6 DEF TimesInv
      <4>2. e \in Event /\ e.time \in Nat
          BY EventsAssumption DEF TypeInv, Event
      <4>3. CASE ToBeScanned(g)
          BY <2>5, <3>2, <4>3
      <4>4. CASE Covered(e.time)
        <5>1. PICK u \in Threads : minTime[u] <= e.time \/ (pc[u] = "scan" /\ scanMin[u] <= e.time)
            BY <4>4 DEF Covered
        <5>2. scanMin[u] <= e.time => scanMin'[u] <= e.time
            BY <1>b, <1>g, <1>h, <4>2
        <5> QED BY <1>a, <5>1, <5>2
      <4> QED BY <4>1, <4>3, <4>4
    <3> QED BY <3>1, <3>2
  <2> QED BY <1>a, <2>1, <2>2, <2>6 DEF TimesInv, Covered
<1> QED BY <1>1, <1>2, <1>3, <1>5, <1>6

\* The worker reports what getNextTime found.
LEMMA NextTimeFoundInv ==
    ASSUME IInv, NEW t \in Threads, NextTimeFound(t)
    PROVE  IInv'
<1> USE DEF IInv
<1>a. /\ pc[t] = "scan" /\ scan[t] = <<>>
      /\ minTime' = IF scanMin[t] < barrier THEN minTime
                    ELSE [minTime EXCEPT ![t] = Lesser(scanMin[t], @)]
      /\ pc' = [pc EXCEPT ![t] = "done"]
      /\ scanMin' = [scanMin EXCEPT ![t] = SIMTIME_MAX]
      /\ UNCHANGED <<barrier, over, cur, outbox, clock, nextId, unproc, proc,
                     curBarrier, pq, lastTime, scan>>
    BY DEF NextTimeFound, FinishRound, SetMinEventTime, Goto
<1>b. /\ pc'[t] = "done" /\ scanMin'[t] = SIMTIME_MAX
      /\ \A u \in Threads : u # t => pc'[u] = pc[u] /\ scanMin'[u] = scanMin[u]
    BY <1>a DEF TypeInv
<1>c. /\ barrier \in 1 .. EndTime /\ barrier \in Nat
      /\ \A u \in Threads : scanMin[u] \in Nat /\ minTime[u] \in Nat
  <2>1. barrier \in 1 .. EndTime /\ barrier \in Nat
      BY EventsAssumption DEF TypeInv, RoundTypeOK
  <2>2. \A u \in Threads : /\ scanMin[u] \in 0 .. EndTime \cup {SIMTIME_MAX}
                           /\ minTime[u] \in 0 .. EndTime \cup {SIMTIME_MAX}
      BY DEF TypeInv, RoundTypeOK
  <2> QED BY <2>1, <2>2, EventsAssumption
<1>d. barrier <= scanMin[t]
    BY <1>c, EventsAssumption DEF TimesInv, Reported
<1>e. /\ minTime'[t] <= scanMin[t] /\ minTime'[t] <= minTime[t] /\ minTime'[t] \in {scanMin[t], minTime[t]}
      /\ \A u \in Threads : u # t => minTime'[u] = minTime[u]
  <2>1. minTime'[t] = Lesser(scanMin[t], minTime[t]) /\ \A u \in Threads : u # t => minTime'[u] = minTime[u]
      BY <1>a, <1>c, <1>d DEF TypeInv, RoundTypeOK
  <2> QED BY <2>1, <1>c DEF Lesser
<1>1. TypeInv'
  <2>1. scanMin' \in [Threads -> 0 .. EndTime \cup {SIMTIME_MAX}]
      BY <1>a DEF TypeInv
  <2>2. minTime' \in [Threads -> 0 .. EndTime \cup {SIMTIME_MAX}]
      BY <1>a DEF TypeInv, RoundTypeOK, Lesser
  <2>3. pc' \in [Threads -> {"pop", "execute", "push", "scan", "done"}]
      BY <1>a DEF TypeInv
  <2> QED BY <1>a, <2>1, <2>2, <2>3 DEF TypeInv, RoundTypeOK
<1>2. WorkInv'
    BY <1>a, <1>b DEF WorkInv, Begun
<1>3. PlaceInv' /\ EventsInv'
    BY <1>a, PlaceFrame, EventsFrame
<1>5. RoundInv'
    BY <1>a DEF RoundInv, Begun
<1>6. TimesInv'
  <2>1. ASSUME NEW u \in Threads
        PROVE  Reported(minTime[u])'
    <3>1. CASE minTime'[u] = minTime[u]
        BY <1>a, <3>1 DEF TimesInv, Reported
    <3>2. CASE minTime'[u] = scanMin[u]
        BY <1>a, <3>2 DEF TimesInv, Reported
    <3> QED BY <1>e, <3>1, <3>2
  <2>2. \A u \in Threads : Reported(scanMin[u])'
      BY <1>a, <1>b DEF TimesInv, Reported
  <2>3. ASSUME NEW g \in Hosts, NEW e \in pq[g], barrier <= e.time, ~over
        PROVE  \E u \in Threads : \/ minTime'[u] <= e.time \/ (pc'[u] = "scan" /\ scanMin'[u] <= e.time)
                                  \/ ToBeScanned(g)'
    <3>1. Covered(e.time) \/ ToBeScanned(g)
        BY <2>3 DEF TimesInv
    <3>2. e \in Event /\ e.time \in Nat
        BY EventsAssumption DEF TypeInv, Event
    <3>3. CASE ToBeScanned(g)
      <4>1. ToBeScanned(g)'
          BY <1>a, <1>b, <3>3 DEF ToBeScanned
      <4> QED BY <4>1
    <3>4. CASE Covered(e.time)
      <4>1. PICK u \in Threads : minTime[u] <= e.time \/ (pc[u] = "scan" /\ scanMin[u] <= e.time)
          BY <3>4 DEF Covered
      <4>2. CASE u = t
        <5>1. minTime'[t] <= e.time
            BY <1>c, <1>e, <3>2, <4>1, <4>2
        <5> QED BY <5>1
      <4>3. CASE u # t
          BY <1>b, <1>e, <4>1, <4>3
      <4> QED BY <4>2, <4>3
    <3> QED BY <3>1, <3>3, <3>4
  <2> QED BY <1>a, <2>1, <2>2, <2>3 DEF TimesInv, Covered
<1> QED BY <1>1, <1>2, <1>3, <1>5, <1>6

\* The time that the main thread reads is that of the earliest event, which
\* belongs to a later round, or "none".
LEMMA GlobalTime ==
    ASSUME IInv
    PROVE  /\ GlobalNextEventTime \in Nat /\ barrier <= GlobalNextEventTime
           /\ GlobalNextEventTime \in 0 .. EndTime \cup {SIMTIME_MAX}
           /\ \A t \in Threads : GlobalNextEventTime <= minTime[t]
           /\ \E t \in Threads : GlobalNextEventTime = minTime[t]
<1> USE DEF IInv
<1>1. /\ barrier \in 1 .. EndTime
      /\ \A t \in Threads : minTime[t] \in 0 .. EndTime \cup {SIMTIME_MAX}
    BY DEF TypeInv, RoundTypeOK
<1>2. barrier \in Nat /\ barrier < SIMTIME_MAX /\ \A t \in Threads : minTime[t] \in Nat
    BY <1>1, EventsAssumption
<1>3. 0 \in Threads
    BY ThreadsAssumption DEF Threads
<1> DEFINE T == {minTime[t] : t \in Threads}
<1>4. T \subseteq Nat /\ T # {}
    BY <1>2, <1>3
<1>5. PICK x \in T : \A y \in T : x <= y
    BY <1>4, LeastNumber
<1>6. /\ GlobalNextEventTime \in T
      /\ \A t \in Threads : GlobalNextEventTime <= minTime[t]
    BY <1>5 DEF GlobalNextEventTime
<1>7. PICK t \in Threads : GlobalNextEventTime = minTime[t]
    BY <1>6
<1>8. barrier <= minTime[t]
    BY <1>2 DEF TimesInv, Reported
<1> QED BY <1>1, <1>2, <1>6, <1>7, <1>8

\* manager_run goes on to the next window, or ends.
LEMMA NextRoundInv ==
    ASSUME IInv, NEW jump \in Jumps, NextRound(jump), UNCHANGED policyVars
    PROVE  IInv'
<1> USE DEF IInv, policyVars
<1> DEFINE m == GlobalNextEventTime
<1>a. /\ ~over /\ \A t \in Threads : pc[t] = "done"
      /\ minTime' = [t \in Threads |-> SIMTIME_MAX]
      /\ UNCHANGED <<cur, outbox, clock, nextId>>
    BY DEF NextRound, TimesReset
<1>b. \A t \in Threads : /\ cur[t] = {} /\ outbox[t] = <<>> /\ scan[t] = <<>>
                         /\ scanMin[t] = SIMTIME_MAX
    BY <1>a DEF WorkInv
<1>c. m \in Nat /\ barrier <= m /\ barrier \in Nat /\ barrier \in 1 .. EndTime
  <2>1. barrier \in 1 .. EndTime
      BY DEF TypeInv, RoundTypeOK
  <2> QED BY <2>1, GlobalTime
<1>d. \/ /\ barrier' = WindowEnd(m, jump) /\ m < WindowEnd(m, jump)
         /\ pc' = [t \in Threads |-> "pop"] /\ over' = over
      \/ over' = TRUE /\ barrier' = barrier /\ pc' = pc
    BY DEF NextRound
<1> HIDE DEF m
<1>e. CASE /\ barrier' = WindowEnd(m, jump) /\ m < WindowEnd(m, jump)
           /\ pc' = [t \in Threads |-> "pop"] /\ over' = over
  <2>1. barrier' \in 1 .. EndTime /\ barrier < barrier'
      BY <1>c, <1>e, EventsAssumption DEF WindowEnd
  <2>2. TypeInv'
    <3>1. minTime' \in [Threads -> 0 .. EndTime \cup {SIMTIME_MAX}]
        BY <1>a
    <3>2. pc' \in [Threads -> {"pop", "execute", "push", "scan", "done"}]
        BY <1>e
    <3> QED BY <1>a, <1>e, <2>1, <3>1, <3>2 DEF TypeInv, RoundTypeOK
  <2>3. WorkInv'
      BY <1>a, <1>b, <1>e DEF WorkInv, Begun
  <2>4. PlaceInv'
      BY PlaceFrame
  <2>5. EventsInv'
    <3>1. \A h \in Hosts : lastTime[h] < barrier'
        BY <1>c, <2>1, EventsAssumption DEF EventsInv, TypeInv
    <3> QED BY <1>a, <1>b, <3>1 DEF EventsInv
  <2>6. RoundInv'
    <3>1. \A t \in Threads : curBarrier[t] < barrier'
        BY <1>c, <2>1, EventsAssumption DEF RoundInv, TypeInv
    <3>2. \A t \in Threads : curBarrier'[t] <= barrier' /\ ~Begun(t)'
        BY <2>1, <3>1, EventsAssumption DEF Begun, TypeInv
    <3> QED BY <3>2 DEF RoundInv
  <2>7. TimesInv'
    <3>1. \A t \in Threads : Reported(minTime[t])' /\ Reported(scanMin[t])'
        BY <1>a, <1>b DEF Reported
    <3>2. \A h \in Hosts : ToBeScanned(h)'
        BY <1>e DEF ToBeScanned, PlaceInv, Holds
    <3> QED BY <3>1, <3>2 DEF TimesInv
  <2> QED BY <2>2, <2>3, <2>4, <2>5, <2>6, <2>7
<1>f. CASE over' = TRUE /\ barrier' = barrier /\ pc' = pc
  <2>2. TypeInv'
    <3>1. minTime' \in [Threads -> 0 .. EndTime \cup {SIMTIME_MAX}]
        BY <1>a
    <3> QED BY <1>a, <1>f, <3>1 DEF TypeInv, RoundTypeOK
  <2>3. WorkInv'
      BY <1>a, <1>f DEF WorkInv, Begun
  <2>4. PlaceInv' /\ EventsInv'
      BY <1>a, <1>f, PlaceFrame, EventsFrame
  <2>5. RoundInv'
      BY <1>f DEF RoundInv, Begun
  <2>6. TimesInv'
    <3>1. \A t \in Threads : Reported(minTime[t])' /\ Reported(scanMin[t])'
        BY <1>a, <1>b DEF Reported
    <3> QED BY <1>f, <3>1 DEF TimesInv
  <2> QED BY <2>2, <2>3, <2>4, <2>5, <2>6
<1> QED BY <1>d, <1>e, <1>f

-----------------------------------------------------------------------------
(***************************************************************************)
(* The hosts are dealt to the threads                                      *)
(***************************************************************************)

\* Division with remainder.
LEMMA DivMod ==
    ASSUME NEW a \in Nat, NEW n \in Nat \ {0}
    PROVE  /\ a \div n \in Nat /\ a % n \in 0 .. n - 1
           /\ a = (a \div n) * n + (a % n)
<1>1. a \div n \in Nat
    BY Z3
<1>2. a % n \in 0 .. n - 1
    BY Z3
<1>3. a = n * (a \div n) + (a % n)
    BY Z3
<1>4. \A q \in Nat : n * q = q * n
    BY Z3
<1> QED BY <1>1, <1>2, <1>3, <1>4

\* A product grows with its factor.
LEMMA TimesGrows ==
    ASSUME NEW p \in Int, NEW q \in Int, NEW n \in Nat, p <= q
    PROVE  p * n <= q * n
    BY Z3

\* A place in the order determines the thread and the place in its list.
LEMMA OneHand ==
    ASSUME NEW n \in Nat \ {0}, NEW p \in Nat, NEW q \in Nat,
           NEW t \in 0 .. n - 1, NEW u \in 0 .. n - 1, p * n + t = q * n + u
    PROVE  p = q /\ t = u
<1>1. ASSUME NEW i \in Nat, NEW j \in Nat, i < j
      PROVE  i * n + n <= j * n /\ i * n \in Nat
  <2>1. (i + 1) * n <= j * n
      BY <1>1, TimesGrows
  <2>2. (i + 1) * n = i * n + n /\ i * n \in Nat
      BY Z3
  <2> QED BY <2>1, <2>2
<1>2. p * n \in Nat /\ q * n \in Nat
    BY Z3
<1>3. ~(p < q) /\ ~(q < p)
  <2>1. p < q => p * n + n <= q * n
      BY <1>1
  <2>2. q < p => q * n + n <= p * n
      BY <1>1
  <2> QED BY <1>2, <2>1, <2>2
<1>4. p = q
    BY <1>3
<1> QED BY <1>2, <1>4

\* The length of a thread's list, and the places in the order it comes from.
LEMMA HandLength ==
    ASSUME NEW c \in Nat, NEW n \in Nat \ {0}, NEW t \in 0 .. n - 1, NEW l,
           l = (c + n - 1 - t) \div n
    PROVE  /\ l \in Nat
           /\ \A j \in 1 .. l : (j - 1) * n + t + 1 \in 1 .. c /\ j - 1 \in Nat
           /\ \A q \in Nat : q * n + t + 1 <= c => q + 1 \in 1 .. l
           /\ t >= c => l = 0
<1> DEFINE a == c + n - 1 - t
           r == a % n
<1>1. a \in Nat
    OBVIOUS
<1>2. l \in Nat /\ r \in 0 .. n - 1 /\ a = l * n + r
    BY <1>1, DivMod
<1>3. l * n \in Nat
    BY <1>2, Z3
<1>4. ASSUME NEW j \in 1 .. l
      PROVE  (j - 1) * n + t + 1 \in 1 .. c /\ j - 1 \in Nat
  <2>1. j - 1 \in Nat /\ (j - 1) * n \in Nat
    <3>1. j - 1 \in Nat
        BY <1>2
    <3> QED BY <3>1, Z3
  <2>2. j * n <= l * n
      BY <1>2, TimesGrows
  <2>3. j * n = (j - 1) * n + n
      BY Z3
  <2> HIDE DEF r
  <2> QED BY <1>2, <1>3, <2>1, <2>2, <2>3
<1>5. ASSUME NEW q \in Nat, q * n + t + 1 <= c
      PROVE  q + 1 \in 1 .. l
  <2>1. q * n \in Nat /\ (q + 1) * n = q * n + n /\ (l + 1) * n = l * n + n
      BY <1>2, Z3
  <2>2. CASE l < q + 1
    <3>1. (l + 1) * n <= (q + 1) * n
        BY <1>2, <2>2, TimesGrows
    <3> HIDE DEF r
    <3> QED BY <1>2, <1>3, <1>5, <2>1, <3>1
  <2> QED BY <1>2, <2>2
<1>6. t >= c => l = 0
  <2>1. l # 0 => 1 \in 1 .. l
      BY <1>2
  <2>2. l # 0 => (1 - 1) * n + t + 1 \in 1 .. c
      BY <1>4, <2>1
  <2> QED BY <2>2
<1> QED BY <1>2, <1>4, <1>5, <1>6

\* An order of the hosts names every one of them once.
LEMMA OrderOfAll ==
    ASSUME NEW order \in Orders
    PROVE  /\ order \in Seq(Hosts) /\ Len(order) = Cardinality(Hosts) /\ Len(order) \in Nat
           /\ \A i, j \in 1 .. Len(order) : order[i] = order[j] => i = j
           /\ \A h \in Hosts : \E k \in 1 .. Len(order) : order[k] = h
<1> DEFINE n == Cardinality(Hosts)
<1>1. n \in Nat /\ order \in [1 .. n -> Hosts]
    BY ThreadCountType DEF Orders
<1>2. \A i, j \in 1 .. n : order[i] = order[j] => i = j
    BY <1>1 DEF Orders
<1>3. order \in Seq(Hosts) /\ Len(order) = n
    BY <1>1
<1>4. order \in Injection(1 .. n, Hosts)
    BY <1>1, <1>2 DEF Injection, IsInjective
<1>5. Cardinality(1 .. n) = n
  <2>1. 1 \in Int /\ n \in Int
      BY <1>1
  <2> HIDE DEF n
  <2> QED BY <1>1, <2>1, FS_Interval
<1>6. order \in Surjection(1 .. n, Hosts)
    BY <1>4, <1>5, ThreadsAssumption, FS_Injection
<1> QED BY <1>1, <1>2, <1>3, <1>6 DEF Surjection

\* What a thread is given: every host is in one list, once.
LEMMA Dealing ==
    ASSUME NEW order \in Orders
    PROVE  /\ \A t \in Threads : /\ Hand(order, t) \in Seq(Hosts) /\ Distinct(Hand(order, t))
                                 /\ t >= ThreadCount => Hand(order, t) = <<>>
           /\ \A h \in Hosts : \E t \in Threads : h \in Elems(Hand(order, t))
           /\ \A t, u \in Threads : \A h \in Hosts :
                 h \in Elems(Hand(order, t)) /\ h \in Elems(Hand(order, u)) => t = u
<1> DEFINE N == NThreads
           c == Len(order)
           l(t) == (c + N - 1 - t) \div N
           at(t, j) == (j - 1) * N + t + 1
<1>1. /\ c \in Nat /\ N \in Nat \ {0} /\ c = Cardinality(Hosts) /\ order \in Seq(Hosts)
      /\ \A t \in Threads : t \in 0 .. N - 1
    BY OrderOfAll, ThreadsAssumption DEF Threads
<1>2. ASSUME NEW t \in Threads
      PROVE  /\ l(t) \in Nat
             /\ \A j \in 1 .. l(t) : at(t, j) \in 1 .. c /\ j - 1 \in Nat
             /\ \A q \in Nat : q * N + t + 1 <= c => q + 1 \in 1 .. l(t)
             /\ t >= c => l(t) = 0
    BY <1>1, HandLength
<1>3. ASSUME NEW t \in Threads, NEW u \in Threads, NEW j \in 1 .. l(t), NEW i \in 1 .. l(u),
             order[at(t, j)] = order[at(u, i)]
      PROVE  t = u /\ j = i
  <2>1. at(t, j) = at(u, i)
    <3>1. at(t, j) \in 1 .. c /\ at(u, i) \in 1 .. c
        BY <1>2
    <3> HIDE DEF at
    <3> QED BY <1>3, <3>1, OrderOfAll
  <2>2. j - 1 \in Nat /\ i - 1 \in Nat /\ (j - 1) * N \in Nat /\ (i - 1) * N \in Nat
    <3>1. j - 1 \in Nat /\ i - 1 \in Nat
        BY <1>2
    <3> QED BY <1>1, <3>1, Z3
  <2> DEFINE p == j - 1
             q == i - 1
  <2>4. t \in 0 .. N - 1 /\ u \in 0 .. N - 1
      BY <1>1
  <2>3. p * N + t = q * N + u /\ p \in Nat /\ q \in Nat /\ N \in Nat \ {0}
    <3>1. p * N + t + 1 = q * N + u + 1 /\ p * N \in Nat /\ q * N \in Nat
        BY <2>1, <2>2
    <3>2. p \in Nat /\ q \in Nat /\ N \in Nat \ {0}
        BY <1>1, <2>2
    <3>3. \A x, y \in Nat : x + t + 1 = y + u + 1 => x + t = y + u
        BY <2>4
    <3> HIDE DEF p, q, N
    <3> QED BY <3>1, <3>2, <3>3
  <2>5. p = q /\ t = u
    <3> HIDE DEF p, q, N
    <3> QED BY <2>3, <2>4, OneHand
  <2> QED BY <1>2, <2>5
<1>4. ASSUME NEW t \in Threads
      PROVE  /\ Hand(order, t) \in Seq(Hosts) /\ Len(Hand(order, t)) = l(t)
             /\ \A j \in 1 .. l(t) : Hand(order, t)[j] = order[at(t, j)]
  <2>1. \A j \in 1 .. l(t) : order[at(t, j)] \in Hosts
      BY <1>1, <1>2
  <2>2. Hand(order, t) = [j \in 1 .. l(t) |-> order[at(t, j)]]
      BY DEF Hand
  <2>3. l(t) \in Nat
      BY <1>2
  <2> HIDE DEF l, at
  <2> QED BY <2>1, <2>2, <2>3
<1>5. ASSUME NEW t \in Threads, t >= ThreadCount
      PROVE  Hand(order, t) = <<>>
  <2>1. t >= c
      BY <1>1, <1>5 DEF ThreadCount, Lesser
  <2>2. Len(Hand(order, t)) = 0
      BY <1>2, <1>4, <2>1
  <2> QED BY <1>4, <2>2
<1>6. ASSUME NEW h \in Hosts
      PROVE  \E t \in Threads : h \in Elems(Hand(order, t))
  <2>1. PICK k \in 1 .. c : order[k] = h
      BY OrderOfAll
  <2>2. k - 1 \in Nat
      BY <1>1
  <2>3. PICK q \in Nat, u \in 0 .. N - 1 : k - 1 = q * N + u
      BY <1>1, <2>2, DivMod
  <2>4. q * N \in Nat
      BY <1>1, Z3
  <2>5. u \in Threads /\ q * N + u + 1 = k
      BY <1>1, <2>3, <2>4 DEF Threads
  <2>6. q + 1 \in 1 .. l(u)
    <3>1. q * N + u + 1 <= c
        BY <1>1, <2>5
    <3>2. \A x \in Nat : x * N + u + 1 <= c => x + 1 \in 1 .. l(u)
        BY <1>2, <2>5
    <3> HIDE DEF l
    <3> QED BY <3>1, <3>2
  <2>7. at(u, q + 1) = k
    <3>1. q + 1 - 1 = q
        OBVIOUS
    <3>2. at(u, q + 1) = q * N + u + 1
        BY <3>1
    <3> QED BY <2>5, <3>2
  <2>8. Hand(order, u)[q + 1] = h
      BY <1>4, <2>1, <2>5, <2>6, <2>7
  <2> QED BY <1>4, <2>5, <2>6, <2>8 DEF Elems
<1> HIDE DEF l, at
<1>7. \A t \in Threads : Distinct(Hand(order, t))
    BY <1>3, <1>4 DEF Distinct
<1>8. \A t, u \in Threads : \A h \in Hosts :
         h \in Elems(Hand(order, t)) /\ h \in Elems(Hand(order, u)) => t = u
    BY <1>3, <1>4 DEF Elems
<1> QED BY <1>4, <1>5, <1>6, <1>7, <1>8

-----------------------------------------------------------------------------
(***************************************************************************)
(* The invariant                                                           *)
(***************************************************************************)

LEMMA InitInv == Init => IInv
<1> SUFFICES ASSUME Init
             PROVE  IInv
    OBVIOUS
<1> USE DEF Init, RoundInit
<1>0. PICK order \in Orders : unproc = [t \in Threads |-> Hand(order, t)]
    OBVIOUS
<1>1. TypeInv
  <2>1. /\ 0 \in 0 .. EndTime /\ 1 \in 1 .. EndTime /\ 0 \in 0 .. MaxEvents
        /\ barrier \in 1 .. EndTime
      BY EventsAssumption
  <2>2. pq \in [Hosts -> SUBSET Event]
      BY BootEventsType
  <2>3. unproc \in [Threads -> Seq(Hosts)]
      BY <1>0, Dealing
  <2>4. /\ proc \in [Threads -> Seq(Hosts)] /\ scan \in [Threads -> Seq(Hosts)]
        /\ scanMin \in [Threads -> 0 .. EndTime \cup {SIMTIME_MAX}]
      OBVIOUS
  <2>5. curBarrier \in [Threads -> 0 .. EndTime] /\ lastTime \in [Hosts -> 0 .. EndTime]
      BY <2>1
  <2>6. pc \in [Threads -> {"pop", "execute", "push", "scan", "done"}]
      OBVIOUS
  <2>7. RoundTypeOK
    <3>1. /\ over \in BOOLEAN /\ cur \in [Threads -> SUBSET Event]
          /\ minTime \in [Threads -> 0 .. EndTime \cup {SIMTIME_MAX}]
        OBVIOUS
    <3>2. outbox \in [Threads -> Seq([time : Nat, dst : Hosts, src : Hosts, id : 0 .. MaxEvents])]
        OBVIOUS
    <3>3. clock \in [Hosts -> 0 .. EndTime] /\ nextId \in [Hosts -> 0 .. MaxEvents]
        BY <2>1
    <3> QED BY <2>1, <3>1, <3>2, <3>3 DEF RoundTypeOK
  <2> QED BY <2>2, <2>3, <2>4, <2>5, <2>6, <2>7 DEF TypeInv
<1>a. \A t \in Threads : /\ unproc[t] = Hand(order, t) /\ proc[t] = <<>> /\ scan[t] = <<>>
                         /\ cur[t] = {} /\ outbox[t] = <<>>
    BY <1>0
<1>b. Elems(<<>>) = {} /\ Distinct(<<>>)
    BY DEF Elems, Distinct
<1>2. WorkInv
  <2>1. \A t \in Threads : t >= ThreadCount => unproc[t] = <<>>
      BY <1>a, Dealing
  <2>2. \A t \in Threads : pc[t] = "pop" /\ scanMin[t] = SIMTIME_MAX
      OBVIOUS
  <2> QED BY <1>a, <2>1, <2>2 DEF WorkInv
<1>3. PlaceInv
  <2>1. \A t \in Threads : \A h \in Hosts : Holds(t, h) <=> h \in Elems(Hand(order, t))
      BY <1>a, <1>b DEF Holds
  <2>2. \A t \in Threads : Distinct(unproc[t]) /\ Distinct(proc[t]) /\ Elems(proc[t]) = {}
      BY <1>a, <1>b, Dealing
  <2> QED BY <2>1, <2>2, Dealing DEF PlaceInv
<1>4. EventsInv
  <2>1. \A h \in Hosts : clock[h] = 0 /\ lastTime[h] = 0 /\ pq[h] = BootEvents(h)
      OBVIOUS
  <2> QED BY <1>a, <2>1, BootEventsType DEF EventsInv
<1>5. RoundInv
  <2>1. \A t \in Threads : curBarrier[t] = 0 /\ barrier = 1
      OBVIOUS
  <2> QED BY <2>1 DEF RoundInv, Begun
<1>6. TimesInv
  <2>1. \A t \in Threads : Reported(minTime[t]) /\ Reported(scanMin[t])
      BY DEF Reported
  <2>2. \A h \in Hosts : ToBeScanned(h)
      BY <1>a, Dealing DEF ToBeScanned
  <2> QED BY <2>1, <2>2 DEF TimesInv
<1> QED BY <1>1, <1>2, <1>3, <1>4, <1>5, <1>6 DEF IInv

\* Every step of a thread keeps the invariant.
LEMMA ThreadStepInv ==
    ASSUME IInv, NEW t \in Threads, ThreadStep(t)
    PROVE  IInv'
<1>1. CASE RefillHosts(t)
    BY <1>1, RefillHostsInv
<1>2. CASE PopEvent(t)
    BY <1>2, PopEventInv
<1>3. CASE HostProcessed(t)
    BY <1>3, HostProcessedInv
<1>4. CASE PopReturnsNull(t)
    BY <1>4, PopReturnsNullInv
<1>5. CASE ExecuteEvent(t) /\ UNCHANGED policyVars
    BY <1>5, ExecuteEventInv
<1>6. CASE PushEvent(t)
    BY <1>6, PushEventInv
<1>7. CASE (PushDropped(t) \/ EventDone(t)) /\ UNCHANGED policyVars
    BY <1>7, OtherPushInv
<1>8. CASE FindMinTime(t)
    BY <1>8, FindMinTimeInv
<1>9. CASE NextTimeFound(t)
    BY <1>9, NextTimeFoundInv
<1> QED BY <1>1, <1>2, <1>3, <1>4, <1>5, <1>6, <1>7, <1>8, <1>9 DEF ThreadStep

\* A step that changes nothing keeps the invariant.
LEMMA StutterInv ==
    ASSUME IInv, UNCHANGED vars
    PROVE  IInv'
<1> USE DEF vars, IInv
<1>1. TypeInv'
    BY DEF TypeInv, RoundTypeOK
<1>2. WorkInv'
    BY DEF WorkInv, Begun
<1>3. PlaceInv' /\ EventsInv'
    BY PlaceFrame, EventsFrame
<1>4. RoundInv'
    BY DEF RoundInv, Begun
<1>5. TimesInv'
  <2>1. \A h \in Hosts : ToBeScanned(h) => ToBeScanned(h)'
      BY DEF ToBeScanned
  <2> QED BY <2>1, TimesFrame
<1> QED BY <1>1, <1>2, <1>3, <1>4, <1>5

LEMMA StepInv == IInv /\ [Next]_vars => IInv'
<1> SUFFICES ASSUME IInv, [Next]_vars
             PROVE  IInv'
    OBVIOUS
<1>1. CASE \E t \in Threads : ThreadStep(t)
    BY <1>1, ThreadStepInv
<1>2. CASE MainStep
    BY <1>2, NextRoundInv DEF MainStep
<1>3. CASE Stopped \/ UNCHANGED vars
    BY <1>3, StutterInv DEF Stopped
<1> QED BY <1>1, <1>2, <1>3 DEF Next

\* The inductive invariant holds in every state the policy reaches.
THEOREM Invariance == Spec => []IInv
    BY InitInv, StepInv, PTL DEF Spec

\* When all workers are through, no event of the round is left: every list is
\* empty, and the hosts that were processed have none.
LEMMA RoundDone ==
    ASSUME IInv, \A t \in Threads : pc[t] = "done"
    PROVE  \A h \in Hosts : \A e \in pq[h] : barrier <= e.time
<1> USE DEF IInv
<1> SUFFICES ASSUME NEW h \in Hosts
             PROVE  \A e \in pq[h] : barrier <= e.time
    OBVIOUS
<1>1. PICK t \in Threads : Holds(t, h)
    BY DEF PlaceInv
<1>2. h \in Elems(proc[t])
  <2>1. Elems(unproc[t]) = {}
      BY DEF WorkInv, Elems
  <2> QED BY <1>1, <2>1 DEF Holds
<1>3. t < ThreadCount
  <2>1. proc[t] # <<>>
      BY <1>2 DEF Elems
  <2> QED BY <2>1, ThreadCountType DEF WorkInv
<1>4. Begun(t)
    BY <1>3 DEF WorkInv
<1> QED BY <1>2, <1>4 DEF RoundInv
-----------------------------------------------------------------------------
(***************************************************************************)
(* The policy is the simulation EventSim                                   *)
(***************************************************************************)

\* Event e is for h, and thread t has popped it or is about to push it.
OnTheWay(t, h, e) ==
    \/ e \in cur[t] /\ e.dst = h
    \/ \E k \in 1 .. Len(outbox[t]) :
          outbox[t][k].dst = h /\ Kept(outbox[t][k]) /\ e = Adjusted(outbox[t][k], barrier)

\* The events that are pending, before and after a step.
LEMMA InPending ==
    /\ \A h \in Hosts : \A e :
          e \in Pending[h] <=> e \in pq[h] \/ \E t \in Threads : OnTheWay(t, h, e)
    /\ \A h \in Hosts : \A e :
          e \in Pending'[h] <=> e \in pq'[h] \/ \E t \in Threads : OnTheWay(t, h, e)'
<1>1. ASSUME NEW h \in Hosts, NEW e
      PROVE  e \in Pending[h] <=> e \in pq[h] \/ \E t \in Threads : OnTheWay(t, h, e)
    BY DEF Pending, InFlight, OnTheWay
<1>2. ASSUME NEW h \in Hosts, NEW e
      PROVE  e \in Pending'[h] <=> e \in pq'[h] \/ \E t \in Threads : OnTheWay(t, h, e)'
    BY DEF Pending, InFlight, OnTheWay
<1> QED BY <1>1, <1>2

LEMMA SamePending ==
    ASSUME NEW P, \A h \in Hosts : P[h] = Pending'[h], P = [h \in Hosts |-> P[h]]
    PROVE  P = Pending'
<1>1. Pending' = [h \in Hosts |-> Pending'[h]]
    BY DEF Pending
<1> QED BY <1>1

\* A step that leaves queues, popped events and events to push alone.
LEMMA PendingFrame ==
    ASSUME UNCHANGED <<pq, cur, outbox, barrier>>
    PROVE  Pending' = Pending
    BY DEF Pending, InFlight

\* A popped event is still pending.
LEMMA PendingPopEvent ==
    ASSUME IInv, NEW t \in Threads, PopEvent(t)
    PROVE  Pending' = Pending
<1> USE DEF IInv
<1> DEFINE h == Head(unproc[t])
<1>0. PICK e \in pq[h] : pq' = [pq EXCEPT ![h] = @ \ {e}] /\ cur' = [cur EXCEPT ![t] = {e}]
    BY DEF PopEvent, Popped
<1>a. h \in Hosts /\ cur[t] = {}
    BY Looking DEF PopEvent
<1>1. outbox' = outbox /\ barrier' = barrier /\ e.dst = h
    BY <1>a DEF PopEvent, EventsInv
<1> HIDE DEF h
<1>2. /\ cur'[t] = {e} /\ \A u \in Threads : u # t => cur'[u] = cur[u]
      /\ pq'[h] = pq[h] \ {e} /\ \A g \in Hosts : g # h => pq'[g] = pq[g]
    BY <1>0, <1>a DEF TypeInv, RoundTypeOK
<1>3. /\ \A g \in Hosts : \A d : OnTheWay(t, g, d)' <=> OnTheWay(t, g, d) \/ (d = e /\ g = h)
      /\ \A u \in Threads : u # t => \A g \in Hosts : \A d : OnTheWay(u, g, d)' <=> OnTheWay(u, g, d)
    BY <1>a, <1>1, <1>2 DEF OnTheWay
<1>4. ASSUME NEW g \in Hosts, NEW d
      PROVE  d \in Pending'[g] <=> d \in Pending[g]
  <2>1. (\E u \in Threads : OnTheWay(u, g, d)') <=> (\E u \in Threads : OnTheWay(u, g, d)) \/ (d = e /\ g = h)
      BY <1>3
  <2>2. d \in pq[g] <=> d \in pq'[g] \/ (d = e /\ g = h)
      BY <1>2
  <2> QED BY <2>1, <2>2, InPending
<1>5. \A g \in Hosts : Pending[g] = Pending'[g]
    BY <1>4
<1>6. Pending = [g \in Hosts |-> Pending[g]]
    BY DEF Pending
<1> QED BY <1>5, <1>6, SamePending

\* A pushed event was pending before.
LEMMA PendingPushEvent ==
    ASSUME IInv, NEW t \in Threads, PushEvent(t)
    PROVE  Pending' = Pending
<1> USE DEF IInv
<1> DEFINE f == Head(outbox[t])
           e == Adjusted(f, barrier)
<1>0. /\ outbox[t] # <<>> /\ Kept(f) /\ UNCHANGED <<cur, barrier>>
      /\ outbox' = [outbox EXCEPT ![t] = Tail(@)] /\ pq' = [pq EXCEPT ![e.dst] = @ \cup {e}]
    BY DEF PushEvent, PushNext
<1>1. /\ f \in NewEvent /\ f = outbox[t][1] /\ outbox[t] \in Seq(NewEvent)
      /\ \A k \in 1 .. Len(Tail(outbox[t])) :
            k + 1 \in 1 .. Len(outbox[t]) /\ Tail(outbox[t])[k] = outbox[t][k + 1]
      /\ Len(Tail(outbox[t])) = Len(outbox[t]) - 1 /\ 1 \in 1 .. Len(outbox[t])
    BY <1>0, Pushed
<1>2. e.dst = f.dst /\ f.dst \in Hosts
    BY <1>1, AdjustedEvent DEF TypeInv, RoundTypeOK, NewEvent
<1>3. /\ outbox'[t] = Tail(outbox[t]) /\ \A u \in Threads : u # t => outbox'[u] = outbox[u]
      /\ pq'[f.dst] = pq[f.dst] \cup {e} /\ \A g \in Hosts : g # f.dst => pq'[g] = pq[g]
    BY <1>0, <1>2 DEF TypeInv, RoundTypeOK
<1> HIDE DEF e
<1>4. ASSUME NEW g \in Hosts, NEW d
      PROVE  OnTheWay(t, g, d) <=> OnTheWay(t, g, d)' \/ (d = e /\ g = f.dst)
  <2>1. ASSUME OnTheWay(t, g, d)'
        PROVE  OnTheWay(t, g, d)
      BY <1>0, <1>1, <1>3, <2>1 DEF OnTheWay
  <2>2. ASSUME d = e, g = f.dst
        PROVE  OnTheWay(t, g, d)
      BY <1>0, <1>1, <2>2 DEF OnTheWay, e
  <2>3. ASSUME OnTheWay(t, g, d), ~(d = e /\ g = f.dst)
        PROVE  OnTheWay(t, g, d)'
    <3>1. CASE d \in cur[t] /\ d.dst = g
        BY <1>0, <3>1 DEF OnTheWay
    <3>2. CASE \E k \in 1 .. Len(outbox[t]) :
                  outbox[t][k].dst = g /\ Kept(outbox[t][k]) /\ d = Adjusted(outbox[t][k], barrier)
      <4>1. PICK k \in 1 .. Len(outbox[t]) :
               outbox[t][k].dst = g /\ Kept(outbox[t][k]) /\ d = Adjusted(outbox[t][k], barrier)
          BY <3>2
      <4>2. k # 1
          BY <1>1, <2>3, <4>1 DEF e
      <4>3. k - 1 \in 1 .. Len(Tail(outbox[t])) /\ Tail(outbox[t])[k - 1] = outbox[t][k]
          BY <1>1, <4>2
      <4> QED BY <1>0, <1>3, <4>1, <4>3 DEF OnTheWay
    <3> QED BY <2>3, <3>1, <3>2 DEF OnTheWay
  <2> QED BY <2>1, <2>2, <2>3
<1>5. \A u \in Threads : u # t => \A g \in Hosts : \A d : OnTheWay(u, g, d)' <=> OnTheWay(u, g, d)
    BY <1>0, <1>3 DEF OnTheWay
<1>6. ASSUME NEW g \in Hosts, NEW d
      PROVE  d \in Pending'[g] <=> d \in Pending[g]
  <2>1. (\E u \in Threads : OnTheWay(u, g, d)) <=> (\E u \in Threads : OnTheWay(u, g, d)') \/ (d = e /\ g = f.dst)
      BY <1>4, <1>5
  <2>2. d \in pq'[g] <=> d \in pq[g] \/ (d = e /\ g = f.dst)
      BY <1>3
  <2> QED BY <2>1, <2>2, InPending
<1>7. \A g \in Hosts : Pending[g] = Pending'[g]
    BY <1>6
<1>8. Pending = [g \in Hosts |-> Pending[g]]
    BY DEF Pending
<1> QED BY <1>7, <1>8, SamePending

\* An event that is dropped never was pending.
LEMMA PendingPushDropped ==
    ASSUME IInv, NEW t \in Threads, PushDropped(t), UNCHANGED policyVars
    PROVE  Pending' = Pending
<1> USE DEF IInv
<1>0. /\ outbox[t] # <<>> /\ ~Kept(Head(outbox[t])) /\ UNCHANGED <<cur, barrier, pq>>
      /\ outbox' = [outbox EXCEPT ![t] = Tail(@)]
    BY DEF PushDropped, policyVars
<1>1. /\ Head(outbox[t]) = outbox[t][1] /\ outbox[t] \in Seq(NewEvent)
      /\ \A k \in 1 .. Len(Tail(outbox[t])) :
            k + 1 \in 1 .. Len(outbox[t]) /\ Tail(outbox[t])[k] = outbox[t][k + 1]
      /\ Len(Tail(outbox[t])) = Len(outbox[t]) - 1 /\ 1 \in 1 .. Len(outbox[t])
    BY <1>0, Pushed
<1>2. /\ outbox'[t] = Tail(outbox[t]) /\ \A u \in Threads : u # t => outbox'[u] = outbox[u]
    BY <1>0 DEF TypeInv, RoundTypeOK
<1>3. ASSUME NEW g \in Hosts, NEW d
      PROVE  OnTheWay(t, g, d) <=> OnTheWay(t, g, d)'
  <2>1. ASSUME OnTheWay(t, g, d)'
        PROVE  OnTheWay(t, g, d)
      BY <1>0, <1>1, <1>2, <2>1 DEF OnTheWay
  <2>2. ASSUME OnTheWay(t, g, d)
        PROVE  OnTheWay(t, g, d)'
    <3>1. CASE d \in cur[t] /\ d.dst = g
        BY <1>0, <3>1 DEF OnTheWay
    <3>2. CASE \E k \in 1 .. Len(outbox[t]) :
                  outbox[t][k].dst = g /\ Kept(outbox[t][k]) /\ d = Adjusted(outbox[t][k], barrier)
      <4>1. PICK k \in 1 .. Len(outbox[t]) :
               outbox[t][k].dst = g /\ Kept(outbox[t][k]) /\ d = Adjusted(outbox[t][k], barrier)
          BY <3>2
      <4>2. k # 1
          BY <1>0, <1>1, <4>1
      <4>3. k - 1 \in 1 .. Len(Tail(outbox[t])) /\ Tail(outbox[t])[k - 1] = outbox[t][k]
          BY <1>1, <4>2
      <4> QED BY <1>0, <1>2, <4>1, <4>3 DEF OnTheWay
    <3> QED BY <2>2, <3>1, <3>2 DEF OnTheWay
  <2> QED BY <2>1, <2>2
<1>4. \A u \in Threads : u # t => \A g \in Hosts : \A d : OnTheWay(u, g, d)' <=> OnTheWay(u, g, d)
    BY <1>0, <1>2 DEF OnTheWay
<1>5. ASSUME NEW g \in Hosts, NEW d
      PROVE  d \in Pending'[g] <=> d \in Pending[g]
  <2>1. (\E u \in Threads : OnTheWay(u, g, d)) <=> (\E u \in Threads : OnTheWay(u, g, d)')
      BY <1>3, <1>4
  <2> QED BY <1>0, <2>1, InPending
<1>6. \A g \in Hosts : Pending[g] = Pending'[g]
    BY <1>5
<1>7. Pending = [g \in Hosts |-> Pending[g]]
    BY DEF Pending
<1> QED BY <1>6, <1>7, SamePending

\* The operators of EventSim are those of the policy.
LEMMA SimOperators ==
    /\ \A e, S : Sim!IsFirst(e, S) <=> IsFirst(e, S)
    /\ \A S : Sim!LeastTime(S) = LeastTime(S)
    /\ \A m, jump : Sim!WindowEnd(m, jump) = WindowEnd(m, jump)
    /\ \A s, h, now, n : Sim!NewEvents(s, h, now, n) = NewEvents(s, h, now, n)
    /\ \A e, b : Sim!Adjusted(e, b) = Adjusted(e, b)
    /\ \A e : Sim!Kept(e) <=> Kept(e)
    /\ \A h : Sim!BootEvents(h) = BootEvents(h)
    BY DEF Sim!IsFirst, IsFirst, Sim!EventBefore, EventBefore, Sim!LeastTime, LeastTime,
           Sim!WindowEnd, WindowEnd, Sim!NewEvents, NewEvents, Sim!Adjusted, Adjusted,
           Sim!Kept, Kept, Sim!BootEvents, BootEvents

\* The event that a thread has popped is the first that is pending for its
\* host: what other threads have on the way to the host belongs to a later
\* round.
LEMMA PoppedIsFirst ==
    ASSUME IInv, NEW t \in Threads, NEW e \in cur[t]
    PROVE  /\ e \in Event /\ e.dst \in Hosts /\ e \in Pending[e.dst]
           /\ IsFirst(e, Pending[e.dst]) /\ clock[e.dst] <= e.time /\ e.time < barrier
           /\ \A h \in Hosts : e \notin pq[h]
           /\ \A u \in Threads : u # t => \A h \in Hosts : ~OnTheWay(u, h, e)
<1> USE DEF IInv
<1>1. /\ e \in Event /\ barrier \in 1 .. EndTime /\ barrier \in Nat
    BY EventsAssumption DEF TypeInv, RoundTypeOK
<1>2. e.dst \in Hosts /\ e.time \in Nat /\ e.id \in Int /\ e.src \in Nat /\ e.dst \in Nat
  <2>1. e.dst \in Hosts /\ e.src \in Hosts /\ e.time \in 0 .. EndTime /\ e.id \in 0 .. MaxEvents
      BY <1>1 DEF Event
  <2>2. e.dst \in Nat /\ e.src \in Nat
      BY <2>1, EventsAssumption
  <2>3. e.time \in Nat /\ e.id \in Int
      BY <2>1
  <2> QED BY <2>1, <2>2, <2>3
<1>3. e.dst = Head(unproc[t]) /\ e.time = lastTime[e.dst] /\ \A f \in pq[e.dst] : EventBefore(e, f)
    BY DEF EventsInv
<1>4. clock[e.dst] <= e.time /\ e.time < barrier
    BY <1>2, <1>3 DEF EventsInv
<1>5. outbox[t] = <<>> /\ \A d \in cur[t] : d = e
    BY DEF WorkInv
<1>6. ASSUME NEW u \in Threads, u # t, NEW d, OnTheWay(u, e.dst, d)
      PROVE  e.time < d.time
  <2>1. cur[u] # {} \/ outbox[u] # <<>> => Head(unproc[u]) # e.dst
    <3>1. unproc[t] # <<>>
        BY DEF WorkInv
    <3>2. cur[u] # {} \/ outbox[u] # <<>> => unproc[u] # <<>>
        BY DEF WorkInv
    <3>3. ASSUME unproc[u] # <<>>
          PROVE  Head(unproc[u]) # Head(unproc[t])
        BY <1>6, <3>1, <3>3, RunningHost
    <3> QED BY <1>3, <3>2, <3>3
  <2>2. ~(d \in cur[u] /\ d.dst = e.dst)
      BY <2>1 DEF EventsInv
  <2>3. PICK k \in 1 .. Len(outbox[u]) :
           outbox[u][k].dst = e.dst /\ d = Adjusted(outbox[u][k], barrier)
      BY <1>6, <2>2 DEF OnTheWay
  <2>4. outbox[u] \in Seq(NewEvent)
      BY DEF TypeInv, RoundTypeOK, NewEvent
  <2>5. outbox[u][k] \in NewEvent /\ outbox[u][k].src # outbox[u][k].dst
    <3>1. outbox[u] # <<>> /\ outbox[u][k] \in NewEvent
        BY <2>4
    <3> QED BY <2>1, <2>3, <3>1 DEF EventsInv
  <2>6. barrier <= d.time /\ d.time \in Nat
      BY <1>1, <2>3, <2>5, AdjustedEvent
  <2> QED BY <1>1, <1>2, <1>4, <2>6
<1>7. e \in Pending[e.dst]
    BY <1>2, InPending DEF OnTheWay
<1>8. IsFirst(e, Pending[e.dst])
  <2> SUFFICES ASSUME NEW f \in Pending[e.dst], f # e
               PROVE  EventBefore(e, f)
      BY <1>7 DEF IsFirst
  <2>1. CASE f \in pq[e.dst]
      BY <1>3, <2>1
  <2>2. CASE \E u \in Threads : OnTheWay(u, e.dst, f)
    <3>1. PICK u \in Threads : OnTheWay(u, e.dst, f)
        BY <2>2
    <3>2. u # t
        BY <1>5, <3>1 DEF OnTheWay
    <3> QED BY <1>6, <3>1, <3>2 DEF EventBefore
  <2> QED BY <1>2, <2>1, <2>2, InPending
<1>9. \A h \in Hosts : e \notin pq[h]
  <2>1. ~EventBefore(e, e)
      BY <1>2 DEF EventBefore
  <2> QED BY <1>3, <2>1 DEF EventsInv
<1>10. ASSUME NEW u \in Threads, u # t, NEW h \in Hosts, OnTheWay(u, h, e)
       PROVE  FALSE
  <2>1. h = e.dst
    <3>1. CASE e \in cur[u] /\ e.dst = h
        BY <3>1
    <3>2. CASE \E k \in 1 .. Len(outbox[u]) :
                  outbox[u][k].dst = h /\ e = Adjusted(outbox[u][k], barrier)
      <4>1. PICK k \in 1 .. Len(outbox[u]) : outbox[u][k].dst = h /\ e = Adjusted(outbox[u][k], barrier)
          BY <3>2
      <4>2. outbox[u] \in Seq(NewEvent)
          BY DEF TypeInv, RoundTypeOK, NewEvent
      <4> QED BY <1>1, <4>1, <4>2, AdjustedEvent
    <3> QED BY <1>10, <3>1, <3>2 DEF OnTheWay
  <2>2. e.time < e.time
      BY <1>6, <1>10, <2>1
  <2> QED BY <1>2, <2>2
<1> QED BY <1>1, <1>2, <1>4, <1>7, <1>8, <1>9, <1>10

\* worker_runEvent is the step of the host.
LEMMA SimExecute ==
    ASSUME IInv, NEW t \in Threads, ExecuteEvent(t), UNCHANGED policyVars
    PROVE  Sim!Next
<1> USE DEF IInv
<1>0. PICK e \in cur[t] : \E s \in Emits(e.dst, e) :
         /\ nextId[e.dst] + Len(s) <= MaxEvents
         /\ outbox' = [outbox EXCEPT ![t] = NewEvents(s, e.dst, e.time, nextId[e.dst])]
         /\ clock' = [clock EXCEPT ![e.dst] = e.time]
         /\ nextId' = [nextId EXCEPT ![e.dst] = @ + Len(s)]
    BY DEF ExecuteEvent
<1>1. PICK s \in Emits(e.dst, e) :
         /\ nextId[e.dst] + Len(s) <= MaxEvents
         /\ outbox' = [outbox EXCEPT ![t] = NewEvents(s, e.dst, e.time, nextId[e.dst])]
         /\ clock' = [clock EXCEPT ![e.dst] = e.time]
         /\ nextId' = [nextId EXCEPT ![e.dst] = @ + Len(s)]
    BY <1>0
<1>2. /\ pc[t] = "execute" /\ cur' = [cur EXCEPT ![t] = {}] /\ UNCHANGED <<barrier, over, pq>>
      /\ ~over /\ outbox[t] = <<>> /\ \A d \in cur[t] : d = e
    BY DEF ExecuteEvent, policyVars, WorkInv
<1>3. /\ e \in Event /\ e.dst \in Hosts /\ e \in Pending[e.dst]
      /\ IsFirst(e, Pending[e.dst]) /\ clock[e.dst] <= e.time /\ e.time < barrier
      /\ \A h \in Hosts : e \notin pq[h]
      /\ \A u \in Threads : u # t => \A h \in Hosts : ~OnTheWay(u, h, e)
    BY PoppedIsFirst
<1> DEFINE new == NewEvents(s, e.dst, e.time, nextId[e.dst])
<1>4. Len(new) = Len(s) /\ Len(s) \in Nat
  <2>1. s \in Seq(Hosts \X Nat)
      BY <1>3, EventsAssumption
  <2> QED BY <2>1 DEF NewEvents
<1> HIDE DEF new
<1>5. /\ cur'[t] = {} /\ outbox'[t] = new
      /\ \A u \in Threads : u # t => cur'[u] = cur[u] /\ outbox'[u] = outbox[u]
    BY <1>1, <1>2 DEF TypeInv, RoundTypeOK, new
<1>6. ASSUME NEW g \in Hosts, NEW d
      PROVE  d \in Sim!Arrivals(s, e.dst, e.time, g) <=>
                \E k \in 1 .. Len(new) : /\ new[k].dst = g /\ Kept(new[k])
                                         /\ d = Adjusted(new[k], barrier)
    BY <1>4, SimOperators DEF Sim!Arrivals, new
<1>7. ASSUME NEW g \in Hosts, NEW d
      PROVE  d \in Pending'[g] <=> d \in (Pending[g] \ {e}) \cup Sim!Arrivals(s, e.dst, e.time, g)
  <2>1. OnTheWay(t, g, d)' <=> d \in Sim!Arrivals(s, e.dst, e.time, g)
      BY <1>2, <1>5, <1>6 DEF OnTheWay
  <2>2. OnTheWay(t, g, d) => d = e
      BY <1>2 DEF OnTheWay
  <2>3. \A u \in Threads : u # t => (OnTheWay(u, g, d)' <=> OnTheWay(u, g, d))
      BY <1>2, <1>5 DEF OnTheWay
  <2>4. d = e => d \notin pq[g] /\ \A u \in Threads : u # t => ~OnTheWay(u, g, d)
      BY <1>3
  <2>5. (\E u \in Threads : OnTheWay(u, g, d)')
           <=> d \in Sim!Arrivals(s, e.dst, e.time, g) \/ \E u \in Threads : u # t /\ OnTheWay(u, g, d)
      BY <2>1, <2>3
  <2>6. d \in Pending[g] \ {e} <=> d \in pq[g] \/ \E u \in Threads : u # t /\ OnTheWay(u, g, d)
      BY <2>2, <2>4, InPending
  <2> QED BY <1>2, <2>5, <2>6, InPending
<1> DEFINE P == [g \in Hosts |-> (Pending[g] \ {e}) \cup Sim!Arrivals(s, e.dst, e.time, g)]
<1>8. P = Pending'
  <2>1. \A g \in Hosts : P[g] = Pending'[g]
      BY <1>7
  <2> HIDE DEF P
  <2>2. P = [g \in Hosts |-> P[g]]
      BY DEF P
  <2> QED BY <2>1, <2>2, SamePending
<1>9. Sim!Execute(e.dst)
    BY <1>1, <1>2, <1>3, <1>8, SimOperators DEF Sim!Execute
<1> QED BY <1>3, <1>9 DEF Sim!Next

\* Between two rounds what is pending is in the queues, and the time that the
\* main thread reads is the earliest.
LEMMA EarliestTime ==
    ASSUME IInv, ~over, \A t \in Threads : pc[t] = "done"
    PROVE  /\ \A h \in Hosts : Pending[h] = pq[h]
           /\ GlobalNextEventTime = LeastTime(UNION {Pending[h] : h \in Hosts})
<1> USE DEF IInv
<1>1. \A t \in Threads : cur[t] = {} /\ outbox[t] = <<>> /\ unproc[t] = <<>> /\ scan[t] = <<>>
    BY DEF WorkInv
<1>2. \A h \in Hosts : Pending[h] = pq[h]
  <2>1. \A t \in Threads : \A h \in Hosts : \A e : ~OnTheWay(t, h, e)
      BY <1>1 DEF OnTheWay
  <2>2. \A h \in Hosts : \A e : e \in Pending[h] <=> e \in pq[h]
      BY <2>1, InPending
  <2> QED BY <2>2
<1>3. \A t \in Threads : Elems(unproc[t]) = {} /\ Elems(scan[t]) = {}
    BY <1>1 DEF Elems
<1>4. \A h \in Hosts : ~ToBeScanned(h)
    BY <1>3 DEF ToBeScanned
<1> DEFINE m == GlobalNextEventTime
           S == UNION {Pending[h] : h \in Hosts}
<1>5. \A e : e \in S <=> \E h \in Hosts : e \in pq[h]
    BY <1>2
<1>6. /\ m \in Nat /\ \A t \in Threads : m <= minTime[t] /\ minTime[t] \in Nat
      /\ \E t \in Threads : m = minTime[t]
  <2>1. \A t \in Threads : minTime[t] \in 0 .. EndTime \cup {SIMTIME_MAX}
      BY DEF TypeInv, RoundTypeOK
  <2> QED BY <2>1, GlobalTime, EventsAssumption
<1> HIDE DEF m, S
<1>7. \A e \in S : e.time \in Nat /\ e.time <= EndTime
  <2>1. \A e \in S : e \in Event
      BY <1>5 DEF TypeInv
  <2> QED BY <2>1, EventsAssumption DEF Event
<1>8. ASSUME NEW e \in S
      PROVE  m <= e.time
  <2>1. PICK h \in Hosts : e \in pq[h]
      BY <1>5
  <2>2. barrier <= e.time
      BY <2>1, RoundDone
  <2>3. Covered(e.time)
      BY <1>4, <2>1, <2>2 DEF TimesInv
  <2>4. PICK t \in Threads : minTime[t] <= e.time
      BY <2>3 DEF Covered
  <2> QED BY <1>6, <1>7, <2>4
<1>9. m = LeastTime(S)
  <2>1. CASE m = SIMTIME_MAX
    <3>1. S = {}
        BY <1>7, <1>8, <2>1, EventsAssumption
    <3> QED BY <2>1, <3>1 DEF LeastTime
  <2>2. CASE m # SIMTIME_MAX
    <3>1. Reported(m)
        BY <1>6 DEF TimesInv
    <3>2. PICK d \in S : d.time = m
        BY <1>5, <2>2, <3>1 DEF Reported
    <3> QED BY <1>7, <1>8, <3>2, LeastTimeUnique
  <2> QED BY <2>1, <2>2
<1> QED BY <1>2, <1>9 DEF m, S

\* manager_run's step is the next window.
LEMMA SimNextWindow ==
    ASSUME IInv, NEW jump \in Jumps, NextRound(jump), UNCHANGED policyVars
    PROVE  Sim!Next
<1> USE DEF IInv
<1> DEFINE m == GlobalNextEventTime
<1>1. /\ ~over /\ \A t \in Threads : pc[t] = "done"
      /\ UNCHANGED <<cur, outbox, clock, nextId, pq>>
      /\ IF m < WindowEnd(m, jump)
         THEN barrier' = WindowEnd(m, jump) /\ over' = over
         ELSE over' = TRUE /\ barrier' = barrier
    BY DEF NextRound, policyVars
<1>2. m = LeastTime(UNION {Pending[h] : h \in Hosts}) /\ \A h \in Hosts : Pending[h] = pq[h]
    BY <1>1, EarliestTime
<1>3. m \in Nat /\ barrier <= m /\ barrier \in Nat
  <2>1. barrier \in 1 .. EndTime
      BY DEF TypeInv, RoundTypeOK
  <2> QED BY <2>1, GlobalTime
<1>4. Pending' = Pending
  <2>1. \A t \in Threads : cur[t] = {} /\ outbox[t] = <<>>
      BY <1>1 DEF WorkInv
  <2>2. \A t \in Threads : \A h \in Hosts : \A e : ~OnTheWay(t, h, e)'
      BY <1>1, <2>1 DEF OnTheWay
  <2>3. \A h \in Hosts : \A e : e \in Pending'[h] <=> e \in Pending[h]
      BY <1>1, <1>2, <2>2, InPending
  <2>4. \A h \in Hosts : Pending[h] = Pending'[h]
      BY <2>3
  <2>5. Pending = [g \in Hosts |-> Pending[g]]
      BY DEF Pending
  <2> QED BY <2>4, <2>5, SamePending
<1> HIDE DEF m
<1>5. over' = FALSE \/ over' = TRUE
    BY <1>1 DEF TypeInv, RoundTypeOK
<1>6. IF m < WindowEnd(m, jump)
      THEN barrier' = WindowEnd(m, jump) /\ over' = FALSE
      ELSE over' = TRUE /\ barrier' = barrier
    BY <1>1 DEF TypeInv, RoundTypeOK
<1>7. Sim!NextWindow
    BY <1>1, <1>2, <1>3, <1>4, <1>6, SimOperators DEF Sim!NextWindow
<1> QED BY <1>7 DEF Sim!Next

LEMMA SimInit == Init => Sim!Init
<1> SUFFICES ASSUME Init
             PROVE  Sim!Init
    OBVIOUS
<1>1. \A t \in Threads : cur[t] = {} /\ outbox[t] = <<>>
    BY DEF Init, RoundInit
<1>2. \A h \in Hosts : pq[h] = BootEvents(h)
    BY DEF Init
<1>3. \A t \in Threads : \A h \in Hosts : InFlight(t, h) = {}
    BY <1>1 DEF InFlight
<1>4. \A h \in Hosts : pq[h] \cup UNION {InFlight(t, h) : t \in Threads} = BootEvents(h)
    BY <1>2, <1>3
<1>5. Pending = [h \in Hosts |-> Sim!BootEvents(h)]
    BY <1>4, SimOperators DEF Pending
<1> QED BY <1>5 DEF Sim!Init, Init, RoundInit

\* Every step of the policy is a step of the simulation or none.
LEMMA SimStep == IInv /\ [Next]_vars => [Sim!Next]_(Sim!vars)
<1> SUFFICES ASSUME IInv, [Next]_vars
             PROVE  Sim!Next \/ UNCHANGED Sim!vars
    OBVIOUS
<1>0. UNCHANGED <<barrier, over, clock, nextId>> /\ Pending' = Pending => UNCHANGED Sim!vars
    BY DEF Sim!vars
<1>1. ASSUME NEW t \in Threads, ThreadStep(t)
      PROVE  Sim!Next \/ UNCHANGED Sim!vars
  <2>1. CASE PopEvent(t)
      BY <2>1, <1>0, PendingPopEvent DEF PopEvent
  <2>2. CASE ExecuteEvent(t) /\ UNCHANGED policyVars
      BY <2>2, SimExecute
  <2>3. CASE PushEvent(t)
      BY <2>3, <1>0, PendingPushEvent DEF PushEvent, PushNext
  <2>4. CASE PushDropped(t) /\ UNCHANGED policyVars
      BY <2>4, <1>0, PendingPushDropped DEF PushDropped
  <2>5. CASE UNCHANGED <<pq, cur, outbox, barrier, over, clock, nextId>>
      BY <2>5, <1>0, PendingFrame
  <2>6. \/ PopEvent(t)
        \/ ExecuteEvent(t) /\ UNCHANGED policyVars
        \/ PushEvent(t)
        \/ PushDropped(t) /\ UNCHANGED policyVars
        \/ UNCHANGED <<pq, cur, outbox, barrier, over, clock, nextId>>
      BY <1>1 DEF ThreadStep, RefillHosts, HostProcessed, FindMinTime, EventDone, PopReturnsNull,
             NextTimeFound, FinishRound, policyVars, roundVars, roundVarsButPc
  <2> QED BY <2>1, <2>2, <2>3, <2>4, <2>5, <2>6
<1>2. CASE MainStep
    BY <1>2, SimNextWindow DEF MainStep
<1>3. CASE Stopped \/ UNCHANGED vars
    BY <1>3, <1>0, PendingFrame DEF Stopped, vars
<1> QED BY <1>1, <1>2, <1>3 DEF Next

\* The policy implements a conservative parallel simulation: every host
\* executes its events in order, and the windows are those of the earliest
\* event anywhere, whatever the threads do at the same time.
THEOREM SingleImplementsEventSim == Spec => ImplementsEventSim
    BY Invariance, SimInit, SimStep, PTL DEF Spec, ImplementsEventSim, Sim!Spec
=============================================================================
