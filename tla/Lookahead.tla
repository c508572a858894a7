----------------------------- MODULE Lookahead ------------------------------
(***************************************************************************)
(* How long a round may be: the workers find the latency of a path when a  *)
(* packet first takes it and keep it in the path cache of                  *)
(* src/phantom/src/main/routing/topology.c, the topology tracks the least  *)
(* latency it has cached and reports it to the controller                  *)
(* (core/controller.c), and the controller makes the next round that long. *)
(* Paths are direct ones here (use_shortest_path is false).                *)
(*                                                                         *)
(* The topology has latencies in milliseconds as a double, the controller  *)
(* in nanoseconds as an integer.  Latencies are in nanoseconds throughout, *)
(* MS of which are a millisecond.                                          *)
(***************************************************************************)
EXTENDS Integers

CONSTANTS
    Senders,      \* worker threads, which send packets for their hosts
    Vertices,     \* vertices of the graph that hosts are attached to
    Latency,      \* Latency[<<s, d>>]: the latency of the edge
    Directed,     \* is the graph directed?
    MS,           \* nanoseconds in a millisecond
    Runahead,     \* minJumpTimeConfig; 0 if not set
    EndTime,      \* simulation stop time
    EventTimes,   \* times the workers may report as the next event's
    TIME_MOD      \* number of values of a SimulationTime: 2^64

Pairs == Vertices \X Vertices

NoEventTime == TIME_MOD - 2   \* SIMTIME_MAX

ASSUME LookaheadAssumption ==
    /\ MS \in Nat \ {0}
    /\ Latency \in [Pairs -> Nat \ {0}]
    /\ Directed \in BOOLEAN
    /\ ~Directed => \A s, d \in Vertices : Latency[<<s, d>>] = Latency[<<d, s>>]
    /\ Runahead \in Nat
    /\ TIME_MOD \in Nat \ {0, 1}
    /\ EndTime \in 1 .. NoEventTime
    /\ EventTimes \subseteq 0 .. NoEventTime

NoPath == <<>>

VARIABLES
    cache,          \* pathCache: how often the path of a pair was stored
    topMin,         \* top->minimumPathLatency; 0 if no path was stored
    pc,             \* where each worker is in _topology_getPathEntry
    want,           \* the pair it wants the path of
    path,           \* the path it has got: a pair, and which one of its paths
    newMin,         \* argument of worker_updateMinTimeJump
    nextJump,       \* controller->nextMinJumpTime
    minJump,        \* controller->minJumpTime
    windowStart, windowEnd, over,
    known           \* history: the pairs cached when the round started

senderVars == <<pc, want, path, newMin>>
controllerVars == <<minJump, windowStart, windowEnd, over, known>>
lookaheadVars == <<cache, topMin, pc, want, path, newMin, nextJump, minJump,
                   windowStart, windowEnd, over, known>>

Sooner(a, b) == IF a < b THEN a ELSE b

\* _controller_getMinTimeJump
GetMinTimeJump(jump) ==
    LET computed == IF jump > 0 THEN jump ELSE 10 * MS
    IN  IF computed < Runahead THEN Runahead ELSE computed

\* The first round is [0, 1).
LookaheadInit ==
    /\ cache = [p \in Pairs |-> 0]
    /\ topMin = 0
    /\ pc = [w \in Senders |-> "idle"]
    /\ want = [w \in Senders |-> NoPath]
    /\ path = [w \in Senders |-> NoPath]
    /\ newMin = [w \in Senders |-> 0]
    /\ nextJump = GetMinTimeJump(0)
    /\ minJump = 0
    /\ windowStart = 0 /\ windowEnd = 1 /\ over = FALSE
    /\ known = {}

Goto(w, label) == pc' = [pc EXCEPT ![w] = label]

Reverse(p) == <<p[2], p[1]>>

(***************************************************************************)
(* A worker that sends a packet: _topology_getPathEntry                    *)
(***************************************************************************)

\* The look into the cache that getPathEntry starts with.
Hit(p) ==
    IF cache[p] > 0 THEN {p}
    ELSE IF ~Directed /\ cache[Reverse(p)] > 0 THEN {Reverse(p)}
    ELSE {}

\* The look into the cache when the path has been computed.
Found(p) == IF cache[p] > 0 THEN p ELSE Reverse(p)

Take(w, p) == path' = [path EXCEPT ![w] = <<p, cache[p]>>] /\ Goto(w, "use")

GetPathEntry(w, p) ==
    /\ ~over
    /\ pc[w] = "idle"
    /\ want' = [want EXCEPT ![w] = p]
    /\ \/ \E q \in Hit(p) : Take(w, q)
       \/ Hit(p) = {} /\ Goto(w, "lookup") /\ UNCHANGED path
    /\ UNCHANGED <<cache, topMin, newMin, nextJump, controllerVars>>

\* _topology_shouldStorePath, under the cache's reader lock.
ShouldStorePath(p) == cache[p] = 0 /\ cache[Reverse(p)] = 0

LookupDirectPath(w) ==
    /\ pc[w] = "lookup"
    /\ Goto(w, IF ShouldStorePath(want[w]) THEN "store" ELSE "found")
    /\ UNCHANGED <<cache, topMin, want, path, newMin, nextJump, controllerVars>>

\* Faulty variant: only the first latency counts.
FirstLatency(lat) == topMin = 0

LowersMinimum(lat) == topMin = 0 \/ lat < topMin

\* The rest of _topology_storePathInCache, under the writer lock.
StorePathInCache(w) ==
    LET lat == Latency[want[w]]
    IN  /\ pc[w] = "store"
        /\ cache' = [cache EXCEPT ![want[w]] = @ + 1]
        /\ IF LowersMinimum(lat)
           THEN topMin' = lat /\ Goto(w, "report")
           ELSE UNCHANGED topMin /\ Goto(w, "found")
        /\ UNCHANGED <<want, path, newMin, nextJump, controllerVars>>

\* After the unlock, the minimum is read again to be reported.
ReadMinimum(w) ==
    /\ pc[w] = "report"
    /\ newMin' = [newMin EXCEPT ![w] = topMin]
    /\ Goto(w, "update")
    /\ UNCHANGED <<cache, topMin, want, path, nextJump, controllerVars>>

\* The comparison is of milliseconds with nanoseconds.
ReplacesJump(lat) == nextJump = 0 \/ lat < nextJump * MS

\* controller_updateMinTimeJump, under the manager's lock.  The conversion
\* drops a fraction of a millisecond.
UpdateMinTimeJump(w) ==
    /\ pc[w] = "update"
    /\ nextJump' = IF ReplacesJump(newMin[w])
                   THEN (newMin[w] \div MS) * MS
                   ELSE nextJump
    /\ Goto(w, "found")
    /\ UNCHANGED <<cache, topMin, want, path, newMin, controllerVars>>

PathFound(w) ==
    /\ pc[w] = "found"
    /\ Take(w, Found(want[w]))
    /\ UNCHANGED <<cache, topMin, want, newMin, nextJump, controllerVars>>

\* The caller reads the latency, reliability or counter of the path.
UsePath(w) ==
    /\ pc[w] = "use"
    /\ Goto(w, "idle")
    /\ want' = [want EXCEPT ![w] = NoPath]
    /\ path' = [path EXCEPT ![w] = NoPath]
    /\ newMin' = [newMin EXCEPT ![w] = 0]
    /\ UNCHANGED <<cache, topMin, nextJump, controllerVars>>

(***************************************************************************)
(* Between rounds: controller_managerFinishedCurrentRound, with the time   *)
(* of the next event.                                                      *)
(***************************************************************************)
\* Faulty variant: a window that is cut off at the stop time but never empty.
NewEndExtended(m, jump) == Sooner(m, EndTime) + GetMinTimeJump(jump)

NewEnd(m, jump) == Sooner((m + GetMinTimeJump(jump)) % TIME_MOD, EndTime)

FinishedCurrentRound(m) ==
    /\ ~over
    /\ \A w \in Senders : pc[w] = "idle"
    /\ m >= windowEnd
    /\ minJump' = nextJump
    /\ windowStart' = m
    /\ windowEnd' = NewEnd(m, nextJump)
    /\ over' = (windowStart' >= windowEnd')
    /\ known' = {p \in Pairs : cache[p] > 0}
    /\ UNCHANGED <<cache, topMin, senderVars, nextJump>>

SenderStep(w) ==
    \/ \E p \in Pairs : GetPathEntry(w, p)
    \/ LookupDirectPath(w)
    \/ StorePathInCache(w)
    \/ ReadMinimum(w)
    \/ UpdateMinTimeJump(w)
    \/ PathFound(w)
    \/ UsePath(w)

SimulationStopped == over /\ UNCHANGED lookaheadVars

LookaheadNext ==
    \/ \E w \in Senders : SenderStep(w)
    \/ \E m \in EventTimes \cup {NoEventTime} : FinishedCurrentRound(m)
    \/ SimulationStopped

LookaheadSpec == LookaheadInit /\ [][LookaheadNext]_lookaheadVars

-----------------------------------------------------------------------------
(***************************************************************************)
(* Properties                                                              *)
(***************************************************************************)
LookaheadTypeOK ==
    /\ cache \in [Pairs -> Nat]
    /\ topMin \in Nat
    /\ pc \in [Senders -> {"idle", "lookup", "store", "report", "update", "found", "use"}]
    /\ want \in [Senders -> Pairs \cup {NoPath}]
    /\ path \in [Senders -> (Pairs \X Nat) \cup {NoPath}]
    /\ newMin \in [Senders -> Nat]
    /\ nextJump \in Nat /\ minJump \in Nat
    /\ windowStart \in 0 .. NoEventTime
    /\ windowEnd \in 0 .. EndTime
    /\ over \in BOOLEAN
    /\ known \subseteq Pairs

\* The path a worker has found is there (getPathEntry panics otherwise) and, in
\* an undirected graph, has the latency of the pair that was asked for, also
\* when another worker stored the opposite one meanwhile.  In a directed graph
\* the second look may find a path in the wrong direction.
PathServes ==
    \A w \in Senders : path[w] # NoPath =>
        /\ cache[path[w][1]] > 0
        /\ ~Directed => Latency[path[w][1]] = Latency[want[w]]

\* "Track the minimum network latency in the entire graph" (topology.c).
MinimumTracked ==
    /\ \A p \in Pairs : cache[p] > 0 => topMin > 0 /\ topMin <= Latency[p]
    /\ topMin > 0 => \E p \in Pairs : cache[p] > 0 /\ topMin = Latency[p]

\* The path cache while several workers fill it: in an undirected graph each
\* finds the latency it asked for, and the tracked minimum is the least latency
\* in the cache.  That a path is stored once is not part of it: see PathsKept.
PathCacheExact == LookaheadTypeOK /\ PathServes /\ MinimumTracked

\* "double check that we don't overwrite existing path entries" (topology.c,
\* _topology_shouldStorePath): the path a worker has got from the cache is still
\* the one in the cache while the worker uses it.  The store that replaces a
\* path frees it.
PathsKept == \A w \in Senders : path[w] # NoPath => path[w][2] = cache[path[w][1]]

\* "Use minimum network latency of our topology" (controller.c): a packet sent
\* in this round on a path known before the round does not arrive before the
\* round's end, so push does not have to postpone it and it travels no longer
\* than the graph says.
LookaheadSafe ==
    ~over /\ Runahead = 0 =>
        \A p \in known : windowStart + Latency[p] >= windowEnd

\* The rounds go on exactly while an event lies before the stop time, also
\* when "no event" plus the jump overflows.
RunsToTheEnd ==
    /\ over => windowStart >= EndTime
    /\ ~over => windowStart < windowEnd /\ windowEnd <= EndTime
=============================================================================
