-------------------------- MODULE Lookahead_proofs --------------------------
(***************************************************************************)
(* Proofs about Lookahead, for every set of workers and every graph: the   *)
(* path cache under concurrent look-ups and stores, and the rounds that    *)
(* the controller makes of what the topology reports.                      *)
(***************************************************************************)
EXTENDS Lookahead, TLAPS

Stored(p) == cache[p] > 0 \/ cache[Reverse(p)] > 0

\* Where a worker is in getPathEntry says what it knows of the cache.
WorkersInv ==
    \A w \in Senders :
        /\ pc[w] # "idle" => want[w] \in Pairs
        /\ pc[w] \in {"report", "update", "found"} => Stored(want[w])
        /\ pc[w] # "use" => path[w] = NoPath

\* The inductive invariant.
IInv == LookaheadTypeOK /\ WorkersInv /\ PathServes /\ MinimumTracked

-----------------------------------------------------------------------------
\* The reverse of a pair is a pair.
LEMMA ReversePair ==
    ASSUME NEW p \in Pairs
    PROVE  Reverse(p) \in Pairs
    BY DEF Reverse, Pairs

\* In an undirected graph a path and its reverse have the same latency.
LEMMA SameBothWays ==
    ASSUME NEW p \in Pairs, ~Directed
    PROVE  Latency[Reverse(p)] = Latency[p]
<1>1. PICK s \in Vertices, d \in Vertices : p = <<s, d>>
    BY DEF Pairs
<1> QED BY <1>1, LookaheadAssumption DEF Reverse

-----------------------------------------------------------------------------
\* The length of a round is a positive time.
LEMMA JumpPositive ==
    ASSUME NEW jump \in Nat
    PROVE  GetMinTimeJump(jump) \in Nat \ {0}
    BY LookaheadAssumption DEF GetMinTimeJump

\* The end of a round is a time, not after the stop time.
LEMMA NewEndTime ==
    ASSUME NEW m \in 0 .. NoEventTime, NEW jump \in Nat
    PROVE  NewEnd(m, jump) \in 0 .. EndTime
<1>1. m + GetMinTimeJump(jump) \in Nat /\ TIME_MOD \in Nat \ {0} /\ EndTime \in Nat
    BY JumpPositive, LookaheadAssumption DEF NoEventTime
<1>2. (m + GetMinTimeJump(jump)) % TIME_MOD \in Nat
    BY <1>1
<1> QED BY <1>1, <1>2 DEF NewEnd, Sooner

\* Cutting a latency to whole milliseconds does not make it longer.
LEMMA CutShorter ==
    ASSUME NEW a \in Nat, NEW b \in Nat \ {0}
    PROVE  (a \div b) * b \in Nat /\ (a \div b) * b <= a
    BY Z3

\* LookaheadInit establishes the invariant.
LEMMA InitInv == LookaheadInit => IInv
<1> SUFFICES ASSUME LookaheadInit PROVE IInv
    OBVIOUS
<1> USE DEF LookaheadInit
<1>1. LookaheadTypeOK
  <2>1. GetMinTimeJump(0) \in Nat
      BY JumpPositive
  <2>2. 0 \in 0 .. NoEventTime /\ 1 \in 0 .. EndTime
      BY LookaheadAssumption DEF NoEventTime
  <2>3. over \in BOOLEAN
      OBVIOUS
  <2> QED BY <2>1, <2>2, <2>3 DEF LookaheadTypeOK
<1>3. WorkersInv /\ PathServes /\ MinimumTracked
    BY DEF WorkersInv, PathServes, MinimumTracked
<1> QED BY <1>1, <1>3 DEF IInv

\* getPathEntry: a hit is taken at once.
LEMMA GetPathEntryInv ==
    ASSUME IInv, NEW w \in Senders, NEW p \in Pairs, GetPathEntry(w, p)
    PROVE  IInv'
<1> USE DEF GetPathEntry, IInv, controllerVars
<1>1. /\ want' = [want EXCEPT ![w] = p]
      /\ \/ /\ pc' = [pc EXCEPT ![w] = "lookup"] /\ path' = path
         \/ \E q \in Pairs : /\ cache[q] > 0
                             /\ ~Directed => Latency[q] = Latency[p]
                             /\ pc' = [pc EXCEPT ![w] = "use"]
                             /\ path' = [path EXCEPT ![w] = <<q, cache[q]>>]
    BY ReversePair, SameBothWays DEF Hit, Take, Goto
<1>2. LookaheadTypeOK'
    BY <1>1 DEF LookaheadTypeOK
<1>4. WorkersInv'
    BY <1>1 DEF WorkersInv, LookaheadTypeOK, Stored
<1>5. PathServes'
  <2>1. CASE path' = path
    <3>1. path[w] = NoPath /\ \A v \in Senders : v # w => want'[v] = want[v]
        BY <1>1 DEF WorkersInv, LookaheadTypeOK
    <3> QED BY <2>1, <3>1 DEF PathServes
  <2>2. CASE path' # path
    <3>1. PICK q \in Pairs : /\ cache[q] > 0 /\ path' = [path EXCEPT ![w] = <<q, cache[q]>>]
                             /\ ~Directed => Latency[q] = Latency[p]
        BY <1>1, <2>2
    <3>2. /\ path'[w][1] = q /\ want'[w] = p
          /\ \A v \in Senders : v # w => path'[v] = path[v] /\ want'[v] = want[v]
        BY <1>1, <3>1 DEF LookaheadTypeOK
    <3> QED BY <3>1, <3>2 DEF PathServes
  <2> QED BY <2>1, <2>2
<1>6. MinimumTracked'
    BY DEF MinimumTracked
<1> QED BY <1>2, <1>4, <1>5, <1>6

\* The check: only a pair without a copy is to be stored.
LEMMA LookupDirectPathInv ==
    ASSUME IInv, NEW w \in Senders, LookupDirectPath(w)
    PROVE  IInv'
<1> USE DEF LookupDirectPath, IInv, controllerVars
<1>0. /\ want[w] \in Pairs
      /\ pc' = [pc EXCEPT ![w] = IF ShouldStorePath(want[w]) THEN "store" ELSE "found"]
    BY DEF WorkersInv, Goto
<1>1. LookaheadTypeOK'
    BY <1>0 DEF LookaheadTypeOK
<1>3. WorkersInv'
    BY <1>0, ReversePair DEF WorkersInv, LookaheadTypeOK, Stored, ShouldStorePath
<1>4. PathServes' /\ MinimumTracked'
    BY DEF PathServes, MinimumTracked
<1> QED BY <1>1, <1>3, <1>4

\* The store: one copy more, and one worker less that may add one.
LEMMA StorePathInCacheInv ==
    ASSUME IInv, NEW w \in Senders, StorePathInCache(w)
    PROVE  IInv'
<1> DEFINE p == want[w]
           lat == Latency[p]
<1> USE DEF StorePathInCache, IInv, controllerVars
<1>0. /\ p \in Pairs /\ lat \in Nat \ {0}
      /\ cache' = [cache EXCEPT ![p] = cache[p] + 1]
      /\ \E l \in {"report", "found"} : pc' = [pc EXCEPT ![w] = l]
      /\ topMin' = IF LowersMinimum(lat) THEN lat ELSE topMin
    BY LookaheadAssumption DEF WorkersInv, Goto
<1> HIDE DEF lat
<1>1. LookaheadTypeOK'
    BY <1>0 DEF LookaheadTypeOK
<1>3. \A q \in Pairs : cache'[q] >= cache[q] /\ (q # p => cache'[q] = cache[q])
    BY <1>0 DEF LookaheadTypeOK
<1>4. WorkersInv'
  <2>1. \A q \in Pairs : Stored(q) => Stored(q)'
      BY <1>3, ReversePair DEF Stored, LookaheadTypeOK
  <2>2. Stored(p)'
      BY <1>0 DEF Stored, LookaheadTypeOK
  <2>3. ASSUME NEW v \in Senders
        PROVE  /\ pc'[v] # "idle" => want[v] \in Pairs
               /\ pc'[v] \in {"report", "update", "found"} => Stored(want[v])'
               /\ pc'[v] # "use" => path[v] = NoPath
    <3>1. CASE v = w
        BY <1>0, <2>2, <3>1 DEF WorkersInv, LookaheadTypeOK
    <3>2. CASE v # w
        BY <1>0, <2>1, <3>2 DEF WorkersInv, LookaheadTypeOK
    <3> QED BY <3>1, <3>2
  <2> QED BY <2>3 DEF WorkersInv
<1>5. PathServes'
    BY <1>0, <1>3 DEF PathServes, LookaheadTypeOK
<1>6. MinimumTracked'
  <2>1. ASSUME NEW q \in Pairs, cache'[q] > 0 PROVE topMin' > 0 /\ topMin' <= Latency[q]
    <3>0. topMin \in Nat /\ Latency[q] \in Nat \ {0}
        BY LookaheadAssumption DEF LookaheadTypeOK
    <3>1. CASE q = p
        BY <1>0, <3>0, <3>1 DEF LowersMinimum, lat
    <3>2. CASE q # p
        BY <1>0, <1>3, <2>1, <3>0, <3>2 DEF MinimumTracked, LowersMinimum
    <3> QED BY <3>1, <3>2
  <2>2. ASSUME topMin' > 0 PROVE \E q \in Pairs : cache'[q] > 0 /\ topMin' = Latency[q]
    <3>1. CASE LowersMinimum(lat)
        BY <1>0, <3>1 DEF LookaheadTypeOK, lat
    <3>2. CASE ~LowersMinimum(lat)
        BY <1>0, <1>3, <2>2, <3>2 DEF MinimumTracked, LookaheadTypeOK
    <3> QED BY <3>1, <3>2
  <2> QED BY <2>1, <2>2 DEF MinimumTracked
<1> QED BY <1>1, <1>4, <1>5, <1>6

\* The report to the controller leaves the cache alone.
LEMMA ReportInv ==
    ASSUME IInv, NEW w \in Senders, ReadMinimum(w) \/ UpdateMinTimeJump(w)
    PROVE  IInv'
<1> USE DEF ReadMinimum, UpdateMinTimeJump, IInv, controllerVars
<1>0. /\ \/ pc[w] = "report" /\ pc' = [pc EXCEPT ![w] = "update"]
         \/ pc[w] = "update" /\ pc' = [pc EXCEPT ![w] = "found"]
      /\ UNCHANGED <<cache, topMin, want, path>>
    BY DEF Goto
<1>1. LookaheadTypeOK'
  <2>1. newMin[w] \in Nat /\ (newMin[w] \div MS) * MS \in Nat
      BY CutShorter, LookaheadAssumption DEF LookaheadTypeOK
  <2> HIDE LookaheadAssumption
  <2> QED BY <1>0, <2>1 DEF LookaheadTypeOK
<1>3. WorkersInv'
    BY <1>0 DEF WorkersInv, LookaheadTypeOK, Stored
<1>4. PathServes' /\ MinimumTracked'
    BY <1>0 DEF PathServes, MinimumTracked
<1> QED BY <1>1, <1>3, <1>4

\* The second look: whichever worker stored it, the path is there.
LEMMA PathFoundInv ==
    ASSUME IInv, NEW w \in Senders, PathFound(w)
    PROVE  IInv'
<1> DEFINE q == Found(want[w])
<1> USE DEF PathFound, IInv, controllerVars
<1>0. /\ q \in Pairs /\ cache[q] > 0
      /\ ~Directed => Latency[q] = Latency[want[w]]
      /\ pc' = [pc EXCEPT ![w] = "use"] /\ path' = [path EXCEPT ![w] = <<q, cache[q]>>]
    BY ReversePair, SameBothWays DEF WorkersInv, Stored, Found, Take, Goto
<1> HIDE DEF q
<1>1. LookaheadTypeOK'
    BY <1>0 DEF LookaheadTypeOK
<1>3. WorkersInv'
    BY <1>0 DEF WorkersInv, LookaheadTypeOK, Stored
<1>4. PathServes'
  <2>1. path'[w][1] = q /\ \A v \in Senders : v # w => path'[v] = path[v]
      BY <1>0 DEF LookaheadTypeOK
  <2> QED BY <1>0, <2>1 DEF PathServes
<1>5. MinimumTracked'
    BY DEF MinimumTracked
<1> QED BY <1>1, <1>3, <1>4, <1>5

\* The worker is done with the path.
LEMMA UsePathInv ==
    ASSUME IInv, NEW w \in Senders, UsePath(w)
    PROVE  IInv'
<1> USE DEF UsePath, Goto, IInv, controllerVars
<1>1. LookaheadTypeOK'
    BY DEF LookaheadTypeOK
<1>3. WorkersInv'
    BY DEF WorkersInv, LookaheadTypeOK, Stored
<1>4. PathServes' /\ MinimumTracked'
    BY DEF PathServes, MinimumTracked, LookaheadTypeOK
<1> QED BY <1>1, <1>3, <1>4

\* The end of a round.
LEMMA FinishedCurrentRoundInv ==
    ASSUME IInv, NEW m \in EventTimes \cup {NoEventTime}, FinishedCurrentRound(m)
    PROVE  IInv'
<1> USE DEF FinishedCurrentRound, IInv, senderVars
<1>0. m \in 0 .. NoEventTime
    BY LookaheadAssumption DEF NoEventTime
<1>1. LookaheadTypeOK'
  <2>1. windowEnd' \in 0 .. EndTime /\ windowStart' \in 0 .. NoEventTime
      BY <1>0, NewEndTime DEF LookaheadTypeOK
  <2>2. over' \in BOOLEAN
      OBVIOUS
  <2> QED BY <2>1, <2>2 DEF LookaheadTypeOK
<1>3. WorkersInv' /\ PathServes' /\ MinimumTracked'
    BY DEF WorkersInv, Stored, PathServes, MinimumTracked
<1> QED BY <1>1, <1>3

\* Every step preserves the invariant.
LEMMA StepInv == IInv /\ [LookaheadNext]_lookaheadVars => IInv'
<1> SUFFICES ASSUME IInv, [LookaheadNext]_lookaheadVars PROVE IInv'
    OBVIOUS
<1>1. CASE UNCHANGED lookaheadVars
    BY <1>1 DEF lookaheadVars, IInv, LookaheadTypeOK, WorkersInv, Stored, PathServes,
       MinimumTracked
<1>2. CASE LookaheadNext
    BY <1>1, <1>2, GetPathEntryInv, LookupDirectPathInv, StorePathInCacheInv, ReportInv,
       PathFoundInv, UsePathInv, FinishedCurrentRoundInv DEF LookaheadNext, SenderStep, SimulationStopped
<1> QED BY <1>1, <1>2

\* The invariant holds in every state.
THEOREM Invariance == LookaheadSpec => []IInv
    BY InitInv, StepInv, PTL DEF LookaheadSpec

-----------------------------------------------------------------------------
\* The path cache while any number of workers fill it, though the check and the
\* store are under different locks: every worker gets the latency of the pair it
\* asked for if the graph is undirected, and the tracked minimum is the least
\* latency in the cache.  (That a path may be replaced while it is in use is
\* outside this statement.)
THEOREM PathCacheIsExact == LookaheadSpec => []PathCacheExact
<1>1. IInv => PathCacheExact
    BY DEF IInv, PathCacheExact
<1> QED BY <1>1, Invariance, PTL

-----------------------------------------------------------------------------
\* No time before the stop time wraps when a round is added to it.
Fits(jump) == EndTime + jump <= TIME_MOD
NoWrap ==
    /\ Fits(10 * MS) /\ Fits(Runahead)
    /\ \A p \in Pairs : Fits(Latency[p])

\* What travels from the topology to the controller is a latency of the graph,
\* cut to whole milliseconds.
JumpInv ==
    /\ Fits(nextJump) /\ Fits(topMin)
    /\ \A w \in Senders : Fits(newMin[w])

\* The jumps stay within the bound.
LEMMA StepJump ==
    ASSUME NoWrap, IInv, JumpInv, [LookaheadNext]_lookaheadVars
    PROVE  JumpInv'
<1> USE DEF Fits
<1>t. EndTime \in Nat /\ TIME_MOD \in Nat
    BY LookaheadAssumption DEF NoEventTime
<1>1. ASSUME NEW w \in Senders, StorePathInCache(w) PROVE JumpInv'
    BY <1>1, <1>t DEF StorePathInCache, JumpInv, NoWrap, IInv, WorkersInv, controllerVars
<1>2. ASSUME NEW w \in Senders, ReadMinimum(w) PROVE JumpInv'
    BY <1>2, <1>t DEF ReadMinimum, JumpInv, IInv, LookaheadTypeOK, controllerVars
<1>3. ASSUME NEW w \in Senders, UpdateMinTimeJump(w) PROVE JumpInv'
  <2>1. (newMin[w] \div MS) * MS \in Nat /\ (newMin[w] \div MS) * MS <= newMin[w] /\ newMin[w] \in Nat
      BY CutShorter, LookaheadAssumption DEF IInv, LookaheadTypeOK
  <2> HIDE LookaheadAssumption
  <2> QED BY <1>3, <1>t, <2>1 DEF UpdateMinTimeJump, JumpInv
<1>4. ASSUME NEW w \in Senders, UsePath(w) PROVE JumpInv'
  <2>1. Fits(0)
      BY <1>t, LookaheadAssumption DEF NoEventTime
  <2> QED BY <1>4, <2>1 DEF UsePath, JumpInv, IInv, LookaheadTypeOK
<1>5. ASSUME NEW w \in Senders,
             \/ \E p \in Pairs : GetPathEntry(w, p)
             \/ LookupDirectPath(w) \/ PathFound(w)
      PROVE JumpInv'
    BY <1>5 DEF GetPathEntry, LookupDirectPath, PathFound, JumpInv
<1>6. ASSUME NEW m, FinishedCurrentRound(m) PROVE JumpInv'
    BY <1>6 DEF FinishedCurrentRound, JumpInv, senderVars
<1>7. ASSUME UNCHANGED lookaheadVars PROVE JumpInv'
    BY <1>7 DEF lookaheadVars, JumpInv
<1> QED BY <1>1, <1>2, <1>3, <1>4, <1>5, <1>6, <1>7 DEF LookaheadNext, SenderStep, SimulationStopped

\* A round that starts before the stop time is not empty.
LEMMA RoundNotEmpty ==
    ASSUME NoWrap, NEW m \in 0 .. NoEventTime, NEW jump \in Nat, Fits(jump), m < EndTime
    PROVE  m < NewEnd(m, jump)
<1>1. GetMinTimeJump(jump) \in Nat \ {0} /\ Fits(GetMinTimeJump(jump))
    BY JumpPositive DEF GetMinTimeJump, NoWrap
<1>2. /\ m + GetMinTimeJump(jump) \in Nat /\ m + GetMinTimeJump(jump) < TIME_MOD
      /\ TIME_MOD \in Nat
    BY <1>1, LookaheadAssumption DEF Fits, NoEventTime
<1>3. (m + GetMinTimeJump(jump)) % TIME_MOD = m + GetMinTimeJump(jump)
    BY <1>2
<1> QED BY <1>1, <1>3, LookaheadAssumption DEF NewEnd, Sooner, NoEventTime

\* The rounds go on exactly while there is an event before the stop time, and
\* end then, whatever the workers report, as long as the stop time plus the
\* longest round is a SimulationTime.
THEOREM RunsUntilTheEnd ==
    ASSUME NoWrap
    PROVE  LookaheadSpec => []RunsToTheEnd
<1>1. LookaheadInit => JumpInv /\ RunsToTheEnd
  <2> SUFFICES ASSUME LookaheadInit PROVE JumpInv /\ RunsToTheEnd
      OBVIOUS
  <2>1. Fits(0) /\ Fits(GetMinTimeJump(0))
      BY LookaheadAssumption DEF NoWrap, Fits, GetMinTimeJump, NoEventTime
  <2>2. RunsToTheEnd
      BY LookaheadAssumption DEF LookaheadInit, RunsToTheEnd, NoEventTime
  <2> QED BY <2>1, <2>2 DEF LookaheadInit, JumpInv
<1>2. IInv /\ JumpInv /\ RunsToTheEnd /\ [LookaheadNext]_lookaheadVars => RunsToTheEnd'
  <2> SUFFICES ASSUME IInv, JumpInv, RunsToTheEnd, [LookaheadNext]_lookaheadVars PROVE RunsToTheEnd'
      OBVIOUS
  <2>1. ASSUME NEW m \in EventTimes \cup {NoEventTime}, FinishedCurrentRound(m) PROVE RunsToTheEnd'
    <3>1. m \in 0 .. NoEventTime /\ nextJump \in Nat /\ Fits(nextJump) /\ EndTime \in Nat
        BY LookaheadAssumption DEF NoEventTime, IInv, LookaheadTypeOK, JumpInv
    <3>2. windowEnd' \in 0 .. EndTime /\ (m < EndTime => m < windowEnd')
        BY <2>1, <3>1, NewEndTime, RoundNotEmpty DEF FinishedCurrentRound
    <3>3. windowStart' = m /\ (over' <=> m >= windowEnd')
        BY <2>1 DEF FinishedCurrentRound
    <3> QED BY <3>1, <3>2, <3>3 DEF RunsToTheEnd, NoEventTime
  <2>2. ASSUME UNCHANGED <<over, windowStart, windowEnd>> PROVE RunsToTheEnd'
      BY <2>2 DEF RunsToTheEnd
  <2>3. ASSUME NEW w \in Senders, SenderStep(w) PROVE UNCHANGED <<over, windowStart, windowEnd>>
      BY <2>3 DEF SenderStep, GetPathEntry, LookupDirectPath, StorePathInCache, ReadMinimum,
         UpdateMinTimeJump, PathFound, UsePath, controllerVars
  <2> QED BY <2>1, <2>2, <2>3 DEF LookaheadNext, SimulationStopped, lookaheadVars
<1>3. IInv /\ JumpInv /\ [LookaheadNext]_lookaheadVars => JumpInv'
    BY StepJump
<1> QED BY <1>1, <1>2, <1>3, Invariance, PTL DEF LookaheadSpec
=============================================================================
