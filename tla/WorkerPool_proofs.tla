-------------------------- MODULE WorkerPool_proofs -------------------------
(***************************************************************************)
(* Proofs of the safety properties of WorkerPool for any number of workers *)
(* and logical processors.                                                 *)
(***************************************************************************)
EXTENDS WorkerPool, FiniteSetTheorems, WellFoundedInduction, TLAPS

InReady(w) == \E l \in Lps : w \in ready[l]
InDone(w) == \E l \in Lps : w \in done[l]

\* w was popped for a logical processor by a worker that has yet to wake it.
Chosen(w) == \E v \in Workers : nextW[v] = w

Busy == {"running", "storing", "finished", "pushed", "posting", "counting"}

(***************************************************************************)
(* The inductive invariant.  A worker is at every moment at one place on   *)
(* its way through a task: in a ready queue, chosen, woken, busy, or in a  *)
(* done queue.                                                             *)
(***************************************************************************)
PlaceInv ==
    /\ \A w \in Workers :
          /\ InReady(w) => wpc[w] \in {"waiting", "exited"} /\ sem[w] = 0
                           /\ ~Chosen(w) /\ ~InDone(w)
          /\ Chosen(w) => wpc[w] = "waiting" /\ sem[w] = 0 /\ ~InDone(w)
          /\ sem[w] # 0 => wpc[w] = "waiting" /\ ~InDone(w)
          /\ wpc[w] \in {"new", "running", "storing", "finished"} => ~InDone(w)
          /\ wpc[w] \in {"pushed", "posting", "counting"} => InDone(w)
          /\ nextW[w] # -1 => wpc[w] = "posting"
    /\ \A u, v \in Workers : nextW[u] = nextW[v] /\ nextW[u] # -1 => u = v
    /\ \A w \in Workers : \A l, m \in Lps : w \in ready[l] /\ w \in ready[m] => l = m
    /\ \A w \in Workers : \A l, m \in Lps : w \in done[l] /\ w \in done[m] => l = m

PhaseInv ==
    /\ main = "creating" =>
          /\ task = NULL
          /\ \A w \in Workers : /\ wpc[w] \in {"new", "waiting"}
                                /\ sem[w] = 0
                                /\ nextW[w] = -1
          /\ \A l \in Lps : ready[l] = {} /\ done[l] = {}
    /\ main # "creating" => \A w \in Workers : wpc[w] # "new" /\ lpIdx[w] \in Lps
    /\ main \in {"idle", "joining", "joined"} => \A w \in Workers : InReady(w)
    /\ main \notin {"joining", "joined"} =>
          \A w \in Workers : InReady(w) => wpc[w] = "waiting"

TaskInv ==
    /\ main \in {"starting", "awaiting"} =>
          /\ task \in Tasks
          /\ taskFn = IF task = "exit" THEN NULL ELSE task
    /\ main \in {"creating", "idle"} => task # "exit"
    /\ \A w \in Workers : wpc[w] \in Busy => wfn[w] = taskFn
    /\ \A w \in Workers : wpc[w] = "exited" => task = "exit"

\* The workers that have yet to count down the latch.
Uncounted ==
    {w \in Workers : IF main = "creating" THEN wpc[w] = "new"
                     ELSE ~(wpc[w] \in {"waiting", "exited"} /\ InDone(w))}

LatchInv == latch = Cardinality(Uncounted)

IInv == PoolTypeOK /\ PlaceInv /\ PhaseInv /\ TaskInv /\ LatchInv

\* From the moment it is chosen until it has chosen its successor, a worker
\* holds a logical processor.
Holds(w) == OnLp(w) \/ sem[w] # 0 \/ Chosen(w)

LpInv ==
    /\ \A v, w \in Workers : Holds(v) /\ Holds(w) /\ v # w => lpIdx[v] # lpIdx[w]
    /\ main = "starting" => \A w \in Workers : Holds(w) => lpIdx[w] < startLp

RanInv ==
    /\ \A w \in Workers : timesRun[w] \in {0, 1}
    /\ main \in {"starting", "awaiting"} => \A w \in Workers :
          /\ InReady(w) \/ sem[w] # 0 \/ Chosen(w) => timesRun[w] = 0
          /\ wpc[w] \in Busy \/ InDone(w) => timesRun[w] = 1
    /\ main \in {"idle", "joining", "joined"} /\ task # NULL =>
          \A w \in Workers : timesRun[w] = 1

\* The least time reported is in the table or is about to be stored there, and
\* nothing in the table or about to be stored is less.
MinInv ==
    /\ \A l \in Lps : reportedMin <= minTimes[l]
    /\ \A w \in Workers : wpc[w] = "storing" =>
          wfn[w] = "runEvents" /\ reportedMin <= wtime[w] /\ wtime[w] < minTimes[lpIdx[w]]
    /\ main \in {"starting", "awaiting"} =>
          \/ \E l \in Lps : minTimes[l] = reportedMin
          \/ \E w \in Workers : wpc[w] = "storing" /\ wtime[w] = reportedMin
    /\ main \in {"creating", "idle"} => \A l \in Lps : minTimes[l] = SIMTIME_MAX
    /\ main = "idle" /\ task = "runEvents" => collected = reportedMin
    /\ main \in {"starting", "awaiting"} /\ task # "runEvents" =>
          \A l \in Lps : minTimes[l] = SIMTIME_MAX

-----------------------------------------------------------------------------
(***************************************************************************)
(* Constants and helpers                                                   *)
(***************************************************************************)

\* There is at least one logical processor, and no more than workers.
LEMMA LpFacts ==
    /\ NLps \in Nat \ {0}
    /\ NLps <= NWorkers
    /\ Lps \subseteq Nat
    /\ Workers \subseteq Nat
    /\ -1 \notin Workers
    /\ 0 \in Lps
    /\ \A w \in Workers : w % NLps \in Lps
BY PoolAssumption DEF NLps, Lps, Workers

\* The workers are finitely many.
LEMMA WorkersFinite ==
    /\ IsFiniteSet(Workers)
    /\ Cardinality(Workers) = NWorkers
BY PoolAssumption, FS_Interval DEF Workers

\* A non-empty set of naturals has a least element.
LEMMA LeastElement ==
    ASSUME NEW T, T \subseteq Nat, T # {}
    PROVE  \E x \in T : \A y \in T : x <= y
<1> DEFINE R == {ss \in Nat \X Nat : ss[1] < ss[2]}
<1>1. IsWellFoundedOn(R, Nat)
    BY NatLessThanWellFounded DEF OpToRel
<1>2. PICK x \in T : \A y \in T : ~ (<<y, x>> \in R)
    <2> HIDE DEF R
    <2> QED BY <1>1, WFMin
<1>3. ASSUME NEW y \in T PROVE x <= y
    <2>1. <<y, x>> \in Nat \X Nat /\ <<y, x>> \notin R
        BY <1>2
    <2>2. ~ (y < x)
        BY <2>1
    <2> QED BY <2>2
<1> QED BY <1>3

\* The time the main thread computes is one of minEventTimes, and the least.
LEMMA LeastMinTimeIsLeast ==
    ASSUME PoolTypeOK
    PROVE  /\ \E l \in Lps : LeastMinTime = minTimes[l]
           /\ \A l \in Lps : LeastMinTime <= minTimes[l]
<1> DEFINE T == {minTimes[l] : l \in Lps}
<1>1. T \subseteq Nat /\ T # {}
    <2>1. \A l \in Lps : minTimes[l] \in Nat
        BY PoolAssumption DEF PoolTypeOK
    <2>2. minTimes[0] \in T
        BY LpFacts
    <2> QED BY <2>1, <2>2
<1>2. \E x \in T : \A y \in T : x <= y
    <2> HIDE DEF T
    <2> QED BY <1>1, LeastElement
<1>3. \E x \in T : \A l \in Lps : x <= minTimes[l]
    BY <1>2
<1>4. LeastMinTime \in T /\ \A l \in Lps : LeastMinTime <= minTimes[l]
    BY <1>3 DEF LeastMinTime
<1> QED BY <1>4

\* The latch counts a finite set down.
LEMMA UncountedFinite ==
    /\ IsFiniteSet(Uncounted)
    /\ Cardinality(Uncounted) \in 0 .. NWorkers
<1>1. Uncounted \in SUBSET Workers
    BY DEF Uncounted
<1> QED BY <1>1, WorkersFinite, FS_Subset, FS_CardinalityType, PoolAssumption

\* The latch is not exhausted while a worker has yet to count it down.
LEMMA LatchPositive ==
    ASSUME IInv, NEW w \in Uncounted
    PROVE  latch > 0
<1>1. Cardinality(Uncounted) # 0
    BY UncountedFinite, FS_EmptySet
<1> QED BY <1>1, UncountedFinite, PoolAssumption DEF IInv, LatchInv

-----------------------------------------------------------------------------
(***************************************************************************)
(* The inductive invariant                                                 *)
(***************************************************************************)
\* The invariant holds when the main thread starts to create the pool.
LEMMA InitIInv == PoolInit => IInv
<1> SUFFICES ASSUME PoolInit PROVE IInv
    OBVIOUS
<1>1. PoolTypeOK
    BY LpFacts, PoolAssumption DEF PoolInit, PoolTypeOK
<1>2. PlaceInv
    BY LpFacts DEF PoolInit, PlaceInv, InReady, InDone, Chosen
<1>3. PhaseInv
    BY DEF PoolInit, PhaseInv, InReady
<1>4. TaskInv
    BY DEF PoolInit, TaskInv, Busy, Tasks, NULL
<1>5. LatchInv
    <2>1. Uncounted = Workers
        BY DEF PoolInit, Uncounted
    <2> QED BY <2>1, WorkersFinite DEF LatchInv, PoolInit
<1> QED BY <1>1, <1>2, <1>3, <1>4, <1>5 DEF IInv

\* A new worker counts down the latch once.
LEMMA WorkerInitIInv ==
    ASSUME NEW w \in Workers, IInv, WorkerInit(w)
    PROVE  IInv'
<1> USE LpFacts, PoolAssumption DEF IInv
<1> USE DEF WorkerInit, mainVars
<1>1. main = "creating" /\ main' = "creating"
    BY DEF PhaseInv
<1>2. LatchInv'
    <2>1. w \in Uncounted /\ Uncounted' = Uncounted \ {w}
        BY <1>1 DEF Uncounted, PoolTypeOK
    <2>2. Cardinality(Uncounted') = Cardinality(Uncounted) - 1
        BY <2>1, UncountedFinite, FS_RemoveElement
    <2> QED BY <2>2 DEF LatchInv
<1>3. PoolTypeOK'
    <2>1. latch' \in 0 .. NWorkers
        BY <1>1, LatchPositive DEF PoolTypeOK, Uncounted
    <2> QED BY <2>1 DEF PoolTypeOK
<1>4. PlaceInv'
    BY DEF PoolTypeOK, PlaceInv, PhaseInv, InReady, InDone, Chosen
<1>5. PhaseInv'
    <2>1. /\ UNCHANGED <<task, sem, nextW, ready, done>> /\ task = NULL
          /\ \A l \in Lps : ready[l] = {} /\ done[l] = {}
        BY <1>1 DEF PhaseInv
    <2>2. ASSUME NEW v \in Workers
          PROVE  wpc'[v] \in {"new", "waiting"} /\ sem[v] = 0 /\ nextW[v] = -1
        BY <1>1 DEF PhaseInv, PoolTypeOK
    <2>3. \A v \in Workers : ~InReady(v)'
        BY <2>1 DEF InReady
    <2> QED BY <1>1, <2>1, <2>2, <2>3 DEF PhaseInv
<1>6. TaskInv'
    BY DEF PoolTypeOK, PlaceInv, PhaseInv, TaskInv, Busy, InReady, Tasks, NULL
<1> QED BY <1>2, <1>3, <1>4, <1>5, <1>6

\* When the pool has been created, every worker is in one ready queue.
LEMMA PoolCreatedIInv ==
    ASSUME IInv, PoolCreated
    PROVE  IInv'
<1> USE LpFacts, PoolAssumption DEF IInv
<1> USE DEF PoolCreated, LatchOpen, LatchReset, workerVars
<1>1. \A w \in Workers : wpc[w] = "waiting"
    <2>1. Uncounted = {}
        BY UncountedFinite, FS_EmptySet DEF LatchInv
    <2> QED BY <2>1 DEF Uncounted, PhaseInv
<1>2. PoolTypeOK'
    BY DEF PoolTypeOK
<1>3. /\ \A w \in Workers : InReady(w)' /\ ~InDone(w)' /\ ~Chosen(w)'
      /\ \A w \in Workers : \A l \in Lps : w \in ready'[l] <=> w % NLps = l
    BY DEF InReady, InDone, Chosen, PhaseInv
<1>4. PlaceInv'
    BY <1>1, <1>3 DEF PoolTypeOK, PlaceInv, PhaseInv, InDone
<1>5. PhaseInv'
    BY <1>1, <1>3 DEF PoolTypeOK, PhaseInv
<1>6. TaskInv'
    BY <1>1 DEF PoolTypeOK, PhaseInv, TaskInv, Busy
<1>7. LatchInv'
    <2>1. Uncounted' = Workers
        BY <1>3 DEF Uncounted
    <2> QED BY <2>1, WorkersFinite DEF LatchInv
<1> QED BY <1>2, <1>4, <1>5, <1>6, <1>7

\* A task is handed out while all workers are ready.
LEMMA StartTaskIInv ==
    ASSUME NEW k \in Tasks, IInv, StartTask(k)
    PROVE  IInv'
<1> USE LpFacts, PoolAssumption DEF IInv
<1> USE DEF StartTask, MayFollow, lpVars
<1>1. PoolTypeOK'
    BY DEF PoolTypeOK
<1>2. PlaceInv'
    BY DEF PoolTypeOK, PlaceInv, PhaseInv, InReady, InDone, Chosen
<1>3. PhaseInv'
    BY DEF PoolTypeOK, PlaceInv, PhaseInv, TaskInv, InReady, InDone
<1>4. TaskInv'
    BY DEF PoolTypeOK, PlaceInv, PhaseInv, TaskInv, Busy, InReady, Tasks, NULL
<1>5. LatchInv'
    <2>1. Uncounted' = Uncounted
        BY DEF PoolTypeOK, PlaceInv, PhaseInv, Uncounted, InReady, InDone
    <2> QED BY <2>1 DEF LatchInv
<1> QED BY <1>1, <1>2, <1>3, <1>4, <1>5

\* The main thread wakes a worker that waits and was not woken before.
LEMMA StartLpIInv ==
    ASSUME NEW w \in Workers, IInv, StartLp(w)
    PROVE  IInv'
<1> USE LpFacts, PoolAssumption DEF IInv
<1> USE DEF StartLp, PopWorkerToRunOn, workerVars
<1>1. PICK l \in Lps : w \in ready[l] /\ ready' = [ready EXCEPT ![l] = @ \ {w}]
    OBVIOUS
<1>2. startLp \in Lps /\ lpIdx' = [lpIdx EXCEPT ![w] = startLp]
    BY DEF PoolTypeOK, Lps
<1>3. wpc[w] = "waiting" /\ sem[w] = 0 /\ ~Chosen(w) /\ ~InDone(w)
    BY <1>1 DEF PlaceInv, PhaseInv, InReady
<1>4. PoolTypeOK'
    BY <1>1, <1>2, <1>3 DEF PoolTypeOK
<1>5. \A v \in Workers : InReady(v)' <=> v # w /\ InReady(v)
    BY <1>1 DEF InReady, PlaceInv, PoolTypeOK
<1>6. \A v \in Workers : (InDone(v)' <=> InDone(v)) /\ (Chosen(v)' <=> Chosen(v))
    BY DEF InDone, Chosen
<1>7. PlaceInv'
    <2>1. \A v \in Workers : \A m \in Lps : v \in ready'[m] => v \in ready[m]
        BY <1>1 DEF PoolTypeOK
    <2> QED BY <1>3, <1>5, <1>6, <2>1 DEF PoolTypeOK, PlaceInv
<1>8. PhaseInv'
    BY <1>2, <1>5 DEF PoolTypeOK, PhaseInv
<1>9. TaskInv'
    BY DEF TaskInv
<1>10. LatchInv'
    <2>1. Uncounted' = Uncounted
        BY <1>6 DEF Uncounted
    <2> QED BY <2>1 DEF LatchInv
<1> QED BY <1>4, <1>7, <1>8, <1>9, <1>10

\* The main thread goes on to wait.
LEMMA StartedAllIInv ==
    ASSUME IInv, StartedAll
    PROVE  IInv'
<1> USE LpFacts, PoolAssumption DEF IInv
<1> USE DEF StartedAll, NoneReady, workerVars, lpVars
<1>1. PoolTypeOK'
    BY DEF PoolTypeOK
<1>2. PlaceInv'
    BY DEF PoolTypeOK, PlaceInv, PhaseInv, InReady, InDone, Chosen
<1>3. PhaseInv'
    BY DEF PoolTypeOK, PlaceInv, PhaseInv, TaskInv, InReady, InDone
<1>4. TaskInv'
    BY DEF PoolTypeOK, PlaceInv, PhaseInv, TaskInv, Busy, InReady, Tasks, NULL
<1>5. LatchInv'
    <2>1. Uncounted' = Uncounted
        BY DEF PoolTypeOK, PlaceInv, PhaseInv, Uncounted, InReady, InDone
    <2> QED BY <2>1 DEF LatchInv
<1> QED BY <1>1, <1>2, <1>3, <1>4, <1>5

\* When the latch is open, every worker is in a done queue and waits.
LEMMA AllCounted ==
    ASSUME IInv, main # "creating", latch = 0
    PROVE  \A w \in Workers : wpc[w] \in {"waiting", "exited"} /\ InDone(w)
<1>1. Uncounted = {}
    BY UncountedFinite, FS_EmptySet DEF IInv, LatchInv
<1> QED BY <1>1 DEF Uncounted

\* When the latch opens, the done queues become the ready queues.
LEMMA AwaitTaskIInv ==
    ASSUME IInv, AwaitTask
    PROVE  IInv'
<1> USE LpFacts, PoolAssumption DEF IInv
<1> USE DEF AwaitTask, LatchOpen, LatchReset, workerVars
<1>1. \A w \in Workers : wpc[w] \in {"waiting", "exited"} /\ InDone(w)
    BY AllCounted
<1>2. \A l \in Lps : ready[l] = {}
    BY <1>1 DEF PlaceInv, InReady, PoolTypeOK
<1>3. \A w \in Workers : InReady(w)' /\ ~InDone(w)' /\ ~Chosen(w)'
    BY <1>1, <1>2 DEF InReady, InDone, Chosen, PlaceInv
<1>4. PoolTypeOK'
    BY LeastMinTimeIsLeast DEF PoolTypeOK
<1>5. PlaceInv'
    BY <1>1, <1>2, <1>3 DEF PoolTypeOK, PlaceInv, PhaseInv
<1>6. PhaseInv'
    BY <1>1, <1>3 DEF PoolTypeOK, PhaseInv, TaskInv
<1>7. TaskInv'
    BY <1>1 DEF PoolTypeOK, TaskInv, Busy
<1>8. LatchInv'
    <2>1. Uncounted' = Workers
        BY <1>3 DEF Uncounted
    <2> QED BY <2>1, WorkersFinite DEF LatchInv
<1> QED BY <1>4, <1>5, <1>6, <1>7, <1>8

\* Joining the threads changes nothing else.
LEMMA JoinAllIInv ==
    ASSUME IInv, JoinAll
    PROVE  IInv'
<1> USE LpFacts, PoolAssumption DEF IInv
<1> USE DEF JoinAll, workerVars, lpVars
<1>1. PoolTypeOK'
    BY DEF PoolTypeOK
<1>2. PlaceInv'
    BY DEF PoolTypeOK, PlaceInv, PhaseInv, InReady, InDone, Chosen
<1>3. PhaseInv'
    BY DEF PoolTypeOK, PlaceInv, PhaseInv, TaskInv, InReady, InDone
<1>4. TaskInv'
    BY DEF PoolTypeOK, PlaceInv, PhaseInv, TaskInv, Busy, InReady, Tasks, NULL
<1>5. LatchInv'
    <2>1. Uncounted' = Uncounted
        BY DEF PoolTypeOK, PlaceInv, PhaseInv, Uncounted, InReady, InDone
    <2> QED BY <2>1 DEF LatchInv
<1> QED BY <1>1, <1>2, <1>3, <1>4, <1>5

\* A worker that was woken takes the task of the pool.
LEMMA BeginTaskIInv ==
    ASSUME NEW w \in Workers, IInv, BeginTask(w)
    PROVE  IInv'
<1> USE LpFacts, PoolAssumption DEF IInv
<1> USE DEF BeginTask, mainVars, lpVars
<1>1. PoolTypeOK'
    BY DEF PoolTypeOK
<1>2. PlaceInv'
    BY DEF PoolTypeOK, PlaceInv, PhaseInv, InReady, InDone, Chosen
<1>3. PhaseInv'
    BY DEF PoolTypeOK, PlaceInv, PhaseInv, TaskInv, InReady, InDone
<1>4. TaskInv'
    BY DEF PoolTypeOK, PlaceInv, PhaseInv, TaskInv, Busy, InReady, Tasks, NULL
<1>5. LatchInv'
    <2>1. Uncounted' = Uncounted
        BY DEF PoolTypeOK, PlaceInv, PhaseInv, Uncounted, InReady, InDone
    <2> QED BY <2>1 DEF LatchInv
<1> QED BY <1>1, <1>2, <1>3, <1>4, <1>5

\* A worker compares a time with the one of its logical processor.
LEMMA ReportTimeIInv ==
    ASSUME NEW w \in Workers, NEW t \in Times, IInv, ReportTime(w, t)
    PROVE  IInv'
<1> USE LpFacts, PoolAssumption DEF IInv
<1> USE DEF ReportTime, IsEarlier, mainVars, lpVars
<1>1. PoolTypeOK'
    BY DEF Lesser, PoolTypeOK
<1>2. PlaceInv'
    BY DEF PoolTypeOK, PlaceInv, PhaseInv, InReady, InDone, Chosen
<1>3. PhaseInv'
    BY DEF PoolTypeOK, PlaceInv, PhaseInv, TaskInv, InReady, InDone
<1>4. TaskInv'
    BY DEF PoolTypeOK, PlaceInv, PhaseInv, TaskInv, Busy, InReady, Tasks, NULL
<1>5. LatchInv'
    <2>1. Uncounted' = Uncounted
        BY DEF PoolTypeOK, PlaceInv, PhaseInv, Uncounted, InReady, InDone
    <2> QED BY <2>1 DEF LatchInv
<1> QED BY <1>1, <1>2, <1>3, <1>4, <1>5

\* A worker stores a time for its logical processor.
LEMMA StoreTimeIInv ==
    ASSUME NEW w \in Workers, IInv, StoreTime(w)
    PROVE  IInv'
<1> USE LpFacts, PoolAssumption DEF IInv
<1> USE DEF StoreTime, mainVars, lpVars
<1>1. PoolTypeOK'
    BY DEF PoolTypeOK
<1>2. PlaceInv'
    BY DEF PoolTypeOK, PlaceInv, PhaseInv, InReady, InDone, Chosen
<1>3. PhaseInv'
    BY DEF PoolTypeOK, PlaceInv, PhaseInv, TaskInv, InReady, InDone
<1>4. TaskInv'
    BY DEF PoolTypeOK, PlaceInv, PhaseInv, TaskInv, Busy, InReady, Tasks, NULL
<1>5. LatchInv'
    <2>1. Uncounted' = Uncounted
        BY DEF PoolTypeOK, PlaceInv, PhaseInv, Uncounted, InReady, InDone
    <2> QED BY <2>1 DEF LatchInv
<1> QED BY <1>1, <1>2, <1>3, <1>4, <1>5

\* The task of a worker ends.
LEMMA EndTaskIInv ==
    ASSUME NEW w \in Workers, IInv, EndTask(w)
    PROVE  IInv'
<1> USE LpFacts, PoolAssumption DEF IInv
<1> USE DEF EndTask, mainVars, lpVars
<1>1. PoolTypeOK'
    BY DEF PoolTypeOK
<1>2. PlaceInv'
    BY DEF PoolTypeOK, PlaceInv, PhaseInv, InReady, InDone, Chosen
<1>3. PhaseInv'
    BY DEF PoolTypeOK, PlaceInv, PhaseInv, TaskInv, InReady, InDone
<1>4. TaskInv'
    BY DEF PoolTypeOK, PlaceInv, PhaseInv, TaskInv, Busy, InReady, Tasks, NULL
<1>5. LatchInv'
    <2>1. Uncounted' = Uncounted
        BY DEF PoolTypeOK, PlaceInv, PhaseInv, Uncounted, InReady, InDone
    <2> QED BY <2>1 DEF LatchInv
<1> QED BY <1>1, <1>2, <1>3, <1>4, <1>5

\* A worker that is through enters the done queue of its logical processor.
LEMMA DonePushIInv ==
    ASSUME NEW w \in Workers, IInv, DonePush(w)
    PROVE  IInv'
<1> USE LpFacts, PoolAssumption DEF IInv
<1> USE DEF DonePush, mainVars
<1>1. PoolTypeOK'
    <2>1. wpc' \in [Workers -> {"new", "waiting", "running", "storing", "finished",
                               "pushed", "posting", "counting", "exited"}]
        BY DEF PoolTypeOK
    <2>2. done' \in [Lps -> SUBSET Workers]
        BY DEF PoolTypeOK
    <2> QED BY <2>1, <2>2 DEF PoolTypeOK
<1>2. PlaceInv'
    <2>1. lpIdx[w] \in Lps
        BY DEF PhaseInv
    <2>2. \A v \in Workers : InDone(v)' <=> v = w \/ InDone(v)
        BY <2>1 DEF InDone, PoolTypeOK
    <2>3. \A v \in Workers : \A l \in Lps :
              v \in done'[l] <=> v \in done[l] \/ (v = w /\ l = lpIdx[w])
        BY <2>1 DEF PoolTypeOK
    <2>4. ~InDone(w) /\ ~InReady(w) /\ ~Chosen(w) /\ sem[w] = 0
        BY DEF PlaceInv
    <2>5. \A v \in Workers : \A l, m \in Lps : v \in done'[l] /\ v \in done'[m] => l = m
        BY <2>3, <2>4 DEF PlaceInv, InDone
    <2>6. \A v \in Workers : (InReady(v)' <=> InReady(v)) /\ (Chosen(v)' <=> Chosen(v))
        BY DEF InReady, Chosen
    <2> QED BY <2>2, <2>4, <2>5, <2>6 DEF PoolTypeOK, PlaceInv
<1>3. PhaseInv'
    BY DEF PoolTypeOK, PlaceInv, PhaseInv, TaskInv, InReady, InDone
<1>4. TaskInv'
    BY DEF PoolTypeOK, PlaceInv, PhaseInv, TaskInv, Busy, InReady, Tasks, NULL
<1>5. LatchInv'
    <2>1. Uncounted' = Uncounted
        BY DEF PoolTypeOK, PlaceInv, PhaseInv, Uncounted, InReady, InDone
    <2> QED BY <2>1 DEF LatchInv
<1> QED BY <1>1, <1>2, <1>3, <1>4, <1>5

\* A worker chooses its successor from a ready queue, if there is one.
LEMMA PickNextIInv ==
    ASSUME NEW w \in Workers, IInv, PickNext(w)
    PROVE  IInv'
<1> USE LpFacts, PoolAssumption DEF IInv
<1> USE DEF PickNext, PopWorkerToRunOn, PopsFrom, NoneReady, mainVars
<1>1. PoolTypeOK'
    BY DEF PoolTypeOK
<1>2. PlaceInv'
    BY DEF PoolTypeOK, PlaceInv, PhaseInv, InReady, InDone, Chosen
<1>3. PhaseInv'
    BY DEF PoolTypeOK, PlaceInv, PhaseInv, TaskInv, InReady, InDone
<1>4. TaskInv'
    BY DEF PoolTypeOK, PlaceInv, PhaseInv, TaskInv, Busy, InReady, Tasks, NULL
<1>5. LatchInv'
    <2>1. Uncounted' = Uncounted
        BY DEF PoolTypeOK, PlaceInv, PhaseInv, Uncounted, InReady, InDone
    <2> QED BY <2>1 DEF LatchInv
<1> QED BY <1>1, <1>2, <1>3, <1>4, <1>5

\* A worker wakes the successor it has chosen.
LEMMA PostNextIInv ==
    ASSUME NEW w \in Workers, IInv, PostNext(w)
    PROVE  IInv'
<1> USE LpFacts, PoolAssumption DEF IInv
<1> USE DEF PostNext, mainVars, lpVars
<1>1. nextW[w] # -1 => nextW[w] \in Workers /\ sem[nextW[w]] = 0
    BY DEF PoolTypeOK, PlaceInv, Chosen
<1>2. PoolTypeOK'
    BY <1>1 DEF PoolTypeOK
<1>3. PlaceInv'
    BY DEF PoolTypeOK, PlaceInv, PhaseInv, InReady, InDone, Chosen
<1>4. PhaseInv'
    BY DEF PoolTypeOK, PlaceInv, PhaseInv, InReady, InDone
<1>5. TaskInv'
    BY DEF PoolTypeOK, TaskInv, Busy
<1>6. LatchInv'
    <2>1. Uncounted' = Uncounted
        BY DEF PoolTypeOK, Uncounted, InDone
    <2> QED BY <2>1 DEF LatchInv
<1> QED BY <1>2, <1>3, <1>4, <1>5, <1>6

\* A worker counts down the latch, which it has not done before.
LEMMA CountDownIInv ==
    ASSUME NEW w \in Workers, IInv, CountDown(w)
    PROVE  IInv'
<1> USE LpFacts, PoolAssumption DEF IInv
<1> USE DEF CountDown, mainVars, lpVars
<1>1. LatchInv'
    <2>1. w \in Uncounted /\ Uncounted' = Uncounted \ {w}
        BY DEF Uncounted, PoolTypeOK, PlaceInv, PhaseInv, InDone
    <2>2. Cardinality(Uncounted') = Cardinality(Uncounted) - 1
        BY <2>1, UncountedFinite, FS_RemoveElement
    <2> QED BY <2>2 DEF LatchInv
<1>2. PoolTypeOK'
    <2>1. latch' \in 0 .. NWorkers
        BY LatchPositive DEF PoolTypeOK, Uncounted, PhaseInv
    <2> QED BY <2>1 DEF PoolTypeOK
<1>3. PlaceInv'
    BY DEF PoolTypeOK, PlaceInv, PhaseInv, InReady, InDone, Chosen
<1>4. PhaseInv'
    BY DEF PoolTypeOK, PlaceInv, PhaseInv, TaskInv, InReady, InDone
<1>5. TaskInv'
    BY DEF PoolTypeOK, PlaceInv, PhaseInv, TaskInv, Busy, InReady, Tasks, NULL
<1> QED BY <1>1, <1>2, <1>3, <1>4, <1>5

\* Every step keeps the invariant.
LEMMA NextIInv == IInv /\ [PoolNext]_poolVars => IInv'
<1> SUFFICES ASSUME IInv, [PoolNext]_poolVars PROVE IInv'
    OBVIOUS
<1>1. CASE MainStep
    BY <1>1, PoolCreatedIInv, StartTaskIInv, StartLpIInv, StartedAllIInv,
       AwaitTaskIInv, JoinAllIInv DEF MainStep
<1>2. ASSUME NEW w \in Workers, WorkerStep(w) PROVE IInv'
    BY <1>2, WorkerInitIInv, BeginTaskIInv, ReportTimeIInv, StoreTimeIInv,
       EndTaskIInv, DonePushIInv, PickNextIInv, PostNextIInv, CountDownIInv
       DEF WorkerStep, WorkerProgress
<1>3. CASE UNCHANGED poolVars
    BY <1>3 DEF poolVars, IInv, PoolTypeOK, PlaceInv, PhaseInv, TaskInv, LatchInv,
                Uncounted, InReady, InDone, Chosen
<1> QED BY <1>1, <1>2, <1>3 DEF PoolNext, Stopped

\* The pool is in every reachable state in one of the states the code's
\* comments assume.
THEOREM IInvHolds == PoolSpec => []IInv
BY InitIInv, NextIInv, PTL DEF PoolSpec

\* Type correctness: in particular, no semaphore is ever posted twice and the
\* latch never leaves the range 0 .. NWorkers.
THEOREM TypeCorrect == PoolSpec => []PoolTypeOK
<1>1. IInv => PoolTypeOK
    BY DEF IInv
<1> QED BY <1>1, IInvHolds, PTL

\* countdownlatch_countDown never finds the latch at zero.
THEOREM LatchSafe == PoolSpec => []LatchNotExhausted
<1>1. IInv => LatchNotExhausted
    <2> SUFFICES ASSUME IInv, NEW w \in Workers, wpc[w] = "counting"
                 PROVE  latch > 0
        BY DEF LatchNotExhausted
    <2>1. w \in Uncounted
        BY DEF Uncounted, IInv, PhaseInv
    <2> QED BY <2>1, LatchPositive
<1> QED BY <1>1, IInvHolds, PTL

\* The task changes only while no worker runs.
THEOREM TaskFnStable == PoolSpec => TaskFnStableUnderWorkers
<1>1. IInv /\ [PoolNext]_poolVars =>
         [taskFn' # taskFn => \A w \in Workers : wpc[w] \in {"waiting", "exited"}]_poolVars
    <2> SUFFICES ASSUME IInv, PoolNext, taskFn' # taskFn
                 PROVE  \A w \in Workers : wpc[w] \in {"waiting", "exited"}
        OBVIOUS
    <2>1. AwaitTask \/ main = "idle"
        BY DEF PoolNext, MainStep, WorkerStep, WorkerProgress, Stopped, poolVars, mainVars,
               PoolCreated, StartTask, StartLp, StartedAll, JoinAll, WorkerInit, BeginTask,
               ReportTime, StoreTime, EndTask, DonePush, PickNext, PostNext, CountDown
    <2>2. CASE AwaitTask
        BY <2>2, AllCounted DEF AwaitTask, LatchOpen
    <2>3. CASE main = "idle"
        BY <2>3 DEF IInv, PhaseInv
    <2> QED BY <2>1, <2>2, <2>3
<1> QED BY <1>1, IInvHolds, PTL DEF PoolSpec, TaskFnStableUnderWorkers

-----------------------------------------------------------------------------
(***************************************************************************)
(* Logical processors                                                      *)
(***************************************************************************)
\* No step makes two workers hold the same logical processor.
LEMMA NextLpInv == IInv /\ LpInv /\ [PoolNext]_poolVars => LpInv'
<1> SUFFICES ASSUME IInv, LpInv, [PoolNext]_poolVars PROVE LpInv'
    OBVIOUS
<1> USE LpFacts, PoolAssumption DEF IInv, PoolTypeOK
<1>1. CASE PoolCreated
    BY <1>1 DEF PoolCreated, workerVars, LpInv, Holds, OnLp, PhaseInv, Chosen
<1>2. ASSUME NEW k \in Tasks, StartTask(k) PROVE LpInv'
    BY <1>2 DEF StartTask, LpInv, lpVars, Holds, OnLp, PhaseInv, PlaceInv, InReady, Chosen
<1>3. ASSUME NEW w \in Workers, StartLp(w) PROVE LpInv'
    <2> USE DEF StartLp, workerVars
    <2>1. InReady(w) /\ lpIdx' = [lpIdx EXCEPT ![w] = startLp]
        BY <1>3 DEF PopWorkerToRunOn, InReady
    <2>2. \A v \in Workers : Holds(v)' => v = w \/ Holds(v)
        BY <1>3 DEF Holds, OnLp, Chosen
    <2>3. \A v \in Workers : v # w => lpIdx'[v] = lpIdx[v]
        BY <2>1
    <2>4. lpIdx'[w] = startLp
        BY <2>1
    <2>5. \A v \in Workers : Holds(v) => lpIdx[v] < startLp
        BY <1>3 DEF LpInv
    <2>6. startLp \in Int /\ \A v \in Workers : lpIdx[v] \in Int
        <3>1. startLp \in Int
            OBVIOUS
        <3>2. \A v \in Workers : lpIdx[v] \in Lps
            BY <1>3 DEF PhaseInv
        <3> QED BY <3>1, <3>2 DEF Lps
    <2>7. ASSUME NEW u \in Workers, NEW v \in Workers, Holds(u)', Holds(v)', u # v
          PROVE  lpIdx'[u] # lpIdx'[v]
        BY <2>2, <2>3, <2>4, <2>5, <2>6, <2>7 DEF LpInv
    <2>8. ASSUME NEW v \in Workers, Holds(v)' PROVE lpIdx'[v] < startLp'
        BY <1>3, <2>2, <2>3, <2>4, <2>5, <2>6, <2>8
    <2> QED BY <2>7, <2>8 DEF LpInv
<1>4. CASE StartedAll \/ AwaitTask \/ JoinAll
    BY <1>4 DEF StartedAll, AwaitTask, JoinAll, LpInv, workerVars, lpVars, Holds, OnLp, Chosen
<1>5. ASSUME NEW w \in Workers, WorkerInit(w) PROVE LpInv'
    BY <1>5 DEF WorkerInit, mainVars, LpInv, Holds, OnLp, PhaseInv, Chosen
<1>6. ASSUME NEW w \in Workers, BeginTask(w) PROVE LpInv'
    BY <1>6 DEF BeginTask, mainVars, lpVars, LpInv, Holds, OnLp, Chosen
<1>7. ASSUME NEW w \in Workers, NEW t \in Times, ReportTime(w, t) PROVE LpInv'
    BY <1>7 DEF ReportTime, mainVars, lpVars, LpInv, Holds, OnLp, Chosen
<1>8. ASSUME NEW w \in Workers, StoreTime(w) \/ EndTask(w) \/ DonePush(w) PROVE LpInv'
    <2>1. UNCHANGED <<main, startLp, sem, nextW, lpIdx>>
        BY <1>8 DEF StoreTime, EndTask, DonePush, mainVars, lpVars
    <2>2. wpc[w] \in {"running", "storing", "finished"} /\ wpc'[w] \in {"running", "finished", "pushed"}
        BY <1>8 DEF StoreTime, EndTask, DonePush
    <2>3. \A v \in Workers : v # w => wpc'[v] = wpc[v]
        BY <1>8 DEF StoreTime, EndTask, DonePush
    <2>4. \A v \in Workers : Holds(v)' <=> Holds(v)
        BY <2>1, <2>2, <2>3 DEF Holds, OnLp, Chosen
    <2> QED BY <2>1, <2>4 DEF LpInv
<1>9. ASSUME NEW w \in Workers, PickNext(w) PROVE LpInv'
    <2>1. CASE NoneReady /\ nextW' = [nextW EXCEPT ![w] = -1] /\ lpIdx' = lpIdx
        BY <1>9, <2>1 DEF PickNext, mainVars, LpInv, Holds, OnLp, Chosen
    <2>2. ASSUME NEW n \in Workers, PopWorkerToRunOn(lpIdx[w], n),
                 nextW' = [nextW EXCEPT ![w] = n]
          PROVE  LpInv'
        <3>1. InReady(n)
            BY <2>2 DEF PopWorkerToRunOn, InReady
        <3>2. n # w /\ ~Holds(n) /\ Holds(w) /\ ~Holds(w)'
            BY <1>9, <3>1, <2>2 DEF PickNext, PlaceInv, Holds, OnLp, Chosen
        <3>3. \A v \in Workers : Holds(v)' => v = n \/ Holds(v)
            BY <1>9, <2>2 DEF PickNext, Holds, OnLp, Chosen
        <3>4. lpIdx' = [lpIdx EXCEPT ![n] = lpIdx[w]]
            BY <2>2 DEF PopWorkerToRunOn
        <3>5. \A v \in Workers : v # n => lpIdx'[v] = lpIdx[v]
            BY <3>4
        <3>6. lpIdx'[n] = lpIdx[w]
            BY <3>4
        <3>7. ASSUME NEW u \in Workers, NEW v \in Workers, Holds(u)', Holds(v)', u # v
              PROVE  lpIdx'[u] # lpIdx'[v]
            BY <3>2, <3>3, <3>5, <3>6, <3>7 DEF LpInv
        <3>8. ASSUME main' = "starting", NEW v \in Workers, Holds(v)'
              PROVE  lpIdx'[v] < startLp'
            BY <1>9, <3>2, <3>3, <3>5, <3>6, <3>8 DEF PickNext, mainVars, LpInv
        <3> QED BY <3>7, <3>8 DEF LpInv
    <2> QED BY <1>9, <2>1, <2>2 DEF PickNext
<1>10. ASSUME NEW w \in Workers, PostNext(w) \/ CountDown(w) PROVE LpInv'
    BY <1>10 DEF PostNext, CountDown, mainVars, lpVars, LpInv, Holds, OnLp, Chosen, PlaceInv
<1>11. CASE UNCHANGED poolVars
    BY <1>11 DEF poolVars, LpInv, Holds, OnLp, Chosen
<1> QED
    BY <1>1, <1>2, <1>3, <1>4, <1>5, <1>6, <1>7, <1>8, <1>9, <1>10, <1>11
       DEF PoolNext, Stopped, MainStep, WorkerStep, WorkerProgress

\* "Only one worker runs on an lp at a time", for any number of workers and
\* logical processors.
THEOREM OneWorkerPerLpHolds == PoolSpec => []OneWorkerPerLp
<1>1. PoolInit => LpInv
    BY LpFacts DEF PoolInit, LpInv, Holds, OnLp, Chosen
<1>2. LpInv => OneWorkerPerLp
    BY DEF LpInv, OneWorkerPerLp, Holds
<1> QED BY <1>1, <1>2, NextLpInv, IInvHolds, PTL DEF PoolSpec

-----------------------------------------------------------------------------
(***************************************************************************)
(* Every worker takes every task once                                      *)
(***************************************************************************)
\* No step makes a worker take a task twice, or a task end without it.
LEMMA NextRanInv == IInv /\ RanInv /\ [PoolNext]_poolVars => RanInv'
<1> SUFFICES ASSUME IInv, RanInv, [PoolNext]_poolVars PROVE RanInv'
    OBVIOUS
<1> USE LpFacts, PoolAssumption DEF IInv, PoolTypeOK, RanInv
<1>1. CASE PoolCreated
    BY <1>1 DEF PoolCreated, workerVars, PhaseInv
<1>2. ASSUME NEW k \in Tasks, StartTask(k) PROVE RanInv'
    BY <1>2 DEF StartTask, lpVars, PhaseInv, PlaceInv, InReady, InDone, Busy
<1>3. ASSUME NEW w \in Workers, StartLp(w) PROVE RanInv'
    BY <1>3 DEF StartLp, PopWorkerToRunOn, workerVars, PlaceInv, InReady, InDone, Chosen
<1>4. CASE StartedAll \/ JoinAll
    BY <1>4 DEF StartedAll, JoinAll, workerVars, lpVars, InReady, InDone, Chosen
<1>5. CASE AwaitTask
    BY <1>5, AllCounted DEF AwaitTask, LatchOpen, workerVars
<1>6. ASSUME NEW w \in Workers, WorkerInit(w) PROVE RanInv'
    BY <1>6 DEF WorkerInit, mainVars, PhaseInv
<1>7. ASSUME NEW w \in Workers, BeginTask(w) PROVE RanInv'
    BY <1>7 DEF BeginTask, mainVars, lpVars, PlaceInv, PhaseInv, InReady, InDone, Chosen, Busy
<1>8. ASSUME NEW w \in Workers, NEW t \in Times, ReportTime(w, t) PROVE RanInv'
    BY <1>8 DEF ReportTime, mainVars, lpVars, InReady, InDone, Chosen, Busy
<1>9. ASSUME NEW w \in Workers, StoreTime(w) \/ EndTask(w) PROVE RanInv'
    BY <1>9 DEF StoreTime, EndTask, mainVars, lpVars, InReady, InDone, Chosen, Busy
<1>10. ASSUME NEW w \in Workers, DonePush(w) PROVE RanInv'
    BY <1>10 DEF DonePush, mainVars, InReady, InDone, Chosen, Busy
<1>11. ASSUME NEW w \in Workers, PickNext(w) PROVE RanInv'
    BY <1>11 DEF PickNext, PopWorkerToRunOn, mainVars, InReady, InDone, Chosen, Busy
<1>12. ASSUME NEW w \in Workers, PostNext(w) PROVE RanInv'
    BY <1>12 DEF PostNext, mainVars, lpVars, InReady, InDone, Chosen, Busy
<1>13. ASSUME NEW w \in Workers, CountDown(w) PROVE RanInv'
    BY <1>13 DEF CountDown, mainVars, lpVars, InReady, InDone, Chosen, Busy
<1>14. CASE UNCHANGED poolVars
    BY <1>14 DEF poolVars, InReady, InDone, Chosen
<1> QED
    BY <1>1, <1>2, <1>3, <1>4, <1>5, <1>6, <1>7, <1>8, <1>9, <1>10, <1>11, <1>12,
       <1>13, <1>14
       DEF PoolNext, Stopped, MainStep, WorkerStep, WorkerProgress

\* When workerpool_awaitTaskFn returns, every worker has taken the task exactly
\* once.
THEOREM EveryWorkerRanOnceHolds == PoolSpec => []EveryWorkerRanOnce
<1>1. PoolInit => RanInv
    BY DEF PoolInit, RanInv
<1>2. IInv /\ RanInv => EveryWorkerRanOnce
    BY DEF RanInv, EveryWorkerRanOnce
<1> QED BY <1>1, <1>2, NextRanInv, IInvHolds, PTL DEF PoolSpec

-----------------------------------------------------------------------------
(***************************************************************************)
(* The time of the next round                                              *)
(***************************************************************************)
\* No step loses the least time reported: as only one worker holds a logical
\* processor, nobody else stores between its comparison and its store.
LEMMA NextMinInv == IInv /\ LpInv /\ MinInv /\ [PoolNext]_poolVars => MinInv'
<1> SUFFICES ASSUME IInv, LpInv, MinInv, [PoolNext]_poolVars PROVE MinInv'
    OBVIOUS
<1> USE LpFacts, PoolAssumption DEF IInv, PoolTypeOK, MinInv
<1>0. /\ reportedMin \in Nat
      /\ \A l \in Lps : minTimes[l] \in Nat
      /\ \A w \in Workers : wtime[w] \in Nat
    OBVIOUS
<1>1. CASE PoolCreated
    BY <1>1 DEF PoolCreated, workerVars, PhaseInv, NULL
<1>2. ASSUME NEW k \in Tasks, StartTask(k) PROVE MinInv'
    BY <1>2 DEF StartTask, lpVars, PhaseInv
<1>3. ASSUME NEW w \in Workers, StartLp(w) PROVE MinInv'
    BY <1>3 DEF StartLp, PopWorkerToRunOn, workerVars, PlaceInv, PhaseInv, InReady
<1>4. CASE StartedAll \/ JoinAll
    BY <1>4 DEF StartedAll, JoinAll, workerVars, lpVars
<1>5. CASE AwaitTask
    <2>1. \A w \in Workers : wpc[w] # "storing" /\ wpc'[w] # "storing"
        BY <1>5, AllCounted DEF AwaitTask, LatchOpen, workerVars
    <2>2. \A l \in Lps : reportedMin' <= minTimes'[l] /\ minTimes'[l] = SIMTIME_MAX
        BY <1>5 DEF AwaitTask
    <2>3. task = "runEvents" => collected' = reportedMin'
        <3> SUFFICES ASSUME task = "runEvents" PROVE LeastMinTime = reportedMin
            BY <1>5 DEF AwaitTask
        <3>1. PICK l \in Lps : minTimes[l] = reportedMin
            BY <1>5, <2>1 DEF AwaitTask
        <3>2. PICK m \in Lps : LeastMinTime = minTimes[m]
            BY LeastMinTimeIsLeast
        <3>3. LeastMinTime <= minTimes[l] /\ reportedMin <= minTimes[m]
            BY LeastMinTimeIsLeast
        <3> QED BY <1>0, <3>1, <3>2, <3>3
    <2> QED BY <1>5, <2>1, <2>2, <2>3 DEF AwaitTask
<1>6. ASSUME NEW w \in Workers, WorkerInit(w) PROVE MinInv'
    BY <1>6 DEF WorkerInit, mainVars, PhaseInv
<1>7. ASSUME NEW w \in Workers, BeginTask(w) PROVE MinInv'
    BY <1>7 DEF BeginTask, mainVars, lpVars
<1>8. ASSUME NEW w \in Workers, NEW t \in Times, ReportTime(w, t) PROVE MinInv'
    <2> USE DEF ReportTime, mainVars, lpVars
    <2>1. /\ lpIdx[w] \in Lps /\ wfn[w] = taskFn /\ ~InReady(w)
          /\ main \in {"starting", "awaiting"} /\ task = "runEvents"
        BY <1>8 DEF PhaseInv, TaskInv, PlaceInv, Busy, NULL
    <2>2. reportedMin' <= reportedMin /\ reportedMin' <= t
          /\ reportedMin' \in {t, reportedMin}
        BY <1>8 DEF Lesser
    <2>3. CASE IsEarlier(w, t)
        <3>1. /\ wtime' = [wtime EXCEPT ![w] = t]
              /\ wpc' = [wpc EXCEPT ![w] = "storing"]
              /\ t < minTimes[lpIdx[w]]
            BY <1>8, <2>3 DEF IsEarlier
        <3>2. \A l \in Lps : reportedMin' <= minTimes'[l]
            BY <1>0, <1>8, <2>2
        <3>3. \A v \in Workers : wpc'[v] = "storing" =>
                 wfn'[v] = "runEvents" /\ reportedMin' <= wtime'[v]
                 /\ wtime'[v] < minTimes'[lpIdx'[v]]
            BY <1>0, <1>8, <2>2, <3>1
        <3>4. \/ \E l \in Lps : minTimes'[l] = reportedMin'
              \/ \E v \in Workers : wpc'[v] = "storing" /\ wtime'[v] = reportedMin'
            <4>1. CASE reportedMin' = t
                BY <3>1, <4>1
            <4>2. CASE reportedMin' = reportedMin
                <5>1. CASE \E l \in Lps : minTimes[l] = reportedMin
                    BY <1>8, <4>2, <5>1
                <5>2. ASSUME NEW v \in Workers, wpc[v] = "storing", wtime[v] = reportedMin
                      PROVE  wpc'[v] = "storing" /\ wtime'[v] = reportedMin'
                    BY <1>8, <3>1, <4>2, <5>2
                <5> QED BY <2>1, <5>1, <5>2
            <4> QED BY <2>2, <4>1, <4>2
        <3> QED BY <1>8, <2>1, <3>2, <3>3, <3>4
    <2>4. CASE ~IsEarlier(w, t)
        <3>0. t \in Nat
            OBVIOUS
        <3>1. UNCHANGED <<wtime, wpc>> /\ minTimes[lpIdx[w]] <= t
            <4>1. UNCHANGED <<wtime, wpc>> /\ ~(t < minTimes[lpIdx[w]])
                BY <1>8, <2>4 DEF IsEarlier
            <4>2. minTimes[lpIdx[w]] \in Nat
                BY <1>0, <2>1
            <4> QED BY <3>0, <4>1, <4>2
        <3>2. reportedMin' = reportedMin
            <4>1. reportedMin <= t
                <5>1. reportedMin <= minTimes[lpIdx[w]] /\ minTimes[lpIdx[w]] \in Nat
                    BY <1>0, <2>1
                <5> QED BY <1>0, <3>0, <3>1, <5>1
            <4> QED BY <1>0, <1>8, <3>0, <4>1 DEF Lesser
        <3> QED BY <1>8, <3>1, <3>2
    <2> QED BY <2>3, <2>4
<1>9. ASSUME NEW w \in Workers, StoreTime(w) PROVE MinInv'
    <2> USE DEF StoreTime, mainVars, lpVars
    <2>1. /\ lpIdx[w] \in Lps /\ wfn[w] = taskFn /\ ~InReady(w)
          /\ main \in {"starting", "awaiting"} /\ task = "runEvents"
        BY <1>9 DEF PhaseInv, TaskInv, PlaceInv, Busy, NULL
    <2>2. \A v \in Workers : v # w /\ wpc[v] = "storing" => lpIdx[v] # lpIdx[w]
        BY <1>9 DEF LpInv, Holds, OnLp
    <2>3. /\ \A l \in Lps : reportedMin' <= minTimes'[l]
          /\ \A v \in Workers : wpc'[v] = "storing" =>
                wfn'[v] = "runEvents" /\ reportedMin' <= wtime'[v]
                /\ wtime'[v] < minTimes'[lpIdx'[v]]
        BY <1>9, <2>1, <2>2
    <2>4. \/ \E l \in Lps : minTimes'[l] = reportedMin'
          \/ \E v \in Workers : wpc'[v] = "storing" /\ wtime'[v] = reportedMin'
        <3>1. wtime[w] < minTimes[lpIdx[w]] /\ reportedMin <= wtime[w]
            BY <1>9
        <3>2. ASSUME NEW l \in Lps, minTimes[l] = reportedMin
              PROVE  minTimes'[l] = reportedMin'
            BY <1>0, <1>9, <2>1, <3>1, <3>2
        <3>3. ASSUME NEW v \in Workers, wpc[v] = "storing", wtime[v] = reportedMin
              PROVE  \/ minTimes'[lpIdx[w]] = reportedMin'
                     \/ wpc'[v] = "storing" /\ wtime'[v] = reportedMin'
            BY <1>9, <2>1, <3>3
        <3> QED BY <2>1, <3>2, <3>3
    <2> QED BY <1>9, <2>1, <2>3, <2>4
<1>10. ASSUME NEW w \in Workers, EndTask(w) \/ DonePush(w) \/ PostNext(w) \/ CountDown(w) PROVE MinInv'
    BY <1>10 DEF EndTask, DonePush, PostNext, CountDown, mainVars, lpVars
<1>11. ASSUME NEW w \in Workers, PickNext(w) PROVE MinInv'
    BY <1>11 DEF PickNext, PopWorkerToRunOn, mainVars, PlaceInv, InReady
<1>12. CASE UNCHANGED poolVars
    BY <1>12 DEF poolVars
<1> QED
    BY <1>1, <1>2, <1>3, <1>4, <1>5, <1>6, <1>7, <1>8, <1>9, <1>10, <1>11, <1>12
       DEF PoolNext, Stopped, MainStep, WorkerStep, WorkerProgress

\* The unlocked compare-and-store of minEventTimes loses no time: the next
\* round starts at the least time any worker reported.
THEOREM NextRoundTimeExactHolds == PoolSpec => []NextRoundTimeExact
<1>1. PoolInit => MinInv /\ LpInv
    BY LpFacts, PoolAssumption DEF PoolInit, MinInv, LpInv, Holds, OnLp, Chosen
<1>2. MinInv => NextRoundTimeExact
    BY DEF MinInv, NextRoundTimeExact
<1> QED BY <1>1, <1>2, NextMinInv, NextLpInv, IInvHolds, PTL DEF PoolSpec
=============================================================================
