----------------------------- MODULE WorkerPool -----------------------------
(***************************************************************************)
(* The pool of worker threads that runs every phase of a simulation        *)
(* (src/phantom/src/main/core/worker.c), the logical processors it         *)
(* multiplexes the workers on (logical_processor.rs) and the latch the     *)
(* main thread waits on (count_down_latch.c).                              *)
(*                                                                         *)
(* The main thread hands one task at a time to all workers: it wakes one   *)
(* worker per logical processor, and each worker, when it is through,      *)
(* wakes the next one for the logical processor it ran on.  A ready or     *)
(* done queue is a set here: SegQueue keeps an order, and nothing depends  *)
(* on it.  A scan of the ready queues is one step: while workers run, the  *)
(* ready queues only shrink, so a queue found empty stays empty.           *)
(***************************************************************************)
EXTENDS Integers, FiniteSets

CONSTANTS
    NWorkers,     \* number of worker threads
    NParallel,    \* configured parallelism
    MaxRounds,    \* bound: number of runEvents tasks
    Times,        \* times past the round's end, which a worker may report
    SIMTIME_MAX   \* "no event"

ASSUME PoolAssumption ==
    /\ NWorkers \in Nat \ {0}
    /\ NParallel \in Nat \ {0}
    /\ MaxRounds \in Nat
    /\ Times \subseteq Nat
    /\ SIMTIME_MAX \in Nat
    /\ \A t \in Times : t < SIMTIME_MAX

Workers == 0 .. NWorkers - 1

NLps == IF NParallel < NWorkers THEN NParallel ELSE NWorkers

Lps == 0 .. NLps - 1

NULL == "NULL"

Tasks == {"startHosts", "runEvents", "finish", "exit"}

VARIABLES
    main,      \* what the main thread is doing
    task,      \* the task the main thread last handed out
    taskFn,    \* pool->taskFn; NULL both between tasks and for "exit"
    startLp,   \* loop index of _workerpool_startTaskFn
    rounds,    \* number of runEvents tasks handed out
    latch,     \* finishLatch->count
    sem,       \* workerBeginSems
    wpc,       \* what each worker is doing
    wfn,       \* the worker's local taskFn
    wtime,     \* the time a worker is about to store in minEventTimes
    lpIdx,     \* workerLogicalProcessorIdxs
    nextW,     \* nextWorkerID, a worker's local variable
    ready,     \* ready_workers of each logical processor
    done,      \* done_workers of each logical processor
    minTimes,  \* minEventTimes, one per logical processor
    \* history: how often each worker took the current task, the least time
    \* reported in the current round and the time the main thread computed
    timesRun, reportedMin, collected

mainVars == <<main, task, taskFn, startLp, rounds, collected>>
workerVars == <<wpc, wfn, wtime, nextW, timesRun>>
lpVars == <<lpIdx, ready, done>>
poolVars == <<main, task, taskFn, startLp, rounds, latch, sem, wpc, wfn, wtime,
              lpIdx, nextW, ready, done, minTimes, timesRun, reportedMin, collected>>

Lesser(a, b) == IF a < b THEN a ELSE b

\* Type correctness: semaphores at most 1, the latch between 0 and NWorkers.
PoolTypeOK ==
    /\ main \in {"creating", "idle", "starting", "awaiting", "joining", "joined"}
    /\ task \in Tasks \cup {NULL}
    /\ taskFn \in (Tasks \ {"exit"}) \cup {NULL}
    /\ startLp \in 0 .. NLps
    /\ rounds \in 0 .. MaxRounds
    /\ latch \in 0 .. NWorkers
    /\ sem \in [Workers -> {0, 1}]
    /\ wpc \in [Workers -> {"new", "waiting", "running", "storing", "finished",
                            "pushed", "posting", "counting", "exited"}]
    /\ wfn \in [Workers -> (Tasks \ {"exit"}) \cup {NULL}]
    /\ wtime \in [Workers -> Times \cup {SIMTIME_MAX}]
    /\ lpIdx \in [Workers -> Lps \cup {-1}]
    /\ nextW \in [Workers -> Workers \cup {-1}]
    /\ ready \in [Lps -> SUBSET Workers]
    /\ done \in [Lps -> SUBSET Workers]
    /\ minTimes \in [Lps -> Times \cup {SIMTIME_MAX}]
    /\ timesRun \in [Workers -> Nat]
    /\ reportedMin \in Times \cup {SIMTIME_MAX}
    /\ collected \in Times \cup {SIMTIME_MAX}

(***************************************************************************)
(* Creation: every thread initializes its row of the pool and counts down; *)
(* then the main thread distributes the workers over the logical           *)
(* processors.                                                             *)
(***************************************************************************)
PoolInit ==
    /\ main = "creating" /\ task = NULL /\ taskFn = NULL
    /\ startLp = 0 /\ rounds = 0 /\ latch = NWorkers
    /\ sem = [w \in Workers |-> 0]
    /\ wpc = [w \in Workers |-> "new"]
    /\ wfn = [w \in Workers |-> NULL]
    /\ wtime = [w \in Workers |-> SIMTIME_MAX]
    /\ lpIdx = [w \in Workers |-> 0]
    /\ nextW = [w \in Workers |-> -1]
    /\ ready = [l \in Lps |-> {}]
    /\ done = [l \in Lps |-> {}]
    /\ minTimes = [l \in Lps |-> SIMTIME_MAX]
    /\ timesRun = [w \in Workers |-> 0]
    /\ reportedMin = SIMTIME_MAX /\ collected = SIMTIME_MAX

WorkerInit(w) ==
    /\ wpc[w] = "new"
    /\ lpIdx' = [lpIdx EXCEPT ![w] = -1]
    /\ latch' = latch - 1
    /\ wpc' = [wpc EXCEPT ![w] = "waiting"]
    /\ UNCHANGED <<mainVars, sem, wfn, wtime, nextW, ready, done, minTimes,
                   timesRun, reportedMin>>

\* Faulty variant: a wake-up is taken for the end of the wait, without another
\* look at the count.
LatchOpenNoRecheck == latch < NWorkers

\* countdownlatch_await
LatchOpen == latch = 0

\* countdownlatch_reset
LatchReset == latch' = NWorkers

PoolCreated ==
    /\ main = "creating"
    /\ LatchOpen
    /\ LatchReset
    /\ ready' = [l \in Lps |-> {w \in Workers : w % NLps = l}]
    /\ lpIdx' = [w \in Workers |-> w % NLps]
    /\ main' = "idle"
    /\ UNCHANGED <<task, taskFn, startLp, rounds, sem, workerVars, done,
                   minTimes, reportedMin, collected>>

(***************************************************************************)
(* The main thread.  manager_run and scheduler_shutdown hand out the tasks *)
(* in this order.                                                          *)
(***************************************************************************)

MayFollow(k) ==
    \/ task = NULL /\ k = "startHosts"
    \/ task = "startHosts" /\ k = "runEvents"
    \/ task = "runEvents" /\ k \in {"runEvents", "finish"}
    \/ task = "finish" /\ k = "exit"

StartTask(k) ==
    /\ main = "idle"
    /\ MayFollow(k)
    /\ k = "runEvents" => rounds < MaxRounds
    /\ rounds' = IF k = "runEvents" THEN rounds + 1 ELSE rounds
    /\ task' = k
    /\ taskFn' = IF k = "exit" THEN NULL ELSE k
    /\ startLp' = 0
    /\ timesRun' = [w \in Workers |-> 0]
    /\ reportedMin' = SIMTIME_MAX
    /\ main' = "starting"
    /\ UNCHANGED <<latch, sem, wpc, wfn, wtime, nextW, lpVars, minTimes, collected>>

\* The queues are tried in round-robin order, starting with lpi's own.
Distance(lpi, l) == IF l < lpi THEN l + NLps - lpi ELSE l - lpi

PopsFrom(lpi, l) ==
    /\ ready[l] # {}
    /\ \A m \in Lps : Distance(lpi, m) < Distance(lpi, l) => ready[m] = {}

NoneReady == \A l \in Lps : ready[l] = {}

\* Faulty variant: a worker taken over keeps its own logical processor.
PopWorkerKeepsLp(lpi, w) ==
    \E l \in Lps :
        /\ PopsFrom(lpi, l)
        /\ w \in ready[l]
        /\ ready' = [ready EXCEPT ![l] = @ \ {w}]
        /\ lpIdx' = [lpIdx EXCEPT ![w] = l]

\* w is taken from a ready queue to run on lpi.
PopWorkerToRunOn(lpi, w) ==
    \E l \in Lps :
        /\ PopsFrom(lpi, l)
        /\ w \in ready[l]
        /\ ready' = [ready EXCEPT ![l] = @ \ {w}]
        /\ lpIdx' = [lpIdx EXCEPT ![w] = lpi]

StartLp(w) ==
    /\ main = "starting"
    /\ startLp < NLps
    /\ PopWorkerToRunOn(startLp, w)
    /\ sem' = [sem EXCEPT ![w] = @ + 1]
    /\ startLp' = startLp + 1
    /\ UNCHANGED <<main, task, taskFn, rounds, latch, workerVars, done,
                   minTimes, reportedMin, collected>>

StartedAll ==
    /\ main = "starting"
    /\ startLp = NLps \/ NoneReady
    /\ main' = "awaiting"
    /\ UNCHANGED <<task, taskFn, startLp, rounds, latch, sem, workerVars,
                   lpVars, minTimes, reportedMin, collected>>

LeastMinTime ==
    CHOOSE t \in {minTimes[l] : l \in Lps} : \A l \in Lps : t <= minTimes[l]

\* workerpool_awaitTaskFn, and after a round workerpool_getGlobalNextEventTime.
AwaitTask ==
    /\ main = "awaiting"
    /\ LatchOpen
    /\ LatchReset
    /\ taskFn' = NULL
    /\ ready' = done
    /\ done' = ready
    /\ IF task = "runEvents"
       THEN /\ collected' = LeastMinTime
            /\ minTimes' = [l \in Lps |-> SIMTIME_MAX]
       ELSE UNCHANGED <<collected, minTimes>>
    /\ main' = IF task = "exit" THEN "joining" ELSE "idle"
    /\ UNCHANGED <<task, startLp, rounds, sem, workerVars, lpIdx,
                   reportedMin>>

JoinAll ==
    /\ main = "joining"
    /\ \A w \in Workers : wpc[w] = "exited"
    /\ main' = "joined"
    /\ UNCHANGED <<task, taskFn, startLp, rounds, latch, sem, workerVars,
                   lpVars, minTimes, reportedMin, collected>>

(***************************************************************************)
(* A worker: _worker_run.                                                  *)
(***************************************************************************)
BeginTask(w) ==
    /\ wpc[w] = "waiting"
    /\ sem[w] > 0
    /\ sem' = [sem EXCEPT ![w] = @ - 1]
    /\ wfn' = [wfn EXCEPT ![w] = taskFn]
    /\ timesRun' = [timesRun EXCEPT ![w] = @ + 1]
    /\ wpc' = [wpc EXCEPT ![w] = "running"]
    /\ UNCHANGED <<mainVars, latch, wtime, nextW, lpVars, minTimes, reportedMin>>

\* Faulty variant: the last time reported wins, not the least.
AlwaysEarlier(w, t) == TRUE

IsEarlier(w, t) == t < minTimes[lpIdx[w]]

\* worker_setMinEventTimeNextRound: compare and store are two steps, and no
\* lock protects them.
ReportTime(w, t) ==
    /\ wpc[w] = "running"
    /\ wfn[w] = "runEvents"
    /\ reportedMin' = Lesser(t, reportedMin)
    /\ IF IsEarlier(w, t)
       THEN /\ wtime' = [wtime EXCEPT ![w] = t]
            /\ wpc' = [wpc EXCEPT ![w] = "storing"]
       ELSE UNCHANGED <<wtime, wpc>>
    /\ UNCHANGED <<mainVars, latch, sem, wfn, nextW, lpVars, minTimes, timesRun>>

StoreTime(w) ==
    /\ wpc[w] = "storing"
    /\ minTimes' = [minTimes EXCEPT ![lpIdx[w]] = wtime[w]]
    /\ wtime' = [wtime EXCEPT ![w] = SIMTIME_MAX]
    /\ wpc' = [wpc EXCEPT ![w] = "running"]
    /\ UNCHANGED <<mainVars, latch, sem, wfn, nextW, lpVars, timesRun, reportedMin>>

EndTask(w) ==
    /\ wpc[w] = "running"
    /\ wpc' = [wpc EXCEPT ![w] = "finished"]
    /\ UNCHANGED <<mainVars, latch, sem, wfn, wtime, nextW, lpVars, minTimes,
                   timesRun, reportedMin>>

\* Faulty variant: a worker that is through is made ready again.
DonePushReady(w) ==
    /\ wpc[w] = "finished"
    /\ ready' = [ready EXCEPT ![lpIdx[w]] = @ \cup {w}]
    /\ wpc' = [wpc EXCEPT ![w] = "pushed"]
    /\ UNCHANGED <<mainVars, latch, sem, wfn, wtime, nextW, lpIdx, done,
                   minTimes, timesRun, reportedMin>>

DonePush(w) ==
    /\ wpc[w] = "finished"
    /\ done' = [done EXCEPT ![lpIdx[w]] = @ \cup {w}]
    /\ wpc' = [wpc EXCEPT ![w] = "pushed"]
    /\ UNCHANGED <<mainVars, latch, sem, wfn, wtime, nextW, lpIdx, ready,
                   minTimes, timesRun, reportedMin>>

PickNext(w) ==
    /\ wpc[w] = "pushed"
    /\ wpc' = [wpc EXCEPT ![w] = "posting"]
    /\ \/ \E n \in Workers :
             /\ PopWorkerToRunOn(lpIdx[w], n)
             /\ nextW' = [nextW EXCEPT ![w] = n]
       \/ /\ NoneReady
          /\ nextW' = [nextW EXCEPT ![w] = -1]
          /\ UNCHANGED <<ready, lpIdx>>
    /\ UNCHANGED <<mainVars, latch, sem, wfn, wtime, done, minTimes, timesRun,
                   reportedMin>>

\* Faulty variant: a worker that exits does not wake the next one.
PostNextUnlessExiting(w) ==
    /\ wpc[w] = "posting"
    /\ sem' = IF nextW[w] = -1 \/ wfn[w] = NULL THEN sem
              ELSE [sem EXCEPT ![nextW[w]] = @ + 1]
    /\ nextW' = [nextW EXCEPT ![w] = -1]
    /\ wpc' = [wpc EXCEPT ![w] = "counting"]
    /\ UNCHANGED <<mainVars, latch, wfn, wtime, lpVars, minTimes, timesRun, reportedMin>>

PostNext(w) ==
    /\ wpc[w] = "posting"
    /\ sem' = IF nextW[w] = -1 THEN sem ELSE [sem EXCEPT ![nextW[w]] = @ + 1]
    /\ nextW' = [nextW EXCEPT ![w] = -1]
    /\ wpc' = [wpc EXCEPT ![w] = "counting"]
    /\ UNCHANGED <<mainVars, latch, wfn, wtime, lpVars, minTimes, timesRun, reportedMin>>

CountDown(w) ==
    /\ wpc[w] = "counting"
    /\ latch' = latch - 1
    /\ wpc' = [wpc EXCEPT ![w] = IF wfn[w] = NULL THEN "exited" ELSE "waiting"]
    /\ wfn' = [wfn EXCEPT ![w] = NULL]
    /\ UNCHANGED <<mainVars, sem, wtime, nextW, lpVars, minTimes, timesRun, reportedMin>>

-----------------------------------------------------------------------------
MainStep ==
    \/ PoolCreated
    \/ \E k \in Tasks : StartTask(k)
    \/ \E w \in Workers : StartLp(w)
    \/ StartedAll
    \/ AwaitTask
    \/ JoinAll

\* Every step of a worker but ReportTime, which a task need not take.
WorkerProgress(w) ==
    \/ WorkerInit(w)
    \/ BeginTask(w)
    \/ StoreTime(w)
    \/ EndTask(w)
    \/ DonePush(w)
    \/ PickNext(w)
    \/ PostNext(w)
    \/ CountDown(w)

WorkerStep(w) == WorkerProgress(w) \/ \E t \in Times : ReportTime(w, t)

\* The pool has been joined: nothing is left to do.
Stopped == main = "joined" /\ UNCHANGED poolVars

PoolNext == MainStep \/ (\E w \in Workers : WorkerStep(w)) \/ Stopped

PoolSpec == PoolInit /\ [][PoolNext]_poolVars

(***************************************************************************)
(* The operating system runs every thread that can run; a task ends.       *)
(***************************************************************************)
PoolFairness ==
    /\ WF_poolVars(MainStep)
    /\ \A w \in Workers : WF_poolVars(WorkerProgress(w))

FairPoolSpec == PoolSpec /\ PoolFairness

-----------------------------------------------------------------------------
(***************************************************************************)
(* Properties                                                              *)
(***************************************************************************)

\* Where a worker holds the logical processor it runs on.
OnLp(w) == wpc[w] \in {"running", "storing", "finished", "pushed"}

\* "Only one worker runs on an lp at a time" (worker.c, minEventTimes): two
\* workers that hold a logical processor, one of which may be preempted
\* anywhere between its wake-up and the choice of its successor, never hold
\* the same one, whatever workers were taken over from other processors.
OneWorkerPerLp ==
    \A v, w \in Workers : OnLp(v) /\ OnLp(w) /\ v # w => lpIdx[v] # lpIdx[w]

\* When workerpool_awaitTaskFn returns, every worker has taken the task, and
\* none has taken it twice, although the workers are woken by one another.
EveryWorkerRanOnce ==
    /\ main \in {"idle", "joining", "joined"} /\ task # NULL =>
          \A w \in Workers : timesRun[w] = 1
    /\ \A w \in Workers : timesRun[w] <= 1

\* The assertion of countdownlatch_countDown: no worker counts down a latch
\* that is already at zero, so no countdown of one task is taken for one of
\* the next.
LatchNotExhausted == \A w \in Workers : wpc[w] = "counting" => latch > 0

\* The unlocked compare-and-store in worker_setMinEventTimeNextRound loses no
\* update: the time the main thread computes for the next round is the least
\* time any worker reported during the round.
NextRoundTimeExact ==
    main = "idle" /\ task = "runEvents" => collected = reportedMin

\* pool->taskFn is "written-to only [...] while workers aren't running"
\* (struct _WorkerPool): no step changes it under a worker's feet.
TaskFnStableUnderWorkers ==
    [][taskFn' # taskFn =>
         \A w \in Workers : wpc[w] \in {"waiting", "exited"}]_poolVars

\* Once a worker thread has started, every task that is handed out is completed
\* by all workers, and in the end all threads are joined: no wake-up is lost
\* between the main thread, the semaphores and the latch.
PoolShutsDown == (\E w \in Workers : wpc[w] # "new") ~> (main = "joined")
=============================================================================
