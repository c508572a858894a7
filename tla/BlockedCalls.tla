---------------------------- MODULE BlockedCalls ----------------------------
(***************************************************************************)
(* Blocked system calls of the threads of one managed process: conditions  *)
(* (host/syscall_condition.c) that wait for a descriptor, a futex          *)
(* (host/futex.c) or a timeout, the system calls that block on them, and   *)
(* the process and thread code that continues a thread or cancels its      *)
(* condition.  A host executes one task at a time, in the order of their   *)
(* times and then of their scheduling; a continued thread runs until it    *)
(* blocks or exits before the next task starts.  What a thread calls is    *)
(* any of Ops.  The shared descriptor stands for the one it reads, polls or*)
(* waits for with epoll, whose own status follows at once.                 *)
(***************************************************************************)
EXTENDS Timer, Sequences, FiniteSets, Functions

CONSTANTS
    Threads, Main,   \* threads the process may have; the first one
    Futexes,         \* addresses of futexes
    TidAddress,      \* per thread its clear_child_tid, or NoFutex
    NoFutex, NoThread, File,
    Conds,           \* storage for conditions
    Ops,             \* the system calls threads make
    Timeouts,        \* timeouts they give
    StopTime,        \* when the process is to be stopped, 0 for never
    EndTime,         \* end of the simulation
    Wakeups,         \* numbers of waiters a futex wake asks for
    MaxCalls,        \* bound on the system calls that threads start
    MaxArrivals      \* bound on the data that arrives

ASSUME BlockedCallsAssumption ==
    /\ Main \in Threads /\ NoThread \notin Threads
    /\ NoFutex \notin Futexes /\ File \notin Futexes /\ File # NoFutex
    /\ TidAddress \in [Threads -> Futexes \cup {NoFutex}]
    /\ Timeouts \subseteq Nat /\ EndTime \in Nat /\ StopTime \in Nat
    /\ MaxCalls \in Nat /\ MaxArrivals \in Nat
    /\ IsFiniteSet(Threads) /\ IsFiniteSet(Conds)
    /\ Cardinality(Threads) <= Cardinality(Conds)

VARIABLES
    now,
    early,      \* no task of the host was executed at this time yet
    tasks,      \* the host's queue, in the order of execution
    threads,    \* proc->threads
    spawned,    \* threads that were created so far
    exiting,    \* proc->isExiting
    running,    \* the thread that is being continued, or NoThread
    blocked,    \* per thread: the call it is blocked in (blockedSyscallNR)
    ret,        \* per thread: result of the last futex wait
    timer,      \* per thread: sys->timer
    cond,       \* the conditions
    table,      \* futexes in the host's futex table
    readable,   \* status of the shared descriptor
    calls, arrivals,
    crash       \* "" or why the simulator has ended

vars == <<now, early, tasks, threads, spawned, exiting, running, blocked, ret, timer,
          cond, table, readable, calls, arrivals, crash>>

\* Triggers: a futex, the descriptor, or none (NoFutex).
Triggers == Futexes \cup {File, NoFutex}

Syscall == [op : {"none", "nanosleep", "read", "wait", "wait_bitset", "poll"},
            on : Triggers,
            timeout : Nat,
            timed : BOOLEAN,   \* it has a timeout
            due : Nat]         \* when that is over

NoCall == [op |-> "none", on |-> NoFutex, timeout |-> 0, timed |-> FALSE, due |-> 0]

Cond == [thread : Threads \cup {NoThread},  \* NoThread once proc and thread are NULL
         trigger : Triggers,
         timed : BOOLEAN,     \* timeout is not NULL
         of : Threads,        \* whose timer the timeout is
         onTimer : BOOLEAN,   \* timeoutListener is attached
         onTrigger : BOOLEAN, \* triggerListener is attached
         woken : BOOLEAN,     \* the futex's note that it woke this listener
         pending : BOOLEAN,   \* signalPending
         refs : Nat]

Free == [thread |-> NoThread, trigger |-> NoFutex, timed |-> FALSE, of |-> Main,
         onTimer |-> FALSE, onTrigger |-> FALSE, woken |-> FALSE,
         pending |-> FALSE, refs |-> 0]

StartTask(t, time) == [do |-> "start", time |-> time, thread |-> t]
StopTask(time) == [do |-> "stop", time |-> time]
ExpireTask(t, ev) == [do |-> "expire", time |-> ev.time, thread |-> t, id |-> ev.id]
SignalTask(c, timeout) == [do |-> "signal", time |-> now, cond |-> c, wasTimeout |-> timeout]

Task == [do : {"start"}, time : Nat, thread : Threads]
        \cup [do : {"stop"}, time : Nat]
        \cup [do : {"expire"}, time : Nat, thread : Threads, id : Nat]
        \cup [do : {"signal"}, time : Nat, cond : Conds, wasTimeout : BOOLEAN]

\* worker_scheduleTask for each of the tasks in new, which are all for the
\* same time: behind everything that is not later.
Enqueue(q, new, time) ==
    LET n == Cardinality({k \in DOMAIN q : q[k].time <= time})
    IN  SubSeq(q, 1, n) \o new \o SubSeq(q, n + 1, Len(q))

\* The timer's expire event, if an operation scheduled one.
EnqueueExpire(q, t, events) ==
    IF events = {} THEN q
    ELSE LET ev == CHOOSE e \in events : TRUE
         IN  Enqueue(q, <<ExpireTask(t, ev)>>, ev.time)

IsRunning == ~exiting /\ threads # {}

Init ==
    /\ now = 0
    /\ early = TRUE
    /\ tasks = IF StopTime = 0 THEN <<StartTask(Main, 1)>>
               ELSE Enqueue(<<StartTask(Main, 1)>>, <<StopTask(StopTime)>>, StopTime)
    /\ threads = {} /\ spawned = {}
    /\ exiting = FALSE
    /\ running = NoThread
    /\ blocked = [t \in Threads |-> NoCall]
    /\ ret = [t \in Threads |-> "none"]
    /\ timer = [t \in Threads |-> NewTimer]
    /\ cond = [c \in Conds |-> Free]
    /\ table = {}
    /\ readable = FALSE
    /\ calls = 0 /\ arrivals = 0
    /\ crash = ""

(***************************************************************************)
(* Conditions                                                              *)
(***************************************************************************)

\* syscallcondition_unref: the last reference frees it.
Unref(cd, n) == IF cd.refs <= n THEN Free ELSE [cd EXCEPT !.refs = @ - n]

Listeners(cd) == (IF cd.onTimer THEN 1 ELSE 0) + (IF cd.onTrigger THEN 1 ELSE 0)

\* syscallcondition_cancel: a listener that is freed drops its reference.
Cancel(cd) ==
    Unref([cd EXCEPT !.thread = NoThread, !.onTimer = FALSE, !.onTrigger = FALSE,
                     !.woken = FALSE],
          Listeners(cd))

\* _thread_cleanupSysCallCondition of the threads in ts
Cleanup(cs, ts) ==
    [c \in Conds |-> IF cs[c].thread \in ts THEN Unref(Cancel(cs[c]), 1) ELSE cs[c]]

\* syscallcondition_new and syscallcondition_waitNonblock
Waiting(t, trigger, timed) ==
    [thread |-> t, trigger |-> trigger, timed |-> timed, of |-> t,
     onTimer |-> timed, onTrigger |-> trigger # NoFutex, woken |-> FALSE,
     pending |-> FALSE,
     refs |-> 1 + (IF timed THEN 1 ELSE 0) + (IF trigger # NoFutex THEN 1 ELSE 0)]

\* Faulty variant: every change schedules a signal task.
NotifiedAlways(S) == S

\* The notify functions of the conditions in S: one signal task each, however
\* often the status changes before the task is executed.
Notified(S) == {c \in S : ~cond[c].pending}

\* The sequences of the elements of S: listeners are called in the order of a
\* hash table's keys.
Orders(S) == Bijection(1 .. Cardinality(S), S)

\* _syscallcondition_scheduleSignalTask
NotifiedConds(S) ==
    [c \in Conds |-> IF c \in Notified(S)
                     THEN [cond[c] EXCEPT !.pending = TRUE, !.refs = cond[c].refs + 1]
                     ELSE cond[c]]

NotifiedTasks(q, order, timeout) ==
    Enqueue(q, [k \in DOMAIN order |-> SignalTask(order[k], timeout)], now)

\* Conditions listening to a trigger.
ListeningTo(trigger) == {c \in Conds : cond[c].onTrigger /\ cond[c].trigger = trigger}

(***************************************************************************)
(* Futexes                                                                 *)
(***************************************************************************)
NotWoken(f) == {c \in ListeningTo(f) : ~cond[c].woken}

Woken(cs, S) ==
    [c \in Conds |-> IF c \in S THEN [cs[c] EXCEPT !.woken = TRUE] ELSE cs[c]]

\* futex_wake(f, n), when the table has f: the listeners it may choose
WakeChoices(f, n) ==
    IF f \notin table THEN {{}}
    ELSE {S \in SUBSET NotWoken(f) :
            Cardinality(S) = IF Cardinality(NotWoken(f)) < n
                             THEN Cardinality(NotWoken(f)) ELSE n}

(***************************************************************************)
(* System calls of thread t.  cs and q are the conditions and the queue    *)
(* when the handler starts: a call that blocked is handled again, within   *)
(* the task that continues its thread.                                     *)
(***************************************************************************)
WasBlocked(t) == blocked[t] # NoCall

Absolute(c) == c.op = "wait_bitset"

NewCall(op, on, timeout, timed) ==
    [op |-> op, on |-> on, timeout |-> timeout, timed |-> timed,
     due |-> ExpireTime(now, timeout, op = "wait_bitset")]

NewCalls ==
    {NewCall("nanosleep", NoFutex, d, TRUE) : d \in Timeouts}
    \cup {NewCall("read", File, 0, FALSE)}
    \cup {NewCall(w[1], w[2], w[3], TRUE) :
            w \in {"wait", "wait_bitset"} \X Futexes \X Timeouts}
    \cup {NewCall("wait", f, 0, FALSE) : f \in Futexes}
    \cup {NewCall("poll", File, d, TRUE) : d \in Timeouts}
    \cup {NewCall("poll", File, 0, FALSE)}

\* SYSCALL_BLOCK: the thread's new condition listens.
Block(t, c, cs, q, trigger, timed) ==
    LET n == CHOOSE n \in Conds : cs[n] = Free
        set == IF timed THEN SetTime(timer[t], now, c.timeout, 0, Absolute(c))
               ELSE Unscheduled(timer[t])
    IN  /\ cond' = [cs EXCEPT ![n] = Waiting(t, trigger, timed)]
        /\ timer' = [timer EXCEPT ![t] = set.timer]
        /\ tasks' = EnqueueExpire(q, t, set.events)
        /\ blocked' = [blocked EXCEPT ![t] = c]
        /\ ret' = [ret EXCEPT ![t] = "none"]
        /\ running' = NoThread

\* Faulty variant: the timeout is left as it is.
CompleteTimerLeft(t, cs, q, result) ==
    /\ cond' = cs
    /\ tasks' = q
    /\ blocked' = [blocked EXCEPT ![t] = NoCall]
    /\ ret' = [ret EXCEPT ![t] = result]
    /\ running' = t
    /\ UNCHANGED timer

\* SYSCALL_DONE: the timeout of a call that had blocked is switched off, and
\* the thread runs on.
Complete(t, cs, q, result) ==
    /\ cond' = cs
    /\ tasks' = q
    /\ timer' = IF WasBlocked(t)
                THEN [timer EXCEPT ![t] = SetTime(@, now, 0, 0, FALSE).timer]
                ELSE timer
    /\ blocked' = [blocked EXCEPT ![t] = NoCall]
    /\ ret' = [ret EXCEPT ![t] = result]
    /\ running' = t

\* utility_panic or a failed assertion ends the simulator.
Panic(why) ==
    /\ crash' = why
    /\ UNCHANGED <<tasks, running, blocked, ret, timer, cond, table, readable>>

Nanosleep(t, c, cs, q) ==
    IF c.timeout > 0 /\ ~WasBlocked(t)
    THEN Block(t, c, cs, q, NoFutex, TRUE) /\ UNCHANGED <<table, readable, crash>>
    ELSE IF c.timeout > 0 /\ (TimeLeft(timer[t], now) > 0 \/ timer[t].count = 0)
    THEN Panic("nanosleep")
    ELSE Complete(t, cs, q, "none") /\ UNCHANGED <<table, readable, crash>>

\* Faulty variant: a waiter that is done removes the futex in any case.
UnusedAlways(f, cs) == {f}

\* "Dynamically clean up the futex if needed"
Unused(f, cs) ==
    IF \E n \in Conds : cs[n].onTrigger /\ cs[n].trigger = f THEN {} ELSE {f}

\* A call whose expected value differs returns EAGAIN and changes nothing.
FutexWait(t, c, cs, q) ==
    IF ~WasBlocked(t)
    THEN /\ table' = table \cup {c.on}
         /\ Block(t, c, cs, q, c.on, c.timed)
         /\ UNCHANGED <<readable, crash>>
    ELSE IF c.on \notin table
    THEN Panic("futex")
    ELSE /\ Complete(t, cs, q, IF c.timed /\ timer[t].count > 0 THEN "timedout" ELSE "woken")
         /\ table' = table \ Unused(c.on, cs)
         /\ UNCHANGED <<readable, crash>>

Poll(t, c, cs, q) ==
    /\ IF readable \/ (c.timed /\ c.timeout = 0) \/ WasBlocked(t)
       THEN Complete(t, cs, q, "none")
       ELSE Block(t, c, cs, q, File, c.timed)
    /\ UNCHANGED <<table, readable, crash>>

\* A read takes all there is to read.
Read(t, c, cs, q) ==
    /\ IF readable
       THEN readable' = FALSE /\ Complete(t, cs, q, "none")
       ELSE Block(t, c, cs, q, File, FALSE) /\ UNCHANGED readable
    /\ UNCHANGED <<table, crash>>

MakeSyscall(t, c, cs, q) ==
    \/ c.op = "nanosleep" /\ Nanosleep(t, c, cs, q)
    \/ c.op \in {"wait", "wait_bitset"} /\ FutexWait(t, c, cs, q)
    \/ c.op = "poll" /\ Poll(t, c, cs, q)
    \/ c.op = "read" /\ Read(t, c, cs, q)

MayCall(t, op) == running = t /\ crash = "" /\ calls < MaxCalls /\ op \in Ops

Call(t, c) ==
    /\ MayCall(t, c.op)
    /\ calls' = calls + 1
    /\ MakeSyscall(t, c, cond, tasks)
    /\ UNCHANGED <<now, early, threads, spawned, exiting, arrivals>>

\* futex_wake of n waiters on f: those it counts get their signal.
WakeUp(f, n) ==
    \E S \in WakeChoices(f, n) :
        /\ cond' = Woken(NotifiedConds(S), S)
        /\ \E order \in Orders(Notified(S)) : tasks' = NotifiedTasks(tasks, order, FALSE)

FutexWake(t, f, n) ==
    /\ MayCall(t, "wake")
    /\ calls' = calls + 1
    /\ WakeUp(f, n)
    /\ UNCHANGED <<now, early, threads, spawned, exiting, running, blocked, ret,
                   timer, table, readable, arrivals, crash>>

\* clone: process_addThread
Clone(t, u) ==
    /\ MayCall(t, "clone")
    /\ u \notin spawned
    /\ calls' = calls + 1
    /\ spawned' = spawned \cup {u}
    /\ threads' = threads \cup {u}
    /\ tasks' = Enqueue(tasks, <<StartTask(u, now)>>, now)
    /\ UNCHANGED <<now, early, exiting, running, blocked, ret, timer, cond, table,
                   readable, arrivals, crash>>

\* exit: the thread is reaped, which wakes a thread that joins it.
ExitThread(t) ==
    /\ running = t /\ crash = ""
    /\ running' = NoThread
    /\ threads' = threads \ {t}
    /\ IF TidAddress[t] # NoFutex /\ Cardinality(threads) > 1
       THEN WakeUp(TidAddress[t], 1)
       ELSE UNCHANGED <<cond, tasks>>
    /\ UNCHANGED <<now, early, spawned, exiting, blocked, ret, timer, table,
                   readable, calls, arrivals, crash>>

\* _process_handleProcessExit: every thread is cleaned up.
HandleProcessExit ==
    /\ exiting' = (exiting \/ IsRunning)
    /\ threads' = {}
    /\ cond' = Cleanup(cond, threads)
    /\ blocked' = [t \in Threads |-> NoCall]
    /\ running' = NoThread

ExitGroup(t) ==
    /\ running = t /\ crash = "" /\ "exit_group" \in Ops
    /\ HandleProcessExit
    /\ UNCHANGED <<now, early, tasks, spawned, ret, timer, table, readable,
                   calls, arrivals, crash>>

(***************************************************************************)
(* The host's tasks                                                        *)
(***************************************************************************)
MayRun(do) ==
    /\ running = NoThread /\ crash = ""
    /\ tasks # <<>>
    /\ Head(tasks).time = now
    /\ Head(tasks).do = do

\* _process_runStartTask, _start_thread_task
RunStart ==
    /\ MayRun("start")
    /\ LET t == Head(tasks).thread
           alive == IF t = Main THEN {Main} ELSE threads
       IN  /\ threads' = alive
           /\ spawned' = spawned \cup {t}
           /\ running' = IF ~exiting /\ alive # {} THEN t ELSE NoThread
    /\ tasks' = Tail(tasks)
    /\ early' = FALSE
    /\ UNCHANGED <<now, exiting, blocked, ret, timer, cond, table, readable,
                   calls, arrivals, crash>>

\* _process_runStopTask
RunStop ==
    /\ MayRun("stop")
    /\ HandleProcessExit
    /\ tasks' = Tail(tasks)
    /\ early' = FALSE
    /\ UNCHANGED <<now, spawned, ret, timer, table, readable, calls, arrivals, crash>>

\* _timer_expire of a thread's timer notifies its condition when the timer
\* becomes readable.
RunExpire ==
    /\ MayRun("expire")
    /\ LET t == Head(tasks).thread
           result == Expire(timer[t], now, Head(tasks), FALSE)
           rises == ~timer[t].readable /\ result.timer.readable
           S == {c \in Conds : rises /\ cond[c].onTimer /\ cond[c].of = t}
       IN  /\ timer' = [timer EXCEPT ![t] = result.timer]
           /\ cond' = NotifiedConds(S)
           /\ \E order \in Orders(Notified(S)) :
                 tasks' = EnqueueExpire(NotifiedTasks(Tail(tasks), order, TRUE), t,
                                        result.events)
    /\ early' = FALSE
    /\ UNCHANGED <<now, threads, spawned, exiting, running, blocked, ret, table,
                   readable, calls, arrivals, crash>>

\* Faulty variant: the status is not looked at again.
StatusAssumed(cd) == cd.trigger # NoFutex

\* _syscallcondition_statusIsValid
StatusIsValid(cd) == cd.trigger \in Futexes \/ (cd.trigger = File /\ readable)

\* _syscallcondition_signal with process_continue and thread_resume; the
\* task's own reference goes with it.
RunSignal ==
    /\ MayRun("signal")
    /\ LET c == Head(tasks).cond
           cd == [cond[c] EXCEPT !.pending = FALSE]
           done == [cond EXCEPT ![c] = Unref(cd, 1)]
           deliver == Head(tasks).wasTimeout \/ StatusIsValid(cd)
       IN  \/ /\ deliver => cd.thread # NoThread /\ ~IsRunning
              /\ cond' = done
              /\ tasks' = Tail(tasks)
              /\ UNCHANGED <<running, blocked, ret, timer, table, readable, crash>>
           \/ /\ deliver /\ cd.thread = NoThread
              /\ Panic("process is NULL")
           \/ /\ deliver /\ cd.thread # NoThread /\ IsRunning
              /\ MakeSyscall(cd.thread, blocked[cd.thread], Cleanup(done, {cd.thread}), Tail(tasks))
    /\ early' = FALSE
    /\ UNCHANGED <<now, threads, spawned, exiting, calls, arrivals>>

\* A packet of another host makes the descriptor readable.  Among events for
\* the same time those of a host with a smaller id come before all of the
\* host's own tasks, those of a host with a larger id when there is none.
Arrive ==
    /\ running = NoThread /\ crash = "" /\ IsRunning
    /\ arrivals < MaxArrivals
    /\ ~readable
    /\ early \/ \A k \in DOMAIN tasks : tasks[k].time > now
    /\ readable' = TRUE
    /\ cond' = NotifiedConds(ListeningTo(File))
    /\ \E order \in Orders(Notified(ListeningTo(File))) :
          tasks' = NotifiedTasks(tasks, order, FALSE)
    /\ arrivals' = arrivals + 1
    /\ UNCHANGED <<now, early, threads, spawned, exiting, running, blocked, ret,
                   timer, table, calls, crash>>

Idle == running = NoThread /\ \A k \in DOMAIN tasks : tasks[k].time > now

Tick ==
    /\ Idle /\ crash = ""
    /\ now < EndTime
    /\ now' = now + 1
    /\ early' = TRUE
    /\ UNCHANGED <<tasks, threads, spawned, exiting, running, blocked, ret, timer,
                   cond, table, readable, calls, arrivals, crash>>

Over == (crash # "" \/ (Idle /\ now = EndTime)) /\ UNCHANGED vars

Plugin(t) ==
    \/ \E c \in NewCalls : Call(t, c)
    \/ \E f \in Futexes, n \in Wakeups : FutexWake(t, f, n)
    \/ \E u \in Threads : Clone(t, u)
    \/ ExitThread(t)
    \/ ExitGroup(t)

RunTask == RunStart \/ RunStop \/ RunExpire \/ RunSignal

Next ==
    \/ \E t \in Threads : Plugin(t)
    \/ RunTask
    \/ Arrive
    \/ Tick
    \/ Over

Spec == Init /\ [][Next]_vars

-----------------------------------------------------------------------------
Live(c) == cond[c].thread # NoThread

SignalTasks(c) == {k \in DOMAIN tasks : tasks[k].do = "signal" /\ tasks[k].cond = c}

LiveExpireTasks(t) ==
    {k \in DOMAIN tasks : /\ tasks[k].do = "expire" /\ tasks[k].thread = t
                          /\ Valid(timer[t], tasks[k])}

\* Type correctness: conditions, calls and tasks are what the code's structs hold.
TypeOK ==
    /\ now \in 0 .. EndTime
    /\ early \in BOOLEAN /\ exiting \in BOOLEAN /\ readable \in BOOLEAN
    /\ threads \subseteq spawned /\ spawned \subseteq Threads
    /\ running \in threads \cup {NoThread}
    /\ tasks \in Seq(Task)
    /\ \A k \in DOMAIN tasks : tasks[k].time >= now
    /\ blocked \in [Threads -> Syscall]
    /\ \A t \in Threads : WasBlocked(t) => t \in threads \ {running}
    /\ ret \in [Threads -> {"none", "woken", "timedout"}]
    /\ timer \in [Threads -> TimerRecord]
    /\ cond \in [Conds -> Cond]
    /\ table \subseteq Futexes
    /\ calls \in 0 .. MaxCalls /\ arrivals \in 0 .. MaxArrivals

\* The reference count of a condition is the number of those who hold it: its
\* thread, its listeners and the signal tasks in the queue.  So none is freed
\* in use and none is left over.
CondRefsExact ==
    \A c \in Conds : cond[c].refs =
        (IF Live(c) THEN 1 ELSE 0) + Listeners(cond[c]) + Cardinality(SignalTasks(c))

\* However many status changes, timeouts and wake-ups coincide, a condition
\* has one signal task in the queue when signalPending is set and else none.
OneSignalTask ==
    \A c \in Conds : Cardinality(SignalTasks(c)) = IF cond[c].pending THEN 1 ELSE 0

\* No blocked thread is forgotten: it has a condition, and while no signal is
\* on its way, the descriptor it waits for is not readable, its futex is in
\* the table and has not counted it as woken, and a timeout without a
\* descriptor has not expired.
NoMissedWake ==
    /\ \A t \in Threads : WasBlocked(t) => \E c \in Conds : cond[c].thread = t
    /\ \A c \in Conds : Live(c) /\ ~cond[c].pending =>
          /\ cond[c].trigger = File => ~readable
          /\ cond[c].trigger \in Futexes => cond[c].trigger \in table /\ ~cond[c].woken
          /\ cond[c].timed /\ cond[c].trigger # File => timer[cond[c].of].count = 0

\* The timer that all calls of a thread share belongs to the call that is
\* blocked: it has one expire event in the queue that counts while that
\* call's timeout runs, and none otherwise, in particular none of a call that
\* was woken before its timeout.
TimeoutBelongsToCall ==
    IsRunning => \A t \in threads :
        IF Armed(timer[t])
        THEN /\ WasBlocked(t) /\ blocked[t].timed /\ timer[t].next = blocked[t].due
             /\ Cardinality(LiveExpireTasks(t)) = 1
             /\ \A k \in LiveExpireTasks(t) : tasks[k].time <= timer[t].next
        ELSE /\ LiveExpireTasks(t) = {}
             /\ timer[t].count > 0 => WasBlocked(t) /\ blocked[t].due <= now

\* The panics of nanosleep ("a timer is still pending", "the timer did not
\* expire") and the assertion that a futex is in the table when its waiter is
\* continued are never reached.
AssertionsHold == crash \notin {"nanosleep", "futex"}

\* A call that blocked returns for a reason: a futex wait because it was woken
\* or because its timeout is over, a sleep because its time is over, a poll
\* because there is something to read or its timeout is over.
Returns(t) == WasBlocked(t) /\ blocked'[t] = NoCall /\ running' = t

ReasonToReturn ==
    [][\A t \in Threads : Returns(t) =>
          \/ blocked[t].timed /\ blocked[t].due <= now /\ ret'[t] # "woken"
          \/ blocked[t].on = File /\ readable
          \/ ret'[t] = "woken" /\ \E c \in Conds : cond[c].thread = t /\ cond[c].woken
      ]_vars

\* No sleep and no futex wait outlasts a timeout above zero: simulated time does
\* not pass the moment at which the blocked call is due, also when that is
\* further ahead than an expire event and whatever else happens at that moment.
\* It says nothing of polls, nor of a timeout of zero: see TimeoutsDelivered.
NotOverdue ==
    \A t \in Threads :
        WasBlocked(t) /\ blocked[t].timeout > 0 /\ blocked[t].on # File
            => now <= blocked[t].due

\* What a condition is made of agrees, through all races of status changes,
\* timeouts, wake-ups and exits: its references, its one signal task, the
\* futex it waits for.
CondsExact == TypeOK /\ CondRefsExact /\ OneSignalTask /\ AssertionsHold

\* No timeout outlives the call that asked for it, and a timeout above zero
\* ends a sleep or a futex wait in time.
TimeoutsExact == TimeoutBelongsToCall /\ NotOverdue

\* "Always deliver the signal if the timeout expired" (_syscallcondition_signal):
\* no call outlasts the timeout it gave, whatever it waits for.
TimeoutsDelivered ==
    \A t \in Threads : WasBlocked(t) /\ blocked[t].timed => now <= blocked[t].due
=============================================================================
