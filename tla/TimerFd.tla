------------------------------ MODULE TimerFd ------------------------------
(***************************************************************************)
(* A timer that a managed program uses through a descriptor: it sets it    *)
(* (timerfd_settime), reads it and closes it, while the timer's expire     *)
(* events are executed at their time.  The program may set the timer again *)
(* at any moment, also at the very time at which an event is due.          *)
(***************************************************************************)
EXTENDS Timer, FiniteSets

CONSTANTS
    Values,      \* it_value, relative or absolute; 0 disarms
    Intervals,   \* it_interval
    MaxTime,     \* bound on simulated time
    MaxSets      \* bound on the calls of timerfd_settime

ASSUME TimerFdAssumption ==
    Values \subseteq Nat /\ Intervals \subseteq Nat /\ MaxTime \in Nat /\ MaxSets \in Nat

VARIABLES
    now,      \* worker_getCurrentTime
    timer,
    events,   \* expire events in the host's queue
    closed,   \* isClosed
    sets,     \* calls of timerfd_settime so far
    first,    \* history: the first expiration asked for, 0 when disarmed
    period,   \* history: the interval asked for
    taken     \* history: expirations read since the timer was set

timerVars == <<now, timer, events, closed, sets, first, period, taken>>
history == <<first, period, taken>>

\* The simulation's time 0 is over when a program runs: _process_start is
\* scheduled with a delay of at least one nanosecond.
TimerInit ==
    /\ now = 1
    /\ timer = NewTimer
    /\ events = {}
    /\ closed = FALSE
    /\ sets = 0
    /\ first = 0 /\ period = 0 /\ taken = 0

Apply(result) ==
    /\ timer' = result.timer
    /\ events' = events \cup result.events

SetTimer(value, interval, absolute) ==
    /\ ~closed
    /\ sets < MaxSets
    /\ Apply(SetTime(timer, now, value, interval, absolute))
    /\ sets' = sets + 1
    /\ first' = IF value = 0 THEN 0 ELSE ExpireTime(now, value, absolute)
    /\ period' = IF value = 0 THEN 0 ELSE interval
    /\ taken' = 0
    /\ UNCHANGED <<now, closed>>

\* timer_read with a buffer that is large enough; without an expiration it
\* returns EWOULDBLOCK and changes nothing.
ReadTimer ==
    /\ ~closed
    /\ timer.count > 0
    /\ timer' = Cleared(timer)
    /\ taken' = taken + timer.count
    /\ UNCHANGED <<now, events, closed, sets, first, period>>

CloseTimer ==
    /\ ~closed
    /\ closed' = TRUE
    /\ UNCHANGED <<now, timer, events, sets, history>>

\* Events for the same time are executed in the order of their ids.
ExpireTimer(ev) ==
    /\ ev.time = now
    /\ \A e \in events : e.time > now \/ e.id >= ev.id
    /\ LET result == Expire(timer, now, ev, closed)
       IN  /\ timer' = result.timer
           /\ events' = (events \ {ev}) \cup result.events
    /\ UNCHANGED <<now, closed, sets, history>>

\* The clock moves when nothing is left to do at its time.
PassTime ==
    /\ \A e \in events : e.time > now
    /\ now < MaxTime
    /\ now' = now + 1
    /\ UNCHANGED <<timer, events, closed, sets, history>>

SimulationOver == now = MaxTime /\ UNCHANGED timerVars

TimerNext ==
    \/ \E v \in Values, i \in Intervals, a \in BOOLEAN : SetTimer(v, i, a)
    \/ ReadTimer
    \/ CloseTimer
    \/ \E ev \in events : ExpireTimer(ev)
    \/ PassTime
    \/ SimulationOver

TimerSpec == TimerInit /\ [][TimerNext]_timerVars

-----------------------------------------------------------------------------
ValidEvents == {e \in events : Valid(timer, e)}

\* Type correctness of the timer, its queue and what was asked for and read.
TimerTypeOK ==
    /\ now \in Nat \ {0}
    /\ timer \in TimerRecord
    /\ timer.minId <= timer.nextId
    /\ events \subseteq ExpireEvent
    /\ \A e \in events : e.id < timer.nextId
    /\ closed \in BOOLEAN
    /\ sets \in 0 .. MaxSets
    /\ first \in Nat /\ period \in Nat /\ taken \in Nat

\* An armed timer has exactly one event in the queue that _timer_expire will
\* not ignore, due neither in the past nor after the expiration; a disarmed
\* one has none, so no event of an earlier setting makes it expire.
OneLiveEvent ==
    ~closed =>
        IF Armed(timer)
        THEN \E e \in ValidEvents :
                ValidEvents = {e} /\ now <= e.time /\ e.time <= timer.next
        ELSE ValidEvents = {}

\* The assertion of _timer_getCurrentTime: whenever a program may ask for the
\* time left (timerfd_gettime, timerfd_settime with an old value), an armed
\* timer's expiration is not in the past.
TimeLeftDefined == Armed(timer) /\ ~closed => now <= timer.next

\* What read returns: once the events of the current time are executed, the
\* expirations read since the timer was set and those still to be read are
\* the ones the setting asked for up to now.
Due ==
    IF first = 0 \/ now < first THEN 0
    ELSE IF period = 0 THEN 1 ELSE 1 + (now - first) \div period

ExpirationsExact ==
    ~closed /\ (\A e \in events : e.time > now) => taken + timer.count = Due

\* A program that waits with epoll is told of the expirations there are: the
\* status is readable exactly when read would return a count.
ReadableIfExpired == timer.readable <=> timer.count > 0
=============================================================================
