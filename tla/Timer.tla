------------------------------- MODULE Timer -------------------------------
(***************************************************************************)
(* The timer object (src/phantom/src/main/host/descriptor/timer.c) as      *)
(* operators: a timer is a record, an operation yields the timer it leaves *)
(* and the expire events it schedules.  An event cannot be cancelled: it   *)
(* carries an id, and is ignored when the timer was set again meanwhile.   *)
(* A timespec of zero is 0; an absolute time is a simulated time (one from *)
(* before the simulation began counts as 0).                               *)
(***************************************************************************)
EXTENDS Naturals

CONSTANT OneSecond   \* SIMTIME_ONE_SECOND: no event is scheduled further ahead

ASSUME OneSecondAssumption == OneSecond \in Nat \ {0}

TimerRecord == [next : Nat,       \* nextExpireTime, 0 when disarmed
                interval : Nat,   \* expireInterval, 0 when it expires once
                count : Nat,      \* expireCountSinceLastSet
                readable : BOOLEAN,
                nextId : Nat,     \* nextExpireID
                minId : Nat]      \* minValidExpireID

ExpireEvent == [time : Nat, id : Nat]

NewTimer == [next |-> 0, interval |-> 0, count |-> 0, readable |-> FALSE,
             nextId |-> 0, minId |-> 0]

Armed(tm) == tm.next > 0

\* _timer_getCurrentTime, which asserts that next is not in the past
TimeLeft(tm, now) == IF Armed(tm) THEN tm.next - now ELSE 0

\* Events that _timer_expire will not ignore.
Valid(tm, ev) == ev.id >= tm.minId

\* Faulty variant: the events scheduled before stay valid.
DisarmKeepsEvents(tm) == [tm EXCEPT !.next = 0, !.interval = 0]

Disarm(tm) == [tm EXCEPT !.next = 0, !.interval = 0, !.minId = tm.nextId]

\* A long delay is checked every second.
WakeTime(tm, now) ==
    IF tm.next - now < OneSecond THEN tm.next ELSE now + OneSecond

ScheduleNewExpireEvent(tm, now) ==
    [timer |-> [tm EXCEPT !.nextId = @ + 1],
     events |-> {[time |-> WakeTime(tm, now), id |-> tm.nextId]}]

Unscheduled(tm) == [timer |-> tm, events |-> {}]

\* _timer_setCurrentTime
ExpireTime(now, value, absolute) ==
    IF ~absolute THEN now + value ELSE IF value < now THEN now ELSE value

Cleared(tm) == [tm EXCEPT !.count = 0, !.readable = FALSE]

\* timer_setTime with _timer_arm
SetTime(tm, now, value, interval, absolute) ==
    LET off == Cleared(Disarm(tm))
    IN  IF value = 0 THEN Unscheduled(off)
        ELSE ScheduleNewExpireEvent(
                [off EXCEPT !.next = ExpireTime(now, value, absolute),
                            !.interval = interval], now)

\* Faulty variant: the next expiration is counted from a moment after now.
NextPeriodLate(tm, now) == tm.next + tm.interval + 1

\* The next expiration of a periodic timer, never before now.
NextPeriod(tm, now) ==
    IF tm.next + tm.interval < now THEN now ELSE tm.next + tm.interval

\* The expiration is counted and the status becomes readable.
Expired(tm) == [tm EXCEPT !.count = @ + 1, !.readable = TRUE]

\* _timer_expire, called with the event ev
Expire(tm, now, ev, closed) ==
    IF closed \/ ~Valid(tm, ev) THEN Unscheduled(tm)
    ELSE IF tm.next > now THEN ScheduleNewExpireEvent(tm, now)
    ELSE IF tm.interval > 0
         THEN ScheduleNewExpireEvent(
                 [Expired(tm) EXCEPT !.next = NextPeriod(tm, now)], now)
    ELSE Unscheduled(Disarm(Expired(tm)))
=============================================================================
