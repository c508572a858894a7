\* Two files, one of which stays registered after close; the inner epoll
\* is served by t1, the outer one by t2.  Or a timer that is set up to three
\* times, with delays up to and above the longest an event may be ahead.
SPECIFICATION DescriptorsSpec
CONSTANTS
    f1 = f1
    f2 = f2
    t1 = t1
    t2 = t2
    Files = {f1, f2}
    Lingering = {f2}
    Inner = inner
    Outer = outer
    Watchable <- EachWatchable
    Changes <- SomeChanges
    Threads = {t1, t2}
    Timed = {t1}
    Serves <- ServesEpolls
    Masks <- EachMasks
    MaxEvents = {1}
    MaxCtl = 3
    OneSecond = 2
    Values = {0, 1, 3}
    Intervals = {0, 1, 2}
    MaxTime = 7
    MaxSets = 3
CHECK_DEADLOCK FALSE
INVARIANTS EventsExact NoLostWakeup OneLiveEvent ExpirationsExact
PROPERTIES NoStarvation
