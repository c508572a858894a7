SPECIFICATION Spec
CONSTANTS
    OneSecond = 1
    t1 = t1
    t2 = t2
    t3 = t3
    f = f
    Threads = {t1, t2, t3}
    Main = t1
    Futexes = {f}
    TidAddress <- MCTid
    NoFutex = NoFutex
    NoThread = NoThread
    File = File
    Conds = {1, 2, 3, 4}
    Ops = {"nanosleep", "wait", "wait_bitset", "wake", "poll", "read", "clone", "exit_group"}
    Timeouts = {1, 2}
    Wakeups = {1, 2}
    StopTime = 4
    EndTime = 4
    MaxCalls = 5
    MaxArrivals = 1
INVARIANTS TimeoutsDelivered
