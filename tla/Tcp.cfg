\* The client sends three packets; one is lost and the bucket is empty once.
SPECIFICATION Spec
CONSTANTS
    Writes <- ClientSends
    RecvBuf = 2
    SendBuf = 3
    InitialWindow = 2
    RtoInit = 3
    RtoMin = 3
    RtoMax = 4
    Rtos = {3}
    Latencies = {1}
    CloseDelay <- CloseDelays
    MaxLosses = 1
    MaxStalls = 1
    DupThresh = 1
    RestartWindow = 2
INVARIANTS InOrder QueuesExact TimerArmed
PROPERTIES AllRead BothClose
