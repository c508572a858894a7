\* Both ends send, on a path that loses nothing.
SPECIFICATION Spec
CONSTANTS
    Writes <- BothSend
    RecvBuf = 2
    SendBuf = 3
    InitialWindow = 2
    RtoInit = 3
    RtoMin = 3
    RtoMax = 4
    Rtos = {3}
    Latencies = {1}
    CloseDelay <- CloseDelays
    MaxLosses = 0
    MaxStalls = 0
    DupThresh = 1
    RestartWindow = 2
INVARIANT DataIsAcked
