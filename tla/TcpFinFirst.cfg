\* One packet is lost and the bucket is empty once; three duplicates, as in the code.
SPECIFICATION Spec
CONSTANTS
    Writes <- ClientSends
    RecvBuf = 2
    SendBuf = 3
    InitialWindow = 2
    RtoInit = 3
    RtoMin = 3
    RtoMax = 4
    Rtos = {3}
    Latencies = {1}
    CloseDelay <- CloseDelays
    MaxLosses = 1
    MaxStalls = 1
    DupThresh = 3
    RestartWindow = 2
INVARIANT ClosesAfterSending
