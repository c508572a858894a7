SPECIFICATION DetSpec
CONSTANTS
    Hosts <- MCHosts
    EndTime = 4
    SIMTIME_MAX = 9
    Jumps = {1, 3}
    Emits <- MCEmits
    BootTimes <- MCBootTimes
    MaxEvents = 3
    NThreads = 2
INVARIANTS HostsPlaced RoundExact Deterministic
PROPERTIES ImplementsEventSim SimulationEnds
