SPECIFICATION FairSpec
CONSTANTS
    Hosts <- MCHosts
    EndTime = 4
    SIMTIME_MAX = 9
    Jumps = {2}
    Emits <- MCEmits
    BootTimes <- MCBootTimes
    MaxEvents = 3
    NThreads = 2
PROPERTIES ImplementsEventSim SimulationEnds
