SPECIFICATION Spec
CONSTANTS
    Sockets = {s1, s2}
    MTU = 3
    Header = 1
    StaticMax = 5
    Target = 1
    CoDelInterval = 2
    SendRefill = 2
    ReceiveRefill = 2
    RefillInterval = 2
    BootstrapEnd = 1
    BufferSize = 5
    Receivers = {s1}
    Setups <- MCSetups
CHECK_DEADLOCK FALSE
INVARIANTS RefillsExact PacketsKept CoDelPatience
PROPERTIES BecomesIdle
