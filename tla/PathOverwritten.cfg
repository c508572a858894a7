SPECIFICATION LookaheadSpec
CONSTANTS
    Senders = {w1, w2}
    Vertices <- MCVertices
    Latency <- WholeMs
    Directed = FALSE
    MS = 10
    Runahead = 0
    EndTime = 300
    EventTimes = {1, 50, 150, 290}
    TIME_MOD = 1024
INVARIANTS PathsKept
