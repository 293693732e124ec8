CONSTANTS
    n1 = n1
    n2 = n2
    NoNode = NoNode
    Nodes = {n1, n2}
    PerIterationLoopVar = TRUE
    TimeoutSecond = 5
    EvictChoices <- AnyEvict
    MaxCalls = 1
    MaxUpdateFailures = 0

SPECIFICATION Spec

INVARIANT DrainHonoursTimeout
