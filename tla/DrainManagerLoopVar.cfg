CONSTANTS
    n1 = n1
    n2 = n2
    NoNode = NoNode
    Nodes = {n1, n2}
    PerIterationLoopVar = FALSE
    TimeoutSecond = 300
    EvictChoices <- AnyEvict
    MaxCalls = 2
    MaxUpdateFailures = 0

SPECIFICATION Spec

INVARIANT RestartOnlyAfterDrain
