CONSTANTS
    n1 = n1
    n2 = n2
    NoNode = NoNode
    Nodes = {n1, n2}
    PerIterationLoopVar = TRUE
    TimeoutSecond = 300
    EvictChoices <- MixedEvict
    MaxCalls = 2
    MaxUpdateFailures = 1

SPECIFICATION Spec

PROPERTY ScheduledNodeGetsVerdict
