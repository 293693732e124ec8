CONSTANTS
    sA = sA
    sB = sB
    a1 = a1
    a2 = a2
    b1 = b1
    c1 = c1
    c2 = c2
    c3 = c3
    NoContent = NoContent
    States = {sA, sB}
    Objs = {a1, a2, b1}
    Configs = {c1, c2, c3}
    Owner <- MCOwner
    StateOrder <- MCStateOrder
    Rendering <- MCRenderingFaulty
    StaticInfoOptions = {TRUE, FALSE}
    MaxDisturbances = 2

SPECIFICATION Spec

INVARIANT ManagerVerdict
PROPERTY OperatorKeepsToDesired
PROPERTY ImplementsReconciliation
