CONSTANTS
    a = a
    b = b
    c = c
    None = None
    Node <- MCNode
    Chain <- MCChain
    Identity <- MCIdentity
    Public <- MCNode
    Pin = None
    Mutation = {r}
    MaxRetries = 3
    MaxFaults = 1
SPECIFICATION Spec
CHECK_DEADLOCK FALSE
INVARIANTS TypeOK AnswersHonest SettledFleetAccepts
PROPERTIES EpochsConverge
