CONSTANTS
    ticket = ticket
    webhook = webhook
    Mutation <- MCMutation
    Durable <- MCDurable
    Merged <- MCMerged
    Late <- MCMutation
    MaxLoops = 1
    MaxBoots = 1
    MaxFaults = 1
SPECIFICATION Spec
CHECK_DEADLOCK FALSE
INVARIANTS LiveChangesKept
