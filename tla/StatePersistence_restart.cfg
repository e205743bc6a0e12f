CONSTANTS
    ticket = ticket
    webhook = webhook
    Mutation <- MCMutation
    Durable <- MCDurable
    Merged <- MCMerged
    Late <- MCLate
    MaxLoops = 1
    MaxBoots = 1
    MaxFaults = 1
SPECIFICATION Spec
CHECK_DEADLOCK FALSE
INVARIANTS TypeOK AckedSurvives BarrierComplete DrainSound
PROPERTIES EveryMutationSaved
