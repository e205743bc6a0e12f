CONSTANTS
    NumParts = 4
    State <- MCState
    Keep = 1
    MaxDeletes = 1
    MaxChanges = 5
    MaxFaults = 1
SPECIFICATION Spec
INVARIANTS TypeOK GenerationsKept
PROPERTIES ImplementsRegister RetentionConverges
