SPECIFICATION Spec
CONSTANTS
    Callbacks = {"c", "d"}
    Registered <- MCRegistered
    MaxDepth = 2
    MaxHooks = 3
    MaxCalls = 4
    MaxStack = 10
INVARIANTS
    CommandIsOneGroup
PROPERTIES
    HooksGuardSaves
CHECK_DEADLOCK FALSE
