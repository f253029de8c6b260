SPECIFICATION FairSpec
CONSTANTS
    Keys <- AllKeys
    MaxTyped = 2
    MaxCount = 10
    MaxMacro = 4
INVARIANTS
    ArgumentIsTyped
PROPERTIES
    MacroIsWhatWasTyped
    PlaybackEnds
