CONSTANTS
    Ifaces = {0, 1}
    Slots = {s1, s2}
    Last = 1
    Configs <- MCPair
    Events = {}
    PromptStart = TRUE
SPECIFICATION PpFairSpec
INVARIANTS
    SingleActiveLink
    OneWorker
    PpInv
PROPERTIES
    SettlesOnPreferred
    SessionFollows
