CONSTANTS
    Ifaces = {0, 1}
    Slots = {s1, s2}
    Last = 1
    Configs <- MCTwo
    Modes = {"FIXED_MODE", "FIXED_MODE_ON_BOOTUP", "PRIMARY_PRIORITY_ON_BOOTUP"}
    Events = {"priority"}
    PromptStart = TRUE
SPECIFICATION FixedSpec
INVARIANTS
    OneWorkerUntilChanged
    StaysOnBootInterface
    FixedInv
