CONSTANTS
    Ifaces = {0, 1}
    Slots = {s1, s2}
    Last = 1
    Configs <- MCTwo
    Modes = {"FIXED_MODE_ON_BOOTUP", "PRIMARY_PRIORITY_ON_BOOTUP"}
    Events = {}
    PromptStart = TRUE
SPECIFICATION FixedSpec
PROPERTY
    StartsMarked
