CONSTANTS
    Ifaces = {0, 1}
    Slots = {s1}
    Last = 1
    Configs <- MCSame
    Events = {"enable", "type", "priority"}
    PromptStart = TRUE
SPECIFICATION PpSpec
INVARIANT
    ChoosesBest
