CONSTANTS
    Ifaces = {dsl}
    PppIfaces = {}
    Lease4 = {a4, b4}
    BadLease4 = {}
    Lease6 = {a6}
    NoLease = NoLease
    MaxClients = 2
    Slots = {1}
    Events = {"phy", "refresh", "ipv6", "prefixClear"}
SYMMETRY MCSymmetry
SPECIFICATION Spec
INVARIANTS
    TypeOK
    Ipv4OnlyWhileLeased
    AddressMatchesState
    LeaseApplied
    ClientsRun
    NothingLeftBehind
PROPERTIES
    StoppedAfterIpv4
    ServesInSessions
    KeepsSessions
