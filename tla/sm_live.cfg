CONSTANTS
    Ifaces = {dsl}
    PppIfaces = {}
    Lease4 = {a4, b4}
    BadLease4 = {}
    Lease6 = {a6}
    NoLease = NoLease
    MaxClients = 1
    Slots = {1}
    Events = {"phy", "ipv6"}
SPECIFICATION FairSpec
PROPERTIES
    ReleaseEnds
    DisableEnds
    Ipv4ComesUp
