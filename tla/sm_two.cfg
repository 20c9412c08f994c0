CONSTANTS
    Ifaces = {eth, dsl}
    PppIfaces = {dsl}
    Lease4 = {a4}
    BadLease4 = {}
    Lease6 = {a6}
    NoLease = NoLease
    MaxClients = 1
    Slots = {1}
    Events = {"phy", "ipv6"}
SPECIFICATION Spec
INVARIANTS
    IndInv
