CONSTANTS
    Ifaces = {dsl}
    PppIfaces = {dsl}
    Lease4 = {a4, b4}
    BadLease4 = {b4}
    Lease6 = {a6}
    NoLease = NoLease
    MaxClients = 1
    Slots = {1}
    Events = {"phy", "dslite", "ipv6"}
SPECIFICATION Spec
INVARIANTS
    IndInv
