------------------------------ MODULE WanIface ------------------------------
(***************************************************************************)
(* The data the WAN Manager keeps for one WAN interface (DML_WAN_IFACE),   *)
(* the state of the box that its interface state machines change           *)
(* (sysevents, the address of the WAN device, the running clients), and    *)
(* the C functions that transform them.                                    *)
(*                                                                         *)
(* Every function here runs with the interface mutex held, several of them *)
(* in a row, so they are operators from old to new values; the modules     *)
(* that have the threads compose them into atomic steps.                   *)
(*                                                                         *)
(* Abstractions.  A DHCPv4 or DHCPv6 configuration is one value (a         *)
(* "lease"), compared as a whole.  Phy.Status INITIALIZING is not told     *)
(* apart from UP: the state machine only asks for DOWN.  The build is the  *)
(* one without FEATURE_MAPT and FEATURE_IPOE_HEALTH_CHECK, so the softwire *)
(* (IPv4 over IPv6) is DS-Lite.                                            *)
(***************************************************************************)
EXTENDS Naturals

CONSTANTS
    Ifaces,      \* the WAN interfaces of the interface table
    PppIfaces,   \* those with PPP.Enable set
    Lease4,      \* DHCPv4 configurations a server can assign
    BadLease4,   \* those whose address and mask give no broadcast address
    Lease6,      \* DHCPv6 configurations a server can assign
    NoLease,     \* the cleared configuration
    MaxClients   \* the count of udhcpc processes saturates here

ASSUME PppAssumption == PppIfaces \subseteq Ifaces
ASSUME LeaseAssumption ==
    /\ BadLease4 \subseteq Lease4
    /\ NoLease \notin Lease4 \cup Lease6
ASSUME ClientAssumption == MaxClients \in Nat \ {0}

-----------------------------------------------------------------------------
(***************************************************************************)
(* Types.                                                                  *)
(***************************************************************************)
IpStatus == {"UP", "DOWN"}
LinkStatus == {"DOWN", "CONFIGURING", "UP"}
WanStatus == {"DISABLED", "INITIALISING", "VALIDATING", "UP"}

NoMsg == [type |-> "none", lease |-> NoLease]

\* "other": neither an address is assigned nor the lease expired.
Msg4 == [type : {"assigned"}, lease : Lease4]
            \cup [type : {"expired", "other"}, lease : {NoLease}]

\* "withdrawn": a prefix is removed, or comes with a zero lifetime;
\* "other": neither an address nor a prefix is assigned.
Msg6 == [type : {"assigned", "withdrawn"}, lease : Lease6]
            \cup [type : {"expired", "other"}, lease : {NoLease}]

Iface == [phy         : {"UP", "DOWN"},
          link        : LinkStatus,
          status      : WanStatus,
          activeLink  : BOOLEAN,
          refresh     : BOOLEAN,
          named       : BOOLEAN,             \* Wan.Name is not empty
          dslite      : IpStatus,
          ipv4Status  : IpStatus,
          ipv4Changed : BOOLEAN,
          ipv4Data    : Lease4 \cup {NoLease},
          ipc4        : Msg4 \cup {NoMsg},   \* IP.pIpcIpv4Data
          ipv6Status  : IpStatus,
          ipv6Changed : BOOLEAN,
          ipv6Data    : Lease6 \cup {NoLease},
          ipc6        : Msg6 \cup {NoMsg}]   \* IP.pIpcIpv6Data

\* Wan.Status is DISABLED and every datum is cleared when the table is built.
InitIface == [phy         |-> "DOWN",
              link        |-> "DOWN",
              status      |-> "DISABLED",
              activeLink  |-> FALSE,
              refresh     |-> FALSE,
              named       |-> FALSE,
              dslite      |-> "DOWN",
              ipv4Status  |-> "DOWN",
              ipv4Changed |-> FALSE,
              ipv4Data    |-> NoLease,
              ipc4        |-> NoMsg,
              ipv6Status  |-> "DOWN",
              ipv6Changed |-> FALSE,
              ipv6Data    |-> NoLease,
              ipc6        |-> NoMsg]

Host == [conn4     : {"up", "down"},           \* ipv4_connection_state
         conn6     : {"up", "down"},           \* ipv6_connection_state
         wanStatus : {"started", "stopped"},   \* wan-status
         address4  : Lease4 \cup {NoLease},    \* set on the WAN device
         dhcp4     : 0 .. MaxClients,          \* udhcpc processes
         dhcp6     : BOOLEAN,                  \* dibbler-client runs
         ppp       : SUBSET Ifaces]            \* PPP sessions asked for

InitHost == [conn4     |-> "down",
             conn6     |-> "down",
             wanStatus |-> "stopped",
             address4  |-> NoLease,
             dhcp4     |-> 0,
             dhcp6     |-> FALSE,
             ppp       |-> {}]

-----------------------------------------------------------------------------
(***************************************************************************)
(* Status of the interface's connections and the DHCP clients' messages.   *)
(***************************************************************************)

\* WanManager_UpdateInterfaceStatus(CONNECTION_DOWN): clears the address.
Ipv4ConnectionDown(i) ==
    [i EXCEPT !.ipv4Status = "DOWN", !.ipv4Changed = FALSE,
              !.ipv4Data = NoLease]

\* WanManager_UpdateInterfaceStatus(CONNECTION_IPV6_DOWN).
Ipv6ConnectionDown(i) ==
    [i EXCEPT !.ipv6Status = "DOWN", !.ipv6Changed = FALSE,
              !.ipv6Data = NoLease]

\* Mutant: the DHCPv6 half is forgotten.
ClearsIpv4Only(i) ==
    [i EXCEPT !.ipv4Status = "DOWN", !.ipv4Changed = FALSE,
              !.ipv4Data = NoLease, !.ipc4 = NoMsg]

\* WanManager_ClearDHCPData: a message not yet handled is dropped too.
ClearDHCPData(i) ==
    [i EXCEPT !.ipv4Status = "DOWN", !.ipv4Changed = FALSE,
              !.ipv4Data = NoLease, !.ipc4 = NoMsg,
              !.ipv6Status = "DOWN", !.ipv6Changed = FALSE,
              !.ipv6Data = NoLease, !.ipc6 = NoMsg]

\* Mutant: compares with the stored configuration after it was overwritten.
ComparesTooLate(i) ==
    IF i.ipc4.type = "assigned"
    THEN [i EXCEPT !.ipv4Data = i.ipc4.lease, !.ipv4Status = "UP",
                   !.ipc4 = NoMsg]
    ELSE IF i.ipc4.type = "expired"
         THEN [Ipv4ConnectionDown(i) EXCEPT !.ipc4 = NoMsg]
         ELSE [i EXCEPT !.ipc4 = NoMsg]

\* wanmgr_handle_dchpv4_event_data
HandleDhcpv4(i) ==
    LET m == i.ipc4
    IN  CASE m.type = "assigned" ->
               [i EXCEPT !.ipv4Changed = @ \/ m.lease # i.ipv4Data,
                         !.ipv4Data = m.lease, !.ipv4Status = "UP",
                         !.ipc4 = NoMsg]
          [] m.type = "expired" ->
               [Ipv4ConnectionDown(i) EXCEPT !.ipc4 = NoMsg]
          [] OTHER -> [i EXCEPT !.ipc4 = NoMsg]

\* The stored prefix is the one a DHCPv6 message removes.
PrefixRemoved(i) ==
    i.ipc6.type = "withdrawn" /\ i.ipc6.lease = i.ipv6Data

\* The part of wanmgr_handle_dchpv6_event_data after the message has been
\* looked at, when it (or autoconfiguration) gave the interface an address.
Ipv6Connected(i, lease) ==
    [i EXCEPT !.ipv6Changed = @ \/ lease # i.ipv6Data,
              !.ipv6Data = lease, !.ipv6Status = "UP", !.ipc6 = NoMsg]

\* wanmgr_handle_dchpv6_event_data.  auto: the message also adds an address,
\* or none is assigned and the interface has one by autoconfiguration.
HandleDhcpv6(i, auto) ==
    LET m == i.ipc6
        j == IF PrefixRemoved(i) THEN Ipv6ConnectionDown(i) ELSE i
    IN  CASE m.type = "none" -> i
          [] m.type = "expired" ->
               [Ipv6ConnectionDown(i) EXCEPT !.ipc6 = NoMsg]
          [] m.type = "assigned" \/ (m.type \in {"withdrawn", "other"} /\ auto) ->
               Ipv6Connected(j, m.lease)
          [] OTHER -> [j EXCEPT !.ipc6 = NoMsg]

\* WanMgr_IfaceIpcMsg_handle: both slots are emptied in the same tick.
HandleIpc(i, auto) == HandleDhcpv6(HandleDhcpv4(i), auto)

-----------------------------------------------------------------------------
(***************************************************************************)
(* Configuration of the box.                                               *)
(***************************************************************************)

\* wan_setUpIPv4: with a bad address it returns before anything is posted.
SetUpIpv4(i, h) ==
    IF i.ipv4Data \notin Lease4 \ BadLease4
    THEN h
    ELSE [h EXCEPT !.conn4 = "up", !.address4 = i.ipv4Data,
                   !.wanStatus = IF i.ipv6Status = "DOWN" THEN "started"
                                                          ELSE @]

\* Mutant: the address is removed only under the test for wan-status.
KeepsAddressWithIpv6(i, h) ==
    IF i.ipv6Status = "DOWN"
    THEN [h EXCEPT !.conn4 = "down", !.wanStatus = "stopped",
                   !.address4 = IF i.named THEN NoLease ELSE @]
    ELSE [h EXCEPT !.conn4 = "down"]

\* wan_tearDownIPv4: "ifconfig <Wan.Name> 0.0.0.0" needs the name.
TearDownIpv4(i, h) ==
    [h EXCEPT !.conn4 = "down",
              !.address4 = IF i.named THEN NoLease ELSE @,
              !.wanStatus = IF i.ipv6Status = "DOWN" THEN "stopped" ELSE @]

\* wan_setUpIPv6
SetUpIpv6(i, h) ==
    [h EXCEPT !.conn6 = "up",
              !.wanStatus = IF i.ipv4Status = "DOWN" THEN "started" ELSE @]

\* Mutant: posts "stopped" without a look at IPv4.
AlwaysStops(i, h) == [h EXCEPT !.conn6 = "down", !.wanStatus = "stopped"]

\* wan_tearDownIPv6
TearDownIpv6(i, h) ==
    [h EXCEPT !.conn6 = "down",
              !.wanStatus = IF i.ipv4Status = "DOWN" THEN "stopped" ELSE @]

\* Started without a look at what already runs.
StartClients(n, h) ==
    IF n \in PppIfaces
    THEN [h EXCEPT !.ppp = @ \cup {n}]
    ELSE [h EXCEPT !.dhcp4 = IF @ < MaxClients THEN @ + 1 ELSE @,
                   !.dhcp6 = TRUE]

\* Mutant: counts a process that was not there.
StopsUnchecked(n, h) ==
    IF n \in PppIfaces
    THEN [h EXCEPT !.ppp = @ \ {n}, !.dhcp6 = FALSE]
    ELSE [h EXCEPT !.dhcp4 = @ - 1, !.dhcp6 = FALSE]

\* WanManager_StopDhcpv4Client signals one process of that name,
\* WanManager_StopDhcpv6Client is a killall.
StopClients(n, h) ==
    IF n \in PppIfaces
    THEN [h EXCEPT !.ppp = @ \ {n}, !.dhcp6 = FALSE]
    ELSE [h EXCEPT !.dhcp4 = IF @ > 0 THEN @ - 1 ELSE @, !.dhcp6 = FALSE]

=============================================================================
