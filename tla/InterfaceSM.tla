---------------------------- MODULE InterfaceSM ----------------------------
(***************************************************************************)
(* The interface state machines (wanmgr_interface_sm.c): one thread per    *)
(* call of WanMgr_StartInterfaceStateMachine, each bringing one WAN        *)
(* interface up, following its DHCP leases, and taking it down again.      *)
(*                                                                         *)
(* A tick of a thread (every LOOP_TIMEOUT) takes the interface mutex,      *)
(* handles the DHCP messages waiting in the interface's two slots and then *)
(* processes one state, all before it releases the mutex: one atomic step. *)
(* What happens between ticks are the other threads' writes under the same *)
(* mutex: data-model setters called by the VLAN, PHY and DS-Lite managers, *)
(* the IPC server's and the PPP handlers' messages, and the policy.        *)
(*                                                                         *)
(* A thread is <<n, k>>: the k-th thread slot of interface n.              *)
(***************************************************************************)
EXTENDS WanIface

CONSTANTS
    Slots,       \* thread slots of an interface
    Events       \* kinds of outside events that occur in an instance

VARIABLES
    wanEnable,   \* the Enable of the WAN configuration
    iface,       \* [Ifaces -> Iface], the interface table
    host,        \* what the threads configure on the box
    sm,          \* [Threads -> SmState]
    upstream     \* [Ifaces -> BOOLEAN], X_RDK_Upstream of the base interface

vars == <<wanEnable, iface, host, sm, upstream>>

Threads == Ifaces \X Slots

Leased4 == {"IPV4_LEASED", "DUAL_STACK_ACTIVE"}

\* "NONE": no thread; "START": created, wan_transition_start not yet run.
\* IPV4_OVER_IPV6_ACTIVE is left out: no transition returns it.
SmState == {"NONE", "START", "CONFIGURING_WAN", "VALIDATING_WAN",
            "OBTAINING_IP_ADDRESSES", "IPV6_LEASED", "REFRESHING_WAN",
            "DECONFIGURING_WAN", "EXIT"} \cup Leased4

TypeOK ==
    /\ wanEnable \in BOOLEAN
    /\ iface \in [Ifaces -> Iface]
    /\ host \in Host
    /\ sm \in [Threads -> SmState]
    /\ upstream \in [Ifaces -> BOOLEAN]

Init ==
    /\ wanEnable \in BOOLEAN
    /\ iface = [n \in Ifaces |-> InitIface]
    /\ host = InitHost
    /\ sm = [t \in Threads |-> "NONE"]
    /\ upstream = [n \in Ifaces |-> FALSE]

-----------------------------------------------------------------------------
(***************************************************************************)
(* Transitions.  i is the interface as the tick found it, its waiting      *)
(* messages handled.                                                       *)
(***************************************************************************)
Become(t, i, h, state) ==
    /\ iface' = [iface EXCEPT ![t[1]] = i]
    /\ host' = h
    /\ sm' = [sm EXCEPT ![t] = state]
    /\ UNCHANGED wanEnable

Stay(t, i) == Become(t, i, host, sm[t]) /\ UNCHANGED upstream

\* The test every state before DECONFIGURING_WAN begins with.
LinkLost(i) ==
    ~wanEnable \/ ~i.activeLink \/ i.phy = "DOWN" \/ i.link = "DOWN"

\* wan_transition_start, the first thing a new thread does
TransitionStart(t) ==
    /\ sm[t] = "START"
    /\ LET i == [iface[t[1]] EXCEPT
                    !.ipv4Status = "DOWN", !.ipv6Status = "DOWN",
                    !.dslite = "DOWN", !.status = "INITIALISING",
                    !.link = "CONFIGURING"]
       IN  Become(t, i, host, "CONFIGURING_WAN")
    /\ upstream' = [upstream EXCEPT ![t[1]] = TRUE]

\* Mutant: the base interface stays marked upstream.
KeepsUpstream(t, i) ==
    /\ Become(t, i, StopClients(t[1], host), "DECONFIGURING_WAN")
    /\ UNCHANGED upstream

PhysicalInterfaceDown(t, i) ==
    /\ Become(t, i, StopClients(t[1], host), "DECONFIGURING_WAN")
    /\ upstream' = [upstream EXCEPT ![t[1]] = FALSE]

WanUp(t, i) ==
    /\ Become(t, [i EXCEPT !.status = "VALIDATING"], host, "VALIDATING_WAN")
    /\ UNCHANGED upstream

WanValidated(t, i) ==
    /\ Become(t, ClearDHCPData([i EXCEPT !.status = "UP"]),
              StartClients(t[1], host), "OBTAINING_IP_ADDRESSES")
    /\ UNCHANGED upstream

\* Mutant: the clients are not started again.
RefreshedWithoutClients(t, i) ==
    /\ Become(t, ClearDHCPData(i), host, "OBTAINING_IP_ADDRESSES")
    /\ UNCHANGED upstream

WanRefreshed(t, i) ==
    /\ Become(t, ClearDHCPData(i), StartClients(t[1], host),
              "OBTAINING_IP_ADDRESSES")
    /\ UNCHANGED upstream

\* A copy of the interface goes to a thread that asks the VLAN manager to
\* refresh the link.
RefreshingWan(t, i) ==
    /\ Become(t, [i EXCEPT !.link = "CONFIGURING", !.refresh = FALSE],
              StopClients(t[1], host), "REFRESHING_WAN")
    /\ UNCHANGED upstream

\* wan_transition_ipv4_up
Ipv4Up(t, i) ==
    LET h == IF i.activeLink THEN SetUpIpv4(i, host) ELSE host
        j == [i EXCEPT !.ipv4Changed = FALSE, !.ipv4Status = "UP"]
    IN  /\ Become(t, j, h, IF j.ipv6Status = "UP" /\ h.conn6 = "up"
                           THEN "DUAL_STACK_ACTIVE" ELSE "IPV4_LEASED")
        /\ UNCHANGED upstream

Ipv4Down(t, i) ==
    LET h == TearDownIpv4(i, host)
        j == Ipv4ConnectionDown(i)
    IN  /\ Become(t, j, h, IF j.ipv6Status = "UP" /\ h.conn6 = "up"
                           THEN "IPV6_LEASED" ELSE "OBTAINING_IP_ADDRESSES")
        /\ UNCHANGED upstream

Ipv6Up(t, i) ==
    LET h == IF i.activeLink THEN SetUpIpv6(i, host) ELSE host
        j == [i EXCEPT !.ipv6Changed = FALSE, !.ipv6Status = "UP"]
    IN  /\ Become(t, j, h, IF j.ipv4Status = "UP" /\ h.conn4 = "up"
                           THEN "DUAL_STACK_ACTIVE" ELSE "IPV6_LEASED")
        /\ UNCHANGED upstream

Ipv6Down(t, i) ==
    LET h == TearDownIpv6(i, host)
        j == Ipv6ConnectionDown(i)
    IN  /\ Become(t, j, h, IF j.ipv4Status = "UP" /\ h.conn4 = "up"
                           THEN "IPV4_LEASED" ELSE "OBTAINING_IP_ADDRESSES")
        /\ UNCHANGED upstream

\* Mutant: forgets the first half.
TearsDownIpv6Only(t, i) ==
    /\ Become(t, Ipv6ConnectionDown(i), TearDownIpv6(i, host),
              "OBTAINING_IP_ADDRESSES")
    /\ UNCHANGED upstream

\* wan_transition_ipv4_down, then wan_transition_ipv6_down on its result
DualStackDown(t, i) ==
    LET h == TearDownIpv4(i, host)
        j == Ipv4ConnectionDown(i)
    IN  /\ Become(t, Ipv6ConnectionDown(j), TearDownIpv6(j, h),
                  "OBTAINING_IP_ADDRESSES")
        /\ UNCHANGED upstream

\* wan_transition_ipv4_over_ipv6_up, which configures nothing
Ipv4OverIpv6Up(t, i) ==
    Become(t, i, host, "IPV4_LEASED") /\ UNCHANGED upstream

TransitionExit(t, i) ==
    /\ Become(t, [i EXCEPT !.status = "DISABLED", !.refresh = FALSE,
                           !.activeLink = FALSE], host, "EXIT")
    /\ UNCHANGED upstream

-----------------------------------------------------------------------------
(***************************************************************************)
(* States.                                                                 *)
(***************************************************************************)
Configuring(t, i) ==
    /\ sm[t] = "CONFIGURING_WAN"
    /\ \/ LinkLost(i) /\ PhysicalInterfaceDown(t, i)
       \/ ~LinkLost(i) /\ i.link = "UP" /\ WanUp(t, i)
       \/ ~LinkLost(i) /\ i.link # "UP" /\ Stay(t, i)

Validating(t, i) ==
    /\ sm[t] = "VALIDATING_WAN"
    /\ \/ LinkLost(i) /\ PhysicalInterfaceDown(t, i)
       \/ /\ ~LinkLost(i) /\ i.link = "CONFIGURING"
          /\ Become(t, i, host, "CONFIGURING_WAN") /\ UNCHANGED upstream
       \/ ~LinkLost(i) /\ i.link = "UP" /\ WanValidated(t, i)

\* wan_state_refreshing_wan once the link is known not to be lost
Refresh(t, i) ==
    \/ i.link = "UP" /\ i.refresh /\ RefreshingWan(t, i)
    \/ i.link = "UP" /\ ~i.refresh /\ WanRefreshed(t, i)
    \/ i.link # "UP" /\ Become(t, i, host, "REFRESHING_WAN") /\ UNCHANGED upstream

\* Mutant: without the test every other state begins with.
RefreshesLostLink(t, i) == sm[t] = "REFRESHING_WAN" /\ Refresh(t, i)

Refreshing(t, i) ==
    /\ sm[t] = "REFRESHING_WAN"
    /\ \/ LinkLost(i) /\ PhysicalInterfaceDown(t, i)
       \/ ~LinkLost(i) /\ Refresh(t, i)

\* A changed prefix is first announced on the LAN; IPv6 comes up once the
\* bridge has an address of it (checkIpv6AddressAssignedToBridge, ready).
AwaitIpv6(t, i) ==
    \/ i.ipv6Changed /\ Stay(t, [i EXCEPT !.ipv6Changed = FALSE])
    \/ ~i.ipv6Changed /\ \E ready \in BOOLEAN : IF ready THEN Ipv6Up(t, i)
                                                         ELSE Stay(t, i)

\* Mutant: IPv6 is looked at before IPv4.
Ipv6First(t, i) ==
    /\ sm[t] = "OBTAINING_IP_ADDRESSES"
    /\ \/ LinkLost(i) /\ PhysicalInterfaceDown(t, i)
       \/ ~LinkLost(i) /\ (i.link = "CONFIGURING" \/ i.refresh) /\ Refresh(t, i)
       \/ /\ ~LinkLost(i) /\ i.link = "UP" /\ ~i.refresh
          /\ \/ i.ipv6Status = "UP" /\ AwaitIpv6(t, i)
             \/ i.ipv6Status = "DOWN" /\ i.ipv4Status = "UP" /\ Ipv4Up(t, i)
             \/ i.ipv6Status = "DOWN" /\ i.ipv4Status = "DOWN" /\ Stay(t, i)

Obtaining(t, i) ==
    /\ sm[t] = "OBTAINING_IP_ADDRESSES"
    /\ \/ LinkLost(i) /\ PhysicalInterfaceDown(t, i)
       \/ ~LinkLost(i) /\ (i.link = "CONFIGURING" \/ i.refresh) /\ Refresh(t, i)
       \/ /\ ~LinkLost(i) /\ i.link = "UP" /\ ~i.refresh
          /\ \/ i.ipv4Status = "UP" /\ Ipv4Up(t, i)
             \/ i.ipv4Status = "DOWN" /\ i.ipv6Status = "UP" /\ AwaitIpv6(t, i)
             \/ i.ipv4Status = "DOWN" /\ i.ipv6Status = "DOWN" /\ Stay(t, i)

\* Mutant: treats a lost link the way the states without a lease do.
LeavesLeasedAtOnce(t, i) ==
    /\ sm[t] = "IPV4_LEASED"
    /\ \/ LinkLost(i) /\ PhysicalInterfaceDown(t, i)
       \/ ~LinkLost(i) /\ (i.ipv4Status = "DOWN" \/ i.ipv4Changed) /\ Ipv4Down(t, i)
       \/ ~LinkLost(i) /\ i.ipv4Status = "UP" /\ ~i.ipv4Changed
          /\ IF i.ipv6Status = "UP" THEN AwaitIpv6(t, i) ELSE Stay(t, i)

Ipv4Leased(t, i) ==
    LET down == LinkLost(i) \/ i.ipv4Status = "DOWN" \/ i.ipv4Changed
    IN  /\ sm[t] = "IPV4_LEASED"
        /\ \/ down /\ Ipv4Down(t, i)
           \/ ~down /\ i.ipv6Status = "UP" /\ AwaitIpv6(t, i)
           \/ ~down /\ i.ipv6Status = "DOWN" /\ Stay(t, i)

Ipv6Leased(t, i) ==
    LET down == LinkLost(i) \/ i.ipv6Status = "DOWN" \/ i.ipv6Changed
    IN  /\ sm[t] = "IPV6_LEASED"
        /\ \/ down /\ Ipv6Down(t, i)
           \/ ~down /\ i.ipv4Status = "UP" /\ Ipv4Up(t, i)
           \/ ~down /\ i.ipv4Status = "DOWN" /\ i.dslite = "UP"
                    /\ Ipv4OverIpv6Up(t, i)
           \/ ~down /\ i.ipv4Status = "DOWN" /\ i.dslite = "DOWN" /\ Stay(t, i)

\* Ipv4Changed and Ipv6Changed are not looked at here.
DualStack(t, i) ==
    /\ sm[t] = "DUAL_STACK_ACTIVE"
    /\ \/ LinkLost(i) /\ DualStackDown(t, i)
       \/ ~LinkLost(i) /\ i.ipv4Status = "DOWN" /\ Ipv4Down(t, i)
       \/ ~LinkLost(i) /\ i.ipv4Status = "UP" /\ i.ipv6Status = "DOWN"
                       /\ Ipv6Down(t, i)
       \/ /\ ~LinkLost(i) /\ i.ipv4Status = "UP" /\ i.ipv6Status = "UP"
          /\ \/ i.dslite = "UP" /\ Ipv4OverIpv6Up(t, i)
             \/ i.dslite = "DOWN" /\ Stay(t, i)

Deconfiguring(t, i) ==
    /\ sm[t] = "DECONFIGURING_WAN"
    /\ \/ i.link = "DOWN" /\ TransitionExit(t, i)
       \/ i.link # "DOWN" /\ Stay(t, i)

\* wan_state_exit, after which the thread ends
Exit(t, i) ==
    /\ sm[t] = "EXIT"
    /\ Become(t, ClearDHCPData([i EXCEPT !.named = FALSE]), host, "NONE")
    /\ UNCHANGED upstream

Tick(t) ==
    \E auto \in BOOLEAN :
        LET i == HandleIpc(iface[t[1]], auto)
        IN  \/ Configuring(t, i) \/ Validating(t, i) \/ Obtaining(t, i)
            \/ Ipv4Leased(t, i) \/ Ipv6Leased(t, i) \/ DualStack(t, i)
            \/ Refreshing(t, i) \/ Deconfiguring(t, i) \/ Exit(t, i)

-----------------------------------------------------------------------------
(***************************************************************************)
(* The other threads' writes to an interface.                              *)
(***************************************************************************)
Write(n, i) ==
    /\ iface' = [iface EXCEPT ![n] = i]
    /\ UNCHANGED <<wanEnable, host, sm, upstream>>

SetPhyStatus(n) ==
    /\ "phy" \in Events
    /\ \E p \in {"UP", "DOWN"} : Write(n, [iface[n] EXCEPT !.phy = p])

\* The VLAN manager raises the link only while the base interface is marked
\* upstream, and takes it down when that flag is cleared.
SetLinkStatus(n) ==
    \E l \in LinkStatus :
        /\ l # "DOWN" => upstream[n]
        /\ Write(n, [iface[n] EXCEPT !.link = l])

VlanDown(n) ==
    /\ ~upstream[n] /\ iface[n].link # "DOWN"
    /\ Write(n, [iface[n] EXCEPT !.link = "DOWN"])

SetWanName(n) ==
    upstream[n] /\ Write(n, [iface[n] EXCEPT !.named = TRUE])

SetRefresh(n) ==
    /\ "refresh" \in Events
    /\ \E b \in BOOLEAN : Write(n, [iface[n] EXCEPT !.refresh = b])

SetDsliteStatus(n) ==
    /\ "dslite" \in Events
    /\ \E s \in IpStatus : Write(n, [iface[n] EXCEPT !.dslite = s])

\* WanMgr_IpcNewIpv4Msg: kept only if the name is known and the slot free;
\* the retries that all fail change nothing.
IpcNewIpv4Msg(n) ==
    /\ n \notin PppIfaces
    /\ iface[n].named /\ iface[n].ipc4 = NoMsg
    /\ \E m \in Msg4 : m.type # "other" /\ Write(n, [iface[n] EXCEPT !.ipc4 = m])

IpcNewIpv6Msg(n) ==
    /\ "ipv6" \in Events
    /\ iface[n].named /\ iface[n].ipc6 = NoMsg
    /\ \E m \in Msg6 : Write(n, [iface[n] EXCEPT !.ipc6 = m])

\* IPCPStateChangeHandler fills the slot and handles it at once.  On DOWN it
\* leaves isExpired uninitialised, so the message may or may not expire the
\* lease; when a query to the PPP manager fails the slot is left behind,
\* partly uninitialised.
IPCPStateChange(n) ==
    /\ n \in PppIfaces
    /\ iface[n].named /\ iface[n].ipc4 = NoMsg
    /\ \E m \in Msg4 :
          LET i == [iface[n] EXCEPT !.ipc4 = m]
          IN  \/ Write(n, HandleDhcpv4(i))
              \/ m.type \in {"assigned", "other"} /\ Write(n, i)

IPV6CPStateChange(n) ==
    /\ n \in PppIfaces /\ iface[n].named
    /\ \E up \in BOOLEAN : host' = [host EXCEPT !.dhcp6 = up]
    /\ UNCHANGED <<wanEnable, iface, sm, upstream>>

\* WanManagerSyseventHandler on the event that the LAN prefix was cleared
Ipv6PrefixClear ==
    /\ "prefixClear" \in Events
    /\ host' = [host EXCEPT !.conn6 = "down"]
    /\ UNCHANGED <<wanEnable, iface, sm, upstream>>

SetWanEnable ==
    /\ \E b \in BOOLEAN : wanEnable' = b
    /\ UNCHANGED <<iface, host, sm, upstream>>

\* A policy that starts a thread only when no other is alive
\* (WanMgr_StartInterfaceStateMachine), and gives up its interface.
StartInterfaceStateMachine(n, k) ==
    /\ wanEnable
    /\ \A t \in Threads : sm[t] = "NONE"
    /\ iface' = [iface EXCEPT ![n].activeLink = TRUE]
    /\ sm' = [sm EXCEPT ![<<n, k>>] = "START"]
    /\ UNCHANGED <<wanEnable, host, upstream>>

Deselect(n) == Write(n, [iface[n] EXCEPT !.activeLink = FALSE])

-----------------------------------------------------------------------------
Thread(t) == TransitionStart(t) \/ Tick(t)

Managers(n) ==
    \/ SetPhyStatus(n) \/ SetLinkStatus(n) \/ VlanDown(n) \/ SetWanName(n)
    \/ SetRefresh(n) \/ SetDsliteStatus(n) \/ IpcNewIpv4Msg(n)
    \/ IpcNewIpv6Msg(n) \/ IPCPStateChange(n) \/ IPV6CPStateChange(n)

Policy(n) == Deselect(n) \/ \E k \in Slots : StartInterfaceStateMachine(n, k)

Next ==
    \/ \E t \in Threads : Thread(t)
    \/ \E n \in Ifaces : Managers(n) \/ Policy(n)
    \/ Ipv6PrefixClear
    \/ SetWanEnable

\* Threads keep ticking; the VLAN manager takes a link down that is no longer
\* marked upstream.
Fairness ==
    /\ \A t \in Threads : WF_vars(Thread(t))
    /\ \A n \in Ifaces : WF_vars(VlanDown(n))

Spec == Init /\ [][Next]_vars
FairSpec == Spec /\ Fairness

-----------------------------------------------------------------------------
(***************************************************************************)
(* Safety.                                                                 *)
(***************************************************************************)
NoThread == \A t \in Threads : sm[t] = "NONE"

\* The box is told that IPv4 is up (ipv4_connection_state, set by
\* wan_setUpIPv4 and wan_tearDownIPv4) only while some state machine is in a
\* state that follows an IPv4 lease, whichever way the lease, the link, the
\* policy or a second address family left the state before.
Ipv4OnlyWhileLeased ==
    host.conn4 = "up" => \E t \in Threads : sm[t] \in Leased4

\* The address wan_setUpIPv4 put on the WAN device is there exactly while
\* ipv4_connection_state says so; wan_tearDownIPv4 needs Wan.Name to remove
\* it, and the name may not be gone by then.
AddressMatchesState == (host.address4 # NoLease) <=> (host.conn4 = "up")

\* While IPv4 is up the address on the device is the one of the lease that
\* is recorded, unless the record is marked changed: a renewal that hands
\* out another configuration may be late to be applied but is not forgotten.
LeaseApplied ==
    \A t \in Threads :
        LET i == iface[t[1]]
        IN  /\ sm[t] \in Leased4
            /\ host.conn4 = "up" /\ i.ipv4Status = "UP"
            => host.address4 = i.ipv4Data \/ i.ipv4Changed

\* The DHCP clients that renew the leases run in every state that waits for
\* a lease or holds one: no path stops them and stays in such a state.
ClientsRun ==
    \A t \in Threads :
        /\ t[1] \notin PppIfaces
        /\ sm[t] \in {"OBTAINING_IP_ADDRESSES", "IPV6_LEASED"} \cup Leased4
        => host.dhcp4 > 0 /\ host.dhcp6

\* What wan_state_exit leaves for the next session of an interface: no
\* name, no lease, and no message of the old session that could pass for
\* one of the new.
NothingLeftBehind ==
    NoThread => \A n \in Ifaces :
        /\ ~iface[n].named
        /\ iface[n].ipv4Status = "DOWN" /\ iface[n].ipc4 = NoMsg
        /\ iface[n].ipv6Status = "DOWN" /\ iface[n].ipc6 = NoMsg

\* wan-status is posted "stopped" only by a step that leaves IPv4 down: the
\* daemons that stop with it never lose a connection that is still up.
StoppedAfterIpv4 ==
    [][host.wanStatus = "started" /\ host.wanStatus' = "stopped"
          => host'.conn4 = "down"]_vars

-----------------------------------------------------------------------------
(***************************************************************************)
(* The inductive invariant behind the safety properties.                   *)
(***************************************************************************)
Linked == {"CONFIGURING_WAN", "VALIDATING_WAN", "OBTAINING_IP_ADDRESSES",
           "IPV6_LEASED", "REFRESHING_WAN"} \cup Leased4

\* Threads are started one at a time.
OneThread ==
    \A t, u \in Threads : sm[t] # "NONE" /\ sm[u] # "NONE" => t = u

\* The base interface is marked upstream by a thread that clears the mark
\* when it goes to DECONFIGURING_WAN.
UpstreamHeld ==
    \A n \in Ifaces : upstream[n] => \E k \in Slots : sm[<<n, k>>] \in Linked

\* An interface has a name only while a thread is there to clear it, and
\* without a name no message reaches it.
NameHeld ==
    \A n \in Ifaces : iface[n].named => \E k \in Slots : sm[<<n, k>>] # "NONE"

Unused(i) ==
    /\ i.ipv4Status = "DOWN" /\ i.ipv4Data = NoLease /\ i.ipc4 = NoMsg
    /\ i.ipv6Status = "DOWN" /\ i.ipc6 = NoMsg

UnnamedUnused == \A n \in Ifaces : iface[n].named \/ Unused(iface[n])

\* IPv4 is up only while a thread that holds a lease can still name the
\* device it has to clear.
LeasedAndNamed ==
    host.conn4 = "up" =>
        \E t \in Threads : sm[t] \in Leased4 /\ iface[t[1]].named

\* An address a on the device is the recorded one, marked as outdated, or
\* its lease is known to be over.
Follows(a, i) ==
    \/ a = i.ipv4Data
    \/ i.ipv4Changed
    \/ i.ipv4Status = "DOWN" /\ i.ipv4Data = NoLease

LeaseFollowed ==
    \A t \in Threads :
        sm[t] \in Leased4 /\ host.conn4 = "up"
            => Follows(host.address4, iface[t[1]])

\* Wan.Status as the state of the thread determines it
StatusOf(state) ==
    CASE state \in {"NONE", "START", "EXIT"} -> {"DISABLED"}
      [] state = "CONFIGURING_WAN" -> {"INITIALISING", "VALIDATING"}
      [] state = "VALIDATING_WAN" -> {"VALIDATING"}
      [] state = "DECONFIGURING_WAN" -> {"INITIALISING", "VALIDATING", "UP"}
      [] OTHER -> {"UP"}

StatusFits ==
    \A n \in Ifaces :
        /\ \A k \in Slots : sm[<<n, k>>] # "NONE"
              => iface[n].status \in StatusOf(sm[<<n, k>>])
        /\ (\A k \in Slots : sm[<<n, k>>] = "NONE")
              => iface[n].status = "DISABLED"

\* Together they are kept by every step, whatever the constants: see
\* InterfaceSM_proofs.
IndInv ==
    /\ TypeOK
    /\ OneThread /\ UpstreamHeld /\ NameHeld /\ UnnamedUnused
    /\ LeasedAndNamed /\ AddressMatchesState /\ LeaseFollowed
    /\ ClientsRun /\ StatusFits

-----------------------------------------------------------------------------
(***************************************************************************)
(* Refinement: the sessions the policies and the other daemons see.        *)
(***************************************************************************)
Service == INSTANCE WanService WITH
              Links <- Ifaces,
              phase <- [n \in Ifaces |-> iface[n].status],
              ipv4  <- (host.conn4 = "up")

\* Every behaviour of the threads is one of sessions: one at a time, IPv4 up
\* only in a validated one, and Wan.Status DISABLED (which lets a policy
\* start the next) only after IPv4 is torn down.
ServesInSessions == Service!ServiceSpec

Stage(state) ==
    IF state \in Linked THEN "RUN" ELSE state

Session == INSTANCE WanSession WITH
              sm  <- [t \in Threads |-> Stage(sm[t])],
              wan <- [n \in Ifaces |->
                        [phy |-> iface[n].phy,
                         link |-> IF iface[n].link = "DOWN" THEN "DOWN"
                                                            ELSE "UP",
                         disabled |-> iface[n].status = "DISABLED",
                         activeLink |-> iface[n].activeLink,
                         named |-> iface[n].named]]

\* The part of the threads that the policies depend on is WanSession: however
\* leases, refreshes and softwires drive a thread, it changes the status, the
\* mark, the name and the upstream flag of its interface only in that order.
KeepsSessions == Session!SessionSpec

-----------------------------------------------------------------------------
(***************************************************************************)
(* Liveness.                                                               *)
(***************************************************************************)

\* A thread that has begun to release its interface ends.
ReleaseEnds ==
    \A t \in Threads : sm[t] = "DECONFIGURING_WAN" ~> sm[t] = "NONE"

\* Once the WAN stays disabled every thread ends, from whatever state.
DisableEnds == []<>wanEnable \/ <>[]NoThread

Operational(n) ==
    /\ wanEnable
    /\ iface[n].activeLink /\ iface[n].phy = "UP" /\ iface[n].link = "UP"
    /\ ~iface[n].refresh

\* If the link of an interface stays up and the server keeps assigning
\* leases that do not expire, IPv4 comes up again whenever it is down: a
\* change of lease and the comings and goings of IPv6 delay it but never
\* keep it down for good.
Ipv4ComesUp ==
    \A n \in Ifaces :
        /\ <>[](Operational(n) /\ iface[n].ipc4.type # "expired")
        /\ []<>(iface[n].ipc4.type = "assigned")
        => []<>(host.conn4 = "up")

=============================================================================
