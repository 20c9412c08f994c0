------------------------- MODULE InterfaceSM_proofs -------------------------
(***************************************************************************)
(* Proofs about the interface state machines, for every set of interfaces, *)
(* leases and threads and every choice of outside events.                  *)
(*                                                                         *)
(* 1. What the functions of WanIface return.                               *)
(* 2. The steps of a thread, each with what is known when it is taken.     *)
(* 3. IndInv is inductive, and the safety properties follow from it.       *)
(* 4. The state machines implement WanService and WanSession.              *)
(***************************************************************************)
EXTENDS InterfaceSM, TLAPS

-----------------------------------------------------------------------------
(***************************************************************************)
(* The functions of WanIface.                                              *)
(***************************************************************************)

\* The functions that clear or take in leases keep an interface an
\* interface, and NoMsg is recognised by its type.
LEMMA ClearType ==
    ASSUME NEW i \in Iface
    PROVE  /\ Ipv4ConnectionDown(i) \in Iface
           /\ Ipv6ConnectionDown(i) \in Iface
           /\ ClearDHCPData(i) \in Iface
  <1>1. Ipv4ConnectionDown(i) \in Iface
    BY Zenon DEF Iface, IpStatus, Ipv4ConnectionDown
  <1>2. Ipv6ConnectionDown(i) \in Iface
    BY Zenon DEF Iface, IpStatus, Ipv6ConnectionDown
  <1>3. ClearDHCPData(i) \in Iface
    BY Zenon DEF Iface, IpStatus, ClearDHCPData
  <1> QED BY <1>1, <1>2, <1>3

\* wanmgr_handle_dchpv4_event_data returns a well-formed interface.
LEMMA Handle4Type ==
    ASSUME NEW i \in Iface
    PROVE  HandleDhcpv4(i) \in Iface
  <1> DEFINE m == i.ipc4
  <1>1. m \in Msg4 \cup {NoMsg}
    BY DEF Iface
  <1>2. CASE m.type = "assigned"
    <2>1. m.lease \in Lease4
      BY <1>1, <1>2 DEF Msg4, NoMsg
    <2> QED BY <1>2, <2>1 DEF HandleDhcpv4, Iface, IpStatus
  <1>3. CASE m.type = "expired"
    BY <1>3, ClearType DEF HandleDhcpv4, Iface
  <1>4. CASE m.type \notin {"assigned", "expired"}
    BY <1>4 DEF HandleDhcpv4, Iface
  <1> QED BY <1>2, <1>3, <1>4

\* wanmgr_handle_dchpv6_event_data returns a well-formed interface.
LEMMA Handle6Type ==
    ASSUME NEW i \in Iface, NEW auto \in BOOLEAN
    PROVE  HandleDhcpv6(i, auto) \in Iface
  <1> DEFINE m == i.ipc6
             j == IF PrefixRemoved(i) THEN Ipv6ConnectionDown(i) ELSE i
  <1>1. m \in Msg6 \cup {NoMsg} /\ m.lease \in Lease6 \cup {NoLease}
    BY DEF Iface, Msg6, NoMsg
  <1>2. j \in Iface
    BY ClearType
  <1>3. Ipv6Connected(j, m.lease) \in Iface
    <2> HIDE DEF j, m
    <2> DEFINE changed == j.ipv6Changed \/ m.lease # j.ipv6Data
    <2>1. changed \in BOOLEAN /\ m.lease \in Lease6 \cup {NoLease}
      BY <1>1
    <2> HIDE DEF changed
    <2>2. [j EXCEPT !.ipv6Changed = changed, !.ipv6Data = m.lease,
                    !.ipv6Status = "UP", !.ipc6 = NoMsg] \in Iface
      BY Zenon, <1>2, <2>1 DEF Iface, IpStatus
    <2> QED BY <2>2 DEF changed, Ipv6Connected
  <1>4. [j EXCEPT !.ipc6 = NoMsg] \in Iface
    BY <1>2 DEF Iface
  <1>5. [Ipv6ConnectionDown(i) EXCEPT !.ipc6 = NoMsg] \in Iface
    BY ClearType DEF Iface
  <1> HIDE DEF j
  <1> QED BY <1>3, <1>4, <1>5 DEF HandleDhcpv6, j

\* What wanmgr_handle_dchpv4_event_data leaves alone, and what the invariant
\* needs of the rest: a configuration that differs is marked changed.
LEMMA Handle4Facts ==
    ASSUME NEW i \in Iface
    PROVE  LET k == HandleDhcpv4(i)
           IN  /\ k \in Iface
               /\ k.status = i.status /\ k.named = i.named
               /\ Unused(i) => Unused(k)
               /\ \A a : Follows(a, i) => Follows(a, k)
  <1> DEFINE k == HandleDhcpv4(i)
  <1>1. k.status = i.status /\ k.named = i.named
    BY DEF HandleDhcpv4, Iface, Ipv4ConnectionDown
  <1>2. Unused(i) => Unused(k)
    BY DEF HandleDhcpv4, Iface, Ipv4ConnectionDown, Unused, NoMsg
  <1>3. ASSUME NEW a, Follows(a, i) PROVE Follows(a, k)
    <2>1. CASE i.ipc4.type = "assigned"
      <3>1. /\ k.ipv4Changed <=> i.ipv4Changed \/ i.ipc4.lease # i.ipv4Data
            /\ k.ipv4Data = i.ipc4.lease
        BY <2>1 DEF HandleDhcpv4, Iface
      <3>2. i.ipc4.lease # NoLease
        BY <2>1, LeaseAssumption DEF Iface, Msg4, NoMsg
      <3> HIDE DEF k
      <3> QED BY <1>3, <3>1, <3>2 DEF Follows
    <2>2. CASE i.ipc4.type = "expired"
      BY <2>2 DEF HandleDhcpv4, Iface, Ipv4ConnectionDown, Follows
    <2>3. CASE i.ipc4.type \notin {"assigned", "expired"}
      BY <1>3, <2>3 DEF HandleDhcpv4, Iface, Follows
    <2> QED BY <2>1, <2>2, <2>3
  <1> QED BY <1>1, <1>2, <1>3, Handle4Type

\* Both slots handled, as a tick begins.
LEMMA HandleIpcFacts ==
    ASSUME NEW i \in Iface, NEW auto \in BOOLEAN
    PROVE  LET j == HandleIpc(i, auto)
           IN  /\ j \in Iface
               /\ j.status = i.status /\ j.named = i.named
               /\ Unused(i) => Unused(j)
               /\ \A a : Follows(a, i) => Follows(a, j)
  <1> DEFINE k == HandleDhcpv4(i)
             j == HandleDhcpv6(k, auto)
  <1>1. k \in Iface /\ j \in Iface
    BY Handle4Type, Handle6Type
  <1>2. /\ k.status = i.status /\ k.named = i.named
        /\ Unused(i) => Unused(k)
        /\ \A a : Follows(a, i) => Follows(a, k)
    BY Handle4Facts
  <1>3. /\ j.status = k.status /\ j.named = k.named
        /\ j.ipv4Status = k.ipv4Status /\ j.ipv4Changed = k.ipv4Changed
        /\ j.ipv4Data = k.ipv4Data /\ j.ipc4 = k.ipc4
        /\ k.ipv6Status = "DOWN" /\ k.ipc6 = NoMsg
              => j.ipv6Status = "DOWN" /\ j.ipc6 = NoMsg
    <2> HIDE DEF k
    <2> QED BY <1>1 DEF HandleDhcpv6, Iface, Msg6, NoMsg, Ipv6ConnectionDown,
                       PrefixRemoved, Ipv6Connected
  <1> HIDE DEF k, j
  <1>4. HandleIpc(i, auto) = j
    BY DEF HandleIpc, j, k
  <1> QED BY <1>1, <1>2, <1>3, <1>4 DEF Unused, Follows

\* What a policy sees of an interface; Disabled and Level are the values of
\* the two fields that are abstracted.
Level(link) == IF link = "DOWN" THEN "DOWN" ELSE "UP"
Disabled(status) == status = "DISABLED"

View(i) == [phy |-> i.phy,
            link |-> Level(i.link),
            disabled |-> Disabled(i.status),
            activeLink |-> i.activeLink,
            named |-> i.named]

\* Two interfaces that agree on what is seen look the same.
LEMMA SameView ==
    ASSUME NEW i, NEW j,
           j.phy = i.phy, j.activeLink = i.activeLink, j.named = i.named,
           j.link = "DOWN" <=> i.link = "DOWN",
           j.status = "DISABLED" <=> i.status = "DISABLED"
    PROVE  View(j) = View(i)
  <1>1. Disabled(j.status) = Disabled(i.status)
    BY Zenon DEF Disabled
  <1>2. Level(j.link) = Level(i.link)
    BY DEF Level
  <1> QED BY <1>1, <1>2 DEF View

\* Waiting messages change nothing that is seen.
LEMMA HandleUnseen ==
    ASSUME NEW i \in Iface
    PROVE  /\ View(HandleDhcpv4(i)) = View(i)
           /\ \A auto \in BOOLEAN : View(HandleIpc(i, auto)) = View(i)
  <1>1. ASSUME NEW k \in Iface
        PROVE  /\ HandleDhcpv4(k).phy = k.phy
               /\ HandleDhcpv4(k).link = k.link
               /\ HandleDhcpv4(k).activeLink = k.activeLink
               /\ HandleDhcpv4(k).status = k.status
               /\ HandleDhcpv4(k).named = k.named
    BY DEF HandleDhcpv4, Iface, Ipv4ConnectionDown
  <1>2. ASSUME NEW k \in Iface, NEW auto \in BOOLEAN
        PROVE  /\ HandleDhcpv6(k, auto).phy = k.phy
               /\ HandleDhcpv6(k, auto).link = k.link
               /\ HandleDhcpv6(k, auto).activeLink = k.activeLink
               /\ HandleDhcpv6(k, auto).status = k.status
               /\ HandleDhcpv6(k, auto).named = k.named
    BY DEF HandleDhcpv6, Iface, Msg6, NoMsg, Ipv6ConnectionDown,
       PrefixRemoved, Ipv6Connected
  <1>3. View(HandleDhcpv4(i)) = View(i)
    BY <1>1, SameView
  <1>4. ASSUME NEW auto \in BOOLEAN PROVE View(HandleIpc(i, auto)) = View(i)
    <2> DEFINE k == HandleDhcpv4(i)
    <2>1. k \in Iface
      BY Handle4Type
    <2> HIDE DEF k
    <2>2. View(HandleDhcpv6(k, auto)) = View(k)
      BY <1>2, <2>1, SameView
    <2> QED BY <1>3, <2>2 DEF HandleIpc, k
  <1> QED BY <1>3, <1>4

\* The functions that configure the box keep it well-formed; the count of
\* udhcpc processes stays within its bound.
LEMMA HostType ==
    ASSUME NEW i \in Iface, NEW h \in Host, NEW n \in Ifaces
    PROVE  /\ SetUpIpv4(i, h) \in Host /\ TearDownIpv4(i, h) \in Host
           /\ SetUpIpv6(i, h) \in Host /\ TearDownIpv6(i, h) \in Host
           /\ StartClients(n, h) \in Host /\ StopClients(n, h) \in Host
  <1>1. /\ h.wanStatus \in {"started", "stopped"}
        /\ h.address4 \in Lease4 \cup {NoLease}
        /\ h.dhcp4 \in 0 .. MaxClients /\ h.ppp \in SUBSET Ifaces
    BY DEF Host
  <1>2. SetUpIpv4(i, h) \in Host
    <2>1. ASSUME NEW a \in Lease4, NEW w \in {"started", "stopped"}
          PROVE  [h EXCEPT !.conn4 = "up", !.address4 = a, !.wanStatus = w]
                    \in Host
      BY Zenon DEF Host
    <2> QED BY <1>1, <2>1 DEF SetUpIpv4
  <1>3. TearDownIpv4(i, h) \in Host
    <2>1. ASSUME NEW a \in Lease4 \cup {NoLease},
                 NEW w \in {"started", "stopped"}
          PROVE  [h EXCEPT !.conn4 = "down", !.address4 = a, !.wanStatus = w]
                    \in Host
      BY Zenon DEF Host
    <2> QED BY <1>1, <2>1 DEF TearDownIpv4
  <1>4. SetUpIpv6(i, h) \in Host /\ TearDownIpv6(i, h) \in Host
    <2>1. ASSUME NEW c \in {"up", "down"}, NEW w \in {"started", "stopped"}
          PROVE  [h EXCEPT !.conn6 = c, !.wanStatus = w] \in Host
      BY Zenon DEF Host
    <2> QED BY <1>1, <2>1 DEF SetUpIpv6, TearDownIpv6
  <1>5. StartClients(n, h) \in Host /\ StopClients(n, h) \in Host
    <2>1. ASSUME NEW c \in 0 .. MaxClients, NEW b \in BOOLEAN
          PROVE  [h EXCEPT !.dhcp4 = c, !.dhcp6 = b] \in Host
      BY Zenon DEF Host
    <2>2. ASSUME NEW p \in SUBSET Ifaces
          PROVE  /\ [h EXCEPT !.ppp = p] \in Host
                 /\ [h EXCEPT !.ppp = p, !.dhcp6 = FALSE] \in Host
      BY Zenon DEF Host
    <2>3. /\ (IF h.dhcp4 < MaxClients THEN h.dhcp4 + 1 ELSE h.dhcp4)
                \in 0 .. MaxClients
          /\ (IF h.dhcp4 > 0 THEN h.dhcp4 - 1 ELSE h.dhcp4) \in 0 .. MaxClients
      BY <1>1, ClientAssumption
    <2>4. h.ppp \cup {n} \in SUBSET Ifaces /\ h.ppp \ {n} \in SUBSET Ifaces
      BY <1>1
    <2> QED BY <2>1, <2>2, <2>3, <2>4 DEF StartClients, StopClients
  <1> QED BY <1>2, <1>3, <1>4, <1>5

-----------------------------------------------------------------------------
(***************************************************************************)
(* Steps of a thread.  Because no second thread is alive, IndInv says of a *)
(* living thread in state s, its interface i (of name n) and the host h    *)
(* what Local does, and a step of the thread has only that to keep.        *)
(***************************************************************************)
Local(n, i, h, s) ==
    /\ i \in Iface /\ h \in Host
    /\ i.named \/ Unused(i)
    /\ s = "NONE" => ~i.named
    /\ h.conn4 = "up" => s \in Leased4 /\ i.named /\ Follows(h.address4, i)
    /\ (h.address4 # NoLease) <=> (h.conn4 = "up")
    /\ n \notin PppIfaces
       /\ s \in {"OBTAINING_IP_ADDRESSES", "IPV6_LEASED"} \cup Leased4
          => h.dhcp4 > 0 /\ h.dhcp6
    /\ i.status \in StatusOf(s)

\* A thread is the pair of its interface and its slot.
LEMMA ThreadPair ==
    ASSUME NEW t \in Threads
    PROVE  t[1] \in Ifaces /\ t[2] \in Slots /\ t = <<t[1], t[2]>>
  BY DEF Threads

\* The other threads' absence makes the global invariant local, and leaves
\* no other interface marked upstream.
LEMMA LocalHolds ==
    ASSUME IndInv, NEW t \in Threads, sm[t] # "NONE"
    PROVE  /\ Local(t[1], iface[t[1]], host, sm[t])
           /\ \A n \in Ifaces : upstream[n] => n = t[1] /\ sm[t] \in Linked
  <1>1. \A u \in Threads : sm[u] # "NONE" => u = t
    BY DEF IndInv, OneThread
  <1>2. t[1] \in Ifaces /\ t[2] \in Slots /\ t = <<t[1], t[2]>>
    BY ThreadPair
  <1>3. \A n \in Ifaces : upstream[n] => n = t[1] /\ sm[t] \in Linked
    <2> SUFFICES ASSUME NEW n \in Ifaces, upstream[n]
                 PROVE  n = t[1] /\ sm[t] \in Linked
      OBVIOUS
    <2>1. PICK k \in Slots : sm[<<n, k>>] \in Linked
      BY DEF IndInv, UpstreamHeld
    <2>2. <<n, k>> \in Threads /\ sm[<<n, k>>] # "NONE"
      BY <2>1 DEF Threads, Linked, Leased4
    <2> QED BY <1>1, <2>1, <2>2
  <1>4. host.conn4 = "up" => /\ sm[t] \in Leased4 /\ iface[t[1]].named
                            /\ Follows(host.address4, iface[t[1]])
    <2> SUFFICES ASSUME host.conn4 = "up"
                 PROVE  /\ sm[t] \in Leased4 /\ iface[t[1]].named
                        /\ Follows(host.address4, iface[t[1]])
      OBVIOUS
    <2>1. PICK u \in Threads : sm[u] \in Leased4 /\ iface[u[1]].named
      BY DEF IndInv, LeasedAndNamed
    <2>2. u = t
      BY <1>1, <2>1 DEF Leased4
    <2> QED BY <2>1, <2>2 DEF IndInv, LeaseFollowed
  <1>5. iface[t[1]] \in Iface /\ host \in Host
    BY <1>2 DEF IndInv, TypeOK
  <1>6. iface[t[1]].named \/ Unused(iface[t[1]])
    BY <1>2 DEF IndInv, UnnamedUnused
  <1>7. iface[t[1]].status \in StatusOf(sm[t])
    BY <1>2 DEF IndInv, StatusFits
  <1>8. (host.address4 # NoLease) <=> (host.conn4 = "up")
    BY DEF IndInv, AddressMatchesState
  <1>9. t[1] \notin PppIfaces
        /\ sm[t] \in {"OBTAINING_IP_ADDRESSES", "IPV6_LEASED"} \cup Leased4
           => host.dhcp4 > 0 /\ host.dhcp6
    BY DEF IndInv, ClientsRun
  <1> QED BY <1>3, <1>4, <1>5, <1>6, <1>7, <1>8, <1>9 DEF Local

\* A step of a living thread that keeps Local keeps IndInv.
LEMMA BecomeKeeps ==
    ASSUME IndInv, NEW t \in Threads, sm[t] # "NONE",
           NEW j, NEW h, NEW s \in SmState,
           Become(t, j, h, s), Local(t[1], j, h, s),
           upstream' \in [Ifaces -> BOOLEAN],
           \A n \in Ifaces : upstream'[n] => n = t[1] /\ s \in Linked
    PROVE  IndInv'
  <1>1. t[1] \in Ifaces /\ t[2] \in Slots /\ t = <<t[1], t[2]>>
    BY ThreadPair
  <1>2. /\ iface' = [iface EXCEPT ![t[1]] = j] /\ iface'[t[1]] = j
        /\ \A n \in Ifaces : n # t[1] => iface'[n] = iface[n]
        /\ sm' = [sm EXCEPT ![t] = s] /\ sm'[t] = s
        /\ \A u \in Threads : u # t => sm'[u] = "NONE"
        /\ host' = h /\ UNCHANGED wanEnable
    BY <1>1 DEF Become, IndInv, TypeOK, OneThread
  <1>3. TypeOK'
    BY <1>1, <1>2 DEF IndInv, TypeOK, Local
  <1>4. OneThread'
    BY <1>2 DEF OneThread
  <1>5. UpstreamHeld'
    BY <1>1, <1>2 DEF UpstreamHeld
  <1>6. ASSUME NEW n \in Ifaces, n # t[1]
        PROVE  \A k \in Slots : sm[<<n, k>>] = "NONE" /\ sm'[<<n, k>>] = "NONE"
    BY <1>1, <1>2, <1>6 DEF Threads, IndInv, OneThread
  <1>7. NameHeld'
    <2> SUFFICES ASSUME NEW n \in Ifaces, iface'[n].named
                 PROVE  \E k \in Slots : sm'[<<n, k>>] # "NONE"
      BY DEF NameHeld
    <2>1. CASE n = t[1]
      BY <1>1, <1>2, <2>1 DEF Local
    <2>2. CASE n # t[1]
      BY <1>2, <1>6, <2>2 DEF IndInv, NameHeld
    <2> QED BY <2>1, <2>2
  <1>8. UnnamedUnused'
    BY <1>1, <1>2 DEF IndInv, UnnamedUnused, Unused, Local
  <1>9. LeasedAndNamed'
    BY <1>1, <1>2 DEF LeasedAndNamed, Local
  <1>10. AddressMatchesState'
    BY <1>2 DEF AddressMatchesState, Local
  <1>11. LeaseFollowed'
    BY <1>1, <1>2 DEF LeaseFollowed, Local, Follows, Leased4
  <1>12. ClientsRun'
    BY <1>1, <1>2 DEF ClientsRun, Local, Leased4
  <1>13. StatusFits'
    <2> SUFFICES ASSUME NEW n \in Ifaces
                 PROVE  /\ \A k \in Slots : sm'[<<n, k>>] # "NONE"
                             => iface'[n].status \in StatusOf(sm'[<<n, k>>])
                        /\ (\A k \in Slots : sm'[<<n, k>>] = "NONE")
                             => iface'[n].status = "DISABLED"
      BY DEF StatusFits
    <2>1. CASE n = t[1]
      <3>1. ASSUME NEW k \in Slots, sm'[<<n, k>>] # "NONE"
            PROVE  <<n, k>> = t
        BY <1>2, <3>1 DEF Threads
      <3>2. s = "NONE" => j.status = "DISABLED"
        BY DEF Local, StatusOf
      <3> QED BY <1>1, <1>2, <2>1, <3>1, <3>2 DEF Local
    <2>2. CASE n # t[1]
      BY <1>2, <1>6, <2>2 DEF IndInv, StatusFits
    <2> QED BY <2>1, <2>2
  <1> QED BY <1>3, <1>4, <1>5, <1>7, <1>8, <1>9, <1>10, <1>11, <1>12, <1>13
          DEF IndInv


\* What upstream may become: unchanged if the thread keeps its mark, or
\* cleared for its interface.
LEMMA UpstreamKept ==
    ASSUME IndInv, NEW t \in Threads, sm[t] # "NONE", NEW s,
           \/ upstream' = upstream /\ (sm[t] \in Linked => s \in Linked)
           \/ upstream' = [upstream EXCEPT ![t[1]] = FALSE]
           \/ upstream' = [upstream EXCEPT ![t[1]] = TRUE] /\ s \in Linked
    PROVE  /\ upstream' \in [Ifaces -> BOOLEAN]
           /\ \A n \in Ifaces : upstream'[n] => n = t[1] /\ s \in Linked
  <1>1. upstream \in [Ifaces -> BOOLEAN] /\ t[1] \in Ifaces
    BY ThreadPair DEF IndInv, TypeOK
  <1>2. \A n \in Ifaces : upstream[n] => n = t[1] /\ sm[t] \in Linked
    BY LocalHolds
  <1> QED BY <1>1, <1>2

\* wan_transition_start
LEMMA TransitionStartKeeps ==
    ASSUME IndInv, NEW t \in Threads, TransitionStart(t)
    PROVE  IndInv'
  <1> DEFINE i == iface[t[1]]
             j == [i EXCEPT !.ipv4Status = "DOWN", !.ipv6Status = "DOWN",
                            !.dslite = "DOWN", !.status = "INITIALISING",
                            !.link = "CONFIGURING"]
  <1>1. /\ sm[t] = "START" /\ Become(t, j, host, "CONFIGURING_WAN")
        /\ upstream' = [upstream EXCEPT ![t[1]] = TRUE]
    BY DEF TransitionStart
  <1>2. Local(t[1], i, host, "START")
    BY <1>1, LocalHolds
  <1>3. j \in Iface
    BY Zenon, <1>2 DEF Local, Iface, IpStatus, LinkStatus, WanStatus
  <1>4. /\ j.named = i.named /\ (Unused(i) => Unused(j))
        /\ j.status \in StatusOf("CONFIGURING_WAN")
    BY <1>2 DEF Local, Iface, Unused, StatusOf
  <1>5. Local(t[1], j, host, "CONFIGURING_WAN")
    BY <1>2, <1>3, <1>4 DEF Local, Leased4
  <1>6. "CONFIGURING_WAN" \in SmState \cap Linked
    BY DEF SmState, Linked
  <1> HIDE DEF j
  <1> QED BY <1>1, <1>5, <1>6, UpstreamKept, BecomeKeeps

\* wan_transition_physical_interface_down: the clients stop, and the thread
\* leaves the states that need them.
LEMMA PhysicalInterfaceDownKeeps ==
    ASSUME IndInv, NEW t \in Threads, NEW i, Local(t[1], i, host, sm[t]),
           sm[t] \in Linked \ (Leased4 \cup {"IPV6_LEASED"}),
           PhysicalInterfaceDown(t, i)
    PROVE  IndInv'
  <1> DEFINE h == StopClients(t[1], host)
  <1>1. /\ Become(t, i, h, "DECONFIGURING_WAN")
        /\ upstream' = [upstream EXCEPT ![t[1]] = FALSE]
    BY DEF PhysicalInterfaceDown
  <1>2. h \in Host /\ h.conn4 = host.conn4 /\ h.address4 = host.address4
    <2>1. h \in Host
      BY HostType, ThreadPair DEF Local
    <2>2. h.conn4 = host.conn4 /\ h.address4 = host.address4
      BY DEF StopClients, Local, Host
    <2> QED BY <2>1, <2>2
  <1>3. i.status \in StatusOf("DECONFIGURING_WAN")
    BY DEF Local, StatusOf, Linked, Leased4
  <1>4. Local(t[1], i, h, "DECONFIGURING_WAN")
    BY <1>2, <1>3 DEF Local, Leased4, Linked
  <1>5. "DECONFIGURING_WAN" \in SmState /\ sm[t] # "NONE"
    BY DEF SmState, Linked, Leased4
  <1> HIDE DEF h
  <1> QED BY <1>1, <1>4, <1>5, UpstreamKept, BecomeKeeps

\* A step that leaves the host and the interface's lease alone.
LEMMA QuietStepKeeps ==
    ASSUME IndInv, NEW t \in Threads, sm[t] # "NONE",
           NEW i, Local(t[1], i, host, sm[t]),
           NEW j \in Iface, NEW s \in SmState \ {"NONE"},
           j.named = i.named, Unused(i) => Unused(j),
           \A a : Follows(a, i) => Follows(a, j),
           j.status \in StatusOf(s),
           sm[t] \in Leased4 => s \in Leased4,
           s \in {"OBTAINING_IP_ADDRESSES", "IPV6_LEASED"} \cup Leased4 =>
             sm[t] \in {"OBTAINING_IP_ADDRESSES", "IPV6_LEASED"} \cup Leased4,
           sm[t] \in Linked => s \in Linked,
           Become(t, j, host, s), UNCHANGED upstream
    PROVE  IndInv'
  <1>1. Local(t[1], j, host, s)
    BY DEF Local
  <1> QED BY <1>1, UpstreamKept, BecomeKeeps

\* wan_transition_wan_validated and wan_transition_wan_refreshed: the
\* session's leases are cleared and its clients started.
LEMMA ClientsStartedKeeps ==
    ASSUME IndInv, NEW t \in Threads, NEW i, Local(t[1], i, host, sm[t]),
           sm[t] \in Linked \ (Leased4 \cup {"IPV6_LEASED"}),
           \/ sm[t] = "VALIDATING_WAN" /\ WanValidated(t, i)
           \/ sm[t] \in {"OBTAINING_IP_ADDRESSES", "REFRESHING_WAN"}
              /\ WanRefreshed(t, i)
    PROVE  IndInv'
  <1> DEFINE h == StartClients(t[1], host)
  <1>1. h \in Host /\ h.conn4 = host.conn4 /\ h.address4 = host.address4
    <2>1. h \in Host
      BY HostType, ThreadPair DEF Local
    <2>2. h.conn4 = host.conn4 /\ h.address4 = host.address4
      BY DEF StartClients, Local, Host
    <2> QED BY <2>1, <2>2
  <1>2. t[1] \notin PppIfaces => h.dhcp4 > 0 /\ h.dhcp6
    BY ClientAssumption DEF StartClients, Local, Host
  <1>3. PICK j \in {ClearDHCPData([i EXCEPT !.status = "UP"]),
                     ClearDHCPData(i)} :
           /\ Become(t, j, h, "OBTAINING_IP_ADDRESSES") /\ UNCHANGED upstream
           /\ sm[t] # "VALIDATING_WAN" => j = ClearDHCPData(i)
           /\ sm[t] = "VALIDATING_WAN" =>
                 j = ClearDHCPData([i EXCEPT !.status = "UP"])
    BY DEF WanValidated, WanRefreshed
  <1>4. j \in Iface
    <2>1. [i EXCEPT !.status = "UP"] \in Iface
      BY Zenon DEF Local, Iface, WanStatus
    <2> QED BY <2>1, ClearType DEF Local
  <1>5. Unused(j) /\ j.status = "UP"
    <2>1. ASSUME NEW k \in Iface
          PROVE  Unused(ClearDHCPData(k)) /\ ClearDHCPData(k).status = k.status
      BY <2>1 DEF ClearDHCPData, Unused, Iface
    <2>2. /\ [i EXCEPT !.status = "UP"] \in Iface
          /\ [i EXCEPT !.status = "UP"].status = "UP"
      BY Zenon DEF Local, Iface, WanStatus
    <2>3. sm[t] # "VALIDATING_WAN" => i.status = "UP"
      BY DEF Local, StatusOf, Leased4
    <2> QED BY <1>3, <2>1, <2>2, <2>3 DEF Local
  <1> HIDE DEF h
  <1>6. Local(t[1], j, h, "OBTAINING_IP_ADDRESSES")
    BY <1>1, <1>2, <1>4, <1>5 DEF Local, StatusOf, Linked, Leased4
  <1>7. "OBTAINING_IP_ADDRESSES" \in SmState \cap Linked /\ sm[t] # "NONE"
    BY DEF SmState, Linked, Leased4
  <1> QED BY <1>3, <1>6, <1>7, UpstreamKept, BecomeKeeps

\* wan_transition_refreshing_wan
LEMMA RefreshingWanKeeps ==
    ASSUME IndInv, NEW t \in Threads, NEW i, Local(t[1], i, host, sm[t]),
           sm[t] \in {"OBTAINING_IP_ADDRESSES", "REFRESHING_WAN"},
           RefreshingWan(t, i)
    PROVE  IndInv'
  <1> DEFINE h == StopClients(t[1], host)
             j == [i EXCEPT !.link = "CONFIGURING", !.refresh = FALSE]
  <1>1. Become(t, j, h, "REFRESHING_WAN") /\ UNCHANGED upstream
    BY DEF RefreshingWan
  <1>2. h \in Host /\ h.conn4 = host.conn4 /\ h.address4 = host.address4
    <2>1. h \in Host
      BY HostType, ThreadPair DEF Local
    <2>2. h.conn4 = host.conn4 /\ h.address4 = host.address4
      BY DEF StopClients, Local, Host
    <2> QED BY <2>1, <2>2
  <1>3. j \in Iface
    BY Zenon DEF Local, Iface, LinkStatus
  <1>4. j.named = i.named /\ (Unused(i) => Unused(j)) /\ j.status = "UP"
    BY DEF Local, Iface, Unused, StatusOf, Leased4
  <1> HIDE DEF h, j
  <1>5. Local(t[1], j, h, "REFRESHING_WAN")
    BY <1>2, <1>3, <1>4 DEF Local, Leased4, StatusOf
  <1>6. "REFRESHING_WAN" \in SmState \cap Linked /\ sm[t] # "NONE"
    BY DEF SmState, Linked, Leased4
  <1> QED BY <1>1, <1>5, <1>6, UpstreamKept, BecomeKeeps

\* wan_transition_ipv4_up: whatever wan_setUpIPv4 manages to configure, the
\* thread ends up in a state that follows the lease.
LEMMA Ipv4UpKeeps ==
    ASSUME IndInv, NEW t \in Threads, NEW i, Local(t[1], i, host, sm[t]),
           sm[t] \in {"OBTAINING_IP_ADDRESSES", "IPV6_LEASED"},
           i.ipv4Status = "UP", Ipv4Up(t, i)
    PROVE  IndInv'
  <1> DEFINE h == IF i.activeLink THEN SetUpIpv4(i, host) ELSE host
             j == [i EXCEPT !.ipv4Changed = FALSE, !.ipv4Status = "UP"]
  <1>1. PICK s \in {"DUAL_STACK_ACTIVE", "IPV4_LEASED"} :
           Become(t, j, h, s) /\ UNCHANGED upstream
    BY DEF Ipv4Up
  <1>2. h \in Host
    BY HostType, ThreadPair DEF Local
  <1>3. j \in Iface
    BY Zenon DEF Local, Iface, IpStatus
  <1>4. j.named /\ j.ipv4Data = i.ipv4Data /\ j.status = "UP"
    BY DEF Local, Iface, Unused, StatusOf, Leased4
  <1>5. host.conn4 = "down" /\ host.address4 = NoLease
    BY DEF Local, Leased4, Host
  <1>6. \/ h = host
        \/ /\ h.conn4 = "up" /\ h.address4 = i.ipv4Data /\ i.ipv4Data # NoLease
           /\ h.dhcp4 = host.dhcp4 /\ h.dhcp6 = host.dhcp6
    BY LeaseAssumption DEF SetUpIpv4, Local, Host
  <1> HIDE DEF h, j
  <1>7. Local(t[1], j, h, s)
    BY <1>2, <1>3, <1>4, <1>5, <1>6 DEF Local, Leased4, StatusOf, Follows
  <1>8. s \in SmState \cap Linked /\ sm[t] # "NONE"
    BY DEF SmState, Linked, Leased4
  <1> QED BY <1>1, <1>7, <1>8, UpstreamKept, BecomeKeeps

\* What the two families' functions change of the host.
LEMMA HostFacts ==
    ASSUME NEW i \in Iface, NEW h \in Host
    PROVE  /\ TearDownIpv4(i, h).conn4 = "down"
           /\ i.named \/ h.address4 = NoLease
                => TearDownIpv4(i, h).address4 = NoLease
           /\ TearDownIpv4(i, h).dhcp4 = h.dhcp4
           /\ TearDownIpv4(i, h).dhcp6 = h.dhcp6
           /\ \A g \in {SetUpIpv6(i, h), TearDownIpv6(i, h)} :
                 /\ g.conn4 = h.conn4 /\ g.address4 = h.address4
                 /\ g.dhcp4 = h.dhcp4 /\ g.dhcp6 = h.dhcp6
  <1>1. /\ TearDownIpv4(i, h).conn4 = "down"
        /\ i.named \/ h.address4 = NoLease
                => TearDownIpv4(i, h).address4 = NoLease
        /\ TearDownIpv4(i, h).dhcp4 = h.dhcp4
        /\ TearDownIpv4(i, h).dhcp6 = h.dhcp6
    BY DEF TearDownIpv4, Host
  <1>2. /\ SetUpIpv6(i, h).conn4 = h.conn4
        /\ SetUpIpv6(i, h).address4 = h.address4
        /\ SetUpIpv6(i, h).dhcp4 = h.dhcp4
        /\ SetUpIpv6(i, h).dhcp6 = h.dhcp6
    BY DEF SetUpIpv6, Host
  <1>3. /\ TearDownIpv6(i, h).conn4 = h.conn4
        /\ TearDownIpv6(i, h).address4 = h.address4
        /\ TearDownIpv6(i, h).dhcp4 = h.dhcp4
        /\ TearDownIpv6(i, h).dhcp6 = h.dhcp6
    BY DEF TearDownIpv6, Host
  <1> QED BY <1>1, <1>2, <1>3

\* Clearing one family's connection keeps the rest of the interface.
LEMMA DownFacts ==
    ASSUME NEW i \in Iface
    PROVE  /\ Ipv4ConnectionDown(i).named = i.named
           /\ Ipv4ConnectionDown(i).status = i.status
           /\ Unused(i) => Unused(Ipv4ConnectionDown(i))
           /\ Ipv6ConnectionDown(i).named = i.named
           /\ Ipv6ConnectionDown(i).status = i.status
           /\ Ipv6ConnectionDown(i).ipv4Status = i.ipv4Status
           /\ Unused(i) => Unused(Ipv6ConnectionDown(i))
           /\ \A a : Follows(a, i) => Follows(a, Ipv6ConnectionDown(i))
  BY DEF Ipv4ConnectionDown, Ipv6ConnectionDown, Iface, Unused, Follows

\* wan_transition_ipv4_down
LEMMA Ipv4DownKeeps ==
    ASSUME IndInv, NEW t \in Threads, NEW i, Local(t[1], i, host, sm[t]),
           sm[t] \in Leased4, Ipv4Down(t, i)
    PROVE  IndInv'
  <1> DEFINE h == TearDownIpv4(i, host)
             j == Ipv4ConnectionDown(i)
  <1>1. PICK s \in {"IPV6_LEASED", "OBTAINING_IP_ADDRESSES"} :
           Become(t, j, h, s) /\ UNCHANGED upstream
    BY DEF Ipv4Down
  <1>2. h \in Host /\ j \in Iface
    BY HostType, ThreadPair, ClearType DEF Local
  <1>3. /\ h.conn4 = "down" /\ h.address4 = NoLease
        /\ h.dhcp4 = host.dhcp4 /\ h.dhcp6 = host.dhcp6
    BY HostFacts DEF Local, Host
  <1>4. j.named = i.named /\ j.status = i.status /\ (Unused(i) => Unused(j))
    BY DownFacts DEF Local
  <1> HIDE DEF h, j
  <1>5. Local(t[1], j, h, s)
    BY <1>2, <1>3, <1>4 DEF Local, Leased4, StatusOf
  <1>6. s \in SmState \cap Linked /\ sm[t] # "NONE"
    BY DEF SmState, Linked, Leased4
  <1> QED BY <1>1, <1>5, <1>6, UpstreamKept, BecomeKeeps

\* wan_transition_ipv6_up: from IPV4_LEASED it goes to DUAL_STACK_ACTIVE
\* whenever IPv4 is configured.
LEMMA Ipv6UpKeeps ==
    ASSUME IndInv, NEW t \in Threads, NEW i, Local(t[1], i, host, sm[t]),
           \/ sm[t] = "OBTAINING_IP_ADDRESSES"
           \/ sm[t] = "IPV4_LEASED" /\ i.ipv4Status = "UP",
           i.ipv6Status = "UP", Ipv6Up(t, i)
    PROVE  IndInv'
  <1> DEFINE h == IF i.activeLink THEN SetUpIpv6(i, host) ELSE host
             j == [i EXCEPT !.ipv6Changed = FALSE, !.ipv6Status = "UP"]
             s == IF j.ipv4Status = "UP" /\ h.conn4 = "up"
                  THEN "DUAL_STACK_ACTIVE" ELSE "IPV6_LEASED"
  <1>1. Become(t, j, h, s) /\ UNCHANGED upstream
    BY DEF Ipv6Up
  <1>2. h \in Host /\ j \in Iface
    <2>1. j \in Iface
      BY Zenon DEF Local, Iface, IpStatus
    <2>2. h \in Host
      BY HostType, ThreadPair DEF Local
    <2> QED BY <2>1, <2>2
  <1>3. /\ h.conn4 = host.conn4 /\ h.address4 = host.address4
        /\ h.dhcp4 = host.dhcp4 /\ h.dhcp6 = host.dhcp6
    BY HostFacts DEF Local
  <1>4. /\ j.named = i.named /\ j.status = i.status
        /\ j.ipv4Status = i.ipv4Status
        /\ \A a : Follows(a, i) => Follows(a, j)
    BY DEF Local, Iface, Follows
  <1>5. i.named
    BY DEF Local, Unused
  <1>6. /\ s \in {"DUAL_STACK_ACTIVE", "IPV6_LEASED"}
        /\ host.conn4 = "up" => s = "DUAL_STACK_ACTIVE"
    BY <1>3, <1>4 DEF Local, Leased4
  <1> HIDE DEF h, j, s
  <1>7. Local(t[1], j, h, s)
    BY <1>2, <1>3, <1>4, <1>5, <1>6 DEF Local, Leased4, StatusOf
  <1>8. s \in SmState \cap Linked /\ sm[t] # "NONE"
    BY <1>6 DEF SmState, Linked, Leased4
  <1> QED BY <1>1, <1>7, <1>8, UpstreamKept, BecomeKeeps

\* wan_transition_ipv6_down: from DUAL_STACK_ACTIVE it keeps IPv4.
LEMMA Ipv6DownKeeps ==
    ASSUME IndInv, NEW t \in Threads, NEW i, Local(t[1], i, host, sm[t]),
           \/ sm[t] = "IPV6_LEASED"
           \/ sm[t] = "DUAL_STACK_ACTIVE" /\ i.ipv4Status = "UP",
           Ipv6Down(t, i)
    PROVE  IndInv'
  <1> DEFINE h == TearDownIpv6(i, host)
             j == Ipv6ConnectionDown(i)
             s == IF j.ipv4Status = "UP" /\ h.conn4 = "up"
                  THEN "IPV4_LEASED" ELSE "OBTAINING_IP_ADDRESSES"
  <1>1. Become(t, j, h, s) /\ UNCHANGED upstream
    BY DEF Ipv6Down
  <1>2. h \in Host /\ j \in Iface
    BY HostType, ThreadPair, ClearType DEF Local
  <1>3. /\ h.conn4 = host.conn4 /\ h.address4 = host.address4
        /\ h.dhcp4 = host.dhcp4 /\ h.dhcp6 = host.dhcp6
    BY HostFacts DEF Local
  <1>4. /\ j.named = i.named /\ j.status = i.status
        /\ j.ipv4Status = i.ipv4Status /\ (Unused(i) => Unused(j))
        /\ \A a : Follows(a, i) => Follows(a, j)
    BY DownFacts DEF Local
  <1>5. /\ s \in {"IPV4_LEASED", "OBTAINING_IP_ADDRESSES"}
        /\ host.conn4 = "up" => s = "IPV4_LEASED"
    BY <1>3, <1>4 DEF Local, Leased4
  <1> HIDE DEF h, j, s
  <1>6. Local(t[1], j, h, s)
    BY <1>2, <1>3, <1>4, <1>5 DEF Local, Leased4, StatusOf
  <1>7. s \in SmState \cap Linked /\ sm[t] # "NONE"
    BY <1>5 DEF SmState, Linked, Leased4
  <1> QED BY <1>1, <1>6, <1>7, UpstreamKept, BecomeKeeps

\* wan_transition_dual_stack_down
LEMMA DualStackDownKeeps ==
    ASSUME IndInv, NEW t \in Threads, NEW i, Local(t[1], i, host, sm[t]),
           sm[t] = "DUAL_STACK_ACTIVE", DualStackDown(t, i)
    PROVE  IndInv'
  <1> DEFINE g == TearDownIpv4(i, host)
             k == Ipv4ConnectionDown(i)
             h == TearDownIpv6(k, g)
             j == Ipv6ConnectionDown(k)
  <1>1. /\ Become(t, j, h, "OBTAINING_IP_ADDRESSES")
        /\ UNCHANGED upstream
    BY DEF DualStackDown
  <1>2. i \in Iface /\ host \in Host /\ g \in Host /\ k \in Iface
    BY HostType, ThreadPair, ClearType DEF Local
  <1>3. /\ g.conn4 = "down" /\ g.address4 = NoLease
        /\ g.dhcp4 = host.dhcp4 /\ g.dhcp6 = host.dhcp6
    BY HostFacts, <1>2 DEF Local, Host
  <1>4. k.named = i.named /\ k.status = i.status /\ (Unused(i) => Unused(k))
    BY DownFacts, <1>2
  <1> HIDE DEF g, k
  <1>5. h \in Host /\ j \in Iface
    BY HostType, ThreadPair, ClearType, <1>2
  <1>6. /\ h.conn4 = g.conn4 /\ h.address4 = g.address4
        /\ h.dhcp4 = g.dhcp4 /\ h.dhcp6 = g.dhcp6
    BY HostFacts, <1>2
  <1>7. j.named = k.named /\ j.status = k.status /\ (Unused(k) => Unused(j))
    BY DownFacts, <1>2
  <1> HIDE DEF h, j
  <1>8. Local(t[1], j, h, "OBTAINING_IP_ADDRESSES")
    BY <1>3, <1>4, <1>5, <1>6, <1>7 DEF Local, Leased4, StatusOf
  <1>9. "OBTAINING_IP_ADDRESSES" \in SmState \cap Linked /\ sm[t] # "NONE"
    BY DEF SmState, Linked, Leased4
  <1> QED BY <1>1, <1>8, <1>9, UpstreamKept, BecomeKeeps

\* wan_state_exit: the thread ends and leaves its interface unused.
LEMMA ExitKeeps ==
    ASSUME IndInv, NEW t \in Threads, NEW i, Local(t[1], i, host, sm[t]),
           Exit(t, i)
    PROVE  IndInv'
  <1> DEFINE k == [i EXCEPT !.named = FALSE]
             j == ClearDHCPData(k)
  <1>1. sm[t] = "EXIT" /\ Become(t, j, host, "NONE") /\ UNCHANGED upstream
    BY DEF Exit
  <1>2. k \in Iface
    BY Zenon DEF Local, Iface
  <1>3. ~k.named /\ k.status = i.status
    BY DEF Local, Iface
  <1> HIDE DEF k
  <1>4. j \in Iface /\ Unused(j) /\ j.named = k.named /\ j.status = k.status
    <2>1. j \in Iface
      BY <1>2, ClearType
    <2> QED BY <1>2, <2>1 DEF ClearDHCPData, Unused, Iface
  <1> HIDE DEF j
  <1>5. Local(t[1], j, host, "NONE")
    BY <1>1, <1>3, <1>4 DEF Local, Leased4, StatusOf
  <1>6. "NONE" \in SmState /\ sm[t] # "NONE" /\ sm[t] \notin Linked
    BY <1>1 DEF SmState, Linked, Leased4
  <1> QED BY <1>1, <1>5, <1>6, UpstreamKept, BecomeKeeps

\* wan_transition_exit gives up the interface, once nothing is configured.
LEMMA TransitionExitKeeps ==
    ASSUME IndInv, NEW t \in Threads, NEW i, Local(t[1], i, host, sm[t]),
           sm[t] = "DECONFIGURING_WAN", TransitionExit(t, i)
    PROVE  IndInv'
  <1> DEFINE j == [i EXCEPT !.status = "DISABLED", !.refresh = FALSE,
                            !.activeLink = FALSE]
  <1>1. Become(t, j, host, "EXIT") /\ UNCHANGED upstream
    BY DEF TransitionExit
  <1>2. j \in Iface
    BY Zenon DEF Local, Iface, WanStatus
  <1>3. /\ j.named = i.named /\ (Unused(i) => Unused(j))
        /\ j.status = "DISABLED"
        /\ \A a : Follows(a, i) => Follows(a, j)
    BY DEF Local, Iface, Unused, Follows
  <1> HIDE DEF j
  <1>4. j.status \in StatusOf("EXIT") /\ "EXIT" \in SmState \ {"NONE"}
    BY <1>3 DEF StatusOf, SmState
  <1>5. sm[t] \notin Linked
    BY DEF Linked, Leased4
  <1> QED BY <1>1, <1>2, <1>3, <1>4, <1>5, QuietStepKeeps DEF Leased4

\* wan_transition_wan_up: only Wan.Status changes.
LEMMA WanUpKeeps ==
    ASSUME IndInv, NEW t \in Threads, NEW i, Local(t[1], i, host, sm[t]),
           sm[t] = "CONFIGURING_WAN", WanUp(t, i)
    PROVE  IndInv'
  <1> DEFINE j == [i EXCEPT !.status = "VALIDATING"]
  <1>1. Become(t, j, host, "VALIDATING_WAN") /\ UNCHANGED upstream
    BY DEF WanUp
  <1>2. j \in Iface
    BY Zenon DEF Local, Iface, WanStatus
  <1>3. /\ j.named = i.named /\ (Unused(i) => Unused(j))
        /\ j.status = "VALIDATING"
        /\ \A a : Follows(a, i) => Follows(a, j)
    BY DEF Local, Iface, Unused, Follows
  <1> HIDE DEF j
  <1>4. /\ j.status \in StatusOf("VALIDATING_WAN")
        /\ "VALIDATING_WAN" \in SmState \ {"NONE"}
        /\ "VALIDATING_WAN" \in Linked
    BY <1>3 DEF StatusOf, SmState, Linked
  <1> QED BY <1>1, <1>2, <1>3, <1>4, QuietStepKeeps DEF Leased4

\* A step that changes the state only, between states of equal status.
LEMMA MoveKeeps ==
    ASSUME IndInv, NEW t \in Threads, NEW i, Local(t[1], i, host, sm[t]),
           sm[t] \notin {"NONE", "START"},
           NEW s \in SmState,
           \/ s = sm[t]
           \/ sm[t] = "VALIDATING_WAN" /\ s = "CONFIGURING_WAN"
           \/ sm[t] \in {"OBTAINING_IP_ADDRESSES", "REFRESHING_WAN"}
              /\ s = "REFRESHING_WAN"
           \/ sm[t] \in {"IPV6_LEASED", "DUAL_STACK_ACTIVE"}
              /\ s = "IPV4_LEASED",
           Become(t, i, host, s), UNCHANGED upstream
    PROVE  IndInv'
  <1>1. i.status \in StatusOf(s)
    BY DEF Local, StatusOf, Leased4
  <1>2. /\ s # "NONE" /\ (sm[t] \in Leased4 => s \in Leased4)
        /\ s \in {"OBTAINING_IP_ADDRESSES", "IPV6_LEASED"} \cup Leased4 =>
             sm[t] \in {"OBTAINING_IP_ADDRESSES", "IPV6_LEASED"} \cup Leased4
        /\ (sm[t] \in Linked => s \in Linked)
    BY DEF Leased4, Linked
  <1> QED BY <1>1, <1>2, QuietStepKeeps DEF Local

\* AwaitIpv6: the LAN is told of a changed prefix, or IPv6 comes up.
LEMMA AwaitIpv6Keeps ==
    ASSUME IndInv, NEW t \in Threads, NEW i, Local(t[1], i, host, sm[t]),
           \/ sm[t] = "OBTAINING_IP_ADDRESSES"
           \/ sm[t] = "IPV4_LEASED" /\ i.ipv4Status = "UP",
           i.ipv6Status = "UP", AwaitIpv6(t, i)
    PROVE  IndInv'
  <1> DEFINE j == [i EXCEPT !.ipv6Changed = FALSE]
  <1>1. CASE Stay(t, j)
    <2>1. j \in Iface
      BY Zenon DEF Local, Iface
    <2>2. /\ j.named = i.named /\ j.status = i.status /\ (Unused(i) => Unused(j))
          /\ \A a : Follows(a, i) => Follows(a, j)
      BY DEF Local, Iface, Unused, Follows
    <2>3. Become(t, j, host, sm[t]) /\ UNCHANGED upstream
      BY <1>1 DEF Stay
    <2> HIDE DEF j
    <2>4. sm[t] \in SmState \ {"NONE"}
      BY DEF SmState, Leased4
    <2> QED BY <2>1, <2>2, <2>3, <2>4, QuietStepKeeps DEF Local
  <1>2. CASE Ipv6Up(t, i)
    BY <1>2, Ipv6UpKeeps
  <1>3. CASE Stay(t, i)
    <2>1. sm[t] \in SmState
      BY DEF SmState, Leased4
    <2> QED BY <1>3, <2>1, MoveKeeps DEF Stay
  <1> QED BY <1>1, <1>2, <1>3 DEF AwaitIpv6

\* A tick begins by handling the waiting messages, which keeps Local.
LEMMA LocalHandled ==
    ASSUME IndInv, NEW t \in Threads, sm[t] # "NONE", NEW auto \in BOOLEAN
    PROVE  Local(t[1], HandleIpc(iface[t[1]], auto), host, sm[t])
  <1>1. Local(t[1], iface[t[1]], host, sm[t])
    BY LocalHolds
  <1> DEFINE i == iface[t[1]]
             j == HandleIpc(i, auto)
  <1>2. /\ j \in Iface /\ j.status = i.status /\ j.named = i.named
        /\ (Unused(i) => Unused(j)) /\ \A a : Follows(a, i) => Follows(a, j)
    BY <1>1, HandleIpcFacts DEF Local
  <1> HIDE DEF j
  <1>3. Local(t[1], j, host, sm[t])
    BY <1>1, <1>2 DEF Local
  <1> QED BY <1>3 DEF j

\* The states that watch the link before there is a lease.
LEMMA UnleasedTickKeeps ==
    ASSUME IndInv, NEW t \in Threads, NEW i, Local(t[1], i, host, sm[t]),
           \/ Configuring(t, i) \/ Validating(t, i)
           \/ Obtaining(t, i) \/ Refreshing(t, i)
    PROVE  IndInv'
  <1>1. /\ sm[t] \in {"CONFIGURING_WAN", "VALIDATING_WAN",
                       "OBTAINING_IP_ADDRESSES", "REFRESHING_WAN"}
        /\ sm[t] \in Linked \ (Leased4 \cup {"IPV6_LEASED"})
    BY DEF Configuring, Validating, Obtaining, Refreshing, Linked, Leased4
  <1>2. sm[t] \in SmState /\ "CONFIGURING_WAN" \in SmState
        /\ "REFRESHING_WAN" \in SmState
    BY <1>1 DEF SmState
  <1>3. CASE PhysicalInterfaceDown(t, i)
    BY <1>1, <1>3, PhysicalInterfaceDownKeeps
  <1>4. CASE Stay(t, i)
    BY <1>1, <1>2, <1>4, MoveKeeps DEF Stay
  <1>5. CASE sm[t] = "CONFIGURING_WAN" /\ WanUp(t, i)
    BY <1>5, WanUpKeeps
  <1>6. CASE /\ sm[t] = "VALIDATING_WAN"
             /\ Become(t, i, host, "CONFIGURING_WAN") /\ UNCHANGED upstream
    BY <1>2, <1>6, MoveKeeps
  <1>7. CASE sm[t] = "VALIDATING_WAN" /\ WanValidated(t, i)
    BY <1>1, <1>7, ClientsStartedKeeps
  <1>8. CASE /\ sm[t] \in {"OBTAINING_IP_ADDRESSES", "REFRESHING_WAN"}
             /\ Refresh(t, i)
    <2>1. CASE RefreshingWan(t, i)
      BY <1>8, <2>1, RefreshingWanKeeps
    <2>2. CASE WanRefreshed(t, i)
      BY <1>1, <1>8, <2>2, ClientsStartedKeeps
    <2>3. CASE Become(t, i, host, "REFRESHING_WAN") /\ UNCHANGED upstream
      BY <1>2, <1>8, <2>3, MoveKeeps
    <2> QED BY <1>8, <2>1, <2>2, <2>3 DEF Refresh
  <1>9. CASE /\ sm[t] = "OBTAINING_IP_ADDRESSES"
             /\ i.ipv4Status = "UP" /\ Ipv4Up(t, i)
    BY <1>9, Ipv4UpKeeps
  <1>10. CASE /\ sm[t] = "OBTAINING_IP_ADDRESSES"
              /\ i.ipv6Status = "UP" /\ AwaitIpv6(t, i)
    BY <1>10, AwaitIpv6Keeps
  <1> QED BY <1>3, <1>4, <1>5, <1>6, <1>7, <1>8, <1>9, <1>10
          DEF Configuring, Validating, Obtaining, Refreshing

\* The states that hold a lease.
LEMMA LeasedTickKeeps ==
    ASSUME IndInv, NEW t \in Threads, NEW i, Local(t[1], i, host, sm[t]),
           Ipv4Leased(t, i) \/ Ipv6Leased(t, i) \/ DualStack(t, i)
    PROVE  IndInv'
  <1>1. sm[t] \in {"IPV4_LEASED", "IPV6_LEASED", "DUAL_STACK_ACTIVE"}
    BY DEF Ipv4Leased, Ipv6Leased, DualStack
  <1>2. sm[t] \in SmState /\ "IPV4_LEASED" \in SmState
    BY <1>1 DEF SmState, Leased4
  <1>3. CASE Stay(t, i)
    BY <1>1, <1>2, <1>3, MoveKeeps DEF Stay
  <1>4. CASE sm[t] \in Leased4 /\ Ipv4Down(t, i)
    BY <1>4, Ipv4DownKeeps
  <1>5. CASE /\ sm[t] = "IPV4_LEASED" /\ i.ipv4Status = "UP"
             /\ i.ipv6Status = "UP" /\ AwaitIpv6(t, i)
    BY <1>5, AwaitIpv6Keeps
  <1>6. CASE /\ \/ sm[t] = "IPV6_LEASED"
                \/ sm[t] = "DUAL_STACK_ACTIVE" /\ i.ipv4Status = "UP"
             /\ Ipv6Down(t, i)
    BY <1>6, Ipv6DownKeeps
  <1>7. CASE /\ sm[t] = "IPV6_LEASED" /\ i.ipv4Status = "UP" /\ Ipv4Up(t, i)
    BY <1>7, Ipv4UpKeeps
  <1>8. CASE /\ sm[t] \in {"IPV6_LEASED", "DUAL_STACK_ACTIVE"}
             /\ Ipv4OverIpv6Up(t, i)
    BY <1>2, <1>8, MoveKeeps DEF Ipv4OverIpv6Up
  <1>9. CASE sm[t] = "DUAL_STACK_ACTIVE" /\ DualStackDown(t, i)
    BY <1>9, DualStackDownKeeps
  <1>10. i.ipv4Status \in {"UP", "DOWN"}
    BY DEF Local, Iface, IpStatus
  <1>11. CASE Ipv4Leased(t, i)
    BY <1>3, <1>4, <1>5, <1>10, <1>11 DEF Ipv4Leased, Leased4
  <1>12. CASE Ipv6Leased(t, i)
    BY <1>3, <1>6, <1>7, <1>8, <1>12 DEF Ipv6Leased
  <1>13. CASE DualStack(t, i)
    BY <1>3, <1>4, <1>6, <1>8, <1>9, <1>13 DEF DualStack, Leased4
  <1> QED BY <1>11, <1>12, <1>13

\* A tick processes the state of a living thread on its interface as the
\* waiting messages left it.
LEMMA TickLocal ==
    ASSUME IndInv, NEW t \in Threads, Tick(t)
    PROVE  \E i : /\ Local(t[1], i, host, sm[t])
                  /\ iface[t[1]].status = i.status
                  /\ View(i) = View(iface[t[1]])
                  /\ \/ Configuring(t, i) \/ Validating(t, i) \/ Obtaining(t, i)
                     \/ Ipv4Leased(t, i) \/ Ipv6Leased(t, i) \/ DualStack(t, i)
                     \/ Refreshing(t, i) \/ Deconfiguring(t, i) \/ Exit(t, i)
  <1>1. PICK auto \in BOOLEAN :
          LET i == HandleIpc(iface[t[1]], auto)
          IN  \/ Configuring(t, i) \/ Validating(t, i) \/ Obtaining(t, i)
              \/ Ipv4Leased(t, i) \/ Ipv6Leased(t, i) \/ DualStack(t, i)
              \/ Refreshing(t, i) \/ Deconfiguring(t, i) \/ Exit(t, i)
    BY Zenon DEF Tick
  <1> DEFINE i == HandleIpc(iface[t[1]], auto)
  <1>2. iface[t[1]].status = i.status /\ View(i) = View(iface[t[1]])
    BY ThreadPair, HandleIpcFacts, HandleUnseen DEF IndInv, TypeOK
  <1> HIDE DEF i
  <1>3. \/ Configuring(t, i) \/ Validating(t, i) \/ Obtaining(t, i)
        \/ Ipv4Leased(t, i) \/ Ipv6Leased(t, i) \/ DualStack(t, i)
        \/ Refreshing(t, i) \/ Deconfiguring(t, i) \/ Exit(t, i)
    BY <1>1 DEF i
  <1>4. sm[t] # "NONE"
    BY <1>3 DEF Configuring, Validating, Obtaining, Ipv4Leased, Ipv6Leased,
                DualStack, Refreshing, Deconfiguring, Exit
  <1>5. Local(t[1], i, host, sm[t])
    BY <1>4, LocalHandled DEF i
  <1> QED BY <1>2, <1>3, <1>5

\* One tick of a thread
LEMMA TickKeeps ==
    ASSUME IndInv, NEW t \in Threads, Tick(t)
    PROVE  IndInv'
  <1>1. PICK i : /\ Local(t[1], i, host, sm[t])
                 /\ \/ Configuring(t, i) \/ Validating(t, i) \/ Obtaining(t, i)
                    \/ Ipv4Leased(t, i) \/ Ipv6Leased(t, i) \/ DualStack(t, i)
                    \/ Refreshing(t, i) \/ Deconfiguring(t, i) \/ Exit(t, i)
    BY TickLocal
  <1>5. CASE Deconfiguring(t, i)
    <2>1. sm[t] = "DECONFIGURING_WAN" /\ sm[t] \in SmState
      BY <1>5 DEF Deconfiguring, SmState
    <2>2. CASE TransitionExit(t, i)
      BY <1>1, <2>1, <2>2, TransitionExitKeeps
    <2>3. CASE Stay(t, i)
      BY <1>1, <2>1, <2>3, MoveKeeps DEF Stay
    <2> QED BY <1>5, <2>2, <2>3 DEF Deconfiguring
  <1>6. CASE Exit(t, i)
    BY <1>1, <1>6, ExitKeeps
  <1> QED BY <1>1, <1>5, <1>6, UnleasedTickKeeps, LeasedTickKeeps

-----------------------------------------------------------------------------
(***************************************************************************)
(* Steps of the other threads.                                             *)
(***************************************************************************)

\* A write to an interface that gives it a name only while it is marked
\* upstream, and keeps what follows a lease.
LEMMA WriteKeeps ==
    ASSUME IndInv, NEW n \in Ifaces, NEW j \in Iface, Write(n, j),
           iface[n].named => j.named,
           j.named => iface[n].named \/ upstream[n],
           j.named \/ Unused(j),
           j.status = iface[n].status,
           \A a : Follows(a, iface[n]) => Follows(a, j)
    PROVE  IndInv'
  <1>1. /\ iface' = [iface EXCEPT ![n] = j] /\ iface'[n] = j
        /\ \A m \in Ifaces : m # n => iface'[m] = iface[m]
        /\ UNCHANGED <<wanEnable, host, sm, upstream>>
    BY DEF Write, IndInv, TypeOK
  <1>2. TypeOK'
    BY <1>1 DEF IndInv, TypeOK
  <1>3. OneThread' /\ UpstreamHeld' /\ AddressMatchesState' /\ ClientsRun'
    BY <1>1 DEF IndInv, OneThread, UpstreamHeld, AddressMatchesState, ClientsRun
  <1>4. NameHeld'
    <2>1. upstream[n] => \E k \in Slots : sm[<<n, k>>] # "NONE"
      BY DEF IndInv, UpstreamHeld, Linked, Leased4
    <2> QED BY <1>1, <2>1 DEF IndInv, NameHeld
  <1>5. UnnamedUnused'
    BY <1>1 DEF IndInv, UnnamedUnused, Unused
  <1>6. LeasedAndNamed'
    <2> SUFFICES ASSUME host.conn4 = "up"
                 PROVE  \E t \in Threads : sm[t] \in Leased4 /\ iface'[t[1]].named
      BY <1>1 DEF LeasedAndNamed, Leased4
    <2>1. PICK t \in Threads : sm[t] \in Leased4 /\ iface[t[1]].named
      BY DEF IndInv, LeasedAndNamed
    <2> QED BY <1>1, <2>1, ThreadPair
  <1>7. LeaseFollowed'
    <2> SUFFICES ASSUME NEW t \in Threads, sm[t] \in Leased4, host.conn4 = "up"
                 PROVE  Follows(host.address4, iface'[t[1]])
      BY <1>1 DEF LeaseFollowed, Leased4, Follows
    <2>1. Follows(host.address4, iface[t[1]])
      BY DEF IndInv, LeaseFollowed
    <2> QED BY <1>1, <2>1, ThreadPair
  <1>8. StatusFits'
    BY <1>1 DEF IndInv, StatusFits
  <1> QED BY <1>2, <1>3, <1>4, <1>5, <1>6, <1>7, <1>8 DEF IndInv

\* The writes that leave the name, Wan.Status and the lease alone.
LEMMA QuietWriteKeeps ==
    ASSUME IndInv, NEW n \in Ifaces,
           NEW p \in {"UP", "DOWN"}, NEW l \in LinkStatus, NEW d \in IpStatus,
           NEW b \in BOOLEAN,
           \/ Write(n, [iface[n] EXCEPT !.phy = p])
           \/ Write(n, [iface[n] EXCEPT !.link = l])
           \/ Write(n, [iface[n] EXCEPT !.dslite = d])
           \/ Write(n, [iface[n] EXCEPT !.refresh = b])
           \/ Write(n, [iface[n] EXCEPT !.activeLink = FALSE])
    PROVE  IndInv'
  <1> DEFINE i == iface[n]
  <1>1. i \in Iface /\ (i.named \/ Unused(i))
    BY DEF IndInv, TypeOK, UnnamedUnused
  <1>2. PICK j \in {[i EXCEPT !.phy = p], [i EXCEPT !.link = l],
                    [i EXCEPT !.dslite = d], [i EXCEPT !.refresh = b],
                    [i EXCEPT !.activeLink = FALSE]} : Write(n, j)
    BY Zenon
  <1> HIDE DEF i
  <1>3. j \in Iface
    <2>1. /\ [i EXCEPT !.phy = p] \in Iface /\ [i EXCEPT !.link = l] \in Iface
          /\ [i EXCEPT !.dslite = d] \in Iface
      BY Zenon, <1>1 DEF Iface
    <2>2. /\ [i EXCEPT !.refresh = b] \in Iface
          /\ [i EXCEPT !.activeLink = FALSE] \in Iface
      BY Zenon, <1>1 DEF Iface
    <2> QED BY <2>1, <2>2
  <1>4. /\ j.named = i.named /\ j.status = i.status /\ (Unused(i) => Unused(j))
        /\ \A a : Follows(a, i) => Follows(a, j)
    BY <1>1, <1>2 DEF Iface, Unused, Follows
  <1> HIDE DEF i
  <1> QED BY <1>1, <1>2, <1>3, <1>4, WriteKeeps DEF i

\* A message reaches a slot, or passes through it, only under the name.
LEMMA MessageKeeps ==
    ASSUME IndInv, NEW n \in Ifaces,
           IpcNewIpv4Msg(n) \/ IpcNewIpv6Msg(n) \/ IPCPStateChange(n)
    PROVE  IndInv'
  <1> DEFINE i == iface[n]
  <1>1. i \in Iface /\ i.named
    BY DEF IndInv, TypeOK, IpcNewIpv4Msg, IpcNewIpv6Msg, IPCPStateChange
  <1> HIDE DEF i
  <1>2. ASSUME NEW m \in Msg4
        PROVE  LET k == [i EXCEPT !.ipc4 = m]
               IN  /\ k \in Iface /\ k.named = i.named /\ k.status = i.status
                   /\ \A a : Follows(a, i) => Follows(a, k)
    <2>1. [i EXCEPT !.ipc4 = m] \in Iface
      BY Zenon, <1>1 DEF Iface
    <2> QED BY <1>1, <2>1 DEF Iface, Follows
  <1>3. ASSUME NEW m \in Msg4, Write(n, [i EXCEPT !.ipc4 = m])
        PROVE  IndInv'
    BY <1>1, <1>2, <1>3, WriteKeeps DEF i
  <1>4. ASSUME NEW m \in Msg4, Write(n, HandleDhcpv4([i EXCEPT !.ipc4 = m]))
        PROVE  IndInv'
    <2> DEFINE k == [i EXCEPT !.ipc4 = m]
               j == HandleDhcpv4(k)
    <2>1. /\ k \in Iface /\ k.named = i.named /\ k.status = i.status
          /\ \A a : Follows(a, i) => Follows(a, k)
      BY <1>2
    <2> HIDE DEF k
    <2>2. /\ j \in Iface /\ j.named = k.named /\ j.status = k.status
          /\ \A a : Follows(a, k) => Follows(a, j)
      BY <2>1, Handle4Facts
    <2> HIDE DEF j
    <2>3. Write(n, j)
      BY <1>4 DEF j, k
    <2> QED BY <1>1, <2>1, <2>2, <2>3, WriteKeeps DEF i
  <1>5. ASSUME NEW m \in Msg6, Write(n, [i EXCEPT !.ipc6 = m])
        PROVE  IndInv'
    <2> DEFINE k == [i EXCEPT !.ipc6 = m]
    <2>1. k \in Iface
      BY Zenon, <1>1 DEF Iface
    <2>2. /\ k.named = i.named /\ k.status = i.status
          /\ \A a : Follows(a, i) => Follows(a, k)
      BY <1>1 DEF Iface, Follows
    <2> HIDE DEF k
    <2>3. Write(n, k)
      BY <1>5 DEF k
    <2> QED BY <1>1, <2>1, <2>2, <2>3, WriteKeeps DEF i
  <1>6. CASE IpcNewIpv4Msg(n)
    BY <1>3, <1>6 DEF IpcNewIpv4Msg, i
  <1>7. CASE IpcNewIpv6Msg(n)
    BY <1>5, <1>7 DEF IpcNewIpv6Msg, i
  <1>8. CASE IPCPStateChange(n)
    BY <1>3, <1>4, <1>8 DEF IPCPStateChange, i
  <1> QED BY <1>6, <1>7, <1>8

\* The VLAN manager's name for the device, which it gives while the base
\* interface is marked upstream.
LEMMA SetWanNameKeeps ==
    ASSUME IndInv, NEW n \in Ifaces, SetWanName(n)
    PROVE  IndInv'
  <1> DEFINE i == iface[n]
             j == [i EXCEPT !.named = TRUE]
  <1>1. upstream[n] /\ Write(n, j)
    BY DEF SetWanName
  <1>2. i \in Iface
    BY DEF IndInv, TypeOK
  <1> HIDE DEF i
  <1>3. j \in Iface
    BY Zenon, <1>2 DEF Iface
  <1>4. /\ j.named /\ j.status = i.status
        /\ \A a : Follows(a, i) => Follows(a, j)
    BY <1>2 DEF Iface, Follows
  <1> HIDE DEF j
  <1> QED BY <1>1, <1>3, <1>4, WriteKeeps DEF i

\* The IPv6 connection state and the DHCPv6 client of a PPP session, whose
\* name says that its thread is alive, and so no other's clients run.
LEMMA HostWriteKeeps ==
    ASSUME IndInv, Ipv6PrefixClear \/ \E n \in Ifaces : IPV6CPStateChange(n)
    PROVE  IndInv'
  <1>1. UNCHANGED <<wanEnable, iface, sm, upstream>>
    BY DEF Ipv6PrefixClear, IPV6CPStateChange
  <1>2. PICK b \in BOOLEAN : host' \in {[host EXCEPT !.conn6 = "down"],
                                       [host EXCEPT !.dhcp6 = b]}
    BY DEF Ipv6PrefixClear, IPV6CPStateChange
  <1>3. host \in Host
    BY DEF IndInv, TypeOK
  <1>4. host' \in Host
    <2>1. /\ [host EXCEPT !.conn6 = "down"] \in Host
          /\ [host EXCEPT !.dhcp6 = b] \in Host
      BY Zenon, <1>3 DEF Host
    <2> QED BY <1>2, <2>1
  <1>5. host'.conn4 = host.conn4 /\ host'.address4 = host.address4
    BY <1>2, <1>3 DEF Host
  <1>6. ClientsRun'
    <2> SUFFICES ASSUME NEW t \in Threads, t[1] \notin PppIfaces,
                        sm[t] \in {"OBTAINING_IP_ADDRESSES", "IPV6_LEASED"}
                                    \cup Leased4
                 PROVE  host'.dhcp4 > 0 /\ host'.dhcp6
      BY <1>1 DEF ClientsRun, Leased4
    <2>1. host.dhcp4 > 0 /\ host.dhcp6
      BY DEF IndInv, ClientsRun
    <2>2. ~ \E n \in Ifaces : IPV6CPStateChange(n)
      <3> SUFFICES ASSUME NEW n \in Ifaces, IPV6CPStateChange(n) PROVE FALSE
        OBVIOUS
      <3>1. PICK k \in Slots : sm[<<n, k>>] # "NONE"
        BY DEF IPV6CPStateChange, IndInv, NameHeld
      <3>2. <<n, k>> = t
        BY <3>1 DEF IndInv, OneThread, Threads, Leased4
      <3> QED BY <3>2 DEF IPV6CPStateChange
    <2>3. host' = [host EXCEPT !.conn6 = "down"]
      BY <2>2 DEF Ipv6PrefixClear
    <2> QED BY <1>3, <2>1, <2>3 DEF Host
  <1>7. TypeOK'
    BY <1>1, <1>4 DEF IndInv, TypeOK
  <1>8. OneThread' /\ UpstreamHeld' /\ NameHeld' /\ UnnamedUnused' /\ StatusFits'
    BY <1>1 DEF IndInv, OneThread, UpstreamHeld, NameHeld, UnnamedUnused,
                StatusFits, Unused
  <1>9. LeasedAndNamed' /\ AddressMatchesState'
    BY <1>1, <1>5 DEF IndInv, LeasedAndNamed, AddressMatchesState
  <1>10. LeaseFollowed'
    BY <1>1, <1>5 DEF IndInv, LeaseFollowed, Follows
  <1> QED BY <1>6, <1>7, <1>8, <1>9, <1>10 DEF IndInv

\* A thread is started when there is none, so nothing is up, no interface
\* has a name and every Wan.Status is DISABLED.
LEMMA StartKeeps ==
    ASSUME IndInv, NEW n \in Ifaces, NEW k \in Slots,
           StartInterfaceStateMachine(n, k)
    PROVE  IndInv'
  <1> DEFINE i == iface[n]
             j == [i EXCEPT !.activeLink = TRUE]
             t == <<n, k>>
  <1>1. /\ \A u \in Threads : sm[u] = "NONE"
        /\ iface' = [iface EXCEPT ![n].activeLink = TRUE]
        /\ sm' = [sm EXCEPT ![t] = "START"]
        /\ UNCHANGED <<wanEnable, host, upstream>>
    BY DEF StartInterfaceStateMachine
  <1>2. i \in Iface /\ iface \in [Ifaces -> Iface] /\ sm \in [Threads -> SmState]
    BY DEF IndInv, TypeOK
  <1>3. j \in Iface
    BY Zenon, <1>2 DEF Iface
  <1>4. iface' = [iface EXCEPT ![n] = j]
    BY <1>1
  <1>5. \A m \in Ifaces : /\ ~iface[m].named /\ ~upstream[m]
                          /\ iface[m].status = "DISABLED"
                          /\ Unused(iface[m])
    BY <1>1 DEF IndInv, NameHeld, UpstreamHeld, StatusFits, UnnamedUnused,
                Threads, Linked, Leased4
  <1>6. ~j.named /\ j.status = "DISABLED" /\ Unused(j)
    BY <1>2, <1>5 DEF Iface, Unused
  <1>7. host.conn4 = "down"
    BY <1>1 DEF IndInv, TypeOK, Host, LeasedAndNamed, Leased4
  <1> HIDE DEF j
  <1>8. \A m \in Ifaces : /\ ~iface'[m].named /\ ~upstream'[m]
                          /\ iface'[m].status = "DISABLED"
                          /\ Unused(iface'[m])
    BY <1>1, <1>2, <1>4, <1>5, <1>6
  <1>9. t \in Threads /\ sm'[t] = "START" /\ "START" \in SmState
        /\ \A u \in Threads : u # t => sm'[u] = "NONE"
    BY <1>1, <1>2 DEF Threads, SmState
  <1> HIDE DEF t
  <1>10. TypeOK'
    BY <1>1, <1>2, <1>3, <1>4, <1>9 DEF IndInv, TypeOK
  <1>11. OneThread'
    BY <1>9 DEF OneThread
  <1>12. UpstreamHeld' /\ NameHeld'
    BY <1>8 DEF UpstreamHeld, NameHeld
  <1>13. UnnamedUnused'
    BY <1>8 DEF UnnamedUnused, Unused
  <1>14. LeasedAndNamed' /\ AddressMatchesState' /\ LeaseFollowed'
    BY <1>1, <1>7 DEF IndInv, LeasedAndNamed, AddressMatchesState, LeaseFollowed
  <1>15. ClientsRun'
    BY <1>9 DEF ClientsRun, Leased4
  <1>16. StatusFits'
    <2>1. \A u \in Threads : sm'[u] \in {"NONE", "START"}
      BY <1>9
    <2>2. \A m \in Ifaces, l \in Slots : <<m, l>> \in Threads
      BY DEF Threads
    <2> QED BY <1>8, <2>1, <2>2 DEF StatusFits, StatusOf
  <1> QED BY <1>10, <1>11, <1>12, <1>13, <1>14, <1>15, <1>16 DEF IndInv

-----------------------------------------------------------------------------
(***************************************************************************)
(* The invariant and the safety properties.                                *)
(***************************************************************************)

\* The table as it is built, before any thread is started.
LEMMA IndInvInit == Init => IndInv
  <1> SUFFICES ASSUME Init PROVE IndInv
    OBVIOUS
  <1>1. InitIface \in Iface /\ Unused(InitIface)
    <2>1. InitIface \in Iface
      BY DEF InitIface, Iface, IpStatus, LinkStatus, WanStatus
    <2> QED BY <2>1 DEF InitIface, Unused
  <1>2. InitHost \in Host
    BY ClientAssumption DEF InitHost, Host
  <1>3. \A n \in Ifaces : iface[n] = InitIface /\ ~upstream[n]
    BY DEF Init
  <1>4. \A t \in Threads : sm[t] = "NONE"
    BY DEF Init
  <1>5. TypeOK
    BY <1>1, <1>2 DEF Init, TypeOK, SmState
  <1>6. OneThread
    BY <1>4 DEF OneThread
  <1>7. UpstreamHeld /\ NameHeld
    BY <1>3 DEF UpstreamHeld, NameHeld, InitIface
  <1>8. UnnamedUnused
    BY <1>1, <1>3 DEF UnnamedUnused
  <1>9. LeasedAndNamed /\ AddressMatchesState /\ LeaseFollowed
    BY DEF Init, InitHost, LeasedAndNamed, AddressMatchesState, LeaseFollowed
  <1>10. ClientsRun
    BY <1>4 DEF ClientsRun, Leased4
  <1>11. StatusFits
    <2>1. \A n \in Ifaces, k \in Slots : sm[<<n, k>>] = "NONE"
      BY <1>4 DEF Threads
    <2>2. InitIface.status = "DISABLED"
      BY DEF InitIface
    <2> QED BY <1>3, <2>1, <2>2 DEF StatusFits
  <1> QED BY <1>5, <1>6, <1>7, <1>8, <1>9, <1>10, <1>11 DEF IndInv

\* Every step keeps it: the thread's own, the managers' and the policy's.
LEMMA IndInvNext == IndInv /\ [Next]_vars => IndInv'
  <1> SUFFICES ASSUME IndInv, [Next]_vars PROVE IndInv'
    OBVIOUS
  <1>1. ASSUME NEW t \in Threads, Thread(t) PROVE IndInv'
    BY <1>1, TransitionStartKeeps, TickKeeps DEF Thread
  <1>2. ASSUME NEW n \in Ifaces, Managers(n) PROVE IndInv'
    <2> USE DEF LinkStatus, IpStatus
    <2>1. CASE SetPhyStatus(n)
      BY <2>1, QuietWriteKeeps DEF SetPhyStatus
    <2>2. CASE SetLinkStatus(n)
      BY <2>2, QuietWriteKeeps DEF SetLinkStatus
    <2>3. CASE VlanDown(n)
      BY <2>3, QuietWriteKeeps DEF VlanDown
    <2>4. CASE SetWanName(n)
      BY <2>4, SetWanNameKeeps
    <2>5. CASE SetRefresh(n)
      BY <2>5, QuietWriteKeeps DEF SetRefresh
    <2>6. CASE SetDsliteStatus(n)
      BY <2>6, QuietWriteKeeps DEF SetDsliteStatus
    <2>7. CASE IpcNewIpv4Msg(n) \/ IpcNewIpv6Msg(n) \/ IPCPStateChange(n)
      BY <2>7, MessageKeeps
    <2>8. CASE IPV6CPStateChange(n)
      BY <2>8, HostWriteKeeps
    <2> QED BY <1>2, <2>1, <2>2, <2>3, <2>4, <2>5, <2>6, <2>7, <2>8 DEF Managers
  <1>3. ASSUME NEW n \in Ifaces, Policy(n) PROVE IndInv'
    <2>1. CASE Deselect(n)
      BY <2>1, QuietWriteKeeps DEF Deselect, LinkStatus, IpStatus
    <2>2. ASSUME NEW k \in Slots, StartInterfaceStateMachine(n, k) PROVE IndInv'
      BY <2>2, StartKeeps
    <2> QED BY <1>3, <2>1, <2>2 DEF Policy
  <1>4. CASE Ipv6PrefixClear
    BY <1>4, HostWriteKeeps
  <1>5. CASE SetWanEnable \/ UNCHANGED vars
    BY <1>5 DEF SetWanEnable, vars, IndInv, TypeOK, OneThread, UpstreamHeld,
       NameHeld, UnnamedUnused, LeasedAndNamed, AddressMatchesState,
       LeaseFollowed, ClientsRun, StatusFits, Unused, Follows
  <1> QED BY <1>1, <1>2, <1>3, <1>4, <1>5 DEF Next

\* IndInv holds in every state of every behaviour of the state machines.
THEOREM Invariance == Spec => []IndInv
  BY IndInvInit, IndInvNext, PTL DEF Spec

\* The table, the box, the threads and the marks keep their types.
THEOREM TypeCorrect == Spec => []TypeOK
  <1>1. IndInv => TypeOK
    BY DEF IndInv
  <1> QED BY <1>1, Invariance, PTL

\* ipv4_connection_state is "up" only while a state machine holds a lease.
THEOREM UpOnlyWhileLeased == Spec => []Ipv4OnlyWhileLeased
  <1>1. IndInv => Ipv4OnlyWhileLeased
    BY DEF IndInv, LeasedAndNamed, Ipv4OnlyWhileLeased
  <1> QED BY <1>1, Invariance, PTL

\* wan_tearDownIPv4 always still has the name it needs to clear the address.
THEOREM AddressFollowsState == Spec => []AddressMatchesState
  <1>1. IndInv => AddressMatchesState
    BY DEF IndInv
  <1> QED BY <1>1, Invariance, PTL

\* A renewal with another configuration is never silently forgotten.
THEOREM LeaseIsApplied == Spec => []LeaseApplied
  <1>1. IndInv => LeaseApplied
    BY DEF IndInv, LeaseFollowed, LeaseApplied, Follows
  <1> QED BY <1>1, Invariance, PTL

\* The DHCP clients run in every state that needs them.
THEOREM ClientsAlwaysRun == Spec => []ClientsRun
  <1>1. IndInv => ClientsRun
    BY DEF IndInv
  <1> QED BY <1>1, Invariance, PTL

\* No name, lease or message survives the end of the last thread.
THEOREM NothingSurvives == Spec => []NothingLeftBehind
  <1>1. IndInv => NothingLeftBehind
    <2> SUFFICES ASSUME IndInv, NoThread, NEW n \in Ifaces
                 PROVE  ~iface[n].named /\ Unused(iface[n])
      BY DEF NothingLeftBehind, Unused
    <2>1. ~iface[n].named
      BY DEF IndInv, NameHeld, NoThread, Threads
    <2> QED BY <2>1 DEF IndInv, UnnamedUnused
  <1> QED BY <1>1, Invariance, PTL


-----------------------------------------------------------------------------
(***************************************************************************)
(* Action properties.                                                      *)
(***************************************************************************)

\* No function of the tick but the two tear-downs posts "stopped", and
\* wan_tearDownIPv6 does so only when IPv4 is down already.
LEMMA TickStops ==
    ASSUME IndInv, NEW t \in Threads, Tick(t),
           host.wanStatus = "started", host'.wanStatus = "stopped"
    PROVE  host'.conn4 = "down"
  <1>1. PICK i : /\ Local(t[1], i, host, sm[t])
                 /\ \/ Configuring(t, i) \/ Validating(t, i) \/ Obtaining(t, i)
                    \/ Ipv4Leased(t, i) \/ Ipv6Leased(t, i) \/ DualStack(t, i)
                    \/ Refreshing(t, i) \/ Deconfiguring(t, i) \/ Exit(t, i)
    BY TickLocal
  <1>2. host \in Host /\ i \in Iface
    BY <1>1 DEF Local
  <1>3. /\ host' # host
        /\ host' # StartClients(t[1], host) /\ host' # StopClients(t[1], host)
        /\ host' # SetUpIpv4(i, host) /\ host' # SetUpIpv6(i, host)
    <2>1. host' # StartClients(t[1], host) /\ host' # StopClients(t[1], host)
      BY <1>2 DEF StartClients, StopClients, Host
    <2>2. host' # SetUpIpv4(i, host) /\ host' # SetUpIpv6(i, host)
      BY <1>2 DEF SetUpIpv4, SetUpIpv6, Host
    <2> QED BY <2>1, <2>2
  <1>4. \/ Ipv4Down(t, i) \/ DualStackDown(t, i)
        \/ /\ \/ sm[t] = "IPV6_LEASED"
              \/ sm[t] = "DUAL_STACK_ACTIVE" /\ i.ipv4Status = "UP"
           /\ Ipv6Down(t, i)
    <2>1. ~Ipv4Up(t, i) /\ ~Ipv6Up(t, i)
      BY <1>3 DEF Ipv4Up, Ipv6Up, Become
    <2>2. /\ ~PhysicalInterfaceDown(t, i) /\ ~WanUp(t, i) /\ ~WanValidated(t, i)
          /\ ~WanRefreshed(t, i) /\ ~RefreshingWan(t, i)
          /\ ~Ipv4OverIpv6Up(t, i) /\ ~TransitionExit(t, i)
          /\ \A j, state : ~Become(t, j, host, state)
      BY <1>3 DEF PhysicalInterfaceDown, WanUp, WanValidated, WanRefreshed,
         RefreshingWan, Ipv4OverIpv6Up, TransitionExit, Become
    <2>3. \A j : ~Stay(t, j)
      BY <2>2 DEF Stay
    <2>4. ~Refresh(t, i) /\ ~AwaitIpv6(t, i)
      BY <2>1, <2>2, <2>3 DEF Refresh, AwaitIpv6
    <2>5. /\ ~Configuring(t, i) /\ ~Validating(t, i) /\ ~Obtaining(t, i)
          /\ ~Refreshing(t, i) /\ ~Deconfiguring(t, i) /\ ~Exit(t, i)
      BY <2>1, <2>2, <2>3, <2>4 DEF Configuring, Validating, Obtaining,
         Refreshing, Deconfiguring, Exit
    <2>6. Ipv4Leased(t, i) \/ Ipv6Leased(t, i) \/ DualStack(t, i)
      BY <1>1, <2>5
    <2>7. CASE Ipv4Leased(t, i)
      BY <2>3, <2>4, <2>7 DEF Ipv4Leased
    <2>8. CASE Ipv6Leased(t, i)
      BY <2>1, <2>2, <2>3, <2>8 DEF Ipv6Leased
    <2>9. CASE DualStack(t, i)
      BY <2>2, <2>3, <2>9 DEF DualStack
    <2> QED BY <2>6, <2>7, <2>8, <2>9
  <1>5. CASE Ipv4Down(t, i)
    BY <1>2, <1>5, HostFacts DEF Ipv4Down, Become
  <1>6. CASE DualStackDown(t, i)
    <2> DEFINE g == TearDownIpv4(i, host)
               k == Ipv4ConnectionDown(i)
    <2>1. g \in Host /\ k \in Iface /\ g.conn4 = "down"
      BY <1>2, HostFacts, HostType, ThreadPair, ClearType
    <2>2. host' = TearDownIpv6(k, g)
      BY <1>6 DEF DualStackDown, Become
    <2> HIDE DEF g, k
    <2> QED BY <2>1, <2>2, HostFacts
  <1>7. CASE /\ \/ sm[t] = "IPV6_LEASED"
                \/ sm[t] = "DUAL_STACK_ACTIVE" /\ i.ipv4Status = "UP"
             /\ Ipv6Down(t, i)
    <2>1. host' = TearDownIpv6(i, host)
      BY <1>7 DEF Ipv6Down, Become
    <2>2. CASE sm[t] = "IPV6_LEASED"
      BY <1>1, <1>2, <2>1, <2>2, HostFacts DEF Local, Leased4, Host
    <2>3. CASE i.ipv4Status = "UP"
      BY <1>2, <2>1, <2>3 DEF TearDownIpv6, Host
    <2> QED BY <1>7, <2>2, <2>3
  <1> QED BY <1>4, <1>5, <1>6, <1>7

\* wan-status is never posted "stopped" by a step that leaves IPv4 up.
THEOREM NeverStoppedWhileUp == Spec => StoppedAfterIpv4
  <1>1. IndInv /\ [Next]_vars =>
          [host.wanStatus = "started" /\ host.wanStatus' = "stopped"
             => host'.conn4 = "down"]_vars
    <2> SUFFICES ASSUME IndInv, Next, host.wanStatus = "started",
                        host.wanStatus' = "stopped"
                 PROVE  host'.conn4 = "down"
      OBVIOUS
    <2>1. host \in Host
      BY DEF IndInv, TypeOK
    <2>2. ASSUME NEW t \in Threads, Thread(t) PROVE host'.conn4 = "down"
      BY <2>2, TickStops DEF Thread, TransitionStart, Become
    <2>3. host'.wanStatus # host.wanStatus
      OBVIOUS
    <2>4. ~ \E n \in Ifaces : Managers(n)
      BY <2>1, <2>3 DEF Managers, SetPhyStatus, SetLinkStatus, VlanDown,
         SetWanName, SetRefresh, SetDsliteStatus, IpcNewIpv4Msg, IpcNewIpv6Msg,
         IPCPStateChange, IPV6CPStateChange, Write, Host
    <2>5. ~ \E n \in Ifaces : Policy(n)
      BY <2>3 DEF Policy, Deselect, StartInterfaceStateMachine, Write
    <2>6. ~Ipv6PrefixClear /\ ~SetWanEnable
      BY <2>1, <2>3 DEF Ipv6PrefixClear, SetWanEnable, Host
    <2> QED BY <2>2, <2>4, <2>5, <2>6 DEF Next
  <1> QED BY <1>1, Invariance, PTL DEF Spec, StoppedAfterIpv4

-----------------------------------------------------------------------------
(***************************************************************************)
(* Refinement: the state machines implement WanService.                    *)
(***************************************************************************)
Serving == {"OBTAINING_IP_ADDRESSES", "REFRESHING_WAN", "IPV6_LEASED"}
              \cup Leased4

\* The moves a tick can make between states, and when it leaves Wan.Status.
TickMove(t, j, s) ==
    /\ iface' = [iface EXCEPT ![t[1]] = j]
    /\ sm' = [sm EXCEPT ![t] = s]
    /\ \/ sm[t] \in Serving /\ s \in Serving
       \/ sm[t] = "CONFIGURING_WAN" /\ s = "VALIDATING_WAN"
       \/ sm[t] = "VALIDATING_WAN" /\ s = "OBTAINING_IP_ADDRESSES"
       \/ sm[t] = "DECONFIGURING_WAN" /\ s = "EXIT"
       \/ sm[t] = "EXIT" /\ s = "NONE"
       \/ /\ sm[t] \notin Leased4 \cup {"EXIT"}
          /\ s \in {"CONFIGURING_WAN", "DECONFIGURING_WAN"}
          /\ j.status = iface[t[1]].status

\* Every tick makes one of these moves.
LEMMA TickMoves ==
    ASSUME IndInv, NEW t \in Threads, Tick(t)
    PROVE  \E j, s : TickMove(t, j, s)
  <1>1. PICK i : /\ Local(t[1], i, host, sm[t])
                 /\ iface[t[1]].status = i.status
                 /\ \/ Configuring(t, i) \/ Validating(t, i) \/ Obtaining(t, i)
                    \/ Ipv4Leased(t, i) \/ Ipv6Leased(t, i) \/ DualStack(t, i)
                    \/ Refreshing(t, i) \/ Deconfiguring(t, i) \/ Exit(t, i)
    BY TickLocal
  <1>2. CASE Configuring(t, i)
    BY <1>1, <1>2 DEF Configuring, PhysicalInterfaceDown, WanUp, Stay, Become,
       TickMove, Leased4
  <1>3. CASE Validating(t, i)
    BY <1>1, <1>3 DEF Validating, PhysicalInterfaceDown, WanValidated, Become,
       TickMove, Leased4
  <1>4. ASSUME sm[t] \in {"OBTAINING_IP_ADDRESSES", "REFRESHING_WAN"},
               PhysicalInterfaceDown(t, i) \/ Refresh(t, i)
        PROVE  \E j, s : TickMove(t, j, s)
    BY <1>1, <1>4 DEF PhysicalInterfaceDown, Refresh, RefreshingWan,
       WanRefreshed, Become, TickMove, Leased4, Serving
  <1>5. CASE Refreshing(t, i)
    BY <1>4, <1>5 DEF Refreshing
  <1>6. ASSUME sm[t] \in Serving,
               \/ Ipv4Up(t, i) \/ Ipv4Down(t, i) \/ Ipv6Up(t, i)
               \/ Ipv6Down(t, i) \/ DualStackDown(t, i) \/ Ipv4OverIpv6Up(t, i)
               \/ AwaitIpv6(t, i) \/ Stay(t, i)
        PROVE  \E j, s : TickMove(t, j, s)
    <2>1. ASSUME NEW j, NEW h, NEW s \in Serving, Become(t, j, h, s)
          PROVE  TickMove(t, j, s)
      BY <1>6, <2>1 DEF Become, TickMove
    <2>2. ASSUME NEW j, Stay(t, j) PROVE \E k, s : TickMove(t, k, s)
      BY <1>6, <2>1, <2>2 DEF Stay
    <2>3. CASE Ipv4Up(t, i) \/ Ipv4Down(t, i)
      BY <2>1, <2>3 DEF Ipv4Up, Ipv4Down, Serving, Leased4
    <2>4. CASE Ipv6Up(t, i) \/ Ipv6Down(t, i)
      BY <2>1, <2>4 DEF Ipv6Up, Ipv6Down, Serving, Leased4
    <2>5. CASE DualStackDown(t, i) \/ Ipv4OverIpv6Up(t, i)
      BY <2>1, <2>5 DEF DualStackDown, Ipv4OverIpv6Up, Serving, Leased4
    <2>6. CASE AwaitIpv6(t, i)
      BY <2>2, <2>4, <2>6 DEF AwaitIpv6
    <2> QED BY <1>6, <2>2, <2>3, <2>4, <2>5, <2>6
  <1>7. CASE Obtaining(t, i)
    BY <1>4, <1>6, <1>7 DEF Obtaining, Serving
  <1>8. CASE Ipv4Leased(t, i)
    BY <1>6, <1>8 DEF Ipv4Leased, Serving, Leased4
  <1>9. CASE Ipv6Leased(t, i)
    BY <1>6, <1>9 DEF Ipv6Leased, Serving
  <1>10. CASE DualStack(t, i)
    BY <1>6, <1>10 DEF DualStack, Serving, Leased4
  <1>11. CASE Deconfiguring(t, i)
    BY <1>1, <1>11 DEF Deconfiguring, TransitionExit, Stay, Become, TickMove,
       Leased4
  <1>12. CASE Exit(t, i)
    BY <1>12 DEF Exit, Become, TickMove
  <1> QED BY <1>1, <1>2, <1>3, <1>5, <1>7, <1>8, <1>9, <1>10, <1>11, <1>12

\* The abstract phases, and how a step of a thread changes them.
Phase == [n \in Ifaces |-> iface[n].status]

\* A tick is a step of a session, or none: what changes of Wan.Status and
\* of ipv4_connection_state follows from the invariant before and after.
LEMMA TickServes ==
    ASSUME IndInv, IndInv', NEW t \in Threads, Tick(t)
    PROVE  Service!ServiceNext \/ UNCHANGED Service!svars
  <1>1. PICK j, s : TickMove(t, j, s)
    BY TickMoves
  <1>2. t[1] \in Ifaces /\ t[2] \in Slots /\ t = <<t[1], t[2]>>
    BY ThreadPair
  <1>3. /\ iface'[t[1]] = j /\ sm'[t] = s /\ s \in SmState
        /\ Phase' = [Phase EXCEPT ![t[1]] = j.status]
    <2>1. /\ iface \in [Ifaces -> Iface] /\ sm \in [Threads -> SmState]
          /\ sm' \in [Threads -> SmState]
      BY DEF IndInv, TypeOK
    <2> QED BY <1>1, <1>2, <2>1 DEF TickMove, Phase
  <1>4. sm[t] # "NONE" /\ \A u \in Threads : u # t => sm'[u] = "NONE"
    <2>1. sm[t] # "NONE"
      BY <1>1 DEF TickMove, Serving, Leased4, Tick, Configuring, Validating,
         Obtaining, Ipv4Leased, Ipv6Leased, DualStack, Refreshing,
         Deconfiguring, Exit
    <2> QED BY <1>1, <2>1 DEF IndInv, OneThread, TypeOK, TickMove
  <1>5. /\ host.conn4 = "up" => sm[t] \in Leased4
        /\ host'.conn4 = "up" => s \in Leased4
    <2>1. host.conn4 = "up" => sm[t] \in Leased4
      BY <1>4, LocalHolds DEF Local
    <2>2. host'.conn4 = "up" => s \in Leased4
      BY <1>3, <1>4 DEF IndInv, LeasedAndNamed, Leased4
    <2> QED BY <2>1, <2>2
  <1>6. iface[t[1]].status \in StatusOf(sm[t]) /\ j.status \in StatusOf(s)
    <2>1. iface[t[1]].status \in StatusOf(sm[t])
      BY <1>4, LocalHolds DEF Local
    <2>2. CASE s # "NONE"
      <3>1. sm'[<<t[1], t[2]>>] = s
        BY <1>2, <1>3
      <3>2. iface'[t[1]].status \in StatusOf(s)
        BY <1>2, <2>2, <3>1 DEF IndInv, StatusFits
      <3> QED BY <1>3, <2>1, <3>2
    <2>3. CASE s = "NONE"
      <3>1. \A k \in Slots : sm'[<<t[1], k>>] = "NONE"
        BY <1>2, <1>3, <1>4, <2>3 DEF Threads
      <3>2. iface'[t[1]].status = "DISABLED"
        BY <1>2, <3>1 DEF IndInv, StatusFits
      <3>3. StatusOf(s) = {"DISABLED"}
        BY <2>3 DEF StatusOf
      <3> QED BY <1>3, <2>1, <3>2, <3>3
    <2> QED BY <2>2, <2>3
  <1>7. Phase[t[1]] = iface[t[1]].status /\ Phase \in [Ifaces -> WanStatus]
    BY <1>2 DEF Phase, IndInv, TypeOK, Iface
  <1>8. (j.status = iface[t[1]].status) => Phase' = Phase
    BY <1>3, <1>7
  <1>9. CASE sm[t] \in Serving /\ s \in Serving
    <2>1. iface[t[1]].status = "UP" /\ j.status = "UP"
      BY <1>6, <1>9 DEF StatusOf, Serving, Leased4
    <2>2. Phase[t[1]] = "UP" /\ Phase' = Phase
      BY <1>7, <1>8, <2>1
    <2>3. (host.conn4 = "up") \in BOOLEAN /\ (host'.conn4 = "up") \in BOOLEAN
      OBVIOUS
    <2>4. CASE host'.conn4 = "up"
      BY <1>2, <2>2, <2>4 DEF Service!ServiceNext, Service!Connect, Phase
    <2>5. CASE ~(host'.conn4 = "up") /\ host.conn4 = "up"
      BY <2>2, <2>5 DEF Service!ServiceNext, Service!Disconnect, Phase
    <2>6. CASE ~(host'.conn4 = "up") /\ ~(host.conn4 = "up")
      BY <2>2, <2>6 DEF Service!svars, Phase
    <2> QED BY <2>4, <2>5, <2>6
  <1>10. ASSUME sm[t] \notin Leased4, s \notin Leased4
         PROVE  (host'.conn4 = "up") = (host.conn4 = "up") /\ ~(host.conn4 = "up")
    BY <1>5, <1>10
  <1>11. CASE sm[t] = "CONFIGURING_WAN" /\ s = "VALIDATING_WAN"
    <2>1. (host'.conn4 = "up") = (host.conn4 = "up")
      BY <1>10, <1>11 DEF Leased4
    <2>2. j.status = "VALIDATING" /\ Phase[t[1]] \in {"INITIALISING", "VALIDATING"}
      BY <1>6, <1>7, <1>11 DEF StatusOf
    <2>3. CASE Phase[t[1]] = "INITIALISING"
      BY <1>2, <1>3, <2>1, <2>2, <2>3 DEF Service!ServiceNext, Service!Validate, Phase
    <2>4. CASE Phase[t[1]] = "VALIDATING"
      BY <1>7, <1>8, <2>1, <2>2, <2>4 DEF Service!svars, Phase
    <2> QED BY <2>2, <2>3, <2>4
  <1>12. CASE sm[t] = "VALIDATING_WAN" /\ s = "OBTAINING_IP_ADDRESSES"
    <2>1. (host'.conn4 = "up") = (host.conn4 = "up")
      BY <1>10, <1>12 DEF Leased4
    <2>2. j.status = "UP" /\ Phase[t[1]] = "VALIDATING"
      BY <1>6, <1>7, <1>12 DEF StatusOf, Leased4
    <2> QED BY <1>2, <1>3, <2>1, <2>2 DEF Service!ServiceNext, Service!Validated, Phase
  <1>13. CASE sm[t] = "DECONFIGURING_WAN" /\ s = "EXIT"
    <2>1. (host'.conn4 = "up") = (host.conn4 = "up") /\ ~(host.conn4 = "up")
      BY <1>10, <1>13 DEF Leased4
    <2>2. j.status = "DISABLED" /\ Phase[t[1]] # "DISABLED"
      BY <1>6, <1>7, <1>13 DEF StatusOf
    <2> QED BY <1>2, <1>3, <2>1, <2>2 DEF Service!ServiceNext, Service!End, Phase
  <1>14. CASE sm[t] = "EXIT" /\ s = "NONE"
    <2>1. (host'.conn4 = "up") = (host.conn4 = "up")
      BY <1>10, <1>14 DEF Leased4
    <2>2. j.status = iface[t[1]].status
      BY <1>6, <1>14 DEF StatusOf
    <2> QED BY <1>8, <2>1, <2>2 DEF Service!svars, Phase
  <1>15. CASE /\ sm[t] \notin Leased4 \cup {"EXIT"}
              /\ s \in {"CONFIGURING_WAN", "DECONFIGURING_WAN"}
              /\ j.status = iface[t[1]].status
    <2>1. (host'.conn4 = "up") = (host.conn4 = "up")
      BY <1>10, <1>15 DEF Leased4
    <2> QED BY <1>8, <1>15, <2>1 DEF Service!svars, Phase
  <1> QED BY <1>1, <1>9, <1>11, <1>12, <1>13, <1>14, <1>15 DEF TickMove

\* A step that changes neither the threads' Wan.Status nor
\* ipv4_connection_state is none of a session.
LEMMA QuietServes ==
    ASSUME \A n \in Ifaces : iface'[n].status = iface[n].status,
           host'.conn4 = host.conn4
    PROVE  UNCHANGED Service!svars
  BY DEF Service!svars

\* A new thread begins the session: no other interface has one.
LEMMA TransitionStartServes ==
    ASSUME IndInv, NEW t \in Threads, TransitionStart(t)
    PROVE  Service!ServiceNext
  <1>1. t[1] \in Ifaces /\ t[2] \in Slots /\ t = <<t[1], t[2]>>
    BY ThreadPair
  <1>2. sm[t] = "START" /\ \A u \in Threads : u # t => sm[u] = "NONE"
    BY DEF TransitionStart, IndInv, OneThread
  <1>3. Phase = [n \in Ifaces |-> "DISABLED"]
    <2> SUFFICES ASSUME NEW n \in Ifaces PROVE iface[n].status = "DISABLED"
      BY DEF Phase
    <2>1. CASE n = t[1]
      <3>1. Local(t[1], iface[t[1]], host, "START")
        BY <1>2, LocalHolds
      <3> QED BY <2>1, <3>1 DEF Local, StatusOf
    <2>2. CASE n # t[1]
      <3>1. \A k \in Slots : <<n, k>> \in Threads /\ <<n, k>> # t
        BY <1>1, <2>2 DEF Threads
      <3> QED BY <1>2, <3>1 DEF IndInv, StatusFits
    <2> QED BY <2>1, <2>2
  <1>4. Phase' = [Phase EXCEPT ![t[1]] = "INITIALISING"]
    <2>1. PICK j : /\ iface' = [iface EXCEPT ![t[1]] = j]
                   /\ j.status = "INITIALISING"
      <3> DEFINE i == iface[t[1]]
                 j == [i EXCEPT !.ipv4Status = "DOWN", !.ipv6Status = "DOWN",
                                !.dslite = "DOWN", !.status = "INITIALISING",
                                !.link = "CONFIGURING"]
      <3>1. i \in Iface
        BY <1>1 DEF IndInv, TypeOK
      <3>2. j.status = "INITIALISING"
        BY <3>1 DEF Iface
      <3>3. iface' = [iface EXCEPT ![t[1]] = j]
        BY DEF TransitionStart, Become
      <3> QED BY <3>2, <3>3
    <2> QED BY <1>1, <2>1 DEF Phase, IndInv, TypeOK
  <1>5. host' = host
    BY DEF TransitionStart, Become
  <1> QED BY <1>1, <1>3, <1>4, <1>5 DEF Service!ServiceNext, Service!Begin, Phase

\* The state machines implement WanService: sessions one at a time, IPv4 up
\* only in a validated one, and none ended before IPv4 is torn down.
THEOREM ServiceImplemented == Spec => ServesInSessions
  <1>1. Init => Service!ServiceInit
    BY DEF Init, InitIface, InitHost, Service!ServiceInit
  <1>2. IndInv /\ IndInv' /\ [Next]_vars => [Service!ServiceNext]_(Service!svars)
    <2> SUFFICES ASSUME IndInv, IndInv', [Next]_vars
                 PROVE  Service!ServiceNext \/ UNCHANGED Service!svars
      OBVIOUS
    <2>1. iface \in [Ifaces -> Iface] /\ host \in Host
      BY DEF IndInv, TypeOK
    <2>2. ASSUME NEW t \in Threads, Thread(t)
          PROVE  Service!ServiceNext \/ UNCHANGED Service!svars
      BY <2>2, TickServes, TransitionStartServes DEF Thread
    <2>3. ASSUME NEW n \in Ifaces, NEW j, Write(n, j), j.status = iface[n].status
          PROVE  UNCHANGED Service!svars
      BY <2>1, <2>3, QuietServes DEF Write
    <2>4. ASSUME NEW n \in Ifaces, Managers(n)
          PROVE  UNCHANGED Service!svars
      <3>1. CASE SetPhyStatus(n) \/ SetLinkStatus(n) \/ VlanDown(n) \/ SetWanName(n)
        BY <2>1, <2>3, <3>1 DEF SetPhyStatus, SetLinkStatus, VlanDown, SetWanName,
           Iface
      <3>2. CASE SetRefresh(n) \/ SetDsliteStatus(n)
        BY <2>1, <2>3, <3>2 DEF SetRefresh, SetDsliteStatus, Iface
      <3>3. CASE IpcNewIpv4Msg(n) \/ IpcNewIpv6Msg(n)
        BY <2>1, <2>3, <3>3 DEF IpcNewIpv4Msg, IpcNewIpv6Msg, Iface
      <3>4. CASE IPCPStateChange(n)
        <4>1. PICK m \in Msg4 :
                \/ Write(n, HandleDhcpv4([iface[n] EXCEPT !.ipc4 = m]))
                \/ Write(n, [iface[n] EXCEPT !.ipc4 = m])
          BY <3>4 DEF IPCPStateChange
        <4> DEFINE i == iface[n]
                   k == [i EXCEPT !.ipc4 = m]
        <4>2. i \in Iface
          BY <2>1
        <4> HIDE DEF i
        <4>3. k \in Iface /\ k.status = i.status
          <5>1. k \in Iface
            BY Zenon, <4>2 DEF Iface
          <5> QED BY <4>2, <5>1 DEF Iface
        <4>4. Write(n, HandleDhcpv4(k)) \/ Write(n, k)
          BY <4>1 DEF i
        <4> HIDE DEF k
        <4>5. HandleDhcpv4(k).status = k.status
          BY <4>3, Handle4Facts
        <4> QED BY <2>3, <4>3, <4>4, <4>5 DEF i
      <3>5. CASE IPV6CPStateChange(n)
        BY <2>1, <3>5, QuietServes DEF IPV6CPStateChange, Host
      <3> QED BY <2>4, <3>1, <3>2, <3>3, <3>4, <3>5 DEF Managers
    <2>5. ASSUME NEW n \in Ifaces, Policy(n)
          PROVE  UNCHANGED Service!svars
      <3>1. CASE Deselect(n)
        BY <2>1, <2>3, <3>1 DEF Deselect, Iface
      <3>2. ASSUME NEW k \in Slots, StartInterfaceStateMachine(n, k)
            PROVE  UNCHANGED Service!svars
        <4>1. /\ iface' = [iface EXCEPT ![n].activeLink = TRUE]
              /\ host' = host
          BY <3>2 DEF StartInterfaceStateMachine
        <4>2. \A m \in Ifaces : iface'[m].status = iface[m].status
          BY <2>1, <4>1 DEF Iface
        <4> QED BY <4>1, <4>2, QuietServes
      <3> QED BY <2>5, <3>1, <3>2 DEF Policy
    <2>6. CASE Ipv6PrefixClear \/ SetWanEnable \/ UNCHANGED vars
      BY <2>1, <2>6, QuietServes DEF Ipv6PrefixClear, SetWanEnable, vars, Host
    <2> QED BY <2>2, <2>4, <2>5, <2>6 DEF Next
  <1> QED BY <1>1, <1>2, Invariance, PTL DEF Spec, ServesInSessions, Service!ServiceSpec

-----------------------------------------------------------------------------
(***************************************************************************)
(* Refinement: the state machines implement WanSession.                    *)
(***************************************************************************)

\* The interfaces and the threads as the policies see them
Seen == [n \in Ifaces |-> View(iface[n])]
Staged == [t \in Threads |-> Stage(sm[t])]

\* A change of an interface, and of a thread, as it is seen.
LEMMA WriteSeen ==
    ASSUME NEW n \in Ifaces, NEW j, iface \in [Ifaces -> Iface],
           iface' = [iface EXCEPT ![n] = j]
    PROVE  Seen' = [Seen EXCEPT ![n] = View(j)] /\ Seen[n] = View(iface[n])
  BY DEF Seen

LEMMA MoveStaged ==
    ASSUME NEW t \in Threads, NEW s, sm \in [Threads -> SmState],
           sm' = [sm EXCEPT ![t] = s]
    PROVE  Staged' = [Staged EXCEPT ![t] = Stage(s)] /\ Staged[t] = Stage(sm[t])
  BY DEF Staged

\* The effect of a thread's step on what is seen.
LEMMA BecomeSeen ==
    ASSUME IndInv, NEW t \in Threads, NEW j, NEW h, NEW s, Become(t, j, h, s)
    PROVE  /\ Seen' = [Seen EXCEPT ![t[1]] = View(j)]
           /\ Staged' = [Staged EXCEPT ![t] = Stage(s)]
           /\ wanEnable' = wanEnable
           /\ Seen[t[1]] = View(iface[t[1]]) /\ Staged[t] = Stage(sm[t])
           /\ Seen \in [Ifaces -> {View(k) : k \in Iface}]
           /\ Staged \in [Threads -> {Stage(k) : k \in SmState}]
  <1>1. iface \in [Ifaces -> Iface] /\ sm \in [Threads -> SmState]
    BY DEF IndInv, TypeOK
  <1>2. t[1] \in Ifaces
    BY ThreadPair
  <1>3. /\ Seen \in [Ifaces -> {View(k) : k \in Iface}]
        /\ Staged \in [Threads -> {Stage(k) : k \in SmState}]
    BY <1>1 DEF Seen, Staged
  <1> QED BY <1>1, <1>2, <1>3, WriteSeen, MoveStaged DEF Become

\* A thread that neither shows anything nor leaves its stage is not seen.
LEMMA UnseenStep ==
    ASSUME IndInv, NEW t \in Threads, NEW j, NEW h, NEW s, Become(t, j, h, s),
           View(j) = View(iface[t[1]]), Stage(s) = Stage(sm[t]),
           upstream' = upstream
    PROVE  UNCHANGED Session!sessionVars
  <1>1. Seen' = Seen /\ Staged' = Staged /\ wanEnable' = wanEnable
    BY BecomeSeen
  <1> QED BY <1>1 DEF Session!sessionVars, Seen, Staged, View, Level, Disabled

\* wan_transition_physical_interface_down, from any state with a link
LEMMA PhysicalInterfaceDownSeen ==
    ASSUME IndInv, NEW t \in Threads, NEW i, PhysicalInterfaceDown(t, i),
           sm[t] \in Linked, View(i) = View(iface[t[1]]), LinkLost(i)
    PROVE  Session!PhysicalInterfaceDown(t)
  <1>1. Become(t, i, StopClients(t[1], host), "DECONFIGURING_WAN")
    BY DEF PhysicalInterfaceDown
  <1>2. Stage("DECONFIGURING_WAN") = "DECONFIGURING_WAN" /\ Stage(sm[t]) = "RUN"
    BY DEF Stage, Linked, Leased4
  <1>3. /\ Seen' = Seen
        /\ Staged[t] = "RUN" /\ Staged' = [Staged EXCEPT ![t] = "DECONFIGURING_WAN"]
        /\ wanEnable' = wanEnable /\ Seen[t[1]] = View(i)
    BY <1>1, <1>2, BecomeSeen
  <1>4. ~wanEnable \/ ~View(i).activeLink \/ View(i).phy = "DOWN"
        \/ View(i).link = "DOWN"
    BY DEF LinkLost, View, Level
  <1>5. /\ Staged[t] = "RUN"
        /\ LET w == Seen[t[1]]
           IN  ~wanEnable \/ ~w.activeLink \/ w.phy = "DOWN" \/ w.link = "DOWN"
        /\ Staged' = [Staged EXCEPT ![t] = "DECONFIGURING_WAN"]
        /\ upstream' = [upstream EXCEPT ![t[1]] = FALSE]
        /\ UNCHANGED <<wanEnable, Seen>>
    BY <1>3, <1>4 DEF PhysicalInterfaceDown
  <1> QED BY <1>5, Zenon DEF Session!PhysicalInterfaceDown, Staged, Seen, View, Level, Disabled

\* wan_transition_start
LEMMA TransitionStartSeen ==
    ASSUME IndInv, NEW t \in Threads, TransitionStart(t)
    PROVE  Session!TransitionStart(t)
  <1> DEFINE i == iface[t[1]]
             j == [i EXCEPT !.ipv4Status = "DOWN", !.ipv6Status = "DOWN",
                            !.dslite = "DOWN", !.status = "INITIALISING",
                            !.link = "CONFIGURING"]
  <1>1. i \in Iface
    BY ThreadPair DEF IndInv, TypeOK
  <1>2. /\ j.phy = i.phy /\ j.link = "CONFIGURING"
        /\ j.status = "INITIALISING"
        /\ j.activeLink = i.activeLink /\ j.named = i.named
    BY <1>1 DEF Iface
  <1>3. /\ Become(t, j, host, "CONFIGURING_WAN") /\ sm[t] = "START"
        /\ upstream' = [upstream EXCEPT ![t[1]] = TRUE]
    BY DEF TransitionStart
  <1> HIDE DEF j
  <1>4. View(j) = [View(i) EXCEPT !.disabled = FALSE, !.link = "UP"]
    <2>1. Disabled(j.status) = FALSE
      BY <1>2, Zenon DEF Disabled
    <2>2. Level(j.link) = "UP"
      BY <1>2 DEF Level
    <2>3. ASSUME NEW d, Disabled(j.status) = d
          PROVE  View(j) = [View(i) EXCEPT !.disabled = d, !.link = "UP"]
      <3> DEFINE r == [View(i) EXCEPT !.disabled = d]
      <3>1. r = [phy |-> i.phy, link |-> Level(i.link), disabled |-> d,
                 activeLink |-> i.activeLink, named |-> i.named]
        BY DEF View
      <3>2. View(j) = [r EXCEPT !.link = "UP"]
        <4> HIDE DEF r
        <4> QED BY <1>2, <2>2, <2>3, <3>1 DEF View
      <3> QED BY <3>2
    <2> QED BY <2>1, <2>3, Zenon
  <1>5. Stage("CONFIGURING_WAN") = "RUN" /\ Stage("START") = "START"
    BY DEF Stage, Linked, Leased4
  <1>6. /\ Seen' = [Seen EXCEPT ![t[1]] = View(j)] /\ Seen[t[1]] = View(i)
        /\ Staged[t] = "START" /\ Staged' = [Staged EXCEPT ![t] = "RUN"]
        /\ wanEnable' = wanEnable
    BY <1>3, <1>5, BecomeSeen
  <1>7. Seen' = [Seen EXCEPT ![t[1]].disabled = FALSE, ![t[1]].link = "UP"]
    <2> HIDE DEF i
    <2> DEFINE s == Seen
    <2>1. s \in [Ifaces -> {View(k) : k \in Iface}] /\ t[1] \in Ifaces
      BY ThreadPair, <1>3, BecomeSeen
    <2>2. Seen' = [s EXCEPT ![t[1]] = [s[t[1]] EXCEPT !.disabled = FALSE, !.link = "UP"]]
      BY <1>4, <1>6
    <2> HIDE DEF s
    <2>3. [s EXCEPT ![t[1]].disabled = FALSE, ![t[1]].link = "UP"]
          = [s EXCEPT ![t[1]] = [s[t[1]] EXCEPT !.disabled = FALSE, !.link = "UP"]]
      BY <2>1
    <2> QED BY <2>2, <2>3 DEF s
  <1> QED BY <1>3, <1>6, <1>7, Zenon DEF Session!TransitionStart, Staged, Seen, View, Level, Disabled

\* wan_transition_exit
LEMMA TransitionExitSeen ==
    ASSUME IndInv, NEW t \in Threads, NEW i \in Iface, TransitionExit(t, i),
           sm[t] = "DECONFIGURING_WAN", i.link = "DOWN",
           View(i) = View(iface[t[1]])
    PROVE  Session!TransitionExit(t)
  <1> DEFINE j == [i EXCEPT !.status = "DISABLED", !.refresh = FALSE,
                            !.activeLink = FALSE]
  <1>1. /\ j.phy = i.phy /\ j.link = i.link /\ j.status = "DISABLED"
        /\ j.activeLink = FALSE /\ j.named = i.named
    BY DEF Iface
  <1>2. Become(t, j, host, "EXIT") /\ upstream' = upstream
    BY DEF TransitionExit
  <1> HIDE DEF j
  <1>3. View(j) = [View(i) EXCEPT !.disabled = TRUE, !.activeLink = FALSE]
    <2>1. Disabled(j.status) = TRUE
      BY <1>1, Zenon DEF Disabled
    <2>2. ASSUME NEW d, Disabled(j.status) = d, NEW a, j.activeLink = a
          PROVE  View(j) = [View(i) EXCEPT !.disabled = d, !.activeLink = a]
      <3> DEFINE r == [View(i) EXCEPT !.disabled = d]
      <3>1. r = [phy |-> i.phy, link |-> Level(i.link), disabled |-> d,
                 activeLink |-> i.activeLink, named |-> i.named]
        BY DEF View
      <3>2. View(j) = [r EXCEPT !.activeLink = a]
        <4> HIDE DEF r
        <4> QED BY <1>1, <2>2, <3>1 DEF View
      <3> QED BY <3>2
    <2> QED BY <1>1, <2>1, <2>2, Zenon
  <1>4. Stage("DECONFIGURING_WAN") = "DECONFIGURING_WAN" /\ Stage("EXIT") = "EXIT"
    BY DEF Stage, Linked, Leased4
  <1>5. /\ Seen' = [Seen EXCEPT ![t[1]] = View(j)] /\ Seen[t[1]] = View(i)
        /\ Staged[t] = "DECONFIGURING_WAN"
        /\ Staged' = [Staged EXCEPT ![t] = "EXIT"] /\ wanEnable' = wanEnable
    BY <1>2, <1>4, BecomeSeen
  <1>6. Seen[t[1]].link = "DOWN"
    BY <1>5 DEF View, Level
  <1>7. Seen' = [Seen EXCEPT ![t[1]].disabled = TRUE, ![t[1]].activeLink = FALSE]
    <2> DEFINE s == Seen
    <2>1. s \in [Ifaces -> {View(k) : k \in Iface}] /\ t[1] \in Ifaces
      BY ThreadPair, <1>2, BecomeSeen
    <2>2. Seen' = [s EXCEPT ![t[1]] = [s[t[1]] EXCEPT !.disabled = TRUE, !.activeLink = FALSE]]
      BY <1>3, <1>5
    <2> HIDE DEF s
    <2>3. [s EXCEPT ![t[1]].disabled = TRUE, ![t[1]].activeLink = FALSE]
          = [s EXCEPT ![t[1]] = [s[t[1]] EXCEPT !.disabled = TRUE, !.activeLink = FALSE]]
      BY <2>1
    <2> QED BY <2>2, <2>3 DEF s
  <1> QED BY <1>2, <1>5, <1>6, <1>7, Zenon DEF Session!TransitionExit, Staged, Seen, View, Level, Disabled

\* wan_state_exit
LEMMA ExitSeen ==
    ASSUME IndInv, NEW t \in Threads, NEW i \in Iface, Exit(t, i),
           View(i) = View(iface[t[1]])
    PROVE  Session!Exit(t)
  <1> DEFINE j == ClearDHCPData([i EXCEPT !.named = FALSE])
  <1>1. /\ j.phy = i.phy /\ j.link = i.link /\ j.status = i.status
        /\ j.activeLink = i.activeLink /\ j.named = FALSE
    BY DEF Iface, ClearDHCPData
  <1>2. Become(t, j, host, "NONE") /\ sm[t] = "EXIT" /\ upstream' = upstream
    BY DEF Exit
  <1> HIDE DEF j
  <1>3. View(j) = [View(i) EXCEPT !.named = FALSE]
    <2>1. ASSUME NEW m, j.named = m PROVE View(j) = [View(i) EXCEPT !.named = m]
      BY <1>1, <2>1 DEF View
    <2> QED BY <1>1, <2>1, Zenon
  <1>4. Stage("EXIT") = "EXIT" /\ Stage("NONE") = "NONE"
    BY DEF Stage, Linked, Leased4
  <1>5. /\ Seen' = [Seen EXCEPT ![t[1]] = View(j)] /\ Seen[t[1]] = View(i)
        /\ Staged[t] = "EXIT" /\ Staged' = [Staged EXCEPT ![t] = "NONE"]
        /\ wanEnable' = wanEnable
    BY <1>2, <1>4, BecomeSeen
  <1>6. Seen' = [Seen EXCEPT ![t[1]].named = FALSE]
    BY <1>3, <1>5
  <1> QED BY <1>2, <1>5, <1>6, Zenon DEF Session!Exit, Staged, Seen, View, Level, Disabled

\* A tick of a thread is one of its steps in WanSession, or is not seen:
\* leases, refreshes and softwires only move it among the states of "RUN".
LEMMA TickKeepsSession ==
    ASSUME IndInv, NEW t \in Threads, Tick(t)
    PROVE  Session!Thread(t) \/ UNCHANGED Session!sessionVars
  <1> DEFINE Goal == Session!Thread(t) \/ UNCHANGED Session!sessionVars
  <1>1. PICK i : /\ Local(t[1], i, host, sm[t])
                 /\ View(i) = View(iface[t[1]])
                 /\ \/ Configuring(t, i) \/ Validating(t, i) \/ Obtaining(t, i)
                    \/ Ipv4Leased(t, i) \/ Ipv6Leased(t, i) \/ DualStack(t, i)
                    \/ Refreshing(t, i) \/ Deconfiguring(t, i) \/ Exit(t, i)
    BY TickLocal
  <1>2. i \in Iface
    BY <1>1 DEF Local
  <1>3. ASSUME NEW j, NEW h, NEW s, Become(t, j, h, s), upstream' = upstream,
               View(j) = View(i), Stage(s) = Stage(sm[t])
        PROVE  Goal
    BY <1>1, <1>3, UnseenStep
  <1>4. ASSUME NEW j \in Iface,
               j.phy = i.phy, j.activeLink = i.activeLink, j.named = i.named,
               j.link = i.link \/ (j.link # "DOWN" /\ i.link # "DOWN"),
               j.status = i.status \/ (j.status # "DISABLED" /\ sm[t] \in Linked)
        PROVE  View(j) = View(i)
    <2>1. i.status \in StatusOf(sm[t])
      BY <1>1 DEF Local
    <2>2. sm[t] \in Linked => i.status # "DISABLED"
      BY <2>1 DEF StatusOf, Linked, Leased4
    <2> QED BY <1>4, <2>2, SameView
  <1>5. ASSUME sm[t] \in Linked, LinkLost(i), PhysicalInterfaceDown(t, i)
        PROVE  Goal
    BY <1>1, <1>5, PhysicalInterfaceDownSeen DEF Session!Thread
  <1>6. ASSUME NEW s \in Linked PROVE Stage(s) = "RUN"
    BY <1>6 DEF Stage
  <1>7. ASSUME NEW j, Stay(t, j), View(j) = View(i) PROVE Goal
    BY <1>3, <1>7 DEF Stay
  <1>8. ASSUME sm[t] \in Linked, NEW j, NEW h, NEW s \in Linked,
               Become(t, j, h, s), upstream' = upstream, View(j) = View(i)
        PROVE  Goal
    BY <1>3, <1>6, <1>8
  <1>9. ASSUME NEW j \in Iface,
               \/ j = i \/ j = ClearDHCPData(i)
               \/ j = [i EXCEPT !.ipv6Changed = FALSE]
               \/ j = [i EXCEPT !.ipv4Changed = FALSE, !.ipv4Status = "UP"]
               \/ j = [i EXCEPT !.ipv6Changed = FALSE, !.ipv6Status = "UP"]
               \/ j = Ipv4ConnectionDown(i) \/ j = Ipv6ConnectionDown(i)
               \/ j = Ipv6ConnectionDown(Ipv4ConnectionDown(i))
        PROVE  View(j) = View(i)
    <2>1. /\ j.phy = i.phy /\ j.activeLink = i.activeLink /\ j.named = i.named
          /\ j.link = i.link /\ j.status = i.status
      BY <1>2, <1>9 DEF Iface, ClearDHCPData, Ipv4ConnectionDown, Ipv6ConnectionDown
    <2> QED BY <1>4, <2>1
  <1>10. CASE Configuring(t, i)
    <2> USE DEF Linked, Leased4
    <2>1. CASE Stay(t, i)
      BY <1>7, <2>1
    <2>2. CASE WanUp(t, i) /\ i.link = "UP"
      <3> DEFINE j == [i EXCEPT !.status = "VALIDATING"]
      <3>1. j \in Iface
        BY <1>2, Zenon DEF Iface, WanStatus
      <3>2. /\ j.phy = i.phy /\ j.activeLink = i.activeLink /\ j.named = i.named
            /\ j.link = i.link /\ j.status = "VALIDATING"
        BY <1>2 DEF Iface
      <3>3. sm[t] \in Linked
        BY <1>10 DEF Configuring
      <3>4. Become(t, j, host, "VALIDATING_WAN") /\ upstream' = upstream
        BY <2>2 DEF WanUp
      <3> HIDE DEF j
      <3>5. View(j) = View(i)
        BY <1>4, <3>1, <3>2, <3>3
      <3> QED BY <1>8, <3>3, <3>4, <3>5
    <2> QED BY <1>5, <1>10, <2>1, <2>2 DEF Configuring
  <1>11. CASE Validating(t, i)
    <2>1. sm[t] \in Linked
      BY <1>11 DEF Validating, Linked
    <2>2. CASE LinkLost(i) /\ PhysicalInterfaceDown(t, i)
      BY <1>5, <2>1, <2>2
    <2>3. CASE Become(t, i, host, "CONFIGURING_WAN") /\ UNCHANGED upstream
      BY <1>8, <2>1, <2>3 DEF Linked
    <2>4. CASE WanValidated(t, i)
      <3> DEFINE k == [i EXCEPT !.status = "UP"]
                 j == ClearDHCPData(k)
      <3>1. k \in Iface
        BY <1>2, Zenon DEF Iface, WanStatus
      <3>2. /\ k.phy = i.phy /\ k.activeLink = i.activeLink /\ k.named = i.named
            /\ k.link = i.link /\ k.status = "UP"
        BY <1>2 DEF Iface
      <3> HIDE DEF k
      <3>3. /\ j \in Iface /\ j.phy = k.phy /\ j.activeLink = k.activeLink
            /\ j.named = k.named /\ j.link = k.link /\ j.status = k.status
        BY <3>1, ClearType DEF ClearDHCPData, Iface
      <3> HIDE DEF j
      <3>4. View(j) = View(i)
        BY <1>4, <2>1, <3>2, <3>3
      <3>5. /\ Become(t, j, StartClients(t[1], host), "OBTAINING_IP_ADDRESSES")
            /\ upstream' = upstream
        BY <2>4 DEF WanValidated, j, k
      <3> QED BY <1>8, <2>1, <3>4, <3>5 DEF Linked
    <2> QED BY <1>11, <2>2, <2>3, <2>4 DEF Validating
  <1>12. ASSUME sm[t] \in Linked, Refresh(t, i) PROVE Goal
    <2>1. CASE RefreshingWan(t, i) /\ i.link = "UP"
      <3> DEFINE j == [i EXCEPT !.link = "CONFIGURING", !.refresh = FALSE]
      <3>1. j \in Iface
        BY <1>2, Zenon DEF Iface, LinkStatus
      <3>2. /\ j.phy = i.phy /\ j.activeLink = i.activeLink /\ j.named = i.named
            /\ j.link = "CONFIGURING" /\ j.status = i.status
        BY <1>2 DEF Iface
      <3>3. /\ Become(t, j, StopClients(t[1], host), "REFRESHING_WAN")
            /\ upstream' = upstream
        BY <2>1 DEF RefreshingWan
      <3> HIDE DEF j
      <3>4. View(j) = View(i)
        BY <1>4, <2>1, <3>1, <3>2
      <3> QED BY <1>8, <1>12, <3>3, <3>4 DEF Linked
    <2>2. CASE WanRefreshed(t, i)
      <3>1. View(ClearDHCPData(i)) = View(i)
        BY <1>2, <1>9, ClearType
      <3> QED BY <1>8, <1>12, <2>2, <3>1 DEF WanRefreshed, Linked
    <2>3. CASE Become(t, i, host, "REFRESHING_WAN") /\ UNCHANGED upstream
      BY <1>8, <1>12, <2>3 DEF Linked
    <2> QED BY <1>12, <2>1, <2>2, <2>3 DEF Refresh
  <1>13. ASSUME sm[t] \in Linked,
                \/ Ipv4Up(t, i) \/ Ipv4Down(t, i) \/ Ipv6Up(t, i)
                \/ Ipv6Down(t, i) \/ DualStackDown(t, i)
                \/ Ipv4OverIpv6Up(t, i) \/ AwaitIpv6(t, i) \/ Stay(t, i)
         PROVE  Goal
    <2>1. ASSUME NEW j \in Iface, NEW h, NEW s \in Linked, Become(t, j, h, s),
                 upstream' = upstream,
                 \/ j = i
                 \/ j = [i EXCEPT !.ipv4Changed = FALSE, !.ipv4Status = "UP"]
                 \/ j = [i EXCEPT !.ipv6Changed = FALSE, !.ipv6Status = "UP"]
                 \/ j = Ipv4ConnectionDown(i) \/ j = Ipv6ConnectionDown(i)
                 \/ j = Ipv6ConnectionDown(Ipv4ConnectionDown(i))
          PROVE  Goal
      BY <1>8, <1>9, <1>13, <2>1
    <2>2. /\ [i EXCEPT !.ipv4Changed = FALSE, !.ipv4Status = "UP"] \in Iface
          /\ [i EXCEPT !.ipv6Changed = FALSE, !.ipv6Status = "UP"] \in Iface
          /\ [i EXCEPT !.ipv6Changed = FALSE] \in Iface
      BY <1>2, Zenon DEF Iface, IpStatus
    <2>3. /\ Ipv4ConnectionDown(i) \in Iface /\ Ipv6ConnectionDown(i) \in Iface
          /\ Ipv6ConnectionDown(Ipv4ConnectionDown(i)) \in Iface
      BY <1>2, ClearType
    <2>4. CASE Ipv4Up(t, i)
      BY <2>1, <2>2, <2>4 DEF Ipv4Up, Linked, Leased4
    <2>5. CASE Ipv6Up(t, i)
      BY <2>1, <2>2, <2>5 DEF Ipv6Up, Linked, Leased4
    <2>6. CASE Ipv4Down(t, i)
      BY <2>1, <2>3, <2>6 DEF Ipv4Down, Linked, Leased4
    <2>7. CASE Ipv6Down(t, i)
      BY <2>1, <2>3, <2>7 DEF Ipv6Down, Linked, Leased4
    <2>8. CASE DualStackDown(t, i)
      BY <2>1, <2>3, <2>8 DEF DualStackDown, Linked
    <2>9. CASE Ipv4OverIpv6Up(t, i)
      BY <1>2, <2>1, <2>9 DEF Ipv4OverIpv6Up, Linked, Leased4
    <2>10. CASE Stay(t, i)
      BY <1>7, <2>10
    <2>11. CASE AwaitIpv6(t, i)
      <3>1. View([i EXCEPT !.ipv6Changed = FALSE]) = View(i)
        BY <1>9, <2>2
      <3> QED BY <1>7, <2>5, <2>11, <3>1 DEF AwaitIpv6
    <2> QED BY <1>13, <2>4, <2>5, <2>6, <2>7, <2>8, <2>9, <2>10, <2>11
  <1>14. CASE Refreshing(t, i)
    BY <1>5, <1>12, <1>14 DEF Refreshing, Linked
  <1>15. CASE Obtaining(t, i)
    BY <1>5, <1>12, <1>13, <1>15 DEF Obtaining, Linked
  <1>16. CASE Ipv4Leased(t, i)
    BY <1>13, <1>16 DEF Ipv4Leased, Linked, Leased4
  <1>17. CASE Ipv6Leased(t, i)
    BY <1>13, <1>17 DEF Ipv6Leased, Linked
  <1>18. CASE DualStack(t, i)
    BY <1>13, <1>18 DEF DualStack, Linked, Leased4
  <1>19. CASE Deconfiguring(t, i)
    BY <1>1, <1>2, <1>7, <1>19, TransitionExitSeen DEF Deconfiguring, Session!Thread
  <1>20. CASE Exit(t, i)
    BY <1>1, <1>2, <1>20, ExitSeen DEF Session!Thread
  <1> QED BY <1>1, <1>10, <1>11, <1>14, <1>15, <1>16, <1>17, <1>18, <1>19, <1>20

\* A write to an interface by another thread, as it is seen.
LEMMA ManagerWriteSeen ==
    ASSUME IndInv, NEW n \in Ifaces, NEW j, Write(n, j)
    PROVE  /\ Seen' = [Seen EXCEPT ![n] = View(j)] /\ Seen[n] = View(iface[n])
           /\ Staged' = Staged /\ wanEnable' = wanEnable /\ upstream' = upstream
           /\ View(j) = View(iface[n]) => Seen' = Seen
           /\ iface[n] \in Iface
  <1>1. iface \in [Ifaces -> Iface] /\ iface' = [iface EXCEPT ![n] = j]
    BY DEF IndInv, TypeOK, Write
  <1>2. Seen' = [Seen EXCEPT ![n] = View(j)] /\ Seen[n] = View(iface[n])
    BY <1>1, WriteSeen
  <1>3. View(j) = View(iface[n]) => Seen' = Seen
    BY <1>2 DEF Seen
  <1> QED BY <1>1, <1>2, <1>3 DEF Write, Staged

\* The managers' steps are those of WanSession, or are not seen.
LEMMA ManagersKeepSession ==
    ASSUME IndInv, NEW n \in Ifaces, Managers(n)
    PROVE  Session!Manager(n) \/ UNCHANGED Session!sessionVars
  <1> DEFINE i == iface[n]
  <1>1. i \in Iface
    BY DEF IndInv, TypeOK
  <1> HIDE DEF i
  <1>2. ASSUME NEW j, Write(n, j), View(j) = View(i)
        PROVE  UNCHANGED Session!sessionVars
    <2>1. Seen' = Seen /\ Staged' = Staged /\ wanEnable' = wanEnable
          /\ upstream' = upstream
      BY <1>2, ManagerWriteSeen DEF i
    <2> QED BY <2>1, Zenon DEF Session!sessionVars, Seen, Staged, View, Level, Disabled
  <1>3. ASSUME NEW j, Write(n, j)
        PROVE  Seen' = [Seen EXCEPT ![n] = View(j)] /\ UNCHANGED <<wanEnable, Staged, upstream>>
    BY <1>3, ManagerWriteSeen
  <1>4. Seen[n] = View(i)
    BY DEF Seen, i
  <1>5. CASE SetPhyStatus(n)
    <2>1. PICK p \in {"UP", "DOWN"} : Write(n, [i EXCEPT !.phy = p])
      BY <1>5 DEF SetPhyStatus, i
    <2>2. View([i EXCEPT !.phy = p]) = [Seen[n] EXCEPT !.phy = p]
      BY <1>1, <1>4 DEF View, Iface
    <2>3. Seen' = [Seen EXCEPT ![n] = [Seen[n] EXCEPT !.phy = p]]
          /\ UNCHANGED <<wanEnable, Staged, upstream>>
      BY <1>3, <2>1, <2>2
    <2>4. Session!SetPhyStatus(n)
      BY <2>3, Zenon DEF Session!SetPhyStatus, Session!Write, Staged,
         Seen, View, Level, Disabled
    <2> QED BY <2>4 DEF Session!Manager
  <1>6. CASE SetLinkStatus(n)
    <2>1. PICK l \in LinkStatus : /\ l # "DOWN" => upstream[n]
                                  /\ Write(n, [i EXCEPT !.link = l])
      BY <1>6 DEF SetLinkStatus, i
    <2> DEFINE m == Level(l)
    <2>2. m \in {"UP", "DOWN"} /\ (m = "UP" => upstream[n])
      BY <2>1 DEF Level
    <2>3. View([i EXCEPT !.link = l]) = [Seen[n] EXCEPT !.link = m]
      BY <1>1, <1>4 DEF View, Iface
    <2> HIDE DEF m
    <2>4. Seen' = [Seen EXCEPT ![n] = [Seen[n] EXCEPT !.link = m]]
          /\ UNCHANGED <<wanEnable, Staged, upstream>>
      BY <1>3, <2>1, <2>3
    <2>5. Session!SetLinkStatus(n)
      BY <2>2, <2>4, Zenon DEF Session!SetLinkStatus, Session!Write, Staged,
         Seen, View, Level, Disabled
    <2> QED BY <2>5 DEF Session!Manager
  <1>7. CASE VlanDown(n)
    <2>1. ~upstream[n] /\ i.link # "DOWN" /\ Write(n, [i EXCEPT !.link = "DOWN"])
      BY <1>7 DEF VlanDown, i
    <2>2. View([i EXCEPT !.link = "DOWN"]) = [Seen[n] EXCEPT !.link = "DOWN"]
      BY <1>1, <1>4 DEF View, Iface, Level
    <2>3. Seen' = [Seen EXCEPT ![n] = [Seen[n] EXCEPT !.link = "DOWN"]]
          /\ UNCHANGED <<wanEnable, Staged, upstream>>
      BY <1>3, <2>1, <2>2
    <2>4. Seen[n].link = "UP"
      BY <1>4, <2>1 DEF View, Level
    <2>5. Session!VlanDown(n)
      BY <2>1, <2>3, <2>4, Zenon DEF Session!VlanDown, Session!Write, Staged,
         Seen, View, Level, Disabled
    <2> QED BY <2>5 DEF Session!Manager
  <1>8. CASE SetWanName(n)
    <2>1. upstream[n] /\ Write(n, [i EXCEPT !.named = TRUE])
      BY <1>8 DEF SetWanName, i
    <2>2. View([i EXCEPT !.named = TRUE]) = [Seen[n] EXCEPT !.named = TRUE]
      <3>1. ASSUME NEW b PROVE View([i EXCEPT !.named = b]) = [View(i) EXCEPT !.named = b]
        BY <1>1 DEF View, Iface
      <3> QED BY <1>4, <3>1, Zenon
    <2>3. Seen' = [Seen EXCEPT ![n] = [Seen[n] EXCEPT !.named = TRUE]]
          /\ UNCHANGED <<wanEnable, Staged, upstream>>
      BY <1>3, <2>1, <2>2
    <2>4. Session!SetWanName(n)
      BY <2>1, <2>3, Zenon DEF Session!SetWanName, Session!Write, Staged,
         Seen, View, Level, Disabled
    <2> QED BY <2>4 DEF Session!Manager
  <1>9. ASSUME NEW j, j.phy = i.phy, j.activeLink = i.activeLink,
               j.named = i.named, j.link = i.link, j.status = i.status
        PROVE  View(j) = View(i)
    BY <1>9, SameView
  <1>10. CASE SetRefresh(n) \/ SetDsliteStatus(n)
    <2>1. PICK j : /\ Write(n, j) /\ j.phy = i.phy /\ j.activeLink = i.activeLink
                   /\ j.named = i.named /\ j.link = i.link /\ j.status = i.status
      <3>1. ASSUME NEW b
            PROVE  LET j == [i EXCEPT !.refresh = b]
                   IN  /\ j.phy = i.phy /\ j.activeLink = i.activeLink
                       /\ j.named = i.named /\ j.link = i.link /\ j.status = i.status
        BY <1>1 DEF Iface
      <3>2. ASSUME NEW s
            PROVE  LET j == [i EXCEPT !.dslite = s]
                   IN  /\ j.phy = i.phy /\ j.activeLink = i.activeLink
                       /\ j.named = i.named /\ j.link = i.link /\ j.status = i.status
        BY <1>1 DEF Iface
      <3> QED BY <1>10, <3>1, <3>2 DEF SetRefresh, SetDsliteStatus, i
    <2> QED BY <1>2, <1>9, <2>1
  <1>11. ASSUME NEW m PROVE View([i EXCEPT !.ipc4 = m]) = View(i)
                            /\ View([i EXCEPT !.ipc6 = m]) = View(i)
    BY <1>1 DEF View, Iface
  <1>12. CASE IpcNewIpv4Msg(n) \/ IpcNewIpv6Msg(n)
    <2>1. \E m : Write(n, [i EXCEPT !.ipc4 = m]) \/ Write(n, [i EXCEPT !.ipc6 = m])
      BY <1>12 DEF IpcNewIpv4Msg, IpcNewIpv6Msg, i
    <2> QED BY <1>2, <1>11, <2>1
  <1>13. CASE IPCPStateChange(n)
    <2>1. PICK m \in Msg4 : \/ Write(n, HandleDhcpv4([i EXCEPT !.ipc4 = m]))
                            \/ Write(n, [i EXCEPT !.ipc4 = m])
      BY <1>13 DEF IPCPStateChange, i
    <2> DEFINE k == [i EXCEPT !.ipc4 = m]
    <2>2. k \in Iface
      BY <1>1, Zenon DEF Iface
    <2>3. View(k) = View(i)
      BY <1>11
    <2>4. Write(n, HandleDhcpv4(k)) \/ Write(n, k)
      BY <2>1
    <2> HIDE DEF k
    <2>5. View(HandleDhcpv4(k)) = View(k)
      BY <2>2, HandleUnseen
    <2> QED BY <1>2, <2>3, <2>4, <2>5
  <1>14. CASE IPV6CPStateChange(n)
    BY <1>14 DEF IPV6CPStateChange, Session!sessionVars
  <1> QED BY <1>5, <1>6, <1>7, <1>8, <1>10, <1>12, <1>13, <1>14 DEF Managers

\* So are the policy's.
LEMMA PolicyKeepsSession ==
    ASSUME IndInv, NEW n \in Ifaces, Policy(n)
    PROVE  Session!AnyPolicy(n)
  <1> DEFINE i == iface[n]
  <1>1. i \in Iface /\ iface \in [Ifaces -> Iface] /\ sm \in [Threads -> SmState]
    BY DEF IndInv, TypeOK
  <1>2. ASSUME NEW b, iface' = [iface EXCEPT ![n].activeLink = b]
        PROVE  Seen' = [Seen EXCEPT ![n].activeLink = b]
    <2> DEFINE j == [i EXCEPT !.activeLink = b]
    <2>1. iface' = [iface EXCEPT ![n] = j]
      BY <1>1, <1>2
    <2>2. View(j) = [View(i) EXCEPT !.activeLink = b]
      <3> HIDE DEF i
      <3> QED BY <1>1 DEF View, Iface
    <2> HIDE DEF j
    <2>3. Seen' = [Seen EXCEPT ![n] = View(j)] /\ Seen[n] = View(i)
      BY <1>1, <2>1, WriteSeen
    <2> QED BY <2>2, <2>3
  <1>3. CASE Deselect(n)
    <2>1. iface' = [iface EXCEPT ![n].activeLink = FALSE]
      BY <1>1, <1>3 DEF Deselect, Write
    <2>2. Seen' = [Seen EXCEPT ![n].activeLink = FALSE]
      BY <1>2, <2>1
    <2>3. UNCHANGED <<wanEnable, Staged, upstream>>
      BY <1>3 DEF Deselect, Write, Staged
    <2> QED BY <2>2, <2>3, Zenon DEF Session!AnyPolicy, Seen, Staged, View, Level, Disabled
  <1>4. CASE \E k \in Slots : StartInterfaceStateMachine(n, k)
    <2>1. PICK k \in Slots : StartInterfaceStateMachine(n, k)
      BY <1>4
    <2>2. <<n, k>> \in Threads
      BY DEF Threads
    <2>3. Seen' = [Seen EXCEPT ![n].activeLink = TRUE]
      BY <1>2, <2>1 DEF StartInterfaceStateMachine
    <2>4. /\ Staged' = [Staged EXCEPT ![<<n, k>>] = Stage("START")]
          /\ Staged[<<n, k>>] = Stage("NONE")
      BY <1>1, <2>1, <2>2, MoveStaged DEF StartInterfaceStateMachine
    <2>5. Stage("START") = "START" /\ Stage("NONE") = "NONE"
      BY DEF Stage, Linked, Leased4
    <2>6. UNCHANGED <<wanEnable, upstream>>
      BY <2>1 DEF StartInterfaceStateMachine
    <2>7. \E q \in Slots : /\ Staged[<<n, q>>] = "NONE"
                           /\ Staged' = [Staged EXCEPT ![<<n, q>>] = "START"]
      BY <2>4, <2>5
    <2>8. Session!CreateThread(n)
      BY <2>7, Zenon DEF Session!CreateThread, Staged
    <2> QED BY <2>3, <2>6, <2>8, Zenon
            DEF Session!AnyPolicy, Seen, View, Level, Disabled
  <1> QED BY <1>3, <1>4 DEF Policy

\* The state machines implement WanSession: however leases, refreshes and
\* softwires drive a thread, it changes the status, the mark, the name and
\* the upstream flag of its interface only in the order the policies know.
THEOREM SessionsKept == Spec => KeepsSessions
  <1>1. Init => Session!SessionInit
    <2> SUFFICES ASSUME Init PROVE Session!SessionInit
      OBVIOUS
    <2>1. View(InitIface) = [phy |-> "DOWN", link |-> "DOWN", disabled |-> TRUE,
                             activeLink |-> FALSE, named |-> FALSE]
      <3>1. Disabled(InitIface.status) = TRUE /\ Level(InitIface.link) = "DOWN"
        BY DEF Disabled, Level, InitIface
      <3> QED BY <3>1, Zenon DEF View, InitIface
    <2>2. Seen = [n \in Ifaces |->
                    [phy |-> "DOWN", link |-> "DOWN", disabled |-> TRUE,
                     activeLink |-> FALSE, named |-> FALSE]]
      <3>1. \A n \in Ifaces : iface[n] = InitIface
        BY DEF Init
      <3> QED BY <2>1, <3>1, Zenon DEF Seen
    <2>3. Staged = [t \in Threads |-> "NONE"]
      BY DEF Init, Staged, Stage, Linked, Leased4
    <2> QED BY <2>2, <2>3, Zenon
            DEF Init, Session!SessionInit, Seen, Staged, View, Level, Disabled,
                Threads, Session!Threads
  <1>2. IndInv /\ [Next]_vars => [Session!SessionNext]_(Session!sessionVars)
    <2> SUFFICES ASSUME IndInv, [Next]_vars
                 PROVE  Session!SessionNext \/ UNCHANGED Session!sessionVars
      OBVIOUS
    <2>1. ASSUME NEW t \in Threads, Thread(t)
          PROVE  Session!SessionNext \/ UNCHANGED Session!sessionVars
      <3>1. Session!Thread(t) \/ UNCHANGED Session!sessionVars
        BY <2>1, TickKeepsSession, TransitionStartSeen DEF Thread, Session!Thread
      <3> QED BY <3>1 DEF Session!SessionNext, Threads, Session!Threads
    <2>2. ASSUME NEW n \in Ifaces, Managers(n) \/ Policy(n)
          PROVE  Session!SessionNext \/ UNCHANGED Session!sessionVars
      BY <2>2, ManagersKeepSession, PolicyKeepsSession DEF Session!SessionNext
    <2>3. CASE Ipv6PrefixClear \/ UNCHANGED vars
      BY <2>3 DEF Ipv6PrefixClear, vars, Session!sessionVars
    <2>4. CASE SetWanEnable
      <3>1. Session!SetWanEnable
        BY <2>4 DEF SetWanEnable, Session!SetWanEnable
      <3> QED BY <3>1 DEF Session!SessionNext
    <2> QED BY <2>1, <2>2, <2>3, <2>4 DEF Next
  <1> QED BY <1>1, <1>2, Invariance, PTL DEF Spec, KeepsSessions, Session!SessionSpec

=============================================================================
