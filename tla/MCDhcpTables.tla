---------------------------- MODULE MCDhcpTables ----------------------------
(* Both families of tables, by turns: they share no state, so that one stays *)
(* as it was initially while the other one changes.                          *)
EXTENDS Dhcpv6Table, Dhcpv4Table

\* The alias the agent writes is one the code generates itself.
MCAliases == {<<"SentOption", 2>>}
\* Cut to eight bits the tag is 1, also the number of an option.
MCTags == {257}

TablesInit == Dhcpv6Init /\ Dhcpv4Init
TablesNext == \/ Dhcpv6Next /\ UNCHANGED dhcpv4Vars
              \/ Dhcpv4Next /\ UNCHANGED dhcpv6Vars
TablesSpec == TablesInit /\ [][TablesNext]_<<dhcpv6Vars, dhcpv4Vars>>

Fresh4 == clients4 = WanMgr_Dhcpv4BackendGetDhcpv4Info /\ maxClient4 = 1
          /\ restarts4 = 0 /\ tx4 = Quiet /\ renewed = {}
Fresh6 == registry.max = 0 /\ restarts = 0 /\ tx = Quiet /\ ClientNumbers = {1}
          /\ clients[1].settings = Default /\ clients[1].alias = None
          /\ OptionNumbers(1) = {} /\ registry.clients = Empty
          /\ own.enabled = dhcp.running

\* A transaction touches two objects only before the restart and while one more
\* entry was numbered.  With two more the settings are no longer varied, and
\* client 1 keeps its alias when both are its options.
Small ==
  /\ Fresh4 \/ Fresh6
  /\ Cardinality(tx4.objects) <= 1 \/ (GivenV4 < MaxNumber /\ restarts4 = 0)
  /\ Cardinality(tx.objects) <= 1 \/ (GivenV6 < MaxNumber /\ restarts = 0)
  /\ GivenV6 = MaxNumber =>
    /\ own.settings = Default /\ dhcp.conf = Default
    /\ \A i \in ClientNumbers : clients[i].settings = Default
    /\ maxClient = 1 => \A i \in ClientNumbers : clients[i].alias = None
=============================================================================
