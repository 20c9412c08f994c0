------------------------------- MODULE Learned -------------------------------
(* What the data model shows of what the DHCP clients have learned.          *)
(*                                                                           *)
(* DHCPv4.Client.1: most getters fetch the whole state of the client anew,   *)
(* two of them trust what an earlier getter fetched.  DHCPv6.Client.1.Server *)
(* and .ReceivedOption: tables read from files that the client rewrites, and *)
(* kept for an interval.  No lock is taken: the agent's calls follow one     *)
(* another, and the clients and the clock go on between them.                *)
EXTENDS Integers, Sequences, Places

CONSTANTS Answers,  \* answers of servers to the DHCPv6 client
          Leases,   \* leases of the DHCPv4 client; 0 is none
          Interval  \* COSA_DML_DHCPV6_ACCESS_INTERVAL_*, in ticks

ASSUME LearnedAssumption == /\ Interval \in Nat \ {0}
                            /\ Leases \subseteq Nat \ {0}

VARIABLES client4,   \* the DHCPv4 client: has it a lease, which does it report?
          info,      \* pDhcpc->Info
          walk,      \* parameters of the object the agent has read
          answers4,  \* and what it was shown
          disturbed, \* did the lease change since the agent began?
          file,      \* table -> lines of its file
          writing,   \* table -> answer the DHCPv6 client is writing there
          table,     \* table -> entries kept
          sincePrevious, \* table -> ticks since PreviousVisitTime, up to Interval
          stale,     \* table -> ticks since the file held what is kept
          visit      \* table -> where the agent is

leaseVars == <<client4, info, walk, answers4, disturbed>>
fileVars == <<file, writing, table, sincePrevious, stale, visit>>
learnedVars == <<leaseVars, fileVars>>

(***************************************************************************)
(* The DHCPv4 client.                                                      *)
(***************************************************************************)
NoLease == [bound |-> 0, lease |-> 0]
\* Device.DHCPv4.Client.1, in the order in which the object is read.
WholeObject == <<"Status", "DHCPStatus", "IPAddress", "SubnetMask", "IPRouters",
                 "DNSServers", "LeaseTimeRemaining", "DHCPServer">>

WanMgr_DmlDhcpcGetInfo == client4
OfBound(i) == IF i.bound = 1 THEN i.lease ELSE 0
Answer(i, value) == [info |-> i, value |-> value]

\* Mutant: the state is shown as an earlier getter left it.
ShowsCachedStatus(p) ==
  LET i == IF p \in {"Status", "DHCPStatus"} \/ (p = "DHCPServer" /\ info.lease # 0)
           THEN info ELSE WanMgr_DmlDhcpcGetInfo
  IN  Answer(i, CASE p = "Status" -> 1
                  [] p = "DHCPStatus" -> i.bound
                  [] p = "DHCPServer" -> i.lease
                  [] OTHER -> OfBound(i))

\* The server is fetched only while none is known.
Client_GetParamUlongValue(p) ==
  LET i == IF p = "DHCPServer" /\ info.lease # 0 THEN info ELSE WanMgr_DmlDhcpcGetInfo
  IN  Answer(i, CASE p = "Status" -> 1
                  [] p = "DHCPStatus" -> i.bound
                  [] p = "DHCPServer" -> i.lease
                  [] OTHER -> OfBound(i))

Client_GetParamIntValue == Answer(WanMgr_DmlDhcpcGetInfo, WanMgr_DmlDhcpcGetInfo.lease)

\* The name servers are fetched only if the client had a lease when its state
\* was last fetched, and are then shown whether it has one or not.
Client_GetParamStringValue(p) ==
  IF p = "DNSServers"
  THEN IF info.bound = 1
       THEN Answer(WanMgr_DmlDhcpcGetInfo, WanMgr_DmlDhcpcGetInfo.lease)
       ELSE Answer(info, 0)
  ELSE Answer(WanMgr_DmlDhcpcGetInfo, OfBound(WanMgr_DmlDhcpcGetInfo))

Get(p) == CASE p \in {"IPRouters", "DNSServers"} -> Client_GetParamStringValue(p)
            [] p = "LeaseTimeRemaining" -> Client_GetParamIntValue
            [] OTHER -> Client_GetParamUlongValue(p)

\* A client that loses its lease may go on reporting the lost one.
LeaseChanges ==
  /\ client4' \in {[bound |-> 1, lease |-> n] : n \in Leases}
                  \union {NoLease, [client4 EXCEPT !.bound = 0]}
  /\ client4' # client4
  /\ disturbed' = (walk > 0)
  /\ UNCHANGED <<info, walk, answers4, fileVars>>

ReadNext ==
  LET next == (walk % Len(WholeObject)) + 1
      p == WholeObject[next]
  IN  /\ info' = Get(p).info
      /\ answers4' = [k \in DOMAIN answers4 |-> IF k < next THEN answers4[k]
                                               ELSE IF k = next THEN Get(p).value ELSE 0]
      /\ walk' = next
      /\ disturbed' = (disturbed /\ next > 1)
      /\ UNCHANGED <<client4, fileVars>>

\* The agent asks for one parameter only.
ReadOne(p) ==
  /\ info' = Get(p).info
  /\ UNCHANGED <<client4, walk, answers4, disturbed, fileVars>>

(***************************************************************************)
(* The tables read from files.                                             *)
(***************************************************************************)
Tables == {"Server", "ReceivedOption"}
\* A line carries its field of the answer; a line of no other kind is read.
Lines(t, n) ==
  IF t = "Server" THEN <<[kind |-> "addr", of |-> n], [kind |-> "duid", of |-> n]>>
  ELSE <<[kind |-> "option", of |-> n], [kind |-> "cut", of |-> n],
         [kind |-> "option", of |-> n]>>

OfKind(lines, k) == ElementsAt(lines, {j \in DOMAIN lines : lines[j].kind = k})
LastOf(lines) == lines[Len(lines)].of
\* One server, once its address and its DUID have both been read.
WanMgr_DmlDhcpv6cGetServerCfg(lines) ==
  LET addrs == OfKind(lines, "addr")
      duids == OfKind(lines, "duid")
  IN  IF addrs = <<>> \/ duids = <<>> THEN <<>>
      ELSE <<[SourceAddress |-> LastOf(addrs), DUID |-> LastOf(duids)]>>
WanMgr_DmlDhcpv6cGetReceivedOptionCfg(lines) ==
  [k \in 1 .. Len(OfKind(lines, "option")) |->
     [Value |-> OfKind(lines, "option")[k].of]]
Parse(t, lines) == IF t = "Server" THEN WanMgr_DmlDhcpv6cGetServerCfg(lines)
                   ELSE WanMgr_DmlDhcpv6cGetReceivedOptionCfg(lines)

\* The file is written anew with every answer, a line at a time.
Rewrite(t, n) ==
  /\ file' = [file EXCEPT ![t] = <<>>]
  /\ writing' = [writing EXCEPT ![t] = n]
  /\ UNCHANGED <<table, sincePrevious, stale, visit, leaseVars>>
WriteLine(t) ==
  /\ Len(file[t]) < Len(Lines(t, writing[t]))
  /\ file' = [file EXCEPT ![t] = Append(@, Lines(t, writing[t])[Len(@) + 1])]
  /\ UNCHANGED <<writing, table, sincePrevious, stale, visit, leaseVars>>

Tick ==
  /\ sincePrevious' = [t \in Tables |-> IF sincePrevious[t] < Interval
                                        THEN sincePrevious[t] + 1 ELSE Interval]
  /\ stale' = [t \in Tables |->
                 IF table[t] = Parse(t, file[t]) THEN 0
                 ELSE IF stale[t] < Interval THEN stale[t] + 1 ELSE Interval]
  /\ UNCHANGED <<file, writing, table, visit, leaseVars>>

\* Mutant: every visit is remembered, also one that reads no file.
StampsEveryVisit(t) ==
  /\ visit[t] = "out"
  /\ sincePrevious' = [sincePrevious EXCEPT ![t] = 0]
  /\ visit' = [visit EXCEPT ![t] = IF sincePrevious[t] < Interval THEN "read" ELSE "sync"]
  /\ UNCHANGED <<file, writing, table, stale, leaseVars>>

IsUpdated(t) ==
  /\ visit[t] = "out"
  /\ IF sincePrevious[t] < Interval
     THEN visit' = [visit EXCEPT ![t] = "read"] /\ UNCHANGED sincePrevious
     ELSE /\ visit' = [visit EXCEPT ![t] = "sync"]
          /\ sincePrevious' = [sincePrevious EXCEPT ![t] = 0]
  /\ UNCHANGED <<file, writing, table, stale, leaseVars>>

\* Mutant: the entries are added to those kept.
AddsToTheKept(t) ==
  /\ visit[t] = "sync"
  /\ table' = [table EXCEPT ![t] = IF Len(@) < 3 THEN @ \o Parse(t, file[t]) ELSE @]
  /\ stale' = [stale EXCEPT ![t] = 0]
  /\ visit' = [visit EXCEPT ![t] = "read"]
  /\ UNCHANGED <<file, writing, sincePrevious, leaseVars>>

Synchronize(t) ==
  /\ visit[t] = "sync"
  /\ table' = [table EXCEPT ![t] = Parse(t, file[t])]
  /\ stale' = [stale EXCEPT ![t] = 0]
  /\ visit' = [visit EXCEPT ![t] = "read"]
  /\ UNCHANGED <<file, writing, sincePrevious, leaseVars>>

Server2_IsUpdated == IsUpdated("Server")
Server2_Synchronize == Synchronize("Server")
ReceivedOption_IsUpdated == IsUpdated("ReceivedOption")
ReceivedOption_Synchronize == Synchronize("ReceivedOption")

\* The entries are counted and read one by one.
Leave(t) ==
  /\ visit[t] = "read"
  /\ visit' = [visit EXCEPT ![t] = "out"]
  /\ UNCHANGED <<file, writing, table, sincePrevious, stale, leaseVars>>

Server2_GetEntryCount == Len(table["Server"])
Server2_GetEntry(k) == table["Server"][k]
Server2_GetParamStringValue(k) == {Server2_GetEntry(k).SourceAddress, Server2_GetEntry(k).DUID}
ReceivedOption_GetEntryCount == Len(table["ReceivedOption"])
ReceivedOption_GetEntry(k) == table["ReceivedOption"][k]
ReceivedOption_GetParamStringValue(k) == {ReceivedOption_GetEntry(k).Value}

(***************************************************************************)
(* The specification.                                                      *)
(***************************************************************************)
LearnedInit ==
  /\ client4 = NoLease /\ info = NoLease
  /\ walk = 0 /\ answers4 = [k \in DOMAIN WholeObject |-> 0] /\ disturbed = FALSE
  /\ writing \in [Tables -> Answers]
  /\ file = [t \in Tables |-> <<>>]
  /\ table = [t \in Tables |-> <<>>]
  /\ sincePrevious \in [Tables -> {0, Interval}]
  /\ stale = [t \in Tables |-> 0]
  /\ visit = [t \in Tables |-> "out"]

LeaseNext == LeaseChanges \/ ReadNext \/ \E p \in {"DNSServers", "DHCPServer"} : ReadOne(p)
FileStep(t) == Tick \/ Leave(t) \/ WriteLine(t) \/ \E n \in Answers : Rewrite(t, n)
ServersNext == Server2_IsUpdated \/ Server2_Synchronize \/ FileStep("Server")
OptionsNext ==
  ReceivedOption_IsUpdated \/ ReceivedOption_Synchronize \/ FileStep("ReceivedOption")

LearnedNext == LeaseNext \/ ServersNext \/ OptionsNext
LearnedSpec == LearnedInit /\ [][LearnedNext]_learnedVars

(***************************************************************************)
(* Properties.                                                             *)
(***************************************************************************)
\* An agent that reads the whole object while the client keeps its lease is
\* shown that lease in every parameter, and no address, router or name server
\* without one, though two getters trust what another one fetched: the order
\* of the parameters matters.
WholeObjectAgrees ==
  walk = Len(WholeObject) /\ ~disturbed =>
    \A k \in DOMAIN WholeObject :
      CASE WholeObject[k] = "Status" -> answers4[k] = 1
        [] WholeObject[k] = "DHCPStatus" -> answers4[k] = client4.bound
        [] WholeObject[k] = "LeaseTimeRemaining" \/ WholeObject[k] = "DHCPServer" ->
             answers4[k] = client4.lease
        [] OTHER -> answers4[k] = OfBound(client4)

\* The server shown has the address and the DUID of one answer, and the options
\* shown are those of one answer, at whatever line of its file the DHCPv6
\* client was when the file was read.
ShowsOneAnswer ==
  /\ \E n \in Answers : \A k \in 1 .. Server2_GetEntryCount :
       Server2_GetParamStringValue(k) = {n}
  /\ \E n \in Answers : \A k \in 1 .. ReceivedOption_GetEntryCount :
       ReceivedOption_GetParamStringValue(k) = {n}

\* What a visit shows stood in the file less than an interval ago, however
\* often the agent comes.
ShowsNothingOlder ==
  [][\A t \in Tables : visit[t] # "read" /\ visit'[t] = "read" => stale'[t] < Interval]_learnedVars
=============================================================================
