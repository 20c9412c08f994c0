----------------------------- MODULE WanIfTable -----------------------------
(* The TR-181 table Device.X_RDK_WanManager.CPEInterface.{i}: what the data  *)
(* model agent sets and reads, what a commit writes to the persistent store  *)
(* (PSM) and what a start of the process loads from it.                      *)
(*                                                                           *)
(* Every function takes the one mutex of the table, so a call is a step of   *)
(* its thread; only the setters of Type and Priority give the mutex back, to *)
(* look at the other interfaces one at a time, and take it again to write.   *)
(* A getter or setter is the set of the parameters it knows.  FEATURE_MAPT   *)
(* is off: the MAP-T setters write nothing and their getters show the start  *)
(* values.                                                                   *)
EXTENDS Integers, Sequences

CONSTANTS IfaceCount,  \* interfaces, numbered from 1
          Types, Priorities,
          Varied,      \* bound: the other parameters that are followed
          Pairs,       \* initial Type and Priority of each interface
          Threads,     \* threads of the agent that call at the same time
          NoThread,
          Blank,       \* a record that is missing or empty
          MaxIfRestarts \* bound: starts of the process after the first

Ifaces == 1 .. IfaceCount

ASSUME IfaceAssumption ==
  /\ IfaceCount \in Nat \ {0}
  /\ Types \subseteq Int /\ Priorities \subseteq Int
  /\ Pairs \in [Ifaces -> [Type : Types, Priority : Priorities]]
  /\ NoThread \notin Threads
  /\ Blank \notin Types \union Priorities \union {-1, 0, 1}

VARIABLES wanif,      \* interface -> parameter -> value
          psm,        \* interface -> parameter -> its record, or Blank
          call,       \* thread -> the set of a Type or Priority under way
          holder,     \* the thread that has kept the mutex after its call
          pppFlagSet, \* has a thread set one of the PPP flags?
          kept,       \* the values a commit has written, or was writing
          ifRestarts

wanIfVars == <<wanif, psm, call, holder, pppFlagSet, kept, ifRestarts>>

(***************************************************************************)
(* The parameters.                                                         *)
(***************************************************************************)
WanIf_SetParamStringValue == {"Name"}
WanIfCfg_SetParamBoolValue ==
  {"Enable", "Refresh", "ActiveLink", "EnableDSLite", "EnableIPoEHealthCheck",
   "EnableMAPT"}
SetTimeoutOrLink == {"SelectionTimeout", "LinkStatus"}
WanIfCfg_SetParamStringValue == {"Wan.Name"}
WanIfValidation_SetParamBoolValue ==
  {"Discovery-Offer", "Solicit-Advertise", "RS-RA", "PADI-PADO"}
WanIfPhy_SetParamStringValue == {"Phy.Path"}
WanIfPhy_SetParamUlongValue == {"Phy.Status"}
WanIfDynTrigger_SetParamUlongValue == {"DynamicTrigger.Delay"}
WanIfDynTrigger_SetParamBoolValue == {"DynamicTrigger.Enable"}
WanIfIpCfg_SetParamUlongValue == {"IPv4Status", "IPv6Status"}
WanIfIpCfg_SetParamStringValue == {"IP.Path"}
WanIfDSLite_SetParamUlongValue == {"DSLite.Status"}
WanIfDSLite_SetParamStringValue == {"DSLite.Path"}
\* IPCPStatus and IPv6CPStatus also start the handlers of InterfaceSM.
WanIfPPPCfg_SetParamUlongValue ==
  {"IPCPStatus", "IPv6CPStatus", "LCPStatus", "PPP.LinkStatus", "PPP.LinkType"}
WanIfPPPCfg_SetParamStringValue == {"PPP.Path"}
WanIfPPPCfg_SetParamBoolValue == {"PPP.Enable", "IPCPEnable", "IPv6CPEnable"}

Plain == UNION {WanIf_SetParamStringValue, WanIfCfg_SetParamBoolValue,
                SetTimeoutOrLink, WanIfCfg_SetParamStringValue,
                WanIfValidation_SetParamBoolValue,
                WanIfPhy_SetParamStringValue, WanIfPhy_SetParamUlongValue,
                WanIfDynTrigger_SetParamUlongValue,
                WanIfDynTrigger_SetParamBoolValue,
                WanIfIpCfg_SetParamUlongValue, WanIfIpCfg_SetParamStringValue,
                WanIfDSLite_SetParamUlongValue, WanIfDSLite_SetParamStringValue,
                WanIfPPPCfg_SetParamUlongValue, WanIfPPPCfg_SetParamStringValue}

WanIf_GetParamStringValue == {"Name", "DisplayName"}
WanIfCfg_GetParamIntValue == {"Priority"}
WanIfCfg_GetParamUlongValue ==
  {"SelectionTimeout", "Status", "Type", "Priority", "LinkStatus"}
WanIfCfg_GetParamBoolValue == WanIfCfg_SetParamBoolValue
WanIfCfg_GetParamStringValue == {"Wan.Name"}
WanIfValidation_GetParamBoolValue == WanIfValidation_SetParamBoolValue
WanIfPhy_GetParamStringValue == {"Phy.Path"}
WanIfPhy_GetParamUlongValue == {"Phy.Status"}
WanIfDynTrigger_GetParamUlongValue == {"DynamicTrigger.Delay"}
WanIfDynTrigger_GetParamBoolValue == {"DynamicTrigger.Enable"}
WanIfIpCfg_GetParamUlongValue == {"IPv4Status", "IPv6Status"}
WanIfIpCfg_GetParamStringValue == {"IP.Path"}
WanIfMapt_GetParamUlongValue == {"MAPTStatus"}
WanIfMapt_GetParamStringValue == {"MAP.Path"}
WanIfDSLite_GetParamUlongValue == {"DSLite.Status"}
WanIfDSLite_GetParamStringValue == {"DSLite.Path"}
WanIfPPPCfg_GetParamUlongValue == WanIfPPPCfg_SetParamUlongValue
WanIfPPPCfg_GetParamStringValue == {"PPP.Path"}
WanIfPPPCfg_GetParamBoolValue == WanIfPPPCfg_SetParamBoolValue

Readable == UNION {WanIf_GetParamStringValue, WanIfCfg_GetParamIntValue,
                   WanIfCfg_GetParamUlongValue, WanIfCfg_GetParamBoolValue,
                   WanIfCfg_GetParamStringValue,
                   WanIfValidation_GetParamBoolValue,
                   WanIfPhy_GetParamStringValue, WanIfPhy_GetParamUlongValue,
                   WanIfDynTrigger_GetParamUlongValue,
                   WanIfDynTrigger_GetParamBoolValue,
                   WanIfIpCfg_GetParamUlongValue, WanIfIpCfg_GetParamStringValue,
                   WanIfMapt_GetParamUlongValue, WanIfMapt_GetParamStringValue,
                   WanIfDSLite_GetParamUlongValue, WanIfDSLite_GetParamStringValue,
                   WanIfPPPCfg_GetParamUlongValue, WanIfPPPCfg_GetParamStringValue,
                   WanIfPPPCfg_GetParamBoolValue}

Params == {"Type", "Priority"} \union (Readable \intersect Varied)

\* 0 stands for FALSE, no name, a state of being down, and so on.
Bit == {0, 1}
Values(p) == CASE p = "Type" -> Types [] p = "Priority" -> Priorities
               [] OTHER -> Bit
WanMgr_IfaceData_Init ==
  [p \in Params |-> CASE p = "Type" -> 1 [] p = "Priority" -> -1 [] OTHER -> 0]

(***************************************************************************)
(* Persistence: the records in the order in which a commit writes them.    *)
(***************************************************************************)
\* Mutant: Priority, too, is formatted after it has been written.
EmptiesPriority == {"SelectionTimeout", "DynamicTrigger.Delay", "Priority"}

\* A parameter is written before its value has been formatted: a blank record.
Emptied == {"SelectionTimeout", "DynamicTrigger.Delay"}

write_Wan_Interface_ParametersFromPSM ==
  <<"Enable", "Type", "Priority", "SelectionTimeout", "DynamicTrigger.Enable",
    "EnableMAPT", "EnableDSLite", "EnableIPoEHealthCheck", "PPP.Enable",
    "PPP.LinkType", "IPCPEnable", "IPv6CPEnable", "Priority",
    "DynamicTrigger.Delay">>
write_Wan_Interface_Validation_ParametersToPSM ==
  <<"Discovery-Offer", "Solicit-Advertise", "RS-RA", "PADI-PADO">>

First(records, n) == {records[k] : k \in 1 .. n}
All(records) == First(records, Len(records))
Written(i, ps) ==
  [p \in Params |-> IF p \notin ps THEN psm[i][p]
                    ELSE IF p \in Emptied THEN Blank ELSE wanif[i][p]]

Persistent == Params \intersect
              (All(write_Wan_Interface_ParametersFromPSM)
               \union All(write_Wan_Interface_Validation_ParametersToPSM))
\* A record that is missing or blank leaves the value of a fresh interface;
\* the record of the name gives both names.
get_Wan_Interface_ParametersFromPSM(stored) ==
  [p \in Params |->
     LET record == CASE p \in Persistent \union {"Name", "DisplayName"} -> stored[p]
                     [] p = "Wan.Name" /\ "Name" \in Params -> stored["Name"]
                     [] OTHER -> Blank
     IN  IF record = Blank THEN WanMgr_IfaceData_Init[p] ELSE record]

WanMgr_WanIfaceConfInit(stored) ==
  [i \in Ifaces |-> get_Wan_Interface_ParametersFromPSM(stored[i])]

Idle == [iface |-> 0, param |-> "none", value |-> 0, other |-> 0, next |-> 0,
         met |-> FALSE]

WanIfInit ==
  /\ psm = [i \in Ifaces |->
              [p \in Params |-> IF p \in {"Type", "Priority"} THEN Pairs[i][p] ELSE 0]]
  /\ wanif = WanMgr_WanIfaceConfInit(psm)
  /\ call = [t \in Threads |-> Idle]
  /\ holder = NoThread
  /\ pppFlagSet = FALSE
  /\ kept = [i \in Ifaces |-> [p \in Params |-> {wanif[i][p]}]]
  /\ ifRestarts = 0

(***************************************************************************)
(* The agent's calls.                                                      *)
(***************************************************************************)
\* The mutex is recursive: the thread that holds it takes it again.
CanLock(t) == holder \in {NoThread, t}
CanCall(t) == CanLock(t) /\ call[t] = Idle

SetPlain(t, i, p, v) ==
  /\ CanCall(t)
  /\ wanif' = [wanif EXCEPT ![i][p] = v]
  /\ UNCHANGED <<psm, call, holder, pppFlagSet, kept, ifRestarts>>

\* The setter of the PPP flags returns without giving the mutex back.
SetPppFlag(t, i, p, v) ==
  /\ CanCall(t)
  /\ wanif' = [wanif EXCEPT ![i][p] = v]
  /\ holder' = t
  /\ pppFlagSet' = TRUE
  /\ UNCHANGED <<psm, call, kept, ifRestarts>>

\* The interface's other half of the pair is read before the mutex is given
\* back.
Other(p) == IF p = "Type" THEN "Priority" ELSE "Type"
BeginSet(t, i, p, v) ==
  /\ CanCall(t)
  /\ LET busy == {u \in Threads \ {t} : call[u] # Idle}
     IN  call' = [u \in Threads |->
           IF u = t THEN [iface |-> i, param |-> p, value |-> v,
                          other |-> wanif[i][Other(p)], next |-> 1,
                          met |-> busy # {}]
           ELSE IF u \in busy THEN [call[u] EXCEPT !.met = TRUE]
           ELSE call[u]]
  /\ UNCHANGED <<wanif, psm, holder, pppFlagSet, kept, ifRestarts>>

Taken(c) == /\ c.next # c.iface
            /\ wanif[c.next][c.param] = c.value
            /\ wanif[c.next][Other(c.param)] = c.other

\* Mutant: the last interface is not looked at.
SkipsTheLast(t) ==
  LET c == call[t] IN
  /\ c.next \in Ifaces /\ CanLock(t)
  /\ call' = [call EXCEPT ![t] = IF Taken(c) /\ c.next # IfaceCount THEN Idle
                                 ELSE [c EXCEPT !.next = @ + 1]]
  /\ UNCHANGED <<wanif, psm, holder, pppFlagSet, kept, ifRestarts>>

\* Mutant: the refusal keeps the mutex.
RefusesLocked(t) ==
  LET c == call[t] IN
  /\ c.next \in Ifaces /\ CanLock(t)
  /\ call' = [call EXCEPT ![t] = IF Taken(c) THEN Idle ELSE [c EXCEPT !.next = @ + 1]]
  /\ holder' = IF Taken(c) THEN t ELSE holder
  /\ UNCHANGED <<wanif, psm, pppFlagSet, kept, ifRestarts>>

\* The set is refused when another interface has the pair.
WanManager_CheckGivenPriorityExists(t) ==
  LET c == call[t] IN
  /\ c.next \in Ifaces /\ CanLock(t)
  /\ call' = [call EXCEPT ![t] = IF Taken(c) THEN Idle ELSE [c EXCEPT !.next = @ + 1]]
  /\ UNCHANGED <<wanif, psm, holder, pppFlagSet, kept, ifRestarts>>

WritePair(t) ==
  LET c == call[t] IN
  /\ c.next = IfaceCount + 1 /\ CanLock(t)
  /\ wanif' = [wanif EXCEPT ![c.iface][c.param] = c.value]
  /\ call' = [call EXCEPT ![t] = Idle]
  /\ UNCHANGED <<psm, holder, pppFlagSet, kept, ifRestarts>>

CommitRecords(t, i, records) ==
  /\ CanCall(t)
  /\ psm' = [psm EXCEPT ![i] = Written(i, All(records))]
  /\ kept' = [kept EXCEPT ![i] = [p \in Params |-> IF p \in All(records)
                                                   THEN {wanif[i][p]} ELSE @[p]]]
  /\ UNCHANGED <<wanif, call, holder, pppFlagSet, ifRestarts>>
\* Also the commit of the PPP parameters; that of the name, of Phy, of the
\* dynamic trigger, of IP and of DS-Lite writes nothing.
WanIfCfg_Commit(t, i) == CommitRecords(t, i, write_Wan_Interface_ParametersFromPSM)
WanIfValidation_Commit(t, i) ==
  CommitRecords(t, i, write_Wan_Interface_Validation_ParametersToPSM)

Start(stored) ==
  /\ ifRestarts < MaxIfRestarts
  /\ ifRestarts' = ifRestarts + 1
  /\ wanif' = WanMgr_WanIfaceConfInit(stored)
  /\ call' = [t \in Threads |-> Idle]
  /\ holder' = NoThread
  /\ pppFlagSet' = FALSE
Restart == Start(psm) /\ UNCHANGED <<psm, kept>>
\* The process ends after the first n records of a commit.
CrashInCommit(i, n) ==
  LET ps == First(write_Wan_Interface_ParametersFromPSM, n) IN
  /\ psm' = [psm EXCEPT ![i] = Written(i, ps)]
  /\ kept' = [kept EXCEPT ![i] = [p \in Params |-> IF p \in ps THEN @[p] \union {wanif[i][p]}
                                                   ELSE @[p]]]
  /\ Start(psm')

CallStep(t) == WanManager_CheckGivenPriorityExists(t) \/ WritePair(t)
Call(t, i) ==
  \/ \E p \in Plain \intersect Params, v \in Bit : SetPlain(t, i, p, v)
  \/ \E p \in WanIfPPPCfg_SetParamBoolValue \intersect Params, v \in Bit :
       SetPppFlag(t, i, p, v)
  \/ \E p \in {"Type", "Priority"} : \E v \in Values(p) : BeginSet(t, i, p, v)
  \/ WanIfCfg_Commit(t, i)
  \/ WanIfValidation_Commit(t, i)

WanIfNext ==
  \/ \E t \in Threads : CallStep(t) \/ \E i \in Ifaces : Call(t, i)
  \/ Restart
  \/ \E i \in Ifaces :
       \E n \in 1 .. Len(write_Wan_Interface_ParametersFromPSM) - 1 : CrashInCommit(i, n)

\* A thread of the agent that has begun a call goes on with it.
WanIfSpec == /\ WanIfInit /\ [][WanIfNext]_wanIfVars
             /\ \A t \in Threads : WF_wanIfVars(CallStep(t))

(***************************************************************************)
(* Properties.                                                             *)
(***************************************************************************)
\* A set of Type or Priority never gives two interfaces the same pair, between
\* which the policies could only choose by position, unless the calls of two
\* threads overlapped: the other interfaces are looked at without the mutex.
SamePair(i, j) == /\ wanif[i]["Type"] = wanif[j]["Type"]
                  /\ wanif[i]["Priority"] = wanif[j]["Priority"]
SetsKeepApart ==
  [][\A i, j \in Ifaces : i # j /\ ~SamePair(i, j) /\ SamePair(i, j)' =>
       \/ ifRestarts' # ifRestarts
       \/ \E t \in Threads : call[t].met]_wanIfVars

\* What a start of the process loads is what was last committed, parameter by
\* parameter, or was being committed when the process ended; but not the two
\* parameters whose records a commit empties.
CommittedComesBack ==
  [][ifRestarts' # ifRestarts =>
       \A i \in Ifaces : \A p \in Persistent \ {"SelectionTimeout", "DynamicTrigger.Delay"} :
         wanif'[i][p] \in kept'[i][p]]_wanIfVars

\* Every set of a Type or Priority ends: no refusal and no other setter leaves
\* the mutex locked, except the one of the PPP flags.
SetsEnd == \A t \in Threads : call[t] # Idle ~> (call[t] = Idle \/ pppFlagSet)
=============================================================================
