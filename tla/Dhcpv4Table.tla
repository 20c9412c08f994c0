---------------------------- MODULE Dhcpv4Table ----------------------------
(* The TR-181 tables Device.DHCPv4.Client.{i} with SentOption.{k} and       *)
(* ReqOption.{k}.  The back end knows one client, eRouter, accepts neither  *)
(* a changed client nor an option, and the registry folder is never opened, *)
(* so that the tables keep what the agent writes in memory only.            *)
EXTENDS DmlTable

VARIABLES clients4,       \* ClientList
          maxClient4,     \* maxInstanceOfClient
          aliasOfClient4, \* AliasOfClient: one saved alias for the whole table
          renewed,        \* the clients whose lease a Renew has renewed
          tx4,            \* the agent's transaction
          restarts4

dhcpv4Vars == <<clients4, maxClient4, aliasOfClient4, renewed, tx4, restarts4>>

Kinds == {"sent", "req"}
Word(kind) == IF kind = "sent" THEN "SentOption" ELSE "ReqOption"

\* What WanMgr_DmlDhcpcGetCfg answers for any client, and the back end's
\* only entry.
Erouter == [alias |-> <<"eRouter", 1>>, enabled |-> TRUE, number |-> 1]

NoOptions == [max |-> 0, aliasOf |-> None, options |-> Empty]
Entry4(alias, enabled, n, isNew) ==
  [alias |-> alias, enabled |-> enabled, number |-> n, isNew |-> isNew,
   tables |-> [kind \in Kinds |-> NoOptions]]
GetCfg4(c) == [c EXCEPT !.alias = Erouter.alias, !.enabled = Erouter.enabled,
                        !.number = Erouter.number]

WanMgr_Dhcpv4BackendGetDhcpv4Info ==
  [i \in {1} |-> Entry4(Erouter.alias, Erouter.enabled, Erouter.number, FALSE)]

\* The folder handle is never set: the registry neither gives nor takes.
WanMgr_Dhcpv4RegGetDhcpv4Info == Empty

WanMgr_Dhcpv4Initialize ==
  /\ clients4' = WanMgr_Dhcpv4BackendGetDhcpv4Info
  /\ maxClient4' = 1
  /\ aliasOfClient4' = None
  /\ tx4' = Quiet

Dhcpv4Init ==
  /\ clients4 = WanMgr_Dhcpv4BackendGetDhcpv4Info
  /\ maxClient4 = 1
  /\ aliasOfClient4 = None
  /\ renewed = {}
  /\ tx4 = Quiet
  /\ restarts4 = 0

Client4(i) == [client |-> i, kind |-> "client", option |-> 0]
Option4(i, kind, k) == [client |-> i, kind |-> kind, option |-> k]
Idle4 == tx4.phase = "idle"
Touch4(o) == CanTouch(tx4, o) /\ tx4' = Touched(tx4, o)
Finish4(o) == o \in tx4.objects /\ tx4' = Finished(tx4, o)
Table(i, kind) == clients4[i].tables[kind]
OptionsOf(i, kind) == DOMAIN Table(i, kind).options

GivenV4 ==
  LET options == {o \in (DOMAIN clients4) \X Kinds \X Numbers :
                    o[3] <= Table(o[1], o[2]).max}
  IN  maxClient4 + Cardinality(options)

(***************************************************************************)
(* Clients.                                                                *)
(***************************************************************************)
Client_AddEntry ==
  /\ Idle4 /\ GivenV4 < MaxNumber
  /\ maxClient4' = maxClient4 + 1
  /\ clients4' = With(clients4, maxClient4',
                      Entry4(<<"Client", maxClient4'>>, FALSE, maxClient4', TRUE))
  /\ UNCHANGED <<aliasOfClient4, renewed, tx4, restarts4>>

\* The back end lets no committed client go.
Client_DelEntry(i) ==
  /\ Idle4 /\ clients4[i].isNew
  /\ clients4' = Without(clients4, i)
  /\ UNCHANGED <<maxClient4, aliasOfClient4, renewed, tx4, restarts4>>

SetEnable(i, b) ==
  /\ clients4' = [clients4 EXCEPT ![i].enabled = b]
  /\ UNCHANGED renewed

\* The lease is renewed when the number is 1; the set fails otherwise.
SetRenew(i) ==
  /\ renewed' = IF clients4[i].number = 1 THEN renewed \union {i} ELSE renewed
  /\ UNCHANGED clients4

Client_SetParamBoolValue(i) ==
  /\ Touch4(Client4(i))
  /\ (\E b \in BOOLEAN : SetEnable(i, b)) \/ SetRenew(i)
  /\ UNCHANGED <<maxClient4, aliasOfClient4, restarts4>>

Client_SetParamStringValue(i, a) ==
  /\ Touch4(Client4(i))
  /\ aliasOfClient4' = clients4[i].alias
  /\ clients4' = [clients4 EXCEPT ![i].alias = a]
  /\ UNCHANGED <<maxClient4, renewed, restarts4>>

Client_Validate(i) ==
  aliasOfClient4 # None =>
    \A j \in DOMAIN clients4 \ {i} : clients4[j].alias # clients4[i].alias

\* Of a committed client the back end refuses the change, and what it gives
\* back instead is eRouter's.
Client_Commit(i) ==
  /\ tx4.phase = "commit" /\ Finish4(Client4(i))
  /\ aliasOfClient4' = None
  /\ clients4' = [clients4 EXCEPT ![i] = IF @.isNew THEN [@ EXCEPT !.isNew = FALSE]
                                         ELSE GetCfg4(@)]
  /\ UNCHANGED <<maxClient4, renewed, restarts4>>

\* Mutant: what was set of a committed client stays.
RollsBackNewOnly(i) ==
  /\ tx4.phase = "rollback" /\ Finish4(Client4(i))
  /\ LET c == [clients4[i] EXCEPT !.alias = IF aliasOfClient4 # None
                                            THEN aliasOfClient4 ELSE @]
     IN  clients4' = [clients4 EXCEPT ![i] = IF c.isNew THEN [c EXCEPT !.enabled = FALSE]
                                             ELSE c]
  /\ aliasOfClient4' = None
  /\ UNCHANGED <<maxClient4, renewed, restarts4>>

Client_Rollback(i) ==
  /\ tx4.phase = "rollback" /\ Finish4(Client4(i))
  /\ LET c == [clients4[i] EXCEPT !.alias = IF aliasOfClient4 # None
                                            THEN aliasOfClient4 ELSE @]
     IN  clients4' = [clients4 EXCEPT ![i] = IF c.isNew THEN [c EXCEPT !.enabled = FALSE]
                                             ELSE GetCfg4(c)]
  /\ aliasOfClient4' = None
  /\ UNCHANGED <<maxClient4, renewed, restarts4>>

(***************************************************************************)
(* Options to send and options to request.                                 *)
(***************************************************************************)
PutTable(i, kind, t) == clients4' = [clients4 EXCEPT ![i].tables[kind] = t]
PutOption(i, kind, k, o) ==
  clients4' = [clients4 EXCEPT ![i].tables[kind].options[k] = o]

AddOption(i, kind) ==
  /\ Idle4
  /\ LET t == Table(i, kind)
         k == t.max + 1
     IN  /\ GivenV4 < MaxNumber
         /\ PutTable(i, kind, [t EXCEPT !.max = k,
                                 !.options = With(@, k, Option(<<Word(kind), k>>, TRUE))])
  /\ UNCHANGED <<maxClient4, aliasOfClient4, renewed, tx4, restarts4>>
SentOption_AddEntry(i) == AddOption(i, "sent")
ReqOption_AddEntry(i) == AddOption(i, "req")

\* The back end deletes no option: a committed one stays.
DelOption(i, kind, k) ==
  /\ Idle4 /\ Table(i, kind).options[k].isNew
  /\ PutTable(i, kind, [Table(i, kind) EXCEPT !.options = Without(@, k)])
  /\ UNCHANGED <<maxClient4, aliasOfClient4, renewed, tx4, restarts4>>
SentOption_DelEntry(i, k) == DelOption(i, "sent", k)
ReqOption_DelEntry(i, k) == DelOption(i, "req", k)

SetOption(i, kind, k, o) ==
  /\ Touch4(Option4(i, kind, k))
  /\ PutOption(i, kind, k, o)
  /\ UNCHANGED <<maxClient4, aliasOfClient4, renewed, restarts4>>
Of(i, kind, k) == Table(i, kind).options[k]
SentOption_SetParamBoolValue(i, k, b) ==
  SetOption(i, "sent", k, [Of(i, "sent", k) EXCEPT !.enabled = b])
ReqOption_SetParamBoolValue(i, k, b) ==
  SetOption(i, "req", k, [Of(i, "req", k) EXCEPT !.enabled = b])
\* The tag is cut to eight bits.
SentOption_SetParamUlongValue(i, k, t) ==
  SetOption(i, "sent", k, [Of(i, "sent", k) EXCEPT !.tag = t % 256])
ReqOption_SetParamUlongValue(i, k, t) ==
  SetOption(i, "req", k, [Of(i, "req", k) EXCEPT !.tag = t % 256])

NameOption(i, kind, k, a) ==
  /\ Touch4(Option4(i, kind, k))
  /\ LET t == Table(i, kind)
     IN  PutTable(i, kind, [t EXCEPT !.aliasOf = t.options[k].alias,
                                     !.options[k].alias = a])
  /\ UNCHANGED <<maxClient4, aliasOfClient4, renewed, restarts4>>
SentOption_SetParamStringValue(i, k, a) == NameOption(i, "sent", k, a)
ReqOption_SetParamStringValue(i, k, a) == NameOption(i, "req", k, a)

ValidOption(i, kind, k) ==
  /\ ~clients4[i].isNew
  /\ Table(i, kind).aliasOf # None =>
       \A m \in OptionsOf(i, kind) \ {k} : Of(i, kind, m).alias # Of(i, kind, k).alias
SentOption_Validate(i, k) == ValidOption(i, "sent", k)
ReqOption_Validate(i, k) == ValidOption(i, "req", k)

\* The back end refuses a new option and a changed one, and has none to give
\* back for a committed one.
Reset(t, k) ==
  [t EXCEPT !.aliasOf = None,
            !.options[k] =
              LET alias == IF t.aliasOf # None THEN t.aliasOf ELSE @.alias
              IN  IF @.isNew THEN Option(alias, TRUE) ELSE [@ EXCEPT !.alias = alias]]

CommitOption(i, kind, k) ==
  /\ tx4.phase = "commit" /\ Finish4(Option4(i, kind, k))
  /\ LET t == Table(i, kind)
     IN  PutTable(i, kind, IF Of(i, kind, k).isNew THEN Reset(t, k)
                           ELSE [t EXCEPT !.aliasOf = None])
  /\ UNCHANGED <<maxClient4, aliasOfClient4, renewed, restarts4>>
SentOption_Commit(i, k) == CommitOption(i, "sent", k)
ReqOption_Commit(i, k) == CommitOption(i, "req", k)

RollbackOption(i, kind, k) ==
  /\ tx4.phase = "rollback" /\ Finish4(Option4(i, kind, k))
  /\ PutTable(i, kind, Reset(Table(i, kind), k))
  /\ UNCHANGED <<maxClient4, aliasOfClient4, renewed, restarts4>>
SentOption_Rollback(i, k) == RollbackOption(i, "sent", k)
ReqOption_Rollback(i, k) == RollbackOption(i, "req", k)

(***************************************************************************)
(* What the agent reads.                                                   *)
(***************************************************************************)
Client_GetParamBoolValue(i) == clients4[i].enabled
Client_GetParamStringValue(i) == clients4[i].alias
SentOption_GetEntryStatus(i, k) == ~Of(i, "sent", k).isNew
SentOption_GetParamBoolValue(i, k) == Of(i, "sent", k).enabled
SentOption_GetParamUlongValue(i, k) == Of(i, "sent", k).tag
ReqOption_GetParamBoolValue(i, k) == Of(i, "req", k).enabled
ReqOption_GetParamUlongValue(i, k) == Of(i, "req", k).tag

Valid4(o) ==
  CASE o.kind = "client" -> Client_Validate(o.client)
    [] o.kind = "sent" -> SentOption_Validate(o.client, o.option)
    [] o.kind = "req" -> ReqOption_Validate(o.client, o.option)

ValidateV4 ==
  /\ tx4.phase = "set"
  /\ tx4' = Decided(tx4, \A o \in tx4.objects : Valid4(o))
  /\ UNCHANGED <<clients4, maxClient4, aliasOfClient4, renewed, restarts4>>

RestartV4 ==
  /\ restarts4 < MaxRestarts
  /\ restarts4' = restarts4 + 1
  /\ WanMgr_Dhcpv4Initialize
  /\ renewed' = {}

SentStep(i, k) ==
  \/ SentOption_DelEntry(i, k) \/ SentOption_Commit(i, k) \/ SentOption_Rollback(i, k)
  \/ \E b \in BOOLEAN : SentOption_SetParamBoolValue(i, k, b)
  \/ \E t \in Tags : SentOption_SetParamUlongValue(i, k, t)
  \/ \E a \in Aliases : SentOption_SetParamStringValue(i, k, a)

ReqStep(i, k) ==
  \/ ReqOption_DelEntry(i, k) \/ ReqOption_Commit(i, k) \/ ReqOption_Rollback(i, k)
  \/ \E b \in BOOLEAN : ReqOption_SetParamBoolValue(i, k, b)
  \/ \E t \in Tags : ReqOption_SetParamUlongValue(i, k, t)
  \/ \E a \in Aliases : ReqOption_SetParamStringValue(i, k, a)

ClientStep4(i) ==
  \/ Client_DelEntry(i) \/ Client_SetParamBoolValue(i)
  \/ \E a \in Aliases : Client_SetParamStringValue(i, a)
  \/ Client_Commit(i) \/ Client_Rollback(i)
  \/ SentOption_AddEntry(i) \/ ReqOption_AddEntry(i)

Dhcpv4Next ==
  \/ Client_AddEntry \/ ValidateV4 \/ RestartV4
  \/ \E i \in DOMAIN clients4 :
       \/ ClientStep4(i)
       \/ \E k \in OptionsOf(i, "sent") : SentStep(i, k)
       \/ \E k \in OptionsOf(i, "req") : ReqStep(i, k)

Dhcpv4Spec == Dhcpv4Init /\ [][Dhcpv4Next]_dhcpv4Vars

(***************************************************************************)
(* Properties.                                                             *)
(***************************************************************************)
\* Whatever a transaction set of the box's own client, outside a transaction it
\* shows what the back end says, and it can be neither deleted nor renumbered.
ErouterStands ==
  /\ 1 \in DOMAIN clients4 /\ clients4[1].number = 1 /\ ~clients4[1].isNew
  /\ Idle4 => /\ Client_GetParamStringValue(1) = Erouter.alias
              /\ Client_GetParamBoolValue(1)

============================================================================
