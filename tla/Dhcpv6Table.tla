---------------------------- MODULE Dhcpv6Table ----------------------------
(* The TR-181 tables Device.DHCPv6.Client.{i} and its SentOption.{k}: what  *)
(* the data model agent adds, sets, validates, commits and rolls back, the  *)
(* back end that keeps client 1 and its options in syscfg, the registry     *)
(* that keeps what is not yet committed, and a restart of the process.      *)
(*                                                                          *)
(* A table is a function from instance numbers to entries; an instance      *)
(* number names the entry's handle.  RequestedOptions, the T1 and T2 timers *)
(* and the three request flags are one value of Settings; Interface and an  *)
(* option's Value are left out: they travel with the fields that are kept.  *)
EXTENDS DmlTable, Sequences, Functions, Places

CONSTANTS Settings, Default, \* client settings, and those of a fresh client
          BadTimers          \* settings with T1 greater than T2

ASSUME SettingsAssumption == Default \in Settings /\ BadTimers \subseteq Settings

VARIABLES clients,        \* ClientList
          maxClient,      \* maxInstanceOfClient
          aliasOfClient,  \* AliasOfClient: one saved alias for the whole table
          own,            \* g_dhcpv6_client.Cfg
          sent,           \* g_sent_options
          syscfg,         \* what syscfg holds of the client and its options
          registry,       \* the DHCPv6 folder of the registry
          dhcp,           \* the DHCPv6 client process and the files it reads
          tx,             \* the agent's transaction
          restarts

dhcpv6Vars == <<clients, maxClient, aliasOfClient, own, sent, syscfg, registry,
                dhcp, tx, restarts>>

ClientNumbers == DOMAIN clients
OptionNumbers(i) == DOMAIN clients[i].options

CfgOf(c) == [alias |-> c.alias, enabled |-> c.enabled, settings |-> c.settings]
SetCfg(c, cfg) == [c EXCEPT !.alias = cfg.alias, !.enabled = cfg.enabled,
                            !.settings = cfg.settings]

Entry(cfg, isNew) ==
  [alias |-> cfg.alias, enabled |-> cfg.enabled, settings |-> cfg.settings,
   isNew |-> isNew, options |-> Empty, maxSent |-> 0,
   aliasOfSent |-> None]

(***************************************************************************)
(* Persistence.                                                            *)
(***************************************************************************)
\* A committed client is skipped, unless it has or had options.
Saved(c) == c.isNew \/ DOMAIN c.options # {} \/ c.maxSent # 0

SavedOptions(c) ==
  LET kept == {k \in DOMAIN c.options : c.options[k].isNew}
  IN  [maxSent |-> IF DOMAIN c.options = {} THEN 0 ELSE c.maxSent,
       options |-> [k \in kept |-> c.options[k].alias]]

Register(cs, max) ==
  [max |-> max,
   clients |-> [i \in {j \in DOMAIN cs : Saved(cs[j])} |->
                  [alias |-> cs[i].alias, isNew |-> cs[i].isNew,
                   sent |-> SavedOptions(cs[i])]]]

RegisteredOptions(s) == [k \in DOMAIN s.options |-> Option(s.options[k], TRUE)]

Registered(reg) ==
  [i \in DOMAIN reg.clients |->
     LET r == reg.clients[i]
     IN  [Entry([alias |-> r.alias, enabled |-> FALSE, settings |-> Default],
                r.isNew)
          EXCEPT !.options = RegisteredOptions(r.sent),
                 !.maxSent = r.sent.maxSent]]

\* The tag is read back from the key that holds the instance number.
GetSentOption(o) ==
  [number |-> o.number, alias |-> o.alias, enabled |-> o.enabled,
   tag |-> o.number]

\* Mutant: the registry's entry wins over the back end's.
RegistryWins(c, opts) ==
  LET numbers == {opts[j].number : j \in DOMAIN opts}
      Loaded(k) == CHOOSE j \in DOMAIN opts : opts[j].number = k
      Value(k) == [alias |-> opts[Loaded(k)].alias,
                   enabled |-> opts[Loaded(k)].enabled,
                   tag |-> opts[Loaded(k)].tag, isNew |-> FALSE]
  IN  [c EXCEPT !.options = [k \in DOMAIN c.options \union numbers |->
                               IF k \in DOMAIN c.options THEN c.options[k] ELSE Value(k)],
                !.maxSent = Highest(c.maxSent, numbers)]

\* Mutant: the options of the back end do not count.
CountsRegistryOnly(c, opts) ==
  LET numbers == {opts[j].number : j \in DOMAIN opts}
      Loaded(k) == CHOOSE j \in DOMAIN opts : opts[j].number = k
      Value(k) == [alias |-> opts[Loaded(k)].alias,
                   enabled |-> opts[Loaded(k)].enabled,
                   tag |-> opts[Loaded(k)].tag, isNew |-> FALSE]
  IN  [c EXCEPT !.options = [k \in DOMAIN c.options \union numbers |->
                               IF k \in numbers THEN Value(k) ELSE c.options[k]]]

LoadOptions(c, opts) ==
  LET numbers == {opts[j].number : j \in DOMAIN opts}
      Loaded(k) == CHOOSE j \in DOMAIN opts : opts[j].number = k
      Value(k) == [alias |-> opts[Loaded(k)].alias,
                   enabled |-> opts[Loaded(k)].enabled,
                   tag |-> opts[Loaded(k)].tag, isNew |-> FALSE]
  IN  [c EXCEPT !.options = [k \in DOMAIN c.options \union numbers |->
                               IF k \in numbers THEN Value(k) ELSE c.options[k]],
                !.maxSent = Highest(c.maxSent, numbers)]

LoadClient(cs, cfg, opts) ==
  LET kept == IF 1 \in DOMAIN cs
              THEN [SetCfg(cs[1], cfg) EXCEPT !.isNew = FALSE]
              ELSE Entry(cfg, FALSE)
  IN  With(cs, 1, LoadOptions(kept, opts))

OptionFile(opts) ==
  ElementsAt([j \in DOMAIN opts |-> opts[j].tag], {j \in DOMAIN opts : opts[j].enabled})

\* Start the process on what the registry and syscfg hold: the folder first,
\* then the back end over it.
WanMgr_Dhcpv6Initialize(reg, sys) ==
  LET opts == [j \in DOMAIN sys.options |-> GetSentOption(sys.options[j])]
  IN  /\ own' = sys.client
      /\ sent' = opts
      /\ clients' = LoadClient(Registered(reg), sys.client, opts)
      /\ maxClient' = Highest(reg.max, {1})
      /\ aliasOfClient' = None
      /\ dhcp' = [dhcp EXCEPT
                    !.conf = IF sys.client.enabled THEN sys.client.settings ELSE @,
                    !.options = IF opts = <<>> THEN @ ELSE OptionFile(opts)]
      /\ tx' = Quiet

Dhcpv6Init ==
  \E on \in BOOLEAN :
    LET cfg == [alias |-> None, enabled |-> on, settings |-> Default] IN
    /\ own = cfg
    /\ sent = <<>>
    /\ syscfg = [client |-> cfg, options |-> <<>>]
    /\ registry = [max |-> 0, clients |-> Empty]
    /\ clients = [i \in {1} |-> Entry(cfg, FALSE)]
    /\ maxClient = 1
    /\ aliasOfClient = None
    /\ dhcp = [running |-> on, conf |-> Default, options |-> <<>>]
    /\ tx = Quiet
    /\ restarts = 0

(***************************************************************************)
(* The functions the agent calls.                                          *)
(***************************************************************************)
TheClient(i) == [client |-> i, option |-> 0]
TheOption(i, k) == [client |-> i, option |-> k]

IdleV6 == tx.phase = "idle"

Touch(o) == CanTouch(tx, o) /\ tx' = Touched(tx, o)
Finish(o) == o \in tx.objects /\ tx' = Finished(tx, o)

GivenV6 ==
  LET inTables == FoldFunction(+, 0, [i \in ClientNumbers |-> clients[i].maxSent])
  IN  maxClient + Highest(Len(sent), {inTables})

Save == registry' = Register(clients', maxClient')

Client3_AddEntry ==
  /\ IdleV6 /\ GivenV6 < MaxNumber
  /\ maxClient' = maxClient + 1
  /\ clients' = With(clients, maxClient',
                     Entry([alias |-> <<"Client", maxClient'>>,
                            enabled |-> FALSE, settings |-> Default], TRUE))
  /\ Save
  /\ UNCHANGED <<aliasOfClient, own, sent, syscfg, dhcp, tx, restarts>>

\* The back end agrees to every deletion and forgets nothing of its own.
Client3_DelEntry(i) ==
  /\ IdleV6
  /\ clients' = Without(clients, i)
  /\ UNCHANGED maxClient
  /\ Save
  /\ UNCHANGED <<aliasOfClient, own, sent, syscfg, dhcp, tx, restarts>>

Client3_SetParamBoolValue(i, b) ==
  /\ Touch(TheClient(i))
  /\ clients' = [clients EXCEPT ![i].enabled = b]
  /\ UNCHANGED <<maxClient, aliasOfClient, own, sent, syscfg, registry, dhcp, restarts>>

Client3_SetParamIntValue(i, s) ==
  /\ Touch(TheClient(i))
  /\ clients' = [clients EXCEPT ![i].settings = s]
  /\ UNCHANGED <<maxClient, aliasOfClient, own, sent, syscfg, registry, dhcp, restarts>>

Client3_SetParamStringValue(i, a) ==
  /\ Touch(TheClient(i))
  /\ aliasOfClient' = clients[i].alias
  /\ clients' = [clients EXCEPT ![i].alias = a]
  /\ UNCHANGED <<maxClient, own, sent, syscfg, registry, dhcp, restarts>>

Client3_Validate(i) ==
  /\ aliasOfClient # None =>
       \A j \in ClientNumbers \ {i} : clients[j].alias # clients[i].alias
  /\ clients[i].enabled => clients[i].settings \notin BadTimers

StartClient(settings) == [dhcp EXCEPT !.running = TRUE, !.conf = settings]
StopClient == [dhcp EXCEPT !.running = FALSE]

\* Mutant: changed settings do not restart the client.
StoresWithoutRestart(cfg) ==
  /\ syscfg' = [syscfg EXCEPT !.client = cfg]
  /\ own' = cfg
  /\ dhcp' = IF cfg.enabled = own.enabled THEN dhcp
             ELSE IF cfg.enabled THEN StartClient(cfg.settings)
             ELSE StopClient

\* WanMgr_DmlDhcpv6cSetCfg for client 1: write what changed, start or stop the
\* DHCPv6 client when more than the alias did.
StoreCfg(cfg) ==
  /\ syscfg' = [syscfg EXCEPT !.client = cfg]
  /\ own' = cfg
  /\ dhcp' = IF cfg.enabled = own.enabled /\ cfg.settings = own.settings THEN dhcp
             ELSE IF cfg.enabled THEN StartClient(cfg.settings)
             ELSE IF own.enabled THEN StopClient ELSE dhcp

Client3_Commit(i) ==
  /\ tx.phase = "commit" /\ Finish(TheClient(i))
  /\ aliasOfClient' = None
  /\ \/ /\ clients[i].isNew
        /\ clients' = [clients EXCEPT ![i].isNew = FALSE]
        /\ UNCHANGED maxClient
        /\ Save
        /\ UNCHANGED <<own, syscfg, dhcp>>
     \/ /\ ~clients[i].isNew /\ i = 1
        /\ StoreCfg(CfgOf(clients[1]))
        /\ UNCHANGED <<clients, maxClient, registry>>
     \/ /\ ~clients[i].isNew /\ i # 1   \* refused, and not read back either
        /\ UNCHANGED <<clients, maxClient, registry, own, syscfg, dhcp>>
  /\ UNCHANGED <<sent, restarts>>

\* Mutant: only the alias is taken back.
RollsAliasBackOnly(i) ==
  /\ tx.phase = "rollback" /\ Finish(TheClient(i))
  /\ clients' = [clients EXCEPT ![i].alias =
                   IF aliasOfClient # None THEN aliasOfClient ELSE @]
  /\ aliasOfClient' = None
  /\ UNCHANGED <<maxClient, own, sent, syscfg, registry, dhcp, restarts>>

Client3_Rollback(i) ==
  /\ tx.phase = "rollback" /\ Finish(TheClient(i))
  /\ LET alias == IF aliasOfClient # None THEN aliasOfClient ELSE clients[i].alias
         named == [clients[i] EXCEPT !.alias = alias]
     IN  clients' = [clients EXCEPT ![i] =
           IF named.isNew THEN [named EXCEPT !.enabled = FALSE]
           ELSE IF i = 1 THEN SetCfg(named, own) ELSE named]
  /\ aliasOfClient' = None
  /\ UNCHANGED <<maxClient, own, sent, syscfg, registry, dhcp, restarts>>

SentOption1_AddEntry(i) ==
  /\ IdleV6 /\ GivenV6 < MaxNumber
  /\ LET k == clients[i].maxSent + 1
     IN  clients' = [clients EXCEPT ![i].maxSent = k,
                       ![i].options = With(@, k, Option(<<"SentOption", k>>, TRUE))]
  /\ UNCHANGED maxClient
  /\ Save
  /\ UNCHANGED <<aliasOfClient, own, sent, syscfg, dhcp, tx, restarts>>

Position(k) == {j \in DOMAIN sent : sent[j].number = k}

SendOptions(opts) == dhcp' = [dhcp EXCEPT !.running = TRUE, !.options = OptionFile(opts)]

WanMgr_DmlDhcpv6cDelSentOption(j) ==
  LET Cut(s) == [n \in 1 .. Len(s) - 1 |-> IF n < j THEN s[n] ELSE s[n + 1]]
  IN  /\ sent' = Cut(sent)
      /\ syscfg' = [syscfg EXCEPT !.options = Cut(@)]
      /\ IF sent[j].enabled THEN SendOptions(sent') ELSE UNCHANGED dhcp

\* A committed option goes when the back end has it; of client 1 only.
SentOption1_DelEntry(i, k) ==
  /\ IdleV6
  /\ \/ clients[i].options[k].isNew /\ UNCHANGED <<sent, syscfg, dhcp>>
     \/ /\ ~clients[i].options[k].isNew /\ i = 1
        /\ \E j \in Position(k) : WanMgr_DmlDhcpv6cDelSentOption(j)
  /\ clients' = [clients EXCEPT ![i].options = Without(@, k)]
  /\ UNCHANGED maxClient
  /\ Save
  /\ UNCHANGED <<aliasOfClient, own, tx, restarts>>

SentOption1_SetParamBoolValue(i, k, b) ==
  /\ Touch(TheOption(i, k))
  /\ clients' = [clients EXCEPT ![i].options[k].enabled = b]
  /\ UNCHANGED <<maxClient, aliasOfClient, own, sent, syscfg, registry, dhcp, restarts>>

\* The tag is cut to eight bits.
SentOption1_SetParamUlongValue(i, k, t) ==
  /\ Touch(TheOption(i, k))
  /\ clients' = [clients EXCEPT ![i].options[k].tag = t % 256]
  /\ UNCHANGED <<maxClient, aliasOfClient, own, sent, syscfg, registry, dhcp, restarts>>

SentOption1_SetParamStringValue(i, k, a) ==
  /\ Touch(TheOption(i, k))
  /\ clients' = [clients EXCEPT ![i].aliasOfSent = clients[i].options[k].alias,
                                ![i].options[k].alias = a]
  /\ UNCHANGED <<maxClient, aliasOfClient, own, sent, syscfg, registry, dhcp, restarts>>

\* Mutant: only aliases are compared.
ComparesAliasesOnly(i, k) ==
  /\ ~clients[i].isNew
  /\ \A m \in OptionNumbers(i) \ {k} :
       clients[i].options[m].alias # clients[i].options[k].alias

SentOption1_Validate(i, k) ==
  LET o == clients[i].options[k] IN
  /\ ~clients[i].isNew
  /\ \A m \in OptionNumbers(i) \ {k} :
       LET other == clients[i].options[m]
       IN  /\ other.alias # o.alias
           /\ ~(o.enabled /\ other.enabled /\ o.tag = other.tag)

Numbered(k, o) == [number |-> k, alias |-> o.alias, enabled |-> o.enabled, tag |-> o.tag]
Stored(o) == [number |-> o.number, alias |-> o.alias, enabled |-> o.enabled]

AddedOption(o) == [syscfg EXCEPT !.options = Append(@, Stored(o))]

WanMgr_DmlDhcpv6cAddSentOption(o) ==
  /\ sent' = Append(sent, o)
  /\ syscfg' = AddedOption(o)
  /\ IF o.enabled THEN SendOptions(sent') ELSE UNCHANGED dhcp

\* Mutant: the change is not written to syscfg.
SetsInMemoryOnly(o) ==
  \/ /\ Position(o.number) = {} /\ UNCHANGED <<sent, syscfg, dhcp>>
  \/ \E j \in Position(o.number) :
       /\ sent' = [sent EXCEPT ![j] = o]
       /\ UNCHANGED syscfg
       /\ IF o.enabled # sent[j].enabled \/ o.tag # sent[j].tag
          THEN SendOptions(sent') ELSE UNCHANGED dhcp

WanMgr_DmlDhcpv6cSetSentOption(o) ==
  \/ /\ Position(o.number) = {} /\ UNCHANGED <<sent, syscfg, dhcp>>
  \/ \E j \in Position(o.number) :
       /\ sent' = [sent EXCEPT ![j] = o]
       /\ syscfg' = [syscfg EXCEPT !.options[j] = Stored(o)]
       /\ IF o.enabled # sent[j].enabled \/ o.tag # sent[j].tag
          THEN SendOptions(sent') ELSE UNCHANGED dhcp

\* What the table keeps of a new option whose commit is refused.
Refused(c, k) ==
  [c.options[k] EXCEPT !.enabled = FALSE, !.tag = 0,
     !.alias = IF c.aliasOfSent # None THEN c.aliasOfSent ELSE @]

SentOption1_Commit(i, k) ==
  LET o == clients[i].options[k]
      Forget(c) == [c EXCEPT !.aliasOfSent = None]
  IN
  /\ tx.phase = "commit" /\ Finish(TheOption(i, k))
  /\ \/ /\ o.isNew /\ i = 1
        /\ WanMgr_DmlDhcpv6cAddSentOption(Numbered(k, o))
        /\ clients' = [clients EXCEPT ![i] = [Forget(@) EXCEPT !.options[k].isNew = FALSE]]
        /\ UNCHANGED maxClient
        /\ Save
     \/ /\ o.isNew /\ i # 1
        /\ clients' = [clients EXCEPT ![i] =
                         [Forget(@) EXCEPT !.options[k] = Refused(clients[i], k)]]
        /\ UNCHANGED <<maxClient, registry, sent, syscfg, dhcp>>
     \/ /\ ~o.isNew
        /\ WanMgr_DmlDhcpv6cSetSentOption(Numbered(k, o))
        /\ clients' = [clients EXCEPT ![i] = Forget(@)]
        /\ UNCHANGED <<maxClient, registry>>
  /\ UNCHANGED <<aliasOfClient, own, restarts>>

SentOption1_Rollback(i, k) ==
  /\ tx.phase = "rollback" /\ Finish(TheOption(i, k))
  /\ LET c == clients[i]
         alias == IF c.aliasOfSent # None THEN c.aliasOfSent ELSE c.options[k].alias
         Back(j) == [alias |-> sent[j].alias, enabled |-> sent[j].enabled,
                     tag |-> sent[j].tag, isNew |-> FALSE]
         old == IF c.options[k].isNew THEN Option(alias, TRUE)
                ELSE IF Position(k) # {} THEN Back(CHOOSE j \in Position(k) : TRUE)
                ELSE [c.options[k] EXCEPT !.alias = alias]
     IN  clients' = [clients EXCEPT ![i].aliasOfSent = None, ![i].options[k] = old]
  /\ UNCHANGED <<maxClient, aliasOfClient, own, sent, syscfg, registry, dhcp, restarts>>

IsValid(o) == IF o.option = 0 THEN Client3_Validate(o.client)
              ELSE SentOption1_Validate(o.client, o.option)

ValidateV6 ==
  /\ tx.phase = "set"
  /\ tx' = Decided(tx, \A o \in tx.objects : IsValid(o))
  /\ UNCHANGED <<clients, maxClient, aliasOfClient, own, sent, syscfg, registry,
                 dhcp, restarts>>

RestartV6 ==
  /\ restarts < MaxRestarts
  /\ restarts' = restarts + 1
  /\ WanMgr_Dhcpv6Initialize(registry, syscfg)
  /\ UNCHANGED <<syscfg, registry>>

\* The process dies after syscfg has the new option and before the registry
\* knows that it is committed.
CrashInCommit(k) ==
  /\ tx.phase = "commit" /\ TheOption(1, k) \in tx.objects
  /\ clients[1].options[k].isNew
  /\ restarts < MaxRestarts
  /\ restarts' = restarts + 1
  /\ syscfg' = AddedOption(Numbered(k, clients[1].options[k]))
  /\ WanMgr_Dhcpv6Initialize(registry, syscfg')
  /\ UNCHANGED registry

(***************************************************************************)
(* What the agent reads.                                                   *)
(***************************************************************************)
WanMgr_DmlDhcpv6cGetEnabled == dhcp.running
\* Enable: whether a client process runs, for every client of the table
Client3_GetParamBoolValue == WanMgr_DmlDhcpv6cGetEnabled
Client3_GetParamIntValue(i) == clients[i].settings
Client3_GetParamUlongValue(i) ==
  IF clients[i].enabled THEN "Enabled" ELSE "Disabled"
Client3_GetParamStringValue(i) == clients[i].alias

SentOption1_GetParamBoolValue(i, k) == clients[i].options[k].enabled
SentOption1_GetParamUlongValue(i, k) == clients[i].options[k].tag
SentOption1_GetParamStringValue(i, k) == clients[i].options[k].alias

ClientStep(i) ==
  \/ Client3_DelEntry(i) \/ SentOption1_AddEntry(i)
  \/ \E b \in BOOLEAN : Client3_SetParamBoolValue(i, b)
  \/ \E s \in Settings : Client3_SetParamIntValue(i, s)
  \/ \E a \in Aliases : Client3_SetParamStringValue(i, a)
  \/ Client3_Commit(i) \/ Client3_Rollback(i)

OptionStep(i, k) ==
  \/ SentOption1_DelEntry(i, k)
  \/ \E b \in BOOLEAN : SentOption1_SetParamBoolValue(i, k, b)
  \/ \E t \in Tags : SentOption1_SetParamUlongValue(i, k, t)
  \/ \E a \in Aliases : SentOption1_SetParamStringValue(i, k, a)
  \/ SentOption1_Commit(i, k) \/ SentOption1_Rollback(i, k)

Dhcpv6Next ==
  \/ Client3_AddEntry \/ ValidateV6 \/ RestartV6
  \/ \E i \in ClientNumbers :
       ClientStep(i) \/ \E k \in OptionNumbers(i) : OptionStep(i, k)
  \/ \E k \in (IF 1 \in ClientNumbers THEN OptionNumbers(1) ELSE {}) : CrashInCommit(k)

Dhcpv6Spec == Dhcpv6Init /\ [][Dhcpv6Next]_dhcpv6Vars

(***************************************************************************)
(* Properties.                                                             *)
(***************************************************************************)
CommittedOptions(i) == {k \in OptionNumbers(i) : ~clients[i].options[k].isNew}
Shown(i, k) == [number |-> k, alias |-> SentOption1_GetParamStringValue(i, k),
                enabled |-> SentOption1_GetParamBoolValue(i, k),
                tag |-> SentOption1_GetParamUlongValue(i, k)]

\* A number given to a new client or option is none that the table holds,
\* also after a restart has rebuilt the table from the registry and syscfg.
FreshV6Numbers ==
  /\ \A i \in ClientNumbers :
       i <= maxClient /\ \A k \in OptionNumbers(i) : k <= clients[i].maxSent
  /\ \A i \in DOMAIN registry.clients : i <= registry.max

\* The options client 1 shows as committed are the back end's, once each, and
\* outside a transaction with the values the back end sends; no other client
\* has a committed option.  It survives deletions, refusals, restarts and a
\* crash inside a commit.
OptionsAgree ==
  /\ \A i \in ClientNumbers \ {1} : CommittedOptions(i) = {}
  /\ \A j, m \in DOMAIN sent : sent[j].number = sent[m].number => j = m
  /\ 1 \in ClientNumbers =>
       /\ CommittedOptions(1) = {sent[j].number : j \in DOMAIN sent}
       /\ IdleV6 => \A j \in DOMAIN sent : Shown(1, sent[j].number) = sent[j]

\* Outside a transaction client 1 shows what syscfg keeps, whether the last
\* transaction was committed or rolled back; Enable alone may show more.
ShowsWhatIsKept ==
  /\ own = syscfg.client
  /\ IdleV6 /\ 1 \in ClientNumbers =>
       /\ Client3_GetParamStringValue(1) = own.alias
       /\ Client3_GetParamIntValue(1) = own.settings
       /\ Client3_GetParamUlongValue(1) = IF own.enabled THEN "Enabled" ELSE "Disabled"
       /\ own.enabled => Client3_GetParamBoolValue

\* An enabled client runs on the settings committed last, and the options the
\* process is told to send are the enabled ones of the table, in order.
RunsAsCommitted ==
  /\ own.enabled => dhcp.running /\ dhcp.conf = own.settings
  /\ dhcp.options = OptionFile(sent)

\* Outside a transaction no two enabled options the back end sends carry the
\* same tag, although it is cut to eight bits when set and replaced when read.
TagsDistinct ==
  IdleV6 => \A j, m \in DOMAIN sent :
    j # m /\ sent[j].enabled /\ sent[m].enabled => sent[j].tag # sent[m].tag

\* A restart brings back every committed option with its number, alias and
\* Enable flag, and client 1 as committed.
RestartKeeps ==
  [][restarts' # restarts =>
       /\ CfgOf(clients'[1]) = own
       /\ \A j \in DOMAIN sent :
            LET k == sent[j].number IN
            /\ k \in DOMAIN clients'[1].options
            /\ LET o == clients'[1].options[k] IN
               ~o.isNew /\ Stored(Numbered(k, o)) = Stored(sent[j])]_dhcpv6Vars
============================================================================
