-------------------------- MODULE DhcpTables_proofs --------------------------
(***************************************************************************)
(* Proofs about the TR-181 DHCPv6 and DHCPv4 tables: that numbers are not  *)
(* given twice, that the objects, syscfg and the DHCPv6 client process     *)
(* agree, also after a restart or a crash inside a commit, and that the    *)
(* box's own DHCPv4 client stands.                                         *)
(***************************************************************************)
EXTENDS Dhcpv6Table, Dhcpv4Table, LoopTheorems

-----------------------------------------------------------------------------
(***************************************************************************)
(* The transaction: idle exactly while it has no object.                   *)
(***************************************************************************)
TxOK(t) == /\ DOMAIN t = {"phase", "objects"} /\ t.phase \in Phases
           /\ t.phase = "idle" <=> t.objects = {}

LEMMA QuietOK == TxOK(Quiet) /\ Quiet.phase = "idle"
  BY DEF TxOK, Quiet, Phases

LEMMA TouchedOK ==
    ASSUME NEW t, NEW o
    PROVE  /\ TxOK(Touched(t, o)) /\ Touched(t, o).phase = "set"
           /\ Touched(t, o).objects = t.objects \union {o}
  <1>1. t.objects \union {o} # {}
    OBVIOUS
  <1> QED BY <1>1 DEF TxOK, Touched, Phases

LEMMA FinishedOK ==
    ASSUME NEW t, TxOK(t), NEW o \in t.objects
    PROVE  /\ TxOK(Finished(t, o))
           /\ Finished(t, o).objects = t.objects \ {o}
           /\ Finished(t, o).phase \in {"idle", t.phase}
  <1>1. t.phase # "idle"
    BY DEF TxOK
  <1>2. "idle" \in Phases
    BY DEF Phases
  <1> QED BY <1>1, <1>2 DEF TxOK, Finished

LEMMA DecidedOK ==
    ASSUME NEW t, TxOK(t), t.phase = "set", NEW valid
    PROVE  /\ TxOK(Decided(t, valid)) /\ Decided(t, valid).objects = t.objects
           /\ Decided(t, valid).phase = IF valid THEN "commit" ELSE "rollback"
  <1> DEFINE p == IF valid THEN "commit" ELSE "rollback"
  <1>1. p \in Phases /\ p # "idle"
    BY DEF Phases
  <1>2. Decided(t, valid) = [t EXCEPT !.phase = p]
    BY DEF Decided
  <1> HIDE DEF p
  <1>3. /\ DOMAIN Decided(t, valid) = {"phase", "objects"}
        /\ Decided(t, valid).phase = p /\ Decided(t, valid).objects = t.objects
    BY <1>2 DEF TxOK
  <1> QED BY <1>1, <1>3 DEF TxOK, p

-----------------------------------------------------------------------------
(***************************************************************************)
(* The box's own DHCPv4 client.  What a transaction sets of it is given up *)
(* by the call that takes it out of the transaction, commit or rollback.   *)
(***************************************************************************)
IsErouter(c) ==
    /\ DOMAIN c = {"alias", "enabled", "number", "isNew", "tables"}
    /\ c.number = 1 /\ c.isNew = FALSE
AsTold(c) == c.alias = Erouter.alias /\ c.enabled = Erouter.enabled

ErouterInv ==
    /\ maxClient4 \in Nat /\ maxClient4 >= 1
    /\ TxOK(tx4)
    /\ 1 \in DOMAIN clients4 /\ IsErouter(clients4[1])
    /\ Client4(1) \in tx4.objects \/ AsTold(clients4[1])

LEMMA ToldIsErouter ==
    ASSUME NEW c, IsErouter(c)
    PROVE  IsErouter(GetCfg4(c)) /\ AsTold(GetCfg4(c))
  BY DEF IsErouter, AsTold, GetCfg4, Erouter

LEMMA BackendGivesErouter ==
    LET cs == WanMgr_Dhcpv4BackendGetDhcpv4Info
    IN  1 \in DOMAIN cs /\ IsErouter(cs[1]) /\ AsTold(cs[1])
  BY DEF WanMgr_Dhcpv4BackendGetDhcpv4Info, Entry4, IsErouter, AsTold, Erouter

\* A step that leaves the client as it is, and in the transaction if it is there.
LEMMA OtherKeeps4 ==
    ASSUME ErouterInv, maxClient4' \in Nat, maxClient4' >= 1, TxOK(tx4)',
           1 \in DOMAIN clients4', IsErouter(clients4'[1]),
           clients4'[1].alias = clients4[1].alias,
           clients4'[1].enabled = clients4[1].enabled,
           Client4(1) \in tx4.objects => Client4(1) \in tx4'.objects
    PROVE  ErouterInv'
  <1>1. AsTold(clients4[1]) => AsTold(clients4'[1])
    BY DEF AsTold
  <1>2. Client4(1)' = Client4(1)
    BY DEF Client4
  <1> QED BY <1>1, <1>2 DEF ErouterInv, AsTold, IsErouter, TxOK

LEMMA TablePutKeeps ==
    ASSUME ErouterInv, NEW i \in DOMAIN clients4, NEW kind, NEW t,
           PutTable(i, kind, t), TxOK(tx4)',
           Client4(1) \in tx4.objects => Client4(1) \in tx4'.objects,
           UNCHANGED maxClient4
    PROVE  ErouterInv'
  <1>1. clients4' = [clients4 EXCEPT ![i].tables[kind] = t]
    BY DEF PutTable
  <1>2. /\ 1 \in DOMAIN clients4' /\ IsErouter(clients4'[1])
        /\ clients4'[1].alias = clients4[1].alias
        /\ clients4'[1].enabled = clients4[1].enabled
    BY <1>1 DEF ErouterInv, IsErouter
  <1> QED BY <1>2, OtherKeeps4 DEF ErouterInv

LEMMA ClientStep4Keeps ==
    ASSUME ErouterInv, NEW i \in DOMAIN clients4, ClientStep4(i)
    PROVE  ErouterInv'
  <1> DEFINE c == clients4[i]
  <1>1. /\ maxClient4 \in Nat /\ maxClient4 >= 1 /\ TxOK(tx4) /\ 1 \in DOMAIN clients4
        /\ IsErouter(clients4[1])
    BY DEF ErouterInv
  <1>2. CASE Client_DelEntry(i)
    <2>1. i # 1 /\ clients4' = Without(clients4, i) /\ UNCHANGED <<maxClient4, tx4>>
      BY <1>1, <1>2 DEF Client_DelEntry, IsErouter
    <2>2. 1 \in DOMAIN clients4' /\ clients4'[1] = clients4[1]
      BY <1>1, <2>1 DEF Without
    <2>3. TxOK(tx4)'
      BY <1>1, <2>1 DEF TxOK
    <2> QED BY <1>1, <2>1, <2>2, <2>3, OtherKeeps4
  <1>3. ASSUME NEW e, clients4' = [clients4 EXCEPT ![i] = e], i = 1 => IsErouter(e),
               tx4' = Touched(tx4, Client4(i)), UNCHANGED maxClient4
        PROVE  ErouterInv'
    <2>1. TxOK(tx4') /\ tx4'.objects = tx4.objects \union {Client4(i)}
      BY <1>3, TouchedOK
    <2>2. TxOK(tx4)'
      BY <2>1 DEF TxOK
    <2>3. CASE i = 1
      <3>1. Client4(1) \in tx4'.objects /\ Client4(1)' = Client4(1)
        BY <2>1, <2>3 DEF Client4
      <3>2. 1 \in DOMAIN clients4' /\ IsErouter(clients4'[1])
        BY <1>1, <1>3, <2>3
      <3> QED BY <1>1, <1>3, <2>2, <3>1, <3>2 DEF ErouterInv, IsErouter
    <2>4. CASE i # 1
      <3>1. 1 \in DOMAIN clients4' /\ clients4'[1] = clients4[1]
        BY <1>1, <1>3, <2>4
      <3> QED BY <1>1, <1>3, <2>1, <2>2, <3>1, OtherKeeps4
    <2> QED BY <2>3, <2>4
  <1>4. CASE Client_SetParamBoolValue(i)
    <2>1. tx4' = Touched(tx4, Client4(i)) /\ UNCHANGED maxClient4
      BY <1>4 DEF Client_SetParamBoolValue, Touch4
    <2>2. ASSUME NEW b \in BOOLEAN, SetEnable(i, b) PROVE ErouterInv'
      <3> DEFINE e == [c EXCEPT !.enabled = b]
      <3>1. clients4' = [clients4 EXCEPT ![i] = e]
        BY <2>2 DEF SetEnable
      <3>2. i = 1 => IsErouter(e)
        BY <1>1 DEF IsErouter
      <3> HIDE DEF e
      <3> QED BY <1>3, <2>1, <3>1, <3>2
    <2>3. CASE SetRenew(i)
      <3>1. TxOK(tx4') /\ tx4'.objects = tx4.objects \union {Client4(i)}
        BY <2>1, TouchedOK
      <3>2. TxOK(tx4)' /\ clients4' = clients4
        BY <2>3, <3>1 DEF TxOK, SetRenew
      <3> QED BY <1>1, <2>1, <3>1, <3>2, OtherKeeps4
    <2> QED BY <1>4, <2>2, <2>3 DEF Client_SetParamBoolValue
  <1>5. ASSUME NEW a \in Aliases, Client_SetParamStringValue(i, a) PROVE ErouterInv'
    <2> DEFINE e == [c EXCEPT !.alias = a]
    <2>1. tx4' = Touched(tx4, Client4(i)) /\ UNCHANGED maxClient4
          /\ clients4' = [clients4 EXCEPT ![i] = e]
      BY <1>5 DEF Client_SetParamStringValue, Touch4
    <2>2. i = 1 => IsErouter(e)
      BY <1>1 DEF IsErouter
    <2> HIDE DEF e
    <2> QED BY <1>3, <2>1, <2>2
  <1>6. ASSUME NEW e, clients4' = [clients4 EXCEPT ![i] = e],
               i = 1 => IsErouter(e) /\ AsTold(e),
               Client4(i) \in tx4.objects, tx4' = Finished(tx4, Client4(i)),
               UNCHANGED maxClient4
        PROVE  ErouterInv'
    <2>1. TxOK(tx4') /\ tx4'.objects = tx4.objects \ {Client4(i)}
      BY <1>1, <1>6, FinishedOK
    <2>2. TxOK(tx4)'
      BY <2>1 DEF TxOK
    <2>3. CASE i = 1
      <3>1. 1 \in DOMAIN clients4' /\ IsErouter(clients4'[1]) /\ AsTold(clients4'[1])
        BY <1>1, <1>6, <2>3
      <3> QED BY <1>1, <1>6, <2>2, <3>1 DEF ErouterInv, IsErouter, AsTold
    <2>4. CASE i # 1
      <3>1. 1 \in DOMAIN clients4' /\ clients4'[1] = clients4[1] /\ Client4(1) # Client4(i)
        BY <1>1, <1>6, <2>4 DEF Client4
      <3> QED BY <1>1, <1>6, <2>1, <2>2, <3>1, OtherKeeps4
    <2> QED BY <2>3, <2>4
  <1>7. CASE Client_Commit(i)
    <2> DEFINE e == IF c.isNew THEN [c EXCEPT !.isNew = FALSE] ELSE GetCfg4(c)
    <2>1. /\ clients4' = [clients4 EXCEPT ![i] = e] /\ Client4(i) \in tx4.objects
          /\ tx4' = Finished(tx4, Client4(i)) /\ UNCHANGED maxClient4
      BY <1>7 DEF Client_Commit, Finish4
    <2>2. i = 1 => IsErouter(e) /\ AsTold(e)
      <3>1. i = 1 => e = GetCfg4(clients4[1])
        BY <1>1 DEF IsErouter
      <3> QED BY <1>1, <3>1, ToldIsErouter
    <2> HIDE DEF e
    <2> QED BY <1>6, <2>1, <2>2
  <1>8. CASE Client_Rollback(i)
    <2> DEFINE alias == IF aliasOfClient4 # None THEN aliasOfClient4 ELSE c.alias
               d == [c EXCEPT !.alias = alias]
               e == IF d.isNew THEN [d EXCEPT !.enabled = FALSE] ELSE GetCfg4(d)
    <2>1. /\ clients4' = [clients4 EXCEPT ![i] = e] /\ Client4(i) \in tx4.objects
          /\ tx4' = Finished(tx4, Client4(i)) /\ UNCHANGED maxClient4
      BY <1>8 DEF Client_Rollback, Finish4
    <2>2. i = 1 => IsErouter(e) /\ AsTold(e)
      <3>1. i = 1 => IsErouter(d)
        <4> HIDE DEF alias
        <4> QED BY <1>1 DEF IsErouter
      <3> HIDE DEF d
      <3>2. i = 1 => e = GetCfg4(d)
        BY <3>1 DEF IsErouter
      <3> HIDE DEF e
      <3> QED BY <3>1, <3>2, ToldIsErouter
    <2> HIDE DEF e
    <2> QED BY <1>6, <2>1, <2>2
  <1>9. ASSUME NEW kind, AddOption(i, kind) PROVE ErouterInv'
    <2>1. (\E t : PutTable(i, kind, t)) /\ UNCHANGED <<maxClient4, tx4>>
      BY <1>9 DEF AddOption
    <2>2. TxOK(tx4)'
      BY <1>1, <2>1 DEF TxOK
    <2> QED BY <2>1, <2>2, TablePutKeeps
  <1> QED BY <1>2, <1>4, <1>5, <1>7, <1>8, <1>9
          DEF ClientStep4, SentOption_AddEntry, ReqOption_AddEntry

LEMMA OptionStep4Keeps ==
    ASSUME ErouterInv, NEW i \in DOMAIN clients4, NEW k,
           SentStep(i, k) \/ ReqStep(i, k)
    PROVE  ErouterInv'
  <1>1. \A kind \in Kinds : Client4(1) # Option4(i, kind, k)
    BY DEF Client4, Option4, Kinds
  <1>2. TxOK(tx4)
    BY DEF ErouterInv
  <1>3. ASSUME NEW kind \in Kinds, DelOption(i, kind, k) PROVE ErouterInv'
    <2>1. (\E t : PutTable(i, kind, t)) /\ UNCHANGED <<maxClient4, tx4>>
      BY <1>3 DEF DelOption
    <2>2. TxOK(tx4)'
      BY <1>2, <2>1 DEF TxOK
    <2> QED BY <2>1, <2>2, TablePutKeeps
  <1>4. ASSUME NEW kind \in Kinds, NEW t, PutTable(i, kind, t), UNCHANGED maxClient4,
               tx4' = Touched(tx4, Option4(i, kind, k))
        PROVE  ErouterInv'
    <2>1. TxOK(tx4') /\ tx4'.objects = tx4.objects \union {Option4(i, kind, k)}
      BY <1>4, TouchedOK
    <2>2. TxOK(tx4)'
      BY <2>1 DEF TxOK
    <2> QED BY <1>4, <2>1, <2>2, TablePutKeeps
  <1>5. ASSUME NEW kind \in Kinds, NEW t, PutTable(i, kind, t), UNCHANGED maxClient4,
               Finish4(Option4(i, kind, k))
        PROVE  ErouterInv'
    <2>1. TxOK(tx4') /\ tx4'.objects = tx4.objects \ {Option4(i, kind, k)}
      BY <1>2, <1>5, FinishedOK DEF Finish4
    <2>2. TxOK(tx4)'
      BY <2>1 DEF TxOK
    <2>3. Client4(1) \in tx4.objects => Client4(1) \in tx4'.objects
      BY <1>1, <2>1
    <2> QED BY <1>5, <2>2, <2>3, TablePutKeeps
  <1>6. ASSUME NEW kind \in Kinds, NEW o, SetOption(i, kind, k, o) PROVE ErouterInv'
    <2>1. /\ clients4' = [clients4 EXCEPT ![i].tables[kind].options[k] = o]
          /\ tx4' = Touched(tx4, Option4(i, kind, k)) /\ UNCHANGED maxClient4
      BY <1>6 DEF SetOption, PutOption, Touch4
    <2>2. PutTable(i, kind, [Table(i, kind) EXCEPT !.options[k] = o])
      BY <2>1 DEF PutTable, Table
    <2> QED BY <1>4, <2>1, <2>2
  <1>7. ASSUME NEW kind \in Kinds, NEW a, NameOption(i, kind, k, a) PROVE ErouterInv'
    <2>1. /\ \E t : PutTable(i, kind, t)
          /\ tx4' = Touched(tx4, Option4(i, kind, k)) /\ UNCHANGED maxClient4
      BY <1>7 DEF NameOption, Touch4
    <2> QED BY <1>4, <2>1
  <1>8. ASSUME NEW kind \in Kinds, CommitOption(i, kind, k) \/ RollbackOption(i, kind, k)
        PROVE  ErouterInv'
    <2>1. /\ \E t : PutTable(i, kind, t)
          /\ Finish4(Option4(i, kind, k)) /\ UNCHANGED maxClient4
      BY <1>8 DEF CommitOption, RollbackOption
    <2> QED BY <1>5, <2>1
  <1>9. "sent" \in Kinds /\ "req" \in Kinds
    BY DEF Kinds
  <1>10. CASE SentStep(i, k)
    BY <1>3, <1>6, <1>7, <1>8, <1>9, <1>10 DEF SentStep, SentOption_DelEntry,
       SentOption_Commit, SentOption_Rollback, SentOption_SetParamBoolValue,
       SentOption_SetParamUlongValue, SentOption_SetParamStringValue
  <1>11. CASE ReqStep(i, k)
    BY <1>3, <1>6, <1>7, <1>8, <1>9, <1>11 DEF ReqStep, ReqOption_DelEntry,
       ReqOption_Commit, ReqOption_Rollback, ReqOption_SetParamBoolValue,
       ReqOption_SetParamUlongValue, ReqOption_SetParamStringValue
  <1> QED BY <1>10, <1>11

LEMMA ErouterInvNext == ErouterInv /\ [Dhcpv4Next]_dhcpv4Vars => ErouterInv'
  <1> SUFFICES ASSUME ErouterInv, [Dhcpv4Next]_dhcpv4Vars PROVE ErouterInv'
    OBVIOUS
  <1>1. CASE Client_AddEntry
    <2>1. /\ maxClient4' = maxClient4 + 1 /\ tx4' = tx4
          /\ \E e : clients4' = With(clients4, maxClient4', e)
      BY <1>1 DEF Client_AddEntry
    <2>2. maxClient4' \in Nat /\ maxClient4' >= 1 /\ maxClient4' # 1
      BY <2>1 DEF ErouterInv
    <2>3. 1 \in DOMAIN clients4' /\ clients4'[1] = clients4[1]
      BY <2>1, <2>2 DEF With, ErouterInv
    <2>4. TxOK(tx4)' /\ IsErouter(clients4'[1])
      BY <2>1, <2>3 DEF TxOK, ErouterInv
    <2> QED BY <2>1, <2>2, <2>3, <2>4, OtherKeeps4
  <1>2. CASE ValidateV4
    <2>1. /\ tx4.phase = "set" /\ UNCHANGED <<clients4, maxClient4>>
          /\ \E valid : tx4' = Decided(tx4, valid)
      BY <1>2 DEF ValidateV4
    <2>2. TxOK(tx4') /\ tx4'.objects = tx4.objects
      BY <2>1, DecidedOK DEF ErouterInv
    <2> QED BY <2>1, <2>2 DEF ErouterInv, IsErouter, AsTold, TxOK, Client4
  <1>3. CASE RestartV4
    <2>1. /\ clients4' = WanMgr_Dhcpv4BackendGetDhcpv4Info /\ maxClient4' = 1
          /\ tx4' = Quiet
      BY <1>3 DEF RestartV4, WanMgr_Dhcpv4Initialize
    <2>2. TxOK(tx4')
      BY <2>1, QuietOK
    <2>3. 1 \in DOMAIN clients4' /\ IsErouter(clients4'[1]) /\ AsTold(clients4'[1])
      BY <2>1, BackendGivesErouter
    <2> QED BY <2>1, <2>2, <2>3 DEF ErouterInv, IsErouter, AsTold, TxOK
  <1>4. CASE \E i \in DOMAIN clients4 :
               \/ ClientStep4(i)
               \/ \E k \in OptionsOf(i, "sent") : SentStep(i, k)
               \/ \E k \in OptionsOf(i, "req") : ReqStep(i, k)
    BY <1>4, ClientStep4Keeps, OptionStep4Keeps
  <1>5. CASE UNCHANGED dhcpv4Vars
    BY <1>5 DEF dhcpv4Vars, ErouterInv, IsErouter, AsTold, TxOK, Client4
  <1> QED BY <1>1, <1>2, <1>3, <1>4, <1>5 DEF Dhcpv4Next

\* The box's own client shows what the back end says outside a transaction and
\* is neither deleted nor renumbered, for any aliases, tags and bounds.
THEOREM ErouterAlwaysStands == Dhcpv4Spec => []ErouterStands
  <1>1. Dhcpv4Init => ErouterInv
    BY BackendGivesErouter, QuietOK DEF Dhcpv4Init, ErouterInv
  <1>2. ErouterInv => ErouterStands
    <2>1. ErouterInv /\ Idle4 => Client4(1) \notin tx4.objects
      BY DEF ErouterInv, Idle4, TxOK
    <2> QED BY <2>1 DEF ErouterInv, ErouterStands, IsErouter, AsTold, Erouter,
            Client_GetParamStringValue, Client_GetParamBoolValue
  <1> QED BY <1>1, <1>2, ErouterInvNext, PTL DEF Dhcpv4Spec
-----------------------------------------------------------------------------
(***************************************************************************)
(* The DHCPv6 tables: what the entries and the files hold.                 *)
(***************************************************************************)
AliasType == Aliases \union {None} \union ({"Client", "SentOption"} \X Nat)
OptionType == [alias : AliasType, enabled : BOOLEAN, tag : Nat, isNew : BOOLEAN]
CfgType == [alias : AliasType, enabled : BOOLEAN, settings : Settings]
SentType == [number : Nat \ {0}, alias : AliasType, enabled : BOOLEAN, tag : Nat]
StoredType == [number : Nat \ {0}, alias : AliasType, enabled : BOOLEAN]

\* The entry of a client, whose options have numbers up to maxSent
ClientOK(c) ==
    /\ DOMAIN c = {"alias", "enabled", "settings", "isNew", "options", "maxSent",
                   "aliasOfSent"}
    /\ c.alias \in AliasType /\ c.enabled \in BOOLEAN /\ c.settings \in Settings
    /\ c.isNew \in BOOLEAN
    /\ c.maxSent \in Nat /\ c.aliasOfSent \in AliasType
    /\ \A k \in DOMAIN c.options : k \in 1 .. c.maxSent /\ c.options[k] \in OptionType

AllNew(c) == \A k \in DOMAIN c.options : c.options[k].isNew

\* A table: its numbers are up to max, client 1 alone has committed options.
EntryOK(i, c) == ClientOK(c) /\ IF i = 1 THEN ~c.isNew ELSE AllNew(c)
ClientsOK(cs, max) ==
    /\ max \in Nat /\ max >= 1
    /\ \A i \in DOMAIN cs : i \in 1 .. max /\ EntryOK(i, cs[i])

\* What the registry keeps of it
RegisteredOK(r) ==
    /\ r.alias \in AliasType /\ r.isNew \in BOOLEAN /\ r.sent.maxSent \in Nat
    /\ \A k \in DOMAIN r.sent.options :
          k \in 1 .. r.sent.maxSent /\ r.sent.options[k] \in AliasType
RegistryOK(reg) ==
    /\ reg.max \in Nat
    /\ \A i \in DOMAIN reg.clients : i \in 1 .. reg.max /\ RegisteredOK(reg.clients[i])

NumbersOnce(opts) == \A j, m \in DOMAIN opts : opts[j].number = opts[m].number => j = m

SyscfgOK(sys) ==
    /\ DOMAIN sys = {"client", "options"} /\ sys.client \in CfgType
    /\ sys.options \in Seq(StoredType) /\ NumbersOnce(sys.options)

-----------------------------------------------------------------------------
(***************************************************************************)
(* Records of these kinds.                                                 *)
(***************************************************************************)
LEMMA SettingNames ==
    /\ None \in AliasType
    /\ \A n \in Nat : <<"Client", n>> \in AliasType /\ <<"SentOption", n>> \in AliasType
    /\ \A a \in Aliases : a \in AliasType
  BY DEF AliasType

LEMMA OptionIs ==
    ASSUME NEW a \in AliasType, NEW isNew \in BOOLEAN
    PROVE  /\ Option(a, isNew) \in OptionType
           /\ Option(a, isNew).isNew = isNew /\ Option(a, isNew).alias = a
  BY DEF Option, OptionType

LEMMA NumberedIs ==
    ASSUME NEW k \in Nat \ {0}, NEW o \in OptionType
    PROVE  /\ Numbered(k, o) \in SentType
           /\ Numbered(k, o).number = k /\ Numbered(k, o).alias = o.alias
           /\ Numbered(k, o).enabled = o.enabled /\ Numbered(k, o).tag = o.tag
  BY DEF Numbered, OptionType, SentType

LEMMA StoredIs ==
    ASSUME NEW o \in SentType
    PROVE  Stored(o) \in StoredType /\ Stored(o).number = o.number
  BY DEF Stored, SentType, StoredType

LEMMA LoadedIs ==
    ASSUME NEW o \in StoredType
    PROVE  /\ GetSentOption(o) \in SentType
           /\ GetSentOption(o).number = o.number /\ GetSentOption(o).tag = o.number
           /\ Stored(GetSentOption(o)) = o
  <1>1. GetSentOption(o) \in SentType
    BY DEF GetSentOption, SentType, StoredType
  <1>2. Stored(GetSentOption(o)) = [number |-> o.number, alias |-> o.alias, enabled |-> o.enabled]
    BY DEF GetSentOption, Stored
  <1>3. o = [number |-> o.number, alias |-> o.alias, enabled |-> o.enabled]
    BY DEF StoredType
  <1> QED BY <1>1, <1>2, <1>3 DEF GetSentOption

LEMMA CfgIs ==
    ASSUME NEW c, ClientOK(c)
    PROVE  CfgOf(c) \in CfgType
  BY DEF ClientOK, CfgOf, CfgType

LEMMA SetCfgIs ==
    ASSUME NEW c, ClientOK(c), NEW cfg \in CfgType
    PROVE  /\ ClientOK(SetCfg(c, cfg)) /\ CfgOf(SetCfg(c, cfg)) = cfg
           /\ SetCfg(c, cfg).options = c.options /\ SetCfg(c, cfg).isNew = c.isNew
           /\ SetCfg(c, cfg).maxSent = c.maxSent
  <1> DEFINE s == SetCfg(c, cfg)
  <1>1. cfg.alias \in AliasType /\ cfg.enabled \in BOOLEAN /\ cfg.settings \in Settings
        /\ cfg = [alias |-> cfg.alias, enabled |-> cfg.enabled, settings |-> cfg.settings]
    BY DEF CfgType
  <1>2. /\ DOMAIN s = DOMAIN c
        /\ s.alias = cfg.alias /\ s.enabled = cfg.enabled /\ s.settings = cfg.settings
        /\ s.options = c.options /\ s.isNew = c.isNew /\ s.maxSent = c.maxSent
        /\ s.aliasOfSent = c.aliasOfSent
    BY DEF SetCfg, ClientOK
  <1> HIDE DEF s
  <1>3. CfgOf(s) = cfg
    BY <1>1, <1>2, Zenon DEF CfgOf
  <1>4. ClientOK(s)
    BY <1>1, <1>2 DEF ClientOK
  <1> QED BY <1>2, <1>3, <1>4 DEF s

LEMMA EntryIs ==
    ASSUME NEW cfg \in CfgType, NEW isNew \in BOOLEAN
    PROVE  /\ ClientOK(Entry(cfg, isNew)) /\ CfgOf(Entry(cfg, isNew)) = cfg
           /\ Entry(cfg, isNew).isNew = isNew /\ DOMAIN Entry(cfg, isNew).options = {}
           /\ Entry(cfg, isNew).maxSent = 0 /\ AllNew(Entry(cfg, isNew))
  <1> DEFINE e == Entry(cfg, isNew)
  <1>1. cfg.alias \in AliasType /\ cfg.enabled \in BOOLEAN /\ cfg.settings \in Settings
        /\ cfg = [alias |-> cfg.alias, enabled |-> cfg.enabled, settings |-> cfg.settings]
    BY DEF CfgType
  <1>2. DOMAIN Empty = {}
    BY DEF Empty
  <1>3. /\ DOMAIN e = {"alias", "enabled", "settings", "isNew", "options", "maxSent",
                       "aliasOfSent"}
        /\ e.alias = cfg.alias /\ e.enabled = cfg.enabled /\ e.settings = cfg.settings
        /\ e.options = Empty /\ e.isNew = isNew /\ e.maxSent = 0
        /\ e.aliasOfSent = None
    BY DEF Entry
  <1> HIDE DEF e
  <1>4. CfgOf(e) = cfg
    BY <1>1, <1>3, Zenon DEF CfgOf
  <1>5. ClientOK(e)
    BY <1>1, <1>2, <1>3, SettingNames DEF ClientOK
  <1>6. AllNew(e)
    BY <1>2, <1>3 DEF AllNew
  <1> QED BY <1>2, <1>3, <1>4, <1>5, <1>6 DEF e

\* A client with other options, everything else as it is
Alike(c, d) == /\ DOMAIN d = DOMAIN c /\ d.alias = c.alias /\ d.enabled = c.enabled
               /\ d.settings = c.settings /\ d.isNew = c.isNew

LEMMA AlikeIs ==
    ASSUME NEW c, ClientOK(c), NEW d, Alike(c, d),
           d.maxSent \in Nat, d.aliasOfSent \in AliasType,
           \A k \in DOMAIN d.options :
              k \in 1 .. d.maxSent /\ d.options[k] \in OptionType
    PROVE  ClientOK(d) /\ CfgOf(d) = CfgOf(c) /\ d.isNew = c.isNew
  BY DEF ClientOK, CfgOf, Alike

\* The highest of finitely many numbers
LEMMA HighestIs ==
    ASSUME NEW L \in Nat, NEW f, \A j \in 1 .. L : f[j] \in Nat, NEW n \in Nat
    PROVE  LET S == {f[j] : j \in 1 .. L}
           IN  Highest(n, S) \in Nat /\ \A k \in S \union {n} : k <= Highest(n, S)
  <1> DEFINE Upto(m) == {f[j] : j \in 1 .. m} \union {n}
             T == {m \in 0 .. L : \E x \in Upto(m) : \A k \in Upto(m) : k <= x}
  <1>1. ASSUME NEW m \in 0 .. L, m = 0 \/ m - 1 \in T PROVE m \in T
    <2>1. CASE m = 0
      <3>1. n \in Upto(m) /\ \A k \in Upto(m) : k <= n
        BY <2>1
      <3> HIDE DEF Upto
      <3> QED BY <3>1
    <2>2. CASE m # 0
      <3>1. PICK x \in Upto(m - 1) : \A k \in Upto(m - 1) : k <= x
        BY <1>1, <2>2
      <3>2. f[m] \in Nat /\ Upto(m) = Upto(m - 1) \union {f[m]}
        BY <2>2
      <3>3. \A k \in Upto(m - 1) : k \in Nat
        OBVIOUS
      <3> HIDE DEF Upto
      <3>4. CASE x <= f[m]
        <4>1. \A k \in Upto(m) : k <= f[m]
          BY <3>1, <3>2, <3>3, <3>4
        <4> QED BY <3>2, <4>1
      <3>5. CASE ~(x <= f[m])
        <4>1. \A k \in Upto(m) : k <= x
          BY <3>1, <3>2, <3>3, <3>5
        <4> QED BY <3>1, <3>2, <4>1
      <3> QED BY <3>4, <3>5
    <2> QED BY <2>1, <2>2
  <1> HIDE DEF T
  <1>2. \A m \in 0 .. L : m \in T
    BY <1>1, IndexInduction
  <1>3. L \in T
    BY <1>2
  <1>4. \E x \in Upto(L) : \A k \in Upto(L) : k <= x
    BY <1>3 DEF T
  <1>5. \A k \in Upto(L) : k \in Nat
    OBVIOUS
  <1>6. Highest(n, {f[j] : j \in 1 .. L}) = CHOOSE x \in Upto(L) : \A k \in Upto(L) : k <= x
    BY DEF Highest
  <1> HIDE DEF Upto
  <1>7. LET h == CHOOSE x \in Upto(L) : \A k \in Upto(L) : k <= x
        IN  h \in Upto(L) /\ \A k \in Upto(L) : k <= h
    BY <1>4
  <1> QED BY <1>5, <1>6, <1>7 DEF Upto

LEMMA HighestWithOne ==
    ASSUME NEW n \in Nat
    PROVE  Highest(n, {1}) \in Nat /\ Highest(n, {1}) >= 1 /\ Highest(n, {1}) >= n
  <1> DEFINE f == [j \in 1 .. 1 |-> 1]
  <1>1. {f[j] : j \in 1 .. 1} = {1}
    OBVIOUS
  <1>2. \A j \in 1 .. 1 : f[j] \in Nat
    OBVIOUS
  <1> HIDE DEF f
  <1>3. LET S == {f[j] : j \in 1 .. 1}
        IN  Highest(n, S) \in Nat /\ \A k \in S \union {n} : k <= Highest(n, S)
    BY <1>2, HighestIs
  <1> QED BY <1>1, <1>3

-----------------------------------------------------------------------------
(***************************************************************************)
(* What is registered and what a start loads.                              *)
(***************************************************************************)
LEMMA RegisterOK ==
    ASSUME NEW cs, NEW max, ClientsOK(cs, max)
    PROVE  RegistryOK(Register(cs, max))
  <1> DEFINE saved == {j \in DOMAIN cs : Saved(cs[j])}
             Folder(i) == [alias |-> cs[i].alias, isNew |-> cs[i].isNew,
                           sent |-> SavedOptions(cs[i])]
             reg == Register(cs, max)
  <1>1. /\ reg.max = max /\ DOMAIN reg.clients = saved
        /\ \A i \in saved : reg.clients[i] = Folder(i)
    BY DEF Register
  <1>2. ASSUME NEW i \in saved PROVE i \in 1 .. max /\ RegisteredOK(Folder(i))
    <2>1. i \in 1 .. max /\ ClientOK(cs[i])
      BY DEF ClientsOK, EntryOK
    <2> DEFINE c == cs[i]
               kept == {k \in DOMAIN c.options : c.options[k].isNew}
               s == SavedOptions(c)
    <2>2. /\ s.maxSent = IF DOMAIN c.options = {} THEN 0 ELSE c.maxSent
          /\ DOMAIN s.options = kept
          /\ \A k \in kept : s.options[k] = c.options[k].alias
      BY DEF SavedOptions
    <2>3. s.maxSent \in Nat
      BY <2>1, <2>2 DEF ClientOK
    <2>4. \A k \in kept : k \in 1 .. s.maxSent /\ s.options[k] \in AliasType
      BY <2>1, <2>2 DEF ClientOK, OptionType
    <2>5. Folder(i).alias = c.alias /\ Folder(i).isNew = c.isNew /\ Folder(i).sent = s
      OBVIOUS
    <2> HIDE DEF s, kept
    <2>6. RegisteredOK(Folder(i))
      <3> HIDE DEF Folder
      <3> QED BY <2>1, <2>2, <2>3, <2>4, <2>5 DEF RegisteredOK, ClientOK
    <2> QED BY <2>1, <2>6
  <1>3. max \in Nat
    BY DEF ClientsOK
  <1> HIDE DEF saved, Folder, reg
  <1> QED BY <1>1, <1>2, <1>3 DEF RegistryOK, reg

LEMMA RegisteredIs ==
    ASSUME NEW reg, RegistryOK(reg)
    PROVE  \A i \in DOMAIN Registered(reg) :
              i \in 1 .. reg.max /\ ClientOK(Registered(reg)[i]) /\ AllNew(Registered(reg)[i])
  <1> SUFFICES ASSUME NEW i \in DOMAIN Registered(reg)
               PROVE  i \in 1 .. reg.max /\ ClientOK(Registered(reg)[i])
                      /\ AllNew(Registered(reg)[i])
    OBVIOUS
  <1> DEFINE r == reg.clients[i]
             cfg == [alias |-> r.alias, enabled |-> FALSE, settings |-> Default]
             e == Entry(cfg, r.isNew)
             opts == RegisteredOptions(r.sent)
             d == [e EXCEPT !.options = opts, !.maxSent = r.sent.maxSent]
  <1>1. i \in 1 .. reg.max /\ RegisteredOK(r)
    BY DEF Registered, RegistryOK
  <1>2. Registered(reg)[i] = d
    BY DEF Registered
  <1>3. cfg \in CfgType /\ r.isNew \in BOOLEAN
    BY <1>1, SettingsAssumption DEF RegisteredOK, CfgType
  <1>4. ClientOK(e)
    BY <1>3, EntryIs
  <1>5. /\ DOMAIN opts = DOMAIN r.sent.options
        /\ \A k \in DOMAIN opts : opts[k] = Option(r.sent.options[k], TRUE)
    BY DEF RegisteredOptions
  <1> HIDE DEF opts
  <1>6. \A k \in DOMAIN opts : /\ k \in 1 .. r.sent.maxSent /\ opts[k] \in OptionType
                               /\ opts[k].isNew
    <2> TAKE k \in DOMAIN opts
    <2>1. k \in 1 .. r.sent.maxSent /\ r.sent.options[k] \in AliasType
      BY <1>1, <1>5 DEF RegisteredOK
    <2>2. /\ Option(r.sent.options[k], TRUE) \in OptionType
          /\ Option(r.sent.options[k], TRUE).isNew = TRUE
      BY <2>1, OptionIs
    <2> QED BY <1>5, <2>1, <2>2
  <1> HIDE DEF e
  <1>7. r.sent.maxSent \in Nat
    BY <1>1 DEF RegisteredOK
  <1> HIDE DEF r
  <1>8. /\ Alike(e, d) /\ d.options = opts /\ d.maxSent = r.sent.maxSent
        /\ d.aliasOfSent \in AliasType
    BY <1>4 DEF ClientOK, Alike
  <1> HIDE DEF d
  <1>9. ClientOK(d)
    BY <1>4, <1>6, <1>7, <1>8, AlikeIs
  <1>10. AllNew(d)
    BY <1>6, <1>8 DEF AllNew
  <1> QED BY <1>1, <1>2, <1>9, <1>10

\* What the back end knows of the options replaces what the registry said.
CommittedOf(c) == {k \in DOMAIN c.options : ~c.options[k].isNew}

ShowsAll(c, opts) ==
    /\ CommittedOf(c) = {opts[j].number : j \in DOMAIN opts}
    /\ \A j \in DOMAIN opts : Numbered(opts[j].number, c.options[opts[j].number]) = opts[j]

LEMMA LoadOptionsIs ==
    ASSUME NEW c, ClientOK(c), AllNew(c), NEW opts \in Seq(SentType), NumbersOnce(opts)
    PROVE  LET d == LoadOptions(c, opts)
           IN  /\ ClientOK(d) /\ CfgOf(d) = CfgOf(c) /\ d.isNew = c.isNew
               /\ ShowsAll(d, opts)
  <1> DEFINE L == Len(opts)
             numbers == {opts[j].number : j \in DOMAIN opts}
             Loaded(k) == CHOOSE j \in DOMAIN opts : opts[j].number = k
             Value(k) == [alias |-> opts[Loaded(k)].alias,
                          enabled |-> opts[Loaded(k)].enabled,
                          tag |-> opts[Loaded(k)].tag, isNew |-> FALSE]
             table == [k \in DOMAIN c.options \union numbers |->
                         IF k \in numbers THEN Value(k) ELSE c.options[k]]
             max == Highest(c.maxSent, numbers)
  <1>1. L \in Nat /\ DOMAIN opts = 1 .. L /\ \A j \in 1 .. L : opts[j] \in SentType
    OBVIOUS
  <1>2. \A j \in 1 .. L : opts[j].number \in Nat \ {0}
    BY <1>1 DEF SentType
  <1>3. max \in Nat /\ \A k \in numbers \union {c.maxSent} : k <= max
    <2> DEFINE f == [j \in 1 .. L |-> opts[j].number]
    <2>1. \A j \in 1 .. L : f[j] \in Nat /\ f[j] = opts[j].number
      BY <1>2
    <2>2. numbers = {f[j] : j \in 1 .. L}
      BY <1>1, <2>1
    <2> HIDE DEF f, numbers
    <2>3. LET S == {f[j] : j \in 1 .. L}
          IN  Highest(c.maxSent, S) \in Nat
              /\ \A k \in S \union {c.maxSent} : k <= Highest(c.maxSent, S)
      BY <1>1, <2>1, HighestIs DEF ClientOK
    <2> QED BY <2>2, <2>3
  <1>4. \A j \in 1 .. L : Loaded(opts[j].number) = j
    BY <1>1 DEF NumbersOnce
  <1>5. /\ DOMAIN table = DOMAIN c.options \union numbers
        /\ \A k \in DOMAIN c.options : k \notin numbers => table[k] = c.options[k]
    BY Zenon
  <1>6. \A k \in numbers : \E j \in 1 .. L : opts[j].number = k
    BY <1>1
  <1>7. ASSUME NEW j \in 1 .. L
        PROVE  LET k == opts[j].number
               IN  /\ k \in numbers /\ table[k] \in OptionType /\ ~table[k].isNew
                   /\ Numbered(k, table[k]) = opts[j]
    <2> DEFINE k == opts[j].number
    <2>1. k \in numbers /\ Loaded(k) = j
      BY <1>1, <1>4
    <2>2. table[k] = Value(k)
      BY <2>1, Zenon
    <2>3. table[k] = [alias |-> opts[j].alias, enabled |-> opts[j].enabled,
                      tag |-> opts[j].tag, isNew |-> FALSE]
      BY <2>1, <2>2
    <2> DEFINE v == table[k]
    <2> HIDE DEF table, numbers, Loaded
    <2>4. opts[j] \in SentType
      BY <1>1
    <2>5. v \in OptionType /\ v.isNew = FALSE /\ v.alias = opts[j].alias
          /\ v.enabled = opts[j].enabled /\ v.tag = opts[j].tag
      BY <2>3, <2>4 DEF OptionType, SentType
    <2> HIDE DEF v
    <2>6. Numbered(k, v) = [number |-> opts[j].number, alias |-> opts[j].alias,
                            enabled |-> opts[j].enabled, tag |-> opts[j].tag]
      BY <2>5 DEF Numbered
    <2>7. opts[j] = [number |-> opts[j].number, alias |-> opts[j].alias,
                     enabled |-> opts[j].enabled, tag |-> opts[j].tag]
      BY <2>4 DEF SentType
    <2> QED BY <2>1, <2>5, <2>6, <2>7 DEF v
  <1> DEFINE d == [c EXCEPT !.options = table, !.maxSent = max]
  <1>8. LoadOptions(c, opts) = d
    BY DEF LoadOptions
  <1> HIDE DEF table, max
  <1>9. ASSUME NEW k \in DOMAIN table
        PROVE  k \in 1 .. max /\ table[k] \in OptionType
    <2>1. CASE k \in numbers
      BY <1>2, <1>3, <1>6, <1>7, <2>1
    <2>2. CASE k \notin numbers
      <3>1. k \in 1 .. c.maxSent /\ c.options[k] \in OptionType /\ c.maxSent \in Nat
        BY <1>5, <2>2 DEF ClientOK
      <3>2. table[k] = c.options[k] /\ max \in Nat /\ c.maxSent <= max
        BY <1>3, <1>5, <2>2
      <3> HIDE DEF numbers
      <3> QED BY <3>1, <3>2
    <2> QED BY <2>1, <2>2
  <1>10. /\ ClientOK(d) /\ CfgOf(d) = CfgOf(c) /\ d.isNew = c.isNew
         /\ d.options = table
    <2>1. /\ Alike(c, d) /\ d.options = table /\ d.maxSent = max
          /\ d.aliasOfSent \in AliasType
      BY DEF ClientOK, Alike
    <2>2. max \in Nat
      BY <1>3
    <2> HIDE DEF d
    <2> QED BY <1>9, <2>1, <2>2, AlikeIs
  <1> HIDE DEF d
  <1>11. CommittedOf(d) = numbers
    <2>1. ASSUME NEW k \in DOMAIN table PROVE ~table[k].isNew <=> k \in numbers
      <3>1. CASE k \in numbers
        BY <1>6, <1>7, <3>1
      <3>2. CASE k \notin numbers
        BY <1>5, <3>2 DEF AllNew
      <3> QED BY <3>1, <3>2
    <2>2. numbers \subseteq DOMAIN table
      BY <1>5
    <2> QED BY <1>10, <2>1, <2>2 DEF CommittedOf
  <1>12. ShowsAll(d, opts)
    BY <1>1, <1>7, <1>10, <1>11 DEF ShowsAll
  <1> QED BY <1>8, <1>10, <1>12

LEMMA LoadClientIs ==
    ASSUME NEW reg, RegistryOK(reg), NEW cfg \in CfgType,
           NEW opts \in Seq(SentType), NumbersOnce(opts)
    PROVE  LET cs == LoadClient(Registered(reg), cfg, opts)
           IN  /\ ClientsOK(cs, Highest(reg.max, {1})) /\ 1 \in DOMAIN cs
               /\ CfgOf(cs[1]) = cfg /\ ShowsAll(cs[1], opts)
  <1> DEFINE old == Registered(reg)
             named == SetCfg(old[1], cfg)
             kept == IF 1 \in DOMAIN old THEN [named EXCEPT !.isNew = FALSE]
                     ELSE Entry(cfg, FALSE)
             e == LoadOptions(kept, opts)
             cs == LoadClient(old, cfg, opts)
             max == Highest(reg.max, {1})
  <1>1. \A i \in DOMAIN old : i \in 1 .. reg.max /\ ClientOK(old[i]) /\ AllNew(old[i])
    BY RegisteredIs
  <1> HIDE DEF old
  <1>2. ClientOK(kept) /\ AllNew(kept) /\ CfgOf(kept) = cfg /\ ~kept.isNew
    <2>1. CASE 1 \in DOMAIN old
      <3>1. /\ ClientOK(named) /\ CfgOf(named) = cfg
            /\ named.options = old[1].options
        BY <1>1, <2>1, SetCfgIs
      <3>2. AllNew(named)
        BY <1>1, <2>1, <3>1 DEF AllNew
      <3> HIDE DEF named
      <3> DEFINE d == [named EXCEPT !.isNew = FALSE]
      <3>3. /\ DOMAIN d = DOMAIN named
            /\ d.alias = named.alias /\ d.enabled = named.enabled
            /\ d.settings = named.settings /\ d.options = named.options
            /\ d.maxSent = named.maxSent /\ d.aliasOfSent = named.aliasOfSent
            /\ d.isNew = FALSE
        BY <3>1 DEF ClientOK
      <3>4. kept = d
        BY <2>1
      <3> HIDE DEF d
      <3>5. ClientOK(d)
        BY <3>1, <3>3 DEF ClientOK
      <3>6. CfgOf(d) = cfg /\ AllNew(d)
        BY <3>1, <3>2, <3>3 DEF CfgOf, AllNew
      <3> QED BY <3>3, <3>4, <3>5, <3>6
    <2>2. CASE 1 \notin DOMAIN old
      BY <2>2, EntryIs
    <2> QED BY <2>1, <2>2
  <1> HIDE DEF kept
  <1>3. ClientOK(e) /\ CfgOf(e) = cfg /\ ~e.isNew /\ ShowsAll(e, opts)
    BY <1>2, LoadOptionsIs
  <1> HIDE DEF e
  <1>4. /\ DOMAIN cs = DOMAIN old \union {1} /\ cs[1] = e
        /\ \A i \in DOMAIN old : i # 1 => cs[i] = old[i]
    BY DEF LoadClient, With, e, kept
  <1>5. max \in Nat /\ max >= 1 /\ max >= reg.max /\ reg.max \in Nat
    BY HighestWithOne DEF RegistryOK
  <1> HIDE DEF cs, max
  <1>6. ASSUME NEW i \in DOMAIN cs PROVE i \in 1 .. max /\ EntryOK(i, cs[i])
    <2>1. CASE i = 1
      BY <1>3, <1>4, <1>5, <2>1 DEF EntryOK
    <2>2. CASE i # 1
      BY <1>1, <1>4, <1>5, <2>2 DEF EntryOK
    <2> QED BY <2>1, <2>2
  <1>7. ClientsOK(cs, max)
    BY <1>5, <1>6 DEF ClientsOK
  <1> QED BY <1>3, <1>4, <1>7 DEF cs, old, max

-----------------------------------------------------------------------------
(***************************************************************************)
(* The back end: in memory, in syscfg and in the DHCPv6 client process.    *)
(***************************************************************************)
KeptOK(cfg, opts, sys) ==
    /\ SyscfgOK(sys) /\ cfg = sys.client
    /\ opts \in Seq(SentType) /\ Len(opts) = Len(sys.options)
    /\ \A j \in DOMAIN opts : Stored(opts[j]) = sys.options[j]

RunsOK(cfg, opts, d) ==
    /\ DOMAIN d = {"running", "conf", "options"}
    /\ cfg.enabled => d.running /\ d.conf = cfg.settings
    /\ d.options = OptionFile(opts)

Sends(d, opts) == [d EXCEPT !.running = TRUE, !.options = OptionFile(opts)]
CutAt(s, j) == [n \in 1 .. Len(s) - 1 |-> IF n < j THEN s[n] ELSE s[n + 1]]

LEMMA CutIs ==
    ASSUME NEW A, NEW s \in Seq(A), NEW j \in DOMAIN s
    PROVE  /\ CutAt(s, j) \in Seq(A) /\ Len(CutAt(s, j)) = Len(s) - 1
           /\ DOMAIN CutAt(s, j) = 1 .. Len(s) - 1
           /\ \A n \in 1 .. Len(s) - 1 :
                 CutAt(s, j)[n] = IF n < j THEN s[n] ELSE s[n + 1]
  <1> DEFINE L == Len(s)
             t == CutAt(s, j)
  <1>1. L \in Nat /\ j \in 1 .. L /\ \A n \in 1 .. L : s[n] \in A
    OBVIOUS
  <1>2. /\ DOMAIN t = 1 .. L - 1
        /\ \A n \in 1 .. L - 1 : t[n] = IF n < j THEN s[n] ELSE s[n + 1]
    BY DEF CutAt
  <1>3. t = [n \in 1 .. L - 1 |-> t[n]]
    BY <1>2 DEF CutAt
  <1> HIDE DEF t
  <1>4. \A n \in 1 .. L - 1 : t[n] \in A
    <2> TAKE n \in 1 .. L - 1
    <2>1. n \in 1 .. L /\ n + 1 \in 1 .. L
      BY <1>1
    <2> QED BY <1>1, <1>2, <2>1
  <1>5. L - 1 \in Nat
    BY <1>1
  <1>6. t \in Seq(A) /\ Len(t) = L - 1
    BY <1>3, <1>4, <1>5
  <1> QED BY <1>2, <1>6 DEF t

\* A list's numbers are those of what is stored of it.
LEMMA KeptIs ==
    ASSUME NEW cfg, NEW opts, NEW sys, KeptOK(cfg, opts, sys)
    PROVE  /\ DOMAIN opts = 1 .. Len(opts) /\ DOMAIN sys.options = DOMAIN opts
           /\ Len(opts) \in Nat
           /\ \A j \in DOMAIN opts : /\ opts[j] \in SentType
                                     /\ opts[j].number \in Nat \ {0}
                                     /\ opts[j].number = sys.options[j].number
           /\ NumbersOnce(opts) /\ cfg \in CfgType
  <1>1. /\ opts \in Seq(SentType) /\ Len(opts) = Len(sys.options)
        /\ sys.options \in Seq(StoredType)
    BY DEF KeptOK, SyscfgOK
  <1>2. DOMAIN opts = 1 .. Len(opts) /\ DOMAIN sys.options = DOMAIN opts
        /\ Len(opts) \in Nat /\ \A j \in DOMAIN opts : opts[j] \in SentType
    BY <1>1
  <1>3. ASSUME NEW j \in DOMAIN opts
        PROVE  opts[j].number \in Nat \ {0} /\ opts[j].number = sys.options[j].number
    <2>1. opts[j].number \in Nat \ {0}
      BY <1>2 DEF SentType
    <2>2. Stored(opts[j]) = sys.options[j]
      BY DEF KeptOK
    <2>3. Stored(opts[j]).number = opts[j].number
      BY DEF Stored
    <2> QED BY <2>1, <2>2, <2>3
  <1>4. NumbersOnce(sys.options)
    BY DEF KeptOK, SyscfgOK
  <1>5. NumbersOnce(opts)
    BY <1>2, <1>3, <1>4 DEF NumbersOnce
  <1> QED BY <1>2, <1>3, <1>5 DEF KeptOK, SyscfgOK

-----------------------------------------------------------------------------
(***************************************************************************)
(* The file the process reads changes with the enabled options only.       *)
(***************************************************************************)
Tagged(opts) == [j \in DOMAIN opts |-> opts[j].tag]
Enabled(opts) == {j \in DOMAIN opts : opts[j].enabled}

LEMMA FileIs ==
    ASSUME NEW opts \in Seq(SentType)
    PROVE  /\ Tagged(opts) \in Seq(Nat) /\ Len(Tagged(opts)) = Len(opts)
           /\ \A j \in 1 .. Len(opts) : Tagged(opts)[j] = opts[j].tag
           /\ OptionFile(opts) = ElementsAt(Tagged(opts), Enabled(opts))
  <1>1. Len(opts) \in Nat /\ DOMAIN opts = 1 .. Len(opts)
        /\ \A j \in 1 .. Len(opts) : opts[j] \in SentType
    OBVIOUS
  <1>2. \A j \in 1 .. Len(opts) : opts[j].tag \in Nat
    BY <1>1 DEF SentType
  <1>3. Tagged(opts) = [j \in 1 .. Len(opts) |-> opts[j].tag]
    BY <1>1 DEF Tagged
  <1>4. OptionFile(opts) = ElementsAt(Tagged(opts), Enabled(opts))
    BY DEF OptionFile, Tagged, Enabled
  <1>5. Tagged(opts) \in Seq(Nat) /\ Len(Tagged(opts)) = Len(opts)
    BY <1>1, <1>2, <1>3
  <1> QED BY <1>3, <1>4, <1>5

LEMMA FileOfNone == OptionFile(<<>>) = <<>>
  <1>1. <<>> \in Seq(SentType) /\ Len(<<>>) = 0
    OBVIOUS
  <1>2. Tagged(<<>>) \in Seq(Nat) /\ Len(Tagged(<<>>)) = 0
    BY <1>1, FileIs
  <1>3. Tagged(<<>>) = <<>>
    BY <1>2
  <1> QED BY <1>1, <1>3, FileIs, ElementsAtEmpty

LEMMA FileAppend ==
    ASSUME NEW opts \in Seq(SentType), NEW o \in SentType, ~o.enabled
    PROVE  OptionFile(Append(opts, o)) = OptionFile(opts)
  <1> DEFINE L == Len(opts)
             t == Append(opts, o)
  <1>1. /\ L \in Nat /\ t \in Seq(SentType) /\ Len(t) = L + 1 /\ t[L + 1] = o
        /\ \A n \in 1 .. L : t[n] = opts[n]
        /\ DOMAIN t = 1 .. L + 1 /\ DOMAIN opts = 1 .. L
    OBVIOUS
  <1> HIDE DEF t
  <1>2. /\ Tagged(opts) \in Seq(Nat) /\ Len(Tagged(opts)) = L
        /\ Tagged(t) \in Seq(Nat) /\ Len(Tagged(t)) = L + 1
        /\ \A j \in 1 .. L : Tagged(opts)[j] = opts[j].tag
        /\ \A j \in 1 .. L + 1 : Tagged(t)[j] = t[j].tag
    BY <1>1, FileIs
  <1>3. o.tag \in Nat
    BY DEF SentType
  <1> HIDE DEF L
  <1>4. Tagged(t) = Append(Tagged(opts), o.tag)
    <2> DEFINE u == Append(Tagged(opts), o.tag)
    <2>1. u \in Seq(Nat) /\ Len(u) = L + 1 /\ u[L + 1] = o.tag
          /\ \A j \in 1 .. L : u[j] = Tagged(opts)[j]
      BY <1>1, <1>2, <1>3
    <2> HIDE DEF u
    <2>2. \A j \in 1 .. L + 1 : u[j] = Tagged(t)[j]
      <3> TAKE j \in 1 .. L + 1
      <3>1. CASE j = L + 1
        BY <1>1, <1>2, <2>1, <3>1
      <3>2. CASE j # L + 1
        <4>1. j \in 1 .. L
          BY <1>1, <3>2
        <4> QED BY <1>1, <1>2, <2>1, <4>1
      <3> QED BY <3>1, <3>2
    <2>3. u = Tagged(t)
      BY <1>2, <2>1, <2>2
    <2> QED BY <2>3 DEF u
  <1>5. /\ \A n \in 1 .. L : n \in Enabled(opts) <=> n \in Enabled(t)
        /\ L + 1 \notin Enabled(t)
    BY <1>1 DEF Enabled
  <1>6. ElementsAt(Append(Tagged(opts), o.tag), Enabled(t))
          = ElementsAt(Tagged(opts), Enabled(opts))
    <2> DEFINE u == Tagged(opts)
               K == Enabled(opts)
               M == Enabled(t)
    <2>1. u \in Seq(Nat) /\ Len(u) = L
      BY <1>2
    <2>2. SameUpTo(Len(u), K, M) /\ Len(u) + 1 \notin M
      BY <1>5, <2>1 DEF SameUpTo
    <2> HIDE DEF u, K, M
    <2>3. ElementsAt(Append(u, o.tag), M) =
             IF Len(u) + 1 \in M THEN Append(ElementsAt(u, K), o.tag)
             ELSE ElementsAt(u, K)
      BY <1>3, <2>1, <2>2, ElementsAtAppend
    <2> QED BY <2>2, <2>3 DEF u, K, M
  <1> QED BY <1>1, <1>4, <1>6, FileIs DEF t

LEMMA FileCut ==
    ASSUME NEW opts \in Seq(SentType), NEW j \in DOMAIN opts, ~opts[j].enabled
    PROVE  OptionFile(CutAt(opts, j)) = OptionFile(opts)
  <1> DEFINE L == Len(opts)
             t == CutAt(opts, j)
  <1>1. L \in Nat /\ DOMAIN opts = 1 .. L /\ j \in 1 .. L
    OBVIOUS
  <1>2. /\ t \in Seq(SentType) /\ Len(t) = L - 1 /\ DOMAIN t = 1 .. L - 1
        /\ \A n \in 1 .. L - 1 : t[n] = IF n < j THEN opts[n] ELSE opts[n + 1]
    BY CutIs
  <1> HIDE DEF t
  <1>3. /\ Tagged(opts) \in Seq(Nat) /\ Len(Tagged(opts)) = L
        /\ Tagged(t) \in Seq(Nat) /\ Len(Tagged(t)) = L - 1
        /\ \A n \in 1 .. L : Tagged(opts)[n] = opts[n].tag
        /\ \A n \in 1 .. L - 1 : Tagged(t)[n] = t[n].tag
    BY <1>2, FileIs
  <1>4. j \notin Enabled(opts)
    BY DEF Enabled
  <1> HIDE DEF L
  <1>5. ASSUME NEW n \in 1 .. L - 1
        PROVE  IF n < j
               THEN Tagged(t)[n] = Tagged(opts)[n] /\ (n \in Enabled(t) <=> n \in Enabled(opts))
               ELSE Tagged(t)[n] = Tagged(opts)[n + 1]
                    /\ (n \in Enabled(t) <=> n + 1 \in Enabled(opts))
    <2>1. n \in 1 .. L /\ n + 1 \in 1 .. L
      BY <1>1
    <2>2. CASE n < j
      BY <1>1, <1>2, <1>3, <2>1, <2>2 DEF Enabled
    <2>3. CASE ~(n < j)
      BY <1>1, <1>2, <1>3, <2>1, <2>3 DEF Enabled
    <2> QED BY <2>2, <2>3
  <1>6. ElementsAt(Tagged(t), Enabled(t)) = ElementsAt(Tagged(opts), Enabled(opts))
    <2> DEFINE u == Tagged(opts)
               v == Tagged(t)
               K == Enabled(opts)
               M == Enabled(t)
    <2>1. /\ u \in Seq(Nat) /\ v \in Seq(Nat) /\ j \in 1 .. Len(u) /\ j \notin K
      BY <1>1, <1>3, <1>4
    <2>2. CutFrom(v, M, u, K, j)
      BY <1>3, <1>5 DEF CutFrom
    <2> HIDE DEF u, v, K, M
    <2>3. ElementsAt(v, M) = ElementsAt(u, K)
      BY <2>1, <2>2, ElementsAtCut
    <2> QED BY <2>3 DEF u, v, K, M
  <1> QED BY <1>2, <1>6, FileIs DEF t

LEMMA FileSet ==
    ASSUME NEW opts \in Seq(SentType), NEW j \in DOMAIN opts, NEW o \in SentType,
           o.enabled = opts[j].enabled, o.tag = opts[j].tag
    PROVE  OptionFile([opts EXCEPT ![j] = o]) = OptionFile(opts)
  <1> DEFINE t == [opts EXCEPT ![j] = o]
  <1>1. DOMAIN t = DOMAIN opts /\ t[j] = o
        /\ \A n \in DOMAIN opts : n # j => t[n] = opts[n]
    OBVIOUS
  <1> HIDE DEF t
  <1>2. ASSUME NEW n \in DOMAIN opts
        PROVE  t[n].tag = opts[n].tag /\ t[n].enabled = opts[n].enabled
    <2>1. CASE n = j
      BY <1>1, <2>1, Zenon
    <2>2. CASE n # j
      BY <1>1, <2>2, Zenon
    <2> QED BY <2>1, <2>2
  <1>3. Tagged(t) = Tagged(opts)
    BY <1>1, <1>2 DEF Tagged
  <1>4. Enabled(t) = Enabled(opts)
    BY <1>1, <1>2, Zenon DEF Enabled
  <1>5. OptionFile(t) = ElementsAt(Tagged(t), Enabled(t))
        /\ OptionFile(opts) = ElementsAt(Tagged(opts), Enabled(opts))
    BY DEF OptionFile, Tagged, Enabled
  <1> QED BY <1>3, <1>4, <1>5, Zenon DEF t

-----------------------------------------------------------------------------
(***************************************************************************)
(* What a deletion, a commit and a start make of the back end.             *)
(***************************************************************************)
LEMMA KeptAppend ==
    ASSUME NEW cfg, NEW opts, NEW sys, KeptOK(cfg, opts, sys), NEW o \in SentType,
           \A j \in DOMAIN opts : opts[j].number # o.number
    PROVE  KeptOK(cfg, Append(opts, o), [sys EXCEPT !.options = Append(@, Stored(o))])
  <1> DEFINE L == Len(opts)
             t == Append(opts, o)
             file == sys.options
             u == Append(file, Stored(o))
             s == [sys EXCEPT !.options = u]
  <1>1. /\ SyscfgOK(sys) /\ cfg = sys.client /\ opts \in Seq(SentType)
        /\ file \in Seq(StoredType) /\ Len(file) = L /\ L \in Nat
        /\ \A j \in 1 .. L : Stored(opts[j]) = file[j] /\ file[j].number = opts[j].number
        /\ DOMAIN opts = 1 .. L
    BY KeptIs DEF KeptOK, SyscfgOK
  <1>2. Stored(o) \in StoredType /\ Stored(o).number = o.number
    BY StoredIs
  <1>3. /\ t \in Seq(SentType) /\ Len(t) = L + 1 /\ t[L + 1] = o /\ DOMAIN t = 1 .. L + 1
        /\ \A j \in 1 .. L : t[j] = opts[j]
    BY <1>1
  <1>4. /\ u \in Seq(StoredType) /\ Len(u) = L + 1 /\ u[L + 1] = Stored(o)
        /\ DOMAIN u = 1 .. L + 1 /\ \A j \in 1 .. L : u[j] = file[j]
    BY <1>1, <1>2
  <1> HIDE DEF t, u, L
  <1>5. /\ DOMAIN s = {"client", "options"} /\ s.client = cfg /\ s.options = u
        /\ s.client \in CfgType
    BY <1>1 DEF SyscfgOK
  <1>6. \A j \in 1 .. L + 1 : j = L + 1 \/ j \in 1 .. L
    BY <1>1
  <1>7. \A j \in DOMAIN t : Stored(t[j]) = u[j]
    BY <1>1, <1>3, <1>4, <1>6
  <1>8. NumbersOnce(u)
    <2>1. NumbersOnce(file) /\ DOMAIN file = 1 .. L
      BY <1>1 DEF SyscfgOK
    <2>2. \A j \in 1 .. L : u[j].number # u[L + 1].number
      BY <1>1, <1>2, <1>4
    <2>3. \A j, m \in 1 .. L : u[j].number = u[m].number => j = m
      BY <1>4, <2>1 DEF NumbersOnce
    <2> QED BY <1>4, <1>6, <2>2, <2>3 DEF NumbersOnce
  <1> HIDE DEF s
  <1>9. SyscfgOK(s)
    BY <1>4, <1>5, <1>8 DEF SyscfgOK
  <1>10. KeptOK(cfg, t, s)
    BY <1>3, <1>4, <1>5, <1>7, <1>9 DEF KeptOK
  <1> QED BY <1>10 DEF t, s, u

LEMMA KeptCut ==
    ASSUME NEW cfg, NEW opts, NEW sys, KeptOK(cfg, opts, sys), NEW x \in DOMAIN opts
    PROVE  KeptOK(cfg, CutAt(opts, x), [sys EXCEPT !.options = CutAt(@, x)])
  <1> DEFINE L == Len(opts)
             t == CutAt(opts, x)
             file == sys.options
             u == CutAt(file, x)
             s == [sys EXCEPT !.options = u]
  <1>1. /\ SyscfgOK(sys) /\ cfg = sys.client /\ opts \in Seq(SentType)
        /\ file \in Seq(StoredType) /\ Len(file) = L /\ L \in Nat
        /\ \A j \in 1 .. L : Stored(opts[j]) = file[j]
        /\ DOMAIN opts = 1 .. L /\ DOMAIN file = 1 .. L /\ x \in 1 .. L
    BY KeptIs DEF KeptOK, SyscfgOK
  <1>2. /\ t \in Seq(SentType) /\ Len(t) = L - 1 /\ DOMAIN t = 1 .. L - 1
        /\ \A n \in 1 .. L - 1 : t[n] = IF n < x THEN opts[n] ELSE opts[n + 1]
    BY <1>1, CutIs
  <1>3. /\ u \in Seq(StoredType) /\ Len(u) = L - 1 /\ DOMAIN u = 1 .. L - 1
        /\ \A n \in 1 .. L - 1 : u[n] = IF n < x THEN file[n] ELSE file[n + 1]
    <2>1. file \in Seq(StoredType) /\ x \in DOMAIN file
      BY <1>1
    <2> HIDE DEF file
    <2>2. /\ u \in Seq(StoredType) /\ Len(u) = Len(file) - 1
          /\ DOMAIN u = 1 .. Len(file) - 1
          /\ \A n \in 1 .. Len(file) - 1 : u[n] = IF n < x THEN file[n] ELSE file[n + 1]
      BY <2>1, CutIs
    <2>3. Len(file) = L
      BY <1>1
    <2> QED BY <2>2, <2>3
  <1> HIDE DEF t, u, L
  <1>4. /\ DOMAIN s = {"client", "options"} /\ s.client = cfg /\ s.options = u
        /\ s.client \in CfgType
    BY <1>1 DEF SyscfgOK
  <1>5. \A n \in 1 .. L - 1 : n \in 1 .. L /\ n + 1 \in 1 .. L
    BY <1>1
  <1>6. \A j \in DOMAIN t : Stored(t[j]) = u[j]
    BY <1>1, <1>2, <1>3, <1>5
  <1>7. NumbersOnce(u)
    <2>1. NumbersOnce(file)
      BY <1>1 DEF SyscfgOK
    <2> SUFFICES ASSUME NEW j \in 1 .. L - 1, NEW m \in 1 .. L - 1,
                        u[j].number = u[m].number
                 PROVE  j = m
      BY <1>3 DEF NumbersOnce
    <2> DEFINE From(n) == IF n < x THEN n ELSE n + 1
    <2>2. /\ From(j) \in 1 .. L /\ From(m) \in 1 .. L
          /\ u[j] = file[From(j)] /\ u[m] = file[From(m)]
      BY <1>3, <1>5
    <2>3. From(j) = From(m)
      <3> HIDE DEF From
      <3> QED BY <1>1, <2>1, <2>2 DEF NumbersOnce
    <2> QED BY <1>1, <2>3
  <1> HIDE DEF s
  <1>8. SyscfgOK(s)
    BY <1>3, <1>4, <1>7 DEF SyscfgOK
  <1>9. KeptOK(cfg, t, s)
    BY <1>2, <1>3, <1>4, <1>6, <1>8 DEF KeptOK
  <1> QED BY <1>9 DEF t, s, u

LEMMA KeptSet ==
    ASSUME NEW cfg, NEW opts, NEW sys, KeptOK(cfg, opts, sys), NEW x \in DOMAIN opts,
           NEW o \in SentType, o.number = opts[x].number
    PROVE  KeptOK(cfg, [opts EXCEPT ![x] = o], [sys EXCEPT !.options[x] = Stored(o)])
  <1> DEFINE L == Len(opts)
             t == [opts EXCEPT ![x] = o]
             file == sys.options
             u == [file EXCEPT ![x] = Stored(o)]
             s == [sys EXCEPT !.options = u]
  <1>1. /\ SyscfgOK(sys) /\ cfg = sys.client /\ opts \in Seq(SentType)
        /\ file \in Seq(StoredType) /\ Len(file) = L /\ L \in Nat
        /\ \A j \in 1 .. L : Stored(opts[j]) = file[j] /\ file[j].number = opts[j].number
        /\ DOMAIN opts = 1 .. L /\ DOMAIN file = 1 .. L /\ x \in 1 .. L
    BY KeptIs DEF KeptOK, SyscfgOK
  <1>2. Stored(o) \in StoredType /\ Stored(o).number = o.number
    BY StoredIs
  <1>3. /\ t \in Seq(SentType) /\ Len(t) = L /\ t[x] = o /\ DOMAIN t = 1 .. L
        /\ \A j \in 1 .. L : j # x => t[j] = opts[j]
    BY <1>1
  <1>4. /\ u \in Seq(StoredType) /\ Len(u) = L /\ u[x] = Stored(o)
        /\ DOMAIN u = 1 .. L /\ \A j \in 1 .. L : j # x => u[j] = file[j]
    BY <1>1, <1>2
  <1> HIDE DEF t, u, L
  <1>5. /\ DOMAIN s = {"client", "options"} /\ s.client = cfg /\ s.options = u
        /\ s.client \in CfgType
    BY <1>1 DEF SyscfgOK
  <1>6. \A j \in DOMAIN t : Stored(t[j]) = u[j]
    BY <1>1, <1>3, <1>4
  <1>7. \A j \in 1 .. L : u[j].number = file[j].number
    BY <1>1, <1>2, <1>4
  <1>8. NumbersOnce(u)
    BY <1>1, <1>4, <1>7 DEF NumbersOnce, SyscfgOK
  <1> HIDE DEF s
  <1>9. SyscfgOK(s)
    BY <1>4, <1>5, <1>8 DEF SyscfgOK
  <1>10. KeptOK(cfg, t, s)
    BY <1>3, <1>4, <1>5, <1>6, <1>9 DEF KeptOK
  <1>11. [sys EXCEPT !.options[x] = Stored(o)] = s
    BY DEF s, u
  <1> QED BY <1>10, <1>11 DEF t

LEMMA KeptCfg ==
    ASSUME NEW cfg, NEW opts, NEW sys, KeptOK(cfg, opts, sys), NEW new \in CfgType
    PROVE  KeptOK(new, opts, [sys EXCEPT !.client = new])
  <1> DEFINE s == [sys EXCEPT !.client = new]
  <1>1. /\ DOMAIN s = {"client", "options"} /\ s.client = new /\ s.options = sys.options
    BY DEF KeptOK, SyscfgOK
  <1> HIDE DEF s
  <1>2. KeptOK(new, opts, s)
    BY <1>1 DEF KeptOK, SyscfgOK
  <1> QED BY <1>2 DEF s

\* The back end that reads syscfg: each option's tag is its number.
SentTags(opts) ==
    \A j, m \in DOMAIN opts :
        j # m /\ opts[j].enabled /\ opts[m].enabled => opts[j].tag # opts[m].tag

LoadedFrom(sys) == [j \in DOMAIN sys.options |-> GetSentOption(sys.options[j])]

LEMMA KeptLoaded ==
    ASSUME NEW sys, SyscfgOK(sys)
    PROVE  KeptOK(sys.client, LoadedFrom(sys), sys) /\ SentTags(LoadedFrom(sys))
  <1> DEFINE file == sys.options
             L == Len(file)
             t == LoadedFrom(sys)
  <1>1. file \in Seq(StoredType) /\ L \in Nat /\ DOMAIN file = 1 .. L
        /\ \A j \in 1 .. L : file[j] \in StoredType
    BY DEF SyscfgOK
  <1>2. DOMAIN t = 1 .. L /\ \A j \in 1 .. L : t[j] = GetSentOption(file[j])
    BY <1>1 DEF LoadedFrom
  <1>3. \A j \in 1 .. L : /\ t[j] \in SentType /\ t[j].number = file[j].number
                          /\ t[j].tag = file[j].number /\ Stored(t[j]) = file[j]
    BY <1>1, <1>2, LoadedIs
  <1>4. t = [j \in 1 .. L |-> t[j]]
    BY <1>1, <1>2 DEF LoadedFrom
  <1>5. t \in Seq(SentType) /\ Len(t) = L
    <2>1. L \in Nat
      BY <1>1
    <2> HIDE DEF t, L
    <2> QED BY <1>3, <1>4, <2>1
  <1> HIDE DEF t
  <1>6. KeptOK(sys.client, t, sys)
    BY <1>2, <1>3, <1>5 DEF KeptOK
  <1>7. SentTags(t)
    BY <1>1, <1>2, <1>3 DEF SentTags, SyscfgOK, NumbersOnce
  <1> QED BY <1>6, <1>7 DEF t

LEMMA RunsSends ==
    ASSUME NEW cfg, NEW opts, NEW d, RunsOK(cfg, opts, d), NEW new
    PROVE  RunsOK(cfg, new, Sends(d, new))
  <1> DEFINE s == Sends(d, new)
             file == OptionFile(new)
  <1> HIDE DEF file
  <1>1. /\ DOMAIN s = {"running", "conf", "options"} /\ s.running = TRUE
        /\ s.conf = d.conf /\ s.options = file
    BY DEF RunsOK, Sends, file
  <1> HIDE DEF s
  <1>2. RunsOK(cfg, new, s)
    BY <1>1 DEF RunsOK, file
  <1> QED BY <1>2 DEF s

-----------------------------------------------------------------------------
(***************************************************************************)
(* Client 1 shows what the back end has, but for what is in the            *)
(* transaction; in a commit the options that are committed, or about to    *)
(* be, have tags of their own.                                             *)
(***************************************************************************)
ShowsSent(c, opts, objects) ==
    /\ CommittedOf(c) = {opts[j].number : j \in DOMAIN opts}
    /\ \A j \in DOMAIN opts :
          \/ TheOption(1, opts[j].number) \in objects
          \/ Numbered(opts[j].number, c.options[opts[j].number]) = opts[j]
ShowsCfg(c, cfg, objects) == TheClient(1) \in objects \/ CfgOf(c) = cfg

InPlay(c, k, objects) == ~c.options[k].isNew \/ TheOption(1, k) \in objects
ValidTags(c, objects) ==
    \A k, m \in DOMAIN c.options :
        /\ k # m /\ InPlay(c, k, objects) /\ InPlay(c, m, objects)
        /\ c.options[k].enabled /\ c.options[m].enabled
        => c.options[k].tag # c.options[m].tag

Client1OK(c, cfg, opts, t) ==
    /\ ShowsSent(c, opts, t.objects) /\ ShowsCfg(c, cfg, t.objects)
    /\ t.phase = "commit" => ValidTags(c, t.objects)

FirstOK(cs, cfg, opts, t) ==
    /\ 1 \in DOMAIN cs => Client1OK(cs[1], cfg, opts, t)
    /\ t.phase # "commit" \/ 1 \notin DOMAIN cs => SentTags(opts)

LEMMA ObjectsDiffer ==
    /\ \A i, k, j, m : TheOption(i, k) = TheOption(j, m) => i = j /\ k = m
    /\ \A i, j : TheClient(i) = TheClient(j) => i = j
    /\ \A i, j, k : TheClient(i) = TheOption(j, k) => i = j /\ k = 0
  BY DEF TheOption, TheClient

\* A step that leaves client 1 and the transaction as they are
LEMMA FirstSame ==
    ASSUME NEW cs, NEW cfg, NEW opts, NEW t, FirstOK(cs, cfg, opts, t),
           NEW ds, 1 \in DOMAIN ds <=> 1 \in DOMAIN cs, 1 \in DOMAIN cs => ds[1] = cs[1]
    PROVE  FirstOK(ds, cfg, opts, t)
  BY DEF FirstOK

\* One that takes it away
LEMMA FirstGone ==
    ASSUME NEW cs, NEW cfg, NEW opts, NEW t, FirstOK(cs, cfg, opts, t),
           t.phase # "commit", NEW ds, 1 \notin DOMAIN ds
    PROVE  FirstOK(ds, cfg, opts, t)
  BY DEF FirstOK

\* One more object in the transaction, or one less that is not client 1's
LEMMA MoreObjects ==
    ASSUME NEW c, NEW cfg, NEW opts, NEW A, NEW B,
           TheClient(1) \in A => TheClient(1) \in B,
           \A k : TheOption(1, k) \in A => TheOption(1, k) \in B
    PROVE  /\ ShowsSent(c, opts, A) => ShowsSent(c, opts, B)
           /\ ShowsCfg(c, cfg, A) => ShowsCfg(c, cfg, B)
  BY DEF ShowsSent, ShowsCfg

LEMMA FewerObjects ==
    ASSUME NEW c, NEW A, NEW B \in SUBSET A, ValidTags(c, A)
    PROVE  ValidTags(c, B)
  BY DEF ValidTags, InPlay

\* A parameter is set: the transaction is not yet in a commit.
LEMMA FirstTouched ==
    ASSUME NEW cs, NEW cfg, NEW opts, NEW t, FirstOK(cs, cfg, opts, t),
           t.phase # "commit", NEW o, NEW ds, 1 \in DOMAIN ds <=> 1 \in DOMAIN cs,
           1 \in DOMAIN ds => /\ ShowsSent(ds[1], opts, t.objects \union {o})
                              /\ ShowsCfg(ds[1], cfg, t.objects \union {o})
    PROVE  FirstOK(ds, cfg, opts, Touched(t, o))
  <1>1. /\ Touched(t, o).phase = "set" /\ Touched(t, o).objects = t.objects \union {o}
    BY DEF Touched
  <1> HIDE DEF Touched
  <1> QED BY <1>1 DEF FirstOK, Client1OK

\* The objects not of client 1
LEMMA FirstTouchedOther ==
    ASSUME NEW cs, NEW cfg, NEW opts, NEW t, FirstOK(cs, cfg, opts, t),
           t.phase # "commit", NEW o, NEW ds, 1 \in DOMAIN ds <=> 1 \in DOMAIN cs,
           1 \in DOMAIN cs => ds[1] = cs[1]
    PROVE  FirstOK(ds, cfg, opts, Touched(t, o))
  <1>1. 1 \in DOMAIN cs => /\ ShowsSent(cs[1], opts, t.objects \union {o})
                           /\ ShowsCfg(cs[1], cfg, t.objects \union {o})
    BY MoreObjects DEF FirstOK, Client1OK
  <1> QED BY <1>1, FirstTouched

\* With nothing of it in the transaction what is shown is what is sent.
LEMMA TagsAsShown ==
    ASSUME NEW c, NEW cfg, NEW opts, NEW sys, KeptOK(cfg, opts, sys), ClientOK(c),
           ShowsSent(c, opts, {}), ValidTags(c, {})
    PROVE  SentTags(opts)
  <1> SUFFICES ASSUME NEW j \in DOMAIN opts, NEW m \in DOMAIN opts, j # m,
                      opts[j].enabled, opts[m].enabled
               PROVE  opts[j].tag # opts[m].tag
    BY DEF SentTags
  <1>1. opts[j].number # opts[m].number
    BY KeptIs DEF NumbersOnce
  <1>2. ASSUME NEW n \in DOMAIN opts
        PROVE  LET k == opts[n].number
               IN  /\ k \in DOMAIN c.options /\ ~c.options[k].isNew
                   /\ c.options[k].tag = opts[n].tag
                   /\ opts[n].enabled => c.options[k].enabled
    <2> DEFINE k == opts[n].number
               o == c.options[k]
    <2>1. k \in CommittedOf(c) /\ Numbered(k, o) = opts[n]
      BY DEF ShowsSent
    <2>2. k \in DOMAIN c.options /\ ~o.isNew
      BY <2>1 DEF CommittedOf
    <2> HIDE DEF o
    <2>3. Numbered(k, o).tag = o.tag /\ Numbered(k, o).enabled = o.enabled
      BY DEF Numbered
    <2> HIDE DEF k
    <2>4. o.tag = opts[n].tag
      BY <2>1, <2>3
    <2>5. opts[n].enabled => o.enabled
      BY <2>1, <2>3, Zenon
    <2> QED BY <2>2, <2>4, <2>5 DEF o, k
  <1> QED BY <1>1, <1>2 DEF ValidTags, InPlay

\* An object is committed or rolled back: the last one ends the transaction.
LEMMA FirstFinished ==
    ASSUME NEW cs, NEW cfg, NEW opts, NEW t, TxOK(t), NEW o \in t.objects,
           t.phase # "commit" \/ 1 \notin DOMAIN cs => SentTags(opts),
           NEW sys, KeptOK(cfg, opts, sys),
           1 \in DOMAIN cs =>
              /\ ClientOK(cs[1])
              /\ ShowsSent(cs[1], opts, t.objects \ {o})
              /\ ShowsCfg(cs[1], cfg, t.objects \ {o})
              /\ t.phase = "commit" => ValidTags(cs[1], t.objects \ {o})
    PROVE  FirstOK(cs, cfg, opts, Finished(t, o))
  <1> DEFINE u == Finished(t, o)
             left == t.objects \ {o}
  <1>1. u.objects = left /\ u.phase = IF left = {} THEN "idle" ELSE t.phase
    BY DEF Finished
  <1> HIDE DEF u
  <1>2. 1 \in DOMAIN cs => Client1OK(cs[1], cfg, opts, u)
    BY <1>1 DEF Client1OK
  <1>3. ASSUME u.phase # "commit", 1 \in DOMAIN cs PROVE SentTags(opts)
    <2>1. CASE t.phase = "commit"
      <3>1. left = {}
        BY <1>1, <1>3, <2>1
      <3>2. ClientOK(cs[1]) /\ ShowsSent(cs[1], opts, {}) /\ ValidTags(cs[1], {})
        BY <1>3, <2>1, <3>1
      <3> QED BY <3>2, TagsAsShown
    <2>2. CASE t.phase # "commit"
      BY <2>2
    <2> QED BY <2>1, <2>2
  <1>4. FirstOK(cs, cfg, opts, u)
    BY <1>2, <1>3 DEF FirstOK
  <1> QED BY <1>4 DEF u

\* One of another client's objects
LEMMA FirstFinishedOther ==
    ASSUME NEW cs, NEW cfg, NEW opts, NEW t, TxOK(t), NEW o \in t.objects,
           FirstOK(cs, cfg, opts, t), NEW sys, KeptOK(cfg, opts, sys),
           o # TheClient(1), \A k : o # TheOption(1, k),
           NEW ds, 1 \in DOMAIN ds <=> 1 \in DOMAIN cs,
           1 \in DOMAIN cs => ds[1] = cs[1] /\ ClientOK(cs[1])
    PROVE  FirstOK(ds, cfg, opts, Finished(t, o))
  <1> DEFINE left == t.objects \ {o}
  <1>1. /\ TheClient(1) \in t.objects => TheClient(1) \in left
        /\ \A k : TheOption(1, k) \in t.objects => TheOption(1, k) \in left
        /\ left \in SUBSET t.objects
    OBVIOUS
  <1> HIDE DEF left
  <1>2. 1 \in DOMAIN cs => /\ ShowsSent(cs[1], opts, left) /\ ShowsCfg(cs[1], cfg, left)
                           /\ t.phase = "commit" => ValidTags(cs[1], left)
    BY <1>1, MoreObjects, FewerObjects DEF FirstOK, Client1OK
  <1>3. t.phase # "commit" \/ 1 \notin DOMAIN ds => SentTags(opts)
    BY DEF FirstOK
  <1>4. 1 \in DOMAIN ds =>
           /\ ClientOK(ds[1])
           /\ ShowsSent(ds[1], opts, t.objects \ {o})
           /\ ShowsCfg(ds[1], cfg, t.objects \ {o})
           /\ t.phase = "commit" => ValidTags(ds[1], t.objects \ {o})
    BY <1>2 DEF left
  <1> QED BY <1>3, <1>4, FirstFinished

\* An option of client 1 changes and stays as committed as it was.
LEMMA OptionShown ==
    ASSUME NEW c, NEW k \in DOMAIN c.options, NEW opts, NEW A, NEW B,
           ShowsSent(c, opts, A), NEW d, NEW o,
           DOMAIN d.options = DOMAIN c.options, d.options[k] = o,
           \A m \in DOMAIN c.options : m # k => d.options[m] = c.options[m],
           o.isNew <=> c.options[k].isNew,
           \A m : m # k /\ TheOption(1, m) \in A => TheOption(1, m) \in B,
           \/ TheOption(1, k) \in B
           \/ \A j \in DOMAIN opts : opts[j].number = k => Numbered(k, o) = opts[j]
    PROVE  ShowsSent(d, opts, B)
  <1>1. CommittedOf(d) = CommittedOf(c)
    BY DEF CommittedOf
  <1>2. ASSUME NEW j \in DOMAIN opts
        PROVE  \/ TheOption(1, opts[j].number) \in B
               \/ Numbered(opts[j].number, d.options[opts[j].number]) = opts[j]
    <2>1. CASE opts[j].number = k
      BY <2>1
    <2>2. CASE opts[j].number # k
      <3>1. opts[j].number \in DOMAIN c.options
        BY DEF ShowsSent, CommittedOf
      <3> QED BY <2>2, <3>1 DEF ShowsSent
    <2> QED BY <2>1, <2>2
  <1> QED BY <1>1, <1>2 DEF ShowsSent

-----------------------------------------------------------------------------
(***************************************************************************)
(* The invariant, and the steps that keep it.                              *)
(***************************************************************************)
V6Inv ==
    /\ ClientsOK(clients, maxClient) /\ aliasOfClient \in AliasType
    /\ RegistryOK(registry)
    /\ KeptOK(own, sent, syscfg) /\ RunsOK(own, sent, dhcp)
    /\ TxOK(tx) /\ FirstOK(clients, own, sent, tx)

LEMMA V6InvNew ==
    ASSUME ClientsOK(clients', maxClient'), aliasOfClient' \in AliasType,
           RegistryOK(registry'), KeptOK(own', sent', syscfg'),
           RunsOK(own', sent', dhcp'), TxOK(tx'), FirstOK(clients', own', sent', tx')
    PROVE  V6Inv'
  <1>1. ClientsOK(clients, maxClient)'
    BY Zenon DEF ClientsOK, EntryOK, ClientOK, AllNew
  <1>2. RegistryOK(registry)' /\ TxOK(tx)' /\ (aliasOfClient \in AliasType)'
    BY Zenon DEF RegistryOK, RegisteredOK, TxOK
  <1>3. KeptOK(own, sent, syscfg)'
    BY Zenon DEF KeptOK, SyscfgOK, NumbersOnce, Stored
  <1>4. RunsOK(own, sent, dhcp)'
    BY Zenon DEF RunsOK, OptionFile, ElementsAt
  <1>5. FirstOK(clients, own, sent, tx)'
    BY Zenon DEF FirstOK, Client1OK, ShowsSent, ShowsCfg, CommittedOf, ValidTags,
       InPlay, SentTags, TheOption, TheClient, CfgOf, Numbered
  <1> QED BY <1>1, <1>2, <1>3, <1>4, <1>5 DEF V6Inv

\* One entry of a table is changed.
LEMMA ClientsEdited ==
    ASSUME NEW cs, NEW max, ClientsOK(cs, max), NEW i \in DOMAIN cs, NEW e,
           EntryOK(i, e), NEW ds, ds = [cs EXCEPT ![i] = e]
    PROVE  /\ ClientsOK(ds, max) /\ DOMAIN ds = DOMAIN cs /\ ds[i] = e
           /\ \A j \in DOMAIN cs : j # i => ds[j] = cs[j]
  <1>1. /\ DOMAIN ds = DOMAIN cs /\ ds[i] = e
        /\ \A j \in DOMAIN cs : j # i => ds[j] = cs[j]
    OBVIOUS
  <1>2. ASSUME NEW j \in DOMAIN cs PROVE j \in 1 .. max /\ EntryOK(j, ds[j])
    BY <1>1 DEF ClientsOK
  <1> QED BY <1>1, <1>2 DEF ClientsOK

\* What holds of the entries in the invariant
LEMMA EntriesAre ==
    ASSUME V6Inv, NEW i \in DOMAIN clients
    PROVE  /\ EntryOK(i, clients[i]) /\ ClientOK(clients[i])
           /\ i = 1 => ~clients[1].isNew
           /\ i # 1 => AllNew(clients[i])
           /\ \A k \in DOMAIN clients[i].options :
                 k \in Nat \ {0} /\ clients[i].options[k] \in OptionType
  <1>1. EntryOK(i, clients[i])
    BY DEF V6Inv, ClientsOK
  <1>2. ClientOK(clients[i]) /\ (i = 1 => ~clients[1].isNew) /\ (i # 1 => AllNew(clients[i]))
    BY <1>1 DEF EntryOK
  <1>3. ASSUME NEW k \in DOMAIN clients[i].options
        PROVE  k \in Nat \ {0} /\ clients[i].options[k] \in OptionType
    BY <1>2 DEF ClientOK
  <1> QED BY <1>1, <1>2, <1>3

\* A step that sets a parameter of object o of client i
LEMMA EntryTouched ==
    ASSUME V6Inv, NEW i \in DOMAIN clients, NEW e, EntryOK(i, e), NEW o,
           clients' = [clients EXCEPT ![i] = e], Touch(o),
           i = 1 => /\ ShowsSent(e, sent, tx.objects \union {o})
                    /\ ShowsCfg(e, own, tx.objects \union {o}),
           aliasOfClient' \in AliasType,
           UNCHANGED <<maxClient, own, sent, syscfg, registry, dhcp>>
    PROVE  V6Inv'
  <1>1. /\ ClientsOK(clients, maxClient) /\ RegistryOK(registry) /\ TxOK(tx)
        /\ KeptOK(own, sent, syscfg) /\ RunsOK(own, sent, dhcp)
        /\ FirstOK(clients, own, sent, tx)
    BY DEF V6Inv
  <1>2. /\ ClientsOK(clients', maxClient) /\ DOMAIN clients' = DOMAIN clients
        /\ clients'[i] = e /\ \A j \in DOMAIN clients : j # i => clients'[j] = clients[j]
    BY <1>1, ClientsEdited
  <1>3. tx' = Touched(tx, o) /\ tx.phase # "commit"
    BY DEF Touch, CanTouch
  <1>4. TxOK(tx')
    BY <1>3, TouchedOK
  <1>5. FirstOK(clients', own, sent, Touched(tx, o))
    <2>1. CASE i = 1
      BY <1>1, <1>2, <1>3, <2>1, FirstTouched
    <2>2. CASE i # 1
      BY <1>1, <1>2, <1>3, <2>2, FirstTouchedOther
    <2> QED BY <2>1, <2>2
  <1> QED BY <1>1, <1>2, <1>3, <1>4, <1>5, V6InvNew

\* One that takes o out of the transaction and leaves the back end as it is
LEMMA EntryFinished ==
    ASSUME V6Inv, NEW i \in DOMAIN clients, NEW e, EntryOK(i, e), NEW o,
           clients' = [clients EXCEPT ![i] = e], Finish(o),
           i = 1 => /\ ShowsSent(e, sent, tx.objects \ {o})
                    /\ ShowsCfg(e, own, tx.objects \ {o})
                    /\ tx.phase = "commit" => ValidTags(e, tx.objects \ {o}),
           i # 1 => o # TheClient(1) /\ \A k : o # TheOption(1, k),
           aliasOfClient' \in AliasType, RegistryOK(registry'),
           UNCHANGED <<maxClient, own, sent, syscfg, dhcp>>
    PROVE  V6Inv'
  <1>1. /\ ClientsOK(clients, maxClient) /\ TxOK(tx)
        /\ KeptOK(own, sent, syscfg) /\ RunsOK(own, sent, dhcp)
        /\ FirstOK(clients, own, sent, tx)
    BY DEF V6Inv
  <1>2. /\ ClientsOK(clients', maxClient) /\ DOMAIN clients' = DOMAIN clients
        /\ clients'[i] = e /\ \A j \in DOMAIN clients : j # i => clients'[j] = clients[j]
    BY <1>1, ClientsEdited
  <1>3. tx' = Finished(tx, o) /\ o \in tx.objects
    BY DEF Finish
  <1>4. TxOK(tx')
    BY <1>1, <1>3, FinishedOK
  <1>5. FirstOK(clients', own, sent, Finished(tx, o))
    <2>1. CASE i = 1
      <3>1. ClientOK(e)
        BY DEF EntryOK
      <3>2. 1 \in DOMAIN clients' /\ clients'[1] = e
        BY <1>2, <2>1
      <3>3. tx.phase # "commit" => SentTags(sent)
        BY <1>1 DEF FirstOK
      <3> QED BY <1>1, <1>3, <2>1, <3>1, <3>2, <3>3, FirstFinished
    <2>2. CASE i # 1
      <3>1. 1 \in DOMAIN clients' <=> 1 \in DOMAIN clients
        BY <1>2
      <3>2. 1 \in DOMAIN clients => clients'[1] = clients[1] /\ ClientOK(clients[1])
        BY <1>2, <2>2, EntriesAre
      <3> QED BY <1>1, <1>3, <2>2, <3>1, <3>2, FirstFinishedOther
    <2> QED BY <2>1, <2>2
  <1> QED BY <1>1, <1>2, <1>3, <1>4, <1>5, V6InvNew

\* A step between transactions that changes clients and registers them
LEMMA BetweenTransactions ==
    ASSUME V6Inv, IdleV6, ClientsOK(clients', maxClient'),
           Save, FirstOK(clients', own, sent, tx),
           UNCHANGED <<aliasOfClient, own, sent, syscfg, dhcp, tx>>
    PROVE  V6Inv'
  <1>1. RegistryOK(registry')
    BY RegisterOK DEF Save
  <1> QED BY <1>1, V6InvNew DEF V6Inv

LEMMA AddClientKeeps == V6Inv /\ Client3_AddEntry => V6Inv'
  <1> SUFFICES ASSUME V6Inv, Client3_AddEntry PROVE V6Inv'
    OBVIOUS
  <1> DEFINE cfg == [alias |-> <<"Client", maxClient'>>, enabled |-> FALSE,
                     settings |-> Default]
             e == Entry(cfg, TRUE)
  <1>1. /\ IdleV6 /\ maxClient' = maxClient + 1 /\ clients' = With(clients, maxClient', e)
        /\ Save /\ UNCHANGED <<aliasOfClient, own, sent, syscfg, dhcp, tx>>
    BY DEF Client3_AddEntry
  <1>2. ClientsOK(clients, maxClient) /\ FirstOK(clients, own, sent, tx)
    BY DEF V6Inv
  <1>3. maxClient \in Nat /\ maxClient >= 1 /\ maxClient' \in Nat /\ maxClient' > maxClient
    BY <1>1, <1>2 DEF ClientsOK
  <1>4. cfg \in CfgType
    BY <1>3, SettingNames, SettingsAssumption DEF CfgType
  <1>5. ClientOK(e) /\ AllNew(e)
    BY <1>4, EntryIs
  <1> HIDE DEF e
  <1>6. /\ DOMAIN clients' = DOMAIN clients \union {maxClient'} /\ clients'[maxClient'] = e
        /\ \A i \in DOMAIN clients : i # maxClient' => clients'[i] = clients[i]
    BY <1>1 DEF With
  <1>7. ASSUME NEW i \in DOMAIN clients' PROVE i \in 1 .. maxClient' /\ EntryOK(i, clients'[i])
    <2>1. CASE i = maxClient'
      BY <1>3, <1>5, <1>6, <2>1 DEF EntryOK
    <2>2. CASE i # maxClient'
      BY <1>2, <1>3, <1>6, <2>2 DEF ClientsOK
    <2> QED BY <2>1, <2>2
  <1>8. ClientsOK(clients', maxClient')
    BY <1>3, <1>7 DEF ClientsOK
  <1>9. (1 \in DOMAIN clients' <=> 1 \in DOMAIN clients)
        /\ (1 \in DOMAIN clients => clients'[1] = clients[1])
    BY <1>3, <1>6
  <1>10. FirstOK(clients', own, sent, tx)
    BY <1>2, <1>9, FirstSame
  <1> QED BY <1>1, <1>8, <1>10, BetweenTransactions

LEMMA ClientStepKeeps ==
    ASSUME V6Inv, NEW i \in DOMAIN clients, ClientStep(i)
    PROVE  V6Inv'
  <1> DEFINE c == clients[i]
             mine == TheClient(i)
  <1>1. /\ ClientsOK(clients, maxClient) /\ aliasOfClient \in AliasType
        /\ RegistryOK(registry) /\ TxOK(tx)
        /\ KeptOK(own, sent, syscfg) /\ RunsOK(own, sent, dhcp)
        /\ FirstOK(clients, own, sent, tx)
    BY DEF V6Inv
  <1>2. /\ EntryOK(i, c) /\ ClientOK(c) /\ (i = 1 => ~c.isNew) /\ (i # 1 => AllNew(c))
        /\ \A k \in DOMAIN c.options : k \in Nat \ {0} /\ c.options[k] \in OptionType
    BY EntriesAre
  <1>3. i = 1 => /\ ShowsSent(c, sent, tx.objects) /\ ShowsCfg(c, own, tx.objects)
                 /\ tx.phase = "commit" => ValidTags(c, tx.objects)
    BY <1>1 DEF FirstOK, Client1OK
  <1>4. CASE Client3_DelEntry(i)
    <2>1. /\ IdleV6 /\ clients' = Without(clients, i) /\ Save
          /\ UNCHANGED <<maxClient, aliasOfClient, own, sent, syscfg, dhcp, tx>>
      BY <1>4 DEF Client3_DelEntry
    <2>2. /\ DOMAIN clients' = DOMAIN clients \ {i}
          /\ \A j \in DOMAIN clients' : clients'[j] = clients[j]
      BY <2>1 DEF Without
    <2>3. ClientsOK(clients', maxClient')
      BY <1>1, <2>1, <2>2 DEF ClientsOK
    <2>4. FirstOK(clients', own, sent, tx)
      <3>1. CASE i = 1
        BY <1>1, <2>1, <2>2, <3>1, FirstGone DEF IdleV6
      <3>2. CASE i # 1
        BY <1>1, <2>2, <3>2, FirstSame
      <3> QED BY <3>1, <3>2
    <2> QED BY <2>1, <2>3, <2>4, BetweenTransactions
  \* a parameter of the client is set: its options stay as they are
  <1>5. ASSUME NEW e, clients' = [clients EXCEPT ![i] = e], Touch(mine),
               DOMAIN e = DOMAIN c, e.alias \in AliasType, e.enabled \in BOOLEAN,
               e.settings \in Settings, e.isNew = c.isNew, e.options = c.options,
               e.maxSent = c.maxSent, e.aliasOfSent = c.aliasOfSent,
               aliasOfClient' \in AliasType,
               UNCHANGED <<maxClient, own, sent, syscfg, registry, dhcp>>
        PROVE  V6Inv'
    <2>1. ClientOK(e) /\ (AllNew(c) => AllNew(e)) /\ CommittedOf(e) = CommittedOf(c)
      BY <1>2, <1>5 DEF ClientOK, AllNew, CommittedOf
    <2>2. EntryOK(i, e)
      BY <1>2, <1>5, <2>1 DEF EntryOK
    <2>3. i = 1 => /\ ShowsSent(e, sent, tx.objects \union {mine})
                   /\ ShowsCfg(e, own, tx.objects \union {mine})
      <3>1. i = 1 => ShowsSent(c, sent, tx.objects \union {mine})
        BY <1>3, MoreObjects
      <3>2. i = 1 => ShowsSent(e, sent, tx.objects \union {mine})
        BY <1>5, <2>1, <3>1 DEF ShowsSent
      <3> QED BY <3>2 DEF ShowsCfg
    <2> QED BY <1>5, <2>2, <2>3, EntryTouched
  <1>6. ASSUME NEW b \in BOOLEAN, Client3_SetParamBoolValue(i, b) PROVE V6Inv'
    <2> DEFINE e == [c EXCEPT !.enabled = b]
    <2>1. /\ clients' = [clients EXCEPT ![i] = e] /\ Touch(mine)
          /\ aliasOfClient' \in AliasType
          /\ UNCHANGED <<maxClient, own, sent, syscfg, registry, dhcp>>
      BY <1>1, <1>6 DEF Client3_SetParamBoolValue
    <2>2. /\ DOMAIN e = DOMAIN c /\ e.alias = c.alias /\ e.enabled = b
          /\ e.settings = c.settings /\ e.isNew = c.isNew /\ e.options = c.options
          /\ e.maxSent = c.maxSent /\ e.aliasOfSent = c.aliasOfSent
      BY <1>2 DEF ClientOK
    <2> HIDE DEF e
    <2>3. e.alias \in AliasType /\ e.enabled \in BOOLEAN /\ e.settings \in Settings
      BY <1>2, <2>2 DEF ClientOK
    <2> QED BY <1>5, <2>1, <2>2, <2>3
  <1>7. ASSUME NEW s \in Settings, Client3_SetParamIntValue(i, s) PROVE V6Inv'
    <2> DEFINE e == [c EXCEPT !.settings = s]
    <2>1. /\ clients' = [clients EXCEPT ![i] = e] /\ Touch(mine)
          /\ aliasOfClient' \in AliasType
          /\ UNCHANGED <<maxClient, own, sent, syscfg, registry, dhcp>>
      BY <1>1, <1>7 DEF Client3_SetParamIntValue
    <2>2. /\ DOMAIN e = DOMAIN c /\ e.alias = c.alias /\ e.enabled = c.enabled
          /\ e.settings = s /\ e.isNew = c.isNew /\ e.options = c.options
          /\ e.maxSent = c.maxSent /\ e.aliasOfSent = c.aliasOfSent
      BY <1>2 DEF ClientOK
    <2> HIDE DEF e
    <2>3. e.alias \in AliasType /\ e.enabled \in BOOLEAN /\ e.settings \in Settings
      BY <1>2, <2>2 DEF ClientOK
    <2> QED BY <1>5, <2>1, <2>2, <2>3
  <1>8. ASSUME NEW a \in Aliases, Client3_SetParamStringValue(i, a) PROVE V6Inv'
    <2> DEFINE e == [c EXCEPT !.alias = a]
    <2>1. /\ clients' = [clients EXCEPT ![i] = e] /\ Touch(mine)
          /\ aliasOfClient' = c.alias
          /\ UNCHANGED <<maxClient, own, sent, syscfg, registry, dhcp>>
      BY <1>8 DEF Client3_SetParamStringValue
    <2>2. /\ DOMAIN e = DOMAIN c /\ e.alias = a /\ e.enabled = c.enabled
          /\ e.settings = c.settings /\ e.isNew = c.isNew /\ e.options = c.options
          /\ e.maxSent = c.maxSent /\ e.aliasOfSent = c.aliasOfSent
      BY <1>2 DEF ClientOK
    <2> HIDE DEF e
    <2>3. e.alias \in AliasType /\ e.enabled \in BOOLEAN /\ e.settings \in Settings
          /\ c.alias \in AliasType
      BY <1>2, <2>2, SettingNames DEF ClientOK
    <2> QED BY <1>5, <2>1, <2>2, <2>3
  \* what is in the transaction of client 1 but for its own entry
  <1>9. i = 1 => /\ ShowsSent(c, sent, tx.objects \ {mine})
                 /\ tx.phase = "commit" => ValidTags(c, tx.objects \ {mine})
    <2> SUFFICES ASSUME i = 1
                 PROVE  /\ ShowsSent(c, sent, tx.objects \ {mine})
                        /\ tx.phase = "commit" => ValidTags(c, tx.objects \ {mine})
      OBVIOUS
    <2>1. \A j \in DOMAIN sent : TheOption(1, sent[j].number) # mine
      BY <1>1, KeptIs, ObjectsDiffer
    <2>2. ShowsSent(c, sent, tx.objects \ {mine})
      BY <1>3, <2>1 DEF ShowsSent
    <2> QED BY <1>3, <2>2, FewerObjects
  <1>10. i # 1 => mine # TheClient(1) /\ \A k : mine # TheOption(1, k)
    BY ObjectsDiffer
  <1>11. CASE Client3_Commit(i)
    <2>1. /\ tx.phase = "commit" /\ Finish(mine) /\ aliasOfClient' \in AliasType
          /\ UNCHANGED sent
      BY <1>11, SettingNames DEF Client3_Commit
    <2>2. CASE /\ c.isNew /\ clients' = [clients EXCEPT ![i].isNew = FALSE]
               /\ UNCHANGED maxClient /\ Save /\ UNCHANGED <<own, syscfg, dhcp>>
      <3> DEFINE e == [c EXCEPT !.isNew = FALSE]
      <3>1. clients' = [clients EXCEPT ![i] = e] /\ i # 1
        BY <1>2, <2>2
      <3>2. /\ DOMAIN e = DOMAIN c /\ e.alias = c.alias /\ e.enabled = c.enabled
            /\ e.settings = c.settings /\ e.isNew = FALSE /\ e.options = c.options
            /\ e.maxSent = c.maxSent /\ e.aliasOfSent = c.aliasOfSent
        BY <1>2 DEF ClientOK
      <3> HIDE DEF e
      <3>3. EntryOK(i, e)
        BY <1>2, <3>1, <3>2 DEF EntryOK, ClientOK, AllNew
      <3>4. ClientsOK(clients', maxClient')
        <4>1. ClientsOK(clients', maxClient)
          BY <1>1, <3>1, <3>3, ClientsEdited
        <4> QED BY <2>2, <4>1
      <3>5. RegistryOK(registry')
        BY <2>2, <3>4, RegisterOK DEF Save
      <3> QED BY <1>10, <2>1, <2>2, <3>1, <3>3, <3>5, EntryFinished
    <2>3. CASE /\ ~c.isNew /\ i = 1 /\ StoreCfg(CfgOf(clients[1]))
               /\ UNCHANGED <<clients, maxClient, registry>>
      <3> DEFINE cfg == CfgOf(c)
      <3>1. /\ syscfg' = [syscfg EXCEPT !.client = cfg] /\ own' = cfg
            /\ dhcp' = IF cfg.enabled = own.enabled /\ cfg.settings = own.settings THEN dhcp
                       ELSE IF cfg.enabled THEN StartClient(cfg.settings)
                       ELSE IF own.enabled THEN StopClient ELSE dhcp
        BY <2>3 DEF StoreCfg
      <3>2. cfg \in CfgType
        BY <1>2, CfgIs
      <3> HIDE DEF cfg
      <3>3. KeptOK(own', sent', syscfg')
        BY <1>1, <2>1, <3>1, <3>2, KeptCfg
      <3>4. RunsOK(own', sent', dhcp')
        <4>1. /\ DOMAIN dhcp = {"running", "conf", "options"}
              /\ own.enabled => dhcp.running /\ dhcp.conf = own.settings
              /\ dhcp.options = OptionFile(sent)
          BY <1>1 DEF RunsOK
        <4>2. /\ cfg.enabled \in BOOLEAN /\ own.enabled \in BOOLEAN
          BY <1>1, <3>2, KeptIs DEF CfgType
        <4>3. /\ DOMAIN dhcp' = {"running", "conf", "options"}
              /\ dhcp'.options = dhcp.options
          BY <3>1, <4>1 DEF StartClient, StopClient
        <4>4. ASSUME cfg.enabled PROVE dhcp'.running /\ dhcp'.conf = cfg.settings
          <5>1. CASE dhcp' = StartClient(cfg.settings)
            BY <4>1, <5>1 DEF StartClient
          <5>2. CASE dhcp' = dhcp /\ cfg.enabled = own.enabled /\ cfg.settings = own.settings
            <6>1. own.enabled
              BY <4>4, <5>2, Zenon
            <6> QED BY <4>1, <5>2, <6>1
          <5> QED BY <3>1, <4>4, <5>1, <5>2, Zenon
        <4> QED BY <2>1, <3>1, <4>1, <4>3, <4>4 DEF RunsOK
      <3>5. tx' = Finished(tx, mine) /\ mine \in tx.objects
        BY <2>1 DEF Finish
      <3>6. TxOK(tx')
        BY <1>1, <3>5, FinishedOK
      <3>7. ShowsCfg(clients[1], own', tx.objects \ {mine})
        BY <2>3, <3>1 DEF ShowsCfg, cfg
      <3>8. FirstOK(clients', own', sent', tx')
        <4>1. /\ ClientOK(clients[1]) /\ ShowsSent(clients[1], sent, tx.objects \ {mine})
              /\ tx.phase = "commit" => ValidTags(clients[1], tx.objects \ {mine})
          BY <1>2, <1>9, <2>3
        <4>2. KeptOK(own', sent, syscfg')
          BY <2>1, <3>3
        <4>3. FirstOK(clients, own', sent, Finished(tx, mine))
          BY <1>1, <2>1, <2>3, <3>5, <3>7, <4>1, <4>2, FirstFinished
        <4> QED BY <2>1, <2>3, <3>5, <4>3
      <3> QED BY <1>1, <2>1, <2>3, <3>3, <3>4, <3>6, <3>8, V6InvNew
    <2>4. CASE /\ ~c.isNew /\ i # 1
               /\ UNCHANGED <<clients, maxClient, registry, own, syscfg, dhcp>>
      <3>1. tx' = Finished(tx, mine) /\ mine \in tx.objects
        BY <2>1 DEF Finish
      <3>2. TxOK(tx')
        BY <1>1, <3>1, FinishedOK
      <3>3. 1 \in DOMAIN clients => ClientOK(clients[1])
        BY EntriesAre
      <3>4. FirstOK(clients, own, sent, Finished(tx, mine))
        BY <1>1, <1>10, <2>4, <3>1, <3>3, FirstFinishedOther
      <3> QED BY <1>1, <2>1, <2>4, <3>1, <3>2, <3>4, V6InvNew
    <2> QED BY <1>11, <2>2, <2>3, <2>4 DEF Client3_Commit
  <1>12. CASE Client3_Rollback(i)
    <2> DEFINE alias == IF aliasOfClient # None THEN aliasOfClient ELSE c.alias
               named == [c EXCEPT !.alias = alias]
               e == IF named.isNew THEN [named EXCEPT !.enabled = FALSE]
                    ELSE IF i = 1 THEN SetCfg(named, own) ELSE named
    <2>1. /\ tx.phase = "rollback" /\ Finish(mine) /\ aliasOfClient' \in AliasType
          /\ UNCHANGED <<maxClient, own, sent, syscfg, registry, dhcp>>
          /\ clients' = [clients EXCEPT ![i] = e]
      BY <1>12, SettingNames DEF Client3_Rollback
    <2>2. alias \in AliasType
      BY <1>1, <1>2 DEF ClientOK
    <2> HIDE DEF alias
    <2>3. /\ DOMAIN named = DOMAIN c /\ named.alias = alias /\ named.enabled = c.enabled
          /\ named.settings = c.settings /\ named.isNew = c.isNew
          /\ named.options = c.options /\ named.maxSent = c.maxSent
          /\ named.aliasOfSent = c.aliasOfSent
      BY <1>2 DEF ClientOK
    <2> HIDE DEF named
    <2>4. ClientOK(named) /\ (AllNew(c) => AllNew(named))
      BY <1>2, <2>2, <2>3 DEF ClientOK, AllNew
    <2>5. CASE i = 1
      <3>1. e = SetCfg(named, own)
        BY <1>2, <2>3, <2>5
      <3>2. own \in CfgType
        BY <1>1, KeptIs
      <3>3. /\ ClientOK(e) /\ CfgOf(e) = own /\ e.options = c.options /\ ~e.isNew
        BY <1>2, <2>3, <2>4, <2>5, <3>1, <3>2, SetCfgIs
      <3> HIDE DEF e
      <3>4. ShowsSent(e, sent, tx.objects \ {mine})
        BY <1>9, <2>5, <3>3 DEF ShowsSent, CommittedOf
      <3>5. EntryOK(i, e) /\ ShowsCfg(e, own, tx.objects \ {mine})
        BY <2>5, <3>3 DEF EntryOK, ShowsCfg
      <3>6. tx.phase # "commit"
        BY <2>1
      <3> QED BY <1>1, <2>1, <2>5, <3>4, <3>5, <3>6, EntryFinished
    <2>6. CASE i # 1
      <3>1. EntryOK(i, e)
        <4>1. CASE named.isNew
          <5> DEFINE d == [named EXCEPT !.enabled = FALSE]
          <5>1. e = d
            BY <4>1
          <5>2. /\ DOMAIN d = DOMAIN named /\ d.alias = named.alias /\ d.enabled = FALSE
                /\ d.settings = named.settings /\ d.isNew = named.isNew
                /\ d.options = named.options /\ d.maxSent = named.maxSent
                /\ d.aliasOfSent = named.aliasOfSent
            BY <2>4 DEF ClientOK
          <5> HIDE DEF d
          <5>3. EntryOK(i, d)
            BY <1>2, <2>4, <2>6, <5>2 DEF EntryOK, ClientOK, AllNew
          <5> QED BY <5>1, <5>3
        <4>2. CASE ~named.isNew
          <5>1. e = named
            BY <2>6, <4>2
          <5> QED BY <1>2, <2>4, <2>6, <5>1 DEF EntryOK
        <4> QED BY <4>1, <4>2
      <3> HIDE DEF e
      <3> QED BY <1>1, <1>10, <2>1, <2>6, <3>1, EntryFinished
    <2> QED BY <2>5, <2>6
  <1>13. CASE SentOption1_AddEntry(i)
    <2> DEFINE k == c.maxSent + 1
               o == Option(<<"SentOption", k>>, TRUE)
               opts == With(c.options, k, o)
               e == [c EXCEPT !.maxSent = k, !.options = opts]
    <2>1. /\ IdleV6 /\ clients' = [clients EXCEPT ![i] = e] /\ Save
          /\ UNCHANGED <<maxClient, aliasOfClient, own, sent, syscfg, dhcp, tx>>
      BY <1>13 DEF SentOption1_AddEntry
    <2>2. c.maxSent \in Nat /\ k \in Nat /\ k > c.maxSent /\ k \notin DOMAIN c.options
      BY <1>2 DEF ClientOK
    <2>3. o \in OptionType /\ o.isNew
      BY <2>2, SettingNames, OptionIs
    <2> HIDE DEF o
    <2>4. /\ DOMAIN opts = DOMAIN c.options \union {k} /\ opts[k] = o
          /\ \A m \in DOMAIN c.options : opts[m] = c.options[m]
      BY <2>2 DEF With
    <2> HIDE DEF opts
    <2>5. /\ Alike(c, e) /\ e.maxSent = k /\ e.options = opts
          /\ e.aliasOfSent \in AliasType
      BY <1>2 DEF ClientOK, Alike
    <2> HIDE DEF e
    <2>6. ASSUME NEW m \in DOMAIN opts PROVE m \in 1 .. k /\ opts[m] \in OptionType
      <3>1. CASE m = k
        BY <2>2, <2>3, <2>4, <3>1
      <3>2. CASE m # k
        BY <1>2, <2>2, <2>4, <3>2 DEF ClientOK
      <3> QED BY <3>1, <3>2
    <2> HIDE DEF k
    <2>7. ClientOK(e) /\ e.isNew = c.isNew /\ CfgOf(e) = CfgOf(c)
      BY <1>2, <2>2, <2>5, <2>6, AlikeIs
    <2>8. (AllNew(c) => AllNew(e)) /\ CommittedOf(e) = CommittedOf(c)
      BY <2>2, <2>3, <2>4, <2>5 DEF AllNew, CommittedOf
    <2>9. EntryOK(i, e)
      BY <1>2, <2>7, <2>8 DEF EntryOK
    <2>10. /\ ClientsOK(clients', maxClient') /\ DOMAIN clients' = DOMAIN clients
           /\ clients'[i] = e /\ \A j \in DOMAIN clients : j # i => clients'[j] = clients[j]
      BY <1>1, <2>1, <2>9, ClientsEdited
    <2>11. FirstOK(clients', own, sent, tx)
      <3>1. CASE i = 1
        <4>1. ShowsSent(e, sent, tx.objects)
          <5>1. \A j \in DOMAIN sent : sent[j].number \in DOMAIN c.options
            BY <1>3, <3>1 DEF ShowsSent, CommittedOf
          <5>2. \A j \in DOMAIN sent : e.options[sent[j].number] = c.options[sent[j].number]
            BY <2>4, <2>5, <5>1
          <5> QED BY <1>3, <2>8, <3>1, <5>2 DEF ShowsSent
        <4>2. ShowsCfg(e, own, tx.objects)
          BY <1>3, <2>7, <3>1 DEF ShowsCfg
        <4>3. tx.phase # "commit"
          BY <2>1 DEF IdleV6
        <4> QED BY <1>1, <2>10, <3>1, <4>1, <4>2, <4>3 DEF FirstOK, Client1OK
      <3>2. CASE i # 1
        BY <1>1, <2>10, <3>2, FirstSame
      <3> QED BY <3>1, <3>2
    <2> QED BY <2>1, <2>10, <2>11, BetweenTransactions
  <1> QED BY <1>4, <1>6, <1>7, <1>8, <1>11, <1>12, <1>13 DEF ClientStep

\* A client with another option k
LEMMA OptionEdited ==
    ASSUME NEW c, ClientOK(c), NEW k \in DOMAIN c.options, NEW o \in OptionType,
           NEW e, Alike(c, e), e.maxSent = c.maxSent, e.aliasOfSent \in AliasType,
           e.options = [c.options EXCEPT ![k] = o]
    PROVE  /\ ClientOK(e) /\ CfgOf(e) = CfgOf(c) /\ e.isNew = c.isNew
           /\ AllNew(c) /\ o.isNew => AllNew(e)
           /\ DOMAIN e.options = DOMAIN c.options /\ e.options[k] = o
           /\ \A m \in DOMAIN c.options : m # k => e.options[m] = c.options[m]
  <1>1. /\ DOMAIN e.options = DOMAIN c.options /\ e.options[k] = o
        /\ \A m \in DOMAIN c.options : m # k => e.options[m] = c.options[m]
    OBVIOUS
  <1>2. \A m \in DOMAIN e.options : m \in 1 .. e.maxSent /\ e.options[m] \in OptionType
    BY <1>1 DEF ClientOK
  <1>3. e.maxSent \in Nat
    BY DEF ClientOK
  <1>4. ClientOK(e) /\ CfgOf(e) = CfgOf(c) /\ e.isNew = c.isNew
    BY <1>2, <1>3, AlikeIs
  <1>5. AllNew(c) /\ o.isNew => AllNew(e)
    BY <1>1 DEF AllNew
  <1> QED BY <1>1, <1>4, <1>5

LEMMA OptionSetKeeps ==
    ASSUME V6Inv, NEW i \in DOMAIN clients, NEW k \in OptionNumbers(i),
           NEW o \in OptionType, o.isNew <=> clients[i].options[k].isNew,
           NEW e, Alike(clients[i], e), e.maxSent = clients[i].maxSent,
           e.aliasOfSent \in AliasType,
           e.options = [clients[i].options EXCEPT ![k] = o],
           clients' = [clients EXCEPT ![i] = e], Touch(TheOption(i, k)),
           UNCHANGED <<maxClient, aliasOfClient, own, sent, syscfg, registry, dhcp>>
    PROVE  V6Inv'
  <1> DEFINE c == clients[i]
             yours == TheOption(i, k)
             objects == tx.objects \union {yours}
  <1>1. /\ FirstOK(clients, own, sent, tx) /\ aliasOfClient \in AliasType
    BY DEF V6Inv
  <1>2. /\ EntryOK(i, c) /\ ClientOK(c) /\ (i = 1 => ~c.isNew) /\ (i # 1 => AllNew(c))
        /\ k \in DOMAIN c.options
    BY EntriesAre DEF OptionNumbers
  <1>3. /\ ClientOK(e) /\ CfgOf(e) = CfgOf(c) /\ e.isNew = c.isNew
        /\ AllNew(c) /\ o.isNew => AllNew(e)
        /\ DOMAIN e.options = DOMAIN c.options /\ e.options[k] = o
        /\ \A m \in DOMAIN c.options : m # k => e.options[m] = c.options[m]
    BY <1>2, OptionEdited
  <1>4. EntryOK(i, e)
    BY <1>2, <1>3 DEF EntryOK, AllNew
  <1>5. ASSUME i = 1 PROVE ShowsSent(e, sent, objects) /\ ShowsCfg(e, own, objects)
    <2>1. ShowsSent(c, sent, tx.objects) /\ ShowsCfg(c, own, tx.objects)
      BY <1>1, <1>5 DEF FirstOK, Client1OK
    <2>2. /\ TheOption(1, k) \in objects
          /\ \A m : TheOption(1, m) \in tx.objects => TheOption(1, m) \in objects
      BY <1>5
    <2>3. ShowsCfg(e, own, objects)
      BY <1>3, <2>1 DEF ShowsCfg
    <2> HIDE DEF objects, c
    <2>4. k \in DOMAIN c.options /\ (o.isNew <=> c.options[k].isNew)
      BY <1>2 DEF c
    <2>5. ShowsSent(e, sent, objects)
      BY <1>3, <2>1, <2>2, <2>4, OptionShown
    <2> QED BY <2>3, <2>5
  <1>6. aliasOfClient' \in AliasType
    BY <1>1
  <1> QED BY <1>4, <1>5, <1>6, EntryTouched

LEMMA SetOptionKeeps ==
    ASSUME V6Inv, NEW i \in DOMAIN clients, NEW k \in OptionNumbers(i),
           \/ \E b \in BOOLEAN : SentOption1_SetParamBoolValue(i, k, b)
           \/ \E t \in Tags : SentOption1_SetParamUlongValue(i, k, t)
           \/ \E a \in Aliases : SentOption1_SetParamStringValue(i, k, a)
    PROVE  V6Inv'
  <1> DEFINE c == clients[i]
             p == c.options[k]
  <1>1. ClientOK(c) /\ k \in DOMAIN c.options /\ p \in OptionType
    BY EntriesAre DEF OptionNumbers
  <1>2. /\ p.alias \in AliasType /\ p.enabled \in BOOLEAN /\ p.tag \in Nat
        /\ p.isNew \in BOOLEAN /\ DOMAIN p = {"alias", "enabled", "tag", "isNew"}
    BY <1>1 DEF OptionType
  <1>3. ASSUME NEW b \in BOOLEAN, SentOption1_SetParamBoolValue(i, k, b) PROVE V6Inv'
    <2> DEFINE o == [p EXCEPT !.enabled = b]
               opts == [c.options EXCEPT ![k] = o]
               e == [c EXCEPT !.options = opts]
    <2>1. /\ clients' = [clients EXCEPT ![i] = e] /\ Touch(TheOption(i, k))
          /\ UNCHANGED <<maxClient, aliasOfClient, own, sent, syscfg, registry, dhcp>>
      BY <1>3 DEF SentOption1_SetParamBoolValue
    <2>2. o \in OptionType
      BY <1>1 DEF OptionType
    <2>3. o.isNew <=> p.isNew
      BY <1>2
    <2> HIDE DEF o
    <2>4. /\ Alike(c, e) /\ e.maxSent = c.maxSent /\ e.aliasOfSent \in AliasType
          /\ e.options = opts
      BY <1>1 DEF ClientOK, Alike
    <2> HIDE DEF e
    <2> QED BY <2>1, <2>2, <2>3, <2>4, OptionSetKeeps
  <1>4. ASSUME NEW t \in Tags, SentOption1_SetParamUlongValue(i, k, t) PROVE V6Inv'
    <2> DEFINE o == [p EXCEPT !.tag = t % 256]
               opts == [c.options EXCEPT ![k] = o]
               e == [c EXCEPT !.options = opts]
    <2>1. /\ clients' = [clients EXCEPT ![i] = e] /\ Touch(TheOption(i, k))
          /\ UNCHANGED <<maxClient, aliasOfClient, own, sent, syscfg, registry, dhcp>>
      BY <1>4 DEF SentOption1_SetParamUlongValue
    <2>2. t % 256 \in Nat
      BY TableBounds
    <2>3. o \in OptionType
      BY <1>1, <2>2 DEF OptionType
    <2>4. o.isNew <=> p.isNew
      BY <1>2
    <2> HIDE DEF o
    <2>5. /\ Alike(c, e) /\ e.maxSent = c.maxSent /\ e.aliasOfSent \in AliasType
          /\ e.options = opts
      BY <1>1 DEF ClientOK, Alike
    <2> HIDE DEF e
    <2> QED BY <2>1, <2>3, <2>4, <2>5, OptionSetKeeps
  <1>5. ASSUME NEW a \in Aliases, SentOption1_SetParamStringValue(i, k, a) PROVE V6Inv'
    <2> DEFINE o == [p EXCEPT !.alias = a]
               opts == [c.options EXCEPT ![k] = o]
               e == [c EXCEPT !.aliasOfSent = p.alias, !.options = opts]
    <2>5. /\ Touch(TheOption(i, k))
          /\ clients' = [clients EXCEPT ![i].aliasOfSent = clients[i].options[k].alias,
                                        ![i].options[k].alias = a]
          /\ UNCHANGED <<maxClient, aliasOfClient, own, sent, syscfg, registry, dhcp>>
      BY <1>5 DEF SentOption1_SetParamStringValue
    <2>1. clients' = [clients EXCEPT ![i] = e]
      BY <2>5, Zenon
    <2>2. o \in OptionType
      BY <1>1, SettingNames DEF OptionType
    <2>3. o.isNew <=> p.isNew
      BY <1>2
    <2> HIDE DEF o
    <2>4. /\ Alike(c, e) /\ e.maxSent = c.maxSent /\ e.aliasOfSent \in AliasType
          /\ e.options = opts
      BY <1>1, <1>2 DEF ClientOK, Alike
    <2> HIDE DEF e
    <2> QED BY <2>5, <2>1, <2>2, <2>3, <2>4, OptionSetKeeps
  <1> QED BY <1>3, <1>4, <1>5

\* Without option k, which client 1 no longer shows nor the back end has
LEMMA DelOptionKeeps ==
    ASSUME V6Inv, NEW i \in DOMAIN clients, NEW k \in OptionNumbers(i),
           SentOption1_DelEntry(i, k)
    PROVE  V6Inv'
  <1> DEFINE c == clients[i]
             opts == Without(c.options, k)
             e == [c EXCEPT !.options = opts]
  <1>1. /\ ClientsOK(clients, maxClient) /\ aliasOfClient \in AliasType
        /\ KeptOK(own, sent, syscfg) /\ RunsOK(own, sent, dhcp)
        /\ TxOK(tx) /\ FirstOK(clients, own, sent, tx)
    BY DEF V6Inv
  <1>2. /\ EntryOK(i, c) /\ ClientOK(c) /\ (i = 1 => ~c.isNew) /\ (i # 1 => AllNew(c))
        /\ k \in DOMAIN c.options
    BY EntriesAre DEF OptionNumbers
  <1>3. /\ IdleV6 /\ Save /\ clients' = [clients EXCEPT ![i] = e]
        /\ UNCHANGED <<maxClient, aliasOfClient, own, tx>>
        /\ \/ c.options[k].isNew /\ UNCHANGED <<sent, syscfg, dhcp>>
           \/ /\ ~c.options[k].isNew /\ i = 1
              /\ \E j \in Position(k) : WanMgr_DmlDhcpv6cDelSentOption(j)
    BY DEF SentOption1_DelEntry
  <1>4. /\ DOMAIN opts = DOMAIN c.options \ {k}
        /\ \A m \in DOMAIN opts : opts[m] = c.options[m]
    BY DEF Without
  <1>5. /\ Alike(c, e) /\ e.options = opts /\ e.maxSent = c.maxSent
        /\ e.aliasOfSent \in AliasType /\ e.maxSent \in Nat
    BY <1>2 DEF ClientOK, Alike
  <1> HIDE DEF e, opts
  <1>6. \A m \in DOMAIN e.options : m \in 1 .. e.maxSent /\ e.options[m] \in OptionType
    BY <1>2, <1>4, <1>5 DEF ClientOK
  <1>7. ClientOK(e) /\ CfgOf(e) = CfgOf(c) /\ e.isNew = c.isNew
    BY <1>2, <1>5, <1>6, AlikeIs
  <1>8. (AllNew(c) => AllNew(e)) /\ CommittedOf(e) = CommittedOf(c) \ {k}
    BY <1>4, <1>5 DEF AllNew, CommittedOf
  <1>9. EntryOK(i, e)
    BY <1>2, <1>7, <1>8 DEF EntryOK
  <1>10. /\ ClientsOK(clients', maxClient') /\ DOMAIN clients' = DOMAIN clients
         /\ clients'[i] = e /\ \A j \in DOMAIN clients : j # i => clients'[j] = clients[j]
    BY <1>1, <1>3, <1>9, ClientsEdited
  <1>11. tx.phase # "commit" /\ tx.objects = {}
    BY <1>1, <1>3 DEF IdleV6, TxOK
  <1>12. i = 1 => /\ CommittedOf(c) = {sent[j].number : j \in DOMAIN sent}
                  /\ \A j \in DOMAIN sent :
                        Numbered(sent[j].number, c.options[sent[j].number]) = sent[j]
                  /\ CfgOf(c) = own
    BY <1>1, <1>11 DEF FirstOK, Client1OK, ShowsSent, ShowsCfg
  <1>13. CASE c.options[k].isNew /\ UNCHANGED <<sent, syscfg, dhcp>>
    <2>1. FirstOK(clients', own, sent, tx)
      <3>1. CASE i = 1
        <4>1. k \notin CommittedOf(c)
          BY <1>13 DEF CommittedOf
        <4>2. \A j \in DOMAIN sent : sent[j].number # k /\ sent[j].number \in DOMAIN c.options
          BY <1>12, <3>1, <4>1 DEF CommittedOf
        <4>3. CommittedOf(e) = CommittedOf(c)
          BY <1>8, <4>1
        <4>4. ShowsSent(e, sent, tx.objects)
          BY <1>4, <1>5, <1>12, <3>1, <4>2, <4>3 DEF ShowsSent
        <4>5. ShowsCfg(e, own, tx.objects)
          BY <1>7, <1>12, <3>1 DEF ShowsCfg
        <4> QED BY <1>1, <1>10, <1>11, <3>1, <4>4, <4>5 DEF FirstOK, Client1OK
      <3>2. CASE i # 1
        BY <1>1, <1>10, <3>2, FirstSame
      <3> QED BY <3>1, <3>2
    <2> QED BY <1>3, <1>10, <1>13, <2>1, BetweenTransactions
  <1>14. CASE /\ ~c.options[k].isNew /\ i = 1
              /\ \E j \in Position(k) : WanMgr_DmlDhcpv6cDelSentOption(j)
    <2>1. PICK x \in Position(k) : WanMgr_DmlDhcpv6cDelSentOption(x)
      BY <1>14
    <2>2. x \in DOMAIN sent /\ sent[x].number = k
      BY DEF Position
    <2>3. /\ sent' = CutAt(sent, x) /\ syscfg' = [syscfg EXCEPT !.options = CutAt(@, x)]
          /\ dhcp' = IF sent[x].enabled THEN Sends(dhcp, sent') ELSE dhcp
      BY <2>1 DEF WanMgr_DmlDhcpv6cDelSentOption, CutAt, SendOptions, Sends
    <2>4. KeptOK(own', sent', syscfg')
      BY <1>1, <1>3, <2>2, <2>3, KeptCut
    <2>5. RunsOK(own', sent', dhcp')
      <3>1. CASE sent[x].enabled
        BY <1>1, <1>3, <2>3, <3>1, RunsSends
      <3>2. CASE ~sent[x].enabled
        <4>1. OptionFile(sent') = OptionFile(sent)
          BY <1>1, <2>2, <2>3, <3>2, FileCut DEF KeptOK
        <4> QED BY <1>1, <1>3, <2>3, <3>2, <4>1 DEF RunsOK
      <3> QED BY <3>1, <3>2
    <2> DEFINE L == Len(sent)
    <2>6. /\ L \in Nat /\ DOMAIN sent = 1 .. L /\ x \in 1 .. L /\ NumbersOnce(sent)
          /\ \A j \in 1 .. L : sent[j] \in SentType
      BY <1>1, <2>2, KeptIs
    <2>7. /\ DOMAIN sent' = 1 .. L - 1
          /\ \A n \in 1 .. L - 1 : sent'[n] = IF n < x THEN sent[n] ELSE sent[n + 1]
      BY <2>3 DEF CutAt
    <2> DEFINE From(n) == IF n < x THEN n ELSE n + 1
    <2> HIDE DEF L
    <2>8. ASSUME NEW n \in 1 .. L - 1
          PROVE  From(n) \in 1 .. L /\ From(n) # x /\ sent'[n] = sent[From(n)]
      BY <2>6, <2>7
    <2>9. \A n, m \in 1 .. L - 1 : From(n) = From(m) => n = m
      BY <2>6
    <2>10. ASSUME NEW m \in 1 .. L, m # x PROVE \E n \in 1 .. L - 1 : From(n) = m
      <3>1. CASE m < x
        <4>1. m \in 1 .. L - 1
          BY <2>6, <3>1
        <4> QED BY <3>1, <4>1
      <3>2. CASE ~(m < x)
        <4>1. m - 1 \in 1 .. L - 1 /\ ~(m - 1 < x) /\ m - 1 + 1 = m
          BY <2>6, <2>10, <3>2
        <4> QED BY <4>1
      <3> QED BY <3>1, <3>2
    <2> HIDE DEF From
    <2>11. {sent'[n].number : n \in DOMAIN sent'} = CommittedOf(c) \ {k}
      <3>1. CommittedOf(c) = {sent[j].number : j \in 1 .. L}
        BY <1>12, <1>14, <2>6
      <3>2. ASSUME NEW n \in 1 .. L - 1
            PROVE  sent'[n].number \in CommittedOf(c) \ {k}
        BY <2>2, <2>6, <2>8, <3>1 DEF NumbersOnce
      <3>3. ASSUME NEW q \in CommittedOf(c) \ {k}
            PROVE  \E n \in 1 .. L - 1 : sent'[n].number = q
        <4>1. PICK m \in 1 .. L : sent[m].number = q
          BY <3>1
        <4>2. m # x
          BY <2>2, <4>1
        <4>3. PICK n \in 1 .. L - 1 : From(n) = m
          BY <2>10, <4>2
        <4> QED BY <2>8, <4>1, <4>3
      <3> QED BY <2>7, <3>2, <3>3
    <2>12. FirstOK(clients', own', sent', tx')
      <3>1. ShowsSent(e, sent', tx.objects)
        <4>1. ASSUME NEW n \in 1 .. L - 1
              PROVE  Numbered(sent'[n].number, e.options[sent'[n].number]) = sent'[n]
          <5> DEFINE m == From(n)
                     q == sent[m].number
          <5>1. m \in 1 .. L /\ m # x /\ sent'[n] = sent[m]
            BY <2>8
          <5>2. q # k /\ q \in DOMAIN c.options
            BY <1>12, <1>14, <2>2, <2>6, <5>1 DEF NumbersOnce, CommittedOf
          <5>3. e.options[q] = c.options[q]
            BY <1>4, <1>5, <5>2
          <5>4. Numbered(q, c.options[q]) = sent[m]
            BY <1>12, <1>14, <2>6, <5>1
          <5> QED BY <5>1, <5>3, <5>4
        <4> QED BY <1>8, <2>7, <2>11, <4>1 DEF ShowsSent
      <3>2. ShowsCfg(e, own, tx.objects)
        BY <1>7, <1>12, <1>14 DEF ShowsCfg
      <3>3. SentTags(sent')
        <4>1. SentTags(sent)
          BY <1>1, <1>11 DEF FirstOK
        <4> QED BY <2>6, <2>7, <2>8, <2>9, <4>1 DEF SentTags
      <3>4. FirstOK(clients', own, sent', tx)
        BY <1>10, <1>11, <1>14, <3>1, <3>2, <3>3 DEF FirstOK, Client1OK
      <3> QED BY <1>3, <3>4
    <2>13. RegistryOK(registry')
      BY <1>3, <1>10, RegisterOK DEF Save
    <2> QED BY <1>1, <1>3, <1>10, <2>4, <2>5, <2>12, <2>13, V6InvNew
  <1> QED BY <1>3, <1>13, <1>14

LEMMA RollbackOptionKeeps ==
    ASSUME V6Inv, NEW i \in DOMAIN clients, NEW k \in OptionNumbers(i),
           SentOption1_Rollback(i, k)
    PROVE  V6Inv'
  <1> DEFINE c == clients[i]
             p == c.options[k]
             yours == TheOption(i, k)
             alias == IF c.aliasOfSent # None THEN c.aliasOfSent ELSE p.alias
             Back(j) == [alias |-> sent[j].alias, enabled |-> sent[j].enabled,
                         tag |-> sent[j].tag, isNew |-> FALSE]
             old == IF p.isNew THEN Option(alias, TRUE)
                    ELSE IF Position(k) # {} THEN Back(CHOOSE j \in Position(k) : TRUE)
                    ELSE [p EXCEPT !.alias = alias]
             opts == [c.options EXCEPT ![k] = old]
             e == [c EXCEPT !.aliasOfSent = None, !.options = opts]
  <1>1. /\ aliasOfClient \in AliasType /\ RegistryOK(registry)
        /\ KeptOK(own, sent, syscfg) /\ FirstOK(clients, own, sent, tx)
    BY DEF V6Inv
  <1>2. /\ EntryOK(i, c) /\ ClientOK(c) /\ (i = 1 => ~c.isNew) /\ (i # 1 => AllNew(c))
        /\ k \in DOMAIN c.options /\ p \in OptionType /\ k \in Nat \ {0}
    BY EntriesAre DEF OptionNumbers
  <1>3. /\ tx.phase = "rollback" /\ Finish(yours)
        /\ clients' = [clients EXCEPT ![i].aliasOfSent = None, ![i].options[k] = old]
        /\ UNCHANGED <<maxClient, aliasOfClient, own, sent, syscfg, registry, dhcp>>
    BY DEF SentOption1_Rollback
  <1>4. clients' = [clients EXCEPT ![i] = e]
    <2> HIDE DEF old
    <2> QED BY <1>3, Zenon
  <1>5. alias \in AliasType
    BY <1>2 DEF ClientOK, OptionType
  <1> HIDE DEF alias
  <1>6. CASE p.isNew
    <2>1. old \in OptionType /\ old.isNew
      BY <1>5, <1>6, OptionIs
    <2> HIDE DEF old
    <2>2. /\ Alike(c, e) /\ e.maxSent = c.maxSent /\ e.aliasOfSent \in AliasType
          /\ e.options = opts
      BY <1>2, SettingNames DEF ClientOK, Alike
    <2> HIDE DEF e
    <2>3. /\ ClientOK(e) /\ CfgOf(e) = CfgOf(c) /\ e.isNew = c.isNew
          /\ AllNew(c) => AllNew(e)
          /\ DOMAIN e.options = DOMAIN c.options /\ e.options[k] = old
          /\ \A m \in DOMAIN c.options : m # k => e.options[m] = c.options[m]
      BY <1>2, <2>1, <2>2, OptionEdited
    <2>4. EntryOK(i, e)
      BY <1>2, <2>3 DEF EntryOK
    <2>5. ASSUME i = 1
          PROVE  ShowsSent(e, sent, tx.objects \ {yours}) /\ ShowsCfg(e, own, tx.objects \ {yours})
      <3> DEFINE B == tx.objects \ {yours}
      <3>1. ShowsSent(c, sent, tx.objects) /\ ShowsCfg(c, own, tx.objects)
        BY <1>1, <2>5 DEF FirstOK, Client1OK
      <3>2. /\ TheClient(1) \in tx.objects => TheClient(1) \in B
            /\ \A m : m # k /\ TheOption(1, m) \in tx.objects => TheOption(1, m) \in B
        BY <1>2, ObjectsDiffer
      <3>3. \A j \in DOMAIN sent : sent[j].number # k
        BY <1>6, <3>1 DEF ShowsSent, CommittedOf
      <3>4. ShowsCfg(e, own, B)
        BY <2>3, <3>1, <3>2 DEF ShowsCfg
      <3> HIDE DEF B
      <3>5. k \in DOMAIN c.options /\ (old.isNew <=> c.options[k].isNew)
        BY <1>2, <1>6, <2>1
      <3> HIDE DEF c
      <3>6. ShowsSent(e, sent, B)
        <4>1. \/ TheOption(1, k) \in B
              \/ \A j \in DOMAIN sent : sent[j].number = k => Numbered(k, old) = sent[j]
          BY <3>3
        <4> QED BY <2>3, <3>1, <3>2, <3>5, <4>1, OptionShown
      <3> QED BY <3>4, <3>6 DEF B
    <2>6. i # 1 => yours # TheClient(1) /\ \A m : yours # TheOption(1, m)
      BY ObjectsDiffer
    <2>7. aliasOfClient' \in AliasType /\ RegistryOK(registry') /\ tx.phase # "commit"
      BY <1>1, <1>3
    <2> QED BY <1>3, <1>4, <2>4, <2>5, <2>6, <2>7, EntryFinished
  <1>7. CASE ~p.isNew
    <2>1. i = 1
      BY <1>2, <1>7 DEF AllNew
    <2>2. ShowsSent(c, sent, tx.objects) /\ ShowsCfg(c, own, tx.objects)
      BY <1>1, <2>1 DEF FirstOK, Client1OK
    <2>3. k \in CommittedOf(c)
      BY <1>2, <1>7 DEF CommittedOf
    <2>4. PICK x \in DOMAIN sent : sent[x].number = k
      BY <2>2, <2>3 DEF ShowsSent
    <2>5. Position(k) = {x}
      BY <1>1, <2>4, KeptIs DEF Position, NumbersOnce
    <2>6. old = Back(x)
      BY <1>7, <2>5
    <2>7. sent[x] \in SentType
      BY <1>1, <2>4, KeptIs
    <2> HIDE DEF old
    <2>8. old \in OptionType /\ old.isNew = FALSE
      BY <2>6, <2>7 DEF SentType, OptionType
    <2>9. Numbered(k, old) = sent[x]
      <3>1. old.alias = sent[x].alias /\ old.enabled = sent[x].enabled /\ old.tag = sent[x].tag
        BY <2>6
      <3>2. sent[x] = [number |-> sent[x].number, alias |-> sent[x].alias,
                       enabled |-> sent[x].enabled, tag |-> sent[x].tag]
        BY <2>7 DEF SentType
      <3> QED BY <2>4, <3>1, <3>2, Zenon DEF Numbered
    <2>10. /\ Alike(c, e) /\ e.maxSent = c.maxSent /\ e.aliasOfSent \in AliasType
           /\ e.options = opts
      BY <1>2, SettingNames DEF ClientOK, Alike
    <2> HIDE DEF e
    <2>11. /\ ClientOK(e) /\ CfgOf(e) = CfgOf(c) /\ e.isNew = c.isNew
           /\ DOMAIN e.options = DOMAIN c.options /\ e.options[k] = old
           /\ \A m \in DOMAIN c.options : m # k => e.options[m] = c.options[m]
      BY <1>2, <2>8, <2>10, OptionEdited
    <2>12. EntryOK(i, e)
      BY <1>2, <2>1, <2>11 DEF EntryOK
    <2> DEFINE B == tx.objects \ {yours}
    <2>13. /\ TheClient(1) \in tx.objects => TheClient(1) \in B
           /\ \A m : m # k /\ TheOption(1, m) \in tx.objects => TheOption(1, m) \in B
      BY <1>2, ObjectsDiffer
    <2>14. ShowsCfg(e, own, B)
      BY <2>2, <2>11, <2>13 DEF ShowsCfg
    <2>15. \A j \in DOMAIN sent : sent[j].number = k => Numbered(k, old) = sent[j]
      BY <2>5, <2>9 DEF Position
    <2>16. ShowsSent(e, sent, B)
      <3>1. k \in DOMAIN c.options /\ (old.isNew <=> c.options[k].isNew)
        BY <1>2, <1>7, <2>8
      <3> HIDE DEF B, c
      <3>2. \/ TheOption(1, k) \in B
            \/ \A j \in DOMAIN sent : sent[j].number = k => Numbered(k, old) = sent[j]
        BY <2>15
      <3>3. \A m : m # k /\ TheOption(1, m) \in tx.objects => TheOption(1, m) \in B
        BY <2>13
      <3> QED BY <2>2, <2>11, <3>1, <3>2, <3>3, OptionShown
    <2>17. aliasOfClient' \in AliasType /\ RegistryOK(registry') /\ tx.phase # "commit"
      BY <1>1, <1>3
    <2> QED BY <1>3, <1>4, <2>1, <2>12, <2>14, <2>16, <2>17, EntryFinished
  <1> QED BY <1>6, <1>7

LEMMA CommitOptionKeeps ==
    ASSUME V6Inv, NEW i \in DOMAIN clients, NEW k \in OptionNumbers(i),
           SentOption1_Commit(i, k)
    PROVE  V6Inv'
  <1> DEFINE c == clients[i]
             p == c.options[k]
             yours == TheOption(i, k)
             left == tx.objects \ {yours}
             told == Numbered(k, p)
  <1>1. /\ ClientsOK(clients, maxClient) /\ aliasOfClient \in AliasType
        /\ RegistryOK(registry) /\ TxOK(tx)
        /\ KeptOK(own, sent, syscfg) /\ RunsOK(own, sent, dhcp)
        /\ FirstOK(clients, own, sent, tx)
    BY DEF V6Inv
  <1>2. /\ EntryOK(i, c) /\ ClientOK(c) /\ (i = 1 => ~c.isNew) /\ (i # 1 => AllNew(c))
        /\ k \in DOMAIN c.options /\ p \in OptionType /\ k \in Nat \ {0}
    BY EntriesAre DEF OptionNumbers
  <1>3. /\ tx.phase = "commit" /\ yours \in tx.objects /\ tx' = Finished(tx, yours)
        /\ Finish(yours) /\ UNCHANGED <<aliasOfClient, own>>
    BY DEF SentOption1_Commit, Finish
  <1>4. TxOK(tx')
    BY <1>1, <1>3, FinishedOK
  <1>5. told \in SentType /\ told.number = k /\ told.enabled = p.enabled
        /\ told.tag = p.tag
    BY <1>2, NumberedIs
  <1>6. ASSUME i = 1
        PROVE  /\ ShowsSent(c, sent, tx.objects) /\ ValidTags(c, tx.objects)
               /\ ShowsCfg(c, own, left)
    <2>1. ShowsCfg(c, own, tx.objects) /\ ShowsSent(c, sent, tx.objects)
          /\ ValidTags(c, tx.objects)
      BY <1>1, <1>3, <1>6 DEF FirstOK, Client1OK
    <2>2. TheClient(1) \in tx.objects => TheClient(1) \in left
      BY <1>2, ObjectsDiffer
    <2> QED BY <2>1, <2>2 DEF ShowsCfg
  <1>7. CASE /\ p.isNew /\ i = 1 /\ WanMgr_DmlDhcpv6cAddSentOption(told)
             /\ clients' = [clients EXCEPT ![i] =
                  [[c EXCEPT !.aliasOfSent = None] EXCEPT !.options[k].isNew = FALSE]]
             /\ UNCHANGED maxClient /\ Save
    <2> DEFINE o == [p EXCEPT !.isNew = FALSE]
               opts == [c.options EXCEPT ![k] = o]
               f == [c EXCEPT !.aliasOfSent = None]
               e == [f EXCEPT !.options = opts]
    <2>1. f.options = c.options
      BY <1>2 DEF ClientOK
    <2>2. [f EXCEPT !.options[k].isNew = FALSE] = e
      <3> HIDE DEF f
      <3>1. [f EXCEPT !.options[k].isNew = FALSE]
              = [f EXCEPT !.options = [f.options EXCEPT ![k] = [f.options[k] EXCEPT !.isNew = FALSE]]]
        BY Zenon
      <3> QED BY <2>1, <3>1
    <2>3. clients' = [clients EXCEPT ![i] = e]
      BY <1>7, <2>2
    <2>4. o \in OptionType /\ o.isNew = FALSE /\ o.alias = p.alias
          /\ o.enabled = p.enabled /\ o.tag = p.tag
      BY <1>2 DEF OptionType
    <2> HIDE DEF o
    <2>5. /\ Alike(c, e) /\ e.maxSent = c.maxSent /\ e.aliasOfSent \in AliasType
          /\ e.options = opts
      BY <1>2, SettingNames DEF ClientOK, Alike
    <2> HIDE DEF f, e
    <2>6. /\ ClientOK(e) /\ CfgOf(e) = CfgOf(c) /\ e.isNew = c.isNew
          /\ DOMAIN e.options = DOMAIN c.options /\ e.options[k] = o
          /\ \A m \in DOMAIN c.options : m # k => e.options[m] = c.options[m]
      BY <1>2, <2>4, <2>5, OptionEdited
    <2>7. EntryOK(i, e)
      BY <1>2, <1>7, <2>6 DEF EntryOK
    <2>8. /\ ClientsOK(clients', maxClient') /\ DOMAIN clients' = DOMAIN clients
          /\ clients'[i] = e
      <3>1. ClientsOK(clients', maxClient) /\ DOMAIN clients' = DOMAIN clients
            /\ clients'[i] = e
        BY <1>1, <2>3, <2>7, ClientsEdited
      <3> QED BY <1>7, <3>1
    <2>9. RegistryOK(registry')
      BY <1>7, <2>8, RegisterOK DEF Save
    <2>10. /\ sent' = Append(sent, told)
           /\ syscfg' = [syscfg EXCEPT !.options = Append(@, Stored(told))]
           /\ dhcp' = IF told.enabled THEN Sends(dhcp, sent') ELSE dhcp
      BY <1>7 DEF WanMgr_DmlDhcpv6cAddSentOption, AddedOption, SendOptions, Sends
    <2>11. \A j \in DOMAIN sent : sent[j].number # k /\ sent[j].number \in DOMAIN c.options
      BY <1>6, <1>7 DEF ShowsSent, CommittedOf
    <2> HIDE DEF told
    <2>12. KeptOK(own', sent', syscfg')
      <3>1. \A j \in DOMAIN sent : sent[j].number # told.number
        BY <1>5, <2>11
      <3>2. KeptOK(own, Append(sent, told),
                   [syscfg EXCEPT !.options = Append(@, Stored(told))])
        BY <1>1, <1>5, <3>1, KeptAppend
      <3> QED BY <1>3, <2>10, <3>2
    <2>13. RunsOK(own', sent', dhcp')
      <3>1. CASE told.enabled
        BY <1>1, <1>3, <2>10, <3>1, RunsSends
      <3>2. CASE ~told.enabled
        <4>1. OptionFile(sent') = OptionFile(sent)
          BY <1>1, <1>5, <2>10, <3>2, FileAppend DEF KeptOK
        <4> QED BY <1>1, <1>3, <2>10, <3>2, <4>1 DEF RunsOK
      <3> QED BY <3>1, <3>2
    <2>14. FirstOK(clients', own', sent', tx')
      <3> DEFINE L == Len(sent)
      <3>1. L \in Nat /\ DOMAIN sent = 1 .. L /\ sent \in Seq(SentType)
        BY <1>1, KeptIs DEF KeptOK
      <3>2. /\ DOMAIN sent' = 1 .. L + 1 /\ sent'[L + 1] = told
            /\ \A j \in 1 .. L : sent'[j] = sent[j]
        BY <1>5, <2>10, <3>1
      <3> HIDE DEF L
      <3>3. \A j \in 1 .. L + 1 : j = L + 1 \/ j \in 1 .. L
        BY <3>1
      <3>4. Numbered(k, o) = told
        BY <2>4, Zenon DEF Numbered, told
      <3>5. CommittedOf(e) = CommittedOf(c) \union {k}
        BY <1>2, <2>4, <2>6 DEF CommittedOf
      <3>6. CommittedOf(e) = {sent'[j].number : j \in DOMAIN sent'}
        <4>1. CommittedOf(c) = {sent[j].number : j \in 1 .. L}
          BY <1>6, <1>7, <3>1 DEF ShowsSent
        <4>2. {sent'[j].number : j \in 1 .. L + 1} = {sent[j].number : j \in 1 .. L} \union {k}
          <5>1. \A j \in 1 .. L + 1 : sent'[j].number = k \/ \E m \in 1 .. L : sent'[j].number = sent[m].number
            BY <1>5, <3>2, <3>3
          <5>2. L + 1 \in 1 .. L + 1 /\ sent'[L + 1].number = k
            BY <1>5, <3>1, <3>2
          <5>3. \A j \in 1 .. L : j \in 1 .. L + 1 /\ sent'[j].number = sent[j].number
            BY <3>1, <3>2
          <5> QED BY <5>1, <5>2, <5>3
        <4> QED BY <3>2, <3>5, <4>1, <4>2
      <3>7. ASSUME NEW j \in DOMAIN sent'
            PROVE  \/ TheOption(1, sent'[j].number) \in left
                   \/ Numbered(sent'[j].number, e.options[sent'[j].number]) = sent'[j]
        <4>1. CASE j = L + 1
          BY <1>5, <2>6, <3>2, <3>4, <4>1
        <4>2. CASE j \in 1 .. L
          <5> DEFINE q == sent[j].number
          <5>1. sent'[j] = sent[j] /\ q # k /\ e.options[q] = c.options[q]
            BY <2>6, <2>11, <3>1, <3>2, <4>2
          <5>2. TheOption(1, q) \in tx.objects \/ Numbered(q, c.options[q]) = sent[j]
            BY <1>6, <1>7, <3>1, <4>2 DEF ShowsSent
          <5>3. TheOption(1, q) # yours
            BY <5>1, ObjectsDiffer
          <5> QED BY <5>1, <5>2, <5>3
        <4> QED BY <3>2, <3>3, <4>1, <4>2
      <3>8. ShowsSent(e, sent', left)
        BY <3>6, <3>7 DEF ShowsSent
      <3>9. ValidTags(e, left)
        <4>1. ASSUME NEW m \in DOMAIN e.options
              PROVE  /\ InPlay(e, m, left) => InPlay(c, m, tx.objects)
                     /\ e.options[m].tag = c.options[m].tag
                     /\ e.options[m].enabled => c.options[m].enabled
          <5>1. CASE m = k
            <6>1. TheOption(1, k) \in tx.objects
              BY <1>3, <1>7
            <6>2. e.options[m].enabled => c.options[m].enabled
              BY <2>4, <2>6, <5>1, Zenon
            <6> QED BY <2>4, <2>6, <5>1, <6>1, <6>2 DEF InPlay
          <5>2. CASE m # k
            BY <2>6, <5>2 DEF InPlay
          <5> QED BY <5>1, <5>2
        <4>2. ValidTags(c, tx.objects)
          BY <1>6, <1>7
        <4> SUFFICES ASSUME NEW m \in DOMAIN e.options, NEW n \in DOMAIN e.options, m # n,
                            InPlay(e, m, left), InPlay(e, n, left),
                            e.options[m].enabled, e.options[n].enabled
                     PROVE  e.options[m].tag # e.options[n].tag
          BY Zenon DEF ValidTags
        <4>3. /\ InPlay(c, m, tx.objects) /\ InPlay(c, n, tx.objects)
              /\ c.options[m].enabled /\ c.options[n].enabled
              /\ e.options[m].tag = c.options[m].tag /\ e.options[n].tag = c.options[n].tag
              /\ m \in DOMAIN c.options /\ n \in DOMAIN c.options
          BY <2>6, <4>1
        <4> HIDE DEF c
        <4> QED BY <4>2, <4>3 DEF ValidTags
      <3>10. ShowsCfg(e, own', left)
        BY <1>3, <1>6, <1>7, <2>6 DEF ShowsCfg
      <3>11. FirstOK(clients', own', sent', Finished(tx, yours))
        <4>1. /\ 1 \in DOMAIN clients' /\ clients'[1] = e
          BY <1>7, <2>8
        <4> QED BY <1>1, <1>3, <2>6, <2>12, <3>8, <3>9, <3>10, <4>1, FirstFinished
      <3> QED BY <1>3, <3>11
    <2> QED BY <1>1, <1>3, <1>4, <2>8, <2>9, <2>12, <2>13, <2>14, V6InvNew
  <1>8. CASE /\ p.isNew /\ i # 1
             /\ clients' = [clients EXCEPT ![i] =
                  [[c EXCEPT !.aliasOfSent = None] EXCEPT !.options[k] = Refused(c, k)]]
             /\ UNCHANGED <<maxClient, registry, sent, syscfg, dhcp>>
    <2> DEFINE a == IF c.aliasOfSent # None THEN c.aliasOfSent ELSE p.alias
               o == [p EXCEPT !.enabled = FALSE, !.tag = 0, !.alias = a]
               opts == [c.options EXCEPT ![k] = o]
               f == [c EXCEPT !.aliasOfSent = None]
               e == [f EXCEPT !.options = opts]
    <2>1. Refused(c, k) = o
      <3>1. [p EXCEPT !.enabled = FALSE, !.tag = 0].alias = p.alias
        BY <1>2 DEF OptionType
      <3> QED BY <3>1 DEF Refused
    <2>2. a \in AliasType
      BY <1>2 DEF ClientOK, OptionType
    <2> HIDE DEF a
    <2>3. o \in OptionType /\ o.isNew
      BY <1>2, <1>8, <2>2 DEF OptionType
    <2> HIDE DEF o
    <2>4. f.options = c.options
      BY <1>2 DEF ClientOK
    <2>5. [f EXCEPT !.options[k] = o] = e
      BY <2>4
    <2>6. clients' = [clients EXCEPT ![i] = e]
      BY <1>8, <2>1, <2>5
    <2>7. /\ Alike(c, e) /\ e.maxSent = c.maxSent /\ e.aliasOfSent \in AliasType
          /\ e.options = opts
      BY <1>2, SettingNames DEF ClientOK, Alike
    <2> HIDE DEF f, e
    <2>8. ClientOK(e) /\ (AllNew(c) /\ o.isNew => AllNew(e))
      BY <1>2, <2>3, <2>7, OptionEdited
    <2>9. EntryOK(i, e)
      BY <1>2, <1>8, <2>3, <2>8 DEF EntryOK
    <2>10. yours # TheClient(1) /\ \A m : yours # TheOption(1, m)
      BY <1>8, ObjectsDiffer
    <2> QED BY <1>1, <1>3, <1>8, <2>6, <2>9, <2>10, EntryFinished
  <1>9. CASE /\ ~p.isNew /\ WanMgr_DmlDhcpv6cSetSentOption(told)
             /\ clients' = [clients EXCEPT ![i] = [c EXCEPT !.aliasOfSent = None]]
             /\ UNCHANGED <<maxClient, registry>>
    <2> DEFINE e == [c EXCEPT !.aliasOfSent = None]
    <2>1. i = 1
      BY <1>2, <1>9 DEF AllNew
    <2>2. /\ Alike(c, e) /\ e.maxSent = c.maxSent /\ e.aliasOfSent \in AliasType
          /\ e.options = c.options
      BY <1>2, SettingNames DEF ClientOK, Alike
    <2>3. clients' = [clients EXCEPT ![i] = e]
      BY <1>9
    <2> HIDE DEF e
    <2>4. ClientOK(e) /\ CfgOf(e) = CfgOf(c) /\ e.isNew = c.isNew
      <3>1. /\ \A m \in DOMAIN e.options : m \in 1 .. e.maxSent /\ e.options[m] \in OptionType
            /\ e.maxSent \in Nat
        BY <1>2, <2>2 DEF ClientOK
      <3> QED BY <1>2, <2>2, <3>1, AlikeIs
    <2>5. EntryOK(i, e)
      BY <1>2, <2>1, <2>4 DEF EntryOK
    <2>6. /\ ClientsOK(clients', maxClient') /\ DOMAIN clients' = DOMAIN clients
          /\ clients'[i] = e
      <3>1. ClientsOK(clients', maxClient) /\ DOMAIN clients' = DOMAIN clients
            /\ clients'[i] = e
        BY <1>1, <2>3, <2>5, ClientsEdited
      <3> QED BY <1>9, <3>1
    <2>7. k \in CommittedOf(c)
      BY <1>2, <1>9 DEF CommittedOf
    <2>8. PICK y \in DOMAIN sent : sent[y].number = k
      BY <1>6, <2>1, <2>7 DEF ShowsSent
    <2>9. Position(told.number) = {y} /\ \A j \in DOMAIN sent : sent[j].number = k => j = y
      BY <1>1, <1>5, <2>8, KeptIs DEF Position, NumbersOnce
    <2>10. /\ sent' = [sent EXCEPT ![y] = told]
           /\ syscfg' = [syscfg EXCEPT !.options[y] = Stored(told)]
           /\ IF told.enabled # sent[y].enabled \/ told.tag # sent[y].tag
              THEN dhcp' = Sends(dhcp, sent') ELSE dhcp' = dhcp
      <3> HIDE DEF told
      <3> QED BY <1>9, <2>9, Zenon DEF WanMgr_DmlDhcpv6cSetSentOption, SendOptions, Sends
    <2> HIDE DEF told
    <2>11. KeptOK(own', sent', syscfg')
      <3>1. KeptOK(own, [sent EXCEPT ![y] = told], [syscfg EXCEPT !.options[y] = Stored(told)])
        BY <1>1, <1>5, <2>8, KeptSet
      <3> QED BY <1>3, <2>10, <3>1
    <2>12. RunsOK(own', sent', dhcp')
      <3>1. CASE dhcp' = Sends(dhcp, sent')
        BY <1>1, <1>3, <3>1, RunsSends
      <3>2. CASE dhcp' = dhcp /\ told.enabled = sent[y].enabled /\ told.tag = sent[y].tag
        <4>1. OptionFile([sent EXCEPT ![y] = told]) = OptionFile(sent)
          <5>1. sent \in Seq(SentType)
            BY <1>1 DEF KeptOK
          <5> QED BY <1>5, <2>8, <3>2, <5>1, FileSet
        <4> QED BY <1>1, <1>3, <2>10, <3>2, <4>1 DEF RunsOK
      <3> QED BY <2>10, <3>1, <3>2, Zenon
    <2>13. ShowsSent(e, sent', left)
      <3>1. DOMAIN sent' = DOMAIN sent /\ sent'[y] = told
            /\ \A j \in DOMAIN sent : j # y => sent'[j] = sent[j]
        BY <2>8, <2>10
      <3>2. \A j \in DOMAIN sent : sent'[j].number = sent[j].number
        BY <1>5, <2>8, <3>1
      <3>3. CommittedOf(e) = {sent'[j].number : j \in DOMAIN sent'}
        <4>1. CommittedOf(e) = {sent[j].number : j \in DOMAIN sent}
          BY <1>6, <2>1, <2>2 DEF ShowsSent, CommittedOf
        <4> QED BY <3>1, <3>2, <4>1
      <3>4. ASSUME NEW j \in DOMAIN sent
            PROVE  \/ TheOption(1, sent'[j].number) \in left
                   \/ Numbered(sent'[j].number, e.options[sent'[j].number]) = sent'[j]
        <4>1. CASE j = y
          BY <1>5, <2>2, <3>1, <4>1 DEF told
        <4>2. CASE j # y
          <5> DEFINE q == sent[j].number
          <5>1. sent'[j] = sent[j] /\ q # k
            BY <2>9, <3>1, <4>2
          <5>2. TheOption(1, q) \in tx.objects \/ Numbered(q, c.options[q]) = sent[j]
            BY <1>6, <2>1 DEF ShowsSent
          <5>3. TheOption(1, q) # yours
            BY <5>1, ObjectsDiffer
          <5> QED BY <2>2, <5>1, <5>2, <5>3
        <4> QED BY <4>1, <4>2
      <3> QED BY <3>1, <3>3, <3>4 DEF ShowsSent
    <2>14. ValidTags(e, left)
      <3>1. ValidTags(c, left)
        BY <1>6, <2>1, FewerObjects
      <3> QED BY <2>2, <3>1 DEF ValidTags, InPlay
    <2>15. FirstOK(clients', own', sent', tx')
      <3>1. 1 \in DOMAIN clients' /\ clients'[1] = e
        BY <2>1, <2>6
      <3>2. ShowsCfg(e, own', left)
        BY <1>3, <1>6, <2>1, <2>4 DEF ShowsCfg
      <3>3. FirstOK(clients', own', sent', Finished(tx, yours))
        BY <1>1, <1>3, <2>4, <2>11, <2>13, <2>14, <3>1, <3>2, FirstFinished
      <3> QED BY <1>3, <3>3
    <2>16. RegistryOK(registry') /\ aliasOfClient' \in AliasType
      BY <1>1, <1>3, <1>9
    <2> QED BY <1>4, <2>6, <2>11, <2>12, <2>15, <2>16, V6InvNew
  <1> QED BY <1>7, <1>8, <1>9 DEF SentOption1_Commit

LEMMA ValidateKeeps == V6Inv /\ ValidateV6 => V6Inv'
  <1> SUFFICES ASSUME V6Inv, ValidateV6 PROVE V6Inv'
    OBVIOUS
  <1> DEFINE valid == \A o \in tx.objects : IsValid(o)
             c == clients[1]
  <1>1. /\ ClientsOK(clients, maxClient) /\ TxOK(tx) /\ FirstOK(clients, own, sent, tx)
    BY DEF V6Inv
  <1>2. /\ tx.phase = "set" /\ tx' = Decided(tx, valid)
        /\ UNCHANGED <<clients, maxClient, aliasOfClient, own, sent, syscfg, registry, dhcp>>
    BY DEF ValidateV6
  <1>3. /\ TxOK(tx') /\ tx'.objects = tx.objects
        /\ tx'.phase = IF valid THEN "commit" ELSE "rollback"
    <2> HIDE DEF valid
    <2> QED BY <1>1, <1>2, DecidedOK
  <1>4. ASSUME 1 \in DOMAIN clients, valid PROVE ValidTags(c, tx.objects)
    <2>1. /\ ShowsSent(c, sent, tx.objects) /\ SentTags(sent) /\ KeptOK(own, sent, syscfg)
      BY <1>1, <1>2, <1>4 DEF FirstOK, Client1OK, V6Inv
    <2>2. \A k \in DOMAIN c.options : k \in Nat \ {0} /\ c.options[k] \in OptionType
      BY <1>4, EntriesAre
    \* an option in the transaction was compared with all others
    <2>3. ASSUME NEW k \in DOMAIN c.options, NEW m \in DOMAIN c.options, k # m,
                 c.options[k].enabled, c.options[m].enabled,
                 TheOption(1, k) \in tx.objects
          PROVE  c.options[k].tag # c.options[m].tag
      <3>1. IsValid(TheOption(1, k))
        BY <1>4, <2>3
      <3>2. TheOption(1, k).option = k /\ TheOption(1, k).client = 1 /\ k # 0
        BY <2>2 DEF TheOption
      <3>3. SentOption1_Validate(1, k)
        BY <3>1, <3>2 DEF IsValid
      <3> QED BY <2>3, <3>3 DEF SentOption1_Validate, OptionNumbers
    \* one that is not shows what is sent
    <2>4. ASSUME NEW k \in DOMAIN c.options, ~c.options[k].isNew,
                 TheOption(1, k) \notin tx.objects, c.options[k].enabled
          PROVE  \E j \in DOMAIN sent : /\ sent[j].number = k /\ sent[j].enabled
                                        /\ sent[j].tag = c.options[k].tag
      <3>1. k \in CommittedOf(c)
        BY <2>4 DEF CommittedOf
      <3>2. PICK j \in DOMAIN sent : sent[j].number = k
        BY <2>1, <3>1 DEF ShowsSent
      <3>3. Numbered(k, c.options[k]) = sent[j]
        BY <2>1, <2>4, <3>2 DEF ShowsSent
      <3> DEFINE o == c.options[k]
      <3>4. o.enabled
        BY <2>4
      <3> HIDE DEF o
      <3>5. Numbered(k, o).enabled = o.enabled /\ Numbered(k, o).tag = o.tag
        BY DEF Numbered
      <3>6. Numbered(k, o) = sent[j]
        BY <3>3 DEF o
      <3>7. sent[j].enabled /\ sent[j].tag = o.tag
        BY <3>4, <3>5, <3>6, Zenon
      <3> QED BY <3>2, <3>7 DEF o
    <2> HIDE DEF c
    <2> SUFFICES ASSUME NEW k \in DOMAIN c.options, NEW m \in DOMAIN c.options, k # m,
                        InPlay(c, k, tx.objects), InPlay(c, m, tx.objects),
                        c.options[k].enabled, c.options[m].enabled
                 PROVE  c.options[k].tag # c.options[m].tag
      BY DEF ValidTags
    <2>5. CASE TheOption(1, k) \in tx.objects
      BY <2>3, <2>5
    <2>6. CASE TheOption(1, m) \in tx.objects
      <3>1. c.options[m].tag # c.options[k].tag
        BY <2>3, <2>6
      <3> QED BY <3>1
    <2>7. CASE TheOption(1, k) \notin tx.objects /\ TheOption(1, m) \notin tx.objects
      <3>1. ~c.options[k].isNew /\ ~c.options[m].isNew
        BY <2>7 DEF InPlay
      <3>2. PICK j \in DOMAIN sent : /\ sent[j].number = k /\ sent[j].enabled
                                     /\ sent[j].tag = c.options[k].tag
        BY <2>4, <2>7, <3>1
      <3>3. PICK n \in DOMAIN sent : /\ sent[n].number = m /\ sent[n].enabled
                                     /\ sent[n].tag = c.options[m].tag
        BY <2>4, <2>7, <3>1
      <3>4. j # n
        BY <3>2, <3>3
      <3>5. sent[j].tag # sent[n].tag
        BY <2>1, <3>2, <3>3, <3>4 DEF SentTags
      <3> QED BY <3>2, <3>3, <3>5
    <2> QED BY <2>5, <2>6, <2>7
  <1>5. tx'.phase = "commit" => valid
    <2> HIDE DEF valid
    <2> QED BY <1>3
  <1>6. SentTags(sent)
    BY <1>1, <1>2 DEF FirstOK
  <1> HIDE DEF valid
  <1>7. FirstOK(clients, own, sent, tx')
    BY <1>1, <1>3, <1>4, <1>5, <1>6 DEF FirstOK, Client1OK
  <1> QED BY <1>2, <1>3, <1>7, V6InvNew DEF V6Inv

-----------------------------------------------------------------------------
(***************************************************************************)
(* A start of the process, also after a crash inside a commit: the table   *)
(* is rebuilt from the registry and syscfg.                                *)
(***************************************************************************)
LEMMA InitializeIs ==
    ASSUME V6Inv, NEW sys, SyscfgOK(sys), sys.client = syscfg.client,
           \/ sys = syscfg
           \/ Len(sys.options) # 0,
           WanMgr_Dhcpv6Initialize(registry, sys), syscfg' = sys, UNCHANGED registry
    PROVE  /\ V6Inv' /\ 1 \in DOMAIN clients' /\ CfgOf(clients'[1]) = sys.client
           /\ sent' = LoadedFrom(sys) /\ ShowsAll(clients'[1], LoadedFrom(sys))
  <1> DEFINE opts == LoadedFrom(sys)
             cfg == sys.client
  <1>1. /\ RegistryOK(registry) /\ KeptOK(own, sent, syscfg) /\ RunsOK(own, sent, dhcp)
    BY DEF V6Inv
  <1>2. /\ own' = cfg /\ sent' = opts
        /\ clients' = LoadClient(Registered(registry), cfg, opts)
        /\ maxClient' = Highest(registry.max, {1})
        /\ aliasOfClient' = None /\ tx' = Quiet
        /\ dhcp' = [dhcp EXCEPT !.conf = IF cfg.enabled THEN cfg.settings ELSE @,
                                !.options = IF opts = <<>> THEN @ ELSE OptionFile(opts)]
    BY DEF WanMgr_Dhcpv6Initialize, LoadedFrom
  <1>3. KeptOK(cfg, opts, sys) /\ SentTags(opts)
    BY KeptLoaded
  <1>4. cfg \in CfgType /\ opts \in Seq(SentType) /\ NumbersOnce(opts)
        /\ Len(opts) = Len(sys.options)
    BY <1>3, KeptIs DEF KeptOK
  <1> HIDE DEF opts
  <1>5. /\ ClientsOK(clients', maxClient') /\ 1 \in DOMAIN clients'
        /\ CfgOf(clients'[1]) = cfg /\ ShowsAll(clients'[1], opts)
    BY <1>1, <1>2, <1>4, LoadClientIs
  <1>6. TxOK(tx') /\ tx'.phase = "idle" /\ tx'.objects = {}
    BY <1>2, QuietOK DEF Quiet
  <1>7. FirstOK(clients', own', sent', tx')
    BY <1>2, <1>3, <1>5, <1>6 DEF FirstOK, Client1OK, ShowsAll, ShowsSent, ShowsCfg
  <1>8. RunsOK(own', sent', dhcp')
    <2>1. /\ DOMAIN dhcp = {"running", "conf", "options"} /\ own = cfg
          /\ own.enabled => dhcp.running /\ dhcp.conf = own.settings
          /\ dhcp.options = OptionFile(sent)
      BY <1>1 DEF RunsOK, KeptOK
    <2> DEFINE conf == IF cfg.enabled THEN cfg.settings ELSE dhcp.conf
               file == IF opts = <<>> THEN dhcp.options ELSE OptionFile(opts)
               d == [dhcp EXCEPT !.conf = conf, !.options = file]
    <2>2. dhcp' = d
      <3>1. [dhcp EXCEPT !.conf = conf].options = dhcp.options
        BY <2>1
      <3> QED BY <1>2, <3>1
    <2>3. file = OptionFile(opts)
      <3>1. CASE opts = <<>>
        <4>1. Len(opts) = 0
          BY <3>1
        <4>2. sys = syscfg /\ Len(sys.options) = 0
          BY <1>4, <4>1
        <4>3. sent \in Seq(SentType) /\ Len(sent) = 0
          BY <1>1, <4>2 DEF KeptOK
        <4>4. sent = <<>>
          BY <4>3
        <4> QED BY <2>1, <3>1, <4>4
      <3>2. CASE opts # <<>>
        BY <3>2
      <3> QED BY <3>1, <3>2
    <2> HIDE DEF file
    <2>4. /\ DOMAIN d = {"running", "conf", "options"} /\ d.running = dhcp.running
          /\ d.conf = conf /\ d.options = file
      BY <2>1
    <2> HIDE DEF d
    <2>5. cfg.enabled => d.running /\ d.conf = cfg.settings
      BY <2>1, <2>4, Zenon
    <2>6. RunsOK(cfg, opts, d)
      BY <2>3, <2>4, <2>5 DEF RunsOK
    <2> QED BY <1>2, <2>2, <2>6
  <1>9. /\ aliasOfClient' \in AliasType /\ RegistryOK(registry')
        /\ KeptOK(own', sent', syscfg')
    BY <1>1, <1>2, <1>3, SettingNames
  <1>10. V6Inv'
    BY <1>5, <1>6, <1>7, <1>8, <1>9, V6InvNew
  <1> QED BY <1>2, <1>5, <1>10 DEF opts

LEMMA RestartIs ==
    ASSUME V6Inv, RestartV6
    PROVE  /\ V6Inv' /\ 1 \in DOMAIN clients' /\ CfgOf(clients'[1]) = own
           /\ KeptOK(own, sent', syscfg) /\ ShowsAll(clients'[1], sent')
  <1>1. WanMgr_Dhcpv6Initialize(registry, syscfg) /\ UNCHANGED <<syscfg, registry>>
    BY DEF RestartV6
  <1>2. SyscfgOK(syscfg) /\ own = syscfg.client
    BY DEF V6Inv, KeptOK
  <1>3. /\ V6Inv' /\ 1 \in DOMAIN clients' /\ CfgOf(clients'[1]) = syscfg.client
        /\ sent' = LoadedFrom(syscfg) /\ ShowsAll(clients'[1], LoadedFrom(syscfg))
    BY <1>1, <1>2, InitializeIs
  <1> QED BY <1>2, <1>3, KeptLoaded

LEMMA CrashIs ==
    ASSUME V6Inv, 1 \in ClientNumbers, NEW k \in OptionNumbers(1), CrashInCommit(k)
    PROVE  /\ V6Inv' /\ 1 \in DOMAIN clients' /\ CfgOf(clients'[1]) = own
           /\ \E o \in SentType :
                 KeptOK(own, sent', [syscfg EXCEPT !.options = Append(@, Stored(o))])
           /\ ShowsAll(clients'[1], sent')
  <1> DEFINE c == clients[1]
             o == Numbered(k, c.options[k])
             sys == [syscfg EXCEPT !.options = Append(@, Stored(o))]
  <1>1. /\ tx.phase = "commit" /\ c.options[k].isNew /\ syscfg' = sys
        /\ WanMgr_Dhcpv6Initialize(registry, syscfg') /\ UNCHANGED registry
    BY DEF CrashInCommit, AddedOption
  <1>2. KeptOK(own, sent, syscfg) /\ FirstOK(clients, own, sent, tx)
    BY DEF V6Inv
  <1>3. k \in DOMAIN c.options /\ c.options[k] \in OptionType /\ k \in Nat \ {0}
    BY EntriesAre DEF OptionNumbers, ClientNumbers
  <1>4. o \in SentType /\ o.number = k
    BY <1>3, NumberedIs
  <1>5. \A j \in DOMAIN sent : sent[j].number # o.number
    BY <1>1, <1>2, <1>4 DEF FirstOK, Client1OK, ShowsSent, CommittedOf, ClientNumbers
  <1> HIDE DEF o
  <1>6. KeptOK(own, Append(sent, o), sys)
    BY <1>2, <1>4, <1>5, KeptAppend
  <1>7. SyscfgOK(sys) /\ sys.client = own /\ syscfg.client = own
        /\ Len(sys.options) = Len(Append(sent, o))
    BY <1>2, <1>6 DEF KeptOK
  <1>8. Len(sys.options) # 0
    <2>1. sent \in Seq(SentType)
      BY <1>2 DEF KeptOK
    <2>2. Len(Append(sent, o)) = Len(sent) + 1 /\ Len(sent) \in Nat
      BY <1>4, <2>1
    <2> QED BY <1>7, <2>2
  <1> HIDE DEF sys
  <1>9. /\ V6Inv' /\ 1 \in DOMAIN clients' /\ CfgOf(clients'[1]) = sys.client
        /\ sent' = LoadedFrom(sys) /\ ShowsAll(clients'[1], LoadedFrom(sys))
    BY <1>1, <1>7, <1>8, InitializeIs
  <1>10. KeptOK(own, sent', sys)
    BY <1>7, <1>9, KeptLoaded
  <1> QED BY <1>4, <1>7, <1>9, <1>10 DEF sys

LEMMA V6InvInit == Dhcpv6Init => V6Inv
  <1> SUFFICES ASSUME Dhcpv6Init PROVE V6Inv
    OBVIOUS
  <1> DEFINE Cfg(on) == [alias |-> None, enabled |-> on, settings |-> Default]
  <1>1. PICK on \in BOOLEAN :
           /\ own = Cfg(on) /\ sent = <<>>
           /\ syscfg = [client |-> Cfg(on), options |-> <<>>]
           /\ registry = [max |-> 0, clients |-> Empty]
           /\ clients = [i \in {1} |-> Entry(Cfg(on), FALSE)]
           /\ maxClient = 1 /\ aliasOfClient = None
           /\ dhcp = [running |-> on, conf |-> Default, options |-> <<>>]
           /\ tx = Quiet
    BY DEF Dhcpv6Init
  <1> DEFINE cfg == Cfg(on)
             e == Entry(cfg, FALSE)
  <1>2. cfg \in CfgType
    BY SettingNames, SettingsAssumption DEF CfgType
  <1>3. cfg.enabled = on /\ cfg.settings = Default
    OBVIOUS
  <1> HIDE DEF Cfg
  <1> HIDE DEF cfg
  <1>4. /\ ClientOK(e) /\ CfgOf(e) = cfg /\ e.isNew = FALSE /\ DOMAIN e.options = {}
    BY <1>2, EntryIs
  <1>5. DOMAIN clients = {1} /\ clients[1] = e
    BY <1>1 DEF cfg
  <1> HIDE DEF e
  <1>6. ClientsOK(clients, maxClient)
    <2>1. maxClient = 1 /\ EntryOK(1, e)
      BY <1>1, <1>4 DEF EntryOK
    <2> QED BY <1>5, <2>1 DEF ClientsOK
  <1>7. RegistryOK(registry)
    BY <1>1 DEF RegistryOK, Empty
  <1>8. KeptOK(own, sent, syscfg)
    <2>1. /\ DOMAIN syscfg = {"client", "options"} /\ syscfg.client = cfg
          /\ syscfg.options = <<>> /\ own = cfg
      BY <1>1 DEF cfg
    <2>2. <<>> \in Seq(StoredType) /\ <<>> \in Seq(SentType) /\ Len(<<>>) = 0
          /\ DOMAIN <<>> = {}
      OBVIOUS
    <2>3. NumbersOnce(<<>>)
      BY <2>2 DEF NumbersOnce
    <2> QED BY <1>1, <1>2, <2>1, <2>2, <2>3 DEF KeptOK, SyscfgOK
  <1>9. RunsOK(own, sent, dhcp)
    <2>1. /\ DOMAIN dhcp = {"running", "conf", "options"} /\ dhcp.running = on
          /\ dhcp.conf = Default /\ dhcp.options = <<>> /\ own = cfg
      BY <1>1 DEF cfg
    <2>2. own.enabled => dhcp.running
      BY <1>3, <2>1, Zenon
    <2> QED BY <1>1, <1>3, <2>1, <2>2, FileOfNone DEF RunsOK
  <1>10. TxOK(tx) /\ tx.phase = "idle"
    BY <1>1, QuietOK
  <1>11. FirstOK(clients, own, sent, tx)
    <2>1. DOMAIN sent = {} /\ own = cfg
      BY <1>1 DEF cfg
    <2>2. ShowsSent(e, sent, tx.objects) /\ SentTags(sent)
      BY <1>4, <2>1 DEF ShowsSent, CommittedOf, SentTags
    <2> QED BY <1>4, <1>5, <1>10, <2>1, <2>2 DEF FirstOK, Client1OK, ShowsCfg
  <1> QED BY <1>1, <1>6, <1>7, <1>8, <1>9, <1>10, <1>11, SettingNames DEF V6Inv

LEMMA OptionStepKeeps ==
    ASSUME V6Inv, NEW i \in DOMAIN clients, NEW k \in OptionNumbers(i), OptionStep(i, k)
    PROVE  V6Inv'
  BY DelOptionKeeps, SetOptionKeeps, CommitOptionKeeps, RollbackOptionKeeps DEF OptionStep

LEMMA V6InvNext == V6Inv /\ [Dhcpv6Next]_dhcpv6Vars => V6Inv'
  <1> SUFFICES ASSUME V6Inv, [Dhcpv6Next]_dhcpv6Vars PROVE V6Inv'
    OBVIOUS
  <1>1. CASE Client3_AddEntry
    BY <1>1, AddClientKeeps
  <1>2. CASE ValidateV6
    BY <1>2, ValidateKeeps
  <1>3. CASE RestartV6
    BY <1>3, RestartIs
  <1>4. ASSUME NEW i \in ClientNumbers,
               ClientStep(i) \/ \E k \in OptionNumbers(i) : OptionStep(i, k)
        PROVE  V6Inv'
    BY <1>4, ClientStepKeeps, OptionStepKeeps DEF ClientNumbers
  <1>5. ASSUME NEW k \in (IF 1 \in ClientNumbers THEN OptionNumbers(1) ELSE {}),
               CrashInCommit(k)
        PROVE  V6Inv'
    BY <1>5, CrashIs
  <1>6. CASE UNCHANGED dhcpv6Vars
    BY <1>6, V6InvNew DEF dhcpv6Vars, V6Inv
  <1> QED BY <1>1, <1>2, <1>3, <1>4, <1>5, <1>6 DEF Dhcpv6Next

LEMMA V6InvAlways == Dhcpv6Spec => []V6Inv
  BY V6InvInit, V6InvNext, PTL DEF Dhcpv6Spec

-----------------------------------------------------------------------------
(***************************************************************************)
(* What it says of the tables.                                             *)
(***************************************************************************)
\* A number given to a client or an option is none the table holds, for any
\* history of additions, deletions, commits and restarts.
THEOREM NumbersAlwaysFresh == Dhcpv6Spec => []FreshV6Numbers
  <1>1. V6Inv => FreshV6Numbers
    <2> SUFFICES ASSUME V6Inv PROVE FreshV6Numbers
      OBVIOUS
    <2>1. ASSUME NEW i \in ClientNumbers
          PROVE  i <= maxClient /\ \A k \in OptionNumbers(i) : k <= clients[i].maxSent
      BY DEF V6Inv, ClientsOK, EntryOK, ClientOK, ClientNumbers, OptionNumbers
    <2>2. \A i \in DOMAIN registry.clients : i <= registry.max
      BY DEF V6Inv, RegistryOK
    <2> QED BY <2>1, <2>2 DEF FreshV6Numbers
  <1> QED BY <1>1, V6InvAlways, PTL

\* The options client 1 shows as committed are the back end's.
THEOREM OptionsAlwaysAgree == Dhcpv6Spec => []OptionsAgree
  <1>1. V6Inv => OptionsAgree
    <2> SUFFICES ASSUME V6Inv PROVE OptionsAgree
      OBVIOUS
    <2>1. \A i \in ClientNumbers \ {1} : CommittedOptions(i) = {}
      BY EntriesAre DEF ClientNumbers, CommittedOptions, OptionNumbers, AllNew
    <2>2. NumbersOnce(sent)
      BY KeptIs DEF V6Inv
    <2>3. ASSUME 1 \in ClientNumbers
          PROVE  /\ CommittedOptions(1) = {sent[j].number : j \in DOMAIN sent}
                 /\ IdleV6 => \A j \in DOMAIN sent : Shown(1, sent[j].number) = sent[j]
      <3>1. ShowsSent(clients[1], sent, tx.objects)
        BY <2>3 DEF V6Inv, FirstOK, Client1OK, ClientNumbers
      <3>2. CommittedOptions(1) = CommittedOf(clients[1])
        BY DEF CommittedOptions, CommittedOf, OptionNumbers
      <3>3. IdleV6 => tx.objects = {}
        BY DEF V6Inv, TxOK, IdleV6
      <3>4. \A k : Shown(1, k) = Numbered(k, clients[1].options[k])
        BY Zenon DEF Shown, Numbered, SentOption1_GetParamStringValue,
           SentOption1_GetParamBoolValue, SentOption1_GetParamUlongValue
      <3> QED BY <3>1, <3>2, <3>3, <3>4 DEF ShowsSent
    <2> QED BY <2>1, <2>2, <2>3 DEF OptionsAgree, NumbersOnce
  <1> QED BY <1>1, V6InvAlways, PTL

\* Outside a transaction client 1 shows what syscfg keeps.
THEOREM AlwaysShowsWhatIsKept == Dhcpv6Spec => []ShowsWhatIsKept
  <1>1. V6Inv => ShowsWhatIsKept
    <2> SUFFICES ASSUME V6Inv PROVE ShowsWhatIsKept
      OBVIOUS
    <2>1. own = syscfg.client /\ RunsOK(own, sent, dhcp)
      BY DEF V6Inv, KeptOK
    <2>2. ASSUME IdleV6, 1 \in ClientNumbers PROVE CfgOf(clients[1]) = own
      <3>1. ShowsCfg(clients[1], own, tx.objects)
        BY <2>2 DEF V6Inv, FirstOK, Client1OK, ClientNumbers
      <3>2. tx.objects = {}
        BY <2>2 DEF V6Inv, TxOK, IdleV6
      <3> QED BY <3>1, <3>2 DEF ShowsCfg
    <2>3. ASSUME IdleV6, 1 \in ClientNumbers
          PROVE  /\ clients[1].alias = own.alias /\ clients[1].settings = own.settings
                 /\ clients[1].enabled <=> own.enabled
      <3> DEFINE c == clients[1]
      <3>1. CfgOf(c) = own
        BY <2>2, <2>3
      <3> HIDE DEF c
      <3>2. /\ CfgOf(c).alias = c.alias /\ CfgOf(c).settings = c.settings
            /\ CfgOf(c).enabled = c.enabled
        BY DEF CfgOf
      <3>3. c.enabled <=> own.enabled
        BY <3>1, <3>2, Zenon
      <3> QED BY <3>1, <3>2, <3>3 DEF c
    <2> QED BY <2>1, <2>3 DEF ShowsWhatIsKept, RunsOK, Client3_GetParamStringValue,
            Client3_GetParamIntValue, Client3_GetParamUlongValue,
            Client3_GetParamBoolValue, WanMgr_DmlDhcpv6cGetEnabled
  <1> QED BY <1>1, V6InvAlways, PTL

\* The process runs on the settings committed last and the enabled options.
THEOREM AlwaysRunsAsCommitted == Dhcpv6Spec => []RunsAsCommitted
  <1>1. V6Inv => RunsAsCommitted
    BY DEF V6Inv, RunsOK, RunsAsCommitted
  <1> QED BY <1>1, V6InvAlways, PTL

\* Enabled options the back end sends have tags of their own.
THEOREM TagsAlwaysDistinct == Dhcpv6Spec => []TagsDistinct
  <1>1. V6Inv => TagsDistinct
    BY DEF V6Inv, FirstOK, SentTags, TagsDistinct, IdleV6
  <1> QED BY <1>1, V6InvAlways, PTL

\* What a restart shows of the options the back end had
LEMMA RestartShows ==
    ASSUME NEW cfg, NEW opts, NEW sys, KeptOK(cfg, opts, sys), NEW new, NEW file,
           KeptOK(cfg, new, file), NEW c, ShowsAll(c, new),
           \A j \in DOMAIN opts : j \in DOMAIN new /\ file.options[j] = sys.options[j]
    PROVE  \A j \in DOMAIN opts :
              LET k == opts[j].number
              IN  /\ k \in DOMAIN c.options /\ ~c.options[k].isNew
                  /\ Stored(Numbered(k, c.options[k])) = Stored(opts[j])
  <1> SUFFICES ASSUME NEW j \in DOMAIN opts
               PROVE  LET k == opts[j].number
                      IN  /\ k \in DOMAIN c.options /\ ~c.options[k].isNew
                          /\ Stored(Numbered(k, c.options[k])) = Stored(opts[j])
    OBVIOUS
  <1>1. j \in DOMAIN new /\ Stored(opts[j]) = Stored(new[j])
    BY DEF KeptOK
  <1>2. opts[j].number = new[j].number
    BY <1>1, KeptIs
  <1>3. /\ new[j].number \in CommittedOf(c)
        /\ Numbered(new[j].number, c.options[new[j].number]) = new[j]
    BY <1>1 DEF ShowsAll
  <1> QED BY <1>1, <1>2, <1>3 DEF CommittedOf

\* A restart, and one after a crash inside a commit, brings back every committed
\* option and client 1 as committed.
THEOREM RestartsKeep == Dhcpv6Spec => RestartKeeps
  <1> DEFINE Kept ==
        /\ CfgOf(clients'[1]) = own
        /\ \A j \in DOMAIN sent :
             LET k == sent[j].number IN
             /\ k \in DOMAIN clients'[1].options
             /\ LET o == clients'[1].options[k] IN
                ~o.isNew /\ Stored(Numbered(k, o)) = Stored(sent[j])
  <1>1. ASSUME V6Inv, RestartV6 PROVE Kept
    <2>1. /\ CfgOf(clients'[1]) = own /\ KeptOK(own, sent', syscfg)
          /\ ShowsAll(clients'[1], sent') /\ KeptOK(own, sent, syscfg)
      BY <1>1, RestartIs DEF V6Inv
    <2>2. \A j \in DOMAIN sent : j \in DOMAIN sent'
      BY <2>1, KeptIs
    <2>3. \A j \in DOMAIN sent :
             LET k == sent[j].number
             IN  /\ k \in DOMAIN clients'[1].options /\ ~clients'[1].options[k].isNew
                 /\ Stored(Numbered(k, clients'[1].options[k])) = Stored(sent[j])
      BY <2>1, <2>2, RestartShows
    <2> QED BY <2>1, <2>3
  <1>2. ASSUME V6Inv, 1 \in ClientNumbers, NEW k \in OptionNumbers(1), CrashInCommit(k)
        PROVE  Kept
    <2>1. /\ CfgOf(clients'[1]) = own /\ ShowsAll(clients'[1], sent')
          /\ KeptOK(own, sent, syscfg)
      BY <1>2, CrashIs DEF V6Inv
    <2>2. PICK o \in SentType :
                 KeptOK(own, sent', [syscfg EXCEPT !.options = Append(@, Stored(o))])
      BY <1>2, CrashIs
    <2> DEFINE u == Append(syscfg.options, Stored(o))
               file == [syscfg EXCEPT !.options = u]
    <2>3. /\ syscfg.options \in Seq(StoredType) /\ Len(sent) = Len(syscfg.options)
          /\ Len(sent) \in Nat /\ DOMAIN sent = 1 .. Len(sent)
          /\ DOMAIN syscfg = {"client", "options"}
      BY <2>1, KeptIs DEF KeptOK, SyscfgOK
    <2>4. Stored(o) \in StoredType
      BY StoredIs
    <2>5. /\ DOMAIN u = 1 .. Len(sent) + 1
          /\ \A j \in DOMAIN sent : u[j] = syscfg.options[j]
      BY <2>3, <2>4
    <2> HIDE DEF u
    <2>6. file.options = u
      BY <2>3
    <2>7. KeptOK(own, sent', file)
      BY <2>2 DEF u
    <2> HIDE DEF file
    <2>8. DOMAIN sent' = DOMAIN u
      BY <2>6, <2>7, KeptIs
    <2>9. \A j \in DOMAIN sent : j \in DOMAIN sent' /\ file.options[j] = syscfg.options[j]
      BY <2>3, <2>5, <2>6, <2>8
    <2>10. \A j \in DOMAIN sent :
              LET q == sent[j].number
              IN  /\ q \in DOMAIN clients'[1].options /\ ~clients'[1].options[q].isNew
                  /\ Stored(Numbered(q, clients'[1].options[q])) = Stored(sent[j])
      BY <2>1, <2>7, <2>9, RestartShows
    <2> QED BY <2>1, <2>10
  <1>3. ASSUME NEW i \in ClientNumbers,
               ClientStep(i) \/ \E k \in OptionNumbers(i) : OptionStep(i, k)
        PROVE  UNCHANGED restarts
    BY <1>3 DEF ClientStep, OptionStep, Client3_DelEntry, SentOption1_AddEntry,
       Client3_SetParamBoolValue, Client3_SetParamIntValue, Client3_SetParamStringValue,
       Client3_Commit, Client3_Rollback, SentOption1_DelEntry,
       SentOption1_SetParamBoolValue, SentOption1_SetParamUlongValue,
       SentOption1_SetParamStringValue, SentOption1_Commit, SentOption1_Rollback
  <1>4. ASSUME V6Inv, [Dhcpv6Next]_dhcpv6Vars, restarts' # restarts PROVE Kept
    <2>1. ~Client3_AddEntry /\ ~ValidateV6 /\ ~UNCHANGED dhcpv6Vars
      BY <1>4 DEF Client3_AddEntry, ValidateV6, dhcpv6Vars
    <2>2. \/ RestartV6
          \/ /\ 1 \in ClientNumbers
             /\ \E k \in OptionNumbers(1) : CrashInCommit(k)
      BY <1>3, <1>4, <2>1 DEF Dhcpv6Next
    <2> HIDE DEF Kept
    <2> QED BY <1>1, <1>2, <1>4, <2>2
  <1>5. V6Inv /\ [Dhcpv6Next]_dhcpv6Vars => [restarts' # restarts => Kept]_dhcpv6Vars
    BY <1>4
  <1> QED BY <1>5, V6InvAlways, PTL DEF Dhcpv6Spec, RestartKeeps

=============================================================================
