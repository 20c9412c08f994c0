---------------------------- MODULE Objects_proofs ----------------------------
(***************************************************************************)
(* The configuration object and what the data model shows of the DHCP      *)
(* clients, for any policies, answers and leases, whatever the agent reads *)
(* and sets, and wherever the clients are meanwhile.                       *)
(***************************************************************************)
EXTENDS WanConfig, Learned, LoopTheorems, TLAPS

-----------------------------------------------------------------------------
(***************************************************************************)
(* The policy.  A new policy is shown by the step that makes somebody wait *)
(* for the reboot, the wait ends by asking for it, and a boot runs none    *)
(* before it has read what is shown.                                       *)
(***************************************************************************)
ConfigTypeOK ==
    /\ config \in Configs
    /\ stored \in Records

ConfigInv == ConfigTypeOK /\ RunsShownPolicy

LEMMA ConfigInvInit == ConfigInit => ConfigInv
  BY DEF ConfigInit, WanMgr_WanConfInit, ConfigInv, ConfigTypeOK,
         RunsShownPolicy

\* A boot runs no policy.
LEMMA RestartedKeeps ==
    ASSUME ConfigInv, Restarted(stored), UNCHANGED stored
    PROVE  ConfigInv'
  BY DEF ConfigInv, ConfigTypeOK, Restarted, WanMgr_WanConfInit, RunsShownPolicy

\* The setter changes what is shown and waits before it asks for the reboot.
LEMMA SetPolicyKeeps ==
    ASSUME ConfigInv, NEW p \in Policies, SetPolicy(p)
    PROVE  ConfigInv'
  <1>1. ConfigTypeOK'
    <2>1. [config EXCEPT !.Policy = p] \in Configs
      BY DEF ConfigInv, ConfigTypeOK, Configs
    <2>2. [stored EXCEPT !.Policy = p] \in Records
      BY DEF ConfigInv, ConfigTypeOK, Records
    <2> QED BY <2>1, <2>2 DEF SetPolicy, ConfigTypeOK
  <1>2. waiting' # {}
    BY DEF SetPolicy
  <1> QED BY <1>1, <1>2 DEF ConfigInv, RunsShownPolicy

LEMMA SetInMemoryKeeps ==
    ASSUME ConfigInv, NEW p \in {"Enable", "IdleTimeout"}, NEW v \in {0, 1},
           SetInMemory(p, v)
    PROVE  ConfigInv'
  <1>1. /\ [config EXCEPT ![p] = v] \in Configs
        /\ [config EXCEPT ![p] = v].Policy = config.Policy
    BY DEF ConfigInv, ConfigTypeOK, Configs
  <1>2. /\ config' = [config EXCEPT ![p] = v]
        /\ UNCHANGED <<stored, policyRuns, waiting, asked>>
    BY DEF SetInMemory
  <1> QED BY <1>1, <1>2 DEF ConfigInv, ConfigTypeOK, RunsShownPolicy,
                            WanManager_GetParamUlongValue

\* The main thread runs what is shown, or waits before it asks for a reboot.
LEMMA MainStepKeeps == ConfigInv /\ MainStep => ConfigInv'
  <1> SUFFICES ASSUME ConfigInv, MainStep PROVE ConfigInv'
    OBVIOUS
  <1>1. ConfigTypeOK'
    BY DEF MainStep, WanController_Init_StateMachine,
           WanController_Start_StateMachine, ConfigInv, ConfigTypeOK
  <1>2. RunsShownPolicy'
    BY DEF MainStep, WanController_Init_StateMachine,
           WanController_Start_StateMachine, ConfigInv, RunsShownPolicy,
           WanManager_GetParamUlongValue
  <1> QED BY <1>1, <1>2 DEF ConfigInv

LEMMA ConfigInvNext == ConfigInv /\ [ConfigNext]_configVars => ConfigInv'
  <1> SUFFICES ASSUME ConfigInv, [ConfigNext]_configVars PROVE ConfigInv'
    OBVIOUS
  <1>1. CASE \E p \in Policies : SetPolicy(p)
    BY <1>1, SetPolicyKeeps
  <1>2. CASE \E v \in {0, 1} : WanManager_SetParamBoolValue(v) \/ SetIdleTimeout(v)
    BY <1>2, SetInMemoryKeeps DEF WanManager_SetParamBoolValue, SetIdleTimeout
  <1>3. CASE MainStep
    BY <1>3, MainStepKeeps
  <1>4. CASE Ask
    BY <1>4 DEF Ask, WanController_Policy_Change, ConfigInv, ConfigTypeOK,
                RunsShownPolicy
  <1>5. CASE Reboot \/ PowerLoss
    BY <1>5, RestartedKeeps DEF Reboot, PowerLoss
  <1>6. CASE UNCHANGED configVars
    BY <1>6 DEF configVars, ConfigInv, ConfigTypeOK, RunsShownPolicy,
                WanManager_GetParamUlongValue
  <1> QED BY <1>1, <1>2, <1>3, <1>4, <1>5, <1>6 DEF ConfigNext

\* Whatever is set and whenever the box is rebooted, a policy other than the
\* one shown runs only until the reboot that is on its way.
THEOREM ShownPolicyRuns == ConfigSpec => []RunsShownPolicy
  <1>1. ConfigInv => RunsShownPolicy
    BY DEF ConfigInv
  <1> QED BY <1>1, ConfigInvInit, ConfigInvNext, PTL DEF ConfigSpec

-----------------------------------------------------------------------------
(***************************************************************************)
(* The lease.  While it does not change during a reading of the object,    *)
(* what an earlier getter has fetched is what the client reports, so that  *)
(* it makes no difference which getters trust it.                          *)
(***************************************************************************)
\* What the object shows of the client at place k
Due(k) == CASE k = 1 -> 1
            [] k = 2 -> client4.bound
            [] k \in {7, 8} -> client4.lease
            [] OTHER -> OfBound(client4)

LeaseInv ==
    /\ walk \in 0 .. 8 /\ disturbed \in BOOLEAN /\ DOMAIN answers4 = 1 .. 8
    /\ walk > 0 /\ ~disturbed =>
          info = client4 /\ \A k \in 1 .. walk : answers4[k] = Due(k)

LEMMA GetsWhatIsDue ==
    ASSUME NEW k \in 1 .. 8, k = 1 \/ info = client4
    PROVE  Get(WholeObject[k]) = Answer(client4, Due(k))
  <1>1. CASE k = 1
    BY <1>1 DEF Get, WholeObject, Client_GetParamUlongValue, Answer, Due,
                WanMgr_DmlDhcpcGetInfo
  <1>2. CASE k = 2
    BY <1>2 DEF Get, WholeObject, Client_GetParamUlongValue, Answer, Due,
                WanMgr_DmlDhcpcGetInfo
  <1>3. CASE k \in {3, 4}
    BY <1>3 DEF Get, WholeObject, Client_GetParamUlongValue, Answer, Due,
                WanMgr_DmlDhcpcGetInfo
  <1>4. CASE k = 5
    BY <1>4 DEF Get, WholeObject, Client_GetParamStringValue, Answer, Due,
                WanMgr_DmlDhcpcGetInfo
  <1>5. CASE k = 6
    BY <1>5 DEF Get, WholeObject, Client_GetParamStringValue, Answer, Due,
                WanMgr_DmlDhcpcGetInfo, OfBound
  <1>6. CASE k = 7
    BY <1>6 DEF Get, WholeObject, Client_GetParamIntValue, Answer, Due,
                WanMgr_DmlDhcpcGetInfo
  <1>7. CASE k = 8
    BY <1>7 DEF Get, WholeObject, Client_GetParamUlongValue, Answer, Due,
                WanMgr_DmlDhcpcGetInfo
  <1> QED BY <1>1, <1>2, <1>3, <1>4, <1>5, <1>6, <1>7

LEMMA ReadNextKeeps ==
    ASSUME LeaseInv, ReadNext
    PROVE  LeaseInv'
  <1> DEFINE next == (walk % 8) + 1
  <1>1. next \in 1 .. 8 /\ (next = 1 \/ next = walk + 1)
    BY DEF LeaseInv
  <1>2. Len(WholeObject) = 8
    BY DEF WholeObject
  <1> HIDE DEF next
  <1>3. /\ info' = Get(WholeObject[next]).info
        /\ answers4' = [k \in DOMAIN answers4 |->
                          IF k < next THEN answers4[k]
                          ELSE IF k = next THEN Get(WholeObject[next]).value ELSE 0]
        /\ walk' = next
        /\ disturbed' = (disturbed /\ next > 1)
        /\ client4' = client4
    BY <1>2 DEF ReadNext, next
  <1>4. walk' \in 0 .. 8 /\ disturbed' \in BOOLEAN /\ DOMAIN answers4' = 1 .. 8
    BY <1>1, <1>3 DEF LeaseInv
  <1>5. ASSUME ~disturbed'
        PROVE  info' = client4' /\ \A k \in 1 .. walk' : answers4'[k] = Due(k)'
    <2>1. next = 1 \/ (walk > 0 /\ ~disturbed /\ walk + 1 = next)
      BY <1>1, <1>3, <1>5 DEF LeaseInv
    <2>2. Get(WholeObject[next]) = Answer(client4, Due(next))
      BY <1>1, <2>1, GetsWhatIsDue DEF LeaseInv
    <2>3. \A k \in 1 .. 8 : Due(k)' = Due(k)
      BY <1>3 DEF Due, OfBound
    <2>4. ASSUME NEW k \in 1 .. next PROVE answers4'[k] = Due(k)
      <3>1. k \in DOMAIN answers4
        BY <1>1 DEF LeaseInv
      <3>2. CASE k = next
        BY <1>1, <1>3, <2>2, <3>1, <3>2 DEF Answer
      <3>3. CASE k # next
        <4>1. k < next /\ k \in 1 .. walk /\ walk > 0 /\ ~disturbed
          BY <1>1, <2>1, <3>3 DEF LeaseInv
        <4> QED BY <1>3, <3>1, <4>1 DEF LeaseInv
      <3> QED BY <3>2, <3>3
    <2> QED BY <1>1, <1>3, <2>2, <2>3, <2>4 DEF Answer
  <1> QED BY <1>4, <1>5 DEF LeaseInv

\* A single parameter leaves what has been fetched as it is, or fetches it anew.
LEMMA ReadOneKeeps ==
    ASSUME LeaseInv, NEW p \in {"DNSServers", "DHCPServer"}, ReadOne(p)
    PROVE  LeaseInv'
  <1>1. info' \in {info, client4}
    BY DEF ReadOne, Get, Client_GetParamStringValue, Client_GetParamUlongValue,
           Answer, WanMgr_DmlDhcpcGetInfo
  <1>2. UNCHANGED <<client4, walk, answers4, disturbed>>
    BY DEF ReadOne
  <1> QED BY <1>1, <1>2 DEF LeaseInv, Due, OfBound

LEMMA LeaseInvNext == LeaseInv /\ [LearnedNext]_learnedVars => LeaseInv'
  <1> SUFFICES ASSUME LeaseInv, [LearnedNext]_learnedVars PROVE LeaseInv'
    OBVIOUS
  <1>1. CASE UNCHANGED leaseVars
    BY <1>1 DEF leaseVars, LeaseInv, Due, OfBound
  <1>2. CASE LeaseChanges
    <2>1. UNCHANGED <<info, walk, answers4>> /\ disturbed' = (walk > 0)
      BY <1>2 DEF LeaseChanges
    <2>2. CASE walk > 0
      BY <2>1, <2>2 DEF LeaseInv
    <2>3. CASE ~(walk > 0)
      BY <2>1, <2>3 DEF LeaseInv
    <2> QED BY <2>2, <2>3
  <1>3. CASE ServersNext \/ OptionsNext
    BY <1>1, <1>3 DEF ServersNext, OptionsNext, FileStep, Tick, Leave, WriteLine,
       Rewrite, Server2_IsUpdated, Server2_Synchronize, ReceivedOption_IsUpdated,
       ReceivedOption_Synchronize, IsUpdated, Synchronize
  <1> QED BY <1>1, <1>2, <1>3, ReadNextKeeps, ReadOneKeeps
          DEF LearnedNext, LeaseNext, learnedVars

\* The object is shown as one lease, or none, whatever is read in between and
\* in whatever state the getters that trust one another have been left.
THEOREM ObjectShowsOneLease == LearnedSpec => []WholeObjectAgrees
  <1>1. LearnedInit => LeaseInv
    <2>1. DOMAIN WholeObject = 1 .. 8
      BY DEF WholeObject
    <2> HIDE DEF WholeObject
    <2>2. ASSUME LearnedInit
          PROVE  walk = 0 /\ disturbed = FALSE /\ DOMAIN answers4 = 1 .. 8
      BY <2>1, <2>2 DEF LearnedInit
    <2> QED BY <2>2 DEF LeaseInv
  <1>2. LeaseInv => WholeObjectAgrees
    <2> SUFFICES ASSUME LeaseInv, walk = 8, ~disturbed, NEW k \in 1 .. 8
                 PROVE  CASE WholeObject[k] = "Status" -> answers4[k] = 1
                        [] WholeObject[k] = "DHCPStatus" -> answers4[k] = client4.bound
                        [] WholeObject[k] = "LeaseTimeRemaining"
                             \/ WholeObject[k] = "DHCPServer" ->
                             answers4[k] = client4.lease
                        [] OTHER -> answers4[k] = OfBound(client4)
      BY DEF WholeObjectAgrees, WholeObject
    <2>1. answers4[k] = Due(k)
      BY DEF LeaseInv
    <2>2. CASE k \in {1, 2}
      BY <2>1, <2>2 DEF WholeObject, Due
    <2>3. CASE k \in {3, 4}
      BY <2>1, <2>3 DEF WholeObject, Due
    <2>4. CASE k \in {5, 6}
      BY <2>1, <2>4 DEF WholeObject, Due
    <2>5. CASE k \in {7, 8}
      BY <2>1, <2>5 DEF WholeObject, Due
    <2> QED BY <2>2, <2>3, <2>4, <2>5
  <1> QED BY <1>1, <1>2, LeaseInvNext, PTL DEF LearnedSpec

-----------------------------------------------------------------------------
(***************************************************************************)
(* The files.  The lines of a file are of one answer, since the client     *)
(* empties it before it writes another one; so are the entries that one    *)
(* reading of it gives, at whatever line the client is.                    *)
(***************************************************************************)
Line == [kind : {"addr", "duid", "option", "cut"}, of : Answers]

\* The entries kept are of one answer.
OneServer(entries) ==
    \E n \in Answers : \A k \in 1 .. Len(entries) :
        {entries[k].SourceAddress, entries[k].DUID} = {n}
OneOfOptions(entries) ==
    \E n \in Answers : \A k \in 1 .. Len(entries) : {entries[k].Value} = {n}
OneAnswer(t, entries) ==
    IF t = "Server" THEN OneServer(entries) ELSE OneOfOptions(entries)

FilesInv ==
    /\ writing \in [Tables -> Answers]
    /\ file \in [Tables -> Seq(Line)]
    /\ \A t \in Tables : \A j \in DOMAIN file[t] : file[t][j].of = writing[t]
    /\ DOMAIN table = Tables
    /\ \A t \in Tables : OneAnswer(t, table[t])

LEMMA OfKindKeeps ==
    ASSUME NEW lines \in Seq(Line), NEW n, NEW kind,
           \A j \in DOMAIN lines : lines[j].of = n
    PROVE  /\ OfKind(lines, kind) \in Seq(Line)
           /\ \A j \in DOMAIN OfKind(lines, kind) : OfKind(lines, kind)[j].of = n
  <1> DEFINE K == {j \in DOMAIN lines : lines[j].kind = kind}
  <1>1. OfKind(lines, kind) = ElementsAt(lines, K)
    BY DEF OfKind
  <1> HIDE DEF K
  <1> QED BY <1>1, ElementsAtRange

\* What is read of the lines of one answer is of that answer.
LEMMA ParsesOneAnswer ==
    ASSUME NEW t \in Tables, NEW n \in Answers, NEW lines \in Seq(Line),
           \A j \in DOMAIN lines : lines[j].of = n
    PROVE  OneAnswer(t, Parse(t, lines))
  <1>1. CASE t = "Server"
    <2> DEFINE addrs == OfKind(lines, "addr")
               duids == OfKind(lines, "duid")
               p == WanMgr_DmlDhcpv6cGetServerCfg(lines)
    <2>1. /\ addrs \in Seq(Line) /\ \A j \in DOMAIN addrs : addrs[j].of = n
          /\ duids \in Seq(Line) /\ \A j \in DOMAIN duids : duids[j].of = n
      BY OfKindKeeps
    <2>2. p = IF addrs = <<>> \/ duids = <<>> THEN <<>>
              ELSE <<[SourceAddress |-> LastOf(addrs), DUID |-> LastOf(duids)]>>
      BY DEF WanMgr_DmlDhcpv6cGetServerCfg
    <2> HIDE DEF addrs, duids, p
    <2>3. CASE addrs = <<>> \/ duids = <<>>
      <3>1. p = <<>>
        BY <2>2, <2>3
      <3>2. 1 .. Len(p) = {}
        BY <3>1
      <3> QED BY <1>1, <3>2 DEF OneAnswer, OneServer, Parse, p
    <2>4. CASE ~(addrs = <<>> \/ duids = <<>>)
      <3>1. Len(addrs) \in DOMAIN addrs /\ Len(duids) \in DOMAIN duids
        BY <2>1, <2>4
      <3>2. LastOf(addrs) = n /\ LastOf(duids) = n
        BY <2>1, <3>1 DEF LastOf
      <3>3. p = <<[SourceAddress |-> n, DUID |-> n]>>
        BY <2>2, <2>4, <3>2
      <3>4. 1 .. Len(p) = {1} /\ p[1].SourceAddress = n /\ p[1].DUID = n
        BY <3>3
      <3>5. OneServer(p)
        <4> HIDE DEF p
        <4> QED BY <3>4 DEF OneServer
      <3> QED BY <1>1, <3>5 DEF OneAnswer, Parse, p
    <2> QED BY <2>3, <2>4
  <1>2. CASE t # "Server"
    <2> DEFINE options == OfKind(lines, "option")
               p == WanMgr_DmlDhcpv6cGetReceivedOptionCfg(lines)
    <2>1. options \in Seq(Line) /\ \A j \in DOMAIN options : options[j].of = n
      BY OfKindKeeps
    <2>2. p = [k \in 1 .. Len(options) |-> [Value |-> options[k].of]]
      BY DEF WanMgr_DmlDhcpv6cGetReceivedOptionCfg
    <2> HIDE DEF options, p
    <2>3. DOMAIN options = 1 .. Len(options) /\ Len(options) \in Nat
      BY <2>1
    <2>4. DOMAIN p = 1 .. Len(options)
      BY <2>2
    <2>5. Len(p) = Len(options)
      <3>1. p \in Seq([Value : Answers])
        BY <2>1, <2>2, <2>3
      <3> QED BY <2>3, <2>4, <3>1
    <2>6. \A k \in 1 .. Len(p) : p[k].Value = n
      BY <2>1, <2>2, <2>3, <2>5
    <2>7. OneOfOptions(p)
      BY <2>6 DEF OneOfOptions
    <2> QED BY <1>2, <2>7 DEF OneAnswer, Parse, p
  <1> QED BY <1>1, <1>2

LEMMA LineType ==
    ASSUME NEW t \in Tables, NEW n \in Answers
    PROVE  /\ Lines(t, n) \in Seq(Line)
           /\ \A j \in 1 .. Len(Lines(t, n)) :
                 Lines(t, n)[j] \in Line /\ Lines(t, n)[j].of = n
  <1>1. \A k \in {"addr", "duid", "option", "cut"} : [kind |-> k, of |-> n] \in Line
    BY DEF Line
  <1>2. CASE t = "Server"
    <2>1. Lines(t, n) = <<[kind |-> "addr", of |-> n], [kind |-> "duid", of |-> n]>>
      BY <1>2 DEF Lines
    <2> QED BY <1>1, <2>1
  <1>3. CASE t # "Server"
    <2>1. Lines(t, n) = <<[kind |-> "option", of |-> n], [kind |-> "cut", of |-> n],
                          [kind |-> "option", of |-> n]>>
      BY <1>3 DEF Lines
    <2> QED BY <1>1, <2>1
  <1> QED BY <1>2, <1>3

LEMMA WriteLineKeeps ==
    ASSUME FilesInv, NEW t \in Tables, WriteLine(t)
    PROVE  FilesInv'
  <1> DEFINE n == writing[t]
             L == Lines(t, n)
             f == file[t]
             x == L[Len(f) + 1]
  <1>1. n \in Answers /\ f \in Seq(Line) /\ \A j \in DOMAIN f : f[j].of = n
    BY DEF FilesInv
  <1>2. x \in Line /\ x.of = n
    <2>1. L \in Seq(Line) /\ \A j \in 1 .. Len(L) : L[j] \in Line /\ L[j].of = n
      BY <1>1, LineType
    <2>2. Len(f) < Len(L)
      BY DEF WriteLine
    <2> HIDE DEF f, L, n
    <2>3. Len(f) + 1 \in 1 .. Len(L)
      BY <1>1, <2>1, <2>2
    <2> QED BY <2>1, <2>3
  <1>3. file' = [file EXCEPT ![t] = Append(f, x)]
    BY DEF WriteLine
  <1>4. UNCHANGED <<writing, table>>
    BY DEF WriteLine
  <1> HIDE DEF x, f, n
  <1>5. Append(f, x) \in Seq(Line) /\ \A j \in DOMAIN Append(f, x) : Append(f, x)[j].of = n
    BY <1>1, <1>2
  <1>6. file' \in [Tables -> Seq(Line)]
    BY <1>3, <1>5 DEF FilesInv
  <1>7. \A u \in Tables : \A j \in DOMAIN file'[u] : file'[u][j].of = writing[u]
    <2> SUFFICES ASSUME NEW u \in Tables, NEW j \in DOMAIN file'[u]
                 PROVE  file'[u][j].of = writing[u]
      OBVIOUS
    <2>1. CASE u = t
      BY <1>3, <1>5, <2>1 DEF FilesInv, n
    <2>2. CASE u # t
      BY <1>3, <2>2 DEF FilesInv
    <2> QED BY <2>1, <2>2
  <1> QED BY <1>4, <1>6, <1>7 DEF FilesInv

LEMMA RewriteKeeps ==
    ASSUME FilesInv, NEW t \in Tables, NEW n \in Answers, Rewrite(t, n)
    PROVE  FilesInv'
  <1>1. <<>> \in Seq(Line) /\ DOMAIN <<>> = {}
    OBVIOUS
  <1>2. /\ file' = [file EXCEPT ![t] = <<>>] /\ writing' = [writing EXCEPT ![t] = n]
        /\ table' = table
    BY DEF Rewrite
  <1>3. file' \in [Tables -> Seq(Line)] /\ writing' \in [Tables -> Answers]
    BY <1>1, <1>2 DEF FilesInv
  <1>4. \A u \in Tables : \A j \in DOMAIN file'[u] : file'[u][j].of = writing'[u]
    <2> SUFFICES ASSUME NEW u \in Tables, NEW j \in DOMAIN file'[u]
                 PROVE  file'[u][j].of = writing'[u]
      OBVIOUS
    <2>1. CASE u = t
      BY <1>1, <1>2, <2>1 DEF FilesInv
    <2>2. CASE u # t
      BY <1>2, <2>2 DEF FilesInv
    <2> QED BY <2>1, <2>2
  <1> QED BY <1>2, <1>3, <1>4 DEF FilesInv

LEMMA SynchronizeKeeps ==
    ASSUME FilesInv, NEW t \in Tables, Synchronize(t)
    PROVE  FilesInv'
  <1>1. OneAnswer(t, Parse(t, file[t]))
    BY ParsesOneAnswer DEF FilesInv
  <1>2. /\ table' = [table EXCEPT ![t] = Parse(t, file[t])]
        /\ UNCHANGED <<file, writing>>
    BY DEF Synchronize
  <1>3. DOMAIN table' = Tables
    BY <1>2 DEF FilesInv
  <1>4. \A u \in Tables : OneAnswer(u, table'[u])
    BY <1>1, <1>2 DEF FilesInv
  <1>5. \A u \in Tables : OneAnswer(u, table[u])'
    BY <1>4 DEF OneAnswer, OneServer, OneOfOptions
  <1> QED BY <1>2, <1>3, <1>5 DEF FilesInv

LEMMA FilesInvNext == FilesInv /\ [LearnedNext]_learnedVars => FilesInv'
  <1> SUFFICES ASSUME FilesInv, [LearnedNext]_learnedVars PROVE FilesInv'
    OBVIOUS
  <1>1. CASE UNCHANGED <<file, writing, table>>
    <2>1. \A u \in Tables : OneAnswer(u, table'[u])
      BY <1>1 DEF FilesInv
    <2>2. \A u \in Tables : OneAnswer(u, table[u])'
      BY <2>1 DEF OneAnswer, OneServer, OneOfOptions
    <2> QED BY <1>1, <2>2 DEF FilesInv
  <1>2. CASE LeaseNext
    BY <1>1, <1>2 DEF LeaseNext, LeaseChanges, ReadNext, ReadOne, fileVars
  <1>3. ASSUME NEW t \in Tables, IsUpdated(t) \/ FileStep(t) \/ Synchronize(t)
        PROVE  FilesInv'
    <2>1. CASE IsUpdated(t) \/ Tick \/ Leave(t)
      BY <1>1, <2>1 DEF IsUpdated, Tick, Leave
    <2> QED BY <1>3, <2>1, WriteLineKeeps, RewriteKeeps, SynchronizeKeeps DEF FileStep
  <1>4. CASE ServersNext \/ OptionsNext
    BY <1>3, <1>4 DEF ServersNext, OptionsNext, Tables, Server2_IsUpdated,
       Server2_Synchronize, ReceivedOption_IsUpdated, ReceivedOption_Synchronize
  <1> QED BY <1>1, <1>2, <1>4 DEF LearnedNext, learnedVars, fileVars

\* The server and the options shown are each of one answer, at whatever line of
\* its file the client was when the file was read.
THEOREM EntriesOfOneAnswer == LearnedSpec => []ShowsOneAnswer
  <1>1. LearnedInit => FilesInv
    <2> SUFFICES ASSUME LearnedInit PROVE FilesInv
      OBVIOUS
    <2>1. <<>> \in Seq(Line) /\ DOMAIN <<>> = {} /\ 1 .. Len(<<>>) = {}
      OBVIOUS
    <2>2. writing["Server"] \in Answers
      BY DEF LearnedInit, Tables
    <2>3. \A t \in Tables : table[t] = <<>> /\ file[t] = <<>>
      BY DEF LearnedInit
    <2>4. \A t \in Tables : OneAnswer(t, table[t])
      BY <2>1, <2>2, <2>3 DEF OneAnswer, OneServer, OneOfOptions
    <2> QED BY <2>1, <2>3, <2>4 DEF LearnedInit, FilesInv
  <1>2. FilesInv => ShowsOneAnswer
    <2> SUFFICES ASSUME FilesInv PROVE ShowsOneAnswer
      OBVIOUS
    <2>1. OneServer(table["Server"]) /\ OneOfOptions(table["ReceivedOption"])
      BY DEF FilesInv, OneAnswer, Tables
    <2> QED BY <2>1 DEF ShowsOneAnswer, OneServer, OneOfOptions,
       Server2_GetEntryCount, Server2_GetParamStringValue, Server2_GetEntry,
       ReceivedOption_GetEntryCount, ReceivedOption_GetParamStringValue,
       ReceivedOption_GetEntry
  <1> QED BY <1>1, <1>2, FilesInvNext, PTL DEF LearnedSpec

-----------------------------------------------------------------------------
(***************************************************************************)
(* The interval.  What is kept has been in the file since the last visit   *)
(* that read it, or longer, unless a reading is on its way: a visit that   *)
(* reads nothing leaves the time of the last one that did.                 *)
(***************************************************************************)
Visits == {"out", "sync", "read"}
StaleInv ==
    /\ sincePrevious \in [Tables -> 0 .. Interval]
    /\ stale \in [Tables -> 0 .. Interval]
    /\ visit \in [Tables -> Visits]
    /\ \A t \in Tables : visit[t] = "sync" \/ stale[t] <= sincePrevious[t]

LEMMA StaleInvNext == StaleInv /\ [LearnedNext]_learnedVars => StaleInv'
  <1> SUFFICES ASSUME StaleInv, [LearnedNext]_learnedVars PROVE StaleInv'
    OBVIOUS
  <1> USE LearnedAssumption
  <1>1. CASE UNCHANGED <<sincePrevious, stale, visit>>
    BY <1>1 DEF StaleInv
  <1>2. CASE LeaseNext
    BY <1>1, <1>2 DEF LeaseNext, LeaseChanges, ReadNext, ReadOne, fileVars
  <1>3. CASE Tick
    <2> DEFINE Older(n) == IF n < Interval THEN n + 1 ELSE Interval
    <2>1. \A n \in 0 .. Interval : Older(n) \in 0 .. Interval
      OBVIOUS
    <2>2. \A n, m \in 0 .. Interval : n <= m => Older(n) <= Older(m)
      OBVIOUS
    <2>3. /\ sincePrevious' = [t \in Tables |-> Older(sincePrevious[t])]
          /\ stale' = [t \in Tables |-> IF table[t] = Parse(t, file[t]) THEN 0
                                       ELSE Older(stale[t])]
          /\ visit' = visit
      BY <1>3 DEF Tick
    <2> HIDE DEF Older
    <2>4. \A t \in Tables : sincePrevious[t] \in 0 .. Interval /\ stale[t] \in 0 .. Interval
      BY DEF StaleInv
    <2>5. sincePrevious' \in [Tables -> 0 .. Interval] /\ stale' \in [Tables -> 0 .. Interval]
      BY <2>1, <2>3, <2>4
    <2>6. ASSUME NEW t \in Tables, visit'[t] # "sync"
          PROVE  stale'[t] <= sincePrevious'[t]
      <3>1. stale[t] <= sincePrevious[t]
        BY <2>3, <2>6 DEF StaleInv
      <3>2. Older(stale[t]) <= Older(sincePrevious[t]) /\ Older(sincePrevious[t]) \in 0 .. Interval
        BY <2>1, <2>2, <2>4, <3>1
      <3>3. 0 <= Older(sincePrevious[t])
        BY <3>2
      <3> QED BY <2>3, <3>2, <3>3
    <2> QED BY <2>3, <2>5, <2>6 DEF StaleInv
  <1>4. ASSUME NEW t \in Tables, IsUpdated(t) PROVE StaleInv'
    <2>1. CASE sincePrevious[t] < Interval
      <3>1. /\ visit[t] = "out" /\ visit' = [visit EXCEPT ![t] = "read"]
            /\ UNCHANGED <<sincePrevious, stale>>
        BY <1>4, <2>1 DEF IsUpdated
      <3> QED BY <3>1 DEF StaleInv, Visits
    <2>2. CASE ~(sincePrevious[t] < Interval)
      <3>1. /\ visit' = [visit EXCEPT ![t] = "sync"] /\ UNCHANGED stale
            /\ sincePrevious' = [sincePrevious EXCEPT ![t] = 0]
        BY <1>4, <2>2 DEF IsUpdated
      <3> QED BY <3>1 DEF StaleInv, Visits
    <2> QED BY <2>1, <2>2
  <1>5. ASSUME NEW t \in Tables, Synchronize(t) PROVE StaleInv'
    <2>1. /\ visit' = [visit EXCEPT ![t] = "read"] /\ UNCHANGED sincePrevious
          /\ stale' = [stale EXCEPT ![t] = 0]
      BY <1>5 DEF Synchronize
    <2> QED BY <2>1 DEF StaleInv, Visits
  <1>6. ASSUME NEW t \in Tables, Leave(t) PROVE StaleInv'
    <2>1. /\ visit[t] = "read" /\ visit' = [visit EXCEPT ![t] = "out"]
          /\ UNCHANGED <<sincePrevious, stale>>
      BY <1>6 DEF Leave
    <2> QED BY <2>1 DEF StaleInv, Visits
  <1>7. CASE ServersNext \/ OptionsNext
    <2>1. ASSUME NEW t \in Tables, FileStep(t) PROVE StaleInv'
      <3>1. CASE WriteLine(t) \/ \E n \in Answers : Rewrite(t, n)
        BY <1>1, <3>1 DEF WriteLine, Rewrite
      <3> QED BY <1>3, <1>6, <2>1, <3>1 DEF FileStep
    <2> QED BY <1>4, <1>5, <1>7, <2>1 DEF ServersNext, OptionsNext, Tables,
       Server2_IsUpdated, Server2_Synchronize, ReceivedOption_IsUpdated,
       ReceivedOption_Synchronize
  <1> QED BY <1>1, <1>2, <1>7 DEF LearnedNext, learnedVars, fileVars

\* No visit shows what has been out of its file for an interval.
THEOREM NothingOlderIsShown == LearnedSpec => ShowsNothingOlder
  <1>1. LearnedInit => StaleInv
    BY LearnedAssumption DEF LearnedInit, StaleInv, Visits
  <1> DEFINE Fresh == \A t \in Tables :
                        visit[t] # "read" /\ visit'[t] = "read" => stale'[t] < Interval
  <1>2. StaleInv /\ [LearnedNext]_learnedVars => [Fresh]_learnedVars
    <2> SUFFICES ASSUME StaleInv, LearnedNext PROVE Fresh
      OBVIOUS
    <2> USE LearnedAssumption
    <2>1. CASE visit' = visit
      BY <2>1
    <2>2. CASE LeaseNext
      BY <2>1, <2>2 DEF LeaseNext, LeaseChanges, ReadNext, ReadOne, fileVars
    <2>3. ASSUME NEW t \in Tables, IsUpdated(t) PROVE Fresh
      <3> SUFFICES ASSUME NEW u \in Tables, visit[u] # "read", visit'[u] = "read"
                   PROVE  stale'[u] < Interval
        OBVIOUS
      <3>1. u = t /\ sincePrevious[t] < Interval /\ visit[t] = "out" /\ stale' = stale
        BY <2>3 DEF IsUpdated, StaleInv
      <3>2. stale[t] <= sincePrevious[t] /\ stale[t] \in 0 .. Interval
            /\ sincePrevious[t] \in 0 .. Interval
        BY <3>1 DEF StaleInv
      <3> QED BY <3>1, <3>2
    <2>4. ASSUME NEW t \in Tables, Synchronize(t) PROVE Fresh
      BY <2>4 DEF Synchronize, StaleInv
    <2>5. ASSUME NEW t \in Tables, FileStep(t) PROVE Fresh
      <3>1. CASE Leave(t)
        BY <3>1 DEF Leave, StaleInv
      <3>2. CASE Tick \/ WriteLine(t) \/ \E n \in Answers : Rewrite(t, n)
        BY <2>1, <3>2 DEF Tick, WriteLine, Rewrite
      <3> QED BY <2>5, <3>1, <3>2 DEF FileStep
    <2>6. CASE ServersNext \/ OptionsNext
      BY <2>3, <2>4, <2>5, <2>6 DEF ServersNext, OptionsNext, Tables,
         Server2_IsUpdated, Server2_Synchronize, ReceivedOption_IsUpdated,
         ReceivedOption_Synchronize
    <2> QED BY <2>2, <2>6 DEF LearnedNext
  <1> QED BY <1>1, <1>2, StaleInvNext, PTL DEF LearnedSpec, ShowsNothingOlder

=============================================================================
