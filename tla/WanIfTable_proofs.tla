--------------------------- MODULE WanIfTable_proofs ---------------------------
(***************************************************************************)
(* For any number of interfaces and of threads that set their parameters:  *)
(* a set of Type or Priority that meets no other gives no two interfaces   *)
(* the same pair, and a start loads what was committed.                    *)
(*                                                                         *)
(* The look at the other interfaces and the write are steps of their own.  *)
(* What a thread has seen stays true as long as no other thread is between *)
(* the two (SeenAlone).  What is kept of a commit is what the records hold *)
(* (RecordsKept), record by record, so that a commit may be cut off.       *)
(***************************************************************************)
EXTENDS WanIfTable, TLAPS

Value == Types \union Priorities \union {-1, 0, 1}
Pair == {"Type", "Priority"}

WanIfTypeOK ==
    /\ wanif \in [Ifaces -> [Params -> Value]]
    /\ psm \in [Ifaces -> [Params -> Value \union {Blank}]]
    /\ kept \in [Ifaces -> [Params -> SUBSET Value]]
    /\ DOMAIN call = Threads

\* The parameters a start takes from their records
Loadable == Persistent \ {"SelectionTimeout", "DynamicTrigger.Delay"}

RecordsKept ==
    \A i \in Ifaces : \A p \in Loadable : psm[i][p] \in kept[i][p]

\* A call under way
Begun == [iface : Ifaces, param : Pair, value : Value, other : Value,
          next : Nat \ {0}, met : BOOLEAN]
CallsOK == \A t \in Threads : call[t] # Idle => call[t] \in Begun

\* A call that has met no other is the only one, and the interfaces it has
\* looked at do not have the pair it will write.
Seen(c, j) == /\ wanif[j][c.param] = c.value
              /\ wanif[j][Other(c.param)] = c.other
SeenAlone ==
    \A t \in Threads : call[t] # Idle /\ ~call[t].met =>
        /\ \A u \in Threads \ {t} : call[u] = Idle
        /\ call[t].other = wanif[call[t].iface][Other(call[t].param)]
        /\ \A j \in Ifaces \ {call[t].iface} : j < call[t].next => ~Seen(call[t], j)

WanIfInv == WanIfTypeOK /\ CallsOK /\ RecordsKept /\ SeenAlone

-----------------------------------------------------------------------------
LEMMA PlainIsNoPair == \A p \in Plain : p \notin Pair
  BY DEF Plain, Pair, WanIf_SetParamStringValue, WanIfCfg_SetParamBoolValue,
         SetTimeoutOrLink, WanIfCfg_SetParamStringValue,
         WanIfValidation_SetParamBoolValue, WanIfPhy_SetParamStringValue,
         WanIfPhy_SetParamUlongValue, WanIfDynTrigger_SetParamUlongValue,
         WanIfDynTrigger_SetParamBoolValue, WanIfIpCfg_SetParamUlongValue,
         WanIfIpCfg_SetParamStringValue, WanIfDSLite_SetParamUlongValue,
         WanIfDSLite_SetParamStringValue, WanIfPPPCfg_SetParamUlongValue,
         WanIfPPPCfg_SetParamStringValue

LEMMA PairsAreParams ==
    /\ Pair \subseteq Params /\ Loadable \subseteq Params
    /\ \A p \in Pair : Other(p) \in Pair /\ Other(p) # p
  BY DEF Pair, Params, Loadable, Persistent, Other

LEMMA FreshIsValue == WanMgr_IfaceData_Init \in [Params -> Value]
  BY DEF WanMgr_IfaceData_Init, Value

LEMMA IdleIs == Idle.next = 0
  BY DEF Idle

\* What a start loads, given records of the right kind.
LEMMA LoadedType ==
    ASSUME NEW stored \in [Ifaces -> [Params -> Value \union {Blank}]]
    PROVE  WanMgr_WanIfaceConfInit(stored) \in [Ifaces -> [Params -> Value]]
  <1> SUFFICES ASSUME NEW i \in Ifaces, NEW p \in Params
               PROVE  get_Wan_Interface_ParametersFromPSM(stored[i])[p] \in Value
    BY DEF WanMgr_WanIfaceConfInit, get_Wan_Interface_ParametersFromPSM
  <1>1. stored[i] \in [Params -> Value \union {Blank}]
    OBVIOUS
  <1> QED BY <1>1, FreshIsValue DEF get_Wan_Interface_ParametersFromPSM

LEMMA NameIsNotStored == "Wan.Name" \notin Persistent
  <1>1. "Wan.Name" \notin All(write_Wan_Interface_Validation_ParametersToPSM)
    BY DEF All, First, write_Wan_Interface_Validation_ParametersToPSM
  <1>2. "Wan.Name" \notin All(write_Wan_Interface_ParametersFromPSM)
    BY DEF All, First, write_Wan_Interface_ParametersFromPSM
  <1> QED BY <1>1, <1>2 DEF Persistent

LEMMA LoadedAsKept ==
    ASSUME NEW stored \in [Ifaces -> [Params -> Value \union {Blank}]],
           NEW i \in Ifaces, NEW p \in Loadable, stored[i][p] # Blank
    PROVE  WanMgr_WanIfaceConfInit(stored)[i][p] = stored[i][p]
  <1>1. p \in Params /\ p \in Persistent
    BY DEF Loadable, Persistent
  <1>2. p # "Wan.Name"
    BY <1>1, NameIsNotStored
  <1>3. get_Wan_Interface_ParametersFromPSM(stored[i])[p] = stored[i][p]
    BY <1>1, <1>2 DEF get_Wan_Interface_ParametersFromPSM
  <1> QED BY <1>3 DEF WanMgr_WanIfaceConfInit

\* A value is kept, a blank record is not.
LEMMA KeptIsNotBlank ==
    ASSUME WanIfTypeOK, RecordsKept, NEW i \in Ifaces, NEW p \in Loadable
    PROVE  psm[i][p] # Blank /\ psm[i][p] \in Value
  <1>1. psm[i][p] \in kept[i][p] /\ kept[i][p] \subseteq Value
    BY PairsAreParams DEF WanIfTypeOK, RecordsKept
  <1> QED BY <1>1, IfaceAssumption DEF Value

-----------------------------------------------------------------------------
\* The initial records are values, so they are what is loaded.
LEMMA InitHolds == WanIfInit => WanIfInv
  <1> SUFFICES ASSUME WanIfInit PROVE WanIfInv
    OBVIOUS
  <1>1. psm \in [Ifaces -> [Params -> Value]]
    BY IfaceAssumption DEF WanIfInit, Value
  <1>2. psm \in [Ifaces -> [Params -> Value \union {Blank}]]
    BY <1>1
  <1>3. wanif \in [Ifaces -> [Params -> Value]]
    BY <1>2, LoadedType DEF WanIfInit
  <1>4. kept \in [Ifaces -> [Params -> SUBSET Value]]
    <2>1. kept = [i \in Ifaces |-> [p \in Params |-> {wanif[i][p]}]]
      BY DEF WanIfInit
    <2>2. ASSUME NEW i \in Ifaces, NEW p \in Params
          PROVE  {wanif[i][p]} \in SUBSET Value
      BY <1>3
    <2> QED BY <2>1, <2>2
  <1>5. RecordsKept
    <2> SUFFICES ASSUME NEW i \in Ifaces, NEW p \in Loadable
                 PROVE  psm[i][p] \in kept[i][p]
      BY DEF RecordsKept
    <2>1. p \in Params
      BY PairsAreParams
    <2>2. psm[i][p] # Blank
      BY <1>1, <2>1, IfaceAssumption DEF Value
    <2>3. wanif[i][p] = psm[i][p]
      <3>1. WanMgr_WanIfaceConfInit(psm)[i][p] = psm[i][p]
        BY <1>2, <2>2, LoadedAsKept
      <3>2. wanif = WanMgr_WanIfaceConfInit(psm)
        BY DEF WanIfInit
      <3> QED BY <3>1, <3>2
    <2> QED BY <2>1, <2>3 DEF WanIfInit
  <1>6. \A t \in Threads : call[t] = Idle
    BY DEF WanIfInit
  <1>7. DOMAIN call = Threads
    BY DEF WanIfInit
  <1> QED BY <1>2, <1>3, <1>4, <1>5, <1>6, <1>7
          DEF WanIfInv, WanIfTypeOK, CallsOK, SeenAlone

-----------------------------------------------------------------------------
(***************************************************************************)
(* The steps.                                                              *)
(***************************************************************************)
\* What a call has seen depends on the pairs only.
LEMMA SeenOfPairs ==
    ASSUME WanIfInv, UNCHANGED call,
           \A i \in Ifaces, p \in Pair : wanif'[i][p] = wanif[i][p]
    PROVE  CallsOK' /\ SeenAlone'
  <1>1. CallsOK'
    BY DEF WanIfInv, CallsOK
  <1>2. ASSUME NEW t \in Threads, call[t] # Idle, ~call[t].met
        PROVE  /\ \A u \in Threads \ {t} : call[u] = Idle
               /\ call[t].other = wanif'[call[t].iface][Other(call[t].param)]
               /\ \A j \in Ifaces \ {call[t].iface} :
                    j < call[t].next => ~Seen(call[t], j)'
    <2> DEFINE c == call[t]
    <2>1. c.iface \in Ifaces /\ c.param \in Pair /\ Other(c.param) \in Pair
      BY <1>2, PairsAreParams DEF WanIfInv, CallsOK, Begun
    <2>2. /\ \A u \in Threads \ {t} : call[u] = Idle
          /\ c.other = wanif[c.iface][Other(c.param)]
          /\ \A j \in Ifaces \ {c.iface} : j < c.next => ~Seen(c, j)
      BY <1>2 DEF WanIfInv, SeenAlone
    <2>3. c.other = wanif'[c.iface][Other(c.param)]
      BY <2>1, <2>2
    <2>4. ASSUME NEW j \in Ifaces \ {c.iface}, j < c.next
          PROVE  ~(Seen(c, j)')
      <3>1. ~Seen(c, j)
        BY <2>2, <2>4
      <3>2. c' = c
        OBVIOUS
      <3> QED BY <2>1, <3>1, <3>2 DEF Seen
    <2> QED BY <2>2, <2>3, <2>4
  <1> QED BY <1>1, <1>2 DEF SeenAlone

\* A setter of one parameter that is not half of a pair.
LEMMA SetsPlain ==
    ASSUME WanIfInv, NEW i \in Ifaces, NEW p \in Params \ Pair, NEW v \in Bit,
           wanif' = [wanif EXCEPT ![i][p] = v], UNCHANGED <<psm, call, kept>>
    PROVE  WanIfInv'
  <1>1. wanif \in [Ifaces -> [Params -> Value]]
    BY DEF WanIfInv, WanIfTypeOK
  <1>2. wanif' \in [Ifaces -> [Params -> Value]]
    BY <1>1 DEF Bit, Value
  <1>3. \A j \in Ifaces, q \in Pair : wanif'[j][q] = wanif[j][q]
    BY <1>1, PairsAreParams
  <1>4. CallsOK' /\ SeenAlone'
    BY <1>3, SeenOfPairs
  <1>5. RecordsKept'
    BY DEF WanIfInv, RecordsKept
  <1> QED BY <1>2, <1>4, <1>5 DEF WanIfInv, WanIfTypeOK

\* The first step of a set marks every call it meets, and itself.
LEMMA BeginsSet ==
    ASSUME WanIfInv, NEW t \in Threads, NEW i \in Ifaces, NEW p \in Pair,
           NEW v \in Value, BeginSet(t, i, p, v)
    PROVE  WanIfInv'
  <1> DEFINE busy == {u \in Threads \ {t} : call[u] # Idle}
             o == wanif[i][Other(p)]
  <1>1. o \in Value
    BY PairsAreParams DEF WanIfInv, WanIfTypeOK
  <1>2. call' = [u \in Threads |->
           IF u = t THEN [iface |-> i, param |-> p, value |-> v,
                          other |-> o, next |-> 1, met |-> busy # {}]
           ELSE IF u \in busy THEN [call[u] EXCEPT !.met = TRUE]
           ELSE call[u]]
    BY DEF BeginSet
  <1>3. call'[t] = [iface |-> i, param |-> p, value |-> v,
                    other |-> o, next |-> 1, met |-> busy # {}]
    BY <1>2, Zenon
  <1>4. \A u \in busy : call'[u] = [call[u] EXCEPT !.met = TRUE]
    BY <1>2, Zenon
  <1>5. \A u \in Threads : u # t /\ u \notin busy => call'[u] = call[u] /\ call[u] = Idle
    <2>1. \A u \in Threads : u # t /\ u \notin busy => call'[u] = call[u]
      BY <1>2, Zenon
    <2> QED BY <2>1
  <1>6. UNCHANGED <<wanif, psm, kept>>
    BY DEF BeginSet
  <1>7. DOMAIN call' = Threads
    BY <1>2
  <1>8. \A u \in busy : call[u] \in Begun
    BY DEF WanIfInv, CallsOK
  <1>9. call'[t] \in Begun
    <2> DEFINE m == busy # {}
    <2>1. m \in BOOLEAN
      OBVIOUS
    <2>2. 1 \in Nat \ {0}
      OBVIOUS
    <2>3. call'[t] = [iface |-> i, param |-> p, value |-> v,
                      other |-> o, next |-> 1, met |-> m]
      BY <1>3
    <2> HIDE DEF m, o
    <2>4. [iface |-> i, param |-> p, value |-> v, other |-> o, next |-> 1,
           met |-> m] \in Begun
      BY <1>1, <2>1, <2>2 DEF Begun
    <2> QED BY <2>3, <2>4, Zenon
  <1>10. \A u \in busy : call'[u] \in Begun
    BY <1>4, <1>8 DEF Begun
  <1>11. CallsOK'
    BY <1>5, <1>9, <1>10 DEF CallsOK
  <1>12. \A u \in busy : call'[u].met
    BY <1>4, <1>8 DEF Begun
  <1>13. SeenAlone'
    <2> SUFFICES ASSUME NEW u \in Threads, call'[u] # Idle, ~call'[u].met
                 PROVE  /\ \A w \in Threads \ {u} : call'[w] = Idle
                        /\ call'[u].other = wanif'[call'[u].iface][Other(call'[u].param)]
                        /\ \A j \in Ifaces \ {call'[u].iface} :
                             j < call'[u].next => ~Seen(call[u], j)'
      BY DEF SeenAlone
    <2>1. u = t
      BY <1>5, <1>12
    <2>2. busy = {}
      <3>1. call'[t].met = (busy # {})
        <4> DEFINE m == busy # {}
        <4>1. call'[t] = [iface |-> i, param |-> p, value |-> v,
                          other |-> o, next |-> 1, met |-> m]
          BY <1>3
        <4> HIDE DEF m, o
        <4>2. call'[t].met = m
          BY <4>1
        <4> QED BY <4>2 DEF m
      <3> QED BY <2>1, <3>1
    <2>3. \A w \in Threads \ {u} : call'[w] = Idle
      BY <1>5, <2>1, <2>2
    <2>4. call'[u].iface = i /\ call'[u].param = p /\ call'[u].other = o
          /\ call'[u].next = 1
      BY <1>3, <2>1
    <2>5. \A j \in Ifaces : ~(j < 1)
      BY DEF Ifaces
    <2> QED BY <1>6, <2>3, <2>4, <2>5
  <1> QED BY <1>6, <1>7, <1>11, <1>13 DEF WanIfInv, WanIfTypeOK, RecordsKept

\* A thread between the steps of a set
LEMMA GoingOn ==
    ASSUME WanIfInv, NEW t \in Threads, call[t].next # 0
    PROVE  call[t] # Idle /\ call[t] \in Begun
  BY IdleIs DEF WanIfInv, CallsOK

\* Whoever writes or looks alone finds no other call that has met nobody.
LEMMA OthersMet ==
    ASSUME WanIfInv, NEW t \in Threads, call[t] # Idle,
           NEW u \in Threads \ {t}, call[u] # Idle
    PROVE  call[u].met
  BY DEF WanIfInv, SeenAlone

\* One more interface is looked at, or the set is refused.
LEMMA ChecksOne ==
    ASSUME WanIfInv, NEW t \in Threads, WanManager_CheckGivenPriorityExists(t)
    PROVE  WanIfInv'
  <1> DEFINE c == call[t]
             d == [c EXCEPT !.next = @ + 1]
  <1>1. c.next \in Ifaces
    BY DEF WanManager_CheckGivenPriorityExists
  <1>2. c # Idle /\ c \in Begun
    BY <1>1, GoingOn, IfaceAssumption DEF Ifaces
  <1>3. UNCHANGED <<wanif, psm, kept>>
    BY DEF WanManager_CheckGivenPriorityExists
  <1>4. DOMAIN call = Threads
    BY DEF WanIfInv, WanIfTypeOK
  <1>5. call' = [call EXCEPT ![t] = IF Taken(c) THEN Idle ELSE d]
    BY DEF WanManager_CheckGivenPriorityExists
  <1>6. DOMAIN call' = Threads /\ \A u \in Threads \ {t} : call'[u] = call[u]
    BY <1>4, <1>5
  <1>7. Taken(c) => call'[t] = Idle
    BY <1>4, <1>5
  <1>8. ~Taken(c) => call'[t] = d
    BY <1>4, <1>5
  <1>9. /\ d \in Begun /\ d.iface = c.iface /\ d.param = c.param
        /\ d.value = c.value /\ d.other = c.other /\ d.next = c.next + 1
    BY <1>2 DEF Begun
  <1>10. d.met = c.met
    BY <1>2 DEF Begun
  <1> HIDE DEF d
  <1>11. CallsOK'
    BY <1>6, <1>7, <1>8, <1>9 DEF CallsOK, WanIfInv
  <1>12. SeenAlone'
    <2> SUFFICES ASSUME NEW u \in Threads, call'[u] # Idle, ~call'[u].met
                 PROVE  /\ \A w \in Threads \ {u} : call'[w] = Idle
                        /\ call'[u].other = wanif'[call'[u].iface][Other(call'[u].param)]
                        /\ \A j \in Ifaces \ {call'[u].iface} :
                             j < call'[u].next => ~Seen(call[u], j)'
      BY DEF SeenAlone
    <2>1. u = t
      BY <1>2, <1>6, OthersMet
    <2>2. ~Taken(c) /\ call'[u] = d
      BY <1>7, <1>8, <2>1
    <2>3. ~c.met
      BY <1>10, <2>2
    <2>4. /\ \A w \in Threads \ {t} : call[w] = Idle
          /\ c.other = wanif[c.iface][Other(c.param)]
          /\ \A j \in Ifaces \ {c.iface} : j < c.next => ~Seen(c, j)
      BY <1>2, <2>3 DEF WanIfInv, SeenAlone
    <2>5. ASSUME NEW j \in Ifaces \ {c.iface}, j < c.next + 1
          PROVE  ~Seen(c, j)
      <3>1. j < c.next \/ j = c.next
        BY <1>1, <2>5 DEF Ifaces
      <3>2. CASE j < c.next
        BY <2>4, <3>2
      <3>3. CASE j = c.next
        BY <2>2, <3>3 DEF Taken, Seen
      <3> QED BY <3>1, <3>2, <3>3
    <2>6. \A j \in Ifaces \ {d.iface} : j < d.next => ~Seen(call[u], j)'
      BY <1>3, <1>9, <2>2, <2>5 DEF Seen
    <2> QED BY <1>3, <1>6, <1>9, <2>1, <2>2, <2>4, <2>6
  <1> QED BY <1>3, <1>6, <1>11, <1>12 DEF WanIfInv, WanIfTypeOK, RecordsKept

\* The write ends a call: no other is left that has met nobody.
LEMMA Writes ==
    ASSUME WanIfInv, NEW t \in Threads, WritePair(t)
    PROVE  WanIfInv'
  <1> DEFINE c == call[t]
  <1>1. c.next = IfaceCount + 1
    BY DEF WritePair
  <1>2. c # Idle /\ c \in Begun
    BY <1>1, GoingOn, IfaceAssumption
  <1>3. c.iface \in Ifaces /\ c.param \in Params /\ c.value \in Value
    BY <1>2, PairsAreParams DEF Begun
  <1>4. /\ wanif' = [wanif EXCEPT ![c.iface][c.param] = c.value]
        /\ UNCHANGED <<psm, kept>>
    BY DEF WritePair
  <1>5. wanif' \in [Ifaces -> [Params -> Value]]
    BY <1>3, <1>4 DEF WanIfInv, WanIfTypeOK
  <1>6. /\ DOMAIN call' = Threads /\ call'[t] = Idle
        /\ \A u \in Threads \ {t} : call'[u] = call[u]
    BY DEF WritePair, WanIfInv, WanIfTypeOK
  <1>7. CallsOK'
    BY <1>6 DEF CallsOK, WanIfInv
  <1>8. \A u \in Threads : call'[u] # Idle => call'[u].met
    BY <1>2, <1>6, OthersMet
  <1>9. SeenAlone'
    BY <1>8 DEF SeenAlone
  <1> QED BY <1>4, <1>5, <1>6, <1>7, <1>9 DEF WanIfInv, WanIfTypeOK, RecordsKept

\* What a commit writes is kept, and is no blank for a parameter that is loaded.
LEMMA WrittenIs ==
    ASSUME WanIfInv, NEW i \in Ifaces, NEW ps
    PROVE  /\ Written(i, ps) \in [Params -> Value \union {Blank}]
           /\ \A p \in Loadable : Written(i, ps)[p] =
                IF p \in ps THEN wanif[i][p] ELSE psm[i][p]
  BY PairsAreParams DEF Written, WanIfInv, WanIfTypeOK, Emptied, Loadable

\* The records of ps are written and the values k kept for interface i.
Recording(i, ps, k) ==
    /\ k \in [Params -> SUBSET Value]
    /\ \A p \in Params : p \in ps => wanif[i][p] \in k[p]
    /\ \A p \in Params : p \notin ps => k[p] = kept[i][p]
    /\ psm' = [psm EXCEPT ![i] = Written(i, ps)]
    /\ kept' = [kept EXCEPT ![i] = k]

LEMMA KeepsWritten ==
    ASSUME WanIfInv, NEW i \in Ifaces, NEW ps, NEW k, Recording(i, ps, k)
    PROVE  /\ psm' \in [Ifaces -> [Params -> Value \union {Blank}]]
           /\ kept' \in [Ifaces -> [Params -> SUBSET Value]]
           /\ RecordsKept'
  <1>0. /\ k \in [Params -> SUBSET Value]
        /\ \A p \in Params : p \in ps => wanif[i][p] \in k[p]
        /\ \A p \in Params : p \notin ps => k[p] = kept[i][p]
        /\ psm' = [psm EXCEPT ![i] = Written(i, ps)]
        /\ kept' = [kept EXCEPT ![i] = k]
    BY DEF Recording
  <1>1. psm' \in [Ifaces -> [Params -> Value \union {Blank}]]
    BY <1>0, WrittenIs DEF WanIfInv, WanIfTypeOK
  <1>2. kept' \in [Ifaces -> [Params -> SUBSET Value]]
    BY <1>0 DEF WanIfInv, WanIfTypeOK
  <1>3. ASSUME NEW j \in Ifaces, NEW p \in Loadable
        PROVE  psm'[j][p] \in kept'[j][p]
    <2>1. p \in Params /\ psm[j][p] \in kept[j][p]
      BY PairsAreParams DEF WanIfInv, RecordsKept
    <2>2. CASE j # i
      BY <1>0, <2>1, <2>2 DEF WanIfInv, WanIfTypeOK
    <2>3. CASE j = i
      <3>1. psm'[j] = Written(i, ps) /\ kept'[j] = k
        BY <1>0, <2>3 DEF WanIfInv, WanIfTypeOK
      <3> QED BY <1>0, <2>1, <2>3, <3>1, WrittenIs
    <2> QED BY <2>2, <2>3
  <1> QED BY <1>1, <1>2, <1>3 DEF RecordsKept

LEMMA Commits ==
    ASSUME WanIfInv, NEW t \in Threads, NEW i \in Ifaces, NEW records,
           CommitRecords(t, i, records)
    PROVE  WanIfInv'
  <1> DEFINE ps == All(records)
             k == [p \in Params |-> IF p \in ps THEN {wanif[i][p]} ELSE kept[i][p]]
  <1>1. k \in [Params -> SUBSET Value]
    BY DEF WanIfInv, WanIfTypeOK
  <1>2. kept' = [kept EXCEPT ![i] = k]
    BY DEF CommitRecords, WanIfInv, WanIfTypeOK
  <1>3. psm' = [psm EXCEPT ![i] = Written(i, ps)]
    BY DEF CommitRecords
  <1>4. /\ \A p \in Params : p \in ps => wanif[i][p] \in k[p]
        /\ \A p \in Params : p \notin ps => k[p] = kept[i][p]
    OBVIOUS
  <1> HIDE DEF k
  <1>5. /\ psm' \in [Ifaces -> [Params -> Value \union {Blank}]]
        /\ kept' \in [Ifaces -> [Params -> SUBSET Value]]
        /\ RecordsKept'
    <2>1. PICK kk \in [Params -> SUBSET Value] : kk = k
      BY <1>1
    <2>2. Recording(i, ps, kk)
      BY <1>2, <1>3, <1>4, <2>1 DEF Recording
    <2> QED BY <2>2, KeepsWritten
  <1>6. UNCHANGED <<wanif, call>>
    BY DEF CommitRecords
  <1>7. CallsOK' /\ SeenAlone'
    BY <1>6, SeenOfPairs
  <1> QED BY <1>5, <1>6, <1>7 DEF WanIfInv, WanIfTypeOK

\* A start forgets the calls; it loads the records.
LEMMA Starts ==
    ASSUME NEW stored, Start(stored),
           stored \in [Ifaces -> [Params -> Value \union {Blank}]],
           psm' = stored, kept' \in [Ifaces -> [Params -> SUBSET Value]],
           RecordsKept'
    PROVE  /\ WanIfInv'
           /\ \A i \in Ifaces, p \in Loadable : wanif'[i][p] \in kept'[i][p]
  <1>1. wanif' = WanMgr_WanIfaceConfInit(stored) /\ call' = [t \in Threads |-> Idle]
    BY DEF Start
  <1>2. WanIfTypeOK'
    BY <1>1, LoadedType DEF WanIfTypeOK
  <1>3. CallsOK' /\ SeenAlone'
    BY <1>1 DEF CallsOK, SeenAlone
  <1>4. ASSUME NEW i \in Ifaces, NEW p \in Loadable
        PROVE  wanif'[i][p] \in kept'[i][p]
    <2>1. stored[i][p] \in kept'[i][p] /\ kept'[i][p] \subseteq Value
      BY PairsAreParams DEF RecordsKept
    <2>2. stored[i][p] # Blank
      BY <2>1, IfaceAssumption DEF Value
    <2> QED BY <1>1, <2>1, <2>2, LoadedAsKept
  <1> QED BY <1>2, <1>3, <1>4 DEF WanIfInv

LEMMA Crashes ==
    ASSUME WanIfInv, NEW i \in Ifaces, NEW n, CrashInCommit(i, n)
    PROVE  /\ WanIfInv'
           /\ \A j \in Ifaces, p \in Loadable : wanif'[j][p] \in kept'[j][p]
  <1> DEFINE ps == First(write_Wan_Interface_ParametersFromPSM, n)
             k == [p \in Params |-> IF p \in ps THEN kept[i][p] \union {wanif[i][p]}
                                    ELSE kept[i][p]]
  <1>1. k \in [Params -> SUBSET Value]
    BY DEF WanIfInv, WanIfTypeOK
  <1>2. kept' = [kept EXCEPT ![i] = k]
    BY DEF CrashInCommit, WanIfInv, WanIfTypeOK
  <1>3. psm' = [psm EXCEPT ![i] = Written(i, ps)]
    BY DEF CrashInCommit
  <1>4. /\ \A p \in Params : p \in ps => wanif[i][p] \in k[p]
        /\ \A p \in Params : p \notin ps => k[p] = kept[i][p]
    OBVIOUS
  <1> HIDE DEF k
  <1>5. /\ psm' \in [Ifaces -> [Params -> Value \union {Blank}]]
        /\ kept' \in [Ifaces -> [Params -> SUBSET Value]]
        /\ RecordsKept'
    <2>1. PICK kk \in [Params -> SUBSET Value] : kk = k
      BY <1>1
    <2>2. Recording(i, ps, kk)
      BY <1>2, <1>3, <1>4, <2>1 DEF Recording
    <2> QED BY <2>2, KeepsWritten
  <1>6. Start(psm')
    BY DEF CrashInCommit
  <1> QED BY <1>5, <1>6, Starts

LEMMA Restarts ==
    ASSUME WanIfInv, Restart
    PROVE  /\ WanIfInv'
           /\ \A j \in Ifaces, p \in Loadable : wanif'[j][p] \in kept'[j][p]
  <1>1. Start(psm) /\ UNCHANGED <<psm, kept>>
    BY DEF Restart
  <1>2. /\ psm \in [Ifaces -> [Params -> Value \union {Blank}]]
        /\ kept' \in [Ifaces -> [Params -> SUBSET Value]]
        /\ RecordsKept'
    BY <1>1 DEF WanIfInv, WanIfTypeOK, RecordsKept
  <1> QED BY <1>1, <1>2, Starts

-----------------------------------------------------------------------------
\* The parts of a step of one thread
LEMMA PppFlagsAreNoPair == \A p \in WanIfPPPCfg_SetParamBoolValue : p \notin Pair
  BY DEF WanIfPPPCfg_SetParamBoolValue, Pair

LEMMA PairValues == \A p \in Pair : \A v \in Values(p) : v \in Value
  BY DEF Pair, Values, Value

LEMMA CallHolds ==
    ASSUME WanIfInv, NEW t \in Threads, NEW i \in Ifaces, Call(t, i)
    PROVE  WanIfInv'
  <1>1. ASSUME NEW p \in Plain \intersect Params, NEW v \in Bit, SetPlain(t, i, p, v)
        PROVE  WanIfInv'
    BY <1>1, PlainIsNoPair, SetsPlain DEF SetPlain
  <1>2. ASSUME NEW p \in WanIfPPPCfg_SetParamBoolValue \intersect Params, NEW v \in Bit,
               SetPppFlag(t, i, p, v)
        PROVE  WanIfInv'
    BY <1>2, PppFlagsAreNoPair, SetsPlain DEF SetPppFlag
  <1>3. ASSUME NEW p \in Pair, NEW v \in Values(p), BeginSet(t, i, p, v)
        PROVE  WanIfInv'
    BY <1>3, PairValues, BeginsSet
  <1>4. ASSUME WanIfCfg_Commit(t, i) \/ WanIfValidation_Commit(t, i)
        PROVE  WanIfInv'
    BY <1>4, Commits DEF WanIfCfg_Commit, WanIfValidation_Commit
  <1> QED BY <1>1, <1>2, <1>3, <1>4 DEF Call, Pair

LEMMA StepHolds == WanIfInv /\ [WanIfNext]_wanIfVars => WanIfInv'
  <1> SUFFICES ASSUME WanIfInv, [WanIfNext]_wanIfVars PROVE WanIfInv'
    OBVIOUS
  <1>1. CASE UNCHANGED wanIfVars
    <2>1. UNCHANGED <<wanif, psm, call, kept>>
      BY <1>1 DEF wanIfVars
    <2>2. CallsOK' /\ SeenAlone'
      BY <2>1, SeenOfPairs
    <2> QED BY <2>1, <2>2 DEF WanIfInv, WanIfTypeOK, RecordsKept
  <1>2. ASSUME NEW t \in Threads, CallStep(t) PROVE WanIfInv'
    BY <1>2, ChecksOne, Writes DEF CallStep
  <1>3. ASSUME NEW t \in Threads, NEW i \in Ifaces, Call(t, i) PROVE WanIfInv'
    BY <1>3, CallHolds
  <1>4. CASE Restart
    BY <1>4, Restarts
  <1>5. ASSUME NEW i \in Ifaces, NEW n, CrashInCommit(i, n) PROVE WanIfInv'
    BY <1>5, Crashes
  <1> QED BY <1>1, <1>2, <1>3, <1>4, <1>5 DEF WanIfNext

-----------------------------------------------------------------------------
\* Only the write of a set, and a start, can make two pairs the same.
LEMMA KeepApart ==
    ASSUME WanIfInv, [WanIfNext]_wanIfVars, ifRestarts' = ifRestarts,
           NEW i \in Ifaces, NEW j \in Ifaces, i # j,
           ~SamePair(i, j), SamePair(i, j)'
    PROVE  \E t \in Threads : call[t].met
  <1>0. wanif \in [Ifaces -> [Params -> Value]]
    BY DEF WanIfInv, WanIfTypeOK
  <1>1. ~\A k \in Ifaces, p \in Pair : wanif'[k][p] = wanif[k][p]
    BY DEF SamePair, Pair
  <1>2. PICK t \in Threads : WritePair(t)
    <2>1. ASSUME NEW t \in Threads, NEW k \in Ifaces, Call(t, k)
          PROVE  \A l \in Ifaces, q \in Pair : wanif'[l][q] = wanif[l][q]
      <3>1. ASSUME NEW p \in Params \ Pair, NEW v,
                   wanif' = [wanif EXCEPT ![k][p] = v]
            PROVE  \A l \in Ifaces, q \in Pair : wanif'[l][q] = wanif[l][q]
        BY <1>0, <3>1, PairsAreParams
      <3>2. ASSUME UNCHANGED wanif
            PROVE  \A l \in Ifaces, q \in Pair : wanif'[l][q] = wanif[l][q]
        BY <3>2
      <3> QED BY <2>1, <3>1, <3>2, PlainIsNoPair, PppFlagsAreNoPair
              DEF Call, SetPlain, SetPppFlag, BeginSet, WanIfCfg_Commit,
                  WanIfValidation_Commit, CommitRecords
    <2>2. ASSUME NEW t \in Threads, WanManager_CheckGivenPriorityExists(t)
          PROVE  FALSE
      BY <1>1, <2>2 DEF WanManager_CheckGivenPriorityExists
    <2>3. ASSUME NEW stored, Start(stored) PROVE FALSE
      <3>1. ifRestarts' = ifRestarts + 1 /\ ifRestarts < MaxIfRestarts
        BY <2>3 DEF Start
      <3> QED BY <3>1
    <2>4. ~Restart
      BY <2>3 DEF Restart
    <2>5. ASSUME NEW k \in Ifaces, NEW n, CrashInCommit(k, n) PROVE FALSE
      BY <2>3, <2>5 DEF CrashInCommit
    <2>6. ~UNCHANGED wanIfVars
      BY <1>1 DEF wanIfVars
    <2> QED BY <1>1, <2>1, <2>2, <2>4, <2>5, <2>6 DEF WanIfNext, CallStep
  <1> DEFINE c == call[t]
  <1>3. /\ c.next = IfaceCount + 1
        /\ wanif' = [wanif EXCEPT ![c.iface][c.param] = c.value]
    BY <1>2 DEF WritePair
  <1>4. c # Idle /\ c \in Begun
    BY <1>3, GoingOn, IfaceAssumption
  <1>5. /\ c.iface \in Ifaces /\ c.param \in Pair /\ c.param \in Params
        /\ Other(c.param) \in Params /\ Other(c.param) # c.param
    BY <1>4, PairsAreParams DEF Begun
  <1>6. SUFFICES ASSUME ~c.met PROVE FALSE
    OBVIOUS
  <1>7. /\ c.other = wanif[c.iface][Other(c.param)]
        /\ \A k \in Ifaces \ {c.iface} : k < c.next => ~Seen(c, k)
    BY <1>4, <1>6 DEF WanIfInv, SeenAlone
  <1>8. \A k \in Ifaces : k < c.next
    BY <1>3, IfaceAssumption DEF Ifaces
  <1>9. /\ wanif'[c.iface][c.param] = c.value
        /\ wanif'[c.iface][Other(c.param)] = c.other
        /\ \A k \in Ifaces \ {c.iface} : wanif'[k] = wanif[k]
    BY <1>0, <1>3, <1>5, <1>7
  <1>10. \A k \in Ifaces \ {c.iface} :
           ~(/\ wanif'[k][c.param] = wanif'[c.iface][c.param]
             /\ wanif'[k][Other(c.param)] = wanif'[c.iface][Other(c.param)])
    BY <1>7, <1>8, <1>9 DEF Seen
  <1>11. \A q \in Pair : wanif'[i][q] = wanif'[j][q]
    BY DEF SamePair, Pair
  <1>12. CASE c.iface = i
    BY <1>5, <1>10, <1>11, <1>12, PairsAreParams
  <1>13. CASE c.iface = j
    BY <1>5, <1>10, <1>11, <1>13, PairsAreParams
  <1>14. CASE c.iface \notin {i, j}
    BY <1>9, <1>14 DEF SamePair
  <1> QED BY <1>12, <1>13, <1>14

\* A start loads what was kept.
LEMMA LoadsKept ==
    ASSUME WanIfInv, [WanIfNext]_wanIfVars, ifRestarts' # ifRestarts
    PROVE  \A i \in Ifaces : \A p \in Loadable : wanif'[i][p] \in kept'[i][p]
  <1>1. ASSUME NEW t \in Threads, CallStep(t) PROVE FALSE
    BY <1>1 DEF CallStep, WanManager_CheckGivenPriorityExists, WritePair
  <1>2. ASSUME NEW t \in Threads, NEW i \in Ifaces, Call(t, i) PROVE FALSE
    BY <1>2 DEF Call, SetPlain, SetPppFlag, BeginSet, WanIfCfg_Commit,
                WanIfValidation_Commit, CommitRecords
  <1>3. ~UNCHANGED wanIfVars
    BY DEF wanIfVars
  <1>4. CASE Restart
    BY <1>4, Restarts
  <1>5. CASE \E i \in Ifaces :
               \E n \in 1 .. Len(write_Wan_Interface_ParametersFromPSM) - 1 :
                 CrashInCommit(i, n)
    BY <1>5, Crashes
  <1> QED BY <1>1, <1>2, <1>3, <1>4, <1>5 DEF WanIfNext

-----------------------------------------------------------------------------
\* What is recorded of the calls and of the commits holds in every behaviour,
\* for any number of interfaces and threads and any parameters followed.
THEOREM IfTableInvariance == WanIfSpec => []WanIfInv
  BY InitHolds, StepHolds, PTL DEF WanIfSpec

\* A set that meets no other never gives two interfaces the same pair of Type
\* and Priority, whoever sets and commits what besides.
THEOREM PairsStayApart == WanIfSpec => SetsKeepApart
  <1>1. WanIfInv /\ [WanIfNext]_wanIfVars =>
          [\A i, j \in Ifaces : i # j /\ ~SamePair(i, j) /\ SamePair(i, j)' =>
             \/ ifRestarts' # ifRestarts
             \/ \E t \in Threads : call[t].met]_wanIfVars
    BY KeepApart
  <1> QED BY <1>1, IfTableInvariance, PTL DEF WanIfSpec, SetsKeepApart

\* Whatever a commit wrote, or was writing when the process ended, is what the
\* next start loads, for every parameter whose record a commit does not empty.
THEOREM LoadsWhatWasCommitted == WanIfSpec => CommittedComesBack
  <1>1. WanIfInv /\ [WanIfNext]_wanIfVars =>
          [ifRestarts' # ifRestarts =>
             \A i \in Ifaces :
               \A p \in Persistent \ {"SelectionTimeout", "DynamicTrigger.Delay"} :
                 wanif'[i][p] \in kept'[i][p]]_wanIfVars
    BY LoadsKept DEF Loadable
  <1> QED BY <1>1, IfTableInvariance, PTL DEF WanIfSpec, CommittedComesBack

=============================================================================
