---------------------------- MODULE Marking_proofs ----------------------------
(***************************************************************************)
(* For any aliases, shared ones and those the list cannot tell apart among *)
(* them, and wherever the process ends: an entry has the port and the mark *)
(* of its own number or none.  The records hold other numbers; a start     *)
(* adjusts what it takes from them, and a commit makes both anew.          *)
(*                                                                         *)
(* While aliases are of one part, not shared, and no commit is cut off:    *)
(* the entries in use are those the store lists, with their records.       *)
(***************************************************************************)
EXTENDS Marking, LoopTheorems, FiniteSetTheorems, TLAPS

\* An entry with its fields, and with port and mark of its number or none
Numbered(e, n) == e.port \in {0, n} /\ e.mark \in {0, n}
Entry(e) == DOMAIN e = {"alias", "port", "mark", "priority", "isNew"}

MarkInv ==
    \A n \in DOMAIN marks : Entry(marks[n]) /\ Numbered(marks[n], n)

LEMMA PutKeeps ==
    ASSUME NEW f, NEW x, NEW v, \A n \in DOMAIN f : Entry(f[n]) /\ Numbered(f[n], n),
           Entry(v), Numbered(v, x)
    PROVE  \A n \in DOMAIN Put(f, x, v) :
              Entry(Put(f, x, v)[n]) /\ Numbered(Put(f, x, v)[n], n)
  BY DEF Put

\* A start gives every entry its new number.
LEMMA LoadedNumbered ==
    ASSUME NEW parts, NEW recs
    PROVE  \A n \in DOMAIN Loaded(parts, recs) :
              Entry(Loaded(parts, recs)[n]) /\ Numbered(Loaded(parts, recs)[n], n)
  BY DEF Loaded, Entry, Numbered

LEMMA StartKeeps ==
    ASSUME NEW parts, NEW recs, WanMgr_WanIfaceMarkingInit(parts, recs)
    PROVE  MarkInv'
  BY LoadedNumbered DEF WanMgr_WanIfaceMarkingInit, MarkInv

\* A change of entry n only, to e.
LEMMA ChangeKeeps ==
    ASSUME MarkInv, NEW n \in DOMAIN marks, NEW e,
           marks' = [marks EXCEPT ![n] = e], Entry(e), Numbered(e, n)
    PROVE  MarkInv'
  BY DEF MarkInv

LEMMA MarkStepKeeps ==
    ASSUME MarkInv, NEW n \in DOMAIN marks, MarkStep(n)
    PROVE  MarkInv'
  <1> DEFINE m == marks[n]
  <1>1. Entry(m) /\ Numbered(m, n)
    BY DEF MarkInv
  <1> HIDE DEF m
  <1>2. CASE Marking_DelEntry(n)
    <2>1. Entry([m EXCEPT !.isNew = FALSE]) /\ Numbered([m EXCEPT !.isNew = FALSE], n)
      BY <1>1 DEF Entry, Numbered
    <2>2. CASE marks' = [marks EXCEPT ![n] = [m EXCEPT !.isNew = FALSE]]
      BY <2>1, <2>2, ChangeKeeps
    <2>3. CASE marks' = Drop(marks, n)
      BY <2>3 DEF Drop, MarkInv
    <2> QED BY <1>2, <2>2, <2>3 DEF Marking_DelEntry, m
  <1>3. CASE Marking_Commit(n)
    <2>1. CASE CommitNew(n)
      <3> DEFINE e == [m EXCEPT !.isNew = FALSE]
                 a == [[m EXCEPT !.port = n, !.mark = n] EXCEPT !.isNew = FALSE]
      <3>1. Entry(e) /\ Numbered(e, n)
        BY <1>1 DEF Entry, Numbered
      <3>2. a.port = n /\ a.mark = n /\ DOMAIN a = DOMAIN m
        BY <1>1 DEF Entry
      <3>3. Entry(a) /\ Numbered(a, n)
        BY <1>1, <3>2 DEF Entry, Numbered
      <3>4. \/ marks' = [marks EXCEPT ![n] = e]
            \/ marks' = [marks EXCEPT ![n] = a]
        BY <2>1 DEF CommitNew, Added, m
      <3> HIDE DEF e, a
      <3> QED BY <3>1, <3>3, <3>4, ChangeKeeps
    <2>2. CASE CommitChanged(n)
      BY <2>2 DEF CommitChanged, MarkInv
    <2> QED BY <1>3, <2>1, <2>2 DEF Marking_Commit
  <1>4. ASSUME NEW p \in MarkPriorities, Marking_SetParamIntValue(n, p)
        PROVE  MarkInv'
    <2> DEFINE e == [m EXCEPT !.priority = p]
    <2>1. Entry(e) /\ Numbered(e, n)
      BY <1>1 DEF Entry, Numbered
    <2>2. marks' = [marks EXCEPT ![n] = e]
      BY <1>4 DEF Marking_SetParamIntValue, m
    <2> HIDE DEF e
    <2> QED BY <2>1, <2>2, ChangeKeeps
  <1>5. ASSUME NEW b \in MarkAliases, Marking_SetParamStringValue(n, b)
        PROVE  MarkInv'
    <2> DEFINE e == [m EXCEPT !.alias = b]
    <2>1. Entry(e) /\ Numbered(e, n)
      BY <1>1 DEF Entry, Numbered
    <2>2. marks' = [marks EXCEPT ![n] = e]
      BY <1>5 DEF Marking_SetParamStringValue, m
    <2> HIDE DEF e
    <2> QED BY <2>1, <2>2, ChangeKeeps
  <1>6. ASSUME NEW k, CrashInAdd(n, k) \/ CrashInDelete(n, k) PROVE MarkInv'
    BY <1>6, StartKeeps DEF CrashInAdd, CrashInDelete
  <1> QED BY <1>2, <1>3, <1>4, <1>5, <1>6 DEF MarkStep

LEMMA MarkInvNext == MarkInv /\ [MarkNext]_markVars => MarkInv'
  <1> SUFFICES ASSUME MarkInv, [MarkNext]_markVars PROVE MarkInv'
    OBVIOUS
  <1>1. CASE Marking_AddEntry
    <2>1. Entry(NewMark) /\ Numbered(NewMark, nextMark)
      BY DEF Entry, Numbered, NewMark
    <2> QED BY <1>1, <2>1, PutKeeps
            DEF Marking_AddEntry, WanManager_AddIfaceMarking, MarkInv
  <1>2. CASE StartMarks
    BY <1>2, StartKeeps DEF StartMarks
  <1>3. CASE \E n \in DOMAIN marks : MarkStep(n)
    BY <1>3, MarkStepKeeps
  <1>4. CASE UNCHANGED markVars
    BY <1>4 DEF markVars, MarkInv
  <1> QED BY <1>1, <1>2, <1>3, <1>4 DEF MarkNext

\* The port and the mark of an entry are of its own number or not made yet,
\* for any aliases and through starts, commits and deletions that are cut off.
THEOREM PortsAlwaysMatch == MarkSpec => []PortsMatchNumbers
  <1>1. MarkInit => MarkInv
    BY DEF MarkInit, MarkInv
  <1>2. MarkInv => PortsMatchNumbers
    BY DEF MarkInv, Numbered, PortsMatchNumbers, Marking_GetParamUlongValue
  <1> QED BY <1>1, <1>2, MarkInvNext, PTL DEF MarkSpec

-----------------------------------------------------------------------------
(***************************************************************************)
(* The store.  While nothing has been misused, the entries in use and the  *)
(* parts of the list are in one-to-one correspondence.                     *)
(***************************************************************************)
HasRecords(a, n) ==
    /\ a \in DOMAIN records /\ DOMAIN records[a] = {"alias", "port", "mark", "priority"}
    /\ records[a].alias = a /\ records[a].port = n /\ records[a].mark = n

Once(parts) == \A i, j \in DOMAIN parts : parts[i] = parts[j] => i = j

ListOK == list \in Seq(STRING) /\ Once(list)
NumbersOK == /\ nextMark \in 1 .. MarkLimit + 1
             /\ DOMAIN marks \subseteq 1 .. nextMark - 1
AliasesOK ==
    /\ \A n \in DOMAIN marks : marks[n].alias \in Seq(STRING)
    /\ \A n, m \in DOMAIN marks :
          marks[n].alias = marks[m].alias => n = m \/ marks[n].alias = NoAlias
Kept(n) == /\ marks[n].port = n /\ marks[n].mark = n
           /\ Listed(marks[n].alias) /\ HasRecords(marks[n].alias, n)
UsedAreKept == \A n \in InUse : Kept(n)
ListedAreUsed == \A j \in DOMAIN list : \E n \in InUse : marks[n].alias = <<list[j]>>
StoreInv == ListOK /\ NumbersOK /\ AliasesOK /\ UsedAreKept /\ ListedAreUsed

AgreeInv == MarkInv /\ misused \in BOOLEAN /\ (~misused => StoreInv)

LEMMA OfOnePart ==
    ASSUME NEW a \in Seq(STRING), Len(a) = 1
    PROVE  a = <<a[1]>> /\ a[1] \in STRING /\ a # NoAlias
  BY DEF NoAlias

\* An entry whose alias is listed is in use: the entry that is has this alias.
LEMMA ListedIsInUse ==
    ASSUME StoreInv, NEW n \in DOMAIN marks, Listed(marks[n].alias)
    PROVE  n \in InUse
  <1> DEFINE a == marks[n].alias
  <1>1. a \in Seq(STRING) /\ Len(a) = 1
    BY DEF StoreInv, AliasesOK, Listed
  <1>2. a = <<a[1]>> /\ a # NoAlias
    <2> HIDE DEF a
    <2> QED BY <1>1, OfOnePart
  <1>3. PICK j \in DOMAIN list : list[j] = a[1]
    BY DEF Listed, Contains, StoreInv, ListOK
  <1>4. PICK m \in InUse : marks[m].alias = <<list[j]>>
    BY <1>3 DEF StoreInv, ListedAreUsed
  <1>5. m \in DOMAIN marks /\ marks[m].alias = a
    BY <1>2, <1>3, <1>4 DEF InUse
  <1> QED BY <1>2, <1>4, <1>5 DEF StoreInv, AliasesOK

\* An entry that keeps its alias, port and mark
SameMark(e, f) == e.alias = f.alias /\ e.port = f.port /\ e.mark = f.mark

\* Another entry n, or a change of n that leaves alone all but its priority and
\* whether it is new, does not concern the store; nor does a first alias that
\* no other entry has.
LEMMA UnusedKeeps ==
    ASSUME StoreInv, NEW n \in Nat, NEW e, n \notin InUse, e.port = 0,
           e.alias \in Seq(STRING),
           \A m \in DOMAIN marks : marks[m].alias = e.alias => m = n \/ e.alias = NoAlias,
           marks' = Put(marks, n, e), UNCHANGED <<list, records>>,
           nextMark' \in 1 .. MarkLimit + 1, DOMAIN marks' \subseteq 1 .. nextMark' - 1
    PROVE  StoreInv'
  <1>1. /\ DOMAIN marks' = DOMAIN marks \union {n} /\ marks'[n] = e
        /\ \A m \in DOMAIN marks : m # n => marks'[m] = marks[m]
    BY DEF Put
  <1>2. InUse' = InUse /\ \A m \in InUse : m # n /\ m \in DOMAIN marks
    BY <1>1 DEF InUse
  <1>3. AliasesOK'
    BY <1>1 DEF StoreInv, AliasesOK
  <1>4. UsedAreKept'
    <2> SUFFICES ASSUME NEW m \in InUse PROVE Kept(m)'
      BY <1>2 DEF UsedAreKept
    <2>1. marks'[m] = marks[m] /\ Kept(m)
      BY <1>1, <1>2 DEF StoreInv, UsedAreKept
    <2> QED BY <2>1 DEF Kept, Listed, HasRecords
  <1>5. ListedAreUsed'
    <2> SUFFICES ASSUME NEW j \in DOMAIN list
                 PROVE  \E m \in InUse : marks'[m].alias = <<list[j]>>
      BY <1>2 DEF ListedAreUsed
    <2>1. PICK m \in InUse : marks[m].alias = <<list[j]>>
      BY DEF StoreInv, ListedAreUsed
    <2> QED BY <1>1, <1>2, <2>1
  <1>6. ListOK' /\ NumbersOK'
    BY DEF StoreInv, ListOK, NumbersOK, Once
  <1> QED BY <1>3, <1>4, <1>5, <1>6 DEF StoreInv

LEMMA ChangedKeeps ==
    ASSUME StoreInv, NEW n \in DOMAIN marks, NEW e, SameMark(e, marks[n]),
           marks' = [marks EXCEPT ![n] = e], UNCHANGED <<list, records, nextMark>>
    PROVE  StoreInv'
  <1>1. /\ DOMAIN marks' = DOMAIN marks
        /\ \A m \in DOMAIN marks : SameMark(marks'[m], marks[m])
    BY DEF SameMark
  <1>2. InUse' = InUse /\ \A m \in InUse : m \in DOMAIN marks
    BY <1>1 DEF InUse, SameMark
  <1>3. AliasesOK'
    BY <1>1 DEF StoreInv, AliasesOK, SameMark
  <1>4. UsedAreKept'
    <2> SUFFICES ASSUME NEW m \in InUse PROVE Kept(m)'
      BY <1>2 DEF UsedAreKept
    <2>1. SameMark(marks'[m], marks[m]) /\ Kept(m)
      BY <1>1, <1>2 DEF StoreInv, UsedAreKept
    <2> QED BY <2>1 DEF Kept, Listed, HasRecords, SameMark
  <1>5. ListedAreUsed'
    <2> SUFFICES ASSUME NEW j \in DOMAIN list
                 PROVE  \E m \in InUse : marks'[m].alias = <<list[j]>>
      BY <1>2 DEF ListedAreUsed
    <2>1. PICK m \in InUse : marks[m].alias = <<list[j]>>
      BY DEF StoreInv, ListedAreUsed
    <2> QED BY <1>1, <1>2, <2>1 DEF SameMark
  <1>6. ListOK' /\ NumbersOK'
    BY <1>1 DEF StoreInv, ListOK, NumbersOK, Once
  <1> QED BY <1>3, <1>4, <1>5, <1>6 DEF StoreInv

\* A listed entry goes with its part of the list and its records.
LEMMA DeletedKeeps ==
    ASSUME StoreInv, NEW n \in DOMAIN marks, Listed(marks[n].alias),
           Delete(marks[n].alias), marks' = Drop(marks, n), UNCHANGED nextMark
    PROVE  StoreInv'
  <1> DEFINE a == marks[n].alias
             K == {k \in DOMAIN list : list[k] # a[1]}
  <1>1. a \in Seq(STRING) /\ Len(a) = 1 /\ n \in InUse
    BY ListedIsInUse DEF StoreInv, AliasesOK, Listed
  <1>2. a = <<a[1]>> /\ a # NoAlias
    <2> HIDE DEF a
    <2> QED BY <1>1, OfOnePart
  <1>3. list' = ElementsAt(list, K) /\ records' = Drop(records, a)
    BY DEF Delete
  <1>4. /\ DOMAIN marks' = DOMAIN marks \ {n}
        /\ \A m \in DOMAIN marks' : marks'[m] = marks[m]
    BY DEF Drop
  <1>5. InUse' = InUse \ {n} /\ \A m \in InUse : m \in DOMAIN marks
    BY <1>4 DEF InUse
  <1>6. \A k \in DOMAIN list : k \in K <=> list[k] # a[1]
    OBVIOUS
  <1>7. K \subseteq DOMAIN list
    OBVIOUS
  <1> HIDE DEF K
  <1>8. list \in Seq(STRING) /\ Once(list)
    BY DEF StoreInv, ListOK
  <1>9. /\ list' \in Seq(STRING)
        /\ \A j \in DOMAIN list' : \E k \in K : list'[j] = list[k]
        /\ \A k \in K : \E j \in DOMAIN list' : list'[j] = list[k]
    BY <1>3, <1>7, <1>8, ElementsAtRange
  <1>10. Once(list')
    BY <1>3, <1>8, ElementsAtOnce DEF Once
  <1>11. ListOK' /\ NumbersOK' /\ AliasesOK'
    <2>1. Once(list)'
      BY <1>10 DEF Once
    <2>2. AliasesOK'
      BY <1>4 DEF StoreInv, AliasesOK
    <2>3. NumbersOK'
      BY <1>4 DEF StoreInv, NumbersOK
    <2> QED BY <1>9, <2>1, <2>2, <2>3 DEF ListOK
  <1>12. UsedAreKept'
    <2> SUFFICES ASSUME NEW m \in InUse, m # n PROVE Kept(m)'
      BY <1>5 DEF UsedAreKept
    <2> DEFINE b == marks[m].alias
    <2>1. marks'[m] = marks[m] /\ Kept(m) /\ m \in DOMAIN marks /\ b \in Seq(STRING)
      BY <1>4, <1>5 DEF StoreInv, UsedAreKept, AliasesOK
    <2>2. b # a
      BY <1>2, <2>1 DEF StoreInv, AliasesOK
    <2>3. Len(b) = 1 /\ \E k \in DOMAIN list : list[k] = b[1]
      BY <1>8, <2>1 DEF Kept, Listed, Contains
    <2>4. b = <<b[1]>>
      <3> HIDE DEF b
      <3> QED BY <2>1, <2>3, OfOnePart
    <2>5. b[1] # a[1]
      <3> HIDE DEF a, b
      <3> QED BY <1>2, <2>2, <2>4
    <2>6. PICK j \in DOMAIN list' : list'[j] = b[1]
      <3> HIDE DEF a, b
      <3>1. PICK k \in DOMAIN list : list[k] = b[1]
        BY <2>3
      <3>2. k \in K
        BY <1>6, <2>5, <3>1
      <3> QED BY <1>9, <3>1, <3>2
    <2>7. Listed(b)'
      BY <1>9, <2>1, <2>3, <2>6 DEF Listed, Contains
    <2>8. HasRecords(b, m)'
      BY <1>3, <2>1, <2>2 DEF Kept, HasRecords, Drop
    <2> QED BY <2>1, <2>7, <2>8 DEF Kept
  <1>13. ListedAreUsed'
    <2> SUFFICES ASSUME NEW j \in DOMAIN list'
                 PROVE  \E m \in InUse' : marks'[m].alias = <<list'[j]>>
      BY DEF ListedAreUsed
    <2>1. PICK k \in K : list'[j] = list[k]
      BY <1>9
    <2>2. k \in DOMAIN list /\ list[k] # a[1]
      BY <1>6, <1>7, <2>1
    <2>3. PICK m \in InUse : marks[m].alias = <<list[k]>>
      BY <2>2 DEF StoreInv, ListedAreUsed
    <2>4. m # n
      BY <2>2, <2>3
    <2> QED BY <1>4, <1>5, <2>1, <2>3, <2>4
  <1> QED BY <1>11, <1>12, <1>13 DEF StoreInv

\* A new part at the end of the list, and what the store holds of its entry
LEMMA AddedKeeps ==
    ASSUME StoreInv, NEW n \in DOMAIN marks, NEW e,
           e.alias = marks[n].alias, e.port = n, e.mark = n, n # 0,
           Len(marks[n].alias) = 1, ~Listed(marks[n].alias),
           list' = list \o marks[n].alias,
           records' = Put(records, marks[n].alias, Recorded(e)),
           marks' = [marks EXCEPT ![n] = e], UNCHANGED nextMark
    PROVE  StoreInv'
  <1> DEFINE a == marks[n].alias
  <1>1. a \in Seq(STRING) /\ Len(a) = 1
    BY DEF StoreInv, AliasesOK
  <1>2. a = <<a[1]>> /\ a[1] \in STRING /\ a # NoAlias
    <2> HIDE DEF a
    <2> QED BY <1>1, OfOnePart
  <1>3. /\ DOMAIN marks' = DOMAIN marks /\ marks'[n] = e
        /\ \A m \in DOMAIN marks : m # n => marks'[m] = marks[m]
    OBVIOUS
  <1>4. list \in Seq(STRING) /\ Once(list)
    BY DEF StoreInv, ListOK
  <1>5. \A k \in DOMAIN list : list[k] # a[1]
    BY <1>4 DEF Listed, Contains
  <1>6. list' = Append(list, a[1])
    <2>1. list' = list \o <<a[1]>>
      BY <1>2
    <2> QED BY <1>4, <2>1
  <1>7. records' = Put(records, a, Recorded(e))
    OBVIOUS
  <1>8. n \notin InUse
    BY DEF StoreInv, UsedAreKept, Kept
  <1>9. InUse' = InUse \union {n} /\ \A m \in InUse : m # n /\ m \in DOMAIN marks
    BY <1>3, <1>8 DEF InUse
  <1>10. e.alias = a
    OBVIOUS
  <1> HIDE DEF a
  <1>11. /\ list' \in Seq(STRING) /\ Len(list') = Len(list) + 1
         /\ list'[Len(list) + 1] = a[1] /\ \A k \in DOMAIN list : list'[k] = list[k]
    BY <1>2, <1>4, <1>6
  <1>12. /\ DOMAIN list = 1 .. Len(list) /\ Len(list) \in Nat
         /\ DOMAIN list' = 1 .. Len(list')
    BY <1>4, <1>11
  <1>13. /\ Len(list) + 1 \in DOMAIN list' /\ DOMAIN list \subseteq DOMAIN list'
         /\ \A j \in DOMAIN list' : j = Len(list) + 1 \/ j \in DOMAIN list
    BY <1>11, <1>12
  <1>14. ListOK'
    <2>1. Once(list)'
      BY <1>4, <1>5, <1>11, <1>13 DEF Once
    <2> QED BY <1>11, <2>1 DEF ListOK
  <1>15. AliasesOK'
    BY <1>1, <1>3, <1>10 DEF StoreInv, AliasesOK, a
  <1>16. UsedAreKept'
    <2>1. ASSUME NEW m \in InUse PROVE Kept(m)'
      <3>1. marks'[m] = marks[m] /\ Kept(m) /\ m \in DOMAIN marks
        BY <1>3, <1>9 DEF StoreInv, UsedAreKept
      <3>2. marks[m].alias # a
        BY <1>9, <1>2, <3>1 DEF StoreInv, AliasesOK, a
      <3>3. Listed(marks[m].alias)'
        <4>1. PICK k \in DOMAIN list : list[k] = marks[m].alias[1]
          BY <1>4, <3>1 DEF Kept, Listed, Contains
        <4>2. list'[k] = marks[m].alias[1] /\ k \in 1 .. Len(list')
          BY <1>11, <1>12, <1>13, <4>1
        <4> QED BY <3>1, <4>2 DEF Kept, Listed, Contains
      <3>4. HasRecords(marks[m].alias, m)'
        BY <1>7, <3>1, <3>2 DEF Kept, HasRecords, Put
      <3> QED BY <3>1, <3>3, <3>4 DEF Kept
    <2>2. Kept(n)'
      <3>1. Listed(a)'
        BY <1>1, <1>11, <1>12, <1>13 DEF Listed, Contains, a
      <3>2. marks'[n] = e /\ marks'[n].alias = a
        BY <1>3, <1>10
      <3>3. a' = marks'[n].alias
        BY DEF a
      <3>4. HasRecords(a, n)'
        BY <1>7, <1>10, <3>2, <3>3 DEF HasRecords, Put, Recorded
      <3> QED BY <3>1, <3>2, <3>3, <3>4 DEF Kept
    <2> QED BY <1>9, <2>1, <2>2 DEF UsedAreKept
  <1>17. ListedAreUsed'
    <2> SUFFICES ASSUME NEW j \in DOMAIN list'
                 PROVE  \E m \in InUse' : marks'[m].alias = <<list'[j]>>
      BY DEF ListedAreUsed
    <2>1. CASE j = Len(list) + 1
      BY <1>2, <1>3, <1>9, <1>10, <1>11, <2>1
    <2>2. CASE j \in DOMAIN list
      <3>1. PICK m \in InUse : marks[m].alias = <<list[j]>>
        BY <2>2 DEF StoreInv, ListedAreUsed
      <3> QED BY <1>3, <1>9, <1>11, <2>2, <3>1
    <2> QED BY <1>13, <2>1, <2>2
  <1>18. NumbersOK'
    BY <1>3 DEF StoreInv, NumbersOK
  <1> QED BY <1>14, <1>15, <1>16, <1>17, <1>18 DEF StoreInv

\* The records of an entry in use are written anew.
LEMMA WrittenKeeps ==
    ASSUME StoreInv, NEW n \in InUse,
           records' = Put(records, marks[n].alias, Recorded(marks[n])),
           UNCHANGED <<marks, list, nextMark>>
    PROVE  StoreInv'
  <1> DEFINE a == marks[n].alias
  <1>1. InUse' = InUse /\ \A m \in InUse : m \in DOMAIN marks
    BY DEF InUse
  <1>2. a \in Seq(STRING) /\ Len(a) = 1 /\ marks[n].port = n /\ marks[n].mark = n
    BY <1>1 DEF StoreInv, UsedAreKept, Kept, Listed, AliasesOK
  <1>3. a # NoAlias
    <2> HIDE DEF a
    <2> QED BY <1>2, OfOnePart
  <1>4. ASSUME NEW m \in InUse PROVE Kept(m)'
    <2>1. Kept(m)
      BY DEF StoreInv, UsedAreKept
    <2>2. CASE m = n
      <3>1. HasRecords(a, n)'
        BY <1>2 DEF HasRecords, Put, Recorded
      <3> QED BY <2>1, <2>2, <3>1 DEF Kept, Listed
    <2>3. CASE m # n
      <3>1. marks[m].alias # a
        BY <1>1, <1>3, <2>3 DEF StoreInv, AliasesOK
      <3>2. HasRecords(marks[m].alias, m)'
        BY <2>1, <3>1 DEF Kept, HasRecords, Put
      <3> QED BY <2>1, <3>2 DEF Kept, Listed
    <2> QED BY <2>2, <2>3
  <1>5. UsedAreKept'
    BY <1>1, <1>4 DEF UsedAreKept
  <1>6. ListedAreUsed'
    BY <1>1 DEF StoreInv, ListedAreUsed
  <1>7. ListOK' /\ NumbersOK' /\ AliasesOK'
    BY DEF StoreInv, ListOK, NumbersOK, AliasesOK, Once
  <1> QED BY <1>5, <1>6, <1>7 DEF StoreInv

\* The one-to-one correspondence of the parts listed and the entries in use
LEMMA AsManyAsListed ==
    ASSUME StoreInv
    PROVE  Len(list) = Cardinality(InUse) /\ Len(list) <= MarkLimit
  <1> DEFINE P == DOMAIN list
             f == [j \in P |-> CHOOSE n \in InUse : marks[n].alias = <<list[j]>>]
  <1>1. list \in Seq(STRING) /\ Once(list)
    BY DEF StoreInv, ListOK
  <1>2. P = 1 .. Len(list) /\ Len(list) \in Nat
    BY <1>1
  <1>3. \A j \in P : f[j] \in InUse /\ marks[f[j]].alias = <<list[j]>>
    BY DEF StoreInv, ListedAreUsed
  <1>4. f \in [P -> InUse]
    BY <1>3
  <1>5. \A n \in InUse : n \in DOMAIN marks
    BY DEF InUse
  <1> HIDE DEF f
  <1>6. \A i, j \in P : f[i] = f[j] => i = j
    <2> SUFFICES ASSUME NEW i \in P, NEW j \in P, f[i] = f[j] PROVE i = j
      OBVIOUS
    <2>1. <<list[i]>> = <<list[j]>>
      BY <1>3
    <2>2. list[i] = list[j]
      BY <2>1
    <2> QED BY <1>1, <2>2 DEF Once
  <1>7. \A n \in InUse : \E j \in P : f[j] = n
    <2> SUFFICES ASSUME NEW n \in InUse PROVE \E j \in P : f[j] = n
      OBVIOUS
    <2> DEFINE a == marks[n].alias
    <2>1. a \in Seq(STRING) /\ Len(a) = 1 /\ \E k \in P : list[k] = a[1]
      BY <1>2, <1>5 DEF StoreInv, AliasesOK, UsedAreKept, Kept, Listed, Contains
    <2>2. a = <<a[1]>> /\ a # NoAlias
      <3> HIDE DEF a
      <3> QED BY <2>1, OfOnePart
    <2>3. PICK k \in P : list[k] = a[1]
      BY <2>1
    <2>4. marks[f[k]].alias = a /\ f[k] \in DOMAIN marks
      BY <1>3, <1>5, <2>2, <2>3
    <2> QED BY <1>5, <2>2, <2>3, <2>4 DEF StoreInv, AliasesOK
  <1>8. f \in Bijection(P, InUse)
    BY <1>4, <1>6, <1>7 DEF Bijection, Injection, Surjection, IsInjective
  <1>9. IsFiniteSet(P) /\ Cardinality(P) = Len(list)
    <2>1. 1 \in Int /\ Len(list) \in Int
      BY <1>2
    <2> HIDE DEF P
    <2> QED BY <1>2, <2>1, FS_Interval
  <1>10. Cardinality(InUse) = Len(list)
    <2> HIDE DEF P
    <2> QED BY <1>8, <1>9, FS_Bijection DEF ExistsBijection
  <1>11. Cardinality(InUse) <= MarkLimit
    <2>1. InUse \subseteq 1 .. MarkLimit
      BY MarkAssumption DEF InUse, StoreInv, NumbersOK
    <2>2. IsFiniteSet(1 .. MarkLimit) /\ Cardinality(1 .. MarkLimit) = MarkLimit
      BY MarkAssumption, FS_Interval
    <2> QED BY <2>1, <2>2, FS_Subset
  <1> QED BY <1>10, <1>11

\* A start numbers the entries the store holds in the order of the list.
LEMMA StartedKeeps ==
    ASSUME StoreInv, WanMgr_WanIfaceMarkingInit(list, records)
    PROVE  StoreInv'
  <1>1. /\ list \in Seq(STRING) /\ Once(list) /\ DOMAIN list = 1 .. Len(list)
        /\ Len(list) \in Nat /\ Len(list) <= MarkLimit
    BY AsManyAsListed DEF StoreInv, ListOK
  <1>2. list' = list /\ marks' = Loaded(list, records) /\ records' = Adjusted(list, records)
    BY DEF WanMgr_WanIfaceMarkingInit
  <1>3. {k \in DOMAIN list : k <= MarkLimit} = DOMAIN list
    BY <1>1, MarkAssumption
  <1>4. DOMAIN marks' = DOMAIN list
    BY <1>2, <1>3 DEF Loaded
  <1>5. ASSUME NEW k \in DOMAIN list
        PROVE  \E n \in DOMAIN marks : n # 0 /\ n > 0 /\ HasRecords(<<list[k]>>, n)
    <2>1. PICK n \in InUse : marks[n].alias = <<list[k]>>
      BY DEF StoreInv, ListedAreUsed
    <2>2. HasRecords(<<list[k]>>, n)
      BY <2>1 DEF StoreInv, UsedAreKept, Kept
    <2>3. n \in DOMAIN marks /\ n > 0
      BY DEF InUse, StoreInv, NumbersOK
    <2> QED BY <2>2, <2>3
  <1>6. ASSUME NEW k \in DOMAIN list
        PROVE  /\ marks'[k].alias = <<list[k]>>
               /\ marks'[k].port = k /\ marks'[k].mark = k
    <2>1. PICK n \in DOMAIN marks : n > 0 /\ HasRecords(<<list[k]>>, n)
      BY <1>5
    <2>2. RecordsOf(records, <<list[k]>>) = records[<<list[k]>>]
      BY <2>1 DEF RecordsOf, HasRecords
    <2> DEFINE r == records[<<list[k]>>]
    <2>3. r.alias = <<list[k]>> /\ r.port # NoValue /\ r.mark # NoValue
      BY <2>1 DEF HasRecords, NoValue
    <2>4. marks'[k] = [alias |-> r.alias,
                       port |-> IF r.port = NoValue THEN 0 ELSE k,
                       mark |-> IF r.mark = NoValue THEN 0 ELSE k,
                       priority |-> IF r.priority = NoValue THEN -1 ELSE r.priority,
                       isNew |-> FALSE]
      BY <1>2, <1>3, <2>2 DEF Loaded
    <2> HIDE DEF r
    <2> QED BY <2>3, <2>4
  <1>7. ASSUME NEW k \in DOMAIN list
        PROVE  HasRecords(<<list[k]>>, k)'
    <2> DEFINE a == <<list[k]>>
               places == {j \in DOMAIN list : j <= MarkLimit /\ <<list[j]>> = a}
               m == CHOOSE i \in places : \A j \in places : j <= i
    <2>1. PICK n \in DOMAIN marks : n > 0 /\ HasRecords(a, n)
      BY <1>5
    <2>2. places = {k}
      <3>1. \A j \in DOMAIN list : <<list[j]>> = a => list[j] = list[k]
        OBVIOUS
      <3> QED BY <1>1, <3>1, MarkAssumption DEF Once
    <2>3. m = k
      <3>1. k \in Nat
        BY <1>1
      <3> HIDE DEF places
      <3> QED BY <2>2, <3>1
    <2> DEFINE r == records[a]
    <2>4. a \in DOMAIN records /\ DOMAIN r = {"alias", "port", "mark", "priority"}
          /\ r.alias = a /\ r.port # NoValue /\ r.mark # NoValue
      BY <2>1 DEF HasRecords, NoValue
    <2>5. records'[a] = IF places = {} THEN r
                        ELSE [r EXCEPT !.port = IF @ = NoValue THEN @ ELSE m,
                                       !.mark = IF @ = NoValue THEN @ ELSE m]
      BY <1>2, <2>4 DEF Adjusted
    <2>6. a \in DOMAIN records'
      BY <1>2, <2>4 DEF Adjusted
    <2>7. a' = a
      BY <1>2
    <2> HIDE DEF places, m, r, a
    <2>8. records'[a] = [r EXCEPT !.port = k, !.mark = k]
      BY <2>2, <2>3, <2>4, <2>5
    <2>9. /\ DOMAIN records'[a] = {"alias", "port", "mark", "priority"}
          /\ records'[a].alias = a /\ records'[a].port = k /\ records'[a].mark = k
      BY <2>4, <2>8
    <2>10. HasRecords(a, k)'
      BY <2>6, <2>7, <2>9 DEF HasRecords
    <2> QED BY <2>10 DEF a
  <1>8. InUse' = DOMAIN list
    <2>1. \A k \in DOMAIN list : k # 0
      BY <1>1
    <2> QED BY <1>4, <1>6, <2>1 DEF InUse
  <1>9. \A k \in DOMAIN list : <<list[k]>> \in Seq(STRING) /\ list[k] \in STRING
    BY <1>1
  <1>10. AliasesOK'
    <2>1. ASSUME NEW i \in DOMAIN list, NEW j \in DOMAIN list,
                 marks'[i].alias = marks'[j].alias
          PROVE  i = j
      <3>1. <<list[i]>> = <<list[j]>>
        BY <1>6, <2>1
      <3>2. list[i] = list[j]
        BY <3>1
      <3> QED BY <1>1, <3>2 DEF Once
    <2>2. \A i \in DOMAIN list : marks'[i].alias \in Seq(STRING)
      BY <1>6, <1>9
    <2> QED BY <1>4, <2>1, <2>2 DEF AliasesOK
  <1>11. UsedAreKept'
    <2> SUFFICES ASSUME NEW k \in DOMAIN list PROVE Kept(k)'
      BY <1>8 DEF UsedAreKept
    <2>1. Listed(<<list[k]>>)'
      BY <1>1, <1>2 DEF Listed, Contains
    <2>2. marks'[k].alias = <<list[k]>> /\ <<list[k]>>' = <<list[k]>>
      BY <1>2, <1>6
    <2> QED BY <1>6, <1>7, <2>1, <2>2 DEF Kept, Listed, HasRecords
  <1>12. ListedAreUsed'
    BY <1>2, <1>6, <1>8 DEF ListedAreUsed
  <1>13. NumbersOK'
    <2>1. nextMark' = Cardinality(1 .. Len(list)) + 1
      BY <1>1, <1>4 DEF WanMgr_WanIfaceMarkingInit
    <2>2. nextMark' = Len(list) + 1
      <3>1. 1 \in Int /\ Len(list) \in Int
        BY <1>1
      <3>2. Cardinality(1 .. Len(list)) = Len(list)
        BY <1>1, <3>1, FS_Interval
      <3> QED BY <2>1, <3>2
    <2> QED BY <1>1, <1>4, <2>2, MarkAssumption DEF NumbersOK
  <1>14. ListOK'
    BY <1>1, <1>2 DEF ListOK, Once
  <1> QED BY <1>10, <1>11, <1>12, <1>13, <1>14 DEF StoreInv

LEMMA UnchangedKeeps ==
    ASSUME StoreInv, UNCHANGED <<marks, list, records, nextMark>>
    PROVE  StoreInv'
  BY DEF StoreInv, ListOK, NumbersOK, AliasesOK, UsedAreKept, Kept, HasRecords, Listed,
     ListedAreUsed, Once, InUse

LEMMA AgreeStepKeeps ==
    ASSUME MarkInv, ~misused, StoreInv, NEW n \in DOMAIN marks, MarkStep(n), ~misused'
    PROVE  StoreInv'
  <1> DEFINE m == marks[n]
  <1>1. m.alias \in Seq(STRING) /\ Entry(m) /\ n \in Nat /\ n # 0 /\ n \in 1 .. nextMark - 1
        /\ nextMark \in 1 .. MarkLimit + 1
    BY MarkAssumption DEF StoreInv, AliasesOK, NumbersOK, MarkInv
  <1>2. CASE Marking_DelEntry(n)
    <2>1. CASE Listed(m.alias)
      BY <1>2, <2>1, DeletedKeeps DEF Marking_DelEntry
    <2>2. CASE ~Listed(m.alias)
      <3> DEFINE e == [m EXCEPT !.isNew = FALSE]
      <3>1. SameMark(e, m)
        BY <1>1 DEF SameMark, Entry
      <3>2. marks' = [marks EXCEPT ![n] = e] /\ UNCHANGED <<list, records, nextMark>>
        BY <1>2, <2>2 DEF Marking_DelEntry
      <3> HIDE DEF e
      <3> QED BY <3>1, <3>2, ChangedKeeps
    <2> QED BY <2>1, <2>2
  <1>3. CASE CommitNew(n)
    <2>1. misused' = (misused \/ Len(m.alias) # 1) /\ UNCHANGED nextMark
      BY <1>3 DEF CommitNew
    <2>2. Len(m.alias) = 1
      BY <2>1
    <2>3. CASE Listed(m.alias)
      <3> DEFINE e == [m EXCEPT !.isNew = FALSE]
      <3>1. SameMark(e, m)
        BY <1>1 DEF SameMark, Entry
      <3>2. marks' = [marks EXCEPT ![n] = e] /\ UNCHANGED <<list, records, nextMark>>
        BY <1>3, <2>1, <2>3 DEF CommitNew
      <3> HIDE DEF e
      <3> QED BY <3>1, <3>2, ChangedKeeps
    <2>4. CASE ~Listed(m.alias)
      <3> DEFINE e == [Added(n) EXCEPT !.isNew = FALSE]
      <3>1. e.alias = m.alias /\ e.port = n /\ e.mark = n
            /\ Recorded(e) = Recorded(Added(n))
        BY <1>1 DEF Entry, Added, Recorded
      <3>2. /\ marks' = [marks EXCEPT ![n] = e] /\ list' = list \o m.alias
            /\ records' = Put(records, m.alias, Recorded(Added(n)))
        BY <1>3, <2>4 DEF CommitNew
      <3> HIDE DEF e
      <3> QED BY <1>1, <2>1, <2>2, <2>4, <3>1, <3>2, AddedKeeps
    <2> QED BY <2>3, <2>4
  <1>4. CASE CommitChanged(n)
    <2>1. CASE Listed(m.alias)
      <3>1. n \in InUse
        BY <2>1, ListedIsInUse
      <3>2. records' = Put(records, m.alias, Recorded(m))
            /\ UNCHANGED <<marks, list, nextMark>>
        BY <1>4, <2>1 DEF CommitChanged
      <3> QED BY <3>1, <3>2, WrittenKeeps
    <2>2. CASE ~Listed(m.alias)
      BY <1>4, <2>2, UnchangedKeeps DEF CommitChanged
    <2> QED BY <2>1, <2>2
  <1>5. ASSUME NEW p \in MarkPriorities, Marking_SetParamIntValue(n, p)
        PROVE  StoreInv'
    <2> DEFINE e == [m EXCEPT !.priority = p]
    <2>1. SameMark(e, m)
      BY <1>1 DEF SameMark, Entry
    <2>2. marks' = [marks EXCEPT ![n] = e] /\ UNCHANGED <<list, records, nextMark>>
      BY <1>5 DEF Marking_SetParamIntValue
    <2> HIDE DEF e
    <2> QED BY <2>1, <2>2, ChangedKeeps
  <1>6. ASSUME NEW a \in MarkAliases, Marking_SetParamStringValue(n, a)
        PROVE  StoreInv'
    <2> DEFINE e == [m EXCEPT !.alias = a]
               shared == \E j \in DOMAIN marks \ {n} : marks[j].alias = a
    <2>1. /\ m.alias = NoAlias /\ marks' = [marks EXCEPT ![n] = e]
          /\ UNCHANGED <<list, records, nextMark>> /\ misused' = (misused \/ shared)
      BY <1>6 DEF Marking_SetParamStringValue
    <2>2. ~shared
      BY <2>1
    <2>3. n \notin InUse
      <3>1. Len(NoAlias) = 0
        BY DEF NoAlias
      <3> QED BY <2>1, <3>1 DEF StoreInv, UsedAreKept, Kept, Listed
    <2>4. e.alias = a /\ e.port = 0 /\ a \in Seq(STRING)
      BY <1>1, <2>3, MarkAssumption DEF Entry, InUse
    <2> HIDE DEF e
    <2>5. marks' = Put(marks, n, e)
      BY <2>1 DEF Put
    <2>6. DOMAIN marks' = DOMAIN marks /\ NumbersOK
      BY <2>1 DEF StoreInv
    <2>7. nextMark' \in 1 .. MarkLimit + 1 /\ DOMAIN marks' \subseteq 1 .. nextMark' - 1
      BY <2>1, <2>6 DEF NumbersOK
    <2> QED BY <1>1, <2>1, <2>2, <2>3, <2>4, <2>5, <2>7, UnusedKeeps
  <1>7. ASSUME NEW k, CrashInAdd(n, k) \/ CrashInDelete(n, k) PROVE FALSE
    BY <1>7 DEF CrashInAdd, CrashInDelete
  <1> QED BY <1>2, <1>3, <1>4, <1>5, <1>6, <1>7 DEF MarkStep, Marking_Commit

LEMMA AgreeInvNext == AgreeInv /\ [MarkNext]_markVars => AgreeInv'
  <1> SUFFICES ASSUME AgreeInv, [MarkNext]_markVars PROVE AgreeInv'
    OBVIOUS
  <1>1. MarkInv'
    BY MarkInvNext DEF AgreeInv
  <1>2. misused' \in BOOLEAN /\ (misused => misused')
    BY DEF AgreeInv, MarkNext, MarkStep, Marking_AddEntry, StartMarks, Marking_DelEntry,
       Marking_Commit, CommitNew, CommitChanged, Marking_SetParamIntValue,
       Marking_SetParamStringValue, CrashInAdd, CrashInDelete, markVars
  <1>3. ASSUME ~misused' PROVE StoreInv'
    <2>1. ~misused /\ StoreInv /\ MarkInv
      BY <1>2, <1>3 DEF AgreeInv
    <2>2. CASE Marking_AddEntry
      <3>1. /\ nextMark <= MarkLimit /\ marks' = Put(marks, nextMark, NewMark)
            /\ nextMark' = nextMark + 1 /\ UNCHANGED <<list, records>>
        BY <2>2 DEF Marking_AddEntry, WanManager_AddIfaceMarking
      <3>2. nextMark \in 1 .. MarkLimit + 1 /\ DOMAIN marks \subseteq 1 .. nextMark - 1
        BY <2>1 DEF StoreInv, NumbersOK
      <3>3. nextMark \in Nat /\ nextMark \notin InUse
        BY <3>2, MarkAssumption DEF InUse
      <3>4. DOMAIN marks' = DOMAIN marks \union {nextMark}
        BY <3>1 DEF Put
      <3>5. nextMark' \in 1 .. MarkLimit + 1 /\ DOMAIN marks' \subseteq 1 .. nextMark' - 1
        BY <3>1, <3>2, <3>4, MarkAssumption
      <3>6. NewMark.port = 0 /\ NewMark.alias = NoAlias /\ NoAlias \in Seq(STRING)
        BY DEF NewMark, NoAlias
      <3> QED BY <2>1, <3>1, <3>3, <3>5, <3>6, UnusedKeeps
    <2>3. CASE StartMarks
      BY <2>1, <2>3, StartedKeeps DEF StartMarks
    <2>4. CASE \E n \in DOMAIN marks : MarkStep(n)
      BY <1>3, <2>1, <2>4, AgreeStepKeeps
    <2>5. CASE UNCHANGED markVars
      BY <2>1, <2>5, UnchangedKeeps DEF markVars
    <2> QED BY <2>2, <2>3, <2>4, <2>5 DEF MarkNext
  <1> QED BY <1>1, <1>2, <1>3 DEF AgreeInv

\* While nothing has been misused, the entries in use are those the store lists,
\* once each and with their records, for any aliases and any limit.
THEOREM StoreAlwaysAgrees == MarkSpec => []RecordsAgree
  <1>1. MarkInit => AgreeInv
    <2> SUFFICES ASSUME MarkInit PROVE AgreeInv
      OBVIOUS
    <2>1. DOMAIN marks = {} /\ list = <<>> /\ nextMark = 1 /\ misused = FALSE
      BY DEF MarkInit
    <2>2. InUse = {}
      BY <2>1 DEF InUse
    <2>3. ListOK /\ ListedAreUsed
      BY <2>1 DEF ListOK, Once, ListedAreUsed
    <2>4. NumbersOK
      BY <2>1, MarkAssumption DEF NumbersOK
    <2>5. AliasesOK /\ UsedAreKept /\ MarkInv
      BY <2>1, <2>2 DEF AliasesOK, UsedAreKept, MarkInv
    <2> QED BY <2>1, <2>3, <2>4, <2>5 DEF AgreeInv, StoreInv
  <1>2. AgreeInv => RecordsAgree
    <2> SUFFICES ASSUME StoreInv, NEW n \in InUse
                 PROVE  /\ Listed(Marking_GetParamStringValue(n))
                        /\ records[marks[n].alias].alias = marks[n].alias
                        /\ records[marks[n].alias].port = n
                        /\ records[marks[n].alias].mark = n
      BY AsManyAsListed DEF AgreeInv, RecordsAgree
    <2>1. Kept(n)
      BY DEF StoreInv, UsedAreKept
    <2> QED BY <2>1 DEF Kept, HasRecords, Marking_GetParamStringValue
  <1> QED BY <1>1, <1>2, AgreeInvNext, PTL DEF MarkSpec

=============================================================================
