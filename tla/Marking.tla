------------------------------ MODULE Marking -------------------------------
(* The TR-181 table CPEInterface.{i}.Marking.{j} of one interface: the marks *)
(* the agent adds, names, commits and deletes, their records in the          *)
(* persistent store, and a start of the process, which numbers them anew.    *)
(*                                                                           *)
(* An alias is the sequence of its parts between hyphens, because the list   *)
(* of the aliases in the store is split at hyphens; <<>> is the empty one.   *)
(* The list is assumed to fit its 63 characters.  A mark is counted in units *)
(* of 0x100000.                                                              *)
EXTENDS Integers, FiniteSets, Sequences, SequencesExt, Places

CONSTANTS MarkAliases,    \* aliases the agent writes
          MarkPriorities, \* Ethernet priorities the agent writes
          MarkLimit,      \* WAN_IF_MARKING_MAX_LIMIT
          MaxMarkStarts   \* bound: starts of the process after the first

ASSUME MarkAssumption == /\ MarkLimit \in Nat \ {0} /\ MarkPriorities \subseteq Nat
                         /\ MarkAliases \subseteq Seq(STRING)

VARIABLES marks,    \* MarkingList: instance number -> entry
          nextMark, \* ulNextInstanceNumber
          list,     \* the record of the list
          records,  \* alias -> its four records
          misused,  \* aliases shared or not of one part, or a commit cut off
          markStarts

markVars == <<marks, nextMark, list, records, misused, markStarts>>

NoAlias == <<>>
Put(f, x, v) == [y \in DOMAIN f \union {x} |-> IF y = x THEN v ELSE f[y]]
Drop(f, x) == [y \in DOMAIN f \ {x} |-> f[y]]

NewMark == [alias |-> NoAlias, port |-> 0, mark |-> 0, priority |-> -1,
            isNew |-> TRUE]
NoValue == -2
NoRecords == [alias |-> NoAlias, port |-> NoValue, mark |-> NoValue,
              priority |-> NoValue]
Fields == <<"alias", "port", "mark", "priority">>
RecordsOf(recs, a) == IF a \in DOMAIN recs THEN recs[a] ELSE NoRecords

\* The list is a sequence of parts, so that an alias of two is never in it.
Listed(a) == Len(a) = 1 /\ Contains(list, a[1])

\* The numbers below the next one are never given again until the next start.
WanManager_AddIfaceMarking ==
  /\ nextMark <= MarkLimit
  /\ marks' = Put(marks, nextMark, NewMark)
  /\ nextMark' = nextMark + 1

(***************************************************************************)
(* A start of the process.                                                 *)
(***************************************************************************)
\* Mutant: port and mark are taken as they were stored.
LoadsAsStored(parts, recs) ==
  [n \in {k \in DOMAIN parts : k <= MarkLimit} |->
     LET r == RecordsOf(recs, <<parts[n]>>)
     IN  [alias |-> r.alias,
          port |-> IF r.port = NoValue THEN 0 ELSE r.port,
          mark |-> IF r.mark = NoValue THEN 0 ELSE r.mark,
          priority |-> IF r.priority = NoValue THEN -1 ELSE r.priority,
          isNew |-> FALSE]]

\* A stored port and mark are adjusted to the entry's new number.
Loaded(parts, recs) ==
  [n \in {k \in DOMAIN parts : k <= MarkLimit} |->
     LET r == RecordsOf(recs, <<parts[n]>>)
     IN  [alias |-> r.alias,
          port |-> IF r.port = NoValue THEN 0 ELSE n,
          mark |-> IF r.mark = NoValue THEN 0 ELSE n,
          priority |-> IF r.priority = NoValue THEN -1 ELSE r.priority,
          isNew |-> FALSE]]

Adjusted(parts, recs) ==
  [a \in DOMAIN recs |->
     LET places == {k \in DOMAIN parts : k <= MarkLimit /\ <<parts[k]>> = a}
         n == CHOOSE k \in places : \A j \in places : j <= k
     IN  IF places = {} THEN recs[a]
         ELSE [recs[a] EXCEPT !.port = IF @ = NoValue THEN @ ELSE n,
                              !.mark = IF @ = NoValue THEN @ ELSE n]]

WanMgr_WanIfaceMarkingInit(parts, recs) ==
  /\ markStarts < MaxMarkStarts
  /\ markStarts' = markStarts + 1
  /\ list' = parts
  /\ marks' = Loaded(parts, recs)
  /\ records' = Adjusted(parts, recs)
  /\ nextMark' = Cardinality(DOMAIN marks') + 1

MarkInit ==
  /\ marks = [n \in {} |-> NewMark]
  /\ nextMark = 1
  /\ list = <<>>
  /\ records = [a \in {} |-> NoRecords]
  /\ misused = FALSE
  /\ markStarts = 0

(***************************************************************************)
(* The store: DmlCheckAndProceedMarkingOperations.                         *)
(***************************************************************************)
Recorded(e) == [alias |-> e.alias, port |-> e.port, mark |-> e.mark,
              priority |-> e.priority]
\* The first k of the four records are written, or deleted.
WriteFirst(r, v, k) ==
  [f \in DOMAIN r |-> IF \E j \in 1 .. k : Fields[j] = f THEN v[f] ELSE r[f]]

Added(n) == [marks[n] EXCEPT !.port = n, !.mark = n]

\* Mutant: the deleted alias stays in the list.
KeepsListed(a) ==
  /\ records' = Drop(records, a)
  /\ UNCHANGED list

Delete(a) ==
  /\ records' = Drop(records, a)
  /\ list' = ElementsAt(list, {k \in DOMAIN list : list[k] # a[1]})

(***************************************************************************)
(* The agent's calls.                                                      *)
(***************************************************************************)
Marking_AddEntry ==
  /\ WanManager_AddIfaceMarking
  /\ UNCHANGED <<list, records, misused, markStarts>>

\* An entry whose alias is not listed is not deleted, but is no longer new.
Marking_DelEntry(n) ==
  /\ IF Listed(marks[n].alias)
     THEN Delete(marks[n].alias) /\ marks' = Drop(marks, n)
     ELSE marks' = [marks EXCEPT ![n].isNew = FALSE] /\ UNCHANGED <<list, records>>
  /\ UNCHANGED <<nextMark, misused, markStarts>>

Marking_SetParamIntValue(n, p) ==
  /\ marks' = [marks EXCEPT ![n].priority = p]
  /\ UNCHANGED <<nextMark, list, records, misused, markStarts>>

\* An alias once set stays.
Marking_SetParamStringValue(n, a) ==
  /\ marks[n].alias = NoAlias
  /\ marks' = [marks EXCEPT ![n].alias = a]
  /\ misused' = (misused \/ \E j \in DOMAIN marks \ {n} : marks[j].alias = a)
  /\ UNCHANGED <<nextMark, list, records, markStarts>>

\* Refused or not, DmlAddMarking reports success.
CommitNew(n) ==
  /\ marks[n].isNew
  /\ LET a == marks[n].alias
     IN  IF Listed(a)
         THEN marks' = [marks EXCEPT ![n].isNew = FALSE] /\ UNCHANGED <<list, records>>
         ELSE /\ list' = list \o a
              /\ records' = Put(records, a, Recorded(Added(n)))
              /\ marks' = [marks EXCEPT ![n] = [Added(n) EXCEPT !.isNew = FALSE]]
  /\ misused' = (misused \/ Len(marks[n].alias) # 1)
  /\ UNCHANGED <<nextMark, markStarts>>

CommitChanged(n) ==
  /\ ~marks[n].isNew
  /\ records' = IF Listed(marks[n].alias)
                THEN Put(records, marks[n].alias, Recorded(marks[n])) ELSE records
  /\ UNCHANGED <<marks, nextMark, list, misused, markStarts>>

Marking_Commit(n) == CommitNew(n) \/ CommitChanged(n)

StartMarks ==
  /\ WanMgr_WanIfaceMarkingInit(list, records)
  /\ UNCHANGED misused

\* The process ends after the list and the first k records of a new mark.
CrashInAdd(n, k) ==
  /\ marks[n].isNew /\ ~Listed(marks[n].alias)
  /\ LET a == marks[n].alias
     IN  WanMgr_WanIfaceMarkingInit(list \o a,
           Put(records, a, WriteFirst(RecordsOf(records, a), Recorded(Added(n)), k)))
  /\ misused' = TRUE

\* The process ends after the first k records of a mark have been deleted.
CrashInDelete(n, k) ==
  /\ Listed(marks[n].alias)
  /\ LET a == marks[n].alias
     IN  WanMgr_WanIfaceMarkingInit(list,
           Put(records, a, WriteFirst(RecordsOf(records, a), NoRecords, k)))
  /\ misused' = TRUE

MarkStep(n) ==
  \/ Marking_DelEntry(n) \/ Marking_Commit(n)
  \/ \E p \in MarkPriorities : Marking_SetParamIntValue(n, p)
  \/ \E a \in MarkAliases : Marking_SetParamStringValue(n, a)
  \/ \E k \in 0 .. 3 : CrashInAdd(n, k)
  \/ \E k \in 1 .. 4 : CrashInDelete(n, k)

MarkNext == Marking_AddEntry \/ StartMarks \/ \E n \in DOMAIN marks : MarkStep(n)
MarkSpec == MarkInit /\ [][MarkNext]_markVars

(***************************************************************************)
(* What the agent reads.                                                   *)
(***************************************************************************)
Marking_GetParamUlongValue(n) == [SKBPort |-> marks[n].port, SKBMark |-> marks[n].mark]
Marking_GetParamStringValue(n) == marks[n].alias
Marking_GetParamIntValue(n) == marks[n].priority

(***************************************************************************)
(* Properties.                                                             *)
(***************************************************************************)
\* "Its value matches the instance index": the port and the mark of an entry,
\* by which the box tells the traffic of one mark from that of another, are its
\* number or not made yet, through renumbering, crashes and shared aliases.
PortsMatchNumbers ==
  \A n \in DOMAIN marks :
    /\ Marking_GetParamUlongValue(n).SKBPort \in {0, n}
    /\ Marking_GetParamUlongValue(n).SKBMark \in {0, n}

\* While aliases are of one part, no two entries share one and no commit was
\* cut off, the marks in use are those the store lists, once each, with their
\* records: a start brings back these and no other.
InUse == {n \in DOMAIN marks : marks[n].port # 0}
RecordsAgree ==
  ~misused =>
    /\ Len(list) = Cardinality(InUse)
    /\ \A n \in InUse :
         /\ Listed(Marking_GetParamStringValue(n))
         /\ records[marks[n].alias].alias = marks[n].alias
         /\ records[marks[n].alias].port = n /\ records[marks[n].alias].mark = n

\* "If record found when add then reject that process": the entry stays new.
AddIsRejected ==
  [][\A n \in DOMAIN marks :
       CommitNew(n) /\ Listed(marks[n].alias) => marks'[n].isNew]_markVars
=============================================================================
