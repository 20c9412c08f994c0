------------------------------ MODULE DmlTable ------------------------------
(* What the TR-181 tables share: entries kept by instance number, and the   *)
(* transaction of the data model agent that calls their functions.  The     *)
(* agent is outside the repository: between transactions it adds and        *)
(* deletes entries; in one it sets parameters of some objects, validates    *)
(* all of them, and commits every one or rolls every one back.              *)
EXTENDS Integers, FiniteSets

CONSTANTS MaxNumber,   \* bound: numbers given to clients and their options
          MaxRestarts, \* bound: restarts of the process
          MaxTouched,  \* bound: objects in one transaction of the agent
          Aliases,     \* aliases the agent writes: sequences, <<>> is empty
          Tags         \* option tags the agent writes

ASSUME TableBounds == /\ MaxNumber \in Nat \ {0}
                      /\ MaxRestarts \in Nat
                      /\ MaxTouched \in Nat
                      /\ Tags \subseteq Nat

Numbers == 1 .. MaxNumber
None == <<>>
Names == Aliases \union {None}
         \union ({"Client", "SentOption", "ReqOption", "eRouter"} \X Numbers)

\* An instance number names the entry's handle.
With(f, x, v) == [y \in DOMAIN f \union {x} |-> IF y = x THEN v ELSE f[y]]
Without(f, x) == [y \in DOMAIN f \ {x} |-> f[y]]
Empty == [n \in {} |-> None]
Highest(n, S) == CHOOSE m \in S \union {n} : \A k \in S \union {n} : k <= m

Option(alias, isNew) ==
  [alias |-> alias, enabled |-> FALSE, tag |-> 0, isNew |-> isNew]

Quiet == [phase |-> "idle", objects |-> {}]
Phases == {"idle", "set", "commit", "rollback"}

CanTouch(t, o) == /\ t.phase \in {"idle", "set"}
                  /\ o \in t.objects \/ Cardinality(t.objects) < MaxTouched
Touched(t, o) == [phase |-> "set", objects |-> t.objects \union {o}]
Decided(t, valid) == [t EXCEPT !.phase = IF valid THEN "commit" ELSE "rollback"]
Finished(t, o) ==
  LET left == t.objects \ {o}
  IN  [phase |-> IF left = {} THEN "idle" ELSE t.phase, objects |-> left]
============================================================================
