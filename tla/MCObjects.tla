------------------------------ MODULE MCObjects ------------------------------
(* The other objects of the data model.  They share no state, so each is     *)
(* explored alone: part says which one changes, the others stay as they      *)
(* were initially.                                                           *)
EXTENDS WanIfTable, WanConfig, Marking, Learned

VARIABLE part

MCPairs == <<[Type |-> 1, Priority |-> 0], [Type |-> 2, Priority |-> 0]>>
MCMarkAliases == {<<"A">>, <<"B">>, <<"A", "B">>}

objectVars == <<wanIfVars, configVars, markVars, learnedVars, part>>
FirstConfig == /\ stored = [Enable |-> 1, Policy |-> Missing, IdleTimeout |-> 0]
               /\ config = [Enable |-> 1, Policy |-> 2, IdleTimeout |-> 0]
FirstLearned == sincePrevious = [t \in Tables |-> 0] /\ writing = [t \in Tables |-> 1]

ObjectsInit ==
  /\ WanIfInit /\ ConfigInit /\ MarkInit /\ LearnedInit
  /\ part \in {"ifaces", "config", "marks", "leases", "servers", "options"}
  /\ part # "config" => FirstConfig
  /\ part \notin {"servers", "options"} => FirstLearned

IfacesTurn == part = "ifaces" /\ UNCHANGED <<configVars, markVars, learnedVars, part>>
ConfigTurn == part = "config" /\ UNCHANGED <<wanIfVars, markVars, learnedVars, part>>
ObjectsNext ==
  \/ IfacesTurn /\ WanIfNext
  \/ ConfigTurn /\ ConfigNext
  \/ part = "marks" /\ MarkNext /\ UNCHANGED <<wanIfVars, configVars, learnedVars, part>>
  \/ part = "leases" /\ LeaseNext /\ UNCHANGED <<wanIfVars, configVars, markVars, part>>
  \/ part = "servers" /\ ServersNext /\ UNCHANGED <<wanIfVars, configVars, markVars, part>>
  \/ part = "options" /\ OptionsNext /\ UNCHANGED <<wanIfVars, configVars, markVars, part>>

\* The fairness of WanIfSpec and of ConfigSpec.
ObjectsSpec ==
  /\ ObjectsInit /\ [][ObjectsNext]_objectVars
  /\ \A t \in Threads : WF_objectVars(IfacesTurn /\ CallStep(t))
  /\ WF_objectVars(ConfigTurn /\ MainStep)
  /\ WF_objectVars(ConfigTurn /\ Ask)
  /\ WF_objectVars(ConfigTurn /\ Reboot)

\* Bounds of the interfaces' part: the sets of two threads overlap only while
\* nothing else has been set, and are of two interfaces; what a commit and a
\* restart keep is followed for one interface and one thread.
Off(i) == \A p \in Varied : wanif[i][p] = 0
PairsStored ==
  \A i \in Ifaces : \A p \in {"Type", "Priority"} : psm[i][p] = MCPairs[i][p]
PairsShown ==
  \A i \in Ifaces : \A p \in {"Type", "Priority"} : wanif[i][p] = MCPairs[i][p]
Busy == {t \in Threads : call[t] # Idle}
SetsOverlap ==
  /\ \A t, u \in Busy : t # u => call[t].iface # call[u].iface
  /\ ifRestarts = 0 /\ PairsStored /\ kept[1] = [p \in Params |-> {psm[1][p]}]
  /\ \/ \A i \in Ifaces : Off(i)
     \/ /\ Off(2) /\ PairsShown
        /\ wanif[1]["SelectionTimeout"] = 0 /\ wanif[1]["Discovery-Offer"] = 0
  /\ pppFlagSet => PairsShown
PairsCommitted ==
  /\ ifRestarts = 0 /\ Busy \subseteq {CHOOSE t \in Threads : TRUE} /\ ~pppFlagSet
  /\ wanif[2] = [p \in Params |-> psm[2][p]] /\ \A i \in Ifaces : Off(i)
OthersCommitted == PairsStored /\ PairsShown /\ Busy = {} /\ Off(2)
Small == part = "ifaces" => SetsOverlap \/ PairsCommitted \/ OthersCommitted
=============================================================================
