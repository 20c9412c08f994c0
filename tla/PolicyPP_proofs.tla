--------------------------- MODULE PolicyPP_proofs ---------------------------
(***************************************************************************)
(* For every table of interfaces and every number of thread slots, the     *)
(* primary-priority policy keeps a single interface marked active and a    *)
(* single thread at work.                                                  *)
(*                                                                         *)
(* The invariant PpInv follows the round of the policy.  Without an active *)
(* interface nothing is marked; what the scan of the table has found       *)
(* disabled stays disabled, since only the first step of a new thread ends *)
(* that, and the policy creates none before the scan is over.  A thread    *)
(* that is created is the only one, and the policy waits for its first     *)
(* step before it looks at the table again (PromptStart).                  *)
(*                                                                         *)
(* At the end: the policy does no more than WanSession lets a policy do,   *)
(* so that InterfaceSM, which implements WanSession, is what it relies on. *)
(***************************************************************************)
EXTENDS PolicyPP, LoopTheorems, TLAPS

\* What a step of the selection loop makes of the choice so far.
LEMMA ConsiderType ==
    ASSUME PpTypeOK, NEW n \in Ifaces
    PROVE  Consider(pp.best, n) \in
               [{"primary", "secondary"} ->
                   [idx : Ifaces \cup {None}, priority : 0 .. PriorityMax]]
  <1> DEFINE best == pp.best
  <1>1. best \in [{"primary", "secondary"} ->
                     [idx : Ifaces \cup {None}, priority : 0 .. PriorityMax]]
    BY DEF PpTypeOK, Policies
  <1>2. Role(n) \in {"primary", "secondary"}
    BY DEF Role
  <1>3. config[n].priority \in -1 .. PriorityMax
    BY DEF PpTypeOK, Config
  <1> HIDE DEF best
  <1>4. CASE config[n].priority \in 0 .. best[Role(n)].priority - 1
    <2>1. [idx |-> n, priority |-> config[n].priority] \in
              [idx : Ifaces \cup {None}, priority : 0 .. PriorityMax]
      BY <1>1, <1>2, <1>3, <1>4 DEF PriorityMax
    <2> QED BY <1>1, <1>2, <2>1 DEF Consider, best
  <1>5. CASE config[n].priority \notin 0 .. best[Role(n)].priority - 1
    BY <1>1, <1>5 DEF Consider, best
  <1> QED BY <1>4, <1>5

LEMMA NoChoiceType ==
    NoChoice \in [{"primary", "secondary"} ->
                     [idx : Ifaces \cup {None}, priority : 0 .. PriorityMax]]
  BY DEF NoChoice, Nobody, PriorityMax

\* The table is loaded idle and the policy has chosen nothing.
LEMMA PpInvInit == PpInit => PpInv
  <1> SUFFICES ASSUME PpInit PROVE PpInv
    OBVIOUS
  <1>1. PpTypeOK
    <2>1. SessionTypeOK
      BY DEF PpInit, SessionInit, SessionTypeOK, Wan, Stage
    <2>2. config \in [Ifaces -> Config]
      BY TableAssumption DEF PpInit
    <2>3. pp \in Policies
      BY TableAssumption, NoChoiceType DEF PpInit, Policies, PpState
    <2> QED BY <2>1, <2>2, <2>3 DEF PpTypeOK
  <1>2. Hands /\ SingleActiveLink
    BY DEF PpInit, SessionInit, Hands, SingleActiveLink
  <1>3. Scanned /\ Reported /\ OneWorker
    BY DEF PpInit, SessionInit, Scanned, Reported, OneWorker
  <1> QED BY <1>1, <1>2, <1>3 DEF PpInv

-----------------------------------------------------------------------------
(***************************************************************************)
(* The threads and the managers.                                           *)
(***************************************************************************)

\* A step that leaves the policy alone, marks no interface and changes no
\* thread but t, which may have reported its interface in use.
LEMMA OthersKeep ==
    ASSUME PpInv, UNCHANGED pp, PpTypeOK',
           \A n \in Ifaces : wan'[n].activeLink => wan[n].activeLink
    PROVE  (Hands /\ SingleActiveLink)'
  BY DEF PpInv, Hands, SingleActiveLink

\* A manager changes no thread and no interface's report.
LEMMA QuietKeeps ==
    ASSUME PpInv, UNCHANGED <<pp, sm>>, PpTypeOK',
           \A n \in Ifaces : /\ wan'[n].activeLink => wan[n].activeLink
                             /\ wan'[n].disabled = wan[n].disabled
    PROVE  PpInv'
  <1>1. PromptStart => (Scanned /\ Reported /\ OneWorker)'
    BY DEF PpInv, Scanned, Reported, OneWorker, Threads
  <1> QED BY <1>1, OthersKeep DEF PpInv

LEMMA TransitionStartKeeps ==
    ASSUME PpInv, NEW t \in Threads, TransitionStart(t), UNCHANGED <<config, pp>>
    PROVE  PpInv'
  <1>1. t[1] \in Ifaces /\ PpTypeOK
    BY DEF Threads, PpInv
  <1>2. PpTypeOK'
    BY <1>1 DEF TransitionStart, PpTypeOK, SessionTypeOK, Wan, Stage
  <1>3. /\ \A n \in Ifaces : wan'[n].activeLink => wan[n].activeLink
        /\ ~wan'[t[1]].disabled
        /\ sm' = [sm EXCEPT ![t] = "RUN"] /\ sm[t] = "START"
    BY <1>1 DEF TransitionStart, PpTypeOK, SessionTypeOK, Wan
  <1>4. ASSUME PromptStart PROVE (Scanned /\ Reported /\ OneWorker)'
    <2>1. pp.pc = "config"
      BY <1>3, <1>4 DEF PpInv, Reported
    <2>2. \A u \in Threads : u # t => sm[u] \in {"NONE", "EXIT"}
      BY <1>3, <1>4 DEF PpInv, OneWorker
    <2>3. \A u \in Threads : sm'[u] = IF u = t THEN "RUN" ELSE sm[u]
      BY <1>1, <1>3 DEF PpTypeOK, SessionTypeOK
    <2> QED BY <1>3, <2>1, <2>2, <2>3 DEF Scanned, Reported, OneWorker
  <1> QED BY <1>2, <1>3, <1>4, OthersKeep DEF PpInv

LEMMA PhysicalInterfaceDownKeeps ==
    ASSUME PpInv, NEW t \in Threads, PhysicalInterfaceDown(t),
           UNCHANGED <<config, pp>>
    PROVE  PpInv'
  <1>1. t[1] \in Ifaces /\ PpTypeOK
    BY DEF Threads, PpInv
  <1>2. PpTypeOK'
    BY <1>1 DEF PhysicalInterfaceDown, PpTypeOK, SessionTypeOK, Stage
  <1>3. /\ UNCHANGED wan /\ sm[t] = "RUN"
        /\ sm' = [sm EXCEPT ![t] = "DECONFIGURING_WAN"]
    BY DEF PhysicalInterfaceDown
  <1>4. ASSUME PromptStart PROVE (Scanned /\ Reported /\ OneWorker)'
    <2>1. \A u \in Threads :
             sm'[u] = IF u = t THEN "DECONFIGURING_WAN" ELSE sm[u]
      BY <1>1, <1>3 DEF PpTypeOK, SessionTypeOK
    <2> QED BY <1>3, <1>4, <2>1 DEF PpInv, Scanned, Reported, OneWorker
  <1> QED BY <1>2, <1>3, <1>4, OthersKeep DEF PpInv

\* The thread that reports its interface free is the only one at work, so
\* that no other loses its report.
LEMMA TransitionExitKeeps ==
    ASSUME PpInv, NEW t \in Threads, TransitionExit(t), UNCHANGED <<config, pp>>
    PROVE  PpInv'
  <1>1. t[1] \in Ifaces /\ PpTypeOK
    BY DEF Threads, PpInv
  <1>2. PpTypeOK'
    <2>1. wan' \in [Ifaces -> Wan]
      <3> DEFINE w == wan[t[1]]
      <3>1. w \in Wan
        BY <1>1 DEF PpTypeOK, SessionTypeOK
      <3>2. wan' = [wan EXCEPT ![t[1]] = [w EXCEPT !.disabled = TRUE,
                                                  !.activeLink = FALSE]]
        BY <1>1 DEF TransitionExit, PpTypeOK, SessionTypeOK
      <3> HIDE DEF w
      <3>3. [w EXCEPT !.disabled = TRUE, !.activeLink = FALSE] \in Wan
        BY <3>1 DEF Wan
      <3> QED BY <1>1, <3>2, <3>3 DEF PpTypeOK, SessionTypeOK
    <2> QED BY <1>1, <2>1 DEF TransitionExit, PpTypeOK, SessionTypeOK, Stage
  <1>3. /\ \A n \in Ifaces : wan'[n].activeLink => wan[n].activeLink
        /\ \A n \in Ifaces : wan[n].disabled => wan'[n].disabled
        /\ sm' = [sm EXCEPT ![t] = "EXIT"] /\ sm[t] = "DECONFIGURING_WAN"
    BY <1>1 DEF TransitionExit, PpTypeOK, SessionTypeOK, Wan
  <1>4. ASSUME PromptStart PROVE (Scanned /\ Reported /\ OneWorker)'
    <2>1. \A u \in Threads : u # t => sm[u] \in {"NONE", "EXIT"}
      BY <1>3, <1>4 DEF PpInv, OneWorker
    <2>2. \A u \in Threads : sm'[u] \in {"NONE", "EXIT"}
      BY <1>1, <1>3, <2>1 DEF PpTypeOK, SessionTypeOK
    <2>3. Scanned'
      BY <1>3, <1>4 DEF PpInv, Scanned
    <2> QED BY <2>2, <2>3 DEF Reported, OneWorker
  <1> QED BY <1>2, <1>3, <1>4, OthersKeep DEF PpInv

LEMMA ExitKeeps ==
    ASSUME PpInv, NEW t \in Threads, Exit(t), UNCHANGED <<config, pp>>
    PROVE  PpInv'
  <1>1. t[1] \in Ifaces /\ PpTypeOK
    BY DEF Threads, PpInv
  <1>2. PpTypeOK'
    BY <1>1 DEF Exit, PpTypeOK, SessionTypeOK, Wan, Stage
  <1>3. /\ \A n \in Ifaces : /\ wan'[n].activeLink = wan[n].activeLink
                             /\ wan'[n].disabled = wan[n].disabled
        /\ sm' = [sm EXCEPT ![t] = "NONE"]
    BY <1>1 DEF Exit, PpTypeOK, SessionTypeOK, Wan
  <1>4. ASSUME PromptStart PROVE (Scanned /\ Reported /\ OneWorker)'
    <2>1. \A u \in Threads : sm'[u] = IF u = t THEN "NONE" ELSE sm[u]
      BY <1>1, <1>3 DEF PpTypeOK, SessionTypeOK
    <2>2. \A u \in Threads : u[1] \in Ifaces
      BY DEF Threads
    <2> QED BY <1>3, <1>4, <2>1, <2>2 DEF PpInv, Scanned, Reported, OneWorker
  <1> QED BY <1>2, <1>3, <1>4, OthersKeep DEF PpInv

LEMMA ManagerKeeps ==
    ASSUME PpInv, NEW n \in Ifaces, Manager(n), UNCHANGED <<config, pp>>
    PROVE  PpInv'
  <1>1. PICK w \in Wan :
           /\ Write(n, w)
           /\ w.activeLink = wan[n].activeLink /\ w.disabled = wan[n].disabled
    <2> DEFINE i == wan[n]
    <2>1. i \in Wan
      BY DEF PpInv, PpTypeOK, SessionTypeOK
    <2> HIDE DEF i
    <2>2. /\ \A p \in {"UP", "DOWN"} :
               /\ [i EXCEPT !.phy = p] \in Wan
               /\ [i EXCEPT !.phy = p].activeLink = i.activeLink
               /\ [i EXCEPT !.phy = p].disabled = i.disabled
          /\ \A l \in {"UP", "DOWN"} :
               /\ [i EXCEPT !.link = l] \in Wan
               /\ [i EXCEPT !.link = l].activeLink = i.activeLink
               /\ [i EXCEPT !.link = l].disabled = i.disabled
          /\ [i EXCEPT !.named = TRUE] \in Wan
          /\ [i EXCEPT !.named = TRUE].activeLink = i.activeLink
          /\ [i EXCEPT !.named = TRUE].disabled = i.disabled
      BY <2>1 DEF Wan
    <2>3. \E w \in Wan :
            Write(n, w) /\ w.activeLink = i.activeLink /\ w.disabled = i.disabled
      BY <2>2 DEF Manager, SetPhyStatus, SetLinkStatus, VlanDown, SetWanName, i
    <2> QED BY <2>3 DEF i
  <1>2. PpTypeOK'
    BY <1>1 DEF Write, PpInv, PpTypeOK, SessionTypeOK
  <1>3. \A m \in Ifaces : /\ wan'[m].activeLink => wan[m].activeLink
                          /\ wan'[m].disabled = wan[m].disabled
    BY <1>1 DEF Write, PpInv, PpTypeOK, SessionTypeOK
  <1> QED BY <1>1, <1>2, <1>3, QuietKeeps DEF Write

LEMMA SettingKeeps ==
    ASSUME PpInv,
           \/ SetWanEnable /\ UNCHANGED <<config, pp>>
           \/ \E n \in Ifaces : SetEnable(n) \/ SetType(n) \/ SetPriority(n)
    PROVE  PpInv'
  <1>1. CASE SetWanEnable /\ UNCHANGED <<config, pp>>
    <2>1. PpTypeOK' /\ UNCHANGED <<pp, sm, wan>>
      BY <1>1 DEF SetWanEnable, PpInv, PpTypeOK, SessionTypeOK
    <2> QED BY <2>1, QuietKeeps
  <1>2. CASE \E n \in Ifaces : SetEnable(n) \/ SetType(n) \/ SetPriority(n)
    <2>1. PICK n \in Ifaces : SetEnable(n) \/ SetType(n) \/ SetPriority(n)
      BY <1>2
    <2> DEFINE c == config[n]
    <2>2. c \in Config
      BY DEF PpInv, PpTypeOK
    <2> HIDE DEF c
    <2>3. /\ \A b \in BOOLEAN : [c EXCEPT !.enable = b] \in Config
          /\ \A ty \in Types : [c EXCEPT !.type = ty] \in Config
          /\ \A d \in Configs : [c EXCEPT !.priority = d[n].priority] \in Config
      <3>1. \A d \in Configs : d[n].priority \in -1 .. PriorityMax
        BY TableAssumption DEF Config
      <3> QED BY <2>2, <3>1 DEF Config
    <2>4. \E d \in Config : SetConfig(n, d)
      BY <2>1, <2>3 DEF SetEnable, SetType, SetPriority, c
    <2>5. PpTypeOK' /\ UNCHANGED <<pp, sm, wan>>
      BY <2>4 DEF SetConfig, PpInv, PpTypeOK, SessionTypeOK, sessionVars
    <2> QED BY <2>5, QuietKeeps
  <1> QED BY <1>1, <1>2

-----------------------------------------------------------------------------
(***************************************************************************)
(* The policy.                                                             *)
(***************************************************************************)
LEMMA ReadConfigKeeps == PpInv /\ ReadConfig => PpInv'
  <1> SUFFICES ASSUME PpInv, ReadConfig PROVE PpInv'
    OBVIOUS
  <1> USE DEF PpInv, ReadConfig, sessionVars
  <1>1. PpTypeOK'
    BY DEF PpTypeOK, SessionTypeOK, Policies
  <1>2. /\ pp' = [pp EXCEPT !.enable = wanEnable, !.pc = "state"]
        /\ pp'.pc = "state" /\ pp'.active = pp.active /\ pp'.state = pp.state
    BY DEF PpTypeOK, Policies
  <1>3. (Hands /\ SingleActiveLink)'
    BY <1>2 DEF Hands, SingleActiveLink
  <1>4. PromptStart => (Scanned /\ Reported /\ OneWorker)'
    BY <1>2 DEF Scanned, Reported, OneWorker
  <1> QED BY <1>1, <1>3, <1>4

LEMMA WanDownKeeps == PpInv /\ WanDown => PpInv'
  <1> SUFFICES ASSUME PpInv, WanDown PROVE PpInv'
    OBVIOUS
  <1> USE DEF PpInv, WanDown, sessionVars
  <1>1. PpTypeOK'
    <2>1. 0 \in Ifaces
      BY TableAssumption
    <2>2. pp' \in Policies
      BY <2>1, Zenon DEF PpTypeOK, Policies
    <2> QED BY <2>2 DEF PpTypeOK, SessionTypeOK
  <1>2. /\ pp'.pc = "check" /\ pp'.next = 0
        /\ pp'.active = pp.active /\ pp'.state = pp.state
    BY DEF PpTypeOK, Policies
  <1>3. (Hands /\ SingleActiveLink)'
    BY <1>2 DEF Hands, SingleActiveLink
  <1>4. PromptStart => (Scanned /\ Reported /\ OneWorker)'
    BY <1>2, TableAssumption DEF Scanned, Reported, OneWorker
  <1> QED BY <1>1, <1>3, <1>4

\* When the scan ends with all interfaces down, each of them has been passed
\* and none has come up since.
LEMMA CheckIfaceKeeps == PpInv /\ CheckIface => PpInv'
  <1> SUFFICES ASSUME PpInv, CheckIface PROVE PpInv'
    OBVIOUS
  <1> DEFINE n == pp.next
             down == pp.allDown /\ wan[n].disabled
  <1>1. n \in Ifaces /\ down \in BOOLEAN
    BY DEF PpInv, PpTypeOK, Policies, SessionTypeOK, Wan
  <1>2. /\ pp'.pc = IF n < Last THEN "check"
                    ELSE IF down /\ pp.enable THEN "select" ELSE "config"
        /\ pp'.next = IF n = Last THEN 0 ELSE n + 1
        /\ pp'.active = pp.active /\ pp'.state = pp.state
        /\ pp.pc = "check" /\ UNCHANGED <<wan, sm>>
    BY DEF CheckIface, sessionVars, PpInv, PpTypeOK, Policies
  <1>3. PpTypeOK'
    <2>1. pp'.next \in Ifaces
      BY <1>1, <1>2, TableAssumption
    <2>2. pp' \in Policies
      BY <1>1, <2>1, NoChoiceType DEF CheckIface, PpInv, PpTypeOK, Policies
    <2> QED BY <2>2 DEF CheckIface, sessionVars, PpInv, PpTypeOK, SessionTypeOK
  <1>4. pp'.allDown = down
    BY DEF CheckIface, PpInv, PpTypeOK, Policies
  <1> HIDE DEF down
  <1>5. (Hands /\ SingleActiveLink)'
    BY <1>2 DEF PpInv, Hands, SingleActiveLink
  <1>6. ASSUME PromptStart PROVE (Scanned /\ Reported /\ OneWorker)'
    <2>1. ASSUME down PROVE \A m \in Ifaces : m =< n => wan[m].disabled
      BY <1>1, <1>2, <1>6, <2>1, TableAssumption DEF PpInv, Scanned, down
    <2>2. Scanned'
      BY <1>1, <1>2, <1>4, <2>1, TableAssumption DEF Scanned
    <2> QED BY <1>2, <1>6, <2>2 DEF PpInv, Reported, OneWorker
  <1> QED BY <1>3, <1>5, <1>6 DEF PpInv

LEMMA SelectIfaceKeeps == PpInv /\ SelectIface => PpInv'
  <1> SUFFICES ASSUME PpInv, SelectIface PROVE PpInv'
    OBVIOUS
  <1> DEFINE n == pp.next
             best == Consider(pp.best, n)
             role == IF best.primary.idx # None THEN "primary" ELSE "secondary"
             chosen == best[role].idx
  <1>1. n \in Ifaces /\ PpTypeOK
    BY DEF PpInv, PpTypeOK, Policies
  <1>2. best \in [{"primary", "secondary"} ->
                     [idx : Ifaces \cup {None}, priority : 0 .. PriorityMax]]
    BY <1>1, ConsiderType
  <1>3. /\ pp.pc = "select" /\ UNCHANGED <<sessionVars, config>>
        /\ pp' = IF n < Last
                 THEN [pp EXCEPT !.best = best, !.next = n + 1]
                 ELSE [pp EXCEPT !.best = best, !.next = 0, !.active = chosen,
                                 !.pc = IF chosen = None THEN "config"
                                                         ELSE "start"]
    BY DEF SelectIface
  <1> HIDE DEF best
  <1>4. role \in {"primary", "secondary"} /\ chosen \in Ifaces \cup {None}
    BY <1>2
  <1> HIDE DEF chosen, role
  <1>5. PpTypeOK'
    <2>1. pp \in Policies
      BY <1>1 DEF PpTypeOK
    <2>2. ASSUME n < Last PROVE pp' \in Policies
      <3>1. n + 1 \in Ifaces
        BY <1>1, <2>2, TableAssumption
      <3>2. pp' = [pp EXCEPT !.best = best, !.next = n + 1]
        BY <1>3, <2>2
      <3> HIDE DEF n
      <3> QED BY <1>2, <2>1, <3>1, <3>2, Zenon DEF Policies
    <2>3. ASSUME ~(n < Last) PROVE pp' \in Policies
      <3>1. 0 \in Ifaces
        BY TableAssumption
      <3> DEFINE pc == IF chosen = None THEN "config" ELSE "start"
      <3>2. pc \in {"config", "state", "check", "select", "start"}
        OBVIOUS
      <3>3. pp' = [pp EXCEPT !.best = best, !.next = 0, !.active = chosen,
                             !.pc = pc]
        BY <1>3, <2>3
      <3> HIDE DEF n, pc
      <3> QED BY <1>2, <1>4, <2>1, <3>1, <3>2, <3>3, Zenon DEF Policies
    <2>4. pp' \in Policies
      BY <2>2, <2>3
    <2> QED BY <1>1, <1>3, <2>4 DEF PpTypeOK, SessionTypeOK, sessionVars
  <1>6. /\ pp'.pc \in {"select", "start", "config"} /\ pp'.state = pp.state
        /\ pp'.pc = "start" => pp'.active \in Ifaces
        /\ pp'.pc \in {"select", "config"} => pp'.active \in {None, pp.active}
    BY <1>1, <1>3, <1>4 DEF PpTypeOK, Policies
  <1>7. (Hands /\ SingleActiveLink)'
    <2>1. pp.active = None /\ pp.state = "INTERFACE_DOWN"
      BY <1>3 DEF PpInv, Hands
    <2>2. \A m \in Ifaces : ~wan[m].activeLink
      BY <2>1, TableAssumption DEF PpInv, SingleActiveLink, None
    <2> QED BY <1>3, <1>6, <2>1, <2>2 DEF Hands, SingleActiveLink, sessionVars
  <1>8. PromptStart => (Scanned /\ Reported /\ OneWorker)'
    BY <1>3, <1>6 DEF PpInv, Scanned, Reported, OneWorker, sessionVars
  <1> QED BY <1>5, <1>7, <1>8 DEF PpInv

\* The new thread is the only one at work: all interfaces are at rest.
LEMMA InterfaceSelectedKeeps == PpInv /\ InterfaceSelected => PpInv'
  <1> SUFFICES ASSUME PpInv, InterfaceSelected PROVE PpInv'
    OBVIOUS
  <1> DEFINE n == pp.active
  <1>1. pp.pc = "start" /\ n \in Ifaces /\ PpTypeOK
    BY DEF PpInv, InterfaceSelected, Hands
  <1>2. PICK k \in Slots : /\ sm[<<n, k>>] = "NONE"
                           /\ sm' = [sm EXCEPT ![<<n, k>>] = "START"]
    BY DEF InterfaceSelected, CreateThread
  <1> DEFINE t == <<n, k>>
  <1>3. t \in Threads
    BY <1>1 DEF Threads
  <1>4. /\ pp'.pc = "config" /\ pp'.state # "INTERFACE_DOWN"
        /\ pp'.active = n
        /\ wan' = [wan EXCEPT ![n].activeLink = TRUE]
        /\ \A m \in Ifaces : wan'[m].disabled = wan[m].disabled
    BY <1>1 DEF InterfaceSelected, PpTypeOK, SessionTypeOK, Policies, Wan
  <1>5. PpTypeOK'
    <2>1. pp' \in Policies
      BY <1>1, NoChoiceType DEF InterfaceSelected, PpTypeOK, Policies, PpState
    <2>2. SessionTypeOK'
      BY <1>1, <1>2, <1>3 DEF InterfaceSelected, PpTypeOK, SessionTypeOK, Wan, Stage
    <2> QED BY <1>1, <2>1, <2>2 DEF InterfaceSelected, PpTypeOK
  <1>6. (Hands /\ SingleActiveLink)'
    <2>1. \A m \in Ifaces : m # n => wan'[m] = wan[m]
      BY <1>4, <1>1 DEF PpTypeOK, SessionTypeOK
    <2> QED BY <1>1, <1>4, <2>1 DEF PpInv, Hands, SingleActiveLink
  <1>7. ASSUME PromptStart PROVE (Scanned /\ Reported /\ OneWorker)'
    <2>1. \A u \in Threads : u[1] \in Ifaces /\ sm[u] \in Stage
      BY <1>1 DEF Threads, PpTypeOK, SessionTypeOK
    <2>2. \A u \in Threads : sm[u] \in {"NONE", "EXIT"}
      BY <1>1, <1>7, <2>1 DEF PpInv, Scanned, Reported, Stage
    <2>3. \A u \in Threads : sm'[u] = IF u = t THEN "START" ELSE sm[u]
      BY <1>1, <1>2, <1>3 DEF PpTypeOK, SessionTypeOK
    <2> HIDE DEF t
    <2> QED BY <1>4, <2>2, <2>3 DEF Scanned, Reported, OneWorker
  <1> QED BY <1>5, <1>6, <1>7 DEF PpInv

\* A round with an active interface keeps it or gives it up.
LEMMA ActiveKeeps == PpInv /\ (PrimaryWanActive \/ SecondaryWanActive) => PpInv'
  <1> SUFFICES ASSUME PpInv, pp.pc = "state", pp.state # "INTERFACE_DOWN",
                      Round \/ InterfaceDeSelected
               PROVE  PpInv'
    BY DEF PrimaryWanActive, SecondaryWanActive
  <1>1. PpTypeOK /\ pp.active \in Ifaces
    BY DEF PpInv, Hands
  <1>2. CASE Round
    <2>1. PpTypeOK'
      BY <1>1, <1>2 DEF Round, PpTypeOK, SessionTypeOK, Policies, sessionVars
    <2>2. /\ pp'.pc = "config" /\ pp'.state = pp.state
          /\ pp'.active = pp.active /\ UNCHANGED <<wan, sm>>
      BY <1>1, <1>2 DEF Round, PpTypeOK, Policies, sessionVars
    <2> QED BY <2>1, <2>2 DEF PpInv, Hands, SingleActiveLink, Scanned, Reported,
                              OneWorker
  <1>3. CASE InterfaceDeSelected
    <2>1. PpTypeOK'
      BY <1>1, <1>3 DEF InterfaceDeSelected, PpTypeOK, SessionTypeOK, Policies,
                        PpState, Wan
    <2>2. /\ pp'.pc = "config" /\ pp'.state = "INTERFACE_DOWN"
          /\ pp'.active = None /\ UNCHANGED sm
      BY <1>1, <1>3 DEF InterfaceDeSelected, PpTypeOK, Policies
    <2>3. \A m \in Ifaces :
             /\ wan'[m].activeLink => wan[m].activeLink /\ m # pp.active
             /\ wan'[m].disabled = wan[m].disabled
      BY <1>1, <1>3 DEF InterfaceDeSelected, PpTypeOK, SessionTypeOK, Wan
    <2>4. (Hands /\ SingleActiveLink)'
      BY <2>2, <2>3 DEF PpInv, Hands, SingleActiveLink
    <2>5. PromptStart => (Scanned /\ Reported /\ OneWorker)'
      BY <2>2, <2>3 DEF PpInv, Scanned, Reported, OneWorker, Threads
    <2> QED BY <2>1, <2>4, <2>5 DEF PpInv
  <1> QED BY <1>2, <1>3

-----------------------------------------------------------------------------
LEMMA PpInvNext == PpInv /\ [PpNext]_ppvars => PpInv'
  <1> SUFFICES ASSUME PpInv, [PpNext]_ppvars PROVE PpInv'
    OBVIOUS
  <1>1. CASE PolicyRound
    BY <1>1, ReadConfigKeeps, WanDownKeeps, CheckIfaceKeeps, SelectIfaceKeeps,
       InterfaceSelectedKeeps, ActiveKeeps DEF PolicyRound
  <1>2. CASE Others
    <2>1. ASSUME NEW t \in Threads, Thread(t), UNCHANGED <<config, pp>> PROVE PpInv'
      BY <2>1, TransitionStartKeeps, PhysicalInterfaceDownKeeps,
         TransitionExitKeeps, ExitKeeps DEF Thread
    <2> QED BY <1>2, <2>1, ManagerKeeps, SettingKeeps DEF Others
  <1>3. CASE \E n \in Ifaces : SetEnable(n) \/ SetType(n) \/ SetPriority(n)
    BY <1>3, SettingKeeps
  <1>4. CASE UNCHANGED ppvars
    BY <1>4 DEF ppvars, sessionVars, PpInv, PpTypeOK, SessionTypeOK, Hands,
       SingleActiveLink, Scanned, Reported, OneWorker, Threads
  <1> QED BY <1>1, <1>2, <1>3, <1>4 DEF PpNext

\* The invariant holds in every reachable state, for any table of interfaces
\* and any number of thread slots.
THEOREM PpInvariance == PpSpec => []PpInv
  BY PpInvInit, PpInvNext, PTL DEF PpSpec

\* No interface other than the selected one is ever marked active: of all
\* state machines at most those on that interface may bring it up.
THEOREM OnlySelectedActive == PpSpec => []SingleActiveLink
  <1>1. PpInv => SingleActiveLink
    BY DEF PpInv
  <1> QED BY <1>1, PpInvariance, PTL

\* When a thread always runs its first step before the next round of the
\* policy, no two threads are at work at once, on one interface or on two.
THEOREM OneThreadAtWork == ASSUME PromptStart PROVE PpSpec => []OneWorker
  <1>1. PpInv => OneWorker
    BY PromptStart DEF PpInv
  <1> QED BY <1>1, PpInvariance, PTL

-----------------------------------------------------------------------------
(***************************************************************************)
(* The selection, a recursive function of the index: LoopTheorems.         *)
(***************************************************************************)
Choice == [{"primary", "secondary"} ->
              [idx : Ifaces \cup {None}, priority : 0 .. PriorityMax]]

LEMMA AnyConsiderType ==
    ASSUME PpTypeOK, NEW n \in Ifaces, NEW best \in Choice
    PROVE  Consider(best, n) \in Choice
  <1>1. Role(n) \in {"primary", "secondary"}
    BY DEF Role
  <1>2. config[n].priority \in -1 .. PriorityMax
    BY DEF PpTypeOK, Config
  <1>3. CASE config[n].priority \in 0 .. best[Role(n)].priority - 1
    <2>1. [idx |-> n, priority |-> config[n].priority] \in
              [idx : Ifaces \cup {None}, priority : 0 .. PriorityMax]
      BY <1>1, <1>2, <1>3 DEF PriorityMax, Choice
    <2> QED BY <1>1, <1>3, <2>1 DEF Consider, Choice
  <1>4. CASE config[n].priority \notin 0 .. best[Role(n)].priority - 1
    BY <1>4 DEF Consider
  <1> QED BY <1>3, <1>4

LEMMA SelectionScans ==
    ASSUME PpTypeOK
    PROVE  \E g \in [None .. Last -> Choice] :
              /\ g[None] = NoChoice
              /\ \A n \in Ifaces : g[n] = Consider(g[n - 1], n)
              /\ pp.enable => SelectWANActive = g[Last]
  <1> DEFINE Scans(g) == g = [n \in None .. Last |->
                                 IF n = None THEN NoChoice
                                             ELSE Consider(g[n - 1], n)]
             b == CHOOSE g : Scans(g)
             step == [x \in Choice \X (0 .. Last) |-> Consider(x[1], x[2])]
  <1>1. Last \in Nat /\ Ifaces = 0 .. Last /\ None = -1 /\ NoChoice \in Choice
    BY TableAssumption, NoChoiceType DEF None, Choice
  <1>2. step \in [Choice \X (0 .. Last) -> Choice]
    BY <1>1, AnyConsiderType
  <1>3. \A r \in Choice, n \in 0 .. Last : step[<<r, n>>] = Consider(r, n)
    OBVIOUS
  <1> HIDE DEF step
  <1>4. PICK g : Results(g, Last, Choice, NoChoice, step)
    BY <1>1, <1>2, LoopResults
  <1>5. Scans(g)
    <2>1. \A n \in 0 .. Last : g[n] = Consider(g[n - 1], n)
      <3> SUFFICES ASSUME NEW n \in 0 .. Last
                   PROVE  g[n] = Consider(g[n - 1], n)
        OBVIOUS
      <3>1. g[n - 1] \in Choice
        BY <1>1, <1>4 DEF Results
      <3> QED BY <1>3, <1>4, <3>1 DEF Results
    <2> QED BY <1>1, <1>4, <2>1 DEF Results
  <1>6. Scans(b)
    BY <1>5
  <1>7. pp.enable => SelectWANActive = b[Last]
    BY DEF SelectWANActive
  <1> HIDE DEF b
  <1>8. /\ b[None] = NoChoice
        /\ \A n \in Ifaces : b[n] = Consider(b[n - 1], n)
        /\ b = [n \in None .. Last |-> b[n]]
    BY <1>1, <1>6
  <1> HIDE DEF Scans
  <1>9. \A n \in None .. Last : b[n] \in Choice
    <2> DEFINE T == {n \in 0 .. Last : b[n] \in Choice}
    <2>1. ASSUME NEW m \in 0 .. Last, m = 0 \/ m - 1 \in T PROVE m \in T
      <3>1. m \in Ifaces /\ b[m] = Consider(b[m - 1], m)
        BY <1>1, <1>8
      <3>2. b[m - 1] \in Choice
        BY <1>1, <1>8, <2>1
      <3> QED BY <3>1, <3>2, AnyConsiderType
    <2> HIDE DEF T
    <2>2. \A m \in 0 .. Last : m \in T
      BY <1>1, <2>1, IndexInduction
    <2> SUFFICES ASSUME NEW n \in None .. Last PROVE b[n] \in Choice
      OBVIOUS
    <2>3. n = None \/ n \in 0 .. Last
      BY <1>1
    <2> QED BY <1>1, <1>8, <2>2, <2>3 DEF T
  <1> QED BY <1>7, <1>8, <1>9

\* p is the best of the candidates of the role up to index k.
BestUpTo(p, role, k) ==
    \/ p = Nobody /\ \A n \in Candidates(role) : ~(n =< k)
    \/ /\ p.idx \in Candidates(role) /\ p.idx =< k
       /\ p.priority = config[p.idx].priority
       /\ \A n \in Candidates(role) \ {p.idx} : n =< k => Before(p.idx, n)

LEMMA BestNext ==
    ASSUME PpTypeOK, NEW n \in Ifaces, NEW best \in Choice,
           NEW role \in {"primary", "secondary"},
           BestUpTo(best[role], role, n - 1)
    PROVE  BestUpTo(Consider(best, n)[role], role, n)
  <1> DEFINE p == best[role]
             q == Consider(best, n)[role]
  <1>1. /\ \A m \in Ifaces : /\ m \in Nat /\ config[m].priority \in Int
                             /\ m =< n => m =< n - 1 \/ m = n
                             /\ m =< n - 1 => m =< n /\ m < n
        /\ n \in Nat /\ Candidates(role) \subseteq Ifaces
    BY TableAssumption DEF PpTypeOK, Config, Candidates
  <1>2. /\ p.priority \in 0 .. PriorityMax
        /\ p = Nobody => p.priority = PriorityMax
    BY DEF Choice, Nobody
  <1>3. CASE n \in Candidates(role) /\ config[n].priority < p.priority
    <2>1. /\ Role(n) = role /\ config[n].enable /\ wan[n].phy = "UP"
          /\ config[n].priority \in 0 .. PriorityMax - 1
      BY <1>3, Zenon DEF Candidates
    <2>2. config[n].priority \in 0 .. best[Role(n)].priority - 1
      <3> DEFINE b == best[Role(n)].priority
      <3>1. b \in Int /\ config[n].priority < b
        BY <1>2, <1>3, <2>1
      <3>2. config[n].priority \in Int /\ 0 =< config[n].priority
        BY <2>1 DEF PriorityMax
      <3> HIDE DEF b
      <3>3. config[n].priority \in 0 .. b - 1
        BY <3>1, <3>2
      <3> QED BY <3>3 DEF b
    <2>3. q = [idx |-> n, priority |-> config[n].priority]
      BY <2>1, <2>2 DEF Consider, Choice
    <2>4. \A m \in Candidates(role) \ {n} : m =< n => Before(n, m)
      <3> SUFFICES ASSUME NEW m \in Candidates(role), m =< n - 1
                   PROVE  config[n].priority < config[m].priority
        BY <1>1 DEF Before
      <3>1. p.idx \in Candidates(role) /\ p.priority = config[p.idx].priority
        BY DEF BestUpTo
      <3>2. m = p.idx \/ Before(p.idx, m)
        BY DEF BestUpTo
      <3>3. /\ config[p.idx].priority \in Int /\ config[m].priority \in Int
            /\ config[n].priority \in Int
        BY <1>1, <3>1
      <3>4. \/ config[p.idx].priority < config[m].priority
            \/ config[p.idx].priority = config[m].priority
        BY <3>2, Zenon DEF Before
      <3>5. config[n].priority < config[p.idx].priority
        BY <1>3, <3>1
      <3> HIDE DEF p
      <3> QED BY <3>3, <3>4, <3>5
    <2> QED BY <1>1, <1>3, <2>3, <2>4 DEF BestUpTo
  <1>4. CASE ~(n \in Candidates(role) /\ config[n].priority < p.priority)
    <2>1. q = p
      <3>1. CASE Role(n) # role
        BY <3>1 DEF Consider, Choice
      <3>2. CASE Role(n) = role /\ config[n].enable /\ wan[n].phy = "UP"
        <4>1. config[n].priority \notin 0 .. best[Role(n)].priority - 1
          <5>1. config[n].priority \in -1 .. PriorityMax
            BY DEF PpTypeOK, Config
          <5>2. ~(/\ config[n].priority \in 0 .. PriorityMax - 1
                  /\ config[n].priority < best[Role(n)].priority)
            BY <1>4, <3>2, Zenon DEF Candidates
          <5>3. best[Role(n)].priority \in 0 .. PriorityMax
            BY <1>2, <3>2
          <5> QED BY <5>1, <5>2, <5>3 DEF PriorityMax
        <4> QED BY <3>2, <4>1 DEF Consider
      <3>3. CASE ~(config[n].enable /\ wan[n].phy = "UP")
        BY <3>3 DEF Consider
      <3> QED BY <3>1, <3>2, <3>3
    <2>2. CASE p = Nobody /\ \A m \in Candidates(role) : ~(m =< n - 1)
      <3>1. n \notin Candidates(role)
        <4> SUFFICES ASSUME n \in Candidates(role) PROVE FALSE
          OBVIOUS
        <4>1. config[n].priority \in 0 .. PriorityMax - 1
          BY Zenon DEF Candidates
        <4>2. config[n].priority < PriorityMax
          BY <4>1 DEF PriorityMax
        <4> QED BY <1>2, <1>4, <2>2, <4>2
      <3> QED BY <1>1, <2>1, <2>2, <3>1 DEF BestUpTo
    <2>3. CASE /\ p.idx \in Candidates(role) /\ p.idx =< n - 1
               /\ p.priority = config[p.idx].priority
               /\ \A m \in Candidates(role) \ {p.idx} :
                     m =< n - 1 => Before(p.idx, m)
      <3>1. n \in Candidates(role) => Before(p.idx, n)
        <4>1. p.idx < n
          BY <1>1, <2>3
        <4> SUFFICES ASSUME n \in Candidates(role) PROVE Before(p.idx, n)
          OBVIOUS
        <4>2. ~(config[n].priority < config[p.idx].priority)
          BY <1>4, <2>3
        <4>3. config[n].priority \in Int /\ config[p.idx].priority \in Int
          BY <1>1, <2>3
        <4> HIDE DEF p
        <4> QED BY <4>1, <4>2, <4>3 DEF Before
      <3> QED BY <1>1, <2>1, <2>3, <3>1 DEF BestUpTo
    <2> QED BY <2>2, <2>3 DEF BestUpTo
  <1> QED BY <1>3, <1>4

LEMMA SelectionIsBest == PpTypeOK => ChoosesBest
  <1> SUFFICES ASSUME PpTypeOK, pp.enable,
                      NEW role \in {"primary", "secondary"}
               PROVE  LET n == SelectWANActive[role].idx
                      IN  IF n = None THEN Candidates(role) = {}
                                      ELSE IsBest(n, role)
    BY DEF ChoosesBest
  <1>1. PICK g \in [None .. Last -> Choice] :
           /\ g[None] = NoChoice
           /\ \A n \in Ifaces : g[n] = Consider(g[n - 1], n)
           /\ SelectWANActive = g[Last]
    BY SelectionScans
  <1>2. BestUpTo(g[None][role], role, None)
    BY <1>1, TableAssumption DEF NoChoice, BestUpTo, None, Candidates
  <1>3. \A k \in Ifaces : BestUpTo(g[k][role], role, k)
    <2> DEFINE T == {k \in 0 .. Last : BestUpTo(g[k][role], role, k)}
    <2>1. ASSUME NEW m \in 0 .. Last, m = 0 \/ m - 1 \in T PROVE m \in T
      <3>1. g[m - 1] \in Choice /\ BestUpTo(g[m - 1][role], role, m - 1)
        BY <1>1, <1>2, <2>1, TableAssumption DEF None
      <3> QED BY <1>1, <3>1, BestNext, TableAssumption
    <2> HIDE DEF T
    <2>2. \A m \in 0 .. Last : m \in T
      BY <2>1, IndexInduction, TableAssumption
    <2> QED BY <2>2, TableAssumption DEF T
  <1>4. Last \in Ifaces /\ \A n \in Candidates(role) : n \in Ifaces /\ n =< Last
    BY TableAssumption DEF Candidates
  <1>5. BestUpTo(g[Last][role], role, Last)
    BY <1>3, <1>4
  <1>6. None \notin Ifaces /\ Nobody.idx = None
    BY TableAssumption DEF None, Nobody
  <1> QED BY <1>1, <1>4, <1>5, <1>6 DEF BestUpTo, IsBest

\* The policy finds the best interface of each role in a table of any size.
THEOREM AlwaysChoosesBest == PpSpec => []ChoosesBest
  <1>1. PpInv => ChoosesBest
    BY SelectionIsBest DEF PpInv
  <1> QED BY <1>1, PpInvariance, PTL

\* A round of the policy does no more than WanSession lets a policy do.
LEMMA RoundIsAnyPolicy ==
    ASSUME PpInv, PolicyRound
    PROVE  SessionNext \/ UNCHANGED sessionVars
  <1>1. CASE ReadConfig \/ WanDown \/ CheckIface \/ SelectIface
    BY <1>1 DEF ReadConfig, WanDown, CheckIface, SelectIface
  <1>2. CASE InterfaceSelected
    <2>1. pp.active \in Ifaces
      BY <1>2 DEF InterfaceSelected, PpInv, Hands
    <2>2. AnyPolicy(pp.active)
      BY <1>2 DEF InterfaceSelected, AnyPolicy
    <2> QED BY <2>1, <2>2 DEF SessionNext
  <1>3. CASE InterfaceDeSelected /\ pp.state # "INTERFACE_DOWN"
    <2>1. pp.active \in Ifaces
      BY <1>3 DEF PpInv, Hands
    <2>2. AnyPolicy(pp.active)
      BY <1>3 DEF InterfaceDeSelected, AnyPolicy
    <2> QED BY <2>1, <2>2 DEF SessionNext
  <1>4. CASE Round
    BY <1>4 DEF Round
  <1>5. CASE PrimaryWanActive \/ SecondaryWanActive
    BY <1>3, <1>4, <1>5 DEF PrimaryWanActive, SecondaryWanActive
  <1> QED BY <1>1, <1>2, <1>5 DEF PolicyRound

\* The policy and the operator are an environment WanSession allows: what
\* InterfaceSM implements is what this policy relies on.
THEOREM PolicyKeepsSessions == PpSpec => SessionSpec
  <1>1. PpInit => SessionInit
    BY DEF PpInit
  <1>2. PpInv /\ [PpNext]_ppvars => [SessionNext]_sessionVars
    <2> SUFFICES ASSUME PpInv, [PpNext]_ppvars
                 PROVE  SessionNext \/ UNCHANGED sessionVars
      OBVIOUS
    <2>1. CASE Others
      BY <2>1 DEF Others, SessionNext
    <2>2. CASE \E n \in Ifaces : SetEnable(n) \/ SetType(n) \/ SetPriority(n)
      BY <2>2 DEF SetEnable, SetType, SetPriority, SetConfig
    <2>3. CASE UNCHANGED ppvars
      BY <2>3 DEF ppvars
    <2> QED BY RoundIsAnyPolicy, <2>1, <2>2, <2>3 DEF PpNext
  <1> QED BY <1>1, <1>2, PpInvariance, PTL DEF PpSpec, SessionSpec

=============================================================================
