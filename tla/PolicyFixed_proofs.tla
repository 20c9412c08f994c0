-------------------------- MODULE PolicyFixed_proofs --------------------------
(***************************************************************************)
(* For every table of interfaces and every number of thread slots, the     *)
(* fixed-mode policies and primary priority on bootup start their threads  *)
(* on one interface and one at a time, until fixed mode changes it.        *)
(*                                                                         *)
(* FixedInv needs no count of the threads: those that are left are on the  *)
(* active interface (OnActive), one at work keeps that interface from      *)
(* reporting DISABLED (Reported), and each state that starts a thread has  *)
(* read the report with the table locked.                                  *)
(*                                                                         *)
(* The scan of the locked table, Selected, is a recursive function of the  *)
(* index; LoopTheorems says what such a function computes.                 *)
(*                                                                         *)
(* At the end: the two modes on bootup do no more than WanSession lets a   *)
(* policy do.  Fixed mode does more when it gives up its interface.        *)
(***************************************************************************)
EXTENDS PolicyFixed, LoopTheorems, TLAPS

-----------------------------------------------------------------------------
(***************************************************************************)
(* Selection.                                                              *)
(***************************************************************************)
Choice == [{"primary", "secondary"} ->
              [idx : Ifaces \cup {None}, priority : 0 .. PriorityMax]]

LEMMA NoChoiceType == NoChoice \in Choice
  BY DEF NoChoice, Nobody, PriorityMax, Choice

\* What one round of a scan makes of the choice so far.
LEMMA ConsiderType ==
    ASSUME FixedTypeOK, NEW n \in Ifaces, NEW best \in Choice
    PROVE  Consider(best, n) \in Choice
  <1>1. Role(n) \in {"primary", "secondary"}
    BY DEF Role
  <1>2. config[n].priority \in -1 .. PriorityMax
    BY DEF FixedTypeOK, Config
  <1>3. Better(best, n) \in Choice
    <2>1. CASE config[n].priority \in 0 .. best[Role(n)].priority - 1
      <3>1. [idx |-> n, priority |-> config[n].priority] \in
                [idx : Ifaces \cup {None}, priority : 0 .. PriorityMax]
        BY <1>1, <1>2, <2>1 DEF PriorityMax, Choice
      <3> QED BY <1>1, <2>1, <3>1 DEF Better, Choice
    <2>2. CASE config[n].priority \notin 0 .. best[Role(n)].priority - 1
      BY <2>2 DEF Better
    <2> QED BY <2>1, <2>2
  <1>4. policy \in Policy
    BY FixedAssumption DEF FixedTypeOK
  <1> QED BY <1>3, <1>4 DEF Consider, ConsiderFixed, ConsiderFixedOnBootup,
                            ConsiderPrimary, Policy

\* Selected is read off a function that makes one round of the loop at each
\* index.
LEMMA SelectedScans ==
    ASSUME FixedTypeOK
    PROVE  \E g \in [None .. Last -> Choice] :
              /\ g[None] = NoChoice
              /\ \A n \in Ifaces : g[n] = Consider(g[n - 1], n)
              /\ Selected = g[Last].primary.idx
  <1> DEFINE Scans(g) == g = [n \in None .. Last |->
                                 IF n = None THEN NoChoice
                                             ELSE Consider(g[n - 1], n)]
             b == CHOOSE g : Scans(g)
             step == [x \in Choice \X (0 .. Last) |-> Consider(x[1], x[2])]
  <1>1. Last \in Nat /\ Ifaces = 0 .. Last /\ None = -1
    BY FixedAssumption DEF None
  <1>2. step \in [Choice \X (0 .. Last) -> Choice]
    BY <1>1, ConsiderType
  <1>3. \A r \in Choice, n \in 0 .. Last : step[<<r, n>>] = Consider(r, n)
    OBVIOUS
  <1> HIDE DEF step
  <1>4. PICK g : Results(g, Last, Choice, NoChoice, step)
    BY <1>1, <1>2, NoChoiceType, LoopResults
  <1>5. Scans(g)
    <2>1. \A n \in 0 .. Last : g[n] = Consider(g[n - 1], n)
      <3> SUFFICES ASSUME NEW n \in 0 .. Last
                   PROVE  g[n] = Consider(g[n - 1], n)
        OBVIOUS
      <3>1. g[n - 1] \in Choice
        BY <1>1, <1>4 DEF Results
      <3> QED BY <1>3, <1>4, <3>1 DEF Results
    <2> QED BY <1>1, <1>4, <2>1 DEF Results
  <1>6. Scans(b)
    BY <1>5
  <1>7. Selected = b[Last].primary.idx
    BY DEF Selected
  <1> HIDE DEF b
  <1>8. /\ b[None] = NoChoice
        /\ \A n \in Ifaces : b[n] = Consider(b[n - 1], n)
        /\ b = [n \in None .. Last |-> b[n]]
    BY <1>1, <1>6
  <1> HIDE DEF Scans
  <1>9. \A n \in None .. Last : b[n] \in Choice
    <2> DEFINE T == {n \in 0 .. Last : b[n] \in Choice}
    <2>1. ASSUME NEW m \in 0 .. Last, m = 0 \/ m - 1 \in T PROVE m \in T
      <3>1. m \in Ifaces /\ b[m] = Consider(b[m - 1], m)
        BY <1>1, <1>8
      <3>2. b[m - 1] \in Choice
        BY <1>1, <1>8, <2>1, NoChoiceType
      <3> QED BY <3>1, <3>2, ConsiderType
    <2> HIDE DEF T
    <2>2. \A m \in 0 .. Last : m \in T
      BY <1>1, <2>1, IndexInduction
    <2> SUFFICES ASSUME NEW n \in None .. Last PROVE b[n] \in Choice
      OBVIOUS
    <2>3. n = None \/ n \in 0 .. Last
      BY <1>1
    <2> QED BY <1>8, <2>2, <2>3, NoChoiceType DEF T
  <1> QED BY <1>7, <1>8, <1>9

LEMMA SelectedType == FixedTypeOK => Selected \in Ifaces \cup {None}
  <1> SUFFICES ASSUME FixedTypeOK PROVE Selected \in Ifaces \cup {None}
    OBVIOUS
  <1>1. PICK g \in [None .. Last -> Choice] : Selected = g[Last].primary.idx
    BY SelectedScans
  <1>2. g[Last] \in Choice
    BY <1>1, FixedAssumption DEF None
  <1> QED BY <1>1, <1>2 DEF Choice

\* What the fixed modes look for: an enabled interface of type PRIMARY with a
\* priority below the largest one.
Candidate(n) ==
    /\ config[n].enable /\ config[n].type = "PRIMARY"
    /\ config[n].priority \in 0 .. PriorityMax - 1

Before(n, m) ==
    \/ config[n].priority < config[m].priority
    \/ config[n].priority = config[m].priority /\ n =< m

\* p is the first of the candidates up to index k.
FirstUpTo(p, k) ==
    \/ p = Nobody /\ \A n \in Ifaces : n =< k => ~Candidate(n)
    \/ /\ p.idx \in Ifaces /\ p.idx =< k /\ Candidate(p.idx)
       /\ p.priority = config[p.idx].priority
       /\ \A n \in Ifaces : n =< k /\ Candidate(n) => Before(p.idx, n)

LEMMA FirstNext ==
    ASSUME FixedTypeOK, policy \in Fixed, NEW n \in Ifaces, NEW best \in Choice,
           FirstUpTo(best.primary, n - 1)
    PROVE  FirstUpTo(Consider(best, n).primary, n)
  <1> DEFINE p == best.primary
             q == Consider(best, n).primary
  <1>1. /\ \A m \in Ifaces : /\ m \in Nat /\ config[m].priority \in Int
                             /\ (m =< n <=> m =< n - 1 \/ m = n)
        /\ n \in Nat
    BY FixedAssumption DEF FixedTypeOK, Config
  <1>2. /\ p.priority \in 0 .. PriorityMax
        /\ p = Nobody => p.priority = PriorityMax
    BY DEF Choice, Nobody
  <1>3. CASE Candidate(n) /\ config[n].priority < p.priority
    <2>1. Role(n) = "primary"
      BY <1>3 DEF Candidate, Role
    <2>2. config[n].priority \in 0 .. best[Role(n)].priority - 1
      <3>1. config[n].priority \in 0 .. PriorityMax - 1
        BY <1>3, Zenon DEF Candidate
      <3>2. best[Role(n)].priority = p.priority
        BY <2>1
      <3>3. config[n].priority < best[Role(n)].priority
        BY <1>3, <3>2
      <3>4. best[Role(n)].priority \in 0 .. PriorityMax
        BY <1>2, <3>2
      <3> DEFINE b == best[Role(n)].priority
      <3>5. b \in Int /\ config[n].priority < b
        BY <3>3, <3>4
      <3>6. config[n].priority \in Int /\ 0 =< config[n].priority
        BY <3>1 DEF PriorityMax
      <3> HIDE DEF b
      <3>7. config[n].priority \in 0 .. b - 1
        BY <3>5, <3>6
      <3> QED BY <3>7 DEF b
    <2>3. q = [idx |-> n, priority |-> config[n].priority]
      <3>1. Better(best, n) = [best EXCEPT !["primary"] =
                                  [idx |-> n, priority |-> config[n].priority]]
        BY <2>1, <2>2 DEF Better
      <3>2. Consider(best, n) = Better(best, n)
        BY <1>3 DEF Consider, ConsiderFixed, ConsiderFixedOnBootup, Fixed, Candidate
      <3> QED BY <3>1, <3>2 DEF Choice
    <2>4. \A m \in Ifaces : m =< n /\ Candidate(m) => Before(n, m)
      <3> SUFFICES ASSUME NEW m \in Ifaces, m =< n - 1, Candidate(m)
                   PROVE  config[n].priority < config[m].priority
        BY <1>1 DEF Before
      <3>1. /\ p.idx \in Ifaces /\ p.priority = config[p.idx].priority
            /\ Before(p.idx, m)
        BY DEF FirstUpTo
      <3>2. config[p.idx].priority =< config[m].priority
        <4>1. \/ config[p.idx].priority < config[m].priority
              \/ config[p.idx].priority = config[m].priority
          BY <3>1, Zenon DEF Before
        <4>2. config[p.idx].priority \in Int /\ config[m].priority \in Int
          BY <1>1, <3>1
        <4> QED BY <4>1, <4>2
      <3>3. /\ config[p.idx].priority \in Int /\ config[m].priority \in Int
            /\ config[n].priority \in Int
        BY <1>1, <3>1
      <3>4. config[n].priority < config[p.idx].priority
        BY <1>3, <3>1
      <3> HIDE DEF p
      <3> QED BY <3>2, <3>3, <3>4
    <2> QED BY <1>1, <1>3, <2>3, <2>4 DEF FirstUpTo
  <1>4. CASE ~(Candidate(n) /\ config[n].priority < p.priority)
    <2>1. q = p
      <3>1. CASE config[n].enable /\ config[n].type = "PRIMARY"
        <4>1. Role(n) = "primary"
          BY <3>1 DEF Role
        <4>2. config[n].priority \notin 0 .. best[Role(n)].priority - 1
          <5>1. config[n].priority \in -1 .. PriorityMax
            BY DEF FixedTypeOK, Config
          <5>2. ~(/\ config[n].priority \in 0 .. PriorityMax - 1
                  /\ config[n].priority < best.primary.priority)
            BY <1>4, <3>1, Zenon DEF Candidate
          <5>3. best.primary.priority \in 0 .. PriorityMax
            BY <1>2
          <5>4. best[Role(n)].priority = best.primary.priority
            BY <4>1
          <5> QED BY <5>1, <5>2, <5>3, <5>4 DEF PriorityMax
        <4> QED BY <3>1, <4>2 DEF Consider, ConsiderFixed,
                                  ConsiderFixedOnBootup, Better, Fixed
      <3>2. CASE ~(config[n].enable /\ config[n].type = "PRIMARY")
        BY <3>2 DEF Consider, ConsiderFixed, ConsiderFixedOnBootup, Fixed
      <3> QED BY <3>1, <3>2
    <2>2. CASE p = Nobody /\ \A m \in Ifaces : m =< n - 1 => ~Candidate(m)
      <3>1. ~Candidate(n)
        <4>1. SUFFICES ASSUME Candidate(n) PROVE FALSE
          OBVIOUS
        <4>2. config[n].priority \in 0 .. PriorityMax - 1
          BY <4>1, Zenon DEF Candidate
        <4>3. p.priority = PriorityMax
          BY <1>2, <2>2
        <4>4. config[n].priority < p.priority
          BY <4>2, <4>3 DEF PriorityMax
        <4> QED BY <1>4, <4>1, <4>4
      <3> QED BY <1>1, <2>1, <2>2, <3>1 DEF FirstUpTo
    <2>3. CASE /\ p.idx \in Ifaces /\ p.idx =< n - 1 /\ Candidate(p.idx)
               /\ p.priority = config[p.idx].priority
               /\ \A m \in Ifaces : m =< n - 1 /\ Candidate(m)
                                       => Before(p.idx, m)
      <3>1. Candidate(n) => Before(p.idx, n)
        <4>1. SUFFICES ASSUME Candidate(n) PROVE Before(p.idx, n)
          OBVIOUS
        <4>2. ~(config[n].priority < config[p.idx].priority)
          BY <1>4, <2>3, <4>1
        <4>3. p.idx =< n
          BY <1>1, <2>3
        <4>4. config[n].priority \in Int /\ config[p.idx].priority \in Int
          BY <1>1, <2>3, Zenon
        <4>5. \/ config[p.idx].priority < config[n].priority
              \/ config[p.idx].priority = config[n].priority
          BY <4>2, <4>4
        <4> QED BY <4>3, <4>5, Zenon DEF Before
      <3> QED BY <1>1, <2>1, <2>3, <3>1 DEF FirstUpTo
    <2> QED BY <2>2, <2>3 DEF FirstUpTo
  <1> QED BY <1>3, <1>4

\* In the fixed modes the scan finds the enabled interface of type PRIMARY
\* with the lowest priority value, of equal ones the first of the table, and
\* nothing exactly if there is none: for a table of any size.
THEOREM SelectsFirst ==
    ASSUME FixedTypeOK, policy \in Fixed
    PROVE  /\ Selected = None => \A n \in Ifaces : ~Candidate(n)
           /\ Selected # None =>
                 /\ Selected \in Ifaces /\ Candidate(Selected)
                 /\ \A n \in Ifaces : Candidate(n) => Before(Selected, n)
  <1>1. PICK g \in [None .. Last -> Choice] :
           /\ g[None] = NoChoice
           /\ \A n \in Ifaces : g[n] = Consider(g[n - 1], n)
           /\ Selected = g[Last].primary.idx
    BY SelectedScans
  <1>2. FirstUpTo(g[None].primary, None)
    BY <1>1, FixedAssumption DEF NoChoice, FirstUpTo, None
  <1>3. \A k \in Ifaces : FirstUpTo(g[k].primary, k)
    <2> DEFINE T == {k \in 0 .. Last : FirstUpTo(g[k].primary, k)}
    <2>1. ASSUME NEW m \in 0 .. Last, m = 0 \/ m - 1 \in T PROVE m \in T
      <3>1. g[m - 1] \in Choice /\ FirstUpTo(g[m - 1].primary, m - 1)
        BY <1>1, <1>2, <2>1, FixedAssumption DEF None
      <3> QED BY <1>1, <3>1, FirstNext, FixedAssumption
    <2> HIDE DEF T
    <2>2. \A m \in 0 .. Last : m \in T
      BY <2>1, IndexInduction, FixedAssumption
    <2> QED BY <2>2, FixedAssumption DEF T
  <1>4. Last \in Ifaces /\ \A n \in Ifaces : n =< Last
    BY FixedAssumption
  <1>5. FirstUpTo(g[Last].primary, Last)
    BY <1>3, <1>4
  <1>6. None \notin Ifaces /\ Nobody.idx = None
    BY FixedAssumption DEF None, Nobody
  <1> QED BY <1>1, <1>4, <1>5, <1>6 DEF FirstUpTo

-----------------------------------------------------------------------------
(***************************************************************************)
(* The invariant: the start, and the threads and the managers.             *)
(***************************************************************************)
\* The table is loaded idle and no policy has chosen anything.
LEMMA FixedInvInit == FixedInit => FixedInv
  <1> SUFFICES ASSUME FixedInit PROVE FixedInv
    OBVIOUS
  <1>1. FixedTypeOK
    <2>1. SessionTypeOK
      BY DEF FixedInit, SessionInit, SessionTypeOK, Wan, Stage
    <2>2. config \in [Ifaces -> Config] /\ policy \in Modes /\ changed \in BOOLEAN
      BY FixedAssumption DEF FixedInit
    <2>3. ctl \in Controller
      BY FixedAssumption, NoChoiceType DEF FixedInit, Controller, Choice
    <2> QED BY <2>1, <2>2, <2>3 DEF FixedTypeOK
  <1>2. Hands /\ OnActive
    BY DEF FixedInit, SessionInit, Hands, OnActive
  <1>3. Reported /\ OneWorkerUntilChanged
    BY DEF FixedInit, SessionInit, Reported, OneWorkerUntilChanged, AtWork
  <1> QED BY <1>1, <1>2, <1>3 DEF FixedInv, FixedInit

\* What all the steps share that leave the policy alone and create no thread.
LEMMA OthersKeep ==
    ASSUME FixedInv, UNCHANGED <<ctl, policy, changed>>, FixedTypeOK',
           \A t \in Threads : sm'[t] # "NONE" => sm[t] # "NONE"
    PROVE  (/\ Hands /\ (~changed => OnActive)
            /\ (policy # "FIXED_MODE" => ~changed))'
  BY DEF FixedInv, Hands, OnActive

\* A manager changes no thread and no interface's report.
LEMMA QuietKeeps ==
    ASSUME FixedInv, UNCHANGED <<ctl, policy, changed, sm>>, FixedTypeOK',
           \A n \in Ifaces : wan'[n].disabled = wan[n].disabled
    PROVE  FixedInv'
  <1>1. ASSUME PromptStart, ~changed PROVE (Reported /\ OneWorkerUntilChanged)'
    BY <1>1 DEF FixedInv, Reported, OneWorkerUntilChanged, AtWork, Threads
  <1> QED BY <1>1, OthersKeep DEF FixedInv

LEMMA TransitionStartKeeps ==
    ASSUME FixedInv, NEW t \in Threads, TransitionStart(t),
           UNCHANGED <<sysvars, ctl>>
    PROVE  FixedInv'
  <1> USE DEF sysvars
  <1>1. t[1] \in Ifaces /\ FixedTypeOK
    BY DEF Threads, FixedInv
  <1>2. FixedTypeOK'
    BY <1>1 DEF TransitionStart, FixedTypeOK, SessionTypeOK, Wan, Stage
  <1>3. /\ ~wan'[t[1]].disabled
        /\ \A n \in Ifaces : wan'[n].disabled => wan[n].disabled
        /\ sm[t] = "START"
        /\ \A u \in Threads : sm'[u] = IF u = t THEN "RUN" ELSE sm[u]
    BY <1>1 DEF TransitionStart, FixedTypeOK, SessionTypeOK, Wan
  <1>4. ASSUME PromptStart, ~changed PROVE (Reported /\ OneWorkerUntilChanged)'
    <2>1. \A u \in Threads : u[1] \in Ifaces
      BY DEF Threads
    <2> QED BY <1>3, <1>4, <2>1
            DEF FixedInv, Reported, OneWorkerUntilChanged, AtWork
  <1> QED BY <1>2, <1>3, <1>4, OthersKeep DEF FixedInv

LEMMA PhysicalInterfaceDownKeeps ==
    ASSUME FixedInv, NEW t \in Threads, PhysicalInterfaceDown(t),
           UNCHANGED <<sysvars, ctl>>
    PROVE  FixedInv'
  <1> USE DEF sysvars
  <1>1. t[1] \in Ifaces /\ FixedTypeOK
    BY DEF Threads, FixedInv
  <1>2. FixedTypeOK'
    BY <1>1 DEF PhysicalInterfaceDown, FixedTypeOK, SessionTypeOK, Stage
  <1>3. /\ UNCHANGED wan /\ sm[t] = "RUN"
        /\ \A u \in Threads :
              sm'[u] = IF u = t THEN "DECONFIGURING_WAN" ELSE sm[u]
    BY <1>1 DEF PhysicalInterfaceDown, FixedTypeOK, SessionTypeOK
  <1>4. ASSUME PromptStart, ~changed PROVE (Reported /\ OneWorkerUntilChanged)'
    BY <1>3, <1>4 DEF FixedInv, Reported, OneWorkerUntilChanged, AtWork
  <1> QED BY <1>2, <1>3, <1>4, OthersKeep DEF FixedInv

\* The thread that reports its interface free is the only one at work, so
\* that no other loses its report.
LEMMA TransitionExitKeeps ==
    ASSUME FixedInv, NEW t \in Threads, TransitionExit(t),
           UNCHANGED <<sysvars, ctl>>
    PROVE  FixedInv'
  <1> USE DEF sysvars
  <1>1. t[1] \in Ifaces /\ FixedTypeOK
    BY DEF Threads, FixedInv
  <1>2. FixedTypeOK'
    <2>1. wan' \in [Ifaces -> Wan]
      <3> DEFINE w == wan[t[1]]
      <3>1. w \in Wan
        BY <1>1 DEF FixedTypeOK, SessionTypeOK
      <3>2. wan' = [wan EXCEPT ![t[1]] = [w EXCEPT !.disabled = TRUE,
                                                  !.activeLink = FALSE]]
        BY <1>1 DEF TransitionExit, FixedTypeOK, SessionTypeOK
      <3> HIDE DEF w
      <3>3. [w EXCEPT !.disabled = TRUE, !.activeLink = FALSE] \in Wan
        BY <3>1 DEF Wan
      <3> QED BY <1>1, <3>2, <3>3 DEF FixedTypeOK, SessionTypeOK
    <2> QED BY <1>1, <2>1 DEF TransitionExit, FixedTypeOK, SessionTypeOK, Stage
  <1>3. /\ sm[t] = "DECONFIGURING_WAN"
        /\ \A u \in Threads : sm'[u] = IF u = t THEN "EXIT" ELSE sm[u]
    BY <1>1 DEF TransitionExit, FixedTypeOK, SessionTypeOK
  <1>4. ASSUME PromptStart, ~changed PROVE (Reported /\ OneWorkerUntilChanged)'
    <2>1. \A u \in Threads : u # t => sm[u] \in {"NONE", "EXIT"}
      BY <1>3, <1>4 DEF FixedInv, OneWorkerUntilChanged, AtWork
    <2>2. \A u \in Threads : sm'[u] \in {"NONE", "EXIT"}
      BY <1>3, <2>1
    <2> QED BY <2>2 DEF Reported, OneWorkerUntilChanged, AtWork
  <1> QED BY <1>2, <1>3, <1>4, OthersKeep DEF FixedInv

LEMMA ExitKeeps ==
    ASSUME FixedInv, NEW t \in Threads, Exit(t), UNCHANGED <<sysvars, ctl>>
    PROVE  FixedInv'
  <1> USE DEF sysvars
  <1>1. t[1] \in Ifaces /\ FixedTypeOK
    BY DEF Threads, FixedInv
  <1>2. FixedTypeOK'
    BY <1>1 DEF Exit, FixedTypeOK, SessionTypeOK, Wan, Stage
  <1>3. /\ \A n \in Ifaces : wan'[n].disabled = wan[n].disabled
        /\ \A u \in Threads : sm'[u] = IF u = t THEN "NONE" ELSE sm[u]
    BY <1>1 DEF Exit, FixedTypeOK, SessionTypeOK, Wan
  <1>4. ASSUME PromptStart, ~changed PROVE (Reported /\ OneWorkerUntilChanged)'
    <2>1. \A u \in Threads : u[1] \in Ifaces
      BY DEF Threads
    <2> QED BY <1>3, <1>4, <2>1
            DEF FixedInv, Reported, OneWorkerUntilChanged, AtWork
  <1> QED BY <1>2, <1>3, <1>4, OthersKeep DEF FixedInv

LEMMA ManagerKeeps ==
    ASSUME FixedInv, NEW n \in Ifaces,
           SetPhyStatus(n) \/ SetLinkStatus(n) \/ VlanDown(n),
           UNCHANGED <<sysvars, ctl>>
    PROVE  FixedInv'
  <1> USE DEF sysvars
  <1>1. PICK w \in Wan : Write(n, w) /\ w.disabled = wan[n].disabled
    <2> DEFINE i == wan[n]
    <2>1. i \in Wan
      BY DEF FixedInv, FixedTypeOK, SessionTypeOK
    <2> HIDE DEF i
    <2>2. /\ \A p \in {"UP", "DOWN"} :
               /\ [i EXCEPT !.phy = p] \in Wan
               /\ [i EXCEPT !.phy = p].disabled = i.disabled
          /\ \A l \in {"UP", "DOWN"} :
               /\ [i EXCEPT !.link = l] \in Wan
               /\ [i EXCEPT !.link = l].disabled = i.disabled
      BY <2>1 DEF Wan
    <2>3. \E w \in Wan : Write(n, w) /\ w.disabled = i.disabled
      BY <2>2 DEF SetPhyStatus, SetLinkStatus, VlanDown, i
    <2> QED BY <2>3 DEF i
  <1>2. FixedTypeOK'
    BY <1>1 DEF Write, FixedInv, FixedTypeOK, SessionTypeOK
  <1>3. \A m \in Ifaces : wan'[m].disabled = wan[m].disabled
    BY <1>1 DEF Write, FixedInv, FixedTypeOK, SessionTypeOK
  <1> QED BY <1>1, <1>2, <1>3, QuietKeeps DEF Write

LEMMA SettingKeeps ==
    ASSUME FixedInv,
           \/ SetWanEnable /\ UNCHANGED <<sysvars, ctl>>
           \/ \E n \in Ifaces : SetParam(n)
    PROVE  FixedInv'
  <1>1. CASE SetWanEnable /\ UNCHANGED <<sysvars, ctl>>
    <2>1. FixedTypeOK' /\ UNCHANGED <<ctl, policy, changed, sm, wan>>
      BY <1>1 DEF SetWanEnable, sysvars, FixedInv, FixedTypeOK, SessionTypeOK
    <2> QED BY <2>1, QuietKeeps
  <1>2. CASE \E n \in Ifaces : SetParam(n)
    <2>1. PICK n \in Ifaces, d \in Configs, f \in Events :
             /\ config' = [config EXCEPT ![n][f] = d[n][f]]
             /\ UNCHANGED <<sessionVars, policy, ctl, changed>>
      BY <1>2 DEF SetParam
    <2> DEFINE c == config[n]
    <2>2. c \in Config /\ d[n] \in Config /\ f \in {"enable", "type", "priority"}
      BY FixedAssumption DEF FixedInv, FixedTypeOK
    <2> HIDE DEF c
    <2>3. [c EXCEPT ![f] = d[n][f]] \in Config
      <3>1. CASE f = "enable"
        BY <2>2, <3>1 DEF Config
      <3>2. CASE f = "type"
        BY <2>2, <3>2 DEF Config
      <3>3. CASE f = "priority"
        BY <2>2, <3>3 DEF Config
      <3> QED BY <2>2, <3>1, <3>2, <3>3
    <2>4. config' = [config EXCEPT ![n] = [c EXCEPT ![f] = d[n][f]]]
      BY <2>1 DEF c
    <2>5. FixedTypeOK' /\ UNCHANGED <<sm, wan>>
      BY <2>1, <2>3, <2>4 DEF FixedInv, FixedTypeOK, SessionTypeOK, sessionVars
    <2> QED BY <2>1, <2>5, QuietKeeps
  <1> QED BY <1>1, <1>2

-----------------------------------------------------------------------------
(***************************************************************************)
(* The policy.                                                             *)
(***************************************************************************)
\* A round that ends in a state with an interface and changes nothing else.
LEMMA RoundKeeps ==
    ASSUME FixedInv, ctl.pc = "state", ctl.state # "FIXING",
           NEW s \in {"DOWN", "UP"}, To(s), UNCHANGED <<sessionVars, sysvars>>
    PROVE  FixedInv'
  <1> USE DEF To, sessionVars, sysvars
  <1>1. FixedTypeOK'
    <2>1. ctl' \in Controller
      BY Zenon DEF FixedInv, FixedTypeOK, Controller
    <2> QED BY <2>1 DEF FixedInv, FixedTypeOK, SessionTypeOK
  <1>2. ctl'.state = s /\ ctl'.pc = "config" /\ ctl'.active = ctl.active
    BY DEF FixedInv, FixedTypeOK, Controller
  <1>3. (Hands /\ (~changed => OnActive))'
    BY <1>2 DEF FixedInv, Hands, OnActive
  <1>4. PromptStart /\ ~changed => (Reported /\ OneWorkerUntilChanged)'
    BY <1>2 DEF FixedInv, Reported, OneWorkerUntilChanged, AtWork
  <1> QED BY <1>1, <1>3, <1>4 DEF FixedInv

\* The new thread is the only one at work: an interface that reports DISABLED
\* has none, and no other interface has any.
LEMMA StartAgainKeeps ==
    ASSUME FixedInv, ctl.pc = "state", ctl.state # "FIXING",
           Startable(ctl.active), StartAgain
    PROVE  FixedInv'
  <1> DEFINE n == ctl.active
  <1>1. n \in Ifaces /\ FixedTypeOK
    BY DEF FixedInv, Hands
  <1>2. PICK k \in Slots : /\ sm[<<n, k>>] = "NONE"
                           /\ sm' = [sm EXCEPT ![<<n, k>>] = "START"]
    BY DEF StartAgain, CreateThread
  <1> DEFINE t == <<n, k>>
  <1>3. t \in Threads /\ t[1] = n
    BY <1>1 DEF Threads
  <1>4. \A u \in Threads : sm'[u] = IF u = t THEN "START" ELSE sm[u]
    BY <1>1, <1>2, <1>3 DEF FixedTypeOK, SessionTypeOK
  <1>5. FixedTypeOK'
    <2>1. ctl' \in Controller
      BY Zenon DEF StartAgain, To, FixedInv, FixedTypeOK, Controller
    <2>2. sm' \in [Threads -> Stage]
      BY <1>1, <1>2, <1>3 DEF FixedTypeOK, SessionTypeOK, Stage
    <2> QED BY <1>1, <2>1, <2>2 DEF StartAgain, sysvars, FixedTypeOK, SessionTypeOK
  <1>6. /\ ctl'.state = "UP" /\ ctl'.pc = "config" /\ ctl'.active = n
        /\ UNCHANGED <<wan, policy, changed>>
    BY DEF StartAgain, To, sysvars, FixedInv, FixedTypeOK, Controller
  <1> HIDE DEF n, t
  <1>7. (Hands /\ (~changed => OnActive))'
    BY <1>1, <1>3, <1>4, <1>6 DEF FixedInv, Hands, OnActive, n
  <1>8. ASSUME PromptStart, ~changed PROVE (Reported /\ OneWorkerUntilChanged)'
    <2>1. \A u \in Threads : sm[u] \in Stage
      BY <1>1 DEF FixedTypeOK, SessionTypeOK
    <2>2. \A u \in Threads : sm[u] \in {"NONE", "EXIT"}
      BY <1>8, <2>1 DEF FixedInv, Reported, OnActive, Startable, Stage
    <2> QED BY <1>4, <1>6, <2>2 DEF Reported, OneWorkerUntilChanged, AtWork
  <1> QED BY <1>5, <1>6, <1>7, <1>8 DEF FixedInv

\* Fixed mode forgets which thread it started.
LEMMA FixedInterfaceChangedKeeps ==
    ASSUME FixedInv, ctl.pc = "state", ctl.state # "FIXING",
           policy = "FIXED_MODE", FixedInterfaceChanged
    PROVE  FixedInv'
  <1>1. ctl.active \in Ifaces /\ FixedTypeOK
    BY DEF FixedInv, Hands
  <1>2. FixedTypeOK'
    <2>1. ctl' \in Controller
      BY Zenon DEF FixedInterfaceChanged, To, FixedInv, FixedTypeOK, Controller
    <2>2. wan' \in [Ifaces -> Wan]
      <3> DEFINE w == wan[ctl.active]
      <3>1. w \in Wan
        BY <1>1 DEF FixedTypeOK, SessionTypeOK
      <3>2. wan' = [wan EXCEPT ![ctl.active] =
                       [w EXCEPT !.disabled = TRUE, !.activeLink = TRUE]]
        BY <1>1 DEF FixedInterfaceChanged, FixedTypeOK, SessionTypeOK
      <3> HIDE DEF w
      <3>3. [w EXCEPT !.disabled = TRUE, !.activeLink = TRUE] \in Wan
        BY <3>1 DEF Wan
      <3> QED BY <1>1, <3>2, <3>3 DEF FixedTypeOK, SessionTypeOK
    <2> QED BY <1>1, <2>1, <2>2
            DEF FixedInterfaceChanged, FixedTypeOK, SessionTypeOK
  <1>3. /\ ctl'.state = "FIXING" /\ ctl'.pc = "config"
        /\ policy' = "FIXED_MODE" /\ changed'
    BY DEF FixedInterfaceChanged, To, FixedInv, FixedTypeOK, Controller
  <1> QED BY <1>2, <1>3 DEF FixedInv, Hands, Fixed, OneWorkerUntilChanged

\* The states with an interface
LEMMA HoldingKeeps ==
    FixedInv /\ (\/ FixedWanInterfaceDown \/ FixedWanInterfaceUp
                 \/ FixedOnBootupDown \/ FixedOnBootupUp
                 \/ SelectedInterfaceDown \/ SelectedInterfaceUp) => FixedInv'
  <1> SUFFICES ASSUME FixedInv,
                      ctl.pc = "state", ctl.state \in {"DOWN", "UP"},
                      \/ Startable(ctl.active) /\ StartAgain
                      \/ Stay \/ Lose
                      \/ policy = "FIXED_MODE" /\ FixedInterfaceChanged
               PROVE  FixedInv'
    BY DEF FixedWanInterfaceDown, FixedWanInterfaceUp, FixedOnBootupDown,
           FixedOnBootupUp, SelectedInterfaceDown, SelectedInterfaceUp, InState
  <1> QED BY RoundKeeps, StartAgainKeeps, FixedInterfaceChangedKeeps DEF Stay, Lose

LEMMA ReadConfigKeeps == FixedInv /\ ReadConfig => FixedInv'
  <1> SUFFICES ASSUME FixedInv, ReadConfig PROVE FixedInv'
    OBVIOUS
  <1> USE DEF ReadConfig, sessionVars, sysvars
  <1>1. FixedTypeOK'
    <2>1. ctl' \in Controller
      BY DEF FixedInv, FixedTypeOK, SessionTypeOK, Controller
    <2> QED BY <2>1 DEF FixedInv, FixedTypeOK, SessionTypeOK
  <1>2. ctl'.pc = "state" /\ ctl'.state = ctl.state /\ ctl'.active = ctl.active
    BY DEF FixedInv, FixedTypeOK, Controller
  <1>3. (Hands /\ (~changed => OnActive))'
    BY <1>2 DEF FixedInv, Hands, OnActive
  <1>4. PromptStart /\ ~changed => (Reported /\ OneWorkerUntilChanged)'
    BY <1>2 DEF FixedInv, Reported, OneWorkerUntilChanged, AtWork
  <1> QED BY <1>1, <1>3, <1>4 DEF FixedInv

\* Without an interface there is no thread before fixed mode changes its own.
LEMMA IdleKeeps ==
    ASSUME FixedInv, ctl.state = "FIXING", ctl.pc # "start", ctl' \in Controller,
           UNCHANGED <<sessionVars, sysvars>>, Hands'
    PROVE  FixedInv'
  <1> USE DEF sessionVars, sysvars
  <1>1. FixedTypeOK'
    BY DEF FixedInv, FixedTypeOK, SessionTypeOK
  <1>2. ~changed => \A t \in Threads : sm[t] = "NONE"
    BY DEF FixedInv, OnActive
  <1>3. ~changed => OnActive' /\ Reported' /\ OneWorkerUntilChanged'
    BY <1>2 DEF OnActive, Reported, OneWorkerUntilChanged, AtWork
  <1> QED BY <1>1, <1>3 DEF FixedInv

LEMMA StartScanKeeps == FixedInv /\ StartScan => FixedInv'
  <1> SUFFICES ASSUME FixedInv, StartScan PROVE FixedInv'
    OBVIOUS
  <1>1. 0 \in Ifaces
    BY FixedAssumption
  <1>2. ctl' \in Controller
    BY <1>1, NoChoiceType, Zenon
       DEF StartScan, FixedInv, FixedTypeOK, Controller, Choice
  <1>3. /\ ctl'.pc = "select" /\ ctl'.active = None /\ ctl'.state = "FIXING"
        /\ ctl.state = "FIXING" /\ ctl.pc = "state"
        /\ UNCHANGED <<sessionVars, sysvars>>
    BY DEF StartScan, InState, FixedInv, FixedTypeOK, Controller
  <1>4. Hands'
    BY <1>3 DEF Hands
  <1> QED BY <1>2, <1>3, <1>4, IdleKeeps

LEMMA ScanKeeps == FixedInv /\ Scan => FixedInv'
  <1> SUFFICES ASSUME FixedInv, Scan PROVE FixedInv'
    OBVIOUS
  <1> DEFINE n == ctl.next
             best == Consider(ctl.best, n)
             role == IF best.primary.idx # None THEN "primary" ELSE "secondary"
             chosen == best[role].idx
             pc == IF chosen # None /\ policy \notin Fixed
                   THEN "start" ELSE "config"
  <1>1. FixedTypeOK /\ ctl \in Controller /\ n \in Ifaces /\ ctl.best \in Choice
    BY DEF FixedInv, FixedTypeOK, Controller, Choice
  <1>2. best \in Choice
    BY <1>1, ConsiderType
  <1>3. /\ ctl.pc = "select" /\ ctl.state = "FIXING" /\ ctl.active = None
        /\ UNCHANGED <<sessionVars, sysvars>>
    BY DEF Scan, FixedInv, Hands
  <1>4. ctl' = IF n < Last
               THEN [ctl EXCEPT !.best = best, !.next = n + 1]
               ELSE [ctl EXCEPT !.best = NoChoice, !.next = 0,
                                !.active = chosen, !.pc = pc]
    BY DEF Scan
  <1> HIDE DEF best
  <1>5. role \in {"primary", "secondary"} /\ chosen \in Ifaces \cup {None}
    BY <1>2 DEF Choice
  <1>6. pc \in {"start", "config"} /\ (pc = "start" => chosen # None /\ policy \notin Fixed)
    OBVIOUS
  <1>7. pc = "config" => chosen = None \/ policy \in Fixed
    OBVIOUS
  <1> HIDE DEF chosen, role, pc, n
  <1>8. CASE n < Last
    <2>1. n + 1 \in Ifaces
      BY <1>1, <1>8, FixedAssumption
    <2>2. ctl' \in Controller
      BY <1>1, <1>2, <1>4, <1>8, <2>1, Zenon DEF Controller, Choice
    <2>3. ctl'.pc = "select" /\ ctl'.active = None /\ ctl'.state = "FIXING"
      BY <1>1, <1>3, <1>4, <1>8 DEF Controller
    <2>4. Hands'
      BY <2>3 DEF Hands
    <2> QED BY <1>3, <2>2, <2>4, IdleKeeps
  <1>9. CASE ~(n < Last)
    <2>1. 0 \in Ifaces
      BY FixedAssumption
    <2>2. ctl' = [ctl EXCEPT !.best = NoChoice, !.next = 0,
                             !.active = chosen, !.pc = pc]
      BY <1>4, <1>9
    <2>3. ctl' \in Controller
      <3>1. pc \in {"config", "state", "select", "start"}
        BY <1>6
      <3> QED BY <1>1, <1>5, <2>1, <2>2, <3>1, NoChoiceType, Zenon
              DEF Controller, Choice
    <2>4. ctl'.pc = pc /\ ctl'.active = chosen /\ ctl'.state = "FIXING"
      BY <1>1, <1>3, <2>2 DEF Controller
    <2>5. policy' = policy
      BY <1>3 DEF sysvars
    <2>6. Hands'
      BY <1>5, <1>6, <1>7, <2>4, <2>5 DEF Hands
    <2> QED BY <1>3, <2>3, <2>6, IdleKeeps
  <1> QED BY <1>8, <1>9

LEMMA FixingWanInterfaceKeeps == FixedInv /\ FixingWanInterface => FixedInv'
  <1> SUFFICES ASSUME FixedInv, FixingWanInterface PROVE FixedInv'
    OBVIOUS
  <1> DEFINE chosen == Selected
             s == IF chosen = None THEN "FIXING" ELSE "DOWN"
  <1>1. FixedTypeOK /\ ctl \in Controller /\ ctl.active \in Ifaces
    BY DEF FixedInv, FixedTypeOK, Controller, FixingWanInterface
  <1>2. chosen \in Ifaces \cup {None}
    BY <1>1, SelectedType
  <1>3. /\ ctl.state = "FIXING" /\ ctl.pc = "state" /\ policy \in Fixed
        /\ ctl' = [ctl EXCEPT !.active = chosen, !.pc = "config", !.state = s]
        /\ UNCHANGED <<wanEnable, sm, upstream, sysvars>>
    BY DEF FixingWanInterface, InState
  <1>4. wan' \in [Ifaces -> Wan]
    <2>1. wan \in [Ifaces -> Wan]
      BY <1>1 DEF FixedTypeOK, SessionTypeOK
    <2>2. [wan[ctl.active] EXCEPT !.activeLink = TRUE] \in Wan
      BY <1>1, <2>1 DEF Wan
    <2>3. [wan EXCEPT ![ctl.active].activeLink = TRUE] \in [Ifaces -> Wan]
      BY <1>1, <2>1, <2>2
    <2> QED BY <2>1, <2>3 DEF FixingWanInterface
  <1> HIDE DEF chosen
  <1>5. s \in {"FIXING", "DOWN"} /\ (s = "DOWN" => chosen \in Ifaces)
    BY <1>2
  <1> HIDE DEF s
  <1>6. ctl' \in Controller
    <2>1. s \in {"FIXING", "DOWN", "UP"}
      BY <1>5
    <2> QED BY <1>1, <1>2, <1>3, <2>1, Zenon DEF Controller
  <1>7. FixedTypeOK'
    BY <1>1, <1>3, <1>4, <1>6 DEF FixedTypeOK, SessionTypeOK, sysvars
  <1>8. ctl'.pc = "config" /\ ctl'.state = s /\ ctl'.active = chosen
    BY <1>1, <1>3 DEF Controller
  <1>9. Hands'
    BY <1>3, <1>5, <1>8 DEF Hands, sysvars
  <1>10. ~changed => \A t \in Threads : sm[t] = "NONE"
    BY <1>3 DEF FixedInv, OnActive
  <1>11. ~changed => OnActive' /\ Reported' /\ OneWorkerUntilChanged'
    BY <1>3, <1>10 DEF OnActive, Reported, OneWorkerUntilChanged, AtWork
  <1> QED BY <1>3, <1>7, <1>9, <1>11 DEF FixedInv, sysvars

\* The first thread of the box
LEMMA WanInterfaceSelectedKeeps == FixedInv /\ WanInterfaceSelected => FixedInv'
  <1> SUFFICES ASSUME FixedInv, WanInterfaceSelected PROVE FixedInv'
    OBVIOUS
  <1> DEFINE n == ctl.active
  <1>1. /\ FixedTypeOK /\ ctl \in Controller /\ n \in Ifaces
        /\ ctl.state = "FIXING" /\ policy \notin Fixed
    BY DEF FixedInv, FixedTypeOK, Hands, WanInterfaceSelected
  <1>2. PICK k \in Slots : /\ sm[<<n, k>>] = "NONE"
                           /\ sm' = [sm EXCEPT ![<<n, k>>] = "START"]
    BY DEF WanInterfaceSelected, CreateThread
  <1> DEFINE t == <<n, k>>
  <1>3. t \in Threads /\ t[1] = n
    BY <1>1 DEF Threads
  <1>4. \A u \in Threads : sm'[u] = IF u = t THEN "START" ELSE sm[u]
    BY <1>1, <1>2, <1>3 DEF FixedTypeOK, SessionTypeOK
  <1>5. FixedTypeOK'
    <2>1. ctl' \in Controller
      BY <1>1, Zenon DEF WanInterfaceSelected, To, Controller
    <2>2. sm' \in [Threads -> Stage]
      BY <1>1, <1>2, <1>3 DEF FixedTypeOK, SessionTypeOK, Stage
    <2>3. wan' \in [Ifaces -> Wan]
      BY <1>1 DEF WanInterfaceSelected, FixedTypeOK, SessionTypeOK, Wan
    <2> QED BY <1>1, <2>1, <2>2, <2>3
            DEF WanInterfaceSelected, sysvars, FixedTypeOK, SessionTypeOK
  <1>6. /\ ctl'.state = "UP" /\ ctl'.pc = "config" /\ ctl'.active = n
        /\ UNCHANGED <<policy, changed>>
    BY <1>1 DEF WanInterfaceSelected, To, sysvars, Controller
  <1>7. /\ ~changed
        /\ \A u \in Threads : sm[u] = "NONE"
    BY <1>1 DEF FixedInv, OnActive, Fixed
  <1> HIDE DEF n, t
  <1>8. (Hands /\ OnActive)'
    BY <1>1, <1>3, <1>4, <1>6, <1>7 DEF Hands, OnActive
  <1>9. (Reported /\ OneWorkerUntilChanged)'
    BY <1>4, <1>6, <1>7 DEF Reported, OneWorkerUntilChanged, AtWork
  <1> QED BY <1>5, <1>6, <1>7, <1>8, <1>9 DEF FixedInv

-----------------------------------------------------------------------------
LEMMA FixedInvNext == FixedInv /\ [FixedNext]_fixvars => FixedInv'
  <1> SUFFICES ASSUME FixedInv, [FixedNext]_fixvars PROVE FixedInv'
    OBVIOUS
  <1>1. CASE FixedRound
    BY <1>1, ReadConfigKeeps, StartScanKeeps, ScanKeeps, HoldingKeeps,
       FixingWanInterfaceKeeps, WanInterfaceSelectedKeeps DEF FixedRound
  <1>2. CASE Others
    <2>1. ASSUME NEW t \in Threads, Thread(t), UNCHANGED <<sysvars, ctl>>
          PROVE  FixedInv'
      BY <2>1, TransitionStartKeeps, PhysicalInterfaceDownKeeps,
         TransitionExitKeeps, ExitKeeps DEF Thread
    <2> QED BY <1>2, <2>1, ManagerKeeps, SettingKeeps DEF Others
  <1>3. CASE \E n \in Ifaces : SetParam(n)
    BY <1>3, SettingKeeps
  <1>4. CASE UNCHANGED fixvars
    <2>1. FixedTypeOK' /\ UNCHANGED <<ctl, policy, changed, sm, wan>>
      BY <1>4 DEF fixvars, sessionVars, FixedInv, FixedTypeOK, SessionTypeOK
    <2> QED BY <2>1, QuietKeeps
  <1> QED BY <1>1, <1>2, <1>3, <1>4 DEF FixedNext

\* The invariant holds in every reachable state, for any table of interfaces
\* and any number of thread slots.
THEOREM FixedInvariance == FixedSpec => []FixedInv
  BY FixedInvInit, FixedInvNext, PTL DEF FixedSpec

\* When a thread always runs its first step before the next round, no two are
\* at work at once until fixed mode gives up its interface.
THEOREM OneThreadUntilChanged ==
    ASSUME PromptStart PROVE FixedSpec => []OneWorkerUntilChanged
  <1>1. FixedInv => OneWorkerUntilChanged
    BY PromptStart DEF FixedInv, OneWorkerUntilChanged
  <1> QED BY <1>1, FixedInvariance, PTL

\* The modes on bootup run all their threads on the interface of the boot,
\* whenever the threads take their steps.
THEOREM AllOnBootInterface == FixedSpec => []StaysOnBootInterface
  <1>1. FixedInv => StaysOnBootInterface
    BY DEF FixedInv, OnActive, StaysOnBootInterface
  <1> QED BY <1>1, FixedInvariance, PTL

\* A step on interface n that leaves ActiveLink as it was, or writes it, and
\* creates at most one thread.
LEMMA UnmarkedIsAnyPolicy ==
    ASSUME FixedTypeOK, NEW n \in Ifaces, UNCHANGED <<wanEnable, wan, upstream>>,
           CreateThread(n)
    PROVE  AnyPolicy(n)
  <1>1. wan \in [Ifaces -> Wan]
    BY DEF FixedTypeOK, SessionTypeOK
  <1>2. wan[n].activeLink \in BOOLEAN
    BY <1>1 DEF Wan
  <1>3. wan' = [wan EXCEPT ![n].activeLink = wan[n].activeLink]
    BY <1>1 DEF Wan
  <1> QED BY <1>2, <1>3 DEF AnyPolicy

\* A round of a mode on bootup does no more than WanSession allows a policy.
LEMMA RoundIsAnyPolicy ==
    ASSUME FixedInv, FixedRound, policy # "FIXED_MODE"
    PROVE  SessionNext \/ UNCHANGED sessionVars
  <1>1. CASE ReadConfig \/ StartScan \/ Scan
    BY <1>1 DEF ReadConfig, StartScan, Scan
  <1>2. ctl.state # "FIXING" \/ ctl.pc = "start" => ctl.active \in Ifaces
    BY DEF FixedInv, Hands
  <1>3. ctl.active \in Ifaces \cup {None}
    BY DEF FixedInv, FixedTypeOK, Controller
  <1>4. CASE FixingWanInterface
    <2>1. ctl.active \in Ifaces
      BY <1>3, <1>4 DEF FixingWanInterface
    <2>2. CASE Selected = None
      BY <1>4, <2>2 DEF FixingWanInterface, sessionVars
    <2>3. CASE Selected # None
      <3>1. AnyPolicy(ctl.active)
        BY <1>4, <2>3 DEF FixingWanInterface, AnyPolicy
      <3> QED BY <2>1, <3>1 DEF SessionNext
    <2> QED BY <2>2, <2>3
  <1>5. CASE WanInterfaceSelected
    <2>1. ctl.active \in Ifaces
      BY <1>2, <1>5 DEF WanInterfaceSelected
    <2>2. AnyPolicy(ctl.active)
      BY <1>5 DEF WanInterfaceSelected, AnyPolicy
    <2> QED BY <2>1, <2>2 DEF SessionNext
  <1>6. ASSUME StartAgain, ctl.state # "FIXING"
        PROVE  SessionNext
    <2>1. ctl.active \in Ifaces
      BY <1>2, <1>6
    <2>2. AnyPolicy(ctl.active)
      BY <1>6, <2>1, UnmarkedIsAnyPolicy DEF StartAgain, FixedInv
    <2> QED BY <2>1, <2>2 DEF SessionNext
  <1>7. CASE FixedOnBootupDown \/ FixedOnBootupUp \/ SelectedInterfaceDown
             \/ SelectedInterfaceUp
    BY <1>6, <1>7 DEF FixedOnBootupDown, FixedOnBootupUp, SelectedInterfaceDown,
       SelectedInterfaceUp, InState, Stay, Lose
  <1>8. CASE FixedWanInterfaceDown \/ FixedWanInterfaceUp
    BY <1>8 DEF FixedWanInterfaceDown, FixedWanInterfaceUp, InState
  <1> QED BY <1>1, <1>4, <1>5, <1>7, <1>8 DEF FixedRound

\* The modes on bootup are environments WanSession allows.  Fixed mode is not:
\* when it gives up its interface it reports DISABLED for the thread.
THEOREM BootModesKeepSessions ==
    ASSUME "FIXED_MODE" \notin Modes PROVE FixedSpec => SessionSpec
  <1>1. FixedInit => SessionInit
    BY DEF FixedInit
  <1>2. FixedInv /\ [FixedNext]_fixvars => [SessionNext]_sessionVars
    <2> SUFFICES ASSUME FixedInv, [FixedNext]_fixvars
                 PROVE  SessionNext \/ UNCHANGED sessionVars
      OBVIOUS
    <2>1. policy # "FIXED_MODE"
      BY DEF FixedInv, FixedTypeOK
    <2>2. CASE Others
      BY <2>2 DEF Others, SessionNext, Manager
    <2>3. CASE \E n \in Ifaces : SetParam(n)
      BY <2>3 DEF SetParam
    <2>4. CASE UNCHANGED fixvars
      BY <2>4 DEF fixvars
    <2> QED BY RoundIsAnyPolicy, <2>1, <2>2, <2>3, <2>4 DEF FixedNext
  <1> QED BY <1>1, <1>2, FixedInvariance, PTL DEF FixedSpec, SessionSpec

=============================================================================
