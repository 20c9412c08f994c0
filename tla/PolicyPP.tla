------------------------------ MODULE PolicyPP ------------------------------
(***************************************************************************)
(* The primary-priority policy (wanmgr_policy_pp_impl.c) over the threads  *)
(* of WanSession: it selects the interface to use, marks it active, starts *)
(* a state machine on it, and gives it up when it is no longer the one to  *)
(* use.                                                                    *)
(*                                                                         *)
(* A round of the policy reads the configuration under its own mutex and   *)
(* then processes one state.  With an active interface the interface mutex *)
(* is held through the whole state; without one it is taken for one        *)
(* interface at a time, so that the other threads run in between.          *)
(*                                                                         *)
(* The build is the one without WAN_ENABLE_STANDBY, which never enters     *)
(* STATE_PRIMARY_WAN_ACTIVE_SECONDARY_WAN_UP and never reads               *)
(* selSecondaryInterfaceIdx other than just after it is set.               *)
(***************************************************************************)
EXTENDS WanSession, Integers

CONSTANTS
    Last,         \* the interfaces are the indices 0 .. Last of the table
    Configs,      \* the configurations the table may be loaded with
    Events,       \* kinds of the operator's changes in an instance
    PromptStart   \* has a thread run its first step by the policy's next round?

None == -1
PriorityMax == 255
Types == {"UNCONFIGURED", "PRIMARY", "SECONDARY"}
Config == [enable : BOOLEAN, type : Types, priority : -1 .. PriorityMax]

ASSUME TableAssumption ==
    /\ Last \in Nat /\ Ifaces = 0 .. Last
    /\ Configs \subseteq [Ifaces -> Config]
ASSUME PromptAssumption == PromptStart \in BOOLEAN

VARIABLES
    config,      \* [Ifaces -> Config], Wan.Enable, .Type and .Priority
    pp           \* the policy thread: its state and its local variables

ppvars == <<sessionVars, config, pp>>

-----------------------------------------------------------------------------
(***************************************************************************)
(* Selection: the lowest priority of each role, the first index among      *)
(* equals.                                                                 *)
(***************************************************************************)
Nobody == [idx |-> None, priority |-> PriorityMax]
NoChoice == [primary |-> Nobody, secondary |-> Nobody]

Role(n) == IF config[n].type = "PRIMARY" THEN "primary" ELSE "secondary"

\* Mutant: the last of several equal priorities wins.
TakesLastOfEquals(best, n) ==
    IF /\ config[n].enable /\ wan[n].phy = "UP"
       /\ config[n].priority \in 0 .. best[Role(n)].priority
    THEN [best EXCEPT ![Role(n)] =
             [idx |-> n, priority |-> config[n].priority]]
    ELSE best

\* One round of the loop of WanMgr_Policy_FM_SelectWANActive
Consider(best, n) ==
    IF /\ config[n].enable /\ wan[n].phy = "UP"
       /\ config[n].priority \in 0 .. best[Role(n)].priority - 1
    THEN [best EXCEPT ![Role(n)] =
             [idx |-> n, priority |-> config[n].priority]]
    ELSE best

SelectWANActive ==
    LET best[n \in None .. Last] ==
            IF n = None THEN NoChoice ELSE Consider(best[n - 1], n)
    IN  IF pp.enable THEN best[Last] ELSE NoChoice

-----------------------------------------------------------------------------
PpState == {"INTERFACE_DOWN", "PRIMARY_WAN_ACTIVE", "SECONDARY_WAN_ACTIVE"}

\* pc: where the thread is in its round; next, allDown and best belong to the
\* loops of the two scans it makes without an active interface.
Policies ==
    [state   : PpState,
     active  : Ifaces \cup {None},      \* activeInterfaceIdx
     enable  : BOOLEAN,                 \* WanEnable
     pc      : {"config", "state", "check", "select", "start"},
     next    : Ifaces,
     allDown : BOOLEAN,
     best    : [{"primary", "secondary"} ->
                   [idx : Ifaces \cup {None}, priority : 0 .. PriorityMax]]]

PpTypeOK == SessionTypeOK /\ config \in [Ifaces -> Config] /\ pp \in Policies

PpInit ==
    /\ SessionInit
    /\ config \in Configs
    /\ pp = [state |-> "INTERFACE_DOWN", active |-> None, enable |-> FALSE,
             pc |-> "config", next |-> 0, allDown |-> TRUE,
             best |-> NoChoice]

\* The policy waits LOOP_TIMEOUT (500 ms) between two rounds, an interface
\* thread 50 ms.
ReadConfig ==
    /\ pp.pc = "config"
    /\ PromptStart => \A t \in Threads : sm[t] # "START"
    /\ pp' = [pp EXCEPT !.enable = wanEnable, !.pc = "state"]
    /\ UNCHANGED <<sessionVars, config>>

-----------------------------------------------------------------------------
(***************************************************************************)
(* STATE_INTERFACE_DOWN.                                                   *)
(***************************************************************************)
WanDown ==
    /\ pp.pc = "state" /\ pp.state = "INTERFACE_DOWN"
    /\ pp' = [pp EXCEPT !.pc = "check", !.next = 0, !.allDown = TRUE]
    /\ UNCHANGED <<sessionVars, config>>

\* Mutant: does not wait for the interfaces to be torn down.
ChecksNothing ==
    /\ pp.pc = "check"
    /\ pp' = [pp EXCEPT !.next = 0, !.best = NoChoice,
                        !.pc = IF pp.enable THEN "select" ELSE "config"]
    /\ UNCHANGED <<sessionVars, config>>

\* One round of the loop of WanMgr_CheckAllIfacesDown
CheckIface ==
    LET n == pp.next
        down == pp.allDown /\ wan[n].disabled
    IN  /\ pp.pc = "check"
        /\ pp' = [pp EXCEPT
                     !.allDown = down,
                     !.next = IF n = Last THEN 0 ELSE n + 1,
                     !.best = NoChoice,
                     !.pc = IF n < Last THEN @
                            ELSE IF down /\ pp.enable THEN "select"
                                                      ELSE "config"]
        /\ UNCHANGED <<sessionVars, config>>

\* The rest of State_WanDown: the primary interface is preferred.
SelectIface ==
    LET n == pp.next
        best == Consider(pp.best, n)
        role == IF best.primary.idx # None THEN "primary" ELSE "secondary"
        chosen == best[role].idx
    IN  /\ pp.pc = "select"
        /\ pp' = IF n < Last
                 THEN [pp EXCEPT !.best = best, !.next = n + 1]
                 ELSE [pp EXCEPT !.best = best, !.next = 0, !.active = chosen,
                                 !.pc = IF chosen = None THEN "config"
                                                         ELSE "start"]
        /\ UNCHANGED <<sessionVars, config>>

\* Transition_PrimaryInterfaceSelected, Transition_SecondaryInterfaceSelected.
\* The interface mutex is released before the thread is created, but the
\* other threads neither read nor write what this step does of an idle
\* interface.
InterfaceSelected ==
    LET n == pp.active
    IN  /\ pp.pc = "start"
        /\ wan' = [wan EXCEPT ![n].activeLink = TRUE]
        /\ CreateThread(n)
        /\ pp' = [pp EXCEPT
                     !.pc = "config", !.best = NoChoice,
                     !.state = IF pp.best.primary.idx # None
                               THEN "PRIMARY_WAN_ACTIVE"
                               ELSE "SECONDARY_WAN_ACTIVE"]
        /\ UNCHANGED <<wanEnable, upstream, config>>

-----------------------------------------------------------------------------
(***************************************************************************)
(* STATE_PRIMARY_WAN_ACTIVE and STATE_SECONDARY_WAN_ACTIVE, atomic.        *)
(***************************************************************************)
Round == pp' = [pp EXCEPT !.pc = "config"] /\ UNCHANGED <<sessionVars, config>>

\* Mutant: the interface stays marked active.
LeavesMarked ==
    /\ pp' = [pp EXCEPT !.active = None, !.state = "INTERFACE_DOWN",
                        !.pc = "config"]
    /\ UNCHANGED <<sessionVars, config>>

\* Transition_PrimaryInterfaceDeSelected, Transition_SecondaryInterfaceDeSelected
InterfaceDeSelected ==
    /\ wan' = [wan EXCEPT ![pp.active].activeLink = FALSE]
    /\ pp' = [pp EXCEPT !.active = None, !.state = "INTERFACE_DOWN",
                        !.pc = "config"]
    /\ UNCHANGED <<wanEnable, sm, upstream, config>>

Usable(n, type) ==
    /\ pp.enable /\ wan[n].phy = "UP"
    /\ config[n].enable /\ config[n].type = type

PrimaryWanActive ==
    /\ pp.pc = "state" /\ pp.state = "PRIMARY_WAN_ACTIVE"
    /\ IF /\ Usable(pp.active, "PRIMARY")
          /\ SelectWANActive.primary.idx = pp.active
       THEN Round ELSE InterfaceDeSelected

\* Mutant: a primary interface that comes back is not looked for.
KeepsSecondary ==
    /\ pp.pc = "state" /\ pp.state = "SECONDARY_WAN_ACTIVE"
    /\ IF /\ Usable(pp.active, "SECONDARY")
          /\ SelectWANActive.secondary.idx = pp.active
       THEN Round ELSE InterfaceDeSelected

SecondaryWanActive ==
    /\ pp.pc = "state" /\ pp.state = "SECONDARY_WAN_ACTIVE"
    /\ IF /\ Usable(pp.active, "SECONDARY")
          /\ SelectWANActive.secondary.idx = pp.active
          /\ SelectWANActive.primary.idx = None
       THEN Round ELSE InterfaceDeSelected

PolicyRound ==
    \/ ReadConfig \/ WanDown \/ CheckIface \/ SelectIface
    \/ InterfaceSelected \/ PrimaryWanActive \/ SecondaryWanActive

-----------------------------------------------------------------------------
(***************************************************************************)
(* The operator.  The setters of Type and Priority refuse a pair another   *)
(* interface has, but look for it and write with the mutex released in     *)
(* between, so that two of them can still produce it.                      *)
(***************************************************************************)
SetConfig(n, c) ==
    /\ config' = [config EXCEPT ![n] = c]
    /\ UNCHANGED <<sessionVars, pp>>

SetEnable(n) ==
    /\ "enable" \in Events
    /\ \E b \in BOOLEAN : SetConfig(n, [config[n] EXCEPT !.enable = b])

SetType(n) ==
    /\ "type" \in Events
    /\ \E ty \in Types : SetConfig(n, [config[n] EXCEPT !.type = ty])

SetPriority(n) ==
    /\ "priority" \in Events
    /\ \E c \in Configs :
          SetConfig(n, [config[n] EXCEPT !.priority = c[n].priority])

-----------------------------------------------------------------------------
Others ==
    /\ \/ \E t \in Threads : Thread(t)
       \/ \E n \in Ifaces : Manager(n)
       \/ SetWanEnable
    /\ UNCHANGED <<config, pp>>

PpNext ==
    \/ PolicyRound
    \/ Others
    \/ \E n \in Ifaces : SetEnable(n) \/ SetType(n) \/ SetPriority(n)

PpSpec == PpInit /\ [][PpNext]_ppvars

PpFairness ==
    /\ WF_ppvars(PolicyRound)
    /\ \A t \in Threads : WF_ppvars(Thread(t) /\ UNCHANGED <<config, pp>>)
    /\ \A n \in Ifaces : WF_ppvars(VlanDown(n) /\ UNCHANGED <<config, pp>>)

PpFairSpec == PpSpec /\ PpFairness

-----------------------------------------------------------------------------
(***************************************************************************)
(* Safety.                                                                 *)
(***************************************************************************)

\* Only the interface the policy has selected is marked active, whatever the
\* threads, the settings and the links do between selection and deselection.
\* (ActiveLink is itself a writable parameter; nobody but the policy and the
\* threads is taken to write it.)
SingleActiveLink ==
    \A n \in Ifaces : wan[n].activeLink => n = pp.active

\* At most one thread is at work on the box at a time: all of them name their
\* device erouter0.  One that has reported DISABLED may still have its exit
\* to run.  Needs PromptStart.
OneWorker ==
    \A t, u \in Threads :
        /\ sm[t] \notin {"NONE", "EXIT"} /\ sm[u] \notin {"NONE", "EXIT"}
        => t = u

\* The interface that the round of the policy has in hand.
Hands ==
    /\ pp.pc = "start" \/ pp.state # "INTERFACE_DOWN" => pp.active \in Ifaces
    /\ pp.pc # "start" /\ pp.state = "INTERFACE_DOWN" => pp.active = None
    /\ pp.pc \in {"check", "select", "start"} => pp.state = "INTERFACE_DOWN"

\* What the scan of the table is worth: an interface it has passed stays at
\* rest until the policy creates a thread.
Scanned ==
    /\ pp.pc = "check" /\ pp.allDown =>
           \A n \in Ifaces : n < pp.next => wan[n].disabled
    /\ pp.pc \in {"select", "start"} => \A n \in Ifaces : wan[n].disabled

\* A thread reports its interface in use from its first step on, and the
\* policy does not look at the table between its creation and that step.
Reported ==
    \A t \in Threads :
        /\ sm[t] = "START" => pp.pc = "config"
        /\ sm[t] \in {"RUN", "DECONFIGURING_WAN"} => ~wan[t[1]].disabled

\* The invariant under which every step keeps a single active link and, with
\* PromptStart, a single thread at work: no event between two steps of the
\* scan makes what the policy has seen of the table stale.
PpInv == /\ PpTypeOK /\ Hands /\ SingleActiveLink
         /\ PromptStart => Scanned /\ Reported /\ OneWorker

Candidates(role) ==
    {n \in Ifaces : /\ config[n].enable /\ wan[n].phy = "UP"
                    /\ Role(n) = role
                    /\ config[n].priority \in 0 .. PriorityMax - 1}

Before(m, n) ==
    \/ config[m].priority < config[n].priority
    \/ config[m].priority = config[n].priority /\ m < n

IsBest(n, role) ==
    /\ n \in Candidates(role)
    /\ \A m \in Candidates(role) \ {n} : Before(n, m)

\* The loop of SelectWANActive finds the interface of each role that comes
\* first, by priority and then by index, also when priorities are equal,
\* negative or the largest.
ChoosesBest ==
    pp.enable => \A role \in {"primary", "secondary"} :
        LET n == SelectWANActive[role].idx
        IN  IF n = None THEN Candidates(role) = {} ELSE IsBest(n, role)

-----------------------------------------------------------------------------
(***************************************************************************)
(* Liveness.                                                               *)
(***************************************************************************)
Preferred(n) ==
    /\ wanEnable
    /\ \/ IsBest(n, "primary")
       \/ /\ IsBest(n, "secondary") /\ config[n].type = "SECONDARY"
          /\ Candidates("primary") = {}

\* The policy ends up with the preferred interface once there is one for
\* good: it fails over to the secondary, returns to the primary, and neither
\* waits for ever for the old session nor changes its mind.
SettlesOnPreferred ==
    \A n \in Ifaces :
        <>[]Preferred(n) => <>[](pp.active = n /\ pp.pc # "start")

\* What ends a session the policy holds lasts until the policy sees it: its
\* link is not lost alone, and no short change of WanEnable or Phy.Status
\* ends the thread between two rounds.
Lasting ==
    \A n \in Ifaces :
        /\ pp.active = n /\ pp.pc # "start"
        /\ \A k \in Slots : sm[<<n, k>>] \notin {"START", "RUN"}
        => ~wanEnable \/ wan[n].phy = "DOWN"

\* The preferred interface then has a thread that runs: a session the policy
\* or a lasting event has ended is followed by the next one, and the end of
\* the old thread does not take the new one with it.
SessionFollows ==
    \A n \in Ifaces :
        []Lasting /\ <>[]Preferred(n)
        => <>[](\E k \in Slots : sm[<<n, k>>] = "RUN")

-----------------------------------------------------------------------------
(***************************************************************************)
(* What comments in the code say and the code does not do.                 *)
(***************************************************************************)

\* The active states "check interface config/status changes", so they notice
\* that the thread they started has ended and report the interface DISABLED.
StatusChangeNoticed ==
    \A n \in Ifaces :
        (/\ pp.active = n /\ pp.pc # "start" /\ wan[n].disabled
         /\ \A k \in Slots : sm[<<n, k>>] = "NONE")
            ~> (pp.active # n \/ \E k \in Slots : sm[<<n, k>>] # "NONE")

=============================================================================
