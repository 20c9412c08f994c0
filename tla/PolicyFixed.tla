---------------------------- MODULE PolicyFixed ----------------------------
(***************************************************************************)
(* The policies other than primary priority, over the threads of           *)
(* WanSession: fixed mode (wanmgr_policy_fm_impl.c), fixed mode on bootup  *)
(* (wanmgr_policy_fmob_impl.c) and primary priority on bootup              *)
(* (wanmgr_policy_ppob_impl.c), and the controller that runs one of them   *)
(* until the next reboot.                                                  *)
(*                                                                         *)
(* A round of 500 ms reads the configuration, locks the interface that is  *)
(* active at that moment and processes one state.  The lock is the one     *)
(* mutex of the interface table, held to the end of the state; without an  *)
(* active interface the scan takes it for one interface at a time.         *)
(***************************************************************************)
EXTENDS WanSession, Integers

CONSTANTS
    Last,         \* the interfaces are the indices 0 .. Last of the table
    Configs,      \* the configurations the table may be loaded with
    Modes,        \* the policies that may be configured
    Events,       \* the parameters the operator may change
    PromptStart   \* has a thread run its first step by the policy's next round?

None == -1
PriorityMax == 255
Policy == {"FIXED_MODE", "FIXED_MODE_ON_BOOTUP", "PRIMARY_PRIORITY_ON_BOOTUP"}
Types == {"UNCONFIGURED", "PRIMARY", "SECONDARY"}
Config == [enable : BOOLEAN, type : Types, priority : -1 .. PriorityMax]

ASSUME FixedAssumption ==
    /\ Last \in Nat /\ Ifaces = 0 .. Last
    /\ Configs \subseteq [Ifaces -> Config]
    /\ Modes \subseteq Policy
    /\ Events \subseteq {"enable", "type", "priority"}
    /\ PromptStart \in BOOLEAN

VARIABLES
    config,    \* [Ifaces -> Config], Wan.Enable, .Type and .Priority
    policy,    \* the policy function the controller has called
    ctl,       \* its WanMgr_Policy_Controller_t and local variables
    changed    \* has fixed mode ever given up its interface?  (for properties)

fixvars == <<sessionVars, config, policy, ctl, changed>>
sysvars == <<config, policy, changed>>

-----------------------------------------------------------------------------
(***************************************************************************)
(* Selection.  best maps the role to the interface found so far.           *)
(***************************************************************************)
Nobody == [idx |-> None, priority |-> PriorityMax]
NoChoice == [primary |-> Nobody, secondary |-> Nobody]

Role(n) == IF config[n].type = "PRIMARY" THEN "primary" ELSE "secondary"

Better(best, n) ==
    IF config[n].priority \in 0 .. best[Role(n)].priority - 1
    THEN [best EXCEPT ![Role(n)] =
             [idx |-> n, priority |-> config[n].priority]]
    ELSE best

\* One round of the loop of fixed mode: neither the state of the interface
\* nor WanEnable matters, and secondary interfaces are passed over.
ConsiderFixed(best, n) ==
    IF config[n].enable /\ config[n].type = "PRIMARY"
    THEN Better(best, n) ELSE best

\* The same on bootup
ConsiderFixedOnBootup(best, n) == ConsiderFixed(best, n)

\* Primary priority on bootup: of any type, but with its physical link up.
ConsiderPrimary(best, n) ==
    IF ctl.enable /\ config[n].enable /\ wan[n].phy = "UP"
    THEN Better(best, n) ELSE best

Consider(best, n) ==
    CASE policy = "FIXED_MODE" -> ConsiderFixed(best, n)
      [] policy = "FIXED_MODE_ON_BOOTUP" -> ConsiderFixedOnBootup(best, n)
      [] policy = "PRIMARY_PRIORITY_ON_BOOTUP" -> ConsiderPrimary(best, n)

\* The scan made with the table locked
Selected ==
    LET best[n \in None .. Last] ==
            IF n = None THEN NoChoice ELSE Consider(best[n - 1], n)
    IN  best[Last].primary.idx

-----------------------------------------------------------------------------
\* "FIXING" is STATE_FIXING_WAN_INTERFACE and SELECTING_WAN_INTERFACE; "DOWN"
\* and "UP" are the two states with a fixed or selected interface.
Controller ==
    [state  : {"FIXING", "DOWN", "UP"},
     active : Ifaces \cup {None},      \* activeInterfaceIdx
     enable : BOOLEAN,                 \* WanEnable
     pc     : {"config", "state", "select", "start"},
     next   : Ifaces,
     best   : [{"primary", "secondary"} ->
                  [idx : Ifaces \cup {None}, priority : 0 .. PriorityMax]]]

FixedTypeOK ==
    /\ SessionTypeOK
    /\ config \in [Ifaces -> Config]
    /\ policy \in Modes
    /\ ctl \in Controller
    /\ changed \in BOOLEAN

\* WanController_Start_StateMachine calls the function of the policy that was
\* loaded from persistent storage, and never comes back to choose another.
FixedInit ==
    /\ SessionInit
    /\ config \in Configs
    /\ policy \in Modes
    /\ ctl = [state |-> "FIXING", active |-> None, enable |-> FALSE,
              pc |-> "config", next |-> 0, best |-> NoChoice]
    /\ changed = FALSE

ReadConfig ==
    /\ ctl.pc = "config"
    /\ PromptStart => \A t \in Threads : sm[t] # "START"
    /\ ctl' = [ctl EXCEPT !.enable = wanEnable, !.pc = "state"]
    /\ UNCHANGED <<sessionVars, sysvars>>

InState(s, modes) ==
    ctl.pc = "state" /\ ctl.state = s /\ policy \in modes

Fixed == {"FIXED_MODE", "FIXED_MODE_ON_BOOTUP"}

\* The end of a round that goes to state s
To(s) == ctl' = [ctl EXCEPT !.state = s, !.pc = "config"]

-----------------------------------------------------------------------------
(***************************************************************************)
(* Fixing or selecting an interface.                                       *)
(***************************************************************************)
StartScan ==
    /\ InState("FIXING", Policy) /\ ctl.active = None
    /\ ctl' = [ctl EXCEPT !.pc = "select", !.next = 0, !.best = NoChoice]
    /\ UNCHANGED <<sessionVars, sysvars>>

\* In the fixed modes the interface found has not been locked in this round:
\* Transition_WanInterfaceFixed finds no interface and leaves the state as it
\* is.  In the other mode the interface is started on at once.
Scan ==
    LET n == ctl.next
        best == Consider(ctl.best, n)
        role == IF best.primary.idx # None THEN "primary" ELSE "secondary"
        chosen == best[role].idx
    IN  /\ ctl.pc = "select"
        /\ ctl' = IF n < Last
                  THEN [ctl EXCEPT !.best = best, !.next = n + 1]
                  ELSE [ctl EXCEPT
                           !.best = NoChoice, !.next = 0, !.active = chosen,
                           !.pc = IF chosen # None /\ policy \notin Fixed
                                  THEN "start" ELSE "config"]
        /\ UNCHANGED <<sessionVars, sysvars>>

\* The second round of State_FixingWanInterface, and the first one after a
\* change of the fixed interface: it selects again, and marks the interface
\* that was active when the round began.
FixingWanInterface ==
    /\ InState("FIXING", Fixed) /\ ctl.active # None
    /\ ctl' = [ctl EXCEPT !.active = Selected, !.pc = "config",
                          !.state = IF Selected = None THEN "FIXING"
                                                       ELSE "DOWN"]
    /\ wan' = IF Selected = None
              THEN wan ELSE [wan EXCEPT ![ctl.active].activeLink = TRUE]
    /\ UNCHANGED <<wanEnable, sm, upstream, sysvars>>

\* Transition_WanInterfaceSelected of primary priority on bootup
WanInterfaceSelected ==
    /\ ctl.pc = "start"
    /\ wan' = [wan EXCEPT ![ctl.active].activeLink = TRUE]
    /\ CreateThread(ctl.active)
    /\ To("UP")
    /\ UNCHANGED <<wanEnable, upstream, sysvars>>

-----------------------------------------------------------------------------
(***************************************************************************)
(* The states with an interface: it is locked, so each is one step.        *)
(***************************************************************************)
\* Mutant: does not look whether the interface is still in use.
StartableAnyway(n) == ctl.enable /\ wan[n].phy = "UP" /\ wan[n].link = "DOWN"

Startable(n) ==
    /\ ctl.enable /\ wan[n].phy = "UP"
    /\ wan[n].disabled /\ wan[n].link = "DOWN"

Stay == To(ctl.state) /\ UNCHANGED <<sessionVars, sysvars>>
Lose == To("DOWN") /\ UNCHANGED <<sessionVars, sysvars>>

\* Transition_FixedInterfaceUp, Transition_SelectedInterfaceUp: only a thread
StartAgain ==
    /\ CreateThread(ctl.active)
    /\ To("UP")
    /\ UNCHANGED <<wanEnable, wan, upstream, sysvars>>

\* Transition_FixedInterfaceChanged: the thread of the interface is left to
\* itself, and so is the mark.
FixedInterfaceChanged ==
    /\ wan' = [wan EXCEPT ![ctl.active].disabled = TRUE,
                          ![ctl.active].activeLink = TRUE]
    /\ To("FIXING")
    /\ changed' = TRUE
    /\ UNCHANGED <<wanEnable, sm, upstream, config, policy>>

StillFixed(n) ==
    config[n].enable /\ config[n].type = "PRIMARY" /\ Selected = n

FixedWanInterfaceDown ==
    /\ InState("DOWN", {"FIXED_MODE"})
    /\ IF Startable(ctl.active) THEN StartAgain
       ELSE IF StillFixed(ctl.active) THEN Stay ELSE FixedInterfaceChanged

FixedWanInterfaceUp ==
    /\ InState("UP", {"FIXED_MODE"})
    /\ IF ~ctl.enable \/ wan[ctl.active].phy = "DOWN" THEN Lose
       ELSE IF StillFixed(ctl.active) THEN Stay ELSE FixedInterfaceChanged

FixedOnBootupDown ==
    /\ InState("DOWN", {"FIXED_MODE_ON_BOOTUP"})
    /\ IF Startable(ctl.active) THEN StartAgain ELSE Stay

\* Mutant: an interface that is lost is looked for again.
FixesAgain ==
    /\ InState("UP", {"FIXED_MODE_ON_BOOTUP"})
    /\ IF ~ctl.enable \/ wan[ctl.active].phy = "DOWN"
       THEN To("FIXING") /\ UNCHANGED <<sessionVars, sysvars>> ELSE Stay

FixedOnBootupUp ==
    /\ InState("UP", {"FIXED_MODE_ON_BOOTUP"})
    /\ IF ~ctl.enable \/ wan[ctl.active].phy = "DOWN" THEN Lose ELSE Stay

SelectedInterfaceDown ==
    /\ InState("DOWN", {"PRIMARY_PRIORITY_ON_BOOTUP"})
    /\ IF Startable(ctl.active) THEN StartAgain ELSE Stay

SelectedInterfaceUp ==
    /\ InState("UP", {"PRIMARY_PRIORITY_ON_BOOTUP"})
    /\ IF \/ ~ctl.enable \/ wan[ctl.active].phy = "DOWN"
          \/ ~config[ctl.active].enable
       THEN Lose ELSE Stay

FixedRound ==
    \/ ReadConfig \/ StartScan \/ Scan
    \/ FixingWanInterface \/ FixedWanInterfaceDown \/ FixedWanInterfaceUp
    \/ FixedOnBootupDown \/ FixedOnBootupUp
    \/ WanInterfaceSelected \/ SelectedInterfaceDown \/ SelectedInterfaceUp

-----------------------------------------------------------------------------
(***************************************************************************)
(* The operator writes one parameter of one interface.                     *)
(***************************************************************************)
SetParam(n) ==
    /\ \E c \in Configs, f \in Events :
           config' = [config EXCEPT ![n][f] = c[n][f]]
    /\ UNCHANGED <<sessionVars, policy, ctl, changed>>

\* Wan.Name, which no policy reads, stays empty.
Others ==
    /\ \/ \E t \in Threads : Thread(t)
       \/ \E n \in Ifaces : SetPhyStatus(n) \/ SetLinkStatus(n) \/ VlanDown(n)
       \/ SetWanEnable
    /\ UNCHANGED <<sysvars, ctl>>

FixedNext ==
    \/ FixedRound
    \/ Others
    \/ \E n \in Ifaces : SetParam(n)

FixedSpec == FixedInit /\ [][FixedNext]_fixvars

-----------------------------------------------------------------------------
AtWork(t) == sm[t] \notin {"NONE", "EXIT"}

\* Until fixed mode first gives up its interface, and always in the other two
\* modes, no two threads are at work on the box, although the active states
\* start one on the word of Wan.Status alone.  (After a change in fixed mode
\* the old thread goes on beside the new one: Transition_FixedInterfaceChanged
\* reports it DISABLED and does not stop it.)  Needs PromptStart.
OneWorkerUntilChanged ==
    ~changed => \A t, u \in Threads : AtWork(t) /\ AtWork(u) => t = u

\* The modes on bootup stay with one interface until the next reboot: every
\* thread they ever started is on it, however often its link is lost and the
\* table is reconfigured.
StaysOnBootInterface ==
    /\ policy # "FIXED_MODE"
    /\ ctl.pc # "start" /\ \E t \in Threads : sm[t] # "NONE"
    => \A t \in Threads : sm[t] # "NONE" => t[1] = ctl.active

\* The inductive invariant behind the two: an interface reports DISABLED only
\* when no thread is at work on it, and only the active one has threads.
Hands ==
    /\ ctl.state # "FIXING" \/ ctl.pc = "start" => ctl.active \in Ifaces
    /\ ctl.pc = "start" => ctl.state = "FIXING" /\ policy \notin Fixed
    /\ ctl.pc = "select" => ctl.state = "FIXING" /\ ctl.active = None
    /\ policy \notin Fixed /\ ctl.state = "FIXING" /\ ctl.pc # "start"
           => ctl.active = None

Reported ==
    \A t \in Threads :
        /\ sm[t] = "START" => ctl.pc = "config"
        /\ sm[t] \in {"RUN", "DECONFIGURING_WAN"} => ~wan[t[1]].disabled

OnActive ==
    \A t \in Threads :
        sm[t] # "NONE" => ctl.state # "FIXING" /\ t[1] = ctl.active

FixedInv ==
    /\ FixedTypeOK /\ Hands
    /\ ~changed => OnActive
    /\ policy # "FIXED_MODE" => ~changed
    /\ PromptStart /\ ~changed => Reported /\ OneWorkerUntilChanged

-----------------------------------------------------------------------------
\* The transitions that start a thread say that it is "to begin configuring
\* the WAN link", so the interface they start it on is marked active.  (A
\* thread on an interface that is not goes straight to its tear-down.)
StartsMarked ==
    [][\A t \in Threads :
          sm[t] = "NONE" /\ sm'[t] = "START" => wan'[t[1]].activeLink]_fixvars

=============================================================================
