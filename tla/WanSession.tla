----------------------------- MODULE WanSession -----------------------------
(***************************************************************************)
(* The interface state machines as the policies know them: threads that    *)
(* are created on an interface, raise it, hold it until its link is lost   *)
(* or the policy gives it up, release it and end.  What they do to leases, *)
(* addresses and clients is in InterfaceSM, which implements this module   *)
(* (its property KeepsSessions).                                           *)
(*                                                                         *)
(* A policy creates threads and writes ActiveLink as it likes; the modules *)
(* of the policies say which do what.                                      *)
(***************************************************************************)
CONSTANTS Ifaces, Slots

VARIABLES
    wanEnable,   \* the Enable of the WAN configuration
    wan,         \* [Ifaces -> Wan], what is kept of the interface table
    sm,          \* [Threads -> Stage]
    upstream     \* [Ifaces -> BOOLEAN], the base interface is marked upstream

sessionVars == <<wanEnable, wan, sm, upstream>>

Threads == Ifaces \X Slots

Wan == [phy        : {"UP", "DOWN"},
        link       : {"UP", "DOWN"},   \* "UP": Wan.LinkStatus is not DOWN
        disabled   : BOOLEAN,          \* Wan.Status is DISABLED
        activeLink : BOOLEAN,
        named      : BOOLEAN]          \* Wan.Name is not empty

\* "NONE": no thread; "START": created, but it has not run yet; "RUN": all
\* the states up to DECONFIGURING_WAN.
Stage == {"NONE", "START", "RUN", "DECONFIGURING_WAN", "EXIT"}

SessionTypeOK ==
    /\ wanEnable \in BOOLEAN
    /\ wan \in [Ifaces -> Wan]
    /\ sm \in [Threads -> Stage]
    /\ upstream \in [Ifaces -> BOOLEAN]

SessionInit ==
    /\ wanEnable \in BOOLEAN
    /\ wan = [n \in Ifaces |->
                 [phy |-> "DOWN", link |-> "DOWN", disabled |-> TRUE,
                  activeLink |-> FALSE, named |-> FALSE]]
    /\ sm = [t \in Threads |-> "NONE"]
    /\ upstream = [n \in Ifaces |-> FALSE]

Write(n, w) ==
    /\ wan' = [wan EXCEPT ![n] = w]
    /\ UNCHANGED <<wanEnable, sm, upstream>>

-----------------------------------------------------------------------------
(***************************************************************************)
(* The threads.                                                            *)
(***************************************************************************)
TransitionStart(t) ==
    /\ sm[t] = "START"
    /\ sm' = [sm EXCEPT ![t] = "RUN"]
    /\ wan' = [wan EXCEPT ![t[1]].disabled = FALSE, ![t[1]].link = "UP"]
    /\ upstream' = [upstream EXCEPT ![t[1]] = TRUE]
    /\ UNCHANGED wanEnable

PhysicalInterfaceDown(t) ==
    /\ sm[t] = "RUN"
    /\ LET w == wan[t[1]]
       IN  ~wanEnable \/ ~w.activeLink \/ w.phy = "DOWN" \/ w.link = "DOWN"
    /\ sm' = [sm EXCEPT ![t] = "DECONFIGURING_WAN"]
    /\ upstream' = [upstream EXCEPT ![t[1]] = FALSE]
    /\ UNCHANGED <<wanEnable, wan>>

TransitionExit(t) ==
    /\ sm[t] = "DECONFIGURING_WAN" /\ wan[t[1]].link = "DOWN"
    /\ sm' = [sm EXCEPT ![t] = "EXIT"]
    /\ wan' = [wan EXCEPT ![t[1]].disabled = TRUE,
                          ![t[1]].activeLink = FALSE]
    /\ UNCHANGED <<wanEnable, upstream>>

Exit(t) ==
    /\ sm[t] = "EXIT"
    /\ sm' = [sm EXCEPT ![t] = "NONE"]
    /\ wan' = [wan EXCEPT ![t[1]].named = FALSE]
    /\ UNCHANGED <<wanEnable, upstream>>

Thread(t) ==
    \/ TransitionStart(t) \/ PhysicalInterfaceDown(t)
    \/ TransitionExit(t) \/ Exit(t)

-----------------------------------------------------------------------------
(***************************************************************************)
(* The managers of the links and the operator.                             *)
(***************************************************************************)
SetPhyStatus(n) == \E p \in {"UP", "DOWN"} : Write(n, [wan[n] EXCEPT !.phy = p])

SetLinkStatus(n) ==
    \E l \in {"UP", "DOWN"} :
        (l = "UP" => upstream[n]) /\ Write(n, [wan[n] EXCEPT !.link = l])

VlanDown(n) ==
    /\ ~upstream[n] /\ wan[n].link = "UP"
    /\ Write(n, [wan[n] EXCEPT !.link = "DOWN"])

SetWanName(n) == upstream[n] /\ Write(n, [wan[n] EXCEPT !.named = TRUE])

SetWanEnable ==
    /\ \E b \in BOOLEAN : wanEnable' = b
    /\ UNCHANGED <<wan, sm, upstream>>

Manager(n) ==
    SetPhyStatus(n) \/ SetLinkStatus(n) \/ VlanDown(n) \/ SetWanName(n)

-----------------------------------------------------------------------------
(***************************************************************************)
(* What a policy may do.                                                   *)
(***************************************************************************)

\* WanMgr_StartInterfaceStateMachine
CreateThread(n) ==
    \E k \in Slots : /\ sm[<<n, k>>] = "NONE"
                     /\ sm' = [sm EXCEPT ![<<n, k>>] = "START"]

AnyPolicy(n) ==
    /\ \E b \in BOOLEAN : wan' = [wan EXCEPT ![n].activeLink = b]
    /\ CreateThread(n) \/ UNCHANGED sm
    /\ UNCHANGED <<wanEnable, upstream>>

SessionNext ==
    \/ \E t \in Threads : Thread(t)
    \/ \E n \in Ifaces : Manager(n) \/ AnyPolicy(n)
    \/ SetWanEnable

SessionSpec == SessionInit /\ [][SessionNext]_sessionVars

=============================================================================
