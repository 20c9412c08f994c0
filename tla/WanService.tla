----------------------------- MODULE WanService -----------------------------
(***************************************************************************)
(* What the interface state machines promise to the rest of the box: WAN   *)
(* service in sessions.  The policies see a session through Wan.Status of  *)
(* the interface, the other daemons see its IPv4 connection through the    *)
(* sysevent ipv4_connection_state.  One interface has a session at a time; *)
(* IPv4 comes up only in a session whose interface is UP, and a session    *)
(* ends, letting the next one begin, only once IPv4 is down.               *)
(***************************************************************************)
CONSTANT Links

VARIABLES
    phase,     \* [Links -> Wan.Status]
    ipv4       \* is the IPv4 connection up?

svars == <<phase, ipv4>>

Phases == {"DISABLED", "INITIALISING", "VALIDATING", "UP"}

ServiceInit ==
    /\ phase = [n \in Links |-> "DISABLED"]
    /\ ipv4 = FALSE

Begin(n) ==
    /\ \A m \in Links : phase[m] = "DISABLED"
    /\ phase' = [phase EXCEPT ![n] = "INITIALISING"]
    /\ UNCHANGED ipv4

\* A link that is lost while it is validated is validated again.
Validate(n) ==
    /\ phase[n] = "INITIALISING"
    /\ phase' = [phase EXCEPT ![n] = "VALIDATING"]
    /\ UNCHANGED ipv4

Validated(n) ==
    /\ phase[n] = "VALIDATING"
    /\ phase' = [phase EXCEPT ![n] = "UP"]
    /\ UNCHANGED ipv4

Connect(n) == phase[n] = "UP" /\ ipv4' = TRUE /\ UNCHANGED phase

Disconnect == ipv4 /\ ipv4' = FALSE /\ UNCHANGED phase

End(n) ==
    /\ phase[n] # "DISABLED" /\ ~ipv4
    /\ phase' = [phase EXCEPT ![n] = "DISABLED"]
    /\ UNCHANGED ipv4

ServiceNext ==
    \/ \E n \in Links :
          Begin(n) \/ Validate(n) \/ Validated(n) \/ Connect(n) \/ End(n)
    \/ Disconnect

ServiceSpec == ServiceInit /\ [][ServiceNext]_svars

=============================================================================
