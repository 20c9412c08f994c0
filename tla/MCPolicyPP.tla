----------------------------- MODULE MCPolicyPP -----------------------------
(***************************************************************************)
(* The primary-priority policy for TLC, on a table of two interfaces.      *)
(***************************************************************************)
EXTENDS PolicyPP, TLC

Cfg(e, ty, p) == [enable |-> e, type |-> ty, priority |-> p]

\* A primary and a secondary interface
MCPair == {0 :> Cfg(TRUE, "SECONDARY", 0) @@ 1 :> Cfg(TRUE, "PRIMARY", 1)}

\* Two interfaces of one role, with the priorities at the boundaries
MCSame == {0 :> Cfg(TRUE, "PRIMARY", 254) @@ 1 :> Cfg(TRUE, "PRIMARY", p) :
               p \in {-1, 0, 254, 255}}

=============================================================================
