--------------------------- MODULE MCPolicyFixed ---------------------------
(***************************************************************************)
(* The three other policies for TLC, on a table of two interfaces.         *)
(***************************************************************************)
EXTENDS PolicyFixed, TLC

Cfg(e, ty, p) == [enable |-> e, type |-> ty, priority |-> p]

\* Two primary interfaces that may change places
MCTwo == {0 :> Cfg(TRUE, "PRIMARY", p) @@ 1 :> Cfg(TRUE, "PRIMARY", 1) :
              p \in {0, 2}}

=============================================================================
