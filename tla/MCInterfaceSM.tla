---------------------------- MODULE MCInterfaceSM ----------------------------
(***************************************************************************)
(* The interface state machines for TLC.  The instances are small enough   *)
(* to be explored completely: every counter of the model saturates.        *)
(***************************************************************************)
EXTENDS InterfaceSM, TLC

\* Configurations that are all good (or all bad) are interchangeable: the
\* model only ever compares them.
MCSymmetry == Permutations(Lease4 \ BadLease4)

=============================================================================
