------------------------------ MODULE MCBroker ------------------------------
(***************************************************************************)
(* Broker for TLC.  The values of state are only compared with each other,  *)
(* so any permutation of them is a symmetry.                                *)
(***************************************************************************)
EXTENDS Broker, TLC

CONSTANTS s1, s2

TwoStates == {s1, s2}
StateSymmetry == Permutations(State)
=============================================================================
