---------------------- MODULE MCFaultyReplicatedValue ----------------------
(***************************************************************************)
(* The instances of MCReplicatedValue with crashes and failing callbacks.  *)
(***************************************************************************)
EXTENDS FaultyReplicatedValue, MCReplicatedValue
=============================================================================
