------------------------------ MODULE MCEtharp ------------------------------
(* Etharp with a table smaller than the network and lifetimes of a few ticks. *)
EXTENDS Etharp
=============================================================================
