----------------------------- MODULE MCEnetRing -----------------------------
(* EnetRing on small rings, with the mutants of its actions. *)
EXTENDS EnetRing
=============================================================================
