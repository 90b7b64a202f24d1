---------------------------- MODULE MCSpotCatalog ----------------------------
(* Small instances of SpotCatalog. *)
EXTENDS SpotCatalog
=============================================================================
