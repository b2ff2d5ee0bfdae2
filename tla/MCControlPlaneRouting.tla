------------------------ MODULE MCControlPlaneRouting -------------------------
(* An instance of ControlPlaneRouting for TLC: a primary and a backup route. *)
EXTENDS ControlPlaneRouting

TwoRoutes == <<"primary", "backup">>
=============================================================================
