------------------------ MODULE MCRegionRegistration ------------------------
(***************************************************************************)
(* RegionRegistration for two regions.                                     *)
(***************************************************************************)
EXTENDS RegionRegistration
=============================================================================
