--------------------------- MODULE MCZoneMaintenance ---------------------------
(***************************************************************************)
(* Bounded instances of ZoneMaintenance for TLC.                           *)
(***************************************************************************)
EXTENDS ZoneMaintenance
===============================================================================
