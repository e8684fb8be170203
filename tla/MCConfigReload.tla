--------------------------- MODULE MCConfigReload ---------------------------
(* A small instance of ConfigReload for TLC.                               *)
EXTENDS ConfigReload

CONSTANTS l1, l2, l3
=============================================================================
