--------------------------- MODULE MCOmniCoordinator ---------------------------
(***************************************************************************)
(* Model values for OmniCoordinator.                                       *)
(***************************************************************************)
EXTENDS OmniCoordinator

CONSTANTS i1, i2, h1
===============================================================================
