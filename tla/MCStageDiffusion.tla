---------------------------- MODULE MCStageDiffusion ----------------------------
(***************************************************************************)
(* Values for the constants of StageDiffusion are in the configuration.    *)
(* Two calls are enough for a request to meet another, its own id again,   *)
(* or a control RPC.                                                       *)
(***************************************************************************)
EXTENDS StageDiffusion
===============================================================================
