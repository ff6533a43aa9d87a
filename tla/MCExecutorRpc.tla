----------------------------- MODULE MCExecutorRpc -----------------------------
(***************************************************************************)
(* Model values for ExecutorRpc.                                           *)
(***************************************************************************)
EXTENDS ExecutorRpc

CONSTANTS driver, ctl1, ctl2

===============================================================================
