-------------------------------- MODULE MCParts --------------------------------
(* Values of the constants of Parts that a configuration cannot write.     *)
EXTENDS Parts

(* The guided parent has two companions, the other one.                    *)
MCCompanionsOf == [p \in {1, 2} |-> IF p = 1 THEN {11, 12} ELSE {21}]

(* One or two steps are out, and one request may end where it began.       *)
MCCriteria ==
  {[type |-> "prefill_finished", stop |-> TRUE, flight |-> 1, text_only |-> {2}],
   [type |-> "prefill_finished", stop |-> TRUE, flight |-> 2, text_only |-> {}],
   [type |-> "special_token", stop |-> FALSE, flight |-> 1, text_only |-> {}],
   [type |-> "special_token", stop |-> TRUE, flight |-> 2, text_only |-> {}]}

(* One local stage has one device, the other stages use both.              *)
MCUses == [s \in 0 .. 3 |-> IF s = 1 THEN {1} ELSE {1, 2}]
===============================================================================
