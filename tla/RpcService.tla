------------------------------- MODULE RpcService -------------------------------
(***************************************************************************)
(* What a caller of DiffusionExecutor.collective_rpc is promised: its call *)
(* is executed at most once, and it ends once, with the result of that     *)
(* execution or with an exception.  Once a call has given up waiting, a    *)
(* later one may get a result that is not its own.                         *)
(***************************************************************************)
CONSTANT Call

VARIABLES
  invoked,   \* calls made
  executed,  \* calls the workers began to execute
  answer     \* how each call ended

vars == <<invoked, executed, answer>>

Init ==
  /\ invoked = {}
  /\ executed = {}
  /\ answer = [x \in Call |-> "none"]

Invoke(x) ==
  /\ x \notin invoked
  /\ invoked' = invoked \cup {x}
  /\ UNCHANGED <<executed, answer>>

Execute(x) ==
  /\ x \in invoked \ executed
  /\ executed' = executed \cup {x}
  /\ UNCHANGED <<invoked, answer>>

Return(x) ==
  /\ x \in executed
  /\ answer[x] = "none"
  /\ answer' = [answer EXCEPT ![x] = "own"]
  /\ UNCHANGED <<invoked, executed>>

Fail(x) ==
  /\ x \in invoked
  /\ answer[x] = "none"
  /\ answer' = [answer EXCEPT ![x] = "failed"]
  /\ UNCHANGED <<invoked, executed>>

GiveUp(x) ==
  /\ x \in invoked
  /\ answer[x] = "none"
  /\ answer' = [answer EXCEPT ![x] = "late"]
  /\ UNCHANGED <<invoked, executed>>

Misdeliver(x) ==
  /\ x \in invoked
  /\ answer[x] = "none"
  /\ \E y \in executed : y # x /\ answer[y] # "none"
  /\ \E y \in Call : answer[y] = "late"
  /\ answer' = [answer EXCEPT ![x] = "foreign"]
  /\ UNCHANGED <<invoked, executed>>

Next == \E x \in Call :
  \/ Invoke(x) \/ Execute(x)
  \/ Return(x) \/ Fail(x) \/ GiveUp(x) \/ Misdeliver(x)
Spec == Init /\ [][Next]_vars
===============================================================================
