--------------------------- MODULE GreeterService ---------------------------
(***************************************************************************)
(* What the greeter promises its callers, whatever threads and CallData    *)
(* objects serve them: SayHello returns exactly once, with the greeting of *)
(* its own user or with "RPC failed", unless the caller goes away first.   *)
(***************************************************************************)
CONSTANTS Calls, Hello(_), Failed, None

VARIABLES
  calling,   \* calls that have been started and have not returned
  result,    \* per call: what SayHello returned, or None
  left       \* calls whose caller went away

vars == <<calling, result, left>>

Init == calling = {} /\ result = [c \in Calls |-> None] /\ left = {}

Call(c) ==
  /\ c \notin calling /\ c \notin left /\ result[c] = None
  /\ calling' = calling \cup {c}
  /\ UNCHANGED <<result, left>>

Return(c, r) ==
  /\ c \in calling
  /\ calling' = calling \ {c}
  /\ result' = [result EXCEPT ![c] = r]
  /\ UNCHANGED left

Answer(c) == Return(c, Hello(c))
Fail(c) == Return(c, Failed)

\* The caller's process ends; its call is never answered.
Leave(c) ==
  /\ c \in calling
  /\ calling' = calling \ {c}
  /\ left' = left \cup {c}
  /\ UNCHANGED result

Next == \E c \in Calls : Call(c) \/ Answer(c) \/ Fail(c) \/ Leave(c)

SafeSpec == Init /\ [][Next]_vars

\* A call that was started returns or is left.
Spec ==
  /\ SafeSpec
  /\ \A c \in Calls : WF_vars(Answer(c) \/ Fail(c))
=============================================================================
