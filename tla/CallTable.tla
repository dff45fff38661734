----------------------------- MODULE CallTable ------------------------------
(***************************************************************************)
(* What the list of connections is for: it remembers, for every call, the  *)
(* endpoint that offered media and the endpoint that answered, each taken  *)
(* from the first message that brings it, until the call is over.  No      *)
(* endpoint serves two calls, and no message about one call touches what   *)
(* is remembered of another.                                               *)
(***************************************************************************)
CONSTANTS CallIds, Endpoints, NULL

VARIABLES caller, callee

callVars == <<caller, callee>>

InUse == {caller[c] : c \in CallIds} \cup {callee[c] : c \in CallIds}

Init == /\ caller = [c \in CallIds |-> NULL]
        /\ callee = [c \in CallIds |-> NULL]

Offer(c, e) == /\ caller[c] = NULL
               /\ e \notin InUse
               /\ caller' = [caller EXCEPT ![c] = e]
               /\ UNCHANGED callee

Answer(c, e) == /\ callee[c] = NULL
                /\ e \notin InUse
                /\ callee' = [callee EXCEPT ![c] = e]
                /\ UNCHANGED caller

Forget(c) == /\ caller' = [caller EXCEPT ![c] = NULL]
             /\ callee' = [callee EXCEPT ![c] = NULL]

Next == \E c \in CallIds :
            \/ \E e \in Endpoints : Offer(c, e) \/ Answer(c, e)
            \/ Forget(c)

Spec == Init /\ [][Next]_callVars
=============================================================================
