----------------------------- MODULE MCRequests -----------------------------
(***************************************************************************)
(* What a handler reads off a request before anything else: the client's   *)
(* address (ClientIP) and the access token (AccessTokens).  The two share  *)
(* no state, so every behaviour is one part's, over all of that part's     *)
(* inputs, and the other stays as it starts.                               *)
(***************************************************************************)
EXTENDS ClientIP, AccessTokens

VARIABLE part

vars == <<part, clientVars, accessVars>>

NoClient == /\ entries = {} /\ client = 0 /\ peer = Addr(4, 0)
            /\ lines = <<>> /\ real = Garbage /\ hops = 0

Init == /\ AccessInit
        /\ \/ part = "address" /\ ClientInit
           \/ part = "token" /\ NoClient

Next == /\ UNCHANGED part
        /\ \/ part = "address" /\ ClientNext /\ UNCHANGED accessVars
           \/ part = "token" /\ AccessNext /\ UNCHANGED clientVars

Spec == Init /\ [][Next]_vars

Symmetry == Permutations(Replica)
=============================================================================
