------------------------------ MODULE OneShot -------------------------------
(***************************************************************************)
(* What a challenge promises: it is opened once, at most one request takes *)
(* it, and what was taken or has lapsed is never open again.               *)
(***************************************************************************)
CONSTANTS Nonce, Request

VARIABLES ticket,    \* "none", "open", "taken" or "lapsed", per nonce
          takers     \* the requests that took it

vars == <<ticket, takers>>

Init == /\ ticket = [n \in Nonce |-> "none"]
        /\ takers = [n \in Nonce |-> {}]

Take(n, r) == /\ ticket[n] = "open"
              /\ ticket' = [ticket EXCEPT ![n] = "taken"]
              /\ takers' = [takers EXCEPT ![n] = {r}]

\* Any of the open ones expire, or are deleted for a request that never learns it.
Lapse(S) == /\ \A n \in S : ticket[n] = "open"
            /\ ticket' = [n \in Nonce |-> IF n \in S THEN "lapsed" ELSE ticket[n]]
            /\ UNCHANGED takers

\* Saving a challenge also sweeps the expired ones.
Open(n, S) == /\ ticket[n] = "none"
              /\ \A m \in S : ticket[m] = "open"
              /\ ticket' = [m \in Nonce |-> CASE m = n -> "open"
                                             [] m \in S -> "lapsed"
                                             [] OTHER -> ticket[m]]
              /\ UNCHANGED takers

Next == \/ \E n \in Nonce, r \in Request : Take(n, r)
        \/ \E S \in SUBSET Nonce : Lapse(S) \/ \E n \in Nonce : Open(n, S)

Spec == Init /\ [][Next]_vars
=============================================================================
