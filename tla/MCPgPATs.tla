------------------------------ MODULE MCPgPATs ------------------------------
(***************************************************************************)
(* Personal access tokens in two deployments: one that caps the tokens of  *)
(* a user and their life and touches a token at every verification, and    *)
(* one without cap or longest life that touches once per interval.  Every  *)
(* behaviour is one deployment's.  The second has one token, so that what  *)
(* is said of the cap is said of the first.                                *)
(***************************************************************************)
EXTENDS PgPATs, TLC

CONSTANTS u1, u2, p1, p2, p3, r1, r2

Symm == Permutations({p1, p2}) \cup Permutations({r1, r2}) \cup Permutations({u1, u2})

\* PATConfig.TouchInterval < 0: every verification touches.
Always == -1

VARIABLE capped

Uncapped == INSTANCE PgPATs WITH MaxPerUser <- 0, MaxTTL <- 0, TouchInterval <- 1,
                                 Pat <- {p3}, MaxClock <- 1

MCInit == Init /\ capped \in BOOLEAN

MCNext == /\ UNCHANGED capped
          /\ \/ capped /\ Next
             \/ ~capped /\ Uncapped!Next

MCSpec == MCInit /\ [][MCNext]_<<vars, capped>>
=============================================================================
