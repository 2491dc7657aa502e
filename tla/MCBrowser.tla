----------------------------- MODULE MCBrowser ------------------------------
(***************************************************************************)
(* Instances of Browser.                                                   *)
(***************************************************************************)
EXTENDS Browser, TLC

CONSTANTS u1, r1, r2, h0, h1, h2, h3

Symm == Permutations(Request) \cup Permutations(Hash \ {Stale})

\* cookie.domain is narrowed.
Narrowed == {m \in (2..Labels) \X (2..Labels) : m[1] < m[2]}
=============================================================================
