----------------------------- MODULE MCSessions -----------------------------
(***************************************************************************)
(* Sessions for TLC.  Four requests and three hashes are enough for a      *)
(* sign-in, a refresh, its duplicate and a logout to overlap, for a family *)
(* of a root and two successors, and for two sessions of one or two users. *)
(***************************************************************************)
EXTENDS Sessions, TLC

\* Requests, hashes and users are interchangeable in every property checked.
Symmetry == Permutations(Request) \cup Permutations(Hash) \cup Permutations(User)
=============================================================================
