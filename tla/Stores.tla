------------------------------- MODULE Stores -------------------------------
(***************************************************************************)
(* What the two stores, store/memory and store/postgres, have in common:   *)
(* the values they hold and the shape of an answer.                        *)
(*                                                                         *)
(* IDs, hashes and nonces are drawn at random by the caller.  The UUID and *)
(* the hash of a personal access token are drawn together and one value of *)
(* Pat stands for both; a provider account is a (provider, external id)    *)
(* pair, a wallet a (chain, normalized address) pair.                      *)
(***************************************************************************)
EXTENDS Integers

CONSTANTS User,      \* user IDs
          Email,     \* normalized addresses
          NoEmail,   \* the empty address of a user created by a wallet
          Secret,    \* password hashes
          Account,   \* provider accounts
          Wallet,    \* wallets
          Pat,       \* personal access tokens
          Nonce,     \* challenge nonces and OAuth states
          Nil        \* no entry, no value, a nil time

ASSUME StoresAssumption == /\ NoEmail \notin Email
                           /\ Nil \notin User \cup Email \cup Secret \cup {NoEmail}
                           /\ Nil \notin Int

\* What a call returns: the store it leaves, its error ("nil" if none), and the
\* value it found.
Done(s)     == [store |-> s, err |-> "nil", val |-> Nil]
Found(s, v) == [store |-> s, err |-> "nil", val |-> v]
Fail(s, e)  == [store |-> s, err |-> e, val |-> Nil]

\* A token that may no longer be used at now: strictly after its expiry.
Expired(t, now) == t.expires # Nil /\ now > t.expires
=============================================================================
