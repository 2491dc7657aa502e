------------------------------- MODULE Wiring -------------------------------
(***************************************************************************)
(* From a configuration to a running service: what validateConfig accepts, *)
(* and what run() then builds from it, step by step.                       *)
(*                                                                         *)
(* A setting is abstracted to what the code tells apart: empty or not, one *)
(* line or several, known or unknown, negative or not.  A chain is a pair  *)
(* of name and chain id, an entry that does not parse is Malformed.  The   *)
(* two OAuth providers are validated and built alike; google stands for    *)
(* either.                                                                 *)
(***************************************************************************)
EXTENDS Integers, Sequences, FiniteSets

CONSTANTS ChainLists,   \* values of wallet.evmchains
          Malformed     \* an entry that is not name=chainID

ASSUME WiringAssumption == \A list \in ChainLists : Len(list) \in Nat /\ DOMAIN list = 1..Len(list)

VARIABLES config,    \* the configuration, as unmarshalled
          at,        \* where run() is
          built      \* what it has built so far

wiringVars == <<config, at, built>>

\* "" is an empty setting, "line" a value of one line, "lines" one with a break.
Text == {"", "line", "lines"}

OAuthClient == [id : {"", "line"}, secret : {"", "line"}, uris : {0, 1}]

Config == [dev     : BOOLEAN,
           db      : {"", "line"},
           key     : {"none", "RSA", "EC"},
           alg     : {"RS256", "ES256", "other"},
           cookies : [enabled : BOOLEAN, domain : {"", "line"}],
           google  : OAuthClient,
           wallet  : [domain : Text, uri : Text, statement : {"", "lines"}, ttl : {-1, 0}],
           chains  : ChainLists]

Nothing == [store |-> "none", key |-> "none", oauth |-> {}, chains |-> <<>>]

WiringInit == config \in Config /\ at = "validate" /\ built = Nothing

-----------------------------------------------------------------------------
(* validateConfig *)

validateDevFallbacks(c) == c.dev \/ (c.db # "" /\ c.key # "none")

\* Mutant: a provider is incomplete only if it has a client id.
validateOAuthClientByID(o) == o.id # "" => o.secret # "" /\ o.uris > 0

validateOAuthClient(o) == \/ o.id = "" /\ o.secret = "" /\ o.uris = 0
                          \/ o.id # "" /\ o.secret # "" /\ o.uris > 0

\* Mutant: ids are compared, names are not.
parseEVMChainsByID(list) ==
  /\ list # <<>>
  /\ \A i \in DOMAIN list : list[i] # Malformed
  /\ \A i, j \in DOMAIN list : i # j => list[i].id # list[j].id

\* Every entry parses, and no name and no id is there twice.
parseEVMChains(list) ==
  /\ list # <<>>
  /\ \A i \in DOMAIN list : list[i] # Malformed
  /\ \A i, j \in DOMAIN list : i # j => list[i].name # list[j].name /\ list[i].id # list[j].id

SingleLine(w) == "lines" \notin {w.domain, w.uri, w.statement}

validateWallet(c) ==
  /\ parseEVMChains(c.chains)
  /\ \/ c.wallet.domain = "" /\ c.wallet.uri = ""
     \/ /\ c.wallet.domain # "" /\ c.wallet.uri # ""
        /\ SingleLine(c.wallet)
        /\ c.wallet.ttl >= 0

\* Levels, formats, proxies and the like only refuse values they do not know.
validateConfig(c) == /\ validateDevFallbacks(c)
                     /\ c.alg \in {"RS256", "ES256"}
                     /\ c.cookies.enabled => c.cookies.domain # ""
                     /\ validateOAuthClient(c.google)
                     /\ validateWallet(c)

-----------------------------------------------------------------------------
(* run *)

GoTo(here, next) == at = here /\ at' = next /\ UNCHANGED config

\* run returns an error, or panics.
Abort(here, how) == GoTo(here, how) /\ UNCHANGED built

LoadConfig == \/ validateConfig(config) /\ GoTo("validate", "store") /\ UNCHANGED built
              \/ ~validateConfig(config) /\ Abort("validate", "refused")

OpenStore == \/ /\ config.db # ""
                /\ GoTo("store", "issuer")
                /\ built' = [built EXCEPT !.store = "postgres"]
             \/ config.db # "" /\ Abort("store", "unreachable")
             \/ /\ config.db = ""
                /\ GoTo("store", "issuer")
                /\ built' = [built EXCEPT !.store = "memory"]

\* createTokenIssuer: a key of the other kind does not parse.
Fits(alg, key) == key = (IF alg = "ES256" THEN "EC" ELSE "RSA")

createTokenIssuer ==
  \/ /\ config.key = "none"
     /\ GoTo("issuer", "oauth")
     /\ built' = [built EXCEPT !.key = "ephemeral"]
  \/ /\ config.key # "none" /\ Fits(config.alg, config.key)
     /\ GoTo("issuer", "oauth")
     /\ built' = [built EXCEPT !.key = "configured"]
  \/ /\ config.key # "none" /\ ~Fits(config.alg, config.key)
     /\ Abort("issuer", "unreadable")

\* createOAuthProviders: google.New and github.New refuse what is missing.
createOAuthProviders ==
  LET g == config.google  complete == g.secret # "" /\ g.uris > 0 IN
  /\ GoTo("oauth", IF g.id = "" \/ complete THEN "wallet" ELSE "error")
  /\ built' = [built EXCEPT !.oauth = IF g.id # "" /\ complete THEN {"google"} ELSE {}]

\* NewDispatcher panics on a second provider for a chain.
NewDispatcher(list) == Cardinality({list[i].name : i \in DOMAIN list}) = Len(list)

\* WithWallet panics without a domain or a URI, and on a line break.
WithWallet(w) == w.domain # "" /\ w.uri # "" /\ SingleLine(w)

createWalletDispatcher ==
  LET w == config.wallet IN
  /\ GoTo("wallet", CASE w.domain = "" -> "running"
                      [] w.domain # "" /\ ~parseEVMChains(config.chains) -> "error"
                      [] OTHER -> IF NewDispatcher(config.chains) /\ WithWallet(w)
                                    THEN "running" ELSE "panic")
  /\ built' = [built EXCEPT !.chains = IF w.domain = "" THEN <<>> ELSE config.chains]

WiringNext == LoadConfig \/ OpenStore \/ createTokenIssuer \/ createOAuthProviders \/ createWalletDispatcher

WiringSpec == WiringInit /\ [][WiringNext]_wiringVars

-----------------------------------------------------------------------------

\* A configuration that was accepted starts, unless the database cannot be reached
\* or the key does not fit: the wiring panics of the packages ("a wiring bug and
\* panics at startup") are out of reach of a configuration.
AcceptedStarts == at \notin {"panic", "error"}

\* What is set is on: with any setting of Google's client, and with the domain or
\* the URI of wallet sign-in, the method is either refused or served
\* (validateOAuthClient: "a partial config is a typo, not a request to run
\* without it").  Wallet sign-in with neither is off: a statement or chains alone
\* are accepted (validateWallet).
WhatIsSetIsOn ==
  at = "running" =>
    /\ config.google # [id |-> "", secret |-> "", uris |-> 0] => built.oauth = {"google"}
    /\ config.wallet.domain # "" \/ config.wallet.uri # "" => built.chains = config.chains
=============================================================================
