--------------------------- MODULE ProgramProofs ----------------------------
(***************************************************************************)
(* The command cmd/psina, part by part: which configuration files are      *)
(* refused and which defaults survive (ConfigFile), that what validation   *)
(* accepts can be built (Wiring), that an orderly shutdown tears no        *)
(* request (Server), and how long the tokens of its replicas are good      *)
(* (AccessTokens).  For any settings, files, lists of chains, any number   *)
(* of connections and signals, and any lifetime, tolerance, leeway, skew   *)
(* that the leeway allows for, and number of replicas, restarts and tokens.*)
(***************************************************************************)
EXTENDS ConfigFile, Wiring, Server, AccessTokens,
        FiniteSetTheorems, FunctionTheorems, SequenceTheorems, TLAPS

-----------------------------------------------------------------------------
(* ConfigFile *)

\* What the leaves visited so far amount to.  No two of them share a path.
Visited == file \ todo
FInv == /\ file \subseteq Leaf
        /\ todo \subseteq file
        /\ status \in {"flatten", "merge", "loaded", "error"}
        /\ status # "error" =>
             /\ \A p : p \in spelled <=> \E l \in Visited : l.path = p
             /\ \A p : p \in flat <=> \E l \in Visited : l.path = p /\ l.value # Null
             /\ \A l, m \in Visited : l.path = m.path => l = m
        /\ status \in {"merge", "loaded"} =>
             /\ todo = {}
             /\ ~\E p, q \in flat : p # q /\ IsPrefix(p, q)
        /\ status = "error" => Ambiguous
        /\ status = "loaded" =>
             conf = Layer(Layer(Layer({}, Default, "default"), flat, "file"), env, "env")

LEMMA InitFInv == FileInit => FInv
BY Zenon DEF FileInit, FInv, Visited

LEMMA NextFInv == FInv /\ [FileNext]_fileVars => FInv'
<1> SUFFICES ASSUME FInv, [FileNext]_fileVars PROVE FInv'
  BY Zenon
<1>1. ASSUME NEW l \in Leaf, Visit(l) PROVE FInv'
  <2>1. CASE l.path \in spelled
    <3>1. PICK m \in Visited : m.path = l.path
      BY <1>1, <2>1, Zenon DEF FInv, Visit
    <3>2. m # l /\ m \in file /\ l \in file
      BY <1>1, <3>1, Zenon DEF FInv, Visit, Visited
    <3>3. Ambiguous'
      BY <1>1, <3>1, <3>2, Zenon DEF Ambiguous, Visit
    <3> QED
      BY <1>1, <2>1, <3>3, Zenon DEF FInv, Visit
  <2>2. CASE l.path \notin spelled
    <3>1. Visited' = Visited \cup {l}
      BY <1>1 DEF FInv, Visit, Visited
    <3>2. \A m \in Visited : m.path # l.path
      BY <1>1, <2>2, Zenon DEF FInv, Visit
    <3>3. \A p : p \in spelled' <=> \E m \in Visited' : m.path = p
      BY <1>1, <2>2, <3>1, SMTT(60) DEF FInv, Visit
    <3>4. \A p : p \in flat' <=> \E m \in Visited' : m.path = p /\ m.value # Null
      BY <1>1, <2>2, <3>1, SMTT(60) DEF FInv, Visit
    <3>5. \A m, k \in Visited' : m.path = k.path => m = k
      BY <1>1, <3>1, <3>2, Zenon DEF FInv, Visit
    <3>6. status' = "flatten" /\ file' = file /\ todo' \subseteq file
      BY <1>1, <2>2, Zenon DEF FInv, Visit
    <3> QED
      BY <3>3, <3>4, <3>5, <3>6, Zenon DEF FInv
  <2> QED
    BY <2>1, <2>2, Zenon
<1>2. CASE Collide
  <2>1. CASE \E p, q \in flat : p # q /\ IsPrefix(p, q)
    <3>1. PICK p \in flat, q \in flat : p # q /\ IsPrefix(p, q)
      BY <2>1, Zenon
    <3>2. PICK l \in Visited : l.path = p /\ l.value # Null
      BY <1>2, <3>1, Zenon DEF FInv, Collide
    <3>3. PICK m \in Visited : m.path = q /\ m.value # Null
      BY <1>2, <3>1, Zenon DEF FInv, Collide
    <3>4. Ambiguous
      BY <3>1, <3>2, <3>3, Zenon DEF Ambiguous, Visited
    <3>5. status' = "error" /\ UNCHANGED <<file, todo>>
      BY <1>2, <2>1, Zenon DEF Collide
    <3> QED
      BY <3>4, <3>5, Zenon DEF FInv, Ambiguous
  <2>2. CASE ~\E p, q \in flat : p # q /\ IsPrefix(p, q)
    <3>1. status' = "merge" /\ todo = {} /\ UNCHANGED <<file, todo, flat, spelled>> /\ Visited' = Visited
      BY <1>2, <2>2, Zenon DEF Collide, Visited
    <3> QED
      BY <1>2, <2>2, <3>1, Zenon DEF FInv, Collide
  <2> QED
    BY <2>1, <2>2, Zenon
<1>3. CASE Merge
  <2>1. Visited' = Visited
    BY <1>3, Zenon DEF Merge, Visited
  <2> QED
    BY <1>3, <2>1, Zenon DEF FInv, Merge
<1>4. CASE UNCHANGED fileVars
  <2>1. Visited' = Visited /\ Ambiguous' = Ambiguous
    BY <1>4, Zenon DEF fileVars, Visited, Ambiguous
  <2> QED
    BY <1>4, <2>1, Zenon DEF FInv, fileVars
<1> QED
  BY <1>1, <1>2, <1>3, <1>4, Zenon DEF FileNext

LEMMA FileInvariance == FileSpec => []FInv
BY InitFInv, NextFInv, PTL DEF FileSpec

\* Exactly the ambiguous files are refused, in whatever order Go visits the maps.
THEOREM RefusedIffAmbiguous == FileSpec => []OrderDoesNotMatter
<1>1. FInv => OrderDoesNotMatter
  <2> SUFFICES ASSUME FInv, status \in {"merge", "loaded"} PROVE ~Ambiguous
    BY Zenon DEF FInv, OrderDoesNotMatter
  <2>1. Visited = file
    BY Zenon DEF FInv, Visited
  <2>2. \A l, m \in file : l.path = m.path => l = m
    BY <2>1, Zenon DEF FInv
  <2>3. \A l \in file : l.value # Null => l.path \in flat
    BY <2>1, Zenon DEF FInv
  <2> QED
    BY <2>2, <2>3, Zenon DEF FInv, Ambiguous
<1> QED
  BY <1>1, FileInvariance, PTL

\* A default is lost only to a value that the file or the environment gives.
THEOREM DefaultsAreKept == FileSpec => []DefaultsSurvive
<1>1. FInv => DefaultsSurvive
  <2> SUFFICES ASSUME FInv, status = "loaded", NEW p \in Default,
                      \A q \in env : ~Overlap(q, p),
                      \A l \in file : ~(l.value # Null /\ Overlap(l.path, p))
               PROVE  [path |-> p, from |-> "default"] \in conf
    BY ZenonT(40) DEF DefaultsSurvive
  <2> DEFINE e == [path |-> p, from |-> "default"]
  <2>1. \A q \in flat : ~Overlap(q, p)
    BY DEF FInv, Visited
  <2>2. e \in Layer({}, Default, "default")
    BY Zenon DEF Layer
  <2>3. e \in Layer(Layer({}, Default, "default"), flat, "file")
    BY <2>1, <2>2, Zenon DEF Layer
  <2>4. e \in Layer(Layer(Layer({}, Default, "default"), flat, "file"), env, "env")
    BY <2>3, Zenon DEF Layer
  <2> QED
    BY <2>4, Zenon DEF FInv
<1> QED
  BY <1>1, FileInvariance, PTL

-----------------------------------------------------------------------------
(* Wiring *)

\* What run() relies on: past validateConfig the configuration is a valid one, and
\* what has been built is what it asks for.
WInv == /\ config \in Config
        /\ at \in {"validate", "store", "issuer", "oauth", "wallet", "running",
                   "refused", "unreachable", "unreadable"}
        /\ at \notin {"validate", "refused"} => validateConfig(config)
        /\ built \in [store : {"none", "postgres", "memory"}, key : {"none", "ephemeral", "configured"},
                      oauth : SUBSET {"google"}, chains : ChainLists \cup {<<>>}]
        /\ at \in {"wallet", "running"} =>
             built.oauth = (IF config.google.id # "" THEN {"google"} ELSE {})
        /\ at = "running" =>
             built.chains = (IF config.wallet.domain = "" THEN <<>> ELSE config.chains)

\* A list that parseEVMChains accepts has as many names as entries, so that
\* NewDispatcher does not find a chain twice.
LEMMA ParsedDispatches == ASSUME NEW list \in ChainLists, parseEVMChains(list)
                          PROVE  NewDispatcher(list)
<1> DEFINE names == {list[i].name : i \in DOMAIN list}
           f == [i \in DOMAIN list |-> list[i].name]
<1>1. Len(list) \in Nat /\ DOMAIN list = 1..Len(list)
  BY WiringAssumption, Zenon
<1>2. f \in Bijection(DOMAIN list, names)
  <2>1. f \in [DOMAIN list -> names]
    BY Zenon
  <2>2. \A i, j \in DOMAIN list : f[i] = f[j] => i = j
    BY Zenon DEF parseEVMChains
  <2>3. \A t \in names : \E i \in DOMAIN list : f[i] = t
    BY Zenon
  <2> QED
    BY <2>1, <2>2, <2>3, Fun_IsBij, Zenon
<1>3. ExistsBijection(DOMAIN list, names)
  BY <1>2, Zenon DEF ExistsBijection
<1>4. IsFiniteSet(DOMAIN list) /\ Cardinality(DOMAIN list) = Len(list)
  <2>0. 1 \in Int /\ Len(list) \in Int
    BY <1>1
  <2>1. /\ IsFiniteSet(1..Len(list))
        /\ Cardinality(1..Len(list)) = IF 1 > Len(list) THEN 0 ELSE Len(list) - 1 + 1
    BY <2>0, FS_Interval, Zenon
  <2> QED
    BY <1>1, <2>1, SMTT(60)
<1>5. Cardinality(names) = Cardinality(DOMAIN list)
  BY <1>3, <1>4, FS_Bijection, Zenon
<1> QED
  BY <1>4, <1>5, Zenon DEF NewDispatcher

LEMMA InitWInv == WiringInit => WInv
BY DEF WiringInit, WInv, Nothing

LEMMA NextWInv == WInv /\ [WiringNext]_wiringVars => WInv'
<1> SUFFICES ASSUME WInv, [WiringNext]_wiringVars PROVE WInv'
  BY Zenon
<1> USE DEF GoTo, Abort
<1>1. CASE LoadConfig
  BY <1>1, Zenon DEF WInv, LoadConfig
<1>2. CASE OpenStore
  BY <1>2, Zenon DEF WInv, OpenStore
<1>3. CASE createTokenIssuer
  BY <1>3, Zenon DEF WInv, createTokenIssuer
<1>4. CASE createOAuthProviders
  <2>1. validateOAuthClient(config.google)
    BY <1>4, Zenon DEF WInv, createOAuthProviders, validateConfig
  <2>2. config.google.id # "" => config.google.secret # "" /\ config.google.uris > 0
    BY <2>1, Zenon DEF validateOAuthClient
  <2> QED
    BY <1>4, <2>2, Zenon DEF WInv, createOAuthProviders
<1>5. CASE createWalletDispatcher
  <2>1. validateWallet(config) /\ config.chains \in ChainLists
    BY <1>5, Zenon DEF WInv, createWalletDispatcher, validateConfig, Config
  <2>2. NewDispatcher(config.chains)
    BY <2>1, ParsedDispatches, Zenon DEF validateWallet
  <2>3. config.wallet.domain # "" => WithWallet(config.wallet)
    BY <2>1, Zenon DEF validateWallet, WithWallet
  <2>4. parseEVMChains(config.chains)
    BY <2>1, Zenon DEF validateWallet
  <2>5. at' = "running"
    BY <1>5, <2>2, <2>3, <2>4, Zenon DEF createWalletDispatcher
  <2> QED
    BY <1>5, <2>1, <2>5, Zenon DEF WInv, createWalletDispatcher
<1>6. CASE UNCHANGED wiringVars
  BY <1>6, Zenon DEF WInv, wiringVars
<1> QED
  BY <1>1, <1>2, <1>3, <1>4, <1>5, <1>6, Zenon DEF WiringNext

LEMMA WiringInvariance == WiringSpec => []WInv
BY InitWInv, NextWInv, PTL DEF WiringSpec

\* No configuration that validateConfig accepts makes run() fail or panic while it
\* builds the service, but for the database and the key: for any lists of chains.
THEOREM ValidConfigurationsStart == WiringSpec => []AcceptedStarts
<1>1. WInv => AcceptedStarts
  BY Zenon DEF WInv, AcceptedStarts
<1> QED
  BY <1>1, WiringInvariance, PTL

\* Google's client with any setting, and wallet sign-in with a domain or a URI, are
\* refused or served, never dropped (validateOAuthClient, validateWallet).
THEOREM NothingIsDropped == WiringSpec => []WhatIsSetIsOn
<1>1. WInv => WhatIsSetIsOn
  <2> SUFFICES ASSUME WInv, at = "running"
               PROVE  /\ config.google # [id |-> "", secret |-> "", uris |-> 0] => built.oauth = {"google"}
                      /\ config.wallet.domain # "" \/ config.wallet.uri # "" => built.chains = config.chains
    BY Zenon DEF WhatIsSetIsOn
  <2>1. validateOAuthClient(config.google) /\ validateWallet(config)
    BY Zenon DEF WInv, validateConfig
  <2>2. config.google = [id |-> config.google.id, secret |-> config.google.secret, uris |-> config.google.uris]
    BY Zenon DEF WInv, Config, OAuthClient
  <2>3. config.google # [id |-> "", secret |-> "", uris |-> 0] => config.google.id # ""
    BY <2>1, <2>2, Zenon DEF validateOAuthClient
  <2>4. config.wallet.uri # "" => config.wallet.domain # ""
    BY <2>1, Zenon DEF validateWallet
  <2> QED
    BY <2>3, <2>4, Zenon DEF WInv
<1> QED
  BY <1>1, WiringInvariance, PTL

-----------------------------------------------------------------------------
(* Server *)

\* The states of a connection.
ConnState == {"none", "idle", "received", "rotating", "rotated", "saving", "answering"}

ServerTypeOK == /\ main \in {"load", "connect", "wire", "listen", "serve", "drain", "cleanup"}
                /\ conn \in [Conn -> ConnState]
                /\ pool \in {"none", "open", "closing", "closed"}
                /\ result \in {"nil", "error"}
                /\ exit \in {"running", "ok", "error", "killed"}
                /\ accept \in {"off", "running", "failed"}
                /\ expired \in BOOLEAN /\ torn \in BOOLEAN

\* There are connections only once run() serves.  The pool is open, if there is
\* one, until run() returns; from then on no connection is left, unless the drain
\* timed out; and no refresh has been torn before the process ends.
SInv == /\ ServerTypeOK
        /\ main \in {"load", "connect", "wire", "listen"} =>
             accept = "off" /\ \A c \in Conn : conn[c] = "none"
        /\ main \in {"drain", "cleanup"} => accept = "off"
        /\ main # "cleanup" => pool \in {"none", "open"} /\ ~expired /\ exit \in {"running", "killed"}
        /\ main = "cleanup" => pool # "open" /\ (expired \/ \A c \in Conn : conn[c] = "none")
        /\ expired => result = "error"
        /\ torn => expired \/ exit = "killed"
        /\ exit = "ok" => main = "cleanup" /\ result = "nil"

LEMMA InitSInv == ServerInit => SInv
BY ZenonT(40) DEF ServerInit, SInv, ServerTypeOK, ConnState

LEMMA NextSInv == SInv /\ [ServerNext]_serverVars => SInv'
<1> SUFFICES ASSUME SInv, [ServerNext]_serverVars PROVE SInv'
  BY Zenon
<1> USE DEF SInv, ServerTypeOK, ConnState, Alive, HalfDone
<1>1. CASE Load
  BY <1>1, Zenon DEF Load, Return
<1>2. CASE Connect
  BY <1>2, Zenon DEF Connect, Return
<1>3. CASE Wire
  BY <1>3, Zenon DEF Wire, Return
<1>4. CASE Listen
  BY <1>4, Zenon DEF Listen, Return
<1>5. CASE Serve
  BY <1>5, Zenon DEF Serve
<1>6. CASE Drain
  BY <1>6, Zenon DEF Drain, Return
<1>7. CASE DrainTimeout
  BY <1>7, Zenon DEF DrainTimeout, Return
<1>8. CASE Exit
  BY <1>8, Zenon DEF Exit
<1>9. CASE Signal
  <2>1. CASE handler = "context"
    BY <1>9, <2>1 DEF Signal
  <2>2. CASE handler = "default"
    <3>1. exit' = "killed" /\ torn' \in BOOLEAN /\ main' = main
      BY <1>9, <2>2, Zenon DEF Signal
    <3>2. UNCHANGED <<main, conn, accept, pool, expired, result>>
      BY <1>9, Zenon DEF Signal
    <3> QED
      BY <3>1, <3>2, Zenon
  <2> QED
    BY <1>9, <2>1, <2>2, Zenon DEF Signal
<1>10. CASE Stop \/ AcceptFails
  BY <1>10, SMTT(60) DEF Stop, AcceptFails
<1>11. ASSUME NEW c \in Conn, Accept(c) \/ Receive(c) PROVE SInv'
  BY <1>11, SMTT(60) DEF Accept, Receive
<1>12. ASSUME NEW c \in Conn, Begin(c) PROVE SInv'
  BY <1>12 DEF Begin
<1>13. ASSUME NEW c \in Conn, Finish(c) \/ Respond(c) PROVE SInv'
  BY <1>13 DEF Finish, Respond
<1>14. CASE UNCHANGED serverVars
  BY <1>14, Zenon DEF serverVars
<1> QED
  BY <1>1, <1>2, <1>3, <1>4, <1>5, <1>6, <1>7, <1>8, <1>9, <1>10, <1>11, <1>12, <1>13, <1>14, Zenon
     DEF ServerNext, Run

LEMMA ServerInvariance == ServerSpec => []SInv
BY InitSInv, NextSInv, PTL DEF ServerSpec

\* serve drains before run() closes the pool, so a refresh is stopped between its
\* two store calls only if the drain timed out or a signal killed the process.
THEOREM NothingTorn == ServerSpec => []TornOnlyIfForced
<1>1. SInv => TornOnlyIfForced
  BY Zenon DEF SInv, TornOnlyIfForced
<1> QED
  BY <1>1, ServerInvariance, PTL

\* When run() returns without an error every request has been answered and the
\* pool is closed.
THEOREM SuccessIsDrained == ServerSpec => []SuccessMeansDrained
<1>1. SInv => SuccessMeansDrained
  BY Zenon DEF SInv, SuccessMeansDrained
<1> QED
  BY <1>1, ServerInvariance, PTL

-----------------------------------------------------------------------------
(* AccessTokens *)

\* A token was issued by a clock that was off by at most Skew, its claims are
\* reckoned from that reading and rounded down by less than a second, and its key
\* is the configured one if there is one.
TokenOK(t) == /\ t.at \in Int /\ t.iat \in Int /\ t.exp \in Int /\ t.nbf \in Int
              /\ t.at <= clock
              /\ t.iat <= t.at + Skew
              /\ t.nbf <= t.at + Skew
              /\ t.at - Skew + TTL - Second < t.exp /\ t.exp <= t.at + Skew + TTL
              /\ Configured => t.key = 0

AInv == /\ clock \in Int
        /\ key = [r \in Replica |-> key[r]]
        /\ Configured => \A r \in Replica : key[r] = 0
        /\ \A t \in tokens : TokenOK(t)

LEMMA Constants ==
  /\ TTL \in Nat /\ Tolerance \in Nat /\ Leeway \in Nat /\ Skew \in Nat
  /\ Second \in Nat \ {0} /\ 2 * Skew + Second - 1 <= Leeway
BY AccessTokensAssumption, ZenonT(40)

LEMMA RoundedDown ==
  ASSUME NEW t \in Int
  PROVE  NumericDate(t) \in Int /\ t - Second < NumericDate(t) /\ NumericDate(t) <= t
<1>1. t % Second \in 0..(Second - 1)
  BY Constants, SMTT(60)
<1> QED
  BY <1>1, Constants, SMTT(60) DEF NumericDate

LEMMA InitAInv == AccessInit => AInv
BY DEF AccessInit, AInv

LEMMA NextAInv == AInv /\ [AccessNext]_accessVars => AInv'
<1> SUFFICES ASSUME AInv, [AccessNext]_accessVars PROVE AInv'
  BY Zenon
<1> USE DEF AInv
<1>1. ASSUME NEW r \in Replica, Restart(r) PROVE AInv'
  BY <1>1, Zenon DEF Restart, TokenOK
<1>2. ASSUME NEW r \in Replica, GenerateTokens(r) PROVE AInv'
  <2>1. PICK now \in Reading :
          tokens' = tokens \cup {[key |-> key[r], iat |-> NumericDate(now),
                                  exp |-> NumericDate(now + TTL),
                                  nbf |-> NumericDate(now - Tolerance), at |-> clock]}
    BY <1>2, Zenon DEF GenerateTokens
  <2>2. now \in Int /\ clock - Skew <= now /\ now <= clock + Skew
    BY <2>1, Constants, SMTT(60) DEF Reading
  <2>3. UNCHANGED <<clock, key>>
    BY <1>2, Zenon DEF GenerateTokens
  <2>4. ASSUME NEW t \in tokens' PROVE TokenOK(t)'
    <3>1. CASE t \in tokens
      BY <2>3, <3>1, Zenon DEF TokenOK
    <3>2. CASE t = [key |-> key[r], iat |-> NumericDate(now), exp |-> NumericDate(now + TTL),
                    nbf |-> NumericDate(now - Tolerance), at |-> clock]
      <4>1. now + TTL \in Int /\ now - Tolerance \in Int
        BY <2>2, Constants
      <4>2. /\ t.iat \in Int /\ t.iat <= now
            /\ t.exp \in Int /\ (now + TTL) - Second < t.exp /\ t.exp <= now + TTL
            /\ t.nbf \in Int /\ t.nbf <= now - Tolerance
            /\ t.at = clock /\ t.key = key[r]
        <5>1. NumericDate(now) \in Int /\ NumericDate(now) <= now
          BY <2>2, RoundedDown, Zenon
        <5>2. /\ NumericDate(now + TTL) \in Int /\ NumericDate(now + TTL) <= now + TTL
              /\ (now + TTL) - Second < NumericDate(now + TTL)
          BY <4>1, RoundedDown, Zenon
        <5>3. /\ NumericDate(now - Tolerance) \in Int
              /\ NumericDate(now - Tolerance) <= now - Tolerance
          BY <4>1, RoundedDown, Zenon
        <5>4. /\ t.iat = NumericDate(now) /\ t.exp = NumericDate(now + TTL)
              /\ t.nbf = NumericDate(now - Tolerance) /\ t.at = clock /\ t.key = key[r]
          BY <3>2, SMTT(30)
        <5> QED
          BY <5>1, <5>2, <5>3, <5>4, ZenonT(40)
      <4> QED
        BY <2>2, <2>3, <4>2, Constants, SMTT(60) DEF TokenOK
    <3> QED
      BY <2>1, <2>4, <3>1, <3>2, Zenon
  <2> QED
    BY <2>3, <2>4, Zenon
<1>3. ASSUME NEW r \in Replica, NEW h, NEW cs, NEW t, Verify(r, h, cs, t) PROVE AInv'
  BY <1>3, ZenonT(40) DEF Verify, TokenOK
<1>4. CASE Tick
  BY <1>4 DEF Tick, TokenOK
<1>5. CASE UNCHANGED accessVars
  BY <1>5, Zenon DEF accessVars, TokenOK
<1> QED
  BY <1>1, <1>2, <1>3, <1>4, <1>5, Zenon DEF AccessNext

LEMMA Invariance == AccessSpec => []AInv
BY InitAInv, NextAInv, PTL DEF AccessSpec

\* With a configured key every replica accepts a token for all of the life its
\* client was told, whatever the clocks say, as long as they differ by less than
\* go-jose's leeway, less the second that rounding takes; ClockSkewTolerance is
\* not needed for that.
THEOREM TokensLiveThatLong == AccessSpec => []AcceptedForItsLife
<1>1. AInv => AcceptedForItsLife
  <2> SUFFICES ASSUME AInv, NEW t \in tokens, NEW r \in Replica, NEW now \in Reading,
                      Configured, clock <= t.at + TTL
               PROVE  ParseToken(key[r], t, now)
    BY Zenon DEF AcceptedForItsLife
  <2>1. TokenOK(t) /\ clock \in Int /\ t.key = key[r]
    BY Zenon DEF AInv, TokenOK
  <2>2. now \in Int /\ clock - Skew <= now /\ now <= clock + Skew
    BY <2>1, Constants, SMTT(60) DEF Reading
  <2>3. /\ now + Leeway >= t.iat
        /\ now + Leeway >= t.nbf
        /\ now - Leeway <= t.exp
    BY <2>1, <2>2, Constants, SMTT(60) DEF TokenOK
  <2> QED
    BY <2>1, <2>3, Zenon DEF ParseToken, Validate
<1> QED
  BY <1>1, Invariance, PTL

\* No replica accepts a token for longer than its life, the leeway and the
\* difference between two clocks.
THEOREM TokensLiveNoLonger == AccessSpec => []NotMuchLonger
<1>1. AInv => NotMuchLonger
  <2> SUFFICES ASSUME AInv, NEW t \in tokens, NEW r \in Replica, NEW now \in Reading,
                      clock > t.at + TTL + Leeway + 2 * Skew
               PROVE  ~ParseToken(key[r], t, now)
    BY Zenon DEF NotMuchLonger
  <2>1. TokenOK(t) /\ clock \in Int
    BY Zenon DEF AInv
  <2>2. now \in Int /\ clock - Skew <= now
    BY <2>1, Constants, SMTT(60) DEF Reading
  <2>3. ~(now - Leeway <= t.exp)
    BY <2>1, <2>2, Constants, SMTT(60) DEF TokenOK
  <2> QED
    BY <2>3, Zenon DEF ParseToken, Validate
<1> QED
  BY <1>1, Invariance, PTL

-----------------------------------------------------------------------------
(* Verify and /verify *)

\* What Handler.Verify makes of the two errors of Service.Verify.
LEMMA VerifyErrors == /\ verifyErrorToConnect({"InvalidCredentials"}) = "Unauthenticated"
                      /\ verifyErrorToConnect({"error"}) = "Internal"
<1> DEFINE rows == << <<{"InvalidCredentials"}, "Unauthenticated">> >>
           hits(err) == {i \in 1..Len(rows) : rows[i][1] \cap err # {}}
<1>1. Len(rows) = 1 /\ rows[1][1] = {"InvalidCredentials"} /\ rows[1][2] = "Unauthenticated"
  BY Zenon
<1>2. hits({"InvalidCredentials"}) = {1}
  BY <1>1
<1>3. hits({"error"}) = {}
  BY <1>1
<1>4. (CHOOSE i \in {1} : \A j \in {1} : i <= j) = 1
  OBVIOUS
<1>5. verifyErrorToConnect({"InvalidCredentials"}) = rows[1][2]
  BY <1>2, <1>4, SMTT(60) DEF verifyErrorToConnect, FirstMatch
<1>6. verifyErrorToConnect({"error"}) = internalError
  BY <1>3, Zenon DEF verifyErrorToConnect, FirstMatch
<1> QED
  BY <1>1, <1>5, <1>6, Zenon DEF internalError

\* The endpoint finds the token if the call does, or its first cookie is empty.
LEMMA CookiesAre == ASSUME NEW cs \in CookieLists
                    PROVE  /\ Cookie(cs) \in {"token", ""} /\ getCookieFromHeader(cs) \in {"token", ""}
                           /\ Cookie(cs) # "" => getCookieFromHeader(cs) = "token"
<1>1. PICK n \in 0..2 : cs \in [1..n -> {"token", ""}]
  BY Zenon DEF CookieLists
<1>2. CASE n = 0
  <2>1. cs \in Seq({"token", ""}) /\ Len(cs) = 0
    BY <1>1, <1>2, SeqDef, SMTT(60)
  <2>2. cs = <<>>
    BY <2>1, EmptySeq, Zenon
  <2> QED
    BY <2>2, Zenon DEF Cookie, getCookieFromHeader
<1>3. CASE n # 0
  <2>1. 1 \in 1..n
    BY <1>3
  <2>2. 1 \in DOMAIN cs /\ cs[1] \in {"token", ""}
    BY <1>1, <2>1, Zenon
  <2>3. cs # <<>>
    <3>1. <<>> \in Seq({"token", ""}) /\ Len(<<>>) = 0
      BY EmptySeq, Zenon
    <3>2. DOMAIN <<>> = 1..0
      BY <3>1, LenProperties, Zenon
    <3>3. 1 \notin 1..0
      OBVIOUS
    <3> QED
      BY <2>2, <3>2, <3>3, Zenon
  <2> QED
    BY <2>2, <2>3, Zenon DEF Cookie, getCookieFromHeader
<1> QED
  BY <1>2, <1>3, Zenon

\* The two agree on a request: either it is shadowed, or their answers correspond.
Corresponds(a, g, s) == IF s THEN g = 401
                             ELSE \/ a = "OK" /\ g = 200
                                  \/ a = "Unauthenticated" /\ g = 401
                                  \/ a = "Internal" /\ g = 500

LEMMA Corresponding == ASSUME NEW a, NEW g, NEW s \in BOOLEAN, Corresponds(a, g, s),
                              answers' = [rpc |-> a, gateway |-> g, shadowed |-> s]
                       PROVE  AnswersAgree'
<1>1. answers'.rpc = a /\ answers'.gateway = g /\ answers'.shadowed = s
  BY Zenon
<1>2. CASE s
  BY <1>1, <1>2, Zenon DEF AnswersAgree, Corresponds
<1>3. CASE ~s
  <2>1. ~answers'.shadowed
    BY <1>1, <1>3, Zenon
  <2>2. /\ answers'.rpc = "OK" <=> answers'.gateway = 200
        /\ answers'.rpc = "Unauthenticated" <=> answers'.gateway = 401
        /\ answers'.rpc = "Internal" <=> answers'.gateway = 500
    BY <1>1, <1>3, SMTT(60) DEF Corresponds
  <2> QED
    BY <2>1, <2>2, ZenonT(60) DEF AnswersAgree
<1> QED
  BY <1>2, <1>3, Zenon

\* One request, to both.
LEMMA OneRequest ==
  ASSUME NEW h \in Header, NEW cs \in CookieLists,
         NEW err \in {{}, {"InvalidCredentials"}, {"error"}}
  PROVE  Corresponds(HandlerVerify(h, cs, err), GatewayVerify(h, cs, err),
                     h = "" /\ Cookie(cs) # getCookieFromHeader(cs))
<1>1. /\ Cookie(cs) \in {"token", ""} /\ getCookieFromHeader(cs) \in {"token", ""}
      /\ Cookie(cs) # "" => getCookieFromHeader(cs) = "token"
  BY CookiesAre, Zenon
<1>2. CASE h = "other" \/ (h = "" /\ Cookie(cs) = "")
  <2>1. GatewayVerify(h, cs, err) = 401
    BY <1>2, Zenon DEF GatewayVerify
  <2>2. ~(h = "" /\ Cookie(cs) # getCookieFromHeader(cs)) => HandlerVerify(h, cs, err) = "Unauthenticated"
    BY <1>2, Zenon DEF HandlerVerify
  <2> QED
    BY <2>1, <2>2, Zenon DEF Corresponds
<1>3. CASE ~(h = "other" \/ (h = "" /\ Cookie(cs) = ""))
  <2>1. /\ ~(h = "" /\ Cookie(cs) # getCookieFromHeader(cs))
        /\ ~(h = "" /\ getCookieFromHeader(cs) = "")
    BY <1>1, <1>3, Zenon
  <2>2. HandlerVerify(h, cs, err) = IF err = {} THEN "OK" ELSE verifyErrorToConnect(err)
    BY <1>3, <2>1, Zenon DEF HandlerVerify
  <2>3. CASE err = {}
    <3>1. GatewayVerify(h, cs, {}) = 200
      BY <1>3, ZenonT(60) DEF GatewayVerify
    <3> QED
      BY <2>1, <2>2, <2>3, <3>1, Zenon DEF Corresponds
  <2>4. CASE err = {"InvalidCredentials"}
    <3>1. GatewayVerify(h, cs, {"InvalidCredentials"}) = 401
      <4>1. {"InvalidCredentials"} # {} /\ "InvalidCredentials" \in {"InvalidCredentials"}
        BY Zenon
      <4> QED
        BY <1>3, <4>1, Zenon DEF GatewayVerify
    <3>2. HandlerVerify(h, cs, err) = "Unauthenticated"
      <4>1. err # {}
        BY <2>4, Zenon
      <4> QED
        BY <2>2, <2>4, <4>1, VerifyErrors, Zenon
    <3>3. GatewayVerify(h, cs, err) = 401
      BY <2>4, <3>1, Zenon
    <3> QED
      BY <2>1, <3>2, <3>3, Zenon DEF Corresponds
  <2>5. CASE err = {"error"}
    <3>1. GatewayVerify(h, cs, {"error"}) = 500
      <4>1. {"error"} # {} /\ "InvalidCredentials" \notin {"error"}
        BY Zenon
      <4> QED
        BY <1>3, <4>1, ZenonT(60) DEF GatewayVerify
    <3>2. HandlerVerify(h, cs, err) = "Internal"
      <4>1. err # {}
        BY <2>5, Zenon
      <4> QED
        BY <2>2, <2>5, <4>1, VerifyErrors, Zenon
    <3>3. GatewayVerify(h, cs, err) = 500
      BY <2>5, <3>1, Zenon
    <3> QED
      BY <2>1, <3>2, <3>3, Zenon DEF Corresponds
  <2> QED
    BY <2>3, <2>4, <2>5, Zenon
<1> QED
  BY <1>2, <1>3, Zenon

\* Verify and /verify answer every request alike, for every header, list of
\* cookies, token and outcome of the lookup, but for a cleared first cookie.
THEOREM GatewayAgreesWithCall == AccessSpec => []AnswersAgree
<1>1. AccessInit => AnswersAgree
  BY DEF AccessInit, AnswersAgree
<1>2. AnswersAgree /\ [AccessNext]_accessVars => AnswersAgree'
  <2> SUFFICES ASSUME AnswersAgree, [AccessNext]_accessVars PROVE AnswersAgree'
    BY Zenon
  <2>1. ASSUME NEW r \in Replica, NEW h \in Header, NEW cs \in CookieLists, NEW t \in tokens,
               Verify(r, h, cs, t)
        PROVE  AnswersAgree'
    <3>1. PICK now \in Reading :
          \E err \in {IF ParseToken(key[r], t, now) THEN {} ELSE {"InvalidCredentials"}, {"error"}} :
            answers' = [rpc      |-> HandlerVerify(h, cs, err),
                        gateway  |-> GatewayVerify(h, cs, err),
                        shadowed |-> h = "" /\ Cookie(cs) # getCookieFromHeader(cs)]
      BY <2>1, Zenon DEF Verify
    <3>2. PICK err \in {{}, {"InvalidCredentials"}, {"error"}} :
            answers' = [rpc      |-> HandlerVerify(h, cs, err),
                        gateway  |-> GatewayVerify(h, cs, err),
                        shadowed |-> h = "" /\ Cookie(cs) # getCookieFromHeader(cs)]
      BY <3>1, Zenon
    <3> QED
      BY <3>2, OneRequest, Corresponding, Zenon
  <2>2. CASE UNCHANGED answers
    BY <2>2 DEF AnswersAgree
  <2> QED
    BY <2>1, <2>2, Zenon DEF AccessNext, Restart, GenerateTokens, Tick, accessVars
<1> QED
  BY <1>1, <1>2, PTL DEF AccessSpec
=============================================================================
