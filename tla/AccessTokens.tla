---------------------------- MODULE AccessTokens ----------------------------
(***************************************************************************)
(* Access tokens: JWTs that a replica signs and that every replica checks  *)
(* without a lookup.  Replicas restart and read clocks that are off by up  *)
(* to Skew.  Both ways to ask psina are here: the Verify call and the      *)
(* /verify endpoint for gateways.                                          *)
(*                                                                         *)
(* Signatures are ideal.  go-jose is external: the times of a token are    *)
(* whole seconds, of Second ticks each, and Validate allows for a Leeway   *)
(* of its own on every time it compares.  A request's cookies come in one  *)
(* Cookie line and without quotes, as browsers send psina's own: further   *)
(* lines are read by the endpoint only, and quotes taken off by it only.   *)
(***************************************************************************)
EXTENDS Integers, Sequences, FiniteSets, Responses

CONSTANTS Replica,
          TTL,          \* AccessTokenTTL
          Tolerance,    \* ClockSkewTolerance
          Leeway,       \* jwt.DefaultLeeway
          Skew,         \* how far a clock may be off
          Second,       \* the precision of the times in a token, in ticks
          Configured,   \* a private key is configured
          MaxClock, MaxRestarts, MaxTokens

\* Clocks may be off by what the leeway allows for, less what rounding takes.
ASSUME AccessTokensAssumption == /\ {TTL, Tolerance, Leeway, Skew, MaxClock, MaxRestarts, MaxTokens} \subseteq Nat
                                 /\ Second \in Nat \ {0}
                                 /\ 2 * Skew + Second - 1 <= Leeway
                                 /\ Configured \in BOOLEAN

VARIABLES clock,
          drawn,       \* keys generated so far
          key,         \* the key of each replica, 0 for the configured one
          tokens,      \* the tokens issued: claims, key, and the true time
          answers      \* of Verify and of /verify, to the same request, and whether
                       \* a cleared cookie came before the one with the token

accessVars == <<clock, drawn, key, tokens, answers>>

Reading == (clock - Skew)..(clock + Skew)

AccessInit == /\ clock = 0
              /\ drawn = 0
              /\ key = [r \in Replica |-> 0]
              /\ tokens = {}
              /\ answers = [rpc |-> "OK", gateway |-> 200, shadowed |-> FALSE]

-----------------------------------------------------------------------------
(* The issuer *)

\* Mutant: a key is generated at every start.
RestartEphemeral(r) == /\ drawn < MaxRestarts
                       /\ drawn' = drawn + 1
                       /\ key' = [key EXCEPT ![r] = drawn']
                       /\ UNCHANGED <<clock, tokens, answers>>

\* createTokenIssuer, as a replica starts again: the configured key, or a new one.
Restart(r) == /\ drawn < MaxRestarts
              /\ drawn' = drawn + 1
              /\ key' = [key EXCEPT ![r] = IF Configured THEN 0 ELSE drawn']
              /\ UNCHANGED <<clock, tokens, answers>>

\* jwt.NewNumericDate: Unix seconds, rounded down.
NumericDate(t) == t - (t % Second)

GenerateTokens(r) ==
  /\ Cardinality(tokens) < MaxTokens
  /\ \E now \in Reading :
       tokens' = tokens \cup {[key |-> key[r], iat |-> NumericDate(now), exp |-> NumericDate(now + TTL),
                               nbf |-> NumericDate(now - Tolerance), at |-> clock]}
  /\ UNCHANGED <<clock, drawn, key, answers>>

\* claims.Validate at now.
Validate(t, now) == /\ now + Leeway >= t.nbf
                    /\ now + Leeway >= t.iat
                    /\ now - Leeway <= t.exp

ParseToken(k, t, now) == t.key = k /\ Validate(t, now)

-----------------------------------------------------------------------------
(* Verify *)

\* What a request may carry, with cookies enabled: an Authorization header, and
\* cookies in the order the browser sends them, cleared ones ("") among them.
Header == {"", "Bearer token", "other"}
CookieLists == UNION {[1..n -> {"token", ""}] : n \in 0..2}

\* getCookieFromHeader: the first one that is not empty.
getCookieFromHeader(cs) == IF \E i \in DOMAIN cs : cs[i] # "" THEN "token" ELSE ""

\* Request.Cookie of net/http: the first one.
Cookie(cs) == IF cs = <<>> THEN "" ELSE cs[1]

\* Handler.Verify, given what Service.Verify says of the token.
HandlerVerify(header, cs, err) ==
  CASE header = "other" -> "Unauthenticated"
    [] header = "" /\ getCookieFromHeader(cs) = "" -> "Unauthenticated"
    [] OTHER -> IF err = {} THEN "OK" ELSE verifyErrorToConnect(err)

\* Mutant: every error is a refusal.
GatewayVerifyLumped(header, cs, err) ==
  IF header = "Bearer token" \/ (header = "" /\ Cookie(cs) # "")
    THEN IF err = {} THEN 200 ELSE 401
    ELSE 401

\* The /verify endpoint.
GatewayVerify(header, cs, err) ==
  CASE header = "other" -> 401
    [] header = "" /\ Cookie(cs) = "" -> 401
    [] OTHER -> CASE err = {} -> 200
                  [] "InvalidCredentials" \in err -> 401
                  [] OTHER -> 500

\* One request, to both.  Service.Verify parses a JWT; a personal access token is
\* looked up, which may fail, and is otherwise the business of PgPATs.
Verify(r, header, cs, t) ==
  /\ \E now \in Reading :
     \E err \in {IF ParseToken(key[r], t, now) THEN {} ELSE {"InvalidCredentials"}, {"error"}} :
       answers' = [rpc      |-> HandlerVerify(header, cs, err),
                   gateway  |-> GatewayVerify(header, cs, err),
                   shadowed |-> header = "" /\ Cookie(cs) # getCookieFromHeader(cs)]
  /\ UNCHANGED <<clock, drawn, key, tokens>>

Tick == /\ clock < MaxClock
        /\ clock' = clock + 1
        /\ UNCHANGED <<drawn, key, tokens, answers>>

AccessNext == \/ \E r \in Replica : \/ Restart(r) \/ GenerateTokens(r)
                                    \/ \E h \in Header, cs \in CookieLists, t \in tokens : Verify(r, h, cs, t)
              \/ Tick

AccessSpec == AccessInit /\ [][AccessNext]_accessVars

-----------------------------------------------------------------------------

\* A token is accepted for all of the life its client was told (ExpiresIn), by
\* every replica, restarted or not, whichever clocks the two read, if a key is
\* configured (ClockSkewTolerance "allows for clock drift between servers").
AcceptedForItsLife ==
  \A t \in tokens, r \in Replica, now \in Reading :
    Configured /\ clock <= t.at + TTL => ParseToken(key[r], t, now)

\* No token outlives that life by more than the leeway and the clocks' difference.
NotMuchLonger ==
  \A t \in tokens, r \in Replica, now \in Reading :
    clock > t.at + TTL + Leeway + 2 * Skew => ~ParseToken(key[r], t, now)

\* The call and the endpoint say the same of a request: a gateway lets through
\* what Verify accepts, and takes an outage for an outage ("Not 401: the gateway
\* would read an outage as log the user out").  The exception is a request whose
\* first cookie is a cleared one: the endpoint looks no further and answers 401.
\* Said of requests with one Cookie line and unquoted values.
AnswersAgree ==
  IF answers.shadowed
    THEN answers.gateway = 401
    ELSE /\ answers.rpc = "OK" <=> answers.gateway = 200
         /\ answers.rpc = "Unauthenticated" <=> answers.gateway = 401
         /\ answers.rpc = "Internal" <=> answers.gateway = 500
=============================================================================
