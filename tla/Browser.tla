------------------------------- MODULE Browser ------------------------------
(***************************************************************************)
(* A browser that keeps its session in cookies, against the service: the   *)
(* tabs of one browser share a cookie jar, their requests are those of     *)
(* Sessions, and the handlers read and write the jar.                      *)
(*                                                                         *)
(* The service was deployed before with other values of cookie.domain, and *)
(* is deployed again.  Its host has Labels labels; a cookie's scope is the *)
(* number of labels of its Domain, or 0 for a host-only cookie.  The       *)
(* access and the refresh cookie are set and cleared together and are one  *)
(* entry here.  The jar is the browser's: scopes are distinct entries, and *)
(* the browser sends all of them in some order.                            *)
(***************************************************************************)
EXTENDS Sessions

CONSTANTS Labels,      \* labels of the service's host name
          Moves,       \* pairs of values of cookie.domain between which it is deployed
          Legacy,      \* scopes of a cookie left behind before the first deployment
          Stale,       \* the token of that cookie
          MaxFaults    \* bound on failed calls and lost answers

ASSUME BrowserAssumption == /\ Labels \in Nat \ {0, 1}
                            /\ Moves \subseteq (2..Labels) \X (2..Labels)
                            /\ Legacy \subseteq {0} \cup 2..Labels
                            /\ Stale \in Hash
                            /\ MaxFaults \in Nat

VARIABLES domain,    \* cookieConfig.Domain, as deployed now
          jar,       \* the cookies, by scope
          mail,      \* the pair in each answer on its way, and its cookie domain
          left,      \* families ended by a logout
          faults

bvars == <<vars, domain, jar, mail, left, faults>>

Scope == {0} \cup 2..Labels

NoMail == [hash |-> NoHash, domain |-> 0]

BInit == /\ clock = 0 /\ users = User
         /\ tokens = [h \in Hash |-> NoToken]
         /\ issued = {Stale} /\ delivered = {Stale}
         /\ req = [r \in Request |-> Idle]
         /\ domain \in 2..Labels
         /\ jar = [s \in Scope |-> IF s \in Legacy THEN Stale ELSE NoHash]
         /\ mail = [r \in Request |-> NoMail]
         /\ left = {}
         /\ faults = 0

-----------------------------------------------------------------------------
(* The cookies of the handler *)

\* Mutant: down to the top-level domain, the configured one included.
parentDomainsAll(d) == 2..d

\* The broader domains, down to the one of two labels.
parentDomains(d) == 2..(d - 1)

\* Mutant: the host-only cookies alone.
clearLegacyScopedCookiesHostOnly(j, d) == [j EXCEPT ![0] = NoHash]

\* Expires the host-only cookies and those of the broader domains.
clearLegacyScopedCookies(j, d) ==
  [s \in Scope |-> IF s \in {0} \cup parentDomains(d) THEN NoHash ELSE j[s]]

setTokenCookies(j, d, h) == clearLegacyScopedCookies([j EXCEPT ![d] = h], d)

clearTokenCookies(j, d) == clearLegacyScopedCookies([j EXCEPT ![d] = NoHash], d)

\* getCookieFromHeader takes the first one that is not empty, in the browser's order.
Cookies == {jar[s] : s \in Scope} \ {NoHash}

-----------------------------------------------------------------------------
(* The tabs *)

Waiting(r) == req[r].pc # "idle"

\* A tab signs in: there is no session, and nothing else is going on.
SignIn(r, u) ==
  /\ \A s \in Request : ~Waiting(s)
  /\ Cookies \subseteq {Stale}
  /\ Login(r, u)
  /\ UNCHANGED <<domain, jar, mail, left, faults>>

\* Handler.Refresh, with the cookie.  An access token outlives its requests by
\* far, so no tab refreshes with a new cookie while an old one is being used.
SendRefresh(r) ==
  /\ \E h \in Cookies : /\ \A s \in Request : Waiting(s) => req[s].hash = h
                        /\ Refresh(r, h)
  /\ UNCHANGED <<domain, jar, mail, left, faults>>

SendLogout(r) ==
  /\ \E h \in Cookies : Logout(r, h)
  /\ UNCHANGED <<domain, jar, mail, left, faults>>

\* The service takes a step; what it fails to do or to say is a fault.
Serve(r) ==
  /\ Step(r)
  /\ mail' = [mail EXCEPT ![r] = IF issued' # issued /\ req'[r].answer = "ok"
                                   THEN [hash |-> CHOOSE h \in issued' \ issued : TRUE, domain |-> domain]
                                   ELSE [@ EXCEPT !.domain = domain]]
  /\ left' = IF req[r].pc = "end" THEN left \cup {req[r].root} ELSE left
  /\ faults' = IF req'[r].answer \in {"error", "survived"} THEN faults + 1 ELSE faults
  /\ faults' <= MaxFaults
  /\ UNCHANGED <<domain, jar>>

ServeFails(r) ==
  /\ faults < MaxFaults
  /\ Fail(r)
  /\ faults' = faults + 1
  /\ UNCHANGED <<domain, jar, mail, left>>

\* The tab is done with its request.
Settle(r) == /\ req[r].pc = "done"
             /\ req' = [req EXCEPT ![r] = Idle]
             /\ mail' = [mail EXCEPT ![r] = NoMail]
             /\ UNCHANGED <<clock, users, tokens, issued, delivered, domain, left>>

\* The answer reaches the browser.  Handlers set cookies on success, and leave
\* them alone on any error, so that the client can retry.
Deliver(r) ==
  /\ Settle(r)
  /\ jar' = CASE req[r].answer = "ok" /\ req[r].op # "Logout" ->
                   setTokenCookies(jar, mail[r].domain, mail[r].hash)
              [] req[r].answer = "ok" /\ req[r].op = "Logout" ->
                   clearTokenCookies(jar, mail[r].domain)
              [] OTHER -> jar
  /\ UNCHANGED faults

Lose(r) == /\ faults < MaxFaults
           /\ Settle(r)
           /\ faults' = faults + 1
           /\ UNCHANGED jar

\* cookie.domain is changed and the service deployed again.
Deploy(d) == /\ <<domain, d>> \in Moves
             /\ domain' = d
             /\ UNCHANGED <<vars, jar, mail, left, faults>>

\* Time passes, but requests do not take, and tabs do not leave, more than the
\* leeway between a rotation and the next use of the same token.
InTime(h) == Stored(tokens, h) /\ tokens[h].rotatedAt # NoTime =>
               clock + 1 - tokens[h].rotatedAt <= Leeway

Pass == /\ \A h \in Cookies : InTime(h)
        /\ \A r \in Request : req[r].hash # NoHash => InTime(req[r].hash)
        /\ \A r \in Request : req[r].at # NoTime => clock + 1 - req[r].at <= Leeway
        /\ Tick
        /\ UNCHANGED <<domain, jar, mail, left, faults>>

BNext == \/ \E r \in Request : \/ \E u \in User : SignIn(r, u)
                               \/ SendRefresh(r) \/ SendLogout(r)
                               \/ Serve(r) \/ ServeFails(r) \/ Deliver(r) \/ Lose(r)
         \/ \E d \in 2..Labels : Deploy(d)
         \/ Pass

BSpec == BInit /\ [][BNext]_bvars

-----------------------------------------------------------------------------

\* The deployment of today has answered with success, and the answer arrives.
Arrives(r, ops) == /\ req[r].pc = "done" /\ req'[r].pc = "idle" /\ faults' = faults
                   /\ req[r].answer = "ok" /\ req[r].op \in ops
                   /\ mail[r].domain = domain

\* When a sign-in or a refresh reaches the browser, its pair is there and no
\* other cookie is (setTokenCookies: "so the fresh Domain-scoped cookies are the
\* only ones the browser sends back"), after deployments whose cookies were
\* host-only or had the domain of today or a broader one: those are the scopes
\* that clearLegacyScopedCookies knows of.
FreshCookiesOnly ==
  [][\A r \in Request : Arrives(r, {"Login", "Refresh"}) =>
       {jar'[s] : s \in Scope} \ {NoHash} = {mail[r].hash}]_bvars

\* A logout that reaches the browser takes every cookie with it
\* (clearTokenCookies: "so logout leaves nothing behind"), after the same
\* deployments.
LogoutLeavesNothing ==
  [][\A r \in Request : Arrives(r, {"Logout"}) => \A s \in Scope : jar'[s] = NoHash]_bvars

\* Tabs that refresh at the same time and requests that are retried in time do
\* not lose the session: a refresh is rejected only after a logout
\* (WithRefreshReuseLeeway: "It absorbs duplicate refreshes from one client (two
\* tabs, a retried request)").
StaysSignedIn ==
  \A r \in Request :
    req[r].op = "Refresh" /\ req[r].answer \in {"rejected", "survived"} /\ Stored(tokens, req[r].hash) =>
      familyRoot(req[r].hash, tokens[req[r].hash]) \in left
=============================================================================
