# psina in TLA+

A verification development of psina, the authentication service in `src/`: what
its parts promise, models of them that TLC checks on small instances, and proofs
that TLAPS checks for every instance. Paths below are relative to `src/`.

- [Inventory](#inventory): the system's parts, their state, how they interact
- [Modules](#modules): what is modelled, and how it corresponds to the code
- [Runs](#runs): what TLC checks, the bounds, the mutants
- [Proofs](#proofs): the theorems and the argument behind them
- [Findings](#findings): where code and documentation disagree
- [Not modelled](#not-modelled)

## Inventory

| Part | State | Operations | Correct when |
| --- | --- | --- | --- |
| **Sessions** (`auth/service.go`) | none of its own: local variables of the requests in flight | `Register`, `Login`, `Refresh`, `Logout`, `issueTokens` | an ended session stays ended whatever is in flight; a refresh rotates a token once; a duplicate refresh does not end a session; a client is told "rejected" only when its session is over |
| **Token store** (`store/memory`, `store/postgres`) | the refresh-token table: owner, parent, expiry, revoked, rotated_at, ended_at | save, get, rotate, family summary, revoke family | each operation is atomic; families are flat and whole; a revocation misses no member |
| **User, credential, identity stores** | users by id and email, password hashes, OAuth and wallet links | create, get, delete (cascades), save/get | an email, a provider account, a wallet belongs to one user; nothing outlives its user |
| **Challenge store** | nonces with expiry, shared by OAuth states and wallet sign-in | save, get, delete | a challenge is used at most once, before it expires, by the flow it was issued for |
| **Local provider** (`provider/local`) | — | `Register` (create, save hash, compensating delete), `Authenticate` | a failed registration leaves the email free |
| **OAuth sign-in** (`auth/oauth.go`) | state challenge, binding cookie | `GetOAuthURL`, `OAuthCallback`, `resolveOAuthUser`, `checkAutoLink`, `discardUnlinkedUser` | one user per provider account; accounts holding a password are not auto-linked; a rollback deletes only what it created |
| **Wallet sign-in** (`auth/wallet.go`) | challenge | `GetChallenge`, `AuthenticateWallet`, `resolveWalletUser`, `discardWalletUser` | one user per wallet; one sign-in per signature |
| **Personal access tokens** (`auth/service.go`, stores) | tokens with owner, expiry, last use | create with cap, verify, touch, list, revoke | parallel creates respect the cap; a revoked token is refused |
| **Handlers, cookies** (`auth/handler.go`) | the client's cookies | one per RPC, cookie writing and clearing | a storage failure never looks like a rejection; no stale cookie shadows a new one |
| **Audit** (`auth/audit.go`) | log | one event per outcome | every outcome recorded under the right user and reason |
| **Token issuer** (`token/issuer.go`) | keys | generate, parse, hash | hashes are not drawn twice |
| **Config, client address, server** (`cmd/psina`, `auth/clientip.go`) | settings; listener and pool | load, validate; `clientIP`; serve and drain | settings are refused when inconsistent; requests drain before the pool closes |

**How they interact.** Each RPC is served by its own goroutine: handler → service
→ store calls. Requests share nothing but the stores. A store call is atomic (a
mutex in memory, a statement or a transaction in PostgreSQL) and a service
operation is several store calls with no transaction around them, so everything
another request does can land in between. Replicas read their own clocks. A
store call can fail, a request's context can be cancelled, a process can stop
between two calls, and an answer can be lost after its effect.

**What is hard.** Rotating a token and saving its successor are two calls; so are
judging a replay a duplicate and saving a successor for it; so are creating a
user and linking it. Compensating deletes race with what has happened to the
user since. Times from several clocks are compared with each other. In PostgreSQL
the atomicity of the family operations rests on the order of row locks. The
`hazards` of `PROJECT.json` list each of these at the line where it bites.

## Modules

| Module | Models |
| --- | --- |
| `TokenStore` | the refresh-token table and the operations on it, as functions of the table (`store/memory/memory.go`) |
| `Sessions` | `Login`, `Refresh`, `Logout` of `auth.Service`, store call by store call |
| `AtomicTokenStore` | what `Sessions` takes a token store to be: calls that take effect in one step between call and answer |
| `PgTokenStore` | the token store of `store/postgres`, statement by statement with row locks; implements `AtomicTokenStore` |
| `Stores` | what both stores have in common: values, answers |
| `MemoryStore`, `PostgresStore` | users, passwords, links, personal access tokens, challenges: every call of either store as a function of its contents |
| `StoreParity` | every call made on both stores |
| `Challenges` | OAuth states and wallet nonces, from issue to consumption, over `PostgresStore` |
| `OneShot` | what a challenge promises; `Challenges` implements it |
| `Accounts` | `Register`, `Login`, `resolveOAuthUser`, `resolveWalletUser` with their rollbacks, over `PostgresStore`; the audit records |
| `Responses` | the switches that turn errors into codes and audit reasons |
| `PgPATs` | personal access tokens: handlers and service call by call, `SavePATLimited` statement by statement |
| `AccessTokens` | JWTs: issue, parse, keys over restarts, `Verify` and `/verify` |
| `Browser` | the cookies of the handlers and a browser with tabs, composed with `Sessions` |
| `Server` | `run()`, signals, `serve` and the drain, the pool |
| `ConfigFile` | `loadConfig`: layers, duplicate keys, nulls |
| `Wiring` | `validateConfig` and what `run()` builds from an accepted configuration |
| `ClientIP` | `clientIP`, `forwardedFor`, `parseTrustedProxies` |
| `MC...` | instances for TLC: symmetry, constants that a cfg cannot write |
| `MCProgram`, `MCRequests` | several small components in one instance: a behaviour is one component's (`part`), the others stay where they start |
| `TokenStoreProofs`, `SessionsProofs`, `PgTokenStoreProofs`, `ParityProofs` (of `StoreParity`), `AccountsProofs`, `ChallengesProofs`, `PgPATsProofs`, `ProgramProofs` (of `AccessTokens`, `Server`, `ConfigFile`, `Wiring`) | the theorems |

How they fit together: `Sessions` and `Browser` use the operators of
`TokenStore`; `PgTokenStore` shows that the statements of PostgreSQL give those
operators' atomicity. `Accounts`, `Challenges` and `PgPATs` use the calls of
`PostgresStore`; `StoreParity` shows that `MemoryStore` answers alike. `Accounts`
begins where `Challenges` ends and ends where the sign-in of `Sessions` begins.

### TokenStore

`tokens` is a function from hashes to token records, `NoToken` where the Go map
has no entry. `EndedAt` is only ever compared with nil and is the boolean
`ended`; `RotatedAt` is a time or `NoTime`; `CreatedAt` is never read and is left
out. The operations keep the names of the code: `RotateRefreshToken`,
`SaveRefreshToken` (its guard is `MayJoin`), `RevokeTokens`, `familyRoot`;
`SessionEnded` and `Rotations` are the two halves of `GetRefreshFamily`;
`DeleteTokensOf` is the cascade of a user's deletion.

Operators whose comment says *mutant* are not used by the model. Each is a
plausible mistake in the definition after it, put in its place to see that a
property notices.

### Sessions

| Variable | Code |
| --- | --- |
| `clock` | the true time; `Reading` is what some replica's `s.now()` may return |
| `users`, `tokens` | the stores |
| `issued` | hashes drawn so far: `GenerateTokens` draws 32 random bytes, so a hash is never drawn twice |
| `delivered` | tokens whose pair reached a client; only these are presented |
| `req` | per request: operation, program counter, answer, and the locals (`now`, `rt`) |

One action is one store call and the code up to the next one:

| Action | Code |
| --- | --- |
| `Login` | `Login` up to the accepted credentials |
| `Refresh` | `Refresh` up to its reading of the clock |
| `Rotate`, `RotateRefused`, `Replay` | `RotateRefreshToken` and the branch taken: rotated; missing or expired; revoked, with the first half of `isDuplicateRefresh` |
| `FamilyCheck` | `GetRefreshFamily`, the second half of `isDuplicateRefresh` |
| `RevokeReusedFamily` | `revokeReusedFamily`, which swallows a failed `RevokeTokens` (answer `survived`) |
| `GetUser` | `userStore.GetByID` of `Refresh` and of `Login` |
| `IssueTokens`, `IssueRefused`, `IssueUserMissing` | `issueTokens` and the store's three answers |
| `Logout`, `LogoutLookup`, `LogoutEnd` | `Logout` |
| `Fail` | the store call returns an infrastructure error, the context is cancelled, or the process stops |
| `DeleteUser` | `userStore.Delete`, as the rollbacks of the sign-in paths call it |
| `Tick` | time passes |

A request is served once; a client that calls again is another request. What a
request answered stays in its record, so that properties can speak of answers
given earlier. A failure *after* the effect (the connection breaks when the
commit is through) is the effect followed by `Fail`, or the `error` alternative
of the calls that end an operation.

### PgTokenStore and AtomicTokenStore

A connection has one call at a time. `tokens` and `users` are the committed rows,
`locks` the row locks held. A statement sees the rows committed when it starts
(READ COMMITTED); a row that it locks or writes it waits for, and then sees as
last committed. `WriteRow` is a multi-row `UPDATE` or `DELETE` at one row of its
snapshot, in any order. A transaction's writes show at its commit.

| Action | Code (`store/postgres/postgres.go`) |
| --- | --- |
| `SaveLockRoot`, `SaveInsert`, `SaveCommit` | `SaveRefreshToken`: root `FOR SHARE`, `INSERT` with its foreign key |
| `RotateUpdate`, `RotateRead` | `RotateRefreshToken`: conditional `UPDATE`, then the read that explains why no row matched |
| `FamilyQuery` | `GetRefreshFamily` |
| `RevokeLock`, `RevokeUpdate`, `RevokeCommit` | `RevokeTokens`: root `FOR UPDATE`, then the `UPDATE` of the family |
| `DeleteUserRow`, `DeleteCascade`, `DeleteCommit` | `Delete` and the cascade of `schema.hcl` |
| `DeadlockAbort`, `Cancel` | PostgreSQL's deadlock detector; timeouts, cancelled contexts, broken connections |

The refinement mapping forgets the connection's position in its transaction
(`Abstract`); the effect of a call is its commit, or its last read. The lock
conflict table and the detector are external.

### The stores and StoreParity

`MemoryStore` is a record of maps, `PostgresStore` a record of sets of rows; each
call is a function to the new store, an error and a value. The unique indexes,
foreign keys and cascades of `schema.hcl` are in the PostgreSQL operators; the
memory store does the same by hand (`usersByEmail`, `requireUser`,
`DeleteOwned`). `StoreParity` makes every call on both, at any time and with any
arguments but that IDs, hashes and nonces are fresh when they are first stored.
`differ` is the last call if it was answered differently. `Read` identifies an
expired challenge with a missing one, as the service does.

### Challenges and OneShot

`Issue` is `GetOAuthURL` and `GetChallenge`; a request is `OAuthCallback` or
`AuthenticateWallet`, with whatever nonce, key and secret; `Check` is the read and
all comparisons, `Delete` the single-use gate. Secrets are ideal: a binding
is known by its nonce, a signature names its wallet and message. `StoreFails`
includes a delete that took effect and was not heard of.

### Accounts and Responses

One action is one store call; `req[r].pc` names the next one. `Outcomes` gives
each call its normal result or a failure, with or without effect; `Cancel` is a
client that goes away, after which every call in the request's context fails.
Rollbacks marked `CallDetached` run under `context.WithoutCancel`;
`RegisterRollback` does not. An error is the set of sentinels `errors.Is` finds
in it, so that the order of the cases in `Responses` matters as in the code.
`audit` collects the records of `auditSignIn`, `auditSignInFailure` and
`auditAccountChange`, each with the request it is about.

### PgPATs

`lock` is the transaction that holds a user's row. `LockUser`, `Prune`, `Insert`
and `Commit` are the statements of `SavePATLimited`; `GetPAT`, `GetUser`,
`TouchPAT` the calls of `verifyPAT`; `DeletePAT` the one of `RevokePAT`. All
replicas read one clock here: a prune is judged by the clock that verifies.

### AccessTokens

A token is its claims, its key and the true time of issue. `NumericDate` rounds
the claims down to whole seconds, of `Second` ticks each. `Validate` is
go-jose's comparison with its one-minute leeway (`Leeway`); `Skew` is how far a
clock is off. `Verify` asks the RPC and `/verify` with the same request;
`answers.shadowed` says that its first cookie was empty and a later one not. The
cookies of a request come in one `Cookie` line and without quotes, as browsers
send the ones that psina sets; how the two readers differ on several lines or on
quoted values is left out.

### Browser

Extends `Sessions` with a cookie jar. A cookie's scope is the number of labels of
its `Domain`, 0 for host-only; a browser keeps host-only cookies and cookies
with a `Domain` apart, and sends them all in some order. Access and refresh
cookie are set and cleared together and are one entry. `Deploy` changes
`cookie.domain` while answers written before are on their way. `Pass` lets time
pass only while every rotated token in use is within the leeway: the promise of
the leeway is to clients that retry in time, and about others `Sessions` speaks.

### Server

`run()` step by step (`main`), who gets a signal (`handler`), the HTTP server's
connections, each at a point of a refresh, and the pool. `http.Server`,
`signal.NotifyContext` and `pgxpool.Pool` are external.

### ConfigFile, Wiring, ClientIP

`Visit` takes one leaf of the YAML document, in any order; `Collide` is the
section check, `Merge` koanf's three layers. `Wiring` enumerates configurations
up to what the code tells apart. `ClientIP` keeps the structure of addresses at
2 and 4 bits, IPv4-mapped ones included.

## Runs

| Run | Checks | Instance |
| --- | --- | --- |
| `sessions` | `IInv`, `EndedSessionIsDead`, `LogoutIsFinal`, `RejectedIsDead`, `SessionKeepsClient`, `TokensMoveForward` | 1 user, 3 hashes, 4 requests, leeway 1, lifetime 2, clocks one tick off either way, clock to 1 |
| `sessions_strict` | `StrictRotation`, `OtherSessionsUntouched` | 2 users, 3 hashes, leeway 0, clock to 2 |
| `duplicate_latest` | `DuplicateIsLatest`, violated | leeway 1 |
| `pg_tokens` | `ImplementsAtomic`, `DeadlocksNeedADelete`, `EveryCallIsAnswered` | 2 connections, 2 hashes, live and expired rotations, fair |
| `parity` | `StoresAgree`, `SameContents` | 2 users, 1 each of address, password, account, wallet and challenge, 2 tokens with a cap of 1, at most 4 of the users, tokens and challenge drawn, clock to 1 |
| `missing_user` | `MissingUserIsNotFound`, violated | the same without addresses |
| `challenges` | `SingleUse`, `OnlyTheHolderPasses`, `NotBurnt`, `HolderGetsThrough` | 2 challenges, 2 requests, 2 redirect URIs, lifetime 1, clock to 2, fair |
| `accounts` | `NoStrandedAccounts`, `RollbackCleansUp`, `SignInIsLinked`, `PasswordAccountsAreNotLinked`, `OutageIsNoRejection`, `AuditAgreesWithAnswer`, `LinksOutliveRollbacks` | 3 requests, 3 users, 2 addresses, 1 provider account, 1 wallet, replicas with auto-link on and off, 1 fault |
| `pats` | `CapHolds`, `PrunedWasExpired`, `RevokedStaysRejected` | 2 users, 2 requests; either 2 tokens, cap 1, lifetime at most 1, every verification touches, clock to 2; or 1 token without a cap or a longest life, a touch once per tick, clock to 1 |
| `browser` | `StaysSignedIn`, `FreshCookiesOnly`, `LogoutLeavesNothing` | 2 tabs, 4 tokens, a host of 4 labels, cookies left behind in 2 scopes, `cookie.domain` narrowed, 1 fault, leeway 1, clock to 1 |
| `program` | `OrderDoesNotMatter`, `DefaultsSurvive` (`ConfigFile`); `AcceptedStarts`, `WhatIsSetIsOn` (`Wiring`); `TornOnlyIfForced`, `SuccessMeansDrained`, `SignalStops` (`Server`) | files of up to 3 entries over 4 paths in 2 spellings with every environment; every configuration, up to 2 chains; 3 connections, 2 signals |
| `requests` | `FindsTheClient` (`ClientIP`); `AcceptedForItsLife`, `AnswersAgree` (`AccessTokens`) | addresses of 2 and 4 bits, 2 proxies, 2 hops, 2 claims; 2 replicas, seconds of 2 ticks, lifetime 4, leeway 3, clocks one tick off, 1 restart |

What they show:

- **`EndedSessionIsDead`, `LogoutIsFinal`**: a refresh that had already rotated its
  token when the session ended cannot bring the session back, and siblings
  minted within the leeway end with it.
- **`RejectedIsDead`**: the answer that makes a client drop its session is given
  only when the token is gone, ended or expired (up to the skew of the clocks).
  The exception is a replay whose `RevokeTokens` failed, which the code logs.
- **`IInv`**: the inductive invariant of the proofs, and with it that the store's
  "user not found" from `SaveRefreshToken`, which `Refresh` does not translate,
  never reaches it: the cascade removes the family's root too, and the root is
  looked up first.
- **`SessionKeepsClient`**: nothing but a failed request separates a client from
  a session that goes on.
- **`TokensMoveForward`**, **`OtherSessionsUntouched`**: what no step may do.
- **`StrictRotation`**: with `0s` a session never forks.
- **`ImplementsAtomic`**: the row locks make a revocation and a concurrent save of
  a successor serialise, and the second read of a lost rotation never
  contradicts the update. So what is shown of `Sessions` holds on PostgreSQL.
- **`DeadlocksNeedADelete`, `EveryCallIsAnswered`**: refreshes and logouts cannot
  deadlock among themselves, because the root is locked first; with a user's
  deletion they can, and the detector gets everybody an answer.
- **`StoresAgree`, `SameContents`**: over any sequence of calls the memory store
  holds what the tables hold, cascades and expiry included, and answers as they
  do. `StoresAgree` names the two calls that are answered differently: the link of
  a taken account or wallet for a missing user, which both refuse (see
  [Findings](#findings)), and the delete of an expired challenge that memory has
  forgotten: a sign-in that read its challenge in time and deletes it too late,
  after another has read it, passes on PostgreSQL and fails on the memory store.
- **`SingleUse`, `OnlyTheHolderPasses`, `NotBurnt`, `HolderGetsThrough`**: one
  sign-in per challenge, by its holder and in its flow; and nobody else can use
  it up.
- **`NoStrandedAccounts`, `RollbackCleansUp`, `LinksOutliveRollbacks`**: the
  hand-written rollbacks leave nothing behind unless they fail themselves, and
  take nothing with them that stood when they began. The window between the
  check and the delete, which the code documents, is excluded by `stood`.
- **`SignInIsLinked`, `PasswordAccountsAreNotLinked`**: whoever wins a race, each
  sign-in acts for the user that its account or wallet is linked to, and a
  password account is not attached to. The second is about passwords that were
  there when the sign-in began; a later one is the window the code documents.
- **`OutageIsNoRejection`, `AuditAgreesWithAnswer`**: an outage is an internal error
  to the client, and the audit log holds an `internal_error` about a request
  exactly when its client was told so.
- **`CapHolds`, `PrunedWasExpired`, `RevokedStaysRejected`**: the lock on the user's
  row is what keeps the cap; pruning and verification agree at the boundary of
  the expiry; no touch brings a token back.
- **`TornOnlyIfForced`, `SuccessMeansDrained`, `SignalStops`**: a request in
  flight is cut off only by a signal that kills the process or by the end of the
  drain's time; `run()` reports success only if all were drained; a signal does
  end the process.
- **`StaysSignedIn`**: duplicate and retried refreshes keep the session, which is
  what the leeway is for.
- **`FreshCookiesOnly`, `LogoutLeavesNothing`**: hold for a `cookie.domain` that stays
  or is narrowed (see [Findings](#findings) for the other direction).
- **`OrderDoesNotMatter`, `DefaultsSurvive`, `AcceptedStarts`, `WhatIsSetIsOn`**: a
  configuration is refused or does what it says. Wallet sign-in counts as set
  with its domain or its URI; a statement or chains alone leave it off.
- **`FindsTheClient`**: the audit log's address is the client's, whatever a client
  outside the trusted nets claims; inside them, if it claims nothing, which is
  where the walk ends at the list's end or at garbage.
- **`AcceptedForItsLife`, `AnswersAgree`**: tokens live as announced on every
  replica, also when their times are rounded down; the gateway endpoint and the
  RPC agree, but for the cookie that is
  cleared and comes first (see [Findings](#findings)).

**Bounds.** In `Sessions` three hashes make a root with two successors, or two
sessions with one successor. Four requests let a sign-in, a refresh, its
duplicate and a logout overlap, or two sign-ins and two refreshes. With a
lifetime of 2 and a clock to 1 that is read one tick off either way, readings go
from -1 to 2: tokens expire, replays fall within and outside the leeway of 1, and
a rotation may lie in the reader's future. Without leeway and skew the clock goes
to 2, where tokens expire, and a second user joins.
In `PgTokenStore` two connections are every pair of calls, and two hashes a root
and its successor, so that a revocation's snapshot has two rows to be met in
either order; circles of three connections are not in the instance. One of each
kind of link suffices for `StoreParity`, since an operation names one of each,
and two users to contend for it; the state constraint `Few` leaves out only the
behaviours that draw both users, both tokens and the challenge, whose table no
other call touches, and `ParityProofs` covers any number of each. In `Browser` the
clock goes as far as the leeway, so that a duplicate may come on its last tick.
`StaysSignedIn` allows one fault: with two, and `cookie.domain` narrowed between two
refreshes that overlap, cookies of one session stay in two scopes and it is lost.
In `Challenges` two requests race for one
challenge while the other is issued, swept or expires; the clocks agree there,
and the proofs of `SingleUse` and `OnlyTheHolderPasses` cover clocks that do not.
In `Accounts` three requests are a race
and its witness, and a single fault (a failed call, a lost answer or a client
gone) hits any point of any of them; one provider account that reports one of
two addresses lets sign-ins meet on either, and a password may be wrong. The cap of `PgPATs` is reached and, without the lock,
exceeded with two tokens,
and a create overlaps every other call; each behaviour of that run is one of the
two deployments'. With seconds of two ticks a token may be issued on the second
or in the middle of it, and the clocks use up the leeway. Domains of four labels have broader
domains on both sides of the one-step neighbour. Addresses of 2 and 4 bits have
prefixes shorter than, equal to and longer than the IPv4-mapped marker.
`MaxClock`, `MaxFaults`, `MaxSignals`, `MaxRestarts`, `MaxTokens`, `MaxLeaves`,
`MaxHops` and `MaxClaims` are the bounds that are not the code's.

Symmetry is used over interchangeable model values, never in a run that checks
liveness. Deadlock is checked for `PgPATs`, whose requests come back; elsewhere
requests are served once, or the program ends, so that a behaviour may stop.

**Fairness.**

- `PgTokenStore`: strong fairness of a connection's next statement, since row locks
  are queued and a waiter's turn comes, and weak fairness of the deadlock
  detector. No timeout is assumed to fire.
- `Challenges`: weak fairness of the next step of a request: goroutines run.
- `Server`: goroutines run, the timer of the drain fires, `statement_timeout` ends
  every statement. Handlers need not make progress.

Nothing makes time pass, a client send a request, or a fault happen.

**Mutants.** For every property of a passing run `PROJECT.json` names a mutant
under which TLC finds the property violated.

## Proofs

The theorems hold for every value of the constants that meets the assumptions
named in the modules: the `No...` values and `Nil` are outside the sets they
complement, numbers are naturals, the lifetime `TTL` of a session is positive; in
`AccessTokens` two clocks differ by no more than the validator's leeway, less what
rounding to seconds takes (`2 * Skew + Second - 1 <= Leeway`): with clocks further
apart a token is refused up to a second before its announced end.

### Sessions

The invariants are not inductive by themselves: that a successor's root is a
live root of the same user is known to the request that saves it only from what
it read three steps earlier. `IInv` adds what requests in flight may rely on:

- `FamiliesWhole` and `EndsAsOne`: flat families that end together;
- every stored hash has been issued, so a new hash is no one's parent;
- `RequestOK` for every request: where it stands determines what it knows
  (`ReadOK`: its token is stored while its user exists, and token and root, if
  stored, are the ones it read), and what it answered is true now.

The argument (`SessionsProofs`): every step moves `Onward` — hashes are not
forgotten, an issued token keeps its identity and its end and is removed only
with its user — and `Onward` keeps `RequestOK` of every request
(`RequestKept`). So a step has only to be right about the request that takes it
and about the table; the latter is `TokenStoreProofs`, one lemma for the effect
and one for the preserved predicates per operation. From `IInv` follow `TypeOK`,
`FamiliesWhole`, `EndedSessionIsDead`, `LogoutIsFinal`, `RejectedIsDead` and
`RejectionsAreCredentials`.

The second half of `SessionsProofs` classifies the steps by what they do to the
table (`TableSteps`) and proves `TokensMoveForward` and `OtherSessionsUntouched` from
it. `StrictRotation` needs `StrictInv`, which is inductive together with `IInv`
(`StrictInvariance`): with no leeway a refresh that has rotated is alone with its
session, and no member of the family is unrevoked.
`SessionKeepsClient` is inductive on top of `IInv`.

### The token store in PostgreSQL

`CallsAreAtomic` is the refinement of `AtomicTokenStore`: a call takes effect at
its commit, or at the statement that answers it, and every other statement is a
stutter. `PInv` says of a connection between two statements which locks it holds
and what they preserve: the root it locked is still stored and not ended, the
rows it visits are still the family it took a snapshot of, and nobody else holds
a lock that conflicts (`LocksExclude`). A step is then right about the connection
that takes it, and leaves the others' predicates alone since it would have had to
hold a conflicting lock (`OthersKept`). The tables' own predicates are those of
`TokenStoreProofs`. `OnlyDeletesDeadlock` follows from `PInv`: in a circle of
saves, rotations and revocations, somebody who waits for a member of a family
waits for one who holds its root, and who waits for nothing.

### The two stores

`StoresAlwaysAgree` and `StoresHoldTheSame` (`ParityProofs`) are `StoresAgree` and
`SameContents` for any number of users, tokens, links and challenges. `PInv` says
that the stores are twins (`Twins`):

- the entries of each map are exactly the rows of its table, under the unique
  column (`Mirror`), and a stored row has the fields of its table;
- `usersByEmail` is the index of the users by their address;
- the two agree on every challenge that has not expired. They need not agree on the
  others: the map drops an expired one when it is read, the table at the next save;
- whatever is stored has been drawn, so a fresh value collides in neither.

`SameContents` alone is not enough: it says what the readers see, not that an
index leads to the entry that a later call changes. One lemma per call says that
twins answer it alike and stay twins; for the calls that `StoresAgree` excepts,
`SaveOAuthTaken` and `SaveWalletTaken` say that they change neither store, and
`DeleteForgotten` that what it deletes has expired, so that they stay twins all the
same. The limit of `SavePATLimited` counts a
user's entries on one side and rows on the other; the lemma gives a bijection.
`NilIsNoEntry` assumes that the value for "no such entry" is not an entry.

### Accounts and sign-ins

`AccInv` (`AccountsProofs`) says of every request, for each place in the code where
it is about to call the store, what it knows there: whether it has created a
user, whether that user can be reached by now or is still its own to roll back,
whether one of its calls has failed, and whose account or wallet it signs in.
Of a request that is done it says how it left the tables: the account it made
is reachable or gone, or calls failed that excuse it (`Settled`). None of the
properties is inductive: each speaks of the end of a request, and what makes it
true happened calls earlier, with calls of other requests in between.

The predicates are about a request, tables, the users drawn and the number of
faults, not about variables. So the lemmas of the calls (`CreateCall`,
`DeleteCall`, ...) are about values; every call keeps what belongs to a stored
user (`Keeps`), and `Keeps` keeps the predicate of every request that does not
move. From `AccInv` follow `NoStrandedAccounts`, `RollbackCleansUp`,
`SignInIsLinked`, `PasswordAccountsAreNotLinked` and `OutageIsNoRejection`, and with
the step `LinksOutliveRollbacks`. `AuditAgreesWithAnswer` also needs `AuditInv`: the
records about a request are those of the state it is in, since only a step to
its end writes any.

### Challenges

`ChallengesAreOneShot` is the refinement of `OneShot`, `HolderOnly` the invariant
`OnlyTheHolderPasses`. `CInv` relates the table, what was issued and the requests:
a stored row is the issued one, with the fields of its flow; a request about to
delete is the holder's; a challenge somebody passed with is not stored, and only
one request passed with it. A delete that succeeds is then a `Take` of an open
ticket, and every other removal a `Lapse`; that the removals are these is
`OnlyTheHolderBurns`.

### Personal access tokens

`PInv` says that a create between its lock and its commit holds the lock on its
user, that what it has counted is an upper bound until it commits, that its
token is nobody else's, and that no row of a revoked token exists. `CapIsKept`
follows since inserts are made by the holder of the lock only; `RevocationIsFinal`
since a touch updates rows and adds none; `OnlyExpiredIsPruned` since time only
moves on between the reading of the clock and the commit.

### Server, access tokens, configuration

- `NothingTorn`, `SuccessIsDrained`: `SInv` says that the pool is open until
  `run()` returns and that it returns only with no connection left, or with an error after
  the drain timed out.
- `TokensLiveThatLong`, `TokensLiveNoLonger`: `AInv` bounds the claims of a token by
  the true time of its issue, with less than a second for their rounding, and fixes every replica's key. The tolerance psina
  subtracts from `nbf` is not needed: `iat` is checked with the same leeway.
- `GatewayAgreesWithCall`: the two ways to ask read one credential, but for a
  cookie that was cleared and comes first.
- `ValidConfigurationsStart`, `NothingIsDropped`: `WInv` says what `run()` has built
  at each step; every later step succeeds on what `validateConfig` let through.
- `RefusedIffAmbiguous`, `DefaultsAreKept`: `FInv` says what the leaves visited so far
  amount to, whatever their order.

### Only model-checked

Liveness (`EveryCallIsAnswered`, `HolderGetsThrough`, `SignalStops`) is out of the
prover's reach. `FindsTheClient` of `ClientIP` is about filtering and
concatenating sequences, which are defined by recursion: what they compute needs
induction over the data. `Browser` has no proofs.

Conversely `TypeOK`, `FamiliesWhole`, `RejectionsAreCredentials`, `StrictInv` and
`NotMuchLonger` are proved and no run names them: the first three are part of
`IInv` or follow from it, which a run checks. The other inductive invariants
(`PInv`, `CInv`, `AccInv`, `AuditInv`, `FInv`, `WInv`, `SInv`, `AInv`) are proved too, and no run
names them.

## Findings

The runs `duplicate_latest` and `missing_user` end with a trace; `PROJECT.json` quotes
the lines.

- **`DuplicateIsLatest`**: the README says a replay within the leeway
  yields a pair "only while it is the family's latest rotation". The check and
  the save are two store calls. TLC's trace: a duplicate passes the check; the
  client's other tab refreshes with the successor; the duplicate then saves a
  sibling. The store's guard covers the end of the session, not this. The
  effect is one more live token in a live session, which ends with it.
- **`MissingUserIsNotFound`**: `auth/ports.go` says of what belongs to a user that
  "writing one for a missing user fails with store.ErrUserNotFound". In PostgreSQL
  a link of a provider account or a wallet that is taken violates the unique index
  before the foreign key is looked at, and `SaveOAuthIdentity` and
  `SaveWalletIdentity` report `ErrOAuthIdentityExists` and `ErrWalletIdentityExists`;
  the memory store checks the user first. TLC's trace: two users are created, one
  is deleted, the other is linked; a link of the same account to the deleted one
  is then refused for the wrong reason. Three sign-ins can get there: one finds a
  user by address, a second, who made that user, rolls back, a third links the
  account. On PostgreSQL the first then signs in as the third's user; on the
  memory store it fails.

Met while modelling, and in the models as the code has it; no run is about them:

- A link that was committed although its call failed keeps the new account, and
  the `user.created` record of `docs/audit.md` is not written. `NoStrandedAccounts`
  and the audit properties of `Accounts` do not claim it.
- The rollback of `Register` runs in the context whose cancellation made it
  necessary (`local.go:91`); `NoStrandedAccounts` exempts it.
- When `cookie.domain` is broadened, the cookie of the narrower domain is not
  among the scopes that are cleared; the `browser` run narrows it only.
- `/verify` takes the first cookie of the name, also if it is empty (`main.go:274`);
  the RPC skips empty ones. `AnswersAgree` states the difference.

## Not modelled

Cryptography (JWT signing, Argon2, signature recovery, PKCE and the OIDC nonce),
the OAuth providers' HTTP exchanges and the decoding of their answers, the text
of the wallet message, decoding and wording of requests and errors, input
validation beyond its outcomes, generated code, logging apart from the audit
records. `PROJECT.json` gives each part's status. Of the configuration, the
checks that only compare a value with a list (log level, format, SameSite) are
not in `Wiring`.
