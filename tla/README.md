# zz-drop-server-minimal in TLA+

Specifications of `zz-drop-server-minimal`: the profile (encrypted blob)
endpoints over SQLite, accounts and sessions, login with its second factor, the
limiter of second-factor attempts, the life of the process, and the two pieces
of arithmetic the server does itself (dates and TOTP steps). Paths such as `routes/profiles.rs` are
relative to `src/src/`, migrations to `src/`.

## 1. The system

An axum/tokio HTTP server over one SQLite file. Every handler is an async
function; each SQL statement is an await, so between two statements of one
request anything may run for another. A client that hangs up makes hyper drop
the handler's future wherever it waits. Nothing is kept in memory but the TOTP
key and the limiter's failure times; the rest is in six tables.

| Part | State | Operations | Hard behaviour | What makes it correct |
|---|---|---|---|---|
| Profile endpoints (`routes/profiles.rs`) | table `profiles` | list, create, put_blob, get_blob, delete | overlapping statements, transactions, failed commits, disconnects | requests are atomic; no acknowledged upload is lost; quota |
| Database and pool (`db/mod.rs`) | 8 connections, file locks | acquire, SHARED / RESERVED / EXCLUSIVE | hold-and-wait, SQLITE_BUSY | no circular wait; locks are released |
| Login, sessions (`routes/auth.rs`) | `users`, `sessions`, `totp_challenges` | register, login, authed_user | decision from a row read earlier | no session for the password alone while TOTP is on |
| Two-factor endpoints (`routes/totp.rs`) | `totp_secrets`, `totp_recovery_codes`, `totp_challenges` | enroll, verify, login_step2, disable | check-then-act, ignored results, restart under another key | factors are used once; enrollments are whole; pending seeds are no factor |
| Rate limiter (`routes/totp.rs`) | in-memory failure times per account | rate_limit_check, rate_limit_record | two critical sections around an await | failures per window are bounded; pruning keeps what counts |
| Seed encryption, recovery codes, TOTP codes, passwords (`auth/`) | none | pure functions | key change, drift window | a seed opens under its key only |
| Registration, account preferences (`routes/auth.rs`, `routes/account.rs`) | `users` | register, get, put | spellings of one address; update, then a second authentication | accounts are not taken over; partial updates do not lose fields |
| Configuration, start-up (`config.rs`, `main.rs`) | environment | from_env, main, shutdown | random key after a restart, slow clients at shutdown | data is lost only for announced reasons; the process ends |
| Date formatting (`routes/profiles.rs`) | none | secs_to_civil | leap days, centuries and eras | agrees with the calendar |

Interactions: every authenticated handler first asks `authed_user` (one SELECT
on `sessions`). login and login_step2 share `mint_session_response`; verify,
login_step2 and disable share the limiter; login_step2 and disable share
`verify_totp_for_user` and `consume_recovery_code`. Profiles and the two-factor
endpoints meet only in the session and in the locks of the file.

`PROJECT.json` lists the components with their status, the hazards with the
lines at which they bite, and, for each definition, the lines it models.

## 2. Modules

| Module | Role |
|---|---|
| `BlobStore` | abstract: a namespace of aliases in which each request is one step |
| `Profiles` | the profile handlers statement by statement, over locks and pool |
| `ProfilesProofs` | invariance, refinement, quota and waiting theorems about `Profiles` |
| `TwoFactor`, `TwoFactorProofs` | login, enrollment, activation, step 2, disable, restart, for one account; theorems |
| `SecondFactor` | abstract: a request passes at a moment at which it is entitled, then takes effect in one step |
| `SecondFactorProofs` | `TwoFactor` implements `SecondFactor` |
| `RateLimit`, `RateLimitProofs` | the limiter of one account, and its theorems |
| `Account`, `AccountProofs` | registration, login without TOTP, sessions with expiry, preferences; theorems |
| `Lifecycle`, `LifecycleProofs` | configuration, start, shutdown, crash, restart, and the fate of stored seeds; theorems |
| `Civil` | `format_iso`, `secs_to_civil` |
| `TotpCode` | `code_at`, `verify` of `auth/totp.rs` |
| `Clock`, `ClockProofs` | a wall clock and calendar next to `Civil` and `TotpCode`; theorems about both |
| `MCProfiles`, `MCTwoFactor`, `MCRateLimit`, `MCAccount`, `MCLifecycle`, `MCClock` | symmetry sets and constants for TLC |

Operators introduced by a comment `Mutant:` are plausible mistakes in the
operator that follows them. The specifications do not use them; they serve to
see that a property notices the mistake.

### Profiles

`profiles[a]` is the row of alias `a` (aliases up to letter case: the column is
`COLLATE NOCASE`), `next_id` the AUTOINCREMENT counter, `pc[r]` the statement
request slot `r` is about to issue, `rq[r]` its arguments, `txn[r]` the `pid`
and `current` that put_blob has read, `conn` the slots that hold a pooled
connection. `answer` is the response sent by the last step and `acked` the
history of acknowledged uploads.

* `Start` stands for extractors, `authed_user`, alias and size checks; `Refuse`
  for their failures (400, 401, 413). The session lookup takes and returns a
  connection of its own and changes nothing; it is part of arrival.
* list: `ListSelect`. get_blob: `GetSelect`. create: `CreateCount`,
  `CreateInsert`, `CreateFlush`. put_blob: `PutSelect`, `PutUpdate`,
  `PutCreatedAt`, `PutCommit`, `PutFlush`. delete: `DeleteSelect`,
  `DeleteExec`, `DeleteFlush`. Each is one statement with the code that follows
  it; a `...Flush` step is the wait for EXCLUSIVE and the write to the file.
* `DbError` is a failing statement or a timeout (busy 5 s, acquire 30 s):
  the handler answers 500 and its transaction is rolled back. `Disconnect` is
  the dropped future.

SQLite is modelled from how the code uses it: a database file in the default
rollback-journal mode (no pragma is set), deferred transactions (`begin()`),
SHARED held from the first SELECT of a transaction, SQLITE_BUSY at once for a
transaction that holds SHARED and asks for a taken RESERVED, the busy timeout
for every other wait. With `sqlite::memory:` connections share a cache and lock
tables instead; that mode, meant for tests and first runs, is not modelled.

Timestamps, `blob_size` and the contents of list responses are left out: no
decision of the code depends on them.

### BlobStore

The promise to clients. `Put` is a compare-and-swap on the version by the
owner; `Create` may refuse at the quota but does not promise to; `Delete`
answers 200 for an alias that is no longer the user's; a request that fails has
no effect. `Profiles!RequestsAreAtomic` is `BlobStore!Spec` under the mapping
that shows of a row its owner, version and blob, and takes a request as pending
until its response.

### TwoFactor

`secret`, `recovery` and `challenges` are the rows of the account, a seed is the
number of its enrollment, a key the number of restarts (or 0 when
`ZZDROP_TOTP_KEY` is set). A 6-digit code is named by the seed it was computed
from. Handlers are split at their statements; the transactions of enroll and
disable only write, so each is one step. `Abort` is a refusal of the limiter, a
failing statement or a disconnect between two steps; `Faulty` lets the
statements whose results the code ignores (`let _ = ...`) fail while the
handler goes on. `Restart` drops the requests and changes a random key.
The model follows the code where the
comment at the head of `routes/totp.rs` (lines 3-7) calls verify
unauthenticated: verify calls `authed_user` first, so `StartVerify` needs a
session as enroll and disable do. `guarded` (history) holds the logins during all of which TOTP has been on,
`ignored` whether an ignored failure has occurred.

After a restart under a fresh random key the secret's row is still there: the
README and the start-up warning say that enrollments do not survive, but login
goes on demanding the factor, a 6-digit code can no longer be right
(`Accepts`), and only a recovery code gets the user in. The model has it;
`PasswordAloneNeedsTotpOff` includes it.

### SecondFactor

The promise of login and the second factor. A request is *asked*, for step 2
also *admitted* by an open challenge, and *passed* at a moment at which it is
entitled to what it asks for: a login while TOTP is off, an enroll while nothing
is enrolled, a verify with a code of the pending seed, step 2 and disable with a
code of the active seed or an unused recovery code. Only a passed request has an
effect (`LogIn`, `Enroll`, `Activate`, `Disable`), and one that came in with a
factor only after the challenge and the recovery code have been used up; a
*lapse* (an ignored failure) excuses that. A request with a password that is not
enough gets a challenge.

`TwoFactor!EntitledWhenServed` is `SecondFactor!Spec` with the stage of a request
read off its next statement (`Stage`): the moment of passing is the SELECT of
login, enroll and verify, and the check of the factor in step 2 and disable. It
does not promise more than the code keeps: between passing and the effect the
enrollment may change (the effect of a verify is on the enrollment of that later
moment), and of overlapping requests several may pass with one challenge or one
recovery code. What is written about single use and activation is stronger;
section 3 shows where it fails and section 4 where it holds.

### RateLimit

`failures` is the Vec of one account, as a set of identified failures (the code
uses its length only); check and record are single steps because each holds the
mutex throughout. `wrong` keeps all failures ever recorded. The clock does not
run backwards.

### Account

`users` is keyed by the folded e-mail, which stands for the row id (rows are
never deleted and e-mails never change); `sessions[t]` is the row of token `t`.
A step is one statement together with the code up to the next one; the first
statement comes with the arrival of the request, since nothing is read before
it. Register: `Register`, whose only await is the INSERT. Login without an
active TOTP secret: `LoginSelect`, `LoginTotp`, `Mint`. get_prefs: `GetStart`, `GetSelect`.
put_prefs: `PutStart`, `PutUpdate`, then the call of get_prefs, `GetAuth` and
`GetSelect`, with its own look at the session. `Abort` is a failing statement
(in `authed_user` that is a 401 too) or a disconnect. Passwords and hashes are
names; which addresses are implausible and which passwords too short is given
by the constants.

put_prefs authenticates twice. A session that runs out between the two makes it
answer 401 for a change that was made; `RefusedAfterUpdate` says that, failing
statements aside, this is the only way.

### Lifecycle

One process at a time and its restarts. `env` is the environment the operator
chose: whether address and limits parse, file or memory, and the setting of
`ZZDROP_TOTP_KEY`. `phase` is the stage of `main`; a failure at a stage exits
with 2 (configuration), 3 (database) or 4 (bind); 0 follows a drained shutdown
and a crash leaves none. Code 5 is for an error of `axum::serve`, which does not
return one. A seed row carries the key it is encrypted with and, as history,
the setting and the warning of the process that wrote it.

A connection is idle, or *receiving* its request, *handling* it, or *responding*.
`Accept` and `Received` are hyper's reading, `Handle` is the end of the handler
(one that enrolls, one that disables, or one that touches no secret), `Responded`
the end of the writing of the response, which takes as long as the client takes
to read it. `HangUp` closes the connection at any of these points. `enrolled`
(history) holds every enrollment that was made and not disabled; a disable works
on a row that cannot be decrypted too, as a recovery code is enough for it.

`LossIsExplained` lists the ways in which such an enrollment can be lost to the
running server. Two of them, which the property excepts because the code has
them, are not obvious from the documentation:

* `read_or_generate_totp_key` asks `env::var`, which is an error for a value
  that is not Unicode, and draws a random key; `totp_master_key_was_random` asks
  `env::var_os`, sees a value and does not warn. (An empty value is refused with
  exit code 2; it never reaches the warning's filter for empty values.)
* With `sqlite::memory:` the pool's default idle and life times close the last
  connection of a quiet server, and the database goes with it (`ReapLast`); a
  new connection finds no tables.

### Civil, TotpCode, Clock

Pure arithmetic, stated as in the code. `Clock` advances a calendar by the
Gregorian rules (`Tomorrow`) and a clock by seconds, independently of `Civil`,
and wraps round after 400 years. HMAC with dynamic truncation is the parameter
`Bin`.

## 3. Runs

| Run | Shows | Instance |
|---|---|---|
| `profiles_contention` | `TypeOK`, `ChecksStillHold`, `BlobIsLastAcked`, `RequestsAreAtomic` | 3 slots, 2 users, 1 alias, bodies empty / legal / too long, versions 0-1, 2 row ids, pool of 2 |
| `profiles_aliases` | `QuotaOvershootBounded`, `RequestsAreAtomic` | 2 slots, 2 users, 3 aliases, quota 1, 4 row ids, pool of 2 |
| `profiles_live` | `NoWaitCycle`; `LocksAreReleased` under `FairSpec` | 3 slots, 1 user, 1 alias, pool of 2 |
| `twofactor_overlap` | `TypeOK`, `CodesBelongToSecret`, `PasswordAloneNeedsTotpOff`, `TotpFactorWasActivated`, `SpentChallengesGone`, `RedeemedCodesConsumed`, `EntitledWhenServed` | 2 slots, 2 enrollments, 1 challenge, a restart with a fresh key, ignored errors |
| `ratelimit_bound` | `TypeOK`, `OvershootBounded`, `VecBounded`, `ChecksTheWindow` | 3 slots, limit 2, window 1, times 0-4 |
| `account` | `TypeOK`, `SessionsProvePassword`, `ReplyShowsUpdate`, `RefusedAfterUpdate` | 2 slots, 2 accounts, one with two spellings, 2 passwords and a short one, 2 sessions, lifetime 2 of times 0-2 |
| `lifecycle` | `TypeOK`, `LossIsExplained`; `ShutdownCompletes` under `Fairness` | 2 starts in any environments, 2 connections, 2 enrollments |
| `clock` | `PrintsTheCalendar`, `AcceptsWithinDrift` | 146097 days, the first by seconds; period 30, drift 1 |

Runs that exhibit a disagreement between the code and what is written about it
(details under `findings` in `PROJECT.json`):

| Run | What is written | What happens |
|---|---|---|
| `profiles_quota_doc` | maximum aliases per account | two creates count before either inserts |
| `profiles_empty_blob` | 404 if not yet uploaded | an empty upload is acknowledged, then 404 |
| `twofactor_challenge` | replay is impossible | overlapping step-2 requests each mint a session |
| `twofactor_seed` | `enrolled_at`: successful first verification | verify activates the row of a later enrollment |

Two more promises hold for requests that follow one another and not for requests
that overlap. "5 failures per 15 minutes" (`routes/totp.rs:28`): the bound of
`OvershootBounded`, the limit plus the other attempts in flight, is reached, as
all of them may pass the check before one records. "10 single-use codes"
(`auth/mod.rs:10`): `RedeemedCodesConsumed` covers the requests that look a code
up after it was accepted; two that both look it up before either marks it are
both accepted, since the UPDATE does not ask for `consumed_at IS NULL`.

That the overlap (or, for single use, a failure the code ignores) is the only
way is proved: `QuotaAlone`, `LimitAlone`, `SingleUseAlone`, `CodesSingleUseAlone`
and `ActivationAlone` of section 4 state what is written for requests that come
one after the other.

Why the bounds are enough. Two requests are needed for each race; the third
lets one hold a lock, one wait and one arrive. Two row ids allow an alias to be
deleted and re-created once and then exhaust AUTOINCREMENT. Versions up to 1
allow a first, a second and a stale upload. Two enrollments are needed for a
seed to be replaced under a running verify. In the limiter five points in time
make three disjoint windows. In `account` one put can overlap another of the
same or of the other account, and a session made at time 0 is good twice and
then runs out under a request. In `lifecycle` the second start sees the file of
the first. In `clock` a cycle of the calendar is complete; whole
timestamps are compared on the days whose seconds fit TLC's integers (until
2038). The theorems below remove the bounds from every invariant and action
property of the passing runs, except that `NoWaitCycle` is proved in the form
without ENABLED.

Fairness. `FairSpec` assumes weak fairness of each request's own steps: tokio
polls a handler whose database answer is there. Nothing is assumed of clients,
of errors or of timeouts, so what holds does not rest on a timeout firing. That
every request is answered is not claimed: an INSERT waiting for RESERVED can be
overtaken for ever and relies on the busy timeout; `NoWaitCycle` says that
somebody can always move.

`Lifecycle` assumes weak fairness of handlers that have received their request
(tokio, and the timeouts of the pool and of SQLite) and of the end of the drain.
Nothing is assumed of clients, neither that they send, nor that they read, nor
that they hang up. No timeout is set on either side, so a body may stay half sent
and a response (a blob of up to 1 MiB) half read for ever, and graceful shutdown
waits for both: `ShutdownCompletes` has as its condition that every connection is
again and again out of these two states. TLC finds the shutdown stuck when either
half of the condition is dropped.

Deadlock checking is on, except in `lifecycle`, where the last process may stop
for good.

## 4. Proofs

`ProfilesProofs` (all values of the constants under the named assumptions of
`Profiles`):

* `Invariance`: `Spec => []IInv`, with
  `IInv == TypeOK /\ OneWriter /\ ChecksStillHold /\ RowsNumbered /\
  FreeHasNoHistory /\ BlobIsLastAcked`. The strengthening is needed because
  `ChecksStillHold` speaks of a row while *other* requests commit: that no other
  request can commit while a transaction is open, or wait for the file together
  with another writer, is `OneWriter` together with `CanFlush`; that the UPDATE
  by `id` reaches only the alias that was read is `RowsNumbered` (ids are unique
  and below `next_id`); that a created row starts with version 0 and no history
  is `FreeHasNoHistory`.
* `TypeCorrect`, `ChecksHold`, `NoLostUpload`: its consequences.
* `Refinement`: `Spec => RequestsAreAtomic`. Initial states map to initial
  states; each step is a step of the store or a stutter, action by action. The
  point of effect is the flush for writes, the SELECT for refusals and reads.
* `QuotaOvershoot`: the rows a user owns together with the requests that have
  passed the count stay within the quota plus the other slots.
* `QuotaAlone`: with one request at a time the quota holds as documented.
* `SomebodyIsReady`: while a request is in flight, what some request's next
  statement waits for is there. A commit waits only for other transactions, and
  by `OneWriter` those are at statements that wait for nothing; without
  transactions nobody holds RESERVED, and whoever has a connection
  (`ConnectionsInUse`) is at a statement that can run.

`RateLimitProofs`: `IInv` counts recorded failures together with the attempts
that may still record one, and says that no failure inside the window has been
pruned and none is there that was not recorded. From it `LimiterTypeCorrect`,
`VecStaysBounded`, `Overshoot` and `DecidesByWindow`; `LimitAlone` is the limit as
documented, for attempts that do not overlap.

`TwoFactorProofs`: `Invariance` has the invariants of the run and what they rest
on. The steps of one handler are statements with others in between, so each
part speaks of what a request in flight still relies on:

* `SlotsOK`: a request runs statements of its own operation and of the factor
  it brought, and names only challenges and seeds handed out before now;
  `NothingFromTheFuture`: the same of what is stored or remembered. Without them
  a new enrollment or challenge could coincide with an old, redeemed or spent one.
* `GuardedLogins`: a login with TOTP on throughout is before its SELECT or on
  the challenge side of it, never at the minting of a session. It implies
  `PasswordAloneNeedsTotpOff`, which is not inductive.
* `ActiveIsActivated` ties the column `enrolled_at` to the history of
  activations, for `TotpFactorWasActivated`.
* `PaidChallengesGone`: the DELETE of the challenge comes before the INSERT of
  the session, for `SpentChallengesGone`.

`NoReuseWithoutFaults` is the same without the exception for ignored failures.

The theorems `SingleUseAlone`, `CodesSingleUseAlone` and `ActivationAlone` assume
`OneAtATime`: one request slot, and no ignored statement fails. Their invariant
`NothingStale` says that what a request has read is still so when it acts on it:
the challenge is not spent, the code not redeemed, the seed the one whose code
was checked. Restarts and expiry may still come between any two statements.
The condition is met by every instance with one slot (TLC agrees with
`NothingStale` on one with two codes, enrollments and challenges), and the
violating runs show that it cannot be dropped.

`SecondFactorProofs`: `Refinement`, `Spec => EntitledWhenServed`, action by action.
A statement that passes or ends a request, removes a code or a challenge, or
changes the enrollment is the step of that name of `SecondFactor`; a refusal is
`Fail`; what changes no mapped variable stutters. Beyond
`IInv` it needs `GateInv`. `ChallengeKeys` (ids of challenges are unique): else
the row that admitted a request and the row it deletes could differ.
`DroppedExpired`: the DELETE of an expired challenge takes nothing away that can
be used. `PassedRedeemed` (a recovery code that let a request through has been
redeemed), with `RedeemedCodesConsumed` of `IInv`: the code is used up when the
effect comes, whoever enrolled or disabled meanwhile.

`AccountProofs`: `SessionsProvePassword` needs `RowsKeepPassword` (a row keeps
the password of its first registration, as register never updates one) and, of a
login about to mint, that it has shown that password (`SlotsOK`). `ReplyShowsUpdate`
needs `OwnOK`: only a put after its UPDATE has fields to answer for, among those
of its body. `RefusedAfterUpdate`, a property of steps, follows from `SlotsOK`:
the token of a put is of a session that is still there and was good when the
put began.

`LifecycleProofs`: `EnrolledOK` ties each enrolled seed to the setting and the
warning of the process that stored it, whichever process runs now; it needs
`ProcessOK`, that a process past its configuration has the key and the warning
of its environment.

`ClockProofs`, the calendar. `NextDateIsTomorrow` says for every day that
`civil_date` of the next day is the calendar's `Tomorrow`. A day is a day `doe`
of an era of 146097 days. `LastDays`, `YearOfEra` and `YearsAdjoin` show that the
quotient by which the code finds the year of the era cuts the era into years of
365 and 366 days with no gap; `DaysFromMarch` and `NextMonth` that the quotient
by 153 cuts a year beginning in March into months of the right lengths. The cases
are then: within a year, from the end of February to March (leap or not), and
from one era to the next. `CalendarIsPrinted`
(`PrintsTheCalendar`) adds `NextTime` for the seconds and `SplitsSeconds` for
the timestamp. `EraPeriodic` is why the specification may wrap round.

`ClockProofs`, the drift. `DriftExact` and `DriftHolds`: the drift window of
`verify` for every seed and every time, for the period of 30 seconds and the
drift of one step in the code (with a period as a parameter the arithmetic is
not linear).

Assumptions. The constants are of their types, sets of requests and aliases are
finite, the pool has a connection, and `Null` is none of the rows, requests or
passwords it is to be told apart from. Nothing else is assumed of them;
in particular folding of addresses is any function, and the numbers of
enrollments, challenges, restarts, sessions and starts are any naturals.

Model-checked only:

* `LocksAreReleased` and `ShutdownCompletes`: liveness under fairness is outside
  what the prover handles.
* `NoWaitCycle`, because of ENABLED. Its content is proved as `SomebodyIsReady`,
  with `Ready(r)`, the guards of the statements written out, in place of
  `ENABLED Step(r)`. Proved of the two is only that a request that steps was
  ready (`StepsAreReady`); that a ready request can step is seen by reading the
  actions, which constrain nothing else, and is covered by TLC's check of
  `NoWaitCycle`.
* The four runs that end in a counterexample.

## 5. Not modelled

Cryptography (Argon2id, SHA-256, XChaCha20-Poly1305, HMAC): a hash or a
ciphertext is named by what it was made from. The wording of responses, base32
and the otpauth URI, tracing, `redact_db_url`: text layout. The info endpoint: a
constant. The statements of a migration: sqlx runs them before anything else.
`is_plausible_email` and the API types: they belong to the crate `zz-drop-core`.
Clocks that run backwards are left out. In `Profiles` and `TwoFactor` the expiry
of a session is a refusal at arrival; `Account` has it in full.

## 6. What could be added

All components are modelled as far as section 5 allows, and what the runs check
is proved except for the list at the end of section 4. A version of `Account`
and `TwoFactor` over one table of sessions would let one state who holds a
session across both ways of logging in.
