------------------------------ MODULE TwoFactor ------------------------------
(***************************************************************************)
(* Login and the second factor of one account: src/src/routes/totp.rs and  *)
(* the login half of src/src/routes/auth.rs, over the tables of            *)
(* migrations/0004_totp.sql.  Accounts share no row, so one is enough.     *)
(*                                                                         *)
(* A step is one SQL statement (or one transaction that only writes) with  *)
(* the code up to the next await; `pc' names the statement to come.  A     *)
(* handler that returns, with whatever status, frees its slot: the status  *)
(* follows from the branch and no property needs it.  Rate limiting is in  *)
(* RateLimit; here a check may refuse at any time.  Time appears as the    *)
(* expiry of a challenge, at any moment after it is made; a request whose  *)
(* session has expired is refused and changes nothing.                     *)
(***************************************************************************)
EXTENDS Naturals

CONSTANTS
    Requests,       \* concurrently served requests (slots, reused)
    Codes,          \* recovery codes of an enrollment (10 in the code)
    MaxEnrolls,     \* bound: enrollments committed
    MaxChallenges,  \* bound: challenges issued
    MaxRestarts,    \* bound: restarts of the server
    FixedKey,       \* ZZDROP_TOTP_KEY is set
    Faulty,         \* statements whose result is ignored may fail
    Null

ASSUME BoundsType == /\ MaxEnrolls \in Nat /\ MaxChallenges \in Nat /\ MaxRestarts \in Nat
                     /\ FixedKey \in BOOLEAN /\ Faulty \in BOOLEAN

VARIABLES
    secret,         \* the row of totp_secrets, or Null; enrolled_at as `active'
    recovery,       \* the rows of totp_recovery_codes
    challenges,     \* the rows of totp_challenges
    session,        \* the account has a session
    enrolls,        \* enrollments committed so far: the seed of the last one
    issued,         \* challenges issued so far
    restarts,       \* restarts so far: the key of the process, if it is random
    pc, rq,         \* per request: statement to come, arguments
    \* history
    spent,          \* challenges a session was minted for
    redeemed,       \* recovery codes accepted
    proven,         \* seeds a verify request showed a valid code of
    activated,      \* seeds that have been active
    guarded,        \* logins during all of which TOTP has been active
    ignored         \* a failed statement whose result is ignored has occurred

tables  == <<secret, recovery, challenges, session>>
counts  == <<enrolls, issued, restarts>>
history == <<spent, redeemed, proven, activated, ignored>>
vars    == <<tables, counts, pc, rq, history, guarded>>

-----------------------------------------------------------------------------
(* Types *)

Seeds == 1..MaxEnrolls
Challenges == 1..MaxChallenges
Keys == 0..MaxRestarts

Secret == [seed : Seeds, key : Keys, active : BOOLEAN]
Challenge == [id : Challenges, expired : BOOLEAN]
RecoveryRow == [seed : Seeds, code : Codes, consumed : BOOLEAN]

\* What a client offers as its second factor: a 6-digit code computed from a
\* seed (0: from none), or a recovery code of an enrollment (0: of none).
Factors == [kind : {"totp"}, seed : {0} \cup Seeds, code : {Null}]
           \cup [kind : {"recovery"}, seed : {0} \cup Seeds, code : Codes]

Request == [op : {"login", "enroll"}, challenge : {Null}, factor : {Null}]
           \cup [op : {"verify"}, challenge : {Null}, factor : {f \in Factors : f.kind = "totp"}]
           \cup [op : {"step2"}, challenge : Challenges, factor : Factors]
           \cup [op : {"disable"}, challenge : {Null}, factor : Factors]

\* Null is the absence of a row and of a request.
ASSUME NullIsFresh == /\ Null \notin Secret /\ Null \notin Request
                      /\ Null \notin [seed : Seeds, on : BOOLEAN]

FactorSteps == {"totp_check", "code_check", "code_consume"}

Steps == {"login_totp", "login_challenge", "mint", "enroll_select", "enroll_commit",
          "verify_select", "verify_update", "step2_select", "step2_drop",
          "challenge_delete", "wipe"} \cup FactorSteps

\* One conjunct per variable; a busy slot has its arguments.
TypeOK ==
    /\ secret \in Secret \cup {Null}
    /\ recovery \subseteq RecoveryRow
    /\ challenges \subseteq Challenge
    /\ session \in BOOLEAN
    /\ enrolls \in 0..MaxEnrolls /\ issued \in 0..MaxChallenges /\ restarts \in Keys
    /\ pc \in [Requests -> Steps \cup {"idle"}]
    /\ rq \in [Requests -> Request \cup {Null}]
    /\ \A r \in Requests : pc[r] = "idle" <=> rq[r] = Null
    /\ spent \subseteq Challenges
    /\ redeemed \subseteq Seeds \X Codes
    /\ proven \subseteq Seeds /\ activated \subseteq Seeds
    /\ guarded \subseteq Requests
    /\ ignored \in BOOLEAN

Init ==
    /\ secret = Null /\ recovery = {} /\ challenges = {}
    /\ session = FALSE
    /\ enrolls = 0 /\ issued = 0 /\ restarts = 0
    /\ pc = [r \in Requests |-> "idle"]
    /\ rq = [r \in Requests |-> Null]
    /\ spent = {} /\ redeemed = {} /\ proven = {} /\ activated = {} /\ guarded = {}
    /\ ignored = FALSE

-----------------------------------------------------------------------------
(* Control *)

\* The AEAD key of the process: the configured one, or a fresh one per start.
key == IF FixedKey THEN 0 ELSE restarts

TotpActive == secret # Null /\ secret.active

\* A seed decrypts under the key it was encrypted with, and no other.
decrypt_seed(row) == row.key = key

\* decrypt_seed, then totp::verify.
Accepts(row, factor) == decrypt_seed(row) /\ factor.seed = row.seed

\* The rows of generate_codes and hash_code.
FreshCodes(seed) == [seed : {seed}, code : Codes, consumed : {FALSE}]

\* Mutant: the result of verify_code is not looked at.
UnconsumedAny(factor) == {row \in recovery : ~row.consumed}

\* A row whose hash verify_code accepts for what the client sent, not consumed.
Unconsumed(factor) ==
    {row \in recovery : ~row.consumed /\ row.seed = factor.seed /\ row.code = factor.code}

At(r, step) == pc[r] = step

GoTo(r, step) ==
    /\ pc' = [pc EXCEPT ![r] = step]
    /\ UNCHANGED <<rq, guarded>>

Return(r) ==
    /\ pc' = [pc EXCEPT ![r] = "idle"]
    /\ rq' = [rq EXCEPT ![r] = Null]
    /\ guarded' = guarded \ {r}

\* A request arrives and passes the checks that change nothing: JSON, password
\* (login, disable), session (enroll, verify, disable).
Arrive(r, step, op, challenge, factor) ==
    /\ At(r, "idle")
    /\ pc' = [pc EXCEPT ![r] = step]
    /\ rq' = [rq EXCEPT ![r] = [op |-> op, challenge |-> challenge, factor |-> factor]]
    /\ guarded' = IF op = "login" /\ TotpActive THEN guarded \cup {r} ELSE guarded
    /\ UNCHANGED <<tables, counts, history>>

FactorStep(factor) == IF factor.kind = "totp" THEN "totp_check" ELSE "code_check"

StartLogin(r)   == Arrive(r, "login_totp", "login", Null, Null)
StartEnroll(r)  == session /\ Arrive(r, "enroll_select", "enroll", Null, Null)
StartVerify(r)  == /\ session
                   /\ \E f \in Factors : /\ f.kind = "totp"
                                         /\ f.seed <= enrolls
                                         /\ Arrive(r, "verify_select", "verify", Null, f)
StartStep2(r)   == \E c \in 1..issued, f \in Factors :
                      /\ f.seed <= enrolls
                      /\ Arrive(r, "step2_select", "step2", c, f)
StartDisable(r) == /\ session
                   /\ \E f \in Factors : /\ f.seed <= enrolls
                                         /\ Arrive(r, FactorStep(f), "disable", Null, f)

-----------------------------------------------------------------------------
(* login, mint_session_response *)

\* Mutant: a secret that cannot be decrypted counts as no secret.
LoginTotpReadable(r) ==
    /\ At(r, "login_totp")
    /\ GoTo(r, IF TotpActive /\ decrypt_seed(secret) THEN "login_challenge" ELSE "mint")
    /\ UNCHANGED <<tables, counts, history>>

\* SELECT ... WHERE enrolled_at IS NOT NULL decides between session and challenge.
LoginTotp(r) ==
    /\ At(r, "login_totp")
    /\ GoTo(r, IF TotpActive THEN "login_challenge" ELSE "mint")
    /\ UNCHANGED <<tables, counts, history>>

LoginChallenge(r) ==
    /\ At(r, "login_challenge")
    /\ issued < MaxChallenges
    /\ issued' = issued + 1
    /\ challenges' = challenges \cup {[id |-> issued + 1, expired |-> FALSE]}
    /\ Return(r)
    /\ UNCHANGED <<secret, recovery, session, enrolls, restarts, history>>

\* INSERT INTO sessions
Mint(r) ==
    /\ At(r, "mint")
    /\ session' = TRUE
    /\ spent' = IF rq[r].op = "step2" THEN spent \cup {rq[r].challenge} ELSE spent
    /\ Return(r)
    /\ UNCHANGED <<secret, recovery, challenges, counts, redeemed, proven, activated, ignored>>

-----------------------------------------------------------------------------
(* enroll, verify *)

EnrollSelect(r) ==
    /\ At(r, "enroll_select")
    /\ IF secret = Null THEN GoTo(r, "enroll_commit") ELSE Return(r)
    /\ UNCHANGED <<tables, counts, history>>

\* Mutant: the INSERTs run on the pool, so that those before a failing one, or
\* before the client leaves, stay.
EnrollOutsideTx(r) ==
    /\ At(r, "enroll_commit")
    /\ secret = Null /\ enrolls < MaxEnrolls
    /\ enrolls' = enrolls + 1
    /\ secret' = [seed |-> enrolls + 1, key |-> key, active |-> FALSE]
    /\ \E stored \in SUBSET FreshCodes(enrolls + 1) : recovery' = recovery \cup stored
    /\ Return(r)
    /\ UNCHANGED <<challenges, session, issued, restarts, history>>

\* The transaction: the secret (PRIMARY KEY user_id, so a row that appeared
\* meanwhile makes it fail) and all recovery codes.
EnrollCommit(r) ==
    /\ At(r, "enroll_commit")
    /\ IF secret = Null
       THEN /\ enrolls < MaxEnrolls
            /\ enrolls' = enrolls + 1
            /\ secret' = [seed |-> enrolls + 1, key |-> key, active |-> FALSE]
            /\ recovery' = recovery \cup FreshCodes(enrolls + 1)
       ELSE UNCHANGED <<enrolls, secret, recovery>>
    /\ Return(r)
    /\ UNCHANGED <<challenges, session, issued, restarts, history>>

\* SELECT the pending secret, decrypt it, check the code.
VerifySelect(r) ==
    /\ At(r, "verify_select")
    /\ IF secret # Null /\ ~secret.active /\ Accepts(secret, rq[r].factor)
       THEN GoTo(r, "verify_update") /\ proven' = proven \cup {secret.seed}
       ELSE Return(r) /\ UNCHANGED proven
    /\ UNCHANGED <<tables, counts, spent, redeemed, activated, ignored>>

\* UPDATE totp_secrets SET enrolled_at ... WHERE user_id: whatever row is there.
VerifyUpdate(r) ==
    /\ At(r, "verify_update")
    /\ IF secret # Null
       THEN secret' = [secret EXCEPT !.active = TRUE] /\ activated' = activated \cup {secret.seed}
       ELSE UNCHANGED <<secret, activated>>
    /\ Return(r)
    /\ UNCHANGED <<recovery, challenges, session, counts, spent, redeemed, proven, ignored>>

-----------------------------------------------------------------------------
(* The second factor in login_step2 and disable *)

\* The statement after an accepted factor.
Accepted(r) == GoTo(r, IF rq[r].op = "step2" THEN "challenge_delete" ELSE "wipe")

\* Mutant: without AND enrolled_at IS NOT NULL.
TotpCheckPending(r) ==
    /\ At(r, "totp_check")
    /\ IF secret # Null /\ Accepts(secret, rq[r].factor) THEN Accepted(r) ELSE Return(r)
    /\ UNCHANGED <<tables, counts, history>>

\* verify_totp_for_user
TotpCheck(r) ==
    /\ At(r, "totp_check")
    /\ IF TotpActive /\ Accepts(secret, rq[r].factor) THEN Accepted(r) ELSE Return(r)
    /\ UNCHANGED <<tables, counts, history>>

\* consume_recovery_code: SELECT the unconsumed codes, of a pending enrollment too.
CodeCheck(r) ==
    /\ At(r, "code_check")
    /\ IF Unconsumed(rq[r].factor) # {} THEN GoTo(r, "code_consume") ELSE Return(r)
    /\ UNCHANGED <<tables, counts, history>>

\* Mutant: the UPDATE is bound to an id that is not there.
ConsumedByNone(factor) == recovery

\* UPDATE totp_recovery_codes SET consumed_at ... WHERE id
ConsumedBy(factor) ==
    {IF row.seed = factor.seed /\ row.code = factor.code
     THEN [row EXCEPT !.consumed = TRUE] ELSE row : row \in recovery}

\* The UPDATE's result, an error or no row, is ignored: the code is accepted.
CodeConsume(r) ==
    /\ At(r, "code_consume")
    /\ \/ recovery' = ConsumedBy(rq[r].factor) /\ UNCHANGED ignored
       \/ Faulty /\ ignored' = TRUE /\ UNCHANGED recovery
    /\ redeemed' = redeemed \cup {<<rq[r].factor.seed, rq[r].factor.code>>}
    /\ Accepted(r)
    /\ UNCHANGED <<secret, challenges, session, counts, spent, proven, activated>>

-----------------------------------------------------------------------------
(* login_step2, disable *)

\* Mutant: expires_at is not compared with the clock.
Step2SelectAnyAge(r) ==
    /\ At(r, "step2_select")
    /\ IF \E row \in challenges : row.id = rq[r].challenge
       THEN GoTo(r, FactorStep(rq[r].factor)) ELSE Return(r)
    /\ UNCHANGED <<tables, counts, history>>

Step2Select(r) ==
    /\ At(r, "step2_select")
    /\ \/ /\ \A row \in challenges : row.id # rq[r].challenge
          /\ Return(r)
       \/ \E row \in challenges :
             /\ row.id = rq[r].challenge
             /\ GoTo(r, IF row.expired THEN "step2_drop" ELSE FactorStep(rq[r].factor))
    /\ UNCHANGED <<tables, counts, history>>

\* Mutant: only expired challenges are deleted.
DeleteExpiredChallenge(r) ==
    /\ challenges' = {row \in challenges : ~row.expired}
    /\ UNCHANGED ignored

\* DELETE FROM totp_challenges WHERE id; an error is ignored.
DeleteChallenge(r) ==
    \/ /\ challenges' = {row \in challenges : row.id # rq[r].challenge}
       /\ UNCHANGED ignored
    \/ Faulty /\ ignored' = TRUE /\ UNCHANGED challenges

Step2Drop(r) ==
    /\ At(r, "step2_drop")
    /\ DeleteChallenge(r)
    /\ Return(r)
    /\ UNCHANGED <<secret, recovery, session, counts, spent, redeemed, proven, activated>>

ChallengeDelete(r) ==
    /\ At(r, "challenge_delete")
    /\ DeleteChallenge(r)
    /\ GoTo(r, "mint")
    /\ UNCHANGED <<secret, recovery, session, counts, spent, redeemed, proven, activated>>

\* The transaction of disable: secret, recovery codes and challenges.
Wipe(r) ==
    /\ At(r, "wipe")
    /\ secret' = Null
    /\ recovery' = {}
    /\ challenges' = {}
    /\ pc' = [pc EXCEPT ![r] = "idle"]
    /\ rq' = [rq EXCEPT ![r] = Null]
    /\ guarded' = {}
    /\ UNCHANGED <<session, counts, history>>

-----------------------------------------------------------------------------
(* Environment *)

\* rate_limit_check refuses, a statement fails, or the client is gone: the
\* handler ends before its next statement.
Abort(r) ==
    /\ ~At(r, "idle")
    /\ Return(r)
    /\ UNCHANGED <<tables, counts, history>>

ChallengeExpires ==
    /\ \E row \in challenges :
          challenges' = (challenges \ {row}) \cup {[row EXCEPT !.expired = TRUE]}
    /\ UNCHANGED <<secret, recovery, session, counts, pc, rq, history, guarded>>

\* The process stops and starts again on the same database file.
Restart ==
    /\ restarts < MaxRestarts
    /\ restarts' = restarts + 1
    /\ pc' = [r \in Requests |-> "idle"]
    /\ rq' = [r \in Requests |-> Null]
    /\ guarded' = {}
    /\ UNCHANGED <<tables, enrolls, issued, history>>

-----------------------------------------------------------------------------
(* Specification *)

Handler(r) ==
    \/ StartLogin(r) \/ LoginTotp(r) \/ LoginChallenge(r) \/ Mint(r)
    \/ StartEnroll(r) \/ EnrollSelect(r) \/ EnrollCommit(r)
    \/ StartVerify(r) \/ VerifySelect(r) \/ VerifyUpdate(r)
    \/ TotpCheck(r) \/ CodeCheck(r) \/ CodeConsume(r)
    \/ StartStep2(r) \/ Step2Select(r) \/ Step2Drop(r) \/ ChallengeDelete(r)
    \/ StartDisable(r) \/ Wipe(r)

Next ==
    \/ \E r \in Requests : Handler(r) \/ Abort(r)
    \/ ChallengeExpires \/ Restart

Spec == Init /\ [][Next]_vars

-----------------------------------------------------------------------------
(* Properties *)

\* Enrollment and wipe are all or nothing: the recovery codes in the table are
\* those of the stored secret, each once, and without a secret there are none.
CodesBelongToSecret ==
    /\ secret = Null => recovery = {}
    /\ secret # Null =>
          /\ \A row \in recovery : row.seed = secret.seed
          /\ \A c \in Codes : \E row \in recovery : row.code = c
          /\ \A x, y \in recovery : x.code = y.code => x = y

\* While TOTP stays on, no login gets a session for the password alone, however
\* enroll, verify and disable overlap with it.
PasswordAloneNeedsTotpOff ==
    \A r \in Requests : At(r, "mint") /\ rq[r].op = "login" => r \notin guarded

\* A challenge that has bought a session is gone, so that a login_step2 that
\* starts afterwards is refused; unless its DELETE failed, which is ignored.
SpentChallengesGone == \A row \in challenges : row.id \in spent => ignored

\* A recovery code that has been accepted is consumed, or gone with its
\* enrollment: a request that looks it up afterwards is refused; unless the
\* UPDATE failed, which is ignored.
RedeemedCodesConsumed ==
    \A row \in recovery : <<row.seed, row.code>> \in redeemed => row.consumed \/ ignored

\* A 6-digit code logs in only under a seed that verify had activated: a pending
\* enrollment is no second factor.
TotpFactorWasActivated ==
    \A r \in Requests :
        /\ pc[r] \in {"challenge_delete", "mint", "wipe"}
        /\ rq[r].op # "login"
        /\ rq[r].factor.kind = "totp"
        => rq[r].factor.seed \in activated

\* How far a request is that is about to issue a statement, what is enrolled and
\* what can still be used, as SecondFactor sees them.
Stage(step, op) ==
    CASE step = "idle"            -> "none"
      [] step = "login_challenge" -> "challenged"
      [] step \in {"mint", "enroll_commit", "verify_update", "code_consume",
                   "challenge_delete", "wipe"} -> "passed"
      [] step \in {"totp_check", "code_check"} /\ op = "step2" -> "admitted"
      [] OTHER                    -> "asked"

Stages == [r \in Requests |-> Stage(pc[r], rq[r].op)]
Enrollment == IF secret = Null THEN Null ELSE [seed |-> secret.seed, on |-> secret.active]
UnusedCodes == {<<row.seed, row.code>> : row \in {x \in recovery : ~x.consumed}}
OpenChallenges == {row.id : row \in {x \in challenges : ~x.expired}}

\* Every session and every change of the enrollment goes to a request that was
\* entitled to it at a moment between its arrival and its end: TOTP was off, or
\* its challenge was open and then its factor one of the enrollment of that
\* moment; and what it used has been used up first.
Gate == INSTANCE SecondFactor WITH
            enrollment <- Enrollment, unused <- UnusedCodes, open <- OpenChallenges,
            call <- rq, stage <- Stages, lapsed <- ignored, Calls <- Request

EntitledWhenServed == Gate!Spec

\* "We delete single-use to make replay impossible."
ChallengeSingleUse ==
    [][\A r \in Requests : Mint(r) /\ rq[r].op = "step2" => rq[r].challenge \notin spent]_vars

\* "`enrolled_at` is the timestamp of successful first verification": an active
\* seed is one that a code has been verified against.
ActiveSeedWasProven == TotpActive => secret.seed \in proven
=============================================================================
