------------------------------ MODULE RateLimit ------------------------------
(***************************************************************************)
(* The limiter of second-factor attempts (src/src/routes/totp.rs) for one  *)
(* account, in one life of the process.  verify, login_step2 and disable   *)
(* ask rate_limit_check, await database statements and the comparison of   *)
(* the code, and call rate_limit_record when it was wrong.  The mutex is   *)
(* held inside the two calls only, so other attempts run in between.       *)
(***************************************************************************)
EXTENDS Naturals, FiniteSets

CONSTANTS
    Requests,   \* concurrently served attempts (slots, reused)
    Limit,      \* RATE_LIMIT_FAILURES
    Window,     \* RATE_LIMIT_WINDOW_SECS
    MaxTime,    \* bound: the clock stops here
    Ids         \* tells apart the failures of one second

ASSUME LimiterConstants == /\ IsFiniteSet(Requests) /\ Requests # {}
                           /\ Limit \in Nat \ {0} /\ Window \in Nat /\ MaxTime \in Nat

VARIABLES
    now,        \* now_unix(); the host's clock does not run backwards
    failures,   \* totp_failures: the Vec of the account, its order left out
    pc,         \* idle, verifying (past the check), recording (wrong code)
    wrong       \* history: every failure recorded

vars == <<now, failures, pc, wrong>>

Failure == [at : Nat, id : Ids]

\* The clock, the table of failures and the attempts in flight.
TypeOK ==
    /\ now \in Nat
    /\ failures \subseteq Failure
    /\ pc \in [Requests -> {"idle", "verifying", "recording"}]
    /\ wrong \subseteq Failure

Init ==
    /\ now = 0
    /\ failures = {}
    /\ pc = [r \in Requests |-> "idle"]
    /\ wrong = {}

\* now.saturating_sub(RATE_LIMIT_WINDOW_SECS)
cutoff == IF now >= Window THEN now - Window ELSE 0

\* Mutant: > for >=, a failure at the edge of the window is dropped.
retainedStrictly == {f \in failures : f.at > cutoff}

\* Mutant: nothing is pruned.
retainedAll == failures

\* times.retain(|&t| t >= cutoff)
retained == {f \in failures : f.at >= cutoff}

\* Mutant: off by one.
allowsOneMore == Cardinality(retained) <= Limit

allows == Cardinality(retained) < Limit

rate_limit_check(r) ==
    /\ pc[r] = "idle"
    /\ failures' = retained
    /\ pc' = [pc EXCEPT ![r] = IF allows THEN "verifying" ELSE "idle"]
    /\ UNCHANGED <<now, wrong>>

\* The code is wrong, or its lookup in login_step2 and disable failed; or it is
\* right, a statement of verify failed or the client left: nothing to record.
Verified(r) ==
    /\ pc[r] = "verifying"
    /\ \E next \in {"recording", "idle"} : pc' = [pc EXCEPT ![r] = next]
    /\ UNCHANGED <<now, failures, wrong>>

\* Mutant: the start of the window is pushed instead of the time.
recordWindowStart(r) ==
    /\ pc[r] = "recording"
    /\ \E id \in Ids :
          /\ [at |-> now - Window, id |-> id] \notin wrong
          /\ failures' = failures \cup {[at |-> now - Window, id |-> id]}
          /\ wrong' = wrong \cup {[at |-> now - Window, id |-> id]}
    /\ pc' = [pc EXCEPT ![r] = "idle"]
    /\ UNCHANGED now

\* times.push(now_unix())
rate_limit_record(r) ==
    /\ pc[r] = "recording"
    /\ \E id \in Ids :
          /\ [at |-> now, id |-> id] \notin wrong
          /\ failures' = failures \cup {[at |-> now, id |-> id]}
          /\ wrong' = wrong \cup {[at |-> now, id |-> id]}
    /\ pc' = [pc EXCEPT ![r] = "idle"]
    /\ UNCHANGED now

\* The client leaves while the attempt waits for the mutex.
Disconnect(r) ==
    /\ pc[r] = "recording"
    /\ pc' = [pc EXCEPT ![r] = "idle"]
    /\ UNCHANGED <<now, failures, wrong>>

Tick ==
    /\ now < MaxTime
    /\ now' = now + 1
    /\ UNCHANGED <<failures, pc, wrong>>

Next ==
    \/ Tick
    \/ \E r \in Requests :
          rate_limit_check(r) \/ Verified(r) \/ rate_limit_record(r) \/ Disconnect(r)

Spec == Init /\ [][Next]_vars

-----------------------------------------------------------------------------
(* Properties *)

\* The failures of the current window.
InWindow == {f \in wrong : f.at >= cutoff}

\* In no window of Window seconds does an account collect more failures than
\* the limit and the other attempts in flight: the check and the record are
\* apart, but every attempt between them is one of the server's requests.
OvershootBounded == Cardinality(InWindow) <= Limit + Cardinality(Requests) - 1

\* Nothing that still counts has been pruned, and the Vec stays small: it never
\* holds more than the limit and the other attempts in flight.
VecBounded == /\ InWindow \subseteq failures
              /\ Cardinality(failures) <= Limit + Cardinality(Requests) - 1

\* rate_limit_check decides by the failures of the window and nothing else: none
\* of them is forgotten, and an account is let in again when they have left it.
ChecksTheWindow == allows <=> Cardinality(InWindow) < Limit
=============================================================================
