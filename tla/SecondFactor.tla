---------------------------- MODULE SecondFactor ----------------------------
(***************************************************************************)
(* What login and the second factor promise.  A request is asked, passes   *)
(* when it is entitled to what it asks for, and then takes effect in one   *)
(* step.  It passes at a moment at which the password alone is enough, or  *)
(* at which its factor belongs to the enrollment of that moment; what can  *)
(* be used once is used up before the effect, unless a lapse occurred.     *)
(*                                                                         *)
(* The promise stops short of single use: of requests that overlap several *)
(* may pass with one challenge or one recovery code before it is used up.  *)
(* TwoFactor, statement by statement, is shown to implement this.          *)
(***************************************************************************)
EXTENDS Naturals

CONSTANTS
    Requests, Codes,
    Calls,          \* what a client may ask: [op, challenge, factor]
    Null

VARIABLES
    enrollment,     \* [seed, on] of the account, Null when there is none
    unused,         \* <<seed, code>> of the recovery codes that can be used
    open,           \* challenges that can be used
    session,        \* the account has a session
    enrolls, issued,    \* enrollments made, challenges issued
    call, stage,    \* per request: what it asks for, how far it is
    lapsed          \* something to be used up may have stayed

account == <<enrollment, unused, open, session, enrolls, issued>>
vars    == <<account, call, stage, lapsed>>

Init ==
    /\ enrollment = Null /\ unused = {} /\ open = {}
    /\ session = FALSE
    /\ enrolls = 0 /\ issued = 0
    /\ call = [r \in Requests |-> Null]
    /\ stage = [r \in Requests |-> "none"]
    /\ lapsed = FALSE

-----------------------------------------------------------------------------
(* Stages of a request *)

At(r, s, op) == stage[r] = s /\ call[r].op = op

Move(r, s) == stage' = [stage EXCEPT ![r] = s] /\ UNCHANGED call

End(r) == /\ stage' = [stage EXCEPT ![r] = "none"]
          /\ call' = [call EXCEPT ![r] = Null]

\* Clients know challenges and factors that were handed out, and only with a
\* session may they ask for changes.
Ask(r) ==
    /\ stage[r] = "none"
    /\ stage' = [stage EXCEPT ![r] = "asked"]
    /\ \E c \in Calls :
          /\ c.op \in {"enroll", "verify", "disable"} => session
          /\ c.op = "step2" => c.challenge <= issued
          /\ c.op \in {"verify", "step2", "disable"} => c.factor.seed <= enrolls
          /\ call' = [call EXCEPT ![r] = c]
    /\ UNCHANGED <<account, lapsed>>

On == enrollment # Null /\ enrollment.on

\* The factor belongs to the enrollment of this moment.
Good(factor) == IF factor.kind = "totp" THEN On /\ factor.seed = enrollment.seed
                ELSE <<factor.seed, factor.code>> \in unused

\* A login_step2 names a challenge that can be used.
Admit(r) ==
    /\ At(r, "asked", "step2") /\ call[r].challenge \in open
    /\ Move(r, "admitted")
    /\ UNCHANGED <<account, lapsed>>

\* The request is entitled to its effect, now.
Pass(r) ==
    /\ \/ At(r, "asked", "login") /\ ~On
       \/ At(r, "asked", "enroll") /\ enrollment = Null
       \/ /\ At(r, "asked", "verify")
          /\ enrollment # Null /\ ~On /\ call[r].factor.seed = enrollment.seed
       \/ At(r, "asked", "disable") /\ Good(call[r].factor)
       \/ At(r, "admitted", "step2") /\ Good(call[r].factor)
    /\ Move(r, "passed")
    /\ UNCHANGED <<account, lapsed>>

\* The password is not enough.
Challenge(r) ==
    /\ At(r, "asked", "login") /\ On
    /\ Move(r, "challenged")
    /\ UNCHANGED <<account, lapsed>>

-----------------------------------------------------------------------------
(* Using up, and taking effect *)

ByFactor(r) == At(r, "passed", "step2") \/ At(r, "passed", "disable")

CodeOf(r) == <<call[r].factor.seed, call[r].factor.code>>

UseUp(r) ==
    /\ ByFactor(r)
    /\ \/ unused' = unused \ {CodeOf(r)} /\ UNCHANGED <<open, lapsed>>
       \/ open' = open \ {call[r].challenge} /\ UNCHANGED <<unused, lapsed>>
       \/ lapsed' = TRUE /\ UNCHANGED <<unused, open>>
    /\ UNCHANGED <<enrollment, session, enrolls, issued, call, stage>>

UsedUp(r) ==
    \/ lapsed
    \/ /\ call[r].op = "step2" => call[r].challenge \notin open
       /\ call[r].factor.kind = "recovery" => CodeOf(r) \notin unused

Issue(r) ==
    /\ At(r, "challenged", "login")
    /\ issued' = issued + 1
    /\ open' = open \cup {issued + 1}
    /\ End(r)
    /\ UNCHANGED <<enrollment, unused, session, enrolls, lapsed>>

LogIn(r) ==
    /\ At(r, "passed", "login") \/ (At(r, "passed", "step2") /\ UsedUp(r))
    /\ session' = TRUE
    /\ End(r)
    /\ UNCHANGED <<enrollment, unused, open, enrolls, issued, lapsed>>

Enroll(r) ==
    /\ At(r, "passed", "enroll") /\ enrollment = Null
    /\ enrolls' = enrolls + 1
    /\ enrollment' = [seed |-> enrolls + 1, on |-> FALSE]
    /\ unused' = {enrolls + 1} \X Codes
    /\ End(r)
    /\ UNCHANGED <<open, session, issued, lapsed>>

Activate(r) ==
    /\ At(r, "passed", "verify") /\ enrollment # Null
    /\ enrollment' = [seed |-> enrollment.seed, on |-> TRUE]
    /\ End(r)
    /\ UNCHANGED <<unused, open, session, enrolls, issued, lapsed>>

Disable(r) ==
    /\ At(r, "passed", "disable") /\ UsedUp(r)
    /\ enrollment' = Null /\ unused' = {} /\ open' = {}
    /\ End(r)
    /\ UNCHANGED <<session, enrolls, issued, lapsed>>

\* The request ends without effect.
Fail(r) ==
    /\ stage[r] # "none"
    /\ End(r)
    /\ lapsed' \in {lapsed, TRUE}
    /\ UNCHANGED account

-----------------------------------------------------------------------------
Expire == /\ \E c \in open : open' = open \ {c}
          /\ UNCHANGED <<enrollment, unused, session, enrolls, issued, call, stage, lapsed>>

\* All requests end; the account stays.
Crash == /\ stage' = [r \in Requests |-> "none"]
         /\ call' = [r \in Requests |-> Null]
         /\ UNCHANGED <<account, lapsed>>

Serve(r) == \/ Ask(r) \/ Admit(r) \/ Pass(r) \/ Challenge(r) \/ UseUp(r)
            \/ Issue(r) \/ LogIn(r) \/ Enroll(r) \/ Activate(r) \/ Disable(r) \/ Fail(r)

Next == (\E r \in Requests : Serve(r)) \/ Expire \/ Crash

Spec == Init /\ [][Next]_vars
=============================================================================
