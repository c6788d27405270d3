------------------------- MODULE SecondFactorProofs -------------------------
(***************************************************************************)
(* TwoFactor implements SecondFactor: the statements of login, enroll,     *)
(* verify, login_step2 and disable, interleaved in any way, let a request  *)
(* through only at a moment at which it is entitled to what it asks for.   *)
(***************************************************************************)
EXTENDS TwoFactorProofs

-----------------------------------------------------------------------------
(* What the refinement needs beyond the invariant of TwoFactor *)

\* The id of a challenge is a primary key.
ChallengeKeys == \A x, y \in challenges : x.id = y.id => x = y

\* A challenge that login_step2 is about to drop has expired.
DroppedExpired ==
    \A r \in Requests : At(r, "step2_drop")
        => \A row \in challenges : row.id = rq[r].challenge => row.expired

\* A recovery code that let a request through has been redeemed.
PassedRedeemed ==
    \A r \in Requests :
        /\ pc[r] \in {"challenge_delete", "mint", "wipe"}
        /\ rq[r].op # "login"
        /\ rq[r].factor.kind = "recovery"
        => <<rq[r].factor.seed, rq[r].factor.code>> \in redeemed

GateInv == ChallengeKeys /\ DroppedExpired /\ PassedRedeemed

\* The operation of a busy slot, by its statement.
LEMMA OpOf ==
    ASSUME IInv, NEW r \in Requests, pc[r] # "idle"
    PROVE  /\ rq[r] \in Request /\ rq[r].op \in OpsAt(pc[r])
           /\ pc[r] \in {"login_totp", "login_challenge"} => rq[r].op = "login"
           /\ pc[r] \in {"enroll_select", "enroll_commit"} => rq[r].op = "enroll"
           /\ pc[r] \in {"verify_select", "verify_update"} => rq[r].op = "verify"
           /\ pc[r] \in {"step2_select", "step2_drop", "challenge_delete"} => rq[r].op = "step2"
           /\ pc[r] \in FactorSteps => rq[r].op \in {"step2", "disable"}
           /\ pc[r] = "wipe" => rq[r].op = "disable"
           /\ pc[r] = "mint" => rq[r].op \in {"login", "step2"}
<1>1. rq[r] \in Request /\ SlotOK(r)
  BY BusySlot DEF IInv
<1>2. QED
  BY <1>1 DEF SlotOK, OpsAt, FactorSteps

\* Challenges that stay, or have an id of their own, keep what slots rely on.
OldOrNew == /\ ChallengeKeys'
            /\ \A row \in challenges' : row.id > issued \/ row \in challenges
            /\ redeemed \subseteq redeemed'

\* A slot that keeps its statement and its request keeps its part.
LEMMA KeepSlot ==
    ASSUME IInv, GateInv, OldOrNew, NEW x \in Requests, pc'[x] = pc[x], rq'[x] = rq[x]
    PROVE  /\ pc'[x] = "step2_drop"
              => \A row \in challenges' : row.id = rq'[x].challenge => row.expired
           /\ /\ pc'[x] \in {"challenge_delete", "mint", "wipe"}
              /\ rq'[x].op # "login" /\ rq'[x].factor.kind = "recovery"
              => <<rq'[x].factor.seed, rq'[x].factor.code>> \in redeemed'
<1>1. ASSUME pc[x] = "step2_drop", NEW row \in challenges', row.id = rq[x].challenge
      PROVE  row.expired
  <2>1. rq[x].op = "step2" /\ rq[x] \in Request /\ ArgumentsAreOld(x)
    BY <1>1, OpOf, BusySlot DEF IInv
  <2>2. rq[x].challenge <= issued /\ rq[x].challenge \in Nat /\ issued \in Nat
    BY <2>1, RequestFields, BoundsType DEF ArgumentsAreOld, Challenges, IInv, TypeOK
  <2>3. row \in challenges
    BY <1>1, <2>2 DEF OldOrNew
  <2>4. QED
    BY <1>1, <2>3 DEF GateInv, DroppedExpired, At
<1>2. QED
  BY <1>1 DEF GateInv, PassedRedeemed, OldOrNew

\* A slot that becomes free, and one that goes on.
LEMMA ReturnGate ==
    ASSUME IInv, GateInv, OldOrNew, NEW r \in Requests, Return(r)
    PROVE  GateInv'
<1>1. /\ pc'[r] = "idle"
      /\ \A x \in Requests : x # r => pc'[x] = pc[x] /\ rq'[x] = rq[x]
  BY DEF Return, IInv, TypeOK
<1>2. QED
  BY <1>1, KeepSlot DEF GateInv, OldOrNew, DroppedExpired, PassedRedeemed, At

LEMMA GoToGate ==
    ASSUME IInv, GateInv, OldOrNew, NEW r \in Requests, NEW step, GoTo(r, step),
           step = "step2_drop"
               => \A row \in challenges' : row.id = rq[r].challenge => row.expired,
           (/\ step \in {"challenge_delete", "mint", "wipe"}
            /\ rq[r].op # "login" /\ rq[r].factor.kind = "recovery")
               => <<rq[r].factor.seed, rq[r].factor.code>> \in redeemed'
    PROVE  GateInv'
<1>1. /\ pc'[r] = step /\ rq' = rq
      /\ \A x \in Requests : x # r => pc'[x] = pc[x]
  BY DEF GoTo, IInv, TypeOK
<1>2. DroppedExpired'
  BY <1>1, KeepSlot DEF DroppedExpired, At
<1>3. PassedRedeemed'
  BY <1>1, KeepSlot DEF PassedRedeemed
<1>4. QED
  BY <1>2, <1>3 DEF GateInv, OldOrNew

LEMMA ArriveGate ==
    ASSUME IInv, GateInv, NEW r \in Requests, NEW step, NEW op, NEW challenge, NEW factor,
           Arrive(r, step, op, challenge, factor),
           step \notin {"step2_drop", "challenge_delete", "mint", "wipe"}
    PROVE  GateInv'
<1>1. /\ pc'[r] = step
      /\ \A x \in Requests : x # r => pc'[x] = pc[x] /\ rq'[x] = rq[x]
      /\ challenges' = challenges /\ redeemed' = redeemed
  BY DEF Arrive, IInv, TypeOK, tables, history
<1>2. OldOrNew
  BY <1>1 DEF GateInv, OldOrNew, ChallengeKeys
<1>3. QED
  BY <1>1, <1>2, KeepSlot DEF GateInv, OldOrNew, DroppedExpired, PassedRedeemed, At

\* A step that adds no challenge.
LEMMA FewerChallenges ==
    ASSUME GateInv, challenges' \subseteq challenges, redeemed \subseteq redeemed'
    PROVE  OldOrNew
BY DEF GateInv, OldOrNew, ChallengeKeys

\* Every step of a request keeps GateInv.
LEMMA HandlerGate ==
    ASSUME IInv, GateInv, NEW r \in Requests, Handler(r) \/ Abort(r)
    PROVE  GateInv'
<1>1. CASE \/ StartLogin(r) \/ StartEnroll(r) \/ StartVerify(r) \/ StartStep2(r)
           \/ StartDisable(r)
  BY <1>1, ArriveGate DEF StartLogin, StartEnroll, StartVerify, StartStep2, StartDisable, FactorStep
<1>2. CASE LoginChallenge(r)
  <2>1. /\ Return(r) /\ challenges' = challenges \cup {[id |-> issued + 1, expired |-> FALSE]}
        /\ redeemed' = redeemed
    BY <1>2 DEF LoginChallenge, history
  <2>2. /\ issued \in Nat
        /\ \A row \in challenges : row.id \in Nat /\ row.id <= issued
    BY BoundsType DEF IInv, TypeOK, Challenge, Challenges, NothingFromTheFuture
  <2>3. OldOrNew
    <3> DEFINE new == [id |-> issued + 1, expired |-> FALSE]
    <3>1. new.id = issued + 1 /\ challenges' = challenges \cup {new}
      BY <2>1
    <3> HIDE DEF new
    <3>2. \A row \in challenges : row.id # new.id
      BY <2>2, <3>1
    <3>3. ChallengeKeys'
      BY <3>1, <3>2 DEF GateInv, ChallengeKeys
    <3>4. new.id > issued
      BY <2>2, <3>1
    <3>5. QED
      BY <2>1, <3>1, <3>3, <3>4 DEF OldOrNew
  <2>4. QED
    BY <2>1, <2>3, ReturnGate
<1>3. CASE UNCHANGED <<tables, history>> /\ Return(r)
  BY <1>3, FewerChallenges, ReturnGate DEF tables, history
<1>4. CASE LoginTotp(r)
  <2>1. /\ GoTo(r, IF TotpActive THEN "login_challenge" ELSE "mint") /\ rq[r].op = "login"
        /\ challenges' = challenges /\ redeemed' = redeemed
    BY <1>4, OpOf DEF LoginTotp, At, tables, history
  <2>2. QED
    BY <2>1, FewerChallenges, GoToGate
<1>5. CASE Mint(r) \/ EnrollCommit(r) \/ VerifyUpdate(r)
  BY <1>5, FewerChallenges, ReturnGate DEF Mint, EnrollCommit, VerifyUpdate, history
<1>6. CASE EnrollSelect(r) \/ CodeCheck(r)
  BY <1>3, <1>6, FewerChallenges, GoToGate DEF EnrollSelect, CodeCheck, tables, history
<1>7. CASE VerifySelect(r)
  BY <1>7, FewerChallenges, ReturnGate, GoToGate DEF VerifySelect, tables
<1>8. CASE TotpCheck(r)
  <2>1. rq[r].factor.kind = "totp"
    BY <1>8, BusySlot DEF TotpCheck, At, IInv, SlotOK
  <2>2. challenges' = challenges /\ redeemed' = redeemed
    BY <1>8 DEF TotpCheck, tables, history
  <2>3. QED
    BY <1>8, <2>1, <2>2, FewerChallenges, ReturnGate, GoToGate DEF TotpCheck, Accepted
<1>9. CASE CodeConsume(r)
  <2>1. /\ challenges' = challenges
        /\ redeemed' = redeemed \cup {<<rq[r].factor.seed, rq[r].factor.code>>}
        /\ GoTo(r, IF rq[r].op = "step2" THEN "challenge_delete" ELSE "wipe")
    BY <1>9 DEF CodeConsume, Accepted
  <2>2. QED
    BY <2>1, FewerChallenges, GoToGate
<1>10. CASE Step2Select(r)
  <2>1. challenges' = challenges /\ redeemed' = redeemed /\ UNCHANGED <<tables, history>>
    BY <1>10 DEF Step2Select, tables, history
  <2>2. ASSUME NEW row \in challenges, row.id = rq[r].challenge, row.expired,
               GoTo(r, "step2_drop")
        PROVE  GateInv'
    <3>1. \A other \in challenges : other.id = rq[r].challenge => other.expired
      BY <2>2 DEF GateInv, ChallengeKeys
    <3>2. QED
      BY <2>1, <2>2, <3>1, FewerChallenges, GoToGate
  <2>3. CASE GoTo(r, FactorStep(rq[r].factor))
    BY <2>1, <2>3, FewerChallenges, GoToGate DEF FactorStep
  <2>4. QED
    BY <1>3, <1>10, <2>1, <2>2, <2>3 DEF Step2Select
<1>11. CASE Step2Drop(r)
  BY <1>11, DeletedRows, FewerChallenges, ReturnGate DEF Step2Drop, IInv
<1>12. CASE ChallengeDelete(r)
  <2>1. /\ pc[r] = "challenge_delete" /\ GoTo(r, "mint") /\ challenges' \subseteq challenges
        /\ redeemed' = redeemed
    BY <1>12, DeletedRows DEF ChallengeDelete, IInv, At
  <2>2. rq[r].factor.kind = "recovery" => <<rq[r].factor.seed, rq[r].factor.code>> \in redeemed
    BY <2>1, OpOf DEF GateInv, PassedRedeemed
  <2>3. QED
    BY <2>1, <2>2, FewerChallenges, GoToGate
<1>13. CASE Wipe(r)
  <2>1. /\ pc'[r] = "idle" /\ challenges' = {} /\ redeemed' = redeemed
        /\ \A x \in Requests : x # r => pc'[x] = pc[x] /\ rq'[x] = rq[x]
    BY <1>13 DEF Wipe, IInv, TypeOK, history
  <2>2. QED
    BY <2>1 DEF GateInv, ChallengeKeys, DroppedExpired, PassedRedeemed, At
<1>14. QED
  BY <1>1, <1>2, <1>3, <1>4, <1>5, <1>6, <1>7, <1>8, <1>9, <1>10, <1>11, <1>12, <1>13
     DEF Handler, Abort

LEMMA GateInvStep == IInv /\ GateInv /\ [Next]_vars => GateInv'
<1> SUFFICES ASSUME IInv, GateInv, [Next]_vars PROVE GateInv'
  OBVIOUS
<1>1. CASE UNCHANGED vars
  BY <1>1 DEF vars, tables, history, GateInv, ChallengeKeys, DroppedExpired, PassedRedeemed, At
<1>2. CASE ChallengeExpires
  <2>1. PICK row \in challenges :
            challenges' = (challenges \ {row}) \cup {[row EXCEPT !.expired = TRUE]}
    BY <1>2 DEF ChallengeExpires
  <2>2. row \in Challenge
    BY DEF IInv, TypeOK
  <2>3. [row EXCEPT !.expired = TRUE].id = row.id /\ [row EXCEPT !.expired = TRUE].expired
    BY <2>2 DEF Challenge
  <2>4. pc' = pc /\ rq' = rq /\ redeemed' = redeemed
    BY <1>2 DEF ChallengeExpires, history
  <2>5. ChallengeKeys'
    BY <2>1, <2>3 DEF GateInv, ChallengeKeys
  <2>6. DroppedExpired'
    BY <2>1, <2>3, <2>4 DEF GateInv, DroppedExpired, At
  <2>7. QED
    BY <2>4, <2>5, <2>6 DEF GateInv, PassedRedeemed
<1>3. CASE Restart
  BY <1>3 DEF Restart, tables, history, GateInv, ChallengeKeys, DroppedExpired, PassedRedeemed, At
<1>4. QED
  BY <1>1, <1>2, <1>3, HandlerGate DEF Next

-----------------------------------------------------------------------------
(* The account as SecondFactor sees it *)

\* The enrollment is there when the secret is, with its seed and whether it is on.
LEMMA EnrollmentFacts ==
    ASSUME TypeOK
    PROVE  /\ Enrollment = Null <=> secret = Null
           /\ secret # Null => /\ Enrollment = [seed |-> secret.seed, on |-> secret.active]
                               /\ Enrollment.seed = secret.seed
                               /\ Enrollment.on <=> secret.active
           /\ Gate!On <=> TotpActive
<1>1. CASE secret = Null
  BY <1>1 DEF Enrollment, Gate!On, TotpActive
<1>2. CASE secret # Null
  <2>1. secret \in Secret
    BY <1>2 DEF TypeOK
  <2>2. Enrollment = [seed |-> secret.seed, on |-> secret.active]
    BY <1>2 DEF Enrollment
  <2>3. Enrollment \in [seed : Seeds, on : BOOLEAN]
    BY <2>1, <2>2 DEF Secret
  <2>4. Enrollment # Null
    BY <2>3, NullIsFresh
  <2>5. Enrollment.seed = secret.seed /\ Enrollment.on = secret.active
    BY <2>2
  <2>6. QED
    BY <1>2, <2>2, <2>4, <2>5 DEF Gate!On, TotpActive
<1>3. QED
  BY <1>1, <1>2

\* The codes and challenges that can be used, by their rows.
LEMMA UnusedFacts ==
    \A s, c : <<s, c>> \in UnusedCodes
              <=> \E row \in recovery : ~row.consumed /\ row.seed = s /\ row.code = c
BY DEF UnusedCodes

LEMMA OpenFacts ==
    \A c : c \in OpenChallenges <=> \E row \in challenges : ~row.expired /\ row.id = c
BY DEF OpenChallenges

\* What is not written looks the same.
LEMMA AccountUnchanged ==
    /\ secret' = secret => Enrollment' = Enrollment
    /\ recovery' = recovery => UnusedCodes' = UnusedCodes
    /\ challenges' = challenges => OpenChallenges' = OpenChallenges
    /\ UNCHANGED <<tables, counts>> => UNCHANGED Gate!account
BY DEF Enrollment, UnusedCodes, OpenChallenges, tables, counts, Gate!account

\* The stage of a slot, and the stages after its step.
LEMMA StageOf ==
    ASSUME NEW r \in Requests
    PROVE  Stages[r] = Stage(pc[r], rq[r].op)
BY DEF Stages

LEMMA GoToStage ==
    ASSUME TypeOK, NEW r \in Requests, NEW step, GoTo(r, step)
    PROVE  Gate!Move(r, Stage(step, rq[r].op))
<1>1. pc' = [pc EXCEPT ![r] = step] /\ rq' = rq /\ pc \in [Requests -> Steps \cup {"idle"}]
  BY DEF GoTo, TypeOK
<1>2. Stages' = [x \in Requests |-> Stage(pc'[x], rq'[x].op)]
  BY DEF Stages
<1>3. \A x \in Requests : pc'[x] = IF x = r THEN step ELSE pc[x]
  BY <1>1
<1>4. Stages' = [Stages EXCEPT ![r] = Stage(step, rq[r].op)]
  BY <1>1, <1>2, <1>3 DEF Stages
<1>5. QED
  BY <1>1, <1>4 DEF Gate!Move

LEMMA ReturnStage ==
    ASSUME TypeOK, NEW r \in Requests,
           pc' = [pc EXCEPT ![r] = "idle"], rq' = [rq EXCEPT ![r] = Null]
    PROVE  Gate!End(r)
<1>1. Stages' = [x \in Requests |-> Stage(pc'[x], rq'[x].op)]
  BY DEF Stages
<1>2. \A x \in Requests : /\ x # r => pc'[x] = pc[x] /\ rq'[x] = rq[x]
                          /\ x = r => pc'[x] = "idle"
  BY DEF TypeOK
<1>3. ASSUME NEW x \in Requests
      PROVE  Stage(pc'[x], rq'[x].op) = IF x = r THEN "none" ELSE Stage(pc[x], rq[x].op)
  <2>1. CASE x = r
    BY <1>2, <2>1 DEF Stage
  <2>2. CASE x # r
    BY <1>2, <2>2
  <2>3. QED
    BY <2>1, <2>2
<1>4. Stages' = [Stages EXCEPT ![r] = "none"]
  BY <1>1, <1>3 DEF Stages
<1>5. QED
  BY <1>4 DEF Gate!End

-----------------------------------------------------------------------------
(* Step by step *)

\* A request that ends and leaves the account as it is.
LEMMA FailGate ==
    ASSUME TypeOK, NEW r \in Requests, pc[r] # "idle", Return(r), UNCHANGED <<tables, counts>>,
           ignored' = ignored
    PROVE  Gate!Fail(r)
<1>1. Stages[r] # "none"
  BY StageOf DEF Stage
<1>2. Gate!End(r)
  BY ReturnStage DEF Return
<1>3. QED
  BY <1>1, <1>2, AccountUnchanged DEF Gate!Fail

\* A request that goes on and leaves the account as it is.
LEMMA MoveGate ==
    ASSUME TypeOK, NEW r \in Requests, NEW step, GoTo(r, step), UNCHANGED <<tables, counts>>,
           ignored' = ignored
    PROVE  /\ Gate!Move(r, Stage(step, rq[r].op))
           /\ UNCHANGED Gate!account
           /\ UNCHANGED <<Gate!account, ignored>>
BY GoToStage, AccountUnchanged

\* Arrival.
LEMMA AskGate ==
    ASSUME IInv, NEW r \in Requests,
           \/ StartLogin(r) \/ StartEnroll(r) \/ StartVerify(r) \/ StartStep2(r)
           \/ StartDisable(r)
    PROVE  Gate!Ask(r)
<1>0. TypeOK
  BY DEF IInv
<1>1. ASSUME NEW step, NEW op, NEW challenge, NEW factor, Arrive(r, step, op, challenge, factor),
             [op |-> op, challenge |-> challenge, factor |-> factor] \in Request,
             Stage(step, op) = "asked",
             op \in {"enroll", "verify", "disable"} => session,
             op = "step2" => challenge <= issued,
             op \in {"verify", "step2", "disable"} => factor.seed <= enrolls
      PROVE  Gate!Ask(r)
  <2> DEFINE q == [op |-> op, challenge |-> challenge, factor |-> factor]
  <2>1. /\ pc[r] = "idle" /\ pc' = [pc EXCEPT ![r] = step] /\ rq' = [rq EXCEPT ![r] = q]
        /\ UNCHANGED <<tables, counts, history>>
    BY <1>1 DEF Arrive, At
  <2>2. q \in Request /\ q.op = op /\ q.challenge = challenge /\ q.factor = factor
    BY <1>1
  <2> HIDE DEF q
  <2>3. Stages[r] = "none"
    BY <2>1, StageOf DEF Stage
  <2>4. \A x \in Requests : Stage(pc'[x], rq'[x].op)
                              = IF x = r THEN "asked" ELSE Stage(pc[x], rq[x].op)
    <3>1. SUFFICES ASSUME NEW x \in Requests
                   PROVE  Stage(pc'[x], rq'[x].op)
                            = IF x = r THEN "asked" ELSE Stage(pc[x], rq[x].op)
      OBVIOUS
    <3>2. CASE x = r
      <4>1. pc'[x] = step /\ rq'[x] = q
        BY <1>0, <2>1, <3>2 DEF TypeOK
      <4>2. QED
        BY <1>1, <2>2, <3>2, <4>1
    <3>3. CASE x # r
      <4>1. pc'[x] = pc[x] /\ rq'[x] = rq[x]
        BY <1>0, <2>1, <3>3 DEF TypeOK
      <4>2. QED
        BY <3>3, <4>1
    <3>4. QED
      BY <3>2, <3>3
  <2>5. Stages' = [Stages EXCEPT ![r] = "asked"]
    BY <2>4 DEF Stages
  <2>6. UNCHANGED <<Gate!account, ignored>>
    BY <2>1, AccountUnchanged DEF history
  <2>7. QED
    BY <1>1, <2>1, <2>2, <2>3, <2>5, <2>6 DEF Gate!Ask
<1>2. CASE StartLogin(r)
  BY <1>1, <1>2, BuildRequest DEF StartLogin, Stage
<1>3. CASE StartEnroll(r)
  BY <1>1, <1>3, BuildRequest DEF StartEnroll, Stage
<1>4. CASE StartVerify(r)
  <2>1. PICK f \in Factors : /\ f.kind = "totp" /\ f.seed <= enrolls
                             /\ Arrive(r, "verify_select", "verify", Null, f)
    BY <1>4 DEF StartVerify
  <2>2. session /\ Stage("verify_select", "verify") = "asked"
    BY <1>4 DEF StartVerify, Stage
  <2>3. QED
    BY <1>1, <2>1, <2>2, BuildRequest
<1>5. CASE StartStep2(r)
  <2>1. PICK c \in 1..issued, f \in Factors :
             f.seed <= enrolls /\ Arrive(r, "step2_select", "step2", c, f)
    BY <1>5 DEF StartStep2
  <2>2. c \in Challenges /\ c <= issued
    BY <1>0, BoundsType DEF Challenges, TypeOK
  <2>3. Stage("step2_select", "step2") = "asked"
    BY DEF Stage
  <2>4. QED
    BY <1>1, <2>1, <2>2, <2>3, BuildRequest
<1>6. CASE StartDisable(r)
  <2>1. PICK f \in Factors : f.seed <= enrolls /\ Arrive(r, FactorStep(f), "disable", Null, f)
    BY <1>6 DEF StartDisable
  <2>2. session /\ Stage(FactorStep(f), "disable") = "asked"
    BY <1>6 DEF StartDisable, FactorStep, Stage
  <2>3. QED
    BY <1>1, <2>1, <2>2, BuildRequest
<1>7. QED
  BY <1>2, <1>3, <1>4, <1>5, <1>6

\* A stage that stays, with its request.
LEMMA SameStage ==
    ASSUME NEW r \in Requests, NEW s, Stages[r] = s, Gate!Move(r, s)
    PROVE  Stages' = Stages /\ rq' = rq
BY DEF Gate!Move, Stages

\* The statements that only read: the request passes, is admitted, is sent for
\* a challenge, or fails.
LEMMA ReadGate ==
    ASSUME IInv, NEW r \in Requests,
           \/ LoginTotp(r) \/ EnrollSelect(r) \/ VerifySelect(r) \/ TotpCheck(r)
           \/ CodeCheck(r) \/ Step2Select(r) \/ Abort(r)
    PROVE  Gate!Serve(r) \/ UNCHANGED Gate!vars
<1>0. TypeOK
  BY DEF IInv
<1>1. pc[r] # "idle" /\ UNCHANGED <<tables, counts>> /\ ignored' = ignored
  BY DEF LoginTotp, EnrollSelect, VerifySelect, TotpCheck, CodeCheck, Step2Select, Abort, At, history
<1>2. CASE Return(r)
  BY <1>0, <1>1, <1>2, FailGate DEF Gate!Serve
<1>3. Stages[r] = Stage(pc[r], rq[r].op)
  BY StageOf
<1>4. CASE LoginTotp(r)
  <2>1. /\ pc[r] = "login_totp" /\ rq[r].op = "login"
        /\ GoTo(r, IF TotpActive THEN "login_challenge" ELSE "mint")
    BY <1>1, <1>4, OpOf DEF LoginTotp, At
  <2>2. Gate!At(r, "asked", "login")
    BY <1>3, <2>1 DEF Gate!At, Stage
  <2>3. CASE TotpActive
    <3>1. Gate!Move(r, "challenged") /\ UNCHANGED <<Gate!account, ignored>>
      BY <1>0, <1>1, <2>1, <2>3, MoveGate DEF Stage
    <3>2. Gate!Challenge(r)
      BY <1>0, <2>2, <2>3, <3>1, EnrollmentFacts DEF Gate!Challenge
    <3>3. QED
      BY <3>2 DEF Gate!Serve
  <2>4. CASE ~TotpActive
    <3>1. Gate!Move(r, "passed") /\ UNCHANGED <<Gate!account, ignored>>
      BY <1>0, <1>1, <2>1, <2>4, MoveGate DEF Stage
    <3>2. Gate!Pass(r)
      BY <1>0, <2>2, <2>4, <3>1, EnrollmentFacts DEF Gate!Pass
    <3>3. QED
      BY <3>2 DEF Gate!Serve
  <2>5. QED
    BY <2>3, <2>4
<1>5. CASE EnrollSelect(r) /\ secret = Null
  <2>1. pc[r] = "enroll_select" /\ rq[r].op = "enroll" /\ GoTo(r, "enroll_commit")
    BY <1>1, <1>5, OpOf DEF EnrollSelect, At
  <2>2. Gate!At(r, "asked", "enroll")
    BY <1>3, <2>1 DEF Gate!At, Stage
  <2>3. Gate!Move(r, "passed") /\ UNCHANGED <<Gate!account, ignored>>
    BY <1>0, <1>1, <2>1, MoveGate DEF Stage
  <2>4. Gate!Pass(r)
    BY <1>0, <1>5, <2>2, <2>3, EnrollmentFacts DEF Gate!Pass
  <2>5. QED
    BY <2>4 DEF Gate!Serve
<1>6. CASE VerifySelect(r) /\ secret # Null /\ ~secret.active /\ Accepts(secret, rq[r].factor)
  <2>1. pc[r] = "verify_select" /\ rq[r].op = "verify" /\ GoTo(r, "verify_update")
    BY <1>1, <1>6, OpOf DEF VerifySelect, At
  <2>2. Gate!At(r, "asked", "verify")
    BY <1>3, <2>1 DEF Gate!At, Stage
  <2>3. Gate!Move(r, "passed") /\ UNCHANGED <<Gate!account, ignored>>
    BY <1>0, <1>1, <2>1, MoveGate DEF Stage
  <2>4. Enrollment # Null /\ ~Gate!On /\ rq[r].factor.seed = Enrollment.seed
    BY <1>0, <1>6, EnrollmentFacts DEF TotpActive, Accepts
  <2>5. Gate!Pass(r)
    BY <2>2, <2>3, <2>4 DEF Gate!Pass
  <2>6. QED
    BY <2>5 DEF Gate!Serve
<1>7. ASSUME NEW step, rq[r].op \in {"step2", "disable"}, pc[r] \in {"totp_check", "code_check"},
             Gate!Good(rq[r].factor), GoTo(r, step),
             step \in {"code_consume", "challenge_delete", "wipe"}
      PROVE  Gate!Serve(r)
  <2>1. IF rq[r].op = "step2" THEN Gate!At(r, "admitted", "step2")
        ELSE Gate!At(r, "asked", "disable")
    BY <1>3, <1>7 DEF Gate!At, Stage
  <2>2. Gate!Move(r, "passed") /\ UNCHANGED <<Gate!account, ignored>>
    <3>1. Stage(step, rq[r].op) = "passed"
      BY <1>7 DEF Stage
    <3>2. QED
      BY <1>0, <1>1, <1>7, <3>1, MoveGate
  <2>3. Gate!Pass(r)
    BY <1>7, <2>1, <2>2 DEF Gate!Pass
  <2>4. QED
    BY <2>3 DEF Gate!Serve
<1>8. CASE TotpCheck(r) /\ TotpActive /\ Accepts(secret, rq[r].factor)
  <2>1. /\ pc[r] = "totp_check" /\ rq[r].op \in {"step2", "disable"}
        /\ rq[r].factor.kind = "totp"
    BY <1>1, <1>8, OpOf, BusySlot DEF TotpCheck, At, FactorSteps, IInv, SlotOK
  <2>2. Gate!Good(rq[r].factor)
    BY <1>0, <1>8, <2>1, EnrollmentFacts DEF Gate!Good, TotpActive, Accepts
  <2>3. QED
    BY <1>7, <1>8, <2>1, <2>2 DEF TotpCheck, Accepted
<1>9. CASE CodeCheck(r) /\ Unconsumed(rq[r].factor) # {}
  <2>1. /\ pc[r] = "code_check" /\ rq[r].op \in {"step2", "disable"}
        /\ rq[r].factor.kind = "recovery"
    BY <1>1, <1>9, OpOf, BusySlot DEF CodeCheck, At, FactorSteps, IInv, SlotOK
  <2>2. Gate!Good(rq[r].factor)
    BY <1>9, <2>1, UnusedFacts DEF Gate!Good, Unconsumed
  <2>3. QED
    BY <1>7, <1>9, <2>1, <2>2 DEF CodeCheck
<1>10. CASE Step2Select(r) /\ ~Return(r)
  <2>1. pc[r] = "step2_select" /\ rq[r].op = "step2"
    BY <1>1, <1>10, OpOf DEF Step2Select, At
  <2>2. PICK row \in challenges :
             /\ row.id = rq[r].challenge
             /\ GoTo(r, IF row.expired THEN "step2_drop" ELSE FactorStep(rq[r].factor))
    BY <1>10 DEF Step2Select
  <2>3. Gate!At(r, "asked", "step2") /\ Stages[r] = "asked"
    BY <1>3, <2>1 DEF Gate!At, Stage
  <2>4. CASE row.expired
    <3>1. Gate!Move(r, "asked") /\ UNCHANGED Gate!account /\ ignored' = ignored
      BY <1>0, <1>1, <2>1, <2>2, <2>4, MoveGate DEF Stage
    <3>2. QED
      BY <2>3, <3>1, SameStage DEF Gate!vars
  <2>5. CASE ~row.expired
    <3>1. Stage(FactorStep(rq[r].factor), rq[r].op) = "admitted"
      BY <2>1 DEF Stage, FactorStep
    <3>2. Gate!Move(r, "admitted") /\ UNCHANGED <<Gate!account, ignored>>
      BY <1>0, <1>1, <2>2, <2>5, <3>1, MoveGate
    <3>3. rq[r].challenge \in OpenChallenges
      BY <2>2, <2>5, OpenFacts
    <3>4. Gate!Admit(r)
      BY <2>3, <3>2, <3>3 DEF Gate!Admit
    <3>5. QED
      BY <3>4 DEF Gate!Serve
  <2>6. QED
    BY <2>4, <2>5
<1>11. QED
  BY <1>2, <1>4, <1>5, <1>6, <1>8, <1>9, <1>10
     DEF EnrollSelect, VerifySelect, TotpCheck, CodeCheck, Step2Select, Abort

\* What let a request through is used up when the request takes effect.
LEMMA UsedUpAtEffect ==
    ASSUME IInv, GateInv, NEW r \in Requests,
           pc[r] = "wipe" \/ (pc[r] = "mint" /\ rq[r].op = "step2")
    PROVE  Gate!UsedUp(r)
<1>1. rq[r].op \in {"step2", "disable"} /\ (rq[r].op = "step2" => pc[r] = "mint")
  BY OpOf
<1>2. rq[r].op = "step2" /\ rq[r].challenge \in OpenChallenges => ignored
  BY <1>1, OpenFacts DEF IInv, PaidChallengesGone, At
<1>3. rq[r].factor.kind = "recovery"
        => <<rq[r].factor.seed, rq[r].factor.code>> \in redeemed
  BY <1>1 DEF GateInv, PassedRedeemed
<1>4. rq[r].factor.kind = "recovery"
        /\ <<rq[r].factor.seed, rq[r].factor.code>> \in UnusedCodes => ignored
  BY <1>3, UnusedFacts DEF IInv, RedeemedCodesConsumed
<1>5. QED
  BY <1>1, <1>2, <1>4 DEF Gate!UsedUp, Gate!CodeOf

\* INSERT INTO totp_challenges.
LEMMA IssueGate ==
    ASSUME IInv, NEW r \in Requests, LoginChallenge(r)
    PROVE  Gate!Issue(r)
<1>1. /\ pc[r] = "login_challenge" /\ issued' = issued + 1
      /\ challenges' = challenges \cup {[id |-> issued + 1, expired |-> FALSE]}
      /\ Return(r)
      /\ UNCHANGED <<secret, recovery, session, enrolls, ignored>>
  BY DEF LoginChallenge, At, history
<1>2. Gate!At(r, "challenged", "login")
  BY <1>1, OpOf, StageOf DEF Gate!At, Stage
<1>3. OpenChallenges' = OpenChallenges \cup {issued + 1}
  <2> DEFINE new == [id |-> issued + 1, expired |-> FALSE]
  <2>1. new.id = issued + 1 /\ ~new.expired /\ challenges' = challenges \cup {new}
    BY <1>1
  <2> HIDE DEF new
  <2>2. QED
    BY <2>1 DEF OpenChallenges
<1>4. Gate!End(r)
  BY <1>1, ReturnStage DEF Return, IInv
<1>5. QED
  BY <1>1, <1>2, <1>3, <1>4, AccountUnchanged DEF Gate!Issue

\* INSERT INTO sessions.
LEMMA LogInGate ==
    ASSUME IInv, GateInv, NEW r \in Requests, Mint(r)
    PROVE  Gate!LogIn(r)
<1>1. /\ pc[r] = "mint" /\ session' = TRUE /\ Return(r)
      /\ UNCHANGED <<secret, recovery, challenges, enrolls, issued, ignored>>
  BY DEF Mint, At, counts
<1>2. Gate!At(r, "passed", "login") \/ (Gate!At(r, "passed", "step2") /\ Gate!UsedUp(r))
  BY <1>1, OpOf, StageOf, UsedUpAtEffect DEF Gate!At, Stage
<1>3. Gate!End(r)
  BY <1>1, ReturnStage DEF Return, IInv
<1>4. QED
  BY <1>1, <1>2, <1>3, AccountUnchanged DEF Gate!LogIn

\* The transaction of enroll: the secret and all its codes, or nothing.
LEMMA EnrollGate ==
    ASSUME IInv, NEW r \in Requests, EnrollCommit(r)
    PROVE  Gate!Enroll(r) \/ Gate!Fail(r)
<1>0. TypeOK /\ TypeOK'
  BY EnrollCommitStep DEF IInv
<1>1. pc[r] = "enroll_commit" /\ Return(r) /\ UNCHANGED <<challenges, session, issued, restarts, ignored>>
  BY DEF EnrollCommit, At, history
<1>2. CASE secret # Null
  BY <1>0, <1>1, <1>2, FailGate DEF EnrollCommit, tables, counts
<1>3. CASE secret = Null
  <2>1. /\ enrolls' = enrolls + 1
        /\ secret' = [seed |-> enrolls + 1, key |-> key, active |-> FALSE]
        /\ recovery' = FreshCodes(enrolls + 1)
    BY <1>3 DEF EnrollCommit, IInv, CodesBelongToSecret
  <2>2. UnusedCodes' = {enrolls + 1} \X Codes
    <3>1. \A row \in recovery' :
              row.seed = enrolls + 1 /\ row.code \in Codes /\ row.consumed = FALSE
      BY <2>1 DEF FreshCodes
    <3>2. \A c \in Codes : \E row \in recovery' :
              row.seed = enrolls + 1 /\ row.code = c /\ row.consumed = FALSE
      <4>1. SUFFICES ASSUME NEW c \in Codes
                     PROVE  \E row \in recovery' :
                               row.seed = enrolls + 1 /\ row.code = c /\ row.consumed = FALSE
        OBVIOUS
      <4>2. [seed |-> enrolls + 1, code |-> c, consumed |-> FALSE] \in recovery'
        BY <2>1 DEF FreshCodes
      <4>3. QED
        BY <4>2
    <3>3. QED
      BY <3>1, <3>2 DEF UnusedCodes
  <2>3. Enrollment' = [seed |-> enrolls + 1, on |-> FALSE]
    <3>1. secret' # Null
      <4>1. key \in Keys /\ enrolls + 1 \in Seeds
        BY <1>0, <2>1, BoundsType DEF TypeOK, key, Keys, Seeds
      <4>2. secret' \in Secret
        BY <2>1, <4>1 DEF Secret
      <4>3. QED
        BY <4>2, NullIsFresh
    <3>2. QED
      BY <2>1, <3>1 DEF Enrollment
  <2>4. Enrollment = Null
    BY <1>3 DEF Enrollment
  <2>5. Gate!At(r, "passed", "enroll")
    BY <1>1, OpOf, StageOf DEF Gate!At, Stage
  <2>6. Gate!End(r)
    BY <1>0, <1>1, ReturnStage DEF Return
  <2>7. Gate!Enroll(r)
    BY <1>1, <2>1, <2>2, <2>3, <2>4, <2>5, <2>6, AccountUnchanged DEF Gate!Enroll
  <2>8. QED
    BY <2>7
<1>4. QED
  BY <1>2, <1>3

\* UPDATE totp_secrets SET enrolled_at.
LEMMA ActivateGate ==
    ASSUME IInv, NEW r \in Requests, VerifyUpdate(r)
    PROVE  Gate!Activate(r) \/ Gate!Fail(r)
<1>0. TypeOK
  BY DEF IInv
<1>1. /\ pc[r] = "verify_update" /\ Return(r)
      /\ UNCHANGED <<recovery, challenges, session, counts, ignored>>
  BY DEF VerifyUpdate, At
<1>2. CASE secret = Null
  BY <1>0, <1>1, <1>2, FailGate DEF VerifyUpdate, tables
<1>3. CASE secret # Null
  <2>1. secret' = [secret EXCEPT !.active = TRUE] /\ secret \in Secret
    BY <1>0, <1>3 DEF VerifyUpdate, TypeOK
  <2>2. secret' # Null /\ secret'.seed = secret.seed /\ secret'.active = TRUE
    <3>1. secret' \in Secret /\ secret'.seed = secret.seed /\ secret'.active = TRUE
      BY <2>1 DEF Secret
    <3>2. QED
      BY <3>1, NullIsFresh
  <2>3. Enrollment' = [seed |-> secret.seed, on |-> TRUE]
    BY <2>2 DEF Enrollment
  <2>4. Enrollment # Null /\ Enrollment = [seed |-> secret.seed, on |-> secret.active]
    BY <1>0, <1>3, EnrollmentFacts
  <2>5. Enrollment' = [seed |-> Enrollment.seed, on |-> TRUE]
    BY <1>0, <1>3, <2>3, EnrollmentFacts
  <2>6. Gate!At(r, "passed", "verify")
    BY <1>1, OpOf, StageOf DEF Gate!At, Stage
  <2>7. Gate!End(r)
    BY <1>0, <1>1, ReturnStage DEF Return
  <2>8. Gate!Activate(r)
    BY <1>1, <2>4, <2>5, <2>6, <2>7, AccountUnchanged DEF Gate!Activate, counts
  <2>9. QED
    BY <2>8
<1>4. QED
  BY <1>2, <1>3

\* UPDATE totp_recovery_codes SET consumed_at: the code is used up, or a lapse.
LEMMA UseCodeGate ==
    ASSUME IInv, NEW r \in Requests, CodeConsume(r)
    PROVE  Gate!UseUp(r)
<1> DEFINE f == rq[r].factor
<1>0. TypeOK /\ recovery \subseteq RecoveryRow
  BY DEF IInv, TypeOK
<1>1. /\ pc[r] = "code_consume"
      /\ \/ recovery' = ConsumedBy(f) /\ UNCHANGED ignored
         \/ ignored' = TRUE /\ UNCHANGED recovery
      /\ GoTo(r, IF rq[r].op = "step2" THEN "challenge_delete" ELSE "wipe")
      /\ UNCHANGED <<secret, challenges, session, enrolls, issued>>
  BY DEF CodeConsume, Accepted, At, counts
<1>2. rq[r].op \in {"step2", "disable"}
  BY <1>1, OpOf DEF FactorSteps
<1>3. Stages[r] = "passed" /\ Gate!ByFactor(r)
  BY <1>1, <1>2, StageOf DEF Gate!ByFactor, Gate!At, Stage
<1>4. Stages' = Stages /\ rq' = rq
  <2>1. Gate!Move(r, "passed")
    BY <1>0, <1>1, GoToStage DEF Stage
  <2>2. QED
    BY <1>3, <2>1, SameStage
<1>5. CASE recovery' = ConsumedBy(f) /\ UNCHANGED ignored
  <2>1. UnusedCodes' = UnusedCodes \ {<<f.seed, f.code>>}
    <3> DEFINE Hit(row) == row.seed = f.seed /\ row.code = f.code
    <3>1. \A row \in recovery : Hit(row) => [row EXCEPT !.consumed = TRUE].consumed
      BY <1>0 DEF RecoveryRow
    <3>2. \A new \in recovery' : ~new.consumed => new \in recovery /\ ~Hit(new)
      BY <1>0, <1>5, <3>1 DEF ConsumedBy
    <3>3. \A row \in recovery : ~Hit(row) => row \in recovery'
      BY <1>5 DEF ConsumedBy
    <3>4. \A x : x \in UnusedCodes' <=> \E row \in recovery' : ~row.consumed /\ x = <<row.seed, row.code>>
      BY DEF UnusedCodes
    <3>5. \A x : x \in UnusedCodes <=> \E row \in recovery : ~row.consumed /\ x = <<row.seed, row.code>>
      BY DEF UnusedCodes
    <3>6. ASSUME NEW x \in UnusedCodes' PROVE x \in UnusedCodes /\ x # <<f.seed, f.code>>
      BY <3>2, <3>4, <3>5, <3>6
    <3>7. ASSUME NEW x \in UnusedCodes, x # <<f.seed, f.code>> PROVE x \in UnusedCodes'
      BY <3>3, <3>4, <3>5, <3>7
    <3>8. QED
      BY <3>6, <3>7
  <2>2. QED
    BY <1>1, <1>3, <1>4, <1>5, <2>1, AccountUnchanged DEF Gate!UseUp, Gate!CodeOf
<1>6. CASE ignored' = TRUE /\ UNCHANGED recovery
  <2>1. ignored' = TRUE /\ UNCHANGED <<UnusedCodes, OpenChallenges, Enrollment>>
    BY <1>1, <1>6, AccountUnchanged
  <2>2. QED
    BY <1>1, <1>3, <1>4, <2>1 DEF Gate!UseUp
<1>7. QED
  BY <1>1, <1>5, <1>6

\* The rows that DELETE FROM totp_challenges WHERE id leaves.
LEMMA DeleteOpen ==
    ASSUME NEW r \in Requests, DeleteChallenge(r)
    PROVE  \/ OpenChallenges' = OpenChallenges \ {rq[r].challenge} /\ ignored' = ignored
           \/ ignored' = TRUE /\ OpenChallenges' = OpenChallenges
<1>1. CASE challenges' = {row \in challenges : row.id # rq[r].challenge} /\ ignored' = ignored
  BY <1>1 DEF OpenChallenges
<1>2. CASE ignored' = TRUE /\ challenges' = challenges
  BY <1>2, AccountUnchanged
<1>3. QED
  BY <1>1, <1>2 DEF DeleteChallenge

\* The challenge is used up, or a lapse.
LEMMA UseChallengeGate ==
    ASSUME IInv, NEW r \in Requests, ChallengeDelete(r)
    PROVE  Gate!UseUp(r)
<1>1. /\ pc[r] = "challenge_delete" /\ DeleteChallenge(r) /\ GoTo(r, "mint")
      /\ UNCHANGED <<secret, recovery, session, enrolls, issued>>
  BY DEF ChallengeDelete, At, counts
<1>2. Stages[r] = "passed" /\ Gate!ByFactor(r)
  BY <1>1, OpOf, StageOf DEF Gate!ByFactor, Gate!At, Stage
<1>3. Stages' = Stages /\ rq' = rq
  <2>1. Gate!Move(r, "passed")
    BY <1>1, GoToStage DEF Stage, IInv
  <2>2. QED
    BY <1>2, <2>1, SameStage
<1>4. UNCHANGED <<Enrollment, UnusedCodes>>
  BY <1>1, AccountUnchanged
<1>5. QED
  BY <1>1, <1>2, <1>3, <1>4, DeleteOpen DEF Gate!UseUp

\* An expired challenge is dropped: it could not be used any more.
LEMMA DropGate ==
    ASSUME IInv, GateInv, NEW r \in Requests, Step2Drop(r)
    PROVE  Gate!Fail(r)
<1>1. /\ pc[r] = "step2_drop" /\ DeleteChallenge(r) /\ Return(r)
      /\ UNCHANGED <<secret, recovery, session, enrolls, issued>>
  BY DEF Step2Drop, At, counts
<1>2. rq[r].challenge \notin OpenChallenges
  BY <1>1, OpenFacts DEF GateInv, DroppedExpired, At
<1>3. OpenChallenges' = OpenChallenges /\ ignored' \in {ignored, TRUE}
  BY <1>1, <1>2, DeleteOpen
<1>4. Stages[r] # "none"
  BY <1>1, StageOf DEF Stage
<1>5. Gate!End(r)
  BY <1>1, ReturnStage DEF Return, IInv
<1>6. QED
  BY <1>1, <1>3, <1>4, <1>5, AccountUnchanged DEF Gate!Fail, Gate!account

\* The transaction of disable.
LEMMA DisableGate ==
    ASSUME IInv, GateInv, NEW r \in Requests, Wipe(r)
    PROVE  Gate!Disable(r)
<1>1. /\ pc[r] = "wipe" /\ secret' = Null /\ recovery' = {} /\ challenges' = {}
      /\ pc' = [pc EXCEPT ![r] = "idle"] /\ rq' = [rq EXCEPT ![r] = Null]
      /\ UNCHANGED <<session, enrolls, issued, ignored>>
  BY DEF Wipe, At, counts, history
<1>2. Gate!At(r, "passed", "disable") /\ Gate!UsedUp(r)
  BY <1>1, OpOf, StageOf, UsedUpAtEffect DEF Gate!At, Stage
<1>3. Enrollment' = Null /\ UnusedCodes' = {} /\ OpenChallenges' = {}
  BY <1>1 DEF Enrollment, UnusedCodes, OpenChallenges
<1>4. Gate!End(r)
  BY <1>1, ReturnStage DEF IInv
<1>5. QED
  BY <1>1, <1>2, <1>3, <1>4 DEF Gate!Disable

\* Time runs out for a challenge.
LEMMA ExpireGate ==
    ASSUME IInv, GateInv, ChallengeExpires
    PROVE  Gate!Expire \/ UNCHANGED Gate!vars
<1>1. PICK row \in challenges :
          challenges' = (challenges \ {row}) \cup {[row EXCEPT !.expired = TRUE]}
  BY DEF ChallengeExpires
<1>2. UNCHANGED <<secret, recovery, session, enrolls, issued, pc, rq, ignored>>
  BY DEF ChallengeExpires, counts, history
<1> DEFINE new == [row EXCEPT !.expired = TRUE]
<1>3. row \in Challenge /\ new.expired /\ \A x \in challenges : x \in Challenge
  BY DEF IInv, TypeOK, Challenge
<1>4. challenges' = (challenges \ {row}) \cup {new}
  BY <1>1
<1> HIDE DEF new
<1>5. UNCHANGED <<Enrollment, UnusedCodes, Stages>>
  BY <1>2 DEF Enrollment, UnusedCodes, Stages
<1>6. CASE row.expired
  <2>1. OpenChallenges' = OpenChallenges
    BY <1>3, <1>4, <1>6 DEF OpenChallenges
  <2>2. QED
    BY <1>2, <1>5, <2>1 DEF Gate!vars, Gate!account
<1>7. CASE ~row.expired
  <2>1. \A x \in challenges : ~x.expired /\ x.id = row.id => x = row
    BY <1>7 DEF GateInv, ChallengeKeys
  <2>2. OpenChallenges' = OpenChallenges \ {row.id} /\ row.id \in OpenChallenges
    BY <1>3, <1>4, <1>7, <2>1 DEF OpenChallenges
  <2>3. QED
    BY <1>2, <1>5, <2>2 DEF Gate!Expire
<1>8. QED
  BY <1>6, <1>7

\* Every session and every change of the enrollment goes to a request that was
\* entitled to it at a moment of its own: login, enroll, verify, login_step2 and
\* disable implement SecondFactor, however their statements interleave.
THEOREM Refinement == Spec => EntitledWhenServed
<1>1. Init => GateInv
  BY DEF Init, GateInv, ChallengeKeys, DroppedExpired, PassedRedeemed, At
<1>2. Init => Gate!Init
  BY DEF Init, Gate!Init, Enrollment, UnusedCodes, OpenChallenges, Stages, Stage
<1>3. IInv /\ GateInv /\ [Next]_vars => [Gate!Next]_(Gate!vars)
  <2> SUFFICES ASSUME IInv, GateInv, [Next]_vars PROVE [Gate!Next]_(Gate!vars)
    OBVIOUS
  <2>1. CASE UNCHANGED vars
    BY <2>1 DEF vars, tables, counts, history, Gate!vars, Gate!account,
                Enrollment, UnusedCodes, OpenChallenges, Stages
  <2>2. ASSUME NEW r \in Requests, Handler(r) \/ Abort(r)
        PROVE  Gate!Serve(r) \/ UNCHANGED Gate!vars
    BY <2>2, AskGate, ReadGate, IssueGate, LogInGate, EnrollGate, ActivateGate, UseCodeGate,
       UseChallengeGate, DropGate, DisableGate DEF Handler, Gate!Serve
  <2>3. CASE Restart
    <3>1. /\ pc' = [r \in Requests |-> "idle"] /\ rq' = [r \in Requests |-> Null]
          /\ UNCHANGED <<tables, enrolls, issued, ignored>>
      BY <2>3 DEF Restart, history
    <3>2. Stages' = [r \in Requests |-> "none"]
      BY <3>1 DEF Stages, Stage
    <3>3. UNCHANGED Gate!account
      BY <3>1, AccountUnchanged DEF tables, Gate!account
    <3>4. Gate!Crash
      BY <3>1, <3>2, <3>3 DEF Gate!Crash
    <3>5. QED
      BY <3>4 DEF Gate!Next
  <2>4. QED
    BY <2>1, <2>2, <2>3, ExpireGate DEF Next, Gate!Next
<1>4. QED
  BY <1>1, <1>2, <1>3, GateInvStep, Invariance, PTL DEF Spec, EntitledWhenServed, Gate!Spec
=============================================================================
