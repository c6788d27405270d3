--------------------------- MODULE TwoFactorProofs ---------------------------
(***************************************************************************)
(* Theorems about TwoFactor, for every set of requests and of recovery     *)
(* codes, every bound, with a fixed key or a random one, and with or       *)
(* without statements that fail and are ignored.                           *)
(***************************************************************************)
EXTENDS TwoFactor, TLAPS

-----------------------------------------------------------------------------
(* The inductive invariant *)

\* The operations that a statement belongs to.
OpsAt(step) ==
    CASE step \in {"login_totp", "login_challenge"}                 -> {"login"}
      [] step \in {"enroll_select", "enroll_commit"}                -> {"enroll"}
      [] step \in {"verify_select", "verify_update"}                -> {"verify"}
      [] step \in {"step2_select", "step2_drop", "challenge_delete"} -> {"step2"}
      [] step \in FactorSteps                                       -> {"step2", "disable"}
      [] step = "wipe"                                              -> {"disable"}
      [] step = "mint"                                              -> {"login", "step2"}

\* A request runs statements of its own operation, and takes the branch of the
\* factor it brought; a recovery code about to be consumed was found in the table.
SlotOK(r) ==
    /\ rq[r].op \in OpsAt(pc[r])
    /\ At(r, "totp_check") => rq[r].factor.kind = "totp"
    /\ pc[r] \in {"code_check", "code_consume"} => rq[r].factor.kind = "recovery"
    /\ At(r, "code_consume") => rq[r].factor.seed # 0

\* What a client can know: challenges and seeds handed out before now.
ArgumentsAreOld(r) ==
    /\ rq[r].op = "step2" => rq[r].challenge <= issued
    /\ rq[r].op \in {"verify", "step2", "disable"} => rq[r].factor.seed <= enrolls

SlotsOK == \A r \in Requests : ~At(r, "idle") => SlotOK(r) /\ ArgumentsAreOld(r)

\* Ids and seeds are never used twice: what is stored or remembered is not newer
\* than the counter.
NothingFromTheFuture ==
    /\ \A row \in challenges : row.id <= issued
    /\ \A c \in spent : c <= issued
    /\ \A p \in redeemed : p[1] <= enrolls

\* TOTP is on for a guarded login, and it is before the branch or on the
\* challenge side of it.
GuardedLogins ==
    \A r \in guarded : /\ TotpActive
                       /\ rq[r].op = "login"
                       /\ pc[r] \in {"login_totp", "login_challenge"}

ActiveIsActivated == TotpActive => secret.seed \in activated

\* The challenge of a login_step2 that is about to get its session is gone.
PaidChallengesGone ==
    \A r \in Requests :
        At(r, "mint") /\ rq[r].op = "step2"
        => \A row \in challenges : row.id = rq[r].challenge => ignored

IInv ==
    /\ TypeOK
    /\ SlotsOK
    /\ NothingFromTheFuture
    /\ GuardedLogins
    /\ ActiveIsActivated
    /\ PaidChallengesGone
    /\ CodesBelongToSecret
    /\ TotpFactorWasActivated
    /\ SpentChallengesGone
    /\ RedeemedCodesConsumed
    /\ ignored => Faulty

-----------------------------------------------------------------------------
(* Requests and slots *)

\* The arguments of a request, by operation.
LEMMA RequestFields ==
    ASSUME NEW q \in Request
    PROVE  /\ q.op \in {"login", "enroll", "verify", "step2", "disable"}
           /\ q.op \in {"verify", "step2", "disable"} => q.factor \in Factors
           /\ q.op = "verify" => q.factor.kind = "totp"
           /\ q.op = "step2" => q.challenge \in Challenges
BY DEF Request

\* A factor is a code of a seed, or a recovery code.
LEMMA FactorFields ==
    ASSUME NEW f \in Factors
    PROVE  /\ f.kind \in {"totp", "recovery"}
           /\ f.seed \in Nat /\ f.seed \in {0} \cup Seeds
           /\ f.kind = "recovery" => f.code \in Codes
BY BoundsType DEF Factors, Seeds

\* What the requests that Arrive builds consist of.
LEMMA BuildRequest ==
    /\ \A op \in {"login", "enroll"} :
          [op |-> op, challenge |-> Null, factor |-> Null] \in Request
    /\ \A f \in Factors : f.kind = "totp"
          => [op |-> "verify", challenge |-> Null, factor |-> f] \in Request
    /\ \A c \in Challenges, f \in Factors :
          [op |-> "step2", challenge |-> c, factor |-> f] \in Request
    /\ \A f \in Factors :
          [op |-> "disable", challenge |-> Null, factor |-> f] \in Request
BY DEF Request

\* A busy slot holds a request of an operation that its statement belongs to.
LEMMA BusySlot ==
    ASSUME TypeOK, SlotsOK, NEW r \in Requests, pc[r] # "idle"
    PROVE  /\ rq[r] \in Request
           /\ rq[r] # Null
           /\ pc[r] \in Steps
           /\ SlotOK(r) /\ ArgumentsAreOld(r)
BY NullIsFresh DEF TypeOK, SlotsOK, At

\* A slot that returns is free; the others are as they were.
LEMMA ReturnSlots ==
    ASSUME TypeOK, SlotsOK, NEW r \in Requests, Return(r),
           enrolls' \in Nat, issued' \in Nat, enrolls <= enrolls', issued <= issued'
    PROVE  /\ pc' \in [Requests -> Steps \cup {"idle"}]
           /\ rq' \in [Requests -> Request \cup {Null}]
           /\ \A x \in Requests : pc'[x] = "idle" <=> rq'[x] = Null
           /\ guarded' \subseteq Requests
           /\ SlotsOK'
<1>1. /\ pc' \in [Requests -> Steps \cup {"idle"}]
      /\ rq' \in [Requests -> Request \cup {Null}]
      /\ guarded' \subseteq Requests
  BY DEF Return, TypeOK
<1>2. \A x \in Requests : pc'[x] = "idle" <=> rq'[x] = Null
  BY DEF Return, TypeOK
<1>3. ASSUME NEW x \in Requests, pc'[x] # "idle" PROVE (SlotOK(x) /\ ArgumentsAreOld(x))'
  <2>1. x # r /\ pc'[x] = pc[x] /\ rq'[x] = rq[x] /\ pc[x] # "idle"
    BY <1>3 DEF Return, TypeOK
  <2>2. SlotOK(x)'
    BY <2>1, BusySlot DEF SlotOK, At
  <2>3. ArgumentsAreOld(x)'
    <3>1. rq[x] \in Request /\ ArgumentsAreOld(x)
      BY <2>1, BusySlot
    <3>2. rq[x].op = "step2" => rq[x].challenge \in Nat
      BY <3>1, RequestFields, BoundsType DEF Challenges
    <3>3. rq[x].op \in {"verify", "step2", "disable"} => rq[x].factor.seed \in Nat
      BY <3>1, RequestFields, FactorFields
    <3>4. QED
      BY <2>1, <3>1, <3>2, <3>3 DEF ArgumentsAreOld, TypeOK
  <2>4. QED
    BY <2>2, <2>3
<1>4. QED
  BY <1>1, <1>2, <1>3 DEF SlotsOK, At

\* A slot that goes on to another statement of its operation keeps its request.
LEMMA GoToSlots ==
    ASSUME TypeOK, SlotsOK, NEW r \in Requests, pc[r] # "idle",
           NEW step \in Steps, GoTo(r, step),
           enrolls' = enrolls, issued' = issued,
           rq[r].op \in OpsAt(step),
           step = "totp_check" => rq[r].factor.kind = "totp",
           step \in {"code_check", "code_consume"} => rq[r].factor.kind = "recovery",
           step = "code_consume" => rq[r].factor.seed # 0
    PROVE  /\ pc' \in [Requests -> Steps \cup {"idle"}]
           /\ rq' \in [Requests -> Request \cup {Null}]
           /\ \A x \in Requests : pc'[x] = "idle" <=> rq'[x] = Null
           /\ guarded' \subseteq Requests
           /\ SlotsOK'
<1>0. step # "idle"
  BY DEF Steps, FactorSteps
<1>1. /\ pc' \in [Requests -> Steps \cup {"idle"}]
      /\ rq' \in [Requests -> Request \cup {Null}]
      /\ guarded' \subseteq Requests
  BY DEF GoTo, TypeOK
<1>2. \A x \in Requests : pc'[x] = "idle" <=> rq'[x] = Null
  BY <1>0 DEF GoTo, TypeOK
<1>3. ASSUME NEW x \in Requests, pc'[x] # "idle" PROVE (SlotOK(x) /\ ArgumentsAreOld(x))'
  <2>1. rq'[x] = rq[x] /\ pc[x] # "idle"
    BY <1>3 DEF GoTo, TypeOK
  <2>2. ArgumentsAreOld(x)'
    BY <2>1, BusySlot DEF ArgumentsAreOld
  <2>3. CASE x = r
    <3>1. pc'[x] = step
      BY <2>3 DEF GoTo, TypeOK
    <3>2. SlotOK(x)'
      BY <2>1, <2>3, <3>1 DEF SlotOK, At
    <3>3. QED
      BY <2>2, <3>2
  <2>4. CASE x # r
    <3>1. pc'[x] = pc[x]
      BY <2>4 DEF GoTo, TypeOK
    <3>2. SlotOK(x)'
      BY <2>1, <3>1, BusySlot DEF SlotOK, At
    <3>3. QED
      BY <2>2, <3>2
  <2>5. QED
    BY <2>3, <2>4
<1>4. QED
  BY <1>1, <1>2, <1>3 DEF SlotsOK, At

-----------------------------------------------------------------------------
(* Steps that leave the tables alone *)

\* What the tables, the counters and the history have to satisfy by themselves.
StoreInv ==
    /\ NothingFromTheFuture
    /\ ActiveIsActivated
    /\ CodesBelongToSecret
    /\ SpentChallengesGone
    /\ RedeemedCodesConsumed
    /\ ignored => Faulty

\* The requests in flight, once the types and the slots are right.
FlightInv == GuardedLogins /\ PaidChallengesGone /\ TotpFactorWasActivated

\* The invariant consists of these parts.
LEMMA Parts == IInv <=> TypeOK /\ SlotsOK /\ StoreInv /\ FlightInv
BY DEF IInv, StoreInv, FlightInv

\* Nothing that StoreInv speaks of has changed.
LEMMA StoreUnchanged ==
    ASSUME StoreInv, UNCHANGED <<tables, counts, history>>
    PROVE  StoreInv'
BY DEF StoreInv, NothingFromTheFuture, ActiveIsActivated, CodesBelongToSecret,
       SpentChallengesGone, RedeemedCodesConsumed, TotpActive, tables, counts, history

\* A return takes nothing from the requests that stay in flight, if TOTP stays
\* on where it was, seeds stay activated, and no old challenge comes back.
LEMMA ReturnFlight ==
    ASSUME TypeOK, SlotsOK, FlightInv, NEW r \in Requests, Return(r),
           TotpActive => TotpActive',
           activated \subseteq activated',
           ignored => ignored',
           \A row \in challenges' : row.id > issued \/ \E old \in challenges : old.id = row.id
    PROVE  FlightInv'
<1>1. \A x \in Requests : pc'[x] # "idle" => x # r /\ pc'[x] = pc[x] /\ rq'[x] = rq[x]
  BY DEF Return, TypeOK
<1>2. GuardedLogins'
  <2>1. \A x \in guarded' : x \in guarded /\ x # r /\ x \in Requests
    BY DEF Return, TypeOK
  <2>2. \A x \in guarded' : pc'[x] = pc[x] /\ rq'[x] = rq[x]
    BY <2>1 DEF Return, TypeOK
  <2>3. QED
    BY <2>1, <2>2 DEF FlightInv, GuardedLogins
<1>3. PaidChallengesGone'
  <2>1. SUFFICES ASSUME NEW x \in Requests, pc'[x] = "mint", rq'[x].op = "step2",
                        NEW row \in challenges', row.id = rq'[x].challenge
                 PROVE  ignored'
    BY DEF PaidChallengesGone, At
  <2>2. pc[x] = "mint" /\ rq'[x] = rq[x] /\ rq[x].op = "step2"
    BY <1>1, <2>1
  <2>3. rq[x] \in Request /\ rq[x].challenge <= issued
    BY <2>2, BusySlot DEF ArgumentsAreOld
  <2>4. rq[x].challenge \in Nat /\ issued \in Nat
    BY <2>2, <2>3, RequestFields, BoundsType DEF Challenges, TypeOK
  <2>5. ~(row.id > issued)
    BY <2>1, <2>2, <2>3, <2>4
  <2>6. QED
    BY <2>1, <2>2, <2>5 DEF FlightInv, PaidChallengesGone, At
<1>4. TotpFactorWasActivated'
  BY <1>1 DEF FlightInv, TotpFactorWasActivated
<1>5. QED
  BY <1>2, <1>3, <1>4 DEF FlightInv

\* A response that changes no row.
LEMMA QuietReturn ==
    ASSUME IInv, NEW r \in Requests, Return(r), UNCHANGED <<tables, counts, history>>
    PROVE  IInv'
<1>1. TypeOK /\ SlotsOK /\ StoreInv /\ FlightInv
  BY Parts
<1>2. enrolls' = enrolls /\ issued' = issued /\ enrolls \in Nat /\ issued \in Nat
  BY <1>1 DEF counts, TypeOK
<1>3. SlotsOK' /\ TypeOK'
  BY <1>1, <1>2, ReturnSlots DEF TypeOK, tables, counts, history
<1>4. FlightInv'
  BY <1>1, ReturnFlight DEF tables, history, TotpActive
<1>5. StoreInv'
  BY <1>1, StoreUnchanged
<1>6. QED
  BY <1>3, <1>4, <1>5 DEF IInv, StoreInv, FlightInv

\* Going on: a guarded login turns to its challenge, only a login reaches the
\* INSERT without a DELETE, and a 6-digit code is accepted under an activated seed.
LEMMA QuietGoTo ==
    ASSUME IInv, NEW r \in Requests, pc[r] # "idle", NEW step \in Steps, GoTo(r, step),
           UNCHANGED <<tables, counts, history>>,
           rq[r].op \in OpsAt(step),
           step = "totp_check" => rq[r].factor.kind = "totp",
           step \in {"code_check", "code_consume"} => rq[r].factor.kind = "recovery",
           step = "code_consume" => rq[r].factor.seed # 0,
           r \in guarded => step = "login_challenge",
           step = "mint" => rq[r].op = "login",
           step \in {"challenge_delete", "wipe"} /\ rq[r].factor.kind = "totp"
               => rq[r].factor.seed \in activated
    PROVE  IInv'
<1>1. TypeOK /\ SlotsOK /\ StoreInv /\ FlightInv
  BY Parts
<1>2. enrolls' = enrolls /\ issued' = issued
  BY DEF counts
<1>3. SlotsOK' /\ TypeOK'
  BY <1>1, <1>2, GoToSlots DEF TypeOK, tables, counts, history
<1>4. StoreInv'
  BY <1>1, StoreUnchanged
<1>5. /\ rq' = rq /\ guarded' = guarded
      /\ pc'[r] = step
      /\ \A x \in Requests : x # r => pc'[x] = pc[x]
  BY <1>1 DEF GoTo, TypeOK
<1>6. GuardedLogins'
  BY <1>1, <1>5 DEF FlightInv, GuardedLogins, TotpActive, tables, TypeOK
<1>7. PaidChallengesGone'
  BY <1>1, <1>5 DEF FlightInv, PaidChallengesGone, At, tables, history
<1>8. TotpFactorWasActivated'
  BY <1>1, <1>5 DEF FlightInv, TotpFactorWasActivated, history
<1>9. QED
  BY <1>3, <1>4, <1>6, <1>7, <1>8 DEF IInv, StoreInv

\* A request arrives with arguments that a client can have.
LEMMA ArriveStep ==
    ASSUME IInv, NEW r \in Requests, NEW step \in Steps, NEW op, NEW challenge, NEW factor,
           Arrive(r, step, op, challenge, factor),
           [op |-> op, challenge |-> challenge, factor |-> factor] \in Request,
           op \in OpsAt(step),
           step \notin {"code_consume", "mint", "challenge_delete", "wipe"},
           op = "login" => step = "login_totp",
           step = "totp_check" => factor.kind = "totp",
           step = "code_check" => factor.kind = "recovery",
           op = "step2" => challenge <= issued,
           op \in {"verify", "step2", "disable"} => factor.seed <= enrolls
    PROVE  IInv'
<1> DEFINE q == [op |-> op, challenge |-> challenge, factor |-> factor]
<1>1. TypeOK /\ SlotsOK /\ StoreInv /\ FlightInv
  BY Parts
<1>2. /\ q.op = op /\ q.challenge = challenge /\ q.factor = factor
      /\ q \in Request
      /\ q # Null
      /\ step # "idle"
  BY NullIsFresh DEF Steps, FactorSteps
<1>3. /\ pc[r] = "idle"
      /\ pc' = [pc EXCEPT ![r] = step] /\ rq' = [rq EXCEPT ![r] = q]
      /\ guarded' \subseteq guarded \cup {r}
      /\ r \in guarded' => r \in guarded \/ (op = "login" /\ TotpActive)
      /\ UNCHANGED <<tables, counts, history>>
  BY DEF Arrive, At
<1> HIDE DEF q
<1>4. /\ pc'[r] = step /\ rq'[r] = q
      /\ \A x \in Requests : x # r => pc'[x] = pc[x] /\ rq'[x] = rq[x]
  BY <1>1, <1>3 DEF TypeOK
<1>5. TypeOK'
  <2>1. /\ pc' \in [Requests -> Steps \cup {"idle"}]
        /\ rq' \in [Requests -> Request \cup {Null}]
        /\ guarded' \subseteq Requests
    BY <1>1, <1>2, <1>3 DEF TypeOK
  <2>2. \A x \in Requests : pc'[x] = "idle" <=> rq'[x] = Null
    BY <1>1, <1>2, <1>4 DEF TypeOK
  <2>3. QED
    BY <1>1, <1>3, <2>1, <2>2 DEF TypeOK, tables, counts, history
<1>6. SlotsOK'
  <2>1. ASSUME NEW x \in Requests, pc'[x] # "idle" PROVE (SlotOK(x) /\ ArgumentsAreOld(x))'
    <3>1. CASE x = r
      BY <1>2, <1>3, <1>4, <3>1 DEF SlotOK, ArgumentsAreOld, At, counts
    <3>2. CASE x # r
      <4>1. SlotOK(x) /\ ArgumentsAreOld(x)
        BY <1>1, <1>4, <2>1, <3>2, BusySlot
      <4>2. QED
        BY <1>3, <1>4, <3>2, <4>1 DEF SlotOK, ArgumentsAreOld, At, counts
    <3>3. QED
      BY <3>1, <3>2
  <2>2. QED
    BY <2>1 DEF SlotsOK, At
<1>7. StoreInv'
  BY <1>1, <1>3, StoreUnchanged
<1>8. GuardedLogins'
  <2>1. \A x \in guarded : x \in Requests /\ x # r
    BY <1>1, <1>3 DEF FlightInv, GuardedLogins, TypeOK
  <2>2. TotpActive' <=> TotpActive
    BY <1>3 DEF TotpActive, tables
  <2>3. ASSUME NEW x \in guarded' PROVE /\ TotpActive'
                                      /\ rq'[x].op = "login"
                                      /\ pc'[x] \in {"login_totp", "login_challenge"}
    <3>1. CASE x = r
      BY <1>2, <1>3, <1>4, <2>1, <2>2, <2>3, <3>1
    <3>2. CASE x # r
      BY <1>1, <1>3, <1>4, <2>1, <2>2, <2>3, <3>2 DEF FlightInv, GuardedLogins
    <3>3. QED
      BY <3>1, <3>2
  <2>4. QED
    BY <2>3 DEF GuardedLogins
<1>9. PaidChallengesGone'
  BY <1>1, <1>3, <1>4 DEF FlightInv, PaidChallengesGone, At, tables, history
<1>10. TotpFactorWasActivated'
  BY <1>1, <1>3, <1>4 DEF FlightInv, TotpFactorWasActivated, history
<1>11. QED
  BY <1>5, <1>6, <1>7, <1>8, <1>9, <1>10 DEF IInv, StoreInv

-----------------------------------------------------------------------------
(* Steps that change the tables *)

\* A fresh challenge has an id that nobody holds.
LEMMA LoginChallengeStep ==
    ASSUME IInv, NEW r \in Requests, LoginChallenge(r)
    PROVE  IInv'
<1>1. TypeOK /\ SlotsOK /\ StoreInv /\ FlightInv
  BY Parts
<1>2. /\ issued \in Nat /\ issued' = issued + 1 /\ issued + 1 \in Challenges
      /\ enrolls \in Nat /\ enrolls' = enrolls
  BY <1>1, BoundsType DEF LoginChallenge, TypeOK, Challenges
<1>3. /\ Return(r)
      /\ challenges' = challenges \cup {[id |-> issued + 1, expired |-> FALSE]}
      /\ UNCHANGED <<secret, recovery, session, enrolls, restarts, history>>
  BY DEF LoginChallenge
<1>4. SlotsOK' /\ TypeOK'
  <2>1. challenges' \subseteq Challenge
    <3>1. [id |-> issued + 1, expired |-> FALSE] \in Challenge
      BY <1>2 DEF Challenge
    <3>2. QED
      BY <1>1, <1>3, <3>1 DEF TypeOK
  <2>2. issued' \in 0..MaxChallenges
    BY <1>2, BoundsType DEF Challenges
  <2>3. QED
    BY <1>1, <1>2, <1>3, <2>1, <2>2, ReturnSlots DEF TypeOK, history
<1>5. FlightInv'
  <2>1. \A row \in challenges' : row.id > issued \/ \E old \in challenges : old.id = row.id
    BY <1>2, <1>3
  <2>2. QED
    BY <1>1, <1>3, <2>1, ReturnFlight DEF TotpActive, history
<1>6. StoreInv'
  <2>1. \A row \in challenges' : row \in challenges \/ row.id = issued + 1
    BY <1>3
  <2>2. \A row \in challenges : row.id \in Nat
    BY <1>1, BoundsType DEF TypeOK, Challenge, Challenges
  <2>3. \A c \in spent : c \in Nat
    BY <1>1, BoundsType DEF TypeOK, Challenges
  <2>4. NothingFromTheFuture'
    BY <1>1, <1>2, <1>3, <2>1, <2>2, <2>3 DEF StoreInv, NothingFromTheFuture, history
  <2>5. SpentChallengesGone'
    BY <1>1, <1>2, <1>3, <2>1, <2>3
       DEF StoreInv, NothingFromTheFuture, SpentChallengesGone, history
  <2>6. QED
    BY <1>1, <1>3, <2>4, <2>5
       DEF StoreInv, ActiveIsActivated, TotpActive, CodesBelongToSecret,
           RedeemedCodesConsumed, history
<1>7. QED
  BY <1>4, <1>5, <1>6 DEF IInv, StoreInv, FlightInv

\* A session is minted: the challenge that paid for it is gone already.
LEMMA MintStep ==
    ASSUME IInv, NEW r \in Requests, Mint(r)
    PROVE  IInv'
<1>1. TypeOK /\ SlotsOK /\ StoreInv /\ FlightInv
  BY Parts
<1>2. /\ pc[r] = "mint" /\ Return(r) /\ session' = TRUE
      /\ spent' = IF rq[r].op = "step2" THEN spent \cup {rq[r].challenge} ELSE spent
      /\ UNCHANGED <<secret, recovery, challenges, counts, redeemed, proven, activated, ignored>>
  BY DEF Mint, At
<1>3. /\ rq[r] \in Request
      /\ rq[r].op = "step2" => rq[r].challenge <= issued /\ rq[r].challenge \in Challenges
  BY <1>1, <1>2, BusySlot, RequestFields DEF ArgumentsAreOld
<1>4. SlotsOK' /\ TypeOK'
  <2>1. enrolls' = enrolls /\ issued' = issued /\ enrolls \in Nat /\ issued \in Nat
    BY <1>1, <1>2 DEF counts, TypeOK
  <2>2. spent' \subseteq Challenges
    BY <1>1, <1>2, <1>3 DEF TypeOK
  <2>3. QED
    BY <1>1, <1>2, <2>1, <2>2, ReturnSlots DEF TypeOK, counts
<1>5. FlightInv'
  BY <1>1, <1>2, ReturnFlight DEF TotpActive
<1>6. StoreInv'
  <2>1. \A c \in spent' : c \in spent \/ (rq[r].op = "step2" /\ c = rq[r].challenge)
    BY <1>2
  <2>2. NothingFromTheFuture'
    BY <1>1, <1>2, <1>3, <2>1 DEF StoreInv, NothingFromTheFuture, counts
  <2>3. SpentChallengesGone'
    BY <1>1, <1>2, <2>1
       DEF StoreInv, FlightInv, PaidChallengesGone, SpentChallengesGone, At
  <2>4. QED
    BY <1>1, <1>2, <2>2, <2>3
       DEF StoreInv, ActiveIsActivated, TotpActive, CodesBelongToSecret, RedeemedCodesConsumed
<1>7. QED
  BY <1>4, <1>5, <1>6 DEF IInv, StoreInv, FlightInv

\* The transaction of enroll stores a secret and its codes together, or nothing;
\* its seed is new, so none of the codes has been redeemed.
LEMMA EnrollCommitStep ==
    ASSUME IInv, NEW r \in Requests, EnrollCommit(r)
    PROVE  IInv'
<1>1. TypeOK /\ SlotsOK /\ StoreInv /\ FlightInv
  BY Parts
<1>2. CASE secret # Null
  BY <1>2, QuietReturn DEF EnrollCommit, tables, counts
<1>3. CASE secret = Null
  <2>1. /\ Return(r) /\ enrolls < MaxEnrolls /\ enrolls' = enrolls + 1
        /\ secret' = [seed |-> enrolls + 1, key |-> key, active |-> FALSE]
        /\ recovery' = recovery \cup FreshCodes(enrolls + 1)
        /\ UNCHANGED <<challenges, session, issued, restarts, history>>
    BY <1>3 DEF EnrollCommit
  <2>2. recovery' = FreshCodes(enrolls + 1)
    BY <1>1, <1>3, <2>1 DEF StoreInv, CodesBelongToSecret
  <2>3. /\ enrolls \in Nat /\ enrolls + 1 \in Seeds /\ issued \in Nat
        /\ enrolls' \in 0..MaxEnrolls
    BY <1>1, <2>1, BoundsType DEF TypeOK, Seeds
  <2>4. secret' \in Secret /\ secret' # Null /\ secret'.seed = enrolls + 1 /\ ~secret'.active
    <3>1. key \in Keys
      BY <1>1, BoundsType DEF key, TypeOK, Keys
    <3>2. secret' \in Secret
      BY <2>1, <2>3, <3>1 DEF Secret
    <3>3. QED
      BY <2>1, <3>2, NullIsFresh
  <2>5. SlotsOK' /\ TypeOK'
    <3>1. recovery' \subseteq RecoveryRow
      BY <2>2, <2>3 DEF FreshCodes, RecoveryRow
    <3>2. QED
      BY <1>1, <2>1, <2>3, <2>4, <3>1, ReturnSlots DEF TypeOK, history
  <2>6. FlightInv'
    BY <1>1, <1>3, <2>1, ReturnFlight DEF TotpActive, history
  <2>7. StoreInv'
    <3>1. CodesBelongToSecret'
      <4>1. \A row \in recovery' : row.seed = enrolls + 1 /\ row.code \in Codes /\ ~row.consumed
        BY <2>2 DEF FreshCodes
      <4>2. \A c \in Codes : [seed |-> enrolls + 1, code |-> c, consumed |-> FALSE] \in recovery'
        BY <2>2 DEF FreshCodes
      <4>3. \A x, y \in recovery' : x.code = y.code => x = y
        <5>1. \A x \in recovery' :
                x = [seed |-> x.seed, code |-> x.code, consumed |-> x.consumed]
          BY <2>2 DEF FreshCodes
        <5>2. \A x \in recovery' : x.seed = enrolls + 1 /\ x.consumed = FALSE
          BY <2>2, Zenon DEF FreshCodes
        <5>3. QED
          BY <5>1, <5>2
      <4>4. \A c \in Codes : \E row \in recovery' : row.code = c
        BY <4>2
      <4>5. QED
        BY <2>4, <4>1, <4>3, <4>4 DEF CodesBelongToSecret
    <3>2. \A p \in redeemed : p[1] \in Nat /\ p[1] <= enrolls
      BY <1>1, BoundsType DEF StoreInv, NothingFromTheFuture, TypeOK, Seeds
    <3>3. NothingFromTheFuture'
      BY <1>1, <2>1, <2>3, <3>2 DEF StoreInv, NothingFromTheFuture, history
    <3>4. RedeemedCodesConsumed'
      <4>1. \A row \in recovery' : row.seed = enrolls + 1
        BY <2>2 DEF FreshCodes
      <4>2. \A c : <<enrolls + 1, c>> \notin redeemed
        BY <2>3, <3>2
      <4>3. QED
        BY <2>1, <4>1, <4>2 DEF RedeemedCodesConsumed, history
    <3>5. ActiveIsActivated'
      BY <2>4 DEF ActiveIsActivated, TotpActive
    <3>6. QED
      BY <1>1, <2>1, <3>1, <3>3, <3>4, <3>5 DEF StoreInv, SpentChallengesGone, history
  <2>8. QED
    BY <2>5, <2>6, <2>7 DEF IInv, StoreInv, FlightInv
<1>4. QED
  BY <1>2, <1>3

\* A code checked against the pending secret: a history variable grows.
LEMMA VerifySelectStep ==
    ASSUME IInv, NEW r \in Requests, VerifySelect(r)
    PROVE  IInv'
<1>1. TypeOK /\ SlotsOK /\ StoreInv /\ FlightInv
  BY Parts
<1>2. pc[r] = "verify_select" /\ UNCHANGED <<tables, counts, spent, redeemed, activated, ignored>>
  BY DEF VerifySelect, At
<1>3. CASE Return(r) /\ UNCHANGED proven
  BY <1>2, <1>3, QuietReturn DEF history
<1>4. CASE secret # Null /\ GoTo(r, "verify_update") /\ proven' = proven \cup {secret.seed}
  <2>1. rq[r].op = "verify"
    BY <1>1, <1>2, BusySlot DEF SlotOK, OpsAt, FactorSteps
  <2>2. "verify_update" \in Steps /\ rq[r].op \in OpsAt("verify_update")
    BY <2>1 DEF Steps, OpsAt, FactorSteps
  <2>3. SlotsOK' /\ TypeOK'
    <3>1. proven' \subseteq Seeds
      BY <1>1, <1>4 DEF TypeOK, Secret
    <3>2. enrolls' = enrolls /\ issued' = issued
      BY <1>2 DEF counts
    <3>3. QED
      BY <1>1, <1>2, <1>4, <2>2, <3>1, <3>2, GoToSlots DEF TypeOK, tables, counts
  <2>4. StoreInv'
    BY <1>1, <1>2 DEF StoreInv, NothingFromTheFuture, ActiveIsActivated, CodesBelongToSecret,
       SpentChallengesGone, RedeemedCodesConsumed, TotpActive, tables, counts
  <2>5. /\ rq' = rq /\ guarded' = guarded
        /\ pc'[r] = "verify_update"
        /\ \A x \in Requests : x # r => pc'[x] = pc[x]
    BY <1>1, <1>4 DEF GoTo, TypeOK
  <2>6. GuardedLogins'
    BY <1>1, <1>2, <2>1, <2>5 DEF FlightInv, GuardedLogins, TotpActive, tables, TypeOK
  <2>7. PaidChallengesGone' /\ TotpFactorWasActivated'
    BY <1>1, <1>2, <2>5 DEF FlightInv, PaidChallengesGone, TotpFactorWasActivated, At, tables
  <2>8. QED
    BY <2>3, <2>4, <2>6, <2>7 DEF IInv, StoreInv
<1>5. QED
  BY <1>3, <1>4 DEF VerifySelect

\* Whatever secret is there becomes active.
LEMMA VerifyUpdateStep ==
    ASSUME IInv, NEW r \in Requests, VerifyUpdate(r)
    PROVE  IInv'
<1>1. TypeOK /\ SlotsOK /\ StoreInv /\ FlightInv
  BY Parts
<1>2. Return(r) /\ UNCHANGED <<recovery, challenges, session, counts, spent, redeemed, proven, ignored>>
  BY DEF VerifyUpdate
<1>3. CASE secret = Null
  BY <1>2, <1>3, QuietReturn DEF VerifyUpdate, tables, history
<1>4. CASE secret # Null
  <2>1. /\ secret' = [secret EXCEPT !.active = TRUE]
        /\ activated' = activated \cup {secret.seed}
        /\ secret \in Secret
    BY <1>1, <1>4 DEF VerifyUpdate, TypeOK
  <2>2. secret' \in Secret /\ secret' # Null /\ secret'.seed = secret.seed /\ secret'.active
    <3>1. secret' \in Secret /\ secret'.seed = secret.seed /\ secret'.active
      BY <2>1 DEF Secret
    <3>2. QED
      BY <3>1, NullIsFresh
  <2>3. SlotsOK' /\ TypeOK'
    <3>1. enrolls' = enrolls /\ issued' = issued /\ enrolls \in Nat /\ issued \in Nat
      BY <1>1, <1>2 DEF counts, TypeOK
    <3>2. activated' \subseteq Seeds
      BY <1>1, <2>1 DEF TypeOK, Secret
    <3>3. QED
      BY <1>1, <1>2, <2>2, <3>1, <3>2, ReturnSlots DEF TypeOK, counts
  <2>4. FlightInv'
    BY <1>1, <1>2, <2>1, <2>2, ReturnFlight DEF TotpActive
  <2>5. CodesBelongToSecret'
    BY <1>1, <1>2, <1>4, <2>2 DEF StoreInv, CodesBelongToSecret
  <2>6. StoreInv'
    BY <1>1, <1>2, <2>1, <2>2, <2>5
       DEF StoreInv, NothingFromTheFuture, ActiveIsActivated, SpentChallengesGone,
           RedeemedCodesConsumed, counts
  <2>7. QED
    BY <2>3, <2>4, <2>6 DEF IInv, StoreInv, FlightInv
<1>5. QED
  BY <1>3, <1>4

\* The UPDATE keeps every row and its key, and consumes the row of the code.
LEMMA ConsumedRows ==
    ASSUME recovery \subseteq RecoveryRow, NEW f
    PROVE  /\ \A row \in ConsumedBy(f) :
                /\ row \in RecoveryRow
                /\ row.seed = f.seed /\ row.code = f.code => row.consumed
           /\ \A row \in ConsumedBy(f) : \E old \in recovery :
                /\ row.seed = old.seed /\ row.code = old.code
                /\ old.consumed => row.consumed
           /\ \A old \in recovery : \E row \in ConsumedBy(f) : row.code = old.code
           /\ (\A x, y \in recovery : x.code = y.code => x = y)
              => (\A x, y \in ConsumedBy(f) : x.code = y.code => x = y)
<1> DEFINE Upd(row) == IF row.seed = f.seed /\ row.code = f.code
                       THEN [row EXCEPT !.consumed = TRUE] ELSE row
<1>1. ConsumedBy(f) = {Upd(row) : row \in recovery}
  BY DEF ConsumedBy
<1>2. ASSUME NEW row \in recovery
      PROVE  /\ Upd(row) \in RecoveryRow
             /\ Upd(row).seed = row.seed /\ Upd(row).code = row.code
             /\ row.consumed => Upd(row).consumed
             /\ row.seed = f.seed /\ row.code = f.code => Upd(row).consumed
  BY <1>2 DEF RecoveryRow
<1> HIDE DEF Upd
<1>3. \A x \in ConsumedBy(f) : \E row \in recovery : x = Upd(row)
  BY <1>1
<1>4. \A row \in recovery : Upd(row) \in ConsumedBy(f)
  BY <1>1
<1>5. ASSUME \A x, y \in recovery : x.code = y.code => x = y,
             NEW x \in ConsumedBy(f), NEW y \in ConsumedBy(f), x.code = y.code
      PROVE  x = y
  <2>1. PICK u \in recovery : x = Upd(u)
    BY <1>3
  <2>2. PICK w \in recovery : y = Upd(w)
    BY <1>3
  <2>3. QED
    BY <1>2, <1>5, <2>1, <2>2
<1>6. QED
  BY <1>2, <1>3, <1>4, <1>5

\* The code in the request is consumed, or the failure is on record.
LEMMA CodeConsumeStep ==
    ASSUME IInv, NEW r \in Requests, CodeConsume(r)
    PROVE  IInv'
<1>1. TypeOK /\ SlotsOK /\ StoreInv /\ FlightInv
  BY Parts
<1> DEFINE f == rq[r].factor
           step == IF rq[r].op = "step2" THEN "challenge_delete" ELSE "wipe"
<1>2. /\ pc[r] = "code_consume"
      /\ \/ recovery' = ConsumedBy(f) /\ UNCHANGED ignored
         \/ Faulty /\ ignored' = TRUE /\ UNCHANGED recovery
      /\ redeemed' = redeemed \cup {<<f.seed, f.code>>}
      /\ GoTo(r, step)
      /\ UNCHANGED <<secret, challenges, session, counts, spent, proven, activated>>
  BY DEF CodeConsume, Accepted, At
<1>3. /\ rq[r].op \in {"step2", "disable"} /\ f \in Factors
      /\ f.kind = "recovery" /\ f.seed # 0 /\ f.seed <= enrolls
  <2>1. rq[r] \in Request /\ SlotOK(r) /\ ArgumentsAreOld(r)
    BY <1>1, <1>2, BusySlot
  <2>2. rq[r].op \in {"step2", "disable"}
    BY <1>2, <2>1 DEF SlotOK, OpsAt, FactorSteps
  <2>3. QED
    BY <1>2, <2>1, <2>2, RequestFields DEF SlotOK, ArgumentsAreOld, At
<1>4. f.seed \in Seeds /\ f.code \in Codes
  BY <1>3, FactorFields
<1>5. /\ step \in {"challenge_delete", "wipe"}
      /\ step \in Steps /\ rq[r].op \in OpsAt(step)
  BY <1>3 DEF Steps, OpsAt, FactorSteps
<1> HIDE DEF f, step
<1>6. /\ recovery' \subseteq RecoveryRow
      /\ ignored => ignored'
      /\ ignored' \in BOOLEAN
      /\ ignored' => Faulty
      /\ recovery \subseteq RecoveryRow
  <2>1. recovery \subseteq RecoveryRow /\ ignored \in BOOLEAN
    BY <1>1 DEF TypeOK
  <2>2. recovery' \subseteq RecoveryRow
    BY <1>2, <2>1, ConsumedRows
  <2>3. CASE ignored' = ignored
    BY <1>1, <2>1, <2>2, <2>3 DEF StoreInv
  <2>4. CASE Faulty /\ ignored' = TRUE
    BY <2>1, <2>2, <2>4, Zenon
  <2>5. QED
    BY <1>2, <2>3, <2>4
<1>7. SlotsOK' /\ TypeOK'
  <2>1. redeemed' \subseteq Seeds \X Codes
    BY <1>1, <1>2, <1>4 DEF TypeOK
  <2>2. enrolls' = enrolls /\ issued' = issued
    BY <1>2 DEF counts
  <2>3. QED
    BY <1>1, <1>2, <1>5, <1>6, <2>1, <2>2, GoToSlots DEF TypeOK, counts
<1>8. CodesBelongToSecret'
  <2>1. CASE recovery' = recovery
    BY <1>1, <1>2, <2>1 DEF StoreInv, CodesBelongToSecret
  <2>2. CASE recovery' = ConsumedBy(f)
    <3>1. /\ \A row \in recovery' : \E old \in recovery : row.seed = old.seed
          /\ \A old \in recovery : \E row \in recovery' : row.code = old.code
          /\ (\A x, y \in recovery : x.code = y.code => x = y)
             => (\A x, y \in recovery' : x.code = y.code => x = y)
      <4>1. ASSUME NEW row \in recovery' PROVE \E old \in recovery : row.seed = old.seed
        BY <1>6, <2>2, <4>1, ConsumedRows
      <4>2. QED
        BY <1>6, <2>2, <4>1, ConsumedRows
    <3>2. secret = Null => recovery' = {}
      BY <1>1, <3>1 DEF StoreInv, CodesBelongToSecret
    <3>3. QED
      BY <1>1, <1>2, <3>1, <3>2 DEF StoreInv, CodesBelongToSecret
  <2>3. QED
    BY <1>2, <2>1, <2>2
<1>9. RedeemedCodesConsumed'
  <2>1. SUFFICES ASSUME NEW row \in recovery', <<row.seed, row.code>> \in redeemed', ~ignored'
                 PROVE  row.consumed
    BY DEF RedeemedCodesConsumed
  <2>2. recovery' = ConsumedBy(f) /\ ~ignored
    BY <1>2, <1>6, <2>1, Zenon
  <2>3. PICK old \in recovery : /\ row.seed = old.seed /\ row.code = old.code
                                /\ old.consumed => row.consumed
    BY <1>6, <2>1, <2>2, ConsumedRows, Zenon
  <2>4. CASE <<row.seed, row.code>> \in redeemed
    BY <1>1, <2>2, <2>3, <2>4 DEF StoreInv, RedeemedCodesConsumed
  <2>5. CASE row.seed = f.seed /\ row.code = f.code
    BY <1>6, <2>1, <2>2, <2>5, ConsumedRows
  <2>6. QED
    BY <1>2, <2>1, <2>4, <2>5
<1>10. StoreInv'
  <2>1. \A p \in redeemed' : p \in redeemed \/ p[1] = f.seed
    BY <1>2
  <2>2. NothingFromTheFuture'
    BY <1>1, <1>2, <1>3, <2>1 DEF StoreInv, NothingFromTheFuture, counts
  <2>3. SpentChallengesGone'
    BY <1>1, <1>2, <1>6 DEF StoreInv, SpentChallengesGone
  <2>4. ActiveIsActivated'
    BY <1>1, <1>2 DEF StoreInv, ActiveIsActivated, TotpActive
  <2>5. QED
    BY <1>6, <1>8, <1>9, <2>2, <2>3, <2>4 DEF StoreInv
<1>11. /\ rq' = rq /\ guarded' = guarded
       /\ pc'[r] = step
       /\ \A x \in Requests : x # r => pc'[x] = pc[x]
  BY <1>1, <1>2 DEF GoTo, TypeOK
<1>12. GuardedLogins'
  BY <1>1, <1>2, <1>3, <1>11 DEF FlightInv, GuardedLogins, TotpActive, TypeOK
<1>13. PaidChallengesGone'
  BY <1>1, <1>2, <1>5, <1>6, <1>11 DEF FlightInv, PaidChallengesGone, At
<1>14. TotpFactorWasActivated'
  BY <1>1, <1>2, <1>3, <1>11 DEF FlightInv, TotpFactorWasActivated, f
<1>15. QED
  BY <1>7, <1>10, <1>12, <1>13, <1>14 DEF IInv, StoreInv

\* What the DELETE leaves: some of the rows; and if it left one of this
\* challenge, the failure is on record.
LEMMA DeletedRows ==
    ASSUME TypeOK, NEW r \in Requests, DeleteChallenge(r)
    PROVE  /\ challenges' \subseteq challenges
           /\ ignored' \in BOOLEAN
           /\ ignored => ignored'
           /\ ignored' => ignored \/ Faulty
           /\ \A row \in challenges' : row.id = rq[r].challenge => ignored'
<1>1. ignored \in BOOLEAN
  BY DEF TypeOK
<1>2. CASE /\ challenges' = {row \in challenges : row.id # rq[r].challenge}
           /\ ignored' = ignored
  BY <1>1, <1>2
<1>3. CASE Faulty /\ ignored' = TRUE /\ challenges' = challenges
  BY <1>3, Zenon
<1>4. QED
  BY <1>2, <1>3 DEF DeleteChallenge

\* Fewer challenges, and failures kept on record, keep what the tables satisfy.
LEMMA DeleteStore ==
    ASSUME TypeOK, StoreInv, NEW r \in Requests, DeleteChallenge(r),
           UNCHANGED <<secret, recovery, session, counts, spent, redeemed, proven, activated>>
    PROVE  StoreInv'
<1>1. /\ challenges' \subseteq challenges
      /\ ignored => ignored'
      /\ ignored' => Faulty
  BY DeletedRows DEF StoreInv
<1>2. NothingFromTheFuture'
  BY <1>1 DEF StoreInv, NothingFromTheFuture, counts
<1>3. SpentChallengesGone' /\ RedeemedCodesConsumed'
  BY <1>1 DEF StoreInv, SpentChallengesGone, RedeemedCodesConsumed
<1>4. ActiveIsActivated' /\ CodesBelongToSecret'
  BY DEF StoreInv, ActiveIsActivated, CodesBelongToSecret, TotpActive
<1>5. QED
  BY <1>1, <1>2, <1>3, <1>4 DEF StoreInv

\* An expired challenge is dropped.
LEMMA Step2DropStep ==
    ASSUME IInv, NEW r \in Requests, Step2Drop(r)
    PROVE  IInv'
<1>1. TypeOK /\ SlotsOK /\ StoreInv /\ FlightInv
  BY Parts
<1>2. /\ DeleteChallenge(r) /\ Return(r)
      /\ UNCHANGED <<secret, recovery, session, counts, spent, redeemed, proven, activated>>
  BY DEF Step2Drop
<1>3. StoreInv'
  BY <1>1, <1>2, DeleteStore
<1>4. challenges' \subseteq challenges /\ ignored' \in BOOLEAN /\ (ignored => ignored')
  BY <1>1, <1>2, DeletedRows
<1>5. SlotsOK' /\ TypeOK'
  <2>1. enrolls' = enrolls /\ issued' = issued /\ enrolls \in Nat /\ issued \in Nat
    BY <1>1, <1>2 DEF counts, TypeOK
  <2>2. QED
    BY <1>1, <1>2, <1>4, <2>1, ReturnSlots DEF TypeOK, counts
<1>6. FlightInv'
  BY <1>1, <1>2, <1>4, ReturnFlight DEF TotpActive
<1>7. QED
  BY <1>3, <1>5, <1>6 DEF IInv, StoreInv, FlightInv

\* The challenge that pays for a session is deleted before the INSERT.
LEMMA ChallengeDeleteStep ==
    ASSUME IInv, NEW r \in Requests, ChallengeDelete(r)
    PROVE  IInv'
<1>1. TypeOK /\ SlotsOK /\ StoreInv /\ FlightInv
  BY Parts
<1>2. /\ pc[r] = "challenge_delete" /\ DeleteChallenge(r) /\ GoTo(r, "mint")
      /\ UNCHANGED <<secret, recovery, session, counts, spent, redeemed, proven, activated>>
  BY DEF ChallengeDelete, At
<1>3. StoreInv'
  BY <1>1, <1>2, DeleteStore
<1>4. /\ challenges' \subseteq challenges /\ ignored' \in BOOLEAN /\ (ignored => ignored')
      /\ \A row \in challenges' : row.id = rq[r].challenge => ignored'
  BY <1>1, <1>2, DeletedRows
<1>5. rq[r].op = "step2"
  BY <1>1, <1>2, BusySlot DEF SlotOK, OpsAt, FactorSteps
<1>6. "mint" \in Steps /\ rq[r].op \in OpsAt("mint")
  BY <1>5 DEF Steps, OpsAt, FactorSteps
<1>7. SlotsOK' /\ TypeOK'
  <2>1. enrolls' = enrolls /\ issued' = issued
    BY <1>2 DEF counts
  <2>2. QED
    BY <1>1, <1>2, <1>4, <1>6, <2>1, GoToSlots DEF TypeOK, counts
<1>8. /\ rq' = rq /\ guarded' = guarded
      /\ pc'[r] = "mint"
      /\ \A x \in Requests : x # r => pc'[x] = pc[x]
  BY <1>1, <1>2 DEF GoTo, TypeOK
<1>9. GuardedLogins'
  BY <1>1, <1>2, <1>5, <1>8 DEF FlightInv, GuardedLogins, TotpActive, TypeOK
<1>10. PaidChallengesGone'
  BY <1>1, <1>4, <1>8 DEF FlightInv, PaidChallengesGone, At
<1>11. TotpFactorWasActivated'
  BY <1>1, <1>2, <1>8 DEF FlightInv, TotpFactorWasActivated
<1>12. QED
  BY <1>3, <1>7, <1>9, <1>10, <1>11 DEF IInv, StoreInv

\* disable takes secret, codes and challenges away together; no login is guarded
\* any more.
LEMMA WipeStep ==
    ASSUME IInv, NEW r \in Requests, Wipe(r)
    PROVE  IInv'
<1>1. TypeOK /\ SlotsOK /\ StoreInv /\ FlightInv
  BY Parts
<1>2. /\ secret' = Null /\ recovery' = {} /\ challenges' = {} /\ guarded' = {}
      /\ pc' = [pc EXCEPT ![r] = "idle"] /\ rq' = [rq EXCEPT ![r] = Null]
      /\ UNCHANGED <<session, counts, history>>
  BY DEF Wipe
<1>3. \A x \in Requests : pc'[x] # "idle" => pc'[x] = pc[x] /\ rq'[x] = rq[x]
  BY <1>1, <1>2 DEF TypeOK
<1>4. TypeOK'
  <2>1. \A x \in Requests : pc'[x] = "idle" <=> rq'[x] = Null
    BY <1>1, <1>2 DEF TypeOK
  <2>2. QED
    BY <1>1, <1>2, <2>1 DEF TypeOK, counts, history
<1>5. SlotsOK'
  <2>1. ASSUME NEW x \in Requests, pc'[x] # "idle" PROVE (SlotOK(x) /\ ArgumentsAreOld(x))'
    <3>1. SlotOK(x) /\ ArgumentsAreOld(x)
      BY <1>1, <1>3, <2>1, BusySlot
    <3>2. QED
      BY <1>2, <1>3, <2>1, <3>1 DEF SlotOK, ArgumentsAreOld, At, counts
  <2>2. QED
    BY <2>1 DEF SlotsOK, At
<1>6. StoreInv'
  BY <1>1, <1>2 DEF StoreInv, NothingFromTheFuture, ActiveIsActivated, CodesBelongToSecret,
     SpentChallengesGone, RedeemedCodesConsumed, TotpActive, counts, history
<1>7. FlightInv'
  BY <1>1, <1>2, <1>3
     DEF FlightInv, GuardedLogins, PaidChallengesGone, TotpFactorWasActivated, history
<1>8. QED
  BY <1>4, <1>5, <1>6, <1>7 DEF IInv, StoreInv, FlightInv

\* Time runs out for a challenge: its id stays.
LEMMA ChallengeExpiresStep ==
    ASSUME IInv, ChallengeExpires
    PROVE  IInv'
<1>1. TypeOK /\ SlotsOK /\ StoreInv /\ FlightInv
  BY Parts
<1>2. PICK row \in challenges :
          challenges' = (challenges \ {row}) \cup {[row EXCEPT !.expired = TRUE]}
  BY DEF ChallengeExpires
<1>3. UNCHANGED <<secret, recovery, session, counts, pc, rq, history, guarded>>
  BY DEF ChallengeExpires
<1>4. /\ challenges' \subseteq Challenge
      /\ \A new \in challenges' : \E old \in challenges : old.id = new.id
  <2>1. row \in Challenge
    BY <1>1 DEF TypeOK
  <2>2. [row EXCEPT !.expired = TRUE] \in Challenge /\ [row EXCEPT !.expired = TRUE].id = row.id
    BY <2>1 DEF Challenge
  <2>3. QED
    BY <1>1, <1>2, <2>2 DEF TypeOK
<1>5. TypeOK'
  BY <1>1, <1>3, <1>4 DEF TypeOK, counts, history
<1>6. SlotsOK'
  BY <1>1, <1>3 DEF SlotsOK, SlotOK, ArgumentsAreOld, At, counts
<1>7. StoreInv'
  BY <1>1, <1>3, <1>4
     DEF StoreInv, NothingFromTheFuture, ActiveIsActivated, CodesBelongToSecret,
         SpentChallengesGone, RedeemedCodesConsumed, TotpActive, counts, history
<1>8. GuardedLogins' /\ TotpFactorWasActivated'
  BY <1>1, <1>3 DEF FlightInv, GuardedLogins, TotpFactorWasActivated, TotpActive, history
<1>9. PaidChallengesGone'
  BY <1>1, <1>3, <1>4 DEF FlightInv, PaidChallengesGone, At, history
<1>10. QED
  BY <1>5, <1>6, <1>7, <1>8, <1>9 DEF IInv, StoreInv

\* A restart ends every request and keeps every row.
LEMMA RestartStep ==
    ASSUME IInv, Restart
    PROVE  IInv'
<1>1. TypeOK /\ SlotsOK /\ StoreInv /\ FlightInv
  BY Parts
<1>2. /\ restarts' = restarts + 1 /\ restarts < MaxRestarts
      /\ pc' = [r \in Requests |-> "idle"] /\ rq' = [r \in Requests |-> Null]
      /\ guarded' = {}
      /\ UNCHANGED <<tables, enrolls, issued, history>>
  BY DEF Restart
<1>3. restarts' \in Keys
  BY <1>1, <1>2, BoundsType DEF TypeOK, Keys
<1>4. TypeOK'
  BY <1>1, <1>2, <1>3 DEF TypeOK, tables, history
<1>5. SlotsOK' /\ FlightInv'
  BY <1>2 DEF SlotsOK, FlightInv, GuardedLogins, PaidChallengesGone, TotpFactorWasActivated, At
<1>6. StoreInv'
  BY <1>1, <1>2
     DEF StoreInv, NothingFromTheFuture, ActiveIsActivated, CodesBelongToSecret,
         SpentChallengesGone, RedeemedCodesConsumed, TotpActive, tables, history
<1>7. QED
  BY <1>4, <1>5, <1>6 DEF IInv, StoreInv, FlightInv

-----------------------------------------------------------------------------
(* Every step *)

\* The requests that start.
LEMMA StartStep ==
    ASSUME IInv, NEW r \in Requests,
           \/ StartLogin(r) \/ StartEnroll(r) \/ StartVerify(r) \/ StartStep2(r)
           \/ StartDisable(r)
    PROVE  IInv'
<1>0. /\ enrolls \in Nat /\ issued \in 0..MaxChallenges
      /\ \A f \in Factors : FactorStep(f) \in {"totp_check", "code_check"}
  BY DEF IInv, TypeOK, FactorStep
<1>1. CASE StartLogin(r)
  BY <1>1, ArriveStep, BuildRequest DEF StartLogin, Steps, OpsAt, FactorSteps
<1>2. CASE StartEnroll(r)
  BY <1>2, ArriveStep, BuildRequest DEF StartEnroll, Steps, OpsAt, FactorSteps
<1>3. CASE StartVerify(r)
  <2>1. PICK f \in Factors : /\ f.kind = "totp" /\ f.seed <= enrolls
                             /\ Arrive(r, "verify_select", "verify", Null, f)
    BY <1>3 DEF StartVerify
  <2>2. QED
    BY <2>1, ArriveStep, BuildRequest DEF Steps, OpsAt, FactorSteps
<1>4. CASE StartStep2(r)
  <2>1. PICK c \in 1..issued, f \in Factors :
             f.seed <= enrolls /\ Arrive(r, "step2_select", "step2", c, f)
    BY <1>4 DEF StartStep2
  <2>2. c \in Challenges /\ c <= issued
    BY <1>0, BoundsType DEF Challenges
  <2>3. QED
    BY <2>1, <2>2, ArriveStep, BuildRequest DEF Steps, OpsAt, FactorSteps
<1>5. CASE StartDisable(r)
  <2>1. PICK f \in Factors :
             f.seed <= enrolls /\ Arrive(r, FactorStep(f), "disable", Null, f)
    BY <1>5 DEF StartDisable
  <2>2. /\ FactorStep(f) = "totp_check" => f.kind = "totp"
        /\ FactorStep(f) = "code_check" => f.kind = "recovery"
        /\ FactorStep(f) \in {"totp_check", "code_check"}
        /\ FactorStep(f) \in Steps
        /\ "disable" \in OpsAt(FactorStep(f))
    BY FactorFields DEF FactorStep, Steps, FactorSteps, OpsAt
  <2>3. [op |-> "disable", challenge |-> Null, factor |-> f] \in Request
    BY BuildRequest
  <2>4. QED
    BY <2>1, <2>2, <2>3, ArriveStep
<1>6. QED
  BY <1>1, <1>2, <1>3, <1>4, <1>5

\* The statements that only read.
LEMMA ReadStep ==
    ASSUME IInv, NEW r \in Requests,
           \/ LoginTotp(r) \/ EnrollSelect(r) \/ TotpCheck(r) \/ CodeCheck(r)
           \/ Step2Select(r) \/ Abort(r)
    PROVE  IInv'
<1>0. TypeOK /\ SlotsOK /\ StoreInv /\ FlightInv
  BY Parts
<1>1. UNCHANGED <<tables, counts, history>>
  BY DEF LoginTotp, EnrollSelect, TotpCheck, CodeCheck, Step2Select, Abort
<1>2. CASE Return(r)
  BY <1>1, <1>2, QuietReturn
<1>3. CASE LoginTotp(r)
  <2>1. pc[r] = "login_totp" /\ GoTo(r, IF TotpActive THEN "login_challenge" ELSE "mint")
    BY <1>3 DEF LoginTotp, At
  <2>2. rq[r].op = "login"
    BY <1>0, <2>1, BusySlot DEF SlotOK, OpsAt, FactorSteps
  <2>3. r \in guarded => TotpActive
    BY <1>0 DEF FlightInv, GuardedLogins
  <2>4. CASE TotpActive
    BY <1>1, <2>1, <2>2, <2>4, QuietGoTo DEF Steps, OpsAt, FactorSteps
  <2>5. CASE ~TotpActive
    BY <1>1, <2>1, <2>2, <2>3, <2>5, QuietGoTo DEF Steps, OpsAt, FactorSteps
  <2>6. QED
    BY <2>4, <2>5
<1>4. CASE At(r, "enroll_select") /\ GoTo(r, "enroll_commit")
  <2>1. rq[r].op = "enroll" /\ pc[r] = "enroll_select"
    BY <1>0, <1>4, BusySlot DEF SlotOK, OpsAt, FactorSteps, At
  <2>2. r \notin guarded
    BY <1>0, <2>1 DEF FlightInv, GuardedLogins
  <2>3. QED
    BY <1>1, <1>4, <2>1, <2>2, QuietGoTo DEF Steps, OpsAt, FactorSteps
<1>5. CASE At(r, "totp_check") /\ TotpActive /\ Accepts(secret, rq[r].factor) /\ Accepted(r)
  <2>1. rq[r].op \in {"step2", "disable"} /\ pc[r] = "totp_check"
    BY <1>0, <1>5, BusySlot DEF SlotOK, OpsAt, FactorSteps, At
  <2>2. r \notin guarded
    BY <1>0, <2>1 DEF FlightInv, GuardedLogins
  <2>3. rq[r].factor.seed \in activated
    BY <1>0, <1>5 DEF StoreInv, ActiveIsActivated, Accepts
  <2>4. CASE rq[r].op = "step2"
    <3>1. GoTo(r, "challenge_delete")
      BY <1>5, <2>4 DEF Accepted
    <3>2. QED
      BY <1>1, <2>1, <2>2, <2>3, <2>4, <3>1, QuietGoTo DEF Steps, OpsAt, FactorSteps
  <2>5. CASE rq[r].op = "disable"
    <3>1. GoTo(r, "wipe")
      BY <1>5, <2>5 DEF Accepted
    <3>2. QED
      BY <1>1, <2>1, <2>2, <2>3, <2>5, <3>1, QuietGoTo DEF Steps, OpsAt, FactorSteps
  <2>6. QED
    BY <2>1, <2>4, <2>5
<1>6. CASE At(r, "code_check") /\ Unconsumed(rq[r].factor) # {} /\ GoTo(r, "code_consume")
  <2>1. /\ rq[r].op \in {"step2", "disable"} /\ pc[r] = "code_check"
        /\ rq[r].factor.kind = "recovery"
    BY <1>0, <1>6, BusySlot DEF SlotOK, OpsAt, FactorSteps, At
  <2>2. r \notin guarded
    BY <1>0, <2>1 DEF FlightInv, GuardedLogins
  <2>3. rq[r].factor.seed # 0
    <3>1. PICK row \in recovery : row.seed = rq[r].factor.seed
      BY <1>6 DEF Unconsumed
    <3>2. row.seed \in Seeds
      BY <1>0 DEF TypeOK, RecoveryRow
    <3>3. QED
      BY <3>1, <3>2 DEF Seeds
  <2>4. QED
    BY <1>1, <1>6, <2>1, <2>2, <2>3, QuietGoTo DEF Steps, OpsAt, FactorSteps
<1>7. CASE /\ At(r, "step2_select")
           /\ GoTo(r, "step2_drop") \/ GoTo(r, FactorStep(rq[r].factor))
  <2>1. rq[r].op = "step2" /\ pc[r] = "step2_select" /\ rq[r].factor \in Factors
    BY <1>0, <1>7, BusySlot, RequestFields DEF SlotOK, OpsAt, FactorSteps, At
  <2>2. r \notin guarded
    BY <1>0, <2>1 DEF FlightInv, GuardedLogins
  <2>3. CASE GoTo(r, "step2_drop")
    BY <1>1, <2>1, <2>2, <2>3, QuietGoTo DEF Steps, OpsAt, FactorSteps
  <2>4. CASE rq[r].factor.kind = "totp" /\ GoTo(r, "totp_check")
    BY <1>1, <2>1, <2>2, <2>4, QuietGoTo DEF Steps, OpsAt, FactorSteps
  <2>5. CASE rq[r].factor.kind = "recovery" /\ GoTo(r, "code_check")
    BY <1>1, <2>1, <2>2, <2>5, QuietGoTo DEF Steps, OpsAt, FactorSteps
  <2>6. QED
    BY <1>7, <2>1, <2>3, <2>4, <2>5, FactorFields DEF FactorStep
<1>8. CASE Step2Select(r)
  <2>1. At(r, "step2_select")
    BY <1>8 DEF Step2Select
  <2>2. Return(r) \/ GoTo(r, "step2_drop") \/ GoTo(r, FactorStep(rq[r].factor))
    BY <1>8 DEF Step2Select
  <2>3. QED
    BY <1>2, <1>7, <2>1, <2>2
<1>9. QED
  BY <1>2, <1>3, <1>4, <1>5, <1>6, <1>8 DEF EnrollSelect, TotpCheck, CodeCheck, Abort

\* Every step keeps the invariant.
LEMMA IInvStep == IInv /\ [Next]_vars => IInv'
<1> SUFFICES ASSUME IInv, [Next]_vars PROVE IInv'
  OBVIOUS
<1>1. CASE UNCHANGED vars
  <2>1. TypeOK /\ SlotsOK /\ StoreInv /\ FlightInv
    BY Parts
  <2>2. UNCHANGED <<tables, counts, pc, rq, history, guarded>>
    BY <1>1 DEF vars
  <2>3. StoreInv'
    BY <2>1, <2>2, StoreUnchanged
  <2>4. TypeOK' /\ SlotsOK'
    BY <2>1, <2>2 DEF TypeOK, SlotsOK, SlotOK, ArgumentsAreOld, At, tables, counts, history
  <2>5. FlightInv'
    BY <2>1, <2>2 DEF FlightInv, GuardedLogins, PaidChallengesGone, TotpFactorWasActivated,
                      TotpActive, At, tables, history
  <2>6. QED
    BY <2>3, <2>4, <2>5 DEF IInv, StoreInv, FlightInv
<1>2. ASSUME NEW r \in Requests, Handler(r) \/ Abort(r) PROVE IInv'
  BY <1>2, StartStep, ReadStep, LoginChallengeStep, MintStep, EnrollCommitStep,
     VerifySelectStep, VerifyUpdateStep, CodeConsumeStep, Step2DropStep,
     ChallengeDeleteStep, WipeStep DEF Handler
<1>3. QED
  BY <1>1, <1>2, ChallengeExpiresStep, RestartStep DEF Next

\* The tables start empty and the slots free.
LEMMA InitInv == Init => IInv
<1> SUFFICES ASSUME Init PROVE IInv
  OBVIOUS
<1>1. TypeOK
  <2>1. session \in BOOLEAN /\ ignored \in BOOLEAN
    BY Zenon DEF Init
  <2>2. enrolls \in 0..MaxEnrolls /\ issued \in 0..MaxChallenges /\ restarts \in Keys
    BY BoundsType DEF Init, Keys
  <2>3. QED
    BY <2>1, <2>2 DEF Init, TypeOK
<1>2. SlotsOK /\ FlightInv
  BY DEF Init, SlotsOK, FlightInv, GuardedLogins, PaidChallengesGone,
         TotpFactorWasActivated, At
<1>3. StoreInv
  BY DEF Init, StoreInv, NothingFromTheFuture, ActiveIsActivated, CodesBelongToSecret,
         SpentChallengesGone, RedeemedCodesConsumed, TotpActive
<1>4. QED
  BY <1>1, <1>2, <1>3 DEF IInv, StoreInv, FlightInv

-----------------------------------------------------------------------------
(* Theorems *)

\* The conjunction of what the endpoints rely on holds in every reachable state.
THEOREM Invariance == Spec => []IInv
BY InitInv, IInvStep, PTL DEF Spec

\* Rows, counters and requests in flight keep their types.
THEOREM TypeCorrect == Spec => []TypeOK
<1>1. IInv => TypeOK
  BY DEF IInv
<1>2. QED
  BY <1>1, Invariance, PTL

\* The transactions of enroll and disable keep the recovery codes those of the
\* stored secret, one row for each code, whatever runs beside them.
THEOREM EnrollmentIsWhole == Spec => []CodesBelongToSecret
<1>1. IInv => CodesBelongToSecret
  BY DEF IInv
<1>2. QED
  BY <1>1, Invariance, PTL

\* login does not mint a session for the password alone while TOTP stays on.
THEOREM SecondFactorAsked == Spec => []PasswordAloneNeedsTotpOff
<1>1. IInv => PasswordAloneNeedsTotpOff
  BY DEF IInv, GuardedLogins, PasswordAloneNeedsTotpOff, At
<1>2. QED
  BY <1>1, Invariance, PTL

\* login_step2 and disable accept a 6-digit code only under a seed that verify
\* had activated.
THEOREM PendingSeedIsNoFactor == Spec => []TotpFactorWasActivated
<1>1. IInv => TotpFactorWasActivated
  BY DEF IInv
<1>2. QED
  BY <1>1, Invariance, PTL

\* login_step2: a challenge that bought a session is not in the table any more,
\* unless its DELETE failed.
THEOREM SpentChallengesLeave == Spec => []SpentChallengesGone
<1>1. IInv => SpentChallengesGone
  BY DEF IInv
<1>2. QED
  BY <1>1, Invariance, PTL

\* consume_recovery_code: a code that was accepted is consumed or gone, unless
\* its UPDATE failed.
THEOREM RedeemedCodesLeave == Spec => []RedeemedCodesConsumed
<1>1. IInv => RedeemedCodesConsumed
  BY DEF IInv
<1>2. QED
  BY <1>1, Invariance, PTL

\* Where no statement fails, without exception: no row of a spent challenge is
\* left, and no redeemed code is left unconsumed.
THEOREM NoReuseWithoutFaults ==
    ASSUME ~Faulty
    PROVE  Spec => [](/\ \A row \in challenges : row.id \notin spent
                      /\ \A row \in recovery : <<row.seed, row.code>> \in redeemed => row.consumed)
<1>1. IInv => /\ \A row \in challenges : row.id \notin spent
              /\ \A row \in recovery : <<row.seed, row.code>> \in redeemed => row.consumed
  BY DEF IInv, SpentChallengesGone, RedeemedCodesConsumed
<1>2. QED
  BY <1>1, Invariance, PTL

-----------------------------------------------------------------------------
(* One request at a time: what is written about single use and activation     *)
(* holds where requests do not overlap and no statement fails.                *)

OneAtATime == (\A r, s \in Requests : r = s) /\ ~Faulty

\* What a request has read is still so.
NothingStale ==
    /\ TotpActive => secret.seed \in proven
    /\ \A r \in Requests :
          /\ /\ pc[r] \in FactorSteps \cup {"challenge_delete", "mint"}
             /\ rq[r].op = "step2"
             => rq[r].challenge \notin spent
          /\ At(r, "verify_update") => secret # Null /\ secret.seed \in proven
          /\ At(r, "code_consume") => <<rq[r].factor.seed, rq[r].factor.code>> \notin redeemed

\* The request ends, and what is active has been proven.
LEMMA EndAlone ==
    ASSUME TypeOK, OneAtATime, NEW r \in Requests, pc' = [pc EXCEPT ![r] = "idle"],
           TotpActive' => secret'.seed \in proven'
    PROVE  NothingStale'
<1>1. \A x \in Requests : pc'[x] = "idle"
  BY DEF TypeOK, OneAtATime
<1>2. QED
  BY <1>1 DEF NothingStale, FactorSteps, At

\* The request goes on.
LEMMA GoOnAlone ==
    ASSUME TypeOK, OneAtATime, NEW r \in Requests, NEW step, GoTo(r, step),
           TotpActive' => secret'.seed \in proven',
           rq[r].op = "step2" /\ step \in FactorSteps \cup {"challenge_delete", "mint"}
               => rq[r].challenge \notin spent',
           step = "verify_update" => secret' # Null /\ secret'.seed \in proven',
           step = "code_consume" => <<rq[r].factor.seed, rq[r].factor.code>> \notin redeemed'
    PROVE  NothingStale'
<1>1. \A x \in Requests : x = r /\ pc'[x] = step /\ rq'[x] = rq[r]
  BY DEF GoTo, TypeOK, OneAtATime
<1>2. QED
  BY <1>1 DEF NothingStale, At

\* No step of a request that is alone makes stale what it has read.
LEMMA StepAlone ==
    ASSUME IInv, OneAtATime, NothingStale, NEW r \in Requests, Handler(r) \/ Abort(r)
    PROVE  NothingStale'
<1>0. TypeOK /\ (TotpActive => secret.seed \in proven) /\ ~ignored
  BY DEF IInv, NothingStale, OneAtATime
<1>1. ASSUME NEW step, NEW op, NEW challenge, NEW factor, Arrive(r, step, op, challenge, factor),
             step \notin {"verify_update", "code_consume", "challenge_delete", "mint"},
             op = "step2" => step = "step2_select"
      PROVE  NothingStale'
  <2>1. \A x \in Requests : pc'[x] = step /\ rq'[x].op = op
    BY <1>0, <1>1 DEF Arrive, TypeOK, OneAtATime
  <2>2. UNCHANGED <<secret, proven>>
    BY <1>1 DEF Arrive, tables, history
  <2>3. QED
    BY <1>0, <1>1, <2>1, <2>2 DEF NothingStale, FactorSteps, TotpActive, At
<1>2. CASE \/ StartLogin(r) \/ StartEnroll(r) \/ StartVerify(r) \/ StartStep2(r)
           \/ StartDisable(r)
  BY <1>1, <1>2 DEF StartLogin, StartEnroll, StartVerify, StartStep2, StartDisable, FactorStep
<1>3. CASE UNCHANGED <<secret, proven>> /\ Return(r)
  BY <1>0, <1>3, EndAlone DEF Return, TotpActive
<1>4. CASE LoginTotp(r)
  <2>1. rq[r].op = "login" /\ UNCHANGED <<secret, proven>>
    <3>1. pc[r] = "login_totp" /\ UNCHANGED <<secret, proven>>
      BY <1>4 DEF LoginTotp, At, tables, history
    <3>2. SlotOK(r)
      BY <3>1, BusySlot DEF IInv
    <3>3. QED
      BY <3>1, <3>2 DEF SlotOK, OpsAt, FactorSteps
  <2>2. QED
    BY <1>0, <1>4, <2>1, GoOnAlone DEF LoginTotp, TotpActive
<1>5. CASE LoginChallenge(r) \/ Mint(r) \/ Step2Drop(r) \/ Abort(r)
  BY <1>3, <1>5 DEF LoginChallenge, Mint, Step2Drop, Abort, tables, history
<1>6. CASE EnrollSelect(r)
  <2>1. UNCHANGED <<secret, proven>>
    BY <1>6 DEF EnrollSelect, tables, history
  <2>2. QED
    BY <1>0, <1>3, <1>6, <2>1, GoOnAlone DEF EnrollSelect, FactorSteps, TotpActive
<1>7. CASE EnrollCommit(r)
  <2>1. CASE secret # Null
    BY <1>3, <1>7, <2>1 DEF EnrollCommit, history
  <2>2. CASE secret = Null
    <3>1. ~TotpActive'
      BY <1>7, <2>2 DEF EnrollCommit, TotpActive
    <3>2. QED
      BY <1>0, <1>7, <3>1, EndAlone DEF EnrollCommit, Return
  <2>3. QED
    BY <2>1, <2>2
<1>8. CASE VerifySelect(r)
  <2>1. CASE GoTo(r, "verify_update") /\ secret # Null /\ proven' = proven \cup {secret.seed}
    <3>1. secret' = secret
      BY <1>8 DEF VerifySelect, tables
    <3>2. QED
      BY <1>0, <2>1, <3>1, GoOnAlone DEF FactorSteps, TotpActive
  <2>2. QED
    BY <1>3, <1>8, <2>1 DEF VerifySelect, tables
<1>9. CASE VerifyUpdate(r)
  <2>1. secret # Null /\ secret.seed \in proven /\ secret \in Secret
    BY <1>0, <1>9 DEF VerifyUpdate, NothingStale, TypeOK
  <2>2. secret'.seed = secret.seed /\ proven' = proven /\ Return(r)
    BY <1>9, <2>1 DEF VerifyUpdate, Secret
  <2>3. QED
    BY <1>0, <2>1, <2>2, EndAlone DEF Return
<1>10. CASE TotpCheck(r)
  <2>1. /\ pc[r] = "totp_check" /\ UNCHANGED <<secret, proven, spent>>
        /\ rq[r].op = "step2" => rq[r].challenge \notin spent
    BY <1>10 DEF TotpCheck, At, tables, history, NothingStale, FactorSteps
  <2>2. QED
    BY <1>0, <1>3, <1>10, <2>1, GoOnAlone DEF TotpCheck, Accepted, TotpActive
<1>11. CASE CodeCheck(r)
  <2>1. /\ pc[r] = "code_check" /\ UNCHANGED <<secret, proven, spent, redeemed>>
        /\ rq[r].op = "step2" => rq[r].challenge \notin spent
    BY <1>11 DEF CodeCheck, At, tables, history, NothingStale, FactorSteps
  <2>2. Unconsumed(rq[r].factor) # {}
          => <<rq[r].factor.seed, rq[r].factor.code>> \notin redeemed
    BY <1>0 DEF Unconsumed, IInv, RedeemedCodesConsumed
  <2>3. QED
    BY <1>0, <1>3, <1>11, <2>1, <2>2, GoOnAlone DEF CodeCheck, TotpActive
<1>12. CASE CodeConsume(r)
  <2>1. /\ pc[r] = "code_consume" /\ UNCHANGED <<secret, proven, spent>>
        /\ rq[r].op = "step2" => rq[r].challenge \notin spent
    BY <1>12 DEF CodeConsume, At, NothingStale, FactorSteps
  <2>2. QED
    BY <1>0, <1>12, <2>1, GoOnAlone DEF CodeConsume, Accepted, TotpActive
<1>13. CASE Step2Select(r)
  <2>1. UNCHANGED <<secret, proven, spent>>
    BY <1>13 DEF Step2Select, tables, history
  <2>2. ASSUME NEW row \in challenges, row.id = rq[r].challenge PROVE rq[r].challenge \notin spent
    BY <1>0, <2>2 DEF IInv, SpentChallengesGone
  <2>3. QED
    BY <1>0, <1>3, <1>13, <2>1, <2>2, GoOnAlone DEF Step2Select, FactorStep, TotpActive
<1>14. CASE ChallengeDelete(r)
  <2>1. /\ pc[r] = "challenge_delete" /\ UNCHANGED <<secret, proven, spent>>
        /\ rq[r].op = "step2" => rq[r].challenge \notin spent
    BY <1>14 DEF ChallengeDelete, At, NothingStale
  <2>2. QED
    BY <1>0, <1>14, <2>1, GoOnAlone DEF ChallengeDelete, TotpActive
<1>15. CASE Wipe(r)
  BY <1>0, <1>15, EndAlone DEF Wipe, TotpActive
<1>16. QED
  BY <1>2, <1>4, <1>5, <1>6, <1>7, <1>8, <1>9, <1>10, <1>11, <1>12, <1>13, <1>14, <1>15
     DEF Handler

\* A request that is alone finds what it read as it was.
LEMMA AloneInv == ASSUME OneAtATime PROVE Spec => []NothingStale
<1>1. Init => NothingStale
  BY DEF Init, NothingStale, TotpActive, FactorSteps, At
<1>2. IInv /\ NothingStale /\ [Next]_vars => NothingStale'
  <2> SUFFICES ASSUME IInv, NothingStale, [Next]_vars PROVE NothingStale'
    OBVIOUS
  <2>1. CASE UNCHANGED vars
    BY <2>1 DEF vars, tables, history, NothingStale, TotpActive, At
  <2>2. CASE ChallengeExpires
    BY <2>2 DEF ChallengeExpires, history, NothingStale, TotpActive, At
  <2>3. CASE Restart
    BY <2>3 DEF Restart, tables, history, NothingStale, TotpActive, FactorSteps, At
  <2>4. QED
    BY <2>1, <2>2, <2>3, StepAlone DEF Next
<1>3. QED
  BY <1>1, <1>2, Invariance, PTL DEF Spec

\* login_step2 mints at most one session for a challenge, if requests do not
\* overlap and its DELETE does not fail.
THEOREM SingleUseAlone == ASSUME OneAtATime PROVE Spec => ChallengeSingleUse
<1>1. NothingStale /\ [Next]_vars
        => [\A r \in Requests : Mint(r) /\ rq[r].op = "step2" => rq[r].challenge \notin spent]_vars
  BY DEF NothingStale, Mint, At
<1>2. QED
  BY <1>1, AloneInv, PTL DEF Spec, ChallengeSingleUse

\* consume_recovery_code accepts a code at most once, on the same conditions.
THEOREM CodesSingleUseAlone ==
    ASSUME OneAtATime
    PROVE  Spec => [][\A r \in Requests : CodeConsume(r)
                        => <<rq[r].factor.seed, rq[r].factor.code>> \notin redeemed]_vars
<1>1. NothingStale /\ [Next]_vars
        => [\A r \in Requests : CodeConsume(r)
               => <<rq[r].factor.seed, rq[r].factor.code>> \notin redeemed]_vars
  BY DEF NothingStale, CodeConsume, At
<1>2. QED
  BY <1>1, AloneInv, PTL DEF Spec

\* verify activates the seed whose code it was shown, if requests do not overlap.
THEOREM ActivationAlone == ASSUME OneAtATime PROVE Spec => []ActiveSeedWasProven
<1>1. NothingStale => ActiveSeedWasProven
  BY DEF NothingStale, ActiveSeedWasProven
<1>2. QED
  BY <1>1, AloneInv, PTL
=============================================================================
