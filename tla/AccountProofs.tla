---------------------------- MODULE AccountProofs ----------------------------
(***************************************************************************)
(* Theorems about Account, for every set of addresses, whatever its        *)
(* folding, every set of passwords, every lifetime of a session and every  *)
(* bound.                                                                  *)
(***************************************************************************)
EXTENDS Account, SequenceTheorems, TLAPS

-----------------------------------------------------------------------------
(* The inductive invariant *)

\* The row of an account holds the password it was first registered with.
RowsKeepPassword ==
    \A e \in Emails : /\ users[e] = Null <=> registered[e] = Null
                      /\ users[e] # Null => users[e].password = registered[e]

\* A login about to be answered has shown the password; any other request in
\* flight has shown a token, which was good when put_prefs first looked.
SlotOK(r) ==
    /\ pc[r] \in {"login_totp", "mint"} =>
          rq[r].op = "login" /\ rq[r].password = registered[rq[r].user]
    /\ pc[r] \in {"put_update", "get_auth"} => rq[r].op = "put"
    /\ pc[r] = "get_select" => rq[r].op \in {"get", "put"}
    /\ pc[r] \notin {"login_totp", "mint"} => rq[r].token \in DOMAIN sessions
    /\ rq[r].op = "put" => rq[r].since < sessions[rq[r].token].expires_at

SlotsOK == \A r \in Requests : pc[r] # "idle" => SlotOK(r)

\* Only a put that has done its UPDATE has fields to answer for, among those of
\* its body.
OwnOK == \A r \in Requests :
            own[r] # {} => /\ pc[r] \in {"get_auth", "get_select"}
                           /\ rq[r].op = "put"
                           /\ own[r] \subseteq Named(rq[r].set)

IInv ==
    /\ TypeOK
    /\ RowsKeepPassword
    /\ SlotsOK
    /\ OwnOK
    /\ SessionsProvePassword
    /\ ReplyShowsUpdate

-----------------------------------------------------------------------------
(* Lemmas *)

\* The arguments of a request, by operation.
LEMMA RequestFields ==
    ASSUME NEW q \in Request
    PROVE  /\ q.op \in {"login", "get", "put"}
           /\ q.op = "login" => q.user \in Emails /\ q.password \in Passwords
           /\ q.op \in {"get", "put"} => q.token \in Tokens
           /\ q.op = "put" => q.set \in Updates /\ q.since \in Nat
BY DEF Request

\* The sessions are a sequence, and the history goes along with it.
LEMMA SessionSeq ==
    ASSUME TypeOK
    PROVE  /\ sessions \in Seq(Session)
           /\ Len(sessions) \in 0..MaxSessions
           /\ DOMAIN sessions = 1..Len(sessions)
           /\ proof \in Seq(Passwords)
           /\ Len(proof) = Len(sessions)
           /\ DOMAIN proof = DOMAIN sessions
<1>1. PICK n \in 0..MaxSessions : sessions \in [1..n -> Session]
  BY DEF TypeOK
<1>2. n \in Nat
  BY AccountConstants
<1>3. sessions \in Seq(Session) /\ Len(sessions) = n /\ DOMAIN sessions = 1..n
  BY <1>1, <1>2
<1>4. proof \in [1..n -> Passwords]
  BY <1>3 DEF TypeOK
<1>5. QED
  BY <1>2, <1>3, <1>4

\* A sequence with an element appended, as a function.
LEMMA Appended ==
    ASSUME NEW S, NEW q \in Seq(S), NEW x \in S
    PROVE  LET n == Len(q) + 1
               new == Append(q, x)
           IN  /\ new \in [1..n -> S]
               /\ \A t \in 1..Len(q) : new[t] = q[t]
               /\ new[n] = x
<1>1. /\ Append(q, x) \in Seq(S)
      /\ Len(Append(q, x)) = Len(q) + 1
      /\ Len(q) \in Nat
  BY AppendProperties, LenProperties
<1>2. Append(q, x) \in [1..(Len(q) + 1) -> S]
  BY <1>1, LenProperties
<1>3. QED
  BY <1>1, <1>2, AppendProperties

\* The fields of a session.
LEMMA SessionFields ==
    ASSUME TypeOK, NEW t \in DOMAIN sessions
    PROVE  /\ sessions[t] \in Session
           /\ sessions[t].user \in Emails
           /\ sessions[t].expires_at \in Nat
           /\ t \in Tokens
<1>1. sessions \in Seq(Session) /\ Len(sessions) \in 0..MaxSessions
      /\ DOMAIN sessions = 1..Len(sessions)
  BY SessionSeq
<1>2. sessions[t] \in Session
  BY <1>1
<1>3. t \in Tokens
  BY <1>1, AccountConstants DEF Tokens
<1>4. QED
  BY <1>2, <1>3 DEF Session

\* An account that has a session has a row.
LEMMA SessionHasUser ==
    ASSUME IInv, NEW t \in DOMAIN sessions
    PROVE  /\ users[sessions[t].user] # Null
           /\ users[sessions[t].user] \in User
<1>1. sessions[t].user \in Emails
  BY SessionFields DEF IInv
<1>2. proof[t] \in Passwords
  BY DEF IInv, TypeOK
<1>3. registered[sessions[t].user] # Null
  BY <1>2, AccountConstants DEF IInv, SessionsProvePassword
<1>4. QED
  BY <1>1, <1>3 DEF IInv, RowsKeepPassword, TypeOK

\* A busy slot holds a request.
LEMMA BusySlot ==
    ASSUME IInv, NEW r \in Requests, pc[r] # "idle"
    PROVE  rq[r] \in Request /\ rq[r] # Null /\ pc[r] \in Steps /\ SlotOK(r)
BY NullIsFresh DEF IInv, TypeOK, SlotsOK

\* A response that changes no row frees its slot and nothing else.
LEMMA ReturnStep ==
    ASSUME IInv, NEW r \in Requests, Return(r), UNCHANGED <<tables, now, registered, proof>>
    PROVE  IInv'
<1>1. TypeOK /\ users' = users /\ sessions' = sessions
  BY DEF IInv, tables
<1>2. /\ pc'[r] = "idle" /\ rq'[r] = Null /\ own'[r] = {}
      /\ \A x \in Requests : x # r => pc'[x] = pc[x] /\ rq'[x] = rq[x] /\ own'[x] = own[x]
  BY <1>1 DEF Return, TypeOK
<1>3. TypeOK'
  <2>1. /\ pc' \in [Requests -> Steps \cup {"idle"}]
        /\ rq' \in [Requests -> Request \cup {Null}]
        /\ own' \in [Requests -> SUBSET Fields]
    BY <1>1 DEF Return, TypeOK
  <2>2. \A x \in Requests : pc'[x] = "idle" <=> rq'[x] = Null
    BY <1>1, <1>2 DEF TypeOK
  <2>3. QED
    BY <1>1, <2>1, <2>2 DEF TypeOK
<1>4. SlotsOK'
  BY <1>1, <1>2 DEF IInv, SlotsOK, SlotOK
<1>5. OwnOK'
  BY <1>2 DEF IInv, OwnOK, Named
<1>6. ReplyShowsUpdate'
  BY <1>1, <1>2 DEF IInv, ReplyShowsUpdate, user_id
<1>7. RowsKeepPassword' /\ SessionsProvePassword'
  BY <1>1 DEF IInv, RowsKeepPassword, SessionsProvePassword
<1>8. QED
  BY <1>3, <1>4, <1>5, <1>6, <1>7 DEF IInv

\* A request without fields to answer for takes its next statement.
LEMMA GoToStep ==
    ASSUME IInv, NEW r \in Requests, own[r] = {}, NEW step \in Steps, NEW args \in Request,
           GoTo(r, step, args), UNCHANGED <<tables, now, registered, proof, own>>,
           step \in {"login_totp", "mint"} => args.op = "login" /\ args.password = registered[args.user],
           step \in {"put_update", "get_auth"} => args.op = "put",
           step = "get_select" => args.op \in {"get", "put"},
           step \notin {"login_totp", "mint"} => args.token \in DOMAIN sessions,
           args.op = "put" => args.since < sessions[args.token].expires_at
    PROVE  IInv'
<1>1. TypeOK /\ users' = users /\ sessions' = sessions
  BY DEF IInv, tables
<1>2. /\ pc'[r] = step /\ rq'[r] = args /\ own' = own
      /\ \A x \in Requests : x # r => pc'[x] = pc[x] /\ rq'[x] = rq[x]
      /\ step # "idle" /\ args # Null
  BY <1>1, NullIsFresh DEF GoTo, TypeOK, Steps
<1>3. TypeOK'
  <2>1. /\ pc' \in [Requests -> Steps \cup {"idle"}]
        /\ rq' \in [Requests -> Request \cup {Null}]
    BY <1>1 DEF GoTo, TypeOK
  <2>2. \A x \in Requests : pc'[x] = "idle" <=> rq'[x] = Null
    BY <1>1, <1>2 DEF TypeOK
  <2>3. QED
    BY <1>1, <1>2, <2>1, <2>2 DEF TypeOK
<1>4. SlotsOK'
  BY <1>1, <1>2 DEF IInv, SlotsOK, SlotOK
<1>5. OwnOK'
  BY <1>2 DEF IInv, OwnOK, Named
<1>6. ReplyShowsUpdate'
  BY <1>1, <1>2 DEF IInv, ReplyShowsUpdate, user_id
<1>7. RowsKeepPassword' /\ SessionsProvePassword'
  BY <1>1 DEF IInv, RowsKeepPassword, SessionsProvePassword
<1>8. QED
  BY <1>3, <1>4, <1>5, <1>6, <1>7 DEF IInv

\* A free slot owns nothing.
LEMMA IdleOwnsNothing ==
    ASSUME IInv, NEW r \in Requests, pc[r] \notin {"get_auth", "get_select"}
    PROVE  own[r] = {}
BY DEF IInv, OwnOK

-----------------------------------------------------------------------------
(* Every step *)

\* The UNIQUE column lets only the first registration of an address through: no
\* session, login or put in flight is about the account yet.
LEMMA RegisterStep ==
    ASSUME IInv, NEW r \in Requests, Register(r)
    PROVE  IInv'
<1>1. /\ TypeOK
      /\ sessions' = sessions /\ now' = now /\ pc' = pc /\ rq' = rq
      /\ proof' = proof /\ own' = own
  BY DEF IInv, Register
<1>2. PICK a \in Addresses, p \in Passwords :
         LET e == to_lowercase(a) IN
         IF RegisterStatus(a, p) = 201
         THEN /\ users' = [users EXCEPT ![e] =
                    [password |-> p, prefs |-> [f \in Fields |-> f = "profile_activity"]]]
              /\ registered' = [registered EXCEPT ![e] = IF @ = Null THEN p ELSE @]
         ELSE UNCHANGED <<users, registered>>
  BY DEF Register
<1>3. CASE UNCHANGED <<users, registered>>
  BY <1>1, <1>3 DEF IInv, TypeOK, RowsKeepPassword, SlotsOK, SlotOK, OwnOK, Named,
                    SessionsProvePassword, ReplyShowsUpdate, user_id
<1>4. CASE RegisterStatus(a, p) = 201
  <2> DEFINE e == to_lowercase(a)
             row == [password |-> p, prefs |-> [f \in Fields |-> f = "profile_activity"]]
  <2>1. /\ users' = [users EXCEPT ![e] = row]
        /\ registered' = [registered EXCEPT ![e] = IF @ = Null THEN p ELSE @]
    BY <1>2, <1>4
  <2>2. e \in Emails /\ users[e] = Null
    BY <1>4 DEF Emails, RegisterStatus
  <2>3. row \in User /\ row.password = p /\ row # Null
    <3>1. [f \in Fields |-> f = "profile_activity"] \in [Fields -> BOOLEAN]
      OBVIOUS
    <3>2. p \in Passwords \ TooShort
      BY <1>4 DEF RegisterStatus, hash_password_ok
    <3>3. row \in User /\ row.password = p
      BY <3>1, <3>2 DEF User
    <3>4. QED
      BY <3>3, NullIsFresh
  <2> HIDE DEF e, row
  <2>4. registered[e] = Null
    BY <2>2 DEF IInv, RowsKeepPassword
  <2>5. /\ users'[e] = row /\ registered'[e] = p
        /\ \A x \in Emails : x # e => users'[x] = users[x] /\ registered'[x] = registered[x]
    BY <1>1, <2>1, <2>2, <2>4 DEF TypeOK
  <2>6. TypeOK'
    <3>1. /\ users' \in [Emails -> User \cup {Null}]
          /\ registered' \in [Emails -> Passwords \cup {Null}]
      BY <1>1, <2>1, <2>2, <2>3, <2>4 DEF TypeOK
    <3>2. QED
      BY <1>1, <3>1 DEF TypeOK
  <2>7. RowsKeepPassword'
    BY <2>3, <2>5, AccountConstants DEF IInv, RowsKeepPassword
  <2>8. \A t \in DOMAIN sessions : sessions[t].user \in Emails /\ sessions[t].user # e
    BY <1>1, <2>2, SessionHasUser, SessionFields
  <2>9. SessionsProvePassword'
    BY <1>1, <2>5, <2>8 DEF IInv, SessionsProvePassword
  <2>10. SlotsOK'
    <3>1. SUFFICES ASSUME NEW x \in Requests, pc[x] # "idle" PROVE SlotOK(x)'
      BY <1>1 DEF SlotsOK
    <3>2. rq[x] \in Request /\ SlotOK(x)
      BY <3>1, BusySlot
    <3>3. pc[x] \in {"login_totp", "mint"} => rq[x].user \in Emails /\ rq[x].user # e
      BY <2>4, <3>2, RequestFields, AccountConstants DEF SlotOK
    <3>4. QED
      BY <1>1, <2>5, <3>2, <3>3 DEF SlotOK
  <2>11. OwnOK'
    BY <1>1 DEF IInv, OwnOK, Named
  <2>12. ReplyShowsUpdate'
    <3>1. SUFFICES ASSUME NEW x \in Requests, NEW f \in own[x]
                   PROVE  users'[sessions[rq[x].token].user].prefs[f] = rq[x].set[f]
      BY <1>1 DEF ReplyShowsUpdate, user_id
    <3>2. rq[x].token \in DOMAIN sessions
      BY <3>1, BusySlot DEF IInv, OwnOK, SlotOK
    <3>3. QED
      BY <2>5, <2>8, <3>1, <3>2 DEF IInv, ReplyShowsUpdate, user_id
  <2>13. QED
    BY <2>6, <2>7, <2>9, <2>10, <2>11, <2>12 DEF IInv
<1>5. QED
  BY <1>2, <1>3, <1>4

\* The password is compared with the one of the row.
LEMMA LoginSelectStep ==
    ASSUME IInv, NEW r \in Requests, LoginSelect(r)
    PROVE  IInv'
<1>1. pc[r] = "idle" /\ UNCHANGED <<tables, now, registered, proof>>
  BY DEF LoginSelect, At
<1>2. PICK a \in Addresses, p \in Passwords :
         LET e == to_lowercase(a) IN
         IF users[e] # Null /\ verify_password(p, users[e].password)
         THEN GoTo(r, "login_totp", [op |-> "login", user |-> e, password |-> p]) /\ UNCHANGED own
         ELSE Return(r)
  BY DEF LoginSelect
<1>3. CASE Return(r)
  BY <1>1, <1>3, ReturnStep
<1>4. CASE LET e == to_lowercase(a) IN
           /\ users[e] # Null /\ p = users[e].password
           /\ GoTo(r, "login_totp", [op |-> "login", user |-> e, password |-> p]) /\ UNCHANGED own
  <2> DEFINE e == to_lowercase(a)
             args == [op |-> "login", user |-> e, password |-> p]
  <2>1. e \in Emails
    BY DEF Emails
  <2>2. /\ args \in Request /\ args.op = "login" /\ args.user = e /\ args.password = p
    BY <2>1 DEF Request
  <2>3. p = registered[e]
    BY <1>4, <2>1 DEF IInv, RowsKeepPassword
  <2>4. own[r] = {}
    BY <1>1, IdleOwnsNothing
  <2> HIDE DEF args
  <2>5. GoTo(r, "login_totp", args) /\ UNCHANGED <<tables, now, registered, proof, own>>
    BY <1>1, <1>4 DEF args
  <2>6. "login_totp" \in Steps
    BY DEF Steps
  <2>7. QED
    BY <2>2, <2>3, <2>4, <2>5, <2>6, GoToStep
<1>5. QED
  BY <1>2, <1>3, <1>4 DEF verify_password

\* No secret is active: the login goes on as it is.
LEMMA LoginTotpStep ==
    ASSUME IInv, NEW r \in Requests, LoginTotp(r)
    PROVE  IInv'
<1>1. /\ pc[r] = "login_totp" /\ GoTo(r, "mint", rq[r])
      /\ UNCHANGED <<tables, now, registered, proof, own>>
  BY DEF LoginTotp, At, history
<1>2. /\ rq[r] \in Request /\ rq[r].op = "login"
      /\ rq[r].password = registered[rq[r].user]
  BY <1>1, BusySlot DEF SlotOK
<1>3. own[r] = {} /\ "mint" \in Steps
  BY <1>1, IdleOwnsNothing DEF Steps
<1>4. QED
  BY <1>1, <1>2, <1>3, GoToStep

\* A session is added at the end; the ones before it stay.
LEMMA MintStep ==
    ASSUME IInv, NEW r \in Requests, Mint(r)
    PROVE  IInv'
<1> DEFINE s == [user |-> rq[r].user, expires_at |-> now + SESSION_TTL_SECS]
           n == Len(sessions) + 1
<1>1. /\ TypeOK /\ pc[r] = "mint" /\ Return(r) /\ Len(sessions) < MaxSessions
      /\ sessions' = Append(sessions, s)
      /\ proof' = Append(proof, rq[r].password)
      /\ UNCHANGED <<users, now, registered>>
  BY DEF IInv, Mint, At
<1>2. /\ rq[r].op = "login" /\ rq[r].user \in Emails /\ rq[r].password \in Passwords
      /\ rq[r].password = registered[rq[r].user]
  BY <1>1, BusySlot, RequestFields DEF SlotOK
<1>3. s \in Session /\ s.user = rq[r].user
  <2>1. now + SESSION_TTL_SECS \in Nat
    BY <1>1, AccountConstants DEF TypeOK
  <2>2. QED
    BY <1>2, <2>1 DEF Session
<1>4. /\ sessions \in Seq(Session) /\ Len(sessions) \in 0..MaxSessions
      /\ DOMAIN sessions = 1..Len(sessions)
      /\ proof \in Seq(Passwords) /\ Len(proof) = Len(sessions)
      /\ DOMAIN proof = DOMAIN sessions
  BY <1>1, SessionSeq
<1> HIDE DEF s
<1>5. /\ n \in 0..MaxSessions /\ n \in Nat
      /\ sessions' \in [1..n -> Session] /\ DOMAIN sessions' = 1..n
      /\ proof' \in [1..n -> Passwords]
      /\ DOMAIN sessions \subseteq DOMAIN sessions'
      /\ \A t \in DOMAIN sessions' : t \in DOMAIN sessions \/ t = n
      /\ \A t \in DOMAIN sessions : sessions'[t] = sessions[t] /\ proof'[t] = proof[t]
      /\ sessions'[n] = s /\ proof'[n] = rq[r].password
  <2>1. n \in 0..MaxSessions /\ n \in Nat
    BY <1>1, <1>4, AccountConstants
  <2>2. /\ sessions' \in [1..n -> Session] /\ sessions'[n] = s
        /\ \A t \in 1..Len(sessions) : sessions'[t] = sessions[t]
    BY <1>1, <1>3, <1>4, Appended
  <2>3. /\ proof' \in [1..n -> Passwords] /\ proof'[n] = rq[r].password
        /\ \A t \in 1..Len(sessions) : proof'[t] = proof[t]
    BY <1>1, <1>2, <1>4, Appended
  <2>4. DOMAIN sessions' = 1..n
    BY <2>2
  <2>5. \A t \in 1..n : t \in 1..Len(sessions) \/ t = n
    BY <1>4
  <2>6. 1..Len(sessions) \subseteq 1..n
    BY <1>4
  <2> HIDE DEF n
  <2>7. QED
    BY <1>4, <2>1, <2>2, <2>3, <2>4, <2>5, <2>6
<1> HIDE DEF n
<1>6. /\ pc'[r] = "idle" /\ rq'[r] = Null /\ own'[r] = {}
      /\ \A x \in Requests : x # r => pc'[x] = pc[x] /\ rq'[x] = rq[x] /\ own'[x] = own[x]
  BY <1>1 DEF Return, TypeOK
<1>7. TypeOK'
  <2>1. /\ pc' \in [Requests -> Steps \cup {"idle"}]
        /\ rq' \in [Requests -> Request \cup {Null}]
        /\ own' \in [Requests -> SUBSET Fields]
    BY <1>1 DEF Return, TypeOK
  <2>2. \A x \in Requests : pc'[x] = "idle" <=> rq'[x] = Null
    BY <1>1, <1>6 DEF TypeOK
  <2>3. \E m \in 0..MaxSessions : sessions' \in [1..m -> Session]
    BY <1>5
  <2>4. proof' \in [DOMAIN sessions' -> Passwords]
    BY <1>5
  <2>5. QED
    BY <1>1, <2>1, <2>2, <2>3, <2>4 DEF TypeOK
<1>8. SessionsProvePassword'
  BY <1>1, <1>2, <1>3, <1>5 DEF IInv, SessionsProvePassword
<1>9. SlotsOK'
  <2>1. SUFFICES ASSUME NEW x \in Requests, pc'[x] # "idle" PROVE SlotOK(x)'
    BY DEF SlotsOK
  <2>2. pc'[x] = pc[x] /\ rq'[x] = rq[x] /\ rq[x] \in Request /\ SlotOK(x)
    BY <1>6, <2>1, BusySlot
  <2>3. rq[x].op = "put" => rq[x].token \in DOMAIN sessions
    BY <2>2 DEF SlotOK
  <2>4. QED
    BY <1>1, <1>5, <2>2, <2>3 DEF SlotOK
<1>10. OwnOK'
  BY <1>6 DEF IInv, OwnOK, Named
<1>11. ReplyShowsUpdate'
  <2>1. SUFFICES ASSUME NEW x \in Requests, NEW f \in own'[x]
                 PROVE  users[sessions'[rq'[x].token].user].prefs[f] = rq'[x].set[f]
    BY <1>1 DEF ReplyShowsUpdate, user_id
  <2>2. x # r /\ rq'[x] = rq[x] /\ own'[x] = own[x]
    BY <1>6, <2>1
  <2>3. rq[x].token \in DOMAIN sessions
    BY <2>1, <2>2, BusySlot DEF IInv, OwnOK, SlotOK
  <2>4. QED
    BY <1>5, <2>1, <2>2, <2>3 DEF IInv, ReplyShowsUpdate, user_id
<1>12. RowsKeepPassword'
  BY <1>1 DEF IInv, RowsKeepPassword
<1>13. QED
  BY <1>7, <1>8, <1>9, <1>10, <1>11, <1>12 DEF IInv

\* A good session: its token is known and its end is to come.
LEMMA AuthedSession ==
    ASSUME TypeOK, NEW t, Authed(t)
    PROVE  t \in DOMAIN sessions /\ t \in Tokens /\ now < sessions[t].expires_at
<1>1. t \in DOMAIN sessions /\ ~(sessions[t].expires_at <= now)
  BY DEF Authed, expires_in_past_secs
<1>2. now \in Nat
  BY AccountConstants DEF TypeOK
<1>3. QED
  BY <1>1, <1>2, SessionFields

\* get_prefs and put_prefs start with authed_user.
LEMMA AuthenticateStep ==
    ASSUME IInv, NEW r \in Requests, GetStart(r) \/ PutStart(r)
    PROVE  IInv'
<1>0. TypeOK /\ now \in Nat
  BY AccountConstants DEF IInv, TypeOK
<1>1. CASE GetStart(r)
  <2>1. PICK t \in Offered : Authenticate(r, "get_select", [op |-> "get", token |-> t])
    BY <1>1 DEF GetStart
  <2> DEFINE args == [op |-> "get", token |-> t]
  <2>2. args.token = t /\ args.op = "get"
    OBVIOUS
  <2>3. t \in Tokens => args \in Request
    BY DEF Request
  <2> HIDE DEF args
  <2>4. UNCHANGED <<tables, now, registered, proof>>
    BY <2>1 DEF Authenticate
  <2>5. CASE Authed(t)
    <3>1. GoTo(r, "get_select", args) /\ UNCHANGED own
      BY <2>1, <2>2, <2>5 DEF Authenticate, args
    <3>2. own[r] = {}
      BY <1>1, IdleOwnsNothing DEF GetStart, At
    <3>3. t \in DOMAIN sessions /\ t \in Tokens
      BY <1>0, <2>5, AuthedSession
    <3>4. "get_select" \in Steps
      BY DEF Steps
    <3>5. QED
      BY <2>2, <2>3, <2>4, <3>1, <3>2, <3>3, <3>4, GoToStep
  <2>6. CASE ~Authed(t)
    BY <2>1, <2>2, <2>4, <2>6, ReturnStep DEF Authenticate, args
  <2>7. QED
    BY <2>5, <2>6
<1>2. CASE PutStart(r)
  <2>1. PICK t \in Offered, u \in Updates :
             Authenticate(r, IF u = NoFields THEN "get_auth" ELSE "put_update",
                          [op |-> "put", token |-> t, set |-> u, since |-> now])
    BY <1>2 DEF PutStart
  <2> DEFINE args == [op |-> "put", token |-> t, set |-> u, since |-> now]
             step == IF u = NoFields THEN "get_auth" ELSE "put_update"
  <2>2. args.token = t /\ args.op = "put" /\ args.since = now
    OBVIOUS
  <2>3. t \in Tokens => args \in Request
    BY <1>0, <2>1 DEF Request
  <2>4. step \in {"get_auth", "put_update"} /\ step \in Steps
    BY DEF Steps
  <2> HIDE DEF args, step
  <2>5. Authenticate(r, step, args)
    BY <2>1 DEF args, step
  <2>6. UNCHANGED <<tables, now, registered, proof>>
    BY <2>5 DEF Authenticate
  <2>7. CASE Authed(t)
    <3>1. GoTo(r, step, args) /\ UNCHANGED own
      BY <2>2, <2>5, <2>7 DEF Authenticate
    <3>2. own[r] = {}
      BY <1>2, IdleOwnsNothing DEF PutStart, At
    <3>3. t \in DOMAIN sessions /\ t \in Tokens /\ now < sessions[t].expires_at
      BY <1>0, <2>7, AuthedSession
    <3>4. QED
      BY <2>2, <2>3, <2>4, <2>6, <3>1, <3>2, <3>3, GoToStep
  <2>8. CASE ~Authed(t)
    BY <2>2, <2>5, <2>6, <2>8, ReturnStep DEF Authenticate
  <2>9. QED
    BY <2>7, <2>8
<1>3. QED
  BY <1>1, <1>2

\* The second authentication keeps the request as it is.
LEMMA GetAuthStep ==
    ASSUME IInv, NEW r \in Requests, GetAuth(r)
    PROVE  IInv'
<1>1. pc[r] = "get_auth" /\ Authenticate(r, "get_select", rq[r])
  BY DEF GetAuth, At
<1>2. UNCHANGED <<tables, now, registered, proof>>
  BY <1>1 DEF Authenticate
<1>3. CASE Return(r)
  BY <1>2, <1>3, ReturnStep
<1>4. CASE GoTo(r, "get_select", rq[r]) /\ UNCHANGED own
  <2>1. TypeOK /\ users' = users /\ sessions' = sessions
    BY <1>2 DEF IInv, tables
  <2>2. /\ pc'[r] = "get_select" /\ own' = own
        /\ \A x \in Requests : x # r => pc'[x] = pc[x]
        /\ rq' = rq
    BY <1>4, <2>1 DEF GoTo, TypeOK
  <2>3. rq[r].op = "put" /\ SlotOK(r)
    BY <1>1, BusySlot DEF SlotOK
  <2>4. TypeOK'
    <3>1. pc' \in [Requests -> Steps \cup {"idle"}]
      BY <1>4, <2>1 DEF GoTo, TypeOK, Steps
    <3>2. \A x \in Requests : pc'[x] = "idle" <=> rq'[x] = Null
      BY <1>1, <2>1, <2>2 DEF TypeOK
    <3>3. QED
      BY <1>2, <2>1, <2>2, <3>1, <3>2 DEF TypeOK
  <2>5. SlotsOK'
    <3>1. SUFFICES ASSUME NEW x \in Requests, pc'[x] # "idle" PROVE SlotOK(x)'
      BY DEF SlotsOK
    <3>2. pc[x] # "idle" /\ SlotOK(x)
      BY <1>1, <2>2, <3>1, BusySlot
    <3>3. CASE x = r
      BY <1>1, <1>2, <2>1, <2>2, <2>3, <3>3 DEF SlotOK
    <3>4. CASE x # r
      BY <1>2, <2>1, <2>2, <3>2, <3>4 DEF SlotOK
    <3>5. QED
      BY <3>3, <3>4
  <2>6. OwnOK'
    BY <2>2 DEF IInv, OwnOK, Named
  <2>7. ReplyShowsUpdate'
    BY <2>1, <2>2 DEF IInv, ReplyShowsUpdate, user_id
  <2>8. RowsKeepPassword' /\ SessionsProvePassword'
    BY <1>2, <2>1 DEF IInv, RowsKeepPassword, SessionsProvePassword
  <2>9. QED
    BY <2>4, <2>5, <2>6, <2>7, <2>8 DEF IInv
<1>5. QED
  BY <1>1, <1>3, <1>4 DEF Authenticate

\* What the UPDATE does to a row: the fields of the body, and no other.
LEMMA UpdatedRow ==
    ASSUME NEW prefs \in [Fields -> BOOLEAN], NEW set \in Updates
    PROVE  /\ Updated(prefs, set) \in [Fields -> BOOLEAN]
           /\ \A f \in Named(set) : Updated(prefs, set)[f] = set[f]
           /\ \A f \in Fields \ Named(set) : Updated(prefs, set)[f] = prefs[f]
<1>1. \A f \in Fields : prefs[f] \in BOOLEAN
  OBVIOUS
<1>2. \A f \in Fields : set[f] # Null => set[f] \in BOOLEAN
  BY Zenon DEF Updates
<1>3. Updated(prefs, set) \in [Fields -> BOOLEAN]
  BY <1>1, <1>2 DEF Updated
<1>4. QED
  BY <1>3 DEF Updated, Named

\* The UPDATE changes the row of the request's own account; a put of the same
\* account loses the fields that were written over.
LEMMA PutUpdateStep ==
    ASSUME IInv, NEW r \in Requests, PutUpdate(r)
    PROVE  IInv'
<1> DEFINE e == user_id(r)
           set == rq[r].set
           row == [users[e] EXCEPT !.prefs = Updated(users[e].prefs, set)]
<1>1. /\ TypeOK /\ pc[r] = "put_update"
      /\ users' = [users EXCEPT ![e] = row]
      /\ own' = [x \in Requests |->
                     IF x = r THEN Named(set)
                     ELSE IF own[x] # {} /\ user_id(x) = e THEN own[x] \ Named(set) ELSE own[x]]
      /\ GoTo(r, "get_auth", rq[r])
      /\ UNCHANGED <<sessions, now, registered, proof>>
  BY DEF IInv, PutUpdate, At
<1>2. /\ rq[r] \in Request /\ SlotOK(r) /\ rq[r].op = "put" /\ set \in Updates
      /\ rq[r].token \in DOMAIN sessions
      /\ pc[r] # "idle"
  <2>1. rq[r] \in Request /\ SlotOK(r)
    BY <1>1, BusySlot
  <2>2. rq[r].op = "put" /\ rq[r].token \in DOMAIN sessions
    BY <1>1, <2>1 DEF SlotOK
  <2>3. QED
    BY <1>1, <2>1, <2>2, RequestFields
<1>3. e \in Emails /\ users[e] \in User /\ users[e] # Null
  BY <1>1, <1>2, SessionFields, SessionHasUser DEF user_id
<1>4. /\ row \in User /\ row # Null
      /\ row.password = users[e].password
      /\ row.prefs = Updated(users[e].prefs, set)
  <2>1. users[e].prefs \in [Fields -> BOOLEAN] /\ users[e].password \in Passwords \ TooShort
    BY <1>3 DEF User
  <2>2. Updated(users[e].prefs, set) \in [Fields -> BOOLEAN]
    BY <1>2, <2>1, UpdatedRow
  <2>3. /\ row \in User
        /\ row.password = users[e].password
        /\ row.prefs = Updated(users[e].prefs, set)
    BY <1>3, <2>1, <2>2 DEF User
  <2>4. QED
    BY <2>3, NullIsFresh
<1>5. /\ \A f \in Named(set) : row.prefs[f] = set[f]
      /\ \A f \in Fields \ Named(set) : row.prefs[f] = users[e].prefs[f]
  <2>1. users[e].prefs \in [Fields -> BOOLEAN]
    BY <1>3 DEF User
  <2>2. QED
    BY <1>2, <1>4, <2>1, UpdatedRow
<1> HIDE DEF row, e, set
<1>6. /\ users'[e] = row
      /\ \A x \in Emails : x # e => users'[x] = users[x]
      /\ pc'[r] = "get_auth" /\ rq' = rq
      /\ \A x \in Requests : x # r => pc'[x] = pc[x]
  BY <1>1, <1>3 DEF TypeOK, GoTo
<1>7. /\ own'[r] = Named(set)
      /\ \A x \in Requests : x # r => own'[x] \subseteq own[x]
      /\ \A x \in Requests : x # r /\ own[x] # {} /\ user_id(x) = e
                             => own'[x] \cap Named(set) = {}
  BY <1>1
<1>8. TypeOK'
  <2>1. users' \in [Emails -> User \cup {Null}]
    BY <1>1, <1>3, <1>4 DEF TypeOK
  <2>2. pc' \in [Requests -> Steps \cup {"idle"}]
    BY <1>1 DEF TypeOK, GoTo, Steps
  <2>3. own' \in [Requests -> SUBSET Fields]
    BY <1>1 DEF TypeOK, Named
  <2>4. \A x \in Requests : pc'[x] = "idle" <=> rq'[x] = Null
    BY <1>1, <1>2, <1>6 DEF TypeOK
  <2>5. QED
    BY <1>1, <1>6, <2>1, <2>2, <2>3, <2>4 DEF TypeOK
<1>9. RowsKeepPassword'
  <2>1. SUFFICES ASSUME NEW x \in Emails
                 PROVE  /\ users'[x] = Null <=> registered[x] = Null
                        /\ users'[x] # Null => users'[x].password = registered[x]
    BY <1>1 DEF RowsKeepPassword
  <2>2. /\ users[x] = Null <=> registered[x] = Null
        /\ users[x] # Null => users[x].password = registered[x]
    BY DEF IInv, RowsKeepPassword
  <2>3. QED
    BY <1>3, <1>4, <1>6, <2>2
<1>10. SessionsProvePassword'
  BY <1>1 DEF IInv, SessionsProvePassword
<1>11. SlotsOK'
  <2>1. SUFFICES ASSUME NEW x \in Requests, pc'[x] # "idle" PROVE SlotOK(x)'
    BY DEF SlotsOK
  <2>2. CASE x = r
    BY <1>1, <1>2, <1>6, <2>2 DEF SlotOK
  <2>3. CASE x # r
    <3>1. pc'[x] = pc[x] /\ SlotOK(x)
      BY <1>6, <2>1, <2>3, BusySlot
    <3>2. QED
      BY <1>1, <1>6, <3>1 DEF SlotOK
  <2>4. QED
    BY <2>2, <2>3
<1>12. OwnOK'
  <2>1. SUFFICES ASSUME NEW x \in Requests, own'[x] # {}
                 PROVE  /\ pc'[x] \in {"get_auth", "get_select"}
                        /\ rq[x].op = "put"
                        /\ own'[x] \subseteq Named(rq[x].set)
    BY <1>6 DEF OwnOK, Named
  <2>2. CASE x = r
    BY <1>2, <1>6, <1>7, <2>2 DEF set
  <2>3. CASE x # r
    BY <1>6, <1>7, <2>1, <2>3 DEF IInv, OwnOK
  <2>4. QED
    BY <2>2, <2>3
<1>13. ReplyShowsUpdate'
  <2>1. SUFFICES ASSUME NEW x \in Requests, NEW f \in own'[x]
                 PROVE  users'[user_id(x)].prefs[f] = rq[x].set[f]
    BY <1>1, <1>6 DEF ReplyShowsUpdate, user_id
  <2>2. CASE x = r
    BY <1>5, <1>6, <1>7, <2>1, <2>2 DEF e, set
  <2>3. CASE x # r
    <3>1. f \in own[x] /\ own[x] # {} /\ f \in Fields
      BY <1>1, <1>7, <2>1, <2>3 DEF TypeOK
    <3>2. rq[x].token \in DOMAIN sessions
      BY <3>1, BusySlot DEF IInv, OwnOK, SlotOK
    <3>3. user_id(x) \in Emails
      BY <1>1, <3>2, SessionFields DEF user_id
    <3>4. users[user_id(x)].prefs[f] = rq[x].set[f]
      BY <3>1 DEF IInv, ReplyShowsUpdate
    <3>5. CASE user_id(x) = e
      <4>1. f \notin Named(set)
        BY <1>7, <2>1, <2>3, <3>1, <3>5
      <4>2. QED
        BY <1>5, <1>6, <3>1, <3>4, <3>5, <4>1
    <3>6. CASE user_id(x) # e
      BY <1>6, <3>3, <3>4, <3>6
    <3>7. QED
      BY <3>5, <3>6
  <2>4. QED
    BY <2>2, <2>3
<1>14. QED
  BY <1>8, <1>9, <1>10, <1>11, <1>12, <1>13 DEF IInv

\* Time passes, or nothing happens.
LEMMA TickStep ==
    ASSUME IInv, Tick \/ UNCHANGED vars
    PROVE  IInv'
<1>1. UNCHANGED <<tables, pc, rq, history>>
  BY DEF Tick, vars
<1>2. now' \in 0..MaxTime
  BY AccountConstants DEF IInv, TypeOK, Tick, vars
<1>3. TypeOK'
  BY <1>1, <1>2 DEF IInv, TypeOK, tables, history
<1>4. QED
  BY <1>1, <1>3 DEF IInv, RowsKeepPassword, SlotsOK, SlotOK, OwnOK, Named,
                    SessionsProvePassword, ReplyShowsUpdate, user_id, tables, history

\* Every step keeps the invariant.
LEMMA IInvStep == IInv /\ [Next]_vars => IInv'
<1> SUFFICES ASSUME IInv, [Next]_vars PROVE IInv'
  OBVIOUS
<1>1. ASSUME NEW r \in Requests, GetSelect(r) \/ Abort(r) PROVE IInv'
  BY <1>1, ReturnStep DEF GetSelect, Abort
<1>2. QED
  BY <1>1, RegisterStep, LoginSelectStep, LoginTotpStep, MintStep, AuthenticateStep,
     GetAuthStep, PutUpdateStep, TickStep DEF Next

\* Nobody is registered and no request is served.
LEMMA InitInv == Init => IInv
<1> SUFFICES ASSUME Init PROVE IInv
  OBVIOUS
<1>1. \E n \in 0..MaxSessions : sessions \in [1..n -> Session]
  <2>1. 0 \in 0..MaxSessions
    BY AccountConstants
  <2>2. sessions \in [1..0 -> Session]
    BY DEF Init
  <2>3. QED
    BY <2>1, <2>2
<1>2. DOMAIN sessions = {} /\ proof \in [DOMAIN sessions -> Passwords]
  BY DEF Init
<1>3. TypeOK
  BY <1>1, <1>2, AccountConstants DEF Init, TypeOK
<1>4. QED
  BY <1>2, <1>3 DEF Init, IInv, RowsKeepPassword, SlotsOK, OwnOK, SessionsProvePassword,
                    ReplyShowsUpdate

-----------------------------------------------------------------------------
(* Theorems *)

\* The invariant holds in every reachable state.
THEOREM Invariance == Spec => []IInv
BY InitInv, IInvStep, PTL DEF Spec

\* Rows, tokens and requests in flight keep their types.
THEOREM TypeCorrect == Spec => []TypeOK
<1>1. IInv => TypeOK
  BY DEF IInv
<1>2. QED
  BY <1>1, Invariance, PTL

\* register and login: no session is opened with another password than the one
\* the account was first registered with, however addresses are spelled.
THEOREM NoTakeover == Spec => []SessionsProvePassword
<1>1. IInv => SessionsProvePassword
  BY DEF IInv
<1>2. QED
  BY <1>1, Invariance, PTL

\* put_prefs: its answer shows what it wrote, save what another put of the same
\* account has written since.
THEOREM UpdatesShow == Spec => []ReplyShowsUpdate
<1>1. IInv => ReplyShowsUpdate
  BY DEF IInv
<1>2. QED
  BY <1>1, Invariance, PTL

\* put_prefs: the second authed_user refuses what the first one let through only
\* because the session has run out in between.
THEOREM RefusalMeansExpiry == Spec => RefusedAfterUpdate
<1>1. ASSUME IInv, NEW r \in Requests, GetAuth(r), rq[r].set # NoFields, pc'[r] = "idle"
      PROVE  LET end == sessions[rq[r].token].expires_at
             IN  rq[r].since < end /\ end <= now
  <2>1. /\ TypeOK /\ pc[r] = "get_auth"
        /\ rq[r].op = "put" /\ rq[r].token \in DOMAIN sessions
        /\ rq[r].since < sessions[rq[r].token].expires_at
    BY <1>1, BusySlot DEF IInv, SlotOK, GetAuth, At
  <2>2. ~Authed(rq[r].token)
    <3>1. SUFFICES ASSUME Authed(rq[r].token) PROVE FALSE
      OBVIOUS
    <3>2. GoTo(r, "get_select", rq[r])
      BY <1>1, <3>1 DEF GetAuth, Authenticate
    <3>3. pc'[r] = "get_select"
      BY <2>1, <3>2 DEF GoTo, TypeOK
    <3>4. QED
      BY <1>1, <3>3
  <2>3. QED
    BY <2>1, <2>2 DEF Authed, expires_in_past_secs
<1>2. IInv => [\A r \in Requests :
                 GetAuth(r) /\ rq[r].set # NoFields /\ pc'[r] = "idle"
                 => LET end == sessions[rq[r].token].expires_at
                    IN  rq[r].since < end /\ end <= now]_vars
  BY <1>1
<1>3. QED
  BY <1>2, Invariance, PTL DEF RefusedAfterUpdate
=============================================================================
