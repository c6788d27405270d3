------------------------------- MODULE Account -------------------------------
(***************************************************************************)
(* Registration, login without a second factor, bearer sessions and the    *)
(* e-mail preferences: src/src/routes/auth.rs and src/src/routes/          *)
(* account.rs over the tables users and sessions.  Accounts are never      *)
(* deleted and e-mails never change, so the folded e-mail stands for the   *)
(* row id.  pref_security_events is never written and left out.  A step is *)
(* one statement with the code up to the next; the first comes with the    *)
(* arrival of the request.  `pc' names the statement to come; a handler    *)
(* that returns frees its slot, and its status follows from the branch.    *)
(***************************************************************************)
EXTENDS Naturals, Sequences

CONSTANTS
    Requests,           \* concurrently served requests (slots, reused)
    Addresses,          \* e-mails as clients spell them
    Implausible,        \* those that is_plausible_email refuses
    to_lowercase(_),
    Passwords,
    TooShort,           \* those of fewer than MIN_PASSWORD_LEN bytes
    SESSION_TTL_SECS,
    MaxTime,            \* bound: the clock stops here
    MaxSessions,        \* bound: sessions minted
    Null

ASSUME AccountConstants == /\ Implausible \subseteq Addresses
                           /\ TooShort \subseteq Passwords
                           /\ Null \notin Passwords
                           /\ SESSION_TTL_SECS \in Nat \ {0}
                           /\ MaxTime \in Nat /\ MaxSessions \in Nat

VARIABLES
    users,              \* e-mail -> row of the table, or Null
    sessions,           \* token -> row of the table, for the tokens minted
    now,                \* now_unix(); the host's clock does not run backwards
    pc, rq,             \* per request: statement to come, arguments
    \* history
    registered,         \* e-mail -> password of the first 201, or Null
    proof,              \* token -> the password its login was accepted with
    own                 \* per put_prefs: fields it wrote and no other put since

tables  == <<users, sessions>>
history == <<registered, proof, own>>
vars    == <<tables, now, pc, rq, history>>

-----------------------------------------------------------------------------
(* Types *)

Emails == {to_lowercase(a) : a \in Addresses}

Fields == {"profile_activity", "product_updates"}

\* No row has a password that hash_password refuses.
User == [password : Passwords \ TooShort, prefs : [Fields -> BOOLEAN]]

Tokens == 1..MaxSessions

Session == [user : Emails, expires_at : Nat]

\* EmailPreferencesUpdate: a field that is not in the body is Null.
Updates == [Fields -> {TRUE, FALSE, Null}]

\* `since' is the time of put_prefs' first authentication.
Request == [op : {"login"}, user : Emails, password : Passwords]
           \cup [op : {"get"}, token : Tokens]
           \cup [op : {"put"}, token : Tokens, set : Updates, since : Nat]

\* Null is the absence of a row and of a request.
ASSUME NullIsFresh == Null \notin User /\ Null \notin Request

Steps == {"login_totp", "mint", "put_update", "get_auth", "get_select"}

\* One conjunct per variable; a busy slot has its arguments, and every session
\* the password it was opened with.
TypeOK ==
    /\ users \in [Emails -> User \cup {Null}]
    /\ \E n \in 0..MaxSessions : sessions \in [1..n -> Session]
    /\ now \in 0..MaxTime
    /\ pc \in [Requests -> Steps \cup {"idle"}]
    /\ rq \in [Requests -> Request \cup {Null}]
    /\ \A r \in Requests : pc[r] = "idle" <=> rq[r] = Null
    /\ registered \in [Emails -> Passwords \cup {Null}]
    /\ proof \in [DOMAIN sessions -> Passwords]
    /\ own \in [Requests -> SUBSET Fields]

Init ==
    /\ users = [e \in Emails |-> Null]
    /\ sessions = <<>>
    /\ now = 0
    /\ pc = [r \in Requests |-> "idle"]
    /\ rq = [r \in Requests |-> Null]
    /\ registered = [e \in Emails |-> Null]
    /\ proof = <<>>
    /\ own = [r \in Requests |-> {}]

-----------------------------------------------------------------------------
(* Control *)

At(r, step) == pc[r] = step

GoTo(r, step, args) ==
    /\ pc' = [pc EXCEPT ![r] = step]
    /\ rq' = [rq EXCEPT ![r] = args]

Return(r) ==
    /\ pc' = [pc EXCEPT ![r] = "idle"]
    /\ rq' = [rq EXCEPT ![r] = Null]
    /\ own' = [own EXCEPT ![r] = {}]

-----------------------------------------------------------------------------
(* register *)

\* Mutant: the length of the password is not looked at.
hash_password_any(p) == TRUE

\* hash_password counts bytes; the hash is a name for the password.
hash_password_ok(p) == p \notin TooShort
verify_password(p, stored_hash) == p = stored_hash

\* Mutant: INSERT OR REPLACE.
RegisterStatusReplace(a, p) ==
    IF a \in Implausible \/ ~hash_password_ok(p) THEN 400 ELSE 201

\* The checks of the body, hash_password, then the UNIQUE column, NOCASE.
RegisterStatus(a, p) ==
    IF a \in Implausible \/ ~hash_password_ok(p) THEN 400
    ELSE IF users[to_lowercase(a)] # Null THEN 409 ELSE 201

\* INSERT INTO users, with the defaults of the schema.  The only await of the
\* handler: arrival and statement are one step.
Register(r) ==
    /\ At(r, "idle")
    /\ \E a \in Addresses, p \in Passwords :
          LET e == to_lowercase(a) IN
          IF RegisterStatus(a, p) = 201
          THEN /\ users' = [users EXCEPT ![e] =
                     [password |-> p,
                      prefs |-> [f \in Fields |-> f = "profile_activity"]]]
               /\ registered' = [registered EXCEPT ![e] = IF @ = Null THEN p ELSE @]
          ELSE UNCHANGED <<users, registered>>
    /\ UNCHANGED <<sessions, now, pc, rq, proof, own>>

-----------------------------------------------------------------------------
(* login, mint_session_response *)

\* SELECT the user and verify the password.
LoginSelect(r) ==
    /\ At(r, "idle")
    /\ \E a \in Addresses, p \in Passwords :
          LET e == to_lowercase(a) IN
          IF users[e] # Null /\ verify_password(p, users[e].password)
          THEN GoTo(r, "login_totp", [op |-> "login", user |-> e, password |-> p]) /\ UNCHANGED own
          ELSE Return(r)
    /\ UNCHANGED <<tables, now, registered, proof>>

\* SELECT the TOTP secret.  That none is active is this module's scope
\* (TwoFactor has the other case).
LoginTotp(r) ==
    /\ At(r, "login_totp")
    /\ GoTo(r, "mint", rq[r])
    /\ UNCHANGED <<tables, now, history>>

\* INSERT INTO sessions
Mint(r) ==
    /\ At(r, "mint")
    /\ Len(sessions) < MaxSessions
    /\ sessions' = Append(sessions, [user |-> rq[r].user, expires_at |-> now + SESSION_TTL_SECS])
    /\ proof' = Append(proof, rq[r].password)
    /\ Return(r)
    /\ UNCHANGED <<users, now, registered>>

-----------------------------------------------------------------------------
(* authed_user *)

\* Mutant: the session ends a second early.
ExpiresEarly(expires_at) == expires_at <= now + 1

expires_in_past_secs(expires_at) == expires_at <= now

Authed(token) == /\ token \in DOMAIN sessions
                 /\ ~expires_in_past_secs(sessions[token].expires_at)

\* One SELECT, on every call.
Authenticate(r, next, args) ==
    /\ IF Authed(args.token) THEN GoTo(r, next, args) /\ UNCHANGED own ELSE Return(r)
    /\ UNCHANGED <<tables, now, registered, proof>>

\* The account of an authenticated request.
user_id(r) == sessions[rq[r].token].user

\* Tokens a client may present; 0 is one the server never issued.
Offered == 0..Len(sessions)

-----------------------------------------------------------------------------
(* get_prefs, put_prefs *)

NoFields == [f \in Fields |-> Null]

GetStart(r) ==
    /\ At(r, "idle")
    /\ \E t \in Offered : Authenticate(r, "get_select", [op |-> "get", token |-> t])

\* get_prefs called by put_prefs.
GetAuth(r) == At(r, "get_auth") /\ Authenticate(r, "get_select", rq[r])

\* SELECT the preferences and send them.
GetSelect(r) ==
    /\ At(r, "get_select")
    /\ Return(r)
    /\ UNCHANGED <<tables, now, registered, proof>>

\* An empty body goes on to get_prefs, which authenticates again.
PutStart(r) ==
    /\ At(r, "idle")
    /\ \E t \in Offered, u \in Updates :
          Authenticate(r, IF u = NoFields THEN "get_auth" ELSE "put_update",
                       [op |-> "put", token |-> t, set |-> u, since |-> now])

\* Mutant: fields that are not in the body are switched off.
UpdatedAll(prefs, set) == [f \in Fields |-> set[f] = TRUE]

\* The columns that the UPDATE names are those of the body.
Updated(prefs, set) == [f \in Fields |-> IF set[f] = Null THEN prefs[f] ELSE set[f]]

Named(set) == {f \in Fields : set[f] # Null}

\* UPDATE users ... WHERE id, then get_prefs.
PutUpdate(r) ==
    /\ At(r, "put_update")
    /\ users' = [users EXCEPT ![user_id(r)].prefs = Updated(@, rq[r].set)]
    /\ own' = [x \in Requests |->
                  IF x = r THEN Named(rq[r].set)
                  ELSE IF own[x] # {} /\ user_id(x) = user_id(r)
                       THEN own[x] \ Named(rq[r].set) ELSE own[x]]
    /\ GoTo(r, "get_auth", rq[r])
    /\ UNCHANGED <<sessions, now, registered, proof>>

-----------------------------------------------------------------------------
(* Environment *)

\* A statement fails (500, or 401 in authed_user), or the client has left.
Abort(r) ==
    /\ ~At(r, "idle")
    /\ Return(r)
    /\ UNCHANGED <<tables, now, registered, proof>>

Tick ==
    /\ now < MaxTime
    /\ now' = now + 1
    /\ UNCHANGED <<tables, pc, rq, history>>

-----------------------------------------------------------------------------
(* Specification *)

Next ==
    \/ \E r \in Requests :
          \/ Register(r) \/ LoginSelect(r) \/ LoginTotp(r) \/ Mint(r)
          \/ GetStart(r) \/ GetAuth(r) \/ GetSelect(r)
          \/ PutStart(r) \/ PutUpdate(r)
          \/ Abort(r)
    \/ Tick

Spec == Init /\ [][Next]_vars

-----------------------------------------------------------------------------
(* Properties *)

\* Every session was opened with the password that the account was first
\* registered with: a later registration under another spelling of the address
\* does not take the account over.
SessionsProvePassword ==
    \A t \in DOMAIN sessions : proof[t] = registered[sessions[t].user]

\* What put_prefs is going to answer shows the fields it wrote, save those that
\* another put of the account has written since: a put of other fields, or of
\* another account, does not undo them.
ReplyShowsUpdate ==
    \A r \in Requests : \A f \in own[r] : users[user_id(r)].prefs[f] = rq[r].set[f]

\* A put_prefs that is refused after it has written (it authenticates a second
\* time), without a failed statement, has outlived its session: the session was
\* good at the first authentication and has run out since.  (An empty body
\* writes nothing.)
RefusedAfterUpdate ==
    [][\A r \in Requests :
          GetAuth(r) /\ rq[r].set # NoFields /\ pc'[r] = "idle"
          => LET end == sessions[rq[r].token].expires_at
             IN  rq[r].since < end /\ end <= now]_vars
=============================================================================
