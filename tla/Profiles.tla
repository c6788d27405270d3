------------------------------ MODULE Profiles ------------------------------
(***************************************************************************)
(* The profile endpoints of the server (src/src/routes/profiles.rs) over   *)
(* its SQLite database (src/src/db/mod.rs, migrations/0003_profiles.sql).  *)
(*                                                                         *)
(* Every SQL statement of a handler is an await: between two statements of *)
(* one request any statement of another request may run.  A step of this   *)
(* module is therefore one statement together with the straight-line code  *)
(* that follows it.  `pc' names the statement a request is about to issue. *)
(*                                                                         *)
(* SQLite is external.  What the handlers rely on is modelled: the locks   *)
(* of the rollback journal (many SHARED, one RESERVED, and the pending     *)
(* EXCLUSIVE of a commit, which keeps new readers out and waits for the    *)
(* old ones) and the pool of connections.  A transaction keeps SHARED from *)
(* its first SELECT to its end; a statement outside a transaction is a     *)
(* transaction of its own.                                                 *)
(***************************************************************************)
EXTENDS Naturals, Sequences, FiniteSets

CONSTANTS
    Requests,         \* concurrently served requests (slots, reused)
    Users,            \* accounts; a request carries the one it authenticates as
    Aliases,          \* well-formed aliases, up to letter case (NOCASE)
    Bodies,           \* request bodies of PUT
    BodyLen,          \* BodyLen[b]: length of body b
    ExpectedVersions, \* values of the query parameter expected_version
    BlobMaxBytes,     \* ProfileLimits.blob_max_bytes
    MaxAliasesFree,   \* ProfileLimits.max_aliases_free
    PoolSize,         \* max_connections of the pool
    MaxRowId,         \* SQLite's largest rowid: AUTOINCREMENT fails beyond it
    Null

ASSUME RequestsFinite  == IsFiniteSet(Requests) /\ Requests # {}
ASSUME AliasesFinite   == IsFiniteSet(Aliases)
ASSUME BodyLenType     == BodyLen \in [Bodies -> Nat]
ASSUME VersionsAreNats == ExpectedVersions \subseteq Nat
ASSUME LimitsType      == /\ BlobMaxBytes \in Nat
                          /\ MaxAliasesFree \in Nat
                          /\ MaxRowId \in Nat
                          /\ PoolSize \in Nat \ {0}

VARIABLES
    profiles,   \* the table: profiles[a] is the row of alias a, or Null
    next_id,    \* AUTOINCREMENT: the next rowid; ids are never reused
    pc,         \* pc[r]: the statement request r is about to issue
    rq,         \* rq[r]: the arguments of the request being served
    txn,        \* txn[r]: `pid' and `current' read by put_blob
    conn,       \* requests that hold a connection of the pool
    answer,     \* the response sent by the last step, Null if it sent none
    acked       \* history: acked[a] is the bodies of the PUTs answered 200 since
                \* alias a was last created, in order

vars == <<profiles, next_id, pc, rq, txn, conn, answer, acked>>

-----------------------------------------------------------------------------
(* Types *)

RowIds == 1..MaxRowId

Row == [id : RowIds, user : Users, version : Nat, blob : Bodies \cup {Null}]

\* What a client may ask for, as the handlers see it.
Request ==
    [op : {"list"}, user : Users, alias : {Null}, body : {Null}, expected : {Null}]
    \cup [op : {"get", "create", "delete"}, user : Users, alias : Aliases,
          body : {Null}, expected : {Null}]
    \cup [op : {"put"}, user : Users, alias : Aliases,
          body : {b \in Bodies : BodyLen[b] <= BlobMaxBytes}, expected : ExpectedVersions]

\* The statements of a PUT that run inside its transaction.
PutTx == {"put_update", "put_created", "put_commit", "put_flush"}

\* The statements of each handler, the one it begins with first.
FirstStep(op) ==
    CASE op = "list"   -> "list_select"
      [] op = "get"    -> "get_select"
      [] op = "create" -> "create_count"
      [] op = "put"    -> "put_select"
      [] op = "delete" -> "delete_select"

LaterSteps(op) ==
    CASE op = "create" -> {"create_insert", "create_flush"}
      [] op = "put"    -> PutTx
      [] op = "delete" -> {"delete_exec", "delete_flush"}
      [] OTHER         -> {}

Steps == {"list_select", "get_select", "create_count", "create_insert", "create_flush",
          "put_select", "delete_select", "delete_exec", "delete_flush"} \cup PutTx

Statuses == {"created", "ok", "unauthorized", "invalid", "forbidden", "not_found",
             "no_blob", "conflict", "too_large", "server_error", "dropped"}

\* What the store of BlobStore shows of a row.
Visible(row) == IF row = Null THEN Null
                ELSE [user |-> row.user, version |-> row.version, blob |-> row.blob]

ASSUME NullIsFresh ==
    /\ Null \notin Bodies \cup Row \cup Request
    /\ Null \notin [pid : RowIds, current : Nat]
    /\ Null \notin [user : Users, version : Nat, blob : Bodies \cup {Null}]

\* One conjunct per variable; a busy slot runs a statement of its operation,
\* and a PUT inside its transaction has read a row.
TypeOK ==
    /\ profiles \in [Aliases -> Row \cup {Null}]
    /\ next_id \in 1..(MaxRowId + 1)
    /\ pc \in [Requests -> Steps \cup {"idle"}]
    /\ rq \in [Requests -> Request \cup {Null}]
    /\ txn \in [Requests -> [pid : RowIds, current : Nat] \cup {Null}]
    /\ conn \subseteq Requests
    /\ answer \in [to : Requests, status : Statuses] \cup {Null}
    /\ acked \in [Aliases -> Seq(Bodies)]
    /\ \A r \in Requests :
        /\ pc[r] = "idle" <=> rq[r] = Null
        /\ pc[r] # "idle" => pc[r] \in {FirstStep(rq[r].op)} \cup LaterSteps(rq[r].op)
        /\ pc[r] \in PutTx => txn[r] # Null

Init ==
    /\ profiles = [a \in Aliases |-> Null]
    /\ next_id = 1
    /\ pc = [r \in Requests |-> "idle"]
    /\ rq = [r \in Requests |-> Null]
    /\ txn = [r \in Requests |-> Null]
    /\ conn = {}
    /\ answer = Null
    /\ acked = [a \in Aliases |-> <<>>]

-----------------------------------------------------------------------------
(* Locks and connections *)

\* Mutant: the SELECT runs on the pool instead of on `&mut *tx'.
InTxAfterSelect == {r \in Requests : pc[r] \in PutTx \ {"put_update"}}

\* Requests inside a transaction: they hold SHARED.
InTx == {r \in Requests : pc[r] \in PutTx}

\* Requests whose statement is done but for the write to the file: they hold
\* PENDING and wait for EXCLUSIVE.
Flushing == {r \in Requests : pc[r] \in {"create_flush", "put_flush", "delete_flush"}}

\* Requests that hold RESERVED.
Writers == Flushing \cup {r \in Requests : pc[r] \in {"put_created", "put_commit"}}

\* Request r holds a connection and may take SHARED.
CanRead(r) == r \in conn /\ Flushing = {}

\* A write outside a transaction waits (busy timeout) until RESERVED is free.
CanWrite(r) == r \in conn /\ Writers = {}

\* EXCLUSIVE: every other transaction has ended.
CanFlush(r) == InTx \ {r} = {}

-----------------------------------------------------------------------------
(* The ways a statement of a request can end *)

\* The handler returns a response; its connection goes back to the pool and
\* an open transaction is rolled back.
Answer(r, status) ==
    /\ pc' = [pc EXCEPT ![r] = "idle"]
    /\ rq' = [rq EXCEPT ![r] = Null]
    /\ txn' = [txn EXCEPT ![r] = Null]
    /\ conn' = conn \ {r}
    /\ answer' = [to |-> r, status |-> status]

\* The handler goes on to its next statement, inside the same transaction or
\* the same statement's commit: the connection is kept.
GoOn(r, next) ==
    /\ pc' = [pc EXCEPT ![r] = next]
    /\ answer' = Null
    /\ UNCHANGED <<rq, txn, conn>>

\* The statement ended and gave its connection back.
GoOnUnpooled(r, next) ==
    /\ pc' = [pc EXCEPT ![r] = next]
    /\ conn' = conn \ {r}
    /\ answer' = Null
    /\ UNCHANGED <<rq, txn>>

TableUnchanged == UNCHANGED <<profiles, next_id, acked>>

\* state.db.pool(): a request takes a connection for its next statement.
Acquire(r) ==
    /\ pc[r] # "idle"
    /\ r \notin conn
    /\ Cardinality(conn) < PoolSize
    /\ conn' = conn \cup {r}
    /\ answer' = Null
    /\ UNCHANGED <<pc, rq, txn>>
    /\ TableUnchanged

-----------------------------------------------------------------------------
(* Arrival: extractors, authed_user and the checks made before any statement *)

Arrive(r, request) ==
    /\ pc[r] = "idle"
    /\ pc' = [pc EXCEPT ![r] = FirstStep(request.op)]
    /\ rq' = [rq EXCEPT ![r] = request]
    /\ answer' = Null
    /\ UNCHANGED <<txn, conn>>
    /\ TableUnchanged

\* A well-formed request of an authenticated user; a PUT's body is not too long.
Start(r) == \E request \in Request : Arrive(r, request)

\* No valid session (or its lookup failed): 401.  Malformed alias, query or
\* JSON: 400.  The body of a PUT is longer than the limit: 413.  The table is
\* not consulted.
Refuse(r) ==
    /\ pc[r] = "idle"
    /\ \E status \in {"unauthorized", "invalid"}
             \cup {"too_large" : b \in {x \in Bodies : BodyLen[x] > BlobMaxBytes}} :
          answer' = [to |-> r, status |-> status]
    /\ UNCHANGED <<pc, rq, txn, conn>>
    /\ TableUnchanged

-----------------------------------------------------------------------------
(* list, get_blob: one SELECT *)

ListSelect(r) ==
    /\ pc[r] = "list_select"
    /\ CanRead(r)
    /\ Answer(r, "ok")
    /\ TableUnchanged

\* SELECT ... WHERE alias, then the owner check all handlers of an alias make.
LookupStatus(user, row) ==
    IF row = Null THEN "not_found" ELSE IF row.user # user THEN "forbidden" ELSE "ok"

\* A NULL or an empty blob is a 404 of its own.
GetStatus(user, row) ==
    IF LookupStatus(user, row) = "ok" /\ (row.blob = Null \/ BodyLen[row.blob] = 0)
    THEN "no_blob" ELSE LookupStatus(user, row)

GetSelect(r) ==
    /\ pc[r] = "get_select"
    /\ CanRead(r)
    /\ Answer(r, GetStatus(rq[r].user, profiles[rq[r].alias]))
    /\ TableUnchanged

-----------------------------------------------------------------------------
(* create: count, compare with the quota, insert; not one transaction *)

Owned(u) == {a \in Aliases : profiles[a] # Null /\ profiles[a].user = u}

\* Mutant: off by one.
QuotaExceeded(u) == Cardinality(Owned(u)) > MaxAliasesFree

QuotaReached(u) == Cardinality(Owned(u)) >= MaxAliasesFree

CreateCount(r) ==
    /\ pc[r] = "create_count"
    /\ CanRead(r)
    /\ IF QuotaReached(rq[r].user)
       THEN Answer(r, "forbidden")
       ELSE GoOnUnpooled(r, "create_insert")
    /\ TableUnchanged

\* Mutant: the error of an exhausted AUTOINCREMENT is not looked at.
InsertStatusUnchecked(a) == IF profiles[a] # Null THEN "conflict" ELSE "created"

\* INSERT: the UNIQUE index on alias refuses a taken one, AUTOINCREMENT an id
\* beyond the largest.
InsertStatus(a) ==
    IF profiles[a] # Null THEN "conflict"
    ELSE IF next_id > MaxRowId THEN "server_error" ELSE "created"

CreateInsert(r) ==
    /\ pc[r] = "create_insert"
    /\ CanWrite(r)
    /\ IF InsertStatus(rq[r].alias) = "created"
       THEN GoOn(r, "create_flush")
       ELSE Answer(r, InsertStatus(rq[r].alias))
    /\ TableUnchanged

CreateFlush(r) ==
    /\ pc[r] = "create_flush"
    /\ CanFlush(r)
    /\ profiles' = [profiles EXCEPT ![rq[r].alias] =
          [id |-> next_id, user |-> rq[r].user, version |-> 0, blob |-> Null]]
    /\ next_id' = next_id + 1
    /\ Answer(r, "created")
    /\ UNCHANGED acked

-----------------------------------------------------------------------------
(* put_blob: SELECT, checks, UPDATE, SELECT, COMMIT in one deferred transaction *)

\* Mutant: expected_version is compared, the owner is not.
PutStatusAnyOwner(q, row) ==
    IF row = Null THEN "not_found"
    ELSE IF row.version # q.expected THEN "conflict" ELSE "ok"

PutStatus(q, row) ==
    IF LookupStatus(q.user, row) = "ok" /\ row.version # q.expected
    THEN "conflict" ELSE LookupStatus(q.user, row)

\* BEGIN takes no lock; the SELECT takes SHARED.  Every early return drops the
\* transaction.
PutSelect(r) ==
    /\ pc[r] = "put_select"
    /\ CanRead(r)
    /\ LET row == profiles[rq[r].alias] IN
       IF PutStatus(rq[r], row) = "ok"
       THEN /\ pc' = [pc EXCEPT ![r] = "put_update"]
            /\ txn' = [txn EXCEPT ![r] = [pid |-> row.id, current |-> row.version]]
            /\ answer' = Null
            /\ UNCHANGED <<rq, conn>>
       ELSE Answer(r, PutStatus(rq[r], row))
    /\ TableUnchanged

\* UPDATE asks for RESERVED while holding SHARED: if another request has it,
\* SQLite answers SQLITE_BUSY at once, without the busy timeout.
PutUpdate(r) ==
    /\ pc[r] = "put_update"
    /\ IF Writers = {}
       THEN GoOn(r, "put_created")
       ELSE Answer(r, "server_error")
    /\ TableUnchanged

\* Mutant: created_at is fetched from the pool, with a second connection.
PutCreatedAtFromPool(r) ==
    /\ pc[r] = "put_created"
    /\ Cardinality(conn) < PoolSize
    /\ GoOn(r, "put_commit")
    /\ TableUnchanged

\* SELECT created_at, on the transaction's own connection.
PutCreatedAt(r) ==
    /\ pc[r] = "put_created"
    /\ GoOn(r, "put_commit")
    /\ TableUnchanged

PutCommit(r) ==
    /\ pc[r] = "put_commit"
    /\ GoOn(r, "put_flush")
    /\ TableUnchanged

\* Mutant: the UPDATE selects the user's rows instead of the one it read.
UpdateMatchesOwner(r, row) == row # Null /\ row.user = rq[r].user

\* UPDATE ... WHERE id = pid
UpdateMatches(r, row) == row # Null /\ row.id = txn[r].pid

\* The update becomes visible with the commit.
PutFlush(r) ==
    /\ pc[r] = "put_flush"
    /\ CanFlush(r)
    /\ profiles' = [a \in Aliases |->
          IF UpdateMatches(r, profiles[a])
          THEN [id |-> profiles[a].id, user |-> profiles[a].user,
                version |-> txn[r].current + 1, blob |-> rq[r].body]
          ELSE profiles[a]]
    /\ acked' = [acked EXCEPT ![rq[r].alias] = Append(@, rq[r].body)]
    /\ Answer(r, "ok")
    /\ UNCHANGED next_id

-----------------------------------------------------------------------------
(* delete: SELECT the owner, then DELETE; not one transaction *)

DeleteSelect(r) ==
    /\ pc[r] = "delete_select"
    /\ CanRead(r)
    /\ LET status == LookupStatus(rq[r].user, profiles[rq[r].alias]) IN
       IF status = "ok" THEN GoOnUnpooled(r, "delete_exec") ELSE Answer(r, status)
    /\ TableUnchanged

\* Mutant: DELETE ... WHERE alias = ?1, relying on the SELECT for the owner.
DeleteMatchesAlias(user, row) == row # Null

\* DELETE ... WHERE alias = ?1 AND user_id = ?2 removes at most one row.
DeleteMatches(user, row) == row # Null /\ row.user = user

\* The row may have gone, or changed hands, since the SELECT: still 200.
DeleteExec(r) ==
    /\ pc[r] = "delete_exec"
    /\ CanWrite(r)
    /\ IF DeleteMatches(rq[r].user, profiles[rq[r].alias])
       THEN GoOn(r, "delete_flush")
       ELSE Answer(r, "ok")
    /\ TableUnchanged

DeleteFlush(r) ==
    /\ pc[r] = "delete_flush"
    /\ CanFlush(r)
    /\ profiles' = [profiles EXCEPT ![rq[r].alias] = Null]
    /\ acked' = [acked EXCEPT ![rq[r].alias] = <<>>]
    /\ Answer(r, "ok")
    /\ UNCHANGED next_id

-----------------------------------------------------------------------------
(* Failures *)

\* A statement fails (I/O, the 5 s busy timeout, the pool's acquire timeout):
\* every handler answers 500 and drops its transaction.
DbError(r) ==
    /\ pc[r] # "idle"
    /\ Answer(r, "server_error")
    /\ TableUnchanged

\* The client goes away: hyper drops the handler's future, wherever it waits,
\* and sqlx rolls its transaction back.  (A statement that completes although
\* its future is gone is the statement's own step with a response nobody reads.)
Disconnect(r) ==
    /\ pc[r] # "idle"
    /\ Answer(r, "dropped")
    /\ TableUnchanged

-----------------------------------------------------------------------------
(* Specification *)

\* The steps the server takes by itself for a request it serves.
Step(r) ==
    \/ Acquire(r)
    \/ ListSelect(r) \/ GetSelect(r)
    \/ CreateCount(r) \/ CreateInsert(r) \/ CreateFlush(r)
    \/ PutSelect(r) \/ PutUpdate(r) \/ PutCreatedAt(r) \/ PutCommit(r) \/ PutFlush(r)
    \/ DeleteSelect(r) \/ DeleteExec(r) \/ DeleteFlush(r)

Next == \E r \in Requests : Start(r) \/ Refuse(r) \/ Step(r) \/ DbError(r) \/ Disconnect(r)

Spec == Init /\ [][Next]_vars

\* The runtime polls every handler that can move; nothing makes a client send
\* a request or leave, or a statement fail or time out.
Fairness == \A r \in Requests : WF_vars(Step(r))

FairSpec == Spec /\ Fairness
-----------------------------------------------------------------------------
(* Properties *)

\* What a handler checked is still true when its write reaches the file.
\* put_blob relies on it from its SELECT to its commit (row, owner and version
\* as read), the INSERT of create and the DELETE of delete while they wait for
\* readers to leave.  No other request may delete, re-create or update the row
\* in between.
ChecksStillHold ==
    /\ \A r \in InTx : LET row == profiles[rq[r].alias] IN
          /\ row # Null
          /\ row.id = txn[r].pid
          /\ row.user = rq[r].user
          /\ row.version = txn[r].current
          /\ txn[r].current = rq[r].expected
    /\ \A r \in Flushing : LET row == profiles[rq[r].alias] IN
          /\ rq[r].op = "create" => row = Null /\ next_id <= MaxRowId
          /\ rq[r].op = "delete" => row # Null /\ row.user = rq[r].user

\* blob_version of a row is the number of PUTs answered 200 for it and its blob
\* is the body of the last one: no acknowledged upload is lost or applied
\* twice, whatever PUTs, deletes, failures, disconnects and retries overlap.
BlobIsLastAcked ==
    \A a \in Aliases : profiles[a] # Null =>
        /\ profiles[a].version = Len(acked[a])
        /\ profiles[a].blob = IF acked[a] = <<>> THEN Null ELSE acked[a][Len(acked[a])]

\* The quota of create is checked before, not with, the INSERT; still no user
\* ever owns more aliases than the quota plus the other requests in flight.
QuotaOvershootBounded ==
    \A u \in Users :
        Cardinality(Owned(u)) <= MaxAliasesFree + Cardinality(Requests) - 1

\* The quota as documented ("Maximum profile aliases per Free account").
QuotaRespected == \A u \in Users : Cardinality(Owned(u)) <= MaxAliasesFree

\* Whenever requests are in flight one of them can take its next step without
\* a timeout: requests that hold a connection or a lock never wait in a circle
\* for connections and locks.
NoWaitCycle == (\E r \in Requests : pc[r] # "idle") => \E r \in Requests : ENABLED Step(r)

\* Every request is served in one step of the abstract store: the requests
\* are linearizable, and their responses are those of the store.
Store == INSTANCE BlobStore WITH
            store <- [a \in Aliases |-> Visible(profiles[a])],
            call  <- rq,
            Calls <- Request

RequestsAreAtomic == Store!Spec

\* get_blob answers "no blob uploaded for this alias yet" only for a row that
\* no PUT has been acknowledged for.
NoBlobMeansNoUpload ==
    [][\A r \in Requests :
          pc[r] = "get_select" /\ answer' = [to |-> r, status |-> "no_blob"]
            => acked[rq[r].alias] = <<>>]_vars

\* A request that holds a database lock gets rid of it although nothing times
\* out: a committing PUT keeps new readers out, and the transactions it waits
\* for end by themselves.
LocksAreReleased ==
    \A r \in Requests : r \in InTx \cup Flushing ~> r \notin InTx \cup Flushing
=============================================================================
