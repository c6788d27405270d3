--------------------------- MODULE ProfilesProofs ---------------------------
(***************************************************************************)
(* Theorems about Profiles, for every set of requests, users, aliases and  *)
(* bodies and every limit that satisfies the assumptions of that module.   *)
(***************************************************************************)
EXTENDS Profiles, FiniteSetTheorems, TLAPS

-----------------------------------------------------------------------------
(* Type correctness *)

\* What a request in flight consists of.
LEMMA RequestFields ==
    ASSUME NEW q \in Request
    PROVE  /\ q.op \in {"list", "get", "create", "put", "delete"}
           /\ q.user \in Users
           /\ q.op # "list" => q.alias \in Aliases
           /\ q.op = "put" => q.body \in Bodies /\ q.expected \in Nat
BY VersionsAreNats DEF Request

\* A request starts with a statement of its operation.
LEMMA FirstStepType ==
    ASSUME NEW q \in Request
    PROVE  FirstStep(q.op) \in Steps
BY RequestFields DEF FirstStep, Steps

\* A slot that runs a statement serves a request of that statement's operation.
LEMMA StepsOfRequest ==
    ASSUME TypeOK, NEW r \in Requests, pc[r] # "idle"
    PROVE  /\ rq[r] \in Request
           /\ pc[r] \in {"create_count", "create_insert", "create_flush"} => rq[r].op = "create"
           /\ pc[r] \in PutTx \cup {"put_select"} => rq[r].op = "put"
           /\ pc[r] \in {"delete_select", "delete_exec", "delete_flush"} => rq[r].op = "delete"
           /\ pc[r] = "list_select" => rq[r].op = "list"
           /\ pc[r] = "get_select" => rq[r].op = "get"
<1>1. rq[r] \in Request
  BY DEF TypeOK
<1>2. pc[r] \in {FirstStep(rq[r].op)} \cup LaterSteps(rq[r].op)
  BY DEF TypeOK
<1>3. rq[r].op \in {"list", "get", "create", "put", "delete"}
  BY <1>1, RequestFields
<1>4. QED
  BY <1>1, <1>2, <1>3 DEF FirstStep, LaterSteps, PutTx

\* Returning a response leaves an idle slot and keeps every other slot.
LEMMA AnswerTypeOK ==
    ASSUME TypeOK, NEW r \in Requests, NEW status \in Statuses, Answer(r, status),
           profiles' \in [Aliases -> Row \cup {Null}],
           next_id' \in 1..(MaxRowId + 1),
           acked' \in [Aliases -> Seq(Bodies)]
    PROVE  TypeOK'
BY NullIsFresh DEF TypeOK, Answer, PutTx

\* Going on to a later statement of the same operation keeps the types.
LEMMA GoOnTypeOK ==
    ASSUME TypeOK, NEW r \in Requests, NEW next \in Steps,
           GoOn(r, next) \/ GoOnUnpooled(r, next),
           pc[r] # "idle",
           next \in LaterSteps(rq[r].op),
           next \in PutTx => txn[r] # Null,
           TableUnchanged
    PROVE  TypeOK'
BY DEF TypeOK, GoOn, GoOnUnpooled, TableUnchanged, Steps, PutTx

\* Every step keeps the types; an INSERT needs the check that ids are left.
LEMMA TypeOKStep ==
    ASSUME TypeOK, ChecksStillHold, [Next]_vars
    PROVE  TypeOK'
<1>1. CASE UNCHANGED vars
  BY <1>1 DEF vars, TypeOK
<1>2. ASSUME NEW r \in Requests, Start(r) PROVE TypeOK'
  <2>1. PICK q \in Request : Arrive(r, q)
    BY <1>2 DEF Start
  <2>2. FirstStep(q.op) \in Steps /\ q # Null /\ FirstStep(q.op) # "idle"
        /\ FirstStep(q.op) \notin PutTx
    BY RequestFields, NullIsFresh DEF FirstStep, Steps, PutTx
  <2>3. QED
    BY <2>1, <2>2 DEF Arrive, TypeOK, TableUnchanged
<1>3. ASSUME NEW r \in Requests, Refuse(r) PROVE TypeOK'
  BY <1>3 DEF Refuse, TypeOK, TableUnchanged, Statuses
<1>4. ASSUME NEW r \in Requests, Acquire(r) PROVE TypeOK'
  BY <1>4 DEF Acquire, TypeOK, TableUnchanged
<1>5. ASSUME NEW r \in Requests, ListSelect(r) \/ GetSelect(r) PROVE TypeOK'
  <2>1. PICK status \in Statuses : Answer(r, status)
    BY <1>5 DEF ListSelect, GetSelect, GetStatus, LookupStatus, Statuses
  <2>2. TableUnchanged
    BY <1>5 DEF ListSelect, GetSelect
  <2>3. QED
    BY <2>1, <2>2, AnswerTypeOK DEF TypeOK, TableUnchanged
<1>6. ASSUME NEW r \in Requests, DbError(r) \/ Disconnect(r) PROVE TypeOK'
  <2>1. PICK status \in Statuses : Answer(r, status)
    BY <1>6 DEF DbError, Disconnect, Statuses
  <2>2. TableUnchanged
    BY <1>6 DEF DbError, Disconnect
  <2>3. QED
    BY <2>1, <2>2, AnswerTypeOK DEF TypeOK, TableUnchanged
<1>7. ASSUME NEW r \in Requests, CreateCount(r) \/ DeleteSelect(r) PROVE TypeOK'
  <2>1. TableUnchanged
    BY <1>7 DEF CreateCount, DeleteSelect
  <2>2. CASE \E status \in Statuses : Answer(r, status)
    BY <2>1, <2>2, AnswerTypeOK DEF TypeOK, TableUnchanged
  <2>3. CASE \/ pc[r] = "create_count" /\ GoOnUnpooled(r, "create_insert")
             \/ pc[r] = "delete_select" /\ GoOnUnpooled(r, "delete_exec")
    BY <2>1, <2>3, StepsOfRequest, GoOnTypeOK DEF LaterSteps, Steps, PutTx
  <2>4. QED
    BY <1>7, <2>2, <2>3 DEF CreateCount, DeleteSelect, Statuses, LookupStatus
<1>8. ASSUME NEW r \in Requests, CreateInsert(r) \/ DeleteExec(r) PROVE TypeOK'
  <2>1. TableUnchanged
    BY <1>8 DEF CreateInsert, DeleteExec
  <2>2. CASE \E status \in Statuses : Answer(r, status)
    BY <2>1, <2>2, AnswerTypeOK DEF TypeOK, TableUnchanged
  <2>3. CASE \/ pc[r] = "create_insert" /\ GoOn(r, "create_flush")
             \/ pc[r] = "delete_exec" /\ GoOn(r, "delete_flush")
    BY <2>1, <2>3, StepsOfRequest, GoOnTypeOK DEF LaterSteps, Steps, PutTx
  <2>4. QED
    BY <1>8, <2>2, <2>3 DEF CreateInsert, DeleteExec, Statuses, InsertStatus
<1>9. ASSUME NEW r \in Requests, PutSelect(r) PROVE TypeOK'
  <2>1. TableUnchanged /\ pc[r] = "put_select"
    BY <1>9 DEF PutSelect
  <2>2. CASE \E status \in Statuses : Answer(r, status)
    BY <2>1, <2>2, AnswerTypeOK DEF TypeOK, TableUnchanged
  <2>3. ASSUME NEW row, row = profiles[rq[r].alias], row # Null,
               pc' = [pc EXCEPT ![r] = "put_update"],
               txn' = [txn EXCEPT ![r] = [pid |-> row.id, current |-> row.version]],
               answer' = Null, UNCHANGED <<rq, conn>>
        PROVE  TypeOK'
    <3>1. rq[r].op = "put" /\ rq[r] \in Request
      BY <2>1, StepsOfRequest
    <3>2. row \in Row
      BY <2>3, <3>1, RequestFields DEF TypeOK
    <3>3. [pid |-> row.id, current |-> row.version] \in [pid : RowIds, current : Nat]
      BY <3>2 DEF Row
    <3>4. "put_update" \in LaterSteps(rq[r].op)
      BY <3>1 DEF LaterSteps, PutTx
    <3>5. QED
      BY <2>1, <2>3, <3>3, <3>4, NullIsFresh DEF TypeOK, TableUnchanged, Steps, PutTx
  <2>4. QED
    BY <1>9, <2>2, <2>3 DEF PutSelect, Statuses, PutStatus, LookupStatus
<1>10. ASSUME NEW r \in Requests, PutUpdate(r) \/ PutCreatedAt(r) \/ PutCommit(r)
       PROVE TypeOK'
  <2>1. TableUnchanged /\ pc[r] \in PutTx
    BY <1>10 DEF PutUpdate, PutCreatedAt, PutCommit, PutTx
  <2>2. CASE Answer(r, "server_error")
    BY <2>1, <2>2, AnswerTypeOK DEF TypeOK, TableUnchanged, Statuses
  <2>3. ASSUME NEW next \in PutTx, GoOn(r, next) PROVE TypeOK'
    <3>1. txn[r] # Null /\ pc[r] # "idle" /\ next \in Steps
      BY <2>1 DEF TypeOK, PutTx, Steps
    <3>2. rq[r].op = "put"
      BY <2>1, StepsOfRequest DEF PutTx
    <3>3. next \in LaterSteps(rq[r].op)
      BY <3>2 DEF LaterSteps
    <3>4. QED
      BY <2>1, <2>3, <3>1, <3>3, GoOnTypeOK
  <2>4. QED
    BY <1>10, <2>2, <2>3 DEF PutUpdate, PutCreatedAt, PutCommit, PutTx
<1>11. ASSUME NEW r \in Requests, CreateFlush(r) PROVE TypeOK'
  <2>1. rq[r].op = "create" /\ rq[r].user \in Users
    BY <1>11, StepsOfRequest, RequestFields DEF CreateFlush
  <2>2. next_id <= MaxRowId
    BY <1>11, <2>1 DEF CreateFlush, ChecksStillHold, Flushing
  <2>3. next_id \in RowIds /\ next_id' \in 1..(MaxRowId + 1)
    BY <1>11, <2>2, LimitsType DEF CreateFlush, TypeOK, RowIds
  <2>4. [id |-> next_id, user |-> rq[r].user, version |-> 0, blob |-> Null] \in Row
    BY <2>1, <2>3 DEF Row
  <2>5. profiles' \in [Aliases -> Row \cup {Null}]
    BY <1>11, <2>4 DEF CreateFlush, TypeOK
  <2>6. QED
    BY <1>11, <2>3, <2>5, AnswerTypeOK DEF CreateFlush, TypeOK, Statuses
<1>12. ASSUME NEW r \in Requests, PutFlush(r) PROVE TypeOK'
  <2>1. rq[r].op = "put" /\ rq[r] \in Request
    BY <1>12, StepsOfRequest DEF PutFlush, PutTx
  <2>2. /\ rq[r].alias \in Aliases
        /\ rq[r].body \in Bodies
        /\ txn[r] \in [pid : RowIds, current : Nat]
    BY <1>12, <2>1, RequestFields DEF PutFlush, TypeOK, PutTx
  <2>3. profiles' \in [Aliases -> Row \cup {Null}]
    <3> DEFINE written(row) ==
                 [id |-> row.id, user |-> row.user,
                  version |-> txn[r].current + 1, blob |-> rq[r].body]
    <3>1. \A row \in Row : written(row) \in Row
      BY <2>2 DEF Row
    <3>2. profiles \in [Aliases -> Row \cup {Null}]
      BY DEF TypeOK
    <3>3. profiles' = [a \in Aliases |->
                IF profiles[a] # Null /\ profiles[a].id = txn[r].pid
                THEN written(profiles[a]) ELSE profiles[a]]
      BY <1>12 DEF PutFlush, UpdateMatches
    <3> HIDE DEF written
    <3>4. QED
      BY <3>1, <3>2, <3>3
  <2>4. acked' \in [Aliases -> Seq(Bodies)]
    <3>1. acked \in [Aliases -> Seq(Bodies)]
      BY DEF TypeOK
    <3>2. Append(acked[rq[r].alias], rq[r].body) \in Seq(Bodies)
      BY <2>2, <3>1
    <3>3. QED
      BY <1>12, <2>2, <3>1, <3>2 DEF PutFlush
  <2>5. QED
    BY <1>12, <2>3, <2>4, AnswerTypeOK DEF PutFlush, TypeOK, Statuses
<1>13. ASSUME NEW r \in Requests, DeleteFlush(r) PROVE TypeOK'
  <2>1. profiles' \in [Aliases -> Row \cup {Null}]
    BY <1>13 DEF DeleteFlush, TypeOK
  <2>2. acked' \in [Aliases -> Seq(Bodies)]
    <3>1. acked \in [Aliases -> Seq(Bodies)] /\ <<>> \in Seq(Bodies)
      BY DEF TypeOK
    <3>2. QED
      BY <1>13, <3>1 DEF DeleteFlush
  <2>3. QED
    BY <1>13, <2>1, <2>2, AnswerTypeOK DEF DeleteFlush, TypeOK, Statuses
<1>14. QED
  BY <1>1, <1>2, <1>3, <1>4, <1>5, <1>6, <1>7, <1>8, <1>9, <1>10, <1>11, <1>12, <1>13
  DEF Next, Step

-----------------------------------------------------------------------------
(* The inductive invariant *)

\* At most one request holds RESERVED.
OneWriter == \A r, s \in Writers : r = s

\* Row ids are handed out once: UPDATE ... WHERE id = pid writes one row.
RowsNumbered ==
    /\ \A a \in Aliases : profiles[a] # Null => profiles[a].id < next_id
    /\ \A a, b \in Aliases :
          profiles[a] # Null /\ profiles[b] # Null /\ profiles[a].id = profiles[b].id => a = b

\* The history of an alias starts with the INSERT of its row.
FreeHasNoHistory == \A a \in Aliases : profiles[a] = Null => acked[a] = <<>>

IInv ==
    /\ TypeOK
    /\ OneWriter
    /\ ChecksStillHold
    /\ RowsNumbered
    /\ FreeHasNoHistory
    /\ BlobIsLastAcked

\* A response gives up the locks of its request and no other.
LEMMA AnswerLocks ==
    ASSUME TypeOK, NEW r \in Requests, NEW status, Answer(r, status)
    PROVE  /\ InTx' = InTx \ {r}
           /\ Flushing' = Flushing \ {r}
           /\ Writers' = Writers \ {r}
           /\ \A s \in Requests \ {r} : rq'[s] = rq[s] /\ txn'[s] = txn[s] /\ pc'[s] = pc[s]
BY DEF TypeOK, Answer, InTx, Flushing, Writers, PutTx

\* The parts of the invariant that are about the table alone.
LEMMA QuietTable ==
    ASSUME RowsNumbered, FreeHasNoHistory, BlobIsLastAcked, TableUnchanged
    PROVE  RowsNumbered' /\ FreeHasNoHistory' /\ BlobIsLastAcked'
BY DEF RowsNumbered, FreeHasNoHistory, BlobIsLastAcked, TableUnchanged

\* A response that leaves the table alone keeps the invariant.
LEMMA QuietAnswer ==
    ASSUME OneWriter, ChecksStillHold, TypeOK,
           NEW r \in Requests, NEW status, Answer(r, status), TableUnchanged
    PROVE  OneWriter' /\ ChecksStillHold'
<1>1. OneWriter'
  BY AnswerLocks DEF OneWriter
<1>2. ChecksStillHold'
  BY AnswerLocks DEF ChecksStillHold, TableUnchanged, InTx, Flushing
<1>3. QED
  BY <1>1, <1>2

\* Going on with a statement keeps the invariant if RESERVED is only taken
\* when it is free, and a write is only begun when its check holds.
LEMMA QuietGoOn ==
    ASSUME OneWriter, ChecksStillHold, TypeOK,
           NEW r \in Requests, NEW next \in Steps,
           GoOn(r, next) \/ GoOnUnpooled(r, next), TableUnchanged,
           next \in {"create_flush", "delete_flush", "put_created", "put_commit", "put_flush"}
              => Writers \ {r} = {},
           next \in PutTx => pc[r] \in PutTx,
           next = "create_flush" => /\ rq[r].op = "create"
                                    /\ profiles[rq[r].alias] = Null
                                    /\ next_id <= MaxRowId,
           next = "delete_flush" => /\ rq[r].op = "delete"
                                    /\ DeleteMatches(rq[r].user, profiles[rq[r].alias]),
           next = "put_flush" => rq[r].op = "put"
    PROVE  OneWriter' /\ ChecksStillHold'
<1>1. /\ pc' = [pc EXCEPT ![r] = next] /\ pc'[r] = next
      /\ \A s \in Requests \ {r} : pc'[s] = pc[s]
      /\ rq' = rq /\ txn' = txn /\ profiles' = profiles /\ next_id' = next_id
  BY DEF GoOn, GoOnUnpooled, TableUnchanged, TypeOK
<1>2. OneWriter'
  BY <1>1 DEF OneWriter, Writers, Flushing
<1>3. ChecksStillHold'
  <2>1. \A s \in InTx' : s \in InTx
    BY <1>1 DEF InTx
  <2>2. \A s \in Flushing' : s = r \/ s \in Flushing
    BY <1>1 DEF Flushing
  <2>3. ASSUME r \in Flushing' PROVE
           /\ rq[r].op = "create" => profiles[rq[r].alias] = Null /\ next_id <= MaxRowId
           /\ rq[r].op = "delete" => DeleteMatches(rq[r].user, profiles[rq[r].alias])
    BY <1>1, <2>3 DEF Flushing
  <2>4. QED
    BY <1>1, <2>1, <2>2, <2>3 DEF ChecksStillHold, DeleteMatches
<1>4. QED
  BY <1>2, <1>3

\* A request that flushes is the only one with a lock: when it has answered,
\* no check of another request is pending.
LEMMA FlushIsAlone ==
    ASSUME OneWriter, TypeOK, NEW r \in Flushing, CanFlush(r),
           NEW status, Answer(r, status)
    PROVE  OneWriter' /\ ChecksStillHold'
<1>1. r \in Requests /\ r \in Writers
  BY DEF Flushing, Writers
<1>2. InTx' = {} /\ Flushing' = {} /\ Writers' = {}
  BY <1>1, AnswerLocks DEF OneWriter, CanFlush, Writers
<1>3. QED
  BY <1>2 DEF OneWriter, ChecksStillHold

\* What the three writes do to the table.
LEMMA CreateFlushTable ==
    ASSUME IInv, NEW r \in Requests, CreateFlush(r)
    PROVE  RowsNumbered' /\ FreeHasNoHistory' /\ BlobIsLastAcked'
<1> DEFINE a0 == rq[r].alias
<1>1. rq[r].op = "create" /\ a0 \in Aliases
  BY StepsOfRequest, RequestFields DEF IInv, CreateFlush
<1>2. profiles[a0] = Null /\ acked[a0] = <<>>
  BY <1>1 DEF IInv, ChecksStillHold, FreeHasNoHistory, CreateFlush, Flushing
<1>3. /\ profiles' = [profiles EXCEPT ![a0] =
            [id |-> next_id, user |-> rq[r].user, version |-> 0, blob |-> Null]]
      /\ next_id' = next_id + 1 /\ acked' = acked
  BY DEF CreateFlush
<1>4. profiles \in [Aliases -> Row \cup {Null}] /\ next_id \in Nat
  BY LimitsType DEF IInv, TypeOK
<1> HIDE DEF a0
<1>5. \A a \in Aliases : profiles[a] # Null => profiles[a].id \in Nat
  BY <1>4, LimitsType DEF Row, RowIds
<1>6. RowsNumbered'
  BY <1>1, <1>3, <1>4, <1>5 DEF IInv, RowsNumbered
<1>7. FreeHasNoHistory'
  BY <1>1, <1>2, <1>3, <1>4 DEF IInv, FreeHasNoHistory
<1>8. BlobIsLastAcked'
  BY <1>1, <1>2, <1>3, <1>4 DEF IInv, BlobIsLastAcked
<1>9. QED
  BY <1>6, <1>7, <1>8

LEMMA PutFlushTable ==
    ASSUME IInv, NEW r \in Requests, PutFlush(r)
    PROVE  /\ RowsNumbered' /\ FreeHasNoHistory' /\ BlobIsLastAcked'
           /\ rq[r].alias \in Aliases
           /\ profiles[rq[r].alias] # Null
           /\ profiles[rq[r].alias].user = rq[r].user
           /\ profiles[rq[r].alias].version = rq[r].expected
           /\ profiles' = [profiles EXCEPT ![rq[r].alias] =
                 [id |-> profiles[rq[r].alias].id, user |-> rq[r].user,
                  version |-> rq[r].expected + 1, blob |-> rq[r].body]]
<1> DEFINE a0 == rq[r].alias
           b0 == rq[r].body
           written == [id |-> profiles[a0].id, user |-> rq[r].user,
                       version |-> rq[r].expected + 1, blob |-> b0]
<1>1. a0 \in Aliases /\ b0 \in Bodies /\ rq[r].expected \in Nat
  BY StepsOfRequest, RequestFields DEF IInv, PutFlush, PutTx
<1>2. /\ profiles[a0] # Null
      /\ profiles[a0].id = txn[r].pid
      /\ profiles[a0].user = rq[r].user
      /\ profiles[a0].version = txn[r].current
      /\ txn[r].current = rq[r].expected
  BY DEF IInv, ChecksStillHold, PutFlush, InTx, PutTx
<1>3. profiles \in [Aliases -> Row \cup {Null}] /\ acked \in [Aliases -> Seq(Bodies)]
  BY DEF IInv, TypeOK
<1>4. \A a \in Aliases : profiles[a] # Null /\ profiles[a].id = txn[r].pid <=> a = a0
  BY <1>1, <1>2 DEF IInv, RowsNumbered
<1>5. profiles' = [profiles EXCEPT ![a0] = written]
  BY <1>1, <1>2, <1>3, <1>4 DEF PutFlush, UpdateMatches
<1>6. acked' = [acked EXCEPT ![a0] = Append(acked[a0], b0)] /\ next_id' = next_id
  BY DEF PutFlush
<1>7. written # Null /\ written.id = profiles[a0].id
  <2>1. profiles[a0] \in Row
    BY <1>1, <1>2, <1>3
  <2>2. written \in Row
    BY <1>1, <1>2, <2>1 DEF Row
  <2>3. QED
    BY <2>2, NullIsFresh
<1>8. /\ written.version = profiles[a0].version + 1
      /\ written.blob = b0
  BY <1>2
<1> HIDE DEF a0, b0, written
<1>9. RowsNumbered'
  BY <1>1, <1>2, <1>3, <1>5, <1>6, <1>7 DEF IInv, RowsNumbered
<1>10. FreeHasNoHistory'
  BY <1>1, <1>3, <1>5, <1>6, <1>7 DEF IInv, FreeHasNoHistory
<1>11. BlobIsLastAcked'
  <2>1. profiles[a0].version = Len(acked[a0])
    BY <1>1, <1>2 DEF IInv, BlobIsLastAcked
  <2>2. acked[a0] \in Seq(Bodies)
    BY <1>1, <1>3
  <2>3. /\ acked'[a0] # <<>>
        /\ Len(acked'[a0]) = Len(acked[a0]) + 1
        /\ acked'[a0][Len(acked'[a0])] = b0
    <3>1. acked'[a0] = Append(acked[a0], b0)
      BY <1>1, <1>3, <1>6
    <3>2. /\ Append(acked[a0], b0) \in Seq(Bodies)
          /\ Len(Append(acked[a0], b0)) = Len(acked[a0]) + 1
          /\ Append(acked[a0], b0)[Len(acked[a0]) + 1] = b0
      BY <1>1, <2>2
    <3>3. Len(acked[a0]) \in Nat
      BY <2>2
    <3>4. QED
      BY <3>1, <3>2, <3>3
  <2>4. \A a \in Aliases \ {a0} : profiles'[a] = profiles[a] /\ acked'[a] = acked[a]
    BY <1>3, <1>5, <1>6
  <2>5. profiles'[a0] = written
    BY <1>1, <1>3, <1>5
  <2>6. QED
    BY <1>8, <2>1, <2>3, <2>4, <2>5 DEF IInv, BlobIsLastAcked
<1>12. QED
  BY <1>1, <1>2, <1>5, <1>9, <1>10, <1>11 DEF a0, b0, written

LEMMA DeleteFlushTable ==
    ASSUME IInv, NEW r \in Requests, DeleteFlush(r)
    PROVE  RowsNumbered' /\ FreeHasNoHistory' /\ BlobIsLastAcked'
<1> DEFINE a0 == rq[r].alias
<1>1. a0 \in Aliases
  BY StepsOfRequest, RequestFields DEF IInv, DeleteFlush
<1>2. /\ profiles' = [profiles EXCEPT ![a0] = Null]
      /\ acked' = [acked EXCEPT ![a0] = <<>>]
      /\ next_id' = next_id
  BY DEF DeleteFlush
<1>3. profiles \in [Aliases -> Row \cup {Null}] /\ acked \in [Aliases -> Seq(Bodies)]
  BY DEF IInv, TypeOK
<1> HIDE DEF a0
<1>4. RowsNumbered'
  BY <1>1, <1>2, <1>3 DEF IInv, RowsNumbered
<1>5. FreeHasNoHistory'
  BY <1>1, <1>2, <1>3 DEF IInv, FreeHasNoHistory
<1>6. BlobIsLastAcked'
  BY <1>1, <1>2, <1>3 DEF IInv, BlobIsLastAcked
<1>7. QED
  BY <1>4, <1>5, <1>6

\* IInv is inductive.
LEMMA IInvStep ==
    ASSUME IInv, [Next]_vars
    PROVE  IInv'
<1> USE DEF IInv
<1>1. TypeOK'
  BY TypeOKStep
<1>2. CASE UNCHANGED vars
  <2>1. RowsNumbered' /\ FreeHasNoHistory' /\ BlobIsLastAcked'
    BY <1>2, QuietTable DEF vars, TableUnchanged
  <2>2. OneWriter' /\ ChecksStillHold'
    BY <1>2 DEF vars, OneWriter, Writers, Flushing, InTx, ChecksStillHold
  <2>3. QED
    BY <1>1, <2>1, <2>2
<1>3. ASSUME NEW r \in Requests, NEW status, Answer(r, status), TableUnchanged PROVE IInv'
  BY <1>1, <1>3, QuietAnswer, QuietTable
<1>4. ASSUME NEW r \in Requests, Start(r) PROVE IInv'
  <2>1. PICK q \in Request : Arrive(r, q)
    BY <1>4 DEF Start
  <2>2. FirstStep(q.op) \in {"list_select", "get_select", "create_count", "put_select",
                              "delete_select"}
    BY RequestFields DEF FirstStep
  <2>3. TableUnchanged /\ txn' = txn /\ \A s \in Requests \ {r} : rq'[s] = rq[s]
    BY <2>1 DEF Arrive, TypeOK
  <2>4. InTx' = InTx /\ Flushing' = Flushing /\ Writers' = Writers
        /\ r \notin InTx /\ r \notin Flushing
    BY <2>1, <2>2 DEF Arrive, InTx, Flushing, Writers, PutTx, TypeOK
  <2>5. OneWriter' /\ ChecksStillHold'
    BY <2>3, <2>4 DEF OneWriter, ChecksStillHold, TableUnchanged, InTx, Flushing
  <2>6. QED
    BY <1>1, <2>3, <2>5, QuietTable
<1>5. ASSUME NEW r \in Requests, Refuse(r) \/ Acquire(r) PROVE IInv'
  <2>1. TableUnchanged /\ UNCHANGED <<pc, rq, txn>>
    BY <1>5 DEF Refuse, Acquire
  <2>2. OneWriter' /\ ChecksStillHold'
    BY <2>1 DEF OneWriter, Writers, Flushing, InTx, ChecksStillHold, TableUnchanged
  <2>3. QED
    BY <1>1, <2>1, <2>2, QuietTable
<1>6. ASSUME NEW r \in Requests, ListSelect(r) \/ GetSelect(r) \/ DbError(r) \/ Disconnect(r)
      PROVE IInv'
  BY <1>3, <1>6 DEF ListSelect, GetSelect, DbError, Disconnect
<1>7. ASSUME NEW r \in Requests, CreateCount(r) \/ DeleteSelect(r) PROVE IInv'
  <2>1. CASE \E next \in {"create_insert", "delete_exec"} : GoOnUnpooled(r, next)
    BY <1>1, <1>7, <2>1, QuietGoOn, QuietTable DEF CreateCount, DeleteSelect, Steps, PutTx
  <2>2. QED
    BY <1>3, <1>7, <2>1 DEF CreateCount, DeleteSelect
<1>8. ASSUME NEW r \in Requests, CreateInsert(r) PROVE IInv'
  <2>1. CASE GoOn(r, "create_flush") /\ profiles[rq[r].alias] = Null /\ next_id <= MaxRowId
    <3>1. rq[r].op = "create" /\ Writers = {} /\ TableUnchanged
      BY <1>8, StepsOfRequest DEF CreateInsert, CanWrite
    <3>2. OneWriter' /\ ChecksStillHold'
      BY <2>1, <3>1, QuietGoOn DEF Steps, PutTx
    <3>3. QED
      BY <1>1, <3>1, <3>2, QuietTable
  <2>2. QED
    BY <1>3, <1>8, <2>1, LimitsType DEF CreateInsert, InsertStatus, TypeOK
<1>9. ASSUME NEW r \in Requests, DeleteExec(r) PROVE IInv'
  <2>1. CASE GoOn(r, "delete_flush") /\ DeleteMatches(rq[r].user, profiles[rq[r].alias])
    <3>1. rq[r].op = "delete" /\ Writers = {} /\ TableUnchanged
      BY <1>9, StepsOfRequest DEF DeleteExec, CanWrite
    <3>2. OneWriter' /\ ChecksStillHold'
      BY <2>1, <3>1, QuietGoOn DEF Steps, PutTx
    <3>3. QED
      BY <1>1, <3>1, <3>2, QuietTable
  <2>2. QED
    BY <1>3, <1>9, <2>1 DEF DeleteExec
<1>10. ASSUME NEW r \in Requests, PutSelect(r) PROVE IInv'
  <2>1. ASSUME NEW row, row = profiles[rq[r].alias], row # Null,
               row.user = rq[r].user, row.version = rq[r].expected,
               pc' = [pc EXCEPT ![r] = "put_update"],
               txn' = [txn EXCEPT ![r] = [pid |-> row.id, current |-> row.version]],
               answer' = Null, UNCHANGED <<rq, conn>>, TableUnchanged
        PROVE  IInv'
    <3>1. pc[r] = "put_select"
      BY <1>10 DEF PutSelect
    <3>2. InTx' = InTx \cup {r} /\ Flushing' = Flushing /\ Writers' = Writers
      BY <2>1, <3>1 DEF InTx, Flushing, Writers, PutTx, TypeOK
    <3>3. /\ txn'[r].pid = row.id /\ txn'[r].current = row.version
          /\ \A s \in Requests \ {r} : txn'[s] = txn[s]
      BY <2>1 DEF TypeOK
    <3>4. OneWriter'
      BY <3>2 DEF OneWriter
    <3>5. ChecksStillHold'
      BY <2>1, <3>2, <3>3 DEF ChecksStillHold, TableUnchanged, InTx
    <3>6. QED
      BY <1>1, <2>1, <3>4, <3>5, QuietTable
  <2>2. QED
    BY <1>3, <1>10, <2>1 DEF PutSelect, PutStatus, LookupStatus
<1>11. ASSUME NEW r \in Requests, PutUpdate(r) \/ PutCreatedAt(r) \/ PutCommit(r) PROVE IInv'
  <2>1. ASSUME NEW next \in {"put_created", "put_commit", "put_flush"}, GoOn(r, next)
        PROVE  IInv'
    <3>1. pc[r] \in PutTx /\ TableUnchanged
      BY <1>11 DEF PutUpdate, PutCreatedAt, PutCommit, PutTx
    <3>2. Writers \ {r} = {}
      <4>1. CASE PutUpdate(r)
        <5>1. pc'[r] = next
          BY <2>1 DEF GoOn, TypeOK
        <5>2. ~Answer(r, "server_error")
          BY <5>1 DEF Answer, TypeOK
        <5>3. QED
          BY <4>1, <5>2 DEF PutUpdate
      <4>2. CASE PutCreatedAt(r) \/ PutCommit(r)
        BY <4>2 DEF PutCreatedAt, PutCommit, OneWriter, Writers
      <4>3. QED
        BY <1>11, <4>1, <4>2
    <3>3. rq[r].op = "put"
      BY <3>1, StepsOfRequest DEF PutTx
    <3>4. OneWriter' /\ ChecksStillHold'
      BY <2>1, <3>1, <3>2, <3>3, QuietGoOn DEF Steps, PutTx
    <3>5. QED
      BY <1>1, <3>1, <3>4, QuietTable
  <2>2. QED
    BY <1>3, <1>11, <2>1 DEF PutUpdate, PutCreatedAt, PutCommit
<1>12. ASSUME NEW r \in Requests, CreateFlush(r) \/ PutFlush(r) \/ DeleteFlush(r) PROVE IInv'
  <2>1. RowsNumbered' /\ FreeHasNoHistory' /\ BlobIsLastAcked'
    BY <1>12, CreateFlushTable, PutFlushTable, DeleteFlushTable
  <2>2. r \in Flushing /\ CanFlush(r) /\ \E status : Answer(r, status)
    BY <1>12 DEF CreateFlush, PutFlush, DeleteFlush, Flushing
  <2>3. OneWriter' /\ ChecksStillHold'
    BY <2>2, FlushIsAlone
  <2>4. QED
    BY <1>1, <2>1, <2>3
<1>13. QED
  BY <1>2, <1>4, <1>5, <1>6, <1>7, <1>8, <1>9, <1>10, <1>11, <1>12 DEF Next, Step

\* The invariant of the profile endpoints: what a handler checked still holds
\* when it writes, RESERVED has one holder, ids are unique and every row is
\* what its acknowledged PUTs made it.
THEOREM Invariance == Spec => []IInv
<1>1. Init => IInv
  BY LimitsType DEF Init, IInv, TypeOK, OneWriter, Writers, Flushing, InTx, PutTx,
     ChecksStillHold, RowsNumbered, FreeHasNoHistory, BlobIsLastAcked
<1>2. IInv /\ [Next]_vars => IInv'
  BY IInvStep
<1>3. QED
  BY <1>1, <1>2, PTL DEF Spec

\* The type invariant: the rows, the in-flight requests and the statements the
\* handlers are at keep their types under every interleaving.
THEOREM TypeCorrect == Spec => []TypeOK
<1>1. IInv => TypeOK
  BY DEF IInv
<1>2. QED
  BY <1>1, Invariance, PTL

\* put_blob, create and delete never write on the strength of a stale check.
THEOREM ChecksHold == Spec => []ChecksStillHold
<1>1. IInv => ChecksStillHold
  BY DEF IInv
<1>2. QED
  BY <1>1, Invariance, PTL

\* No PUT answered 200 is lost, overwritten unseen or applied twice.
THEOREM NoLostUpload == Spec => []BlobIsLastAcked
<1>1. IInv => BlobIsLastAcked
  BY DEF IInv
<1>2. QED
  BY <1>1, Invariance, PTL

-----------------------------------------------------------------------------
(* Refinement: the handlers implement the atomic store *)

View == [a \in Aliases |-> Visible(profiles[a])]

\* The store shows of a row its owner, its version and its blob.
LEMMA ViewFacts ==
    ASSUME TypeOK, NEW a \in Aliases
    PROVE  /\ View[a] = Null <=> profiles[a] = Null
           /\ profiles[a] # Null => /\ View[a].user = profiles[a].user
                                    /\ View[a].version = profiles[a].version
                                    /\ View[a].blob = profiles[a].blob
<1>1. CASE profiles[a] = Null
  BY <1>1 DEF View, Visible
<1>2. CASE profiles[a] # Null
  <2>1. profiles[a] \in Row
    BY <1>2 DEF TypeOK
  <2>2. Visible(profiles[a]) = [user |-> profiles[a].user, version |-> profiles[a].version,
                                blob |-> profiles[a].blob]
    BY <1>2 DEF Visible
  <2>3. Visible(profiles[a]) \in [user : Users, version : Nat, blob : Bodies \cup {Null}]
    BY <2>1, <2>2 DEF Row
  <2>4. QED
    BY <1>2, <2>2, <2>3, NullIsFresh DEF View
<1>3. QED
  BY <1>1, <1>2

\* A response as the store sees it.
LEMMA AnswerServes ==
    ASSUME TypeOK, NEW r \in Requests, NEW status, Answer(r, status), pc[r] # "idle"
    PROVE  /\ rq[r] # Null
           /\ Store!Serve(r, status)
           /\ TableUnchanged => Store!ServeOnly(r, status)
BY DEF TypeOK, Answer, Store!Serve, Store!ServeOnly, TableUnchanged

\* A step between two statements of a request is no step of the store.
LEMMA QuietDelivers ==
    ASSUME TableUnchanged, rq' = rq, answer' = Null
    PROVE  Store!Deliver
BY DEF Store!Deliver, TableUnchanged

LEMMA GoOnDelivers ==
    ASSUME NEW r, NEW next, GoOn(r, next) \/ GoOnUnpooled(r, next), TableUnchanged
    PROVE  Store!Deliver
BY QuietDelivers DEF GoOn, GoOnUnpooled

\* Ownership of an alias, in the store and in the table.
LEMMA StoreOwns ==
    ASSUME TypeOK, NEW u, NEW a \in Aliases
    PROVE  /\ Store!Taken(a) <=> profiles[a] # Null
           /\ Store!Owns(u, a) <=> profiles[a] # Null /\ profiles[a].user = u
BY ViewFacts DEF Store!Taken, Store!Owns, View

LEMMA StepServes ==
    ASSUME IInv, NEW r \in Requests, Step(r)
    PROVE  Store!Deliver \/ Store!Served(r)
<1> USE DEF IInv
<1>1. CASE Acquire(r)
  BY <1>1, QuietDelivers DEF Acquire
<1>2. CASE ListSelect(r)
  BY <1>2, StepsOfRequest, AnswerServes DEF ListSelect, Store!Served, Store!List
<1>3. CASE GetSelect(r)
  <2>1. rq[r].op = "get" /\ rq[r].alias \in Aliases /\ pc[r] # "idle" /\ TableUnchanged
    BY <1>3, StepsOfRequest, RequestFields DEF GetSelect
  <2>2. Store!ServeOnly(r, GetStatus(rq[r].user, profiles[rq[r].alias])) /\ rq[r] # Null
    BY <1>3, <2>1, AnswerServes DEF GetSelect
  <2>3. profiles[rq[r].alias] # Null =>
            Visible(profiles[rq[r].alias]).blob = profiles[rq[r].alias].blob
    BY <2>1, ViewFacts DEF View
  <2>4. Store!Get(r, rq[r])
    BY <2>1, <2>2, <2>3, StoreOwns DEF GetStatus, Store!Get, LookupStatus
  <2>5. QED
    BY <2>2, <2>4 DEF Store!Served
<1>4. CASE CreateCount(r)
  <2>1. rq[r].op = "create" /\ pc[r] # "idle" /\ TableUnchanged
    BY <1>4, StepsOfRequest DEF CreateCount
  <2>2. CASE GoOnUnpooled(r, "create_insert")
    BY <2>1, <2>2, GoOnDelivers
  <2>3. CASE QuotaReached(rq[r].user) /\ Answer(r, "forbidden")
    <3>1. {a \in Aliases : Store!Owns(rq[r].user, a)} = Owned(rq[r].user)
      BY StoreOwns DEF Owned
    <3>2. Store!Cardinality(Owned(rq[r].user)) = Cardinality(Owned(rq[r].user))
      BY DEF Cardinality, Store!Cardinality
    <3>3. Store!Create(r, rq[r]) /\ rq[r] # Null
      BY <2>1, <2>3, <3>1, <3>2, AnswerServes DEF QuotaReached, Store!Create
    <3>4. QED
      BY <3>3 DEF Store!Served
  <2>4. QED
    BY <1>4, <2>2, <2>3 DEF CreateCount
<1>5. CASE CreateInsert(r)
  <2>1. rq[r].op = "create" /\ rq[r].alias \in Aliases /\ pc[r] # "idle" /\ TableUnchanged
    BY <1>5, StepsOfRequest, RequestFields DEF CreateInsert
  <2>2. CASE GoOn(r, "create_flush")
    BY <2>1, <2>2, GoOnDelivers
  <2>3. CASE profiles[rq[r].alias] # Null /\ Answer(r, "conflict")
    BY <2>1, <2>3, AnswerServes, StoreOwns DEF Store!Served, Store!Create
  <2>4. CASE Answer(r, "server_error")
    BY <2>1, <2>4, AnswerServes DEF Store!Served, Store!Fail
  <2>5. QED
    BY <1>5, <2>2, <2>3, <2>4 DEF CreateInsert, InsertStatus
<1>6. CASE PutSelect(r)
  <2>1. rq[r].op = "put" /\ rq[r].alias \in Aliases /\ pc[r] # "idle" /\ TableUnchanged
    BY <1>6, StepsOfRequest, RequestFields DEF PutSelect
  <2>2. CASE answer' = Null /\ rq' = rq
    BY <2>1, <2>2, QuietDelivers
  <2>3. CASE \/ profiles[rq[r].alias] = Null /\ Answer(r, "not_found")
             \/ /\ profiles[rq[r].alias] # Null
                /\ profiles[rq[r].alias].user # rq[r].user /\ Answer(r, "forbidden")
             \/ /\ profiles[rq[r].alias] # Null
                /\ profiles[rq[r].alias].user = rq[r].user
                /\ profiles[rq[r].alias].version # rq[r].expected
                /\ Answer(r, "conflict")
    <3>1. profiles[rq[r].alias] # Null =>
            Visible(profiles[rq[r].alias]).version = profiles[rq[r].alias].version
      BY <2>1, ViewFacts DEF View
    <3>2. Store!Put(r, rq[r]) /\ rq[r] # Null
      BY <2>1, <2>3, <3>1, StoreOwns, AnswerServes DEF Store!Put
    <3>3. QED
      BY <3>2 DEF Store!Served
  <2>4. QED
    BY <1>6, <2>2, <2>3 DEF PutSelect, PutStatus, LookupStatus
<1>7. CASE PutUpdate(r) \/ PutCreatedAt(r) \/ PutCommit(r)
  <2>1. pc[r] # "idle" /\ TableUnchanged
    BY <1>7 DEF PutUpdate, PutCreatedAt, PutCommit
  <2>2. CASE Answer(r, "server_error")
    BY <2>1, <2>2, AnswerServes DEF Store!Served, Store!Fail
  <2>3. CASE \E next : GoOn(r, next)
    BY <2>1, <2>3, GoOnDelivers
  <2>4. QED
    BY <1>7, <2>2, <2>3 DEF PutUpdate, PutCreatedAt, PutCommit
<1>8. CASE DeleteSelect(r)
  <2>1. rq[r].op = "delete" /\ rq[r].alias \in Aliases /\ pc[r] # "idle" /\ TableUnchanged
    BY <1>8, StepsOfRequest, RequestFields DEF DeleteSelect
  <2>2. CASE GoOnUnpooled(r, "delete_exec")
    BY <2>1, <2>2, GoOnDelivers
  <2>3. CASE \/ profiles[rq[r].alias] = Null /\ Answer(r, "not_found")
             \/ /\ profiles[rq[r].alias] # Null
                /\ profiles[rq[r].alias].user # rq[r].user /\ Answer(r, "forbidden")
    BY <2>1, <2>3, StoreOwns, AnswerServes DEF Store!Served, Store!Delete
  <2>4. QED
    BY <1>8, <2>2, <2>3 DEF DeleteSelect, LookupStatus
<1>9. CASE DeleteExec(r)
  <2>1. rq[r].op = "delete" /\ rq[r].alias \in Aliases /\ pc[r] # "idle" /\ TableUnchanged
    BY <1>9, StepsOfRequest, RequestFields DEF DeleteExec
  <2>2. CASE GoOn(r, "delete_flush")
    BY <2>1, <2>2, GoOnDelivers
  <2>3. CASE ~DeleteMatches(rq[r].user, profiles[rq[r].alias]) /\ Answer(r, "ok")
    BY <2>1, <2>3, StoreOwns, AnswerServes DEF DeleteMatches, Store!Served, Store!Delete
  <2>4. QED
    BY <1>9, <2>2, <2>3 DEF DeleteExec
<1>10. CASE CreateFlush(r)
  <2>1. rq[r].op = "create" /\ rq[r].alias \in Aliases /\ pc[r] # "idle"
    BY <1>10, StepsOfRequest, RequestFields DEF CreateFlush
  <2>2. profiles[rq[r].alias] = Null
    BY <1>10, <2>1 DEF CreateFlush, ChecksStillHold, Flushing
  <2>3. rq[r] # Null /\ Store!Serve(r, "created")
    BY <1>10, <2>1, AnswerServes DEF CreateFlush
  <2>4. View' = [View EXCEPT ![rq[r].alias] =
                    [user |-> rq[r].user, version |-> 0, blob |-> Null]]
    <3> DEFINE new == [id |-> next_id, user |-> rq[r].user, version |-> 0, blob |-> Null]
    <3>1. profiles' = [profiles EXCEPT ![rq[r].alias] = new]
      BY <1>10 DEF CreateFlush
    <3>2. profiles \in [Aliases -> Row \cup {Null}]
      BY DEF TypeOK
    <3>3. new # Null
      <4>1. rq[r].user \in Users /\ next_id \in RowIds
        BY <1>10, <2>1, StepsOfRequest, RequestFields, LimitsType
        DEF CreateFlush, ChecksStillHold, Flushing, TypeOK, RowIds
      <4>2. new \in Row
        BY <4>1 DEF Row
      <4>3. QED
        BY <4>2, NullIsFresh
    <3>4. Visible(new) = [user |-> rq[r].user, version |-> 0, blob |-> Null]
      BY <3>3 DEF Visible
    <3> HIDE DEF new
    <3>5. QED
      BY <2>1, <3>1, <3>2, <3>4 DEF View
  <2>5. Store!Create(r, rq[r])
    BY <2>1, <2>2, <2>3, <2>4, StoreOwns DEF Store!Create, View
  <2>6. QED
    BY <2>3, <2>5 DEF Store!Served
<1>11. CASE PutFlush(r)
  <2>1. rq[r].op = "put" /\ pc[r] # "idle" /\ rq[r] \in Request
    BY <1>11, StepsOfRequest DEF PutFlush, PutTx
  <2>2. rq[r] # Null /\ Store!Serve(r, "ok")
    BY <1>11, <2>1, AnswerServes DEF PutFlush
  <2> DEFINE a0 == rq[r].alias
             new == [id |-> profiles[a0].id, user |-> rq[r].user,
                     version |-> rq[r].expected + 1, blob |-> rq[r].body]
  <2>3. /\ a0 \in Aliases /\ profiles[a0] # Null
        /\ profiles[a0].user = rq[r].user /\ profiles[a0].version = rq[r].expected
        /\ profiles' = [profiles EXCEPT ![a0] = new]
    BY <1>11, PutFlushTable
  <2>4. Visible(new) = [user |-> rq[r].user, version |-> rq[r].expected + 1,
                        blob |-> rq[r].body]
    <3>1. profiles[a0] \in Row
      BY <2>3 DEF TypeOK
    <3>2. new \in Row
      BY <2>1, <3>1, RequestFields DEF Row
    <3>3. QED
      BY <3>2, NullIsFresh DEF Visible
  <2>5. View' = [View EXCEPT ![a0] = [user |-> rq[r].user, version |-> rq[r].expected + 1,
                                      blob |-> rq[r].body]]
    <3> HIDE DEF new
    <3>1. profiles \in [Aliases -> Row \cup {Null}]
      BY DEF TypeOK
    <3>2. QED
      BY <2>3, <2>4, <3>1 DEF View
  <2>6. Store!Owns(rq[r].user, a0) /\ View[a0].version = rq[r].expected
    BY <2>3, StoreOwns, ViewFacts
  <2>7. Store!Put(r, rq[r])
    BY <2>1, <2>2, <2>5, <2>6 DEF Store!Put, View
  <2>8. QED
    BY <2>2, <2>7 DEF Store!Served
<1>12. CASE DeleteFlush(r)
  <2>1. rq[r].op = "delete" /\ rq[r].alias \in Aliases /\ pc[r] # "idle"
    BY <1>12, StepsOfRequest, RequestFields DEF DeleteFlush
  <2>2. profiles[rq[r].alias] # Null /\ profiles[rq[r].alias].user = rq[r].user
    BY <1>12, <2>1 DEF DeleteFlush, ChecksStillHold, Flushing
  <2>3. rq[r] # Null /\ Store!Serve(r, "ok")
    BY <1>12, <2>1, AnswerServes DEF DeleteFlush
  <2>4. View' = [View EXCEPT ![rq[r].alias] = Null]
    <3>1. profiles' = [profiles EXCEPT ![rq[r].alias] = Null]
          /\ profiles \in [Aliases -> Row \cup {Null}]
      BY <1>12 DEF DeleteFlush, TypeOK
    <3>2. Visible(Null) = Null
      BY DEF Visible
    <3>3. QED
      BY <2>1, <3>1, <3>2 DEF View
  <2>5. Store!Delete(r, rq[r])
    BY <2>1, <2>2, <2>3, <2>4, StoreOwns DEF Store!Delete, View
  <2>6. QED
    BY <2>3, <2>5 DEF Store!Served
<1>13. QED
  BY <1>1, <1>2, <1>3, <1>4, <1>5, <1>6, <1>7, <1>8, <1>9, <1>10, <1>11, <1>12 DEF Step

\* Every behaviour of the handlers is one of the atomic store: requests take
\* effect in one step, a PUT only on the version it expects and by the owner of
\* the alias, and a request that was not answered 2xx has changed nothing.
THEOREM Refinement == Spec => RequestsAreAtomic
<1>1. Init => Store!Init
  BY DEF Init, Store!Init, Visible
<1>2. IInv /\ [Next]_vars => [Store!Next]_(Store!vars)
  <2> SUFFICES ASSUME IInv, [Next]_vars PROVE [Store!Next]_(Store!vars)
    OBVIOUS
  <2>1. CASE UNCHANGED vars
    BY <2>1 DEF vars, Store!vars
  <2>2. ASSUME NEW r \in Requests, Start(r) PROVE Store!Arrive(r)
    BY <2>2 DEF Start, Arrive, IInv, TypeOK, TableUnchanged, Store!Arrive
  <2>3. ASSUME NEW r \in Requests, Refuse(r) PROVE Store!Refuse(r)
    BY <2>3 DEF Refuse, IInv, TypeOK, TableUnchanged, Store!Refuse
  <2>4. ASSUME NEW r \in Requests, DbError(r) \/ Disconnect(r) PROVE Store!Served(r)
    BY <2>4, AnswerServes DEF DbError, Disconnect, IInv, Store!Served, Store!Fail
  <2>5. QED
    BY <2>1, <2>2, <2>3, <2>4, StepServes DEF Next, Store!Next
<1>3. QED
  BY <1>1, <1>2, Invariance, PTL DEF Spec, RequestsAreAtomic, Store!Spec

-----------------------------------------------------------------------------
(* The quota: how far concurrent creates can overshoot it *)

\* Requests of user u that passed the quota check and have not inserted yet.
Pending(u) == {r \in Requests : /\ pc[r] \in {"create_insert", "create_flush"}
                                /\ rq[r].user = u}

QuotaInv ==
    \A u \in Users : Cardinality(Owned(u)) + Cardinality(Pending(u))
                        <= MaxAliasesFree + Cardinality(Requests) - 1

\* The sets that are counted are finite, and bounded by the slots.
LEMMA QuotaSets ==
    ASSUME NEW u
    PROVE  /\ IsFiniteSet(Owned(u)) /\ Cardinality(Owned(u)) \in Nat
           /\ IsFiniteSet(Pending(u)) /\ Cardinality(Pending(u)) \in Nat
           /\ Cardinality(Pending(u)) <= Cardinality(Requests)
           /\ Cardinality(Requests) \in Nat /\ Cardinality(Requests) >= 1
<1>1. Owned(u) \subseteq Aliases /\ Pending(u) \subseteq Requests
  BY DEF Owned, Pending
<1>2. IsFiniteSet(Owned(u)) /\ IsFiniteSet(Pending(u))
      /\ Cardinality(Pending(u)) <= Cardinality(Requests)
  BY <1>1, RequestsFinite, AliasesFinite, FS_Subset
<1>3. Cardinality(Requests) \in Nat /\ Cardinality(Requests) # 0
  BY RequestsFinite, FS_CardinalityType, FS_EmptySet
<1>4. QED
  BY <1>2, <1>3, FS_CardinalityType

\* The sets after a step are finite too.
LEMMA QuotaSetsNext ==
    ASSUME NEW u
    PROVE  /\ IsFiniteSet(Owned(u)') /\ Cardinality(Owned(u)') \in Nat
           /\ IsFiniteSet(Pending(u)') /\ Cardinality(Pending(u)') \in Nat
           /\ Cardinality(Pending(u)') <= Cardinality(Requests)
<1>1. Owned(u)' \subseteq Aliases /\ Pending(u)' \subseteq Requests
  BY DEF Owned, Pending
<1>2. QED
  BY <1>1, RequestsFinite, AliasesFinite, FS_Subset, FS_CardinalityType

\* A step that neither inserts a row of u nor lets a request of u past the
\* quota check cannot raise the count.
LEMMA QuotaShrinks ==
    ASSUME NEW u,
           Cardinality(Owned(u)) + Cardinality(Pending(u))
             <= MaxAliasesFree + Cardinality(Requests) - 1,
           Owned(u)' \subseteq Owned(u), Pending(u)' \subseteq Pending(u)
    PROVE  Cardinality(Owned(u)') + Cardinality(Pending(u)')
             <= MaxAliasesFree + Cardinality(Requests) - 1
<1>1. /\ Cardinality(Owned(u)') <= Cardinality(Owned(u))
      /\ Cardinality(Pending(u)') <= Cardinality(Pending(u))
  BY QuotaSets, FS_Subset
<1>2. QED
  BY <1>1, QuotaSets, QuotaSetsNext, LimitsType

\* Which rows and which requests a step adds to the count.
LEMMA QuotaStep ==
    ASSUME IInv, [Next]_vars, NEW u \in Users
    PROVE  \/ Owned(u)' \subseteq Owned(u) /\ Pending(u)' \subseteq Pending(u)
           \/ Owned(u)' = Owned(u) /\ ~QuotaReached(u)
           \/ \E r \in Pending(u), a \in Aliases \ Owned(u) :
                 Owned(u)' = Owned(u) \cup {a} /\ Pending(u)' = Pending(u) \ {r}
<1> USE DEF IInv
<1>1. CASE UNCHANGED vars
  BY <1>1 DEF vars, Owned, Pending
<1>2. TableUnchanged => Owned(u)' = Owned(u)
  BY DEF TableUnchanged, Owned
<1>3. ASSUME NEW r \in Requests, NEW status, Answer(r, status)
      PROVE  Pending(u)' = Pending(u) \ {r}
  BY <1>3 DEF Answer, TypeOK, Pending
<1>4. ASSUME NEW r \in Requests, NEW next, GoOn(r, next) \/ GoOnUnpooled(r, next),
             next = "create_flush" => pc[r] = "create_insert",
             next # "create_insert"
      PROVE  Pending(u)' \subseteq Pending(u)
  BY <1>4 DEF GoOn, GoOnUnpooled, TypeOK, Pending
<1>5. ASSUME NEW r \in Requests, Start(r) \/ Refuse(r) \/ Acquire(r)
      PROVE  TableUnchanged /\ Pending(u)' \subseteq Pending(u)
  <2>1. CASE Start(r)
    <3>1. PICK q \in Request : Arrive(r, q)
      BY <2>1 DEF Start
    <3>2. FirstStep(q.op) \notin {"create_insert", "create_flush"}
      BY RequestFields DEF FirstStep
    <3>3. QED
      BY <3>1, <3>2 DEF Arrive, TypeOK, Pending
  <2>2. CASE Refuse(r) \/ Acquire(r)
    BY <2>2 DEF Refuse, Acquire, Pending
  <2>3. QED
    BY <1>5, <2>1, <2>2
<1>6. ASSUME NEW r \in Requests,
             \/ ListSelect(r) \/ GetSelect(r) \/ DbError(r) \/ Disconnect(r)
             \/ CreateInsert(r) \/ DeleteExec(r) \/ DeleteSelect(r)
             \/ PutUpdate(r) \/ PutCreatedAt(r) \/ PutCommit(r)
      PROVE  TableUnchanged /\ Pending(u)' \subseteq Pending(u)
  BY <1>3, <1>4, <1>6
  DEF ListSelect, GetSelect, DbError, Disconnect, CreateInsert, DeleteExec, DeleteSelect,
      PutUpdate, PutCreatedAt, PutCommit
<1>7. ASSUME NEW r \in Requests, PutSelect(r)
      PROVE  TableUnchanged /\ Pending(u)' \subseteq Pending(u)
  <2>1. CASE pc' = [pc EXCEPT ![r] = "put_update"] /\ rq' = rq
    BY <1>7, <2>1 DEF PutSelect, TypeOK, Pending
  <2>2. QED
    BY <1>3, <1>7, <2>1 DEF PutSelect
<1>8. ASSUME NEW r \in Requests, CreateCount(r)
      PROVE  /\ TableUnchanged
             /\ Pending(u)' \subseteq Pending(u) \/ ~QuotaReached(u)
  <2>1. CASE GoOnUnpooled(r, "create_insert") /\ ~QuotaReached(rq[r].user)
    <3>1. CASE rq[r].user = u
      BY <1>8, <2>1, <3>1 DEF CreateCount
    <3>2. CASE rq[r].user # u
      BY <1>8, <2>1, <3>2 DEF CreateCount, GoOnUnpooled, TypeOK, Pending
    <3>3. QED
      BY <3>1, <3>2
  <2>2. QED
    BY <1>3, <1>8, <2>1 DEF CreateCount
<1>9. ASSUME NEW r \in Requests, PutFlush(r)
      PROVE  Owned(u)' \subseteq Owned(u) /\ Pending(u)' \subseteq Pending(u)
  <2>1. Pending(u)' \subseteq Pending(u)
    BY <1>3, <1>9 DEF PutFlush
  <2>2. profiles \in [Aliases -> Row \cup {Null}]
    BY DEF TypeOK
  <2>3. \A a \in Aliases : profiles'[a] # Null =>
            profiles[a] # Null /\ profiles'[a].user = profiles[a].user
    BY <1>9, <2>2 DEF PutFlush, UpdateMatches
  <2>4. QED
    BY <2>1, <2>3 DEF Owned
<1>10. ASSUME NEW r \in Requests, DeleteFlush(r)
       PROVE  Owned(u)' \subseteq Owned(u) /\ Pending(u)' \subseteq Pending(u)
  BY <1>3, <1>10 DEF DeleteFlush, TypeOK, Owned
<1>11. ASSUME NEW r \in Requests, CreateFlush(r)
       PROVE  \/ Owned(u)' \subseteq Owned(u) /\ Pending(u)' \subseteq Pending(u)
              \/ /\ r \in Pending(u) /\ rq[r].alias \in Aliases \ Owned(u)
                 /\ Owned(u)' = Owned(u) \cup {rq[r].alias}
                 /\ Pending(u)' = Pending(u) \ {r}
  <2> DEFINE a0 == rq[r].alias
             new == [id |-> next_id, user |-> rq[r].user, version |-> 0, blob |-> Null]
  <2>1. Pending(u)' = Pending(u) \ {r}
    BY <1>3, <1>11 DEF CreateFlush
  <2>2. a0 \in Aliases /\ rq[r].op = "create" /\ rq[r].user \in Users
    BY <1>11, StepsOfRequest, RequestFields DEF CreateFlush
  <2>3. profiles[a0] = Null
    BY <1>11, <2>2 DEF CreateFlush, ChecksStillHold, Flushing
  <2>4. profiles' = [profiles EXCEPT ![a0] = new] /\ profiles \in [Aliases -> Row \cup {Null}]
    BY <1>11 DEF CreateFlush, TypeOK
  <2>5. new # Null /\ new.user = rq[r].user
    <3>1. next_id \in RowIds
      BY <1>11, <2>2, LimitsType DEF CreateFlush, ChecksStillHold, Flushing, TypeOK, RowIds
    <3>2. new \in Row
      BY <2>2, <3>1 DEF Row
    <3>3. QED
      BY <3>2, NullIsFresh
  <2> HIDE DEF new, a0
  <2>6. CASE rq[r].user = u
    <3>1. Owned(u)' = Owned(u) \cup {a0} /\ a0 \notin Owned(u)
      BY <2>2, <2>3, <2>4, <2>5, <2>6 DEF Owned
    <3>2. r \in Pending(u)
      BY <1>11, <2>6 DEF CreateFlush, Pending
    <3>3. QED
      BY <2>1, <2>2, <3>1, <3>2 DEF a0
  <2>7. CASE rq[r].user # u
    BY <2>1, <2>2, <2>3, <2>4, <2>5, <2>7 DEF Owned
  <2>8. QED
    BY <2>6, <2>7
<1>12. QED
  BY <1>1, <1>2, <1>5, <1>6, <1>7, <1>8, <1>9, <1>10, <1>11 DEF Next, Step

\* Although create checks the quota before it inserts, a user never owns more
\* aliases than the quota allows plus the other requests in flight: every
\* request past the check is counted before its row is.
THEOREM QuotaOvershoot == Spec => []QuotaOvershootBounded
<1>1. Init => QuotaInv
  <2> SUFFICES ASSUME Init, NEW u \in Users
               PROVE  Cardinality(Owned(u)) + Cardinality(Pending(u))
                        <= MaxAliasesFree + Cardinality(Requests) - 1
    BY DEF QuotaInv
  <2>1. Owned(u) = {} /\ Pending(u) = {}
    BY DEF Init, Owned, Pending
  <2>2. QED
    BY <2>1, FS_EmptySet, QuotaSets, LimitsType
<1>2. IInv /\ QuotaInv /\ [Next]_vars => QuotaInv'
  <2> SUFFICES ASSUME IInv, QuotaInv, [Next]_vars, NEW u \in Users
               PROVE  Cardinality(Owned(u)') + Cardinality(Pending(u)')
                        <= MaxAliasesFree + Cardinality(Requests) - 1
    BY DEF QuotaInv
  <2>0. Cardinality(Owned(u)) + Cardinality(Pending(u))
          <= MaxAliasesFree + Cardinality(Requests) - 1
    BY DEF QuotaInv
  <2>1. CASE Owned(u)' \subseteq Owned(u) /\ Pending(u)' \subseteq Pending(u)
    BY <2>0, <2>1, QuotaShrinks
  <2>2. CASE Owned(u)' = Owned(u) /\ ~QuotaReached(u)
    BY <2>2, QuotaSets, QuotaSetsNext, LimitsType DEF QuotaReached
  <2>3. ASSUME NEW r \in Pending(u), NEW a \in Aliases \ Owned(u),
               Owned(u)' = Owned(u) \cup {a}, Pending(u)' = Pending(u) \ {r}
        PROVE  Cardinality(Owned(u)') + Cardinality(Pending(u)')
                 <= MaxAliasesFree + Cardinality(Requests) - 1
    <3>1. Cardinality(Owned(u) \cup {a}) = Cardinality(Owned(u)) + 1
      BY QuotaSets, FS_AddElement
    <3>2. Cardinality(Pending(u) \ {r}) = Cardinality(Pending(u)) - 1
      BY QuotaSets, FS_RemoveElement
    <3>3. QED
      BY <2>0, <2>3, <3>1, <3>2, QuotaSets, LimitsType
  <2>4. QED
    BY <2>1, <2>2, <2>3, QuotaStep
<1>3. QuotaInv => QuotaOvershootBounded
  BY QuotaSets, LimitsType DEF QuotaInv, QuotaOvershootBounded
<1>4. QED
  BY <1>1, <1>2, <1>3, Invariance, PTL DEF Spec

\* The quota of create as documented, where requests do not overlap: only the
\* gap between its count and its INSERT lets a user own more.
THEOREM QuotaAlone ==
    ASSUME \A r, s \in Requests : r = s
    PROVE  Spec => []QuotaRespected
<1>1. Cardinality(Requests) = 1
  <2>1. PICK r \in Requests : TRUE
    BY RequestsFinite
  <2>2. Requests = {r}
    BY <2>1
  <2>3. QED
    BY <2>2, FS_Singleton
<1>2. QuotaOvershootBounded => QuotaRespected
  BY <1>1, QuotaSets, LimitsType DEF QuotaOvershootBounded, QuotaRespected
<1>3. QED
  BY <1>2, QuotaOvershoot, PTL

-----------------------------------------------------------------------------
(* Nobody waits in a circle.  ENABLED is out of the prover's reach: Ready(r)   *)
(* is the guard of Step(r), and NoWaitCycle, with ENABLED, is checked by TLC.  *)

\* What the next statement of request r waits for is there.
Ready(r) ==
    \/ pc[r] # "idle" /\ r \notin conn /\ Cardinality(conn) < PoolSize
    \/ pc[r] \in {"list_select", "get_select", "create_count", "put_select", "delete_select"}
       /\ CanRead(r)
    \/ pc[r] \in {"create_insert", "delete_exec"} /\ CanWrite(r)
    \/ pc[r] \in {"put_update", "put_created", "put_commit"}
    \/ pc[r] \in {"create_flush", "put_flush", "delete_flush"} /\ CanFlush(r)

\* A connection is held for a statement: an idle slot has none.
ConnectionsInUse == \A r \in conn : pc[r] # "idle"

\* A step for a request is taken only when the request is ready.
LEMMA StepsAreReady == ASSUME NEW r \in Requests, Step(r) PROVE Ready(r)
BY DEF Step, Ready, Acquire, ListSelect, GetSelect, CreateCount, CreateInsert, CreateFlush,
       PutSelect, PutUpdate, PutCreatedAt, PutCommit, PutFlush,
       DeleteSelect, DeleteExec, DeleteFlush

\* A handler that ends gives its connection back, and one that goes on keeps busy.
LEMMA ConnectionsStep == TypeOK /\ ConnectionsInUse /\ [Next]_vars => ConnectionsInUse'
<1> SUFFICES ASSUME TypeOK, ConnectionsInUse, [Next]_vars PROVE ConnectionsInUse'
  OBVIOUS
<1> USE DEF ConnectionsInUse
<1>0. pc \in [Requests -> Steps \cup {"idle"}] /\ conn \subseteq Requests
  BY DEF TypeOK
<1>1. CASE UNCHANGED vars
  BY <1>1 DEF vars
<1>2. ASSUME NEW r \in Requests, NEW status, Answer(r, status) PROVE ConnectionsInUse'
  BY <1>0, <1>2 DEF Answer
<1>3. ASSUME NEW r \in Requests, NEW next, next # "idle", GoOn(r, next) \/ GoOnUnpooled(r, next)
      PROVE  ConnectionsInUse'
  BY <1>0, <1>3 DEF GoOn, GoOnUnpooled
<1>4. ASSUME NEW r \in Requests, Start(r) PROVE ConnectionsInUse'
  <2>1. PICK request \in Request : Arrive(r, request)
    BY <1>4 DEF Start
  <2>2. FirstStep(request.op) # "idle"
    BY FirstStepType DEF Steps, PutTx
  <2>3. QED
    BY <1>0, <2>1, <2>2 DEF Arrive
<1>5. ASSUME NEW r \in Requests, Refuse(r) \/ Acquire(r) PROVE ConnectionsInUse'
  BY <1>0, <1>5 DEF Refuse, Acquire
<1>6. ASSUME NEW r \in Requests,
             ListSelect(r) \/ GetSelect(r) \/ DbError(r) \/ Disconnect(r)
             \/ CreateFlush(r) \/ PutFlush(r) \/ DeleteFlush(r)
      PROVE  ConnectionsInUse'
  BY <1>2, <1>6 DEF ListSelect, GetSelect, DbError, Disconnect, CreateFlush, PutFlush, DeleteFlush
<1>7. ASSUME NEW r \in Requests,
             CreateCount(r) \/ CreateInsert(r) \/ PutUpdate(r) \/ PutCreatedAt(r) \/ PutCommit(r)
             \/ DeleteSelect(r) \/ DeleteExec(r)
      PROVE  ConnectionsInUse'
  BY <1>2, <1>3, <1>7 DEF CreateCount, CreateInsert, PutUpdate, PutCreatedAt, PutCommit,
                          DeleteSelect, DeleteExec
<1>8. ASSUME NEW r \in Requests, PutSelect(r) PROVE ConnectionsInUse'
  BY <1>0, <1>2, <1>8 DEF PutSelect
<1>9. QED
  BY <1>1, <1>4, <1>5, <1>6, <1>7, <1>8 DEF Next, Step

\* Whatever connections and locks the requests in flight hold, the next statement
\* of one of them can run: a writer about to commit waits only for transactions
\* that are not waiting, a connection is never kept while another is asked for,
\* and without transactions whoever has a connection can use it.
THEOREM SomebodyIsReady ==
    Spec => []((\E r \in Requests : pc[r] # "idle") => \E r \in Requests : Ready(r))
<1> DEFINE Busy == \E r \in Requests : pc[r] # "idle"
           Moves == \E r \in Requests : Ready(r)
<1>1. Init => ConnectionsInUse
  BY DEF Init, ConnectionsInUse
<1>2. IInv /\ ConnectionsInUse /\ [Next]_vars => ConnectionsInUse'
  BY ConnectionsStep DEF IInv
<1>3. IInv /\ ConnectionsInUse => (Busy => Moves)
  <2> SUFFICES ASSUME TypeOK, OneWriter, ConnectionsInUse, NEW r \in Requests, pc[r] # "idle"
               PROVE  Moves
    BY DEF IInv
  <2>0. pc \in [Requests -> Steps \cup {"idle"}] /\ conn \subseteq Requests
    BY DEF TypeOK
  <2>1. CASE \E s \in InTx : pc[s] # "put_flush"
    BY <2>1 DEF InTx, PutTx, Ready
  <2>2. CASE Flushing # {} /\ \A s \in InTx : pc[s] = "put_flush"
    <3>1. PICK f \in Flushing : TRUE
      BY <2>2
    <3>2. InTx \subseteq Flushing
      BY <2>2 DEF InTx, Flushing
    <3>3. CanFlush(f)
      BY <3>2 DEF OneWriter, Writers, CanFlush
    <3>4. QED
      BY <3>3 DEF Flushing, Ready
  <2>3. CASE Flushing = {} /\ InTx = {}
    <3>1. Writers = {}
      BY <2>3 DEF Writers, InTx, PutTx
    <3>2. CASE conn = {}
      <4>1. Cardinality(conn) < PoolSize
        BY <3>2, FS_EmptySet, LimitsType
      <4>2. QED
        BY <3>2, <4>1 DEF Ready
    <3>3. CASE conn # {}
      <4>1. PICK s \in conn : TRUE
        BY <3>3
      <4>2. pc[s] \in Steps /\ s \in Requests
        BY <2>0 DEF ConnectionsInUse
      <4>3. pc[s] \notin PutTx \cup {"create_flush", "delete_flush"}
        BY <2>3, <4>2 DEF InTx, Flushing
      <4>4. CanRead(s) /\ CanWrite(s)
        BY <2>3, <3>1 DEF CanRead, CanWrite
      <4>5. QED
        BY <4>2, <4>3, <4>4 DEF Steps, Ready
    <3>4. QED
      BY <3>2, <3>3
  <2>4. QED
    BY <2>1, <2>2, <2>3 DEF Flushing, InTx, PutTx
<1>4. QED
  BY <1>1, <1>2, <1>3, Invariance, PTL DEF Spec
=============================================================================
