------------------------------ MODULE BlobStore ------------------------------
(***************************************************************************)
(* What the profile endpoints promise their clients: one global namespace  *)
(* of aliases in which every request is served in ONE step.  An alias is   *)
(* free, or it belongs to one user and carries the latest uploaded blob    *)
(* and the number of uploads made so far.                                  *)
(*                                                                         *)
(* Profiles, where a request is several SQL statements interleaved with    *)
(* those of other requests, is shown to implement this specification: each *)
(* request takes effect, and gets the response that goes with the effect,  *)
(* in a single step between its arrival and its response.                  *)
(***************************************************************************)
EXTENDS Naturals, FiniteSets

CONSTANTS
    Requests, Users, Aliases, Bodies,
    BodyLen,          \* length of a body
    MaxAliasesFree,   \* aliases an account may own
    Calls,            \* what a client may ask: [op, user, alias, body, expected]
    Null

VARIABLES
    store,      \* store[a]: [user, version, blob] of alias a, Null when a is free
    call,       \* call[r]: the request in slot r, Null when it has been served
    answer      \* the response of the last step, Null if it sent none

vars == <<store, call, answer>>

Init ==
    /\ store = [a \in Aliases |-> Null]
    /\ call = [r \in Requests |-> Null]
    /\ answer = Null

-----------------------------------------------------------------------------
Serve(r, status) ==
    /\ call' = [call EXCEPT ![r] = Null]
    /\ answer' = [to |-> r, status |-> status]

\* Serve the request with a response that changes nothing.
ServeOnly(r, status) == Serve(r, status) /\ UNCHANGED store

Taken(a) == store[a] # Null
Owns(u, a) == store[a] # Null /\ store[a].user = u

Arrive(r) ==
    /\ call[r] = Null
    /\ \E c \in Calls : call' = [call EXCEPT ![r] = c]
    /\ answer' = Null
    /\ UNCHANGED store

\* The request does not get as far as the store.
Refuse(r) ==
    /\ call[r] = Null
    /\ \E status \in {"unauthorized", "invalid", "too_large"} :
          answer' = [to |-> r, status |-> status]
    /\ UNCHANGED <<store, call>>

\* The last response is on its way: nobody refers to it any more.
Deliver ==
    /\ answer' = Null
    /\ UNCHANGED <<store, call>>

List(r, c) ==
    /\ c.op = "list"
    /\ ServeOnly(r, "ok")

Get(r, c) ==
    /\ c.op = "get"
    /\ \/ ~Taken(c.alias) /\ ServeOnly(r, "not_found")
       \/ Taken(c.alias) /\ ~Owns(c.user, c.alias) /\ ServeOnly(r, "forbidden")
       \/ /\ Owns(c.user, c.alias)
          /\ LET blob == store[c.alias].blob IN
             IF blob = Null \/ BodyLen[blob] = 0
             THEN ServeOnly(r, "no_blob")
             ELSE ServeOnly(r, "ok")

\* A user who owns enough aliases is refused; the promise is one-sided, a
\* user may be served although the quota has been reached meanwhile.
Create(r, c) ==
    /\ c.op = "create"
    /\ \/ /\ Cardinality({a \in Aliases : Owns(c.user, a)}) >= MaxAliasesFree
          /\ ServeOnly(r, "forbidden")
       \/ Taken(c.alias) /\ ServeOnly(r, "conflict")
       \/ /\ ~Taken(c.alias)
          /\ store' = [store EXCEPT ![c.alias] =
                          [user |-> c.user, version |-> 0, blob |-> Null]]
          /\ Serve(r, "created")

\* Compare-and-swap on the version, by the owner.
Put(r, c) ==
    /\ c.op = "put"
    /\ \/ ~Taken(c.alias) /\ ServeOnly(r, "not_found")
       \/ Taken(c.alias) /\ ~Owns(c.user, c.alias) /\ ServeOnly(r, "forbidden")
       \/ /\ Owns(c.user, c.alias)
          /\ store[c.alias].version # c.expected
          /\ ServeOnly(r, "conflict")
       \/ /\ Owns(c.user, c.alias)
          /\ store[c.alias].version = c.expected
          /\ store' = [store EXCEPT ![c.alias] =
                [user |-> c.user, version |-> c.expected + 1, blob |-> c.body]]
          /\ Serve(r, "ok")

\* A 200 says that the alias is not the user's (any more).
Delete(r, c) ==
    /\ c.op = "delete"
    /\ \/ ~Taken(c.alias) /\ ServeOnly(r, "not_found")
       \/ Taken(c.alias) /\ ~Owns(c.user, c.alias) /\ ServeOnly(r, "forbidden")
       \/ /\ Owns(c.user, c.alias)
          /\ store' = [store EXCEPT ![c.alias] = Null]
          /\ Serve(r, "ok")
       \/ ~Owns(c.user, c.alias) /\ ServeOnly(r, "ok")

\* A request that fails, or whose client left, has had no effect.
Fail(r) == \E status \in {"server_error", "dropped"} : ServeOnly(r, status)

Served(r) ==
    /\ call[r] # Null
    /\ \/ List(r, call[r]) \/ Get(r, call[r]) \/ Create(r, call[r])
       \/ Put(r, call[r]) \/ Delete(r, call[r])
       \/ Fail(r)

Next == Deliver \/ \E r \in Requests : Arrive(r) \/ Refuse(r) \/ Served(r)

Spec == Init /\ [][Next]_vars
=============================================================================
