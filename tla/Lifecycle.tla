------------------------------ MODULE Lifecycle ------------------------------
(***************************************************************************)
(* The life of the server process (src/src/main.rs, src/src/config.rs and  *)
(* Database::connect): configuration, start, service, graceful shutdown,   *)
(* crash and restart, and what becomes of the TOTP seeds that enroll       *)
(* stores under the key of the process.  axum::serve returns no error, so  *)
(* exit code 5 is not reached.  Logging is left out, save the warning.     *)
(***************************************************************************)
EXTENDS Naturals

CONSTANTS
    Requests,       \* connections (slots, reused)
    MaxStarts,      \* bound: starts of the process
    MaxSeeds,       \* bound: enrollments
    Null

ASSUME LifecycleBounds == MaxStarts \in Nat /\ MaxSeeds \in Nat

VARIABLES
    env,            \* the environment of the current or last process
    phase,          \* where main is
    exit,           \* exit code of the last process, Null if it was killed
    starts,         \* processes started so far
    key,            \* totp_master_key
    warned,         \* this process printed the warning about its key
    migrated,       \* the database of the process has its tables
    rows,           \* totp_secrets in the file and in memory
    enrolled,       \* history: every enrollment made and not disabled
    pc              \* per connection: idle, receiving (the request), handling,
                    \* responding (the answer is being sent)

process == <<env, starts, key, warned>>
data    == <<rows, enrolled>>
vars    == <<process, phase, exit, migrated, data, pc>>

-----------------------------------------------------------------------------
(* Types *)

\* ZZDROP_TOTP_KEY: unset, not Unicode, not base64 of 32 bytes (the empty string
\* is one such), or one of two keys.
KeySettings == {"unset", "non_unicode", "malformed", "k1", "k2"}

\* `parses': the address and the two limits parse, where they are set.
Environment == [parses : BOOLEAN, db : {"file", "memory"}, key : KeySettings]

\* A random key is named by the process that drew it.
Keys == [setting : {"k1", "k2"}, start : {0}] \cup [setting : {"random"}, start : 1..MaxStarts]

\* A row, with the setting and the warning of the process that wrote it.
Seeds == [id : 1..MaxSeeds, key : Keys, db : {"file", "memory"},
          setting : KeySettings, warned : BOOLEAN]

ConnectionStates == {"idle", "receiving", "handling", "responding"}

Phases == {"stopped", "configuring", "connecting", "binding", "serving", "draining"}

\* One conjunct per variable; a process that has stopped has no connections.
TypeOK ==
    /\ env \in Environment
    /\ phase \in Phases
    /\ exit \in {0, 2, 3, 4, Null}
    /\ starts \in 0..MaxStarts
    /\ key \in Keys \cup {Null}
    /\ warned \in BOOLEAN /\ migrated \in BOOLEAN
    /\ rows \in [{"file", "memory"} -> SUBSET Seeds]
    /\ enrolled \subseteq Seeds
    /\ pc \in [Requests -> ConnectionStates]
    /\ phase \notin {"serving", "draining"} => \A r \in Requests : pc[r] = "idle"

Init ==
    /\ env \in Environment
    /\ phase = "stopped"
    /\ exit = Null
    /\ starts = 0
    /\ key = Null
    /\ warned = FALSE /\ migrated = FALSE
    /\ rows = [d \in {"file", "memory"} |-> {}]
    /\ enrolled = {}
    /\ pc = [r \in Requests |-> "idle"]

-----------------------------------------------------------------------------
(* from_env *)

\* Mutant: what cannot be decoded is treated as unset.
generatesLenient == env.key \in {"unset", "non_unicode", "malformed"}

\* env::var is an error for a variable that is not Unicode.
generates == env.key \in {"unset", "non_unicode"}

read_or_generate_totp_key ==
    IF generates THEN [setting |-> "random", start |-> starts]
                 ELSE [setting |-> env.key, start |-> 0]

\* env::var_os takes any text.
totp_master_key_was_random == env.key = "unset"

\* The settings that make from_env fail; so may the random generator.
Rejected == ~env.parses \/ (env.key = "malformed" /\ ~generates)

-----------------------------------------------------------------------------
(* main *)

\* The process is gone, and with it the in-memory database.
Stop(code) ==
    /\ phase' = "stopped"
    /\ exit' = code
    /\ pc' = [r \in Requests |-> "idle"]
    /\ migrated' = FALSE
    /\ rows' = [rows EXCEPT !["memory"] = {}]
    /\ UNCHANGED <<process, enrolled>>

\* The operator starts the server, in an environment of their choice.
Start ==
    /\ phase = "stopped" /\ starts < MaxStarts
    /\ env' \in Environment
    /\ phase' = "configuring"
    /\ starts' = starts + 1
    /\ key' = Null /\ warned' = FALSE
    /\ UNCHANGED <<exit, migrated, data, pc>>

FromEnv ==
    /\ phase = "configuring"
    /\ ~Rejected
    /\ phase' = "connecting"
    /\ key' = read_or_generate_totp_key
    /\ UNCHANGED <<env, starts, warned, exit, migrated, data, pc>>

ConfigError ==
    /\ phase = "configuring"
    /\ Rejected \/ generates
    /\ Stop(2)

\* Database::connect with the migrations, then the warning; the address is not
\* bound yet.
Connect ==
    /\ phase = "connecting"
    /\ phase' = "binding"
    /\ migrated' = TRUE
    /\ warned' = totp_master_key_was_random
    /\ UNCHANGED <<env, starts, key, exit, data, pc>>

DbConnectError == phase = "connecting" /\ Stop(3)

Bind ==
    /\ phase = "binding"
    /\ phase' = "serving"
    /\ UNCHANGED <<process, exit, migrated, data, pc>>

BindError == phase = "binding" /\ Stop(4)

\* SIGINT or SIGTERM; from now on neither has an effect.
shutdown_signal ==
    /\ phase = "serving"
    /\ phase' = "draining"
    /\ UNCHANGED <<process, exit, migrated, data, pc>>

\* Mutant: main returns on the signal.
DrainedAtOnce == phase = "draining" /\ UNCHANGED pc /\ exit' = 0 /\ phase' = "stopped"
                 /\ UNCHANGED <<process, migrated, data>>

\* Graceful shutdown waits for the connections that are open.
Drained ==
    /\ phase = "draining"
    /\ \A r \in Requests : pc[r] = "idle"
    /\ Stop(0)

Crash == phase # "stopped" /\ Stop(Null)

-----------------------------------------------------------------------------
(* Requests *)

At(r, step) == pc[r] = step

\* Mutant: connections are accepted while the server drains.
AcceptAlways(r) ==
    /\ phase \in {"serving", "draining"} /\ At(r, "idle")
    /\ pc' = [pc EXCEPT ![r] = "receiving"]
    /\ UNCHANGED <<process, phase, exit, migrated, data>>

Accept(r) ==
    /\ phase = "serving" /\ At(r, "idle")
    /\ pc' = [pc EXCEPT ![r] = "receiving"]
    /\ UNCHANGED <<process, phase, exit, migrated, data>>

\* The client has sent its request, body and all.
Received(r) ==
    /\ At(r, "receiving")
    /\ pc' = [pc EXCEPT ![r] = "handling"]
    /\ UNCHANGED <<process, phase, exit, migrated, data>>

\* A handler returns; its answer is still to be sent.
HandlerEnds(r) ==
    /\ At(r, "handling")
    /\ pc' = [pc EXCEPT ![r] = "responding"]
    /\ UNCHANGED <<process, phase, exit, migrated>>

\* enroll has stored a seed under the key of the process.
HandleEnroll(r) ==
    /\ HandlerEnds(r)
    /\ migrated
    /\ \E id \in 1..MaxSeeds :
          LET row == [id |-> id, key |-> key, db |-> env.db,
                      setting |-> env.key, warned |-> warned]
          IN  /\ \A s \in enrolled : s.id # id
              /\ enrolled' = enrolled \cup {row}
              /\ rows' = [rows EXCEPT ![env.db] = @ \cup {row}]

\* disable has deleted a seed, readable or not: a recovery code is enough.
HandleDisable(r) ==
    /\ HandlerEnds(r)
    /\ \E s \in rows[env.db] :
          /\ enrolled' = enrolled \ {s}
          /\ rows' = [rows EXCEPT ![env.db] = @ \ {s}]

HandleOther(r) == HandlerEnds(r) /\ UNCHANGED data

Handle(r) == HandleEnroll(r) \/ HandleDisable(r) \/ HandleOther(r)

\* The client has taken the whole response; no timeout makes it.
Responded(r) ==
    /\ At(r, "responding")
    /\ pc' = [pc EXCEPT ![r] = "idle"]
    /\ UNCHANGED <<process, phase, exit, migrated, data>>

\* The client closes the connection; a handler's future is dropped with it.
HangUp(r) ==
    /\ ~At(r, "idle")
    /\ pc' = [pc EXCEPT ![r] = "idle"]
    /\ UNCHANGED <<process, phase, exit, migrated, data>>

\* The pool closes connections that are idle or old, its default; the last one
\* takes the in-memory database with it, and the next one opens an empty one.
ReapLast ==
    /\ phase \in {"serving", "draining"} /\ env.db = "memory"
    /\ \A r \in Requests : ~At(r, "handling")
    /\ migrated' = FALSE
    /\ rows' = [rows EXCEPT !["memory"] = {}]
    /\ UNCHANGED <<process, phase, exit, enrolled, pc>>

-----------------------------------------------------------------------------
(* Specification *)

Next ==
    \/ Start \/ FromEnv \/ ConfigError \/ Connect \/ DbConnectError \/ Bind \/ BindError
    \/ shutdown_signal \/ Drained \/ Crash \/ ReapLast
    \/ \E r \in Requests : Accept(r) \/ Received(r) \/ Handle(r) \/ Responded(r) \/ HangUp(r)

\* tokio runs main and the handlers that have their request, whose statements
\* time out.  Clients owe nothing: neither to send, nor to read, nor to hang up.
Fairness == WF_vars(Drained) /\ \A r \in Requests : WF_vars(Handle(r))

Spec == Init /\ [][Next]_vars /\ Fairness

-----------------------------------------------------------------------------
(* Properties *)

\* decrypt_seed of a row that is still there.
Readable(s) == s \in rows[env.db] /\ s.key = key

\* An enrollment is lost to the server that is running only if it was made in
\* memory, or another database or key is configured now, or the process that
\* took it had warned that its key was not kept, or ZZDROP_TOTP_KEY was set
\* to text that is not Unicode, which takes a random key and does not warn.
LossIsExplained ==
    phase \in {"serving", "draining"} =>
        \A s \in enrolled :
            \/ Readable(s)
            \/ s.db = "memory" \/ env.db # s.db \/ env.key # s.setting
            \/ s.warned \/ s.setting = "non_unicode"

\* After the signal main returns, provided that no client stays for ever in the
\* middle of its request or of its response: there is a timeout on neither.
ShutdownCompletes ==
    (\A r \in Requests : []<>(pc[r] \notin {"receiving", "responding"}))
    => (phase = "draining" ~> phase = "stopped")
=============================================================================
