--------------------------- MODULE LifecycleProofs ---------------------------
(***************************************************************************)
(* Theorems about Lifecycle, for any number of connections, starts of the  *)
(* server and enrollments.  That shutdown completes is liveness and not    *)
(* among them.                                                             *)
(***************************************************************************)
EXTENDS Lifecycle, TLAPS

-----------------------------------------------------------------------------
(* The inductive invariant *)

\* A process past from_env holds the key of its environment, which was accepted;
\* past the connection it has warned if that is what the environment asks for.
ProcessOK ==
    /\ phase # "stopped" => starts # 0
    /\ phase \notin {"stopped", "configuring"} => key = read_or_generate_totp_key /\ ~Rejected
    /\ phase \in {"binding", "serving", "draining"} => warned = totp_master_key_was_random

\* What was enrolled under a configured key is under that key, whichever process
\* did it; without a setting there was a warning; and the file keeps its rows.
EnrolledOK ==
    \A s \in enrolled :
        /\ s.setting # "malformed"
        /\ s.setting \in {"k1", "k2"} => s.key = [setting |-> s.setting, start |-> 0]
        /\ s.setting = "unset" => s.warned
        /\ s.db = "file" => s \in rows["file"]

IInv == TypeOK /\ ProcessOK /\ EnrolledOK

-----------------------------------------------------------------------------
(* Every step *)

\* Databases of a process.
Dbs == {"file", "memory"}

\* The key that from_env makes, and the settings it lets through.
LEMMA KeyOfProcess ==
    ASSUME TypeOK, starts # 0, ~Rejected
    PROVE  /\ read_or_generate_totp_key \in Keys
           /\ env.key \in {"unset", "non_unicode", "k1", "k2"}
           /\ env.key \in {"k1", "k2"}
              => read_or_generate_totp_key = [setting |-> env.key, start |-> 0]
<1>1. env.key \in {"unset", "non_unicode", "malformed", "k1", "k2"}
  BY DEF TypeOK, Environment, KeySettings
<1>2. env.key \in {"unset", "non_unicode", "k1", "k2"}
  BY <1>1 DEF Rejected, generates
<1>3. starts \in 1..MaxStarts
  BY LifecycleBounds DEF TypeOK
<1>4. CASE generates
  BY <1>3, <1>4 DEF read_or_generate_totp_key, Keys, generates
<1>5. CASE ~generates
  BY <1>2, <1>5 DEF read_or_generate_totp_key, Keys, generates
<1>6. QED
  BY <1>2, <1>4, <1>5

\* The end of a process: the memory is gone, the file and its rows stay.
LEMMA StopStep ==
    ASSUME IInv, NEW code \in {0, 2, 3, 4, Null}, Stop(code)
    PROVE  IInv'
<1>1. /\ phase' = "stopped" /\ exit' = code /\ migrated' = FALSE
      /\ pc' = [r \in Requests |-> "idle"]
      /\ rows' = [rows EXCEPT !["memory"] = {}]
      /\ UNCHANGED <<env, starts, key, warned, enrolled>>
  BY DEF Stop, process
<1>2. rows'["file"] = rows["file"] /\ rows' \in [Dbs -> SUBSET Seeds]
  BY <1>1 DEF IInv, TypeOK, Dbs
<1>3. TypeOK'
  <2>1. migrated' \in BOOLEAN
    BY <1>1, Zenon
  <2>2. QED
    BY <1>1, <1>2, <2>1 DEF IInv, TypeOK, Phases, ConnectionStates, Dbs
<1>4. ProcessOK'
  BY <1>1 DEF ProcessOK
<1>5. EnrolledOK'
  BY <1>1, <1>2 DEF IInv, EnrolledOK
<1>6. QED
  BY <1>3, <1>4, <1>5 DEF IInv

\* A process that goes on from phase to phase keeps the data.
LEMMA PhaseStep ==
    ASSUME IInv, Start \/ FromEnv \/ Connect \/ Bind \/ shutdown_signal
    PROVE  IInv'
<1>1. UNCHANGED <<data, pc, exit>>
  BY DEF Start, FromEnv, Connect, Bind, shutdown_signal
<1>2. EnrolledOK'
  BY <1>1 DEF IInv, EnrolledOK, data
<1>3. CASE Start
  <2>1. /\ env' \in Environment /\ phase' = "configuring" /\ phase = "stopped"
        /\ starts' \in 0..MaxStarts /\ starts' # 0
        /\ key' = Null /\ UNCHANGED migrated
    BY <1>3, LifecycleBounds DEF Start, IInv, TypeOK
  <2>2. warned' \in BOOLEAN
    BY <1>3, Zenon DEF Start
  <2>3. TypeOK'
    BY <1>1, <2>1, <2>2 DEF IInv, TypeOK, Phases, data
  <2>4. ProcessOK'
    BY <2>1 DEF ProcessOK
  <2>5. QED
    BY <1>2, <2>3, <2>4 DEF IInv
<1>4. CASE FromEnv
  <2>1. /\ phase = "configuring" /\ phase' = "connecting" /\ ~Rejected
        /\ key' = read_or_generate_totp_key
        /\ UNCHANGED <<env, starts, warned, migrated>>
    BY <1>4 DEF FromEnv
  <2>2. TypeOK /\ starts # 0
    BY <2>1 DEF IInv, ProcessOK
  <2>3. key' \in Keys
    BY <2>1, <2>2, KeyOfProcess
  <2>4. TypeOK'
    BY <1>1, <2>1, <2>2, <2>3 DEF TypeOK, Phases, data
  <2>5. ProcessOK'
    BY <2>1, <2>2 DEF ProcessOK, read_or_generate_totp_key, Rejected, generates
  <2>6. QED
    BY <1>2, <2>4, <2>5 DEF IInv
<1>5. CASE Connect
  <2>1. /\ phase = "connecting" /\ phase' = "binding"
        /\ UNCHANGED <<env, starts, key>>
    BY <1>5 DEF Connect
  <2>2. migrated' \in BOOLEAN
    BY <1>5, Zenon DEF Connect
  <2>3. warned' = (env.key = "unset")
    BY <1>5 DEF Connect, totp_master_key_was_random
  <2>4. warned' \in BOOLEAN
    BY <2>3
  <2>5. TypeOK'
    BY <1>1, <2>1, <2>2, <2>4 DEF IInv, TypeOK, Phases, data
  <2>6. ProcessOK'
    BY <2>1, <2>3 DEF IInv, ProcessOK, read_or_generate_totp_key, Rejected, generates,
                      totp_master_key_was_random
  <2>7. QED
    BY <1>2, <2>5, <2>6 DEF IInv
<1>6. CASE Bind \/ shutdown_signal
  <2>1. /\ \/ phase = "binding" /\ phase' = "serving"
           \/ phase = "serving" /\ phase' = "draining"
        /\ UNCHANGED <<env, starts, key, warned, migrated>>
    BY <1>6 DEF Bind, shutdown_signal, process
  <2>2. TypeOK'
    BY <1>1, <2>1 DEF IInv, TypeOK, Phases, data
  <2>3. ProcessOK'
    BY <2>1 DEF IInv, ProcessOK, read_or_generate_totp_key, Rejected, generates,
                totp_master_key_was_random
  <2>4. QED
    BY <1>2, <2>2, <2>3 DEF IInv
<1>7. QED
  BY <1>3, <1>4, <1>5, <1>6

\* Connections change nothing but their slot.
LEMMA ConnectionStep ==
    ASSUME IInv, NEW r \in Requests, Accept(r) \/ Received(r) \/ Responded(r) \/ HangUp(r)
    PROVE  IInv'
<1>1. UNCHANGED <<env, starts, key, warned, phase, exit, migrated, rows, enrolled>>
  BY DEF Accept, Received, Responded, HangUp, process, data
<1>2. /\ phase \in {"serving", "draining"}
      /\ pc' \in [Requests -> ConnectionStates]
  BY DEF Accept, Received, Responded, HangUp, At, IInv, TypeOK, ConnectionStates
<1>3. TypeOK'
  BY <1>1, <1>2 DEF IInv, TypeOK
<1>4. ProcessOK' /\ EnrolledOK'
  BY <1>1 DEF IInv, ProcessOK, EnrolledOK, read_or_generate_totp_key, Rejected, generates,
              totp_master_key_was_random
<1>5. QED
  BY <1>3, <1>4 DEF IInv

\* A row carries the key, the setting and the warning of its process, and goes
\* with its enrollment.
LEMMA HandleStep ==
    ASSUME IInv, NEW r \in Requests, Handle(r)
    PROVE  IInv'
<1>1. /\ pc[r] = "handling"
      /\ pc' = [pc EXCEPT ![r] = "responding"]
      /\ UNCHANGED <<env, starts, key, warned, phase, exit, migrated>>
  BY DEF Handle, HandleEnroll, HandleDisable, HandleOther, HandlerEnds, At, process
<1>2. /\ phase \in {"serving", "draining"}
      /\ pc' \in [Requests -> ConnectionStates]
  BY <1>1 DEF IInv, TypeOK, ConnectionStates
<1>3. ProcessOK'
  BY <1>1 DEF IInv, ProcessOK, read_or_generate_totp_key, Rejected, generates,
              totp_master_key_was_random
<1>4. CASE UNCHANGED data
  <2>1. TypeOK' /\ EnrolledOK'
    BY <1>1, <1>2, <1>4 DEF IInv, TypeOK, EnrolledOK, data
  <2>2. QED
    BY <1>3, <2>1 DEF IInv
<1>5. ASSUME NEW id \in 1..MaxSeeds, NEW row,
             row = [id |-> id, key |-> key, db |-> env.db,
                    setting |-> env.key, warned |-> warned],
             enrolled' = enrolled \cup {row},
             rows' = [rows EXCEPT ![env.db] = @ \cup {row}]
      PROVE  IInv'
  <2>1. /\ TypeOK /\ starts # 0 /\ ~Rejected /\ key = read_or_generate_totp_key
        /\ warned = totp_master_key_was_random
    BY <1>2 DEF IInv, ProcessOK
  <2>2. /\ key \in Keys
        /\ env.key \in {"unset", "non_unicode", "k1", "k2"}
        /\ env.key \in {"k1", "k2"} => key = [setting |-> env.key, start |-> 0]
        /\ env.db \in Dbs /\ warned \in BOOLEAN
        /\ env.key = "unset" => warned
    BY <2>1, KeyOfProcess DEF TypeOK, Environment, Dbs, totp_master_key_was_random
  <2>3. row \in Seeds
    BY <1>5, <2>2 DEF Seeds, KeySettings, Dbs
  <2>4. /\ row.setting = env.key /\ row.key = key /\ row.db = env.db /\ row.warned = warned
    BY <1>5
  <2>5. /\ rows' \in [Dbs -> SUBSET Seeds]
        /\ rows["file"] \subseteq rows'["file"]
        /\ row \in rows'[env.db]
    BY <1>5, <2>1, <2>2, <2>3 DEF TypeOK, Dbs
  <2>6. TypeOK'
    BY <1>1, <1>2, <1>5, <2>1, <2>3, <2>5 DEF TypeOK, Dbs
  <2>7. EnrolledOK'
    <3>1. ASSUME NEW s \in enrolled
          PROVE  /\ s.setting # "malformed"
                 /\ s.setting \in {"k1", "k2"} => s.key = [setting |-> s.setting, start |-> 0]
                 /\ s.setting = "unset" => s.warned
                 /\ s.db = "file" => s \in rows'["file"]
      BY <2>5, <3>1 DEF IInv, EnrolledOK
    <3>2. /\ row.setting # "malformed"
          /\ row.setting \in {"k1", "k2"} => row.key = [setting |-> row.setting, start |-> 0]
          /\ row.setting = "unset" => row.warned
          /\ row.db = "file" => row \in rows'["file"]
      BY <2>2, <2>4, <2>5
    <3>3. QED
      BY <1>5, <3>1, <3>2 DEF EnrolledOK
  <2>8. QED
    BY <1>3, <2>6, <2>7 DEF IInv
<1>6. ASSUME NEW s \in rows[env.db],
             enrolled' = enrolled \ {s}, rows' = [rows EXCEPT ![env.db] = @ \ {s}]
      PROVE  IInv'
  <2>1. env.db \in Dbs
    BY DEF IInv, TypeOK, Environment, Dbs
  <2>2. /\ rows' \in [Dbs -> SUBSET Seeds]
        /\ \A x \in rows["file"] : x # s => x \in rows'["file"]
    BY <1>6, <2>1 DEF IInv, TypeOK, Dbs
  <2>3. TypeOK'
    BY <1>1, <1>2, <1>6, <2>2 DEF IInv, TypeOK, Dbs
  <2>4. EnrolledOK'
    BY <1>6, <2>2 DEF IInv, EnrolledOK
  <2>5. QED
    BY <1>3, <2>3, <2>4 DEF IInv
<1>7. QED
  BY <1>4, <1>5, <1>6 DEF Handle, HandleEnroll, HandleDisable, HandleOther

\* The pool may lose the in-memory database, and no other.
LEMMA ReapStep ==
    ASSUME IInv, ReapLast
    PROVE  IInv'
<1>1. /\ rows' = [rows EXCEPT !["memory"] = {}]
      /\ UNCHANGED <<env, starts, key, warned, phase, exit, enrolled, pc>>
  BY DEF ReapLast, process
<1>2. rows'["file"] = rows["file"] /\ rows' \in [Dbs -> SUBSET Seeds]
  BY <1>1 DEF IInv, TypeOK, Dbs
<1>3. migrated' \in BOOLEAN
  BY Zenon DEF ReapLast
<1>4. TypeOK'
  BY <1>1, <1>2, <1>3 DEF IInv, TypeOK, Dbs
<1>5. ProcessOK' /\ EnrolledOK'
  BY <1>1, <1>2 DEF IInv, ProcessOK, EnrolledOK, read_or_generate_totp_key, Rejected,
                    generates, totp_master_key_was_random
<1>6. QED
  BY <1>4, <1>5 DEF IInv

\* Every step keeps the invariant.
LEMMA IInvStep == IInv /\ [Next]_vars => IInv'
<1> SUFFICES ASSUME IInv, [Next]_vars PROVE IInv'
  OBVIOUS
<1>1. CASE UNCHANGED vars
  BY <1>1 DEF IInv, TypeOK, ProcessOK, EnrolledOK, read_or_generate_totp_key, Rejected,
              generates, totp_master_key_was_random, vars, process, data
<1>2. CASE ConfigError \/ DbConnectError \/ BindError \/ Drained \/ Crash
  BY <1>2, StopStep DEF ConfigError, DbConnectError, BindError, Drained, Crash
<1>3. QED
  BY <1>1, <1>2, PhaseStep, ConnectionStep, HandleStep, ReapStep DEF Next

\* No process has run yet.
LEMMA InitInv == Init => IInv
<1> SUFFICES ASSUME Init PROVE IInv
  OBVIOUS
<1>1. warned \in BOOLEAN /\ migrated \in BOOLEAN
  BY Zenon DEF Init
<1>2. TypeOK
  BY <1>1, LifecycleBounds DEF Init, TypeOK, Phases, ConnectionStates
<1>3. QED
  BY <1>2 DEF Init, IInv, ProcessOK, EnrolledOK

-----------------------------------------------------------------------------
(* Theorems *)

\* The invariant holds in every reachable state.
THEOREM Invariance == Spec => []IInv
BY InitInv, IInvStep, PTL DEF Spec

\* main and its connections keep their types; a process that does not serve has
\* no connection.
THEOREM TypeCorrect == Spec => []TypeOK
<1>1. IInv => TypeOK
  BY DEF IInv
<1>2. QED
  BY <1>1, Invariance, PTL

\* Over any number of restarts in any environments, a stored seed is lost to the
\* running server only for a reason the operator could know of, or by a key
\* that is not Unicode.
THEOREM LossesAreExplained == Spec => []LossIsExplained
<1>1. IInv => LossIsExplained
  <2>1. SUFFICES ASSUME IInv, phase \in {"serving", "draining"}, NEW s \in enrolled,
                        s.db # "memory", env.db = s.db, env.key = s.setting,
                        ~s.warned, s.setting # "non_unicode"
                 PROVE  s \in rows[env.db] /\ s.key = key
    BY DEF LossIsExplained, Readable
  <2>2. s \in Seeds
    BY <2>1 DEF IInv, TypeOK
  <2>3. s.db = "file" /\ s.setting \in KeySettings
    BY <2>1, <2>2 DEF Seeds
  <2>4. s.setting \in {"k1", "k2"} /\ s \in rows["file"]
    BY <2>1, <2>3 DEF IInv, EnrolledOK, KeySettings
  <2>5. s.key = [setting |-> s.setting, start |-> 0]
    BY <2>1, <2>4 DEF IInv, EnrolledOK
  <2>6. key = [setting |-> env.key, start |-> 0]
    BY <2>1, <2>4, KeyOfProcess DEF IInv, ProcessOK
  <2>7. QED
    BY <2>1, <2>3, <2>4, <2>5, <2>6
<1>2. QED
  BY <1>1, Invariance, PTL
=============================================================================
