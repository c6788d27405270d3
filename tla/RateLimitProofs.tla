--------------------------- MODULE RateLimitProofs ---------------------------
(***************************************************************************)
(* Proofs about RateLimit, for every number of concurrent attempts, every  *)
(* limit and every window.  The bound on the failures of a window is not   *)
(* inductive: an attempt that has passed rate_limit_check will add one.    *)
(* The invariant counts such attempts with the failures they may become.   *)
(***************************************************************************)
EXTENDS RateLimit, FiniteSetTheorems, TLAPS

\* Attempts between rate_limit_check and rate_limit_record.
Busy == {r \in Requests : pc[r] # "idle"}

Bound == Limit + Cardinality(Requests) - 1

\* Failures recorded and failures to come.
CountInv == /\ IsFiniteSet(failures)
            /\ Cardinality(failures) + Cardinality(Busy) <= Bound

\* No failure that still counts has been pruned.
PruneInv == InWindow \subseteq failures

\* Every failure in the Vec is one that was recorded.
RecordInv == failures \subseteq wrong

IInv == TypeOK /\ CountInv /\ PruneInv /\ RecordInv

-----------------------------------------------------------------------------

\* Numbers of requests and of failures.
LEMMA Counts ==
    ASSUME IsFiniteSet(failures)
    PROVE  /\ Cardinality(Requests) \in Nat /\ Bound \in Nat
           /\ IsFiniteSet(Busy) /\ Cardinality(Busy) \in Nat
           /\ Cardinality(Busy) <= Cardinality(Requests)
           /\ Cardinality(failures) \in Nat
<1>1. Cardinality(Requests) \in Nat /\ Cardinality(Requests) # 0
  BY LimiterConstants, FS_CardinalityType, FS_EmptySet
<1>2. Bound \in Nat
  BY <1>1, LimiterConstants DEF Bound
<1>3. Busy \in SUBSET Requests
  BY DEF Busy
<1>4. IsFiniteSet(Busy) /\ Cardinality(Busy) <= Cardinality(Requests)
  BY <1>3, LimiterConstants, FS_Subset
<1>5. QED
  BY <1>1, <1>2, <1>4, FS_CardinalityType

\* The counting part survives a step that removes failures or attempts.
LEMMA CountShrinks ==
    ASSUME CountInv, failures' \subseteq failures, Busy' \subseteq Busy
    PROVE  CountInv'
<1>1. IsFiniteSet(failures) /\ IsFiniteSet(Busy)
  BY Counts DEF CountInv
<1>2. IsFiniteSet(failures') /\ Cardinality(failures') <= Cardinality(failures)
  BY <1>1, FS_Subset
<1>3. IsFiniteSet(Busy') /\ Cardinality(Busy') <= Cardinality(Busy)
  BY <1>1, FS_Subset
<1>4. Cardinality(failures') \in Nat /\ Cardinality(Busy') \in Nat
  BY <1>2, <1>3, FS_CardinalityType
<1>5. QED
  BY <1>1, <1>2, <1>3, <1>4, Counts DEF CountInv, Bound

\* saturating_sub is monotone in its first argument.
LEMMA SaturatingSub ==
    ASSUME NEW w \in Nat, NEW m \in Nat, NEW n \in Nat, m <= n
    PROVE  /\ (IF m >= w THEN m - w ELSE 0) \in Nat
           /\ (IF n >= w THEN n - w ELSE 0) \in Nat
           /\ (IF m >= w THEN m - w ELSE 0) <= (IF n >= w THEN n - w ELSE 0)
OBVIOUS

\* The start of the window never moves back.
LEMMA CutoffMonotone ==
    ASSUME now \in Nat, now' \in {now, now + 1}
    PROVE  cutoff \in Nat /\ cutoff' \in Nat /\ cutoff <= cutoff'
<1>1. now' \in Nat /\ now <= now' /\ Window \in Nat
  BY LimiterConstants
<1>2. QED
  BY <1>1, SaturatingSub DEF cutoff

\* The types of the limiter's state are kept by every step.
LEMMA TypeStep == TypeOK /\ [Next]_vars => TypeOK'
<1> SUFFICES ASSUME TypeOK, [Next]_vars
             PROVE  TypeOK'
  OBVIOUS
<1>1. CASE Tick
  BY <1>1 DEF Tick, TypeOK
<1>2. ASSUME NEW r \in Requests, rate_limit_check(r)
      PROVE  TypeOK'
  BY <1>2 DEF rate_limit_check, retained, TypeOK
<1>3. ASSUME NEW r \in Requests, Verified(r)
      PROVE  TypeOK'
  BY <1>3 DEF Verified, TypeOK
<1>4. ASSUME NEW r \in Requests, rate_limit_record(r)
      PROVE  TypeOK'
  <2>1. PICK id \in Ids : /\ failures' = failures \cup {[at |-> now, id |-> id]}
                          /\ wrong' = wrong \cup {[at |-> now, id |-> id]}
    BY <1>4 DEF rate_limit_record
  <2>2. [at |-> now, id |-> id] \in Failure
    BY DEF TypeOK, Failure
  <2>3. QED
    BY <1>4, <2>1, <2>2 DEF rate_limit_record, TypeOK
<1>5. ASSUME NEW r \in Requests, Disconnect(r)
      PROVE  TypeOK'
  BY <1>5 DEF Disconnect, TypeOK
<1>6. CASE UNCHANGED vars
  BY <1>6 DEF vars, TypeOK
<1>7. QED
  BY <1>1, <1>2, <1>3, <1>4, <1>5, <1>6 DEF Next

\* Every failure is counted from the moment its attempt passes the check.
LEMMA CountStep == TypeOK /\ CountInv /\ [Next]_vars => CountInv'
<1> SUFFICES ASSUME TypeOK, CountInv, [Next]_vars
             PROVE  CountInv'
  OBVIOUS
<1>1. CASE Tick \/ UNCHANGED vars
  <2>1. failures' \subseteq failures /\ Busy' \subseteq Busy
    BY <1>1 DEF Tick, vars, Busy
  <2>2. QED
    BY <2>1, CountShrinks
<1>2. ASSUME NEW r \in Requests, rate_limit_check(r)
      PROVE  CountInv'
  <2>1. failures' \in SUBSET failures /\ failures' = retained
    BY <1>2 DEF rate_limit_check, retained
  <2>2. CASE ~allows
    <3>1. Busy' \subseteq Busy
      BY <1>2, <2>2 DEF rate_limit_check, TypeOK, Busy
    <3>2. QED
      BY <2>1, <3>1, CountShrinks
  <2>3. CASE allows
    <3>1. IsFiniteSet(failures')
      BY <2>1, FS_Subset DEF CountInv
    <3>2. Cardinality(failures') \in Nat /\ Cardinality(failures') < Limit
      BY <2>1, <2>3, <3>1, FS_CardinalityType DEF allows
    <3>3. Busy' \in SUBSET Requests
      BY DEF Busy
    <3>4. IsFiniteSet(Busy') /\ Cardinality(Busy') <= Cardinality(Requests)
      BY <3>3, LimiterConstants, FS_Subset
    <3>5. Cardinality(Busy') \in Nat /\ Cardinality(Requests) \in Nat
      BY <3>4, LimiterConstants, FS_CardinalityType
    <3>6. QED
      BY <3>1, <3>2, <3>4, <3>5, LimiterConstants DEF CountInv, Bound
  <2>4. QED
    BY <2>2, <2>3
<1>3. ASSUME NEW r \in Requests, Verified(r) \/ Disconnect(r)
      PROVE  CountInv'
  <2>1. failures' \subseteq failures /\ Busy' \subseteq Busy
    BY <1>3 DEF Verified, Disconnect, TypeOK, Busy
  <2>2. QED
    BY <2>1, CountShrinks
<1>4. ASSUME NEW r \in Requests, rate_limit_record(r)
      PROVE  CountInv'
  <2>1. PICK id \in Ids : failures' = failures \cup {[at |-> now, id |-> id]}
    BY <1>4 DEF rate_limit_record
  <2> DEFINE new == [at |-> now, id |-> id]
  <2> HIDE DEF new
  <2>2. failures' = failures \cup {new}
    BY <2>1 DEF new
  <2>3. IsFiniteSet(failures') /\ Cardinality(failures') <= Cardinality(failures) + 1
    <3>1. IsFiniteSet(failures) /\ Cardinality(failures) \in Nat
      BY Counts DEF CountInv
    <3>2. /\ IsFiniteSet(failures \cup {new})
          /\ Cardinality(failures \cup {new}) =
                IF new \in failures THEN Cardinality(failures) ELSE Cardinality(failures) + 1
      BY <3>1, FS_AddElement
    <3>3. QED
      BY <2>2, <3>1, <3>2
  <2>4. Busy' = Busy \ {r} /\ r \in Busy
    BY <1>4 DEF rate_limit_record, TypeOK, Busy
  <2>5. Cardinality(Busy') = Cardinality(Busy) - 1
    BY <2>4, FS_RemoveElement, Counts DEF CountInv
  <2>6. Cardinality(failures') \in Nat
    BY <2>3, FS_CardinalityType
  <2>7. QED
    BY <2>3, <2>5, <2>6, Counts DEF CountInv, Bound
<1>5. QED
  BY <1>1, <1>2, <1>3, <1>4 DEF Next

\* retain drops only what has left the window for good.
LEMMA PruneStep == TypeOK /\ PruneInv /\ [Next]_vars => PruneInv'
<1> SUFFICES ASSUME TypeOK, PruneInv, [Next]_vars
             PROVE  PruneInv'
  OBVIOUS
<1>1. cutoff \in Nat /\ cutoff' \in Nat /\ cutoff <= cutoff'
  <2>1. now \in Nat /\ now' \in {now, now + 1}
    BY DEF TypeOK, Next, Tick, rate_limit_check, Verified, rate_limit_record, Disconnect, vars
  <2>2. QED
    BY <2>1, CutoffMonotone
<1>2. \A f \in Failure : f.at \in Nat
  BY DEF Failure
<1>3. CASE wrong' = wrong /\ failures' = failures
  BY <1>1, <1>2, <1>3 DEF PruneInv, InWindow, TypeOK
<1>4. ASSUME NEW r \in Requests, rate_limit_check(r)
      PROVE  PruneInv'
  <2>1. wrong' = wrong /\ failures' = {f \in failures : f.at >= cutoff} /\ cutoff' = cutoff
    BY <1>4 DEF rate_limit_check, retained, cutoff
  <2>2. QED
    BY <1>1, <1>2, <2>1 DEF PruneInv, InWindow, TypeOK
<1>5. ASSUME NEW r \in Requests, rate_limit_record(r)
      PROVE  PruneInv'
  <2>1. PICK id \in Ids : /\ failures' = failures \cup {[at |-> now, id |-> id]}
                          /\ wrong' = wrong \cup {[at |-> now, id |-> id]}
    BY <1>5 DEF rate_limit_record
  <2>2. cutoff' = cutoff
    BY <1>5 DEF rate_limit_record, cutoff
  <2>3. QED
    BY <1>1, <1>2, <2>1, <2>2 DEF PruneInv, InWindow, TypeOK
<1>6. QED
  BY <1>3, <1>4, <1>5 DEF Next, Tick, Verified, Disconnect, vars

\* Nothing enters the Vec but what is recorded.
LEMMA RecordStep == RecordInv /\ [Next]_vars => RecordInv'
<1> SUFFICES ASSUME RecordInv, [Next]_vars
             PROVE  RecordInv'
  OBVIOUS
<1>1. CASE wrong' = wrong /\ failures' \subseteq failures
  BY <1>1 DEF RecordInv
<1>2. ASSUME NEW r \in Requests, rate_limit_check(r)
      PROVE  wrong' = wrong /\ failures' \subseteq failures
  BY <1>2 DEF rate_limit_check, retained
<1>3. ASSUME NEW r \in Requests, rate_limit_record(r)
      PROVE  RecordInv'
  <2>1. PICK id \in Ids : /\ failures' = failures \cup {[at |-> now, id |-> id]}
                          /\ wrong' = wrong \cup {[at |-> now, id |-> id]}
    BY <1>3 DEF rate_limit_record
  <2>2. QED
    BY <2>1 DEF RecordInv
<1>4. QED
  BY <1>1, <1>2, <1>3 DEF Next, Tick, Verified, Disconnect, vars

\* The limiter starts with the inductive invariant.
LEMMA InitInv == Init => IInv
<1> SUFFICES ASSUME Init
             PROVE  IInv
  OBVIOUS
<1>1. TypeOK /\ PruneInv /\ RecordInv
  BY DEF Init, TypeOK, PruneInv, InWindow, RecordInv
<1>2. failures = {} /\ Busy = {}
  BY DEF Init, Busy
<1>3. CountInv
  BY <1>2, FS_EmptySet, Counts DEF CountInv
<1>4. QED
  BY <1>1, <1>3 DEF IInv

-----------------------------------------------------------------------------

\* The inductive invariant holds in every reachable state of the limiter.
THEOREM LimiterInvariance == Spec => []IInv
<1>1. IInv /\ [Next]_vars => IInv'
  BY TypeStep, CountStep, PruneStep, RecordStep DEF IInv
<1>2. QED
  BY <1>1, InitInv, PTL DEF Spec

\* The types of rate_limit_check's and rate_limit_record's state.
THEOREM LimiterTypeCorrect == Spec => []TypeOK
<1>1. IInv => TypeOK
  BY DEF IInv
<1>2. QED
  BY <1>1, LimiterInvariance, PTL

\* rate_limit_check never prunes a failure that still counts, and the Vec it
\* keeps never grows beyond the limit and the other attempts in flight.
THEOREM VecStaysBounded == Spec => []VecBounded
<1>1. IInv => VecBounded
  BY Counts DEF IInv, CountInv, PruneInv, VecBounded, Bound
<1>2. QED
  BY <1>1, LimiterInvariance, PTL

\* However the attempts interleave between rate_limit_check and
\* rate_limit_record, a window holds at most the limit and the other attempts
\* in flight.
THEOREM Overshoot == Spec => []OvershootBounded
<1>1. IInv => OvershootBounded
  <2> SUFFICES ASSUME IInv
               PROVE  OvershootBounded
    OBVIOUS
  <2>1. InWindow \in SUBSET failures /\ IsFiniteSet(failures)
    BY DEF IInv, CountInv, PruneInv
  <2>2. IsFiniteSet(InWindow) /\ Cardinality(InWindow) <= Cardinality(failures)
    BY <2>1, FS_Subset
  <2>3. Cardinality(InWindow) \in Nat
    BY <2>2, FS_CardinalityType
  <2>4. QED
    BY <2>1, <2>2, <2>3, Counts DEF IInv, CountInv, OvershootBounded, Bound
<1>2. QED
  BY <1>1, LimiterInvariance, PTL

\* "5 failures per 15 minutes", where attempts do not overlap: only the gap
\* between rate_limit_check and rate_limit_record lets a window hold more.
THEOREM LimitAlone ==
    ASSUME \A r, s \in Requests : r = s
    PROVE  Spec => [](Cardinality(InWindow) <= Limit)
<1>1. Cardinality(Requests) = 1
  <2>1. PICK r \in Requests : TRUE
    BY LimiterConstants
  <2>2. Requests = {r}
    BY <2>1
  <2>3. QED
    BY <2>2, FS_Singleton
<1>2. OvershootBounded => Cardinality(InWindow) <= Limit
  BY <1>1, LimiterConstants DEF OvershootBounded
<1>3. QED
  BY <1>2, Overshoot, PTL

\* rate_limit_check lets an attempt in exactly when the window has room: the
\* failures it counts after pruning are those of the window.
THEOREM DecidesByWindow == Spec => []ChecksTheWindow
<1>1. IInv => ChecksTheWindow
  <2> SUFFICES ASSUME IInv
               PROVE  ChecksTheWindow
    OBVIOUS
  <2>1. retained = InWindow
    BY DEF IInv, PruneInv, RecordInv, InWindow, retained
  <2>2. QED
    BY <2>1 DEF ChecksTheWindow, allows
<1>2. QED
  BY <1>1, LimiterInvariance, PTL
=============================================================================
