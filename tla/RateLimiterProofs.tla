------------------------- MODULE RateLimiterProofs -------------------------
(***************************************************************************)
(* Proofs about RateLimiter, for any number of requests, any limit and any *)
(* window.                                                                 *)
(***************************************************************************)
EXTENDS RateLimiter, FiniteSetTheorems, TLAPS

LEMMA TypeStep == TypeOK /\ [Next]_vars => TypeOK'
<1> SUFFICES ASSUME TypeOK, [Next]_vars PROVE TypeOK'
  OBVIOUS
<1> USE RateLimiterAssumption DEF TypeOK, ReqRec, PC
<1>1. ASSUME NEW r \in Request, Stamp(r) PROVE TypeOK'
  BY <1>1 DEF Stamp
<1>2. ASSUME NEW r \in Request, Trim(r) PROVE TypeOK'
  BY <1>2 DEF Trim
<1>3. ASSUME NEW r \in Request, Count(r) PROVE TypeOK'
  <2>1. Cardinality(members) \in Nat
    BY FS_Subset, FS_CardinalityType
  <2>2. Recorded \subseteq Request
    BY DEF Recorded
  <2> QED BY <1>3, <2>1, <2>2 DEF Count
<1>4. ASSUME NEW r \in Request, Add(r) PROVE TypeOK'
  BY <1>4 DEF Add
<1>5. ASSUME NEW r \in Request, Expire(r) PROVE TypeOK'
  BY <1>5 DEF Expire
<1>6. ASSUME NEW r \in Request, FailOpen(r) PROVE TypeOK'
  BY <1>6 DEF FailOpen, Fails
<1>7. CASE RedisLoses
  BY <1>7 DEF RedisLoses, Fails
<1>8. CASE Tick
  BY <1>8 DEF Tick, InFlight
<1>9. CASE UNCHANGED vars
  BY <1>9 DEF vars
<1> QED BY <1>1, <1>2, <1>3, <1>4, <1>5, <1>6, <1>7, <1>8, <1>9 DEF Next

\* The state is well typed, for whatever requests, limit and window.
THEOREM TypeCorrect == Spec => []TypeOK
<1>1. Init => TypeOK
  BY RateLimiterAssumption DEF Init, TypeOK, ReqRec, PC
<1> QED BY <1>1, TypeStep, PTL DEF Spec

-----------------------------------------------------------------------------
(* The invariant behind RefusedIsJust and LimitExact.                      *)

\* Stamps are of the past, and of the last window while the pipeline goes on.
Timely ==
  \A r \in Request : req[r].pc # "new" =>
    /\ req[r].stamp <= clock
    /\ r \in InFlight => clock < req[r].stamp + Window
    /\ r \in InFlight \ spanned => clock = req[r].stamp

\* The set holds recorded requests only, and after Trim only those of the window: a
\* request that comes in between is no older than a window either.
Trimmed ==
  /\ members \subseteq Recorded
  /\ \A r \in Request : req[r].pc = "count" =>
       \A q \in members : req[q].stamp + Window > req[r].stamp

\* What was recorded without delay is in the set for a window.
Kept ==
  failures = 0 =>
    \A q \in Recorded \ spanned : clock < req[q].stamp + Window =>
      /\ q \in members
      /\ req[q].pc = "expire" \/ expires = 0 \/ expires >= req[q].stamp + Window

\* A count lies between the undelayed and all the requests of the window.
Counted ==
  \A r \in Request :
    /\ before[r] \subseteq Recorded
    /\ req[r].pc \in {"add", "expire", "refused"} =>
         req[r].count <= Cardinality(InWindowOf(r, before[r]))
    /\ failures = 0 /\ req[r].pc \in {"add", "expire", "allowed"} /\ r \notin spanned =>
         Cardinality(InWindowOf(r, before[r] \ spanned)) <= req[r].count

Judged ==
  \A r \in Request :
    /\ req[r].pc = "refused" => req[r].count >= Limit
    /\ req[r].pc = "allowed" /\ failures = 0 => req[r].count < Limit

LimiterInv == TypeOK /\ Timely /\ Trimmed /\ Kept /\ Counted /\ Judged

LEMMA InitInv == Init => LimiterInv
<1> SUFFICES ASSUME Init PROVE LimiterInv
  OBVIOUS
<1>1. TypeOK
  BY RateLimiterAssumption DEF Init, TypeOK, ReqRec, PC
<1> QED
  BY <1>1 DEF Init, LimiterInv, Timely, Trimmed, Kept, Counted, Judged, Recorded

\* A smaller set of requests has fewer in the window.
LEMMA WindowMonotone ==
  ASSUME NEW r \in Request, NEW A \in SUBSET Request, NEW B \in SUBSET A
  PROVE  /\ Cardinality(InWindowOf(r, B)) <= Cardinality(InWindowOf(r, A))
         /\ Cardinality(InWindowOf(r, A)) \in Nat
         /\ Cardinality(InWindowOf(r, B)) \in Nat
<1>1. InWindowOf(r, A) \subseteq Request /\ InWindowOf(r, B) \subseteq InWindowOf(r, A)
  BY DEF InWindowOf
<1>2. IsFiniteSet(InWindowOf(r, A))
  BY <1>1, FS_Subset, RateLimiterAssumption
<1>3. IsFiniteSet(InWindowOf(r, B))
  BY <1>1, <1>2, FS_Subset
<1> QED BY <1>1, <1>2, <1>3, FS_Subset, FS_CardinalityType

LEMMA TimelyStep == LimiterInv /\ [Next]_vars => Timely'
<1> SUFFICES ASSUME LimiterInv, [Next]_vars PROVE Timely'
  OBVIOUS
<1> USE RateLimiterAssumption DEF LimiterInv, TypeOK, ReqRec, PC, Timely, InFlight
<1>1. ASSUME NEW r \in Request, Stamp(r) PROVE Timely'
  BY <1>1 DEF Stamp
<1>2. ASSUME NEW r \in Request, Trim(r) PROVE Timely'
  BY <1>2 DEF Trim
<1>3. ASSUME NEW r \in Request, Count(r) PROVE Timely'
  BY <1>3 DEF Count
<1>4. ASSUME NEW r \in Request, Add(r) PROVE Timely'
  BY <1>4 DEF Add
<1>5. ASSUME NEW r \in Request, Expire(r) PROVE Timely'
  BY <1>5 DEF Expire
<1>6. ASSUME NEW r \in Request, FailOpen(r) PROVE Timely'
  BY <1>6 DEF FailOpen, Fails
<1>7. CASE RedisLoses
  BY <1>7 DEF RedisLoses, Fails
<1>8. CASE Tick
  BY <1>8 DEF Tick
<1>9. CASE UNCHANGED vars
  BY <1>9 DEF vars
<1> QED BY <1>1, <1>2, <1>3, <1>4, <1>5, <1>6, <1>7, <1>8, <1>9 DEF Next

LEMMA TrimmedStep == LimiterInv /\ [Next]_vars => Trimmed'
<1> SUFFICES ASSUME LimiterInv, [Next]_vars PROVE Trimmed'
  OBVIOUS
<1> USE RateLimiterAssumption DEF LimiterInv, TypeOK, ReqRec, PC, Trimmed, Recorded
<1>1. ASSUME NEW r \in Request, Stamp(r) PROVE Trimmed'
  BY <1>1 DEF Stamp
<1>2. ASSUME NEW r \in Request, Trim(r) PROVE Trimmed'
  BY <1>2 DEF Trim
<1>3. ASSUME NEW r \in Request, Count(r) PROVE Trimmed'
  BY <1>3 DEF Count
<1>4. ASSUME NEW r \in Request, Add(r) PROVE Trimmed'
  BY <1>4 DEF Add, Timely, InFlight
<1>5. ASSUME NEW r \in Request, Expire(r) PROVE Trimmed'
  BY <1>5 DEF Expire
<1>6. ASSUME NEW r \in Request, FailOpen(r) PROVE Trimmed'
  BY <1>6 DEF FailOpen, Fails
<1>7. CASE RedisLoses
  BY <1>7 DEF RedisLoses, Fails
<1>8. CASE Tick
  BY <1>8 DEF Tick
<1>9. CASE UNCHANGED vars
  BY <1>9 DEF vars
<1> QED BY <1>1, <1>2, <1>3, <1>4, <1>5, <1>6, <1>7, <1>8, <1>9 DEF Next

LEMMA KeptStep == LimiterInv /\ [Next]_vars => Kept'
<1> SUFFICES ASSUME LimiterInv, [Next]_vars PROVE Kept'
  OBVIOUS
<1> USE RateLimiterAssumption DEF LimiterInv, TypeOK, ReqRec, PC, Kept, Recorded
<1>1. ASSUME NEW r \in Request, Stamp(r) PROVE Kept'
  BY <1>1 DEF Stamp
<1>2. ASSUME NEW r \in Request, Trim(r) PROVE Kept'
  BY <1>2 DEF Trim, Timely
<1>3. ASSUME NEW r \in Request, Count(r) PROVE Kept'
  BY <1>3 DEF Count
<1>4. ASSUME NEW r \in Request, Add(r) PROVE Kept'
  BY <1>4 DEF Add
<1>5. ASSUME NEW r \in Request, Expire(r) PROVE Kept'
  BY <1>5 DEF Expire, Timely
<1>6. ASSUME NEW r \in Request, FailOpen(r) PROVE Kept'
  BY <1>6 DEF FailOpen, Fails
<1>7. CASE RedisLoses
  BY <1>7 DEF RedisLoses, Fails
<1>8. CASE Tick
  BY <1>8 DEF Tick, InFlight
<1>9. CASE UNCHANGED vars
  BY <1>9 DEF vars
<1> QED BY <1>1, <1>2, <1>3, <1>4, <1>5, <1>6, <1>7, <1>8, <1>9 DEF Next

\* What a request counts is at least the undelayed and at most all requests of its window.
LEMMA CountIsBetween ==
  ASSUME LimiterInv, NEW r \in Request, req[r].pc = "count"
  PROVE  /\ Cardinality(members) <= Cardinality(InWindowOf(r, Recorded))
         /\ failures = 0 /\ r \notin spanned =>
              Cardinality(InWindowOf(r, Recorded \ spanned)) <= Cardinality(members)
<1> USE RateLimiterAssumption DEF LimiterInv, TypeOK, ReqRec, PC
<1>1. members \subseteq InWindowOf(r, Recorded)
  BY DEF Trimmed, InWindowOf, Recorded
<1>2. InWindowOf(r, Recorded) \subseteq Request
  BY DEF InWindowOf, Recorded
<1>3. IsFiniteSet(InWindowOf(r, Recorded)) /\ IsFiniteSet(members)
  BY <1>2, FS_Subset
<1>4. ASSUME failures = 0, r \notin spanned PROVE InWindowOf(r, Recorded \ spanned) \subseteq members
  <2>1. clock = req[r].stamp
    BY <1>4 DEF Timely, InFlight
  <2> QED BY <1>4, <2>1 DEF Kept, InWindowOf, Recorded
<1> QED BY <1>1, <1>3, <1>4, FS_Subset

\* A step that leaves stamps of recorded requests, counts and places after ZCARD alone.
LEMMA CountedQuiet ==
  ASSUME LimiterInv,
         \A r \in Request : before'[r] = before[r],
         Recorded \subseteq Recorded',
         \A r \in Recorded : req'[r].stamp = req[r].stamp,
         spanned \subseteq spanned' /\ spanned' \subseteq Request,
         failures' = 0 => failures = 0,
         \A r \in Request : req'[r].pc \in {"add", "expire", "refused"} =>
           /\ req[r].pc \in {"add", "expire", "refused"}
           /\ req[r].pc = "refused" => req'[r].pc = "refused"
           /\ req'[r].count = req[r].count /\ req'[r].stamp = req[r].stamp,
         \A r \in Request : req'[r].pc = "allowed" /\ failures' = 0 =>
           /\ req[r].pc \in {"add", "expire", "allowed"}
           /\ req'[r].count = req[r].count /\ req'[r].stamp = req[r].stamp,
         req' \in [Request -> ReqRec]
  PROVE  Counted'
<1> SUFFICES ASSUME NEW r \in Request
             PROVE  /\ before'[r] \subseteq Recorded'
                    /\ req'[r].pc \in {"add", "expire", "refused"} =>
                         req'[r].count <= Cardinality(InWindowOf(r, before[r])')
                    /\ failures' = 0 /\ req'[r].pc \in {"add", "expire", "allowed"}
                         /\ r \notin spanned' =>
                         Cardinality(InWindowOf(r, before[r] \ spanned)') <= req'[r].count
  BY DEF Counted
<1> USE DEF LimiterInv
<1>1. before[r] \subseteq Recorded /\ Recorded \subseteq Request
  BY DEF Counted, Recorded
<1>2. before'[r] \subseteq Recorded'
  BY <1>1
<1>3. ASSUME req'[r].stamp = req[r].stamp
      PROVE  /\ InWindowOf(r, before[r])' = InWindowOf(r, before[r])
             /\ InWindowOf(r, before[r] \ spanned)' = InWindowOf(r, before[r] \ spanned')
  BY <1>1, <1>3 DEF InWindowOf
<1>4. ASSUME req'[r].pc \in {"add", "expire", "refused"}
      PROVE  req'[r].count <= Cardinality(InWindowOf(r, before[r])')
  BY <1>3, <1>4 DEF Counted
<1>5. ASSUME failures' = 0, req'[r].pc \in {"add", "expire", "allowed"}, r \notin spanned'
      PROVE  Cardinality(InWindowOf(r, before[r] \ spanned)') <= req'[r].count
  <2>1. /\ req[r].pc \in {"add", "expire", "allowed"} /\ r \notin spanned /\ failures = 0
        /\ req'[r].count = req[r].count /\ req'[r].stamp = req[r].stamp
    <3>1. CASE req'[r].pc = "allowed"
      BY <3>1, <1>5
    <3>2. CASE req'[r].pc \in {"add", "expire"}
      BY <3>2, <1>5 DEF TypeOK
    <3> QED BY <3>1, <3>2, <1>5
  <2>2. Cardinality(InWindowOf(r, before[r] \ spanned)) <= req[r].count
    BY <2>1 DEF Counted
  <2>3. Cardinality(InWindowOf(r, before[r] \ spanned')) <=
          Cardinality(InWindowOf(r, before[r] \ spanned))
    BY <1>1, WindowMonotone
  <2>4. /\ req[r].count \in Nat
        /\ Cardinality(InWindowOf(r, before[r] \ spanned)) \in Nat
        /\ Cardinality(InWindowOf(r, before[r] \ spanned')) \in Nat
    BY <1>1, WindowMonotone DEF TypeOK, ReqRec
  <2> QED BY <1>3, <2>1, <2>2, <2>3, <2>4
<1> QED BY <1>2, <1>4, <1>5

LEMMA CountedStep == LimiterInv /\ [Next]_vars => Counted'
<1> SUFFICES ASSUME LimiterInv, [Next]_vars PROVE Counted'
  OBVIOUS
<1> USE RateLimiterAssumption DEF LimiterInv
<1>0. TypeOK'
  BY TypeStep
<1>1. ASSUME NEW r \in Request, Stamp(r) PROVE Counted'
  BY <1>0, <1>1, CountedQuiet DEF Stamp, TypeOK, ReqRec, PC, Recorded
<1>2. ASSUME NEW r \in Request, Trim(r) PROVE Counted'
  BY <1>0, <1>2, CountedQuiet DEF Trim, TypeOK, ReqRec, PC, Recorded
<1>3. ASSUME NEW r \in Request, Count(r) PROVE Counted'
  <2>1. Recorded' = Recorded
    BY <1>3 DEF Count, Recorded, TypeOK, ReqRec, PC
  <2>2. ASSUME NEW q \in Request
        PROVE  /\ InWindowOf(q, Recorded)' = InWindowOf(q, Recorded)
               /\ InWindowOf(q, Recorded \ spanned)' = InWindowOf(q, Recorded \ spanned)
               /\ q # r => /\ InWindowOf(q, before[q])' = InWindowOf(q, before[q])
                           /\ InWindowOf(q, before[q] \ spanned)' =
                                InWindowOf(q, before[q] \ spanned)
    BY <1>3, <2>1 DEF Count, InWindowOf, Recorded, Counted, TypeOK, ReqRec, PC
  <2>3. ASSUME NEW q \in Request, q # r
        PROVE  /\ before'[q] = before[q] /\ req'[q] = req[q]
               /\ failures' = failures /\ spanned' = spanned
    BY <1>3, <2>3 DEF Count, TypeOK
  <2>4. /\ before'[r] = Recorded /\ req'[r].count = Cardinality(members)
        /\ req[r].pc = "count" /\ failures' = failures /\ spanned' = spanned
    BY <1>3 DEF Count, TypeOK, ReqRec, Recorded
  <2>5. ASSUME NEW q \in Request, q # r
        PROVE  /\ before'[q] \subseteq Recorded'
               /\ req'[q].pc \in {"add", "expire", "refused"} =>
                    req'[q].count <= Cardinality(InWindowOf(q, before[q])')
               /\ failures' = 0 /\ req'[q].pc \in {"add", "expire", "allowed"}
                    /\ q \notin spanned' =>
                    Cardinality(InWindowOf(q, before[q] \ spanned)') <= req'[q].count
    BY <2>1, <2>2, <2>3, <2>5 DEF Counted
  <2>6. /\ InWindowOf(r, before[r])' = InWindowOf(r, Recorded)'
        /\ InWindowOf(r, before[r] \ spanned)' = InWindowOf(r, Recorded \ spanned)'
    BY <2>1, <2>4 DEF InWindowOf
  <2>7. /\ before'[r] \subseteq Recorded'
        /\ req'[r].count <= Cardinality(InWindowOf(r, before[r])')
        /\ failures' = 0 /\ r \notin spanned' =>
             Cardinality(InWindowOf(r, before[r] \ spanned)') <= req'[r].count
    BY <2>1, <2>2, <2>4, <2>6, CountIsBetween
  <2> QED BY <2>5, <2>7 DEF Counted
<1>4. ASSUME NEW r \in Request, Add(r) PROVE Counted'
  BY <1>0, <1>4, CountedQuiet DEF Add, TypeOK, ReqRec, PC, Recorded
<1>5. ASSUME NEW r \in Request, Expire(r) PROVE Counted'
  BY <1>0, <1>5, CountedQuiet DEF Expire, TypeOK, ReqRec, PC, Recorded
<1>6. ASSUME NEW r \in Request, FailOpen(r) PROVE Counted'
  BY <1>0, <1>6, CountedQuiet DEF FailOpen, Fails, TypeOK, ReqRec, PC, Recorded
<1>7. CASE RedisLoses
  BY <1>0, <1>7, CountedQuiet DEF RedisLoses, Fails, TypeOK, ReqRec, PC, Recorded
<1>8. CASE Tick
  BY <1>0, <1>8, CountedQuiet DEF Tick, TypeOK, ReqRec, PC, Recorded
<1>9. CASE UNCHANGED vars
  BY <1>0, <1>9, CountedQuiet DEF vars, TypeOK, ReqRec, PC, Recorded
<1> QED BY <1>1, <1>2, <1>3, <1>4, <1>5, <1>6, <1>7, <1>8, <1>9 DEF Next

LEMMA JudgedStep == LimiterInv /\ [Next]_vars => Judged'
<1> SUFFICES ASSUME LimiterInv, [Next]_vars PROVE Judged'
  OBVIOUS
<1> USE RateLimiterAssumption DEF LimiterInv, TypeOK, ReqRec, PC, Judged
<1>1. ASSUME NEW r \in Request, Stamp(r) PROVE Judged'
  BY <1>1 DEF Stamp
<1>2. ASSUME NEW r \in Request, Trim(r) PROVE Judged'
  BY <1>2 DEF Trim
<1>3. ASSUME NEW r \in Request, Count(r) PROVE Judged'
  BY <1>3 DEF Count
<1>4. ASSUME NEW r \in Request, Add(r) PROVE Judged'
  BY <1>4 DEF Add
<1>5. ASSUME NEW r \in Request, Expire(r) PROVE Judged'
  BY <1>5 DEF Expire
<1>6. ASSUME NEW r \in Request, FailOpen(r) PROVE Judged'
  BY <1>6 DEF FailOpen, Fails
<1>7. CASE RedisLoses
  BY <1>7 DEF RedisLoses, Fails
<1>8. CASE Tick
  BY <1>8 DEF Tick
<1>9. CASE UNCHANGED vars
  BY <1>9 DEF vars
<1> QED BY <1>1, <1>2, <1>3, <1>4, <1>5, <1>6, <1>7, <1>8, <1>9 DEF Next

LEMMA LimiterInvariant == Spec => []LimiterInv
<1>1. LimiterInv /\ [Next]_vars => LimiterInv'
  BY TypeStep, TimelyStep, TrimmedStep, KeptStep, CountedStep, JudgedStep DEF LimiterInv
<1> QED BY <1>1, InitInv, PTL DEF Spec

\* Nobody is refused for what lies outside the window, however pipelines interleave and
\* whatever of them fails.
THEOREM RefusalsAreJust == Spec => []RefusedIsJust
<1>1. LimiterInv => RefusedIsJust
  <2> SUFFICES ASSUME LimiterInv, NEW r \in Request, req[r].pc = "refused"
               PROVE  Cardinality(InWindowOf(r, before[r])) >= Limit
    BY DEF RefusedIsJust
  <2>1. req[r].count >= Limit /\ req[r].count <= Cardinality(InWindowOf(r, before[r]))
    BY DEF LimiterInv, Judged, Counted
  <2>2. req[r].count \in Nat /\ Cardinality(InWindowOf(r, before[r])) \in Nat
    BY WindowMonotone DEF LimiterInv, TypeOK, ReqRec
  <2> QED BY <2>1, <2>2, RateLimiterAssumption
<1> QED BY <1>1, LimiterInvariant, PTL

\* An allowed request has counted every undelayed request of its window.
THEOREM LimitIsExact == Spec => []LimitExact
<1>1. LimiterInv => LimitExact
  <2> SUFFICES ASSUME LimiterInv, NEW r \in Request, req[r].pc = "allowed",
                      r \notin spanned, failures = 0
               PROVE  Cardinality(InWindowOf(r, before[r] \ spanned)) < Limit
    BY DEF LimitExact
  <2>1. /\ req[r].count < Limit
        /\ Cardinality(InWindowOf(r, before[r] \ spanned)) <= req[r].count
    BY DEF LimiterInv, Judged, Counted
  <2>2. req[r].count \in Nat /\ Cardinality(InWindowOf(r, before[r] \ spanned)) \in Nat
    BY WindowMonotone DEF LimiterInv, TypeOK, ReqRec
  <2> QED BY <2>1, <2>2, RateLimiterAssumption
<1> QED BY <1>1, LimiterInvariant, PTL
=============================================================================
