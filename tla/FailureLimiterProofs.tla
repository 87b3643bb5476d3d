------------------------ MODULE FailureLimiterProofs -------------------------
(***************************************************************************)
(* For any addresses, any number of concurrent requests and all settings   *)
(* of the limiter: how far concurrent requests overshoot the limit, that a *)
(* settled block lasts, and that the failures of a window are remembered.  *)
(***************************************************************************)
EXTENDS FailureLimiter, FiniteSetTheorems, TLAPS

(* Requests that may still report a failure of k. *)
Pending(k) == {w \in InFlight(k) : pc[w] # "reset"}

Bound == maxFailures - 1 + Cardinality(Workers)

Bounded == \A k \in DOMAIN records : records[k].failures + Cardinality(Pending(k)) <= Bound

(* A record blocks exactly when it has reached the limit; the bound rests  *)
(* on it, since retryAfter looks at the block and not at the count.        *)
BlockedAtLimit ==
    \A k \in DOMAIN records :
        records[k].blockedUntil # Zero <=> records[k].failures >= maxFailures

(* The inductive invariant: the times requests work with are past ones. *)
Inv ==
    /\ TypeOK
    /\ \A w \in Workers : now[w] <= clock
    /\ BlockedAtLimit
    /\ Bounded

(* Pending requests are at most as many as there are workers. *)
LEMMA PendingFinite ==
  ASSUME NEW k
  PROVE  /\ IsFiniteSet(Pending(k))
         /\ Cardinality(Pending(k)) \in Nat
         /\ Cardinality(Workers) \in Nat
         /\ Cardinality(Pending(k)) <= Cardinality(Workers)
<1>1. Pending(k) \in SUBSET Workers
  BY DEF Pending, InFlight
<1>2. QED BY <1>1, FS_Subset, FS_CardinalityType, LimiterAssumption

(* cleanup only removes entries. *)
LEMMA SweptKeeps ==
  ASSUME NEW t
  PROVE  /\ DOMAIN Swept(t) \in SUBSET DOMAIN records
         /\ \A k \in DOMAIN Swept(t) : Swept(t)[k] = records[k]
BY DEF Swept

(* Fewer entries and no new pending request keep the bound. *)
LEMMA ShrinkKeepsBound ==
  ASSUME Inv,
         DOMAIN records' \in SUBSET DOMAIN records,
         \A k \in DOMAIN records' : records'[k] = records[k],
         \A k \in Keys : Pending(k)' \in SUBSET Pending(k)
  PROVE  BlockedAtLimit' /\ Bounded'
<1>1. BlockedAtLimit'
  BY DEF Inv, BlockedAtLimit
<1>2. ASSUME NEW k \in DOMAIN records'
      PROVE  records'[k].failures + Cardinality(Pending(k)') <= Bound
  <2>1. k \in Keys /\ k \in DOMAIN records /\ records'[k] = records[k]
    BY DEF Inv, TypeOK
  <2>2. records[k].failures \in Nat
    BY <2>1 DEF Inv, TypeOK, Record
  <2>3. /\ Cardinality(Pending(k)') <= Cardinality(Pending(k))
        /\ Cardinality(Pending(k)') \in Nat
    BY <2>1, PendingFinite, FS_Subset, FS_CardinalityType
  <2>4. records[k].failures + Cardinality(Pending(k)) <= Bound
    BY <2>1 DEF Inv, Bounded
  <2>5. Bound \in Int
    BY PendingFinite, LimiterAssumption DEF Bound
  <2>6. QED BY <2>1, <2>2, <2>3, <2>4, <2>5, PendingFinite
<1>3. QED BY <1>1, <1>2 DEF Bounded, Bound

(* The first state satisfies the invariant (newFailureLimiter). *)
LEMMA InitInv == Init => Inv
<1> SUFFICES ASSUME Init PROVE Inv
  OBVIOUS
<1>1. TypeOK
  BY LimiterAssumption DEF Init, TypeOK, Times, Zero, Credentials
<1>2. \A w \in Workers : now[w] <= clock
  BY DEF Init, Zero
<1>3. BlockedAtLimit /\ Bounded
  BY DEF Init, BlockedAtLimit, Bounded
<1>4. QED BY <1>1, <1>2, <1>3 DEF Inv

(* Every step keeps the types. *)
LEMMA StepTypes ==
  ASSUME Inv, [Next]_vars
  PROVE  TypeOK' /\ \A w \in Workers : now'[w] <= clock'
<1> USE LimiterAssumption
<1> USE DEF Inv, TypeOK, Times, limiterVars, workerVars, Step, NextCleanup
<1>1. ASSUME NEW w \in Workers, NEW k \in Keys, NEW c \in Credentials, Begin(w, k, c)
      PROVE  TypeOK' /\ \A v \in Workers : now'[v] <= clock'
  BY <1>1 DEF Begin
<1>2. ASSUME NEW w \in Workers, RetryAfter(w)
      PROVE  TypeOK' /\ \A v \in Workers : now'[v] <= clock'
  <2>1. DOMAIN records' \in SUBSET Keys /\ \A k \in DOMAIN records' : records'[k] \in Record
    <3>1. /\ DOMAIN Swept(now[w]) \in SUBSET DOMAIN records
          /\ \A k \in DOMAIN Swept(now[w]) : Swept(now[w])[k] = records[k]
      BY SweptKeeps
    <3>2. CASE records' = Swept(now[w])
      BY <3>1, <3>2
    <3>3. CASE records' = Without(Swept(now[w]), key[w])
      BY <3>1, <3>3 DEF Without
    <3>4. QED BY <1>2, <3>2, <3>3 DEF RetryAfter
  <2>2. QED BY <1>2, <2>1 DEF RetryAfter
<1>3. ASSUME NEW w \in Workers, Verify(w)
      PROVE  TypeOK' /\ \A v \in Workers : now'[v] <= clock'
  BY <1>3 DEF Verify, Credentials
<1>4. ASSUME NEW w \in Workers, RecordFailure(w)
      PROVE  TypeOK' /\ \A v \in Workers : now'[v] <= clock'
  <2>1. PICK rec \in Record : records' = With(Swept(now[w]), key[w], rec)
    <3> DEFINE recs  == Swept(now[w])
               k     == key[w]
               fresh == k \notin DOMAIN recs \/ now[w] - recs[k].windowStart >= window
               old   == IF fresh THEN [failures |-> 0, windowStart |-> now[w], blockedUntil |-> Zero]
                                 ELSE recs[k]
               rec   == [old EXCEPT !.failures = old.failures + 1,
                                    !.blockedUntil = IF old.failures + 1 >= maxFailures
                                                       THEN now[w] + block ELSE @]
    <3>1. old \in Record
      BY SweptKeeps DEF Record, Zero
    <3>2. rec \in Record
      <4>1. now[w] + block \in Times
        OBVIOUS
      <4> HIDE DEF old, Times
      <4>2. old.failures + 1 \in Nat /\ old.windowStart \in Times /\ old.blockedUntil \in Times
        BY <3>1 DEF Record
      <4>3. QED BY <3>1, <4>1, <4>2 DEF Record
    <3>3. records' = With(recs, k, rec)
      BY <1>4 DEF RecordFailure
    <3>4. QED BY <3>2, <3>3
  <2>2. DOMAIN records' \in SUBSET Keys /\ \A k \in DOMAIN records' : records'[k] \in Record
    <3>1. /\ DOMAIN Swept(now[w]) \in SUBSET DOMAIN records
          /\ \A k \in DOMAIN Swept(now[w]) : Swept(now[w])[k] = records[k]
      BY SweptKeeps
    <3>2. QED BY <2>1, <3>1 DEF With
  <2>3. /\ Step(w, "record", "idle") /\ nextCleanup' = NextCleanup(now[w])
        /\ UNCHANGED <<clock, key, creds, now>>
    BY <1>4 DEF RecordFailure
  <2>4. nextCleanup' \in Times
    BY <2>3
  <2>5. pc' \in [Workers -> {"idle", "check", "verify", "record", "reset"}]
    BY <2>3
  <2>6. QED BY <2>2, <2>3, <2>4, <2>5
<1>5. ASSUME NEW w \in Workers, Reset(w)
      PROVE  TypeOK' /\ \A v \in Workers : now'[v] <= clock'
  <2>1. DOMAIN records' \in SUBSET Keys /\ \A k \in DOMAIN records' : records'[k] \in Record
    BY <1>5 DEF Reset, Without
  <2>2. QED BY <1>5, <2>1 DEF Reset
<1>6. CASE Tick
  BY <1>6 DEF Tick
<1>7. CASE UNCHANGED vars
  BY <1>7 DEF vars
<1>8. QED BY <1>1, <1>2, <1>3, <1>4, <1>5, <1>6, <1>7 DEF Next

(* retryAfter lets a request through only if its address is not at the     *)
(* limit, so one more pending request keeps the bound.                     *)
LEMMA RetryAfterKeepsBound ==
  ASSUME Inv, NEW w \in Workers, RetryAfter(w)
  PROVE  BlockedAtLimit' /\ Bounded'
<1> DEFINE recs == Swept(now[w])
<1> PICK k : k = key[w]
  OBVIOUS
<1>1. /\ DOMAIN records' \in SUBSET DOMAIN records
      /\ \A j \in DOMAIN records' : records'[j] = records[j]
  <2>1. DOMAIN recs \in SUBSET DOMAIN records /\ \A j \in DOMAIN recs : recs[j] = records[j]
    BY SweptKeeps
  <2>2. CASE records' = recs
    BY <2>1, <2>2
  <2>3. CASE records' = Without(recs, k)
    BY <2>1, <2>3 DEF Without
  <2>4. QED BY <2>2, <2>3 DEF RetryAfter
<1>2. CASE pc'[w] = "idle"
  <2>1. \A j \in Keys : Pending(j)' \in SUBSET Pending(j)
    BY <1>2 DEF Inv, TypeOK, RetryAfter, Step, Pending, InFlight
  <2>2. QED BY <1>1, <2>1, ShrinkKeepsBound
<1>3. CASE pc'[w] # "idle"
  <2>1. BlockedAtLimit'
    BY <1>1 DEF Inv, BlockedAtLimit
  <2>2. ASSUME NEW j \in DOMAIN records'
        PROVE  records'[j].failures + Cardinality(Pending(j)') <= Bound
    <3>1. j \in Keys /\ j \in DOMAIN records /\ records'[j] = records[j]
          /\ records[j].failures \in Nat
      BY <1>1 DEF Inv, TypeOK, Record
    <3>2. CASE j = k
      <4>1. records'[k].blockedUntil = Zero
        <5>1. CASE k \in DOMAIN recs /\ recs[k].blockedUntil # Zero
          <6>1. now[w] >= recs[k].blockedUntil
            BY <1>3, <5>1 DEF Inv, TypeOK, RetryAfter, Step
          <6>2. records' = Without(recs, k)
            BY <5>1, <6>1 DEF RetryAfter
          <6>3. QED BY <2>2, <3>2, <6>2 DEF Without
        <5>2. CASE ~(k \in DOMAIN recs /\ recs[k].blockedUntil # Zero)
          <6>1. records' = recs
            BY <5>2 DEF RetryAfter
          <6>2. QED BY <2>2, <3>2, <5>2, <6>1
        <5>3. QED BY <5>1, <5>2
      <4>2. records'[k].failures < maxFailures
        BY <2>1, <2>2, <3>1, <3>2, <4>1, LimiterAssumption DEF BlockedAtLimit
      <4>3. /\ Cardinality(Pending(k)') \in Nat /\ Cardinality(Workers) \in Nat
            /\ Cardinality(Pending(k)') <= Cardinality(Workers)
        <5>1. Pending(k)' \in SUBSET Workers
          BY DEF Pending, InFlight
        <5>2. QED BY <5>1, FS_Subset, FS_CardinalityType, LimiterAssumption
      <4>4. QED BY <3>1, <3>2, <4>2, <4>3, LimiterAssumption DEF Bound
    <3>3. CASE j # k
      <4>1. Pending(j)' = Pending(j)
        BY <3>3 DEF Inv, TypeOK, RetryAfter, Step, Pending, InFlight
      <4>2. QED BY <3>1, <4>1 DEF Inv, Bounded
    <3>4. QED BY <3>2, <3>3
  <2>3. QED BY <2>1, <2>2 DEF Bounded, Bound
<1>4. QED BY <1>2, <1>3

(* recordFailure turns one pending request into one failure. *)
LEMMA RecordFailureKeepsBound ==
  ASSUME Inv, NEW w \in Workers, RecordFailure(w)
  PROVE  BlockedAtLimit' /\ Bounded'
<1> USE LimiterAssumption
<1> PICK k : k = key[w]
  OBVIOUS
<1> DEFINE recs  == Swept(now[w])
           fresh == k \notin DOMAIN recs \/ now[w] - recs[k].windowStart >= window
           old   == IF fresh THEN [failures |-> 0, windowStart |-> now[w], blockedUntil |-> Zero]
                             ELSE recs[k]
           rec   == [old EXCEPT !.failures = old.failures + 1,
                                !.blockedUntil = IF old.failures + 1 >= maxFailures
                                                   THEN now[w] + block ELSE @]
<1>1. records' = With(recs, k, rec)
  BY DEF RecordFailure
<1>2. k \in Keys /\ now[w] \in Nat
  BY DEF Inv, TypeOK
<1>3. /\ DOMAIN records' = DOMAIN recs \cup {k}
      /\ records'[k] = rec
      /\ \A j \in DOMAIN recs \ {k} : records'[j] = records[j] /\ j \in DOMAIN records
  <2>1. DOMAIN recs \in SUBSET DOMAIN records /\ \A j \in DOMAIN recs : recs[j] = records[j]
    BY SweptKeeps
  <2>2. QED BY <1>1, <2>1 DEF With
<1>4. old \in Record
  BY <1>2, SweptKeeps DEF Inv, TypeOK, Record, Zero, Times
<1>5. old.blockedUntil # Zero <=> old.failures >= maxFailures
  BY SweptKeeps DEF Inv, BlockedAtLimit
<1>6. /\ rec.failures = old.failures + 1
      /\ rec.blockedUntil = IF old.failures + 1 >= maxFailures THEN now[w] + block
                                                              ELSE old.blockedUntil
  BY <1>4 DEF Record
<1>7. old.failures \in Nat
  BY <1>4 DEF Record
<1>8. rec.blockedUntil # Zero <=> rec.failures >= maxFailures
  BY <1>2, <1>5, <1>6, <1>7 DEF Zero
<1>9. BlockedAtLimit'
  BY <1>3, <1>8 DEF Inv, BlockedAtLimit
<1>10. ASSUME NEW j \in DOMAIN records'
       PROVE  records'[j].failures + Cardinality(Pending(j)') <= Bound
  <2>1. CASE j = k
    <3>1. w \in Pending(k) /\ Pending(k)' = Pending(k) \ {w}
      BY DEF Inv, TypeOK, RecordFailure, Step, Pending, InFlight
    <3>2. Cardinality(Pending(k)') = Cardinality(Pending(k)) - 1
      <4>1. IsFiniteSet(Pending(k))
        BY PendingFinite
      <4>2. Cardinality(Pending(k) \ {w}) = Cardinality(Pending(k)) - 1
        <5> HIDE DEF old, rec, recs, fresh
        <5> QED BY <3>1, <4>1, FS_RemoveElement
      <4>3. QED BY <3>1, <4>2
    <3>3. Cardinality(Pending(k)) \in Nat /\ Cardinality(Workers) \in Nat
          /\ Cardinality(Pending(k)) <= Cardinality(Workers)
      BY PendingFinite
    <3>4. records'[j].failures = old.failures + 1 /\ Pending(j)' = Pending(k)'
      BY <1>3, <1>6, <2>1
    <3>5. Bound \in Int /\ Bound = maxFailures - 1 + Cardinality(Workers)
      BY <3>3 DEF Bound
    <3>6. CASE fresh
      <4>1. old.failures = 0
        BY <3>6
      <4> HIDE DEF old
      <4>2. QED BY <3>2, <3>3, <3>4, <3>5, <4>1
    <3>7. CASE ~fresh
      <4>1. k \in DOMAIN records /\ old = records[k]
        BY <3>7, SweptKeeps
      <4>2. old.failures + Cardinality(Pending(k)) <= Bound
        BY <4>1 DEF Inv, Bounded
      <4> HIDE DEF old
      <4>3. QED BY <1>7, <3>2, <3>3, <3>4, <3>5, <4>2
    <3>8. QED BY <3>6, <3>7
  <2>2. CASE j # k
    <3>1. Pending(j)' = Pending(j)
      BY <2>2 DEF Inv, TypeOK, RecordFailure, Step, Pending, InFlight
    <3>2. j \in DOMAIN records /\ records'[j] = records[j]
      BY <1>3, <1>10, <2>2
    <3>3. QED BY <3>1, <3>2 DEF Inv, Bounded
  <2>3. QED BY <2>1, <2>2
<1>11. QED BY <1>9, <1>10 DEF Bounded, Bound

(* Every step keeps the invariant. *)
LEMMA StepInv ==
  ASSUME Inv, [Next]_vars
  PROVE  Inv'
<1>1. TypeOK' /\ \A w \in Workers : now'[w] <= clock'
  BY StepTypes
<1>2. ASSUME NEW w \in Workers, NEW k \in Keys, NEW c \in Credentials, Begin(w, k, c)
      PROVE  BlockedAtLimit' /\ Bounded'
  <2>1. \A j \in Keys : Pending(j)' \in SUBSET Pending(j)
    BY <1>2 DEF Inv, TypeOK, Begin, Step, Pending, InFlight
  <2>2. records' = records
    BY <1>2 DEF Begin, limiterVars
  <2>3. QED BY <2>1, <2>2, ShrinkKeepsBound
<1>3. ASSUME NEW w \in Workers, RetryAfter(w) PROVE BlockedAtLimit' /\ Bounded'
  BY <1>3, RetryAfterKeepsBound
<1>4. ASSUME NEW w \in Workers, Verify(w) PROVE BlockedAtLimit' /\ Bounded'
  <2>1. \A j \in Keys : Pending(j)' \in SUBSET Pending(j)
    BY <1>4 DEF Inv, TypeOK, Verify, Step, Pending, InFlight, Credentials
  <2>2. records' = records
    BY <1>4 DEF Verify, limiterVars
  <2>3. QED BY <2>1, <2>2, ShrinkKeepsBound
<1>5. ASSUME NEW w \in Workers, RecordFailure(w) PROVE BlockedAtLimit' /\ Bounded'
  BY <1>5, RecordFailureKeepsBound
<1>6. ASSUME NEW w \in Workers, Reset(w) PROVE BlockedAtLimit' /\ Bounded'
  <2>1. \A j \in Keys : Pending(j)' \in SUBSET Pending(j)
    BY <1>6 DEF Inv, TypeOK, Reset, Step, Pending, InFlight
  <2>2. /\ DOMAIN records' \in SUBSET DOMAIN records
        /\ \A j \in DOMAIN records' : records'[j] = records[j]
    BY <1>6 DEF Reset, Without
  <2>3. QED BY <2>1, <2>2, ShrinkKeepsBound
<1>7. ASSUME Tick \/ UNCHANGED vars PROVE BlockedAtLimit' /\ Bounded'
  <2>1. records' = records /\ \A j \in Keys : Pending(j)' = Pending(j)
    BY <1>7 DEF Tick, vars, limiterVars, workerVars, Pending, InFlight
  <2>2. \A j \in Keys : Pending(j)' \in SUBSET Pending(j)
    BY <2>1
  <2>3. /\ DOMAIN records' \in SUBSET DOMAIN records
        /\ \A j \in DOMAIN records' : records'[j] = records[j]
    BY <2>1
  <2>4. QED BY <2>2, <2>3, ShrinkKeepsBound
<1>8. QED BY <1>1, <1>2, <1>3, <1>4, <1>5, <1>6, <1>7 DEF Next, Inv

(* The invariant holds in every state. *)
LEMMA Invariance == Spec => []Inv
<1>1. Inv /\ [Next]_vars => Inv'
  BY StepInv
<1>2. QED BY InitInv, <1>1, PTL DEF Spec

(* Every variable keeps its type. *)
THEOREM TypeCorrect == Spec => []TypeOK
<1>1. Inv => TypeOK
  BY DEF Inv
<1>2. QED BY <1>1, Invariance, PTL

(* Concurrent requests exceed auth_max_failures by less than their number. *)
THEOREM OvershootIsBounded == Spec => []OvershootBounded
<1>1. Inv => OvershootBounded
  BY DEF Inv, Bounded, Bound, Pending, OvershootBounded
<1>2. QED BY <1>1, Invariance, PTL

(* cleanup, old clock readings and other addresses leave a block alone. *)
THEOREM SettledBlocksLast == Spec => SettledBlockLasts
<1> DEFINE Kept(k) == Blocked(k) /\ InFlight(k) = {} /\ clock' < records[k].blockedUntil =>
                        k \in DOMAIN records' /\ records'[k] = records[k]
<1>1. Inv /\ [Next]_vars => [\A k \in Keys : Kept(k)]_vars
  <2> SUFFICES ASSUME Inv, [Next]_vars, NEW k \in Keys,
                      Blocked(k), InFlight(k) = {}, clock' < records[k].blockedUntil
               PROVE  k \in DOMAIN records' /\ records'[k] = records[k]
    OBVIOUS
  <2> USE LimiterAssumption
  <2>1. k \in DOMAIN records /\ records[k] \in Record /\ clock < records[k].blockedUntil
    BY DEF Blocked, Inv, TypeOK
  <2>2. ASSUME NEW w \in Workers
        PROVE  k \in DOMAIN Swept(now[w]) /\ Swept(now[w])[k] = records[k]
               /\ now[w] < records[k].blockedUntil
    <3>1. now[w] < records[k].blockedUntil /\ records[k].blockedUntil <= Expires(records[k])
      BY <2>1 DEF Inv, TypeOK, Record, Times, Expires
    <3>2. now[w] < Expires(records[k])
      BY <2>1, <3>1 DEF Inv, TypeOK, Record, Times, Expires
    <3>3. QED BY <2>1, <3>1, <3>2 DEF Swept
  <2>3. ASSUME NEW w \in Workers, pc[w] \in {"record", "reset"} PROVE key[w] # k
    BY <2>3 DEF InFlight
  <2>4. ASSUME NEW w \in Workers, RetryAfter(w)
        PROVE  k \in DOMAIN records' /\ records'[k] = records[k]
    <3>1. CASE key[w] = k
      <4>1. ~(now[w] >= Swept(now[w])[k].blockedUntil)
        BY <2>1, <2>2 DEF Inv, TypeOK, Record, Times
      <4>2. records' = Swept(now[w])
        BY <2>4, <3>1, <4>1 DEF RetryAfter
      <4>3. QED BY <2>2, <4>2
    <3>2. CASE key[w] # k
      <4>1. CASE records' = Swept(now[w])
        BY <2>2, <4>1
      <4>2. CASE records' = Without(Swept(now[w]), key[w])
        BY <2>2, <3>2, <4>2 DEF Without
      <4>3. QED BY <2>4, <4>1, <4>2 DEF RetryAfter
    <3>3. QED BY <3>1, <3>2
  <2>5. ASSUME NEW w \in Workers, RecordFailure(w)
        PROVE  k \in DOMAIN records' /\ records'[k] = records[k]
    <3>1. key[w] # k
      BY <2>3, <2>5 DEF RecordFailure, Step
    <3>2. PICK rec : records' = With(Swept(now[w]), key[w], rec)
      BY <2>5 DEF RecordFailure
    <3>3. QED BY <2>2, <3>1, <3>2 DEF With
  <2>6. ASSUME NEW w \in Workers, Reset(w)
        PROVE  k \in DOMAIN records' /\ records'[k] = records[k]
    <3>1. key[w] # k
      BY <2>3, <2>6 DEF Reset, Step
    <3>2. QED BY <2>1, <2>6, <3>1 DEF Reset, Without
  <2>7. CASE records' = records
    BY <2>1, <2>7
  <2>8. QED
    BY <2>4, <2>5, <2>6, <2>7 DEF Next, Begin, Verify, Tick, vars, limiterVars
<1>2. QED BY <1>1, Invariance, PTL DEF Spec, SettledBlockLasts

(* No interleaving of requests loses a failure of an open window: cleanup  *)
(* works with a time no later than the clock's, so it keeps the record,    *)
(* and recordFailure with an old time adds to it.                          *)
THEOREM FailuresAreRemembered == Spec => FailuresRemembered
<1> DEFINE Kept(k) == /\ k \in DOMAIN records'
                      /\ records'[k].windowStart = records[k].windowStart
                      /\ records'[k].failures >= records[k].failures
           All == \A k \in DOMAIN records :
                     Counts(k, clock') /\ (\A w \in InFlight(k) : pc[w] # "reset") => Kept(k)
<1>1. Inv /\ [Next]_vars => [All]_vars
  <2> SUFFICES ASSUME Inv, [Next]_vars, NEW k \in DOMAIN records,
                      Counts(k, clock'), \A w \in InFlight(k) : pc[w] # "reset"
               PROVE  Kept(k)
    OBVIOUS
  <2> USE LimiterAssumption
  <2>1. k \in Keys /\ records[k] \in Record /\ records[k].failures \in Nat
    BY DEF Inv, TypeOK, Record
  <2>2. clock' \in Nat /\ clock <= clock'
    <3>1. clock' = clock \/ clock' = clock + 1
      BY Zenon DEF Next, Begin, RetryAfter, Verify, RecordFailure, Reset, Tick, vars
    <3>2. QED BY <3>1 DEF Inv, TypeOK
  <2>3. ASSUME NEW w \in Workers
        PROVE  /\ k \in DOMAIN Swept(now[w]) /\ Swept(now[w])[k] = records[k]
               /\ now[w] - records[k].windowStart < window
               /\ records[k].blockedUntil # Zero => now[w] < records[k].blockedUntil
    <3>1. now[w] \in Nat /\ now[w] <= clock'
      BY <2>2 DEF Inv, TypeOK
    <3>2. /\ now[w] < records[k].windowStart + window
          /\ records[k].blockedUntil # Zero => now[w] < records[k].blockedUntil
      BY <2>1, <2>2, <3>1 DEF Counts, Record, Times
    <3>3. now[w] < Expires(records[k])
      BY <2>1, <3>1, <3>2 DEF Record, Times, Expires
    <3>4. QED BY <2>1, <3>1, <3>2, <3>3 DEF Swept, Record, Times
  <2>4. ASSUME NEW w \in Workers, RetryAfter(w) PROVE Kept(k)
    <3>1. CASE records' = Swept(now[w])
      BY <2>1, <2>3, <3>1
    <3>2. CASE records' = Without(Swept(now[w]), key[w]) /\ key[w] # k
      BY <2>1, <2>3, <3>2 DEF Without
    <3>3. CASE key[w] = k
      <4>1. ~(/\ Swept(now[w])[k].blockedUntil # Zero
              /\ now[w] >= Swept(now[w])[k].blockedUntil)
        BY <2>1, <2>3 DEF Inv, TypeOK, Record, Times
      <4>2. records' = Swept(now[w])
        BY <2>4, <3>3, <4>1 DEF RetryAfter
      <4>3. QED BY <3>1, <4>2
    <3>4. QED BY <2>4, <3>1, <3>2, <3>3 DEF RetryAfter
  <2>5. ASSUME NEW w \in Workers, RecordFailure(w) PROVE Kept(k)
    <3>1. CASE key[w] = k
      <4>1. ~(k \notin DOMAIN Swept(now[w]) \/ now[w] - records[k].windowStart >= window)
        BY <2>1, <2>3 DEF Inv, TypeOK, Record, Times
      <4> DEFINE recs  == Swept(now[w])
                 fresh == k \notin DOMAIN recs \/ now[w] - recs[k].windowStart >= window
                 old   == IF fresh THEN [failures |-> 0, windowStart |-> now[w], blockedUntil |-> Zero]
                                   ELSE recs[k]
                 rec   == [old EXCEPT !.failures = old.failures + 1,
                                      !.blockedUntil = IF old.failures + 1 >= maxFailures
                                                         THEN now[w] + block ELSE @]
      <4>2. records' = With(recs, k, rec)
        BY <2>5, <3>1 DEF RecordFailure
      <4>3. old = records[k]
        BY <2>3, <4>1
      <4> HIDE DEF old, recs
      <4>4. rec.windowStart = records[k].windowStart /\ rec.failures = records[k].failures + 1
        BY <2>1, <4>3 DEF Record
      <4>5. k \in DOMAIN records' /\ records'[k] = rec
        BY <4>2 DEF With
      <4>6. QED BY <2>1, <4>4, <4>5
    <3>2. CASE key[w] # k
      <4>1. PICK rec : records' = With(Swept(now[w]), key[w], rec)
        BY <2>5 DEF RecordFailure
      <4>2. QED BY <2>1, <2>3, <3>2, <4>1 DEF With
    <3>3. QED BY <3>1, <3>2
  <2>6. ASSUME NEW w \in Workers, Reset(w) PROVE Kept(k)
    <3>1. key[w] # k
      BY <2>6 DEF Reset, Step, InFlight
    <3>2. QED BY <2>1, <2>6, <3>1 DEF Reset, Without
  <2>7. CASE records' = records
    BY <2>1, <2>7
  <2>8. QED
    BY <2>4, <2>5, <2>6, <2>7 DEF Next, Begin, Verify, Tick, vars, limiterVars
<1>2. QED BY <1>1, Invariance, PTL DEF Spec, FailuresRemembered
==============================================================================
