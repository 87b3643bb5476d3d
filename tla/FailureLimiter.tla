--------------------------- MODULE FailureLimiter ----------------------------
(***************************************************************************)
(* The failureLimiter of internal/auth/limiter.go and its use by           *)
(* Basic.Authenticate of internal/auth/basic.go.  Each method holds the    *)
(* mutex, but Authenticate does not: it asks retryAfter, verifies the      *)
(* credentials and only then calls recordFailure or reset, while other     *)
(* requests of the same address do the same.  retryAfter and recordFailure *)
(* read the clock before they wait for the mutex, so the time they work    *)
(* with may be an old one.                                                 *)
(***************************************************************************)
EXTENDS Integers, FiniteSets

CONSTANTS
    Keys,         \* client addresses (clientKey)
    Workers,      \* goroutines that serve requests, one request at a time
    maxFailures,  \* auth_max_failures
    window,       \* auth_failure_window
    block,        \* auth_block_duration
    MaxTime       \* bound: the clock stops here

(* newFailureLimiter returns nil, which allows everything, unless all      *)
(* three are positive; config.Validate insists that they are.              *)
ASSUME LimiterAssumption ==
    /\ IsFiniteSet(Workers)
    /\ maxFailures \in Nat \ {0}
    /\ window \in Nat \ {0}
    /\ block \in Nat \ {0}
    /\ MaxTime \in Nat \ {0}

Zero == 0                     \* the zero time.Time; the clock starts after it
Times == 0 .. MaxTime + window + block
Credentials == {"none", "wrong", "right"}

VARIABLES
    clock,        \* l.now
    records,      \* l.records: a function on the keys in the map
    nextCleanup,  \* l.nextCleanup
    pc,           \* where each worker is in Authenticate
    key,          \* the client of its request
    creds,        \* the credentials of its request
    now           \* the time it has read

limiterVars == <<records, nextCleanup>>
workerVars  == <<pc, key, creds, now>>
vars == <<clock, limiterVars, workerVars>>

Record == [failures : Nat, windowStart : Times, blockedUntil : Times]

TypeOK ==
    /\ clock \in 1 .. MaxTime
    /\ DOMAIN records \in SUBSET Keys
    /\ \A k \in DOMAIN records : records[k] \in Record
    /\ nextCleanup \in Times
    /\ pc \in [Workers -> {"idle", "check", "verify", "record", "reset"}]
    /\ key \in [Workers -> Keys]
    /\ creds \in [Workers -> Credentials]
    /\ now \in [Workers -> 0 .. MaxTime]

Init ==
    /\ clock = 1
    /\ records = [k \in {} |-> Zero]
    /\ nextCleanup = Zero
    /\ pc = [w \in Workers |-> "idle"]
    /\ key \in [Workers -> Keys]
    /\ creds = [w \in Workers |-> "none"]
    /\ now = [w \in Workers |-> Zero]
------------------------------------------------------------------------------
\* Mutant: cleanup looks at the window only.
Expires_WindowOnly(rec) == rec.windowStart + window

\* When cleanup may drop a record: its window and its block are over.
Expires(rec) ==
    LET windowEnd == rec.windowStart + window
    IN  IF rec.blockedUntil > windowEnd THEN rec.blockedUntil ELSE windowEnd

\* cleanup(t): what is left of the map, and when to do it again.
Swept(t) ==
    IF t < nextCleanup
      THEN records
      ELSE [k \in {j \in DOMAIN records : t < Expires(records[j])} |-> records[k]]

NextCleanup(t) == IF t < nextCleanup THEN nextCleanup ELSE t + window

Without(recs, k) == [j \in DOMAIN recs \ {k} |-> recs[j]]

With(recs, k, rec) == [j \in DOMAIN recs \cup {k} |-> IF j = k THEN rec ELSE recs[j]]

Step(w, from, to) ==
    /\ pc[w] = from
    /\ pc' = [pc EXCEPT ![w] = to]
------------------------------------------------------------------------------
\* A request of client k arrives; retryAfter reads the clock.
Begin(w, k, c) ==
    /\ Step(w, "idle", "check")
    /\ key' = [key EXCEPT ![w] = k]
    /\ creds' = [creds EXCEPT ![w] = c]
    /\ now' = [now EXCEPT ![w] = clock]
    /\ UNCHANGED <<clock, limiterVars>>

\* Mutant: the block is looked at only to delete it.
RetryAfter_IgnoresBlock(w) ==
    LET recs  == Swept(now[w])
        k     == key[w]
        over  == k \in DOMAIN recs /\ recs[k].blockedUntil # Zero /\ now[w] >= recs[k].blockedUntil
    IN  /\ Step(w, "check", "verify")
        /\ records' = IF over THEN Without(recs, k) ELSE recs
        /\ nextCleanup' = NextCleanup(now[w])
        /\ UNCHANGED <<clock, key, creds, now>>

\* retryAfter, under the mutex: the request is refused with 429 while the
\* block lasts; a block that is over is deleted.
RetryAfter(w) ==
    LET recs  == Swept(now[w])
        k     == key[w]
        isSet == k \in DOMAIN recs /\ recs[k].blockedUntil # Zero
        over  == isSet /\ now[w] >= recs[k].blockedUntil
    IN  /\ Step(w, "check", IF isSet /\ ~over THEN "idle" ELSE "verify")
        /\ records' = IF over THEN Without(recs, k) ELSE recs
        /\ nextCleanup' = NextCleanup(now[w])
        /\ UNCHANGED <<clock, key, creds, now>>

\* The header is parsed and compared.  A missing one is no failure.
\* recordFailure reads the clock before it locks.
Verify(w) ==
    /\ Step(w, "verify", CASE creds[w] = "none"  -> "idle"
                           [] creds[w] = "wrong" -> "record"
                           [] creds[w] = "right" -> "reset")
    /\ now' = [now EXCEPT ![w] = clock]
    /\ UNCHANGED <<clock, limiterVars, key, creds>>

\* Mutant: a clock reading from before the window opens a new one.
RecordFailure_OldClock(w) ==
    LET recs  == Swept(now[w])
        k     == key[w]
        fresh == \/ k \notin DOMAIN recs \/ now[w] - recs[k].windowStart >= window
                 \/ now[w] < recs[k].windowStart
        rec   == IF fresh THEN [failures |-> 0, windowStart |-> now[w], blockedUntil |-> Zero]
                          ELSE recs[k]
        count == rec.failures + 1
    IN  /\ Step(w, "record", "idle")
        /\ records' = With(recs, k,
              [rec EXCEPT !.failures = count,
                          !.blockedUntil = IF count >= maxFailures THEN now[w] + block ELSE @])
        /\ nextCleanup' = NextCleanup(now[w])
        /\ UNCHANGED <<clock, key, creds, now>>

\* recordFailure, under the mutex: a new window if the old one is over.
RecordFailure(w) ==
    LET recs  == Swept(now[w])
        k     == key[w]
        fresh == k \notin DOMAIN recs \/ now[w] - recs[k].windowStart >= window
        rec   == IF fresh THEN [failures |-> 0, windowStart |-> now[w], blockedUntil |-> Zero]
                          ELSE recs[k]
        count == rec.failures + 1
    IN  /\ Step(w, "record", "idle")
        /\ records' = With(recs, k,
              [rec EXCEPT !.failures = count,
                          !.blockedUntil = IF count >= maxFailures THEN now[w] + block ELSE @])
        /\ nextCleanup' = NextCleanup(now[w])
        /\ UNCHANGED <<clock, key, creds, now>>

\* The credentials were right: reset forgets the address.
Reset(w) ==
    /\ Step(w, "reset", "idle")
    /\ records' = Without(records, key[w])
    /\ UNCHANGED <<clock, nextCleanup, key, creds, now>>

Tick ==
    /\ clock < MaxTime
    /\ clock' = clock + 1
    /\ UNCHANGED <<limiterVars, workerVars>>

Next ==
    \/ \E w \in Workers :
          \/ \E k \in Keys, c \in Credentials : Begin(w, k, c)
          \/ RetryAfter(w) \/ Verify(w) \/ RecordFailure(w) \/ Reset(w)
    \/ Tick

Spec == Init /\ [][Next]_vars
------------------------------------------------------------------------------
Blocked(k) == k \in DOMAIN records /\ records[k].blockedUntil > clock

\* Workers that retryAfter has let through and whose outcome for k is open.
InFlight(k) == {w \in Workers : key[w] = k /\ pc[w] \in {"verify", "record", "reset"}}

(***************************************************************************)
(* How far concurrent requests overshoot auth_max_failures: requests that  *)
(* retryAfter let through before the block may still fail, but no others,  *)
(* so a window never counts more than maxFailures - 1 failures and one for *)
(* each request that can be in flight.                                     *)
(***************************************************************************)
OvershootBounded ==
    \A k \in DOMAIN records :
        records[k].failures + Cardinality({w \in InFlight(k) : pc[w] # "reset"})
            <= maxFailures - 1 + Cardinality(Workers)

(***************************************************************************)
(* A block ends in its own time: cleanup, an old clock reading and the     *)
(* requests of other addresses neither lift nor shorten it, unless a       *)
(* request of the address itself was let through before the block.         *)
(***************************************************************************)
SettledBlockLasts ==
    [][\A k \in Keys :
         Blocked(k) /\ InFlight(k) = {} /\ clock' < records[k].blockedUntil =>
            k \in DOMAIN records' /\ records'[k] = records[k]]_vars

\* k's failures count still: its window is open and no block of it is over.
Counts(k, t) ==
    /\ t < records[k].windowStart + window
    /\ records[k].blockedUntil = Zero \/ t < records[k].blockedUntil

(***************************************************************************)
(* The failures of an open window are not forgotten, however requests of   *)
(* this and other addresses interleave, with whatever old readings of the  *)
(* clock they call cleanup, retryAfter and recordFailure, unless the       *)
(* address proves itself with the right credentials.                       *)
(***************************************************************************)
FailuresRemembered ==
    [][\A k \in DOMAIN records :
         Counts(k, clock') /\ (\A w \in InFlight(k) : pc[w] # "reset") =>
            /\ k \in DOMAIN records'
            /\ records'[k].windowStart = records[k].windowStart
            /\ records'[k].failures >= records[k].failures]_vars

(***************************************************************************)
(* README: auth_block_duration is "how long an IP is blocked after         *)
(* exceeding auth_max_failures".                                           *)
(***************************************************************************)
BlockLasts ==
    [][\A k \in Keys :
         Blocked(k) /\ clock' < records[k].blockedUntil => Blocked(k)']_vars
==============================================================================
