-------------------------- MODULE ConcurrentLimiter --------------------------
(***************************************************************************)
(* The concurrentLimiter of internal/proxy/limits.go: a counter of slots   *)
(* in use and one counter per client key, both read and written under one  *)
(* mutex.  The type is used twice, by the listener (client connections)    *)
(* and by the CONNECT handler (tunnels), so it is a set of operators on a  *)
(* limiter value; the modules that use it hold the value in a variable.    *)
(***************************************************************************)
EXTENDS Integers, FiniteSets

CONSTANTS
    maxTotal,   \* limit on all slots
    maxPerKey   \* limit on the slots of one key

(* config.Validate refuses limits that are not positive, and a per-IP      *)
(* limit above the global one.                                             *)
ASSUME LimitsAssumption ==
    /\ maxTotal \in Nat \ {0}
    /\ maxPerKey \in 1 .. maxTotal

\* newConcurrentLimiter: nothing in use, an empty map.
newConcurrentLimiter == [total |-> 0, perKey |-> [k \in {} |-> 0]]

\* An absent key of a Go map reads as zero.
KeyCount(l, key) == IF key \in DOMAIN l.perKey THEN l.perKey[key] ELSE 0

\* Connections whose address has no host share one key.
limiterKey(host) == IF host = "" THEN "unknown" ELSE host

\* The test tryAcquire makes under the mutex.
HasRoom(l, key) == l.total < maxTotal /\ KeyCount(l, key) < maxPerKey

\* What a successful tryAcquire writes.
tryAcquire(l, key) ==
    [total  |-> l.total + 1,
     perKey |-> [k \in DOMAIN l.perKey \cup {key} |->
                   IF k = key THEN KeyCount(l, key) + 1 ELSE l.perKey[k]]]

\* Mutant: the entry of a key whose count fell to zero stays in the map.
release_KeepsEntry(l, key) ==
    [total  |-> l.total - 1,
     perKey |-> [l.perKey EXCEPT ![key] = @ - 1]]

\* What the release closure writes: the entry goes when its count is zero.
release(l, key) ==
    LET left == KeyCount(l, key) - 1
    IN  [total  |-> l.total - 1,
         perKey |-> IF left = 0
                    THEN [k \in DOMAIN l.perKey \ {key} |-> l.perKey[k]]
                    ELSE [k \in DOMAIN l.perKey \cup {key} |->
                            IF k = key THEN left ELSE l.perKey[k]]]

(***************************************************************************)
(* l accounts for exactly the slots held by the members of the set H, the  *)
(* member h under the key keyOf[h]: the total, the count of every key and  *)
(* the keys of the map are those of H, so nothing is counted twice, lost,  *)
(* or left behind in the map when its last holder is gone.                 *)
(***************************************************************************)
HoldersOf(H, keyOf, key) == {h \in H : keyOf[h] = key}

Accounts(l, H, keyOf) ==
    /\ l.total = Cardinality(H)
    /\ DOMAIN l.perKey = {keyOf[h] : h \in H}
    /\ \A k \in DOMAIN l.perKey : l.perKey[k] = Cardinality(HoldersOf(H, keyOf, k))
==============================================================================
