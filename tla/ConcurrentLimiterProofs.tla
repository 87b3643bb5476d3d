----------------------- MODULE ConcurrentLimiterProofs -----------------------
(***************************************************************************)
(* Lemmas on the operators of ConcurrentLimiter, for every set of holders, *)
(* every assignment of keys and all limits.  The proofs about the listener *)
(* and about the tunnels both rest on them.                                *)
(***************************************************************************)
EXTENDS ConcurrentLimiter, FiniteSetTheorems, TLAPS

(* No count of l is above its limit. *)
WithinLimits(l) ==
    /\ l.total <= maxTotal
    /\ \A k \in DOMAIN l.perKey : l.perKey[k] <= maxPerKey

(* The holders of one key are finitely many, and some key's count is the   *)
(* number of its holders whether or not the map has an entry for it.       *)
LEMMA KeyCountIsHolders ==
  ASSUME NEW l, NEW H, IsFiniteSet(H), NEW keyOf, NEW k, Accounts(l, H, keyOf)
  PROVE  /\ IsFiniteSet(HoldersOf(H, keyOf, k))
         /\ KeyCount(l, k) = Cardinality(HoldersOf(H, keyOf, k))
         /\ Cardinality(HoldersOf(H, keyOf, k)) \in Nat
<1>1. HoldersOf(H, keyOf, k) \in SUBSET H
  BY DEF HoldersOf
<1>2. IsFiniteSet(HoldersOf(H, keyOf, k))
  BY <1>1, FS_Subset
<1>3. Cardinality(HoldersOf(H, keyOf, k)) \in Nat
  BY <1>2, FS_CardinalityType
<1>4. CASE k \in DOMAIN l.perKey
  BY <1>2, <1>3, <1>4 DEF Accounts, KeyCount
<1>5. CASE k \notin DOMAIN l.perKey
  <2>1. HoldersOf(H, keyOf, k) = {}
    BY <1>5 DEF Accounts, HoldersOf
  <2>2. QED BY <2>1, <1>2, <1>3, <1>5, FS_EmptySet DEF KeyCount
<1>6. QED BY <1>4, <1>5

(* The empty limiter accounts for no holder (newConcurrentLimiter). *)
LEMMA EmptyAccounts ==
  ASSUME NEW keyOf
  PROVE  Accounts(newConcurrentLimiter, {}, keyOf)
BY FS_EmptySet DEF Accounts, newConcurrentLimiter

(* A tryAcquire by a new holder x keeps the accounts exact. *)
LEMMA AcquireAccounts ==
  ASSUME NEW l, NEW H, IsFiniteSet(H), NEW keyOf, NEW x, x \notin H,
         Accounts(l, H, keyOf)
  PROVE  Accounts(tryAcquire(l, keyOf[x]), H \cup {x}, keyOf)
<1> DEFINE key == keyOf[x]
           m == tryAcquire(l, key)
           G == H \cup {x}
<1>1. m.total = Cardinality(G)
  BY FS_AddElement, FS_CardinalityType DEF Accounts, tryAcquire
<1>2. DOMAIN m.perKey = {keyOf[h] : h \in G}
  BY DEF Accounts, tryAcquire
<1>3. ASSUME NEW k \in DOMAIN m.perKey
      PROVE  m.perKey[k] = Cardinality(HoldersOf(G, keyOf, k))
  <2>1. CASE k = key
    <3>1. HoldersOf(G, keyOf, key) = HoldersOf(H, keyOf, key) \cup {x}
      BY DEF HoldersOf
    <3>2. x \notin HoldersOf(H, keyOf, key)
      BY DEF HoldersOf
    <3>3. /\ IsFiniteSet(HoldersOf(H, keyOf, key))
          /\ KeyCount(l, key) = Cardinality(HoldersOf(H, keyOf, key))
      BY KeyCountIsHolders
    <3>4. Cardinality(HoldersOf(G, keyOf, key)) = KeyCount(l, key) + 1
      BY <3>1, <3>2, <3>3, FS_AddElement
    <3>5. m.perKey[key] = KeyCount(l, key) + 1
      BY <2>1, <1>3 DEF tryAcquire
    <3>6. QED BY <2>1, <3>4, <3>5
  <2>2. CASE k # key
    <3>1. HoldersOf(G, keyOf, k) = HoldersOf(H, keyOf, k)
      BY <2>2 DEF HoldersOf
    <3>2. k \in DOMAIN l.perKey /\ m.perKey[k] = l.perKey[k]
      BY <2>2, <1>3 DEF tryAcquire
    <3>3. QED BY <3>1, <3>2 DEF Accounts
  <2>3. QED BY <2>1, <2>2
<1>4. QED BY <1>1, <1>2, <1>3 DEF Accounts

(* A release by the holder x keeps the accounts exact, and drops the entry *)
(* of x's key exactly when x was its last holder.                          *)
LEMMA ReleaseAccounts ==
  ASSUME NEW l, NEW H, IsFiniteSet(H), NEW keyOf, NEW x \in H,
         Accounts(l, H, keyOf)
  PROVE  Accounts(release(l, keyOf[x]), H \ {x}, keyOf)
<1> DEFINE key == keyOf[x]
           m == release(l, key)
           G == H \ {x}
           left == KeyCount(l, key) - 1
<1>1. m.total = Cardinality(G)
  BY FS_RemoveElement, FS_CardinalityType DEF Accounts, release
<1>2. /\ IsFiniteSet(HoldersOf(H, keyOf, key))
      /\ KeyCount(l, key) = Cardinality(HoldersOf(H, keyOf, key))
      /\ KeyCount(l, key) \in Nat
  BY KeyCountIsHolders
<1>3. /\ HoldersOf(G, keyOf, key) = HoldersOf(H, keyOf, key) \ {x}
      /\ x \in HoldersOf(H, keyOf, key)
  BY DEF HoldersOf
<1>4. /\ IsFiniteSet(HoldersOf(G, keyOf, key))
      /\ Cardinality(HoldersOf(G, keyOf, key)) = left
  BY <1>2, <1>3, FS_RemoveElement
<1>5. left = 0 <=> HoldersOf(G, keyOf, key) = {}
  BY <1>4, FS_EmptySet
<1>6. key \in DOMAIN l.perKey
  BY DEF Accounts
<1>7. DOMAIN m.perKey = {keyOf[h] : h \in G}
  <2>1. CASE left = 0
    <3>1. DOMAIN m.perKey = DOMAIN l.perKey \ {key}
      BY <2>1 DEF release
    <3>2. \A h \in G : keyOf[h] # key
      BY <2>1, <1>5 DEF HoldersOf
    <3>3. QED BY <3>1, <3>2 DEF Accounts
  <2>2. CASE left # 0
    <3>1. DOMAIN m.perKey = DOMAIN l.perKey
      BY <2>2, <1>6 DEF release
    <3>2. \E h \in G : keyOf[h] = key
      BY <2>2, <1>5 DEF HoldersOf
    <3>3. QED BY <3>1, <3>2 DEF Accounts
  <2>3. QED BY <2>1, <2>2
<1>8. ASSUME NEW k \in DOMAIN m.perKey
      PROVE  m.perKey[k] = Cardinality(HoldersOf(G, keyOf, k))
  <2>1. CASE k = key
    <3>1. left # 0
      BY <2>1, <1>8 DEF release
    <3>2. m.perKey[key] = left
      BY <3>1, <1>6 DEF release
    <3>3. QED BY <2>1, <3>2, <1>4
  <2>2. CASE k # key
    <3>1. HoldersOf(G, keyOf, k) = HoldersOf(H, keyOf, k)
      BY <2>2 DEF HoldersOf
    <3>2. k \in DOMAIN l.perKey /\ m.perKey[k] = l.perKey[k]
      BY <2>2, <1>8 DEF release
    <3>3. QED BY <3>1, <3>2 DEF Accounts
  <2>3. QED BY <2>1, <2>2
<1>9. QED BY <1>1, <1>7, <1>8 DEF Accounts

(* tryAcquire under HasRoom stays within the limits. *)
LEMMA AcquireWithinLimits ==
  ASSUME NEW l, NEW H, IsFiniteSet(H), NEW keyOf, NEW k,
         Accounts(l, H, keyOf), WithinLimits(l), HasRoom(l, k)
  PROVE  WithinLimits(tryAcquire(l, k))
<1>1. l.total \in Nat
  BY FS_CardinalityType DEF Accounts
<1>2. KeyCount(l, k) \in Nat
  BY KeyCountIsHolders
<1>3. QED BY <1>1, <1>2, LimitsAssumption DEF WithinLimits, HasRoom, tryAcquire

(* A release stays within the limits. *)
LEMMA ReleaseWithinLimits ==
  ASSUME NEW l, NEW H, IsFiniteSet(H), NEW keyOf, NEW x \in H,
         Accounts(l, H, keyOf), WithinLimits(l)
  PROVE  WithinLimits(release(l, keyOf[x]))
<1>1. l.total \in Nat
  BY FS_CardinalityType DEF Accounts
<1>2. KeyCount(l, keyOf[x]) \in Nat
  BY KeyCountIsHolders
<1>3. keyOf[x] \in DOMAIN l.perKey
  BY DEF Accounts
<1>4. KeyCount(l, keyOf[x]) <= maxPerKey
  BY <1>3 DEF WithinLimits, KeyCount
<1>5. QED BY <1>1, <1>2, <1>3, <1>4, LimitsAssumption DEF WithinLimits, release
==============================================================================
