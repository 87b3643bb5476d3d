--------------------------- MODULE ListenerProofs ----------------------------
(***************************************************************************)
(* The two parts makeListener builds.  For every set of connections, any   *)
(* number of closing goroutines and all limits: the limiter's accounts are *)
(* exact, and net/http never holds more open sockets than the limits       *)
(* allow.  For any number of handshakes and renewals, every assignment of  *)
(* keys and every interval: the certificate in use has its own key, no     *)
(* handshake brings an older one back, and the files are read at most once *)
(* in an interval.                                                         *)
(***************************************************************************)
EXTENDS ConnectionLimits, CertificateReloader, ConcurrentLimiterProofs

(*---------------------------  Connection limits  -------------------------*)

(* What the limits rest on besides the accounts: the accept loop holds a   *)
(* connection nobody else has seen, and a slot is given back, and a Close  *)
(* is past its first half, only when the socket is closed, which some Close *)
(* has done; a Close that has returned has seen to the slot.               *)
Lifecycle ==
    \A c \in Conns :
       /\ accepting = c => socket[c] = "accepted"
       /\ released[c] => socket[c] = "closed"
       /\ \A g \in Closers : closer[c][g] # "idle" => socket[c] = "closed"
       /\ \A g \in Closers : closer[c][g] = "done" => released[c]
       /\ socket[c] = "closed" => \E g \in Closers : closer[c][g] # "idle"

(* The inductive invariant. *)
Inv ==
    /\ TypeOK
    /\ Lifecycle
    /\ SlotsAccounted
    /\ WithinLimits(limiter)

(* The connections that hold a slot are finitely many. *)
LEMMA HoldersFinite == IsFiniteSet(Holders)
<1>1. Holders \in SUBSET Conns
  BY DEF Holders
<1>2. QED BY <1>1, FS_Subset, ConnsAssumption

(* The first state satisfies the invariant (newLimitedListener). *)
LEMMA InitInv == Init => Inv
<1> SUFFICES ASSUME Init PROVE Inv
  OBVIOUS
<1>1. TypeOK
  BY DEF Init, TypeOK, newConcurrentLimiter
<1>2. Lifecycle
  BY ConnsAssumption DEF Init, Lifecycle
<1>3. SlotsAccounted
  <2>1. Holders = {}
    BY DEF Init, Holders
  <2>2. QED BY <2>1, EmptyAccounts DEF Init, SlotsAccounted
<1>4. WithinLimits(limiter)
  BY LimitsAssumption DEF Init, WithinLimits, newConcurrentLimiter
<1>5. QED BY <1>1, <1>2, <1>3, <1>4 DEF Inv

(* A step that leaves the limiter alone and keeps the set of holders keeps *)
(* the accounts and the limits.                                            *)
LEMMA LimiterUntouched ==
  ASSUME Inv, limiter' = limiter, Holders' = Holders
  PROVE  SlotsAccounted' /\ WithinLimits(limiter)'
BY DEF Inv, SlotsAccounted, WithinLimits, key

(* limiter.total is a number whenever the accounts are those of a finite   *)
(* set.                                                                    *)
LEMMA AccountsTotal ==
  ASSUME NEW l, NEW H, IsFiniteSet(H), NEW keyOf, Accounts(l, H, keyOf)
  PROVE  l.total \in Nat
BY FS_CardinalityType DEF Accounts

(* Every step keeps the invariant, one case per action. *)
LEMMA StepInv == Inv /\ [Next]_vars => Inv'
<1> SUFFICES ASSUME Inv, [Next]_vars PROVE Inv'
  OBVIOUS
<1>a. IsFiniteSet(Holders)
  BY HoldersFinite
<1>1. ASSUME NEW c \in Conns, ListenerAccept(c) PROVE Inv'
  <2>1. TypeOK'
    BY <1>1 DEF Inv, TypeOK, ListenerAccept
  <2>2. Lifecycle'
    BY <1>1 DEF Inv, TypeOK, Lifecycle, ListenerAccept
  <2>3. Holders' = Holders
    BY <1>1 DEF Inv, TypeOK, Holders, ListenerAccept
  <2>4. limiter' = limiter
    BY <1>1 DEF ListenerAccept
  <2>5. QED BY <2>1, <2>2, <2>3, <2>4, LimiterUntouched DEF Inv
<1>2. ASSUME NEW c \in Conns, Admit(c) PROVE Inv'
  <2>1. socket[c] = "accepted" /\ ~released[c]
    BY <1>2 DEF Inv, Lifecycle, Admit
  <2>2. c \notin Holders
    BY <2>1 DEF Holders
  <2>3. Holders' = Holders \cup {c}
    BY <1>2, <2>1 DEF Inv, TypeOK, Holders, Admit
  <2>4. Accounts(limiter', Holders', key)
    <3>1. Accounts(tryAcquire(limiter, key[c]), Holders \cup {c}, key)
      BY <1>a, <2>2, AcquireAccounts DEF Inv, SlotsAccounted
    <3>2. QED BY <1>2, <2>3, <3>1 DEF Admit
  <2>5. SlotsAccounted'
    BY <2>4 DEF SlotsAccounted, key
  <2>6. WithinLimits(limiter)'
    <3>1. WithinLimits(tryAcquire(limiter, key[c]))
      BY <1>2, <1>a, AcquireWithinLimits DEF Inv, SlotsAccounted, Admit
    <3>2. WithinLimits(limiter')
      BY <1>2, <3>1 DEF Admit
    <3>3. QED BY <3>2 DEF WithinLimits
  <2>7. TypeOK'
    <3>1. limiter'.total \in Nat
      <4>1. IsFiniteSet(Holders')
        BY <1>a, <2>3, FS_AddElement
      <4>2. QED BY <4>1, <2>4, AccountsTotal
    <3>2. QED BY <1>2, <3>1 DEF Inv, TypeOK, Admit
  <2>8. Lifecycle'
    BY <1>2, <2>1, ConnsAssumption DEF Inv, TypeOK, Lifecycle, Admit
  <2>9. QED BY <2>5, <2>6, <2>7, <2>8 DEF Inv
<1>3. ASSUME NEW c \in Conns, Refuse(c) PROVE Inv'
  <2>1. socket[c] = "accepted" /\ ~released[c]
    BY <1>3 DEF Inv, Lifecycle, Refuse
  <2>2. TypeOK'
    BY <1>3 DEF Inv, TypeOK, Refuse
  <2>3. Lifecycle'
    BY <1>3, <2>1, ConnsAssumption DEF Inv, TypeOK, Lifecycle, Refuse
  <2>4. Holders' = Holders
    BY <1>3, <2>1 DEF Inv, TypeOK, Holders, Refuse
  <2>5. limiter' = limiter
    BY <1>3 DEF Refuse
  <2>6. QED BY <2>2, <2>3, <2>4, <2>5, LimiterUntouched DEF Inv
<1>4. ASSUME NEW c \in Conns, NEW g \in Closers, CloseSocket(c, g) PROVE Inv'
  <2>1. TypeOK'
    BY <1>4 DEF Inv, TypeOK, CloseSocket
  <2>2. Lifecycle'
    BY <1>4 DEF Inv, TypeOK, Lifecycle, CloseSocket
  <2>3. Holders' = Holders
    BY <1>4 DEF Inv, TypeOK, Holders, CloseSocket
  <2>4. limiter' = limiter
    BY <1>4 DEF CloseSocket
  <2>5. QED BY <2>1, <2>2, <2>3, <2>4, LimiterUntouched DEF Inv
<1>5. ASSUME NEW c \in Conns, NEW g \in Closers, ReleaseSlot(c, g) PROVE Inv'
  <2>1. socket[c] = "closed"
    BY <1>5 DEF Inv, Lifecycle, ReleaseSlot
  <2>2. Lifecycle'
    BY <1>5, <2>1 DEF Inv, TypeOK, Lifecycle, ReleaseSlot
  <2>3. CASE released[c]
    <3>1. TypeOK'
      BY <1>5, <2>3 DEF Inv, TypeOK, ReleaseSlot
    <3>2. Holders' = Holders
      BY <1>5, <2>3 DEF Inv, TypeOK, Holders, ReleaseSlot
    <3>3. limiter' = limiter
      BY <1>5, <2>3 DEF ReleaseSlot
    <3>4. QED BY <2>2, <3>1, <3>2, <3>3, LimiterUntouched DEF Inv
  <2>4. CASE ~released[c]
    <3>1. c \in Holders
      BY <2>1, <2>4 DEF Holders
    <3>2. Holders' = Holders \ {c}
      BY <1>5, <2>1 DEF Inv, TypeOK, Holders, ReleaseSlot
    <3>3. limiter' = release(limiter, key[c])
      BY <1>5, <2>4 DEF ReleaseSlot
    <3>4. Accounts(limiter', Holders', key)
      <4>1. Accounts(release(limiter, key[c]), Holders \ {c}, key)
        BY <1>a, <3>1, ReleaseAccounts DEF Inv, SlotsAccounted
      <4>2. QED BY <3>2, <3>3, <4>1
    <3>5. SlotsAccounted'
      BY <3>4 DEF SlotsAccounted, key
    <3>6. WithinLimits(limiter)'
      <4>1. WithinLimits(release(limiter, key[c]))
        BY <1>a, <3>1, ReleaseWithinLimits DEF Inv, SlotsAccounted
      <4>2. WithinLimits(limiter')
        BY <3>3, <4>1
      <4>3. QED BY <4>2 DEF WithinLimits
    <3>7. TypeOK'
      <4>1. limiter'.total \in Nat
        <5>1. IsFiniteSet(Holders')
          BY <1>a, <3>2, FS_RemoveElement
        <5>2. QED BY <5>1, <3>4, AccountsTotal
      <4>2. QED BY <1>5, <4>1 DEF Inv, TypeOK, ReleaseSlot
    <3>8. QED BY <2>2, <3>5, <3>6, <3>7 DEF Inv
  <2>5. QED BY <2>3, <2>4
<1>6. CASE UNCHANGED vars
  <2>1. TypeOK' /\ Lifecycle'
    BY <1>6 DEF Inv, TypeOK, Lifecycle, vars
  <2>2. limiter' = limiter /\ Holders' = Holders
    BY <1>6 DEF Holders, vars
  <2>3. QED BY <2>1, <2>2, LimiterUntouched DEF Inv
<1>7. QED BY <1>1, <1>2, <1>3, <1>4, <1>5, <1>6 DEF Next, AcceptLoop

(* Accounts within the limits bound the open sockets, because an open      *)
(* socket still holds its slot (limitedConn.Close closes it first).        *)
LEMMA InvWithinLimits == Inv => SocketsWithinLimits
<1> SUFFICES ASSUME Inv PROVE SocketsWithinLimits
  OBVIOUS
<1>1. IsFiniteSet(Holders)
  BY HoldersFinite
<1>2. OpenConns \in SUBSET Holders
  BY DEF Inv, TypeOK, Lifecycle, OpenConns, Holders
<1>3. Cardinality(OpenConns) <= maxTotal
  <2>1. Cardinality(OpenConns) <= Cardinality(Holders)
    BY <1>1, <1>2, FS_Subset
  <2>2. Cardinality(OpenConns) \in Nat /\ Cardinality(Holders) \in Nat
    BY <1>1, <1>2, FS_Subset, FS_CardinalityType
  <2>3. Cardinality(Holders) <= maxTotal
    BY DEF Inv, SlotsAccounted, Accounts, WithinLimits
  <2>4. QED BY <2>1, <2>2, <2>3, LimitsAssumption
<1>4. ASSUME NEW c \in Conns
      PROVE  Cardinality(HoldersOf(OpenConns, key, key[c])) <= maxPerKey
  <2> DEFINE all == HoldersOf(Holders, key, key[c])
             open == HoldersOf(OpenConns, key, key[c])
  <2>1. /\ IsFiniteSet(all)
        /\ KeyCount(limiter, key[c]) = Cardinality(all)
    BY <1>1, KeyCountIsHolders DEF Inv, SlotsAccounted
  <2>2. open \in SUBSET all
    BY <1>2 DEF HoldersOf
  <2>3. Cardinality(open) <= Cardinality(all)
    BY <2>1, <2>2, FS_Subset
  <2>4. Cardinality(open) \in Nat /\ Cardinality(all) \in Nat
    BY <2>1, <2>2, FS_Subset, FS_CardinalityType
  <2>5. KeyCount(limiter, key[c]) <= maxPerKey
    BY LimitsAssumption DEF Inv, WithinLimits, KeyCount
  <2>6. QED BY <2>1, <2>3, <2>4, <2>5, LimitsAssumption
<1>5. QED BY <1>3, <1>4 DEF SocketsWithinLimits

(* The variables always have their types; in particular the count of used  *)
(* slots never goes below zero, whoever calls limitedConn.Close.           *)
THEOREM TypeCorrect == Spec => []TypeOK
<1>1. Inv => TypeOK
  BY DEF Inv
<1>2. QED BY <1>1, InitInv, StepInv, PTL DEF Spec

(* The connection limiter counts exactly the connections that hold a slot, *)
(* and the slot of a closed socket is back or a limitedConn.Close is about *)
(* to give it back, for any number of concurrent calls of it.              *)
THEOREM SlotsKept == Spec => []SlotsNeverLost
<1>1. Inv => SlotOnItsWay
  BY DEF Inv, TypeOK, Lifecycle, SlotOnItsWay
<1>2. Inv => SlotsNeverLost
  BY <1>1 DEF Inv, SlotsNeverLost
<1>3. QED BY <1>2, InitInv, StepInv, PTL DEF Spec

(* net/http never holds more open sockets than max_connections, nor more   *)
(* of one address than max_connections_per_ip.                             *)
THEOREM LimitsHold == Spec => []SocketsWithinLimits
BY InvWithinLimits, InitInv, StepInv, PTL DEF Spec

(*-------------------------  Certificate reloading  -----------------------*)

(* The mutex is held from Lock to Answer. *)
MutexInv == \A h \in Handshakes : pc[h] # "idle" => mutex = h

(* What is served, what has been read and what is in the files come from   *)
(* renewals in this order.                                                 *)
OrderInv ==
    /\ served <= renewal
    /\ certFile # Broken => served <= certFile /\ certFile <= renewal
    /\ \A h \in Handshakes : pc[h] = "readKey" =>
          certPEM[h] # Broken /\ served <= certPEM[h] /\ certPEM[h] <= renewal
    /\ \A h \in Handshakes : pc[h] = "readKey" /\ certFile # Broken => certPEM[h] <= certFile

(* The inductive invariant. *)
ReloadInv == ReloadTypeOK /\ MutexInv /\ OrderInv /\ PairMatches

(* newCertificateReloader establishes the invariant. *)
LEMMA ReloadInitInv == ReloadInit => ReloadInv
BY ReloaderAssumption
   DEF ReloadInit, ReloadInv, ReloadTypeOK, MutexInv, OrderInv, PairMatches, Versions, Broken

(* Every step keeps the invariant and serves no older certificate. *)
LEMMA ReloadStepInv ==
  ASSUME ReloadInv, [ReloadNext]_reloadVars
  PROVE  ReloadInv' /\ served' >= served
<1> USE ReloaderAssumption
<1> USE DEF ReloadInv, ReloadTypeOK, MutexInv, OrderInv, PairMatches, Versions, Broken,
            fileVars, timeVars, Reader
<1>1. CASE RenewalBegins
  BY <1>1 DEF RenewalBegins
<1>2. ASSUME NEW f \in {"cert", "key"}, WriteBegins(f) PROVE ReloadInv' /\ served' >= served
  BY <1>2 DEF WriteBegins
<1>3. ASSUME NEW f \in {"cert", "key"}, WriteEnds(f) PROVE ReloadInv' /\ served' >= served
  BY <1>3 DEF WriteEnds
<1>4. CASE Tick
  BY <1>4 DEF Tick
<1>5. ASSUME NEW h \in Handshakes, Lock(h) PROVE ReloadInv' /\ served' >= served
  BY <1>5 DEF Lock
<1>6. ASSUME NEW h \in Handshakes, CheckTime(h) PROVE ReloadInv' /\ served' >= served
  BY <1>6 DEF CheckTime
<1>7. ASSUME NEW h \in Handshakes, ReadCert(h) PROVE ReloadInv' /\ served' >= served
  BY <1>7 DEF ReadCert
<1>8. ASSUME NEW h \in Handshakes, ReadKey(h) PROVE ReloadInv' /\ served' >= served
  <2>1. certPEM[h] \in Versions /\ served <= certPEM[h] /\ certPEM[h] <= renewal
    BY <1>8 DEF ReadKey
  <2>2. \A g \in Handshakes : g # h => pc[g] = "idle"
    BY <1>8 DEF ReadKey
  <2>3. CASE Matches(certPEM[h], keyFile)
    <3>1. served' = certPEM[h] /\ servedKey' = KeyOf[certPEM[h]]
      BY <1>8, <2>3 DEF ReadKey, Matches
    <3>2. QED BY <1>8, <2>1, <2>2, <3>1 DEF ReadKey
  <2>4. CASE ~Matches(certPEM[h], keyFile)
    <3>1. served' = served /\ servedKey' = servedKey
      BY <1>8, <2>4 DEF ReadKey
    <3>2. QED BY <1>8, <2>2, <3>1 DEF ReadKey
  <2>5. QED BY <2>3, <2>4
<1>9. ASSUME NEW h \in Handshakes, Answer(h) PROVE ReloadInv' /\ served' >= served
  BY <1>9 DEF Answer
<1>10. CASE UNCHANGED reloadVars
  BY <1>10 DEF reloadVars
<1>11. QED
  BY <1>1, <1>2, <1>3, <1>4, <1>5, <1>6, <1>7, <1>8, <1>9, <1>10
     DEF ReloadNext, Renewal, GetCertificate

(* The invariant holds in every state. *)
LEMMA ReloadInvariance == ReloadSpec => []ReloadInv
<1>1. ReloadInv /\ [ReloadNext]_reloadVars => ReloadInv'
  BY ReloadStepInv
<1>2. QED BY ReloadInitInv, <1>1, PTL DEF ReloadSpec

(* Every variable keeps its type: there is always a certificate to serve. *)
THEOREM ReloadTypeCorrect == ReloadSpec => []ReloadTypeOK
<1>1. ReloadInv => ReloadTypeOK
  BY DEF ReloadInv
<1>2. QED BY <1>1, ReloadInvariance, PTL

(* The certificate in use never comes with the key of another. *)
THEOREM PairAlwaysMatches == ReloadSpec => []PairMatches
<1>1. ReloadInv => PairMatches
  BY DEF ReloadInv
<1>2. QED BY <1>1, ReloadInvariance, PTL

(* Overlapping handshakes never bring an older certificate back. *)
THEOREM NeverGoesBack == ReloadSpec => NoGoingBack
<1>1. ReloadInv /\ [ReloadNext]_reloadVars => [served' >= served]_reloadVars
  BY ReloadStepInv
<1>2. QED BY <1>1, ReloadInvariance, PTL DEF ReloadSpec, NoGoingBack

(* The time until the next check and the time since the last one make up   *)
(* at least the interval.                                                  *)
SpacingInv == wait + since >= Interval

(* Every step keeps the spacing, and the files are read only when it is    *)
(* used up.                                                                *)
LEMMA StepSpacing ==
  ASSUME ReloadTypeOK, SpacingInv, [ReloadNext]_reloadVars
  PROVE  /\ SpacingInv'
         /\ \A h \in Handshakes : pc[h] # "readCert" /\ pc'[h] = "readCert" => since = Interval
<1> DEFINE Spaced == \A h \in Handshakes :
                        pc[h] # "readCert" /\ pc'[h] = "readCert" => since = Interval
<1> USE ReloaderAssumption DEF ReloadTypeOK, SpacingInv, timeVars, Reader
<1>1. CASE RenewalBegins \/ \E f \in {"cert", "key"} : WriteBegins(f) \/ WriteEnds(f)
  BY <1>1 DEF RenewalBegins, WriteBegins, WriteEnds
<1>2. CASE Tick
  BY <1>2 DEF Tick
<1>3. ASSUME NEW h \in Handshakes, CheckTime(h) PROVE SpacingInv' /\ Spaced
  <2>1. CASE wait > 0
    BY <1>3, <2>1 DEF CheckTime
  <2>2. CASE wait = 0
    BY <1>3, <2>2 DEF CheckTime
  <2>3. QED BY <2>1, <2>2
<1>4. ASSUME NEW h \in Handshakes, Lock(h) \/ ReadCert(h) \/ ReadKey(h) \/ Answer(h)
      PROVE  SpacingInv' /\ Spaced
  BY <1>4 DEF Lock, ReadCert, ReadKey, Answer
<1>5. CASE UNCHANGED reloadVars
  BY <1>5 DEF reloadVars
<1>6. QED BY <1>1, <1>2, <1>3, <1>4, <1>5 DEF ReloadNext, Renewal, GetCertificate

(* The files are read at most once in an interval, whether they load or    *)
(* not and however many handshakes overlap (nextCheck, set before loading).*)
THEOREM ChecksKeepTheirDistance == ReloadSpec => ChecksAreSpaced
<1>1. ReloadInit => SpacingInv
  BY ReloaderAssumption DEF ReloadInit, SpacingInv
<1>2. ReloadInv /\ SpacingInv /\ [ReloadNext]_reloadVars => SpacingInv'
  BY StepSpacing DEF ReloadInv
<1>3. ReloadInv /\ SpacingInv /\ [ReloadNext]_reloadVars =>
        [\A h \in Handshakes : pc[h] # "readCert" /\ pc'[h] = "readCert" => since = Interval]_reloadVars
  BY StepSpacing DEF ReloadInv
<1>4. QED BY <1>1, <1>2, <1>3, ReloadInvariance, PTL DEF ReloadSpec, ChecksAreSpaced
==============================================================================
