------------------------- MODULE TunnelServerProofs --------------------------
(***************************************************************************)
(* For every set of requests and all limits: the safety properties of      *)
(* TunnelServer.  The invariant has two halves.  Shape says, stage by      *)
(* stage of every handler, of Serve and of Run, what has been opened,      *)
(* closed, marked and waited for; it needs no counting.  The rest says     *)
(* that the two counters, the wait group and the tunnel limiter, agree     *)
(* with Shape.                                                             *)
(***************************************************************************)
EXTENDS TunnelServer, ConcurrentLimiterProofs

(* The types, but for the two counters. *)
Types ==
    /\ stage \in [Requests -> {"idle", "serve", "forward", "done"} \cup SlotStages]
    /\ client \in [Requests -> {"none", "open", "closed"}]
    /\ dest \in [Requests -> {"none", "open", "closed"}]
    /\ closing \in BOOLEAN
    /\ active \in SUBSET Requests
    /\ run \in {"start", "probe", "select", "closeAll"} \cup AfterCloseAll
    /\ failed \in BOOLEAN
    /\ listener \in {"none", "open", "closed"}
    /\ serve \in {"none", "spawned", "accepting", "stopped", "refused"}
    /\ serveResult \in {"empty", "error", "ErrServerClosed"}
    /\ http \in {"open", "draining", "closed"}
    /\ expired \in BOOLEAN
    /\ toClose \in SUBSET Requests
    /\ half \in Requests \cup {None}
    /\ waiter \in {"none", "waiting", "done"}

(* What the handler of r has opened and closed at each of its stages. *)
StageShape(r) ==
    /\ stage[r] \in {"idle", "serve", "forward", "approve", "dial"} =>
          client[r] = "none" /\ dest[r] = "none"
    /\ stage[r] = "forward" => Proto[r] = "http"
    /\ stage[r] = "hijack" =>
          Proto[r] = "h1" /\ client[r] = "none" /\ dest[r] = "open"
    /\ stage[r] = "track" =>
          /\ dest[r] = "open"
          /\ client[r] = IF Proto[r] = "h1" THEN "open" ELSE "none"
    /\ stage[r] = "abort" => dest[r] = "closed" /\ client[r] # "none"
    /\ stage[r] \in TrackedStages => client[r] # "none" /\ dest[r] # "none"
    /\ stage[r] \in {"closeDest", "untrack"} => client[r] = "closed"
    /\ stage[r] = "untrack" => dest[r] = "closed"
    /\ stage[r] \in {"release", "done"} => client[r] # "open" /\ dest[r] # "open"

(* The registry holds the tracked tunnels. *)
ActiveShape == active = {r \in Requests : stage[r] \in TrackedStages}

(* CloseAll works only between the mark and Shutdown; each tunnel that is  *)
(* still tracked after the mark is yet to be closed, half closed or closed.*)
CloseAllShape ==
    /\ run \in {"start", "probe", "select"} => ~closing
    /\ run \in {"closeAll", "shutdown", "drain", "wait", "waiting", "join"} => closing
    /\ run # "closeAll" => toClose = {} /\ half = None
    /\ \A r \in Requests :
          r \in toClose \/ r = half => stage[r] \in TrackedStages \cup {"release", "done"}
    /\ closing => \A r \in active :
          \/ r \in toClose
          \/ r = half /\ client[r] = "closed"
          \/ client[r] = "closed" /\ dest[r] = "closed"

(* Serve, its result and the listener. *)
ServeShape ==
    /\ run = "start" => listener = "none"
    /\ run \in {"start", "probe"} => serve = "none"
    /\ run = "returned" => listener # "open"
    /\ run \in {"start", "probe", "select", "closeAll", "shutdown"} => http = "open"
    /\ serve \in {"stopped", "refused"} => listener = "closed"
    /\ serveResult # "empty" => serve \in {"stopped", "refused"}
    /\ serveResult = "ErrServerClosed" => http # "open"
    /\ serve = "none" => run \in {"start", "probe", "returned"}
    /\ serve = "none" => ~closing
    /\ serve = "spawned" => run # "returned"
    /\ run = "drain" => http # "open"
    /\ serve = "accepting" /\ run = "drain" => listener = "closed"
    /\ serve = "accepting" => run \in {"select", "closeAll", "shutdown", "drain"}
    /\ serve \in {"stopped", "refused"} => serveResult # "empty" \/ run = "returned"

(* What a stop without error has seen to. *)
StopShape ==
    /\ waiter # "none" => closing
    /\ waiter = "done" => active = {}
    /\ run = "returned" /\ ~failed => closing
    /\ closing /\ run \in {"wait", "waiting", "join", "returned"} => http = "closed"
    /\ run \in {"join", "returned"} /\ ~failed => waiter = "done"
    /\ run \in {"wait", "waiting", "join", "returned"} /\ ~failed =>
          http = "closed" /\ \A r \in Requests : ~HTTPOwned(r)

Shape ==
    /\ Types
    /\ \A r \in Requests : StageShape(r)
    /\ ActiveShape
    /\ CloseAllShape
    /\ ServeShape
    /\ StopShape

(* The inductive invariant. *)
Inv ==
    /\ Shape
    /\ wg = Cardinality(active)
    /\ TunnelSlotsAccounted
    /\ WithinLimits(slots)

(* The first state has the shape. *)
LEMMA InitShape == Init => Shape
<1> SUFFICES ASSUME Init PROVE Shape
  OBVIOUS
<1> USE RequestsAssumption DEF Init
<1>1. Types
  BY DEF Types, AfterCloseAll, TrackedStages, SlotStages
<1>2. \A r \in Requests : StageShape(r)
  BY DEF StageShape, TrackedStages
<1>3. ActiveShape
  BY DEF ActiveShape, TrackedStages
<1>4. CloseAllShape
  BY DEF CloseAllShape
<1>5. ServeShape
  BY DEF ServeShape
<1>6. StopShape
  BY DEF StopShape
<1>7. QED BY <1>1, <1>2, <1>3, <1>4, <1>5, <1>6 DEF Shape

(* Every step keeps the shape, one case per action.  That the counter of   *)
(* the wait group is the number of tracked tunnels is used by WaiterDone.  *)
LEMMA StepShape ==
  ASSUME Shape, wg = Cardinality(active), [Next]_vars
  PROVE  Shape'
<1> USE RequestsAssumption
<1> USE DEF Shape, Types, StageShape, ActiveShape, CloseAllShape, ServeShape,
            StopShape, HTTPOwned, AfterCloseAll, TrackedStages, SlotStages,
            Goto, HandlerOnly, ServeOnly, RunOnly, handlerVars, registryVars,
            serveVars, closeAllVars, runVars
<1>1. ASSUME NEW q \in Requests, Arrive(q) PROVE Shape'
  BY <1>1 DEF Arrive
<1>2. ASSUME NEW q \in Requests, Reject(q) PROVE Shape'
  BY <1>2 DEF Reject
<1>3. ASSUME NEW q \in Requests, Forward(q) PROVE Shape'
  BY <1>3 DEF Forward
<1>4. ASSUME NEW q \in Requests, ForwardEnds(q) PROVE Shape'
  BY <1>4 DEF ForwardEnds
<1>5. ASSUME NEW q \in Requests, Acquire(q) PROVE Shape'
  BY <1>5 DEF Acquire
<1>6. ASSUME NEW q \in Requests, AcquireRefused(q) PROVE Shape'
  BY <1>6 DEF AcquireRefused
<1>7. ASSUME NEW q \in Requests, Approve(q) PROVE Shape'
  BY <1>7 DEF Approve
<1>8. ASSUME NEW q \in Requests, Dial(q) PROVE Shape'
  BY <1>8 DEF Dial
<1>9. ASSUME NEW q \in Requests, DialFails(q) PROVE Shape'
  BY <1>9 DEF DialFails
<1>10. ASSUME NEW q \in Requests, Hijack(q) PROVE Shape'
  BY <1>10 DEF Hijack
<1>11. ASSUME NEW q \in Requests, HijackFails(q) PROVE Shape'
  BY <1>11 DEF HijackFails
<1>12. ASSUME NEW q \in Requests, Track(q) PROVE Shape'
  BY <1>12 DEF Track
<1>13. ASSUME NEW q \in Requests, TrackRefused(q) PROVE Shape'
  BY <1>13 DEF TrackRefused
<1>14. ASSUME NEW q \in Requests, Abort(q) PROVE Shape'
  BY <1>14 DEF Abort
<1>15. ASSUME NEW q \in Requests, Respond(q) PROVE Shape'
  BY <1>15 DEF Respond
<1>16. ASSUME NEW q \in Requests, RelayEnds(q) PROVE Shape'
  BY <1>16 DEF RelayEnds
<1>17. ASSUME NEW q \in Requests, CloseClient(q) PROVE Shape'
  BY <1>17 DEF CloseClient
<1>18. ASSUME NEW q \in Requests, CloseDest(q) PROVE Shape'
  BY <1>18 DEF CloseDest
<1>19. ASSUME NEW q \in Requests, Untrack(q) PROVE Shape'
  BY <1>19 DEF Untrack
<1>20. ASSUME NEW q \in Requests, ReleaseTunnel(q) PROVE Shape'
  BY <1>20 DEF ReleaseTunnel
<1>21. ASSUME NEW q \in Requests, CloseAllClient(q) PROVE Shape'
  BY <1>21 DEF CloseAllClient
<1>22. ASSUME NEW q \in Requests, CloseAllDest(q) PROVE Shape'
  BY <1>22 DEF CloseAllDest
<1>23. CASE ServeBegins
  BY <1>23 DEF ServeBegins
<1>24. CASE ServeRefused
  BY <1>24 DEF ServeRefused
<1>25. CASE ServeStops
  BY <1>25 DEF ServeStops
<1>26. CASE StartFails
  BY <1>26 DEF StartFails
<1>27. CASE MakeListener
  BY <1>27 DEF MakeListener
<1>28. CASE ProbeFails
  BY <1>28 DEF ProbeFails
<1>29. CASE SpawnServe
  BY <1>29 DEF SpawnServe
<1>30. CASE SelectServeResult
  BY <1>30 DEF SelectServeResult
<1>31. CASE CloseAllBegins
  BY <1>31 DEF CloseAllBegins
<1>32. CASE CloseAllEnds
  BY <1>32 DEF CloseAllEnds
<1>33. CASE ShutdownBegins
  BY <1>33 DEF ShutdownBegins
<1>34. CASE ShutdownReturns
  BY <1>34 DEF ShutdownReturns
<1>35. CASE ShutdownExpires
  BY <1>35 DEF ShutdownExpires
<1>36. CASE WaitBegins
  BY <1>36 DEF WaitBegins
<1>37. CASE WaiterDone
  <2>1. active = {}
    <3>1. IsFiniteSet(active)
      BY FS_Subset
    <3>2. QED BY <3>1, <1>37, FS_EmptySet DEF WaiterDone
  <2>2. QED BY <2>1, <1>37 DEF WaiterDone
<1>38. CASE WaitReturns
  <2>1. CASE waiter = "done" /\ failed' = failed
    BY <2>1, <1>38 DEF WaitReturns
  <2>2. CASE failed' = TRUE
    BY <2>2, <1>38 DEF WaitReturns
  <2>3. QED BY <2>1, <2>2, <1>38 DEF WaitReturns
<1>39. CASE Join
  BY <1>39 DEF Join
<1>40. CASE Expire
  BY <1>40 DEF Expire
<1>41. CASE UNCHANGED vars
  BY <1>41 DEF vars
<1>42. QED
  BY <1>1, <1>2, <1>3, <1>4, <1>5, <1>6, <1>7, <1>8, <1>9, <1>10, <1>11, <1>12, <1>13, <1>14, <1>15, <1>16, <1>17, <1>18, <1>19, <1>20, <1>21, <1>22, <1>23, <1>24, <1>25, <1>26, <1>27, <1>28, <1>29, <1>30, <1>31, <1>32, <1>33, <1>34, <1>35, <1>36, <1>37, <1>38, <1>39, <1>40, <1>41
     DEF Next, HandlerRuns, HandlerWaits, ServeRuns, StartRuns, StopRuns,
         CloseAllRuns, Finished

(* Only Track and untrack touch the registry's map and its wait group. *)
LEMMA RegistryUntouched ==
  ASSUME [Next]_vars,
         \A r \in Requests : ~Track(r) /\ ~Untrack(r)
  PROVE  active' = active /\ wg' = wg
BY DEF Arrive, Reject, Forward, ForwardEnds, Acquire, AcquireRefused, Approve,
           Dial, DialFails, Hijack, HijackFails, TrackRefused, Abort,
           Respond, RelayEnds, CloseClient, CloseDest, ReleaseTunnel,
           CloseAllClient, CloseAllDest, ServeBegins, ServeRefused,
           ServeStops, StartFails, MakeListener, ProbeFails, SpawnServe,
           SelectServeResult, CloseAllBegins, CloseAllEnds,
           ShutdownBegins, ShutdownReturns, ShutdownExpires, WaitBegins,
           WaiterDone, WaitReturns, Join, Expire, Finished, Next,
           HandlerRuns, HandlerWaits, ServeRuns, StartRuns, StopRuns,
           CloseAllRuns, Goto, HandlerOnly, ServeOnly, RunOnly,
           handlerVars, registryVars, serveVars, closeAllVars, runVars,
           vars

(* The wait group keeps counting the tracked tunnels. *)
LEMMA StepWaitGroup ==
  ASSUME Shape, wg = Cardinality(active), [Next]_vars
  PROVE  wg' = Cardinality(active')
<1>1. IsFiniteSet(active)
  BY RequestsAssumption, FS_Subset DEF Shape, Types
<1>2. ASSUME NEW r \in Requests, Track(r) PROVE wg' = Cardinality(active')
  <2>1. r \notin active
    BY <1>2 DEF Shape, ActiveShape, Track, Goto, TrackedStages
  <2>2. active' = active \cup {r} /\ wg' = wg + 1
    BY <1>2 DEF Track
  <2>3. QED BY <1>1, <2>1, <2>2, FS_AddElement
<1>3. ASSUME NEW r \in Requests, Untrack(r) PROVE wg' = Cardinality(active')
  <2>1. r \in active
    BY <1>3 DEF Shape, ActiveShape, Untrack, Goto, TrackedStages
  <2>2. active' = active \ {r} /\ wg' = wg - 1
    BY <1>3, <2>1 DEF Untrack
  <2>3. QED BY <1>1, <2>1, <2>2, FS_RemoveElement
<1>4. CASE \A r \in Requests : ~Track(r) /\ ~Untrack(r)
  BY <1>4, RegistryUntouched
<1>5. QED BY <1>2, <1>3, <1>4

(* Only tryAcquire and releaseTunnel touch the limiter, and no other step  *)
(* moves a handler into or out of the stages that hold a slot.             *)
LEMMA SlotsUntouched ==
  ASSUME Shape, [Next]_vars,
         \A r \in Requests : ~Acquire(r) /\ ~ReleaseTunnel(r)
  PROVE  slots' = slots /\ SlotHolders' = SlotHolders
<1>1. slots' = slots
  BY DEF Arrive, Reject, Forward, ForwardEnds, AcquireRefused, Approve, Dial,
           DialFails, Hijack, HijackFails, Track, TrackRefused, Abort,
           Respond, RelayEnds, CloseClient, CloseDest, Untrack,
           CloseAllClient, CloseAllDest, ServeBegins, ServeRefused,
           ServeStops, StartFails, MakeListener, ProbeFails, SpawnServe,
           SelectServeResult, CloseAllBegins, CloseAllEnds,
           ShutdownBegins, ShutdownReturns, ShutdownExpires, WaitBegins,
           WaiterDone, WaitReturns, Join, Expire, Finished, Next,
           HandlerRuns, HandlerWaits, ServeRuns, StartRuns, StopRuns,
           CloseAllRuns, Goto, HandlerOnly, ServeOnly, RunOnly,
           handlerVars, registryVars, serveVars, closeAllVars, runVars,
           vars
<1>2. ASSUME NEW r \in Requests
      PROVE  stage[r] \in SlotStages <=> stage'[r] \in SlotStages
  BY DEF Shape, Types, SlotStages, TrackedStages,
         Arrive, Reject, Forward, ForwardEnds, AcquireRefused, Approve, Dial,
           DialFails, Hijack, HijackFails, Track, TrackRefused, Abort,
           Respond, RelayEnds, CloseClient, CloseDest, Untrack,
           CloseAllClient, CloseAllDest, ServeBegins, ServeRefused,
           ServeStops, StartFails, MakeListener, ProbeFails, SpawnServe,
           SelectServeResult, CloseAllBegins, CloseAllEnds,
           ShutdownBegins, ShutdownReturns, ShutdownExpires, WaitBegins,
           WaiterDone, WaitReturns, Join, Expire, Finished, Next,
           HandlerRuns, HandlerWaits, ServeRuns, StartRuns, StopRuns,
           CloseAllRuns, Goto, HandlerOnly, ServeOnly, RunOnly,
           handlerVars, registryVars, serveVars, closeAllVars, runVars,
           vars
<1>3. QED BY <1>1, <1>2 DEF SlotHolders

(* The limiter's accounts stay exact and within the limits. *)
LEMMA StepSlots ==
  ASSUME Inv, [Next]_vars
  PROVE  TunnelSlotsAccounted' /\ WithinLimits(slots)'
<1>1. IsFiniteSet(SlotHolders)
  <2>1. SlotHolders \in SUBSET Requests
    BY DEF SlotHolders
  <2>2. QED BY <2>1, FS_Subset, RequestsAssumption
<1>2. ASSUME NEW r \in Requests, Acquire(r)
      PROVE  TunnelSlotsAccounted' /\ WithinLimits(slots)'
  <2>1. r \notin SlotHolders
    BY <1>2 DEF SlotHolders, Acquire, Goto, SlotStages, TrackedStages
  <2>2. SlotHolders' = SlotHolders \cup {r}
    BY <1>2 DEF Inv, Shape, Types, SlotHolders, Acquire, Goto, SlotStages
  <2>3. slots' = tryAcquire(slots, key[r])
    BY <1>2 DEF Acquire
  <2>4. Accounts(tryAcquire(slots, key[r]), SlotHolders \cup {r}, key)
    BY <1>1, <2>1, AcquireAccounts DEF Inv, TunnelSlotsAccounted
  <2>5. Accounts(slots', SlotHolders', key)
    BY <2>2, <2>3, <2>4
  <2>6. WithinLimits(tryAcquire(slots, key[r]))
    BY <1>1, <1>2, AcquireWithinLimits DEF Inv, TunnelSlotsAccounted, Acquire
  <2>7. WithinLimits(slots')
    BY <2>3, <2>6
  <2>8. QED BY <2>5, <2>7 DEF TunnelSlotsAccounted, WithinLimits, key
<1>3. ASSUME NEW r \in Requests, ReleaseTunnel(r)
      PROVE  TunnelSlotsAccounted' /\ WithinLimits(slots)'
  <2>1. r \in SlotHolders
    BY <1>3 DEF SlotHolders, ReleaseTunnel, Goto, SlotStages
  <2>2. SlotHolders' = SlotHolders \ {r}
    BY <1>3 DEF Inv, Shape, Types, SlotHolders, ReleaseTunnel, Goto, SlotStages, TrackedStages
  <2>3. slots' = release(slots, key[r])
    BY <1>3 DEF ReleaseTunnel
  <2>4. Accounts(release(slots, key[r]), SlotHolders \ {r}, key)
    BY <1>1, <2>1, ReleaseAccounts DEF Inv, TunnelSlotsAccounted
  <2>5. Accounts(slots', SlotHolders', key)
    BY <2>2, <2>3, <2>4
  <2>6. WithinLimits(release(slots, key[r]))
    BY <1>1, <2>1, ReleaseWithinLimits DEF Inv, TunnelSlotsAccounted
  <2>7. WithinLimits(slots')
    BY <2>3, <2>6
  <2>8. QED BY <2>5, <2>7 DEF TunnelSlotsAccounted, WithinLimits, key
<1>4. CASE \A r \in Requests : ~Acquire(r) /\ ~ReleaseTunnel(r)
  <2>1. slots' = slots /\ SlotHolders' = SlotHolders
    BY <1>4, SlotsUntouched DEF Inv
  <2>2. QED BY <2>1 DEF Inv, TunnelSlotsAccounted, WithinLimits, key
<1>5. QED BY <1>2, <1>3, <1>4

(* Every step keeps the invariant. *)
LEMMA InductiveStep ==
  ASSUME Inv, [Next]_vars
  PROVE  Inv'
<1>1. Shape'
  BY StepShape DEF Inv
<1>2. wg' = Cardinality(active')
  BY StepWaitGroup DEF Inv
<1>3. TunnelSlotsAccounted' /\ WithinLimits(slots)'
  BY StepSlots
<1>4. QED BY <1>1, <1>2, <1>3 DEF Inv

(* The invariant holds in every state. *)
LEMMA Invariance == Spec => []Inv
<1>1. Init => Inv
  <2> SUFFICES ASSUME Init PROVE Inv
    OBVIOUS
  <2>1. Shape
    BY InitShape
  <2>2. wg = Cardinality(active)
    BY FS_EmptySet DEF Init
  <2>3. TunnelSlotsAccounted
    <3>1. SlotHolders = {}
      BY DEF Init, SlotHolders, SlotStages, TrackedStages
    <3>2. QED BY <3>1, EmptyAccounts DEF Init, TunnelSlotsAccounted
  <2>4. WithinLimits(slots)
    BY LimitsAssumption DEF Init, WithinLimits, newConcurrentLimiter
  <2>5. QED BY <2>1, <2>2, <2>3, <2>4 DEF Inv
<1>2. Inv /\ [Next]_vars => Inv'
  BY InductiveStep
<1>3. QED BY <1>1, <1>2, PTL DEF Spec

(* Every variable keeps its type; the counters never go below zero. *)
THEOREM TypeCorrect == Spec => []TypeOK
<1>1. Inv => TypeOK
  <2> SUFFICES ASSUME Inv PROVE TypeOK
    OBVIOUS
  <2>1. wg \in Nat
    <3>1. IsFiniteSet(active)
      BY RequestsAssumption, FS_Subset DEF Inv, Shape, Types
    <3>2. QED BY <3>1, FS_CardinalityType DEF Inv
  <2>2. slots.total \in Nat
    <3>1. SlotHolders \in SUBSET Requests
      BY DEF SlotHolders
    <3>2. IsFiniteSet(SlotHolders)
      BY <3>1, FS_Subset, RequestsAssumption
    <3>3. QED BY <3>2, FS_CardinalityType DEF Inv, TunnelSlotsAccounted, Accounts
  <2>3. QED BY <2>1, <2>2 DEF Inv, Shape, Types, TypeOK
<1>2. QED BY <1>1, Invariance, PTL

(* No path through handleTunneling loses a tunnel slot or returns it twice,*)
(* and max_tunnels and max_tunnels_per_ip bound the open destinations.     *)
THEOREM TunnelLimitsHold == Spec => []TunnelLimitsKept
<1>1. Inv => TunnelLimitsKept
  <2> SUFFICES ASSUME Inv PROVE TunnelsWithinLimits
    BY DEF Inv, TunnelLimitsKept
  <2>1. IsFiniteSet(SlotHolders)
    <3>1. SlotHolders \in SUBSET Requests
      BY DEF SlotHolders
    <3>2. QED BY <3>1, FS_Subset, RequestsAssumption
  <2>2. OpenDests \in SUBSET SlotHolders
    BY DEF Inv, Shape, Types, StageShape, OpenDests, SlotHolders, SlotStages, TrackedStages
  <2>3. Cardinality(OpenDests) <= maxTotal
    <3>1. Cardinality(OpenDests) <= Cardinality(SlotHolders)
      BY <2>1, <2>2, FS_Subset
    <3>2. Cardinality(OpenDests) \in Nat /\ Cardinality(SlotHolders) \in Nat
      BY <2>1, <2>2, FS_Subset, FS_CardinalityType
    <3>3. Cardinality(SlotHolders) <= maxTotal
      BY DEF Inv, TunnelSlotsAccounted, Accounts, WithinLimits
    <3>4. QED BY <3>1, <3>2, <3>3, LimitsAssumption
  <2>4. ASSUME NEW r \in Requests
        PROVE  Cardinality(HoldersOf(OpenDests, key, key[r])) <= maxPerKey
    <3> DEFINE all == HoldersOf(SlotHolders, key, key[r])
               open == HoldersOf(OpenDests, key, key[r])
    <3>1. /\ IsFiniteSet(all)
          /\ KeyCount(slots, key[r]) = Cardinality(all)
      BY <2>1, KeyCountIsHolders DEF Inv, TunnelSlotsAccounted
    <3>2. open \in SUBSET all
      BY <2>2 DEF HoldersOf
    <3>3. Cardinality(open) <= Cardinality(all)
      BY <3>1, <3>2, FS_Subset
    <3>4. Cardinality(open) \in Nat /\ Cardinality(all) \in Nat
      BY <3>1, <3>2, FS_Subset, FS_CardinalityType
    <3>5. KeyCount(slots, key[r]) <= maxPerKey
      BY LimitsAssumption DEF Inv, WithinLimits, KeyCount
    <3>6. QED BY <3>1, <3>3, <3>4, <3>5, LimitsAssumption
  <2>5. QED BY <2>3, <2>4 DEF TunnelsWithinLimits
<1>2. QED BY <1>1, Invariance, PTL

(* The wait group always counts the tracked tunnels, so it never panics and *)
(* Registry.Wait returns once the last one is untracked; and after CloseAll *)
(* no tracked tunnel has an open end.                                      *)
THEOREM RegistryAlwaysSound == Spec => []RegistrySound
<1>1. Inv => RegistryConsistent
  BY DEF Inv, Shape, ActiveShape, RegistryConsistent
<1>2. Inv => CloseAllComplete
  BY RequestsAssumption
     DEF Inv, Shape, Types, CloseAllShape, CloseAllComplete, AfterCloseAll
<1>3. Inv => RegistrySound
  BY <1>1, <1>2 DEF RegistrySound
<1>4. QED BY <1>3, Invariance, PTL

(* No CONNECT handler returns with a connection left open. *)
THEOREM HandlersLeakNothing == Spec => []NoLeak
<1>1. Inv => NoLeak
  BY DEF Inv, Shape, StageShape, NoLeak
<1>2. QED BY <1>1, Invariance, PTL

(* A nil result of Run means that Shutdown and Wait saw every handler end, *)
(* save those without a tunnel: none was overtaken by the timeout.         *)
THEOREM StopIsClean == Spec => []CleanStop
<1>1. Inv => CleanStop
  <2> SUFFICES ASSUME Inv, run = "returned", ~failed, NEW r \in Requests,
                      stage[r] \notin {"idle", "done"}
               PROVE  /\ Proto[r] = "h1" /\ client[r] # "none"
                      /\ stage[r] \in {"track", "abort", "release"}
    BY DEF CleanStop
  <2>1. ~HTTPOwned(r) /\ active = {}
    BY DEF Inv, Shape, StopShape
  <2>2. Proto[r] = "h1" /\ client[r] # "none"
    BY <2>1 DEF HTTPOwned
  <2>3. stage[r] \notin TrackedStages
    BY <2>1 DEF Inv, Shape, ActiveShape
  <2>4. QED BY <2>2, <2>3 DEF Inv, Shape, Types, StageShape, SlotStages
<1>2. QED BY <1>1, Invariance, PTL

(* Run never returns with the listening socket open. *)
THEOREM ListenerIsClosed == Spec => []ListenerClosed
<1>1. Inv => ListenerClosed
  BY DEF Inv, Shape, ServeShape, ListenerClosed
<1>2. QED BY <1>1, Invariance, PTL

(* Whatever order a stop takes, nobody in it waits for what will not come: *)
(* the state half of StopEnds and StopReleasesTunnels.                     *)
THEOREM NobodyGetsStuck == Spec => []StopNeverStuck
<1>1. Inv => StopNeverStuck
  <2> SUFFICES ASSUME Inv, closing PROVE StopNeverStuck
    BY DEF StopNeverStuck
  <2>1. run = "drain" /\ serve = "accepting" => listener = "closed"
    BY DEF Inv, Shape, ServeShape
  <2>2. run \in {"wait", "waiting", "join"} => serveResult # "empty" \/ serve = "spawned"
    BY DEF Inv, Shape, Types, ServeShape
  <2>3. ASSUME run \in {"wait", "waiting", "join", "returned"}, NEW r \in Requests,
               stage[r] \in {"respond", "relay", "forward"}
        PROVE  CutOff(r)
    <3>1. http = "closed"
      BY <2>3 DEF Inv, Shape, StopShape
    <3>2. CASE Proto[r] = "h1"
      <4>1. r \in active
        BY <2>3, <3>2 DEF Inv, Shape, StageShape, ActiveShape, TrackedStages
      <4>2. toClose = {} /\ half = None
        BY <2>3 DEF Inv, Shape, CloseAllShape
      <4>3. client[r] = "closed" /\ dest[r] = "closed"
        BY <4>1, <4>2, RequestsAssumption DEF Inv, Shape, CloseAllShape
      <4>4. QED BY <3>2, <4>3 DEF CutOff
    <3>3. QED BY <3>1, <3>2 DEF CutOff
  <2>4. QED BY <2>1, <2>2, <2>3 DEF StopNeverStuck
<1>2. QED BY <1>1, Invariance, PTL

(* No wg.Add while Registry.Wait runs: Track refuses once closing is set.  *)
THEOREM NoAddWhileWaiting == Spec => NoAddDuringWait
<1>1. Inv /\ [Next]_vars => [waiter # "none" => wg' <= wg]_vars
  <2> SUFFICES ASSUME Inv, [Next]_vars, waiter # "none" PROVE wg' <= wg
    OBVIOUS
  <2>1. closing
    BY DEF Inv, Shape, StopShape
  <2>2. wg \in Nat
    <3>1. IsFiniteSet(active)
      BY RequestsAssumption, FS_Subset DEF Inv, Shape, Types
    <3>2. QED BY <3>1, FS_CardinalityType DEF Inv
  <2>3. ASSUME NEW r \in Requests, Untrack(r) PROVE wg' <= wg
    BY <2>2, <2>3 DEF Untrack
  <2>4. \A r \in Requests : ~Track(r)
    BY <2>1 DEF Track
  <2>5. CASE \A r \in Requests : ~Untrack(r)
    BY <2>2, <2>4, <2>5, RegistryUntouched
  <2>6. QED BY <2>3, <2>5
<1>2. QED BY <1>1, Invariance, PTL DEF Spec, NoAddDuringWait

(* TunnelService counts as this module does. *)
LEMMA SameCount == \A S : Service!Cardinality(S) = Cardinality(S)
BY DEF Service!Cardinality, Cardinality

(* What is up in TunnelService is what the registry tracks. *)
LEMMA UpIsActive == Shape => Service!Up = active
BY DEF Shape, Types, ActiveShape, Service!Up, tunnelSeen

(* A tunnel that Track admits is the only one of its request and leaves    *)
(* the others at least one short of both limits, because it has had a slot *)
(* of its own since tryAcquire.                                            *)
LEMMA TrackHasRoom ==
  ASSUME Inv, NEW r \in Requests, Track(r)
  PROVE  /\ Cardinality(active) < maxTotal
         /\ Cardinality(HoldersOf(active, key, key[r])) < maxPerKey
<1>1. IsFiniteSet(SlotHolders)
  <2>1. SlotHolders \in SUBSET Requests
    BY DEF SlotHolders
  <2>2. QED BY <2>1, FS_Subset, RequestsAssumption
<1>2. r \in SlotHolders /\ r \notin active /\ active \in SUBSET SlotHolders
  BY DEF Inv, Shape, Types, ActiveShape, SlotHolders, SlotStages, TrackedStages, Track, Goto
<1>3. Cardinality(active) < maxTotal
  <2>1. IsFiniteSet(active)
    BY <1>1, <1>2, FS_Subset
  <2>2. /\ IsFiniteSet(active \cup {r})
        /\ Cardinality(active \cup {r}) = Cardinality(active) + 1
    BY <2>1, <1>2, FS_AddElement
  <2>3. Cardinality(active \cup {r}) <= Cardinality(SlotHolders)
    BY <1>1, <1>2, FS_Subset
  <2>4. Cardinality(active) \in Nat /\ Cardinality(SlotHolders) \in Nat
    BY <1>1, <2>1, FS_CardinalityType
  <2>5. Cardinality(SlotHolders) <= maxTotal
    BY DEF Inv, TunnelSlotsAccounted, Accounts, WithinLimits
  <2>6. QED BY <2>2, <2>3, <2>4, <2>5, LimitsAssumption
<1>4. Cardinality(HoldersOf(active, key, key[r])) < maxPerKey
  <2> DEFINE all == HoldersOf(SlotHolders, key, key[r])
             up == HoldersOf(active, key, key[r])
  <2>1. /\ IsFiniteSet(all)
        /\ KeyCount(slots, key[r]) = Cardinality(all)
    BY <1>1, KeyCountIsHolders DEF Inv, TunnelSlotsAccounted
  <2>2. r \in all /\ r \notin up /\ up \in SUBSET all
    BY <1>2 DEF HoldersOf
  <2>3. IsFiniteSet(up)
    BY <2>1, <2>2, FS_Subset
  <2>4. /\ IsFiniteSet(up \cup {r})
        /\ Cardinality(up \cup {r}) = Cardinality(up) + 1
    BY <2>2, <2>3, FS_AddElement
  <2>5. Cardinality(up \cup {r}) <= Cardinality(all)
    BY <2>1, <2>2, FS_Subset
  <2>6. Cardinality(up) \in Nat /\ Cardinality(all) \in Nat
    BY <2>1, <2>3, FS_CardinalityType
  <2>7. KeyCount(slots, key[r]) <= maxPerKey
    BY LimitsAssumption DEF Inv, WithinLimits, KeyCount
  <2>8. QED BY <2>1, <2>4, <2>5, <2>6, <2>7, LimitsAssumption
<1>5. QED BY <1>3, <1>4

(* Each step is a step of TunnelService or changes nothing that shows. *)
LEMMA StepService ==
  ASSUME Inv, [Next]_vars
  PROVE  [Service!ServiceNext]_(Service!serviceVars)
<1> DEFINE Step == [Service!ServiceNext]_(Service!serviceVars)
<1> USE RequestsAssumption DEF Goto, HandlerOnly, ServeOnly, RunOnly, handlerVars,
        registryVars, serveVars, closeAllVars, runVars, Service!serviceVars
<1>1. ASSUME NEW r \in Requests, Track(r) PROVE Step
  <2>1. Service!Establish(r)
    <3>1. Service!Up = active /\ Service!UpFrom(key[r]) = HoldersOf(active, key, key[r])
      BY UpIsActive DEF Inv, Service!UpFrom, HoldersOf
    <3>2. ~closing /\ tunnelSeen[r] = "none"
      BY <1>1 DEF Track, tunnelSeen, TrackedStages
    <3>3. tunnelSeen' = [tunnelSeen EXCEPT ![r] = "up"]
      BY <1>1 DEF Inv, Shape, Types, Track, tunnelSeen, TrackedStages
    <3>4. closing' = closing /\ resultSeen' = resultSeen
      BY <1>1 DEF Track, resultSeen
    <3>5. QED BY <1>1, <3>1, <3>2, <3>3, <3>4, TrackHasRoom, SameCount DEF Service!Establish
  <2>2. QED BY <2>1 DEF Service!ServiceNext
<1>2. ASSUME NEW r \in Requests,
             \/ Reject(r) \/ ForwardEnds(r) \/ AcquireRefused(r) \/ Approve(r)
             \/ DialFails(r) \/ HijackFails(r) \/ TrackRefused(r) \/ Untrack(r)
      PROVE  Step
  <2>1. closing' = closing /\ resultSeen' = resultSeen
    BY <1>2 DEF Reject, ForwardEnds, AcquireRefused, Approve, DialFails,
                HijackFails, TrackRefused, Untrack, resultSeen
  <2>2. \/ tunnelSeen' = tunnelSeen
        \/ tunnelSeen[r] # "over" /\ tunnelSeen' = [tunnelSeen EXCEPT ![r] = "over"]
    BY <1>2 DEF Inv, Shape, Types, Reject, ForwardEnds, AcquireRefused, Approve,
                DialFails, HijackFails, TrackRefused, Untrack, tunnelSeen, TrackedStages
  <2>3. QED BY <2>1, <2>2 DEF Service!End, Service!ServiceNext
<1>3. ASSUME NEW r \in Requests,
             \/ Arrive(r) \/ Forward(r) \/ Acquire(r) \/ Dial(r) \/ Hijack(r) \/ Abort(r)
             \/ Respond(r) \/ RelayEnds(r) \/ CloseClient(r) \/ CloseDest(r)
             \/ ReleaseTunnel(r) \/ CloseAllClient(r) \/ CloseAllDest(r)
      PROVE  Step
  <2>1. closing' = closing /\ resultSeen' = resultSeen
    BY <1>3 DEF Arrive, Forward, Acquire, Dial, Hijack, Abort, Respond, RelayEnds,
                CloseClient, CloseDest, ReleaseTunnel, CloseAllClient, CloseAllDest, resultSeen
  <2>2. tunnelSeen' = tunnelSeen
    BY <1>3 DEF Inv, Shape, Types, Arrive, Forward, Acquire, Dial, Hijack, Abort, Respond,
                RelayEnds, CloseClient, CloseDest, ReleaseTunnel, CloseAllClient,
                CloseAllDest, tunnelSeen, TrackedStages
  <2>3. QED BY <2>1, <2>2
<1>4. CASE CloseAllBegins
  <2>1. closing' = TRUE /\ resultSeen = "none" /\ resultSeen' = resultSeen
    BY <1>4 DEF CloseAllBegins, resultSeen
  <2>2. tunnelSeen' = tunnelSeen
    BY <1>4 DEF CloseAllBegins, tunnelSeen
  <2>3. QED BY <2>1, <2>2 DEF Service!Stop, Service!ServiceNext
<1>5. CASE StartFails \/ ProbeFails \/ SelectServeResult \/ Join
  <2>1. closing' = closing /\ tunnelSeen' = tunnelSeen
    BY <1>5 DEF StartFails, ProbeFails, SelectServeResult, Join, tunnelSeen
  <2>2. resultSeen = "none"
    BY <1>5 DEF StartFails, ProbeFails, SelectServeResult, Join, resultSeen
  <2>3. CASE failed'
    BY <1>5, <2>1, <2>2, <2>3 DEF StartFails, ProbeFails, SelectServeResult, Join,
        resultSeen, Service!Fail, Service!ServiceNext
  <2>4. CASE ~failed'
    <3>1. Inv'
      BY InductiveStep
    <3>2. run' = "returned"
      BY <1>5 DEF StartFails, ProbeFails, SelectServeResult, Join
    <3>3. closing' /\ active' = {}
      BY <2>4, <3>1, <3>2 DEF Inv, Shape, StopShape
    <3>4. active' = active
      BY <1>5 DEF StartFails, ProbeFails, SelectServeResult, Join
    <3>5. Service!Up = {}
      BY <3>3, <3>4, UpIsActive DEF Inv
    <3>6. resultSeen' = "ok"
      BY <2>4, <3>2 DEF resultSeen
    <3>7. QED BY <2>1, <2>2, <3>3, <3>5, <3>6 DEF Service!Succeed, Service!ServiceNext
  <2>5. QED BY <2>3, <2>4
<1>6. CASE \/ ServeRuns \/ MakeListener \/ SpawnServe \/ CloseAllEnds \/ ShutdownBegins
           \/ ShutdownReturns \/ ShutdownExpires \/ WaitBegins \/ WaitReturns
           \/ WaiterDone \/ Expire \/ UNCHANGED vars
  <2>1. closing' = closing /\ tunnelSeen' = tunnelSeen
    BY <1>6 DEF ServeRuns, ServeBegins, ServeRefused, ServeStops, MakeListener, SpawnServe,
        CloseAllEnds, ShutdownBegins, ShutdownReturns, ShutdownExpires, WaitBegins,
        WaitReturns, WaiterDone, Expire, vars, tunnelSeen
  <2>2. resultSeen' = resultSeen
    BY <1>6 DEF ServeRuns, ServeBegins, ServeRefused, ServeStops, MakeListener, SpawnServe,
        CloseAllEnds, ShutdownBegins, ShutdownReturns, ShutdownExpires, WaitBegins,
        WaitReturns, WaiterDone, Expire, vars, resultSeen
  <2>3. QED BY <2>1, <2>2
<1>7. QED
  BY <1>1, <1>2, <1>3, <1>4, <1>5, <1>6
     DEF Next, HandlerRuns, HandlerWaits, ServeRuns, StartRuns, StopRuns,
         CloseAllRuns, Finished

(* The server implements the service: tunnels are admitted within the      *)
(* limits and only before the stop, and Run returns nil only when none is  *)
(* left.                                                                   *)
THEOREM ServerImplementsService == Spec => ImplementsService
<1>1. Init => Service!ServiceInit
  BY DEF Init, Service!ServiceInit, tunnelSeen, resultSeen, TrackedStages
<1>2. Inv /\ [Next]_vars => [Service!ServiceNext]_(Service!serviceVars)
  BY StepService
<1>3. QED BY <1>1, <1>2, Invariance, PTL DEF Spec, ImplementsService, Service!ServiceSpec
==============================================================================
