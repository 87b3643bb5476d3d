---------------------------- MODULE TunnelServer -----------------------------
(***************************************************************************)
(* The life of CONNECT tunnels and the graceful stop of the proxy:         *)
(* Server.ServeHTTP and the CONNECT handlers of internal/proxy/server.go,  *)
(* the Registry of internal/tunnel/tunnel.go, and Run of                   *)
(* internal/proxy/run.go, which starts net/http's Serve in a goroutine and *)
(* stops everything when its context is cancelled.                         *)
(*                                                                         *)
(* One handler goroutine per request, the Serve goroutine, Run itself and  *)
(* the goroutine of Registry.Wait interleave.  net/http is modelled from   *)
(* how Run uses it: Shutdown closes the listener, waits for Serve to       *)
(* return and then until no connection that net/http owns is busy; a       *)
(* hijacked connection is no longer its own.  What happens between the     *)
(* first and the last byte of a tunnel is module Relay; what approving and *)
(* dialling a destination do is reduced to their outcome.                  *)
(***************************************************************************)
EXTENDS ConcurrentLimiter

CONSTANTS
    Requests,    \* requests clients may send, each one once
    Proto,       \* "h1" and "h2": CONNECT over HTTP/1.1, HTTP/2; "http": any other
    RemoteHost,  \* host part of the request's RemoteAddr
    None

ASSUME RequestsAssumption ==
    /\ IsFiniteSet(Requests)
    /\ Proto \in [Requests -> {"h1", "h2", "http"}]
    /\ RemoteHost \in [Requests -> STRING]
    /\ None \notin Requests

VARIABLES
    stage,        \* where the handler of each request is
    client,       \* first closer given to Track: hijacked connection or r.Body
    dest,         \* connection to the destination
    slots,        \* Server.tunnelLimiter
    closing,      \* Registry.closing
    active,       \* Registry.active
    wg,           \* counter of Registry.wg
    run,          \* where Run is
    failed,       \* Run's result so far is an error
    listener,     \* the listening socket
    serve,        \* the goroutine of server.Serve
    serveResult,  \* the channel of that name, capacity one
    http,         \* net/http: "open", "draining" in Shutdown, "closed"
    expired,      \* shutdownCtx has expired
    toClose,      \* CloseAll's snapshot: pairs it has not begun to close
    half,         \* pair of which CloseAll has closed the client only
    waiter        \* goroutine of Registry.Wait

handlerVars  == <<stage, client, dest>>
registryVars == <<closing, active, wg>>
serveVars    == <<listener, serve, serveResult>>
closeAllVars == <<toClose, half>>
runVars      == <<run, failed, http, expired, waiter>>
vars == <<handlerVars, slots, registryVars, serveVars, closeAllVars, runVars>>

key == [r \in Requests |-> limiterKey(RemoteHost[r])]

\* The stages between Track and its release function.
TrackedStages == {"respond", "relay", "closeClient", "closeDest", "untrack"}

\* The stages between tryAcquire and the deferred releaseTunnel.
SlotStages ==
    {"approve", "dial", "hijack", "track", "abort", "release"} \cup TrackedStages

\* Run has called CloseAll.
AfterCloseAll == {"shutdown", "drain", "wait", "waiting", "join", "returned"}

TypeOK ==
    /\ stage \in [Requests -> {"idle", "serve", "forward", "done"} \cup SlotStages]
    /\ client \in [Requests -> {"none", "open", "closed"}]
    /\ dest \in [Requests -> {"none", "open", "closed"}]
    /\ slots.total \in Nat
    /\ closing \in BOOLEAN
    /\ active \in SUBSET Requests
    /\ wg \in Nat
    /\ run \in {"start", "probe", "select", "closeAll"} \cup AfterCloseAll
    /\ failed \in BOOLEAN
    /\ listener \in {"none", "open", "closed"}
    /\ serve \in {"none", "spawned", "accepting", "stopped", "refused"}
    /\ serveResult \in {"empty", "error", "ErrServerClosed"}
    /\ http \in {"open", "draining", "closed"}
    /\ expired \in BOOLEAN
    /\ toClose \in SUBSET Requests
    /\ half \in Requests \cup {None}
    /\ waiter \in {"none", "waiting", "done"}

Init ==
    /\ stage = [r \in Requests |-> "idle"]
    /\ client = [r \in Requests |-> "none"]
    /\ dest = [r \in Requests |-> "none"]
    /\ slots = newConcurrentLimiter
    /\ closing = FALSE
    /\ active = {}
    /\ wg = 0
    /\ run = "start"
    /\ failed = FALSE
    /\ listener = "none"
    /\ serve = "none"
    /\ serveResult = "empty"
    /\ http = "open"
    /\ expired = FALSE
    /\ toClose = {}
    /\ half = None
    /\ waiter = "none"
------------------------------------------------------------------------------
(***************************************************************************)
(* Handlers.                                                               *)
(***************************************************************************)
Goto(r, from, to) ==
    /\ stage[r] = from
    /\ stage' = [stage EXCEPT ![r] = to]

HandlerOnly == UNCHANGED <<registryVars, serveVars, closeAllVars, runVars>>

\* net/http has read a request from one of its connections.  It does so
\* while it drains as well, until the last connection is closed.
Arrive(r) ==
    /\ serve \in {"accepting", "stopped"}
    /\ http # "closed"
    /\ Goto(r, "idle", "serve")
    /\ UNCHANGED <<client, dest, slots>>
    /\ HandlerOnly

\* ServeHTTP answers at once: the authenticator refuses, or the target is
\* not valid.
Reject(r) ==
    /\ Goto(r, "serve", "done")
    /\ UNCHANGED <<client, dest, slots>>
    /\ HandlerOnly

\* handleHTTP, forwarding; it ends when the response is copied or fails.
Forward(r) ==
    /\ Proto[r] = "http"
    /\ Goto(r, "serve", "forward")
    /\ UNCHANGED <<client, dest, slots>>
    /\ HandlerOnly

ForwardEnds(r) ==
    /\ Goto(r, "forward", "done")
    /\ UNCHANGED <<client, dest, slots>>
    /\ HandlerOnly

\* Mutant: the comparison with the limit on all tunnels is off by one.
Acquire_OffByOne(r) ==
    /\ Proto[r] # "http"
    /\ slots.total <= maxTotal /\ KeyCount(slots, key[r]) < maxPerKey
    /\ Goto(r, "serve", "approve")
    /\ slots' = tryAcquire(slots, key[r])
    /\ UNCHANGED <<client, dest>>
    /\ HandlerOnly

\* handleTunneling takes a tunnel slot, or answers 429.
Acquire(r) ==
    /\ Proto[r] # "http"
    /\ HasRoom(slots, key[r])
    /\ Goto(r, "serve", "approve")
    /\ slots' = tryAcquire(slots, key[r])
    /\ UNCHANGED <<client, dest>>
    /\ HandlerOnly

AcquireRefused(r) ==
    /\ Proto[r] # "http"
    /\ ~HasRoom(slots, key[r])
    /\ Goto(r, "serve", "done")
    /\ UNCHANGED <<client, dest, slots>>
    /\ HandlerOnly

\* Mutant: the early return precedes the defer that gives the slot back.
Approve_LeaksSlot(r) ==
    /\ \/ Goto(r, "approve", "dial")
       \/ Goto(r, "approve", "done")
    /\ UNCHANGED <<client, dest, slots>>
    /\ HandlerOnly

\* approveDestination; an error, or a request that cannot be hijacked, is
\* answered and the handler returns.
Approve(r) ==
    /\ \/ Goto(r, "approve", "dial")
       \/ Goto(r, "approve", "release")
    /\ UNCHANGED <<client, dest, slots>>
    /\ HandlerOnly

\* dialApprovedUpstream.
Dial(r) ==
    /\ Goto(r, "dial", IF Proto[r] = "h1" THEN "hijack" ELSE "track")
    /\ dest' = [dest EXCEPT ![r] = "open"]
    /\ UNCHANGED <<client, slots>>
    /\ HandlerOnly

DialFails(r) ==
    /\ Goto(r, "dial", "release")
    /\ UNCHANGED <<client, dest, slots>>
    /\ HandlerOnly

Hijack(r) ==
    /\ Goto(r, "hijack", "track")
    /\ client' = [client EXCEPT ![r] = "open"]
    /\ UNCHANGED <<dest, slots>>
    /\ HandlerOnly

\* Mutant: the destination is forgotten when Hijack fails.
HijackFails_LeaksDest(r) ==
    /\ Goto(r, "hijack", "release")
    /\ UNCHANGED <<client, dest, slots>>
    /\ HandlerOnly

HijackFails(r) ==
    /\ Goto(r, "hijack", "release")
    /\ dest' = [dest EXCEPT ![r] = "closed"]
    /\ UNCHANGED <<client, slots>>
    /\ HandlerOnly

\* Mutant: Track does not look at closing.
Track_IgnoresClosing(r) ==
    /\ Goto(r, "track", "respond")
    /\ client' = [client EXCEPT ![r] = "open"]
    /\ active' = active \cup {r}
    /\ wg' = wg + 1
    /\ UNCHANGED <<dest, slots, closing, serveVars, closeAllVars, runVars>>

\* Registry.Track.  For HTTP/2 its first argument is the body of the
\* request, which counts as open from here on.
Track(r) ==
    /\ ~closing
    /\ Goto(r, "track", "respond")
    /\ client' = [client EXCEPT ![r] = "open"]
    /\ active' = active \cup {r}
    /\ wg' = wg + 1
    /\ UNCHANGED <<dest, slots, closing, serveVars, closeAllVars, runVars>>

\* Track has refused: the handler closes the destination and, for HTTP/1.1,
\* the hijacked connection, or answers 503 for HTTP/2.
TrackRefused(r) ==
    /\ closing
    /\ Goto(r, "track", IF Proto[r] = "h1" THEN "abort" ELSE "release")
    /\ dest' = [dest EXCEPT ![r] = "closed"]
    /\ UNCHANGED <<client, slots>>
    /\ HandlerOnly

Abort(r) ==
    /\ Goto(r, "abort", "release")
    /\ client' = [client EXCEPT ![r] = "closed"]
    /\ UNCHANGED <<dest, slots>>
    /\ HandlerOnly

\* The 200 answer is written and flushed, or the write fails.
Respond(r) ==
    /\ \/ Goto(r, "respond", "relay")
       \/ Goto(r, "respond", "closeClient")
    /\ UNCHANGED <<client, dest, slots>>
    /\ HandlerOnly

\* tunnel.Relay or tunnel.RelayStream returns.
RelayEnds(r) ==
    /\ Goto(r, "relay", "closeClient")
    /\ UNCHANGED <<client, dest, slots>>
    /\ HandlerOnly

\* The deferred calls, last one first.
CloseClient(r) ==
    /\ Goto(r, "closeClient", "closeDest")
    /\ client' = [client EXCEPT ![r] = "closed"]
    /\ UNCHANGED <<dest, slots>>
    /\ HandlerOnly

CloseDest(r) ==
    /\ Goto(r, "closeDest", "untrack")
    /\ dest' = [dest EXCEPT ![r] = "closed"]
    /\ UNCHANGED <<client, slots>>
    /\ HandlerOnly

\* Mutant: untrack counts the tunnel down and leaves it in the map.
Untrack_KeepsPair(r) ==
    /\ Goto(r, "untrack", "release")
    /\ wg' = wg - 1
    /\ UNCHANGED <<client, dest, slots, closing, active, serveVars, closeAllVars, runVars>>

Untrack(r) ==
    /\ Goto(r, "untrack", "release")
    /\ active' = active \ {r}
    /\ wg' = IF r \in active THEN wg - 1 ELSE wg
    /\ UNCHANGED <<client, dest, slots, closing, serveVars, closeAllVars, runVars>>

ReleaseTunnel(r) ==
    /\ Goto(r, "release", "done")
    /\ slots' = release(slots, key[r])
    /\ UNCHANGED <<client, dest>>
    /\ HandlerOnly
------------------------------------------------------------------------------
(***************************************************************************)
(* The goroutine of server.Serve.                                          *)
(***************************************************************************)
ServeOnly == UNCHANGED <<handlerVars, slots, registryVars, closeAllVars, runVars>>

\* Serve registers the listener, unless Shutdown came first: then it closes
\* the listener and returns.
ServeBegins ==
    /\ serve = "spawned"
    /\ http = "open"
    /\ serve' = "accepting"
    /\ UNCHANGED <<listener, serveResult>>
    /\ ServeOnly

ServeRefused ==
    /\ serve = "spawned"
    /\ http # "open"
    /\ serve' = "refused"
    /\ listener' = "closed"
    /\ serveResult' = "ErrServerClosed"
    /\ ServeOnly

\* Mutant: the goroutine sends only what is a real error.
ServeStops_OnlyErrors ==
    /\ serve = "accepting"
    /\ serve' = "stopped"
    /\ listener' = "closed"
    /\ serveResult' = IF http = "open" THEN "error" ELSE serveResult
    /\ ServeOnly

\* Accept fails, because the listener is closed or for a reason of its own,
\* and Serve returns; it closes the listener in either case.  The send that
\* follows is one step with it: it only lets Run go on.
ServeStops ==
    /\ serve = "accepting"
    /\ serve' = "stopped"
    /\ listener' = "closed"
    /\ serveResult' = IF http = "open" THEN "error" ELSE "ErrServerClosed"
    /\ ServeOnly
------------------------------------------------------------------------------
(***************************************************************************)
(* Run.                                                                    *)
(***************************************************************************)
RunOnly == UNCHANGED <<handlerVars, slots>>

\* config.Validate, NewServer or makeListener fails.
StartFails ==
    /\ run = "start"
    /\ run' = "returned"
    /\ failed' = TRUE
    /\ UNCHANGED <<registryVars, serveVars, closeAllVars, http, expired, waiter>>
    /\ RunOnly

MakeListener ==
    /\ run = "start"
    /\ run' = "probe"
    /\ listener' = "open"
    /\ UNCHANGED <<registryVars, serve, serveResult, closeAllVars, failed, http, expired, waiter>>
    /\ RunOnly

\* Mutant: the listener is not closed on this early return.
ProbeFails_KeepsListener ==
    /\ run = "probe"
    /\ run' = "returned"
    /\ failed' = TRUE
    /\ UNCHANGED <<registryVars, serveVars, closeAllVars, http, expired, waiter>>
    /\ RunOnly

\* proxyFunc refuses the probe request.
ProbeFails ==
    /\ run = "probe"
    /\ run' = "returned"
    /\ failed' = TRUE
    /\ listener' = "closed"
    /\ UNCHANGED <<registryVars, serve, serveResult, closeAllVars, http, expired, waiter>>
    /\ RunOnly

SpawnServe ==
    /\ run = "probe"
    /\ run' = "select"
    /\ serve' = "spawned"
    /\ UNCHANGED <<registryVars, listener, serveResult, closeAllVars, failed, http, expired, waiter>>
    /\ RunOnly

\* Mutant: Run stops gracefully when Serve has failed.
SelectServeResult_GoesOn ==
    /\ run = "select"
    /\ serveResult # "empty"
    /\ run' = "closeAll"
    /\ failed' = TRUE
    /\ serveResult' = "empty"
    /\ closing' = TRUE
    /\ toClose' = active
    /\ UNCHANGED <<active, wg, listener, serve, half, http, expired, waiter>>
    /\ RunOnly

\* The select takes the result of Serve: Run returns it.
SelectServeResult ==
    /\ run = "select"
    /\ serveResult # "empty"
    /\ run' = "returned"
    /\ failed' = (serveResult = "error")
    /\ serveResult' = "empty"
    /\ UNCHANGED <<registryVars, listener, serve, closeAllVars, http, expired, waiter>>
    /\ RunOnly

\* The select sees the cancelled context; CloseAll's critical section marks
\* the registry and takes the snapshot.
CloseAllBegins ==
    /\ run = "select"
    /\ run' = "closeAll"
    /\ closing' = TRUE
    /\ toClose' = active
    /\ UNCHANGED <<active, wg, serveVars, half, failed, http, expired, waiter>>
    /\ RunOnly

\* CloseAll's loop, outside the mutex: one pair after the other, the client
\* first.
CloseAllClient(r) ==
    /\ run = "closeAll"
    /\ half = None
    /\ r \in toClose
    /\ client' = [client EXCEPT ![r] = "closed"]
    /\ toClose' = toClose \ {r}
    /\ half' = r
    /\ UNCHANGED <<stage, dest, slots, registryVars, serveVars, runVars>>

CloseAllDest(r) ==
    /\ run = "closeAll"
    /\ half = r
    /\ dest' = [dest EXCEPT ![r] = "closed"]
    /\ half' = None
    /\ UNCHANGED <<stage, client, slots, registryVars, serveVars, toClose, runVars>>

CloseAllEnds ==
    /\ run = "closeAll"
    /\ toClose = {} /\ half = None
    /\ run' = "shutdown"
    /\ UNCHANGED <<registryVars, serveVars, closeAllVars, failed, http, expired, waiter>>
    /\ RunOnly

\* server.Shutdown closes the listener Serve has registered.
ShutdownBegins ==
    /\ run = "shutdown"
    /\ run' = "drain"
    /\ http' = "draining"
    /\ listener' = IF serve = "accepting" THEN "closed" ELSE listener
    /\ UNCHANGED <<registryVars, serve, serveResult, closeAllVars, failed, expired, waiter>>
    /\ RunOnly

\* A handler runs on a connection that net/http owns: a hijacked one is not.
HTTPOwned(r) ==
    /\ stage[r] \notin {"idle", "done"}
    /\ Proto[r] = "h1" => client[r] = "none"

\* Shutdown returns nil: Serve has returned and no connection is busy.
ShutdownReturns ==
    /\ run = "drain"
    /\ serve # "accepting"
    /\ \A r \in Requests : ~HTTPOwned(r)
    /\ run' = "wait"
    /\ http' = "closed"
    /\ UNCHANGED <<registryVars, serveVars, closeAllVars, failed, expired, waiter>>
    /\ RunOnly

\* Mutant: no server.Close after a Shutdown that timed out.
ShutdownExpires_NoClose ==
    /\ run = "drain"
    /\ serve # "accepting"
    /\ expired
    /\ run' = "wait"
    /\ failed' = TRUE
    /\ UNCHANGED <<registryVars, serveVars, closeAllVars, http, expired, waiter>>
    /\ RunOnly

\* Shutdown returns the context's error and server.Close closes the rest.
ShutdownExpires ==
    /\ run = "drain"
    /\ serve # "accepting"
    /\ expired
    /\ run' = "wait"
    /\ failed' = TRUE
    /\ http' = "closed"
    /\ UNCHANGED <<registryVars, serveVars, closeAllVars, expired, waiter>>
    /\ RunOnly

\* Registry.Wait starts the goroutine that waits for the group.
WaitBegins ==
    /\ run = "wait"
    /\ run' = "waiting"
    /\ waiter' = "waiting"
    /\ UNCHANGED <<registryVars, serveVars, closeAllVars, failed, http, expired>>
    /\ RunOnly

\* wg.Wait returns and done is closed.
WaiterDone ==
    /\ waiter = "waiting"
    /\ wg = 0
    /\ waiter' = "done"
    /\ UNCHANGED <<registryVars, serveVars, closeAllVars, run, failed, http, expired>>
    /\ RunOnly

\* Mutant: an expired context is not reported.
WaitReturns_NilOnExpiry ==
    /\ run = "waiting"
    /\ waiter = "done" \/ expired
    /\ run' = "join"
    /\ UNCHANGED <<registryVars, serveVars, closeAllVars, failed, http, expired, waiter>>
    /\ RunOnly

\* The select of Wait: done, or the context's error.
WaitReturns ==
    /\ run = "waiting"
    /\ \/ waiter = "done" /\ UNCHANGED failed
       \/ expired /\ failed' = TRUE
    /\ run' = "join"
    /\ UNCHANGED <<registryVars, serveVars, closeAllVars, http, expired, waiter>>
    /\ RunOnly

\* serveErr := <-serveResult, and Run returns the joined errors.
Join ==
    /\ run = "join"
    /\ serveResult # "empty"
    /\ run' = "returned"
    /\ failed' = (failed \/ serveResult = "error")
    /\ serveResult' = "empty"
    /\ UNCHANGED <<registryVars, listener, serve, closeAllVars, http, expired, waiter>>
    /\ RunOnly

\* The shutdown timeout, which starts before CloseAll, runs out.
Expire ==
    /\ run \in {"closeAll"} \cup AfterCloseAll
    /\ closing
    /\ ~expired
    /\ expired' = TRUE
    /\ UNCHANGED <<registryVars, serveVars, closeAllVars, run, failed, http, waiter>>
    /\ RunOnly

\* Run has returned and every handler too.
Finished ==
    /\ run = "returned"
    /\ \A r \in Requests : stage[r] \in {"idle", "done"}
    /\ UNCHANGED vars
------------------------------------------------------------------------------
\* Steps of a handler that nothing can hold up for ever: looking up and
\* dialling a destination are bounded by dial_timeout.
HandlerRuns(r) ==
    \/ Reject(r) \/ Forward(r) \/ Acquire(r) \/ AcquireRefused(r)
    \/ Approve(r) \/ Dial(r) \/ DialFails(r) \/ Hijack(r) \/ HijackFails(r)
    \/ Track(r) \/ TrackRefused(r) \/ Abort(r)
    \/ CloseClient(r) \/ CloseDest(r) \/ Untrack(r) \/ ReleaseTunnel(r)

\* Steps that wait for a peer.
HandlerWaits(r) == Respond(r) \/ RelayEnds(r) \/ ForwardEnds(r)

ServeRuns == ServeBegins \/ ServeRefused \/ ServeStops

CloseAllRuns == CloseAllEnds \/ \E r \in Requests : CloseAllClient(r) \/ CloseAllDest(r)

\* Run once its context is cancelled.
StopRuns ==
    \/ CloseAllRuns \/ ShutdownBegins \/ ShutdownReturns \/ ShutdownExpires
    \/ WaitBegins \/ WaitReturns \/ Join

StartRuns == StartFails \/ MakeListener \/ ProbeFails \/ SpawnServe

Next ==
    \/ \E r \in Requests : Arrive(r) \/ HandlerRuns(r) \/ HandlerWaits(r)
    \/ ServeRuns
    \/ StartRuns \/ SelectServeResult \/ CloseAllBegins
    \/ StopRuns \/ WaiterDone \/ Expire
    \/ Finished

Spec == Init /\ [][Next]_vars

(* The peers of a waiting handler are cut off: both connections of a       *)
(* hijacked tunnel are closed, or net/http has closed the connection.  The *)
(* second is all that is sure to end an HTTP/2 tunnel, because closing     *)
(* r.Body does not interrupt a response write held up by flow control.     *)
CutOff(r) ==
    IF Proto[r] = "h1" THEN client[r] = "closed" /\ dest[r] = "closed"
                       ELSE http = "closed"

(* Goroutines that are not waiting for a peer go on, timers fire, and a    *)
(* read or write on a connection that is closed returns.  Clients, peers   *)
(* and the arrival of the stop signal are not fair.                        *)
FairSpec ==
    /\ Spec
    /\ \A r \in Requests : /\ WF_vars(HandlerRuns(r))
                           /\ WF_vars(CutOff(r) /\ HandlerWaits(r))
    /\ WF_vars(ServeBegins \/ ServeRefused \/ (listener = "closed" /\ ServeStops))
    /\ WF_vars(StopRuns)
    /\ WF_vars(WaiterDone)
    /\ WF_vars(Expire)
------------------------------------------------------------------------------
(***************************************************************************)
(* Registry: the wait group counts the pairs in the map, and the pairs are *)
(* the tunnels whose handler is between Track and its release function     *)
(* (sync.WaitGroup panics below zero, Wait hangs above).                   *)
(***************************************************************************)
RegistryConsistent ==
    /\ wg = Cardinality(active)
    /\ active = {r \in Requests : stage[r] \in TrackedStages}

\* Handlers that hold a tunnel slot.
SlotHolders == {r \in Requests : stage[r] \in SlotStages}

(***************************************************************************)
(* Every path out of handleTunneling gives its slot back exactly once: the *)
(* limiter counts the handlers between tryAcquire and their return.        *)
(***************************************************************************)
TunnelSlotsAccounted == Accounts(slots, SlotHolders, key)

OpenDests == {r \in Requests : dest[r] = "open"}

(***************************************************************************)
(* max_tunnels and max_tunnels_per_ip bound the destination connections    *)
(* that CONNECT requests hold open, those being refused or torn down       *)
(* included: the slot goes back after the connection is closed.            *)
(***************************************************************************)
TunnelsWithinLimits ==
    /\ Cardinality(OpenDests) <= maxTotal
    /\ \A r \in Requests : Cardinality(HoldersOf(OpenDests, key, key[r])) <= maxPerKey

(***************************************************************************)
(* The limiter and the handlers together: slots are neither lost nor given *)
(* back twice, and the connections they stand for stay within the limits.  *)
(***************************************************************************)
TunnelLimitsKept == TunnelSlotsAccounted /\ TunnelsWithinLimits

(***************************************************************************)
(* "CloseAll prevents new tunnels and closes every currently tracked       *)
(* connection": once it has returned no tunnel in the registry has an open *)
(* connection, however Track and untrack interleave with it.               *)
(***************************************************************************)
CloseAllComplete ==
    closing /\ run \in AfterCloseAll =>
        \A r \in active : client[r] = "closed" /\ dest[r] = "closed"

(***************************************************************************)
(* The registry is right about its tunnels before, during and after        *)
(* CloseAll, in whatever order Track, untrack and CloseAll take its mutex. *)
(***************************************************************************)
RegistrySound == RegistryConsistent /\ CloseAllComplete

(***************************************************************************)
(* sync.WaitGroup forbids an Add that is concurrent with a Wait at counter *)
(* zero: once Registry.Wait runs, Track adds nothing.                      *)
(***************************************************************************)
NoAddDuringWait == [][waiter # "none" => wg' <= wg]_vars

(***************************************************************************)
(* A handler that has returned leaves no connection open, on every path:   *)
(* failed Hijack, refused Track, failed 200, relay, and CloseAll racing    *)
(* all of them.                                                            *)
(***************************************************************************)
NoLeak ==
    \A r \in Requests :
        stage[r] \in {"release", "done"} => client[r] # "open" /\ dest[r] # "open"

(***************************************************************************)
(* When Run returns nil no handler is at work any more, but for those of   *)
(* hijacked connections that have no tunnel: Track will refuse it (the     *)
(* client never saw a 200), or its connections are closed and it is past   *)
(* untrack.  Tunnels may well have been cut by CloseAll; what nil says is  *)
(* that the timeout did not overtake a handler.                            *)
(***************************************************************************)
CleanStop ==
    run = "returned" /\ ~failed =>
        \A r \in Requests :
            \/ stage[r] \in {"idle", "done"}
            \/ /\ Proto[r] = "h1" /\ client[r] # "none"
               /\ stage[r] \in {"track", "abort", "release"}

(***************************************************************************)
(* Run never returns with the listening socket open: not after a failed    *)
(* probe, nor when the stop signal overtakes the Serve goroutine, which    *)
(* then closes the listener itself.                                        *)
(***************************************************************************)
ListenerClosed == run = "returned" => listener # "open"

(***************************************************************************)
(* In a stop nobody waits for what will not come: Shutdown waits only for  *)
(* a Serve whose Accept will fail, Run receives from serveResult only when *)
(* Serve has sent or has yet to be refused, and once server.Close or       *)
(* Shutdown is over no handler waits for a peer that is not cut off, in    *)
(* whatever order CloseAll, Track, Serve and the timeout came.             *)
(***************************************************************************)
StopNeverStuck ==
    closing =>
        /\ run = "drain" /\ serve = "accepting" => listener = "closed"
        /\ run \in {"wait", "waiting", "join"} =>
              serveResult # "empty" \/ serve = "spawned"
        /\ run \in {"wait", "waiting", "join", "returned"} =>
              \A r \in Requests : stage[r] \in {"respond", "relay", "forward"} => CutOff(r)

(***************************************************************************)
(* A stop ends: whatever clients and destinations do, Run returns once its *)
(* context is cancelled (shutdown_timeout).                                *)
(***************************************************************************)
StopEnds == closing ~> run = "returned"

(***************************************************************************)
(* After a stop every tunnel slot comes back and stays back, that of an    *)
(* HTTP/2 tunnel whose client has stopped reading included: server.Close   *)
(* ends those that CloseAll could not.                                     *)
(***************************************************************************)
StopReleasesTunnels == closing ~> [](slots.total = 0)
------------------------------------------------------------------------------
\* What a client and an operator see of the state.
tunnelSeen ==
    [r \in Requests |-> IF stage[r] \in TrackedStages THEN "up"
                        ELSE IF stage[r] \in {"abort", "release", "done"} THEN "over"
                        ELSE "none"]

resultSeen == IF run # "returned" THEN "none" ELSE IF failed THEN "error" ELSE "ok"

Service == INSTANCE TunnelService WITH
    Source <- key, MaxTunnels <- maxTotal, MaxPerSource <- maxPerKey,
    tunnel <- tunnelSeen, stopping <- closing, result <- resultSeen

(***************************************************************************)
(* The handlers, the registry, the limiter and Run together implement      *)
(* TunnelService: no tunnel is established once the stop has begun or      *)
(* beyond the limits, none comes back, and Run returns nil only after a    *)
(* stop, when none is left.                                                *)
(***************************************************************************)
ImplementsService == Service!ServiceSpec
==============================================================================
