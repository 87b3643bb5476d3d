# Verification of https_proxy

TLA+ models of the forward proxy in this repository, the TLC runs that check
them and the TLAPS proofs of their safety properties.  Paths are relative to
the repository's root (`src/` in `PROJECT.json`).

## The system

| Component | State | Operations | Talks to |
|---|---|---|---|
| Concurrent limiter (`internal/proxy/limits.go`) | `total`, `perKey` | `tryAcquire`, the release closure | used by the listener and the CONNECT handler |
| Connection limits (`limits.go`) | open client sockets and their slots | `Accept`, `limitedConn.Close`, `CloseWrite` | net/http closes connections; so do handlers, the idle timer and `CloseAll` |
| CONNECT handler (`server.go`) | one goroutine per request, its slot, two connections | `handleTunneling`, `relayHTTP1Tunnel`, `relayHTTP2Tunnel` | authenticator, tunnel limiter, ACL, upstream dial, registry, relay |
| Tunnel registry (`internal/tunnel/tunnel.go`) | `closing`, `active`, `wg` | `Track`, `untrack`, `CloseAll`, `Wait` | handlers and `Run` |
| Relay and idle timer (`tunnel.go`) | two copy goroutines, `results`, `lastTouch`, timer, `stopped` | `Relay`, `RelayStream`, `touch`, `expire`, `stop` | both connections, closed by others as well |
| Run (`run.go`) | listener, Serve goroutine, shutdown context | start, `select`, stop | net/http, registry |
| Authentication (`internal/auth`) | failure records per address, `nextCleanup` | `Authenticate`, `retryAfter`, `recordFailure`, `reset`, `cleanup` | called by `ServeHTTP` |
| Certificate reloader (`certificate.go`) | certificate, fingerprint, `nextCheck` | `getCertificate`, `loadCertificatePair` | TLS handshakes; files rewritten by certbot |
| HTTP forwarding (`server.go`, `headers.go`) | two bodies under way, the trailer map both requests share | `handleHTTP`, header and trailer rules | `http.Client`, net/http |
| Upstream CONNECT (`upstream.go`) | one connection being set up, its deadline, set-up context and callback | `dialApprovedUpstream`, `readConnectResponse` | upstream proxy, timers, the client's context |
| Destination policy (`acl.go`) | the destination approved for a request, idle connections of the transport | `approve`, `dialApproved`, `matches` | resolver, dialer, `http.Transport` |
| Configuration and start (`internal/config`, `main.go`) | file, environment, three copies of the configuration | `Load`, `Validate`, `NewServer`, `makeListener` | everything, at start |

What is hard here is concurrency and time.  A connection is closed by its
handler, by the idle timer, by `CloseAll` and by net/http, in any order.
`Track` races `CloseAll`.  A stop may come before `Serve` has begun.  A timer
callback may run long after it has fired.  `Authenticate` decides on what it
read before it verified the credentials.  Two files that belong together are
read one after the other.  A set-up timer races the upstream's answer for the
same connection.  A name is resolved to be checked and dialled later.  Trailers
appear when the headers are long gone.  `PROJECT.json` lists each of these hazards at its
line with the properties that would catch it.

What makes each component correct:

- limits: counters equal the slots held; open sockets and destinations stay
  within the limits; slots are not lost;
- registry and stop: `CloseAll` misses no tunnel, handlers leak no connection,
  `Run` ends in bounded time, and returns nil only if the timeout
  overtook no handler;
- relay: an idle tunnel is closed, one that carries bytes is not, errors and
  closed connections end it, a half close does not;
- authentication: the failures of a window are not forgotten, concurrent
  requests overshoot by a known amount, a block lasts;
- certificates: certificate and key match, never go back, and a renewal is
  eventually served;
- upstream: a connection that is handed out has no deadline and nothing that
  may still set one, the tunnel starts right after the upstream's header, an
  error closes the connection and names its real cause, and every set-up ends;
- destinations: what is dialled was approved, is public and has an open port,
  whatever the resolver says the next time, and no address is passed over;
- forwarding: nothing private passes, trailers do, and a response that breaks
  off does not look complete;
- start: what serves is what the operator asked for, or nothing serves.

## Modules

| Module | Models | Extends |
|---|---|---|
| `ConcurrentLimiter` | the limiter as operators on a value: `HasRoom` and `tryAcquire`, `release`, and `Accounts`, the relation between counters and holders | |
| `ConnectionLimits` | the accept loop and `limitedConn.Close`; the two halves of `Close` are two steps | `ConcurrentLimiter` |
| `TunnelServer` | handlers, registry, tunnel limiter and `Run`, composed | `ConcurrentLimiter` |
| `TunnelService` | abstract: what the proxy promises about tunnels, limits and its stop | instantiated by `TunnelServer` |
| `Relay` | one tunnel between its 200 answer and the return of `Relay` or `RelayStream` | |
| `RelayActivity` | history: when bytes were read in each direction | `Relay` |
| `FailureLimiter` | concurrent `Authenticate` calls and the failure limiter | |
| `CertificateReloader` | `getCertificate` against a renewal | |
| `UpstreamConnect` | one CONNECT set-up: `dialApprovedUpstream` and `readConnectResponse` | |
| `DestinationACL` | approval and dialling of destinations by both handlers | |
| `Forwarding` | one forwarded request and its response | |
| `Startup` | from `main` to the first `Accept` | |
| `MC...` | values of constants and symmetry for TLC | the module they name |
| `...Proofs` | theorems and proofs (`RelayProofs` those of `RelayActivity` too) | the module they name |
| `ListenerProofs` | theorems about the two parts `makeListener` builds | `ConnectionLimits`, `CertificateReloader` |
| `StartupForwardingProofs` | theorems about the start and about forwarding, and one about both | `Startup`, `Forwarding` |

`CertificateReloader` and `Forwarding` prefix the names of their specification
(`ReloadSpec`, `ForwardSpec`), so that one proof module can extend them together
with another component and state what holds of both.

An operator whose name has an underscore (`Track_IgnoresClosing`) is a mutated
form of the definition that follows it, a plausible bug; `PROJECT.json` says
which property each one must break.

How steps correspond to code:

- **ConnectionLimits.** `ListenerAccept` is `Listener.Accept`; `Admit` and
  `Refuse` are the two outcomes of `tryAcquire`.  `CloseSocket` and
  `ReleaseSlot` are the two statements of `limitedConn.Close`; any number of
  goroutines may be between them.
- **TunnelServer.** `stage[r]` is where the handler of request `r` is.  Every
  early return is a disjunct or an action; the deferred calls are the stages
  `closeClient`, `closeDest`, `untrack` and `release`, in that order.
  `CloseAll` is its critical section (`CloseAllBegins`) and then one close
  after the other, outside the mutex.  net/http is external: `Serve` refuses to
  start after `Shutdown`, `Shutdown` closes the listener `Serve` has
  registered, waits for `Serve` and then for connections that are busy, and a
  hijacked connection is no longer net/http's.  Approving and dialling a
  destination are reduced to success or failure; a forwarded request matters
  only because it keeps `Shutdown` waiting.
- **Relay.** `mode`, chosen once, says whether `Relay` or `RelayStream` runs.
  Time is relative: `age`
  is the time since `lastTouch`, `left` the time until the timer fires; firing
  starts a callback that waits for the mutex as long as it likes.  An end is
  `open`, past its `deadline` or `closed`; `lost` are the ends whose peer has
  gone, from which bytes that have arrived may still be read.  Bytes the client
  sent together with its CONNECT request sit in the
  hijacked `bufio.Reader` (`buffered`) and can be read from a connection that
  is closed already.  In `RelayStream` the client end is `r.Body`: closing it
  interrupts reads, not writes of the response.  `activityReader` reads first and
  calls `touch` afterwards (`Read`, `Touch`); `quiet` of `RelayActivity` is the
  time since the read itself, in each direction, which `age` does not show.
- **FailureLimiter.** A worker reads the clock, then waits for the mutex, so
  `now[w]` may be old.  `RetryAfter` and `RecordFailure` contain `cleanup`.
  Credentials are missing, wrong (also: not parsable) or right.
  Authentication is enabled, and `config.Validate` has made the three settings
  positive.
- **CertificateReloader.** Files have versions; `KeyOf` says which key a
  version belongs to, so that a renewal may keep the key.  `Matches` is what
  `tls.X509KeyPair` checks.  A file that is unreadable, half written or missing
  is `Broken`.  The mutex is held from `Lock` to `Answer`.
- **TunnelService.** A request's tunnel is not there yet, up or over; the proxy
  as a whole is stopping or not and has a result.  `ImplementsService` of
  `TunnelServer` maps a tunnel to its handler's stage (up from `Track` to
  `untrack`, over from there or from a refusal), `stopping` to
  `registry.closing` and the result to what `Run` returns.
- **UpstreamConnect.** `pc` is where the handler's goroutine is.  The callback
  of `context.AfterFunc` is armed, running, done or stopped in time
  (`Stop`, whose result the code looks at).  The upstream sends pieces: status
  lines, header lines, parts of long lines and empty lines; `got` of them are
  in the `bufio.Reader`, any number at a time, and `used` are parsed, so that
  bytes of the tunnel may come with the header.  `Fail` replaces an error by
  the cause of the context, as the code does.
- **DestinationACL.** `Approve` is the set of verdicts `approve` may reach, as
  the resolver may answer anything, fail or time out.  `Connect` dials the
  approved addresses if the address matches, and otherwise approves the hop
  anew, as `DialContext` of the transport does.  An address has a plain and an
  IPv4-mapped spelling; which ones are public is a constant.
  `allow_private_destinations` is chosen at the start.
- **Forwarding.** A header is the set of its names, with what `Connection` lists
  and whether `TE` has `trailers`.  Both bodies are under way at the same time.
  `framing` is how the transport sends the request's body: without one, with
  the client's `Content-Length`, or in chunks, which alone can carry trailers.
  The client speaks HTTP/1.0, which knows neither chunks nor trailers, HTTP/1.1
  or HTTP/2.  `backHeader` is the response's header after both filters, where
  `Content-Length` goes like any other field if `Connection` lists it; the
  `Trailer` field is then the proxy's own (`announceTrailers`).
  net/http fills trailers at EOF: into the map of the announced ones, which both
  requests share, or into a new one if there was none.  `privacy_mode` is
  chosen at the start.
- **Startup.** A text is a word and a form (plain, other case, padded), so that
  normalising it matters.  `validateConfig` works on a copy; `cfg` and `server`
  are the copies that serve.

## Runs

| Run | Shows | Bounds |
|---|---|---|
| `connection_limits` | slots accounted for, sockets within limits, a closed connection's slot is on its way back and comes back | 4 connections of 3 keys, 2 closers each, 2 slots, 1 per key |
| `tunnel_server` | registry, `CloseAll`, leaks, result of `Run`, listener, `WaitGroup` use; in a stop nobody waits for what will not come, it ends and gives every slot back | one request of each kind (HTTP/1.1 CONNECT, HTTP/2 CONNECT, forwarded) |
| `tunnel_limits` | tunnel slots and destinations; `TunnelServer` implements `TunnelService` | 4 CONNECT requests of 3 keys, 2 slots, 1 per key |
| `relay` | idle timer and half close of both relays: a tunnel is timed out only if nothing was read for the whole timeout, but for what is read and not yet reported; an idle one is not forgotten; no goroutine of a relay waits for nothing; an error or closed ends end it without the clock | timeout of 2 ticks, 2 callbacks under way |
| `relay_idle` | violation, see below | same |
| `failure_limiter` | overshoot, settled blocks, failures remembered | 2 addresses, 2 workers, limit 2, window 2, block 3, 5 ticks |
| `failure_limiter_block` | violation, see below | 1 address |
| `certificate_reloader` | matching pair, no going back, spaced checks, renewal served | 2 handshakes at a time, 3 renewals, interval 2 |
| `upstream_connect` | clean hand-over or closed connection, right cause, start of the tunnel, nothing without a deadline, end of the set-up | up to 4 pieces from the upstream, header limit 3 |
| `destination_acl` | only public addresses and open ports, approved addresses only, every address of an answer tried before a request fails | 2 requests, 8 targets, answers of up to 2 of 3 IPs in 2 spellings, both settings |
| `forwarding` | privacy, trailers, cut responses | 4 headers, 3 trailer names, 3 protocols, 3 framings, both settings |
| `startup` | served configuration, limits, agreement of the validations | 16 fields, 2 in the file, 1 in the environment, numbers -1 to 3 |

Why the bounds are enough: each limit is reached with a request to spare; two
closers or workers suffice for every race between two critical sections; one
tunnel of each kind meets each step of `Run`, and tunnels interact only through
the limiter and the registry's set.  With a timeout of two ticks a touch can
come before, at and after half of it, and two callbacks allow one to be late
while the next one fires.  Window 2 and block 3 differ, so that cleanup meets
records with either of them over.  Four pieces against a header limit of three
let a header end before, at and after the limit with a byte of the tunnel
behind it.  Two requests let one reuse the other's idle connection, and two
addresses per answer let one be public and the other not, or one fail and the
other connect.  Rules of the configuration compare at most two fields, so two
in the file and one variable over them meet every pair; the 16 fields are one
of each kind and all that are compared.  `MaxTime`, `MaxCallbacks`,
`MaxVersion`, `MaxSent`, `MaxAnswers`, `InFile`, `InEnv` and `MaxNumber` are the
named bounds; the theorems hold for all values of those they mention.  Deadlock
is checked except where one request, set-up or start ends; `Finished` in
`TunnelServer` is the state after everything has returned.

Fairness.  Goroutines that do not wait for a peer go on (Go's scheduler is
preemptive), timers fire and a read or write on a closed connection returns.
Clients, destinations, the arrival of bytes and of the stop signal are never
fair.  In `TunnelServer` a handler that waits for a peer is fair only when it
is cut off (`CutOff`): for HTTP/1.1 once both connections are closed, which
`InterruptedRelayEnds` of `Relay` justifies; for HTTP/2 once net/http has closed the
connection.  Looking up and dialling are bounded by `dial_timeout` and
`response_header_timeout`.  In `CertificateReloader` handshakes keep coming and
a file whose rewriting began is finished; `README.md` promises a reload only on
new handshakes.  In `UpstreamConnect` the handler, the timers and a read or
write past its deadline are fair; nothing is assumed of the upstream.  The
clock of `Relay` is fair only where a property says so (`ClockRuns`).

### Where documentation and code disagree

1. `relay_idle`: `README.md:253` says that a tunnel is closed when no
   bytes flow for `tunnel_idle_timeout`.  The idle callback of `RelayStream`
   (`tunnel.go:154`) closes the request body and the destination.  A response
   write that waits for flow control is interrupted by neither: the client that
   answers pings and grants no window keeps the tunnel and its slot.  What does
   hold is `IdleTunnelEnds`, and that a stop ends it (`StopReleasesTunnels`,
   through `server.Close`).
2. `failure_limiter_block`: `README.md:238` describes `auth_block_duration` as
   how long an address is blocked.  A request that `retryAfter` let through
   before the block may still call `reset` (`basic.go:96`) and delete it, or
   `recordFailure` may start a new window over it.  What does hold is
   `SettledBlockLasts`: without such a request in flight nothing touches a
   block.

Met while modelling, and part of the models without a run of their own:

- `README.md:265` says that an upstream proxy resolves the final target itself.
  For a CONNECT the upstream is asked for the first address `approve` resolved
  (`upstream.go:182`; `AskedOfUpstream`), unless private destinations are
  allowed.  This is what keeps an upstream from being asked for a private
  address by name, and `OnlyPublicReached` includes it.
- The comment at `server.go:204` says that the transport sees the values the
  incoming body adds to `r.Trailer`.  If the client announced no trailers there
  is no map to share, and those it sends are dropped (`Filled`).
  `TrailersArrive` is about announced ones.
- An HTTP/2 request may have a `Content-Length` and announce trailers as well.
  The outgoing request is a clone with the same length (`server.go:195`), which
  the transport sends without chunks, and so without its trailers
  (`RequestWritten`).  `TrailersArrive` is about chunked requests.
- A field of a response's header that has the name of a trailer announced and
  never sent is sent again as that trailer, since net/http takes declared
  trailers from `w.Header()` (`server.go:243`; `FinalTrailers`).
- A response without `Content-Length` whose body breaks off is ended by net/http
  as if it were complete, since the handler returns normally (`server.go:251`;
  `ResponseBodyFails`).  That includes one whose `Connection` field lists
  `Content-Length`: `removeHopByHopHeaders` (`server.go:163`) removes it.
- A read that has returned is not activity before `touch` gets the mutex
  (`tunnel.go:202`): a callback that comes in between times the tunnel out,
  although it has just carried bytes.  `TimeoutOnlyWhenIdle` excepts these.
- A listen address with a space before the host passes `validateListenAddress`,
  which looks at the port only, and fails in `makeListener`.

## Proofs

All theorems hold for every value of the constants under the `ASSUME`s of the
modules: finite sets of connections, requests, workers and trailer names,
positive limits and times (which `LimitsAlwaysFit` proves of every server that
serves), a configuration that sets fields of `Config` only, and, for the rules
of headers, that the lists of hop-by-hop and private names in the code do not
overlap or name `Content-Length`.

- **ConcurrentLimiterProofs** has the lemmas both users need: acquiring for a
  new holder and releasing for an old one keep `Accounts`, and acquiring where
  `HasRoom` holds keeps the counters within the limits.
- **ListenerProofs**, connection limits.  `Inv` adds to `SlotsAccounted` the life
  cycle of a connection: a closer that is past `CloseSocket` has a socket that is
  closed, and a released slot implies a closed socket.  That is what turns the
  bound on counters into one on open sockets.  `SlotOnItsWay`, the
  other half of `SlotsNeverLost`, needs besides
  that a closed socket was closed by some closer, and that a closer that is done
  has seen to the slot.
- **TunnelServerProofs.**  `Inv` is a `Shape` (for every stage, which
  connections are open; what `active` is; what `CloseAll` has closed and still
  has to; which combinations of `run`, `serve`, `listener` and `serveResult`
  occur; what a finished stop implies) with the wait group and the slots.  The
  shape is kept by every action by itself; the two counters need cardinality
  lemmas and are proved from it separately.  `ServerImplementsService` is the
  refinement: `StepService` maps every action to a step of `TunnelService` or a
  stutter.  The interesting one is `Track`, where the abstract tunnel needs
  room: `TrackHasRoom` gets it from the slot, held since `tryAcquire`, which
  counts every tunnel that is up and this one, which is not.  `NobodyGetsStuck`
  proves `StopNeverStuck`, the part of `StopEnds` and `StopReleasesTunnels` that
  is about states: `Serve` always leaves a result unless it was never let in,
  and after `Shutdown` net/http is closed, so every handler that waits is cut
  off.
  `RegistrySound` joins what the map of tunnels promises at all times and what
  `CloseAll` leaves behind; both are parts of the shape.
- **RelayProofs.**  `ChannelInv` counts results sent and received, so the
  channel never holds more than its capacity; `TimerInv` says that the timer
  runs or a callback is under way, and that before `controller.timer` is
  assigned `age + left` is at least the timeout, so that an early callback finds
  the timeout over; `CauseInv` carries the cause of an interruption through
  `err` and the channel to the deadlines.  `WakeInv` says whose result is on its
  way while only one copy is over; with the count of `ChannelInv` it gives
  `RelayNeverStuck`, which is in `RelaySound` beside `TimerSound`.  `QuietInv`
  ties `age`, which `expire` looks at, to `quiet`: a direction that is not about
  to `touch` has been quiet at least as long as `age` says.  `TimesOutIdleOnly`
  is a theorem of `ActivitySpec`, whose behaviours are those of `Spec`
  (`ActivityIsRelay`).
- **FailureLimiterProofs.**  `Bounded` counts failures and the requests that may
  still report one: `RetryAfter` adds a request only below the limit,
  `RecordFailure` trades one for the other.  `BlockedAtLimit`, also part of
  `Inv`, says that a record blocks just when it is at the limit; with it
  `FailuresAreRemembered` follows from how `cleanup`, `retryAfter` and
  `recordFailure` compare times that are never ahead of the clock.
- **ListenerProofs**, certificates.  Who reads holds the mutex, and versions are
  ordered: served, read, on disk, renewal.  `SpacingInv` adds the time until the
  next check to the time since the last one.
- **UpstreamConnectProofs.**  `StageShape` and `ContextShape` say for every
  stage which of connection, deadline, context and callback may be in which
  state; `OutcomeClean` needs that a callback that was stopped never runs, and
  that one that was not is noticed.  `HeaderShape` describes the parsed prefix
  of what the upstream sent (parts, a status line, lines that do not end the
  header) and gives `TunnelStartsAfterHeader` for headers of any length.
  `AlwaysInterruptible` follows from both shapes; it and `OutcomeClean` make up
  `ConnectionSound`.
- **DestinationACLProofs.**  `Public` says that every list a dial may take its
  addresses from is public, idle connections and what an upstream is asked for
  included; `Pinned` that a direct dial tries what was approved; `PortInv` that
  who got past `approve` asked for an open port;
  `Tried` that every address of the answer is in the list a dial works through
  or has been dialled.  `CheckIsSound` is the lemma
  about answers of any length.

- **StartupForwardingProofs**, start.  `StageInv` says, stage by stage, how
  `cfg` and `server` relate to `Raw`, the values as given: equal before the
  first validation, normalised and valid after it.  The lemma that carries it is
  `NormalizedOnce`: normalising is idempotent, so the second and the third
  validation find a configuration they leave alone and accept
  (`ValidationsAgree`), and both copies stay the same (`ServesAsGiven`).
- **StartupForwardingProofs**, forwarding.  `RequestInv` and `SentInv` relate
  what was announced, what has got values and what has left the proxy;
  `ResponseInv` does so for the response.  The maps of privacy mode are clean
  after each filter and again after each EOF.  `SameCountSameNames` is why
  `copyTrailers`, which compares two numbers, is right: the map never loses an
  announced name, so equal counts mean equal sets, for any number of trailers.
  `CutShows` needs that the lists of both filters leave `Content-Length` alone.
- **Both together.**  `PrivacyAsAsked`: under `Configured`, which says that
  handlers run while the server serves and read its copy of `privacy_mode`, a
  privacy mode the operator turned on in the file or the environment keeps
  private names in, from `Load` to the last trailer.  Its hypothesis ties the
  two specifications at one point and restricts neither.

Only model-checked: the liveness properties (the prover has no fairness or
`ENABLED` reasoning).  For five of them the part that is about states is proved as an
invariant, or as a part of one: `SlotOnItsWay` in `SlotsNeverLost` (for
`ClosedGivesSlotBack`), `StopNeverStuck` (for `StopEnds` and
`StopReleasesTunnels`), `RelayNeverStuck` in `RelaySound` (for
`InterruptedRelayEnds`) and `AlwaysInterruptible` in `ConnectionSound` (for
`SetupEnds`).  Every
invariant and every action property of a passing run is a theorem.

## Not modelled

- Parsing and printing: YAML, URLs, durations, credentials, header values, the
  prefix list that makes an address public, response texts and status codes.
  What does not parse is an outcome of its own.
- net/http, `context`, timers and the resolver are modelled as far as the code
  relies on them and marked external in `PROJECT.json`.  The transport's own
  retries are left out.
- Logging, and the packaging and deployment files, which have no state.

## Plan

Done: `ConcurrentLimiter` and `ConnectionLimits`, `TunnelServer`, `Relay`,
`FailureLimiter`, `CertificateReloader`, `UpstreamConnect`, `DestinationACL`,
`Forwarding`, `Startup`, and `TunnelService` with the proof that `TunnelServer`
implements it.  All their safety properties are proved, the limits of `Startup`
as what the other modules assume among them.

Left, in order of importance:

1. `ConnectionLimits` and `TunnelServer` composed: a client connection that is
   closed while its tunnel is torn down, with both limiters.
2. A fair version of `TunnelService` (a stop ends) as a property of
   `TunnelServer`.
3. Further statements about two components in the manner of `PrivacyAsAsked`:
   `LimitsFit` with the limits of `TunnelServer`, `allow_private_destinations`
   with `OnlyPublicReached`.
