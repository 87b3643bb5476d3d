-------------------------------- MODULE Relay --------------------------------
(***************************************************************************)
(* tunnel.Relay and tunnel.RelayStream with the idleController of          *)
(* internal/tunnel/tunnel.go, for one tunnel.  Two goroutines copy, one    *)
(* per direction; the main goroutine waits for their two results; the      *)
(* timer calls expire in a goroutine of its own, maybe long after it has   *)
(* fired; Registry.CloseAll may close both ends at any time.               *)
(*                                                                         *)
(* Only differences of time matter, so the clock is relative: age is the   *)
(* time since lastTouch, up to Timeout, and left the time until the timer  *)
(* fires.  A chunk of bytes is not told from another.                      *)
(***************************************************************************)
EXTENDS Integers, Sequences

CONSTANTS
    Timeout,       \* tunnel_idle_timeout, in ticks
    MaxCallbacks   \* bound: fired callbacks that have not run yet

ASSUME RelayAssumption ==
    /\ Timeout \in Nat \ {0}
    /\ MaxCallbacks \in Nat \ {0}

Dirs == {"up", "down"}          \* client to destination, and back
Ends == {"client", "dest"}      \* for RelayStream the client end is r.Body
Off  == 0                       \* the timer is not running

Source(d) == IF d = "up" THEN "client" ELSE "dest"
Sink(d)   == IF d = "up" THEN "dest" ELSE "client"

VARIABLES
    mode,       \* the function that runs: "h1" Relay, "h2" RelayStream
    main,       \* where Relay is
    pc,         \* where each copy goroutine is
    err,        \* its result
    results,    \* the channel of that name, capacity two
    cut,        \* each end: "open", past its "deadline", or "closed"
    lost,       \* ends whose peer has reset the connection or stream
    buffered,   \* bytes of the client wait in the hijacked bufio.Reader
    age,        \* idleController: time since lastTouch
    left,       \* time until the timer fires, or Off
    stopped,    \* idleController.stopped
    callbacks,  \* expire goroutines that wait for the mutex
    onTimeout,  \* progress of the callback of that name
    closeAll    \* progress of Registry.CloseAll on this tunnel

copyVars  == <<pc, err, results>>
timerVars == <<age, left, stopped, callbacks>>
vars == <<mode, main, copyVars, cut, lost, buffered, timerVars, onTimeout, closeAll>>

Results == {"nil", "error"}
Closing == {"none", "client", "dest", "done"}

TypeOK ==
    /\ mode \in {"h1", "h2"}
    /\ main \in {"new", "armed", "first", "cutClient", "cutDest", "second",
                 "stop", "returned"}
    /\ pc \in [Dirs -> {"none", "read", "touch", "write", "half", "send", "gone"}]
    /\ err \in [Dirs -> Results]
    /\ results \in Seq(Results) /\ Len(results) <= 2
    /\ cut \in [Ends -> {"open", "deadline", "closed"}]
    /\ lost \in SUBSET Ends
    /\ buffered \in BOOLEAN
    /\ age \in 0 .. Timeout
    /\ left \in 0 .. Timeout
    /\ stopped \in BOOLEAN
    /\ callbacks \in 0 .. MaxCallbacks
    /\ onTimeout \in Closing
    /\ closeAll \in Closing

\* newIdleController has just read the clock for lastTouch.
Init ==
    /\ mode \in {"h1", "h2"}
    /\ main = "new"
    /\ pc = [d \in Dirs |-> "none"]
    /\ err = [d \in Dirs |-> "nil"]
    /\ results = << >>
    /\ cut = [e \in Ends |-> "open"]
    /\ lost = {}
    /\ buffered \in (IF mode = "h1" THEN BOOLEAN ELSE {FALSE})
    /\ age = 0
    /\ left = Off
    /\ stopped = FALSE
    /\ callbacks = 0
    /\ onTimeout = "none"
    /\ closeAll = "none"
------------------------------------------------------------------------------
(***************************************************************************)
(* The idle controller.                                                    *)
(***************************************************************************)
\* Mutant: the timer is started with a fraction of the timeout.
Arm_Short ==
    /\ main = "new"
    /\ main' = "armed"
    /\ left' = 1
    /\ UNCHANGED <<mode, copyVars, cut, lost, buffered, age, stopped, callbacks, onTimeout, closeAll>>

\* time.AfterFunc; its result is not assigned to controller.timer yet.
Arm ==
    /\ main = "new"
    /\ main' = "armed"
    /\ left' = Timeout
    /\ UNCHANGED <<mode, copyVars, cut, lost, buffered, age, stopped, callbacks, onTimeout, closeAll>>

\* A tick of the clock.  A timer that runs out starts a callback.
Tick ==
    /\ left = 1 => callbacks < MaxCallbacks
    /\ age' = IF age < Timeout THEN age + 1 ELSE age
    /\ left' = IF left = Off THEN Off ELSE left - 1
    /\ callbacks' = IF left = 1 THEN callbacks + 1 ELSE callbacks
    /\ UNCHANGED <<mode, main, copyVars, cut, lost, buffered, stopped, onTimeout, closeAll>>

\* activityReader.Read calls touch before it returns the bytes.
Touch(d) ==
    /\ pc[d] = "touch"
    /\ pc' = [pc EXCEPT ![d] = "write"]
    /\ age' = IF stopped THEN age ELSE 0
    /\ left' = IF stopped THEN left ELSE Timeout
    /\ UNCHANGED <<mode, main, err, results, cut, lost, buffered, stopped, callbacks, onTimeout, closeAll>>

\* Mutant: expire does not look at lastTouch again.
Expire_NoRecheck ==
    /\ callbacks > 0
    /\ callbacks' = callbacks - 1
    /\ IF stopped THEN UNCHANGED <<stopped, onTimeout>>
                  ELSE stopped' = TRUE /\ onTimeout' = "client"
    /\ UNCHANGED <<mode, main, copyVars, cut, lost, buffered, age, left, closeAll>>

\* Mutant: expire marks the controller stopped before it looks at lastTouch.
Expire_StopsFirst ==
    /\ callbacks > 0
    /\ callbacks' = callbacks - 1
    /\ stopped' = TRUE
    /\ left' = IF ~stopped /\ age < Timeout THEN Timeout - age ELSE left
    /\ onTimeout' = IF ~stopped /\ age = Timeout THEN "client" ELSE onTimeout
    /\ UNCHANGED <<mode, main, copyVars, cut, lost, buffered, age, closeAll>>

\* expire, up to the call of onTimeout.
Expire ==
    /\ callbacks > 0
    /\ callbacks' = callbacks - 1
    /\ \/ /\ stopped
          /\ UNCHANGED <<left, stopped, onTimeout>>
       \/ /\ ~stopped /\ age < Timeout
          /\ left' = Timeout - age
          /\ UNCHANGED <<stopped, onTimeout>>
       \/ /\ ~stopped /\ age = Timeout
          /\ stopped' = TRUE
          /\ onTimeout' = "client"
          /\ UNCHANGED left
    /\ UNCHANGED <<mode, main, copyVars, cut, lost, buffered, age, closeAll>>

Close(e) == cut' = [cut EXCEPT ![e] = "closed"]

\* onTimeout closes both ends, the client first.
TimeoutCloses ==
    /\ \/ onTimeout = "client" /\ onTimeout' = "dest"
       \/ onTimeout = "dest" /\ onTimeout' = "done"
    /\ Close(onTimeout)
    /\ UNCHANGED <<mode, main, copyVars, lost, buffered, timerVars, closeAll>>

\* Registry.CloseAll on the pair, which was tracked before the relay began.
CloseAllBegins ==
    /\ closeAll = "none"
    /\ closeAll' = "client"
    /\ UNCHANGED <<mode, main, copyVars, cut, lost, buffered, timerVars, onTimeout>>

CloseAllCloses ==
    /\ \/ closeAll = "client" /\ closeAll' = "dest"
       \/ closeAll = "dest" /\ closeAll' = "done"
    /\ Close(closeAll)
    /\ UNCHANGED <<mode, main, copyVars, lost, buffered, timerVars, onTimeout>>
------------------------------------------------------------------------------
(***************************************************************************)
(* copyAndHalfClose.                                                       *)
(***************************************************************************)
CopyOnly == UNCHANGED <<mode, main, cut, lost, timerVars, onTimeout, closeAll>>

\* A peer goes away: writes to that end fail from now on, and so do reads
\* that find nothing more.
PeerLost(e) ==
    /\ e \notin lost
    /\ lost' = lost \cup {e}
    /\ UNCHANGED <<mode, main, copyVars, cut, buffered, timerVars, onTimeout, closeAll>>

ReadFails(d) == cut[Source(d)] # "open" \/ Source(d) \in lost

\* A write of a response is a write to the HTTP/2 stream: closing r.Body
\* does not interrupt it, and neither a closed destination.
WriteFails(d) ==
    \/ Sink(d) \in lost
    \/ cut[Sink(d)] # "open" /\ (mode = "h2" => d = "up")

\* Bytes arrive, had arrived before their sender went away, or were read
\* together with the CONNECT request.
Read(d) ==
    /\ pc[d] = "read"
    /\ \/ cut[Source(d)] = "open" /\ UNCHANGED buffered
       \/ d = "up" /\ buffered /\ buffered' = FALSE
    /\ pc' = [pc EXCEPT ![d] = "touch"]
    /\ UNCHANGED <<err, results>>
    /\ CopyOnly

\* The peer of the sink takes the bytes.
Write(d) ==
    /\ pc[d] = "write"
    /\ ~WriteFails(d)
    /\ pc' = [pc EXCEPT ![d] = "read"]
    /\ UNCHANGED <<err, results, buffered>>
    /\ CopyOnly

\* The peer of the source had no more bytes: the transfer ends without error.
ReadEOF(d) ==
    /\ pc[d] = "read"
    /\ cut[Source(d)] = "open"
    /\ pc' = [pc EXCEPT ![d] = "half"]
    /\ UNCHANGED <<err, results, buffered>>
    /\ CopyOnly

\* A read or write fails: interrupted from this side, or by its peer.
CopyFails(d) ==
    /\ \/ pc[d] = "read" /\ ReadFails(d)
       \/ pc[d] = "write" /\ WriteFails(d)
    /\ pc' = [pc EXCEPT ![d] = "send"]
    /\ err' = [err EXCEPT ![d] = "error"]
    /\ UNCHANGED <<results, buffered>>
    /\ CopyOnly

\* CloseWrite on the sink, if it has one: flushingWriter has not.  It may
\* fail when the peer is lost or the deadline is over; a sink that is closed
\* already is no error.
HalfClose(d) ==
    /\ pc[d] = "half"
    /\ pc' = [pc EXCEPT ![d] = "send"]
    /\ \/ UNCHANGED err
       \/ /\ cut[Sink(d)] # "closed"
          /\ cut[Sink(d)] = "deadline" \/ Sink(d) \in lost
          /\ mode = "h2" => d = "up"
          /\ err' = [err EXCEPT ![d] = "error"]
    /\ UNCHANGED <<results, buffered>>
    /\ CopyOnly

Send(d) ==
    /\ pc[d] = "send"
    /\ pc' = [pc EXCEPT ![d] = "gone"]
    /\ results' = Append(results, err[d])
    /\ UNCHANGED <<err, buffered>>
    /\ CopyOnly
------------------------------------------------------------------------------
(***************************************************************************)
(* The goroutine that called Relay or RelayStream.                         *)
(***************************************************************************)
\* controller.timer is assigned and the copies start.
Spawn ==
    /\ main = "armed"
    /\ main' = "first"
    /\ pc' = [d \in Dirs |-> "read"]
    /\ UNCHANGED <<mode, err, results, cut, lost, buffered, timerVars, onTimeout, closeAll>>

\* Mutant: the other direction is interrupted by a clean end as well.
FirstResult_AlwaysCuts ==
    /\ main = "first"
    /\ results # << >>
    /\ main' = "cutClient"
    /\ results' = Tail(results)
    /\ UNCHANGED <<mode, pc, err, cut, lost, buffered, timerVars, onTimeout, closeAll>>

FirstResult ==
    /\ main = "first"
    /\ results # << >>
    /\ main' = IF Head(results) = "error" THEN "cutClient" ELSE "second"
    /\ results' = Tail(results)
    /\ UNCHANGED <<mode, pc, err, cut, lost, buffered, timerVars, onTimeout, closeAll>>

\* Mutant: only the client's deadline is set.
CutOther_ClientOnly ==
    /\ main = "cutClient"
    /\ main' = "second"
    /\ cut' = [cut EXCEPT !["client"] = IF @ = "closed" THEN @ ELSE "deadline"]
    /\ UNCHANGED <<mode, copyVars, lost, buffered, timerVars, onTimeout, closeAll>>

\* An error interrupts the other direction: Relay sets both deadlines,
\* RelayStream closes both ends.
CutOther ==
    /\ \E e \in Ends :
          /\ main = IF e = "client" THEN "cutClient" ELSE "cutDest"
          /\ main' = IF e = "client" THEN "cutDest" ELSE "second"
          /\ IF mode = "h1"
               THEN cut' = [cut EXCEPT ![e] = IF @ = "closed" THEN @ ELSE "deadline"]
               ELSE Close(e)
    /\ UNCHANGED <<mode, copyVars, lost, buffered, timerVars, onTimeout, closeAll>>

SecondResult ==
    /\ main = "second"
    /\ results # << >>
    /\ main' = "stop"
    /\ results' = Tail(results)
    /\ UNCHANGED <<mode, pc, err, cut, lost, buffered, timerVars, onTimeout, closeAll>>

\* The deferred idle.stop, and Relay returns.
Stop ==
    /\ main = "stop"
    /\ main' = "returned"
    /\ stopped' = TRUE
    /\ left' = IF stopped THEN left ELSE Off
    /\ UNCHANGED <<mode, copyVars, cut, lost, buffered, age, callbacks, onTimeout, closeAll>>
------------------------------------------------------------------------------
MainRuns == Arm \/ Spawn \/ FirstResult \/ CutOther \/ SecondResult \/ Stop

CopyRuns(d) == Touch(d) \/ CopyFails(d) \/ HalfClose(d) \/ Send(d)

\* Every step but the clock's and the arrival of bytes.
Others ==
    \/ MainRuns
    \/ \E d \in Dirs : CopyRuns(d) \/ Write(d) \/ ReadEOF(d)
    \/ Expire \/ TimeoutCloses
    \/ CloseAllBegins \/ CloseAllCloses
    \/ \E e \in Ends : PeerLost(e)

Next == Tick \/ (\E d \in Dirs : Read(d)) \/ Others

Spec == Init /\ [][Next]_vars

(* Goroutines run and a read or write that must fail returns.  Nothing is  *)
(* assumed about the peers: bytes, their acceptance, EOF and failure may   *)
(* come or not.                                                            *)
Fairness ==
    /\ WF_vars(MainRuns) /\ WF_vars(Expire)
    /\ WF_vars(TimeoutCloses) /\ WF_vars(CloseAllCloses)
    /\ \A d \in Dirs : WF_vars(CopyRuns(d))

FairSpec == Spec /\ Fairness /\ WF_vars(Tick)
------------------------------------------------------------------------------
\* The idle timer is never lost: until the controller is stopped, touch,
\* expire and a late callback between them always leave a timer running or a
\* callback on its way.
TimerAlive ==
    main \notin {"new", "armed"} /\ ~stopped =>
        left # Off \/ callbacks > 0

\* newIdleController assigns controller.timer after the timer has started, and
\* expire uses it: a callback that runs before the assignment never gets as
\* far as timer.Reset, which would be a nil dereference.
NoNilTimer == main = "armed" /\ callbacks > 0 /\ ~stopped => age = Timeout

(***************************************************************************)
(* touch, expire and newIdleController neither lose the idle timer nor use *)
(* it before it is assigned, whenever its callback runs.                   *)
(***************************************************************************)
TimerSound == TimerAlive /\ NoNilTimer

(***************************************************************************)
(* A clean EOF in one direction leaves the other alone: an end is          *)
(* interrupted only after a peer was lost, an idle timeout or CloseAll.    *)
(***************************************************************************)
HalfCloseKeepsOther ==
    (\E e \in Ends : cut[e] # "open") =>
        \/ lost # {}
        \/ onTimeout # "none"
        \/ closeAll # "none"

(***************************************************************************)
(* The goroutines of a relay do not wait for one another for nothing: a    *)
(* main that receives has a result to come, an error interrupts both ends  *)
(* unless it is still on its way to main or the other copy is over, and a  *)
(* controller that has timed out has closed both ends or is doing so,      *)
(* whichever copy ends first and whatever expire and CloseAll do.          *)
(***************************************************************************)
RelayNeverStuck ==
    /\ main \in {"first", "second"} => results # << >> \/ \E d \in Dirs : pc[d] # "gone"
    /\ \A d, o \in Dirs : err[d] = "error" /\ pc[o] # "gone" =>
          \/ pc[d] = "send"
          \/ main = "first" /\ results = <<"error">>
          \/ main \in {"cutClient", "cutDest"}
          \/ \A e \in Ends : cut[e] # "open"
    /\ stopped /\ main # "returned" =>
          onTimeout \in Ends \/ \A e \in Ends : cut[e] = "closed"

(***************************************************************************)
(* A relay has always something that will move it on: its idle timer until *)
(* the controller is stopped, and its goroutines one another.              *)
(***************************************************************************)
RelaySound == TimerSound /\ RelayNeverStuck

ClockRuns == WF_vars(Tick)

Interrupted ==
    \/ \E d \in Dirs : err[d] = "error"
    \/ main \notin {"new", "armed"} /\ \A e \in Ends : cut[e] = "closed"

NoMoreBytes == <>[](\A d \in Dirs : pc[d] # "touch")

(***************************************************************************)
(* README, tunnel_idle_timeout: a tunnel on which no bytes arrive any more *)
(* is closed, even if a peer has stopped reading.                          *)
(***************************************************************************)
IdleTunnelCloses == NoMoreBytes => <>(main = "returned")

(***************************************************************************)
(* What the idle timer of a clock that runs does guarantee: Relay returns, *)
(* and RelayStream at least gives up its destination, whose client may     *)
(* have stopped taking response bytes.                                     *)
(***************************************************************************)
IdleTunnelEnds ==
    ClockRuns /\ NoMoreBytes =>
        <>(main = "returned" \/ (mode = "h2" /\ cut["dest"] = "closed"))

(***************************************************************************)
(* "A transfer error interrupts the opposite direction", and so does       *)
(* closing both ends, on which the fairness of TunnelServer rests: the     *)
(* relay returns also when the other direction waits for a peer and        *)
(* without the help of the idle timer.  Only a response that an HTTP/2     *)
(* client does not take can hold it up.                                    *)
(***************************************************************************)
InterruptedRelayEnds ==
    Interrupted ~> (main = "returned" \/ [](mode = "h2" /\ pc["down"] = "write"))
==============================================================================
