--------------------------- MODULE UpstreamConnect ---------------------------
(***************************************************************************)
(* dialApprovedUpstream of internal/proxy/upstream.go: one CONNECT set-up, *)
(* direct or through an upstream proxy.  The handler's goroutine shares    *)
(* the connection with the callback of context.AfterFunc, which sets a     *)
(* deadline in the past once the set-up context has ended; the timers, the *)
(* client and the upstream move meanwhile.  The upstream may send anything.*)
(*                                                                         *)
(* What the upstream sends is a sequence of pieces, each a line or a part  *)
(* of one, all of size 1 against the header limit; got of them are in the  *)
(* bufio.Reader and used of them have been parsed.                         *)
(***************************************************************************)
EXTENDS Integers, Sequences

CONSTANTS
    Mode,          \* upstream_proxy: "direct", "explicit" or "environment"
    HeaderLimit,   \* maxConnectResponseHeaderBytes, in pieces
    MaxSent        \* bound: pieces the upstream sends

ASSUME UpstreamAssumption ==
    /\ Mode \in {"direct", "explicit", "environment"}
    /\ HeaderLimit \in Nat
    /\ MaxSent \in Nat

\* "ok" and "refused" are valid status lines, with code 200 and another one;
\* the last piece of a line read in parts stands for the line.
Pieces == {"ok", "refused", "line", "part", "empty"}
Exchange == {"handshake", "write", "status", "headers"}
Ended == {"timeout", "canceled"}
Errors == Ended \cup {"denied", "failed"}

VARIABLES
    pc,         \* where the handler's goroutine is
    hop,        \* the next hop: "direct", or the scheme of the upstream
    sock,       \* the connection: "none", "open" or "closed"
    deadline,   \* its deadline: "none", "set" or "past"
    setup,      \* setupCtx: "none", "live" or how it ended
    cancelled,  \* the client's request context is cancelled
    callback,   \* of AfterFunc: "none", "armed", "running", "ran", "stopped"
    sent, peer, \* what the upstream sent, and whether it is still there
    got, used,
    result,     \* "none", "conn" or the kind of error
    ranOut      \* history: some timer of this set-up has expired

peerVars == <<sent, peer>>
vars == <<pc, hop, sock, deadline, setup, cancelled, callback, peerVars, got, used, result, ranOut>>

TypeOK ==
    /\ pc \in {"select", "dial", "arm", "stop", "conclude", "return", "done"} \cup Exchange
    /\ hop \in {"none", "direct", "http", "https"}
    /\ sock \in {"none", "open", "closed"}
    /\ deadline \in {"none", "set", "past"}
    /\ setup \in {"none", "live"} \cup Ended
    /\ cancelled \in BOOLEAN
    /\ callback \in {"none", "armed", "running", "ran", "stopped"}
    /\ sent \in Seq(Pieces)
    /\ peer \in {"up", "closed"}
    /\ got \in 0 .. Len(sent)
    /\ used \in 0 .. got
    /\ result \in {"none", "conn"} \cup Errors
    /\ ranOut \in BOOLEAN

Init ==
    /\ pc = "select" /\ hop = "none"
    /\ sock = "none" /\ deadline = "none"
    /\ setup = "none" /\ callback = "none"
    /\ cancelled = FALSE /\ ranOut = FALSE
    /\ sent = <<>> /\ peer = "up"
    /\ got = 0 /\ used = 0
    /\ result = "none"
------------------------------------------------------------------------------
Goto(from, to) == pc = from /\ pc' = to

\* An error return without a connection.
GiveUp(err) == result' = err /\ pc' = "return" /\ UNCHANGED <<sock, deadline>>

\* Mutant: the cause is not looked at.
Fail_KeepsError(err) ==
    /\ sock' = "closed"
    /\ result' = err
    /\ pc' = "return"
    /\ UNCHANGED deadline

\* The error paths of the exchange: the connection is closed and the cause of
\* the set-up context, if it has ended, replaces the error.
Fail(err) ==
    /\ sock' = "closed"
    /\ result' = IF setup \in Ended THEN setup ELSE err
    /\ pc' = "return"
    /\ UNCHANGED deadline

\* proxyFunc, built by buildProxyFunc: what it may select in each mode.
Selections == {h \in {"direct", "http", "https"} :
                 /\ Mode = "direct" => h = "direct"
                 /\ Mode = "explicit" => h # "direct"}

Select ==
    /\ pc = "select"
    /\ \/ hop' \in Selections /\ pc' = "dial" /\ UNCHANGED <<result, sock, deadline>>
       \/ hop' = hop /\ Mode = "environment" /\ GiveUp("failed")
    /\ UNCHANGED <<setup, cancelled, callback, peerVars, got, used, ranOut>>

\* dialApprovedDestination or dialDestination, bounded by dial_timeout.
Dial ==
    /\ pc = "dial"
    /\ \/ /\ sock' = "open"
          /\ IF hop = "direct" THEN result' = "conn" /\ pc' = "return"
                               ELSE pc' = "arm" /\ UNCHANGED result
          /\ UNCHANGED <<deadline, ranOut>>
       \/ \E err \in Errors :
            /\ err = "canceled" => cancelled
            /\ err = "denied" => hop # "direct"
            /\ GiveUp(err)
            /\ ranOut' = (ranOut \/ err = "timeout")
    /\ UNCHANGED <<hop, setup, cancelled, callback, peerVars, got, used>>

\* Mutant: no deadline, and a context that only the client ends.
Arm_Unbounded ==
    /\ pc = "arm"
    /\ setup' = IF cancelled THEN "canceled" ELSE "live"
    /\ callback' = "armed"
    /\ pc' = IF hop = "https" THEN "handshake" ELSE "write"
    /\ UNCHANGED <<hop, sock, deadline, result, cancelled, peerVars, got, used, ranOut>>

\* The deadline, the set-up context and its callback.
Arm ==
    /\ pc = "arm"
    /\ \/ /\ deadline' = "set"
          /\ setup' = IF cancelled THEN "canceled" ELSE "live"
          /\ callback' = "armed"
          /\ pc' = IF hop = "https" THEN "handshake" ELSE "write"
          /\ UNCHANGED <<sock, result>>
       \/ Fail("failed") /\ UNCHANGED <<setup, callback>>
    /\ UNCHANGED <<hop, cancelled, peerVars, got, used, ranOut>>
------------------------------------------------------------------------------
(* The exchange with the upstream.                                         *)
Usable == sock = "open" /\ deadline # "past"

HandshakeOrWrite ==
    /\ Usable
    /\ Goto("handshake", "write") \/ Goto("write", "status")
    /\ UNCHANGED <<hop, sock, deadline, setup, cancelled, callback, peerVars, got, used, result, ranOut>>

\* bufio.Reader fills its buffer with what has arrived.
Fill ==
    /\ pc \in {"status", "headers"}
    /\ Usable /\ used = got
    /\ got' \in got + 1 .. Len(sent)
    /\ UNCHANGED <<pc, hop, sock, deadline, setup, cancelled, callback, peerVars, used, result, ranOut>>

Partial == used > 0 /\ sent[used] = "part"

\* readConnectResponse and readLimitedLine take the next piece.
ReadLine ==
    /\ pc \in {"status", "headers"}
    /\ used < got
    /\ used' = used + 1
    /\ LET piece == sent[used + 1] IN
         IF used' > HeaderLimit \/ (pc = "status" /\ piece \in {"line", "empty"})
         THEN Fail("failed")
         ELSE /\ pc' = IF piece = "part" THEN pc
                       ELSE IF pc = "headers" /\ piece = "empty" /\ ~Partial THEN "stop"
                       ELSE "headers"
              /\ UNCHANGED <<sock, deadline, result>>
    /\ UNCHANGED <<hop, setup, cancelled, callback, peerVars, got, ranOut>>

\* A read or write fails: the deadline has passed, or the upstream is gone.
Blocked == pc \in {"handshake", "write"} \/ (pc \in {"status", "headers"} /\ used = got)

IOTimeout ==
    /\ Blocked /\ deadline = "past"
    /\ Fail("timeout")
    /\ UNCHANGED <<hop, setup, cancelled, callback, peerVars, got, used, ranOut>>

IOError ==
    /\ Blocked /\ (peer = "closed" \/ pc = "handshake")
    /\ pc \in {"status", "headers"} => got = Len(sent)
    /\ Fail("failed")
    /\ UNCHANGED <<hop, setup, cancelled, callback, peerVars, got, used, ranOut>>

\* HandshakeContext: tls_handshake_timeout, or the end of setupCtx.
HandshakeInterrupted ==
    /\ pc = "handshake"
    /\ Fail("timeout")
    /\ ranOut' = (ranOut \/ setup = "live")
    /\ UNCHANGED <<hop, setup, cancelled, callback, peerVars, got, used>>

\* stopSetupInterrupt is false once the callback has been started.
Stop_ResultIgnored ==
    /\ pc = "stop"
    /\ callback' = IF callback = "armed" THEN "stopped" ELSE callback
    /\ pc' = "conclude" /\ UNCHANGED <<sock, deadline, result>>
    /\ UNCHANGED <<hop, setup, cancelled, peerVars, got, used, ranOut>>

Stop ==
    /\ pc = "stop"
    /\ IF callback = "armed"
       THEN callback' = "stopped" /\ pc' = "conclude" /\ UNCHANGED <<sock, deadline, result>>
       ELSE Fail("canceled") /\ UNCHANGED callback
    /\ UNCHANGED <<hop, setup, cancelled, peerVars, got, used, ranOut>>

\* The code of the status line, the first line that is complete.
Answer == LET i == CHOOSE i \in 1 .. used : sent[i] # "part" /\ \A j \in 1 .. i - 1 : sent[j] = "part"
          IN  sent[i]

Closing(err) == sock' = "closed" /\ result' = err /\ UNCHANGED deadline

\* Mutant: the connection is returned without the reader's buffer.
Conclude_DropsBuffer ==
    /\ Goto("conclude", "return")
    /\ IF Answer = "ok"
       THEN deadline' = "none" /\ result' = "conn" /\ used' = got /\ UNCHANGED sock
       ELSE Closing("failed") /\ UNCHANGED used
    /\ UNCHANGED <<hop, setup, cancelled, callback, peerVars, got, ranOut>>

Conclude ==
    /\ Goto("conclude", "return")
    /\ \/ Answer = "ok" /\ deadline' = "none" /\ result' = "conn" /\ UNCHANGED sock
       \/ Closing("failed")      \* another code, or SetDeadline fails
    /\ UNCHANGED <<hop, setup, cancelled, callback, peerVars, got, used, ranOut>>

\* The deferred stopSetupInterrupt and cancel.
Unwind ==
    /\ Goto("return", "done")
    /\ callback' = IF callback = "armed" THEN "stopped" ELSE callback
    /\ setup' = IF setup = "live" THEN "canceled" ELSE setup
    /\ UNCHANGED <<hop, sock, deadline, cancelled, peerVars, got, used, result, ranOut>>
------------------------------------------------------------------------------
(* The callback, the timers, the client and the upstream.                  *)

\* The context package: the end of setupCtx and the start of the callback are
\* two steps, so stopSetupInterrupt may come between them.
StartCallback ==
    /\ callback = "armed" /\ setup \in Ended
    /\ callback' = "running"
    /\ UNCHANGED <<pc, hop, sock, deadline, setup, cancelled, peerVars, got, used, result, ranOut>>

RunCallback ==
    /\ callback = "running"
    /\ callback' = "ran"
    /\ deadline' = IF sock = "open" THEN "past" ELSE deadline
    /\ UNCHANGED <<pc, hop, sock, setup, cancelled, peerVars, got, used, result, ranOut>>

DeadlinePasses ==
    /\ deadline = "set"
    /\ deadline' = "past"
    /\ ranOut' = TRUE
    /\ UNCHANGED <<pc, hop, sock, setup, cancelled, callback, peerVars, got, used, result>>

SetupTimeout ==
    /\ setup = "live"
    /\ setup' = "timeout"
    /\ ranOut' = TRUE
    /\ UNCHANGED <<pc, hop, sock, deadline, cancelled, callback, peerVars, got, used, result>>

ClientCancels ==
    /\ ~cancelled
    /\ cancelled' = TRUE
    /\ setup' = IF setup = "live" THEN "canceled" ELSE setup
    /\ UNCHANGED <<pc, hop, sock, deadline, callback, peerVars, got, used, result, ranOut>>

UpstreamSends ==
    /\ sock = "open" /\ peer = "up" /\ hop # "direct"
    /\ Len(sent) < MaxSent
    /\ \E piece \in Pieces : sent' = Append(sent, piece)
    /\ UNCHANGED <<pc, hop, sock, deadline, setup, cancelled, callback, peer, got, used, result, ranOut>>

UpstreamCloses ==
    /\ sock = "open" /\ peer = "up" /\ hop # "direct"
    /\ peer' = "closed"
    /\ UNCHANGED <<pc, hop, sock, deadline, setup, cancelled, callback, sent, got, used, result, ranOut>>

Handler ==
    \/ Select \/ Dial \/ Arm
    \/ ReadLine \/ Stop \/ Conclude \/ Unwind

Next ==
    \/ Handler
    \/ HandshakeOrWrite \/ Fill
    \/ IOTimeout \/ IOError \/ HandshakeInterrupted
    \/ StartCallback \/ RunCallback
    \/ DeadlinePasses \/ SetupTimeout
    \/ ClientCancels \/ UpstreamSends \/ UpstreamCloses

\* The handler runs while it is not waiting for the upstream, timers expire,
\* and a blocked read or write returns once the deadline has passed.  Nothing
\* is assumed of the upstream.
Fairness ==
    /\ WF_vars(Handler) /\ WF_vars(IOTimeout)
    /\ WF_vars(DeadlinePasses)

Spec == Init /\ [][Next]_vars
FairSpec == Spec /\ Fairness
------------------------------------------------------------------------------
\* The connection dialApprovedUpstream returns is open and stays without a
\* deadline: no callback that could still set one is left, whatever the
\* set-up timer and the client did while the answer came in.
HandedOutClean ==
    result = "conn" => /\ sock = "open"
                       /\ deadline = "none"
                       /\ callback \in {"none", "stopped"}

\* An error return leaves no connection open, at whichever step it happens.
FailureCloses == result \in Errors => sock # "open"

\* dialApprovedUpstream returns a connection its caller may keep, or none that
\* is still open.
OutcomeClean == HandedOutClean /\ FailureCloses

\* The client is told 504 (a timeout) only if a timer has run out, though the
\* callback interrupts a cancelled set-up by a deadline, and a cancellation
\* is reported only if there was one.
BlameIsRight ==
    /\ result = "timeout" => ranOut
    /\ result = "canceled" => cancelled

\* The relay starts with the byte after the upstream's header, however much
\* of the tunnel's data came in the same packets, and the header began with
\* a 200 and stayed within the limit.
TunnelStartsAfterHeader ==
    result = "conn" /\ hop # "direct" =>
        /\ used \in 2 .. HeaderLimit
        /\ Answer = "ok"
        /\ sent[used] = "empty" /\ sent[used - 1] # "part"
        /\ \A i \in 2 .. used - 1 : sent[i] = "empty" => sent[i - 1] = "part"

\* While the handler talks to the upstream something is sure to interrupt it:
\* every read and write has a deadline, the header a limit, and once the
\* set-up context has ended its callback has moved the deadline into the past
\* or is about to.
AlwaysInterruptible ==
    pc \in Exchange =>
        /\ deadline # "none"
        /\ used <= HeaderLimit
        /\ setup \in Ended => deadline = "past" \/ callback \in {"armed", "running"}

\* The connection can be interrupted until it is handed out, and no longer
\* once it is.
ConnectionSound == AlwaysInterruptible /\ OutcomeClean

\* A set-up ends although the upstream may stay silent or never end its
\* header.
SetupEnds == (pc # "select") ~> (pc = "done")
==============================================================================
