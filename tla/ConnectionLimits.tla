-------------------------- MODULE ConnectionLimits ---------------------------
(***************************************************************************)
(* limitedListener and limitedConn of internal/proxy/limits.go.  The one   *)
(* goroutine of http.Server.Serve accepts connections, refuses those above *)
(* the limits and hands the others to net/http.  A connection that was     *)
(* handed out may be closed by several goroutines at the same time (the    *)
(* CONNECT handler's defers, the idle timer, Registry.CloseAll and         *)
(* net/http itself); each Close first closes the socket and then gives the *)
(* slot back through a sync.Once.                                          *)
(*                                                                         *)
(* limitedConn.once guards the only caller of the release closure, which   *)
(* has a sync.Once of its own: the two flags are set in the same step, so  *)
(* the variable released stands for both.                                  *)
(***************************************************************************)
EXTENDS ConcurrentLimiter

CONSTANTS
    Conns,        \* connections clients open, each one once
    Closers,      \* goroutines that call Close on a connection
    RemoteHost,   \* host part of RemoteAddr(), addressHost in the code
    None          \* the accept loop holds no connection

ASSUME ConnsAssumption ==
    /\ IsFiniteSet(Conns)
    /\ RemoteHost \in [Conns -> STRING]
    /\ None \notin Conns

VARIABLES
    socket,     \* what has become of each socket
    accepting,  \* connection between Listener.Accept and tryAcquire
    limiter,    \* limitedListener.limiter
    released,   \* the sync.Once of each connection has fired
    closer      \* progress of each goroutine through limitedConn.Close

vars == <<socket, accepting, limiter, released, closer>>

key == [c \in Conns |-> limiterKey(RemoteHost[c])]

TypeOK ==
    /\ socket \in [Conns -> {"unopened", "accepted", "open", "closed", "refused"}]
    /\ accepting \in Conns \cup {None}
    /\ limiter.total \in Nat
    /\ released \in [Conns -> BOOLEAN]
    /\ closer \in [Conns -> [Closers -> {"idle", "socketClosed", "done"}]]

Init ==
    /\ socket = [c \in Conns |-> "unopened"]
    /\ accepting = None
    /\ limiter = newConcurrentLimiter
    /\ released = [c \in Conns |-> FALSE]
    /\ closer = [c \in Conns |-> [g \in Closers |-> "idle"]]
------------------------------------------------------------------------------
\* Listener.Accept returns a connection; no slot has been taken for it yet.
\* (When it fails, Accept returns the error and no state has changed.)
ListenerAccept(c) ==
    /\ accepting = None
    /\ socket[c] = "unopened"
    /\ socket' = [socket EXCEPT ![c] = "accepted"]
    /\ accepting' = c
    /\ UNCHANGED <<limiter, released, closer>>

\* tryAcquire succeeds and Accept returns the limitedConn.
Admit(c) ==
    /\ accepting = c
    /\ HasRoom(limiter, key[c])
    /\ limiter' = tryAcquire(limiter, key[c])
    /\ socket' = [socket EXCEPT ![c] = "open"]
    /\ accepting' = None
    /\ UNCHANGED <<released, closer>>

\* tryAcquire fails: the connection is closed and the loop goes on.
Refuse(c) ==
    /\ accepting = c
    /\ ~HasRoom(limiter, key[c])
    /\ socket' = [socket EXCEPT ![c] = "refused"]
    /\ accepting' = None
    /\ UNCHANGED <<limiter, released, closer>>

\* Mutant: the slot is given back before the socket is closed.
CloseSocket_ReleaseFirst(c, g) ==
    /\ socket[c] \in {"open", "closed"}
    /\ closer[c][g] = "idle"
    /\ \/ /\ ~released[c]
          /\ limiter' = release(limiter, key[c])
          /\ released' = [released EXCEPT ![c] = TRUE]
          /\ UNCHANGED <<socket, closer>>
       \/ /\ released[c]
          /\ socket' = [socket EXCEPT ![c] = "closed"]
          /\ closer' = [closer EXCEPT ![c][g] = "socketClosed"]
          /\ UNCHANGED <<limiter, released>>
    /\ UNCHANGED accepting

\* Mutant: Close returns early when Conn.Close reports an error, which it
\* does for a socket that is closed already or whose peer has reset it.
CloseSocket_ErrorReturns(c, g) ==
    /\ socket[c] \in {"open", "closed"}
    /\ closer[c][g] = "idle"
    /\ socket' = [socket EXCEPT ![c] = "closed"]
    /\ \E err \in BOOLEAN :
          closer' = [closer EXCEPT ![c][g] = IF err THEN "done" ELSE "socketClosed"]
    /\ UNCHANGED <<accepting, limiter, released>>

\* limitedConn.Close, first half: Conn.Close, whose error only reaches the
\* caller.
CloseSocket(c, g) ==
    /\ socket[c] \in {"open", "closed"}
    /\ closer[c][g] = "idle"
    /\ socket' = [socket EXCEPT ![c] = "closed"]
    /\ closer' = [closer EXCEPT ![c][g] = "socketClosed"]
    /\ UNCHANGED <<accepting, limiter, released>>

\* limitedConn.Close, second half: once.Do(release).
ReleaseSlot(c, g) ==
    /\ closer[c][g] = "socketClosed"
    /\ limiter' = IF released[c] THEN limiter ELSE release(limiter, key[c])
    /\ released' = [released EXCEPT ![c] = TRUE]
    /\ closer' = [closer EXCEPT ![c][g] = "done"]
    /\ UNCHANGED <<socket, accepting>>

AcceptLoop == \E c \in Conns : ListenerAccept(c) \/ Admit(c) \/ Refuse(c)

Next ==
    \/ AcceptLoop
    \/ \E c \in Conns, g \in Closers : CloseSocket(c, g) \/ ReleaseSlot(c, g)

Spec == Init /\ [][Next]_vars

(* A goroutine that has closed the socket runs on to once.Do: nothing      *)
(* between the two can block.  Nothing is assumed about who calls Close.   *)
FairSpec ==
    /\ Spec
    /\ \A c \in Conns, g \in Closers : WF_vars(ReleaseSlot(c, g))
------------------------------------------------------------------------------
Holders == {c \in Conns : socket[c] \in {"open", "closed"} /\ ~released[c]}

OpenConns == {c \in Conns : socket[c] = "open"}

(***************************************************************************)
(* The limiter counts exactly the connections whose slot is not given      *)
(* back, however many goroutines close the same connection and in          *)
(* whatever order (tryAcquire, the release closure and limitedConn.once).  *)
(***************************************************************************)
SlotsAccounted == Accounts(limiter, Holders, key)

(***************************************************************************)
(* The promise of max_connections and max_connections_per_ip is about      *)
(* sockets, not about counters: net/http never holds more open client      *)
(* sockets than the limits, because Close closes the socket before it      *)
(* gives the slot back.                                                    *)
(***************************************************************************)
SocketsWithinLimits ==
    /\ Cardinality(OpenConns) <= maxTotal
    /\ \A c \in Conns : Cardinality(HoldersOf(OpenConns, key, key[c])) <= maxPerKey

(***************************************************************************)
(* A slot that is still taken for a closed socket is on its way back: some *)
(* goroutine has closed the socket and not yet come to once.Do, whoever    *)
(* else has called Close and whether Conn.Close failed.                    *)
(***************************************************************************)
SlotOnItsWay ==
    \A c \in Conns : socket[c] = "closed" /\ ~released[c] =>
        \E g \in Closers : closer[c][g] = "socketClosed"

(***************************************************************************)
(* No slot is lost or given back twice: the counters are right, and what   *)
(* they still count for a closed socket is about to come back.             *)
(***************************************************************************)
SlotsNeverLost == SlotsAccounted /\ SlotOnItsWay

(***************************************************************************)
(* A slot is not lost: a connection that some goroutine closed gives its   *)
(* slot back, so the proxy cannot run out of slots for good.               *)
(***************************************************************************)
ClosedGivesSlotBack ==
    \A c \in Conns : socket[c] = "closed" ~> released[c]
==============================================================================
