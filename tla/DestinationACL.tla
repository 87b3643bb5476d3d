---------------------------- MODULE DestinationACL ----------------------------
(***************************************************************************)
(* The destination policy of internal/proxy/acl.go and the dials made      *)
(* under it (server.go): a request's destination is approved once, and the *)
(* connection is dialled later, by the CONNECT handler or by the           *)
(* http.Transport, directly or to an upstream proxy.  The resolver answers *)
(* each lookup as it likes, so the name may have moved in between.         *)
(*                                                                         *)
(* An address is an IP in one of two spellings, plain or IPv4-mapped; IPs  *)
(* are split by checkDestinationIP into public and other ones.             *)
(***************************************************************************)
EXTENDS Integers, Sequences

CONSTANTS
    Requests,
    PublicIPs, OtherIPs,
    Names,           \* host names a request may ask for
    LocalNames,      \* "localhost" and the names below it
    RespelledNames,  \* names the transport dials in another spelling (IDN)
    BlockedPorts, OpenPorts,
    Targets,         \* what requests ask for: a host and a port
    Proxy,           \* where the upstream proxy is
    ProxiedNames,    \* names for which proxyFunc selects the upstream proxy
    MaxAnswers,      \* bound: addresses in an answer of the resolver
    None

IPs == PublicIPs \cup OtherIPs
Addresses == [ip : IPs, mapped : BOOLEAN]
Hosts == Names \cup Addresses
Places == [host : Hosts, port : BlockedPorts \cup OpenPorts]

ASSUME PolicyAssumption ==
    /\ LocalNames \subseteq Names /\ RespelledNames \subseteq Names /\ ProxiedNames \subseteq Names
    /\ Names \cap (Addresses \cup IPs) = {} /\ Addresses \cap IPs = {}
    /\ PublicIPs \cap OtherIPs = {} /\ BlockedPorts \cap OpenPorts = {}
    /\ Proxy \in Places /\ Targets \subseteq Places
    /\ MaxAnswers \in Nat
    /\ None \notin Places \cup IPs \cup Hosts

VARIABLES
    allowPrivate,  \* allow_private_destinations
    stage,     \* "idle", "approve", "connect", "dial", "connected" or "done"
    kind,      \* "connect" or "http"
    target,    \* what the client asked for
    approved,  \* addresses of the approvedDestination in the request's context
    todo,      \* addresses dialApproved has not tried yet
    ended,     \* the context of the dial has ended
    conn,      \* the IP the request's connection goes to
    idle,      \* idle connections of the transport: where they are for and go
    result,    \* "none", "ok", "denied" or "failed"
    asked,     \* the host the upstream was asked to connect to
    answer,    \* history: the IPs of the answer the dial rests on
    dialled    \* history: IPs dialled

histories == <<answer, dialled>>
vars == <<allowPrivate, stage, kind, target, approved, todo, ended, conn, idle, result, asked, histories>>

AddressLists == Seq(IPs \cup Hosts)

TypeOK ==
    /\ allowPrivate \in BOOLEAN
    /\ stage \in [Requests -> {"idle", "approve", "connect", "dial", "connected", "done"}]
    /\ kind \in [Requests -> {"connect", "http"}]
    /\ target \in [Requests -> Places \cup {None}]
    /\ approved \in [Requests -> AddressLists]
    /\ todo \in [Requests -> AddressLists]
    /\ ended \in [Requests -> BOOLEAN]
    /\ conn \in [Requests -> IPs \cup {None}]
    /\ idle \subseteq [for : Places, at : IPs]
    /\ result \in [Requests -> {"none", "ok", "denied", "failed"}]
    /\ asked \in [Requests -> IPs \cup Hosts \cup {None}]
    /\ answer \in [Requests -> SUBSET IPs]
    /\ dialled \in [Requests -> SUBSET IPs]

Init ==
    /\ allowPrivate \in BOOLEAN
    /\ stage = [r \in Requests |-> "idle"]
    /\ kind = [r \in Requests |-> "connect"]
    /\ target = [r \in Requests |-> None]
    /\ approved = [r \in Requests |-> <<>>]
    /\ todo = [r \in Requests |-> <<>>]
    /\ ended = [r \in Requests |-> FALSE]
    /\ conn = [r \in Requests |-> None]
    /\ idle = {}
    /\ result = [r \in Requests |-> "none"]
    /\ asked = [r \in Requests |-> None]
    /\ answer = [r \in Requests |-> {}]
    /\ dialled = [r \in Requests |-> {}]
------------------------------------------------------------------------------
(* approve as the set of its possible verdicts on a target.                *)
Elements(s) == {s[i] : i \in DOMAIN s}
ListsUpTo(S, n) == UNION {[1 .. k -> S] : k \in 0 .. n}

Verdict(err, addresses, ips) == [err |-> err, addresses |-> addresses, ips |-> ips]
Deny == Verdict("denied", <<>>, {})
Fail == Verdict("failed", <<>>, {})

\* s lists the unmapped IPs of the answer without duplicates, in its order.
Unmapped(ans, s) ==
    /\ Elements(s) = {a.ip : a \in Elements(ans)}
    /\ \A i, j \in DOMAIN s : i < j =>
         /\ s[i] # s[j]
         /\ \E k \in DOMAIN ans : ans[k].ip = s[i] /\ \A l \in 1 .. k : ans[l].ip # s[j]

\* Mutant: only the first address of the answer is checked.
CheckAnswer_FirstOnly(ans) ==
    IF ans = <<>> THEN {Fail}
    ELSE IF ans[1].ip \in PublicIPs
         THEN {Verdict("none", s, {a.ip : a \in Elements(ans)}) :
                 s \in {s \in ListsUpTo(IPs, Len(ans)) : Unmapped(ans, s)}}
         ELSE {Deny}

\* checkDestinationIP on every address of an answer: one that is not public
\* denies the destination.
CheckAnswer(ans) ==
    IF ans = <<>> THEN {Fail}
    ELSE IF \A a \in Elements(ans) : a.ip \in PublicIPs
         THEN {Verdict("none", s, {a.ip : a \in Elements(ans)}) :
                 s \in {s \in ListsUpTo(IPs, Len(ans)) : Unmapped(ans, s)}}
         ELSE {Deny}

\* Mutant: with private destinations allowed the ports are not looked at.
Approve_PrivateFirst(t) ==
    IF allowPrivate THEN {Verdict("none", <<t.host>>, {})}
    ELSE IF t.port \in BlockedPorts \/ t.host \in LocalNames THEN {Deny}
    ELSE IF t.host \in Addresses THEN CheckAnswer(<<t.host>>)
    ELSE {Fail} \cup UNION {CheckAnswer(ans) : ans \in ListsUpTo(Addresses, MaxAnswers)}

\* The verdicts of approve: the resolver may give any answer, fail or time out.
Approve(t) ==
    IF t.port \in BlockedPorts THEN {Deny}
    ELSE IF allowPrivate THEN {Verdict("none", <<t.host>>, {})}
    ELSE IF t.host \in LocalNames THEN {Deny}
    ELSE IF t.host \in Addresses THEN CheckAnswer(<<t.host>>)
    ELSE {Fail} \cup UNION {CheckAnswer(ans) : ans \in ListsUpTo(Addresses, MaxAnswers)}
------------------------------------------------------------------------------
Move(r, from, to) == stage[r] = from /\ stage' = [stage EXCEPT ![r] = to]

Begin(r, k, t) ==
    /\ Move(r, "idle", "approve")
    /\ kind' = [kind EXCEPT ![r] = k]
    /\ target' = [target EXCEPT ![r] = t]
    /\ UNCHANGED <<allowPrivate, approved, todo, ended, conn, idle, result, asked, histories>>

\* approveDestination, and writeDestinationError if it refuses.
ApproveDestination(r) ==
    /\ stage[r] = "approve"
    /\ \E v \in Approve(target[r]) :
         /\ stage' = [stage EXCEPT ![r] = IF v.err = "none" THEN "connect" ELSE "done"]
         /\ approved' = [approved EXCEPT ![r] = v.addresses]
         /\ answer' = [answer EXCEPT ![r] = v.ips]
         /\ result' = [result EXCEPT ![r] = v.err]
    /\ UNCHANGED <<allowPrivate, kind, target, todo, ended, conn, idle, asked, dialled>>

\* Where the connection has to go.
Proxied(r) == target[r].host \in ProxiedNames
Hop(r) == IF Proxied(r) THEN Proxy ELSE target[r]

\* approvedDestination.matches on the address the transport dials.
Matches(r, t) == t = target[r] /\ t.host \notin RespelledNames

\* Mutant: the transport's dial always approves the address anew.
DialsApproved_Never(r) == kind[r] = "connect" /\ ~Proxied(r)

\* The dial uses the addresses approved for the request: dialApprovedUpstream
\* without an upstream, and DialContext of the transport if the address matches.
DialsApproved(r) ==
    IF kind[r] = "connect" THEN ~Proxied(r) ELSE Matches(r, Hop(r))

\* What the upstream will be asked for: the first approved address by CONNECT,
\* the host of the URL otherwise.
AskedOfUpstream(r) ==
    IF ~Proxied(r) THEN None
    ELSE IF kind[r] = "connect" THEN approved[r][1] ELSE target[r].host

\* dialApprovedDestination, or dialDestination with an approval of its own.
Connect(r) ==
    /\ stage[r] = "connect"
    /\ \E v \in IF DialsApproved(r) THEN {Verdict("none", approved[r], answer[r])}
                ELSE Approve(Hop(r)) :
         /\ stage' = [stage EXCEPT ![r] = IF v.err = "none" THEN "dial" ELSE "done"]
         /\ todo' = [todo EXCEPT ![r] = v.addresses]
         /\ answer' = [answer EXCEPT ![r] = v.ips]
         /\ result' = [result EXCEPT ![r] = v.err]
    /\ ended' = [ended EXCEPT ![r] = FALSE]
    /\ UNCHANGED <<allowPrivate, kind, target, approved, conn, idle, asked, dialled>>

\* External: the transport takes an idle connection to the same place.
Reuse(r, c) ==
    /\ kind[r] = "http" /\ c \in idle /\ c.for = Hop(r)
    /\ Move(r, "connect", "connected")
    /\ conn' = [conn EXCEPT ![r] = c.at]
    /\ asked' = [asked EXCEPT ![r] = AskedOfUpstream(r)]
    /\ idle' = idle \ {c}
    /\ UNCHANGED <<allowPrivate, kind, target, approved, todo, ended, result, histories>>

\* External: where a dial of an entry of the list goes.
Reaches(a) == IF a \in IPs THEN {a} ELSE IF a \in Names THEN IPs ELSE {a.ip}

\* One iteration of dialApproved that connects ...
DialOK(r) ==
    /\ Move(r, "dial", "connected")
    /\ ~ended[r]
    /\ \E ip \in Reaches(Head(todo[r])) :
         /\ conn' = [conn EXCEPT ![r] = ip]
         /\ dialled' = [dialled EXCEPT ![r] = @ \cup {ip}]
    /\ asked' = [asked EXCEPT ![r] = AskedOfUpstream(r)]
    /\ UNCHANGED <<allowPrivate, kind, target, approved, todo, ended, idle, result, answer>>

\* Mutant: the error of the first address is returned at once.
DialFails_FirstOnly(r) ==
    /\ stage[r] = "dial"
    /\ \E ip \in Reaches(Head(todo[r])) : dialled' = [dialled EXCEPT ![r] = @ \cup {ip}]
    /\ stage' = [stage EXCEPT ![r] = "done"]
    /\ result' = [result EXCEPT ![r] = "failed"]
    /\ UNCHANGED <<allowPrivate, kind, target, approved, todo, ended, conn, idle, asked, answer>>

\* ... or fails: the next address is tried unless the context has ended.
DialFails(r) ==
    /\ stage[r] = "dial"
    /\ \E ip \in Reaches(Head(todo[r])) : dialled' = [dialled EXCEPT ![r] = @ \cup {ip}]
    /\ IF Len(todo[r]) = 1 \/ ended[r]
       THEN /\ stage' = [stage EXCEPT ![r] = "done"]
            /\ result' = [result EXCEPT ![r] = "failed"]
            /\ UNCHANGED todo
       ELSE todo' = [todo EXCEPT ![r] = Tail(@)] /\ UNCHANGED <<stage, result>>
    /\ UNCHANGED <<allowPrivate, kind, target, approved, ended, conn, idle, asked, answer>>

\* External: dial_timeout, or the client goes away.
ContextEnds(r) ==
    /\ stage[r] = "dial" /\ ~ended[r]
    /\ ended' = [ended EXCEPT ![r] = TRUE]
    /\ UNCHANGED <<allowPrivate, stage, kind, target, approved, todo, conn, idle, result, asked, histories>>

\* The tunnel or the response is over; the transport keeps its connection.
Finish(r) ==
    /\ Move(r, "connected", "done")
    /\ result' = [result EXCEPT ![r] = "ok"]
    /\ idle' = idle \cup IF kind[r] = "http" THEN {[for |-> Hop(r), at |-> conn[r]]} ELSE {}
    /\ UNCHANGED <<allowPrivate, kind, target, approved, todo, ended, conn, asked, histories>>

Next ==
    \E r \in Requests :
        \/ \E k \in {"connect", "http"}, t \in Targets : Begin(r, k, t)
        \/ ApproveDestination(r) \/ Connect(r)
        \/ \E c \in idle : Reuse(r, c)
        \/ DialOK(r) \/ DialFails(r) \/ ContextEnds(r) \/ Finish(r)

Spec == Init /\ [][Next]_vars
------------------------------------------------------------------------------
\* No IP that checkDestinationIP refuses is ever dialled or used, a dial rests
\* on an answer without one, and an upstream proxy is asked by CONNECT for no
\* other, though names resolve anew between the check and the dial and
\* connections are reused.
OnlyPublicReached ==
    ~allowPrivate => \A r \in Requests :
        /\ dialled[r] \subseteq PublicIPs
        /\ dialled[r] # {} => answer[r] \subseteq PublicIPs
        /\ conn[r] \in PublicIPs \cup {None}
        /\ kind[r] = "connect" => asked[r] \in PublicIPs \cup {None}

\* What a direct dial tries are addresses approved for this very request (the
\* transport's DialContext finds them in the request's context): no second
\* lookup comes in between.
DialsWhatWasApproved ==
    \A r \in Requests :
        /\ ~allowPrivate /\ target[r] # None
        /\ ~Proxied(r) /\ target[r].host \notin RespelledNames
        => dialled[r] \subseteq Elements(approved[r])

\* A request fails for want of a connection only when every address of the
\* answer its dial rests on was dialled, or the context ended: none is lost
\* in approve, which drops other spellings of an IP, in the context the
\* transport passes on, or in the loop of dialApproved.
EveryAddressTried ==
    \A r \in Requests :
        result[r] = "failed" /\ ~ended[r] => answer[r] \subseteq dialled[r]

\* A blocked port is reached by no request, even with private destinations
\* allowed.
BlockedPortsUnreached ==
    \A r \in Requests : conn[r] # None => target[r].port \notin BlockedPorts
==============================================================================
