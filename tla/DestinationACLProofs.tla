------------------------- MODULE DestinationACLProofs -------------------------
(***************************************************************************)
(* Under the default policy only public addresses are reached, a direct    *)
(* dial uses what was approved, blocked ports stay blocked under either    *)
(* policy, and no address of an answer is lost on its way to the dial:     *)
(* proofs for any number of requests, names and addresses and answers of   *)
(* any length.                                                             *)
(***************************************************************************)
EXTENDS DestinationACL, SequenceTheorems, TLAPS

\* What the steps of a request leave behind.
Shape ==
    \A r \in Requests :
        /\ stage[r] = "idle" <=> target[r] = None
        /\ stage[r] \in {"connect", "dial", "connected"} => approved[r] # <<>>
        /\ stage[r] = "dial" => todo[r] # <<>>
        /\ stage[r] \in {"idle", "approve", "connect"} =>
             dialled[r] = {} /\ conn[r] = None /\ asked[r] = None
        /\ stage[r] = "connected" => conn[r] # None
        /\ stage[r] # "done" => result[r] # "failed"

\* Every list a dial may take its addresses from is public.
Public ==
    /\ \A r \in Requests :
         /\ approved[r] \in Seq(PublicIPs) /\ todo[r] \in Seq(PublicIPs)
         /\ answer[r] \subseteq PublicIPs /\ dialled[r] \subseteq PublicIPs
         /\ conn[r] \in PublicIPs \cup {None}
         /\ kind[r] = "connect" => asked[r] \in PublicIPs \cup {None}
    /\ idle \subseteq [for : Places, at : PublicIPs]

\* The addresses a direct dial still has to try, or tried, were approved.
Direct(r) == /\ ~allowPrivate /\ target[r] # None
             /\ ~Proxied(r) /\ target[r].host \notin RespelledNames

Pinned ==
    \A r \in Requests : Direct(r) =>
        /\ stage[r] = "dial" => Elements(todo[r]) \subseteq Elements(approved[r])
        /\ dialled[r] \subseteq Elements(approved[r])

\* The addresses of the answer are approved, then still to be tried or tried.
Tried ==
    \A r \in Requests :
        /\ stage[r] = "connect" => answer[r] \subseteq Elements(approved[r])
        /\ stage[r] = "dial" => answer[r] \subseteq dialled[r] \cup Elements(todo[r])
        /\ result[r] = "failed" /\ ~ended[r] => answer[r] \subseteq dialled[r]

Inv == /\ TypeOK /\ Shape /\ Pinned /\ Tried
       /\ ~allowPrivate => Public

\* A refusal or a failure of approve names no address.
LEMMA Refusals ==
    /\ Deny.err = "denied" /\ Deny.addresses = <<>> /\ Deny.ips = {}
    /\ Fail.err = "failed" /\ Fail.addresses = <<>> /\ Fail.ips = {}
  BY DEF Deny, Fail, Verdict

\* An answer that passes the check yields its public addresses, at least one.
LEMMA CheckIsSound ==
    ASSUME NEW n \in Nat, NEW ans \in [1 .. n -> Addresses], NEW w \in CheckAnswer(ans)
    PROVE  /\ w.addresses \in Seq(PublicIPs) /\ w.ips \subseteq PublicIPs
           /\ w.err \in {"none", "denied", "failed"}
           /\ w.err = "none" => w.addresses # <<>>
           /\ w.ips \subseteq Elements(w.addresses) /\ (w.err # "none" => w.ips = {})
<1>1. CASE ans # <<>> /\ \A a \in Elements(ans) : a.ip \in PublicIPs
  <2>1. PICK s \in ListsUpTo(IPs, Len(ans)) :
           Unmapped(ans, s) /\ w = Verdict("none", s, {a.ip : a \in Elements(ans)})
    BY <1>1 DEF CheckAnswer
  <2>2. Len(ans) = n /\ DOMAIN ans = 1 .. n
    OBVIOUS
  <2>3. PICK k \in 0 .. n : s \in [1 .. k -> IPs]
    BY <2>1, <2>2 DEF ListsUpTo
  <2>4. Elements(s) = {a.ip : a \in Elements(ans)} /\ Elements(s) \subseteq PublicIPs
    BY <1>1, <2>1 DEF Unmapped
  <2>5. s \in [1 .. k -> PublicIPs] /\ k \in Nat
    BY <2>3, <2>4 DEF Elements
  <2>6. s \in Seq(PublicIPs)
    BY <2>5
  <2>7. s # <<>>
    <3>1. n # 0
      BY <1>1, <2>2
    <3>2. ans[1] \in Elements(ans)
      BY <2>2, <3>1 DEF Elements
    <3>3. ans[1].ip \in Elements(s)
      BY <2>4, <3>2
    <3> QED BY <2>3, <3>3 DEF Elements
  <2> QED BY <2>1, <2>4, <2>6, <2>7 DEF Verdict
<1>2. CASE ~(ans # <<>> /\ \A a \in Elements(ans) : a.ip \in PublicIPs)
  <2>1. w \in {Deny, Fail}
    BY <1>2 DEF CheckAnswer
  <2> QED BY <2>1, Refusals, EmptySeq
<1> QED BY <1>1, <1>2

\* approve grants well-formed addresses, at least one, and only public ones
\* unless private destinations are allowed.
LEMMA ApproveIsSound ==
    ASSUME NEW t \in Places, NEW v \in Approve(t)
    PROVE  /\ v.addresses \in AddressLists /\ v.ips \subseteq IPs
           /\ v.err \in {"none", "denied", "failed"}
           /\ v.err = "none" => v.addresses # <<>>
           /\ v.ips \subseteq Elements(v.addresses) /\ (v.err # "none" => v.ips = {})
           /\ ~allowPrivate => v.addresses \in Seq(PublicIPs) /\ v.ips \subseteq PublicIPs
<1> DEFINE Sound == /\ v.addresses \in Seq(PublicIPs) /\ v.ips \subseteq PublicIPs
                    /\ v.err \in {"none", "denied", "failed"}
                    /\ v.err = "none" => v.addresses # <<>>
                    /\ v.ips \subseteq Elements(v.addresses) /\ (v.err # "none" => v.ips = {})
<1>1. CASE v \in {Deny, Fail}
  BY <1>1, Refusals, EmptySeq DEF AddressLists
<1>2. CASE allowPrivate /\ v = Verdict("none", <<t.host>>, {})
  BY <1>2 DEF Verdict, AddressLists, Places
<1>3. ASSUME Sound
      PROVE  v.addresses \in AddressLists /\ v.ips \subseteq IPs
  BY <1>3 DEF AddressLists, IPs
<1>4. CASE t.host \in Addresses /\ v \in CheckAnswer(<<t.host>>)
  <2>1. <<t.host>> \in [1 .. 1 -> Addresses]
    BY <1>4
  <2>2. Sound
    BY <1>4, <2>1, CheckIsSound
  <2> QED BY <1>3, <2>2
<1>5. CASE v \in UNION {CheckAnswer(ans) : ans \in ListsUpTo(Addresses, MaxAnswers)}
  <2>1. Sound
    BY <1>5, CheckIsSound, PolicyAssumption DEF ListsUpTo
  <2> QED BY <1>3, <2>1
<1> QED BY <1>1, <1>2, <1>4, <1>5 DEF Approve

\* A request, and what it is sent through, has a place to dial.
LEMMA PlaceOfHop ==
    ASSUME TypeOK, NEW r \in Requests, target[r] # None
    PROVE  target[r] \in Places /\ Hop(r) \in Places
  BY PolicyAssumption DEF TypeOK, Hop

\* Dialling reaches addresses, and an address only itself.
LEMMA ReachesIPs ==
    ASSUME NEW a \in IPs \cup Hosts
    PROVE  /\ Reaches(a) \subseteq IPs
           /\ a \in IPs => Reaches(a) = {a}
  BY PolicyAssumption DEF Reaches, Hosts, Addresses

\* What a connection attempt reaches and leaves to try.
LEMMA HeadOfList ==
    ASSUME NEW S, NEW s \in Seq(S), s # <<>>
    PROVE  /\ Head(s) \in S /\ Head(s) \in Elements(s) /\ Tail(s) \in Seq(S)
           /\ Elements(s) = {Head(s)} \cup Elements(Tail(s))
           /\ IF Len(s) = 1 THEN Elements(s) = {Head(s)} ELSE Tail(s) # <<>>
<1>1. /\ Head(s) \in S /\ Tail(s) \in Seq(S) /\ Len(Tail(s)) = Len(s) - 1
      /\ \A i \in 1 .. Len(Tail(s)) : Tail(s)[i] = s[i + 1]
  BY HeadTailProperties
<1>2. Len(s) \in Nat /\ Len(s) # 0 /\ DOMAIN s = 1 .. Len(s) /\ Head(s) = s[1]
  BY EmptySeq
<1>3. DOMAIN Tail(s) = 1 .. Len(s) - 1
  BY <1>1
<1>4. Head(s) \in Elements(s)
  BY <1>2 DEF Elements
<1>5. Elements(s) = {Head(s)} \cup Elements(Tail(s))
  <2>1. Elements(Tail(s)) \subseteq Elements(s)
    BY <1>1, <1>2, <1>3 DEF Elements
  <2>2. ASSUME NEW i \in 1 .. Len(s), i # 1 PROVE s[i] \in Elements(Tail(s))
    <3>1. i - 1 \in DOMAIN Tail(s) /\ Tail(s)[i - 1] = s[i]
      BY <1>1, <1>2, <1>3, <2>2
    <3> QED BY <3>1 DEF Elements
  <2> QED BY <1>2, <1>4, <2>1, <2>2 DEF Elements
<1>6. Len(s) = 1 => Elements(s) = {Head(s)}
  BY <1>2 DEF Elements
<1>7. Len(s) # 1 => Tail(s) # <<>>
  <2>1. Len(s) # 1 => Len(Tail(s)) # 0
    BY <1>1, <1>2
  <2> QED BY <1>1, <2>1, EmptySeq
<1> QED BY <1>1, <1>4, <1>5, <1>6, <1>7

\* The same for the lists of addresses that dialApproved walks.
LEMMA HeadOfAddresses ==
    ASSUME NEW s \in AddressLists, s # <<>>
    PROVE  /\ Head(s) \in IPs \cup Hosts /\ Head(s) \in Elements(s)
           /\ Tail(s) \in AddressLists /\ Elements(s) = {Head(s)} \cup Elements(Tail(s))
           /\ IF Len(s) = 1 THEN Elements(s) = {Head(s)} ELSE Tail(s) # <<>>
<1>1. PICK S : S = IPs \cup Hosts
  OBVIOUS
<1>2. AddressLists = Seq(S)
  BY <1>1 DEF AddressLists
<1>3. /\ Head(s) \in S /\ Head(s) \in Elements(s) /\ Tail(s) \in Seq(S)
      /\ Elements(s) = {Head(s)} \cup Elements(Tail(s))
      /\ IF Len(s) = 1 THEN Elements(s) = {Head(s)} ELSE Tail(s) # <<>>
  <2>1. s \in Seq(S)
    BY <1>2
  <2> QED BY <2>1, HeadOfList
<1> QED BY <1>1, <1>2, <1>3

\* Before the first request the invariant holds.
LEMMA InitInv == Init => Inv
<1> SUFFICES ASSUME Init PROVE Inv
  OBVIOUS
<1>1. TypeOK
  BY DEF Init, TypeOK, AddressLists
<1>2. Shape /\ Pinned /\ Tried
  BY DEF Init, Shape, Pinned, Direct, Tried
<1>3. Public
  BY DEF Init, Public
<1> QED BY <1>1, <1>2, <1>3 DEF Inv

\* Every step keeps the invariant, one case per action.
LEMMA StepInv == Inv /\ [Next]_vars => Inv'
<1> SUFFICES ASSUME Inv, [Next]_vars PROVE Inv'
  OBVIOUS
<1>0. TypeOK /\ Shape /\ Pinned /\ Tried /\ (~allowPrivate => Public)
  BY DEF Inv
<1> USE DEF histories
<1>1. ASSUME NEW r \in Requests, NEW k \in {"connect", "http"}, NEW t \in Targets, Begin(r, k, t)
      PROVE  Inv'
  <2>1. t \in Places /\ t # None
    BY PolicyAssumption
  <2>2. TypeOK'
    BY <1>0, <1>1, <2>1 DEF TypeOK, Begin, Move
  <2>3. Shape'
    BY <1>0, <1>1, <2>1 DEF TypeOK, Begin, Move, Shape
  <2>4. Pinned'
    BY <1>0, <1>1, <2>1 DEF TypeOK, Begin, Move, Shape, Pinned, Direct, Proxied
  <2>5. (~allowPrivate => Public)' /\ Tried'
    BY <1>0, <1>1 DEF TypeOK, Shape, Begin, Move, Public, Tried
  <2> QED BY <2>2, <2>3, <2>4, <2>5 DEF Inv
<1>2. ASSUME NEW r \in Requests, ApproveDestination(r)
      PROVE  Inv'
  <2>0. target[r] \in Places /\ stage[r] = "approve"
    BY <1>0, <1>2, PlaceOfHop DEF ApproveDestination, Shape
  <2>1. PICK v \in Approve(target[r]) :
          /\ stage' = [stage EXCEPT ![r] = IF v.err = "none" THEN "connect" ELSE "done"]
          /\ approved' = [approved EXCEPT ![r] = v.addresses]
          /\ answer' = [answer EXCEPT ![r] = v.ips]
          /\ result' = [result EXCEPT ![r] = v.err]
    BY <1>2 DEF ApproveDestination
  <2>2. /\ v.addresses \in AddressLists /\ v.ips \subseteq IPs
        /\ v.err \in {"none", "denied", "failed"}
        /\ v.err = "none" => v.addresses # <<>>
        /\ v.ips \subseteq Elements(v.addresses) /\ (v.err # "none" => v.ips = {})
        /\ ~allowPrivate => v.addresses \in Seq(PublicIPs) /\ v.ips \subseteq PublicIPs
    BY <2>0, ApproveIsSound
  <2>3. UNCHANGED <<allowPrivate, kind, target, todo, ended, conn, idle, asked, dialled>>
    BY <1>2 DEF ApproveDestination
  <2>4. TypeOK'
    BY <1>0, <2>1, <2>2, <2>3 DEF TypeOK
  <2>5. Shape'
    BY <1>0, <2>0, <2>1, <2>2, <2>3 DEF TypeOK, Shape
  <2>6. Pinned'
    BY <1>0, <2>0, <2>1, <2>2, <2>3 DEF TypeOK, Shape, Pinned, Direct, Proxied
  <2>7. (~allowPrivate => Public)'
    BY <1>0, <2>0, <2>1, <2>2, <2>3 DEF TypeOK, Public
  <2>8. Tried'
    BY <1>0, <2>0, <2>1, <2>2, <2>3 DEF TypeOK, Shape, Tried
  <2> QED BY <2>4, <2>5, <2>6, <2>7, <2>8 DEF Inv
<1>3. ASSUME NEW r \in Requests, Connect(r)
      PROVE  Inv'
  <2>0. target[r] \in Places /\ Hop(r) \in Places /\ stage[r] = "connect" /\ approved[r] # <<>>
    BY <1>0, <1>3, PlaceOfHop DEF Connect, Shape
  <2>1. PICK v : /\ v \in IF DialsApproved(r) THEN {Verdict("none", approved[r], answer[r])}
                          ELSE Approve(Hop(r))
                 /\ stage' = [stage EXCEPT ![r] = IF v.err = "none" THEN "dial" ELSE "done"]
                 /\ todo' = [todo EXCEPT ![r] = v.addresses]
                 /\ answer' = [answer EXCEPT ![r] = v.ips]
                 /\ result' = [result EXCEPT ![r] = v.err]
    BY <1>3 DEF Connect
  <2>2. /\ v.addresses \in AddressLists /\ v.ips \subseteq IPs
        /\ v.err \in {"none", "denied", "failed"}
        /\ v.err = "none" => v.addresses # <<>>
        /\ v.ips \subseteq Elements(v.addresses) /\ (v.err # "none" => v.ips = {})
        /\ ~allowPrivate => v.addresses \in Seq(PublicIPs) /\ v.ips \subseteq PublicIPs
    <3>1. CASE DialsApproved(r)
      BY <1>0, <2>0, <2>1, <3>1 DEF Verdict, TypeOK, Public, Tried
    <3>2. CASE ~DialsApproved(r)
      BY <2>0, <2>1, <3>2, ApproveIsSound
    <3> QED BY <3>1, <3>2
  <2>3. /\ UNCHANGED <<allowPrivate, kind, target, approved, conn, idle, asked, dialled>>
        /\ ended' = [ended EXCEPT ![r] = FALSE]
    BY <1>3 DEF Connect
  <2>4. TypeOK'
    BY <1>0, <2>1, <2>2, <2>3 DEF TypeOK
  <2>5. Shape'
    BY <1>0, <2>0, <2>1, <2>2, <2>3 DEF TypeOK, Shape
  <2>6. Pinned'
    <3>1. Direct(r) => DialsApproved(r)
      BY DEF Direct, DialsApproved, Matches, Hop
    <3>2. Direct(r) => v.addresses = approved[r]
      BY <2>1, <3>1 DEF Verdict
    <3> QED BY <1>0, <2>0, <2>1, <2>3, <3>2 DEF TypeOK, Pinned, Direct, Proxied
  <2>7. (~allowPrivate => Public)'
    BY <1>0, <2>0, <2>1, <2>2, <2>3 DEF TypeOK, Public
  <2>8. Tried'
    BY <1>0, <2>0, <2>1, <2>2, <2>3 DEF TypeOK, Shape, Tried
  <2> QED BY <2>4, <2>5, <2>6, <2>7, <2>8 DEF Inv
<1>4. ASSUME NEW r \in Requests, NEW c \in idle, Reuse(r, c)
      PROVE  Inv'
  <2>0. /\ stage[r] = "connect" /\ stage' = [stage EXCEPT ![r] = "connected"]
        /\ conn' = [conn EXCEPT ![r] = c.at] /\ c.at \in IPs /\ idle' \subseteq idle
        /\ asked' = [asked EXCEPT ![r] = AskedOfUpstream(r)]
        /\ UNCHANGED <<allowPrivate, kind, target, approved, todo, ended, result, histories>>
    BY <1>0, <1>4 DEF Reuse, Move, TypeOK
  <2>1. AskedOfUpstream(r) \in IPs \cup Hosts \cup {None}
    <3>1. target[r] \in Places /\ approved[r] # <<>>
      BY <1>0, <2>0, PlaceOfHop DEF Shape
    <3>2. target[r].host \in Hosts /\ approved[r][1] \in IPs \cup Hosts
      BY <1>0, <3>1 DEF Places, TypeOK, AddressLists
    <3> QED BY <3>2 DEF AskedOfUpstream
  <2>2. TypeOK'
    BY <1>0, <2>0, <2>1 DEF TypeOK
  <2>3. Shape' /\ Tried'
    BY <1>0, <2>0, PolicyAssumption DEF TypeOK, Shape, Tried
  <2>4. Pinned'
    BY <1>0, <2>0 DEF TypeOK, Pinned, Direct, Proxied
  <2>5. (~allowPrivate => Public)'
    <3>1. ~allowPrivate => c.at \in PublicIPs
      BY <1>0, <1>4 DEF Public
    <3>2. None \notin PublicIPs
      BY PolicyAssumption DEF IPs
    <3>3. kind[r] # "connect"
      BY <1>4 DEF Reuse
    <3> QED BY <1>0, <2>0, <3>1, <3>2, <3>3 DEF TypeOK, Public
  <2> QED BY <2>2, <2>3, <2>4, <2>5 DEF Inv
<1>5. ASSUME NEW r \in Requests, DialOK(r)
      PROVE  Inv'
  <2> DEFINE head == Head(todo[r])
  <2>0. PICK ip \in Reaches(head) :
          /\ conn' = [conn EXCEPT ![r] = ip]
          /\ dialled' = [dialled EXCEPT ![r] = @ \cup {ip}]
    BY <1>5 DEF DialOK
  <2>1. /\ stage[r] = "dial" /\ stage' = [stage EXCEPT ![r] = "connected"]
        /\ asked' = [asked EXCEPT ![r] = AskedOfUpstream(r)]
        /\ UNCHANGED <<allowPrivate, kind, target, approved, todo, ended, idle, result, answer>>
    BY <1>5 DEF DialOK, Move
  <2>2. todo[r] # <<>> /\ todo[r] \in AddressLists
    BY <1>0, <2>1 DEF Shape, TypeOK
  <2>3. head \in IPs \cup Hosts /\ head \in Elements(todo[r])
    BY <2>2, HeadOfAddresses
  <2>4. ip \in IPs /\ (head \in IPs => ip = head)
    BY <2>0, <2>3, ReachesIPs
  <2>5. ~allowPrivate => ip \in PublicIPs /\ ip = head
    <3> SUFFICES ASSUME ~allowPrivate PROVE ip \in PublicIPs /\ ip = head
      OBVIOUS
    <3>1. todo[r] \in Seq(PublicIPs)
      BY <1>0 DEF Public
    <3>2. head \in PublicIPs
      BY <2>2, <3>1, HeadOfList
    <3> QED BY <2>4, <3>2 DEF IPs
  <2>6. AskedOfUpstream(r) \in IPs \cup Hosts \cup {None}
    <3>1. target[r] \in Places /\ approved[r] # <<>>
      BY <1>0, <2>1, PlaceOfHop DEF Shape
    <3>2. target[r].host \in Hosts /\ approved[r][1] \in IPs \cup Hosts
      BY <1>0, <3>1 DEF Places, TypeOK, AddressLists
    <3> QED BY <3>2 DEF AskedOfUpstream
  <2>7. TypeOK'
    BY <1>0, <2>0, <2>1, <2>4, <2>6 DEF TypeOK
  <2>8. Shape' /\ Tried'
    BY <1>0, <2>0, <2>1, <2>4, PolicyAssumption DEF TypeOK, Shape, Tried
  <2>9. Pinned'
    BY <1>0, <2>0, <2>1, <2>3, <2>5 DEF TypeOK, Pinned, Direct, Proxied
  <2>10. (~allowPrivate => Public)'
    <3>1. None \notin PublicIPs
      BY PolicyAssumption DEF IPs
    <3>2. ~allowPrivate /\ kind[r] = "connect" => AskedOfUpstream(r) \in PublicIPs \cup {None}
      <4> SUFFICES ASSUME ~allowPrivate, kind[r] = "connect", Proxied(r)
                   PROVE  approved[r][1] \in PublicIPs
        BY DEF AskedOfUpstream
      <4>1. approved[r] \in Seq(PublicIPs) /\ approved[r] # <<>>
        BY <1>0, <2>1 DEF Public, Shape
      <4> QED BY <4>1
    <3> QED BY <1>0, <2>0, <2>1, <2>5, <3>1, <3>2 DEF TypeOK, Public
  <2> QED BY <2>7, <2>8, <2>9, <2>10 DEF Inv
<1>6. ASSUME NEW r \in Requests, DialFails(r)
      PROVE  Inv'
  <2> DEFINE head == Head(todo[r])
  <2>0. PICK ip \in Reaches(head) : dialled' = [dialled EXCEPT ![r] = @ \cup {ip}]
    BY <1>6 DEF DialFails
  <2>1. /\ stage[r] = "dial"
        /\ UNCHANGED <<allowPrivate, kind, target, approved, ended, conn, idle, asked, answer>>
    BY <1>6 DEF DialFails
  <2>2. todo[r] # <<>> /\ todo[r] \in AddressLists
    BY <1>0, <2>1 DEF Shape, TypeOK
  <2>3. head \in IPs \cup Hosts /\ head \in Elements(todo[r])
    BY <2>2, HeadOfAddresses
  <2>4. ip \in IPs /\ (head \in IPs => ip = head)
    BY <2>0, <2>3, ReachesIPs
  <2>5. ~allowPrivate => ip \in PublicIPs /\ ip = head /\ Tail(todo[r]) \in Seq(PublicIPs)
    <3> SUFFICES ASSUME ~allowPrivate
                 PROVE  ip \in PublicIPs /\ ip = head /\ Tail(todo[r]) \in Seq(PublicIPs)
      OBVIOUS
    <3>1. todo[r] \in Seq(PublicIPs)
      BY <1>0 DEF Public
    <3>2. head \in PublicIPs /\ Tail(todo[r]) \in Seq(PublicIPs)
      BY <2>2, <3>1, HeadOfList
    <3> QED BY <2>4, <3>2 DEF IPs
  <2>6. answer[r] \subseteq dialled'[r] \cup Elements(Tail(todo[r]))
    <3>1. answer[r] \subseteq dialled[r] \cup {head} \cup Elements(Tail(todo[r]))
      BY <1>0, <2>1, <2>2, HeadOfAddresses DEF Tried
    <3>2. head \in answer[r] => head = ip
      BY <1>0, <2>4 DEF TypeOK
    <3>3. dialled'[r] = dialled[r] \cup {ip}
      BY <1>0, <2>0 DEF TypeOK
    <3> QED BY <3>1, <3>2, <3>3
  <2>7. CASE Len(todo[r]) = 1 \/ ended[r]
    <3>1. /\ stage' = [stage EXCEPT ![r] = "done"]
          /\ result' = [result EXCEPT ![r] = "failed"]
          /\ todo' = todo
      BY <1>6, <2>7 DEF DialFails
    <3>2. TypeOK'
      BY <1>0, <2>0, <2>1, <2>4, <3>1 DEF TypeOK
    <3>3. Shape'
      BY <1>0, <2>0, <2>1, <3>1 DEF TypeOK, Shape
    <3>4. Tried'
      <4>1. ~ended[r] => answer[r] \subseteq dialled'[r]
        <5> SUFFICES ASSUME ~ended[r] PROVE answer[r] \subseteq dialled'[r]
          OBVIOUS
        <5>1. Elements(todo[r]) = {head}
          BY <2>2, <2>7, HeadOfAddresses
        <5>2. answer[r] \subseteq dialled[r] \cup {head}
          BY <1>0, <2>1, <5>1 DEF Tried
        <5>3. head \in answer[r] => head = ip
          BY <1>0, <2>4 DEF TypeOK
        <5>4. dialled'[r] = dialled[r] \cup {ip}
          BY <1>0, <2>0 DEF TypeOK
        <5> QED BY <5>2, <5>3, <5>4
      <4> QED BY <1>0, <2>0, <2>1, <3>1, <4>1 DEF TypeOK, Tried
    <3>5. Pinned'
      BY <1>0, <2>0, <2>1, <2>3, <2>5, <3>1 DEF TypeOK, Pinned, Direct, Proxied
    <3>6. (~allowPrivate => Public)'
      BY <1>0, <2>0, <2>1, <2>5, <3>1 DEF TypeOK, Public
    <3> QED BY <3>2, <3>3, <3>4, <3>5, <3>6 DEF Inv
  <2>8. CASE ~(Len(todo[r]) = 1 \/ ended[r])
    <3>1. /\ todo' = [todo EXCEPT ![r] = Tail(@)]
          /\ UNCHANGED <<stage, result>>
      BY <1>6, <2>8 DEF DialFails
    <3>2. /\ Tail(todo[r]) \in AddressLists /\ Tail(todo[r]) # <<>>
          /\ Elements(Tail(todo[r])) \subseteq Elements(todo[r])
      BY <2>2, <2>8, HeadOfAddresses
    <3>3. TypeOK'
      BY <1>0, <2>0, <2>1, <2>4, <3>1, <3>2 DEF TypeOK
    <3>4. Shape'
      BY <1>0, <2>0, <2>1, <3>1, <3>2 DEF TypeOK, Shape
    <3>5. Tried'
      BY <1>0, <2>0, <2>1, <2>6, <3>1 DEF TypeOK, Shape, Tried
    <3>6. Pinned'
      BY <1>0, <2>0, <2>1, <2>3, <2>5, <3>1, <3>2 DEF TypeOK, Pinned, Direct, Proxied
    <3>7. (~allowPrivate => Public)'
      BY <1>0, <2>0, <2>1, <2>5, <3>1 DEF TypeOK, Public
    <3> QED BY <3>3, <3>4, <3>5, <3>6, <3>7 DEF Inv
  <2> QED BY <2>7, <2>8
<1>7. ASSUME NEW r \in Requests, ContextEnds(r)
      PROVE  Inv'
  BY <1>0, <1>7 DEF ContextEnds, Inv, TypeOK, Shape, Pinned, Direct, Proxied, Public, Tried
<1>8. ASSUME NEW r \in Requests, Finish(r)
      PROVE  Inv'
  <2>0. /\ stage[r] = "connected" /\ stage' = [stage EXCEPT ![r] = "done"]
        /\ result' = [result EXCEPT ![r] = "ok"]
        /\ UNCHANGED <<allowPrivate, kind, target, approved, todo, ended, conn, asked, histories>>
    BY <1>8 DEF Finish, Move
  <2>1. Hop(r) \in Places
    BY <1>0, <2>0, PlaceOfHop DEF Shape
  <2>2. idle' \subseteq idle \cup {[for |-> Hop(r), at |-> conn[r]]}
    BY <1>8 DEF Finish
  <2>3. conn[r] \in IPs /\ (~allowPrivate => conn[r] \in PublicIPs)
    BY <1>0, <2>0 DEF TypeOK, Public, Shape
  <2>4. TypeOK'
    BY <1>0, <2>0, <2>1, <2>2, <2>3 DEF TypeOK
  <2>5. Shape' /\ Tried'
    BY <1>0, <2>0 DEF TypeOK, Shape, Tried
  <2>6. Pinned'
    BY <1>0, <2>0 DEF TypeOK, Pinned, Direct, Proxied
  <2>7. (~allowPrivate => Public)'
    BY <1>0, <2>0, <2>1, <2>2, <2>3 DEF TypeOK, Public
  <2> QED BY <2>4, <2>5, <2>6, <2>7 DEF Inv
<1>9. CASE UNCHANGED vars
  BY <1>0, <1>9 DEF vars, Inv, TypeOK, Shape, Pinned, Direct, Proxied, Public, Tried
<1> QED BY <1>1, <1>2, <1>3, <1>4, <1>5, <1>6, <1>7, <1>8, <1>9 DEF Next

\* The invariant holds in every state.
LEMMA SpecInv == Spec => []Inv
  BY InitInv, StepInv, PTL DEF Spec

\* What the invariant says of addresses.
LEMMA InvImplies == Inv => OnlyPublicReached /\ DialsWhatWasApproved
  BY DEF Inv, Public, Pinned, Direct, OnlyPublicReached, DialsWhatWasApproved

\* The state of the requests is well formed (approve, dialApproved and the
\* transport's DialContext), with private destinations allowed or not.
THEOREM Types == Spec => []TypeOK
  BY SpecInv, PTL DEF Inv

\* Without allow_private_destinations only public addresses are dialled or
\* used, whatever the resolver answers (approve, dialApproved, DialContext).
THEOREM OnlyPublic == Spec => []OnlyPublicReached
  BY SpecInv, InvImplies, PTL

\* A direct dial tries addresses approved for its own request (DialContext
\* and dialApprovedUpstream use the approvedDestination).
THEOREM DialsApprovedOnly == Spec => []DialsWhatWasApproved
  BY SpecInv, InvImplies, PTL

\* No address of the answer a dial rests on is lost between approve and
\* dialApproved: a failure means that all were dialled or the context ended.
THEOREM TriesAll == Spec => []EveryAddressTried
<1>1. Inv => EveryAddressTried
  BY DEF Inv, Tried, EveryAddressTried
<1> QED BY <1>1, SpecInv, PTL

\* A request that got past approve, and any connection, is for an open port.
PortInv ==
    \A r \in Requests :
        stage[r] \in {"connect", "dial", "connected"} \/ conn[r] # None =>
            target[r].port \notin BlockedPorts

\* approve looks at the port first, so a blocked one is always denied.
LEMMA BlockedIsDenied ==
    ASSUME NEW t \in Places, t.port \in BlockedPorts, NEW v \in Approve(t)
    PROVE  v.err = "denied"
  BY Refusals DEF Approve

\* Every step keeps requests to blocked ports out.
LEMMA StepPortInv ==
    ASSUME TypeOK, Shape, PortInv, [Next]_vars
    PROVE  PortInv'
<1>1. ASSUME NEW r \in Requests, NEW k \in {"connect", "http"}, NEW t \in Targets, Begin(r, k, t)
      PROVE  PortInv'
  BY <1>1 DEF TypeOK, Shape, PortInv, Begin, Move
<1>2. ASSUME NEW r \in Requests, ApproveDestination(r)
      PROVE  PortInv'
  <2>1. PICK v \in Approve(target[r]) :
          stage' = [stage EXCEPT ![r] = IF v.err = "none" THEN "connect" ELSE "done"]
    BY <1>2 DEF ApproveDestination
  <2>2. stage[r] = "approve" /\ UNCHANGED <<target, conn>>
    BY <1>2 DEF ApproveDestination
  <2>3. v.err = "none" => target[r].port \notin BlockedPorts
    BY <2>2, BlockedIsDenied DEF Shape, TypeOK
  <2> QED BY <2>1, <2>2, <2>3 DEF TypeOK, PortInv
<1>3. ASSUME NEW r \in Requests, Connect(r)
      PROVE  PortInv'
  BY <1>3 DEF TypeOK, PortInv, Connect
<1>4. ASSUME NEW r \in Requests, NEW c \in idle, Reuse(r, c)
      PROVE  PortInv'
  BY <1>4 DEF TypeOK, PortInv, Reuse, Move
<1>5. ASSUME NEW r \in Requests, DialOK(r)
      PROVE  PortInv'
  BY <1>5 DEF TypeOK, PortInv, DialOK, Move
<1>6. ASSUME NEW r \in Requests, DialFails(r)
      PROVE  PortInv'
  BY <1>6 DEF TypeOK, PortInv, DialFails
<1>7. ASSUME NEW r \in Requests, ContextEnds(r)
      PROVE  PortInv'
  BY <1>7 DEF TypeOK, PortInv, ContextEnds
<1>8. ASSUME NEW r \in Requests, Finish(r)
      PROVE  PortInv'
  BY <1>8 DEF TypeOK, PortInv, Finish, Move
<1>9. CASE UNCHANGED vars
  BY <1>9 DEF PortInv, vars
<1> QED BY <1>1, <1>2, <1>3, <1>4, <1>5, <1>6, <1>7, <1>8, <1>9 DEF Next

\* No request reaches a blocked port, also with private destinations allowed:
\* approve looks at the port before it returns early.
THEOREM PortsStayBlocked == Spec => []BlockedPortsUnreached
<1>1. Init => PortInv
  BY DEF Init, PortInv
<1>2. Inv /\ PortInv /\ [Next]_vars => PortInv'
  BY StepPortInv DEF Inv
<1>3. PortInv => BlockedPortsUnreached
  BY DEF PortInv, BlockedPortsUnreached
<1> QED BY <1>1, <1>2, <1>3, SpecInv, PTL DEF Spec
==============================================================================
