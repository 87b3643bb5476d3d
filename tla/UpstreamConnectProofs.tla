------------------------ MODULE UpstreamConnectProofs ------------------------
(***************************************************************************)
(* The connection a CONNECT set-up hands out is usable, errors leave none  *)
(* behind, and the reported cause is the real one: proofs for every header *)
(* limit and every sequence the upstream may send.                         *)
(***************************************************************************)
EXTENDS UpstreamConnect, TLAPS

\* What holds at each stage of the handler.
StageShape ==
    /\ pc \in {"select", "dial"} => sock = "none" /\ deadline = "none" /\ setup = "none"
    /\ pc = "arm" => sock = "open" /\ deadline = "none" /\ setup = "none"
    /\ pc \in Exchange \cup {"stop"} => sock = "open" /\ callback \in {"armed", "running", "ran"}
    /\ pc = "conclude" => sock = "open" /\ callback = "stopped"
    /\ (result = "none") <=> (pc \notin {"return", "done"})
    /\ pc \in {"arm", "stop", "conclude"} \cup Exchange => hop # "direct"

\* How the context, its callback and the deadline hang together.
ContextShape ==
    /\ (setup = "none" /\ pc # "done") <=> (callback = "none" /\ pc # "done")
    /\ callback \in {"running", "ran"} => setup \in Ended
    /\ callback = "armed" => pc # "done"
    /\ setup = "timeout" => ranOut
    /\ setup = "canceled" /\ pc # "done" => cancelled
    /\ setup \in {"none", "live"} /\ deadline = "past" => ranOut
    /\ pc \in Exchange => deadline # "none"
    /\ pc \in Exchange /\ callback = "ran" => deadline = "past"

Inv == TypeOK /\ StageShape /\ ContextShape /\ HandedOutClean /\ FailureCloses /\ BlameIsRight

\* A set-up that has not begun satisfies the invariant.
LEMMA InitInv == Init => Inv
<1> SUFFICES ASSUME Init PROVE Inv
  OBVIOUS
<1>1. TypeOK
  <2>1. sent \in Seq(Pieces) /\ got \in 0 .. Len(sent) /\ used \in 0 .. got
    BY DEF Init
  <2> QED BY <2>1 DEF Init, TypeOK
<1>2. StageShape /\ ContextShape
  BY DEF Init, StageShape, ContextShape, Exchange, Ended
<1>3. HandedOutClean /\ FailureCloses /\ BlameIsRight
  BY DEF Init, HandedOutClean, FailureCloses, BlameIsRight, Errors, Ended
<1> QED BY <1>1, <1>2, <1>3 DEF Inv

\* The error path of the exchange.
LEMMA FailStep ==
    ASSUME Inv, NEW err \in {"failed", "timeout", "canceled"}, Fail(err),
           pc \in Exchange \cup {"arm", "stop"},
           err = "timeout" => ranOut' \/ setup \in Ended,
           err = "canceled" => setup \in Ended,
           setup' = setup, callback' = callback, cancelled' = cancelled, hop' = hop,
           sent' = sent, peer' = peer, got' \in 0 .. Len(sent), used' \in 0 .. got',
           ranOut' \in BOOLEAN, ranOut => ranOut'
    PROVE  Inv'
  BY DEF Inv, TypeOK, StageShape, ContextShape, HandedOutClean, FailureCloses,
      BlameIsRight, Exchange, Ended, Errors, Pieces, Fail

\* Every step keeps the invariant, one case per action.
LEMMA StepInv == Inv /\ [Next]_vars => Inv'
<1> SUFFICES ASSUME Inv, [Next]_vars PROVE Inv'
  OBVIOUS
<1> USE UpstreamAssumption
<1> USE DEF Inv, TypeOK, StageShape, ContextShape, HandedOutClean, FailureCloses,
            BlameIsRight, Exchange, Ended, Errors, peerVars
<1>1. CASE Select
  BY <1>1 DEF Select, GiveUp, Selections
<1>2. CASE Dial
  BY <1>2 DEF Dial, GiveUp
<1>3. CASE Arm
  <2>1. CASE Fail("failed") /\ UNCHANGED <<setup, callback>>
    BY <1>3, <2>1, FailStep DEF Arm
  <2>2. CASE ~Fail("failed") \/ ~UNCHANGED <<setup, callback>>
    BY <1>3, <2>2 DEF Arm
  <2> QED BY <2>1, <2>2
<1>4. CASE HandshakeOrWrite
  BY <1>4 DEF HandshakeOrWrite, Usable, Goto
<1>5. CASE Fill
  BY <1>5 DEF Fill, Usable
<1>6. CASE ReadLine
  <2>0. used' \in 0 .. got' /\ got' \in 0 .. Len(sent)
    BY <1>6 DEF ReadLine
  <2>1. CASE Fail("failed")
    BY <1>6, <2>0, <2>1, FailStep DEF ReadLine
  <2>2. CASE ~Fail("failed")
    <3>1. pc' \in {pc, "headers", "stop"} /\ UNCHANGED <<sock, deadline, result>>
      BY <1>6, <2>2 DEF ReadLine
    <3> QED BY <1>6, <2>0, <3>1 DEF ReadLine
  <2> QED BY <2>1, <2>2
<1>7. CASE IOTimeout
  BY <1>7, FailStep DEF IOTimeout, Blocked
<1>8. CASE IOError
  BY <1>8, FailStep DEF IOError, Blocked
<1>9. CASE HandshakeInterrupted
  BY <1>9, FailStep DEF HandshakeInterrupted
<1>10. CASE Stop
  <2>1. CASE callback = "armed"
    BY <1>10, <2>1 DEF Stop
  <2>2. CASE callback # "armed"
    BY <1>10, <2>2, FailStep DEF Stop
  <2> QED BY <2>1, <2>2
<1>11. CASE Conclude
  BY <1>11 DEF Conclude, Closing, Goto
<1>12. CASE Unwind
  BY <1>12 DEF Unwind, Goto
<1>13. CASE StartCallback \/ RunCallback
  BY <1>13 DEF StartCallback, RunCallback
<1>14. CASE DeadlinePasses \/ SetupTimeout
  <2>1. CASE DeadlinePasses
    BY <2>1 DEF DeadlinePasses
  <2>2. CASE SetupTimeout
    BY <2>2 DEF SetupTimeout
  <2> QED BY <1>14, <2>1, <2>2
<1>15. CASE ClientCancels
  BY <1>15 DEF ClientCancels
<1>16. CASE UpstreamSends \/ UpstreamCloses
  <2>1. sent' \in Seq(Pieces) /\ got \in 0 .. Len(sent')
    BY <1>16 DEF UpstreamSends, UpstreamCloses
  <2> QED BY <1>16, <2>1 DEF UpstreamSends, UpstreamCloses
<1>17. CASE UNCHANGED vars
  BY <1>17 DEF vars
<1> QED
  BY <1>1, <1>2, <1>3, <1>4, <1>5, <1>6, <1>7, <1>8, <1>9, <1>10, <1>11, <1>12,
     <1>13, <1>14, <1>15, <1>16, <1>17 DEF Next, Handler

\* The invariant holds in every state.
LEMMA SpecInv == Spec => []Inv
  BY InitInv, StepInv, PTL DEF Spec

\* Every variable of dialApprovedUpstream keeps its type: the parsed pieces
\* are among the buffered ones, those among the ones sent, and an error return
\* has an error.
THEOREM Types == Spec => []TypeOK
  BY SpecInv, PTL DEF Inv

\* A timeout is reported only if a timer ran out, a cancellation only if the
\* client went away (the causes dialApprovedUpstream puts in its errors).
THEOREM Blame == Spec => []BlameIsRight
  BY SpecInv, PTL DEF Inv
------------------------------------------------------------------------------
(* The parser of the upstream's answer.                                    *)
StatusAt(k) == sent[k] \in {"ok", "refused"} /\ \A j \in 1 .. k - 1 : sent[j] = "part"
NoEnd(k, n) == \A i \in k + 1 .. n : sent[i] = "empty" => sent[i - 1] = "part"
EndsAfter(k) ==
    /\ used > k /\ sent[used] = "empty" /\ sent[used - 1] # "part"
    /\ NoEnd(k, used - 1)

HeaderShape ==
    /\ pc \in {"select", "dial", "arm", "handshake", "write"} => got = 0
    /\ pc \in {"status", "headers", "stop", "conclude"} => used <= HeaderLimit
    /\ pc = "status" => \A i \in 1 .. used : sent[i] = "part"
    /\ pc = "headers" => \E k \in 1 .. used : StatusAt(k) /\ NoEnd(k, used)
    /\ pc \in {"stop", "conclude"} => \E k \in 1 .. used : StatusAt(k) /\ EndsAfter(k)
    /\ result = "conn" /\ hop # "direct" =>
          /\ used <= HeaderLimit
          /\ \E k \in 1 .. used : StatusAt(k) /\ sent[k] = "ok" /\ EndsAfter(k)

\* The status line is the first complete line.
LEMMA AnswerIsStatus ==
    ASSUME TypeOK, NEW k \in 1 .. used, StatusAt(k)
    PROVE  Answer = sent[k]
<1> DEFINE P(i) == sent[i] # "part" /\ \A j \in 1 .. i - 1 : sent[j] = "part"
<1>1. k \in 1 .. used /\ P(k)
  BY DEF StatusAt
<1>2. \A i \in 1 .. used : P(i) => i = k
  <2> SUFFICES ASSUME NEW i \in 1 .. used, P(i), i # k PROVE FALSE
    OBVIOUS
  <2>1. i \in Int /\ k \in Int
    BY DEF TypeOK
  <2>2. CASE i < k
    BY <1>1, <2>1, <2>2
  <2>3. CASE k < i
    BY <1>1, <2>1, <2>3
  <2> QED BY <2>1, <2>2, <2>3
<1>3. (CHOOSE i \in 1 .. used : P(i)) = k
  BY <1>1, <1>2
<1> QED BY <1>3 DEF Answer

\* A step that leaves the parsed pieces alone leaves the shape alone.
LEMMA SameHeader ==
    ASSUME TypeOK, HeaderShape, pc' = pc, used' = used, got' \in Nat,
           pc \in {"select", "dial", "arm", "handshake", "write"} => got' = 0,
           result' = result, hop' = hop,
           \A i \in 1 .. used : sent'[i] = sent[i]
    PROVE  HeaderShape'
<1>0. used \in Nat
  BY DEF TypeOK
<1>1. ASSUME NEW k \in 1 .. used
      PROVE  /\ StatusAt(k) => StatusAt(k)'
             /\ NoEnd(k, used) => NoEnd(k, used)'
             /\ EndsAfter(k) => EndsAfter(k)'
             /\ sent[k] = "ok" => sent'[k] = "ok"
  <2>1. StatusAt(k) => StatusAt(k)'
    BY <1>0 DEF StatusAt
  <2>2. NoEnd(k, used) => NoEnd(k, used)'
    BY <1>0 DEF NoEnd
  <2>3. EndsAfter(k) => EndsAfter(k)'
    BY <1>0 DEF EndsAfter, NoEnd
  <2> QED BY <2>1, <2>2, <2>3
<1>2. (pc = "status" => \A i \in 1 .. used : sent[i] = "part")'
  BY <1>0 DEF HeaderShape
<1>3. (pc = "headers" => \E k \in 1 .. used : StatusAt(k) /\ NoEnd(k, used))'
  BY <1>1 DEF HeaderShape
<1>4. (pc \in {"stop", "conclude"} => \E k \in 1 .. used : StatusAt(k) /\ EndsAfter(k))'
  BY <1>1 DEF HeaderShape
<1>5. (result = "conn" /\ hop # "direct" =>
          \E k \in 1 .. used : StatusAt(k) /\ sent[k] = "ok" /\ EndsAfter(k))'
  BY <1>1 DEF HeaderShape
<1> QED BY <1>2, <1>3, <1>4, <1>5 DEF HeaderShape

\* Every step keeps what the parser has seen in order.
LEMMA StepHeader == Inv /\ HeaderShape /\ [Next]_vars => HeaderShape'
<1> SUFFICES ASSUME Inv, HeaderShape, [Next]_vars PROVE HeaderShape'
  OBVIOUS
<1>0. TypeOK /\ StageShape /\ HeaderLimit \in Nat
  BY UpstreamAssumption DEF Inv
<1> USE DEF peerVars
<1>1. CASE Select
  BY <1>0, <1>1 DEF Select, GiveUp, HeaderShape, Selections, StageShape, TypeOK, StatusAt, NoEnd, EndsAfter
<1>2. CASE Dial
  BY <1>0, <1>2 DEF Dial, GiveUp, HeaderShape, Errors, Ended, StatusAt, NoEnd, EndsAfter, StageShape
<1>3. CASE Arm
  BY <1>0, <1>3 DEF Arm, Fail, HeaderShape, StageShape, Ended, StatusAt, NoEnd, EndsAfter
<1>4. CASE HandshakeOrWrite
  BY <1>0, <1>4 DEF HandshakeOrWrite, Goto, HeaderShape, StageShape, TypeOK
<1>5. CASE Fill
  BY <1>0, <1>5, SameHeader DEF Fill, TypeOK
<1>6. CASE ReadLine
  <2>1. CASE Fail("failed")
    BY <1>0, <1>6, <2>1 DEF ReadLine, Fail, HeaderShape, Ended
  <2>2. CASE ~Fail("failed")
    <3> DEFINE piece == sent[used + 1]
    <3>1. /\ used' = used + 1 /\ used' <= HeaderLimit /\ used \in Nat /\ used' \in Nat
          /\ piece \in Pieces /\ UNCHANGED <<sent, result, hop>> /\ result = "none"
          /\ pc' = IF piece = "part" THEN pc
                   ELSE IF pc = "headers" /\ piece = "empty" /\ ~Partial THEN "stop"
                   ELSE "headers"
          /\ pc = "status" => piece \notin {"line", "empty"}
          /\ pc \in {"status", "headers"}
      BY <1>0, <1>6, <2>2 DEF ReadLine, TypeOK, StageShape
    <3>2. CASE pc = "status" /\ piece = "part"
      BY <3>1, <3>2 DEF HeaderShape
    <3>3. CASE pc = "status" /\ piece # "part"
      <4>1. piece \in {"ok", "refused"} /\ pc' = "headers"
        BY <3>1, <3>3 DEF Pieces
      <4>2. PICK k \in Nat : k = used + 1
        BY <3>1
      <4>3. StatusAt(k)' /\ NoEnd(k, used)' /\ k \in 1 .. used'
        BY <3>1, <3>3, <4>1, <4>2 DEF HeaderShape, StatusAt, NoEnd
      <4> QED BY <3>1, <4>1, <4>2, <4>3 DEF HeaderShape
    <3>4. CASE pc = "headers"
      <4>1. PICK k \in 1 .. used : StatusAt(k) /\ NoEnd(k, used)
        BY <3>4 DEF HeaderShape
      <4>2. StatusAt(k)' /\ k \in 1 .. used'
        BY <3>1, <4>1 DEF StatusAt
      <4>3. CASE piece = "empty" /\ ~Partial
        <5>1. used > 0 /\ sent[used] # "part"
          BY <3>1, <4>1, <4>3 DEF Partial
        <5>2. EndsAfter(k)'
          BY <3>1, <4>1, <4>3, <5>1 DEF EndsAfter, NoEnd
        <5>3. pc' = "stop"
          BY <3>1, <3>4, <4>3
        <5> QED BY <3>1, <4>2, <5>2, <5>3 DEF HeaderShape
      <4>4. CASE ~(piece = "empty" /\ ~Partial)
        <5>1. pc' = "headers"
          BY <3>1, <3>4, <4>4
        <5>2. NoEnd(k, used)'
          BY <3>1, <4>1, <4>4 DEF NoEnd, Partial
        <5> QED BY <3>1, <4>2, <5>1, <5>2 DEF HeaderShape
      <4> QED BY <4>3, <4>4
    <3> QED BY <3>1, <3>2, <3>3, <3>4
  <2> QED BY <2>1, <2>2
<1>7. CASE IOTimeout \/ IOError \/ HandshakeInterrupted
  BY <1>0, <1>7 DEF IOTimeout, IOError, HandshakeInterrupted, Fail, HeaderShape, Ended
<1>8. CASE Stop
  BY <1>0, <1>8 DEF Stop, Fail, HeaderShape, Ended, StageShape, StatusAt, EndsAfter, NoEnd
<1>9. CASE Conclude
  <2>1. PICK k \in 1 .. used : StatusAt(k) /\ EndsAfter(k)
    BY <1>9 DEF Conclude, Goto, HeaderShape
  <2>2. Answer = sent[k]
    BY <1>0, <2>1, AnswerIsStatus
  <2>3. StatusAt(k)' /\ EndsAfter(k)' /\ k \in 1 .. used' /\ used' <= HeaderLimit
    BY <1>9, <2>1 DEF Conclude, Goto, HeaderShape, StatusAt, EndsAfter, NoEnd
  <2> QED BY <1>9, <2>2, <2>3 DEF Conclude, Goto, Closing, HeaderShape
<1>10. CASE Unwind
  BY <1>0, <1>10 DEF Unwind, Goto, HeaderShape, StatusAt, EndsAfter, NoEnd
<1>11. CASE UpstreamSends
  <2>1. \A i \in 1 .. used : sent'[i] = sent[i]
    BY <1>0, <1>11 DEF UpstreamSends, TypeOK
  <2>2. /\ pc' = pc /\ used' = used /\ got' = got /\ result' = result /\ hop' = hop
        /\ got \in Nat
    BY <1>0, <1>11 DEF UpstreamSends, TypeOK
  <2>3. pc \in {"select", "dial", "arm", "handshake", "write"} => got' = 0
    BY <2>2 DEF HeaderShape
  <2> QED BY <1>0, <2>1, <2>2, <2>3, SameHeader
<1>12. CASE \/ StartCallback \/ RunCallback \/ DeadlinePasses \/ SetupTimeout
            \/ ClientCancels \/ UpstreamCloses \/ UNCHANGED vars
  <2>1. /\ pc' = pc /\ used' = used /\ got' = got /\ result' = result /\ hop' = hop
        /\ sent' = sent /\ got \in Nat
    BY <1>0, <1>12 DEF StartCallback, RunCallback, DeadlinePasses, SetupTimeout,
        ClientCancels, UpstreamCloses, vars, TypeOK
  <2>3. pc \in {"select", "dial", "arm", "handshake", "write"} => got' = 0
    BY <2>1 DEF HeaderShape
  <2> QED BY <1>0, <2>1, <2>3, SameHeader
<1> QED
  BY <1>1, <1>2, <1>3, <1>4, <1>5, <1>6, <1>7, <1>8, <1>9, <1>10, <1>11, <1>12
  DEF Next, Handler

\* A header that ended is a header before the tunnel.
LEMMA HeaderImplies == Inv /\ HeaderShape => TunnelStartsAfterHeader
<1> SUFFICES ASSUME Inv, HeaderShape, result = "conn", hop # "direct"
             PROVE  /\ used \in 2 .. HeaderLimit
                    /\ Answer = "ok"
                    /\ sent[used] = "empty" /\ sent[used - 1] # "part"
                    /\ \A i \in 2 .. used - 1 : sent[i] = "empty" => sent[i - 1] = "part"
  BY DEF TunnelStartsAfterHeader
<1>0. TypeOK
  BY DEF Inv
<1>1. PICK k \in 1 .. used : StatusAt(k) /\ sent[k] = "ok" /\ EndsAfter(k)
  BY DEF HeaderShape
<1>2. Answer = "ok"
  BY <1>0, <1>1, AnswerIsStatus
<1>3. used \in Int /\ k \in Int /\ HeaderLimit \in Int /\ used <= HeaderLimit
  BY <1>0, UpstreamAssumption DEF TypeOK, HeaderShape
<1>4. \A i \in 2 .. used - 1 : sent[i] = "empty" => sent[i - 1] = "part"
  BY <1>1, <1>3 DEF StatusAt, EndsAfter, NoEnd
<1> QED BY <1>1, <1>2, <1>3, <1>4 DEF EndsAfter

\* The relay of a tunnel through an upstream starts with the byte after the
\* header of a 200 answer within the limit (readConnectResponse and the
\* BufferedConn of dialApprovedUpstream), whatever the upstream sends.
THEOREM StartsAfterHeader == Spec => []TunnelStartsAfterHeader
<1>1. Init => HeaderShape
  BY DEF Init, HeaderShape
<1> QED BY <1>1, SpecInv, StepHeader, HeaderImplies, PTL DEF Spec

\* At no point of the exchange can the upstream hold the handler for good (the
\* state half of SetupEnds); a connection dialApprovedUpstream hands out is
\* open, without a deadline and without a callback that may set one; an error
\* return has closed its own.
THEOREM ConnectionAlwaysSound == Spec => []ConnectionSound
<1>1. Init => HeaderShape
  BY DEF Init, HeaderShape
<1>2. Inv /\ HeaderShape => AlwaysInterruptible
  <2> SUFFICES ASSUME Inv, HeaderShape, pc \in Exchange PROVE AlwaysInterruptible
    BY DEF AlwaysInterruptible
  <2>1. used <= HeaderLimit
    <3>1. CASE pc \in {"handshake", "write"}
      BY <3>1, UpstreamAssumption DEF Inv, TypeOK, HeaderShape
    <3>2. CASE pc \in {"status", "headers"}
      BY <3>2 DEF HeaderShape
    <3> QED BY <3>1, <3>2 DEF Exchange
  <2>2. callback \in {"armed", "running", "ran"} /\ deadline # "none"
    BY DEF Inv, StageShape, ContextShape
  <2>3. callback = "ran" => deadline = "past"
    BY DEF Inv, ContextShape
  <2> QED BY <2>1, <2>2, <2>3 DEF AlwaysInterruptible
<1>3. Inv /\ HeaderShape => ConnectionSound
  BY <1>2 DEF Inv, ConnectionSound, OutcomeClean
<1> QED BY <1>1, <1>3, SpecInv, StepHeader, PTL DEF Spec
==============================================================================
