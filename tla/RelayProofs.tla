----------------------------- MODULE RelayProofs -----------------------------
(***************************************************************************)
(* The safety properties of Relay for every timeout, any number of late    *)
(* callbacks and both kinds of relay.                                      *)
(***************************************************************************)
EXTENDS RelayActivity, TLAPS

(* The results channel holds what the copies have sent and the main        *)
(* goroutine has not received: never more than its capacity.               *)
SentBy(d) == IF pc[d] = "gone" THEN 1 ELSE 0

Received ==
    CASE main \in {"new", "armed", "first"}            -> 0
      [] main \in {"cutClient", "cutDest", "second"}   -> 1
      [] main \in {"stop", "returned"}                 -> 2

ChannelInv ==
    /\ SentBy("up") + SentBy("down") = Len(results) + Received
    /\ main \in {"new", "armed"} => \A d \in Dirs : pc[d] = "none"

(* The timer runs, or its callback is on its way, from Arm until the       *)
(* controller is stopped; before controller.timer is assigned it runs no   *)
(* shorter than the time that is left since lastTouch.                     *)
TimerInv ==
    /\ main = "new" => left = Off /\ callbacks = 0 /\ ~stopped
    /\ main # "new" /\ ~stopped => left # Off \/ callbacks > 0
    /\ main = "armed" /\ ~stopped =>
          /\ left # Off => age + left >= Timeout
          /\ callbacks > 0 => age = Timeout
    /\ main = "returned" => stopped

(* Something other than a clean end has happened. *)
Cause == lost # {} \/ onTimeout # "none" \/ closeAll # "none"

CauseInv ==
    /\ \A e \in Ends : cut[e] # "open" => Cause
    /\ \A d \in Dirs : err[d] = "error" => Cause
    /\ \A i \in 1 .. Len(results) : results[i] = "error" => Cause
    /\ main \in {"cutClient", "cutDest"} => Cause

(* The inductive invariant. *)
Inv == TypeOK /\ ChannelInv /\ TimerInv /\ CauseInv

(* The first state satisfies the invariant. *)
LEMMA InitInv == Init => Inv
<1> SUFFICES ASSUME Init PROVE Inv
  OBVIOUS
<1> USE RelayAssumption DEF Init, Dirs, Ends, Off, Results
<1>1. TypeOK
  <2>1. results \in Seq(Results) /\ Len(results) = 0
    OBVIOUS
  <2>2. buffered \in BOOLEAN
    OBVIOUS
  <2>3. /\ err \in [Dirs -> Results] /\ stopped \in BOOLEAN
        /\ pc \in [Dirs -> {"none", "read", "touch", "write", "half", "send", "gone"}]
        /\ cut \in [Ends -> {"open", "deadline", "closed"}]
    OBVIOUS
  <2>4. QED BY <2>1, <2>2, <2>3 DEF TypeOK, Closing
<1>2. ChannelInv
  BY DEF ChannelInv, SentBy, Received
<1>3. TimerInv
  BY DEF TimerInv
<1>4. CauseInv
  BY DEF CauseInv
<1>5. QED BY <1>1, <1>2, <1>3, <1>4 DEF Inv

(* Every step keeps the types; the channel never needs more room than it   *)
(* has, so no copy goroutine is left behind in its send.                   *)
LEMMA StepTypeOK ==
  ASSUME Inv, [Next]_vars
  PROVE  TypeOK'
<1> USE RelayAssumption
<1> USE DEF Inv, TypeOK, Closing, ChannelInv, SentBy, Received, Dirs, Ends, Off, Results,
            copyVars, timerVars, CopyOnly, Close, Source, Sink, ReadFails, WriteFails
<1>1. CASE Arm
  BY <1>1 DEF Arm
<1>2. CASE Spawn
  BY <1>2 DEF Spawn
<1>3. CASE FirstResult
  <2>1. /\ results # << >> /\ results \in Seq(Results)
        /\ results' = Tail(results) /\ Head(results) = results[1]
    BY <1>3 DEF FirstResult
  <2>2. /\ Tail(results) \in Seq(Results) /\ Len(Tail(results)) = Len(results) - 1
        /\ \A i \in 1 .. Len(Tail(results)) : Tail(results)[i] = results[i + 1]
    BY <2>1
  <2>3. CASE Head(results) = "error"
    <3>1. main' = "cutClient"
      BY <1>3, <2>3 DEF FirstResult
    <3>2. QED BY <1>3, <2>1, <2>2, <2>3, <3>1 DEF FirstResult
  <2>4. CASE Head(results) # "error"
    <3>1. main' = "second"
      BY <1>3, <2>4 DEF FirstResult
    <3>2. QED BY <1>3, <2>1, <2>2, <3>1 DEF FirstResult
  <2>5. QED BY <2>3, <2>4
<1>4. CASE CutOther
  BY <1>4 DEF CutOther
<1>5. CASE SecondResult
  BY <1>5 DEF SecondResult
<1>6. CASE Stop
  BY <1>6 DEF Stop
<1>7. ASSUME NEW d \in Dirs, Touch(d) PROVE TypeOK'
  BY <1>7 DEF Touch
<1>8. ASSUME NEW d \in Dirs, HalfClose(d) PROVE TypeOK'
  BY <1>8 DEF HalfClose
<1>9. ASSUME NEW d \in Dirs, Send(d) PROVE TypeOK'
  BY <1>9 DEF Send
<1>10. ASSUME NEW d \in Dirs, CopyFails(d) PROVE TypeOK'
  BY <1>10 DEF CopyFails
<1>11. ASSUME NEW d \in Dirs, Read(d) PROVE TypeOK'
  BY <1>11 DEF Read
<1>12. ASSUME NEW d \in Dirs, Write(d) PROVE TypeOK'
  BY <1>12 DEF Write
<1>13. ASSUME NEW d \in Dirs, ReadEOF(d) PROVE TypeOK'
  BY <1>13 DEF ReadEOF
<1>14. CASE Tick
  BY <1>14 DEF Tick
<1>15. CASE Expire
  <2>1. /\ callbacks' \in 0 .. MaxCallbacks
        /\ left' \in 0 .. Timeout
        /\ onTimeout' \in {"none", "client", "dest", "done"}
    BY <1>15 DEF Expire
  <2>2. stopped' \in BOOLEAN
    BY <1>15 DEF Expire
  <2>3. UNCHANGED <<mode, main, copyVars, cut, lost, buffered, age, closeAll>>
    BY <1>15 DEF Expire
  <2>4. QED BY <2>1, <2>2, <2>3
<1>16. CASE TimeoutCloses
  BY <1>16 DEF TimeoutCloses
<1>17. CASE CloseAllBegins
  BY <1>17 DEF CloseAllBegins
<1>18. CASE CloseAllCloses
  BY <1>18 DEF CloseAllCloses
<1>19. ASSUME NEW e \in Ends, PeerLost(e) PROVE TypeOK'
  BY <1>19 DEF PeerLost
<1>20. CASE UNCHANGED vars
  BY <1>20 DEF vars
<1>21. QED
  BY <1>1, <1>2, <1>3, <1>4, <1>5, <1>6, <1>7, <1>8, <1>9, <1>10, <1>11, <1>12, <1>13, <1>14, <1>15, <1>16, <1>17, <1>18, <1>19, <1>20 DEF Next, Others, MainRuns, CopyRuns

(* Every step keeps the count of the results. *)
LEMMA StepChannelInv ==
  ASSUME Inv, [Next]_vars
  PROVE  ChannelInv'
<1> USE RelayAssumption
<1> USE DEF Inv, ChannelInv, TypeOK, SentBy, Received, Dirs, Ends, Off, Results,
            copyVars, timerVars, CopyOnly, Close, Source, Sink, ReadFails, WriteFails
<1>1. CASE Arm
  BY <1>1 DEF Arm
<1>2. CASE Spawn
  BY <1>2 DEF Spawn
<1>3. CASE FirstResult
  <2>1. /\ results # << >> /\ results \in Seq(Results)
        /\ results' = Tail(results) /\ Head(results) = results[1]
    BY <1>3 DEF FirstResult
  <2>2. /\ Tail(results) \in Seq(Results) /\ Len(Tail(results)) = Len(results) - 1
        /\ \A i \in 1 .. Len(Tail(results)) : Tail(results)[i] = results[i + 1]
    BY <2>1
  <2>3. CASE Head(results) = "error"
    <3>1. main' = "cutClient"
      BY <1>3, <2>3 DEF FirstResult
    <3>2. QED BY <1>3, <2>1, <2>2, <2>3, <3>1 DEF FirstResult
  <2>4. CASE Head(results) # "error"
    <3>1. main' = "second"
      BY <1>3, <2>4 DEF FirstResult
    <3>2. QED BY <1>3, <2>1, <2>2, <3>1 DEF FirstResult
  <2>5. QED BY <2>3, <2>4
<1>4. CASE CutOther
  BY <1>4 DEF CutOther
<1>5. CASE SecondResult
  BY <1>5 DEF SecondResult
<1>6. CASE Stop
  BY <1>6 DEF Stop
<1>7. ASSUME NEW d \in Dirs, Touch(d) PROVE ChannelInv'
  BY <1>7 DEF Touch
<1>8. ASSUME NEW d \in Dirs, HalfClose(d) PROVE ChannelInv'
  BY <1>8 DEF HalfClose
<1>9. ASSUME NEW d \in Dirs, Send(d) PROVE ChannelInv'
  BY <1>9 DEF Send
<1>10. ASSUME NEW d \in Dirs, CopyFails(d) PROVE ChannelInv'
  BY <1>10 DEF CopyFails
<1>11. ASSUME NEW d \in Dirs, Read(d) PROVE ChannelInv'
  BY <1>11 DEF Read
<1>12. ASSUME NEW d \in Dirs, Write(d) PROVE ChannelInv'
  BY <1>12 DEF Write
<1>13. ASSUME NEW d \in Dirs, ReadEOF(d) PROVE ChannelInv'
  BY <1>13 DEF ReadEOF
<1>14. CASE Tick
  BY <1>14 DEF Tick
<1>15. CASE Expire
  BY <1>15 DEF Expire
<1>16. CASE TimeoutCloses
  BY <1>16 DEF TimeoutCloses
<1>17. CASE CloseAllBegins
  BY <1>17 DEF CloseAllBegins
<1>18. CASE CloseAllCloses
  BY <1>18 DEF CloseAllCloses
<1>19. ASSUME NEW e \in Ends, PeerLost(e) PROVE ChannelInv'
  BY <1>19 DEF PeerLost
<1>20. CASE UNCHANGED vars
  BY <1>20 DEF vars
<1>21. QED
  BY <1>1, <1>2, <1>3, <1>4, <1>5, <1>6, <1>7, <1>8, <1>9, <1>10, <1>11, <1>12, <1>13, <1>14, <1>15, <1>16, <1>17, <1>18, <1>19, <1>20 DEF Next, Others, MainRuns, CopyRuns

(* Every step keeps the timer alive. *)
LEMMA StepTimerInv ==
  ASSUME Inv, [Next]_vars
  PROVE  TimerInv'
<1> USE RelayAssumption
<1> USE DEF Inv, TimerInv, TypeOK, ChannelInv, Dirs, Ends, Off, Results,
            copyVars, timerVars, CopyOnly, Close, Source, Sink, ReadFails, WriteFails
<1>1. CASE Arm
  BY <1>1 DEF Arm
<1>2. CASE Spawn
  BY <1>2 DEF Spawn
<1>3. CASE FirstResult
  BY <1>3 DEF FirstResult
<1>4. CASE CutOther
  BY <1>4 DEF CutOther
<1>5. CASE SecondResult
  BY <1>5 DEF SecondResult
<1>6. CASE Stop
  BY <1>6 DEF Stop
<1>7. ASSUME NEW d \in Dirs, Touch(d) PROVE TimerInv'
  BY <1>7 DEF Touch
<1>8. ASSUME NEW d \in Dirs, HalfClose(d) PROVE TimerInv'
  BY <1>8 DEF HalfClose
<1>9. ASSUME NEW d \in Dirs, Send(d) PROVE TimerInv'
  BY <1>9 DEF Send
<1>10. ASSUME NEW d \in Dirs, CopyFails(d) PROVE TimerInv'
  BY <1>10 DEF CopyFails
<1>11. ASSUME NEW d \in Dirs, Read(d) PROVE TimerInv'
  BY <1>11 DEF Read
<1>12. ASSUME NEW d \in Dirs, Write(d) PROVE TimerInv'
  BY <1>12 DEF Write
<1>13. ASSUME NEW d \in Dirs, ReadEOF(d) PROVE TimerInv'
  BY <1>13 DEF ReadEOF
<1>14. CASE Tick
  BY <1>14 DEF Tick
<1>15. CASE Expire
  BY <1>15 DEF Expire
<1>16. CASE TimeoutCloses
  BY <1>16 DEF TimeoutCloses
<1>17. CASE CloseAllBegins
  BY <1>17 DEF CloseAllBegins
<1>18. CASE CloseAllCloses
  BY <1>18 DEF CloseAllCloses
<1>19. ASSUME NEW e \in Ends, PeerLost(e) PROVE TimerInv'
  BY <1>19 DEF PeerLost
<1>20. CASE UNCHANGED vars
  BY <1>20 DEF vars
<1>21. QED
  BY <1>1, <1>2, <1>3, <1>4, <1>5, <1>6, <1>7, <1>8, <1>9, <1>10, <1>11, <1>12, <1>13, <1>14, <1>15, <1>16, <1>17, <1>18, <1>19, <1>20 DEF Next, Others, MainRuns, CopyRuns

(* No step interrupts an end without a cause. *)
LEMMA StepCauseInv ==
  ASSUME Inv, [Next]_vars
  PROVE  CauseInv'
<1> USE RelayAssumption
<1> USE DEF Inv, CauseInv, TypeOK, Cause, Closing, Dirs, Ends, Off, Results,
            copyVars, timerVars, CopyOnly, Close, Source, Sink, ReadFails, WriteFails
<1>1. CASE Arm
  BY <1>1 DEF Arm
<1>2. CASE Spawn
  BY <1>2 DEF Spawn
<1>3. CASE FirstResult
  <2>1. /\ results # << >> /\ results \in Seq(Results)
        /\ results' = Tail(results) /\ Head(results) = results[1]
    BY <1>3 DEF FirstResult
  <2>2. /\ Tail(results) \in Seq(Results) /\ Len(Tail(results)) = Len(results) - 1
        /\ \A i \in 1 .. Len(Tail(results)) : Tail(results)[i] = results[i + 1]
    BY <2>1
  <2>3. CASE Head(results) = "error"
    <3>1. main' = "cutClient"
      BY <1>3, <2>3 DEF FirstResult
    <3>2. QED BY <1>3, <2>1, <2>2, <2>3, <3>1 DEF FirstResult
  <2>4. CASE Head(results) # "error"
    <3>1. main' = "second"
      BY <1>3, <2>4 DEF FirstResult
    <3>2. QED BY <1>3, <2>1, <2>2, <3>1 DEF FirstResult
  <2>5. QED BY <2>3, <2>4
<1>4. CASE CutOther
  BY <1>4 DEF CutOther
<1>5. CASE SecondResult
  BY <1>5 DEF SecondResult
<1>6. CASE Stop
  BY <1>6 DEF Stop
<1>7. ASSUME NEW d \in Dirs, Touch(d) PROVE CauseInv'
  BY <1>7 DEF Touch
<1>8. ASSUME NEW d \in Dirs, HalfClose(d) PROVE CauseInv'
  BY <1>8 DEF HalfClose
<1>9. ASSUME NEW d \in Dirs, Send(d) PROVE CauseInv'
  BY <1>9 DEF Send
<1>10. ASSUME NEW d \in Dirs, CopyFails(d) PROVE CauseInv'
  BY <1>10 DEF CopyFails
<1>11. ASSUME NEW d \in Dirs, Read(d) PROVE CauseInv'
  BY <1>11 DEF Read
<1>12. ASSUME NEW d \in Dirs, Write(d) PROVE CauseInv'
  BY <1>12 DEF Write
<1>13. ASSUME NEW d \in Dirs, ReadEOF(d) PROVE CauseInv'
  BY <1>13 DEF ReadEOF
<1>14. CASE Tick
  BY <1>14 DEF Tick
<1>15. CASE Expire
  BY <1>15 DEF Expire
<1>16. CASE TimeoutCloses
  BY <1>16 DEF TimeoutCloses
<1>17. CASE CloseAllBegins
  BY <1>17 DEF CloseAllBegins
<1>18. CASE CloseAllCloses
  BY <1>18 DEF CloseAllCloses
<1>19. ASSUME NEW e \in Ends, PeerLost(e) PROVE CauseInv'
  BY <1>19 DEF PeerLost
<1>20. CASE UNCHANGED vars
  BY <1>20 DEF vars
<1>21. QED
  BY <1>1, <1>2, <1>3, <1>4, <1>5, <1>6, <1>7, <1>8, <1>9, <1>10, <1>11, <1>12, <1>13, <1>14, <1>15, <1>16, <1>17, <1>18, <1>19, <1>20 DEF Next, Others, MainRuns, CopyRuns

(* The invariant holds in every state. *)
LEMMA Invariance == Spec => []Inv
<1>1. Inv /\ [Next]_vars => Inv'
  BY StepTypeOK, StepChannelInv, StepTimerInv, StepCauseInv DEF Inv
<1>2. QED BY InitInv, <1>1, PTL DEF Spec

(* Every variable keeps its type, and the results fit their channel. *)
THEOREM TypeCorrect == Spec => []TypeOK
<1>1. Inv => TypeOK
  BY DEF Inv
<1>2. QED BY <1>1, Invariance, PTL

(* A clean end of one direction never interrupts the other. *)
THEOREM HalfCloseIsClean == Spec => []HalfCloseKeepsOther
<1>1. Inv => HalfCloseKeepsOther
  BY DEF Inv, CauseInv, Cause, HalfCloseKeepsOther
<1>2. QED BY <1>1, Invariance, PTL

(* Until the controller is stopped, lastTouch is no older than the last    *)
(* bytes read, in a direction that has reported them.                      *)
QuietInv ==
    /\ ActivityTypeOK
    /\ ~stopped => \A d \in Dirs : pc[d] # "touch" => quiet[d] >= age

(* Touch resets the age, whatever the other direction is doing, and the    *)
(* clock moves both on.                                                    *)
LEMMA StepQuietInv ==
  ASSUME Inv, QuietInv, [ActivityNext]_activityVars
  PROVE  QuietInv'
<1> USE RelayAssumption
<1> USE DEF Inv, QuietInv, ActivityTypeOK, TypeOK, ChannelInv, Dirs, copyVars, timerVars, CopyOnly
<1>1. CASE Tick /\ quiet' = [d \in Dirs |-> IF stopped THEN 0 ELSE OneMore(quiet[d])]
  BY <1>1 DEF Tick, OneMore
<1>2. ASSUME NEW d \in Dirs, Read(d), quiet' = [quiet EXCEPT ![d] = 0] PROVE QuietInv'
  BY <1>2 DEF Read
<1>3. ASSUME Others, quiet' = IF stopped' THEN [d \in Dirs |-> 0] ELSE quiet PROVE QuietInv'
  <2>1. CASE Arm
    BY <1>3, <2>1 DEF Arm
  <2>2. CASE Spawn
    BY <1>3, <2>2 DEF Spawn
  <2>3. CASE FirstResult \/ CutOther \/ SecondResult
    BY <1>3, <2>3 DEF FirstResult, CutOther, SecondResult
  <2>4. CASE Stop
    BY <1>3, <2>4 DEF Stop
  <2>5. ASSUME NEW d \in Dirs, Touch(d) PROVE QuietInv'
    BY <1>3, <2>5 DEF Touch
  <2>6. ASSUME NEW d \in Dirs, HalfClose(d) \/ Send(d) \/ CopyFails(d) PROVE QuietInv'
    BY <1>3, <2>6 DEF HalfClose, Send, CopyFails
  <2>7. ASSUME NEW d \in Dirs, Write(d) \/ ReadEOF(d) PROVE QuietInv'
    BY <1>3, <2>7 DEF Write, ReadEOF
  <2>8. CASE Expire
    BY <1>3, <2>8 DEF Expire
  <2>9. CASE TimeoutCloses \/ CloseAllBegins \/ CloseAllCloses
    BY <1>3, <2>9 DEF TimeoutCloses, CloseAllBegins, CloseAllCloses
  <2>10. ASSUME NEW e \in Ends, PeerLost(e) PROVE QuietInv'
    BY <1>3, <2>10 DEF PeerLost
  <2>11. QED
    BY <1>3, <2>1, <2>2, <2>3, <2>4, <2>5, <2>6, <2>7, <2>8, <2>9, <2>10
       DEF Others, MainRuns, CopyRuns
<1>4. CASE UNCHANGED activityVars
  BY <1>4 DEF activityVars, vars
<1>5. QED BY <1>1, <1>2, <1>3, <1>4 DEF ActivityNext

(* The history variable observes a relay and does not disturb it. *)
LEMMA ActivityIsRelay == ActivitySpec => Spec
<1>1. ActivityInit => Init
  BY DEF ActivityInit
<1>2. [ActivityNext]_activityVars => [Next]_vars
  BY DEF ActivityNext, Next, activityVars
<1>3. QED BY <1>1, <1>2, PTL DEF ActivitySpec, Spec

(* No callback, however late, times a tunnel out on which bytes were read  *)
(* within the timeout, once touch knows of them, or a relay that has       *)
(* returned: lastTouch, which expire compares under the mutex, is never    *)
(* older than the last bytes read by a copy that has left its read.        *)
THEOREM TimesOutIdleOnly == ActivitySpec => TimeoutOnlyWhenIdle
<1> DEFINE Idle == main # "returned" /\ \A d \in Dirs : quiet[d] = Timeout \/ pc[d] = "touch"
<1>1. Inv /\ QuietInv /\ [ActivityNext]_activityVars =>
        [onTimeout = "none" /\ onTimeout' # "none" => Idle]_activityVars
  <2> SUFFICES ASSUME Inv, QuietInv, [ActivityNext]_activityVars,
                      onTimeout = "none", onTimeout' # "none"
               PROVE  Idle
    OBVIOUS
  <2>1. [Next]_vars
    BY DEF ActivityNext, Next, activityVars
  <2>2. Expire
    BY <2>1 DEF Next, Others, MainRuns, CopyRuns, vars, copyVars, timerVars,
       CopyOnly, Arm, Spawn, FirstResult, CutOther, SecondResult, Stop, Touch, HalfClose, Send,
       CopyFails, Read, Write, ReadEOF, Tick, TimeoutCloses, CloseAllBegins, CloseAllCloses, PeerLost
  <2>3. ~stopped /\ age = Timeout
    BY <2>2 DEF Expire
  <2>4. main # "returned"
    BY <2>3 DEF Inv, TimerInv
  <2>5. ASSUME NEW d \in Dirs, pc[d] # "touch" PROVE quiet[d] = Timeout
    BY <2>3, <2>5, RelayAssumption DEF QuietInv, ActivityTypeOK
  <2>6. QED BY <2>4, <2>5
<1>2. ActivityInit => QuietInv
  BY RelayAssumption DEF ActivityInit, Init, QuietInv, ActivityTypeOK, Dirs
<1>3. ActivitySpec => []Inv
  BY ActivityIsRelay, Invariance, PTL
<1>4. QED BY <1>1, <1>2, <1>3, StepQuietInv, PTL DEF ActivitySpec, TimeoutOnlyWhenIdle

(* An error has been sent or is about to be; while only one copy is over,  *)
(* its result is the one main has yet to receive or the one main has acted *)
(* on; a controller that was stopped early is closing both ends.           *)
WakeInv ==
    /\ \A d \in Dirs : err[d] = "error" => pc[d] \in {"send", "gone"}
    /\ main = "first" => \A d, o \in Dirs :
          pc[d] = "gone" /\ pc[o] # "gone" => results[1] = err[d]
    /\ main = "cutDest" => cut["client"] # "open"
    /\ main = "second" => \A d, o \in Dirs :
          pc[d] = "gone" /\ pc[o] # "gone" /\ err[d] = "error" => \A e \in Ends : cut[e] # "open"
    /\ stopped /\ main # "returned" => onTimeout # "none"
    /\ onTimeout \in {"dest", "done"} => cut["client"] = "closed"
    /\ onTimeout = "done" => cut["dest"] = "closed"

(* Every step keeps it. *)
LEMMA StepWakeInv ==
  ASSUME Inv, WakeInv, [Next]_vars
  PROVE  WakeInv'
<1> USE RelayAssumption
<1> USE DEF Inv, WakeInv, TypeOK, ChannelInv, SentBy, Received, Closing, Dirs, Ends, Off, Results,
            copyVars, timerVars, CopyOnly, Close, Source, Sink, ReadFails, WriteFails
<1>1. CASE Arm
  BY <1>1 DEF Arm
<1>2. CASE Spawn
  BY <1>2 DEF Spawn
<1>3. CASE FirstResult
  <2>1. /\ results # << >> /\ results \in Seq(Results) /\ Head(results) = results[1]
        /\ UNCHANGED <<pc, err, cut, stopped, onTimeout>>
    BY <1>3 DEF FirstResult
  <2>2. CASE Head(results) = "error"
    BY <1>3, <2>1, <2>2 DEF FirstResult
  <2>3. CASE Head(results) # "error"
    BY <1>3, <2>1, <2>3 DEF FirstResult
  <2>4. QED BY <2>2, <2>3
<1>4. CASE CutOther
  BY <1>4 DEF CutOther
<1>5. CASE SecondResult
  BY <1>5 DEF SecondResult
<1>6. CASE Stop
  BY <1>6 DEF Stop
<1>7. ASSUME NEW d \in Dirs, Touch(d) PROVE WakeInv'
  BY <1>7 DEF Touch
<1>8. ASSUME NEW d \in Dirs, HalfClose(d) PROVE WakeInv'
  BY <1>8 DEF HalfClose
<1>9. ASSUME NEW d \in Dirs, Send(d) PROVE WakeInv'
  BY <1>9 DEF Send
<1>10. ASSUME NEW d \in Dirs, CopyFails(d) PROVE WakeInv'
  BY <1>10 DEF CopyFails
<1>11. ASSUME NEW d \in Dirs, Read(d) PROVE WakeInv'
  BY <1>11 DEF Read
<1>12. ASSUME NEW d \in Dirs, Write(d) PROVE WakeInv'
  BY <1>12 DEF Write
<1>13. ASSUME NEW d \in Dirs, ReadEOF(d) PROVE WakeInv'
  BY <1>13 DEF ReadEOF
<1>14. CASE Tick
  BY <1>14 DEF Tick
<1>15. CASE Expire
  BY <1>15 DEF Expire
<1>16. CASE TimeoutCloses
  BY <1>16 DEF TimeoutCloses
<1>17. CASE CloseAllBegins
  BY <1>17 DEF CloseAllBegins
<1>18. CASE CloseAllCloses
  BY <1>18 DEF CloseAllCloses
<1>19. ASSUME NEW e \in Ends, PeerLost(e) PROVE WakeInv'
  BY <1>19 DEF PeerLost
<1>20. CASE UNCHANGED vars
  BY <1>20 DEF vars
<1>21. QED
  BY <1>1, <1>2, <1>3, <1>4, <1>5, <1>6, <1>7, <1>8, <1>9, <1>10, <1>11, <1>12, <1>13, <1>14, <1>15, <1>16, <1>17, <1>18, <1>19, <1>20 DEF Next, Others, MainRuns, CopyRuns

(* touch and expire never lose the idle timer between them, expire never   *)
(* calls Reset on a timer that is not assigned yet, and main, the copies   *)
(* and the controller always have something to wait for: the state half of *)
(* IdleTunnelEnds and InterruptedRelayEnds.                                *)
THEOREM NothingGetsStuck == Spec => []RelaySound
<1>1. Init => WakeInv
  BY DEF Init, WakeInv, Dirs, Ends
<1>2. Inv /\ WakeInv => RelayNeverStuck
  <2> SUFFICES ASSUME Inv, WakeInv PROVE RelayNeverStuck
    OBVIOUS
  <2>1. main \in {"first", "second"} => results # << >> \/ \E d \in Dirs : pc[d] # "gone"
    BY DEF Inv, ChannelInv, SentBy, Received, Dirs
  <2>2. ASSUME NEW d \in Dirs, NEW o \in Dirs, err[d] = "error", pc[o] # "gone", pc[d] # "send",
               main \notin {"cutClient", "cutDest"}, ~ \A e \in Ends : cut[e] # "open"
        PROVE  main = "first" /\ results = <<"error">>
    <3>1. pc[d] = "gone" /\ d # o
      BY <2>2 DEF WakeInv
    <3>2. SentBy("up") + SentBy("down") = 1
      BY <2>2, <3>1 DEF SentBy, Dirs
    <3>3. main \in {"first", "second"}
      BY <2>2, <3>1, <3>2 DEF Inv, TypeOK, ChannelInv, Received
    <3>4. main = "first"
      BY <2>2, <3>1, <3>3 DEF WakeInv
    <3>5. results \in Seq(Results) /\ Len(results) = 1 /\ results[1] = "error"
      BY <2>2, <3>1, <3>2, <3>4 DEF Inv, TypeOK, ChannelInv, Received, WakeInv
    <3>6. QED BY <3>4, <3>5
  <2>3. ASSUME stopped, main # "returned", onTimeout \notin Ends
        PROVE  \A e \in Ends : cut[e] = "closed"
    BY <2>3 DEF Inv, TypeOK, Closing, WakeInv, Ends
  <2>4. QED BY <2>1, <2>2, <2>3 DEF RelayNeverStuck
<1>3. Inv => TimerSound
  BY DEF Inv, TimerInv, TimerSound, TimerAlive, NoNilTimer
<1>4. Inv /\ WakeInv => RelaySound
  BY <1>2, <1>3 DEF RelaySound
<1>5. QED BY <1>1, <1>4, Invariance, StepWakeInv, PTL DEF Spec
==============================================================================
