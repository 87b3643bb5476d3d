---------------------------- MODULE RelayActivity ----------------------------
(***************************************************************************)
(* Relay with a history variable that remembers when bytes were read, as   *)
(* against when activityReader told the idle controller of it.             *)
(***************************************************************************)
EXTENDS Relay

VARIABLE
    quiet   \* time since bytes were last read in each direction, up to Timeout;
            \* not counted once the controller has stopped

activityVars == <<vars, quiet>>

ActivityTypeOK == quiet \in [Dirs -> 0 .. Timeout]

ActivityInit == Init /\ quiet = [d \in Dirs |-> 0]

OneMore(t) == IF t < Timeout THEN t + 1 ELSE t

ActivityNext ==
    \/ Tick /\ quiet' = [d \in Dirs |-> IF stopped THEN 0 ELSE OneMore(quiet[d])]
    \/ \E d \in Dirs : Read(d) /\ quiet' = [quiet EXCEPT ![d] = 0]
    \/ Others /\ quiet' = IF stopped' THEN [d \in Dirs |-> 0] ELSE quiet

ActivitySpec == ActivityInit /\ [][ActivityNext]_activityVars

\* With Relay's fairness, and a clock that need not tick.
ActivityFairSpec == ActivitySpec /\ Fairness
------------------------------------------------------------------------------
(***************************************************************************)
(* "A timer callback may already be waiting for the mutex while touch      *)
(* resets it": however late it runs, expire times a tunnel out only if no  *)
(* bytes were read for the whole timeout in either direction, but for      *)
(* bytes that have been read and not yet reported to touch, and never once *)
(* Relay has returned (idle.stop).                                         *)
(***************************************************************************)
TimeoutOnlyWhenIdle ==
    [][onTimeout = "none" /\ onTimeout' # "none" =>
          /\ main # "returned"
          /\ \A d \in Dirs : quiet[d] = Timeout \/ pc[d] = "touch"]_activityVars
==============================================================================
