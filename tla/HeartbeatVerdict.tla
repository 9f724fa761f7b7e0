-------------------------- MODULE HeartbeatVerdict --------------------------
(***************************************************************************)
(* What the heartbeat monitor promises, without its bounded list: every    *)
(* heartbeat that was ever sent counts.  The server is down from the last  *)
(* of StopThreshold failures in a row until the last of StartThreshold     *)
(* successes in a row, and a check announces exactly that.                 *)
(***************************************************************************)
EXTENDS Naturals

CONSTANTS StopThreshold, StartThreshold

VARIABLES
    failing,     \* failures in a row up to now, at most StopThreshold
    succeeding,  \* successes in a row up to now, at most StartThreshold
    down,        \* what the heartbeats say
    announced    \* what the last check said

vars == <<failing, succeeding, down, announced>>

Init ==
    /\ failing = 0 /\ succeeding = 0
    /\ down = FALSE /\ announced = FALSE

AtMost(n, max) == IF n < max THEN n ELSE max

Beat(ok) ==
    /\ failing' = IF ok THEN 0 ELSE AtMost(failing + 1, StopThreshold)
    /\ succeeding' = IF ok THEN AtMost(succeeding + 1, StartThreshold) ELSE 0
    /\ down' = (failing' = StopThreshold \/ (down /\ succeeding' < StartThreshold))
    /\ UNCHANGED announced

Announce ==
    /\ announced' = down
    /\ UNCHANGED <<failing, succeeding, down>>

Next == Announce \/ \E ok \in BOOLEAN : Beat(ok)

Spec == Init /\ [][Next]_vars
=============================================================================
