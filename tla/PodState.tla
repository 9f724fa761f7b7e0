------------------------------ MODULE PodState ------------------------------
(***************************************************************************)
(* The state of a pod as it is reported (getPodState of                    *)
(* collector/kubernetes/pod.go), a copy of what kubectl prints.            *)
(*                                                                         *)
(* A container status is the class of its State: "succeeded" is exit code  *)
(* 0 of an init container, "exitCode" and "signal" are terminations        *)
(* without a reason, "Completed" and "Error" such with one, "CrashLoop" is *)
(* a reason to wait, "PodInitializing" one that does not count in an init  *)
(* container, "ready" runs and is ready, "other" is the rest.              *)
(***************************************************************************)
EXTENDS Naturals, Sequences

InitStates == {"succeeded", "exitCode", "signal", "Error", "CrashLoop", "PodInitializing", "other"}
States     == {"exitCode", "signal", "Completed", "Error", "CrashLoop", "ready", "other"}

\* A reported state: its text, and for "Init:i/n" how many init containers are done.
Reason(text)       == [text |-> text, init |-> FALSE, done |-> 0]
InitReason(text, i) == [text |-> text, init |-> TRUE, done |-> i]

\* A turn of the loop over the init containers, unless a turn before it has ended the
\* loop: the container with number i is done, or gives its reason.
InitTurn(reason, container, i) ==
    CASE reason.init \/ container = "succeeded" -> reason
      [] ~reason.init /\ container \in {"PodInitializing", "other"} -> InitReason("count", i - 1)
      [] OTHER -> InitReason(container, 0)

\* The loop over the init containers.
initReason(pod, reason) ==
    LET after[i \in 0 .. Len(pod.inits)] ==
          IF i = 0 THEN reason ELSE InitTurn(after[i - 1], pod.inits[i], i)
    IN after[Len(pod.inits)]

\* A turn of the loop over the containers.
Turn(reason, container) ==
    IF container \in {"ready", "other"} THEN reason ELSE Reason(container)

\* Mutated: the containers are visited from the first to the last.
containerReason_Forward(pod, reason) ==
    LET after[i \in 0 .. Len(pod.containers)] ==
          IF i = 0 THEN reason ELSE Turn(after[i - 1], pod.containers[i])
    IN after[Len(pod.containers)]

\* The loop over the containers, from the last to the first.
containerReason(pod, reason) ==
    LET after[i \in 0 .. Len(pod.containers)] ==
          IF i = 0 THEN reason
          ELSE Turn(after[i - 1], pod.containers[Len(pod.containers) + 1 - i])
    IN after[Len(pod.containers)]

\* The reason of the pod itself, or its phase.
Own(pod) == IF pod.reason # "" THEN pod.reason ELSE pod.phase

getPodState(pod) ==
    LET phase      == Reason(Own(pod))
        init       == initReason(pod, phase)
        reason     == containerReason(pod, phase)
        hasRunning == \E i \in DOMAIN pod.containers : pod.containers[i] = "ready"
    IN CASE pod.deleted /\ pod.reason = "NodeLost"         -> Reason("Unknown")
         [] pod.deleted /\ pod.reason # "NodeLost"         -> Reason("Terminating")
         [] ~pod.deleted /\ init.init                      -> init
         [] ~pod.deleted /\ ~init.init                     ->
              IF reason.text = "Completed" /\ hasRunning THEN Reason("Running") ELSE reason

-----------------------------------------------------------------------------
(* What the state says.                                                    *)

\* The containers that give a reason.
Reporting(pod)  == {i \in DOMAIN pod.containers : pod.containers[i] \notin {"ready", "other"}}
Unfinished(pod) == {i \in DOMAIN pod.inits : pod.inits[i] # "succeeded"}
HasReady(pod)   == \E i \in DOMAIN pod.containers : pod.containers[i] = "ready"

\* A pod is not completed while a container is ready.
Settled(pod, text) == IF text = "Completed" /\ HasReady(pod) THEN "Running" ELSE text

\* i is the first of the positions S.
IsFirst(i, S) == i \in S /\ \A j \in S : i <= j

\* Deletion comes first, then the first init container that has not succeeded, then
\* the first container with a reason, then the pod's own reason or phase.
IsStateOf(r, pod) ==
    CASE pod.deleted ->
           r.text = IF pod.reason = "NodeLost" THEN "Unknown" ELSE "Terminating"
      [] ~pod.deleted /\ Unfinished(pod) # {} ->
           \E i \in Unfinished(pod) :
              /\ IsFirst(i, Unfinished(pod))
              /\ r.init /\ (r.text = pod.inits[i] \/ (r.text = "count" /\ r.done = i - 1))
      [] ~pod.deleted /\ Unfinished(pod) = {} /\ Reporting(pod) # {} ->
           \E i \in Reporting(pod) :
              IsFirst(i, Reporting(pod)) /\ r.text = Settled(pod, pod.containers[i])
      [] OTHER -> r.text = Settled(pod, Own(pod))
=============================================================================
