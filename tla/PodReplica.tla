----------------------------- MODULE PodReplica -----------------------------
(***************************************************************************)
(* What the pod reports promise, without cache, md5, cids or sweep: a      *)
(* collector that looks at the cluster now and then and sends everything   *)
(* it saw each time.  The server's copy of a pod is what the last look     *)
(* that reached it saw, and it drops a pod only when the look missed it.   *)
(***************************************************************************)
CONSTANTS Pods, Data, NoData

VARIABLES
    cluster,     \* the pods as they are
    seen,        \* the pods as last looked at
    exist, copy  \* what the server holds of every pod

vars == <<cluster, seen, exist, copy>>

Init ==
    /\ cluster \in [Pods -> Data \cup {NoData}]
    /\ seen = [p \in Pods |-> NoData]
    /\ exist = [p \in Pods |-> FALSE]
    /\ copy = [p \in Pods |-> NoData]

Change ==
    /\ \E p \in Pods, d \in Data \cup {NoData} : cluster' = [cluster EXCEPT ![p] = d]
    /\ UNCHANGED <<seen, exist, copy>>

\* A look sees the whole cluster, or nothing when it comes too early.
Look ==
    /\ seen' \in {cluster, [p \in Pods |-> NoData]}
    /\ UNCHANGED <<cluster, exist, copy>>

\* Everything that was seen arrives.
Receive ==
    /\ exist' = [p \in Pods |-> exist[p] \/ seen[p] # NoData]
    /\ copy' = [p \in Pods |-> IF seen[p] # NoData THEN seen[p] ELSE copy[p]]
    /\ UNCHANGED <<cluster, seen>>

\* Some pods that were not seen are dropped.
Drop ==
    /\ \E gone \in SUBSET {p \in Pods : seen[p] = NoData} :
          exist' = [p \in Pods |-> exist[p] /\ p \notin gone]
    /\ UNCHANGED <<cluster, seen, copy>>

Next == Change \/ Look \/ Receive \/ Drop

Spec == Init /\ [][Next]_vars
=============================================================================
