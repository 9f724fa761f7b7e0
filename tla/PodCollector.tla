---------------------------- MODULE PodCollector ----------------------------
(***************************************************************************)
(* The incremental pod reports of collector/kubernetes.  Every period the  *)
(* ticker of conn/metric starts `go Report()`; nothing stops the next      *)
(* report from starting while the last one still waits for the server.  A  *)
(* report lists the pods of the reflector's indexer, compares each with    *)
(* the md5 cached in collector.identifiers, sends the full data of the     *)
(* changed ones and the key (uid, cid) of the others, stores the cids the  *)
(* server answers, and then sends the cached pods that it did not see as   *)
(* no longer existing.                                                     *)
(*                                                                         *)
(* The cluster, the reflectors and the server are external and modelled by *)
(* what the collector relies on: the server gives every uid its cid and    *)
(* applies a request at once, but requests of different reports in any     *)
(* order.                                                                  *)
(***************************************************************************)
EXTENDS Naturals

CONSTANTS
    Pods,          \* pod uids
    Data,          \* the states of a pod that its md5 tells apart
    Links,         \* the services that may select a pod
    NoData,        \* the pod does not exist; nothing is known of it
    NoLink,        \* no service selects the pod
    Reporters,     \* the Report goroutines that may run at the same time
    MaxChanges,    \* how often the cluster may change
    MaxFailures,   \* how often an Invoke may fail
    MaxCrashes     \* how often the agent may die and be started again

ASSUME ConstantsAssumption ==
    /\ NoData \notin Data
    /\ NoLink \notin Links
    /\ MaxChanges \in Nat /\ MaxFailures \in Nat /\ MaxCrashes \in Nat

VARIABLES
    pods,         \* pods[p]: the state of pod p in the cluster, or NoData
    services,     \* services[p]: the service that selects pod p, or NoLink
    podIndexer,   \* collector.indexer: "nil", "empty" (not listed yet), "synced"
    svcIndexer,   \* serviceCollector.indexer, likewise
    selectors,    \* serviceCollector.selectors: the services as last listed
    identifiers,  \* collector.identifiers: per pod md5, cid set, Curr
    pc,           \* pc[r]: where the Report goroutine r is
    list, links,  \* the pods it listed, and the services that select them
    infos,        \* infos[r][p]: it sends the "full" data of pod p, or the "key"
    todo,         \* the pods left for the loop it is in
    gone,         \* the pods it reports as no longer existing
    server,       \* what the server holds of every pod
    changes, failures, crashes

vars == <<pods, services, podIndexer, svcIndexer, selectors, identifiers, pc, list,
          links, infos, todo, gone, server, changes, failures, crashes>>

clusterVars == <<pods, services, changes>>
indexerVars == <<podIndexer, svcIndexer, selectors>>
reportVars  == <<list, links, infos, todo, gone>>
faultVars   == <<failures, crashes>>

PodData  == Data \cup {NoData}
PodLink  == Links \cup {NoLink}
Indexers == {"nil", "empty", "synced"}

\* A missing entry of the map has md5 NoData.
Identifier   == [md5 : PodData, cid : BOOLEAN, curr : BOOLEAN]
NoIdentifier == [md5 |-> NoData, cid |-> FALSE, curr |-> FALSE]

PCs   == {"idle", "list", "increment", "post", "answered", "cids", "sweep",
          "postGone", "answeredGone"}
Infos == {"none", "full", "key"}

ServerPod == [exist : BOOLEAN, data : PodData, link : PodLink]

\* Every variable has its type.
TypeOK ==
    /\ pods \in [Pods -> PodData]
    /\ services \in [Pods -> PodLink]
    /\ podIndexer \in Indexers /\ svcIndexer \in Indexers
    /\ selectors \in [Pods -> PodLink]
    /\ identifiers \in [Pods -> Identifier]
    /\ pc \in [Reporters -> PCs]
    /\ list \in [Reporters -> [Pods -> PodData]]
    /\ links \in [Reporters -> [Pods -> PodLink]]
    /\ infos \in [Reporters -> [Pods -> Infos]]
    /\ todo \in [Reporters -> SUBSET Pods]
    /\ gone \in [Reporters -> SUBSET Pods]
    /\ server \in [Pods -> ServerPod]
    /\ changes \in 0 .. MaxChanges
    /\ failures \in 0 .. MaxFailures
    /\ crashes \in 0 .. MaxCrashes

\* createK8sBaseCollector: empty maps, no indexer.
Init ==
    /\ pods \in [Pods -> PodData]
    /\ services \in [Pods -> PodLink]
    /\ podIndexer = "nil" /\ svcIndexer = "nil"
    /\ selectors = [p \in Pods |-> NoLink]
    /\ identifiers = [p \in Pods |-> NoIdentifier]
    /\ pc = [r \in Reporters |-> "idle"]
    /\ list = [r \in Reporters |-> [p \in Pods |-> NoData]]
    /\ links = [r \in Reporters |-> [p \in Pods |-> NoLink]]
    /\ infos = [r \in Reporters |-> [p \in Pods |-> "none"]]
    /\ todo = [r \in Reporters |-> {}]
    /\ gone = [r \in Reporters |-> {}]
    /\ server = [p \in Pods |-> [exist |-> FALSE, data |-> NoData, link |-> NoLink]]
    /\ changes = 0 /\ failures = 0 /\ crashes = 0

-----------------------------------------------------------------------------
(* The cluster and the reflectors.                                         *)

\* A pod appears, changes or goes away.
PodChanges(p) ==
    /\ changes < MaxChanges
    /\ changes' = changes + 1
    /\ \E d \in PodData \ {pods[p]} : pods' = [pods EXCEPT ![p] = d]
    /\ UNCHANGED <<services, indexerVars, identifiers, pc, reportVars, server, faultVars>>

\* Another service, or none, selects the pod from now on.
ServiceChanges(p) ==
    /\ changes < MaxChanges
    /\ changes' = changes + 1
    /\ \E l \in PodLink \ {services[p]} : services' = [services EXCEPT ![p] = l]
    /\ UNCHANGED <<pods, indexerVars, identifiers, pc, reportVars, server, faultVars>>

\* The first list of a reflector arrives; from then on it follows the cluster.
ReflectorSyncs ==
    /\ \/ podIndexer = "empty" /\ podIndexer' = "synced" /\ UNCHANGED svcIndexer
       \/ svcIndexer = "empty" /\ svcIndexer' = "synced" /\ UNCHANGED podIndexer
    /\ UNCHANGED <<clusterVars, selectors, identifiers, pc, reportVars, server, faultVars>>

-----------------------------------------------------------------------------
(* The Report goroutine.                                                   *)

GoTo(r, label) == pc' = [pc EXCEPT ![r] = label]

\* The indexer after reflectorPreNamespace, which runs when there is none.
Ensured(indexer) == IF indexer = "nil" THEN "empty" ELSE indexer

\* A tick: Report builds the reflectors it needs and calls SetSelector.  (The
\* rest of the service collector's state, and setAgentExternalIp, which sets
\* options.Opts.Ip, do not bear on what is reported.)
Tick(r) ==
    /\ pc[r] = "idle"
    /\ GoTo(r, "list")
    /\ podIndexer' = Ensured(podIndexer)
    /\ svcIndexer' = Ensured(svcIndexer)
    /\ selectors' = IF svcIndexer = "synced" THEN services ELSE [p \in Pods |-> NoLink]
    /\ UNCHANGED <<clusterVars, identifiers, reportVars, server, faultVars>>

\* getSelectors, and getPodInfo up to its loop.
List(r) ==
    LET listed == IF podIndexer = "synced" THEN pods ELSE [p \in Pods |-> NoData] IN
    /\ pc[r] = "list"
    /\ GoTo(r, "increment")
    /\ list' = [list EXCEPT ![r] = listed]
    /\ links' = [links EXCEPT ![r] = selectors]
    /\ infos' = [infos EXCEPT ![r] = [p \in Pods |-> "none"]]
    /\ todo' = [todo EXCEPT ![r] = {p \in Pods : listed[p] # NoData}]
    /\ UNCHANGED <<clusterVars, indexerVars, identifiers, gone, server, faultVars>>

\* Mutated: the cached md5 is not compared.
handlePodIncrement_NoCompare(r, p) ==
    LET cached == identifiers[p] IN
    /\ pc[r] = "increment"
    /\ p \in todo[r]
    /\ infos' = [infos EXCEPT ![r][p] = IF cached.cid THEN "key" ELSE "full"]
    /\ todo' = [todo EXCEPT ![r] = @ \ {p}]
    /\ identifiers' = [identifiers EXCEPT ![p] = [md5 |-> list[r][p],
                                                  cid |-> cached.cid, curr |-> TRUE]]
    /\ UNCHANGED <<clusterVars, indexerVars, pc, list, links, gone, server, faultVars>>

\* Mutated: Curr is set for changed pods only.
handlePodIncrement_CurrOnChange(r, p) ==
    LET cached    == identifiers[p]
        unchanged == cached.md5 = list[r][p] /\ cached.cid
    IN
    /\ pc[r] = "increment"
    /\ p \in todo[r]
    /\ infos' = [infos EXCEPT ![r][p] = IF unchanged THEN "key" ELSE "full"]
    /\ todo' = [todo EXCEPT ![r] = @ \ {p}]
    /\ identifiers' = [identifiers EXCEPT ![p] =
                          [md5 |-> list[r][p], cid |-> cached.cid,
                           curr |-> ~unchanged \/ cached.curr]]
    /\ UNCHANGED <<clusterVars, indexerVars, pc, list, links, gone, server, faultVars>>

\* handlePodIncrement for one listed pod, under IdentifierLock.
handlePodIncrement(r, p) ==
    LET cached    == identifiers[p]
        unchanged == cached.md5 = list[r][p] /\ cached.cid
    IN
    /\ pc[r] = "increment"
    /\ p \in todo[r]
    /\ infos' = [infos EXCEPT ![r][p] = IF unchanged THEN "key" ELSE "full"]
    /\ todo' = [todo EXCEPT ![r] = @ \ {p}]
    /\ identifiers' = [identifiers EXCEPT ![p] = [md5 |-> list[r][p],
                                                  cid |-> cached.cid, curr |-> TRUE]]
    /\ UNCHANGED <<clusterVars, indexerVars, pc, list, links, gone, server, faultVars>>

\* The pods a report sends.
Sent(r) == {p \in Pods : infos[r][p] # "none"}

\* Mutated: the loop over the pods may end early.
Post_Early(r) ==
    /\ pc[r] = "increment"
    /\ GoTo(r, IF Sent(r) = {} THEN "sweep" ELSE "post")
    /\ UNCHANGED <<clusterVars, indexerVars, identifiers, reportVars, server, faultVars>>

\* reportK8sMetric(true) sends the pods, unless there are none.
Post(r) ==
    /\ pc[r] = "increment"
    /\ todo[r] = {}
    /\ GoTo(r, IF Sent(r) = {} THEN "sweep" ELSE "post")
    /\ UNCHANGED <<clusterVars, indexerVars, identifiers, reportVars, server, faultVars>>

\* The server stores full data and keeps what it has for a key.
ServerHandles(r) ==
    /\ pc[r] = "post"
    /\ server' = [p \in Pods |->
          CASE infos[r][p] = "full" -> [exist |-> TRUE, data |-> list[r][p],
                                               link |-> links[r][p]]
            [] infos[r][p] = "key"  -> [server[p] EXCEPT !.exist = TRUE]
            [] OTHER -> server[p]]
    /\ GoTo(r, "answered")
    /\ UNCHANGED <<clusterVars, indexerVars, identifiers, reportVars, faultVars>>

\* The answer maps the uid of every pod sent to its cid.
Answered(r) ==
    /\ pc[r] = "answered"
    /\ GoTo(r, "cids")
    /\ todo' = [todo EXCEPT ![r] = Sent(r)]
    /\ UNCHANGED <<clusterVars, indexerVars, identifiers, list, links, infos, gone, server,
                   faultVars>>

\* One turn of the loop over the answer: it looks the uid up in whatever map
\* collector.identifiers is by now, without IdentifierLock.
SetCid(r, p) ==
    /\ pc[r] = "cids"
    /\ p \in todo[r]
    /\ identifiers' = IF identifiers[p].md5 # NoData
                        THEN [identifiers EXCEPT ![p].cid = TRUE] ELSE identifiers
    /\ todo' = [todo EXCEPT ![r] = @ \ {p}]
    /\ GoTo(r, IF todo[r] = {p} THEN "sweep" ELSE "cids")
    /\ UNCHANGED <<clusterVars, indexerVars, list, links, infos, gone, server, faultVars>>

\* Mutated: a failed report does not reset the cache.
resetIdentifierCache_Skipped == UNCHANGED identifiers

resetIdentifierCache == identifiers' = [p \in Pods |-> NoIdentifier]

\* reportK8sMetric(true) fails, before or after the server handled the request;
\* an answer that is no success, or no map, counts as well.
PostFails(r) ==
    /\ failures < MaxFailures
    /\ failures' = failures + 1
    /\ pc[r] \in {"post", "answered"}
    /\ resetIdentifierCache
    /\ GoTo(r, "sweep")
    /\ UNCHANGED <<clusterVars, indexerVars, reportVars, server, crashes>>

\* Mutated: Curr stays set.
Sweep_KeepsCurr(r) ==
    LET stale == {p \in Pods : identifiers[p].md5 # NoData /\ ~identifiers[p].curr}
        old   == {p \in stale : identifiers[p].cid}
    IN
    /\ pc[r] = "sweep"
    /\ identifiers' = [p \in Pods |-> IF p \in stale THEN NoIdentifier ELSE identifiers[p]]
    /\ gone' = [gone EXCEPT ![r] = old]
    /\ GoTo(r, IF old = {} THEN "idle" ELSE "postGone")
    /\ UNCHANGED <<clusterVars, indexerVars, list, links, infos, todo, server, faultVars>>

\* reportNotExistResource: entries without Curr are dropped, and reported when
\* they have a cid; the others lose Curr.  All of it under IdentifierLock.
Sweep(r) ==
    LET stale == {p \in Pods : identifiers[p].md5 # NoData /\ ~identifiers[p].curr}
        old   == {p \in stale : identifiers[p].cid}
    IN
    /\ pc[r] = "sweep"
    /\ identifiers' = [p \in Pods |-> IF p \in stale THEN NoIdentifier
                                      ELSE [identifiers[p] EXCEPT !.curr = FALSE]]
    /\ gone' = [gone EXCEPT ![r] = old]
    /\ GoTo(r, IF old = {} THEN "idle" ELSE "postGone")
    /\ UNCHANGED <<clusterVars, indexerVars, list, links, infos, todo, server, faultVars>>

\* The server marks the pods as gone.
ServerHandlesGone(r) ==
    /\ pc[r] = "postGone"
    /\ server' = [p \in Pods |-> IF p \in gone[r]
                                   THEN [server[p] EXCEPT !.exist = FALSE] ELSE server[p]]
    /\ GoTo(r, "answeredGone")
    /\ UNCHANGED <<clusterVars, indexerVars, identifiers, reportVars, faultVars>>

\* reportK8sMetric(false) returns and the goroutine ends.
GoneAnswered(r) ==
    /\ pc[r] = "answeredGone"
    /\ GoTo(r, "idle")
    /\ UNCHANGED <<clusterVars, indexerVars, identifiers, reportVars, server, faultVars>>

\* reportK8sMetric(false) fails.
PostGoneFails(r) ==
    /\ failures < MaxFailures
    /\ failures' = failures + 1
    /\ pc[r] \in {"postGone", "answeredGone"}
    /\ resetIdentifierCache
    /\ GoTo(r, "idle")
    /\ UNCHANGED <<clusterVars, indexerVars, reportVars, server, crashes>>

\* The agent dies, also because SetCid ran into another goroutine's write to the
\* map (a fatal error of the Go runtime), and is started again.
Crash ==
    /\ crashes < MaxCrashes
    /\ crashes' = crashes + 1
    /\ pc' = [r \in Reporters |-> "idle"]
    /\ podIndexer' = "nil" /\ svcIndexer' = "nil"
    /\ selectors' = [p \in Pods |-> NoLink]
    /\ identifiers' = [p \in Pods |-> NoIdentifier]
    /\ UNCHANGED <<clusterVars, reportVars, server, failures>>

Cluster ==
    ReflectorSyncs \/ \E p \in Pods : PodChanges(p) \/ ServiceChanges(p)

Loop(r) == \E p \in Pods : handlePodIncrement(r, p) \/ SetCid(r, p)

\* The steps of a report that go on by themselves.
Step(r) ==
    \/ Tick(r) \/ List(r) \/ Loop(r) \/ Post(r) \/ ServerHandles(r) \/ Answered(r)
    \/ Sweep(r) \/ ServerHandlesGone(r) \/ GoneAnswered(r)

Next ==
    \/ Cluster
    \/ \E r \in Reporters : Step(r) \/ PostFails(r) \/ PostGoneFails(r)
    \/ Crash

Spec == Init /\ [][Next]_vars

\* The ticker goes on, goroutines run, the reflectors list in the end, and the
\* server handles and answers what does not fail.
FairSpec ==
    /\ Spec
    /\ WF_vars(ReflectorSyncs)
    /\ \A r \in Reporters : WF_vars(Step(r))

-----------------------------------------------------------------------------
(* The abstract specification, for an agent whose reports do not overlap.  *)

TheReporter == CHOOSE r \in Reporters : TRUE

Replica == INSTANCE PodReplica
             WITH cluster <- pods,
                  seen    <- list[TheReporter],
                  exist   <- [p \in Pods |-> server[p].exist],
                  copy    <- [p \in Pods |-> server[p].data]

-----------------------------------------------------------------------------
(* Properties.                                                             *)

\* Reporting by increments is as good as sending everything each time: as long
\* as reports do not overlap, each one leaves the server with the data of every
\* listed pod and never drops one, whatever failed or crashed before.
ImplementsReplica == Replica!Spec

\* pod.go:139, "if equal, the data has not changed, only the key is reported":
\* a report that sends only the key of a pod does so when the server holds
\* exactly the data that the report listed.
KeyOnlyIsCurrent ==
    \A r \in Reporters, p \in Pods :
        pc[r] \in {"increment", "post"} /\ infos[r][p] = "key"
        => server[p].data = list[r][p]

\* Between reports, every cached md5 is that of the data the server holds,
\* whatever failed before and however the reports overlapped: what a later
\* report leaves out, the server has.
CacheMatchesServer ==
    (\A r \in Reporters : pc[r] = "idle") =>
        \A p \in Pods : identifiers[p].md5 # NoData
                        => server[p].data = identifiers[p].md5

\* kubernetes.go:190, Curr is "whether it currently exists": no report sends a
\* pod as no longer existing that the same report has listed.
LiveIsNotReportedGone ==
    \A r \in Reporters :
        pc[r] \in {"postGone", "answeredGone"}
        => \A p \in gone[r] : list[r][p] = NoData

\* Once the cluster is quiet the server comes to hold the data of every
\* existing pod, in spite of failed reports and restarts.
LiveConverges ==
    <>[](\A p \in Pods : pods[p] # NoData =>
             server[p].exist /\ server[p].data = pods[p])

\* Once the cluster is quiet no pod that is gone is left on the server, if
\* every report arrives and the agent lives on.
GoneConverges ==
    \/ <>(failures + crashes > 0)
    \/ <>[](\A p \in Pods : pods[p] = NoData => ~server[p].exist)
=============================================================================
