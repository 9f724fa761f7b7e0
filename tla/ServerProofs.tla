---------------------------- MODULE ServerProofs ----------------------------
(***************************************************************************)
(* What the agent and the server know of each other, for every value of    *)
(* the constants.                                                          *)
(*                                                                         *)
(* AgentSession: the types, SignedWithOneRegistration and CidIsMissedOnce, *)
(* for any number of senders, restarts and signals.                        *)
(*                                                                         *)
(* PodCollector, for any pods, data, services and reporters and any number *)
(* of changes, failures and crashes.  Overlapping reports can reach the    *)
(* server out of order, so that it ends up with older data than the cache. *)
(* The invariant says why this does not last: every report that may still  *)
(* overwrite a pod's data also has its sweep ahead of it, and one sweep    *)
(* too many drops the cache entry (Doomed), which makes the next report    *)
(* send the full data again.                                               *)
(***************************************************************************)
EXTENDS AgentSession, PodCollector, TLAPS

-----------------------------------------------------------------------------
(* AgentSession: the keys of one registration.                             *)

\* What the registration has brought so far: no key before the cid, and cid
\* and keys of the last registration only.
KeysInv ==
    /\ cid \in {0, issued} /\ ak \in {0, issued} /\ sk \in {0, issued}
    /\ conn = "send" => cid = 0
    /\ conn = "granted" => cid = 0 /\ issued # 0
    /\ conn \in {"keys", "record", "done"} => cid # 0
    /\ ak # 0 \/ sk # 0 => conn \in {"record", "done"}

\* What a sender holds is empty or current, and past GetSecureKey both keys
\* were there; a sender that missed the cid once will not miss it again.
SenderInv(t) ==
    /\ reqCid[t] \in {0, cid}
    /\ at[t] \in {"ak", "sign", "post"} => reqAk[t] \in {0, ak}
    /\ at[t] \in {"sign", "post"} => reqAk[t] # 0 /\ sk # 0
    /\ at[t] = "post" => reqKey[t] = sk
    /\ cidless[t] <= 1
    /\ cidless[t] = 1 => sk # 0
    /\ cidless[t] = 1 /\ at[t] \in {"built", "ak", "sign"} => reqCid[t] # 0

\* The inductive invariant.
SessionInv ==
    /\ SessionTypeOK
    /\ KeysInv
    /\ \A t \in Threads : SenderInv(t)

\* It holds of a process that has just been started.
LEMMA SessionStart == SessionInit => SessionInv
<1> USE SessionAssumption
<1> SUFFICES ASSUME SessionInit PROVE SessionInv
    OBVIOUS
<1>1. SessionTypeOK
    BY DEF SessionInit, SessionTypeOK, StartPC, Zero, Threads, ConnPCs, SendPCs
<1>2. KeysInv
    BY DEF SessionInit, KeysInv
<1>3. ASSUME NEW t \in Threads PROVE SenderInv(t)
    BY DEF SessionInit, SenderInv, StartPC, Zero
<1> QED BY <1>1, <1>2, <1>3 DEF SessionInv

\* Every step of the agent, the server and the outside keeps the types.
LEMMA SessionTypes == SessionTypeOK /\ [SessionNext]_sessionVars => SessionTypeOK'
<1> USE SessionAssumption, SendersAssumption
<1> SUFFICES ASSUME SessionTypeOK, [SessionNext]_sessionVars PROVE SessionTypeOK'
    OBVIOUS
<1>1. CASE Connect
    BY <1>1 DEF SessionTypeOK, ConnPCs, Connect, Register, handleDirectHttpConnectResponse, RecordMapToFile,
        SetAccessKey, SetSecureKey, sendVars, serverVars, boundVars
<1>2. ASSUME NEW t \in Threads, Send(t) \/ Lost(t) PROVE SessionTypeOK'
    <2>1. CASE NewRequest(t)
        BY <2>1 DEF SessionTypeOK, SendPCs, NewRequest, keyVars, serverVars, boundVars
    <2>2. CASE GetAccessKey(t)
        BY <2>2 DEF SessionTypeOK, SendPCs, GetAccessKey, keyVars, serverVars, boundVars
    <2>3. CASE GetSecureKey(t)
        BY <2>3 DEF SessionTypeOK, SendPCs, GetSecureKey, After, keyVars, serverVars, boundVars
    <2>4. CASE Sign(t)
        BY <2>4 DEF SessionTypeOK, SendPCs, Sign, keyVars, serverVars, boundVars
    <2>5. CASE Answer(t)
        BY <2>5 DEF SessionTypeOK, SendPCs, Answer, After, keyVars, boundVars
    <2>6. CASE Lost(t)
        BY <2>6 DEF SessionTypeOK, SendPCs, Lost, After, keyVars, serverVars, boundVars
    <2> QED BY <1>2, <2>1, <2>2, <2>3, <2>4, <2>5, <2>6 DEF Send
<1>3. CASE Signal
    BY <1>3 DEF SessionTypeOK, SendPCs, Signal, Threads, Closers, keyVars, serverVars
<1>4. CASE ShutdownEnds
    BY <1>4 DEF SessionTypeOK, ShutdownEnds, keyVars, sendVars, serverVars, boundVars
<1>5. CASE ProcessDies
    BY <1>5 DEF SessionTypeOK, ProcessDies, keyVars, sendVars, serverVars, boundVars
<1>6. CASE Restart
    BY <1>6 DEF SessionTypeOK, ConnPCs, SendPCs, Restart, StartPC, Zero, Threads, serverVars
<1>7. CASE UNCHANGED sessionVars
    BY <1>7 DEF SessionTypeOK, sessionVars, keyVars, sendVars, serverVars, boundVars
<1> QED BY <1>1, <1>2, <1>3, <1>4, <1>5, <1>6, <1>7 DEF SessionNext

\* The registration is the only one to touch the cid and the keys.
LEMMA SessionKeys == SessionTypeOK /\ KeysInv /\ [SessionNext]_sessionVars => KeysInv'
<1> SUFFICES ASSUME SessionTypeOK, KeysInv, [SessionNext]_sessionVars PROVE KeysInv'
    OBVIOUS
<1>1. CASE Connect
    BY <1>1 DEF SessionTypeOK, KeysInv, Connect, Register, handleDirectHttpConnectResponse, RecordMapToFile,
        SetAccessKey, SetSecureKey, serverVars
<1>2. CASE Restart
    BY <1>2 DEF KeysInv, Restart, serverVars
<1>3. CASE UNCHANGED <<conn, cid, ak, sk, issued>>
    BY <1>3 DEF KeysInv
<1>4. Connect \/ Restart \/ UNCHANGED <<conn, cid, ak, sk, issued>>
    BY DEF SessionNext, Send, NewRequest, GetAccessKey, GetSecureKey, Sign, Answer, Lost,
        Signal, ShutdownEnds, ProcessDies, sessionVars, keyVars, serverVars
<1> QED BY <1>1, <1>2, <1>3, <1>4

\* What the senders hold stays empty or current.
LEMMA SessionSenders == SessionInv /\ [SessionNext]_sessionVars => \A t \in Threads : SenderInv(t)'
<1> USE SessionAssumption, SendersAssumption
<1> SUFFICES ASSUME SessionInv, [SessionNext]_sessionVars, NEW t \in Threads PROVE SenderInv(t)'
    OBVIOUS
<1>0. SessionTypeOK /\ KeysInv /\ SenderInv(t)
    BY DEF SessionInv
<1>1. CASE Connect
    BY <1>0, <1>1 DEF SessionTypeOK, KeysInv, SenderInv, Connect, Register, handleDirectHttpConnectResponse,
        RecordMapToFile, SetAccessKey, SetSecureKey, sendVars, serverVars
<1>2. ASSUME NEW u \in Threads, Send(u) \/ Lost(u) PROVE SenderInv(t)'
    <2>1. CASE NewRequest(u)
        BY <1>0, <2>1 DEF SessionTypeOK, KeysInv, SenderInv, NewRequest, keyVars
    <2>2. CASE GetAccessKey(u)
        BY <1>0, <2>2 DEF SessionTypeOK, KeysInv, SenderInv, GetAccessKey, keyVars
    <2>3. CASE GetSecureKey(u)
        BY <1>0, <2>3 DEF SessionTypeOK, KeysInv, SenderInv, GetSecureKey, After, keyVars
    <2>4. CASE Sign(u)
        BY <1>0, <2>4 DEF SessionTypeOK, KeysInv, SenderInv, Sign, keyVars
    <2>5. CASE Answer(u) \/ Lost(u)
        BY <1>0, <2>5 DEF SessionTypeOK, SenderInv, Answer, Lost, After, keyVars
    <2> QED BY <1>2, <2>1, <2>2, <2>3, <2>4, <2>5 DEF Send
<1>3. CASE Signal
    BY <1>0, <1>3 DEF SessionTypeOK, SenderInv, Signal, Threads, Closers, keyVars
<1>4. CASE Restart
    BY <1>4 DEF SenderInv, Restart, StartPC, Zero
<1>5. CASE ShutdownEnds \/ ProcessDies \/ UNCHANGED sessionVars
    BY <1>0, <1>5 DEF SenderInv, ShutdownEnds, ProcessDies, sessionVars, keyVars, sendVars
<1> QED BY <1>1, <1>2, <1>3, <1>4, <1>5 DEF SessionNext

\* The invariant is inductive, so it holds throughout.
LEMMA SessionInvariance == SessionSpec => []SessionInv
<1>1. SessionInv /\ [SessionNext]_sessionVars => SessionInv'
    BY SessionTypes, SessionKeys, SessionSenders DEF SessionInv
<1> QED BY SessionStart, <1>1, PTL DEF SessionSpec

\* Every variable has its type throughout; a loop of requests never ends.
THEOREM SessionTypeCorrect == SessionSpec => []SessionTypeOK
<1>1. SessionInv => SessionTypeOK
    BY DEF SessionInv
<1> QED BY SessionInvariance, <1>1, PTL

\* A request that doInvoker lets pass is signed with the key that belongs to
\* its access key, whichever of the two unlocked assignments is seen first.
THEOREM KeysAgree == SessionSpec => []SignedWithOneRegistration
<1>1. SessionInv => SignedWithOneRegistration
    BY DEF SessionInv, SessionTypeOK, KeysInv, SenderInv, SignedWithOneRegistration
<1> QED BY SessionInvariance, <1>1, PTL

\* A goroutine sends at most one request without the cid, and none with the
\* cid of an earlier registration.
THEOREM CidMissedOnce == SessionSpec => []CidIsMissedOnce
<1>1. SessionInv => CidIsMissedOnce
    BY Zenon DEF SessionInv, SessionTypeOK, KeysInv, SenderInv, CidIsMissedOnce
<1> QED BY SessionInvariance, <1>1, PTL

-----------------------------------------------------------------------------
(* PodCollector: the cache of the agent and the copy of the server.        *)

\* Report r has dealt with pod p and has not swept yet.
Pending(r, p) ==
    \/ pc[r] \in {"post", "answered", "cids", "sweep"}
    \/ pc[r] = "increment" /\ p \notin todo[r]

\* The full data of pod p is on its way in report r.
FullInFlight(r, p) == pc[r] \in {"increment", "post"} /\ infos[r][p] = "full"

\* What is on its way for p is what is cached, and the server has it or gets it.
Clean(p) ==
    /\ \A r \in Reporters : FullInFlight(r, p) => list[r][p] = identifiers[p].md5
    /\ server[p].data = identifiers[p].md5 \/ \E r \in Reporters : FullInFlight(r, p)

\* The sweeps ahead outnumber the one that the entry of p survives.
Doomed(p) ==
    \E r \in Reporters :
        /\ Pending(r, p)
        /\ identifiers[p].curr => \E q \in Reporters \ {r} : Pending(q, p)

CacheInv == \A p \in Pods : identifiers[p].md5 # NoData => Clean(p) \/ Doomed(p)

\* A pod that is still to be handled has no info yet.
Shape ==
    \A r \in Reporters, p \in Pods :
        pc[r] = "increment" /\ p \in todo[r] => infos[r][p] = "none" /\ list[r][p] # NoData

IInv == TypeOK /\ Shape /\ CacheInv

\* At most one report runs at a time.
Sequential == \A r, q \in Reporters : r = q

\* Without overlap the cached pods that a report listed carry Curr until its sweep.
SequentialInv ==
    /\ KeyOnlyIsCurrent
    /\ LiveIsNotReportedGone
    /\ \A r \in Reporters, p \in Pods :
          /\ Pending(r, p) /\ list[r][p] # NoData /\ identifiers[p].md5 # NoData
          => identifiers[p].curr
-----------------------------------------------------------------------------
(* Types.                                                                  *)

\* SetCid and Sweep change one field of an entry.
LEMMA IdentifierFields ==
  ASSUME NEW c \in Identifier, NEW b \in BOOLEAN
  PROVE  /\ [c EXCEPT !.cid = b] \in Identifier
         /\ [c EXCEPT !.cid = b].md5 = c.md5 /\ [c EXCEPT !.cid = b].curr = c.curr
         /\ [c EXCEPT !.curr = b] \in Identifier
         /\ [c EXCEPT !.curr = b].md5 = c.md5 /\ [c EXCEPT !.curr = b].curr = b
         /\ [c EXCEPT !.curr = b].cid = c.cid
  BY DEF Identifier

\* The server changes the existence of a pod without its data.
LEMMA ServerFields ==
  ASSUME NEW c \in ServerPod, NEW b \in BOOLEAN
  PROVE  [c EXCEPT !.exist = b] \in ServerPod /\ [c EXCEPT !.exist = b].data = c.data
  BY DEF ServerPod

USE ConstantsAssumption DEF ConstantsAssumption

\* What SetCid does to the cache.
LEMMA SetCidFacts ==
  ASSUME TypeOK, NEW r \in Reporters, NEW p \in Pods, SetCid(r, p)
  PROVE  /\ identifiers' \in [Pods -> Identifier]
         /\ \A q \in Pods : /\ identifiers'[q].md5 = identifiers[q].md5
                            /\ identifiers'[q].curr = identifiers[q].curr
  <1>1. identifiers \in [Pods -> Identifier]
    BY DEF TypeOK
  <1>2. CASE identifiers' = [identifiers EXCEPT ![p] = [@ EXCEPT !.cid = TRUE]]
    <2> DEFINE d == [identifiers[p] EXCEPT !.cid = TRUE]
    <2>1. d \in Identifier /\ d.md5 = identifiers[p].md5 /\ d.curr = identifiers[p].curr
      BY <1>1, IdentifierFields, Zenon
    <2>2. identifiers' = [identifiers EXCEPT ![p] = d]
      BY <1>2
    <2> HIDE DEF d
    <2>. QED  BY <1>1, <2>1, <2>2
  <1>3. CASE identifiers' = identifiers
    BY <1>1, <1>3
  <1>4. [identifiers EXCEPT ![p].cid = TRUE] = [identifiers EXCEPT ![p] = [@ EXCEPT !.cid = TRUE]]
    OBVIOUS
  <1>. QED  BY <1>2, <1>3, <1>4 DEF SetCid

\* What Sweep does to the cache.
LEMMA SweepFacts ==
  ASSUME TypeOK, NEW r \in Reporters, Sweep(r)
  PROVE  /\ identifiers' \in [Pods -> Identifier]
         /\ \A q \in Pods : identifiers'[q].md5 # NoData =>
               /\ identifiers'[q].md5 = identifiers[q].md5
               /\ identifiers[q].curr /\ ~identifiers'[q].curr
         /\ gone' \in [Reporters -> SUBSET Pods]
         /\ \A q \in gone'[r] : identifiers[q].md5 # NoData /\ ~identifiers[q].curr
  <1>1. identifiers \in [Pods -> Identifier] /\ gone \in [Reporters -> SUBSET Pods]
    BY DEF TypeOK
  <1>2. NoIdentifier \in Identifier /\ NoIdentifier.md5 = NoData
    BY DEF NoIdentifier, Identifier, PodData
  <1>3. ASSUME NEW q \in Pods
        PROVE  /\ identifiers'[q] \in Identifier
               /\ identifiers'[q].md5 # NoData =>
                     /\ identifiers'[q].md5 = identifiers[q].md5
                     /\ identifiers[q].curr /\ ~identifiers'[q].curr
    <2>1. CASE identifiers[q].md5 # NoData /\ ~identifiers[q].curr
      <3>1. identifiers'[q] = NoIdentifier
        BY <2>1 DEF Sweep
      <3>. QED  BY <1>2, <3>1
    <2>2. CASE ~(identifiers[q].md5 # NoData /\ ~identifiers[q].curr)
      <3>1. identifiers'[q] = [identifiers[q] EXCEPT !.curr = FALSE]
        BY <2>2 DEF Sweep
      <3>2. /\ identifiers'[q] \in Identifier /\ identifiers'[q].md5 = identifiers[q].md5
            /\ ~identifiers'[q].curr
        BY <1>1, <3>1, Zenon DEF Identifier
      <3>. QED  BY <1>1, <2>2, <3>2 DEF Identifier
    <2>. QED  BY <2>1, <2>2
  <1>4. identifiers' \in [Pods -> Identifier]
    BY <1>3 DEF Sweep
  <1>5. /\ gone' \in [Reporters -> SUBSET Pods]
        /\ \A q \in gone'[r] : identifiers[q].md5 # NoData /\ ~identifiers[q].curr
    BY <1>1 DEF Sweep
  <1>. QED  BY <1>3, <1>4, <1>5

\* What the server does with the reports.
LEMMA ServerFacts ==
  ASSUME TypeOK, NEW r \in Reporters, ServerHandles(r) \/ ServerHandlesGone(r)
  PROVE  /\ server' \in [Pods -> ServerPod]
         /\ \A q \in Pods : server'[q].data =
               IF pc[r] = "post" /\ infos[r][q] = "full" THEN list[r][q] ELSE server[q].data
  <1>1. server \in [Pods -> ServerPod]
    BY DEF TypeOK
  <1>2. ASSUME NEW q \in Pods
        PROVE  /\ server'[q] \in ServerPod
               /\ server'[q].data = IF pc[r] = "post" /\ infos[r][q] = "full"
                                    THEN list[r][q] ELSE server[q].data
    <2>1. CASE server'[q] = server[q] /\ ~(pc[r] = "post" /\ infos[r][q] = "full")
      BY <1>1, <2>1
    <2>2. CASE \/ server'[q] = [server[q] EXCEPT !.exist = TRUE]
                  /\ ~(pc[r] = "post" /\ infos[r][q] = "full")
               \/ server'[q] = [server[q] EXCEPT !.exist = FALSE]
                  /\ ~(pc[r] = "post" /\ infos[r][q] = "full")
      BY <1>1, <2>2, ServerFields, Zenon
    <2>3. CASE /\ pc[r] = "post" /\ infos[r][q] = "full"
               /\ server'[q] = [exist |-> TRUE, data |-> list[r][q], link |-> links[r][q]]
      BY <2>3 DEF TypeOK, ServerPod
    <2>. QED  BY <2>1, <2>2, <2>3, Zenon DEF ServerHandles, ServerHandlesGone
  <1>3. server' \in [Pods -> ServerPod]
    BY <1>2 DEF ServerHandles, ServerHandlesGone
  <1>. QED  BY <1>2, <1>3

\* Every step keeps the types and the shape.
LEMMA StepTypes == TypeOK /\ Shape /\ [Next]_vars => TypeOK' /\ Shape'
  <1> SUFFICES ASSUME TypeOK, Shape, [Next]_vars PROVE TypeOK' /\ Shape'
    OBVIOUS
  <1> USE DEF TypeOK, Shape, clusterVars, indexerVars, reportVars, faultVars, GoTo
  <1>0. /\ NoIdentifier \in Identifier /\ [p \in Pods |-> NoIdentifier] \in [Pods -> Identifier]
        /\ [p \in Pods |-> NoLink] \in [Pods -> PodLink]
        /\ [p \in Pods |-> NoData] \in [Pods -> PodData]
        /\ [p \in Pods |-> "none"] \in [Pods -> Infos]
    BY DEF NoIdentifier, Identifier, PodData, PodLink, Infos
  <1>1. CASE Cluster
    <2>1. ASSUME NEW p \in Pods, PodChanges(p) PROVE TypeOK' /\ Shape'
      BY <2>1 DEF PodChanges
    <2>2. ASSUME NEW p \in Pods, ServiceChanges(p) PROVE TypeOK' /\ Shape'
      BY <2>2 DEF ServiceChanges
    <2>3. CASE ReflectorSyncs
      BY <2>3 DEF ReflectorSyncs, Indexers
    <2>. QED  BY <1>1, <2>1, <2>2, <2>3 DEF Cluster
  <1>2. ASSUME NEW r \in Reporters, Tick(r) PROVE TypeOK' /\ Shape'
    BY <1>0, <1>2 DEF Tick, Ensured, Indexers, PCs
  <1>3. ASSUME NEW r \in Reporters, List(r) PROVE TypeOK' /\ Shape'
    BY <1>0, <1>3 DEF List, PCs
  <1>4. ASSUME NEW r \in Reporters, NEW p \in Pods, handlePodIncrement(r, p)
        PROVE  TypeOK' /\ Shape'
    <2>1. identifiers' \in [Pods -> Identifier]
      BY <1>4 DEF handlePodIncrement, Identifier
    <2>2. infos' \in [Reporters -> [Pods -> Infos]]
      BY <1>4 DEF handlePodIncrement, Infos
    <2>3. todo' \in [Reporters -> SUBSET Pods]
      BY <1>4 DEF handlePodIncrement
    <2>4. Shape'
      BY <1>4 DEF handlePodIncrement
    <2>. QED  BY <1>4, <2>1, <2>2, <2>3, <2>4 DEF handlePodIncrement
  <1>5. ASSUME NEW r \in Reporters, Post(r) \/ Answered(r) \/ GoneAnswered(r)
        PROVE  TypeOK' /\ Shape'
    <2>1. CASE Post(r)
      BY <2>1 DEF Post, PCs
    <2>2. CASE Answered(r)
      BY <2>2 DEF Answered, Sent, PCs
    <2>3. CASE GoneAnswered(r)
      BY <2>3 DEF GoneAnswered, PCs
    <2>. QED  BY <1>5, <2>1, <2>2, <2>3
  <1>6. ASSUME NEW r \in Reporters, ServerHandles(r) \/ ServerHandlesGone(r)
        PROVE  TypeOK' /\ Shape'
    <2>1. server' \in [Pods -> ServerPod]
      BY <1>6, ServerFacts
    <2>2. /\ \/ pc[r] = "post" /\ pc' = [pc EXCEPT ![r] = "answered"]
             \/ pc[r] = "postGone" /\ pc' = [pc EXCEPT ![r] = "answeredGone"]
          /\ UNCHANGED <<pods, services, podIndexer, svcIndexer, selectors, identifiers,
                         list, links, infos, todo, gone, changes, failures, crashes>>
      BY <1>6 DEF ServerHandles, ServerHandlesGone
    <2>3. TypeOK'
      BY <2>1, <2>2, Zenon DEF PCs
    <2>4. Shape'
      BY <2>2
    <2>. QED  BY <2>3, <2>4
  <1>7. ASSUME NEW r \in Reporters, NEW p \in Pods, SetCid(r, p) PROVE TypeOK' /\ Shape'
    <2>1. identifiers' \in [Pods -> Identifier]
      BY <1>7, SetCidFacts
    <2>. QED  BY <1>7, <2>1 DEF SetCid, PCs
  <1>8. ASSUME NEW r \in Reporters, Sweep(r) PROVE TypeOK' /\ Shape'
    <2>1. identifiers' \in [Pods -> Identifier] /\ gone' \in [Reporters -> SUBSET Pods]
      BY <1>8, SweepFacts
    <2>. QED  BY <1>8, <2>1 DEF Sweep, PCs
  <1>9. ASSUME NEW r \in Reporters, PostFails(r) \/ PostGoneFails(r)
        PROVE  TypeOK' /\ Shape'
    <2>1. CASE PostFails(r)
      BY <1>0, <2>1 DEF PostFails, resetIdentifierCache, PCs
    <2>2. CASE PostGoneFails(r)
      BY <1>0, <2>2 DEF PostGoneFails, resetIdentifierCache, PCs
    <2>. QED  BY <1>9, <2>1, <2>2
  <1>10. CASE Crash
    BY <1>0, <1>10 DEF Crash, Indexers, PCs
  <1>11. CASE UNCHANGED vars
    BY <1>11 DEF vars
  <1>. QED
    BY <1>1, <1>2, <1>3, <1>4, <1>5, <1>6, <1>7, <1>8, <1>9, <1>10, <1>11, Zenon
       DEF Next, Step, Loop
-----------------------------------------------------------------------------
(* The cache.                                                              *)

\* A step that leaves the cache, the server's data and what is in flight alone.
LEMMA KeepsCache ==
  ASSUME CacheInv,
         \A p \in Pods : /\ identifiers'[p].md5 = identifiers[p].md5
                         /\ identifiers'[p].curr = identifiers[p].curr
                         /\ server'[p].data = server[p].data,
         \A r \in Reporters, p \in Pods :
            /\ FullInFlight(r, p)' <=> FullInFlight(r, p)
            /\ FullInFlight(r, p) => list'[r][p] = list[r][p]
            /\ Pending(r, p) => Pending(r, p)'
  PROVE  CacheInv'
  <1> SUFFICES ASSUME NEW p \in Pods, identifiers'[p].md5 # NoData
               PROVE  Clean(p)' \/ Doomed(p)'
    BY Zenon DEF CacheInv
  <1>1. CASE Clean(p)
    BY <1>1 DEF Clean
  <1>2. CASE Doomed(p)
    BY <1>2 DEF Doomed
  <1>. QED  BY <1>1, <1>2, Zenon DEF CacheInv

\* An empty cache has nothing to keep.
LEMMA ResetCache ==
  ASSUME identifiers' = [p \in Pods |-> NoIdentifier]
  PROVE  CacheInv'
  BY DEF CacheInv, NoIdentifier

\* A report that fixes what it sends of p either finds the cache as it is, or
\* carries the new data itself; another report that carries p then dooms it.
LEMMA IncrementCache ==
  ASSUME IInv, NEW r \in Reporters, NEW p \in Pods, handlePodIncrement(r, p)
  PROVE  CacheInv'
  <1> USE DEF IInv
  <1>1. /\ pc[r] = "increment" /\ p \in todo[r] /\ infos[r][p] = "none"
        /\ list[r][p] # NoData
        /\ todo' = [todo EXCEPT ![r] = @ \ {p}]
        /\ infos' = [infos EXCEPT ![r] = [@ EXCEPT ![p] = infos'[r][p]]]
        /\ identifiers'[p].md5 = list[r][p] /\ identifiers'[p].curr
        /\ \A q \in Pods \ {p} : identifiers'[q] = identifiers[q]
        /\ UNCHANGED <<pc, list, server>>
    BY Zenon DEF handlePodIncrement, Shape, TypeOK, Identifier
  <1>2. \/ infos'[r][p] = "full"
        \/ infos'[r][p] = "key" /\ identifiers[p].md5 = list[r][p]
    BY DEF handlePodIncrement, TypeOK
  <1>3. \A q \in Reporters, s \in Pods : Pending(q, s) => Pending(q, s)'
    BY <1>1 DEF Pending, TypeOK
  <1>4. \A q \in Reporters, s \in Pods : <<q, s>> # <<r, p>> =>
           (FullInFlight(q, s)' <=> FullInFlight(q, s))
    BY <1>1 DEF FullInFlight, TypeOK
  <1>5. Pending(r, p)' /\ ~Pending(r, p) /\ ~FullInFlight(r, p)
    BY <1>1 DEF Pending, FullInFlight, TypeOK
  <1>6. \A q \in Reporters : FullInFlight(q, p) => Pending(q, p)
    BY <1>1 DEF Pending, FullInFlight, Shape
  <1> SUFFICES ASSUME NEW s \in Pods, identifiers'[s].md5 # NoData
               PROVE  Clean(s)' \/ Doomed(s)'
    BY DEF CacheInv
  <1>7. CASE s # p
    <2>1. \A q \in Reporters : (FullInFlight(q, s)' <=> FullInFlight(q, s))
      BY <1>4, <1>7
    <2>2. identifiers'[s] = identifiers[s] /\ server'[s] = server[s] /\ list' = list
      BY <1>1, <1>7
    <2>3. CASE Clean(s)
      BY <2>1, <2>2, <2>3 DEF Clean
    <2>4. CASE Doomed(s)
      BY <1>3, <2>2, <2>4 DEF Doomed
    <2>. QED  BY <2>2, <2>3, <2>4 DEF CacheInv
  <1>8. CASE s = p
    <2>1. ASSUME NEW q \in Reporters, FullInFlight(q, p), list[q][p] # list[r][p]
          PROVE  Doomed(p)'
      <3>1. q # r /\ Pending(q, p)'
        BY <1>3, <1>5, <1>6, <2>1
      <3>. QED  BY <1>5, <3>1 DEF Doomed
    <2>2. CASE \A q \in Reporters : FullInFlight(q, p) => list[q][p] = list[r][p]
      <3>1. \A q \in Reporters : FullInFlight(q, p)' => list'[q][p] = identifiers'[p].md5
        BY <1>1, <1>4, <2>2
      <3>2. CASE infos'[r][p] = "full"
        <4>1. FullInFlight(r, p)'
          BY <1>1, <3>2 DEF FullInFlight
        <4>. QED  BY <1>8, <3>1, <4>1 DEF Clean
      <3>3. CASE infos'[r][p] = "key" /\ identifiers[p].md5 = list[r][p]
        <4>1. ~FullInFlight(r, p)'
          BY <1>1, <3>3 DEF FullInFlight
        <4>2. \A q \in Reporters : (FullInFlight(q, p)' <=> FullInFlight(q, p))
          BY <1>4, <1>5, <4>1
        <4>3. CASE Clean(p)
          BY <1>1, <1>8, <3>1, <3>3, <4>2, <4>3 DEF Clean
        <4>4. CASE Doomed(p)
          <5>1. PICK q \in Reporters : Pending(q, p)
            BY <4>4 DEF Doomed
          <5>2. q # r /\ Pending(q, p)'
            BY <1>3, <1>5, <5>1
          <5>. QED  BY <1>5, <1>8, <5>2 DEF Doomed
        <4>. QED  BY <1>1, <3>3, <4>3, <4>4 DEF CacheInv
      <3>. QED  BY <1>2, <3>2, <3>3
    <2>. QED  BY <1>8, <2>1, <2>2
  <1>. QED  BY <1>7, <1>8

\* Full data that reaches the server is the cached data, or its sender's sweep
\* is still to come.
LEMMA HandleCache ==
  ASSUME IInv, NEW r \in Reporters, ServerHandles(r)
  PROVE  CacheInv'
  <1> USE DEF IInv
  <1>1. /\ pc[r] = "post" /\ pc'[r] = "answered"
        /\ \A q \in Reporters \ {r} : pc'[q] = pc[q]
        /\ UNCHANGED <<identifiers, list, infos, todo>>
    BY DEF ServerHandles, GoTo, reportVars, TypeOK
  <1>2. \A p \in Pods : server'[p].data =
           IF infos[r][p] = "full" THEN list[r][p] ELSE server[p].data
    BY <1>1, ServerFacts
  <1>3. \A q \in Reporters, p \in Pods : /\ Pending(q, p)' <=> Pending(q, p)
                                         /\ FullInFlight(q, p)' <=> FullInFlight(q, p) /\ q # r
    BY <1>1 DEF Pending, FullInFlight
  <1> SUFFICES ASSUME NEW p \in Pods, identifiers'[p].md5 # NoData
               PROVE  Clean(p)' \/ Doomed(p)'
    BY DEF CacheInv
  <1>4. CASE Doomed(p)
    BY <1>1, <1>3, <1>4 DEF Doomed
  <1>5. CASE Clean(p) /\ infos[r][p] = "full"
    <2>1. FullInFlight(r, p)
      BY <1>1, <1>5 DEF FullInFlight
    <2>2. server'[p].data = identifiers[p].md5
      BY <1>2, <1>5, <2>1 DEF Clean
    <2>. QED  BY <1>1, <1>3, <1>5, <2>2, Zenon DEF Clean
  <1>6. CASE Clean(p) /\ infos[r][p] # "full"
    <2>1. ~FullInFlight(r, p)
      BY <1>6 DEF FullInFlight
    <2>. QED  BY <1>1, <1>2, <1>3, <1>6, <2>1 DEF Clean
  <1>. QED  BY <1>1, <1>4, <1>5, <1>6, Zenon DEF CacheInv

\* A doomed entry survives a sweep only if another sweep is still ahead.
LEMMA SweepCache ==
  ASSUME IInv, NEW r \in Reporters, Sweep(r)
  PROVE  CacheInv'
  <1> USE DEF IInv
  <1>1. /\ pc[r] = "sweep" /\ pc'[r] \in {"idle", "postGone"}
        /\ \A q \in Reporters \ {r} : pc'[q] = pc[q]
        /\ UNCHANGED <<list, infos, todo, server>>
    BY DEF Sweep, GoTo, TypeOK
  <1>2. \A q \in Reporters, p \in Pods :
           /\ Pending(q, p) /\ q # r => Pending(q, p)'
           /\ FullInFlight(q, p)' <=> FullInFlight(q, p)
    BY <1>1 DEF Pending, FullInFlight
  <1> SUFFICES ASSUME NEW p \in Pods, identifiers'[p].md5 # NoData
               PROVE  Clean(p)' \/ Doomed(p)'
    BY DEF CacheInv
  <1>3. /\ identifiers'[p].md5 = identifiers[p].md5
        /\ identifiers[p].curr /\ ~identifiers'[p].curr
    BY SweepFacts
  <1>4. CASE Clean(p)
    BY <1>1, <1>2, <1>3, <1>4, Zenon DEF Clean
  <1>5. CASE Doomed(p)
    <2>1. PICK q \in Reporters, s \in Reporters : q # s /\ Pending(q, p) /\ Pending(s, p)
      BY <1>3, <1>5 DEF Doomed
    <2>2. \E t \in Reporters : Pending(t, p)'
      BY <1>2, <2>1
    <2>. QED  BY <1>3, <2>2 DEF Doomed
  <1>. QED  BY <1>3, <1>4, <1>5 DEF CacheInv

\* Every step keeps the inductive invariant.
LEMMA StepIInv == IInv /\ [Next]_vars => IInv'
  <1> SUFFICES ASSUME IInv, [Next]_vars PROVE IInv'
    OBVIOUS
  <1>0. TypeOK' /\ Shape'
    BY StepTypes DEF IInv
  <1>1. ASSUME UNCHANGED <<identifiers, server, pc, list, infos, todo>> PROVE CacheInv'
    <2>1. \A q \in Reporters, p \in Pods :
             /\ FullInFlight(q, p)' <=> FullInFlight(q, p)
             /\ Pending(q, p) => Pending(q, p)'
      BY <1>1, Zenon DEF FullInFlight, Pending
    <2>. QED  BY <1>1, <2>1, KeepsCache, Zenon DEF IInv
  <1>2. CASE Cluster \/ UNCHANGED vars
    BY <1>0, <1>1, <1>2 DEF Cluster, ReflectorSyncs, PodChanges, ServiceChanges, reportVars,
                            vars, IInv
  <1>3. ASSUME NEW r \in Reporters, Tick(r) \/ List(r) PROVE CacheInv'
    <2>1. /\ pc[r] \in {"idle", "list"} /\ UNCHANGED <<identifiers, server>>
          /\ pc'[r] = "list" \/ (pc'[r] = "increment" /\ \A p \in Pods : infos'[r][p] = "none")
          /\ \A q \in Reporters \ {r} : /\ pc'[q] = pc[q] /\ list'[q] = list[q]
                                        /\ infos'[q] = infos[q] /\ todo'[q] = todo[q]
      <3>1. CASE Tick(r)
        BY <3>1 DEF Tick, GoTo, reportVars, IInv, TypeOK
      <3>2. CASE List(r)
        <4>1. pc[r] = "list" /\ UNCHANGED <<identifiers, server>>
          BY <3>2 DEF List
        <4>2. pc'[r] = "increment" /\ \A p \in Pods : infos'[r][p] = "none"
          BY <3>2 DEF List, GoTo, IInv, TypeOK
        <4>3. \A q \in Reporters \ {r} : /\ pc'[q] = pc[q] /\ list'[q] = list[q]
                                         /\ infos'[q] = infos[q] /\ todo'[q] = todo[q]
          BY <3>2 DEF List, GoTo, IInv, TypeOK
        <4>. QED  BY <4>1, <4>2, <4>3, Zenon
      <3>. QED  BY <1>3, <3>1, <3>2, Zenon
    <2>2. \A q \in Reporters, p \in Pods :
             /\ FullInFlight(q, p)' <=> FullInFlight(q, p)
             /\ FullInFlight(q, p) => list'[q][p] = list[q][p]
             /\ Pending(q, p) => Pending(q, p)'
      BY <2>1, Zenon DEF FullInFlight, Pending
    <2>. QED  BY <2>1, <2>2, KeepsCache, Zenon DEF IInv
  <1>4. ASSUME NEW r \in Reporters, Post(r) \/ Answered(r) \/ GoneAnswered(r)
        PROVE  CacheInv'
    <2>1. /\ UNCHANGED <<identifiers, server, list, infos>>
          /\ \A q \in Reporters \ {r} : pc'[q] = pc[q] /\ todo'[q] = todo[q]
      BY <1>4 DEF Post, Answered, GoneAnswered, GoTo, reportVars, IInv, TypeOK
    <2>2. \/ pc[r] = "increment" /\ pc'[r] = "post"
          \/ /\ pc[r] = "increment" /\ pc'[r] = "sweep"
             /\ \A p \in Pods : infos[r][p] = "none"
          \/ pc[r] = "answered" /\ pc'[r] = "cids"
          \/ pc[r] = "answeredGone" /\ pc'[r] = "idle"
      BY <1>4 DEF Post, Answered, GoneAnswered, Sent, GoTo, IInv, TypeOK
    <2>3. \A q \in Reporters, p \in Pods :
             /\ FullInFlight(q, p)' <=> FullInFlight(q, p)
             /\ Pending(q, p) => Pending(q, p)'
      BY <2>1, <2>2, Zenon DEF FullInFlight, Pending
    <2>. QED  BY <2>1, <2>3, KeepsCache, Zenon DEF IInv
  <1>5. ASSUME NEW r \in Reporters, ServerHandlesGone(r) PROVE CacheInv'
    <2>1. /\ pc[r] = "postGone" /\ pc'[r] = "answeredGone"
          /\ \A q \in Reporters \ {r} : pc'[q] = pc[q]
          /\ UNCHANGED <<identifiers, list, infos, todo>>
      BY <1>5 DEF ServerHandlesGone, GoTo, reportVars, IInv, TypeOK
    <2>2. \A p \in Pods : server'[p].data = server[p].data
      BY <1>5, <2>1, ServerFacts, Zenon DEF IInv
    <2>3. \A q \in Reporters, p \in Pods :
             /\ FullInFlight(q, p)' <=> FullInFlight(q, p)
             /\ Pending(q, p) => Pending(q, p)'
      BY <2>1 DEF FullInFlight, Pending
    <2>. QED  BY <2>1, <2>2, <2>3, KeepsCache, Zenon DEF IInv
  <1>6. ASSUME NEW r \in Reporters, NEW s \in Pods, SetCid(r, s) PROVE CacheInv'
    <2>1. /\ pc[r] = "cids" /\ pc'[r] \in {"cids", "sweep"}
          /\ \A q \in Reporters \ {r} : pc'[q] = pc[q] /\ todo'[q] = todo[q]
          /\ UNCHANGED <<server, list, infos>>
      BY <1>6 DEF SetCid, GoTo, IInv, TypeOK
    <2>2. \A p \in Pods : /\ identifiers'[p].md5 = identifiers[p].md5
                          /\ identifiers'[p].curr = identifiers[p].curr
      BY <1>6, SetCidFacts, Zenon DEF IInv
    <2>3. \A q \in Reporters, p \in Pods :
             /\ FullInFlight(q, p)' <=> FullInFlight(q, p)
             /\ Pending(q, p) => Pending(q, p)'
      BY <2>1, Zenon DEF FullInFlight, Pending
    <2>. QED  BY <2>1, <2>2, <2>3, KeepsCache, Zenon DEF IInv
  <1>7. ASSUME NEW r \in Reporters, PostFails(r) \/ PostGoneFails(r) PROVE CacheInv'
    BY <1>7, ResetCache DEF PostFails, PostGoneFails, resetIdentifierCache
  <1>8. CASE Crash
    BY <1>0, <1>8, ResetCache DEF Crash, IInv
  <1>9. ASSUME NEW r \in Reporters, Step(r) PROVE CacheInv'
    BY <1>3, <1>4, <1>5, <1>6, <1>9, IncrementCache, HandleCache, SweepCache DEF Step, Loop
  <1>. QED  BY <1>0, <1>2, <1>7, <1>8, <1>9 DEF Next, IInv

\* The inductive invariant holds at the start.
LEMMA InitIInv == Init => IInv
  <1> SUFFICES ASSUME Init PROVE IInv
    OBVIOUS
  <1>1. TypeOK
    <2>1. /\ podIndexer \in Indexers /\ svcIndexer \in Indexers
          /\ changes \in 0 .. MaxChanges /\ failures \in 0 .. MaxFailures
          /\ crashes \in 0 .. MaxCrashes
      BY DEF Init, Indexers
    <2>2. /\ pods \in [Pods -> PodData] /\ services \in [Pods -> PodLink]
          /\ selectors \in [Pods -> PodLink] /\ pc \in [Reporters -> PCs]
      BY DEF Init, PodLink, PCs
    <2>3. identifiers \in [Pods -> Identifier]
      BY DEF Init, Identifier, NoIdentifier, PodData
    <2>4. server \in [Pods -> ServerPod]
      BY DEF Init, ServerPod, PodData, PodLink
    <2>5. list \in [Reporters -> [Pods -> PodData]] /\ links \in [Reporters -> [Pods -> PodLink]]
      BY DEF Init, PodData, PodLink
    <2>6. /\ infos \in [Reporters -> [Pods -> Infos]]
          /\ todo \in [Reporters -> SUBSET Pods] /\ gone \in [Reporters -> SUBSET Pods]
      BY DEF Init, Infos
    <2>. QED  BY <2>1, <2>2, <2>3, <2>4, <2>5, <2>6 DEF TypeOK
  <1>2. Shape /\ CacheInv
    BY DEF Init, Shape, CacheInv, NoIdentifier
  <1>. QED  BY <1>1, <1>2 DEF IInv

\* The inductive invariant holds in every reachable state.
LEMMA Invariance == Spec => []IInv
  BY InitIInv, StepIInv, PTL DEF Spec

\* Every variable keeps its type.
THEOREM TypeCorrect == Spec => []TypeOK
  <1>1. IInv => TypeOK
    BY DEF IInv
  <1>. QED  BY <1>1, Invariance, PTL

\* However many reports overlap and in whatever order they reach the server,
\* once none is running the cache and the server agree.
THEOREM CacheAgrees == Spec => []CacheMatchesServer
  <1>1. IInv => CacheMatchesServer
    <2> SUFFICES ASSUME IInv, \A r \in Reporters : pc[r] = "idle", NEW p \in Pods,
                        identifiers[p].md5 # NoData
                 PROVE  server[p].data = identifiers[p].md5
      BY DEF CacheMatchesServer
    <2>1. ~Doomed(p)
      BY Zenon DEF Doomed, Pending
    <2>. QED  BY <2>1 DEF IInv, CacheInv, Clean, FullInFlight
  <1>. QED  BY <1>1, Invariance, PTL
-----------------------------------------------------------------------------
(* One report at a time.                                                   *)

\* Without overlap every step keeps SequentialInv.
LEMMA StepSequential ==
  ASSUME Sequential, IInv, SequentialInv, [Next]_vars
  PROVE  SequentialInv'
  <1> DEFINE Carried == \A r \in Reporters, p \in Pods :
                           Pending(r, p) /\ list[r][p] # NoData /\ identifiers[p].md5 # NoData
                           => identifiers[p].curr
  <1>0. TypeOK /\ Shape /\ CacheInv /\ KeyOnlyIsCurrent /\ LiveIsNotReportedGone /\ Carried
    BY DEF IInv, SequentialInv
  <1>1. CASE Cluster \/ UNCHANGED vars
    <2>1. UNCHANGED <<identifiers, server, pc, list, infos, todo, gone>>
      BY <1>1 DEF Cluster, ReflectorSyncs, PodChanges, ServiceChanges, reportVars, vars
    <2>. QED
      BY <1>0, <2>1 DEF SequentialInv, KeyOnlyIsCurrent, LiveIsNotReportedGone, Pending
  <1>2. ASSUME NEW r \in Reporters, Tick(r) \/ List(r) PROVE SequentialInv'
    <2>1. /\ Reporters = {r} /\ UNCHANGED <<identifiers, server>>
          /\ \/ pc'[r] = "list"
             \/ /\ pc'[r] = "increment" /\ \A p \in Pods : infos'[r][p] = "none"
                /\ \A p \in Pods : p \in todo'[r] \/ list'[r][p] = NoData
      <3>1. Reporters = {r} /\ pc \in [Reporters -> PCs]
        BY <1>0 DEF Sequential, TypeOK
      <3>2. CASE Tick(r)
        BY <3>1, <3>2, Zenon DEF Tick, GoTo
      <3>3. CASE List(r)
        BY <1>0, <3>1, <3>3, Zenon DEF List, GoTo, TypeOK
      <3>. QED  BY <1>2, <3>2, <3>3, Zenon
    <2>. QED
      BY <2>1, Zenon DEF SequentialInv, KeyOnlyIsCurrent, LiveIsNotReportedGone, Pending
  <1>3. ASSUME NEW r \in Reporters, NEW p \in Pods, handlePodIncrement(r, p)
        PROVE  SequentialInv'
    <2>1. /\ Reporters = {r} /\ pc[r] = "increment" /\ p \in todo[r]
          /\ todo'[r] = todo[r] \ {p}
          /\ \A q \in Pods \ {p} : infos'[r][q] = infos[r][q] /\ identifiers'[q] = identifiers[q]
          /\ identifiers'[p].curr
          /\ UNCHANGED <<pc, list, server, gone>>
      <3>1. Reporters = {r} /\ pc[r] = "increment" /\ p \in todo[r]
        BY <1>3 DEF handlePodIncrement, Sequential
      <3>2. todo'[r] = todo[r] \ {p} /\ UNCHANGED <<pc, list, server, gone>>
        BY <1>0, <1>3 DEF handlePodIncrement, TypeOK
      <3>3. \A q \in Pods \ {p} : infos'[r][q] = infos[r][q]
        BY <1>0, <1>3 DEF handlePodIncrement, TypeOK
      <3>4. identifiers'[p].curr /\ \A q \in Pods \ {p} : identifiers'[q] = identifiers[q]
        BY <1>0, <1>3 DEF handlePodIncrement, TypeOK, Identifier
      <3>. QED  BY <3>1, <3>2, <3>3, <3>4, Zenon
    <2>2. infos'[r][p] = "key" => identifiers[p].md5 = list[r][p] /\ list[r][p] # NoData
      BY <1>0, <1>3 DEF handlePodIncrement, TypeOK, Shape
    <2>3. infos'[r][p] = "key" => server[p].data = list[r][p]
      <3>1. ~Pending(r, p) /\ ~FullInFlight(r, p)
        BY <1>0, <2>1, Zenon DEF Pending, FullInFlight, Shape
      <3>. QED  BY <1>0, <2>1, <2>2, <3>1, Zenon DEF CacheInv, Clean, Doomed
    <2>4. KeyOnlyIsCurrent'
      <3>1. ASSUME NEW q \in Pods, infos'[r][q] = "key" PROVE server[q].data = list[r][q]
        <4>1. CASE q = p
          BY <2>3, <3>1, <4>1
        <4>2. CASE q # p
          BY <1>0, <2>1, <3>1, <4>2, Zenon DEF KeyOnlyIsCurrent
        <4>. QED  BY <4>1, <4>2
      <3>2. ASSUME NEW t \in Reporters, NEW q \in Pods, infos'[t][q] = "key"
            PROVE  server'[q].data = list'[t][q]
        <4>1. t = r /\ server' = server /\ list' = list
          BY <2>1
        <4>. QED  BY <3>1, <3>2, <4>1, Zenon
      <3>. QED  BY <3>2, Zenon DEF KeyOnlyIsCurrent
    <2>5. LiveIsNotReportedGone'
      BY <2>1, Zenon DEF LiveIsNotReportedGone
    <2>6. \A q \in Pods : Pending(r, q)' /\ list'[r][q] # NoData /\ identifiers'[q].md5 # NoData
                          => identifiers'[q].curr
      BY <1>0, <2>1, Zenon DEF SequentialInv, Pending
    <2>. QED
      BY <2>1, <2>4, <2>5, <2>6 DEF SequentialInv
  <1>4. ASSUME NEW r \in Reporters, Post(r) \/ Answered(r) \/ GoneAnswered(r)
        PROVE  SequentialInv'
    <2>1. /\ Reporters = {r} /\ UNCHANGED <<identifiers, server, list, infos, gone>>
          /\ \/ pc[r] = "increment" /\ todo[r] = {} /\ pc'[r] \in {"post", "sweep"}
             \/ pc[r] = "answered" /\ pc'[r] = "cids"
             \/ pc'[r] = "idle"
      <3>1. Reporters = {r} /\ pc \in [Reporters -> PCs]
        BY <1>0 DEF Sequential, TypeOK
      <3>2. UNCHANGED <<identifiers, server, list, infos, gone>>
        BY <1>4 DEF Post, Answered, GoneAnswered, reportVars
      <3>3. CASE Post(r)
        BY <3>1, <3>2, <3>3 DEF Post, GoTo
      <3>4. CASE Answered(r)
        BY <3>1, <3>2, <3>4 DEF Answered, GoTo
      <3>5. CASE GoneAnswered(r)
        BY <3>1, <3>2, <3>5 DEF GoneAnswered, GoTo
      <3>. QED  BY <1>4, <3>3, <3>4, <3>5, Zenon
    <2>2. KeyOnlyIsCurrent'
      <3>1. pc'[r] \in {"increment", "post"} => pc[r] \in {"increment", "post"}
        BY <2>1
      <3>2. ASSUME NEW p \in Pods, pc'[r] \in {"increment", "post"}, infos[r][p] = "key"
            PROVE  server[p].data = list[r][p]
        BY <1>0, <3>1, <3>2 DEF KeyOnlyIsCurrent
      <3>. QED  BY <2>1, <3>2 DEF KeyOnlyIsCurrent
    <2>3. LiveIsNotReportedGone'
      <3>1. pc'[r] \notin {"postGone", "answeredGone"}
        BY <2>1, Zenon
      <3>. QED  BY <2>1, <3>1, Zenon DEF LiveIsNotReportedGone
    <2>4. \A p \in Pods : Pending(r, p)' => Pending(r, p)
      BY <2>1 DEF Pending
    <2>. QED  BY <1>0, <2>1, <2>2, <2>3, <2>4, Zenon DEF SequentialInv
  <1>5. ASSUME NEW r \in Reporters, ServerHandles(r) \/ ServerHandlesGone(r)
        PROVE  SequentialInv'
    <2>1. /\ Reporters = {r} /\ UNCHANGED <<identifiers, list, infos, gone>>
          /\ \/ pc[r] = "post" /\ pc'[r] = "answered"
             \/ pc[r] = "postGone" /\ pc'[r] = "answeredGone"
      BY <1>0, <1>5 DEF ServerHandles, ServerHandlesGone, GoTo, reportVars, TypeOK, Sequential
    <2>2. KeyOnlyIsCurrent'
      <3>1. pc'[r] \notin {"increment", "post"}
        BY <2>1
      <3>. QED  BY <2>1, <3>1 DEF KeyOnlyIsCurrent
    <2>3. LiveIsNotReportedGone'
      <3>1. ASSUME pc'[r] \in {"postGone", "answeredGone"}, NEW p \in gone[r]
            PROVE  list[r][p] = NoData
        <4>1. pc[r] = "postGone"
          BY <2>1, <3>1
        <4>. QED  BY <1>0, <4>1 DEF LiveIsNotReportedGone
      <3>. QED  BY <2>1, <3>1 DEF LiveIsNotReportedGone
    <2>4. \A p \in Pods : Pending(r, p)' => Pending(r, p)
      BY <2>1 DEF Pending
    <2>. QED  BY <1>0, <2>1, <2>2, <2>3, <2>4 DEF SequentialInv
  <1>6. ASSUME NEW r \in Reporters, NEW s \in Pods, SetCid(r, s) PROVE SequentialInv'
    <2>1. /\ Reporters = {r} /\ UNCHANGED <<server, list, infos, gone>>
          /\ pc[r] = "cids" /\ pc'[r] \in {"cids", "sweep"}
      BY <1>0, <1>6 DEF SetCid, GoTo, TypeOK, Sequential
    <2>2. \A p \in Pods : /\ identifiers'[p].md5 = identifiers[p].md5
                          /\ identifiers'[p].curr = identifiers[p].curr
      BY <1>0, <1>6, SetCidFacts, Zenon
    <2>. QED
      BY <1>0, <2>1, <2>2, Zenon DEF SequentialInv, KeyOnlyIsCurrent, LiveIsNotReportedGone, Pending
  <1>7. ASSUME NEW r \in Reporters, Sweep(r) PROVE SequentialInv'
    <2>1. /\ Reporters = {r} /\ UNCHANGED <<server, list, infos>>
          /\ pc[r] = "sweep" /\ pc'[r] \in {"idle", "postGone"}
      BY <1>0, <1>7 DEF Sweep, GoTo, TypeOK, Sequential
    <2>2. /\ gone' \in [Reporters -> SUBSET Pods]
          /\ \A p \in gone'[r] : identifiers[p].md5 # NoData /\ ~identifiers[p].curr
      BY <1>0, <1>7, SweepFacts, Zenon
    <2>3. \A p \in gone'[r] : list[r][p] = NoData
      BY <1>0, <2>1, <2>2 DEF Pending
    <2>. QED
      BY <2>1, <2>3, Zenon DEF SequentialInv, KeyOnlyIsCurrent, LiveIsNotReportedGone, Pending
  <1>8. ASSUME NEW r \in Reporters, PostFails(r) \/ PostGoneFails(r) PROVE SequentialInv'
    <2>1. /\ Reporters = {r} /\ UNCHANGED <<server, list, infos, gone>>
          /\ pc'[r] \in {"sweep", "idle"} /\ \A p \in Pods : identifiers'[p].md5 = NoData
      <3>1. Reporters = {r} /\ pc \in [Reporters -> PCs]
        BY <1>0 DEF Sequential, TypeOK
      <3>2. \A p \in Pods : identifiers'[p].md5 = NoData
        <4>1. identifiers' = [p \in Pods |-> NoIdentifier]
          BY <1>8 DEF PostFails, PostGoneFails, resetIdentifierCache
        <4>. QED  BY <4>1 DEF NoIdentifier
      <3>3. UNCHANGED <<server, list, infos, gone>>
        BY <1>8 DEF PostFails, PostGoneFails, reportVars
      <3>4. pc'[r] \in {"sweep", "idle"}
        BY <1>8, <3>1 DEF PostFails, PostGoneFails, GoTo
      <3>. QED  BY <3>1, <3>2, <3>3, <3>4
    <2>. QED
      BY <2>1, Zenon DEF SequentialInv, KeyOnlyIsCurrent, LiveIsNotReportedGone, Pending
  <1>9. CASE Crash
    BY <1>9, Zenon DEF Crash, SequentialInv, KeyOnlyIsCurrent, LiveIsNotReportedGone, Pending
  <1>. QED
    BY <1>1, <1>2, <1>3, <1>4, <1>5, <1>6, <1>7, <1>8, <1>9 DEF Next, Step, Loop

\* Without overlap SequentialInv holds in every reachable state.
LEMMA SequentialInvariance == ASSUME Sequential PROVE Spec => []SequentialInv
  <1>1. Init => SequentialInv
    BY DEF Init, SequentialInv, KeyOnlyIsCurrent, LiveIsNotReportedGone, Pending
  <1>2. IInv /\ SequentialInv /\ [Next]_vars => SequentialInv'
    BY StepSequential
  <1>. QED  BY <1>1, <1>2, Invariance, PTL DEF Spec

\* As long as reports do not overlap, a pod is reported by its key alone only
\* when the server holds exactly the listed data.
THEOREM KeyOnlyCurrent == ASSUME Sequential PROVE Spec => []KeyOnlyIsCurrent
  <1>1. SequentialInv => KeyOnlyIsCurrent
    BY Zenon DEF SequentialInv
  <1>. QED  BY <1>1, SequentialInvariance, PTL

\* As long as reports do not overlap, no listed pod is reported as gone.
THEOREM LiveNotGone == ASSUME Sequential PROVE Spec => []LiveIsNotReportedGone
  <1>1. SequentialInv => LiveIsNotReportedGone
    BY Zenon DEF SequentialInv
  <1>. QED  BY <1>1, SequentialInvariance, PTL
-----------------------------------------------------------------------------
(* One report at a time implements the replica.                            *)

\* A pod that a report has dealt with is in it just when it was listed.
Whole(r, p) ==
    pc[r] = "post" \/ (pc[r] = "increment" /\ p \notin todo[r])
    => (infos[r][p] = "none" <=> list[r][p] = NoData)

Complete == \A r \in Reporters, p \in Pods : Whole(r, p)

\* Every step keeps reports complete, however they overlap.
LEMMA StepComplete ==
  ASSUME TypeOK, Shape, Complete, [Next]_vars
  PROVE  Complete'
  <1> SUFFICES ASSUME NEW q \in Reporters, NEW s \in Pods PROVE Whole(q, s)'
    BY DEF Complete
  <1>0. Whole(q, s)
    BY DEF Complete
  <1>1. CASE Cluster \/ UNCHANGED vars
    <2>1. UNCHANGED <<pc, list, infos, todo>>
      BY <1>1 DEF Cluster, ReflectorSyncs, PodChanges, ServiceChanges, reportVars, vars
    <2>. QED  BY <1>0, <2>1, Zenon DEF Whole
  <1>2. ASSUME NEW r \in Reporters, List(r) PROVE Whole(q, s)'
    <2>1. /\ infos'[r][s] = "none"
          /\ s \notin todo'[r] => list'[r][s] = NoData
          /\ pc'[r] = "increment"
          /\ q # r => /\ pc'[q] = pc[q] /\ list'[q] = list[q]
                      /\ infos'[q] = infos[q] /\ todo'[q] = todo[q]
      BY <1>2 DEF List, GoTo, TypeOK
    <2>. QED  BY <1>0, <2>1, Zenon DEF Whole
  <1>3. ASSUME NEW r \in Reporters, NEW p \in Pods, handlePodIncrement(r, p)
        PROVE  Whole(q, s)'
    <2>1. /\ infos'[r][p] \in {"full", "key"} /\ list[r][p] # NoData
          /\ pc[r] = "increment" /\ UNCHANGED <<pc, list>>
          /\ s # p => infos'[r][s] = infos[r][s] /\ (s \in todo'[r] <=> s \in todo[r])
          /\ q # r => infos'[q] = infos[q] /\ todo'[q] = todo[q]
      BY <1>3, Zenon DEF handlePodIncrement, TypeOK, Shape
    <2>. QED  BY <1>0, <2>1, Zenon DEF Whole
  <1>4. ASSUME NEW r \in Reporters, Post(r) PROVE Whole(q, s)'
    <2>1. /\ pc[r] = "increment" /\ todo[r] = {} /\ UNCHANGED <<list, infos, todo>>
          /\ pc'[r] \in {"post", "sweep"}
          /\ q # r => pc'[q] = pc[q]
      BY <1>4 DEF Post, GoTo, reportVars, TypeOK
    <2>. QED  BY <1>0, <2>1, Zenon DEF Whole
  <1>5. ASSUME NEW r \in Reporters,
               \/ Tick(r) \/ ServerHandles(r) \/ Answered(r) \/ Sweep(r)
               \/ ServerHandlesGone(r) \/ GoneAnswered(r) \/ PostFails(r) \/ PostGoneFails(r)
        PROVE  Whole(q, s)'
    <2>1. /\ pc'[r] \notin {"post", "increment"} /\ UNCHANGED <<list, infos>>
          /\ q # r => pc'[q] = pc[q] /\ todo'[q] = todo[q]
      BY <1>5 DEF Tick, ServerHandles, Answered, Sweep, ServerHandlesGone, GoneAnswered,
                  PostFails, PostGoneFails, GoTo, reportVars, TypeOK
    <2>. QED  BY <1>0, <2>1, Zenon DEF Whole
  <1>6. ASSUME NEW r \in Reporters, NEW p \in Pods, SetCid(r, p) PROVE Whole(q, s)'
    <2>1. /\ pc'[r] \in {"cids", "sweep"} /\ UNCHANGED <<list, infos>>
          /\ q # r => pc'[q] = pc[q] /\ todo'[q] = todo[q]
      BY <1>6 DEF SetCid, GoTo, TypeOK
    <2>. QED  BY <1>0, <2>1, Zenon DEF Whole
  <1>7. CASE Crash
    BY <1>7 DEF Crash, Whole
  <1>. QED  BY <1>1, <1>2, <1>3, <1>4, <1>5, <1>6, <1>7 DEF Next, Step, Loop

\* What a request does to the exist flags.
LEMMA ServerExists ==
  ASSUME TypeOK, NEW r \in Reporters, NEW p \in Pods
  PROVE  /\ ServerHandles(r) =>
              server'[p].exist = (IF infos[r][p] = "none" THEN server[p].exist ELSE TRUE)
         /\ ServerHandlesGone(r) =>
              server'[p].exist = (IF p \in gone[r] THEN FALSE ELSE server[p].exist)
  <1>1. server[p] \in ServerPod /\ infos[r][p] \in Infos
    BY DEF TypeOK
  <1>2. \A b \in BOOLEAN : [server[p] EXCEPT !.exist = b].exist = b
    BY <1>1 DEF ServerPod
  <1>3. ASSUME ServerHandles(r)
        PROVE  server'[p].exist = (IF infos[r][p] = "none" THEN server[p].exist ELSE TRUE)
    <2>1. /\ infos[r][p] = "full" => server'[p] = [exist |-> TRUE, data |-> list[r][p],
                                                  link |-> links[r][p]]
          /\ infos[r][p] = "key" => server'[p] = [server[p] EXCEPT !.exist = TRUE]
          /\ infos[r][p] = "none" => server'[p] = server[p]
      BY <1>3 DEF ServerHandles
    <2>2. CASE infos[r][p] = "full"
      <3>1. server'[p].exist = TRUE
        BY <2>1, <2>2
      <3>2. infos[r][p] # "none"
        BY <2>2
      <3>. QED  BY <3>1, <3>2, Zenon
    <2>3. CASE infos[r][p] = "key"
      BY <1>2, <2>1, <2>3, Zenon
    <2>4. CASE infos[r][p] = "none"
      BY <2>1, <2>4
    <2>. QED  BY <1>1, <2>2, <2>3, <2>4, Zenon DEF Infos
  <1>4. ASSUME ServerHandlesGone(r)
        PROVE  server'[p].exist = (IF p \in gone[r] THEN FALSE ELSE server[p].exist)
    <2>1. /\ p \in gone[r] => server'[p] = [server[p] EXCEPT !.exist = FALSE]
          /\ p \notin gone[r] => server'[p] = server[p]
      BY <1>4 DEF ServerHandlesGone
    <2>. QED  BY <1>2, <2>1, Zenon
  <1>. QED  BY <1>3, <1>4, Zenon

\* A step of the only reporter is a step of the replica or leaves it alone.
LEMMA StepReplica ==
  ASSUME NEW r, Reporters = {r}, IInv, SequentialInv, Complete, [Next]_vars
  PROVE  [Replica!Next]_Replica!vars
  <1>0. TypeOK /\ r \in Reporters /\ TheReporter = r /\ list[r] \in [Pods -> PodData]
    BY DEF IInv, TypeOK, TheReporter
  <1>1. CASE UNCHANGED <<pods, list, server>>
    BY <1>1 DEF Replica!vars
  <1>2. ASSUME NEW p \in Pods, PodChanges(p) PROVE Replica!Change
    BY <1>2, Zenon DEF PodChanges, reportVars, PodData, Replica!Change
  <1>3. CASE List(r)
    <2>1. /\ list'[r] \in {pods, [p \in Pods |-> NoData]}
          /\ UNCHANGED <<pods, server>>
      BY <1>0, <1>3 DEF List, clusterVars, TypeOK
    <2>. QED  BY <1>0, <2>1, Zenon DEF Replica!Look, Replica!Next
  <1>4. CASE ServerHandles(r)
    <2>1. pc[r] = "post" /\ UNCHANGED <<pods, list>>
      BY <1>4 DEF ServerHandles, clusterVars, reportVars
    <2>2. ASSUME NEW p \in Pods
          PROVE  /\ server'[p].exist = (server[p].exist \/ list[r][p] # NoData)
                 /\ server'[p].data = IF list[r][p] # NoData THEN list[r][p]
                                      ELSE server[p].data
      <3>1. infos[r][p] \in {"none", "full", "key"} /\ server[p].exist \in BOOLEAN
        <4>1. infos[r][p] \in Infos /\ server[p] \in ServerPod
          BY <1>0 DEF TypeOK
        <4>. QED  BY <4>1, Zenon DEF Infos, ServerPod
      <3>2. infos[r][p] = "none" <=> list[r][p] = NoData
        BY <1>0, <2>1 DEF Complete, Whole
      <3>3. infos[r][p] = "key" => server[p].data = list[r][p]
        BY <1>0, <2>1 DEF SequentialInv, KeyOnlyIsCurrent
      <3>4. server'[p].data = IF infos[r][p] = "full" THEN list[r][p] ELSE server[p].data
        BY <1>0, <1>4, <2>1, ServerFacts, Zenon
      <3>5. server'[p].exist = (IF infos[r][p] = "none" THEN server[p].exist ELSE TRUE)
        BY <1>0, <1>4, ServerExists, Zenon
      <3>. QED  BY <3>1, <3>2, <3>3, <3>4, <3>5, Zenon
    <2>. QED  BY <1>0, <2>1, <2>2, Zenon DEF Replica!Receive, Replica!Next
  <1>5. CASE ServerHandlesGone(r)
    <2>1. pc[r] = "postGone" /\ UNCHANGED <<pods, list>>
      BY <1>5 DEF ServerHandlesGone, clusterVars, reportVars
    <2>2. gone[r] \in SUBSET {p \in Pods : list[r][p] = NoData}
      BY <1>0, <2>1 DEF SequentialInv, LiveIsNotReportedGone, TypeOK
    <2>3. ASSUME NEW p \in Pods
          PROVE  /\ server'[p].exist = (server[p].exist /\ p \notin gone[r])
                 /\ server'[p].data = server[p].data
      <3>1. server[p].exist \in BOOLEAN
        BY <1>0 DEF TypeOK, ServerPod
      <3>2. server'[p].exist = (IF p \in gone[r] THEN FALSE ELSE server[p].exist)
        BY <1>0, <1>5, ServerExists, Zenon
      <3>3. server'[p].data = server[p].data
        BY <1>0, <1>5, <2>1, ServerFacts, Zenon
      <3>. QED  BY <3>1, <3>2, <3>3, Zenon
    <2>. QED  BY <1>0, <2>1, <2>2, <2>3, Zenon DEF Replica!Drop, Replica!Next
  <1>6. \/ UNCHANGED <<pods, list, server>>
        \/ \E p \in Pods : PodChanges(p)
        \/ List(r) \/ ServerHandles(r) \/ ServerHandlesGone(r)
    BY DEF Next, Cluster, ReflectorSyncs, ServiceChanges, Step, Loop, Tick, handlePodIncrement,
           Post, Answered, SetCid, Sweep, GoneAnswered, PostFails, PostGoneFails, Crash,
           clusterVars, reportVars, vars
  <1>. QED  BY <1>1, <1>2, <1>3, <1>4, <1>5, <1>6 DEF Replica!Next

\* An agent with one report at a time keeps the server's copy of the pods as
\* one would that sends everything each time.
THEOREM Increments == ASSUME NEW r, Reporters = {r} PROVE Spec => ImplementsReplica
  <1>1. Sequential
    BY DEF Sequential
  <1>2. Init => Replica!Init
    <2> SUFFICES ASSUME Init PROVE Replica!Init
      OBVIOUS
    <2>1. TheReporter = r
      BY DEF TheReporter
    <2>2. list[TheReporter] = [p \in Pods |-> NoData]
      BY <2>1 DEF Init
    <2>3. \A p \in Pods : server[p].exist = FALSE /\ server[p].data = NoData
      BY DEF Init
    <2>4. pods \in [Pods -> Data \cup {NoData}]
      BY DEF Init, PodData
    <2>. QED  BY <2>2, <2>3, <2>4, Zenon DEF Replica!Init
  <1>3. Init => Complete
    BY DEF Init, Complete, Whole
  <1>4. IInv /\ Complete /\ [Next]_vars => Complete'
    BY StepComplete DEF IInv
  <1>5. IInv /\ SequentialInv /\ Complete /\ [Next]_vars => [Replica!Next]_Replica!vars
    BY StepReplica
  <1>6. Spec => []IInv /\ []SequentialInv
    BY <1>1, Invariance, SequentialInvariance
  <1>. QED  BY <1>2, <1>3, <1>4, <1>5, <1>6, PTL DEF Spec, ImplementsReplica, Replica!Spec
=============================================================================
