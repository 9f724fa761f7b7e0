--------------------- MODULE ChaosbladeHandlerProofs ------------------------
(***************************************************************************)
(* Theorems about ChaosbladeHandler, for any set of requests, uids and     *)
(* command lines and any number of crashes.                                *)
(*                                                                         *)
(* IInv ties every uid to the one request that created it (Ownership) and  *)
(* says that this request has ended before the uid can be known to the     *)
(* server or to a checker (Settled).  That is why no goroutine can write an*)
(* entry for a uid after a later request removed it.  The last part shows  *)
(* from IInv that the running map is the book of ExperimentRegister.       *)
(***************************************************************************)
EXTENDS ChaosbladeHandlerTypes

-----------------------------------------------------------------------------
(* The invariant of the running map.                                       *)

\* blade knows a uid from the moment one request created it.
Ownership ==
    /\ \A u \in Uids : (blade[u] = "None") <=> (maker[u] = NoRequest)
    /\ \A r \in Requests :
          isCreateOrPrepareCmd(cmd[r]) /\ out[r].kind \in SuccessKinds
          => maker[out[r].uid] = r

\* Only a success reaches the mutex; a destroy there has stopped its experiment.
Locked ==
    \A r \in Requests : pc[r] \in {"lock", "critical"} =>
        /\ out[r].kind \in SuccessKinds
        /\ isDestroyOrRevokeCmd(cmd[r]) => blade[cmd[r].uid] = "Stopped"

\* The request that created uid u has ended.
MakerDone(u) == maker[u] \in Requests /\ pc[maker[u]] = "done"

\* A uid the server was told of, or an installation checker works on, belongs
\* to a request that has ended.
Settled ==
    /\ \A u \in acked : MakerDone(u)
    /\ \A r \in Requests : \A u \in ackedAt[r] : MakerDone(u)
    /\ \A r \in Requests : chk[r].pc # "none" /\ chk[r].uri = "javaInstall" =>
          /\ MakerDone(chk[r].uid)
          /\ chk[r].status = "Error" => blade[chk[r].uid] \in {"Error", "Stopped"}

\* A revoke in its query has taken its uid out of the map.
QueryCleared ==
    \A r \in Requests :
        pc[r] = "query" /\ cmd[r].uid \in ackedAt[r] => running[cmd[r].uid] = NoRequest

IInv ==
    /\ TypeOK /\ Shape /\ Ownership /\ MutexDiscipline /\ Locked /\ Settled
    /\ RunningIsGenuine /\ ActiveIsTracked /\ QueryCleared /\ NoResurrection
    /\ FailedInstallIsForgotten
-----------------------------------------------------------------------------
(* The safety part of the invariant.                                       *)

Safe ==
    /\ Settled /\ RunningIsGenuine /\ ActiveIsTracked /\ QueryCleared
    /\ NoResurrection /\ FailedInstallIsForgotten

\* The initial states satisfy the inductive invariant.
LEMMA InitIInv == Init => IInv
  <1> SUFFICES ASSUME Init PROVE IInv
    OBVIOUS
  <1>1. Ownership /\ MutexDiscipline /\ Locked
    BY NullValues DEF Init, Ownership, MutexDiscipline, Locked, NoOutcome, SuccessKinds
  <1>2. Safe
    BY DEF Init, Safe, Settled, RunningIsGenuine, ActiveIsTracked, QueryCleared,
           NoResurrection, FailedInstallIsForgotten, NoChecker
  <1>. QED  BY <1>1, <1>2, InitTypes DEF IInv, Safe

\* A step of a request outside the mutex keeps the safety part: it leaves the
\* running map, the checkers and what was told to the server alone.
LEMMA QuietStep ==
  ASSUME IInv, TypeOK', NEW r \in Requests,
         pc[r] # "done", pc'[r] # "query",
         pc'[r] = "done" /\ reply'[r] = "success" => ~isDestroyOrRevokeCmd(cmd'[r]),
         \A q \in Requests \ {r} : /\ pc'[q] = pc[q] /\ cmd'[q] = cmd[q]
                                   /\ out'[q] = out[q] /\ reply'[q] = reply[q]
                                   /\ ackedAt'[q] = ackedAt[q],
         ackedAt'[r] \in {ackedAt[r], acked},
         \A u \in Uids : blade[u] # "None" =>
               blade'[u] \in {blade[u], "Stopped"} /\ maker'[u] = maker[u],
         UNCHANGED <<running, chk, acked>>
  PROVE  Safe'
  <1> USE DEF IInv
  <1>1. \A u \in Uids : MakerDone(u) => /\ maker'[u] = maker[u] /\ MakerDone(u)'
                                        /\ blade[u] # "None"
                                        /\ out'[maker[u]] = out[maker[u]]
    BY NullValues DEF MakerDone, Ownership, TypeOK
  <1>2. \A q \in Requests : chk[q].pc # "none" => chk[q].uid \in Uids
    BY DEF Shape
  <1>3. Settled'
    <2>1. \A u \in acked' : MakerDone(u)'
      BY <1>1 DEF Settled, TypeOK
    <2>2. \A q \in Requests : \A u \in ackedAt'[q] : MakerDone(u)'
      BY <1>1 DEF Settled, TypeOK
    <2>3. ASSUME NEW q \in Requests, chk'[q].pc # "none", chk'[q].uri = "javaInstall"
          PROVE  (/\ MakerDone(chk[q].uid)
                  /\ chk[q].status = "Error" => blade[chk[q].uid] \in {"Error", "Stopped"})'
      <3>1. chk'[q] = chk[q] /\ chk[q].uid \in Uids /\ MakerDone(chk[q].uid)
        BY <2>3, <1>2 DEF Settled
      <3>2. chk[q].status = "Error" => blade[chk[q].uid] \in {"Error", "Stopped"}
        BY <2>3, <3>1 DEF Settled
      <3>. QED  BY <1>1, <3>1, <3>2 DEF MakerDone
    <2>. QED  BY <2>1, <2>2, <2>3 DEF Settled
  <1>4. RunningIsGenuine'
    BY <1>1 DEF RunningIsGenuine, Settled, MakerDone, TypeOK
  <1>5. ActiveIsTracked'
    BY <1>1 DEF ActiveIsTracked, Settled, TypeOK
  <1>6. QueryCleared'
    BY DEF QueryCleared
  <1>7. NoResurrection'
    BY DEF NoResurrection
  <1>8. FailedInstallIsForgotten'
    BY DEF FailedInstallIsForgotten
  <1>. QED  BY <1>3, <1>4, <1>5, <1>6, <1>7, <1>8 DEF Safe

\* Recording a create: its uid is new to the map, since whoever knows the uid
\* otherwise knows it from an ended request, and this one has not ended.
LEMMA RecordStep ==
  ASSUME IInv, TypeOK', NEW r \in Requests, RecordRunning(r)
  PROVE  Ownership' /\ MutexDiscipline' /\ Locked' /\ Safe'
  <1> USE DEF IInv, UnlockAndReply, Finish, GoTo, bladeVars, historyVars
  <1>1. /\ pc[r] = "critical" /\ isCreateOrPrepareCmd(cmd[r])
        /\ ~isDestroyOrRevokeCmd(cmd[r])
        /\ out[r].uid \in Uids /\ maker[out[r].uid] = r
        /\ pc' = [pc EXCEPT ![r] = "done"] /\ mutex' = NoRequest
        /\ UNCHANGED <<cmd, out, blade, maker, ackedAt>>
    BY DEF RecordRunning, Locked, Shape, Ownership, isCreateOrPrepareCmd,
           isDestroyOrRevokeCmd, PrepareOperation, CreateOperation, RevokeOperation,
           DestroyOperation
  <1>2. Ownership'
    BY <1>1 DEF Ownership
  <1>3. MutexDiscipline'
    BY <1>1, NullValues DEF MutexDiscipline, TypeOK
  <1>4. Locked'
    BY <1>1 DEF Locked, TypeOK
  <1>5. \A u \in Uids : MakerDone(u) => MakerDone(u)' /\ u # out[r].uid
    BY <1>1 DEF MakerDone, TypeOK
  <1>6. MakerDone(out[r].uid)'
    BY <1>1 DEF MakerDone, TypeOK
  <1>7. CASE out[r].kind = "object"
    <2>1. UNCHANGED <<running, chk, acked>> /\ reply'[r] = "aborted"
      BY <1>7 DEF RecordRunning, TypeOK, Replies
    <2>2. \A u \in Uids : blade[u] # "None" =>
             blade'[u] \in {blade[u], "Stopped"} /\ maker'[u] = maker[u]
      BY <1>1
    <2>3. \A q \in Requests \ {r} : pc'[q] = pc[q] /\ reply'[q] = reply[q]
      BY <1>1, <1>7 DEF RecordRunning, TypeOK
    <2>4. pc'[r] = "done"
      BY <1>1 DEF TypeOK
    <2>5. Safe'
      BY <1>1, <2>1, <2>2, <2>3, <2>4, QuietStep
    <2>. QED  BY <1>2, <1>3, <1>4, <2>5
  <1>8. CASE out[r].kind = "string"
    <2>1. /\ running' = [running EXCEPT ![out[r].uid] = r]
          /\ acked' = acked \cup {out[r].uid}
          /\ reply' = [reply EXCEPT ![r] = "success"]
      BY <1>8 DEF RecordRunning
    <2>2. /\ \A q \in Requests \ {r} : chk'[q] = chk[q]
          /\ \/ chk'[r] = chk[r]
             \/ chk'[r].uid = out[r].uid /\ chk'[r].status = "Unknown"
      BY <1>1, <1>8, SpawnCheckerFacts DEF RecordRunning, Uris
    <2>3. \A q \in Requests : chk[q].pc # "none" => chk[q].uid \in Uids
      BY DEF Shape
    <2>4. Settled'
      <3>1. \A u \in acked' : MakerDone(u)'
        BY <1>1, <1>5, <1>6, <2>1 DEF Settled, MakerDone, TypeOK
      <3>2. \A q \in Requests : \A u \in ackedAt'[q] : MakerDone(u)'
        BY <1>1, <1>5 DEF Settled, TypeOK
      <3>3. ASSUME NEW q \in Requests, chk'[q].pc # "none", chk'[q].uri = "javaInstall"
            PROVE  (/\ MakerDone(chk[q].uid)
                    /\ chk[q].status = "Error"
                         => blade[chk[q].uid] \in {"Error", "Stopped"})'
        <4>1. CASE chk'[q] = chk[q]
          <5>1. /\ chk[q].uid \in Uids /\ MakerDone(chk[q].uid)
                /\ chk[q].status = "Error" => blade[chk[q].uid] \in {"Error", "Stopped"}
            BY <2>3, <3>3, <4>1 DEF Settled
          <5>2. \A u \in Uids : MakerDone(u) => maker'[u] \in Requests
                                               /\ pc'[maker'[u]] = "done"
            BY <1>5 DEF MakerDone
          <5>3. blade' = blade
            BY <1>1
          <5> HIDE DEF IInv
          <5>. QED  BY <4>1, <5>1, <5>2, <5>3 DEF MakerDone
        <4>2. CASE q = r /\ chk'[r].uid = out[r].uid /\ chk'[r].status = "Unknown"
          BY <1>1, <1>6, <4>2 DEF MakerDone
        <4>. QED  BY <2>2, <4>1, <4>2
      <3>. QED  BY <3>1, <3>2, <3>3 DEF Settled
    <2>5. RunningIsGenuine'
      <3>1. out[r] = [kind |-> "string", uid |-> out[r].uid]
        BY <1>8 DEF TypeOK, Outcome
      <3>. QED  BY <1>1, <2>1, <3>1 DEF RunningIsGenuine, TypeOK
    <2>6. ActiveIsTracked'
      BY <1>1, <2>1, NullValues DEF ActiveIsTracked, TypeOK
    <2>7. QueryCleared'
      BY <1>1, <1>5, <2>1 DEF QueryCleared, Settled, TypeOK
    <2>8. NoResurrection'
      BY <1>1, <1>5, <2>1 DEF NoResurrection, Settled, TypeOK
    <2>9. FailedInstallIsForgotten'
      <3>1. ASSUME NEW q \in Requests, chk'[q].uri = "javaInstall",
                   chk'[q].status = "Error",
                   chk'[q].pc \in {"report", "reported", "unreported"}
            PROVE  running'[chk'[q].uid] = NoRequest
        <4>1. chk'[q] = chk[q]
          BY <2>2, <3>1
        <4>2. chk[q].uid \in Uids /\ MakerDone(chk[q].uid)
          BY <2>3, <3>1, <4>1 DEF Settled
        <4>. QED  BY <1>5, <2>1, <3>1, <4>1, <4>2 DEF FailedInstallIsForgotten, TypeOK
      <3>. QED  BY <3>1 DEF FailedInstallIsForgotten
    <2>. QED  BY <1>2, <1>3, <1>4, <2>4, <2>5, <2>6, <2>7, <2>8, <2>9 DEF Safe
  <1>. QED  BY <1>7, <1>8 DEF RecordRunning

\* Removing a uid: the entry was recorded by a request that has ended.
LEMMA RemoveStep ==
  ASSUME IInv, TypeOK', NEW r \in Requests, RemoveRunning(r)
  PROVE  Ownership' /\ MutexDiscipline' /\ Locked' /\ Safe'
  <1> USE DEF IInv, UnlockAndReply, Finish, GoTo, bladeVars, historyVars
  <1>1. /\ pc[r] = "critical" /\ isDestroyOrRevokeCmd(cmd[r])
        /\ cmd[r].uid \in Uids /\ blade[cmd[r].uid] = "Stopped"
        /\ running' = [running EXCEPT ![cmd[r].uid] = NoRequest]
        /\ UNCHANGED <<cmd, out, chk, blade, maker, acked, ackedAt>>
    BY DestroyHasUid DEF RemoveRunning, Locked, Shape, isDestroyOrRevokeCmd
  <1>2. /\ \/ pc' = [pc EXCEPT ![r] = "query"] /\ UNCHANGED <<mutex, reply>>
           \/ pc' = [pc EXCEPT ![r] = "done"] /\ mutex' = NoRequest
        /\ \A q \in Requests \ {r} : pc'[q] = pc[q] /\ reply'[q] = reply[q]
    BY DEF RemoveRunning, TypeOK
  <1>3. Ownership'
    BY <1>1 DEF Ownership
  <1>4. MutexDiscipline'
    BY <1>1, <1>2, NullValues DEF MutexDiscipline, TypeOK
  <1>5. Locked'
    BY <1>1, <1>2 DEF Locked, TypeOK
  <1>6. \A u \in Uids : MakerDone(u) => MakerDone(u)'
    BY <1>1, <1>2 DEF MakerDone, TypeOK
  <1>7. Settled'
    <2>1. \A q \in Requests : chk[q].pc # "none" => chk[q].uid \in Uids
      BY DEF Shape
    <2>. QED  BY <1>1, <1>6, <2>1 DEF Settled, MakerDone, TypeOK
  <1>8. RunningIsGenuine'
    BY <1>1 DEF RunningIsGenuine, TypeOK
  <1>9. ActiveIsTracked'
    BY <1>1 DEF ActiveIsTracked, TypeOK
  <1>10. QueryCleared'
    BY <1>1, <1>2 DEF QueryCleared, TypeOK
  <1>11. NoResurrection'
    BY <1>1, <1>2 DEF NoResurrection, TypeOK
  <1>12. FailedInstallIsForgotten'
    BY <1>1 DEF FailedInstallIsForgotten, TypeOK
  <1>. QED
    BY <1>3, <1>4, <1>5, <1>7, <1>8, <1>9, <1>10, <1>11, <1>12 DEF Safe

\* The end of a revoke: the map is left as RemoveRunning made it.
LEMMA RevokeStep ==
  ASSUME IInv, TypeOK', NEW r \in Requests, RevokeQueryReturns(r)
  PROVE  Ownership' /\ MutexDiscipline' /\ Locked' /\ Safe'
  <1> USE DEF IInv, UnlockAndReply, Finish, GoTo, bladeVars, historyVars
  <1>1. /\ pc[r] = "query" /\ cmd[r].uid \in Uids
        /\ pc' = [pc EXCEPT ![r] = "done"] /\ mutex' = NoRequest
        /\ reply' = [reply EXCEPT ![r] = "success"]
        /\ UNCHANGED <<cmd, out, running, blade, maker, acked, ackedAt>>
    BY DestroyHasUid DEF RevokeQueryReturns, Shape, isDestroyOrRevokeCmd
  <1>2. /\ \A q \in Requests \ {r} : chk'[q] = chk[q]
        /\ chk'[r] = chk[r] \/ chk'[r].uri = "javaUninstall"
    BY <1>1, SpawnCheckerFacts DEF RevokeQueryReturns, Uris
  <1>3. Ownership'
    BY <1>1 DEF Ownership
  <1>4. MutexDiscipline'
    BY <1>1, NullValues DEF MutexDiscipline, TypeOK
  <1>5. Locked'
    BY <1>1 DEF Locked, TypeOK
  <1>6. \A u \in Uids : MakerDone(u) => MakerDone(u)'
    BY <1>1 DEF MakerDone, TypeOK
  <1>7. Settled'
    <2>1. \A q \in Requests : chk[q].pc # "none" => chk[q].uid \in Uids
      BY DEF Shape
    <2>2. \A q \in Requests : chk'[q].uri = "javaInstall" => chk'[q] = chk[q]
      BY <1>2
    <2>3. \A u \in Uids : MakerDone(u) => maker'[u] \in Requests
                                         /\ pc'[maker'[u]] = "done"
      BY <1>6 DEF MakerDone
    <2>4. /\ acked \subseteq Uids /\ \A q \in Requests : ackedAt[q] \subseteq Uids
          /\ acked' = acked /\ ackedAt' = ackedAt /\ blade' = blade
      BY <1>1 DEF TypeOK
    <2>5. Settled
      OBVIOUS
    <2> HIDE DEF IInv
    <2>6. (\A u \in acked : MakerDone(u))'
      BY <2>3, <2>4, <2>5 DEF Settled, MakerDone
    <2>7. (\A q \in Requests : \A u \in ackedAt[q] : MakerDone(u))'
      BY <2>3, <2>4, <2>5 DEF Settled, MakerDone
    <2>8. ASSUME NEW q \in Requests, chk'[q].pc # "none", chk'[q].uri = "javaInstall"
          PROVE  (/\ MakerDone(chk[q].uid)
                  /\ chk[q].status = "Error"
                       => blade[chk[q].uid] \in {"Error", "Stopped"})'
      BY <2>1, <2>2, <2>3, <2>4, <2>5, <2>8 DEF Settled, MakerDone
    <2>. QED  BY <2>6, <2>7, <2>8 DEF Settled
  <1>8. RunningIsGenuine' /\ ActiveIsTracked'
    BY <1>1 DEF RunningIsGenuine, ActiveIsTracked
  <1>9. QueryCleared'
    BY <1>1 DEF QueryCleared, TypeOK
  <1>10. NoResurrection'
    BY <1>1 DEF NoResurrection, QueryCleared, TypeOK
  <1>11. FailedInstallIsForgotten'
    BY <1>1, <1>2 DEF FailedInstallIsForgotten
  <1>. QED
    BY <1>3, <1>4, <1>5, <1>7, <1>8, <1>9, <1>10, <1>11 DEF Safe

\* A checker removes the entry of an installation that blade has as failed.
LEMMA CheckerKeepsSafe ==
  ASSUME IInv, TypeOK', NEW r \in Requests, CheckerStep(r)
  PROVE  Ownership' /\ MutexDiscipline' /\ Locked' /\ Safe'
  <1> USE DEF IInv
  <1>1. UNCHANGED <<pc, cmd, out, reply, mutex, blade, maker, acked, ackedAt>>
    BY DEF CheckerStep, CheckerTick, CheckerQueryReturns, DeleteCallback, ReportStatus,
           CheckerVarsUnchanged, bladeVars, historyVars
  <1>2. /\ chk[r].pc # "none" /\ chk[r].uid \in Uids
        /\ chk'[r].uid = chk[r].uid /\ chk'[r].uri = chk[r].uri
        /\ chk'[r].status \in {chk[r].status, blade[chk[r].uid]}
        /\ \A q \in Requests \ {r} : chk'[q] = chk[q]
    BY CheckerStepFacts DEF Shape
  <1>3. \/ running' = running
        \/ /\ chk[r].uri = "javaInstall" /\ chk[r].status = "Error"
           /\ blade[chk[r].uid] \in {"Error", "Stopped"}
           /\ running' = [running EXCEPT ![chk[r].uid] = NoRequest]
    BY <1>2, CheckerStepFacts DEF Settled
  <1>4. Ownership' /\ MutexDiscipline' /\ Locked'
    BY <1>1 DEF Ownership, MutexDiscipline, Locked
  <1>5. Settled'
    <2>1. ASSUME NEW q \in Requests, chk'[q].pc # "none", chk'[q].uri = "javaInstall"
          PROVE  /\ MakerDone(chk'[q].uid)
                 /\ chk'[q].status = "Error" => blade[chk'[q].uid] \in {"Error", "Stopped"}
      <3>1. CASE q = r
        BY <1>2, <2>1, <3>1 DEF Settled
      <3>2. CASE q # r
        BY <1>2, <2>1, <3>2 DEF Settled
      <3>. QED  BY <3>1, <3>2
    <2>. QED  BY <1>1, <2>1 DEF Settled, MakerDone
  <1>5a. \A u \in Uids : running'[u] \in {running[u], NoRequest}
    BY <1>2, <1>3 DEF TypeOK
  <1>5b. \A q \in Requests : ackedAt[q] \subseteq Uids
    BY DEF TypeOK
  <1>6. RunningIsGenuine'
    <2>1. RunningIsGenuine
      OBVIOUS
    <2> HIDE DEF IInv
    <2>. QED  BY <1>1, <1>5a, <2>1 DEF RunningIsGenuine
  <1>7. ActiveIsTracked'
    BY <1>1, <1>2, <1>3 DEF ActiveIsTracked, TypeOK
  <1>8. QueryCleared' /\ NoResurrection'
    <2>1. QueryCleared /\ NoResurrection
      OBVIOUS
    <2> HIDE DEF IInv
    <2>2. QueryCleared'
      BY <1>1, <1>5a, <1>5b, <2>1 DEF QueryCleared
    <2>3. NoResurrection'
      BY <1>1, <1>5a, <1>5b, <2>1 DEF NoResurrection
    <2>. QED  BY <2>2, <2>3
  <1>9. FailedInstallIsForgotten'
    <2>0. \A u \in Uids : running[u] = NoRequest => running'[u] = NoRequest
      BY <1>5a
    <2>1. \A q \in Requests : chk[q].pc # "none" => chk[q].uid \in Uids
      BY DEF Shape
    <2>2. ASSUME NEW q \in Requests, chk'[q].uri = "javaInstall",
                 chk'[q].status = "Error",
                 chk'[q].pc \in {"report", "reported", "unreported"}
          PROVE  running'[chk'[q].uid] = NoRequest
      <3>1. CASE q # r
        BY <1>2, <2>0, <2>1, <2>2, <3>1 DEF FailedInstallIsForgotten
      <3>2. CASE q = r
        <4>1. /\ chk'[r].status = chk[r].status
              /\ \/ chk[r].pc = "report" /\ running' = running
                 \/ chk[r].uri = "javaInstall" /\ chk[r].status = "Error"
                      => running'[chk[r].uid] = NoRequest
          BY <2>2, <3>2, CheckerStepFacts
        <4>. QED  BY <1>2, <2>0, <2>2, <3>2, <4>1 DEF FailedInstallIsForgotten
      <3>. QED  BY <3>1, <3>2
    <2>. QED  BY <2>2 DEF FailedInstallIsForgotten
  <1>. QED  BY <1>4, <1>5, <1>6, <1>7, <1>8, <1>9 DEF Safe

\* A successful create or prepare makes its request the maker of the uid it answers with.
LEMMA CreatorIsMaker ==
  ASSUME TypeOK
  PROVE  \A r \in Requests, o \in Outcome, c \in CommandLine :
            o.kind \in SuccessKinds /\ BladeRun(r, c, o) /\ isCreateOrPrepareCmd(c)
              => maker'[o.uid] = r
  BY SuccessfulRun

\* A step of a request that does not hold the mutex and does not take it.
LEMMA RequestStep ==
  ASSUME IInv, TypeOK', NEW r \in Requests, NEW o \in Outcome,
         pc[r] \notin {"critical", "query", "done"},
         pc' = [pc EXCEPT ![r] = pc'[r]],
         pc'[r] \notin {"critical", "query"},
         pc'[r] = "lock" => /\ out'[r].kind \in SuccessKinds
                            /\ isDestroyOrRevokeCmd(cmd'[r])
                                 => blade'[cmd'[r].uid] = "Stopped",
         pc'[r] = "done" => reply'[r] # "success",
         \A q \in Requests \ {r} : /\ cmd'[q] = cmd[q] /\ out'[q] = out[q]
                                   /\ reply'[q] = reply[q] /\ ackedAt'[q] = ackedAt[q],
         ackedAt'[r] \in {ackedAt[r], acked},
         \/ out'[r] = NoOutcome
         \/ cmd'[r] = cmd[r] /\ out'[r] = out[r] /\ UNCHANGED maker
         \/ cmd'[r] = cmd[r] /\ out'[r] = o,
         (UNCHANGED <<blade, maker>> /\ out'[r] \in {out[r], NoOutcome})
           \/ BladeRun(r, cmd[r], o),
         UNCHANGED <<running, chk, acked, mutex>>
  PROVE  Ownership' /\ MutexDiscipline' /\ Locked' /\ Safe'
  <1> USE DEF IInv
  <1>0. cmd[r] \in CommandLine
    BY DEF TypeOK
  <1>1. /\ \A u \in Uids : blade[u] # "None" =>
              blade'[u] \in {blade[u], "Stopped"} /\ maker'[u] = maker[u]
        /\ \A u \in Uids : (blade'[u] = "None") <=> (maker'[u] = NoRequest)
    <2>1. CASE UNCHANGED <<blade, maker>>
      BY <2>1 DEF Ownership
    <2>2. CASE BladeRun(r, cmd[r], o)
      BY <1>0, <2>2, BladeRunFacts DEF Ownership
    <2>. QED  BY <2>1, <2>2
  <1>2. Ownership'
    <2>1. ASSUME NEW q \in Requests, isCreateOrPrepareCmd(cmd'[q]),
                 out'[q].kind \in SuccessKinds
          PROVE  maker'[out'[q].uid] = q
      <3>1. CASE cmd'[q] = cmd[q] /\ out'[q] = out[q]
        <4>1. out[q].uid \in Uids /\ maker[out[q].uid] = q
          BY <2>1, <3>1 DEF Ownership, Shape
        <4>2. q # NoRequest
          BY NullValues
        <4>3. blade[out[q].uid] # "None"
          BY <4>1, <4>2 DEF Ownership
        <4>4. maker'[out[q].uid] = maker[out[q].uid]
          BY <1>1, <4>1, <4>3
        <4>. QED  BY <3>1, <4>1, <4>4
      <3>2. CASE q = r /\ out'[r] = NoOutcome
        <4> HIDE DEF IInv
        <4>1. NoOutcome.kind \notin SuccessKinds
          BY DEF NoOutcome, SuccessKinds
        <4>. QED  BY <2>1, <3>2, <4>1, Zenon
      <3>3. CASE q = r /\ BladeRun(r, cmd[r], o) /\ cmd'[r] = cmd[r] /\ out'[r] = o
        <4>0. TypeOK
          OBVIOUS
        <4> HIDE DEF IInv
        <4>1. TypeOK /\ o.kind \in SuccessKinds /\ isCreateOrPrepareCmd(cmd[r])
          BY <2>1, <3>3, <4>0, Zenon
        <4>2. \A c \in CommandLine :
                 BladeRun(r, c, o) /\ isCreateOrPrepareCmd(c) => maker'[o.uid] = r
          BY <4>1, CreatorIsMaker, Zenon
        <4>3. maker'[o.uid] = r
          BY <1>0, <3>3, <4>1, <4>2, Zenon
        <4>. QED  BY <3>3, <4>3, Zenon
      <3>. QED  BY <3>1, <3>2, <3>3
    <2>. QED  BY <1>1, <2>1 DEF Ownership
  <1>3. MutexDiscipline'
    BY DEF MutexDiscipline, TypeOK
  <1>4. Locked'
    <2>1. ASSUME NEW q \in Requests \ {r}, pc[q] \in {"lock", "critical"},
                 isDestroyOrRevokeCmd(cmd[q])
          PROVE  blade'[cmd[q].uid] = "Stopped"
      <3>1. cmd[q].uid \in Uids /\ blade[cmd[q].uid] = "Stopped"
        BY <2>1, DestroyHasUid DEF Shape, Locked, isDestroyOrRevokeCmd
      <3>. QED  BY <1>1, <3>1
    <2>. QED  BY <2>1 DEF Locked, TypeOK
  <1>5. Safe'
    <2>1. \A q \in Requests \ {r} : pc'[q] = pc[q]
      BY DEF TypeOK
    <2>2. /\ pc[r] # "done" /\ pc'[r] # "query"
          /\ pc'[r] = "done" /\ reply'[r] = "success" => ~isDestroyOrRevokeCmd(cmd'[r])
      OBVIOUS
    <2>3. \A q \in Requests \ {r} : /\ pc'[q] = pc[q] /\ cmd'[q] = cmd[q]
                                    /\ out'[q] = out[q] /\ reply'[q] = reply[q]
                                    /\ ackedAt'[q] = ackedAt[q]
      BY <2>1
    <2> HIDE DEF IInv
    <2>. QED  BY <1>1, <2>2, <2>3, QuietStep
  <1>. QED  BY <1>2, <1>3, <1>4, <1>5

\* BladeProgress touches one experiment that was only just created.
LEMMA ProgressStep ==
  ASSUME IInv, NEW u \in Uids, BladeProgress(u)
  PROVE  Ownership' /\ MutexDiscipline' /\ Locked' /\ Safe'
  <1> USE DEF IInv
  <1>1. /\ blade[u] = "Created"
        /\ \E s \in {"Running", "Error"} : blade' = [blade EXCEPT ![u] = s]
        /\ UNCHANGED <<pc, cmd, out, reply, mutex, running, chk, maker, acked, ackedAt>>
    BY Zenon DEF BladeProgress, historyVars
  <1>2. Ownership' /\ MutexDiscipline'
    BY <1>1 DEF Ownership, MutexDiscipline, TypeOK
  <1>3. Locked'
    BY <1>1 DEF Locked, TypeOK
  <1>4. Settled'
    <2>1. \A q \in Requests : chk[q].pc # "none" => chk[q].uid \in Uids
      BY DEF Shape
    <2>. QED  BY <1>1, <2>1 DEF Settled, MakerDone, TypeOK
  <1>5. RunningIsGenuine' /\ QueryCleared' /\ NoResurrection' /\ FailedInstallIsForgotten'
    BY <1>1 DEF RunningIsGenuine, QueryCleared, NoResurrection, FailedInstallIsForgotten
  <1>6. ActiveIsTracked'
    BY <1>1 DEF ActiveIsTracked, TypeOK
  <1>. QED  BY <1>2, <1>3, <1>4, <1>5, <1>6 DEF Safe

\* A crash empties the running map and what this process told the server.
LEMMA CrashStep ==
  ASSUME IInv, TypeOK', Crash
  PROVE  Ownership' /\ MutexDiscipline' /\ Locked' /\ Safe'
  <1> USE DEF IInv
  <1>1. /\ mutex' = NoRequest /\ acked' = {} /\ running' = [u \in Uids |-> NoRequest]
        /\ UNCHANGED <<cmd, out, reply, blade, maker, ackedAt>>
    BY DEF Crash, bladeVars
  <1>2. \A q \in Requests : /\ pc'[q] \notin {"lock", "critical", "query"}
                            /\ pc[q] = "done" => pc'[q] = "done"
    BY DEF Crash, InFlight, PCs, TypeOK
  <1>3. \A q \in Requests : /\ chk'[q].uid = chk[q].uid /\ chk'[q].uri = chk[q].uri
                            /\ chk'[q].status = chk[q].status
                            /\ chk'[q].pc = "none" <=> chk[q].pc = "none"
    <2>1. \A q \in Requests :
             /\ chk[q] \in Checker
             /\ chk'[q] = IF chk[q].pc \in CheckerActive
                          THEN [chk[q] EXCEPT !.pc = "lost"] ELSE chk[q]
      BY DEF Crash, TypeOK
    <2> HIDE DEF IInv
    <2>. QED  BY <2>1, CheckerDies, Zenon
  <1>4. \A q \in Requests : /\ chk[q].pc # "none" => chk[q].uid \in Uids
                            /\ chk'[q].pc # "none" => chk'[q].uid \in Uids
    BY <1>3 DEF Shape
  <1>5. Ownership' /\ MutexDiscipline' /\ Locked'
    <2>0. Ownership
      OBVIOUS
    <2> HIDE DEF IInv
    <2>1. Ownership'
      BY <1>1, <2>0 DEF Ownership
    <2>2. MutexDiscipline'
      BY <1>1, <1>2, NullValues DEF MutexDiscipline
    <2>3. Locked'
      BY <1>2 DEF Locked
    <2>. QED  BY <2>1, <2>2, <2>3, Zenon
  <1>6. Settled'
    <2>1. \A u : MakerDone(u) => maker'[u] \in Requests /\ pc'[maker'[u]] = "done"
      BY <1>1, <1>2 DEF MakerDone
    <2>2. \A q \in Requests : chk'[q].pc # "none" /\ chk'[q].uri = "javaInstall" =>
             /\ MakerDone(chk'[q].uid)
             /\ chk'[q].status = "Error" => blade'[chk'[q].uid] \in {"Error", "Stopped"}
      BY <1>1, <1>3 DEF Settled
    <2>3. /\ \A u \in acked' : MakerDone(u)
          /\ \A q \in Requests : \A u \in ackedAt'[q] : MakerDone(u)
      BY <1>1 DEF Settled
    <2> HIDE DEF IInv
    <2>. QED  BY <2>1, <2>2, <2>3 DEF Settled, MakerDone
  <1>7. RunningIsGenuine' /\ ActiveIsTracked'
    BY <1>1 DEF RunningIsGenuine, ActiveIsTracked
  <1>8. QueryCleared'
    BY <1>2 DEF QueryCleared
  <1>9. NoResurrection'
    BY <1>1 DEF NoResurrection, TypeOK
  <1>10. FailedInstallIsForgotten'
    BY <1>1, <1>4 DEF FailedInstallIsForgotten
  <1>. QED  BY <1>5, <1>6, <1>7, <1>8, <1>9, <1>10 DEF Safe
-----------------------------------------------------------------------------
(* Every step.                                                             *)

\* Every step keeps the inductive invariant.
LEMMA StepIInv == IInv /\ [Next]_vars => IInv'
  <1> SUFFICES ASSUME IInv, [Next]_vars PROVE IInv'
    OBVIOUS
  <1> DEFINE Rest == Ownership /\ MutexDiscipline /\ Locked /\ Safe
  <1>0. TypeOK' /\ Shape'
    BY StepTypes DEF IInv
  <1>0a. NoOutcome \in Outcome /\ NoOutcome.kind \notin SuccessKinds
    BY DEF NoOutcome, Outcome, FailureKinds, SuccessKinds
  <1>1. ASSUME NEW r \in Requests, Handle(r) PROVE Rest'
    <2>1. /\ pc[r] = "idle" /\ out'[r] = NoOutcome
          /\ pc'[r] \in {"done", "exec"} /\ pc' = [pc EXCEPT ![r] = pc'[r]]
          /\ pc'[r] = "done" => reply'[r] # "success"
          /\ \A q \in Requests \ {r} : /\ cmd'[q] = cmd[q] /\ out'[q] = out[q]
                                       /\ reply'[q] = reply[q] /\ ackedAt'[q] = ackedAt[q]
          /\ ackedAt'[r] = acked
          /\ UNCHANGED <<out, running, chk, acked, mutex, blade, maker>>
      BY <1>1, ZenonT(40) DEF Handle, Finish, GoTo, bladeVars, IInv, TypeOK, Shape
    <2>. QED  BY <1>0, <1>0a, <2>1, RequestStep
  <1>2. ASSUME NEW r \in Requests, NEW o \in Outcome, pc[r] = "exec",
               BladeRun(r, cmd[r], o), out' = [out EXCEPT ![r] = o], AfterExec(r, o),
               UNCHANGED <<cmd, mutex, running, chk, historyVars>>
        PROVE  Rest'
    <2>1. TypeOK /\ cmd[r] \in Commands /\ cmd[r] \in CommandLine /\ out'[r] = o
      BY <1>2 DEF IInv, Shape, TypeOK
    <2>2. /\ pc'[r] \in {"k8swait", "done", "lock"} /\ pc' = [pc EXCEPT ![r] = pc'[r]]
          /\ pc'[r] = "lock" => o.kind \in SuccessKinds
          /\ pc'[r] = "done" => reply'[r] # "success"
          /\ \A q \in Requests \ {r} : reply'[q] = reply[q]
      <3>1. /\ \/ pc' = [pc EXCEPT ![r] = "k8swait"] /\ UNCHANGED reply
               \/ pc' = [pc EXCEPT ![r] = "done"] /\ reply'[r] # "success"
               \/ /\ pc' = [pc EXCEPT ![r] = "lock"] /\ UNCHANGED reply
                  /\ o.kind \in SuccessKinds
            /\ \A q \in Requests \ {r} : reply'[q] = reply[q]
        BY <1>2, <2>1, AfterExecFacts
      <3>2. pc \in [Requests -> PCs]
        BY <2>1 DEF TypeOK
      <3>. QED  BY <3>1, <3>2
    <2>3. isDestroyOrRevokeCmd(cmd[r]) /\ o.kind \in SuccessKinds
            => blade'[cmd[r].uid] = "Stopped"
      BY <1>2, <2>1, SuccessfulRun
    <2>4. \A q \in Requests \ {r} : cmd'[q] = cmd[q] /\ out'[q] = out[q]
                                    /\ ackedAt'[q] = ackedAt[q]
      BY <1>2, <2>1 DEF TypeOK, historyVars
    <2>5. UNCHANGED <<cmd, running, chk, acked, ackedAt, mutex>>
      BY <1>2 DEF historyVars
    <2>. QED  BY <1>0, <1>2, <2>1, <2>2, <2>3, <2>4, <2>5, RequestStep
  <1>3. ASSUME NEW r \in Requests, BladeExit(r) \/ ExecTimeout(r) PROVE Rest'
    <2>1. pc[r] = "exec" /\ UNCHANGED <<cmd, mutex, running, chk, historyVars>>
      BY <1>3 DEF BladeExit, ExecTimeout
    <2>2. PICK o \in Outcome : /\ BladeRun(r, cmd[r], o)
                               /\ out' = [out EXCEPT ![r] = o] /\ AfterExec(r, o)
      BY <1>3, <1>0a DEF BladeExit, ExecTimeout
    <2>. QED  BY <1>2, <2>1, <2>2
  <1>4. ASSUME NEW r \in Requests, OrphanExit(r) PROVE Rest'
    <2>1. PICK o \in Outcome : BladeRun(r, cmd[r], o)
      BY <1>4 DEF OrphanExit
    <2>2. /\ pc[r] = "orphan" /\ pc'[r] = "lost" /\ pc' = [pc EXCEPT ![r] = pc'[r]]
          /\ out'[r] = NoOutcome
          /\ UNCHANGED <<cmd, out, reply, mutex, running, chk, acked, ackedAt>>
      BY <1>4 DEF OrphanExit, GoTo, historyVars, IInv, TypeOK, Shape
    <2>. QED  BY <1>0, <2>1, <2>2, RequestStep
  <1>5. ASSUME NEW r \in Requests, LeaveK8sWait(r),
               pc[r] \in {"k8swait", "k8squery", "k8srecheck"}
        PROVE  Rest'
    <2>1. /\ TypeOK /\ out[r] \in Outcome /\ AfterWait(r, out[r])
          /\ ~isDestroyOrRevokeCmd(cmd[r])
          /\ UNCHANGED <<cmd, out, mutex, running, chk, blade, maker, acked, ackedAt>>
      BY <1>5 DEF LeaveK8sWait, bladeVars, historyVars, IInv, TypeOK, Shape,
                  isCreateOrPrepareCmd, isDestroyOrRevokeCmd, PrepareOperation,
                  CreateOperation, RevokeOperation, DestroyOperation
    <2>2. /\ pc'[r] \in {"done", "lock"} /\ pc' = [pc EXCEPT ![r] = pc'[r]]
          /\ pc'[r] = "lock" => out[r].kind \in SuccessKinds
          /\ pc'[r] = "done" => reply'[r] # "success"
          /\ \A q \in Requests \ {r} : reply'[q] = reply[q]
      <3>1. /\ \/ pc' = [pc EXCEPT ![r] = "done"] /\ reply'[r] # "success"
               \/ /\ pc' = [pc EXCEPT ![r] = "lock"] /\ UNCHANGED reply
                  /\ out[r].kind \in SuccessKinds
            /\ \A q \in Requests \ {r} : reply'[q] = reply[q]
        BY <2>1, AfterWaitFacts
      <3>2. pc \in [Requests -> PCs]
        BY <2>1 DEF TypeOK
      <3>. QED  BY <3>1, <3>2
    <2>. QED  BY <1>0, <1>5, <2>1, <2>2, RequestStep
  <1>6. ASSUME NEW r \in Requests,
               K8sTimeout(r) \/ K8sTick(r) \/ K8sQueryReturns(r) \/ K8sRecheckReturns(r)
        PROVE  Rest'
    <2>1. CASE LeaveK8sWait(r) /\ pc[r] \in {"k8swait", "k8squery", "k8srecheck"}
      BY <1>5, <2>1
    <2>2. CASE /\ pc[r] \in {"k8swait", "k8squery"}
               /\ \E label \in {"k8swait", "k8squery", "k8srecheck"} : GoTo(r, label)
               /\ UNCHANGED <<cmd, out, reply, mutex, running, chk, expired, bladeVars,
                              historyVars>>
      <3>1. /\ pc'[r] \in {"k8swait", "k8squery", "k8srecheck"}
            /\ pc' = [pc EXCEPT ![r] = pc'[r]]
            /\ UNCHANGED <<cmd, out, reply, mutex, running, chk, blade, maker, acked,
                           ackedAt>>
        BY <2>2 DEF GoTo, bladeVars, historyVars, IInv, TypeOK
      <3>. QED  BY <1>0, <1>0a, <2>2, <3>1, RequestStep
    <2>. QED
      BY <1>6, <2>1, <2>2 DEF K8sTimeout, K8sTick, K8sQueryReturns, K8sRecheckReturns
  <1>7. ASSUME NEW r \in Requests, Lock(r) PROVE Rest'
    <2>1. /\ pc[r] = "lock" /\ mutex = NoRequest /\ mutex' = r
          /\ pc' = [pc EXCEPT ![r] = "critical"] /\ pc'[r] = "critical"
          /\ \A q \in Requests \ {r} : pc'[q] = pc[q]
          /\ UNCHANGED <<cmd, out, reply, running, chk, blade, maker, acked, ackedAt>>
      BY <1>7 DEF Lock, GoTo, bladeVars, historyVars, IInv, TypeOK
    <2>2. Ownership' /\ MutexDiscipline' /\ Locked'
      <3>1. Ownership /\ MutexDiscipline /\ Locked
        BY DEF IInv
      <3>2. Ownership'
        BY <2>1, <3>1 DEF Ownership
      <3>3. MutexDiscipline'
        BY <2>1, <3>1, NullValues DEF MutexDiscipline
      <3>4. Locked'
        BY <2>1, <3>1 DEF Locked
      <3>. QED  BY <3>2, <3>3, <3>4
    <2>3. Safe'
      BY <1>0, <2>1, QuietStep
    <2>. QED  BY <2>2, <2>3
  <1>8. ASSUME NEW r \in Requests, LeaveCritical(r) PROVE Rest'
    <2>1. /\ pc[r] = "critical" /\ mutex' = NoRequest /\ ~isDestroyOrRevokeCmd(cmd[r])
          /\ pc' = [pc EXCEPT ![r] = "done"] /\ pc'[r] = "done"
          /\ \A q \in Requests \ {r} : pc'[q] = pc[q] /\ reply'[q] = reply[q]
          /\ UNCHANGED <<cmd, out, running, chk, blade, maker, acked, ackedAt>>
      BY <1>8 DEF LeaveCritical, UnlockAndReply, Finish, GoTo, bladeVars, historyVars,
                  IInv, TypeOK
    <2>2. Ownership' /\ MutexDiscipline' /\ Locked'
      <3>1. Ownership /\ MutexDiscipline /\ Locked
        BY DEF IInv
      <3>2. Ownership'
        BY <2>1, <3>1 DEF Ownership
      <3>3. MutexDiscipline'
        BY <2>1, <3>1, NullValues DEF MutexDiscipline
      <3>4. Locked'
        BY <2>1, <3>1 DEF Locked
      <3>. QED  BY <3>2, <3>3, <3>4
    <2>3. Safe'
      BY <1>0, <2>1, QuietStep
    <2>. QED  BY <2>2, <2>3
  <1>9. ASSUME (\E r \in Requests : TimerExpires(r)) \/ UNCHANGED vars PROVE Rest'
    <2>1. UNCHANGED <<pc, cmd, out, reply, mutex, running, chk, blade, maker, acked,
                      ackedAt>>
      BY <1>9 DEF TimerExpires, vars, bladeVars, historyVars
    <2>2. Ownership' /\ MutexDiscipline' /\ Locked'
      BY <2>1 DEF IInv, Ownership, MutexDiscipline, Locked
    <2>3. Settled'
      BY <2>1 DEF IInv, Settled, MakerDone
    <2>4. RunningIsGenuine' /\ ActiveIsTracked' /\ QueryCleared' /\ NoResurrection'
          /\ FailedInstallIsForgotten'
      BY <2>1 DEF IInv, RunningIsGenuine, ActiveIsTracked, QueryCleared, NoResurrection,
                  FailedInstallIsForgotten
    <2>. QED  BY <2>2, <2>3, <2>4 DEF Safe
  <1>10. Rest'
    <2>1. ASSUME NEW r \in Requests, Request(r) PROVE Rest'
      <3>1. CASE RecordRunning(r)  BY <1>0, <3>1, RecordStep
      <3>2. CASE RemoveRunning(r)  BY <1>0, <3>2, RemoveStep
      <3>3. CASE RevokeQueryReturns(r)  BY <1>0, <3>3, RevokeStep
      <3>. QED
        BY <1>1, <1>3, <1>4, <1>6, <1>7, <1>8, <1>9, <2>1, <3>1, <3>2, <3>3 DEF Request
    <2>2. ASSUME NEW r \in Requests, CheckerStep(r) PROVE Rest'
      BY <1>0, <2>2, CheckerKeepsSafe
    <2>3. ASSUME NEW u \in Uids, BladeProgress(u) PROVE Rest'
      BY <2>3, ProgressStep
    <2>4. ASSUME Crash PROVE Rest'
      BY <1>0, <2>4, CrashStep
    <2>. QED  BY <1>9, <2>1, <2>2, <2>3, <2>4 DEF Next
  <1>. QED  BY <1>0, <1>10 DEF IInv, Safe
-----------------------------------------------------------------------------
(* The theorems.                                                           *)

\* The inductive invariant holds in every reachable state.
LEMMA Invariance == Spec => []IInv
  BY InitIInv, StepIInv, PTL DEF Spec

\* Every variable keeps its type: in particular no entry, checker or history is
\* ever made for something that is not a uid, whatever blade prints.
THEOREM TypeCorrect == Spec => []TypeOK
  <1>1. IInv => TypeOK
    BY DEF IInv
  <1>. QED  BY <1>1, Invariance, PTL

\* ch.mutex is held exactly by the goroutine inside handleCacheAndSafePoint.
THEOREM MutexHeld == Spec => []MutexDiscipline
  <1>1. IInv => MutexDiscipline
    BY DEF IInv
  <1>. QED  BY <1>1, Invariance, PTL

\* Entries of ch.running name the command line that created their experiment.
THEOREM EntriesGenuine == Spec => []RunningIsGenuine
  <1>1. IInv => RunningIsGenuine
    BY DEF IInv
  <1>. QED  BY <1>1, Invariance, PTL

\* ch.running never loses an experiment that is still active.
THEOREM ActiveTracked == Spec => []ActiveIsTracked
  <1>1. IInv => ActiveIsTracked
    BY DEF IInv
  <1>. QED  BY <1>1, Invariance, PTL

\* No slow goroutine puts an experiment back that an orderly destroy removed.
THEOREM Stopped == Spec => []NoResurrection
  <1>1. IInv => NoResurrection
    BY DEF IInv
  <1>. QED  BY <1>1, Invariance, PTL

\* A Java agent reported as failed is out of ch.running for good.
THEOREM FailedForgotten == Spec => []FailedInstallIsForgotten
  <1>1. IInv => FailedInstallIsForgotten
    BY DEF IInv
  <1>. QED  BY <1>1, Invariance, PTL
-----------------------------------------------------------------------------
(* The handler implements the register of experiments.                     *)

\* A change of one status is one of the life of that experiment.
LEMMA LifeChanges ==
  ASSUME TypeOK, NEW u \in Uids, NEW s \in Statuses, blade' = [blade EXCEPT ![u] = s]
  PROVE  Life' = [Life EXCEPT ![u] = LifeOf(s)]
  <1>1. blade' \in [Uids -> Statuses] /\ blade'[u] = s
    BY DEF TypeOK
  <1>2. \A v \in Uids \ {u} : blade'[v] = blade[v]
    BY DEF TypeOK
  <1>. QED  BY <1>1, <1>2, Zenon DEF Life

\* What is alive, and what has ended.
LEMMA Lives ==
  /\ LifeOf("None") = "none"
  /\ LifeOf("Created") = "active" /\ LifeOf("Running") = "active"
  /\ LifeOf("Error") = "ended" /\ LifeOf("Stopped") = "ended"
  BY DEF LifeOf

\* A run of blade begins an experiment, ends one or changes none.
LEMMA BladeRegisters ==
  ASSUME TypeOK, NEW r \in Requests, NEW c \in Commands, NEW o \in Outcome,
         BladeRun(r, c, o), UNCHANGED <<running, acked>>
  PROVE  [Register!Next]_Register!vars
  <1>1. CASE /\ isCreateOrPrepareCmd(c)
             /\ \E u \in Uids :
                   /\ blade[u] = "None"
                   /\ o.uid \in (IF o.kind \in SuccessKinds THEN {u} ELSE {u, NoUid})
                   /\ \E s \in (IF o.kind \in SuccessKinds THEN {"Created", "Running"}
                                ELSE {"Running", "Error"}) :
                         blade' = [blade EXCEPT ![u] = s]
                   /\ maker' = [maker EXCEPT ![u] = r]
    <2>1. PICK u \in Uids, s \in {"Created", "Running", "Error"} :
             /\ blade[u] = "None"
             /\ blade' = [blade EXCEPT ![u] = s] /\ maker' = [maker EXCEPT ![u] = r]
      BY <1>1, Zenon
    <2>2. Life[u] = "none" /\ LifeOf(s) \in {"active", "ended"}
      BY <2>1, Lives DEF Life
    <2>3. Life' = [Life EXCEPT ![u] = LifeOf(s)]
      <3>1. s \in Statuses
        BY DEF Statuses
      <3>. QED  BY <2>1, <3>1, LifeChanges, Zenon
    <2>4. Register!Begin(u)
      BY <2>1, <2>2, <2>3, Zenon DEF Register!Begin
    <2>. QED  BY <2>4 DEF Register!Next
  <1>2. CASE isDestroyOrRevokeCmd(c) /\ blade[c.uid] # "None" /\ UNCHANGED maker
             /\ blade' = [blade EXCEPT ![c.uid] = "Stopped"]
    <2>1. c.uid \in Uids /\ blade[c.uid] \in Statuses \ {"None"}
      BY <1>2, DestroyHasUid DEF TypeOK
    <2>2. Life' = [Life EXCEPT ![c.uid] = "ended"]
      <3>1. "Stopped" \in Statuses /\ LifeOf("Stopped") = "ended"
        BY Lives DEF Statuses
      <3>2. Life' = [Life EXCEPT ![c.uid] = LifeOf("Stopped")]
        BY <1>2, <2>1, <3>1, LifeChanges, Zenon
      <3>. QED  BY <3>1, <3>2, Zenon
    <2>3. Life[c.uid] \in {"active", "ended"} /\ Life = [v \in Uids |-> Life[v]]
      BY <2>1, Lives DEF Life, Statuses
    <2>4. CASE Life[c.uid] = "active"
      <3>1. Register!End(c.uid)
        BY <1>2, <2>2, <2>4 DEF Register!End
      <3>. QED  BY <2>1, <3>1 DEF Register!Next
    <2>5. CASE Life[c.uid] = "ended"
      <3>1. Life' = Life
        BY <2>1, <2>2, <2>3, <2>5
      <3>. QED  BY <1>2, <3>1 DEF Register!vars
    <2>. QED  BY <2>3, <2>4, <2>5
  <1>3. CASE UNCHANGED bladeVars
    BY <1>3 DEF bladeVars, Life, Register!vars
  <1>. QED  BY <1>1, <1>2, <1>3, Zenon DEF BladeRun

\* Every step is a step of the register or leaves it alone.
LEMMA StepRegister ==
  ASSUME IInv, [Next]_vars
  PROVE  [Register!Next]_Register!vars
  <1>0. TypeOK /\ Shape /\ Ownership /\ Locked /\ Settled
    BY DEF IInv
  <1>1. CASE UNCHANGED <<blade, maker, acked, running>>
    BY <1>1 DEF Life, Register!vars
  <1>2. ASSUME NEW r \in Requests, BladeExit(r) \/ ExecTimeout(r) \/ OrphanExit(r)
        PROVE  [Register!Next]_Register!vars
    <2>1. pc[r] # "idle" /\ UNCHANGED <<running, acked>>
      BY <1>2 DEF BladeExit, ExecTimeout, OrphanExit, historyVars
    <2>2. cmd[r] \in Commands
      BY <1>0, <2>1 DEF Shape
    <2>3. NoOutcome \in Outcome
      BY DEF NoOutcome, Outcome, FailureKinds
    <2>4. \E o \in Outcome : BladeRun(r, cmd[r], o)
      BY <1>2, <2>3 DEF BladeExit, ExecTimeout, OrphanExit
    <2>. QED  BY <1>0, <2>1, <2>2, <2>4, BladeRegisters
  <1>3. ASSUME NEW r \in Requests, RecordRunning(r) PROVE [Register!Next]_Register!vars
    <2>. DEFINE u == out[r].uid
    <2>1. /\ pc[r] = "critical" /\ isCreateOrPrepareCmd(cmd[r])
          /\ out[r].kind \in SuccessKinds /\ UNCHANGED <<blade, maker>>
      BY <1>0, <1>3 DEF RecordRunning, Locked, bladeVars
    <2>2. u \in Uids /\ maker[u] = r
      BY <1>0, <2>1 DEF Shape, Ownership
    <2>3. blade[u] \in Statuses \ {"None"}
      BY <1>0, <2>2, NullValues DEF Ownership, TypeOK
    <2>4. u \notin acked
      BY <1>0, <2>1, <2>2 DEF Settled, MakerDone
    <2>5. \/ UNCHANGED <<running, acked>>
          \/ running' = [running EXCEPT ![u] = r] /\ acked' = acked \cup {u}
      BY <1>3 DEF RecordRunning
    <2>6. Life[u] # "none" /\ Life' = Life
      BY <2>1, <2>2, <2>3, Lives DEF Life, Statuses
    <2>. HIDE DEF u
    <2>7. CASE UNCHANGED <<running, acked>>
      BY <1>1, <2>1, <2>7
    <2>8. CASE running' = [running EXCEPT ![u] = r] /\ acked' = acked \cup {u}
      <3>1. Register!Enter(u)
        BY <2>1, <2>2, <2>4, <2>6, <2>8 DEF Register!Enter
      <3>. QED  BY <2>2, <3>1 DEF Register!Next
    <2>. QED  BY <2>5, <2>7, <2>8
  <1>4. ASSUME NEW u \in Uids, blade[u] \in {"Error", "Stopped"},
               running' = [running EXCEPT ![u] = NoRequest], UNCHANGED <<blade, maker, acked>>
        PROVE  [Register!Next]_Register!vars
    <2>1. Life[u] = "ended" /\ Life' = Life
      BY <1>4, Lives DEF Life
    <2>2. Register!Strike(u)
      BY <1>4, <2>1 DEF Register!Strike
    <2>. QED  BY <2>2 DEF Register!Next
  <1>5. ASSUME NEW r \in Requests, RemoveRunning(r) PROVE [Register!Next]_Register!vars
    <2>1. /\ pc[r] = "critical" /\ isDestroyOrRevokeCmd(cmd[r])
          /\ running' = [running EXCEPT ![cmd[r].uid] = NoRequest]
          /\ UNCHANGED <<blade, maker, acked>>
      BY <1>5 DEF RemoveRunning, bladeVars, historyVars
    <2>2. cmd[r].uid \in Uids /\ blade[cmd[r].uid] = "Stopped"
      BY <1>0, <2>1, DestroyHasUid DEF Shape, Locked
    <2>. QED  BY <1>4, <2>1, <2>2, Zenon
  <1>6. ASSUME NEW r \in Requests, CheckerStep(r) PROVE [Register!Next]_Register!vars
    <2>1. /\ UNCHANGED <<blade, maker, acked>> /\ chk[r].pc # "none"
          /\ \/ running' = running
             \/ /\ chk[r].uri = "javaInstall" /\ chk[r].status = "Error"
                /\ running' = [running EXCEPT ![chk[r].uid] = NoRequest]
      BY <1>0, <1>6, CheckerStepFacts
    <2>2. CASE running' = running
      BY <1>1, <2>1, <2>2
    <2>3. CASE /\ chk[r].uri = "javaInstall" /\ chk[r].status = "Error"
               /\ running' = [running EXCEPT ![chk[r].uid] = NoRequest]
      <3>1. chk[r].uid \in Uids /\ blade[chk[r].uid] \in {"Error", "Stopped"}
        BY <1>0, <2>1, <2>3 DEF Shape, Settled
      <3>. QED  BY <1>4, <2>1, <2>3, <3>1, Zenon
    <2>. QED  BY <2>1, <2>2, <2>3
  <1>7. ASSUME NEW u \in Uids, BladeProgress(u) PROVE [Register!Next]_Register!vars
    <2>1. PICK s \in {"Running", "Error"} : blade' = [blade EXCEPT ![u] = s]
      BY <1>7, Zenon DEF BladeProgress
    <2>2. blade[u] = "Created" /\ UNCHANGED <<maker, acked, running>>
      BY <1>7 DEF BladeProgress, historyVars
    <2>3. Life[u] = "active" /\ Life = [v \in Uids |-> Life[v]]
      BY <2>2, Lives DEF Life
    <2>4. Life' = [Life EXCEPT ![u] = LifeOf(s)]
      <3>1. s \in Statuses
        BY DEF Statuses
      <3>. QED  BY <1>0, <2>1, <3>1, LifeChanges, Zenon
    <2>5. CASE s = "Running"
      <3>1. Life' = Life
        BY <2>3, <2>4, <2>5, Lives
      <3>. QED  BY <2>2, <3>1 DEF Register!vars
    <2>6. CASE s = "Error"
      <3>1. Register!End(u)
        BY <2>2, <2>3, <2>4, <2>6, Lives, Zenon DEF Register!End
      <3>. QED  BY <3>1 DEF Register!Next
    <2>. QED  BY <2>5, <2>6
  <1>8. CASE Crash
    <2>1. Register!Restart
      BY <1>8 DEF Crash, bladeVars, Life, Register!Restart
    <2>. QED  BY <2>1 DEF Register!Next
  <1>9. ASSUME NEW r \in Requests,
               \/ Handle(r) \/ K8sTimeout(r) \/ K8sTick(r) \/ K8sQueryReturns(r)
               \/ K8sRecheckReturns(r) \/ Lock(r) \/ LeaveCritical(r)
               \/ RevokeQueryReturns(r) \/ TimerExpires(r)
        PROVE  [Register!Next]_Register!vars
    <2>1. UNCHANGED <<blade, maker, acked, running>>
      BY <1>9, Zenon DEF Handle, K8sTimeout, K8sTick, K8sQueryReturns, K8sRecheckReturns,
                  LeaveK8sWait, Lock, LeaveCritical, RevokeQueryReturns, TimerExpires, bladeVars, historyVars
    <2>. QED  BY <1>1, <2>1
  <1>10. CASE UNCHANGED vars
    BY <1>1, <1>10 DEF vars
  <1>. QED
    BY <1>2, <1>3, <1>5, <1>6, <1>7, <1>8, <1>9, <1>10 DEF Next, Request

\* The requests, the checkers that write without the mutex and the restarts together
\* keep a register: an experiment is entered once, under the request that created it
\* and when the server is told of it, and struck out only after it has ended.
THEOREM RegisterKept == Spec => ImplementsRegister
  <1>1. Init => Register!Init
    BY Lives DEF Init, Life, Register!Init
  <1>2. IInv /\ [Next]_vars => [Register!Next]_Register!vars
    BY StepRegister
  <1>. QED  BY <1>1, <1>2, Invariance, PTL DEF Spec, ImplementsRegister, Register!Spec
=============================================================================
