---------------------- MODULE ChaosbladeHandlerTypes ------------------------
(***************************************************************************)
(* What the operators of ChaosbladeHandler return and keep, that every     *)
(* step keeps the types and what a goroutine carries (Shape), and that a   *)
(* checker reports what it saw (Truth).                                    *)
(***************************************************************************)
EXTENDS ChaosbladeHandler, TLAPS

(* What ConstantsAssumption says, one fact at a time.                      *)

\* NoRequest and NoUid are no request and no uid.
LEMMA NullValues == NoRequest \notin Requests /\ NoUid \notin Uids
  BY ConstantsAssumption DEF ConstantsAssumption

\* The command lines of a model are command lines.
LEMMA CommandsAreLines == Commands \subseteq CommandLine
  BY ConstantsAssumption DEF ConstantsAssumption

\* A destroy or a revoke names a uid.
LEMMA DestroyHasUid == \A c \in Commands : isDestroyOrRevokeCmd(c) => c.uid \in Uids
  BY ConstantsAssumption DEF ConstantsAssumption, isDestroyOrRevokeCmd

\* The number of crashes is bounded.
LEMMA CrashBound == MaxCrashes \in Nat
  BY ConstantsAssumption DEF ConstantsAssumption
-----------------------------------------------------------------------------
\* The checker of a process that died.
LEMMA CheckerDies ==
  ASSUME NEW c \in Checker, NEW d,
         d = IF c.pc \in CheckerActive THEN [c EXCEPT !.pc = "lost"] ELSE c
  PROVE  /\ d \in Checker
         /\ d.uid = c.uid /\ d.uri = c.uri /\ d.status = c.status
         /\ d.pc = "none" <=> c.pc = "none"
         /\ d.pc \notin CheckerActive
         /\ d.pc \in {"reported", "unreported"} => d.pc = c.pc
  BY DEF Checker, CheckerPCs, CheckerActive

\* What a goroutine carries fits where it is.
Shape ==
    \A r \in Requests :
        /\ pc[r] \in {"idle", "exec", "orphan"} => out[r] = NoOutcome
        /\ pc[r] # "idle" => cmd[r] \in Commands
        /\ isCreateOrPrepareCmd(cmd[r]) /\ out[r].kind \in SuccessKinds
             => out[r].uid \in Uids
        /\ chk[r].pc # "none" => chk[r].uid \in Uids
        /\ pc[r] \in {"k8swait", "k8squery", "k8srecheck"}
             => isCreateOrPrepareCmd(cmd[r])
        /\ pc[r] = "query" => isDestroyOrRevokeCmd(cmd[r])
-----------------------------------------------------------------------------
(* Facts about the operators the actions are built from.                   *)

\* The initial state has the types and the shape.
LEMMA InitTypes == Init => TypeOK /\ Shape
  <1> SUFFICES ASSUME Init PROVE TypeOK /\ Shape
    OBVIOUS
  <1>1. NoCommandLine \in CommandLine /\ NoOutcome \in Outcome /\ NoChecker \in Checker
    BY DEF NoCommandLine, CommandLine, Operations, Targets, NoOutcome, Outcome,
           FailureKinds, NoChecker, Checker, CheckerPCs, Uris
  <1>2. TypeOK
    BY <1>1, CrashBound DEF Init, TypeOK, PCs, Replies, Statuses
  <1>3. Shape
    BY DEF Init, Shape, NoOutcome, NoChecker, SuccessKinds
  <1>. QED  BY <1>2, <1>3

\* BladeRun only adds experiments and stops them, keeps who created them, and
\* its outcome tells the truth about a success.
LEMMA BladeRunFacts ==
  ASSUME TypeOK, NEW r \in Requests, NEW c \in CommandLine, NEW o \in Outcome,
         BladeRun(r, c, o)
  PROVE  /\ blade' \in [Uids -> Statuses]
         /\ maker' \in [Uids -> Requests \cup {NoRequest}]
         /\ \A u \in Uids : blade[u] # "None" =>
               blade'[u] \in {blade[u], "Stopped"} /\ maker'[u] = maker[u]
         /\ isCreateOrPrepareCmd(c) /\ o.kind \in SuccessKinds =>
               o.uid \in Uids /\ blade[o.uid] = "None" /\ maker'[o.uid] = r
         /\ c \in Commands /\ isDestroyOrRevokeCmd(c) /\ o.kind \in SuccessKinds =>
               blade'[c.uid] = "Stopped"
         /\ (\A u \in Uids : (blade[u] = "None") <=> (maker[u] = NoRequest)) =>
               (\A u \in Uids : (blade'[u] = "None") <=> (maker'[u] = NoRequest))
  <1>0. ~(isCreateOrPrepareCmd(c) /\ isDestroyOrRevokeCmd(c))
    BY DEF isCreateOrPrepareCmd, isDestroyOrRevokeCmd, PrepareOperation,
           CreateOperation, RevokeOperation, DestroyOperation
  <1>a. SuccessKinds \cap FailureKinds = {}
    BY DEF SuccessKinds, FailureKinds
  <1>1. CASE /\ isCreateOrPrepareCmd(c)
             /\ \E u \in Uids :
                   /\ blade[u] = "None"
                   /\ o.uid \in (IF o.kind \in SuccessKinds THEN {u} ELSE {u, NoUid})
                   /\ \E s \in (IF o.kind \in SuccessKinds THEN {"Created", "Running"}
                                ELSE {"Running", "Error"}) :
                         blade' = [blade EXCEPT ![u] = s]
                   /\ maker' = [maker EXCEPT ![u] = r]
    <2>1. PICK u \in Uids, s \in {"Created", "Running", "Error"} :
                   /\ blade[u] = "None"
                   /\ o.kind \in SuccessKinds => o.uid = u
                   /\ blade' = [blade EXCEPT ![u] = s]
                   /\ maker' = [maker EXCEPT ![u] = r]
      BY <1>1
    <2>. QED  BY <1>0, <1>1, <2>1, NullValues DEF TypeOK, Statuses
  <1>2. CASE /\ isDestroyOrRevokeCmd(c)
             /\ blade[c.uid] # "None"
             /\ o.uid = NoUid
             /\ blade' = [blade EXCEPT ![c.uid] = "Stopped"]
             /\ UNCHANGED maker
    BY <1>0, <1>2, DestroyHasUid DEF TypeOK, Statuses, isDestroyOrRevokeCmd
  <1>3. CASE /\ isCreateOrPrepareCmd(c) \/ isDestroyOrRevokeCmd(c)
                   => o.kind \in FailureKinds
             /\ UNCHANGED bladeVars
    BY <1>a, <1>3 DEF TypeOK, bladeVars
  <1>. QED  BY <1>1, <1>2, <1>3 DEF BladeRun

\* What BladeRunFacts says of a command that succeeded.
LEMMA SuccessfulRun ==
  ASSUME TypeOK, NEW r \in Requests, NEW c \in CommandLine, NEW o \in Outcome,
         BladeRun(r, c, o), o.kind \in SuccessKinds
  PROVE  /\ isCreateOrPrepareCmd(c) => maker'[o.uid] = r
         /\ c \in Commands /\ isDestroyOrRevokeCmd(c) => blade'[c.uid] = "Stopped"
  BY BladeRunFacts

\* Where exec goes after the wait, or without one.
LEMMA AfterWaitFacts ==
  ASSUME TypeOK, NEW r \in Requests, NEW o \in Outcome, AfterWait(r, o)
  PROVE  /\ reply' \in [Requests -> Replies]
         /\ \/ pc' = [pc EXCEPT ![r] = "done"] /\ reply'[r] # "success"
            \/ /\ pc' = [pc EXCEPT ![r] = "lock"] /\ UNCHANGED reply
               /\ o.kind \in SuccessKinds
         /\ \A q \in Requests \ {r} : reply'[q] = reply[q]
  BY DEF AfterWait, TypeOK, Replies, Finish, GoTo, FailureReply

\* Where exec goes after ExecScript.
LEMMA AfterExecFacts ==
  ASSUME TypeOK, NEW r \in Requests, NEW o \in Outcome, AfterExec(r, o)
  PROVE  /\ reply' \in [Requests -> Replies]
         /\ expired' \in [Requests -> BOOLEAN]
         /\ \/ pc' = [pc EXCEPT ![r] = "k8swait"] /\ isCreateOrPrepareCmd(cmd[r])
               /\ UNCHANGED reply
            \/ pc' = [pc EXCEPT ![r] = "done"] /\ reply'[r] # "success"
            \/ /\ pc' = [pc EXCEPT ![r] = "lock"] /\ UNCHANGED reply
               /\ o.kind \in SuccessKinds
         /\ \A q \in Requests \ {r} : reply'[q] = reply[q]
  <1>1. CASE isK8sCreateCmd(cmd[r]) /\ o.uid # NoUid
    BY <1>1 DEF AfterExec, StartK8sWait, GoTo, TypeOK, isK8sCreateCmd,
                isCreateOrPrepareCmd
  <1>2. CASE ~(isK8sCreateCmd(cmd[r]) /\ o.uid # NoUid)
    <2>1. AfterWait(r, o) /\ UNCHANGED expired
      BY <1>2 DEF AfterExec
    <2>. QED  BY <2>1, AfterWaitFacts DEF TypeOK
  <1>. QED  BY <1>1, <1>2

\* The checker a request starts.
LEMMA SpawnCheckerFacts ==
  ASSUME TypeOK, NEW r \in Requests, NEW u \in Uids, NEW uri \in Uris,
         SpawnChecker(r, u, uri)
  PROVE  /\ chk' \in [Requests -> Checker]
         /\ expired' \in [Requests -> BOOLEAN]
         /\ chk'[r].uid = u /\ chk'[r].uri = uri /\ chk'[r].pc = "tick"
         /\ chk'[r].status = "Unknown"
         /\ \A q \in Requests \ {r} : chk'[q] = chk[q]
  BY DEF SpawnChecker, TypeOK, Checker, CheckerPCs

\* A step that starts a checker for a uid, or leaves the checkers alone, keeps
\* their types and that they have a uid.
LEMMA CheckersKept ==
  ASSUME TypeOK, NEW r \in Requests, NEW u \in Uids,
         \A q \in Requests : chk[q].pc # "none" => chk[q].uid \in Uids,
         (\E uri \in Uris : SpawnChecker(r, u, uri)) \/ UNCHANGED <<chk, expired>>
  PROVE  /\ chk' \in [Requests -> Checker] /\ expired' \in [Requests -> BOOLEAN]
         /\ \A q \in Requests : chk'[q].pc # "none" => chk'[q].uid \in Uids
  <1>1. CASE UNCHANGED <<chk, expired>>
    BY <1>1 DEF TypeOK
  <1>2. ASSUME NEW uri \in Uris, SpawnChecker(r, u, uri)
        PROVE  /\ chk' \in [Requests -> Checker] /\ expired' \in [Requests -> BOOLEAN]
               /\ \A q \in Requests : chk'[q].pc # "none" => chk'[q].uid \in Uids
    <2>1. /\ chk' \in [Requests -> Checker] /\ expired' \in [Requests -> BOOLEAN]
          /\ chk'[r].uid = u /\ \A q \in Requests \ {r} : chk'[q] = chk[q]
      BY <1>2, SpawnCheckerFacts
    <2>. QED  BY <2>1
  <1>. QED  BY <1>1, <1>2
-----------------------------------------------------------------------------
(* Types and shape.                                                        *)

\* The steps of a checker change nothing but its record and the running map,
\* and only a failed installation removes an entry.
LEMMA CheckerStepFacts ==
  ASSUME TypeOK, Shape, NEW r \in Requests, CheckerStep(r)
  PROVE  /\ chk' \in [Requests -> Checker]
         /\ running' \in [Uids -> Requests \cup {NoRequest}]
         /\ chk[r].pc # "none"
         /\ chk'[r].uid = chk[r].uid /\ chk'[r].uri = chk[r].uri
         /\ chk'[r].status \in {chk[r].status, blade[chk[r].uid]}
         /\ \A q \in Requests \ {r} : chk'[q] = chk[q]
         /\ \/ running' = running
            \/ /\ chk[r].uri = "javaInstall" /\ chk[r].status = "Error"
               /\ running' = [running EXCEPT ![chk[r].uid] = NoRequest]
         /\ chk'[r].pc \in {"report", "reported", "unreported"}
              => /\ chk'[r].status = chk[r].status
                 /\ \/ chk[r].pc = "report" /\ running' = running
                    \/ chk[r].uri = "javaInstall" /\ chk[r].status = "Error"
                         => running'[chk[r].uid] = NoRequest
         /\ UNCHANGED <<pc, cmd, out, reply, mutex, expired, blade, maker,
                        acked, ackedAt, crashes>>
  <1> USE DEF CheckerVarsUnchanged, bladeVars, historyVars
  <1>0. chk \in [Requests -> Checker]
    BY DEF TypeOK
  <1>a. chk[r].pc # "none" => chk[r].uid \in Uids
    BY DEF Shape
  <1>1. CASE CheckerTick(r)
    <2>1. PICK p \in {"callback", "query"} : chk' = [chk EXCEPT ![r].pc = p]
      BY <1>1 DEF CheckerTick
    <2>2. /\ chk' \in [Requests -> Checker]
          /\ chk'[r].pc = p /\ chk'[r].status = chk[r].status
          /\ chk'[r].uid = chk[r].uid /\ chk'[r].uri = chk[r].uri
          /\ \A q \in Requests \ {r} : chk'[q] = chk[q]
      BY <1>0, <2>1 DEF Checker, CheckerPCs
    <2>. QED  BY <1>1, <2>2 DEF CheckerTick, TypeOK
  <1>2. CASE CheckerQueryReturns(r)
    <2>1. blade[chk[r].uid] \in Statuses
      BY <1>2, <1>a DEF CheckerQueryReturns, TypeOK
    <2>2. PICK p \in {"tick", "callback"} :
             \/ chk' = [chk EXCEPT ![r].pc = p]
             \/ chk' = [chk EXCEPT ![r].pc = p, ![r].status = blade[chk[r].uid]]
      BY <1>2 DEF CheckerQueryReturns
    <2>3. /\ chk' \in [Requests -> Checker]
          /\ chk'[r].pc = p /\ chk'[r].status \in {chk[r].status, blade[chk[r].uid]}
          /\ chk'[r].uid = chk[r].uid /\ chk'[r].uri = chk[r].uri
          /\ \A q \in Requests \ {r} : chk'[q] = chk[q]
      BY <1>0, <2>1, <2>2 DEF Checker, CheckerPCs
    <2>. QED  BY <1>2, <2>3 DEF CheckerQueryReturns, TypeOK
  <1>3. CASE DeleteCallback(r)
    <2>1. chk' = [chk EXCEPT ![r].pc = "report"]
      BY <1>3 DEF DeleteCallback
    <2>2. /\ chk' \in [Requests -> Checker]
          /\ chk'[r].pc = "report" /\ chk'[r].status = chk[r].status
          /\ chk'[r].uid = chk[r].uid /\ chk'[r].uri = chk[r].uri
          /\ \A q \in Requests \ {r} : chk'[q] = chk[q]
      BY <1>0, <2>1 DEF Checker, CheckerPCs
    <2>. QED  BY <1>3, <1>a, <2>2 DEF DeleteCallback, TypeOK
  <1>4. CASE ReportStatus(r)
    <2>1. PICK p \in {"reported", "unreported"} : chk' = [chk EXCEPT ![r].pc = p]
      BY <1>4 DEF ReportStatus
    <2>2. /\ chk' \in [Requests -> Checker]
          /\ chk'[r].pc = p /\ chk'[r].status = chk[r].status
          /\ chk'[r].uid = chk[r].uid /\ chk'[r].uri = chk[r].uri
          /\ \A q \in Requests \ {r} : chk'[q] = chk[q]
      BY <1>0, <2>1 DEF Checker, CheckerPCs
    <2>. QED  BY <1>4, <2>2 DEF ReportStatus, TypeOK
  <1>. QED  BY <1>1, <1>2, <1>3, <1>4 DEF CheckerStep

\* Every step keeps the types and the shape.
LEMMA StepTypes == TypeOK /\ Shape /\ [Next]_vars => TypeOK' /\ Shape'
  <1> SUFFICES ASSUME TypeOK, Shape, [Next]_vars PROVE TypeOK' /\ Shape'
    OBVIOUS
  <1> USE DEF bladeVars, historyVars, GoTo, Finish
  <1>0. NoOutcome \in Outcome /\ NoOutcome.kind \notin SuccessKinds
    BY DEF NoOutcome, Outcome, FailureKinds, SuccessKinds
  <1>pc. pc \in [Requests -> PCs] /\ {"query", "critical", "done"} \subseteq PCs
    BY DEF TypeOK, PCs
  <1>t. /\ reply \in [Requests -> Replies] /\ mutex \in Requests \cup {NoRequest}
        /\ running \in [Uids -> Requests \cup {NoRequest}]
        /\ expired \in [Requests -> BOOLEAN]
    BY DEF TypeOK
  <1>1. ASSUME NEW r \in Requests, Handle(r) PROVE TypeOK' /\ Shape'
    <2>1. out[r].kind \notin SuccessKinds
      BY <1>0, <1>1 DEF Handle, Shape
    <2>a. PICK c \in Commands :
             /\ cmd' = [cmd EXCEPT ![r] = c]
             /\ \/ pc' = [pc EXCEPT ![r] = "exec"] /\ reply' = reply
                \/ /\ pc' = [pc EXCEPT ![r] = "done"]
                   /\ \E w \in Replies : reply' = [reply EXCEPT ![r] = w]
      BY <1>1 DEF Handle, Replies
    <2>b. /\ pc[r] = "idle" /\ ackedAt' = [ackedAt EXCEPT ![r] = acked]
          /\ UNCHANGED <<out, mutex, running, chk, expired, blade, maker, acked, crashes>>
      BY <1>1 DEF Handle
    <2>2. TypeOK'
      BY <2>a, <2>b, CommandsAreLines DEF TypeOK, PCs
    <2>3. Shape'
      <3>1. \A q \in Requests : q # r => pc'[q] = pc[q] /\ cmd'[q] = cmd[q]
        BY <2>a DEF TypeOK
      <3>2. pc'[r] \in {"exec", "done"} /\ cmd'[r] \in Commands
        BY <2>a DEF TypeOK
      <3>3. out[r] = NoOutcome
        BY <2>b DEF Shape
      <3>. QED  BY <2>1, <2>b, <3>1, <3>2, <3>3 DEF Shape
    <2>. QED  BY <2>2, <2>3
  <1>2. ASSUME NEW r \in Requests, NEW o \in Outcome, pc[r] = "exec",
               BladeRun(r, cmd[r], o), out' = [out EXCEPT ![r] = o], AfterExec(r, o),
               UNCHANGED <<cmd, mutex, running, chk, historyVars>>
        PROVE TypeOK' /\ Shape'
    <2>1. cmd[r] \in CommandLine
      BY DEF TypeOK
    <2>2. TypeOK'
      <3>1. /\ blade' \in [Uids -> Statuses]
            /\ maker' \in [Uids -> Requests \cup {NoRequest}]
        BY <1>2, <2>1, BladeRunFacts
      <3>2. /\ reply' \in [Requests -> Replies] /\ expired' \in [Requests -> BOOLEAN]
            /\ pc' \in [Requests -> PCs]
        BY <1>2, AfterExecFacts DEF TypeOK, PCs
      <3>. QED  BY <1>2, <3>1, <3>2 DEF TypeOK
    <2>3. isCreateOrPrepareCmd(cmd[r]) /\ o.kind \in SuccessKinds => o.uid \in Uids
      BY <1>2, <2>1, BladeRunFacts
    <2>4. /\ pc' \in [Requests -> PCs]
          /\ \A q \in Requests : q # r => pc'[q] = pc[q] /\ out'[q] = out[q]
          /\ out'[r] = o /\ pc'[r] \in {"k8swait", "done", "lock"}
          /\ pc'[r] = "k8swait" => isCreateOrPrepareCmd(cmd[r])
      BY <1>2, <2>2, AfterExecFacts DEF TypeOK
    <2>5. Shape'
      BY <1>2, <2>3, <2>4 DEF Shape
    <2>. QED  BY <2>2, <2>5
  <1>3. ASSUME NEW r \in Requests, BladeExit(r) PROVE TypeOK' /\ Shape'
    BY <1>2, <1>3 DEF BladeExit
  <1>4. ASSUME NEW r \in Requests, ExecTimeout(r) PROVE TypeOK' /\ Shape'
    BY <1>0, <1>2, <1>4 DEF ExecTimeout
  <1>5. ASSUME NEW r \in Requests, OrphanExit(r) PROVE TypeOK' /\ Shape'
    <2>1. cmd[r] \in CommandLine
      BY DEF TypeOK
    <2>2. TypeOK'
      BY <1>5, <2>1, BladeRunFacts DEF OrphanExit, TypeOK, PCs
    <2>3. Shape'
      BY <1>5 DEF OrphanExit, TypeOK, Shape
    <2>. QED  BY <2>2, <2>3
  <1>6. ASSUME NEW r \in Requests, LeaveK8sWait(r),
               pc[r] \in {"k8swait", "k8squery", "k8srecheck"}
        PROVE TypeOK' /\ Shape'
    <2>1. out[r] \in Outcome
      BY DEF TypeOK
    <2>2. TypeOK'
      BY <1>6, <2>1, AfterWaitFacts DEF LeaveK8sWait, TypeOK, PCs
    <2>3. /\ \A q \in Requests : q # r => pc'[q] = pc[q]
          /\ pc'[r] \in {"done", "lock"}
      BY <1>6, <2>1, AfterWaitFacts DEF LeaveK8sWait, TypeOK
    <2>4. Shape'
      BY <1>6, <2>3 DEF LeaveK8sWait, Shape
    <2>. QED  BY <2>2, <2>4
  <1>7. ASSUME NEW r \in Requests, NEW label \in {"k8swait", "k8squery", "k8srecheck"},
               pc[r] \in {"k8swait", "k8squery", "k8srecheck"}, GoTo(r, label),
               UNCHANGED <<cmd, out, reply, mutex, running, chk, expired, bladeVars,
                           historyVars>>
        PROVE TypeOK' /\ Shape'
    BY <1>7 DEF TypeOK, Shape, PCs
  <1>8. ASSUME NEW r \in Requests,
               K8sTimeout(r) \/ K8sTick(r) \/ K8sQueryReturns(r) \/ K8sRecheckReturns(r)
        PROVE TypeOK' /\ Shape'
    BY <1>6, <1>7, <1>8 DEF K8sTimeout, K8sTick, K8sQueryReturns, K8sRecheckReturns
  <1>9. ASSUME NEW r \in Requests, Lock(r) \/ TimerExpires(r) \/ LeaveCritical(r)
        PROVE TypeOK' /\ Shape'
    <2>1. /\ \/ UNCHANGED <<pc, mutex, reply>> /\ expired' = [expired EXCEPT ![r] = TRUE]
             \/ pc[r] = "lock" /\ pc' = [pc EXCEPT ![r] = "critical"] /\ mutex' = r
                /\ UNCHANGED <<reply, expired>>
             \/ /\ pc[r] = "critical" /\ pc' = [pc EXCEPT ![r] = "done"]
                /\ mutex' = NoRequest /\ UNCHANGED expired
                /\ \E w \in Replies : reply' = [reply EXCEPT ![r] = w]
          /\ UNCHANGED <<cmd, out, running, chk, blade, maker, acked, ackedAt, crashes>>
      BY <1>9 DEF Lock, TimerExpires, LeaveCritical, UnlockAndReply, Replies
    <2>2. TypeOK'
      <3>1. pc' \in [Requests -> PCs]
        BY <1>pc, <2>1
      <3>2. reply' \in [Requests -> Replies] /\ mutex' \in Requests \cup {NoRequest}
        BY <1>t, <2>1
      <3>3. expired' \in [Requests -> BOOLEAN]
        BY <1>t, <2>1
      <3>. QED  BY <2>1, <3>1, <3>2, <3>3 DEF TypeOK
    <2>3. Shape'
      <3>1. /\ \A q \in Requests : q # r => pc'[q] = pc[q]
            /\ \/ pc'[r] = pc[r]
               \/ pc[r] \in {"lock", "critical"} /\ pc'[r] \in {"critical", "done"}
        <4>1. \/ pc' = pc
              \/ /\ pc[r] \in {"lock", "critical"}
                 /\ \E l \in {"critical", "done"} : pc' = [pc EXCEPT ![r] = l]
          BY <2>1
        <4>. QED  BY <1>pc, <4>1
      <3>. QED  BY <2>1, <3>1 DEF Shape
    <2>. QED  BY <2>2, <2>3
  <1>10. ASSUME NEW r \in Requests, RecordRunning(r) PROVE TypeOK' /\ Shape'
    <2>1. out[r].kind = "string" => out[r].uid \in Uids
      BY <1>10 DEF RecordRunning, Shape, SuccessKinds
    <2>2. /\ chk' \in [Requests -> Checker] /\ expired' \in [Requests -> BOOLEAN]
          /\ \A q \in Requests : chk'[q].pc # "none" => chk'[q].uid \in Uids
      <3>1. \A q \in Requests : chk[q].pc # "none" => chk[q].uid \in Uids
        BY DEF Shape
      <3>2. CASE UNCHANGED <<chk, expired>>
        BY <3>1, <3>2 DEF TypeOK
      <3>3. CASE /\ out[r].uid \in Uids
                 /\ \E uri \in Uris : SpawnChecker(r, out[r].uid, uri)
        BY <3>1, <3>3, CheckersKept
      <3>. QED  BY <1>10, <2>1, <3>2, <3>3 DEF RecordRunning, Uris
    <2>3. /\ pc' = [pc EXCEPT ![r] = "done"] /\ mutex' = NoRequest
          /\ \E w \in Replies : reply' = [reply EXCEPT ![r] = w]
          /\ \/ UNCHANGED <<running, acked>>
             \/ /\ running' = [running EXCEPT ![out[r].uid] = r]
                /\ acked' = acked \cup {out[r].uid} /\ out[r].uid \in Uids
          /\ UNCHANGED <<cmd, out, blade, maker, ackedAt, crashes>>
      BY <1>10, <2>1 DEF RecordRunning, UnlockAndReply, Replies
    <2>4. TypeOK'
      <3>1. /\ pc' \in [Requests -> PCs] /\ reply' \in [Requests -> Replies]
            /\ running' \in [Uids -> Requests \cup {NoRequest}] /\ acked' \in SUBSET Uids
        BY <2>3 DEF TypeOK, PCs
      <3>. QED  BY <2>2, <2>3, <3>1 DEF TypeOK
    <2>5. Shape'
      <3>1. pc[r] = "critical" /\ \A q \in Requests : pc'[q] = IF q = r THEN "done" ELSE pc[q]
        BY <1>10, <2>3 DEF RecordRunning, TypeOK
      <3>. QED  BY <2>2, <2>3, <3>1, SMTT(30) DEF Shape
    <2>. QED  BY <2>4, <2>5
  <1>11. ASSUME NEW r \in Requests, RemoveRunning(r) PROVE TypeOK' /\ Shape'
    <2>1. /\ pc[r] = "critical" /\ isDestroyOrRevokeCmd(cmd[r])
          /\ \/ pc' = [pc EXCEPT ![r] = "query"] /\ mutex' = mutex /\ reply' = reply
             \/ /\ pc' = [pc EXCEPT ![r] = "done"] /\ mutex' = NoRequest
                /\ \E w \in Replies : reply' = [reply EXCEPT ![r] = w]
          /\ running' = [running EXCEPT ![cmd[r].uid] = NoRequest]
          /\ UNCHANGED <<cmd, out, chk, expired, blade, maker, acked, ackedAt, crashes>>
      BY <1>11 DEF RemoveRunning, UnlockAndReply, Replies
    <2>2. TypeOK'
      <3>1. pc' \in [Requests -> PCs]
        BY <1>pc, <2>1
      <3>2. reply' \in [Requests -> Replies] /\ mutex' \in Requests \cup {NoRequest}
        BY <1>t, <2>1
      <3>3. running' \in [Uids -> Requests \cup {NoRequest}]
        BY <1>t, <2>1
      <3>. QED  BY <2>1, <3>1, <3>2, <3>3 DEF TypeOK
    <2>3. Shape'
      <3>1. /\ pc'[r] \in {"query", "done"}
            /\ \A q \in Requests : q # r => pc'[q] = pc[q]
        BY <1>pc, <2>1
      <3>. QED  BY <2>1, <3>1 DEF Shape
    <2>. QED  BY <2>2, <2>3
  <1>12. ASSUME NEW r \in Requests, RevokeQueryReturns(r) PROVE TypeOK' /\ Shape'
    <2>1. cmd[r].uid \in Uids
      BY <1>12, DestroyHasUid DEF RevokeQueryReturns, Shape, isDestroyOrRevokeCmd
    <2>2. /\ chk' \in [Requests -> Checker] /\ expired' \in [Requests -> BOOLEAN]
          /\ \A q \in Requests : chk'[q].pc # "none" => chk'[q].uid \in Uids
      <3>1. \A q \in Requests : chk[q].pc # "none" => chk[q].uid \in Uids
        BY DEF Shape
      <3>2. \/ \E uri \in Uris : SpawnChecker(r, cmd[r].uid, uri)
            \/ UNCHANGED <<chk, expired>>
        BY <1>12 DEF RevokeQueryReturns, Uris
      <3>. QED  BY <2>1, <3>1, <3>2, CheckersKept
    <2>3. /\ pc[r] = "query" /\ pc' = [pc EXCEPT ![r] = "done"] /\ mutex' = NoRequest
          /\ \E w \in Replies : reply' = [reply EXCEPT ![r] = w]
          /\ UNCHANGED <<cmd, out, running, blade, maker, acked, ackedAt, crashes>>
      BY <1>12 DEF RevokeQueryReturns, UnlockAndReply, Replies
    <2>4. TypeOK'
      BY <2>2, <2>3 DEF TypeOK, PCs
    <2>5. Shape'
      <3>1. \A q \in Requests : pc'[q] = IF q = r THEN "done" ELSE pc[q]
        BY <2>3 DEF TypeOK
      <3>. QED  BY <2>2, <2>3, <3>1 DEF Shape
    <2>. QED  BY <2>4, <2>5
  <1>13. ASSUME NEW r \in Requests, CheckerStep(r) PROVE TypeOK' /\ Shape'
    <2>1. TypeOK'
      BY <1>13, CheckerStepFacts DEF TypeOK
    <2>2. \A q \in Requests : chk'[q].pc # "none" => chk'[q].uid \in Uids
      BY <1>13, CheckerStepFacts DEF Shape
    <2>3. UNCHANGED <<pc, cmd, out>>
      BY <1>13, CheckerStepFacts
    <2>4. Shape'
      BY <2>2, <2>3 DEF Shape
    <2>. QED  BY <2>1, <2>4
  <1>14. ASSUME NEW u \in Uids, BladeProgress(u) PROVE TypeOK' /\ Shape'
    <2>1. UNCHANGED <<pc, cmd, out, reply, mutex, running, chk, expired, maker, historyVars>>
      BY <1>14 DEF BladeProgress
    <2>2. blade' \in [Uids -> Statuses]
      BY <1>14 DEF BladeProgress, TypeOK, Statuses
    <2>3. TypeOK'
      BY <2>1, <2>2 DEF TypeOK, historyVars
    <2>4. Shape'
      BY <2>1 DEF Shape
    <2>. QED  BY <2>3, <2>4
  <1>15. CASE Crash
    <2>0. /\ chk' \in [Requests -> Checker]
          /\ \A r \in Requests : /\ chk'[r].uid = chk[r].uid
                                 /\ chk'[r].pc = "none" <=> chk[r].pc = "none"
      BY <1>15, CheckerDies DEF Crash, TypeOK
    <2>1. TypeOK'
      BY <1>15, <2>0, CrashBound DEF Crash, TypeOK, PCs
    <2>2. Shape'
      <3>1. \A r \in Requests :
               /\ pc'[r] \in {"idle", "exec", "orphan"}
                    => pc[r] \in {"idle", "exec", "orphan"}
               /\ pc'[r] # "idle" => pc[r] # "idle"
               /\ pc'[r] \notin InFlight
        BY <1>15 DEF Crash, TypeOK, PCs, InFlight
      <3>. QED  BY <1>15, <2>0, <3>1 DEF Crash, Shape, InFlight, PCs
    <2>. QED  BY <2>1, <2>2
  <1>16. CASE UNCHANGED vars
    BY <1>16 DEF vars, TypeOK, Shape
  <1>. QED
    BY <1>1, <1>3, <1>4, <1>5, <1>8, <1>9, <1>10, <1>11, <1>12, <1>13, <1>14, <1>15,
       <1>16 DEF Next, Request
-----------------------------------------------------------------------------
(* What a checker reports.                                                 *)

\* The checker of a request that has ended: it still waits and knows no final
\* status, or it gave up on none but at its timeout; a final status it knows is
\* one blade has reached.
Truth(r) ==
    /\ chk[r].pc # "none" => pc[r] = "done"
    /\ chk[r].pc \in {"tick", "query"} => chk[r].status \in {"Unknown", "Created"}
    /\ chk[r].pc \in {"callback", "report", "reported", "unreported"}
         /\ chk[r].status \in {"Unknown", "Created"} => expired[r] = TRUE
    /\ chk[r].pc # "none" /\ chk[r].status = "Running"
         => blade[chk[r].uid] \in {"Running", "Stopped"}
    /\ chk[r].pc # "none" /\ chk[r].status = "Error"
         => blade[chk[r].uid] \in {"Error", "Stopped"}

TruthInv == TypeOK /\ Shape /\ \A r \in Requests : Truth(r)

\* A final status of an experiment stays, or the experiment is stopped.
Ahead ==
    \A u \in Uids :
        /\ blade[u] \in {"Running", "Stopped"} => blade'[u] \in {"Running", "Stopped"}
        /\ blade[u] \in {"Error", "Stopped"} => blade'[u] \in {"Error", "Stopped"}

\* What is true of a checker stays true while it does nothing.
LEMMA TruthKept ==
  ASSUME Shape, NEW q \in Requests, Truth(q), chk'[q] = chk[q], Ahead,
         chk[q].pc # "none" => pc'[q] = "done" /\ (expired[q] = TRUE => expired'[q] = TRUE)
  PROVE  Truth(q)'
  <1>1. CASE chk[q].pc = "none"
    BY <1>1 DEF Truth
  <1>2. CASE chk[q].pc # "none"
    <2>1. chk[q].uid \in Uids
      BY <1>2 DEF Shape
    <2>. QED  BY <1>2, <2>1 DEF Truth, Ahead
  <1>. QED  BY <1>1, <1>2

\* A request that has not ended has no checker, and starts one as it ends.
LEMMA TruthRequest ==
  ASSUME TruthInv, NEW r \in Requests, pc[r] # "done", Ahead,
         \A q \in Requests \ {r} : /\ pc'[q] = pc[q] /\ chk'[q] = chk[q]
                                   /\ expired'[q] = expired[q],
         \/ chk'[r] = chk[r]
         \/ chk'[r].pc = "tick" /\ chk'[r].status = "Unknown" /\ pc'[r] = "done"
  PROVE  \A q \in Requests : Truth(q)'
  <1>1. ASSUME NEW q \in Requests, q # r PROVE Truth(q)'
    <2>1. Shape /\ Truth(q)
      BY DEF TruthInv
    <2>2. chk[q].pc # "none" => pc[q] = "done"
      BY <2>1 DEF Truth
    <2>. QED  BY <1>1, <2>1, <2>2, TruthKept
  <1>2. CASE chk'[r] = chk[r]
    <2>1. chk'[r].pc = "none"
      BY <1>2 DEF TruthInv, Truth
    <2>. QED  BY <1>1, <2>1 DEF Truth
  <1>3. CASE chk'[r].pc = "tick" /\ chk'[r].status = "Unknown" /\ pc'[r] = "done"
    <2>1. Truth(r)'
      BY <1>3 DEF Truth
    <2>. QED  BY <1>1, <2>1
  <1>. QED  BY <1>2, <1>3

\* The steps of a request.
LEMMA TruthStep ==
  ASSUME TruthInv, NEW r \in Requests, Request(r)
  PROVE  \A q \in Requests : Truth(q)'
  <1> USE DEF bladeVars, historyVars, GoTo, Finish
  <1>t. /\ TypeOK /\ Shape /\ pc \in [Requests -> PCs] /\ chk \in [Requests -> Checker]
        /\ expired \in [Requests -> BOOLEAN] /\ cmd \in [Requests -> CommandLine]
        /\ out \in [Requests -> Outcome]
    BY DEF TruthInv, TypeOK
  <1>a. blade' = blade => Ahead
    BY DEF Ahead
  <1>b. ASSUME NEW o \in Outcome, BladeRun(r, cmd[r], o) PROVE Ahead
    <2>1. \A u \in Uids : blade[u] # "None" => blade'[u] \in {blade[u], "Stopped"}
      BY <1>t, <1>b, BladeRunFacts
    <2>. QED  BY <2>1 DEF Ahead
  <1>1. CASE Handle(r)
    <2>1. /\ pc[r] # "done" /\ UNCHANGED <<chk, expired, blade>>
          /\ pc' = [pc EXCEPT ![r] = "exec"] \/ pc' = [pc EXCEPT ![r] = "done"]
      BY <1>1 DEF Handle
    <2>. QED  BY <1>t, <1>a, <2>1, TruthRequest
  <1>2. CASE BladeExit(r) \/ ExecTimeout(r)
    <2>1. PICK o \in Outcome : BladeRun(r, cmd[r], o) /\ AfterExec(r, o)
      BY <1>2 DEF BladeExit, ExecTimeout, NoOutcome, Outcome, FailureKinds
    <2>2. pc[r] # "done" /\ chk' = chk
      BY <1>2 DEF BladeExit, ExecTimeout
    <2>3. \A q \in Requests \ {r} : pc'[q] = pc[q]
      BY <1>t, <2>1, AfterExecFacts
    <2>4. \A q \in Requests \ {r} : expired'[q] = expired[q]
      BY <1>t, <2>1 DEF AfterExec, StartK8sWait
    <2>. QED  BY <1>b, <2>1, <2>2, <2>3, <2>4, TruthRequest
  <1>3. CASE OrphanExit(r)
    <2>1. Ahead
      BY <1>b, <1>3 DEF OrphanExit
    <2>2. pc[r] # "done" /\ UNCHANGED <<chk, expired>> /\ pc' = [pc EXCEPT ![r] = "lost"]
      BY <1>3 DEF OrphanExit
    <2>. QED  BY <1>t, <2>1, <2>2, TruthRequest
  <1>4. CASE K8sTimeout(r) \/ K8sTick(r) \/ K8sQueryReturns(r) \/ K8sRecheckReturns(r)
    <2>1. pc[r] # "done" /\ UNCHANGED <<chk, expired, blade>>
      BY <1>4 DEF K8sTimeout, K8sTick, K8sQueryReturns, K8sRecheckReturns, LeaveK8sWait
    <2>2. \A q \in Requests \ {r} : pc'[q] = pc[q]
      BY <1>t, <1>4 DEF K8sTimeout, K8sTick, K8sQueryReturns, K8sRecheckReturns, LeaveK8sWait,
                        AfterWait
    <2>. QED  BY <1>a, <2>1, <2>2, TruthRequest
  <1>5. CASE Lock(r) \/ RemoveRunning(r) \/ LeaveCritical(r)
    <2>1. pc[r] # "done" /\ UNCHANGED <<chk, expired, blade>>
      BY <1>5 DEF Lock, RemoveRunning, LeaveCritical
    <2>2. \A q \in Requests \ {r} : pc'[q] = pc[q]
      BY <1>t, <1>5 DEF Lock, RemoveRunning, LeaveCritical, UnlockAndReply
    <2>. QED  BY <1>a, <2>1, <2>2, TruthRequest
  <1>6. CASE RecordRunning(r) \/ RevokeQueryReturns(r)
    <2>1. pc[r] # "done" /\ blade' = blade /\ pc' = [pc EXCEPT ![r] = "done"]
      BY <1>6 DEF RecordRunning, RevokeQueryReturns, UnlockAndReply
    <2>2. \/ UNCHANGED <<chk, expired>>
          \/ \E u, uri : SpawnChecker(r, u, uri)
      BY <1>6 DEF RecordRunning, RevokeQueryReturns
    <2>3. /\ \A q \in Requests \ {r} : chk'[q] = chk[q] /\ expired'[q] = expired[q]
          /\ chk'[r] = chk[r] \/ (chk'[r].pc = "tick" /\ chk'[r].status = "Unknown")
      BY <1>t, <2>2 DEF SpawnChecker
    <2>. QED  BY <1>t, <1>a, <2>1, <2>3, TruthRequest
  <1>7. CASE TimerExpires(r)
    <2>1. UNCHANGED <<pc, chk, blade>> /\ expired' = [expired EXCEPT ![r] = TRUE]
      BY <1>7 DEF TimerExpires
    <2>2. ASSUME NEW q \in Requests PROVE Truth(q)'
      <3>1. Truth(q) /\ (expired[q] = TRUE => expired'[q] = TRUE)
        BY <1>t, <2>1 DEF TruthInv
      <3>2. chk[q].pc # "none" => pc[q] = "done"
        BY <3>1 DEF Truth
      <3>. QED  BY <1>t, <1>a, <2>1, <3>1, <3>2, TruthKept
    <2>. QED  BY <2>2
  <1>. QED  BY <1>1, <1>2, <1>3, <1>4, <1>5, <1>6, <1>7 DEF Request

\* The steps of a checker.
LEMMA TruthChecker ==
  ASSUME TruthInv, NEW r \in Requests, CheckerStep(r)
  PROVE  \A q \in Requests : Truth(q)'
  <1>0. TypeOK /\ Shape /\ Truth(r) /\ chk[r] \in Checker
    BY DEF TruthInv, TypeOK
  <1>1. /\ chk[r].pc # "none" /\ chk'[r].uid = chk[r].uid /\ chk[r].uid \in Uids
        /\ \A q \in Requests \ {r} : chk'[q] = chk[q]
        /\ UNCHANGED <<pc, expired, blade>>
    BY <1>0, CheckerStepFacts DEF Shape
  <1>2. ASSUME NEW q \in Requests \ {r} PROVE Truth(q)'
    <2>1. Truth(q) /\ Ahead
      BY <1>1 DEF TruthInv, Ahead
    <2>2. chk[q].pc # "none" => pc[q] = "done"
      BY <2>1 DEF Truth
    <2>. QED  BY <1>0, <1>1, <2>1, <2>2, TruthKept
  <1>3. Truth(r)'
    <2>1. CASE CheckerTick(r)
      <3>1. /\ chk[r].pc = "tick" /\ chk'[r].status = chk[r].status
            /\ chk'[r].pc = "query" \/ (chk'[r].pc = "callback" /\ expired[r] = TRUE)
        <4>1. CASE expired[r] = TRUE
          <5>1. chk[r].pc = "tick" /\ chk' = [chk EXCEPT ![r].pc = "callback"]
            BY <2>1, <4>1 DEF CheckerTick
          <5>. QED  BY <4>1, <5>1 DEF TruthInv, TypeOK, Checker
        <4>2. CASE expired[r] # TRUE
          <5>1. expired[r] = FALSE
            BY <1>0, <4>2 DEF TypeOK
          <5>2. chk[r].pc = "tick" /\ chk' = [chk EXCEPT ![r].pc = "query"]
            BY <2>1, <5>1, Zenon DEF CheckerTick
          <5>. QED  BY <5>2 DEF TruthInv, TypeOK, Checker
        <4>. QED  BY <4>1, <4>2
      <3>. QED  BY <1>0, <1>1, <3>1 DEF Truth
    <2>2. CASE CheckerQueryReturns(r)
      <3>1. /\ chk[r].pc = "query"
            /\ \/ chk'[r].pc = "tick" /\ chk'[r].status = chk[r].status
               \/ /\ chk'[r].status = blade[chk[r].uid]
                  /\ IF blade[chk[r].uid] = "Created" THEN chk'[r].pc = "tick"
                                                      ELSE chk'[r].pc = "callback"
        BY <1>0, <2>2 DEF CheckerQueryReturns, TypeOK, Checker
      <3>2. blade[chk[r].uid] \in Statuses
        BY <1>0, <1>1 DEF TypeOK
      <3>3. blade[chk[r].uid] # "Unknown"
        BY <3>2 DEF Statuses
      <3>. QED  BY <1>0, <1>1, <3>1, <3>3 DEF Truth
    <2>3. CASE DeleteCallback(r)
      <3>1. chk[r].pc = "callback" /\ chk'[r].pc = "report" /\ chk'[r].status = chk[r].status
        BY <1>0, <2>3 DEF DeleteCallback, TypeOK, Checker
      <3>. QED  BY <1>0, <1>1, <3>1 DEF Truth
    <2>4. CASE ReportStatus(r)
      <3>1. /\ chk[r].pc = "report" /\ chk'[r].pc \in {"reported", "unreported"}
            /\ chk'[r].status = chk[r].status
        BY <1>0, <2>4 DEF ReportStatus, TypeOK, Checker
      <3>. QED  BY <1>0, <1>1, <3>1 DEF Truth
    <2>. QED  BY <2>1, <2>2, <2>3, <2>4 DEF CheckerStep
  <1>. QED  BY <1>2, <1>3

\* A crash.
LEMMA TruthCrash ==
  ASSUME TruthInv, Crash
  PROVE  \A q \in Requests : Truth(q)'
  <1> SUFFICES ASSUME NEW q \in Requests PROVE Truth(q)'
    OBVIOUS
  <1>1. Truth(q) /\ chk[q] \in Checker /\ UNCHANGED <<expired, blade>>
    BY DEF TruthInv, TypeOK, Crash, bladeVars
  <1>2. pc[q] = "done" => pc'[q] = "done"
    BY DEF Crash, InFlight
  <1>3. chk'[q] = IF chk[q].pc \in CheckerActive THEN [chk[q] EXCEPT !.pc = "lost"] ELSE chk[q]
    BY DEF Crash
  <1>4. /\ chk'[q].uid = chk[q].uid /\ chk'[q].status = chk[q].status
        /\ chk'[q].pc = "none" <=> chk[q].pc = "none"
        /\ chk'[q].pc \notin CheckerActive
        /\ chk'[q].pc \in {"reported", "unreported"} => chk'[q].pc = chk[q].pc
    BY <1>1, <1>3, CheckerDies
  <1>. QED  BY <1>1, <1>2, <1>4 DEF Truth, CheckerActive

\* A checker gives up on a status that is not final only at its timeout, and a
\* final status it reports is one blade had reached (timingCheckStatus).
THEOREM ReportsTruthful == Spec => []ReportIsTruthful
  <1>1. Init => TruthInv
    <2>1. ASSUME Init, NEW r \in Requests PROVE Truth(r)
      <3>1. chk[r].pc = "none"
        BY <2>1 DEF Init, NoChecker
      <3>. QED  BY <3>1 DEF Truth
    <2>. QED  BY <2>1, InitTypes DEF TruthInv
  <1>2. TruthInv /\ [Next]_vars => TruthInv'
    <2> SUFFICES ASSUME TruthInv, [Next]_vars PROVE TruthInv'
      OBVIOUS
    <2>0. TypeOK' /\ Shape'
      BY StepTypes DEF TruthInv
    <2>1. ASSUME NEW u \in Uids, BladeProgress(u) PROVE \A q \in Requests : Truth(q)'
      <3>1. Ahead /\ UNCHANGED <<pc, chk, expired>>
        BY <2>1 DEF BladeProgress, Ahead, TruthInv, TypeOK
      <3>2. ASSUME NEW q \in Requests PROVE Truth(q)'
        <4>1. Shape /\ Truth(q)
          BY DEF TruthInv
        <4>2. chk[q].pc # "none" => pc[q] = "done"
          BY <4>1 DEF Truth
        <4>. QED  BY <3>1, <4>1, <4>2, TruthKept
      <3>. QED  BY <3>2
    <2>2. CASE UNCHANGED vars
      <3>1. \A q \in Requests : Truth(q)'
        BY <2>2 DEF vars, TruthInv, Truth
      <3>. QED  BY <2>0, <3>1 DEF TruthInv
    <2>3. CASE Next
      <3>1. \A q \in Requests : Truth(q)'
        BY <2>1, <2>3, TruthStep, TruthChecker, TruthCrash DEF Next
      <3>. QED  BY <2>0, <3>1 DEF TruthInv
    <2>. QED  BY <2>2, <2>3
  <1>3. TruthInv => ReportIsTruthful
    <2> SUFFICES ASSUME TruthInv, NEW r \in Requests,
                        chk[r].pc \in {"report", "reported", "unreported"}
                 PROVE  /\ chk[r].status \in {"Unknown", "Created"} => expired[r]
                        /\ chk[r].status = "Running" => blade[chk[r].uid] \in {"Running", "Stopped"}
                        /\ chk[r].status = "Error" => blade[chk[r].uid] \in {"Error", "Stopped"}
      BY DEF ReportIsTruthful
    <2>1. Truth(r)
      BY DEF TruthInv
    <2>. QED  BY <2>1 DEF Truth
  <1>. QED  BY <1>1, <1>2, <1>3, PTL DEF Spec
=============================================================================
