------------------------- MODULE ChaosbladeHandler -------------------------
(***************************************************************************)
(* The handler of the "chaosblade" requests (web/handler/chaosblade.go).   *)
(* net/http runs one goroutine per request.  The goroutine executes the    *)
(* blade command line tool (pkg/bash), waits for a Kubernetes experiment   *)
(* to settle, and then records the experiment in ch.running under ch.mutex *)
(* or removes it.  A prepare, a revoke and an asynchronous create also     *)
(* start a checker goroutine that polls the experiment and reports its     *)
(* final status to the server once.                                        *)
(*                                                                         *)
(* blade keeps the experiments in a database of its own, which outlives    *)
(* the agent: it is external and modelled by what the handler relies on.   *)
(***************************************************************************)
EXTENDS Naturals

CONSTANTS
    Requests,     \* the requests the server sends; each is handled once
    Uids,         \* the experiment uids blade can issue
    Commands,     \* the command lines a request may carry
    NoRequest,    \* nobody holds the mutex; no command line is recorded
    NoUid,        \* no uid: of a command line, or in a result
    MaxCrashes    \* how often the agent may die and be started again

\* pkg/options: the operation names and their one-letter aliases.
PrepareOperation == {"prepare", "p"}
CreateOperation  == {"create", "c"}
RevokeOperation  == {"revoke", "r"}
DestroyOperation == {"destroy", "d"}

(***************************************************************************)
(* A command line.  command is the first field ("" for an empty cmd        *)
(* parameter, "blank" for one without fields), target what the handler     *)
(* reads in the second ("missing" when there is none), uid the second      *)
(* field of a destroy or a revoke, async the presence of --async or --a.   *)
(***************************************************************************)
Operations  == PrepareOperation \cup CreateOperation
                 \cup RevokeOperation \cup DestroyOperation
                 \cup {"", "blank", "query"}
Targets     == {"k8s", "jvm", "os", "missing"}
CommandLine == [command : Operations, target : Targets,
                uid : Uids \cup {NoUid}, async : BOOLEAN]

ASSUME ConstantsAssumption ==
    /\ NoRequest \notin Requests
    /\ NoUid \notin Uids
    /\ Commands \subseteq CommandLine
    /\ \A c \in Commands :
          c.command \in RevokeOperation \cup DestroyOperation => c.uid \in Uids
    /\ MaxCrashes \in Nat

isCreateOrPrepareCmd(c) == c.command \in PrepareOperation \cup CreateOperation
isDestroyOrRevokeCmd(c) == c.command \in RevokeOperation \cup DestroyOperation
isJavaAgentInstall(c)   == c.command \in PrepareOperation /\ c.target = "jvm"
isRevokeOperation(c)    == c.command \in RevokeOperation
isAsyncCreate(c)        == c.command \in CreateOperation /\ c.async
isK8sCreateCmd(c)       == c.command \in CreateOperation /\ c.target = "k8s"

(***************************************************************************)
(* What ExecScript and the parsing of its output leave to the handler:     *)
(*   "string"   exit code 0, success, and the result field is a string     *)
(*   "object"   exit code 0, success, and the result is something else     *)
(*   "refused"  exit code 0, but not success (or not JSON, parseResult),   *)
(*              or another exit code, and the output is a JSON response:   *)
(*              that response is returned as it is                         *)
(*   "garbled"  another exit code, or killed, and the output is not        *)
(* and the uid that extractUidFromResponse or extractUidFromRawResult      *)
(* finds in it.                                                            *)
(***************************************************************************)
SuccessKinds == {"string", "object"}
FailureKinds == {"refused", "garbled"}
Outcome      == [kind : SuccessKinds \cup FailureKinds, uid : Uids \cup {NoUid}]
NoOutcome    == [kind |-> "garbled", uid |-> NoUid]

VARIABLES
    pc,        \* pc[r]: where the goroutine of request r is
    cmd,       \* cmd[r]: the command line request r carries
    out,       \* out[r]: what executing it returned
    reply,     \* reply[r]: what the server got as the response
    mutex,     \* ch.mutex: the request that holds it, or NoRequest
    running,   \* ch.running: per uid, the request whose command line it holds
    chk,       \* chk[r]: the checker goroutine that request r started
    expired,   \* expired[r]: the timeout context r or its checker waits on is done
    blade,     \* blade's own database: the status of every uid (external)
    maker,     \* the request whose command created the uid (external)
    acked,     \* history: uids reported as created since the agent started
    ackedAt,   \* history: acked when request r arrived
    crashes    \* how often the agent has died

vars == <<pc, cmd, out, reply, mutex, running, chk, expired, blade, maker,
          acked, ackedAt, crashes>>

bladeVars   == <<blade, maker>>
historyVars == <<acked, ackedAt, crashes>>

PCs == {"idle", "exec", "k8swait", "k8squery", "k8srecheck", "lock",
        "critical", "query", "done", "orphan", "lost"}
Replies == {"none", "success", "fail", "ParameterEmpty", "ParameterLess",
            "ChaosbladeFileNotFound", "ResultUnmarshalFailed", "aborted"}
Statuses == {"None", "Created", "Running", "Error", "Stopped"}
Uris == {"none", "javaInstall", "javaUninstall", "chaosbladeAsync"}
CheckerPCs == {"none", "tick", "query", "callback", "report", "reported",
               "unreported", "lost"}
Checker == [pc : CheckerPCs,
            uid : Uids \cup {NoUid}, uri : Uris, status : Statuses \cup {"Unknown"}]
NoChecker == [pc |-> "none", uid |-> NoUid, uri |-> "none", status |-> "Unknown"]
NoCommandLine == [command |-> "", target |-> "missing", uid |-> NoUid,
                  async |-> FALSE]

\* The states of a goroutine between its start and its end.
InFlight      == PCs \ {"idle", "done", "orphan", "lost"}
CheckerActive == {"tick", "query", "callback", "report"}

\* Every variable has its type.
TypeOK ==
    /\ pc \in [Requests -> PCs]
    /\ cmd \in [Requests -> CommandLine]
    /\ out \in [Requests -> Outcome]
    /\ reply \in [Requests -> Replies]
    /\ mutex \in Requests \cup {NoRequest}
    /\ running \in [Uids -> Requests \cup {NoRequest}]
    /\ chk \in [Requests -> Checker]
    /\ expired \in [Requests -> BOOLEAN]
    /\ blade \in [Uids -> Statuses]
    /\ maker \in [Uids -> Requests \cup {NoRequest}]
    /\ acked \subseteq Uids
    /\ ackedAt \in [Requests -> SUBSET Uids]
    /\ crashes \in 0 .. MaxCrashes

\* NewChaosbladeHandler: an empty running map and a free mutex.
Init ==
    /\ pc = [r \in Requests |-> "idle"]
    /\ cmd = [r \in Requests |-> NoCommandLine]
    /\ out = [r \in Requests |-> NoOutcome]
    /\ reply = [r \in Requests |-> "none"]
    /\ mutex = NoRequest
    /\ running = [u \in Uids |-> NoRequest]
    /\ chk = [r \in Requests |-> NoChecker]
    /\ expired = [r \in Requests |-> FALSE]
    /\ blade = [u \in Uids |-> "None"]
    /\ maker = [u \in Uids |-> NoRequest]
    /\ acked = {}
    /\ ackedAt = [r \in Requests |-> {}]
    /\ crashes = 0

-----------------------------------------------------------------------------
(* blade, the external command line tool.                                  *)

(***************************************************************************)
(* What running command line c for request r may do to blade's database    *)
(* and which outcome o it prints.  A create or prepare that succeeds names *)
(* a fresh uid.  One that fails may have created the experiment all the    *)
(* same and may or may not print its uid.  A destroy or revoke that        *)
(* succeeds stopped the experiment; one that fails may have.               *)
(***************************************************************************)
BladeRun(r, c, o) ==
    \/ /\ isCreateOrPrepareCmd(c)
       /\ \E u \in Uids :
             /\ blade[u] = "None"
             /\ o.uid \in (IF o.kind \in SuccessKinds THEN {u} ELSE {u, NoUid})
             /\ \E s \in (IF o.kind \in SuccessKinds THEN {"Created", "Running"}
                          ELSE {"Running", "Error"}) :
                   blade' = [blade EXCEPT ![u] = s]
             /\ maker' = [maker EXCEPT ![u] = r]
    \/ /\ isDestroyOrRevokeCmd(c)
       /\ blade[c.uid] # "None"
       /\ o.uid = NoUid
       /\ blade' = [blade EXCEPT ![c.uid] = "Stopped"]
       /\ UNCHANGED maker
    \/ /\ isCreateOrPrepareCmd(c) \/ isDestroyOrRevokeCmd(c)
             => o.kind \in FailureKinds
       /\ o.uid = NoUid
       /\ UNCHANGED bladeVars

\* blade finishes the installation of an agent or an asynchronous create.
BladeProgress(u) ==
    /\ blade[u] = "Created"
    /\ \E s \in {"Running", "Error"} : blade' = [blade EXCEPT ![u] = s]
    /\ UNCHANGED <<pc, cmd, out, reply, mutex, running, chk, expired, maker,
                   historyVars>>

-----------------------------------------------------------------------------
(* The request goroutine.                                                  *)

GoTo(r, label) == pc' = [pc EXCEPT ![r] = label]

Finish(r, answer) ==
    /\ GoTo(r, "done")
    /\ reply' = [reply EXCEPT ![r] = answer]

\* The response of exec for a result that is not a success.
FailureReply(o) == IF o.kind = "garbled" THEN "ResultUnmarshalFailed" ELSE "fail"

\* Handle, and exec up to the start of blade.
Handle(r) ==
    /\ pc[r] = "idle"
    /\ \E c \in Commands :
          /\ cmd' = [cmd EXCEPT ![r] = c]
          /\ \/ c.command = "" /\ Finish(r, "ParameterEmpty")
             \/ c.command = "blank" /\ Finish(r, "ParameterLess")
             \/ c.command \notin {"", "blank"} /\ Finish(r, "ChaosbladeFileNotFound")
             \/ c.command \notin {"", "blank"} /\ GoTo(r, "exec") /\ UNCHANGED reply
    /\ ackedAt' = [ackedAt EXCEPT ![r] = acked]
    /\ UNCHANGED <<out, mutex, running, chk, expired, bladeVars, acked, crashes>>

\* waitForK8sStatus starts: the timeout context and the first half second.
StartK8sWait(r) ==
    /\ GoTo(r, "k8swait")
    /\ expired' = [expired EXCEPT ![r] = FALSE]
    /\ UNCHANGED reply

\* Mutated: exec goes on to the running map whatever blade answered.
AfterWait_IgnoresFailure(r, o) == GoTo(r, "lock") /\ UNCHANGED reply

(***************************************************************************)
(* exec, once outcome o of the command is known and, for a Kubernetes      *)
(* create that names a uid, once the wait is over.  fields[1] of a         *)
(* successful one-word command is out of range: net/http recovers the      *)
(* panic and drops the connection.                                         *)
(***************************************************************************)
AfterWait(r, o) ==
    \/ /\ o.kind \in FailureKinds
       /\ Finish(r, FailureReply(o))
    \/ /\ o.kind \in SuccessKinds
       /\ cmd[r].target = "missing"
       /\ Finish(r, "aborted")
    \/ /\ o.kind \in SuccessKinds
       /\ cmd[r].target # "missing"
       /\ GoTo(r, "lock")
       /\ UNCHANGED reply

\* exec after ExecScript returned outcome o.
AfterExec(r, o) ==
    IF isK8sCreateCmd(cmd[r]) /\ o.uid # NoUid
      THEN StartK8sWait(r)
      ELSE AfterWait(r, o) /\ UNCHANGED expired

\* blade ends by itself and ExecScript returns its output.
BladeExit(r) ==
    /\ pc[r] = "exec"
    /\ \E o \in Outcome :
          /\ BladeRun(r, cmd[r], o)
          /\ out' = [out EXCEPT ![r] = o]
          /\ AfterExec(r, o)
    /\ UNCHANGED <<cmd, mutex, running, chk, historyVars>>

\* The 60 second context of ExecScript kills blade, before or after it took effect.
ExecTimeout(r) ==
    /\ pc[r] = "exec"
    /\ BladeRun(r, cmd[r], NoOutcome)
    /\ out' = [out EXCEPT ![r] = NoOutcome]
    /\ AfterExec(r, NoOutcome)
    /\ UNCHANGED <<cmd, mutex, running, chk, historyVars>>

\* A context.WithTimeout of waitForK8sStatus or timingCheckStatus reaches its deadline.
TimerExpires(r) ==
    /\ ~expired[r]
    /\ pc[r] \in {"k8swait", "k8squery", "k8srecheck"}
         \/ chk[r].pc \in {"tick", "query"}
    /\ expired' = [expired EXCEPT ![r] = TRUE]
    /\ UNCHANGED <<pc, cmd, out, reply, mutex, running, chk, bladeVars, historyVars>>

\* waitForK8sStatus returns: exec goes on where it had called it.
LeaveK8sWait(r) ==
    /\ AfterWait(r, out[r])
    /\ UNCHANGED <<cmd, out, mutex, running, chk, expired, bladeVars, historyVars>>

\* The select of waitForK8sStatus takes the done context ...
K8sTimeout(r) ==
    /\ pc[r] = "k8swait"
    /\ expired[r]
    /\ LeaveK8sWait(r)

\* ... or the ticker (at random when both are ready), and the query starts.
K8sTick(r) ==
    /\ pc[r] = "k8swait"
    /\ GoTo(r, "k8squery")
    /\ UNCHANGED <<cmd, out, reply, mutex, running, chk, expired, bladeVars,
                   historyVars>>

(***************************************************************************)
(* The query returns: not ready or failed (next tick), with statuses       *)
(* (done), or accepted without statuses.  In the last case a result that   *)
(* is an object is queried once more after a second; one that is a string  *)
(* is taken as done.                                                       *)
(***************************************************************************)
K8sQueryReturns(r) ==
    /\ pc[r] = "k8squery"
    /\ \/ /\ \E label \in {"k8swait", "k8srecheck"} : GoTo(r, label)
          /\ UNCHANGED <<cmd, out, reply, mutex, running, chk, expired, bladeVars,
                         historyVars>>
       \/ LeaveK8sWait(r)

\* The second query returns; whatever it says, the wait is over.
K8sRecheckReturns(r) ==
    /\ pc[r] = "k8srecheck"
    /\ LeaveK8sWait(r)

\* handleCacheAndSafePoint: ch.mutex.Lock().
Lock(r) ==
    /\ pc[r] = "lock"
    /\ mutex = NoRequest
    /\ mutex' = r
    /\ GoTo(r, "critical")
    /\ UNCHANGED <<cmd, out, reply, running, chk, expired, bladeVars, historyVars>>

\* A checker goroutine for uid u that will report to uri starts.
SpawnChecker(r, u, uri) ==
    /\ chk' = [chk EXCEPT ![r] = [pc |-> "tick", uid |-> u, uri |-> uri,
                                  status |-> "Unknown"]]
    /\ expired' = [expired EXCEPT ![r] = FALSE]

\* The deferred Unlock and the return of exec with the response of blade.
UnlockAndReply(r, answer) ==
    /\ mutex' = NoRequest
    /\ Finish(r, answer)

\* Mutated: the map is written before the type of the result is looked at.
RecordRunning_BeforeAssertion(r) ==
    /\ pc[r] = "critical"
    /\ isCreateOrPrepareCmd(cmd[r])
    /\ running' = [running EXCEPT ![out[r].uid] = r]
    /\ UnlockAndReply(r, IF out[r].kind = "string" THEN "success" ELSE "aborted")
    /\ acked' = IF out[r].kind = "string" THEN acked \cup {out[r].uid} ELSE acked
    /\ UNCHANGED <<cmd, out, chk, expired, bladeVars, ackedAt, crashes>>

\* Mutated: Unlock is not deferred, so a panic leaves the mutex locked.
RecordRunning_PanicKeepsLock(r) ==
    /\ pc[r] = "critical"
    /\ isCreateOrPrepareCmd(cmd[r])
    /\ IF out[r].kind = "object"
         THEN Finish(r, "aborted") /\ UNCHANGED <<mutex, running, acked>>
         ELSE /\ running' = [running EXCEPT ![out[r].uid] = r]
              /\ UnlockAndReply(r, "success")
              /\ acked' = acked \cup {out[r].uid}
    /\ UNCHANGED <<cmd, out, chk, expired, bladeVars, ackedAt, crashes>>

(***************************************************************************)
(* handleCacheAndSafePoint for a create or a prepare: record the command   *)
(* line, start the checker of a Java agent or of an asynchronous create.   *)
(* A result that is no string makes the type assertion panic before the    *)
(* map is written; the deferred Unlock still runs.                         *)
(***************************************************************************)
RecordRunning(r) ==
    /\ pc[r] = "critical"
    /\ isCreateOrPrepareCmd(cmd[r])
    /\ \/ /\ out[r].kind = "object"
          /\ UnlockAndReply(r, "aborted")
          /\ UNCHANGED <<running, chk, expired, acked>>
       \/ /\ out[r].kind = "string"
          /\ running' = [running EXCEPT ![out[r].uid] = r]
          /\ IF isJavaAgentInstall(cmd[r])
               THEN SpawnChecker(r, out[r].uid, "javaInstall")
               ELSE IF isAsyncCreate(cmd[r])
                      THEN SpawnChecker(r, out[r].uid, "chaosbladeAsync")
                      ELSE UNCHANGED <<chk, expired>>
          /\ UnlockAndReply(r, "success")
          /\ acked' = acked \cup {out[r].uid}
    /\ UNCHANGED <<cmd, out, bladeVars, ackedAt, crashes>>

\* Mutated: a revoke does not take the uid out of the map.
RemoveRunning_DestroyOnly(r) ==
    /\ pc[r] = "critical"
    /\ isDestroyOrRevokeCmd(cmd[r])
    /\ IF isRevokeOperation(cmd[r])
         THEN GoTo(r, "query") /\ UNCHANGED <<mutex, reply, running>>
         ELSE /\ UnlockAndReply(r, "success")
              /\ running' = [running EXCEPT ![cmd[r].uid] = NoRequest]
    /\ UNCHANGED <<cmd, out, chk, expired, bladeVars, historyVars>>

\* Mutated: a revoke unlocks before its query.
RemoveRunning_UnlockEarly(r) ==
    /\ pc[r] = "critical"
    /\ isDestroyOrRevokeCmd(cmd[r])
    /\ running' = [running EXCEPT ![cmd[r].uid] = NoRequest]
    /\ mutex' = NoRequest
    /\ IF isRevokeOperation(cmd[r]) THEN GoTo(r, "query") /\ UNCHANGED reply
                                    ELSE Finish(r, "success")
    /\ UNCHANGED <<cmd, out, chk, expired, bladeVars, historyVars>>

\* handleCacheAndSafePoint for a destroy or a revoke: the uid leaves the map.
\* A revoke goes on to query the preparation, with the mutex held.
RemoveRunning(r) ==
    /\ pc[r] = "critical"
    /\ isDestroyOrRevokeCmd(cmd[r])
    /\ running' = [running EXCEPT ![cmd[r].uid] = NoRequest]
    /\ IF isRevokeOperation(cmd[r])
         THEN GoTo(r, "query") /\ UNCHANGED <<mutex, reply>>
         ELSE UnlockAndReply(r, "success")
    /\ UNCHANGED <<cmd, out, chk, expired, bladeVars, historyVars>>

\* handleCacheAndSafePoint for any other command changes nothing.
LeaveCritical(r) ==
    /\ pc[r] = "critical"
    /\ ~isCreateOrPrepareCmd(cmd[r]) /\ ~isDestroyOrRevokeCmd(cmd[r])
    /\ UnlockAndReply(r, "success")
    /\ UNCHANGED <<cmd, out, running, chk, expired, bladeVars, historyVars>>

\* queryPreparationStatus inside a revoke returns: the record of a Java agent
\* starts the checker of its removal; another record, or an error, does not.
RevokeQueryReturns(r) ==
    /\ pc[r] = "query"
    /\ \/ /\ maker[cmd[r].uid] # NoRequest
          /\ isJavaAgentInstall(cmd[maker[cmd[r].uid]])
          /\ SpawnChecker(r, cmd[r].uid, "javaUninstall")
       \/ UNCHANGED <<chk, expired>>
    /\ UnlockAndReply(r, "success")
    /\ UNCHANGED <<cmd, out, running, bladeVars, historyVars>>

-----------------------------------------------------------------------------
(* The checker goroutine: checkAndReportJavaAgentStatus,                   *)
(* checkAndReportJavaAgentUninstallStatus and checkAndReportAsyncStatus.   *)

CheckerVarsUnchanged ==
    UNCHANGED <<pc, cmd, out, reply, mutex, expired, bladeVars, historyVars>>

\* Mutated: the loop never looks at its timeout context.
CheckerTick_NoTimeout(r) ==
    /\ chk[r].pc = "tick"
    /\ chk' = [chk EXCEPT ![r].pc = "query"]
    /\ UNCHANGED running /\ CheckerVarsUnchanged

\* timingCheckStatus, one tick: a done context is seen before another query starts.
CheckerTick(r) ==
    /\ chk[r].pc = "tick"
    /\ chk' = [chk EXCEPT ![r].pc = IF expired[r] THEN "callback" ELSE "query"]
    /\ UNCHANGED running /\ CheckerVarsUnchanged

\* Mutated: the status Created ends the loop too.
CheckerQueryReturns_CreatedEnds(r) ==
    /\ chk[r].pc = "query"
    /\ chk' = [chk EXCEPT ![r].pc = "callback", ![r].status = blade[chk[r].uid]]
    /\ UNCHANGED running /\ CheckerVarsUnchanged

\* timingCheckStatus, the query returns: an error and the status Created wait
\* for the next tick, any other status ends the loop.
CheckerQueryReturns(r) ==
    /\ chk[r].pc = "query"
    /\ \/ chk' = [chk EXCEPT ![r].pc = "tick"]
       \/ LET s == blade[chk[r].uid] IN
          chk' = [chk EXCEPT ![r].pc = IF s = "Created" THEN "tick" ELSE "callback",
                             ![r].status = s]
    /\ UNCHANGED running /\ CheckerVarsUnchanged

\* Mutated: a failed installation stays in the map.
DeleteCallback_Keeps(r) ==
    /\ chk[r].pc = "callback"
    /\ chk' = [chk EXCEPT ![r].pc = "report"]
    /\ UNCHANGED running /\ CheckerVarsUnchanged

\* The callback: deleteCallback for an installation, nothing for the others.
\* It reads and writes ch.running without ch.mutex.
DeleteCallback(r) ==
    /\ chk[r].pc = "callback"
    /\ running' = IF chk[r].uri = "javaInstall" /\ chk[r].status = "Error"
                    THEN [running EXCEPT ![chk[r].uid] = NoRequest]
                    ELSE running
    /\ chk' = [chk EXCEPT ![r].pc = "report"]
    /\ CheckerVarsUnchanged

\* ReportStatus: one call; a failure is logged and not repeated.
ReportStatus(r) ==
    /\ chk[r].pc = "report"
    /\ \E label \in {"reported", "unreported"} : chk' = [chk EXCEPT ![r].pc = label]
    /\ UNCHANGED running /\ CheckerVarsUnchanged

-----------------------------------------------------------------------------
(***************************************************************************)
(* The agent process dies (killed, or a Go runtime error) and is started   *)
(* again: every goroutine, the mutex and the running map are gone.  A      *)
(* blade process it had started goes on.                                   *)
(***************************************************************************)
Crash ==
    /\ crashes < MaxCrashes
    /\ crashes' = crashes + 1
    /\ pc' = [r \in Requests |-> IF pc[r] = "exec" THEN "orphan"
                                 ELSE IF pc[r] \in InFlight THEN "lost" ELSE pc[r]]
    /\ chk' = [r \in Requests |-> IF chk[r].pc \in CheckerActive
                                  THEN [chk[r] EXCEPT !.pc = "lost"] ELSE chk[r]]
    /\ mutex' = NoRequest
    /\ running' = [u \in Uids |-> NoRequest]
    /\ acked' = {}
    /\ UNCHANGED <<cmd, out, reply, expired, bladeVars, ackedAt>>

\* A blade process that outlived the agent ends.
OrphanExit(r) ==
    /\ pc[r] = "orphan"
    /\ \E o \in Outcome : BladeRun(r, cmd[r], o)
    /\ GoTo(r, "lost")
    /\ UNCHANGED <<cmd, out, reply, mutex, running, chk, expired, historyVars>>

Request(r) ==
    \/ Handle(r) \/ BladeExit(r) \/ ExecTimeout(r) \/ OrphanExit(r)
    \/ K8sTimeout(r) \/ K8sTick(r) \/ K8sQueryReturns(r) \/ K8sRecheckReturns(r)
    \/ Lock(r) \/ RecordRunning(r) \/ RemoveRunning(r) \/ LeaveCritical(r)
    \/ RevokeQueryReturns(r) \/ TimerExpires(r)

CheckerStep(r) ==
    CheckerTick(r) \/ CheckerQueryReturns(r) \/ DeleteCallback(r) \/ ReportStatus(r)

Next ==
    \/ \E r \in Requests : Request(r) \/ CheckerStep(r)
    \/ \E u \in Uids : BladeProgress(u)
    \/ Crash

Spec == Init /\ [][Next]_vars

(***************************************************************************)
(* Fairness.  The agent's own steps run (the Go scheduler), its timers     *)
(* fire, ExecTimeout ends an exec, Lock is strongly fair (a sync.Mutex     *)
(* hands itself to a goroutine that waited for more than a millisecond)    *)
(* and so is the choice of a ready case by select.  BladeAnswers is an     *)
(* assumption on the environment: the queries run without a timeout, and   *)
(* so does the HTTP call of ReportStatus.                                  *)
(***************************************************************************)
AgentFairness ==
    \A r \in Requests :
        /\ WF_vars(ExecTimeout(r)) /\ WF_vars(TimerExpires(r))
        /\ WF_vars(K8sTick(r)) /\ SF_vars(K8sTimeout(r))
        /\ SF_vars(Lock(r))
        /\ WF_vars(RecordRunning(r) \/ RemoveRunning(r) \/ LeaveCritical(r))
        /\ WF_vars(CheckerTick(r)) /\ WF_vars(DeleteCallback(r))

BladeAnswers ==
    \A r \in Requests :
        /\ WF_vars(K8sQueryReturns(r)) /\ WF_vars(K8sRecheckReturns(r))
        /\ WF_vars(RevokeQueryReturns(r)) /\ WF_vars(CheckerQueryReturns(r))
        /\ WF_vars(ReportStatus(r))

AgentFairSpec == Spec /\ AgentFairness
FairSpec      == Spec /\ AgentFairness /\ BladeAnswers

-----------------------------------------------------------------------------
(* Properties.                                                             *)

\* A goroutine is inside handleCacheAndSafePoint exactly when it holds
\* ch.mutex; a revoke is so for the whole of its status query.
MutexDiscipline ==
    \A r \in Requests : (pc[r] \in {"critical", "query"}) <=> (mutex = r)

\* Every entry of ch.running belongs to an experiment that blade created for
\* the recorded command line and that the server was told of by this process.
RunningIsGenuine ==
    \A u \in Uids : running[u] # NoRequest =>
        /\ running[u] = maker[u]
        /\ u \in acked
        /\ out[running[u]] = [kind |-> "string", uid |-> u]

\* An experiment whose creation was answered with success is in ch.running for
\* as long as blade has it created or running: neither a failed destroy, nor a
\* checker, nor a concurrent request makes the agent forget it.
ActiveIsTracked ==
    \A u \in acked : blade[u] \in {"Created", "Running"} => running[u] # NoRequest

\* What the register of experiments knows of a status of blade.
LifeOf(status) ==
    CASE status = "None"                   -> "none"
      [] status \in {"Created", "Running"} -> "active"
      [] status \in {"Error", "Stopped"}   -> "ended"

Life == [u \in Uids |-> LifeOf(blade[u])]

Register == INSTANCE ExperimentRegister
            WITH life <- Life, author <- maker, told <- acked, book <- running

\* ch.running, written by requests under the mutex and by checkers without it, is
\* the book of a register that enters every experiment once, with the answer to its
\* create, and strikes it out only after it has ended.
ImplementsRegister == Register!Spec

\* A destroy or revoke that arrived after its experiment was answered and that
\* succeeded leaves no entry behind, whatever else runs meanwhile: no slow
\* goroutine puts a stopped experiment back into ch.running.
NoResurrection ==
    \A r \in Requests :
        /\ isDestroyOrRevokeCmd(cmd[r])
        /\ cmd[r].uid \in ackedAt[r]
        /\ pc[r] = "done" /\ reply[r] = "success"
        => running[cmd[r].uid] = NoRequest

\* "If the mount failed the cache must be deleted": when a failed Java agent
\* installation is reported, its entry has left ch.running and stays out.
FailedInstallIsForgotten ==
    \A r \in Requests :
        /\ chk[r].uri = "javaInstall" /\ chk[r].status = "Error"
        /\ chk[r].pc \in {"report", "reported", "unreported"}
        => running[chk[r].uid] = NoRequest

\* A checker gives up on a status that is not final only at its timeout, and
\* a final status it reports is one blade had reached.
ReportIsTruthful ==
    \A r \in Requests : chk[r].pc \in {"report", "reported", "unreported"} =>
        /\ chk[r].status \in {"Unknown", "Created"} => expired[r]
        /\ chk[r].status = "Running" => blade[chk[r].uid] \in {"Running", "Stopped"}
        /\ chk[r].status = "Error" => blade[chk[r].uid] \in {"Error", "Stopped"}

\* Every request that reached the handler is answered, or dropped with the
\* process: no lock, wait or panic of another goroutine holds it up for ever.
EveryRequestEnds ==
    \A r \in Requests : (pc[r] \in InFlight) ~> (pc[r] \in {"done", "orphan", "lost"})

\* Every checker reaches its report, also when each of its queries fails.
EveryCheckerEnds ==
    \A r \in Requests : (chk[r].pc = "tick")
        ~> (chk[r].pc \in {"reported", "unreported", "lost"})

\* chaosblade.go:179 and :194, "record the running experiments" and "delete the
\* stopped experiments": with no request in progress, none of the recorded
\* experiments is one that a successful destroy or revoke stopped.
StoppedIsDeleted ==
    (\A r \in Requests : pc[r] \notin InFlight) =>
        \A r \in Requests :
            isDestroyOrRevokeCmd(cmd[r]) /\ reply[r] = "success"
            => running[cmd[r].uid] = NoRequest
=============================================================================
