--------------------------- MODULE LitmusHandler ---------------------------
(***************************************************************************)
(* The handlers of litmus (web/handler/litmuschaos): installation and      *)
(* removal of the operator with helm, creation and removal of experiments, *)
(* and the goroutine that reports the outcome of an experiment.            *)
(*                                                                         *)
(* helm, the Kubernetes API, the litmus operator and the hub are external. *)
(* A call of the API that fails may have had its effect.  Objects of the   *)
(* cluster are named by their experiment, in one namespace; an engine has  *)
(* a number of its own, which stands for the uid of GenerateUid.           *)
(***************************************************************************)
EXTENDS ChartCache

CONSTANTS
    Experiments,  \* names of experiments
    Rbac,         \* Rbac[x]: the parts of rbac.yaml of experiment x
    NoVersion,    \* the empty string for a version
    Attempts,     \* how often a result is looked for (90)
    Builds        \* the values of ready

RbacKinds == {"complete", "threeParts", "short"}

ASSUME LitmusAssumption ==
    /\ Rbac \in [Experiments -> RbacKinds]
    /\ NoVersion \notin Versions
    /\ Builds \subseteq SUBSET {"helm", "litmus", "hubDir"}
    /\ Attempts \in Nat \ {0}
    /\ \A requests \in Workloads : \A r \in requests : r.version \in Versions \cup {NoVersion}

Engines == 1 .. MaxRequests

VARIABLES
    ready,     \* what main could build: a helm instance, a litmus handler, a hub directory
    version,   \* options.Opts.LitmusChaosVerison
    release,   \* the version of the release helm has, or NoVersion
    hubFiles,  \* the files DownloadLitmus left behind, all of them empty
    objects,   \* the objects of the cluster but the engines: <<kind, experiment>>
    engine,    \* engine[n]: its experiment, its state, its result
    reporter,  \* reporter[n]: where AsyncHandlerResultStatus is, the attempts left
    torn       \* history: experiments that a request left without their role

clusterVars == <<release, objects, engine, torn>>
litmusVars  == <<ready, version, hubFiles, reporter, clusterVars>>

NoEngine == [exp |-> "none", state |-> "none", result |-> "none"]
Off     == [at |-> "off", left |-> Attempts]
Started == [at |-> "trying", left |-> Attempts]

LitmusInit ==
    /\ ready \in Builds
    /\ version = NoVersion /\ release = NoVersion
    /\ hubFiles = {} /\ objects = {} /\ torn = {}
    /\ engine = [n \in Engines |-> NoEngine]
    /\ reporter = [n \in Engines |-> Off]

\* GetHelmInstance, and NewLitmusChaosHandler, succeeded.
HasHelm   == "helm" \in ready
HasLitmus == "litmus" \in ready

\* The handler answers, or panics.
Answered(t) == GoTo(t, "idle")

\* The experiment of the request.
Exp(t) == req[t].exp

-----------------------------------------------------------------------------
(* InstallLitmusHandler and UninstallLitmusHandler.  Without helm they are *)
(* nil pointers, which NewServerRequestHandler does not see: they panic.   *)

\* InstallLitmusHandler.Handle and installLitmus up to PullChart.
installLitmus(t) ==
    /\ pc[t] = "installLitmus"
    /\ IF Wanted(t) # NoVersion /\ HasHelm THEN GoTo(t, "pull") ELSE Answered(t)
    /\ UNCHANGED <<cacheVars, litmusVars>>

\* Mutated: an error of Helm.Install is not looked at.
Install_ErrorIgnored(t) ==
    /\ pc[t] = "helm"
    /\ chart' = [chart EXCEPT ![t] = NoChart]
    /\ release' = IF release = NoVersion THEN Wanted(t) ELSE release
    /\ GoTo(t, "record")
    /\ UNCHANGED <<diskVars, stores, ociStore, ready, version, hubFiles,
                   reporter, objects, engine, torn>>

\* Helm.Install: a library is refused, and so is a second release of the name,
\* whatever became of the first; else helm records the release and works on it.
Install(t) ==
    /\ pc[t] = "helm"
    /\ chart' = [chart EXCEPT ![t] = NoChart]
    /\ \/ /\ Kind[Wanted(t)] = "application" /\ release = NoVersion
          /\ release' = Wanted(t)
          /\ GoTo(t, "helmRuns")
       \/ Answered(t) /\ UNCHANGED release
    /\ UNCHANGED <<diskVars, stores, ociStore, ready, version, hubFiles,
                   reporter, objects, engine, torn>>

\* helm has finished; a release that failed is recorded as well.
InstallEnds(t) ==
    /\ pc[t] = "helmRuns"
    /\ \E place \in {"record", "idle"} : GoTo(t, place)
    /\ UNCHANGED <<cacheVars, litmusVars>>

SetVersion(t) ==
    /\ pc[t] = "record"
    /\ version' = Wanted(t)
    /\ Answered(t)
    /\ UNCHANGED <<cacheVars, ready, hubFiles, reporter, clusterVars>>

\* UninstallLitmusHandler: the version stays when helm has no release or fails.
uninstallLitmus(t) ==
    /\ pc[t] = "uninstallLitmus"
    /\ \/ /\ HasHelm /\ release # NoVersion
          /\ release' = NoVersion
          /\ GoTo(t, "forget")
       \/ Answered(t) /\ UNCHANGED release
    /\ UNCHANGED <<cacheVars, ready, version, hubFiles, reporter, objects, engine, torn>>

ClearVersion(t) ==
    /\ pc[t] = "forget"
    /\ version' = NoVersion
    /\ Answered(t)
    /\ UNCHANGED <<cacheVars, ready, hubFiles, reporter, clusterVars>>

-----------------------------------------------------------------------------
(* LitmusChaosHandler, which is nil outside of a cluster as well.          *)

\* Handle and createParamerAndExec: the parameters are checked, then the version.
create(t) ==
    /\ pc[t] = "litmuschaos"
    /\ req[t].action = "create"
    /\ IF req[t].complete /\ version # NoVersion THEN GoTo(t, "experiment") ELSE Answered(t)
    /\ UNCHANGED <<cacheVars, litmusVars>>

\* Handle with an action that is neither.
NoSuchAction(t) ==
    /\ pc[t] = "litmuschaos"
    /\ req[t].action = "other"
    /\ Answered(t)
    /\ UNCHANGED <<cacheVars, litmusVars>>

\* DownloadLitmus: the version is read again.  A file that is there is read; since
\* the copy loop reads into an empty buffer, such a file is always empty.
LocalFile(t, kind) == <<version, Exp(t), kind>>

\* DownloadLitmus gets the yaml from the hub.
Downloads(t, kind) ==
    /\ version # NoVersion
    /\ LocalFile(t, kind) \notin hubFiles
    /\ hubFiles' = IF "hubDir" \in ready THEN hubFiles \cup {LocalFile(t, kind)} ELSE hubFiles

\* DownloadLitmus fails or gets an empty file, on which its callers fail.
DownloadFails(t) == Answered(t) /\ UNCHANGED <<hubFiles, objects>>

\* An object is created, or is there already.
Ensure(t, kind, place) ==
    /\ objects' = objects \cup {<<kind, Exp(t)>>}
    /\ GoTo(t, place)

\* A call of the API fails, with or without its effect.
CallFails(t, effect) == objects' \in {objects, effect} /\ Answered(t)

\* prepareLitmusExperiment: Create, for which AlreadyExists is a success.
prepareLitmusExperiment(t) ==
    /\ pc[t] = "experiment"
    /\ \/ /\ Downloads(t, "experiment")
          /\ \/ HasLitmus /\ Ensure(t, "experiment", "rbac")
             \/ CallFails(t, IF HasLitmus THEN objects \cup {<<"experiment", Exp(t)>>}
                             ELSE objects)
       \/ DownloadFails(t)
    /\ UNCHANGED <<cacheVars, ready, version, reporter, release, engine, torn>>

\* prepareLitmusRbac up to the role: less than three parts are an error; the account
\* is created before the fourth part is taken, which panics when there are three.
prepareLitmusRbac(t) ==
    /\ pc[t] = "rbac"
    /\ \/ /\ Downloads(t, "rbac")
          /\ Rbac[Exp(t)] # "short"
          /\ \/ Ensure(t, "account", IF Rbac[Exp(t)] = "threeParts" THEN "idle" ELSE "getRole")
             \/ CallFails(t, objects \cup {<<"account", Exp(t)>>})
       \/ /\ Downloads(t, "rbac")
          /\ Rbac[Exp(t)] = "short"
          /\ Answered(t) /\ UNCHANGED objects
       \/ DownloadFails(t)
    /\ UNCHANGED <<cacheVars, ready, version, reporter, release, engine, torn>>

-----------------------------------------------------------------------------
(* The role is removed and created again, since it differs between the     *)
(* versions of litmus; createRoleAndRoleBinding and its twin for cluster   *)
(* roles differ in the kind of the objects only.                           *)

HasRole(x) == <<"role", x>> \in objects

\* Get: the role is there, is not there, or the call fails.
getRole(t) ==
    /\ pc[t] = "getRole"
    /\ \/ GoTo(t, IF HasRole(Exp(t)) THEN "deleteRole" ELSE "createRole")
       \/ Answered(t)
    /\ UNCHANGED <<cacheVars, litmusVars>>

\* Delete: a role that is gone meanwhile is an error as well.
deleteRole(t) ==
    LET without == objects \ {<<"role", Exp(t)>>} IN
    /\ pc[t] = "deleteRole"
    /\ \/ /\ HasRole(Exp(t))
          /\ objects' = without
          /\ GoTo(t, "createRole") /\ UNCHANGED torn
       \/ /\ CallFails(t, without)
          /\ torn' = IF objects' = objects THEN torn ELSE torn \cup {Exp(t)}
    /\ UNCHANGED <<cacheVars, ready, version, hubFiles, reporter, release, engine>>

\* Create: a role that is there meanwhile is an error.
createRole(t) ==
    LET with == objects \cup {<<"role", Exp(t)>>} IN
    /\ pc[t] = "createRole"
    /\ \/ /\ ~HasRole(Exp(t))
          /\ objects' = with
          /\ GoTo(t, "binding") /\ torn' = torn \ {Exp(t)}
       \/ /\ CallFails(t, with)
          /\ torn' = IF <<"role", Exp(t)>> \in objects' THEN torn \ {Exp(t)} ELSE torn \cup {Exp(t)}
    /\ UNCHANGED <<cacheVars, ready, version, hubFiles, reporter, release, engine>>

\* Mutated: the role binding is not waited for.
createBinding_Skipped(t) ==
    /\ pc[t] = "binding"
    /\ GoTo(t, "engine")
    /\ UNCHANGED <<cacheVars, litmusVars>>

\* The role binding: AlreadyExists is a success.
createBinding(t) ==
    /\ pc[t] = "binding"
    /\ \/ Ensure(t, "binding", "engine")
       \/ CallFails(t, objects \cup {<<"binding", Exp(t)>>})
    /\ UNCHANGED <<cacheVars, ready, version, hubFiles, reporter, release, engine, torn>>

createRoleAndRoleBinding(t) == getRole(t) \/ deleteRole(t) \/ createRole(t) \/ createBinding(t)

-----------------------------------------------------------------------------
(* Engines and their reports.                                              *)

\* The uid of a new engine.
Unused == {n \in Engines : engine[n] = NoEngine}

\* createEnginer, and what createExec does after it: only a success starts the
\* goroutine that reports, and the answer has no name of the engine.
createEnginer(t) ==
    LET n   == CHOOSE n \in Unused : TRUE
        new == [exp |-> Exp(t), state |-> "created", result |-> "none"]
    IN
    /\ pc[t] = "engine"
    /\ \/ /\ engine' = [engine EXCEPT ![n] = new]
          /\ reporter' = [reporter EXCEPT ![n] = Started]
       \/ /\ engine' \in {engine, [engine EXCEPT ![n] = new]}
          /\ UNCHANGED reporter
    /\ Answered(t)
    /\ UNCHANGED <<cacheVars, ready, version, hubFiles, release, objects, torn>>

\* Engines whose name the server has learned.
Known == {n \in Engines : reporter[n].at = "reported"}

\* destroyParamerAndExec: a name is there; NotFound is a success.
destroy(t) ==
    /\ pc[t] = "litmuschaos"
    /\ req[t].action = "destroy"
    /\ \/ /\ req[t].complete /\ HasLitmus
          /\ \E n \in Known : engine' = [engine EXCEPT ![n].state = "deleted"]
       \/ UNCHANGED engine
    /\ Answered(t)
    /\ UNCHANGED <<cacheVars, ready, version, hubFiles, reporter, release, objects, torn>>

\* The operator, external, runs an engine that has its rights, and writes a result;
\* a run may fail later.
Granted(x) == \A kind \in {"account", "role", "binding"} : <<kind, x>> \in objects

OperatorRuns(n) ==
    /\ engine[n].state = "created" /\ engine[n].result # "failed"
    /\ Granted(engine[n].exp)
    /\ \E outcome \in {"running", "failed"} \ {engine[n].result} :
         engine' = [engine EXCEPT ![n].result = outcome]
    /\ UNCHANGED <<webVars, cacheVars, ready, version, hubFiles, reporter, release, objects, torn>>

\* Mutated: the attempts are not counted.
handlerResult_Uncounted(n) ==
    /\ reporter[n].at = "trying"
    /\ reporter' = [reporter EXCEPT ![n].at =
                      IF engine[n].result = "running" THEN "report" ELSE "trying"]
    /\ UNCHANGED <<webVars, cacheVars, ready, version, hubFiles, clusterVars>>

\* Mutated: the loop makes one attempt too many.
handlerResult_OneMore(n) ==
    LET left == reporter[n].left - 1 IN
    /\ reporter[n].at = "trying"
    /\ reporter' = [reporter EXCEPT ![n] =
                      [at |-> IF left < 0 THEN "report" ELSE "trying", left |-> left]]
    /\ UNCHANGED <<webVars, cacheVars, ready, version, hubFiles, clusterVars>>

\* AsyncHandlerResultStatus: one attempt to find a result without failed runs, which
\* may also fail as a call; the first that does, or the last, ends the attempts.
handlerResult(n) ==
    LET left == reporter[n].left - 1 IN
    /\ reporter[n].at = "trying"
    /\ \/ /\ engine[n].result = "running"
          /\ reporter' = [reporter EXCEPT ![n].at = "report"]
       \/ reporter' = [reporter EXCEPT ![n] =
                         [at |-> IF left = 0 THEN "report" ELSE "trying", left |-> left]]
    /\ UNCHANGED <<webVars, cacheVars, ready, version, hubFiles, clusterVars>>

\* ... and ReportStatus, once; the server learns the name from it.
ReportStatus(n) ==
    /\ reporter[n].at = "report"
    /\ \E outcome \in {"reported", "lost"} : reporter' = [reporter EXCEPT ![n].at = outcome]
    /\ UNCHANGED <<webVars, cacheVars, ready, version, hubFiles, clusterVars>>

Reporter(n) == handlerResult(n) \/ ReportStatus(n)

LitmusStep(t) ==
    \/ installLitmus(t) \/ Install(t) \/ InstallEnds(t) \/ SetVersion(t)
    \/ uninstallLitmus(t) \/ ClearVersion(t)
    \/ create(t) \/ destroy(t) \/ NoSuchAction(t)
    \/ prepareLitmusExperiment(t) \/ prepareLitmusRbac(t)
    \/ createRoleAndRoleBinding(t) \/ createEnginer(t)

\* The process ends and starts again: its memory is lost, the cluster is not.
LitmusCrash ==
    /\ version' = NoVersion
    /\ reporter' = [n \in Engines |->
                      IF reporter[n].at \in {"trying", "report"}
                      THEN [reporter[n] EXCEPT !.at = "gone"] ELSE reporter[n]]
    /\ torn' = torn \cup {Exp(t) : t \in {u \in Requests : pc[u] = "createRole"}}
    /\ UNCHANGED <<ready, hubFiles, release, objects, engine>>

-----------------------------------------------------------------------------
(* Properties.                                                             *)

\* Whatever creates overlap, an engine keeps the rights its experiment runs with:
\* its account and its binding are there, and its role is, unless a request is
\* between deleteRole and createRole or failed or died there.
EngineHasRights ==
    \A n \in Engines : engine[n] # NoEngine =>
        LET x == engine[n].exp IN
        /\ <<"account", x>> \in objects /\ <<"binding", x>> \in objects
        /\ \/ HasRole(x)
           \/ x \in torn
           \/ \E t \in Requests : pc[t] = "createRole" /\ Exp(t) = x

\* An experiment that was answered with success is reported (or its report lost on
\* the way), whatever becomes of its result, unless the process ends.
EngineIsReported ==
    \A n \in Engines :
        (reporter[n].at = "trying") ~> (reporter[n].at \in {"reported", "lost", "gone"})
=============================================================================
