--------------------------- MODULE AgentHandlers ---------------------------
(***************************************************************************)
(* The handlers of web/handler that change the state of the agent besides  *)
(* the one for chaosblade, side by side in one process: api.Register gives *)
(* each of them an URL, the HTTP server a goroutine per request.  The      *)
(* process may end at any point and be started again, on the same disk and *)
(* the same cluster.                                                       *)
(***************************************************************************)
EXTENDS LitmusHandler, ApplicationInfo

CONSTANT MaxCrashes

ASSUME MaxCrashesAssumption == MaxCrashes \in Nat

VARIABLES
    crashes,  \* how often the process ended
    mixed     \* history: requests that install or remove litmus overlapped in this process

vars == <<webVars, cacheVars, litmusVars, appVars, crashes, mixed>>

Init ==
    /\ WebInit /\ CacheInit /\ LitmusInit /\ AppInit
    /\ crashes = 0 /\ mixed = FALSE

\* Goroutine t handles a request that installs or removes litmus.
Installs(t) ==
    pc[t] # "idle" /\ req[t].handler \in {"installLitmus", "uninstallLitmus"}

\* main starts the HTTP server after the options, under the URLs of api.Register.
Register(t) ==
    /\ step[Main] = "out"
    /\ Handle(t)
    /\ mixed' = (mixed \/ \E u, v \in Requests : u # v /\ Installs(u)' /\ Installs(v)')
    /\ UNCHANGED <<cacheVars, litmusVars, appVars, crashes>>

LitmusHandlers(t) == (CacheStep(t) /\ UNCHANGED litmusVars) \/ LitmusStep(t)

\* What the world outside of the handlers does to a request ends with it.
Serve(t) ==
    \/ LitmusHandlers(t) /\ UNCHANGED <<appVars, crashes, mixed>>
    \/ AppStep(t) /\ UNCHANGED <<cacheVars, litmusVars, crashes, mixed>>
    \/ Ping(t) /\ UNCHANGED <<cacheVars, litmusVars, appVars, crashes, mixed>>

MainStarts ==
    /\ InitApplicationInfo \/ RecordMapToFile(Main)
    /\ UNCHANGED <<cacheVars, litmusVars, crashes, mixed>>

Background(n) ==
    /\ Reporter(n) \/ OperatorRuns(n)
    /\ UNCHANGED <<appVars, crashes, mixed>>

\* The process ends, killed or by an exit, and is started again.
Crash ==
    /\ crashes < MaxCrashes
    /\ crashes' = crashes + 1
    /\ mixed' = FALSE
    /\ pc' = [t \in Requests |-> "idle"]
    /\ req' = [t \in Requests |-> NoRequest]
    /\ UNCHANGED <<load, sent>>
    /\ CacheCrash /\ LitmusCrash /\ AppCrash

Next ==
    \/ MainStarts \/ Crash
    \/ \E t \in Requests : Register(t) \/ Serve(t)
    \/ \E n \in Engines : Background(n)

Spec == Init /\ [][Next]_vars

\* The goroutine of a report is scheduled, and its calls of the cluster and the
\* server return, with an error or without.
Fairness ==
    \A n \in Engines : WF_vars(Reporter(n) /\ UNCHANGED <<appVars, crashes, mixed>>)

FairSpec == Spec /\ Fairness

-----------------------------------------------------------------------------
(* Properties.                                                             *)

\* Types of the state that the handlers share.
TypeOK ==
    /\ sent \in 0 .. MaxRequests /\ crashes \in 0 .. MaxCrashes
    /\ index \in (SUBSET Versions) \cup {Truncated}
    /\ ociStore \in 0 .. Len(stores)
    /\ version \in Versions \cup {NoVersion} /\ release \in Versions \cup {NoVersion}
    /\ \A n \in Engines : reporter[n].left \in 0 .. Attempts
    /\ \A k \in Keys : app[k] # None
    /\ lock \in Writers \cup {None}

\* An agent that says it has litmus, by the version without which createParamerAndExec
\* refuses an experiment, has the release of that version, unless requests that install
\* and remove it overlapped, or one of them is between helm and the version.
VersionIsReleased ==
    version \in {NoVersion, release} \/ mixed \/ \E t \in Requests : pc[t] = "forget"
=============================================================================
