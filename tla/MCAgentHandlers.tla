-------------------------- MODULE MCAgentHandlers --------------------------
(* Instances of AgentHandlers for TLC.                                     *)
EXTENDS AgentHandlers

CONSTANTS v1, v2, v3, a0, a1, a2

ChartKinds == [v \in Versions |-> CASE v = v1 -> "application" [] v = v2 -> "library"
                                  [] v = v3 -> "tagless"]
RbacParts  == [x \in Experiments |-> IF x = "x1" THEN "complete" ELSE "short"]

Fine == [form |-> "request", ts |-> "number", ak |-> "own", sign |-> "right"]
Request(h) == [wire |-> Fine, handler |-> h, version |-> NoVersion, exp |-> "none",
               action |-> "none", complete |-> TRUE, instance |-> None, group |-> None]

installs  == {[Request("installLitmus") EXCEPT !.version = v] : v \in {v1, v2}}
creates   == {[Request("litmuschaos") EXCEPT !.action = "create", !.exp = x] : x \in Experiments}
others    == {[Request("litmuschaos") EXCEPT !.action = "destroy"],
              [Request("litmuschaos") EXCEPT !.action = "other"]}
updates   == {[Request("updateApplication") EXCEPT !.instance = a1, !.group = a1],
              [Request("updateApplication") EXCEPT !.group = a2]}
\* Requests that an interceptor or the checks of a handler refuse.
refused   == {[Request("ping") EXCEPT !.wire.sign = "wrong"],
              [Request("litmuschaos") EXCEPT !.action = "create", !.complete = FALSE]}
             \cup {[Request("installLitmus") EXCEPT !.version = v] : v \in {v3, NoVersion}}

\* Litmus is installed and removed; experiments are run; applications are updated.
Installing   == installs \cup {Request("uninstallLitmus")}
Experimenting == {r \in installs : r.version = v1} \cup creates \cup others
Updating     == updates \cup {Request("ping")} \cup refused
HandlerWorkloads == {Installing, Experimenting, Updating}

\* In a cluster with and without a directory for files of the hub, and on a host.
BuildKinds == {{"helm", "litmus", "hubDir"}, {"helm", "litmus"}, {"helm"}, {}}

DefaultApp == [k \in Keys |-> a0]

\* The file and the builds vary in the workloads that depend on them.
MCInit ==
    /\ Init
    /\ load # Updating => onDisk
    /\ load # Experimenting => ready = {"helm"}

MCSpec == MCInit /\ [][Next]_vars /\ Fairness
=============================================================================
