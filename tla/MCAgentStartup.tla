--------------------------- MODULE MCAgentStartup ---------------------------
(* Instances of AgentStartup for TLC.                                      *)
EXTENDS AgentStartup

CONSTANTS a1, a2, a3

\* Pids of three, two and four digits: longer and as long as "-1".
Pids == [a \in Agents |-> CASE a = a1 -> <<"4", "1", "7">>
                             [] a = a2 -> <<"9", "8">>
                             [] a = a3 -> <<"1", "0", "2", "3">>]

\* The server may remove the agent at any time, and so may a user while cron runs the
\* recovery; a user waits for one script before running the next, and for an install.
UninstallOverlap ==
    LET others == Commands \ {"install"} IN
    ({"uninstall"} \X others) \cup (others \X {"uninstall"})
NoOverlap == {}

OnlyStart == {"start"}

AnyPort == {NoAgent, Foreign}
=============================================================================
