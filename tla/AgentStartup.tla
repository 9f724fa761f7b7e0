---------------------------- MODULE AgentStartup ----------------------------
(***************************************************************************)
(* Starting and stopping the agent: the control script                     *)
(* (build/cmd/chaosctl.sh), run by hand, by the uninstall handler of the   *)
(* agent or every three minutes by cron through chaosrcv.sh, and the start *)
(* of the agent process (cmd/chaos_agent.go).  The two communicate through *)
(* the pid file: the agent writes its pid once it is up and "-1" when it   *)
(* fails, and the script polls for the file.                               *)
(*                                                                         *)
(* Of the files only those are kept that a script looks for: the directory *)
(* with the binary and the scripts, the flags of the last start, the entry *)
(* of cron, and chaosblade in the package or in /opt.  Scripts run as root,*)
(* so that they can remove what they find.                                 *)
(*                                                                         *)
(* main and the goroutine that listens on the port are two threads of the  *)
(* agent, and both may write the file.  writePid opens it without O_TRUNC, *)
(* so a write replaces the first characters only.                          *)
(***************************************************************************)
EXTENDS Naturals, Sequences

CONSTANTS
    Scripts,      \* the runs of chaosctl.sh
    Agents,       \* the agent processes they may launch
    Actions,      \* the commands given to chaosctl.sh, and "recover" for chaosrcv.sh
    Pid,          \* Pid[a]: the pid of agent a, a sequence of digits
    Overlaps,     \* pairs of commands that may run at the same time
    Ports,        \* who may hold the agent's port at first: NoAgent, Foreign
    NoAgent, Foreign,
    Tries,        \* how often start0 looks for the pid file (10)
    MaxCrashes    \* how many agents may die by themselves

Commands == {"start", "stop", "restart", "install", "uninstall", "recover"}
Digits   == {"0", "1", "2", "3", "4", "5", "6", "7", "8", "9"}

ASSUME ConstantsAssumption ==
    /\ Actions \subseteq Commands
    /\ Pid \in [Agents -> Seq(Digits) \ {<<>>}]
    /\ Overlaps \subseteq Commands \X Commands
    /\ Ports \subseteq {NoAgent, Foreign}
    /\ NoAgent \notin Agents /\ Foreign \notin Agents /\ NoAgent # Foreign
    /\ Tries \in Nat /\ MaxCrashes \in Nat

VARIABLES
    spc,       \* spc[s]: where script s is, or the result it has printed
    act,       \* act[s]: what script s was asked to do
    launched,  \* launched[s]: the agent script s has launched
    count,     \* count[s]: the tries left
    main,      \* main[a]: where the main goroutine of agent a is
    listener,  \* listener[a]: where its listening goroutine is
    fd,        \* fd[a][t]: the pid file as opened by thread t of agent a
    failed,    \* failed[a]: a thread of agent a has called handlerErr
    port,      \* who listens on the agent's port
    pidFile,   \* the content of the pid file, or NoFile
    disk,      \* the files that are there
    last,      \* the result of the script that ended last
    crashes

scriptVars == <<spc, act, launched, count, last>>
agentVars  == <<main, listener, fd, failed, port, crashes>>
vars       == <<scriptVars, agentVars, pidFile, disk>>

Threads   == {"main", "listener"}
MinusOne  == <<"-", "1">>
NoFile    == <<"none">>
Chars     == Digits \cup {"-", "none"}
Results   == {"none", "refused", "already", "success", "failed", "timeout", "stopped",
              "uninstalled", "notUninstalled"}
ScriptPCs == Results \cup {"check", "launch", "poll", "term", "kill", "remove", "recover",
              "status", "bin", "cron", "deploy", "rmHome", "rmCron", "rmBlade", "verify"}
Unpacked  == {"home", "package"}
Installed == {"home", "flag", "cron", "blade"}
AgentPCs  == {"none", "boot", "open", "write", "hold", "closing", "listen",
              "serving", "errOpen", "errWrite", "exit", "dead"}

Active(s) == spc[s] \notin Results
Alive(a)  == main[a] \notin {"none", "dead"}

\* Every variable has its type.
TypeOK ==
    /\ spc \in [Scripts -> ScriptPCs]
    /\ act \in [Scripts -> Commands \cup {"none", "timeout"}]
    /\ launched \in [Scripts -> Agents \cup {NoAgent}]
    /\ count \in [Scripts -> 0 .. Tries]
    /\ main \in [Agents -> AgentPCs] /\ listener \in [Agents -> AgentPCs]
    /\ fd \in [Agents -> [Threads -> {"none", "file", "unlinked"}]]
    /\ failed \in [Agents -> BOOLEAN]
    /\ port \in Agents \cup {NoAgent, Foreign}
    /\ pidFile \in Seq(Chars)
    /\ disk \subseteq Unpacked \cup Installed
    /\ last \in Results
    /\ crashes \in 0 .. MaxCrashes

Init ==
    /\ spc = [s \in Scripts |-> "none"]
    /\ act = [s \in Scripts |-> "none"]
    /\ launched = [s \in Scripts |-> NoAgent]
    /\ count = [s \in Scripts |-> 0]
    /\ main = [a \in Agents |-> "none"]
    /\ listener = [a \in Agents |-> "none"]
    /\ fd = [a \in Agents |-> [t \in Threads |-> "none"]]
    /\ failed = [a \in Agents |-> FALSE]
    /\ port \in Ports
    /\ pidFile = NoFile
    /\ disk \in {Unpacked, Installed}
    /\ last = "none"
    /\ crashes = 0

-----------------------------------------------------------------------------
(* The agent process.                                                      *)

\* The processes in dying end; the kernel closes their files and sockets.
Die(dying) ==
    /\ main' = [a \in Agents |-> IF a \in dying THEN "dead" ELSE main[a]]
    /\ listener' = [a \in Agents |-> IF a \in dying THEN "dead" ELSE listener[a]]
    /\ fd' = [a \in Agents |-> IF a \in dying THEN [t \in Threads |-> "none"]
                                              ELSE fd[a]]
    /\ port' = IF port \in dying THEN NoAgent ELSE port

\* main up to the listener: the options end the process at once when blade has
\* no version, a wrong endpoint goes to handlerErr, else the listener starts.
Boot(a) ==
    /\ main[a] = "boot"
    /\ \/ Die({a}) /\ UNCHANGED failed
       \/ /\ "blade" \in disk
          /\ main' = [main EXCEPT ![a] = "errOpen"]
          /\ failed' = [failed EXCEPT ![a] = TRUE]
          /\ UNCHANGED <<listener, fd, port>>
       \/ /\ "blade" \in disk
          /\ main' = [main EXCEPT ![a] = "open"]
          /\ listener' = [listener EXCEPT ![a] = "listen"]
          /\ UNCHANGED <<fd, port, failed>>
    /\ UNCHANGED <<scriptVars, pidFile, crashes, disk>>

\* http.ListenAndServe: it takes the port and serves, or fails at once.
ListenAndServe(a) ==
    /\ listener[a] = "listen"
    /\ \/ /\ port = NoAgent
          /\ port' = a
          /\ listener' = [listener EXCEPT ![a] = "serving"]
          /\ UNCHANGED failed
       \/ /\ port # NoAgent
          /\ listener' = [listener EXCEPT ![a] = "errOpen"]
          /\ failed' = [failed EXCEPT ![a] = TRUE]
          /\ UNCHANGED port
    /\ UNCHANGED <<scriptVars, main, fd, pidFile, crashes, disk>>

Opened(pc)  == IF pc = "open" THEN "write" ELSE "errWrite"
Written(pc) == IF pc = "write" THEN "hold" ELSE "exit"

\* writePid, the open: it creates the file when there is none.
OpenPid(a) ==
    /\ \/ /\ main[a] \in {"open", "errOpen"}
          /\ main' = [main EXCEPT ![a] = Opened(main[a])]
          /\ fd' = [fd EXCEPT ![a]["main"] = "file"]
          /\ UNCHANGED listener
       \/ /\ listener[a] = "errOpen"
          /\ listener' = [listener EXCEPT ![a] = Opened(listener[a])]
          /\ fd' = [fd EXCEPT ![a]["listener"] = "file"]
          /\ UNCHANGED main
    /\ pidFile' = IF pidFile = NoFile THEN <<>> ELSE pidFile
    /\ UNCHANGED <<scriptVars, failed, port, crashes, disk>>

\* What a write at the start of the file leaves, without O_TRUNC.
Overlay(old, text) == text \o SubSeq(old, Len(text) + 1, Len(old))

Store(a, t, text) ==
    pidFile' = IF fd[a][t] = "file" THEN Overlay(pidFile, text) ELSE pidFile

\* writePid, the write: the pid (handlerSuccess) or -1 (handlerErr).
WritePid(a) ==
    /\ \/ /\ main[a] \in {"write", "errWrite"}
          /\ Store(a, "main", IF main[a] = "write" THEN Pid[a] ELSE MinusOne)
          /\ main' = [main EXCEPT ![a] = Written(main[a])]
          /\ fd' = [fd EXCEPT ![a]["main"] = "none"]
          /\ UNCHANGED listener
       \/ /\ listener[a] = "errWrite"
          /\ Store(a, "listener", MinusOne)
          /\ listener' = [listener EXCEPT ![a] = Written(listener[a])]
          /\ fd' = [fd EXCEPT ![a]["listener"] = "none"]
          /\ UNCHANGED main
    /\ UNCHANGED <<scriptVars, failed, port, crashes, disk>>

\* The os.Exit of handlerErr, in either thread, ends the process.
Exit(a) ==
    /\ main[a] = "exit" \/ listener[a] = "exit"
    /\ Die({a})
    /\ UNCHANGED <<scriptVars, failed, pidFile, crashes, disk>>

\* tools.Hold returns when the Shutdown hook is done, two seconds later.
Closed(a) ==
    /\ main[a] = "closing"
    /\ Die({a})
    /\ UNCHANGED <<scriptVars, failed, pidFile, crashes, disk>>

\* An agent that is up dies by itself.
Crash(a) ==
    /\ crashes < MaxCrashes
    /\ crashes' = crashes + 1
    /\ main[a] = "hold"
    /\ Die({a})
    /\ UNCHANGED <<scriptVars, failed, pidFile, disk>>

-----------------------------------------------------------------------------
(* chaosctl.sh.                                                            *)

Step(s, label) == spc' = [spc EXCEPT ![s] = label]

\* The script prints its result.
Done(s, result) ==
    /\ Step(s, result)
    /\ last' = result

\* One of the checks (license, root, endpoint, binary) ends the script.
Refuses(s) == Done(s, "refused")

\* CtlPathFunc of the agent, and the path in chaosrcv.sh.
CtlExists == "home" \in disk

\* The part of a command that changes something first.
First(command) ==
    CASE command = "start" -> "deploy" [] command = "recover" -> "recover" [] OTHER -> "term"

\* A script starts, from the directory of the agent; others may be running.
Starts(s, command) ==
    /\ spc[s] = "none"
    /\ CtlExists
    /\ \A q \in Scripts : Active(q) => <<command, act[q]>> \in Overlaps
    /\ act' = [act EXCEPT ![s] = command]

\* The action table, by hand or by cron; check_license may refuse.
Begin(s) ==
    /\ \E command \in Actions :
          /\ Starts(s, command)
          /\ command = "recover" => "cron" \in disk
          /\ \/ command \in {"restart", "install"} /\ Refuses(s)
             \/ Step(s, First(command)) /\ UNCHANGED last
    /\ UNCHANGED <<launched, count, agentVars, pidFile, disk>>

\* UninstallInstallHandler.Handle, in an agent that serves requests: it runs the
\* script that stops its own process, and has no one to answer after that.
UninstallRequest(a, s) ==
    /\ "uninstall" \in Actions
    /\ listener[a] = "serving" /\ main[a] # "dead"
    /\ Starts(s, "uninstall")
    /\ Step(s, First("uninstall"))
    /\ UNCHANGED <<last, launched, count, agentVars, pidFile, disk>>

\* chaosrcv.sh: check_process, and check_status.
Recover(s) ==
    /\ spc[s] = "recover"
    /\ IF \E a \in Agents : Alive(a)
         THEN Done(s, "already")
         ELSE Step(s, "status") /\ UNCHANGED last
    /\ UNCHANGED <<act, launched, count, agentVars, pidFile, disk>>

CheckStatus(s) ==
    /\ spc[s] = "status"
    /\ IF {"home", "flag"} \subseteq disk
         THEN Step(s, "bin") /\ UNCHANGED last
         ELSE Refuses(s)
    /\ UNCHANGED <<act, launched, count, agentVars, pidFile, disk>>

\* deploy_chaosblade, and the checks of the command after it.
DeployChaosblade(s) ==
    /\ spc[s] = "deploy"
    /\ \/ /\ disk \cap {"package", "blade"} # {}
          /\ disk' = (disk \ {"package"}) \cup {"blade"}
          /\ Refuses(s) \/ (Step(s, "bin") /\ UNCHANGED last)
       \/ /\ disk \cap {"package", "blade"} = {}
          /\ Refuses(s) /\ UNCHANGED disk
    /\ UNCHANGED <<act, launched, count, agentVars, pidFile>>

CheckChaosBin(s) ==
    /\ spc[s] = "bin"
    /\ IF "home" \in disk
         THEN Step(s, "check") /\ UNCHANGED last
         ELSE Refuses(s)
    /\ UNCHANGED <<act, launched, count, agentVars, pidFile, disk>>

\* install: check_root, and add_crontab.
AddCrontab(s) ==
    /\ spc[s] = "cron"
    /\ \/ Refuses(s) /\ UNCHANGED disk
       \/ /\ disk' = disk \cup {"cron"}
          /\ Step(s, "deploy") /\ UNCHANGED last
    /\ UNCHANGED <<act, launched, count, agentVars, pidFile>>

\* Mutated: start0 does not look for a running agent.
CheckProcess_Skipped(s) ==
    /\ spc[s] = "check"
    /\ Step(s, "launch")
    /\ UNCHANGED <<last, act, launched, count, agentVars, pidFile, disk>>

\* start0: `ps -ef | grep chaos/agent`.
CheckProcess(s) ==
    /\ spc[s] = "check"
    /\ IF \E a \in Agents : Alive(a)
         THEN Done(s, "already")
         ELSE Step(s, "launch") /\ UNCHANGED last
    /\ UNCHANGED <<act, launched, count, agentVars, pidFile, disk>>

\* start0: create_flags, which reads or records the flags, and `nohup agent &`,
\* which starts nothing when the binary is gone.
Launch(s) ==
    /\ spc[s] = "launch"
    /\ \/ /\ "home" \in disk
          /\ \E a \in Agents :
                /\ main[a] = "none"
                /\ main' = [main EXCEPT ![a] = "boot"]
                /\ launched' = [launched EXCEPT ![s] = a]
          /\ disk' = IF act[s] = "recover" THEN disk ELSE disk \cup {"flag"}
       \/ "home" \notin disk /\ UNCHANGED <<main, launched, disk>>
    /\ count' = [count EXCEPT ![s] = Tries]
    /\ Step(s, "poll")
    /\ UNCHANGED <<act, last, listener, fd, failed, port, crashes, pidFile>>

\* Mutated: the tries are not counted.
Poll_Uncounted(s) ==
    /\ spc[s] = "poll"
    /\ \/ /\ pidFile = NoFile
          /\ UNCHANGED <<spc, act, count, last>>
       \/ /\ pidFile # NoFile
          /\ Done(s, IF pidFile = MinusOne THEN "failed" ELSE "success")
          /\ UNCHANGED <<act, count>>
    /\ UNCHANGED <<launched, agentVars, pidFile, disk>>

\* Mutated: the tries go on below zero.
Poll_BelowZero(s) ==
    /\ spc[s] = "poll"
    /\ \/ /\ pidFile = NoFile
          /\ count' = [count EXCEPT ![s] = @ - 1]
          /\ UNCHANGED <<spc, act, last>>
       \/ /\ pidFile # NoFile
          /\ Done(s, IF pidFile = MinusOne THEN "failed" ELSE "success")
          /\ UNCHANGED <<act, count>>
    /\ UNCHANGED <<launched, agentVars, pidFile, disk>>

\* Mutated: a timeout does not stop the agent.
Poll_NoStop(s) ==
    /\ spc[s] = "poll"
    /\ \/ count[s] = 0 /\ Done(s, "timeout") /\ UNCHANGED count
       \/ /\ count[s] > 0 /\ pidFile = NoFile
          /\ count' = [count EXCEPT ![s] = @ - 1]
          /\ UNCHANGED <<spc, last>>
       \/ /\ count[s] > 0 /\ pidFile # NoFile
          /\ Done(s, IF pidFile = MinusOne THEN "failed" ELSE "success")
          /\ UNCHANGED count
    /\ UNCHANGED <<act, launched, agentVars, pidFile, disk>>

\* start0, one turn of the loop.
Poll(s) ==
    /\ spc[s] = "poll"
    /\ \/ /\ count[s] = 0
          /\ act' = [act EXCEPT ![s] = "timeout"]
          /\ Step(s, "term")
          /\ UNCHANGED <<count, last>>
       \/ /\ count[s] > 0 /\ pidFile = NoFile
          /\ count' = [count EXCEPT ![s] = @ - 1]
          /\ UNCHANGED <<spc, act, last>>
       \/ /\ count[s] > 0 /\ pidFile # NoFile
          /\ Done(s, IF pidFile = MinusOne THEN "failed" ELSE "success")
          /\ UNCHANGED <<act, count>>
    /\ UNCHANGED <<launched, agentVars, pidFile, disk>>

\* stop: `kill -15`.  An agent in Hold closes; before that the signal kills it.
Terminate(s) ==
    LET dying == {a \in Agents : Alive(a) /\ main[a] \notin {"hold", "closing"}} IN
    /\ spc[s] = "term"
    /\ main' = [a \in Agents |-> IF a \in dying THEN "dead"
                                 ELSE IF main[a] = "hold" THEN "closing" ELSE main[a]]
    /\ listener' = [a \in Agents |-> IF a \in dying THEN "dead" ELSE listener[a]]
    /\ fd' = [a \in Agents |-> IF a \in dying THEN [t \in Threads |-> "none"]
                                              ELSE fd[a]]
    /\ port' = IF port \in dying THEN NoAgent ELSE port
    /\ Step(s, "kill")
    /\ UNCHANGED <<act, launched, count, last, failed, crashes, pidFile, disk>>

\* Mutated: stop relies on the agents to close in time.
Kill_Skipped(s) ==
    /\ spc[s] = "kill"
    /\ Step(s, "remove")
    /\ UNCHANGED <<act, launched, count, last, agentVars, pidFile, disk>>

\* stop: `pkill -9` after two seconds.
Kill(s) ==
    /\ spc[s] = "kill"
    /\ Die({a \in Agents : Alive(a)})
    /\ Step(s, "remove")
    /\ UNCHANGED <<act, launched, count, last, failed, crashes, pidFile, disk>>

\* What a script does after stop.
AfterStop(s) ==
    \/ act[s] = "stop" /\ Done(s, "stopped")
    \/ act[s] = "timeout" /\ Done(s, "timeout")
    \/ act[s] = "restart" /\ Step(s, "bin") /\ UNCHANGED last
    \/ act[s] = "install" /\ Step(s, "cron") /\ UNCHANGED last
    \/ act[s] = "uninstall" /\ Step(s, "rmHome") /\ UNCHANGED last

\* Mutated: the pid file is left where it is.
RemovePid_Kept(s) ==
    /\ spc[s] = "remove"
    /\ AfterStop(s)
    /\ UNCHANGED <<act, launched, count, agentVars, pidFile, disk>>

\* stop: remove the pid file; a thread that holds it open writes nowhere.
RemovePid(s) ==
    /\ spc[s] = "remove"
    /\ pidFile' = NoFile
    /\ fd' = [a \in Agents |-> [t \in Threads |->
                 IF fd[a][t] = "file" THEN "unlinked" ELSE fd[a][t]]]
    /\ AfterStop(s)
    /\ UNCHANGED <<act, launched, count, main, listener, failed, port, crashes, disk>>

\* uninstall: its three removals, in this order.
Removals == [rmHome  |-> [files |-> {"home", "flag", "package"}, next |-> "rmCron"],
             rmCron  |-> [files |-> {"cron"}, next |-> "rmBlade"],
             rmBlade |-> [files |-> {"blade"}, next |-> "verify"]]

Uninstall(s) ==
    /\ spc[s] \in DOMAIN Removals
    /\ disk' = disk \ Removals[spc[s]].files
    /\ Step(s, Removals[spc[s]].next)
    /\ UNCHANGED <<act, launched, count, last, agentVars, pidFile>>

\* Mutated: uninstall does not look for an agent that came up meanwhile.
UninstallCheck_Skipped(s) ==
    /\ spc[s] = "verify"
    /\ Done(s, "uninstalled")
    /\ UNCHANGED <<act, launched, count, agentVars, pidFile, disk>>

UninstallCheck(s) ==
    /\ spc[s] = "verify"
    /\ Done(s, IF \E a \in Agents : Alive(a) THEN "notUninstalled" ELSE "uninstalled")
    /\ UNCHANGED <<act, launched, count, agentVars, pidFile, disk>>

Script(s) ==
    \/ Recover(s) \/ CheckStatus(s) \/ DeployChaosblade(s) \/ CheckChaosBin(s) \/ AddCrontab(s)
    \/ CheckProcess(s) \/ Launch(s) \/ Poll(s)
    \/ Terminate(s) \/ Kill(s) \/ RemovePid(s)
    \/ Uninstall(s) \/ UninstallCheck(s)

Agent(a) ==
    Boot(a) \/ ListenAndServe(a) \/ OpenPid(a) \/ WritePid(a) \/ Exit(a) \/ Closed(a)

Next ==
    \/ \E s \in Scripts : Begin(s) \/ Script(s)
    \/ \E a \in Agents : Agent(a) \/ Crash(a)
    \/ \E a \in Agents, s \in Scripts : UninstallRequest(a, s)

Spec == Init /\ [][Next]_vars

\* The shell goes on with the commands of a script that has begun.
FairSpec == Spec /\ \A s \in Scripts : WF_vars(Script(s))

-----------------------------------------------------------------------------
(* Properties.                                                             *)

\* chaosctl.sh:168, "skip if it is already started": there is never a second
\* agent beside one that is alive.
AtMostOneAgent == \A a, b \in Agents : Alive(a) /\ Alive(b) => a = b

\* When stop has printed its result and nothing was started since, no agent is
\* left, the port is free of agents and the pid file is gone for good.
StopLeavesNothing ==
    last = "stopped" /\ (\A s \in Scripts : ~Active(s)) =>
        /\ \A a \in Agents : ~Alive(a)
        /\ port \notin Agents
        /\ pidFile = NoFile

\* start0 gives up and cleans up: after a timeout no agent that was too slow
\* comes up behind the back of the caller.
TimeoutLeavesNothing ==
    last = "timeout" /\ (\A s \in Scripts : ~Active(s)) =>
        (\A a \in Agents : ~Alive(a)) /\ pidFile = NoFile

\* A restart or an install that prints "start failed" means its own agent: that
\* one has failed.
RestartFailureIsTrue ==
    \A s \in Scripts :
        spc[s] = "failed" /\ act[s] \in {"restart", "install"} => failed[launched[s]]

\* chaosctl.sh:315, "uninstall successfully" is final: a recovery by cron may see that
\* the agent was stopped and start another one before the directory is removed, but
\* then uninstall_check sees that one; after it nothing can be started any more.
UninstallIsFinal ==
    (\E s \in Scripts : spc[s] = "uninstalled") =>
        /\ \A a \in Agents : ~Alive(a)
        /\ disk = {}

\* chaosctl.sh:253-255, a pid file of "-1" is "start failed": an agent that
\* has ended in handlerErr is never reported as a success.
SuccessIsTrue ==
    [][\A s \in Scripts : spc'[s] = "success" /\ spc[s] # "success"
          => Alive(launched[s]) \/ ~failed[launched[s]]]_vars

\* Every script that has begun prints a result: the loop of start0 ends.
ScriptsEnd == \A s \in Scripts : Active(s) ~> ~Active(s)
=============================================================================
