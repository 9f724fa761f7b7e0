------------------------- MODULE AgentStartupProofs -------------------------
(***************************************************************************)
(* Proofs about AgentStartup, for any number of scripts, agents, tries and *)
(* crashes.                                                                *)
(*                                                                         *)
(* The control script has no lock, so that two scripts that start an agent *)
(* must not run at the same time; an uninstall may run beside any other.   *)
(* Between its check for a running agent, or its stop, and its launch a    *)
(* script then relies on nobody else launching one (Cleared).              *)
(***************************************************************************)
EXTENDS AgentStartup, TLAPS

\* Of two scripts that run at the same time one is an uninstall.
OnlyUninstallOverlaps == \A c, d \in Commands \ {"uninstall"} : <<c, d>> \notin Overlaps

\* No install runs beside an uninstall.
InstallWaits == <<"install", "uninstall">> \notin Overlaps /\ <<"uninstall", "install">> \notin Overlaps

Quiet == \A a \in Agents : ~Alive(a)

\* The commands that start an agent, and those that stop the old one before.
Starters == {"start", "restart", "install", "recover"}
Renewers == {"restart", "install"}

\* A script is where its command takes it.
Place(s) ==
    /\ spc[s] \in {"recover", "status"} => act[s] = "recover"
    /\ spc[s] = "deploy" => act[s] \in {"start", "install"}
    /\ spc[s] = "cron" => act[s] = "install"
    /\ spc[s] \in {"bin", "check", "launch", "poll"} => act[s] \in Starters
    /\ spc[s] \in {"term", "kill", "remove"} =>
          act[s] \in {"stop", "restart", "install", "uninstall", "timeout"}
    /\ spc[s] \in {"rmHome", "rmCron", "rmBlade", "verify"} => act[s] = "uninstall"

Places == \A s \in Scripts : Place(s)

\* What OnlyUninstallOverlaps says of the scripts that run.
Exclusion ==
    \A s, q \in Scripts :
        Active(s) /\ Active(q) /\ s # q => act[s] = "uninstall" \/ act[q] = "uninstall"

\* The threads and the port belong to agents that are alive, and who is about
\* to write -1 has failed.
Threaded(a) ==
    /\ listener[a] \notin {"none", "dead"} => Alive(a)
    /\ main[a] \in {"errOpen", "errWrite"} => failed[a] = TRUE
    /\ listener[a] \in {"errOpen", "errWrite"} => failed[a] = TRUE
    /\ port = a => Alive(a)

AgentInv == \A a \in Agents : Threaded(a)

\* The pid file begins like -1.
Dash == Len(pidFile) > 0 /\ pidFile[1] = "-"

\* What a script can rely on, by its place.
Cleared(s) ==
    /\ spc[s] = "launch" => Quiet
    /\ spc[s] = "remove" /\ act[s] # "uninstall" => Quiet
    /\ spc[s] \in {"cron", "deploy", "bin", "check", "launch"} /\ act[s] \in Renewers
         => Quiet /\ pidFile = NoFile
    /\ spc[s] = "poll" => \A a \in Agents : Alive(a) => a = launched[s]
    /\ spc[s] = "poll" /\ act[s] \in Renewers /\ Dash
         => launched[s] \in Agents /\ failed[launched[s]] = TRUE
    /\ spc[s] = "failed" /\ act[s] \in Renewers
         => launched[s] \in Agents /\ failed[launched[s]] = TRUE

\* After a stop or a timeout nothing is left.
Ended ==
    last \in {"stopped", "timeout"} /\ (\A s \in Scripts : ~Active(s)) => Quiet /\ pidFile = NoFile

LifeInv == AtMostOneAgent /\ Ended /\ \A s \in Scripts : Cleared(s)

IInv == TypeOK /\ Places /\ AgentInv

\* What an uninstall has removed stays away: without the directory no script
\* begins, and without an install none that runs adds a file.
Removed(s) ==
    /\ spc[s] \in {"rmCron", "rmBlade", "verify", "uninstalled"} =>
          /\ disk \cap {"home", "flag", "package"} = {}
          /\ \A q \in Scripts : Active(q) => act[q] # "install"
    /\ spc[s] \in {"rmBlade", "verify", "uninstalled"} => "cron" \notin disk
    /\ spc[s] \in {"verify", "uninstalled"} => disk = {}
    /\ spc[s] = "uninstalled" => Quiet

Apart ==
    \A s, q \in Scripts :
        Active(s) /\ Active(q) /\ act[s] = "uninstall" => act[q] # "install"

RemovedInv == Apart /\ \A s \in Scripts : Removed(s)
-----------------------------------------------------------------------------
(* What the assumptions on the constants say, one fact at a time.          *)

\* The values that stand for no agent are none.
LEMMA NullAgents == NoAgent \notin Agents /\ Foreign \notin Agents
  BY ConstantsAssumption DEF ConstantsAssumption

\* The bounds are numbers.
LEMMA Bounds == Tries \in Nat /\ MaxCrashes \in Nat
  BY ConstantsAssumption DEF ConstantsAssumption

\* Commands are commands, and so are those that overlap.
LEMMA CommandTypes == Actions \subseteq Commands /\ Overlaps \subseteq Commands \X Commands
  BY ConstantsAssumption DEF ConstantsAssumption

\* A pid is a text that does not begin like -1.
LEMMA PidTypes ==
  \A a \in Agents : Pid[a] \in Seq(Chars) /\ Len(Pid[a]) > 0 /\ Pid[a][1] # "-"
  <1> SUFFICES ASSUME NEW a \in Agents
               PROVE  Pid[a] \in Seq(Chars) /\ Len(Pid[a]) > 0 /\ Pid[a][1] # "-"
    OBVIOUS
  <1>1. Pid[a] \in Seq(Digits) /\ Pid[a] # <<>>
    BY ConstantsAssumption DEF ConstantsAssumption
  <1>2. Len(Pid[a]) > 0 /\ Pid[a][1] \in Digits
    BY <1>1
  <1>3. Pid[a] \in Seq(Chars)
    <2>1. Len(Pid[a]) \in Nat /\ Pid[a] \in [1 .. Len(Pid[a]) -> Digits]
      BY <1>1
    <2>2. Pid[a] \in [1 .. Len(Pid[a]) -> Chars]
      BY <2>1 DEF Chars
    <2>. QED  BY <2>1, <2>2
  <1>. QED  BY <1>2, <1>3 DEF Digits

\* Short sequences.
LEMMA ShortSeqs ==
  ASSUME NEW S, NEW x \in S, NEW y \in S
  PROVE  /\ <<x>> \in Seq(S) /\ <<x, y>> \in Seq(S)
         /\ Len(<<x>>) = 1 /\ Len(<<x, y>>) = 2 /\ <<x>>[1] = x /\ <<x, y>>[1] = x
  OBVIOUS

\* The text -1 and the mark for no file are texts too.
LEMMA Texts ==
  /\ NoFile \in Seq(Chars) /\ MinusOne \in Seq(Chars)
  /\ Len(NoFile) > 0 /\ Len(MinusOne) > 0 /\ MinusOne[1] = "-" /\ NoFile[1] # "-"
  <1>1. "-" \in Chars /\ "1" \in Chars /\ "none" \in Chars
    BY DEF Chars, Digits
  <1>2. MinusOne \in Seq(Chars) /\ Len(MinusOne) = 2 /\ MinusOne[1] = "-"
    BY <1>1, ShortSeqs, Zenon DEF MinusOne
  <1>3. NoFile \in Seq(Chars) /\ Len(NoFile) = 1 /\ NoFile[1] = "none"
    BY <1>1, ShortSeqs, Zenon DEF NoFile
  <1>. QED  BY <1>2, <1>3

\* What is written over a file is a text that begins with what was written.
LEMMA OverlayFacts ==
  ASSUME NEW old \in Seq(Chars), NEW text \in Seq(Chars), Len(text) > 0
  PROVE  /\ Overlay(old, text) \in Seq(Chars)
         /\ Len(Overlay(old, text)) > 0 /\ Overlay(old, text)[1] = text[1]
  <1> DEFINE rest == SubSeq(old, Len(text) + 1, Len(old))
  <1>1. rest \in Seq(Chars)
    OBVIOUS
  <1> HIDE DEF rest
  <1>2. /\ text \o rest \in Seq(Chars)
        /\ Len(text \o rest) > 0 /\ (text \o rest)[1] = text[1]
    BY <1>1
  <1>. QED  BY <1>2 DEF Overlay, rest

\* The processes that die take their threads, files and sockets along.
LEMMA DieFacts ==
  ASSUME TypeOK, NEW dying, Die(dying)
  PROVE  /\ main' \in [Agents -> AgentPCs] /\ listener' \in [Agents -> AgentPCs]
         /\ fd' \in [Agents -> [Threads -> {"none", "file", "unlinked"}]]
         /\ port' \in Agents \cup {NoAgent, Foreign}
         /\ \A a \in Agents :
              /\ main'[a] = (IF a \in dying THEN "dead" ELSE main[a])
              /\ listener'[a] = (IF a \in dying THEN "dead" ELSE listener[a])
              /\ port' = a => port = a /\ a \notin dying
  <1>1. main' \in [Agents -> AgentPCs] /\ listener' \in [Agents -> AgentPCs]
    BY DEF Die, TypeOK, AgentPCs
  <1>2. fd' \in [Agents -> [Threads -> {"none", "file", "unlinked"}]]
    BY DEF Die, TypeOK
  <1>. QED  BY <1>1, <1>2, NullAgents DEF Die, TypeOK
-----------------------------------------------------------------------------
(* The steps of an agent.                                                  *)

\* What every step of agent a keeps and does.
Lives(a) ==
    /\ Alive(a) /\ UNCHANGED <<scriptVars, disk>>
    /\ \A b \in Agents : Alive(b)' => Alive(b)
    /\ \A b \in Agents : failed[b] = TRUE => failed'[b] = TRUE
    /\ Dash' => Dash \/ failed[a] = TRUE

\* An agent that ends, by itself, by os.Exit or by a signal.
LEMMA EndStep ==
  ASSUME TypeOK, AgentInv, NEW a \in Agents, Alive(a), Die({a}),
         UNCHANGED <<scriptVars, disk, failed, pidFile>>, crashes' \in 0 .. MaxCrashes
  PROVE  TypeOK' /\ AgentInv' /\ Lives(a)
  <1>1. TypeOK'
    BY DieFacts DEF TypeOK, scriptVars
  <1>2. AgentInv'
    BY DieFacts DEF AgentInv, Threaded, Alive, TypeOK
  <1>. QED  BY <1>1, <1>2, DieFacts DEF Lives, Alive, Dash

\* An agent that boots, or that gets the port or not.
LEMMA BootStep ==
  ASSUME TypeOK, AgentInv, NEW a \in Agents, Boot(a) \/ ListenAndServe(a)
  PROVE  TypeOK' /\ AgentInv' /\ Lives(a)
  <1>1. CASE Boot(a) /\ Die({a}) /\ UNCHANGED failed
    BY <1>1, EndStep DEF Boot, Alive, TypeOK
  <1>2. CASE Boot(a) /\ ~(Die({a}) /\ UNCHANGED failed)
    <2>1. /\ main[a] = "boot" /\ UNCHANGED <<scriptVars, disk, pidFile, fd, port, crashes>>
          /\ \/ /\ main' = [main EXCEPT ![a] = "errOpen"]
                /\ failed' = [failed EXCEPT ![a] = TRUE] /\ UNCHANGED listener
             \/ /\ main' = [main EXCEPT ![a] = "open"]
                /\ listener' = [listener EXCEPT ![a] = "listen"] /\ UNCHANGED failed
      BY <1>2 DEF Boot
    <2>2. TypeOK'
      BY <2>1 DEF TypeOK, scriptVars, AgentPCs
    <2>3. AgentInv'
      BY <2>1 DEF AgentInv, Threaded, Alive, TypeOK
    <2>. QED  BY <2>1, <2>2, <2>3 DEF Lives, Alive, Dash, TypeOK
  <1>3. CASE ListenAndServe(a)
    <2>1. /\ listener[a] = "listen" /\ UNCHANGED <<scriptVars, disk, pidFile, fd, main, crashes>>
          /\ \/ /\ port' = a /\ UNCHANGED failed
                /\ listener' = [listener EXCEPT ![a] = "serving"]
             \/ /\ listener' = [listener EXCEPT ![a] = "errOpen"]
                /\ failed' = [failed EXCEPT ![a] = TRUE] /\ UNCHANGED port
      BY <1>3 DEF ListenAndServe
    <2>2. TypeOK'
      BY <2>1 DEF TypeOK, scriptVars, AgentPCs
    <2>3. AgentInv'
      BY <2>1 DEF AgentInv, Threaded, Alive, TypeOK
    <2>4. Alive(a)
      BY <2>1 DEF AgentInv, Threaded
    <2>. QED  BY <2>1, <2>2, <2>3, <2>4 DEF Lives, Alive, Dash, TypeOK
  <1>. QED  BY <1>1, <1>2, <1>3

\* A thread that opens the pid file or writes to it.
LEMMA PidStep ==
  ASSUME TypeOK, AgentInv, NEW a \in Agents, OpenPid(a) \/ WritePid(a)
  PROVE  TypeOK' /\ AgentInv' /\ Lives(a)
  <1>0. Alive(a) /\ UNCHANGED <<scriptVars, disk, failed, port, crashes>>
    BY DEF OpenPid, WritePid, Alive, AgentInv, Threaded
  <1>1. /\ main' \in [Agents -> AgentPCs] /\ listener' \in [Agents -> AgentPCs]
        /\ main'[a] # "dead" /\ main'[a] # "none"
        /\ main'[a] \in {"errOpen", "errWrite"} => failed[a] = TRUE
        /\ listener'[a] \in {"errOpen", "errWrite"} => failed[a] = TRUE
        /\ \A b \in Agents \ {a} : main'[b] = main[b] /\ listener'[b] = listener[b]
    <2>1. Threaded(a) /\ main \in [Agents -> AgentPCs] /\ listener \in [Agents -> AgentPCs]
      BY DEF AgentInv, TypeOK
    <2>2. \/ /\ UNCHANGED listener
             /\ \/ main[a] \in {"open", "errOpen"} /\ main' = [main EXCEPT ![a] = Opened(main[a])]
                \/ main[a] \in {"write", "errWrite"} /\ main' = [main EXCEPT ![a] = Written(main[a])]
          \/ /\ UNCHANGED main
             /\ \/ /\ listener[a] = "errOpen"
                   /\ listener' = [listener EXCEPT ![a] = Opened(listener[a])]
                \/ /\ listener[a] = "errWrite"
                   /\ listener' = [listener EXCEPT ![a] = Written(listener[a])]
      BY DEF OpenPid, WritePid
    <2>. QED  BY <1>0, <2>1, <2>2 DEF Opened, Written, Threaded, AgentPCs, Alive
  <1>2. fd' \in [Agents -> [Threads -> {"none", "file", "unlinked"}]]
    <2>1. \E t \in Threads, x \in {"none", "file"} : fd' = [fd EXCEPT ![a][t] = x]
      BY DEF OpenPid, WritePid, Threads
    <2>. QED  BY <2>1 DEF TypeOK
  <1>3. pidFile' \in Seq(Chars) /\ (Dash' => Dash \/ failed[a] = TRUE)
    <2>1. CASE OpenPid(a)
      <3>1. pidFile' = <<>> \/ pidFile' = pidFile
        BY <2>1 DEF OpenPid
      <3>2. CASE pidFile' = <<>>
        BY <3>2 DEF Dash
      <3>3. CASE pidFile' = pidFile
        BY <3>3 DEF Dash, TypeOK
      <3>. QED  BY <3>1, <3>2, <3>3
    <2>2. CASE WritePid(a)
      <3>1. PICK text \in Seq(Chars) :
               /\ Len(text) > 0
               /\ text[1] = "-" => failed[a] = TRUE
               /\ pidFile' = Overlay(pidFile, text) \/ pidFile' = pidFile
        <4>1. CASE main[a] = "write" /\ Store(a, "main", Pid[a])
          BY <4>1, PidTypes DEF Store
        <4>2. CASE \/ main[a] = "errWrite" /\ Store(a, "main", MinusOne)
                   \/ listener[a] = "errWrite" /\ Store(a, "listener", MinusOne)
          BY Texts, <4>2 DEF Store, AgentInv, Threaded
        <4>. QED  BY <2>2, <4>1, <4>2 DEF WritePid
      <3>2. pidFile \in Seq(Chars)
        BY DEF TypeOK
      <3>3. CASE pidFile' = Overlay(pidFile, text)
        BY <3>1, <3>2, <3>3, OverlayFacts DEF Dash
      <3>4. CASE pidFile' = pidFile
        BY <3>2, <3>4 DEF Dash
      <3>. QED  BY <3>1, <3>3, <3>4
    <2>. QED  BY <2>1, <2>2
  <1>4. TypeOK'
    BY <1>0, <1>1, <1>2, <1>3 DEF TypeOK, scriptVars
  <1>5. AgentInv'
    BY <1>0, <1>1 DEF AgentInv, Threaded, Alive
  <1>. QED  BY <1>0, <1>1, <1>3, <1>4, <1>5 DEF Lives, Alive

\* The steps of an agent together.
LEMMA AgentStep ==
  ASSUME TypeOK, AgentInv, NEW a \in Agents, Agent(a) \/ Crash(a)
  PROVE  TypeOK' /\ AgentInv' /\ Lives(a)
  <1>1. CASE Exit(a) \/ Closed(a) \/ Crash(a)
    <2>1. Alive(a)
      BY <1>1 DEF Exit, Closed, Crash, Alive, AgentInv, Threaded
    <2>2. crashes' \in 0 .. MaxCrashes
      BY <1>1, Bounds DEF Exit, Closed, Crash, TypeOK
    <2>. QED  BY <1>1, <2>1, <2>2, EndStep DEF Exit, Closed, Crash
  <1>. QED  BY <1>1, BootStep, PidStep DEF Agent
-----------------------------------------------------------------------------
(* The steps of a script, one group at a time: what they change, and that  *)
(* types, places and agents stay in order.                                 *)

\* Script s alone moves.
Moves(s) ==
    /\ spc'[s] \in ScriptPCs
    /\ \A q \in Scripts \ {s} : spc'[q] = spc[q] /\ act'[q] = act[q] /\ launched'[q] = launched[q]

\* Script s begins, or is refused.
Begins(s) ==
    /\ Moves(s) /\ UNCHANGED <<agentVars, pidFile, disk>>
    /\ spc[s] = "none" /\ "home" \in disk
    /\ act'[s] \in Commands
    /\ \A q \in Scripts : Active(q) => <<act'[s], act[q]>> \in Overlaps
    /\ \/ spc'[s] = "refused" /\ last' = "refused"
       \/ /\ last' = last
          /\ \/ spc'[s] = "deploy" /\ act'[s] = "start"
             \/ spc'[s] = "recover" /\ act'[s] = "recover"
             \/ spc'[s] = "term" /\ act'[s] \in {"stop", "restart", "install", "uninstall"}

\* A script that begins.
LEMMA BeginStep ==
  ASSUME IInv, NEW s \in Scripts, Begin(s) \/ \E a \in Agents : UninstallRequest(a, s)
  PROVE  IInv' /\ Begins(s)
  <1>1. PICK command \in Actions :
          /\ Starts(s, command)
          /\ \/ spc' = [spc EXCEPT ![s] = "refused"] /\ last' = "refused"
             \/ spc' = [spc EXCEPT ![s] = First(command)] /\ last' = last
          /\ UNCHANGED <<launched, count, agentVars, pidFile, disk>>
    BY DEF Begin, UninstallRequest, Refuses, Done, Step
  <1>2. command \in Commands
    BY CommandTypes
  <1>3. /\ spc[s] = "none" /\ "home" \in disk /\ act' = [act EXCEPT ![s] = command]
        /\ \A q \in Scripts : Active(q) => <<command, act[q]>> \in Overlaps
    BY <1>1 DEF Starts, CtlExists
  <1>4. \/ First(command) = "deploy" /\ command = "start"
        \/ First(command) = "recover" /\ command = "recover"
        \/ First(command) = "term" /\ command \in {"stop", "restart", "install", "uninstall"}
    BY <1>2 DEF First, Commands
  <1>5. Begins(s)
    BY <1>1, <1>2, <1>3, <1>4 DEF Begins, Moves, IInv, TypeOK, ScriptPCs, Results
  <1>6. TypeOK'
    <2>1. First(command) \in ScriptPCs /\ "refused" \in ScriptPCs /\ "refused" \in Results
      BY <1>4 DEF ScriptPCs, Results
    <2>2. spc' \in [Scripts -> ScriptPCs] /\ last' \in Results
      BY <1>1, <2>1 DEF IInv, TypeOK
    <2>3. act' \in [Scripts -> Commands \cup {"none", "timeout"}]
      BY <1>2, <1>3 DEF IInv, TypeOK
    <2>. QED  BY <1>1, <2>2, <2>3 DEF IInv, TypeOK, agentVars
  <1>7. Places'
    BY <1>5 DEF Begins, Moves, IInv, Places, Place
  <1>8. AgentInv'
    BY <1>1 DEF IInv, agentVars, AgentInv, Threaded, Alive
  <1>. QED  BY <1>5, <1>6, <1>7, <1>8 DEF IInv

\* Script s makes a check or changes a file.
Plain(s) ==
    \/ Recover(s) \/ CheckStatus(s) \/ DeployChaosblade(s) \/ CheckChaosBin(s) \/ AddCrontab(s)
    \/ CheckProcess(s) \/ Uninstall(s) \/ UninstallCheck(s)

Passes(s) ==
    /\ Moves(s) /\ UNCHANGED <<act, launched, agentVars, pidFile>>
    /\ Active(s)
    /\ \/ /\ spc'[s] \in {"refused", "already", "uninstalled", "notUninstalled"}
          /\ last' = spc'[s]
       \/ /\ last' = last
          /\ \/ spc[s] = "recover" /\ spc'[s] = "status"
             \/ spc[s] = "status" /\ spc'[s] = "bin"
             \/ spc[s] = "deploy" /\ spc'[s] = "bin"
             \/ spc[s] = "bin" /\ spc'[s] = "check"
             \/ spc[s] = "cron" /\ spc'[s] = "deploy"
             \/ spc[s] = "check" /\ spc'[s] = "launch" /\ Quiet
             \/ spc[s] = "rmHome" /\ spc'[s] = "rmCron"
             \/ spc[s] = "rmCron" /\ spc'[s] = "rmBlade"
             \/ spc[s] = "rmBlade" /\ spc'[s] = "verify"

\* What the removals of an uninstall are.
LEMMA UninstallFacts ==
  ASSUME NEW s \in Scripts, Uninstall(s)
  PROVE  /\ last' = last
         /\ \/ /\ spc[s] = "rmHome" /\ spc' = [spc EXCEPT ![s] = "rmCron"]
               /\ disk' = disk \ {"home", "flag", "package"}
            \/ /\ spc[s] = "rmCron" /\ spc' = [spc EXCEPT ![s] = "rmBlade"]
               /\ disk' = disk \ {"cron"}
            \/ /\ spc[s] = "rmBlade" /\ spc' = [spc EXCEPT ![s] = "verify"]
               /\ disk' = disk \ {"blade"}
  <1>1. /\ spc[s] \in DOMAIN Removals /\ last' = last
        /\ disk' = disk \ Removals[spc[s]].files
        /\ spc' = [spc EXCEPT ![s] = Removals[spc[s]].next]
    BY DEF Uninstall, Step
  <1>2. DOMAIN Removals = {"rmHome", "rmCron", "rmBlade"}
    BY DEF Removals
  <1>3. /\ Removals["rmHome"].files = {"home", "flag", "package"}
        /\ Removals["rmHome"].next = "rmCron"
    BY DEF Removals
  <1>4. Removals["rmCron"].files = {"cron"} /\ Removals["rmCron"].next = "rmBlade"
    BY DEF Removals
  <1>5. Removals["rmBlade"].files = {"blade"} /\ Removals["rmBlade"].next = "verify"
    BY DEF Removals
  <1>6. CASE spc[s] = "rmHome"
    BY <1>1, <1>3, <1>6, Zenon
  <1>7. CASE spc[s] = "rmCron"
    BY <1>1, <1>4, <1>7, Zenon
  <1>8. CASE spc[s] = "rmBlade"
    BY <1>1, <1>5, <1>8, Zenon
  <1>. QED  BY <1>1, <1>2, <1>6, <1>7, <1>8

\* The checks and the changes of files.
LEMMA PlainStep ==
  ASSUME IInv, NEW s \in Scripts, Plain(s)
  PROVE  IInv' /\ Passes(s)
  <1>0. spc \in [Scripts -> ScriptPCs]
    BY DEF IInv, TypeOK
  <1>1. UNCHANGED <<act, launched, count, agentVars, pidFile>>
    BY DEF Plain, Recover, CheckStatus, DeployChaosblade, CheckChaosBin, AddCrontab, CheckProcess,
           Uninstall, UninstallCheck
  <1>2. ASSUME Uninstall(s)
        PROVE  TypeOK' /\ Passes(s)
    <2>1. /\ last' = last /\ disk' \subseteq disk
          /\ \/ spc[s] = "rmHome" /\ spc' = [spc EXCEPT ![s] = "rmCron"]
             \/ spc[s] = "rmCron" /\ spc' = [spc EXCEPT ![s] = "rmBlade"]
             \/ spc[s] = "rmBlade" /\ spc' = [spc EXCEPT ![s] = "verify"]
      BY <1>2, UninstallFacts
    <2>2. Passes(s)
      BY <1>0, <1>1, <2>1 DEF Passes, Moves, Active, ScriptPCs, Results
    <2>3. TypeOK'
      BY <1>1, <2>1 DEF IInv, TypeOK, agentVars, ScriptPCs
    <2>. QED  BY <2>2, <2>3
  <1>3. ASSUME ~Uninstall(s)
        PROVE  TypeOK' /\ Passes(s)
    <2>1. /\ disk' \subseteq Unpacked \cup Installed
          /\ \/ /\ \E r \in {"refused", "already", "uninstalled", "notUninstalled"} :
                      spc' = [spc EXCEPT ![s] = r] /\ last' = r
                /\ spc[s] \in {"recover", "status", "deploy", "bin", "cron", "check", "verify"}
             \/ /\ last' = last
                /\ \/ spc[s] = "recover" /\ spc' = [spc EXCEPT ![s] = "status"]
                   \/ spc[s] = "status" /\ spc' = [spc EXCEPT ![s] = "bin"]
                   \/ spc[s] = "deploy" /\ spc' = [spc EXCEPT ![s] = "bin"]
                   \/ spc[s] = "bin" /\ spc' = [spc EXCEPT ![s] = "check"]
                   \/ spc[s] = "cron" /\ spc' = [spc EXCEPT ![s] = "deploy"]
                   \/ spc[s] = "check" /\ spc' = [spc EXCEPT ![s] = "launch"] /\ Quiet
      <3>0. disk \subseteq Unpacked \cup Installed
        BY DEF IInv, TypeOK
      <3>1. CASE Recover(s)
        BY <3>0, <3>1 DEF Recover, Done, Step
      <3>2. CASE CheckStatus(s)
        BY <3>0, <3>2 DEF CheckStatus, Refuses, Done, Step
      <3>3. CASE DeployChaosblade(s)
        BY <3>0, <3>3 DEF DeployChaosblade, Refuses, Done, Step, Unpacked, Installed
      <3>4. CASE CheckChaosBin(s)
        BY <3>0, <3>4 DEF CheckChaosBin, Refuses, Done, Step
      <3>5. CASE AddCrontab(s)
        BY <3>0, <3>5 DEF AddCrontab, Refuses, Done, Step, Installed
      <3>6. CASE CheckProcess(s)
        BY <3>0, <3>6 DEF CheckProcess, Done, Step, Quiet
      <3>7. CASE UninstallCheck(s)
        BY <3>0, <3>7 DEF UninstallCheck, Done, Step
      <3>. QED  BY <1>3, <3>1, <3>2, <3>3, <3>4, <3>5, <3>6, <3>7 DEF Plain
    <2>2. Passes(s)
      BY <1>0, <1>1, <2>1 DEF Passes, Moves, Active, ScriptPCs, Results
    <2>3. TypeOK'
      <3>1. spc' \in [Scripts -> ScriptPCs]
        BY <1>0, <2>1 DEF ScriptPCs, Results
      <3>2. last' \in Results
        BY <2>1 DEF IInv, TypeOK, Results
      <3>. QED  BY <1>1, <2>1, <3>1, <3>2 DEF IInv, TypeOK, agentVars
    <2>. QED  BY <2>2, <2>3
  <1>4. TypeOK' /\ Passes(s)
    BY <1>2, <1>3
  <1>5. Places'
    BY <1>4 DEF Passes, Moves, IInv, Places, Place, Starters
  <1>6. AgentInv'
    BY <1>1 DEF IInv, agentVars, AgentInv, Threaded, Alive
  <1>. QED  BY <1>4, <1>5, <1>6 DEF IInv

\* Script s launches an agent, unless the binary is gone.
Launches(s) ==
    /\ Moves(s) /\ UNCHANGED <<act, last, failed, pidFile>>
    /\ spc[s] = "launch" /\ spc'[s] = "poll"
    /\ \/ /\ "home" \notin disk /\ UNCHANGED <<main, launched, disk>>
       \/ /\ "home" \in disk
          /\ launched'[s] \in Agents
          /\ \A a \in Agents \ {launched'[s]} : main'[a] = main[a]

\* The launch.
LEMMA LaunchStep ==
  ASSUME IInv, NEW s \in Scripts, Launch(s)
  PROVE  IInv' /\ Launches(s)
  <1>0. TypeOK /\ Places /\ AgentInv
    BY DEF IInv
  <1>1. /\ spc[s] = "launch" /\ spc' = [spc EXCEPT ![s] = "poll"]
        /\ count' = [count EXCEPT ![s] = Tries]
        /\ UNCHANGED <<act, last, listener, fd, failed, port, crashes, pidFile>>
    BY DEF Launch, Step
  <1>2. \/ "home" \notin disk /\ UNCHANGED <<main, launched, disk>>
        \/ /\ "home" \in disk /\ disk' \subseteq Unpacked \cup Installed
           /\ \E a \in Agents :
                 /\ main[a] = "none"
                 /\ main' = [main EXCEPT ![a] = "boot"]
                 /\ launched' = [launched EXCEPT ![s] = a]
    <2>1. disk \subseteq Unpacked \cup Installed
      BY <1>0 DEF TypeOK
    <2>. QED  BY <2>1 DEF Launch, Installed
  <1>3. Launches(s)
    BY <1>0, <1>1, <1>2 DEF Launches, Moves, TypeOK, ScriptPCs
  <1>4. TypeOK'
    <2>0. main' \in [Agents -> AgentPCs]
      <3>1. "boot" \in AgentPCs
        BY DEF AgentPCs
      <3>. QED  BY <1>0, <1>2, <3>1 DEF TypeOK
    <2>1. launched' \in [Scripts -> Agents \cup {NoAgent}]
      BY <1>0, <1>2 DEF TypeOK
    <2>2. spc' \in [Scripts -> ScriptPCs] /\ count' \in [Scripts -> 0 .. Tries]
      BY <1>0, <1>1, Bounds DEF TypeOK, ScriptPCs
    <2>3. disk' \subseteq Unpacked \cup Installed
      BY <1>0, <1>2 DEF TypeOK
    <2>. QED  BY <1>0, <1>1, <2>0, <2>1, <2>2, <2>3 DEF TypeOK
  <1>5. Places'
    BY <1>0, <1>3 DEF Launches, Moves, Places, Place
  <1>6. AgentInv'
    BY <1>0, <1>1, <1>2 DEF TypeOK, AgentInv, Threaded, Alive
  <1>. QED  BY <1>3, <1>4, <1>5, <1>6 DEF IInv

\* Script s looks at the pid file once.
Polls(s) ==
    /\ Moves(s) /\ UNCHANGED <<launched, agentVars, pidFile, disk>>
    /\ spc[s] = "poll"
    /\ \/ spc'[s] = "term" /\ act'[s] = "timeout" /\ last' = last
       \/ spc'[s] = "poll" /\ act'[s] = act[s] /\ last' = last
       \/ spc'[s] = "failed" /\ act'[s] = act[s] /\ last' = "failed" /\ pidFile = MinusOne
       \/ spc'[s] = "success" /\ act'[s] = act[s] /\ last' = "success"

\* A turn of the loop.
LEMMA PollStep ==
  ASSUME IInv, NEW s \in Scripts, Poll(s)
  PROVE  IInv' /\ Polls(s)
  <1>0. TypeOK /\ Places /\ AgentInv
    BY DEF IInv
  <1>1. spc[s] = "poll" /\ UNCHANGED <<launched, agentVars, pidFile, disk>>
    BY DEF Poll
  <1>2. CASE count[s] = 0
    <2>1. /\ act' = [act EXCEPT ![s] = "timeout"] /\ spc' = [spc EXCEPT ![s] = "term"]
          /\ UNCHANGED <<count, last>>
      BY <1>2 DEF Poll, Step
    <2>2. Polls(s)
      BY <1>0, <1>1, <2>1 DEF Polls, Moves, TypeOK, ScriptPCs
    <2>3. TypeOK'
      BY <1>0, <1>1, <2>1 DEF TypeOK, agentVars, ScriptPCs
    <2>4. Places'
      BY <1>0, <2>2 DEF Polls, Moves, Places, Place
    <2>5. AgentInv'
      BY <1>0, <1>1 DEF agentVars, AgentInv, Threaded, Alive
    <2>. QED  BY <2>2, <2>3, <2>4, <2>5 DEF IInv
  <1>3. CASE count[s] # 0
    <2>1. /\ act' = act
          /\ \/ count' = [count EXCEPT ![s] = @ - 1] /\ UNCHANGED <<spc, last>>
             \/ /\ count' = count
                /\ \/ /\ spc' = [spc EXCEPT ![s] = "failed"] /\ last' = "failed"
                      /\ pidFile = MinusOne
                   \/ spc' = [spc EXCEPT ![s] = "success"] /\ last' = "success"
      BY <1>3 DEF Poll, Done, Step
    <2>2. Polls(s)
      BY <1>0, <1>1, <2>1 DEF Polls, Moves, TypeOK, ScriptPCs, Results
    <2>3. TypeOK'
      <3>1. count' \in [Scripts -> 0 .. Tries]
        BY <1>0, <1>3, <2>1, Bounds DEF TypeOK
      <3>. QED  BY <1>0, <1>1, <2>1, <3>1 DEF TypeOK, agentVars, ScriptPCs, Results
    <2>4. Places'
      BY <1>0, <2>2 DEF Polls, Moves, Places, Place
    <2>5. AgentInv'
      BY <1>0, <1>1 DEF agentVars, AgentInv, Threaded, Alive
    <2>. QED  BY <2>2, <2>3, <2>4, <2>5 DEF IInv
  <1>. QED  BY <1>2, <1>3

\* Script s takes a step of stop.
Stops(s) ==
    /\ Moves(s) /\ UNCHANGED <<act, launched, failed, disk>>
    /\ \A a \in Agents : Alive(a)' => Alive(a)
    /\ \/ spc[s] = "term" /\ spc'[s] = "kill" /\ UNCHANGED <<last, pidFile>>
       \/ spc[s] = "kill" /\ spc'[s] = "remove" /\ Quiet' /\ UNCHANGED <<last, pidFile>>
       \/ /\ spc[s] = "remove" /\ pidFile' = NoFile /\ UNCHANGED main
          /\ \/ act[s] = "stop" /\ spc'[s] = "stopped" /\ last' = "stopped"
             \/ act[s] = "timeout" /\ spc'[s] = "timeout" /\ last' = "timeout"
             \/ act[s] = "restart" /\ spc'[s] = "bin" /\ last' = last
             \/ act[s] = "install" /\ spc'[s] = "cron" /\ last' = last
             \/ act[s] = "uninstall" /\ spc'[s] = "rmHome" /\ last' = last

\* The signal that asks the agents to end.
LEMMA TerminateStep ==
  ASSUME IInv, NEW s \in Scripts, Terminate(s)
  PROVE  IInv' /\ Stops(s)
  <1> DEFINE dying == {a \in Agents : Alive(a) /\ main[a] \notin {"hold", "closing"}}
  <1>0. TypeOK /\ Places /\ AgentInv
    BY DEF IInv
  <1>1. /\ spc[s] = "term" /\ spc' = [spc EXCEPT ![s] = "kill"]
        /\ UNCHANGED <<act, launched, count, last, failed, crashes, pidFile, disk>>
    BY DEF Terminate, Step
  <1>2. /\ main' = [a \in Agents |-> IF a \in dying THEN "dead"
                                     ELSE IF main[a] = "hold" THEN "closing" ELSE main[a]]
        /\ listener' = [a \in Agents |-> IF a \in dying THEN "dead" ELSE listener[a]]
        /\ fd' = [a \in Agents |-> IF a \in dying THEN [t \in Threads |-> "none"] ELSE fd[a]]
        /\ port' = IF port \in dying THEN NoAgent ELSE port
    BY DEF Terminate
  <1>3. \A a \in Agents : Alive(a)' => Alive(a)
    BY <1>0, <1>2 DEF Alive
  <1>4. Stops(s)
    BY <1>0, <1>1, <1>3 DEF Stops, Moves, TypeOK, ScriptPCs
  <1>5. TypeOK'
    <2>1. main' \in [Agents -> AgentPCs] /\ listener' \in [Agents -> AgentPCs]
      BY <1>0, <1>2 DEF TypeOK, AgentPCs
    <2>2. fd' \in [Agents -> [Threads -> {"none", "file", "unlinked"}]]
      BY <1>0, <1>2 DEF TypeOK
    <2>3. port' \in Agents \cup {NoAgent, Foreign}
      BY <1>0, <1>2 DEF TypeOK
    <2>. QED  BY <1>0, <1>1, <2>1, <2>2, <2>3 DEF TypeOK, ScriptPCs
  <1>6. Places'
    <2>1. act' = act /\ Place(s)
      BY <1>0, <1>1 DEF Places
    <2>2. ASSUME NEW q \in Scripts, q # s PROVE Place(q)'
      <3>1. spc'[q] = spc[q] /\ Place(q)
        BY <1>0, <1>1, <2>2 DEF TypeOK, Places
      <3>. QED  BY <2>1, <3>1 DEF Place
    <2>3. Place(s)'
      <3>1. spc'[s] = "kill"
        BY <1>0, <1>1 DEF TypeOK
      <3>. QED  BY <1>1, <2>1, <3>1 DEF Place
    <2>. QED  BY <2>2, <2>3 DEF Places
  <1>7. AgentInv'
    BY <1>0, <1>1, <1>2, NullAgents DEF TypeOK, AgentInv, Threaded, Alive
  <1>. QED  BY <1>4, <1>5, <1>6, <1>7 DEF IInv

\* The signal that ends them.
LEMMA KillStep ==
  ASSUME IInv, NEW s \in Scripts, Kill(s)
  PROVE  IInv' /\ Stops(s)
  <1> DEFINE dying == {a \in Agents : Alive(a)}
  <1>0. TypeOK /\ Places /\ AgentInv
    BY DEF IInv
  <1>1. /\ spc[s] = "kill" /\ spc' = [spc EXCEPT ![s] = "remove"]
        /\ UNCHANGED <<act, launched, count, last, failed, crashes, pidFile, disk>>
        /\ Die(dying)
    BY DEF Kill, Step
  <1> HIDE DEF dying
  <1>2. \A a \in Agents : ~(main'[a] \notin {"none", "dead"})
    BY <1>0, <1>1, DieFacts DEF Alive, dying
  <1>3. Stops(s)
    BY <1>0, <1>1, <1>2 DEF Stops, Moves, TypeOK, ScriptPCs, Quiet, Alive
  <1>4. TypeOK'
    BY <1>0, <1>1, DieFacts DEF TypeOK, ScriptPCs
  <1>5. Places'
    <2>1. act' = act /\ Place(s)
      BY <1>0, <1>1 DEF Places
    <2>2. ASSUME NEW q \in Scripts, q # s PROVE Place(q)'
      <3>1. spc'[q] = spc[q] /\ Place(q)
        BY <1>0, <1>1, <2>2 DEF TypeOK, Places
      <3>. QED  BY <2>1, <3>1 DEF Place
    <2>3. Place(s)'
      <3>1. spc'[s] = "remove"
        BY <1>0, <1>1 DEF TypeOK
      <3>. QED  BY <1>1, <2>1, <3>1 DEF Place
    <2>. QED  BY <2>2, <2>3 DEF Places
  <1>6. AgentInv'
    BY <1>0, <1>1, DieFacts DEF TypeOK, AgentInv, Threaded, Alive
  <1>. QED  BY <1>3, <1>4, <1>5, <1>6 DEF IInv

\* The removal of the pid file.
LEMMA RemovePidStep ==
  ASSUME IInv, NEW s \in Scripts, RemovePid(s)
  PROVE  IInv' /\ Stops(s)
  <1>0. TypeOK /\ Places /\ AgentInv
    BY DEF IInv
  <1>1. /\ spc[s] = "remove" /\ pidFile' = NoFile
        /\ UNCHANGED <<act, launched, count, main, listener, failed, port, crashes, disk>>
        /\ \/ act[s] = "stop" /\ spc' = [spc EXCEPT ![s] = "stopped"] /\ last' = "stopped"
           \/ act[s] = "timeout" /\ spc' = [spc EXCEPT ![s] = "timeout"] /\ last' = "timeout"
           \/ act[s] = "restart" /\ spc' = [spc EXCEPT ![s] = "bin"] /\ last' = last
           \/ act[s] = "install" /\ spc' = [spc EXCEPT ![s] = "cron"] /\ last' = last
           \/ act[s] = "uninstall" /\ spc' = [spc EXCEPT ![s] = "rmHome"] /\ last' = last
    BY DEF RemovePid, AfterStop, Done, Step
  <1>2. fd' \in [Agents -> [Threads -> {"none", "file", "unlinked"}]]
    BY <1>0 DEF RemovePid, TypeOK
  <1>3. Stops(s)
    BY <1>0, <1>1 DEF Stops, Moves, TypeOK, ScriptPCs, Results, Alive
  <1>4. TypeOK'
    BY <1>0, <1>1, <1>2, Texts DEF TypeOK, ScriptPCs, Results
  <1>5. Places'
    BY <1>0, <1>3, <1>1 DEF Stops, Moves, Places, Place, Starters
  <1>6. AgentInv'
    BY <1>0, <1>1 DEF AgentInv, Threaded, Alive
  <1>. QED  BY <1>3, <1>4, <1>5, <1>6 DEF IInv
-----------------------------------------------------------------------------
(* Types, places and agents, always.                                       *)

\* A step of the program is one of those above.
LEMMA StepCases ==
  ASSUME IInv, Next
  PROVE  /\ IInv'
         /\ \/ \E s \in Scripts : Begins(s) \/ Launches(s) \/ Polls(s) \/ Stops(s)
            \/ \E s \in Scripts : Plain(s) /\ Passes(s)
            \/ \E a \in Agents : Lives(a)
  <1>1. ASSUME NEW s \in Scripts, Begin(s) \/ \E a \in Agents : UninstallRequest(a, s)
        PROVE  IInv' /\ Begins(s)
    BY <1>1, BeginStep
  <1>2. ASSUME NEW s \in Scripts, Script(s)
        PROVE  IInv' /\ (Launches(s) \/ Polls(s) \/ Stops(s) \/ (Plain(s) /\ Passes(s)))
    BY <1>2, PlainStep, LaunchStep, PollStep, TerminateStep, KillStep, RemovePidStep
       DEF Script, Plain
  <1>3. ASSUME NEW a \in Agents, Agent(a) \/ Crash(a)
        PROVE  IInv' /\ Lives(a)
    <2>1. TypeOK' /\ AgentInv' /\ Lives(a)
      BY <1>3, AgentStep DEF IInv
    <2>. QED  BY <2>1 DEF Lives, scriptVars, IInv, Places, Place
  <1>. QED  BY <1>1, <1>2, <1>3 DEF Next

\* The first states are in order.
LEMMA InitIInv ==
  ASSUME Init
  PROVE  IInv
  <1>1. spc \in [Scripts -> ScriptPCs] /\ last \in Results
    BY DEF Init, ScriptPCs, Results
  <1>2. act \in [Scripts -> Commands \cup {"none", "timeout"}]
    BY DEF Init
  <1>3. launched \in [Scripts -> Agents \cup {NoAgent}]
    BY DEF Init
  <1>4. count \in [Scripts -> 0 .. Tries] /\ crashes \in 0 .. MaxCrashes
    BY Bounds DEF Init
  <1>5. main \in [Agents -> AgentPCs] /\ listener \in [Agents -> AgentPCs]
    BY DEF Init, AgentPCs
  <1>6. fd \in [Agents -> [Threads -> {"none", "file", "unlinked"}]] /\ failed \in [Agents -> BOOLEAN]
    BY DEF Init
  <1>7. port \in {NoAgent, Foreign}
    BY ConstantsAssumption DEF Init, ConstantsAssumption
  <1>8. pidFile \in Seq(Chars) /\ disk \subseteq Unpacked \cup Installed
    BY Texts DEF Init
  <1>9. TypeOK
    BY <1>1, <1>2, <1>3, <1>4, <1>5, <1>6, <1>7, <1>8 DEF TypeOK
  <1>10. Places
    BY DEF Init, Places, Place
  <1>11. AgentInv
    BY <1>7, NullAgents DEF Init, AgentInv, Threaded
  <1>. QED  BY <1>9, <1>10, <1>11 DEF IInv

\* Types, places and agents are always in order.
LEMMA AlwaysIInv == Spec => []IInv
  <1>1. Init => IInv
    BY InitIInv
  <1>2. IInv /\ [Next]_vars => IInv'
    <2>1. ASSUME IInv, UNCHANGED vars PROVE IInv'
      BY <2>1 DEF vars, scriptVars, agentVars, IInv, TypeOK, Places, Place, AgentInv, Threaded, Alive
    <2>. QED  BY <2>1, StepCases
  <1>. QED  BY <1>1, <1>2, PTL DEF Spec

\* Every variable of the control script and the agent keeps its type, whatever
\* scripts overlap: no step takes a script or a thread to a place that is none,
\* no try is counted below zero.
THEOREM StartupTypes == Spec => []TypeOK
  <1>1. IInv => TypeOK
    BY DEF IInv
  <1>. QED  BY <1>1, AlwaysIInv, PTL
-----------------------------------------------------------------------------
(* One agent at a time, when only an uninstall overlaps with another script. *)

\* Whoever runs beside a script that is no uninstall is one.
LEMMA ExclusionStep ==
  ASSUME OnlyUninstallOverlaps, IInv, Exclusion, Next
  PROVE  Exclusion'
  <1> SUFFICES ASSUME NEW s \in Scripts, NEW q \in Scripts, Active(s)', Active(q)', s # q
               PROVE  act'[s] = "uninstall" \/ act'[q] = "uninstall"
    BY DEF Exclusion
  <1>1. ASSUME NEW r \in Scripts, Begins(r)
        PROVE  act'[s] = "uninstall" \/ act'[q] = "uninstall"
    <2>1. \A p \in Scripts : Active(p) => act'[r] = "uninstall" \/ act[p] = "uninstall"
      BY <1>1, CommandTypes DEF Begins, OnlyUninstallOverlaps
    <2>2. \A p \in Scripts \ {r} : act'[p] = act[p] /\ (Active(p)' => Active(p))
      BY <1>1 DEF Begins, Moves, Active
    <2>3. CASE s = r
      BY <2>1, <2>2, <2>3
    <2>4. CASE q = r
      BY <2>1, <2>2, <2>4
    <2>5. CASE s # r /\ q # r
      BY <2>2, <2>5 DEF Exclusion
    <2>. QED  BY <2>3, <2>4, <2>5
  <1>2. ASSUME NEW r \in Scripts, Launches(r) \/ Polls(r) \/ Stops(r) \/ Passes(r)
        PROVE  act'[s] = "uninstall" \/ act'[q] = "uninstall"
    <2>1. Active(r) /\ \A p \in Scripts \ {r} : act'[p] = act[p] /\ (Active(p)' => Active(p))
      BY <1>2 DEF Launches, Polls, Stops, Passes, Moves, Active, Results
    <2>2. act'[r] = act[r] \/ spc[r] = "poll"
      BY <1>2 DEF Launches, Polls, Stops, Passes
    <2>3. spc[r] = "poll" => act[r] # "uninstall"
      BY DEF IInv, Places, Place, Starters
    <2>. QED  BY <2>1, <2>2, <2>3 DEF Exclusion
  <1>3. ASSUME NEW a \in Agents, Lives(a)
        PROVE  act'[s] = "uninstall" \/ act'[q] = "uninstall"
    BY <1>3 DEF Lives, scriptVars, Exclusion, Active
  <1>. QED  BY <1>1, <1>2, <1>3, StepCases

\* The scripts that begin, pass a check or poll touch no agent.
LEMMA LifePlain ==
  ASSUME IInv, LifeInv, NEW s \in Scripts, Begins(s) \/ Passes(s) \/ Polls(s)
  PROVE  LifeInv'
  <1>1. UNCHANGED <<main, failed, pidFile>> /\ (Quiet' <=> Quiet) /\ (Dash' <=> Dash)
    BY DEF Begins, Passes, Polls, agentVars, Quiet, Alive, Dash
  <1>2. AtMostOneAgent'
    BY <1>1 DEF LifeInv, AtMostOneAgent, Alive
  <1>3. Ended'
    <2>1. \/ last' = last /\ Active(s)'
          \/ last' \notin {"stopped", "timeout"}
      BY DEF Begins, Passes, Polls, Active, Results
    <2>. QED  BY <2>1 DEF Ended
  <1>4. ASSUME NEW q \in Scripts, q # s PROVE Cleared(q)'
    <2>1. spc'[q] = spc[q] /\ act'[q] = act[q] /\ launched'[q] = launched[q]
      BY <1>4 DEF Begins, Passes, Polls, Moves
    <2>2. Cleared(q)
      BY DEF LifeInv
    <2>. QED  BY <1>1, <2>1, <2>2 DEF Cleared, Quiet, Dash, Alive
  <1>5. Cleared(s)'
    <2>1. Cleared(s) /\ Place(s)
      BY DEF LifeInv, IInv, Places
    <2>2. CASE Begins(s)
      BY <2>2 DEF Begins, Cleared, Renewers
    <2>3. CASE Passes(s)
      <3>1. act'[s] = act[s]
        BY <2>3 DEF Passes
      <3>2. CASE spc'[s] \in {"bin", "check", "deploy"}
        BY <1>1, <2>1, <2>3, <3>1, <3>2 DEF Passes, Cleared, Place, Renewers
      <3>3. CASE spc'[s] = "launch"
        BY <1>1, <2>1, <2>3, <3>1, <3>3 DEF Passes, Cleared
      <3>4. CASE spc'[s] \notin {"bin", "check", "deploy", "launch"}
        BY <2>3, <3>4 DEF Passes, Cleared
      <3>. QED  BY <3>2, <3>3, <3>4
    <2>4. CASE Polls(s)
      <3>1. launched'[s] = launched[s]
        BY <2>4 DEF Polls
      <3>2. pidFile = MinusOne => Dash
        BY Texts DEF Dash
      <3>. QED  BY <1>1, <2>1, <2>4, <3>1, <3>2 DEF Polls, Cleared, Alive
    <2>. QED  BY <2>2, <2>3, <2>4
  <1>. QED  BY <1>2, <1>3, <1>4, <1>5 DEF LifeInv

\* Who launches is alone, but for uninstalls.
LEMMA LifeLaunch ==
  ASSUME IInv, Exclusion, LifeInv, NEW s \in Scripts, Launches(s)
  PROVE  LifeInv'
  <1>0. Quiet /\ Cleared(s) /\ Place(s) /\ spc[s] = "launch" /\ spc'[s] = "poll"
    BY DEF LifeInv, Cleared, Launches, IInv, Places
  <1>1. \A a \in Agents : Alive(a)' => a = launched'[s]
    BY <1>0 DEF Launches, Quiet, Alive
  <1>2. AtMostOneAgent'
    BY <1>1 DEF AtMostOneAgent
  <1>3. Ended'
    BY <1>0 DEF Ended, Active, Results
  <1>4. ASSUME NEW q \in Scripts, q # s PROVE Cleared(q)'
    <2>1. spc'[q] = spc[q] /\ act'[q] = act[q] /\ launched'[q] = launched[q] /\ failed' = failed
      BY <1>4 DEF Launches, Moves
    <2>2. Active(q) => act[q] = "uninstall"
      BY <1>0, <1>4 DEF Exclusion, Place, Starters, Active, Results
    <2>3. Cleared(q) /\ Place(q)
      BY DEF LifeInv, IInv, Places
    <2>4. CASE Active(q)
      BY <2>1, <2>2, <2>3, <2>4 DEF Cleared, Place, Starters, Active, Results
    <2>5. CASE ~Active(q)
      BY <2>1, <2>3, <2>5 DEF Cleared, Active, Results
    <2>. QED  BY <2>4, <2>5
  <1>5. Cleared(s)'
    <2>1. act[s] \in Renewers => ~Dash'
      <3>1. act[s] \in Renewers => pidFile' = NoFile
        BY <1>0 DEF Launches, Cleared
      <3>. QED  BY <3>1, Texts DEF Dash
    <2>2. act'[s] = act[s]
      BY DEF Launches
    <2>. QED  BY <1>0, <1>1, <2>1, <2>2 DEF Cleared
  <1>. QED  BY <1>2, <1>3, <1>4, <1>5 DEF LifeInv

\* A stop only ends agents.
LEMMA LifeStop ==
  ASSUME IInv, LifeInv, NEW s \in Scripts, Stops(s)
  PROVE  LifeInv'
  <1>1. (Quiet => Quiet') /\ (Dash' => Dash) /\ failed' = failed
        /\ (pidFile = NoFile => pidFile' = NoFile)
    BY Texts DEF Stops, Quiet, Dash
  <1>2. AtMostOneAgent'
    BY DEF Stops, LifeInv, AtMostOneAgent
  <1>3. Ended'
    <2>1. Cleared(s)
      BY DEF LifeInv
    <2>2. \/ Active(s)'
          \/ Quiet /\ pidFile' = NoFile
      BY <2>1 DEF Stops, Active, Results, Cleared
    <2>. QED  BY <1>1, <2>2 DEF Ended
  <1>4. ASSUME NEW q \in Scripts, q # s PROVE Cleared(q)'
    <2>1. spc'[q] = spc[q] /\ act'[q] = act[q] /\ launched'[q] = launched[q]
      BY <1>4 DEF Stops, Moves
    <2>2. Cleared(q) /\ \A a \in Agents : Alive(a)' => Alive(a)
      BY DEF LifeInv, Stops
    <2>. QED  BY <1>1, <2>1, <2>2 DEF Cleared
  <1>5. Cleared(s)'
    <2>1. Cleared(s) /\ act'[s] = act[s]
      BY DEF LifeInv, Stops
    <2>. QED  BY <1>1, <2>1 DEF Stops, Cleared, Renewers
  <1>. QED  BY <1>2, <1>3, <1>4, <1>5 DEF LifeInv

\* An agent that lives is the one some script waits for, if one waits.
LEMMA LifeAgent ==
  ASSUME IInv, LifeInv, NEW a \in Agents, Lives(a)
  PROVE  LifeInv'
  <1>1. /\ Alive(a) /\ ~Quiet
        /\ spc' = spc /\ act' = act /\ launched' = launched /\ last' = last
        /\ \A b \in Agents : Alive(b)' => Alive(b)
        /\ \A b \in Agents : failed[b] = TRUE => failed'[b] = TRUE
        /\ Dash' => Dash \/ failed[a] = TRUE
    BY DEF Lives, scriptVars, Quiet
  <1>2. AtMostOneAgent'
    BY <1>1 DEF LifeInv, AtMostOneAgent
  <1>3. Ended'
    BY <1>1 DEF LifeInv, Ended, Active
  <1>4. ASSUME NEW q \in Scripts PROVE Cleared(q)'
    <2>1. Cleared(q)
      BY DEF LifeInv
    <2>2. /\ spc[q] # "launch"
          /\ ~(spc[q] = "remove" /\ act[q] # "uninstall")
          /\ ~(spc[q] \in {"cron", "deploy", "bin", "check", "launch"} /\ act[q] \in Renewers)
      BY <1>1, <2>1 DEF Cleared
    <2>3. spc[q] = "poll" => launched[q] = a
      BY <1>1, <2>1 DEF Cleared
    <2>4. spc[q] = "poll" /\ act[q] \in Renewers /\ Dash'
             => launched[q] \in Agents /\ failed'[launched[q]] = TRUE
      BY <1>1, <2>1, <2>3 DEF Cleared
    <2>5. spc[q] = "failed" /\ act[q] \in Renewers
             => launched[q] \in Agents /\ failed'[launched[q]] = TRUE
      BY <1>1, <2>1 DEF Cleared
    <2>. QED  BY <1>1, <2>1, <2>2, <2>4, <2>5 DEF Cleared
  <1>. QED  BY <1>2, <1>3, <1>4 DEF LifeInv

\* The three invariants together.
LEMMA AlwaysLife ==
  ASSUME OnlyUninstallOverlaps
  PROVE  Spec => [](IInv /\ Exclusion /\ LifeInv)
  <1>1. Init => Exclusion /\ LifeInv
    <2> SUFFICES ASSUME Init PROVE Exclusion /\ LifeInv
      OBVIOUS
    <2>1. Exclusion
      BY DEF Init, Exclusion, Active, Results
    <2>2. AtMostOneAgent /\ Ended
      BY DEF Init, AtMostOneAgent, Ended, Alive
    <2>3. \A s \in Scripts : Cleared(s)
      BY DEF Init, Cleared
    <2>. QED  BY <2>1, <2>2, <2>3 DEF LifeInv
  <1>2. IInv /\ Exclusion /\ LifeInv /\ [Next]_vars => (Exclusion /\ LifeInv)'
    <2>1. ASSUME IInv, Exclusion, LifeInv, Next PROVE Exclusion' /\ LifeInv'
      BY <2>1, StepCases, ExclusionStep, LifePlain, LifeLaunch, LifeStop, LifeAgent
    <2>2. ASSUME Exclusion, LifeInv, UNCHANGED vars PROVE Exclusion' /\ LifeInv'
      BY <2>2 DEF vars, scriptVars, agentVars, Exclusion, LifeInv, AtMostOneAgent, Ended, Cleared,
                  Active, Quiet, Dash, Alive
    <2>. QED  BY <2>1, <2>2
  <1>. QED  BY <1>1, <1>2, AlwaysIInv, PTL DEF Spec

\* "skip if it is already started" (chaosctl.sh:168): there is never a second agent
\* beside one that is alive, when of two scripts that overlap one is an uninstall.
THEOREM OneAgent ==
  ASSUME OnlyUninstallOverlaps
  PROVE  Spec => []AtMostOneAgent
  <1>1. LifeInv => AtMostOneAgent
    BY DEF LifeInv
  <1>. QED  BY <1>1, AlwaysLife, PTL

\* A stop that has printed its result leaves no agent, no socket of one and no pid
\* file behind, though the pid file is removed while the agents may hold it open.
THEOREM StopIsClean ==
  ASSUME OnlyUninstallOverlaps
  PROVE  Spec => []StopLeavesNothing
  <1>1. IInv /\ LifeInv => StopLeavesNothing
    BY DEF IInv, AgentInv, Threaded, LifeInv, Ended, Quiet, StopLeavesNothing
  <1>. QED  BY <1>1, AlwaysLife, PTL

\* A start that gives up takes the agent it waited for down: none comes up later.
THEOREM TimeoutIsClean ==
  ASSUME OnlyUninstallOverlaps
  PROVE  Spec => []TimeoutLeavesNothing
  <1>1. LifeInv => TimeoutLeavesNothing
    BY DEF LifeInv, Ended, Quiet, TimeoutLeavesNothing
  <1>. QED  BY <1>1, AlwaysLife, PTL

\* A restart or an install that prints "start failed" read the -1 of its own agent,
\* and of none that was stopped before, though the file is never truncated.
THEOREM RestartFailureIsOwn ==
  ASSUME OnlyUninstallOverlaps
  PROVE  Spec => []RestartFailureIsTrue
  <1>1. LifeInv => RestartFailureIsTrue
    BY DEF LifeInv, Cleared, Renewers, RestartFailureIsTrue
  <1>. QED  BY <1>1, AlwaysLife, PTL
-----------------------------------------------------------------------------
(* Uninstall is final, when no install runs beside it.                     *)

\* An install and an uninstall do not run at the same time.
LEMMA ApartStep ==
  ASSUME InstallWaits, IInv, Apart, Next
  PROVE  Apart'
  <1> SUFFICES ASSUME NEW s \in Scripts, NEW q \in Scripts, Active(s)', Active(q)',
                      act'[s] = "uninstall", act'[q] = "install"
               PROVE  FALSE
    BY DEF Apart
  <1>1. ASSUME NEW r \in Scripts, Begins(r) PROVE FALSE
    <2>1. \A p \in Scripts \ {r} : act'[p] = act[p] /\ (Active(p)' => Active(p))
      BY <1>1 DEF Begins, Moves, Active
    <2>2. \A p \in Scripts : Active(p) => <<act'[r], act[p]>> \in Overlaps
      BY <1>1 DEF Begins
    <2>3. CASE s = r
      BY <2>1, <2>2, <2>3 DEF InstallWaits
    <2>4. CASE q = r
      BY <2>1, <2>2, <2>4 DEF InstallWaits
    <2>5. CASE s # r /\ q # r
      BY <2>1, <2>5 DEF Apart
    <2>. QED  BY <2>3, <2>4, <2>5
  <1>2. ASSUME NEW r \in Scripts, Launches(r) \/ Polls(r) \/ Stops(r) \/ Passes(r) PROVE FALSE
    <2>1. Active(r) /\ \A p \in Scripts \ {r} : act'[p] = act[p] /\ (Active(p)' => Active(p))
      BY <1>2 DEF Launches, Polls, Stops, Passes, Moves, Active, Results
    <2>2. act'[r] = act[r] \/ act'[r] = "timeout"
      BY <1>2 DEF Launches, Polls, Stops, Passes
    <2>. QED  BY <2>1, <2>2 DEF Apart
  <1>3. ASSUME NEW a \in Agents, Lives(a) PROVE FALSE
    BY <1>3 DEF Lives, scriptVars, Apart, Active
  <1>. QED  BY <1>1, <1>2, <1>3, StepCases

\* What the steps of a script do to the files.
LEMMA PlainFiles ==
  ASSUME IInv, NEW s \in Scripts, Plain(s)
  PROVE  /\ disk' \cap {"home", "flag", "package"} \subseteq disk
         /\ "cron" \in disk' => "cron" \in disk \/ act[s] = "install"
         /\ disk = {} => disk' = {} \/ act[s] = "install"
         /\ spc'[s] = "rmCron" => spc[s] = "rmHome" /\ disk' \cap {"home", "flag", "package"} = {}
         /\ spc'[s] = "rmBlade" => spc[s] = "rmCron" /\ "cron" \notin disk'
         /\ spc'[s] = "verify" => spc[s] = "rmBlade" /\ disk' = disk \ {"blade"}
         /\ spc'[s] = "uninstalled" => spc[s] = "verify" /\ Quiet /\ disk' = disk
  <1>0. spc \in [Scripts -> ScriptPCs] /\ Place(s)
    BY DEF IInv, TypeOK, Places
  <1>1. CASE Uninstall(s)
    <2>1. \/ spc[s] = "rmHome" /\ spc'[s] = "rmCron" /\ disk' = disk \ {"home", "flag", "package"}
          \/ spc[s] = "rmCron" /\ spc'[s] = "rmBlade" /\ disk' = disk \ {"cron"}
          \/ spc[s] = "rmBlade" /\ spc'[s] = "verify" /\ disk' = disk \ {"blade"}
      BY <1>0, <1>1, UninstallFacts
    <2>. QED  BY <2>1
  <1>2. CASE DeployChaosblade(s)
    <2>1. spc'[s] \in {"refused", "bin"}
      BY <1>0, <1>2 DEF DeployChaosblade, Refuses, Done, Step
    <2>2. disk' = disk \/ (disk # {} /\ disk' = (disk \ {"package"}) \cup {"blade"})
      BY <1>2 DEF DeployChaosblade
    <2>. QED  BY <2>1, <2>2
  <1>3. CASE AddCrontab(s)
    <2>1. spc'[s] \in {"refused", "deploy"} /\ act[s] = "install"
      BY <1>0, <1>3 DEF AddCrontab, Refuses, Done, Step, Place
    <2>2. disk' = disk \/ disk' = disk \cup {"cron"}
      BY <1>3 DEF AddCrontab
    <2>. QED  BY <2>1, <2>2
  <1>4. CASE UninstallCheck(s)
    BY <1>0, <1>4 DEF UninstallCheck, Done, Step, Quiet
  <1>5. CASE Recover(s) \/ CheckStatus(s) \/ CheckChaosBin(s) \/ CheckProcess(s)
    BY <1>0, <1>5 DEF Recover, CheckStatus, CheckChaosBin, CheckProcess, Refuses, Done, Step
  <1>. QED  BY <1>1, <1>2, <1>3, <1>4, <1>5 DEF Plain

\* What is removed stays removed, whoever steps.
LEMMA RemovedOther ==
  ASSUME IInv, NEW s \in Scripts, Removed(s), spc'[s] = spc[s], Next
  PROVE  Removed(s)'
  <1>0. CASE spc[s] \notin {"rmCron", "rmBlade", "verify", "uninstalled"}
    BY <1>0 DEF Removed
  <1>1. CASE spc[s] \in {"rmCron", "rmBlade", "verify", "uninstalled"}
    <2>0. /\ disk \cap {"home", "flag", "package"} = {} /\ "home" \notin disk
          /\ \A q \in Scripts : Active(q) => act[q] # "install"
      BY <1>1 DEF Removed
    <2>1. ASSUME NEW r \in Scripts, Begins(r) PROVE FALSE
      BY <2>0, <2>1 DEF Begins
    <2>2. ASSUME NEW r \in Scripts, Launches(r) \/ Polls(r) \/ Stops(r)
          PROVE  Removed(s)'
      <3>1. /\ disk' = disk
            /\ \A a \in Agents : Alive(a)' => Alive(a)
        BY <2>0, <2>2 DEF Launches, Polls, Stops, agentVars, Alive
      <3>2. Active(r) /\ \A p \in Scripts \ {r} : act'[p] = act[p] /\ (Active(p)' => Active(p))
        BY <2>2 DEF Launches, Polls, Stops, Moves, Active, Results
      <3>3. act'[r] = act[r] \/ act'[r] = "timeout"
        BY <2>2 DEF Launches, Polls, Stops
      <3>4. \A q \in Scripts : Active(q)' => act'[q] # "install"
        BY <2>0, <3>2, <3>3
      <3>. QED  BY <3>1, <3>4 DEF Removed, Quiet
    <2>3. ASSUME NEW r \in Scripts, Plain(r), Passes(r)
          PROVE  Removed(s)'
      <3>1. act' = act /\ main' = main /\ \A q \in Scripts : Active(q)' => Active(q)
        BY <2>3 DEF Passes, Moves, Active, agentVars
      <3>2. act[r] # "install"
        BY <2>0, <2>3 DEF Passes
      <3>3. /\ disk' \cap {"home", "flag", "package"} \subseteq disk
            /\ "cron" \in disk' => "cron" \in disk
            /\ disk = {} => disk' = {}
        BY <2>3, <3>2, PlainFiles
      <3>. QED  BY <2>0, <3>1, <3>3 DEF Removed, Quiet, Alive
    <2>4. ASSUME NEW a \in Agents, Lives(a)
          PROVE  Removed(s)'
      BY <2>4 DEF Lives, scriptVars, Removed, Quiet, Active
    <2>. QED  BY <2>1, <2>2, <2>3, <2>4, StepCases
  <1>. QED  BY <1>0, <1>1

\* The steps of an uninstall itself.
LEMMA RemovedOwn ==
  ASSUME IInv, Apart, NEW s \in Scripts, Removed(s), spc'[s] # spc[s], Next
  PROVE  Removed(s)'
  <1>1. CASE spc'[s] \notin {"rmCron", "rmBlade", "verify", "uninstalled"}
    BY <1>1 DEF Removed
  <1>2. CASE spc'[s] \in {"rmCron", "rmBlade", "verify", "uninstalled"}
    <2>1. Plain(s) /\ Passes(s)
      <3>1. ~Begins(s) /\ ~Launches(s) /\ ~Polls(s) /\ ~Stops(s)
        BY <1>2 DEF Begins, Launches, Polls, Stops
      <3>2. \A r \in Scripts \ {s} : ~Moves(r)
        BY DEF Moves
      <3>3. \A a \in Agents : ~Lives(a)
        BY DEF Lives, scriptVars
      <3>4. \A r \in Scripts :
               Begins(r) \/ Launches(r) \/ Polls(r) \/ Stops(r) \/ Passes(r) => Moves(r)
        BY DEF Begins, Launches, Polls, Stops, Passes
      <3>. QED  BY <3>1, <3>2, <3>3, <3>4, StepCases
    <2>2. act' = act /\ main' = main /\ Active(s) /\ \A q \in Scripts : Active(q)' => Active(q)
      BY <2>1 DEF Passes, Moves, Active, agentVars
    <2>3. spc[s] \in {"rmHome", "rmCron", "rmBlade", "verify"}
      BY <1>2, <2>1, PlainFiles
    <2>4. act[s] = "uninstall"
      BY <2>3 DEF IInv, Places, Place
    <2>5. \A q \in Scripts : Active(q)' => act'[q] # "install"
      BY <2>2, <2>4 DEF Apart
    <2>6. CASE spc'[s] = "rmCron"
      BY <2>1, <2>5, <2>6, PlainFiles DEF Removed
    <2>7. CASE spc'[s] = "rmBlade"
      BY <2>1, <2>5, <2>7, PlainFiles DEF Removed
    <2>8. CASE spc'[s] = "verify"
      <3>1. disk' = disk \ {"blade"} /\ spc[s] = "rmBlade" /\ disk \subseteq Unpacked \cup Installed
        BY <2>1, <2>8, PlainFiles DEF IInv, TypeOK
      <3>2. disk' = {}
        BY <3>1 DEF Removed, Unpacked, Installed
      <3>. QED  BY <2>5, <2>8, <3>2 DEF Removed
    <2>9. CASE spc'[s] = "uninstalled"
      <3>1. disk' = disk /\ spc[s] = "verify" /\ Quiet
        BY <2>1, <2>9, PlainFiles
      <3>2. Quiet'
        BY <2>2, <3>1 DEF Quiet, Alive
      <3>3. disk' = {}
        BY <3>1 DEF Removed
      <3>. QED  BY <2>5, <2>9, <3>2, <3>3 DEF Removed
    <2>. QED  BY <1>2, <2>6, <2>7, <2>8, <2>9
  <1>. QED  BY <1>1, <1>2

\* "uninstall successfully" (chaosctl.sh:315) is final: no agent is left and none can
\* come, and no file, cron entry or blade is left or comes back, when no install runs
\* beside an uninstall.  Starts, restarts and recoveries may.
THEOREM UninstallStays ==
  ASSUME InstallWaits
  PROVE  Spec => []UninstallIsFinal
  <1>1. Init => RemovedInv
    BY DEF Init, RemovedInv, Apart, Removed, Active, Results
  <1>2. IInv /\ RemovedInv /\ [Next]_vars => RemovedInv'
    <2>1. ASSUME IInv, RemovedInv, Next PROVE RemovedInv'
      <3>1. Apart'
        BY <2>1, ApartStep DEF RemovedInv
      <3>2. ASSUME NEW s \in Scripts PROVE Removed(s)'
        BY <2>1, RemovedOther, RemovedOwn DEF RemovedInv
      <3>. QED  BY <3>1, <3>2 DEF RemovedInv
    <2>2. ASSUME RemovedInv, UNCHANGED vars PROVE RemovedInv'
      BY <2>2 DEF vars, scriptVars, agentVars, RemovedInv, Apart, Removed, Active, Quiet, Alive
    <2>. QED  BY <2>1, <2>2
  <1>3. RemovedInv => UninstallIsFinal
    BY DEF RemovedInv, Removed, Quiet, UninstallIsFinal
  <1>. QED  BY <1>1, <1>2, <1>3, AlwaysIInv, PTL DEF Spec
=============================================================================
