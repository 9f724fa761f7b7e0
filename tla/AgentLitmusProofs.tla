------------------------- MODULE AgentLitmusProofs -------------------------
(* EngineHasRights and TypeOK, for any number of requests that overlap,    *)
(* calls that fail and crashes: RightsInv (in AgentHandlersProofs) for the *)
(* steps that make, alter or report an engine, the charts that are named,  *)
(* and that a report never runs out of attempts before it is sent.         *)
EXTENDS AgentCacheProofs

-----------------------------------------------------------------------------
(* The rights of the engines: what makes, alters and reports them.         *)

\* An engine keeps its experiment, or is new and has one with all its rights.
LEMMA EnginesRightsInv ==
    ASSUME RightsInv, WebInv', UNCHANGED objects,
           \A x : RoleCared(x) => RoleCared(x)',
           \A t \in Requests : pc'[t] \in WithAccount => pc'[t] = pc[t] /\ req'[t].exp = req[t].exp,
           engine' = [n \in Engines |-> engine'[n]], reporter' = [n \in Engines |-> reporter'[n]],
           \A n \in Engines : /\ Engine(engine'[n]) /\ Report(reporter'[n])
                              /\ reporter'[n].at # "off" => engine'[n] # NoEngine,
           \A n \in Engines : engine'[n] # NoEngine =>
              \/ engine[n] # NoEngine /\ engine'[n].exp = engine[n].exp
              \/ \E t \in Requests : pc[t] = "engine" /\ engine'[n].exp = req[t].exp
    PROVE  RightsInv'
<1> USE DEF RoleCared, HasRole, Exp
<1>1. ASSUME NEW n \in Engines, engine'[n] # NoEngine
      PROVE  <<"account", engine'[n].exp>> \in objects /\ <<"binding", engine'[n].exp>> \in objects
  <2>1. CASE engine[n] # NoEngine /\ engine'[n].exp = engine[n].exp
    BY <2>1 DEF RightsInv
  <2>2. ASSUME NEW t \in Requests, pc[t] = "engine", engine'[n].exp = req[t].exp
        PROVE  <<"account", engine'[n].exp>> \in objects /\ <<"binding", engine'[n].exp>> \in objects
    BY <2>2 DEF RightsInv, WithAccount
  <2> QED
    BY <1>1, <2>1, <2>2
<1>2. ASSUME NEW n \in Engines, engine'[n] # NoEngine PROVE RoleCared(engine[n].exp)'
  <2>1. CASE engine[n] # NoEngine /\ engine'[n].exp = engine[n].exp
    <3>1. RoleCared(engine[n].exp)
      BY <2>1 DEF RightsInv
    <3> QED
      BY <2>1, <3>1
  <2>2. ASSUME NEW t \in Requests, pc[t] = "engine", engine'[n].exp = req[t].exp
        PROVE  RoleCared(engine[n].exp)'
    <3>1. RoleCared(req[t].exp)
      BY <2>2 DEF RightsInv
    <3> QED
      BY <2>2, <3>1
  <2> QED
    BY <1>2, <2>1, <2>2
<1>3. ASSUME NEW t \in Requests, pc'[t] \in {"binding", "engine"} PROVE RoleCared(Exp(t))'
  <2>1. RoleCared(req[t].exp) /\ req'[t].exp = req[t].exp
    BY <1>3 DEF RightsInv, WithAccount
  <2> QED
    BY <2>1
<1>4. \A t \in Requests : pc'[t] \in WithAccount => <<"account", req'[t].exp>> \in objects
  BY DEF RightsInv
<1>5. ASSUME NEW t \in Requests, pc'[t] = "engine" PROVE <<"binding", req'[t].exp>> \in objects
  <2>1. pc[t] = "engine" /\ req'[t].exp = req[t].exp
    BY <1>5 DEF WithAccount
  <2> QED
    BY <2>1 DEF RightsInv
<1> QED
  BY <1>1, <1>2, <1>3, <1>4, <1>5 DEF RightsInv, Engine, Report

\* A goroutine that ends elsewhere than in createRole leaves the roles cared for.
LEMMA EndedRoles ==
    ASSUME RightsInv, NEW t \in Requests, Answered(t), pc[t] # "createRole",
           UNCHANGED <<objects, torn>>
    PROVE  /\ \A x : RoleCared(x) => RoleCared(x)'
           /\ \A u \in Requests : pc'[u] \in WithAccount => pc'[u] = pc[u] /\ req'[u].exp = req[u].exp
<1> USE DEF RoleCared, HasRole, Exp
<1>1. WebInv /\ Moved(t) /\ pc'[t] = "idle"
  BY GoToMoves DEF RightsInv, Answered
<1>2. \A x : RoleCared(x) => RoleCared(x)'
  BY <1>1, RoleStaysCared
<1>3. \A u \in Requests : pc'[u] \in WithAccount => pc'[u] = pc[u] /\ req'[u].exp = req[u].exp
  BY <1>1, MovedExp DEF WithAccount
<1> QED
  BY <1>2, <1>3

\* A report whose place changes.
LEMMA ChangedReport ==
    ASSUME RightsInv, NEW n, NEW value, reporter' = [reporter EXCEPT ![n].at = value]
    PROVE  /\ reporter' = [m \in Engines |-> reporter'[m]]
           /\ \A m \in Engines : Report(reporter'[m]) /\ (m # n => reporter'[m] = reporter[m])
<1> DEFINE Ats == {reporter[m].at : m \in Engines} \cup {value}
           Lefts == {reporter[m].left : m \in Engines}
<1>1. ASSUME NEW m \in Engines PROVE reporter[m] \in [at : Ats, left : Lefts]
  <2>1. reporter[m].at \in Ats /\ reporter[m].left \in Lefts
    OBVIOUS
  <2> HIDE DEF Ats, Lefts
  <2>2. ASSUME NEW x \in Ats, NEW y \in Lefts
        PROVE  [at |-> x, left |-> y] \in [at : Ats, left : Lefts]
    OBVIOUS
  <2> QED
    BY <2>1, <2>2, Zenon DEF RightsInv
<1>2. value \in Ats
  OBVIOUS
<1> HIDE DEF Ats, Lefts
<1>3. reporter \in [Engines -> [at : Ats, left : Lefts]]
  BY <1>1 DEF RightsInv
<1>4. reporter' \in [Engines -> [at : Ats, left : Lefts]]
  BY <1>2, <1>3
<1>5. \A m \in Engines : m # n => reporter'[m] = reporter[m]
  BY <1>3
<1> QED
  BY <1>4, <1>5 DEF Report

\* createEnginer makes an engine of an experiment that has its rights.
LEMMA CreateEngineRightsInv ==
    ASSUME RightsInv, WebInv', NEW t \in Requests, createEnginer(t)
    PROVE  RightsInv'
<1> USE DEF RoleCared, HasRole, Exp
<1> DEFINE n == CHOOSE n \in Unused : TRUE
           new == [exp |-> Exp(t), state |-> "created", result |-> "none"]
<1>1. /\ pc[t] = "engine" /\ Answered(t) /\ UNCHANGED <<objects, torn>>
      /\ engine' \in {engine, [engine EXCEPT ![n] = new]}
      /\ \/ UNCHANGED reporter
         \/ engine' = [engine EXCEPT ![n] = new] /\ reporter' = [reporter EXCEPT ![n] = Started]
  BY DEF createEnginer
<1> HIDE DEF n
<1>2. new # NoEngine /\ Engine(new) /\ new.exp = req[t].exp
  BY DEF NoEngine, Engine
<1> HIDE DEF new
<1>3. /\ engine' = [m \in Engines |-> engine'[m]]
      /\ \A m \in Engines : engine'[m] \in {engine[m], new}
      /\ engine' # engine => \A m \in Engines : m # n => engine'[m] = engine[m]
  BY <1>1 DEF RightsInv
<1>4. \A m \in Engines : Engine(engine'[m])
  BY <1>2, <1>3 DEF RightsInv, Engine
<1>5. reporter' = [m \in Engines |-> reporter'[m]] /\ \A m \in Engines : Report(reporter'[m])
  <2>1. CASE UNCHANGED reporter
    BY <2>1 DEF RightsInv, Report
  <2>2. CASE reporter' = [reporter EXCEPT ![n] = Started]
    BY <2>2 DEF RightsInv, Report, Started
  <2> QED
    BY <1>1, <2>1, <2>2
<1>6. ASSUME NEW m \in Engines, reporter'[m].at # "off" PROVE engine'[m] # NoEngine
  <2>1. CASE reporter'[m] = reporter[m]
    BY <1>2, <1>3, <1>6, <2>1 DEF RightsInv
  <2>2. CASE reporter'[m] # reporter[m]
    BY <1>1, <1>2, <2>2 DEF RightsInv
  <2> QED
    BY <2>1, <2>2
<1>7. \A m \in Engines : engine'[m] # NoEngine =>
          \/ engine[m] # NoEngine /\ engine'[m].exp = engine[m].exp
          \/ \E u \in Requests : pc[u] = "engine" /\ engine'[m].exp = req[u].exp
  BY <1>1, <1>2, <1>3
<1>8. /\ \A x : RoleCared(x) => RoleCared(x)'
      /\ \A u \in Requests : pc'[u] \in WithAccount => pc'[u] = pc[u] /\ req'[u].exp = req[u].exp
  BY <1>1, EndedRoles
<1> QED
  BY <1>1, <1>3, <1>4, <1>5, <1>6, <1>7, <1>8, EnginesRightsInv

\* An engine whose state or result changes stays an engine of its experiment.
LEMMA ChangedEngine ==
    ASSUME RightsInv, NEW n \in Engines, engine[n] # NoEngine, NEW value, value # "none",
           \/ engine' = [engine EXCEPT ![n].state = value]
           \/ engine' = [engine EXCEPT ![n].result = value]
    PROVE  /\ engine' = [m \in Engines |-> engine'[m]]
           /\ \A m \in Engines : /\ Engine(engine'[m]) /\ engine'[m].exp = engine[m].exp
                                 /\ engine'[m] = NoEngine <=> engine[m] = NoEngine
<1> DEFINE Exps == {engine[m].exp : m \in Engines}
           States == {engine[m].state : m \in Engines} \cup {value}
           Results == {engine[m].result : m \in Engines} \cup {value}
<1>2. \A m \in Engines : Engine(engine[m])
  BY DEF RightsInv, Engine
<1>a. engine \in [Engines -> [exp : Exps, state : States, result : Results]]
  <2>1. ASSUME NEW m \in Engines
        PROVE  engine[m] \in [exp : Exps, state : States, result : Results]
    <3>1. engine[m].exp \in Exps /\ engine[m].state \in States /\ engine[m].result \in Results
      OBVIOUS
    <3> HIDE DEF Exps, States, Results
    <3>2. ASSUME NEW x \in Exps, NEW y \in States, NEW z \in Results
          PROVE  [exp |-> x, state |-> y, result |-> z] \in [exp : Exps, state : States, result : Results]
      OBVIOUS
    <3>3. engine[m] = [exp |-> engine[m].exp, state |-> engine[m].state, result |-> engine[m].result]
      BY DEF RightsInv
    <3>4. [exp |-> engine[m].exp, state |-> engine[m].state, result |-> engine[m].result]
            \in [exp : Exps, state : States, result : Results]
      BY <3>1, <3>2, Zenon
    <3> QED
      BY <3>3, <3>4, Zenon
  <2> HIDE DEF Exps, States, Results
  <2> QED
    BY <2>1 DEF RightsInv
<1>b. value \in States /\ value \in Results
  OBVIOUS
<1> HIDE DEF Exps, States, Results
<1>1. engine' = [m \in Engines |-> engine'[m]] /\ \A m \in Engines : m # n => engine'[m] = engine[m]
  BY <1>a
<1>3. \/ engine'[n] = [exp |-> engine[n].exp, state |-> value, result |-> engine[n].result]
      \/ engine'[n] = [exp |-> engine[n].exp, state |-> engine[n].state, result |-> value]
  BY <1>a, <1>b
<1>4. Engine(engine'[n]) /\ engine'[n].exp = engine[n].exp /\ engine'[n] # NoEngine
  BY <1>3 DEF NoEngine, Engine
<1> QED
  BY <1>1, <1>2, <1>4 DEF Engine

\* destroy reaches engines that are there only: the server knows their names from a report.
LEMMA DestroyRightsInv ==
    ASSUME RightsInv, WebInv', NEW t \in Requests, destroy(t)
    PROVE  RightsInv'
<1> USE DEF RoleCared, HasRole, Exp
<1>1. pc[t] = "litmuschaos" /\ Answered(t) /\ UNCHANGED <<objects, torn, reporter>>
  BY DEF destroy
<1>2. /\ \A x : RoleCared(x) => RoleCared(x)'
      /\ \A u \in Requests : pc'[u] \in WithAccount => pc'[u] = pc[u] /\ req'[u].exp = req[u].exp
  BY <1>1, EndedRoles
<1>3. /\ engine' = [m \in Engines |-> engine'[m]]
      /\ \A m \in Engines : /\ Engine(engine'[m]) /\ engine'[m].exp = engine[m].exp
                            /\ engine'[m] = NoEngine <=> engine[m] = NoEngine
  <2>1. CASE UNCHANGED engine
    BY <2>1 DEF RightsInv, Engine
  <2>2. ASSUME NEW n \in Known, engine' = [engine EXCEPT ![n].state = "deleted"]
        PROVE  /\ engine' = [m \in Engines |-> engine'[m]]
               /\ \A m \in Engines : /\ Engine(engine'[m]) /\ engine'[m].exp = engine[m].exp
                                     /\ engine'[m] = NoEngine <=> engine[m] = NoEngine
    BY <2>2, ChangedEngine DEF Known, RightsInv
  <2> QED
    BY <2>1, <2>2 DEF destroy
<1>4. /\ reporter' = [n \in Engines |-> reporter'[n]]
      /\ \A n \in Engines : Report(reporter'[n]) /\ (reporter'[n].at # "off" => engine'[n] # NoEngine)
  BY <1>1, <1>3 DEF RightsInv, Report
<1> QED
  BY <1>1, <1>2, <1>3, <1>4, EnginesRightsInv

\* The operator and the reports.
LEMMA BackgroundRightsInv ==
    ASSUME RightsInv, WebInv', NEW n \in Engines, Background(n)
    PROVE  RightsInv'
<1> USE DEF RoleCared, HasRole, Exp
<1>1. UNCHANGED <<pc, req, objects, torn>>
  BY DEF Background, Reporter, handlerResult, ReportStatus, OperatorRuns, webVars, clusterVars
<1>2. CASE OperatorRuns(n)
  <2>1. engine[n] # NoEngine /\ UNCHANGED reporter
    BY <1>2 DEF OperatorRuns, NoEngine
  <2>2. /\ engine' = [m \in Engines |-> engine'[m]]
        /\ \A m \in Engines : /\ Engine(engine'[m]) /\ engine'[m].exp = engine[m].exp
                              /\ engine'[m] = NoEngine <=> engine[m] = NoEngine
    BY <1>2, <2>1, ChangedEngine DEF OperatorRuns
  <2>3. /\ reporter' = [m \in Engines |-> reporter'[m]]
        /\ \A m \in Engines : Report(reporter'[m]) /\ (reporter'[m].at # "off" => engine'[m] # NoEngine)
    BY <2>1, <2>2 DEF RightsInv, Report
  <2> QED
    BY <1>1, <2>2, <2>3, EnginesRightsInv
<1>3. CASE Reporter(n)
  <2>1. UNCHANGED engine /\ reporter[n].at # "off"
    BY <1>3 DEF Reporter, handlerResult, ReportStatus, clusterVars
  <2>2. \/ \E value : reporter' = [reporter EXCEPT ![n].at = value]
        \/ \E x, y : reporter' = [reporter EXCEPT ![n] = [at |-> x, left |-> y]]
    BY <1>3, Zenon DEF Reporter, handlerResult, ReportStatus
  <2>3. /\ reporter' = [m \in Engines |-> reporter'[m]]
        /\ \A m \in Engines : Report(reporter'[m]) /\ (m # n => reporter'[m] = reporter[m])
    <3>1. ASSUME NEW value, reporter' = [reporter EXCEPT ![n].at = value]
          PROVE  /\ reporter' = [m \in Engines |-> reporter'[m]]
                 /\ \A m \in Engines : Report(reporter'[m]) /\ (m # n => reporter'[m] = reporter[m])
      BY <3>1, ChangedReport
    <3>2. ASSUME NEW x, NEW y, reporter' = [reporter EXCEPT ![n] = [at |-> x, left |-> y]]
          PROVE  /\ reporter' = [m \in Engines |-> reporter'[m]]
                 /\ \A m \in Engines : Report(reporter'[m]) /\ (m # n => reporter'[m] = reporter[m])
      BY <3>2 DEF RightsInv, Report
    <3> QED
      BY <2>2, <3>1, <3>2
  <2>4. \A m \in Engines : reporter'[m].at # "off" => engine'[m] # NoEngine
    BY <2>1, <2>3 DEF RightsInv
  <2>5. engine' = [m \in Engines |-> engine'[m]] /\ \A m \in Engines : Engine(engine'[m])
    BY <2>1 DEF RightsInv, Engine
  <2> QED
    BY <1>1, <2>1, <2>3, <2>4, <2>5, EnginesRightsInv
<1> QED
  BY <1>2, <1>3 DEF Background

\* A crash in createRole leaves the role torn.
LEMMA CrashRightsInv == ASSUME RightsInv, WebInv', Crash PROVE RightsInv'
<1> USE DEF RoleCared, HasRole, Exp, Crash, LitmusCrash
<1>1. \A x : RoleCared(x) => RoleCared(x)'
  OBVIOUS
<1>2. \A t \in Requests : pc'[t] \notin WithAccount
  BY DEF WithAccount
<1>3. engine' = [m \in Engines |-> engine'[m]] /\ \A m \in Engines : Engine(engine'[m])
  BY DEF RightsInv, Engine
<1>4. reporter' = [m \in Engines |-> reporter'[m]]
  OBVIOUS
<1>5. ASSUME NEW m \in Engines
      PROVE  Report(reporter'[m]) /\ (reporter'[m].at # "off" => reporter[m].at # "off")
  <2>1. CASE reporter'[m] = reporter[m]
    BY <2>1 DEF RightsInv, Report
  <2>2. CASE reporter[m].at \in {"trying", "report"} /\ reporter'[m] = [reporter[m] EXCEPT !.at = "gone"]
    <3>1. reporter[m] = [at |-> reporter[m].at, left |-> reporter[m].left]
      BY DEF RightsInv
    <3>2. reporter'[m] = [at |-> "gone", left |-> reporter[m].left]
      BY <2>2, <3>1
    <3> QED
      BY <2>2, <3>2 DEF Report
  <2> QED
    BY <2>1, <2>2
<1> QED
  BY <1>1, <1>2, <1>3, <1>4, <1>5, EnginesRightsInv DEF RightsInv

\* The steps of the litmus handlers.
LEMMA LitmusRightsInv ==
    ASSUME RightsInv, WebInv', NEW t \in Requests, LitmusStep(t)
    PROVE  RightsInv'
<1>1. Moved(t) /\ WebInv
  BY LitmusMoves DEF RightsInv
<1> USE DEF litmusVars, clusterVars
<1>2. CASE /\ pc[t] # "createRole" /\ pc'[t] \notin WithAccount /\ objects \subseteq objects'
           /\ UNCHANGED <<torn, engine, reporter>>
  BY <1>1, <1>2, AddsRightsInv DEF WithAccount
<1>3. CASE installLitmus(t) \/ Install(t) \/ InstallEnds(t) \/ SetVersion(t)
  <2>1. /\ pc[t] \in InstallPlaces /\ UNCHANGED <<objects, torn, engine, reporter>>
        /\ \E place \in {"pull", "helmRuns", "record", "idle"} : GoTo(t, place)
    BY <1>3, Zenon DEF installLitmus, Install, InstallEnds, SetVersion, Answered, InstallPlaces
  <2> QED
    BY <1>1, <1>2, <2>1, GoToMoves DEF WithAccount, InstallPlaces
<1>4. CASE uninstallLitmus(t) \/ ClearVersion(t) \/ create(t) \/ NoSuchAction(t)
  <2>1. /\ pc[t] \in {"uninstallLitmus", "forget", "litmuschaos"}
        /\ UNCHANGED <<objects, torn, engine, reporter>>
        /\ \E place \in {"forget", "experiment", "idle"} : GoTo(t, place)
    BY <1>4, Zenon DEF uninstallLitmus, ClearVersion, create, NoSuchAction, Answered
  <2> QED
    BY <1>1, <1>2, <2>1, GoToMoves DEF WithAccount
<1>5. CASE destroy(t)
  BY <1>5, DestroyRightsInv
<1>6. CASE prepareLitmusExperiment(t)
  <2>1. /\ pc[t] = "experiment" /\ UNCHANGED <<torn, engine, reporter>>
        /\ GoTo(t, "rbac") \/ GoTo(t, "idle")
    BY <1>6, Zenon DEF prepareLitmusExperiment, Answered, Ensure, CallFails, DownloadFails
  <2>2. objects \subseteq objects'
    BY <1>6 DEF prepareLitmusExperiment, Ensure, CallFails, DownloadFails
  <2>3. pc'[t] \in {"rbac", "idle"}
    BY <1>1, <2>1, GoToMoves
  <2> QED
    BY <1>2, <2>1, <2>2, <2>3 DEF WithAccount
<1>7. CASE prepareLitmusRbac(t)
  <2>1. /\ pc[t] = "rbac" /\ pc'[t] \in {"getRole", "idle"} /\ objects \subseteq objects'
        /\ pc'[t] = "getRole" => <<"account", Exp(t)>> \in objects'
        /\ UNCHANGED <<torn, engine, reporter>>
    <3>1. /\ pc[t] = "rbac" /\ UNCHANGED <<torn, engine, reporter>>
          /\ \/ <<"account", Exp(t)>> \in objects' /\ GoTo(t, "getRole")
             \/ GoTo(t, "idle")
      BY <1>7 DEF prepareLitmusRbac, Answered, Ensure, CallFails, DownloadFails
    <3>2. objects \subseteq objects'
      BY <1>7 DEF prepareLitmusRbac, Ensure, CallFails, DownloadFails
    <3>3. \/ <<"account", Exp(t)>> \in objects' /\ pc'[t] = "getRole"
          \/ pc'[t] = "idle"
      BY <1>1, <3>1, GoToMoves
    <3> QED
      BY <3>1, <3>2, <3>3
  <2> QED
    BY <1>1, <2>1, AddsRightsInv DEF WithAccount
<1>8. CASE getRole(t)
  <2>1. /\ pc[t] = "getRole" /\ pc'[t] \in {"deleteRole", "createRole", "idle"}
        /\ UNCHANGED <<objects, torn, engine, reporter>>
    BY <1>1, <1>8, GoToMoves DEF getRole, Answered
  <2>2. <<"account", Exp(t)>> \in objects'
    BY <2>1 DEF RightsInv, WithAccount
  <2> QED
    BY <1>1, <2>1, <2>2, AddsRightsInv
<1>9. CASE deleteRole(t) \/ createRole(t)
  BY <1>9, DeleteRightsInv, CreateRightsInv
<1>10. CASE createBinding(t)
  <2>1. /\ pc[t] = "binding" /\ pc'[t] \in {"engine", "idle"} /\ objects \subseteq objects'
        /\ pc'[t] = "engine" => <<"binding", Exp(t)>> \in objects'
        /\ UNCHANGED <<torn, engine, reporter>>
    <3>1. /\ pc[t] = "binding" /\ UNCHANGED <<torn, engine, reporter>>
          /\ \/ <<"binding", Exp(t)>> \in objects' /\ GoTo(t, "engine")
             \/ GoTo(t, "idle")
      BY <1>10 DEF createBinding, Answered, Ensure, CallFails
    <3>2. objects \subseteq objects'
      BY <1>10 DEF createBinding, Ensure, CallFails
    <3>3. \/ <<"binding", Exp(t)>> \in objects' /\ pc'[t] = "engine"
          \/ pc'[t] = "idle"
      BY <1>1, <3>1, GoToMoves
    <3> QED
      BY <3>1, <3>2, <3>3
  <2>2. <<"account", Exp(t)>> \in objects' /\ RoleCared(Exp(t))
    BY <2>1 DEF RightsInv, WithAccount
  <2> QED
    BY <1>1, <2>1, <2>2, AddsRightsInv
<1>11. CASE createEnginer(t)
  BY <1>11, CreateEngineRightsInv
<1> QED
  BY <1>3, <1>4, <1>5, <1>6, <1>7, <1>8, <1>9, <1>10, <1>11 DEF LitmusStep, createRoleAndRoleBinding

\* A new request is in no one's way.
LEMMA RegisterRightsInv ==
    ASSUME RightsInv, WebInv', NEW t \in Requests, Register(t)
    PROVE  RightsInv'
<1>1. WebInv /\ pc[t] = "idle" /\ UNCHANGED <<objects, torn, engine, reporter>>
  BY HandleMoves DEF RightsInv, Register, litmusVars, clusterVars
<1>2. CASE UNCHANGED <<pc, req>>
  BY <1>1, <1>2, UnchangedRightsInv
<1>3. ASSUME NEW r \in load, r.handler \in Handlers,
             pc' = [pc EXCEPT ![t] = r.handler], req' = [req EXCEPT ![t] = r]
      PROVE  RightsInv'
  <2> USE DEF RoleCared, HasRole, Exp
  <2>1. pc'[t] \in Handlers /\ \A u \in Requests \ {t} : pc'[u] = pc[u] /\ req'[u] = req[u]
    BY <1>1, <1>3 DEF WebInv
  <2>2. \A u \in Requests : pc'[u] \in WithAccount => pc'[u] = pc[u] /\ req'[u].exp = req[u].exp
    BY <2>1 DEF Handlers, WithAccount
  <2>3. \A x : RoleCared(x) => RoleCared(x)'
    BY <1>1, <2>1
  <2>4. /\ engine' = [m \in Engines |-> engine'[m]] /\ reporter' = [m \in Engines |-> reporter'[m]]
        /\ \A m \in Engines : /\ Engine(engine'[m]) /\ Report(reporter'[m])
                              /\ reporter'[m].at # "off" => engine'[m] # NoEngine
    BY <1>1 DEF RightsInv, Engine, Report
  <2> QED
    BY <1>1, <2>2, <2>3, <2>4, EnginesRightsInv
<1> QED
  BY <1>1, <1>2, <1>3, HandleMoves DEF Register

\* Every step keeps the invariant.
LEMMA NextRightsInv == RightsInv /\ [Next]_vars => RightsInv'
<1> SUFFICES ASSUME RightsInv, [Next]_vars PROVE RightsInv'
  OBVIOUS
<1> USE DEF litmusVars, clusterVars
<1>0. WebInv /\ WebInv'
  BY NextWebInv DEF RightsInv
<1>1. CASE MainStarts
  BY <1>0, <1>1, MainMoves, UnchangedRightsInv DEF MainStarts, webVars
<1>2. CASE Crash
  BY <1>0, <1>2, CrashRightsInv
<1>3. ASSUME NEW t \in Requests, Register(t) PROVE RightsInv'
  BY <1>0, <1>3, RegisterRightsInv
<1>4. ASSUME NEW t \in Requests, Serve(t) PROVE RightsInv'
  <2>1. CASE CacheStep(t) /\ UNCHANGED litmusVars
    BY <1>0, <2>1, CacheMoves, CacheStepPlaces, AddsRightsInv DEF InstallPlaces, WithAccount
  <2>2. CASE LitmusStep(t)
    BY <1>0, <2>2, LitmusRightsInv
  <2>3. CASE AppStep(t) /\ UNCHANGED litmusVars
    <3>1. CASE UNCHANGED <<pc, req>>
      BY <1>0, <2>3, <3>1, UnchangedRightsInv
    <3>2. CASE pc' = [pc EXCEPT ![t] = "idle"] /\ req' = [req EXCEPT ![t] = NoRequest]
      <4>1. Moved(t) /\ pc'[t] = "idle" /\ pc[t] = "updateApplication"
        BY <1>0, <2>3, <3>2, UpdateMoves DEF WebInv, Moved
      <4> QED
        BY <1>0, <2>3, <4>1, AddsRightsInv DEF WithAccount
    <3> QED
      BY <1>0, <2>3, <3>1, <3>2, UpdateMoves
  <2>4. CASE Ping(t) /\ UNCHANGED litmusVars
    <3>1. Moved(t) /\ pc'[t] = "idle" /\ pc[t] = "ping"
      BY <1>0, <2>4, GoToMoves DEF Ping
    <3> QED
      BY <1>0, <2>4, <3>1, AddsRightsInv DEF WithAccount
  <2> QED
    BY <1>4, <2>1, <2>2, <2>3, <2>4 DEF Serve, LitmusHandlers
<1>5. ASSUME NEW n \in Engines, Background(n) PROVE RightsInv'
  BY <1>0, <1>5, BackgroundRightsInv
<1>6. CASE UNCHANGED vars
  BY <1>0, <1>6, UnchangedRightsInv DEF vars, webVars
<1> QED
  BY <1>1, <1>2, <1>3, <1>4, <1>5, <1>6 DEF Next

\* At the start there is no engine and no report.
LEMMA InitRightsInv == Init => RightsInv
<1>1. Init => WebInv
  BY ApplicationAssumption DEF Init, WebInit, AppInit, WebInv, Writers
<1> QED
  BY <1>1 DEF Init, WebInit, LitmusInit, RightsInv, WithAccount, NoEngine, Off

\* An engine keeps the account, the binding and the role its experiment runs with, unless
\* createRoleAndRoleBinding is between deleting and creating the role or failed there, for
\* any number of requests, experiments and crashes.
THEOREM EnginesHaveRights == Spec => []EngineHasRights
<1>1. RightsInv => EngineHasRights
  BY DEF RightsInv, EngineHasRights, RoleCared
<1> QED
  BY <1>1, InitRightsInv, NextRightsInv, PTL DEF Spec

-----------------------------------------------------------------------------
(* The charts that are named, the attempts of the reports, and TypeOK.     *)

\* A step of a litmus handler that leaves the cache, the version and the release alone.
LEMMA PlainNames ==
    ASSUME NamesInv, NEW t \in Requests, Moved(t), pc'[t] \in Pulling => Wanted(t) \in Versions,
           UNCHANGED <<index, stores, chart, version, release>>
    PROVE  ChartNames'
  BY MovedNames DEF NamesInv, ChartNames

\* The steps of the litmus handlers: installLitmus lets no request without a version pass.
LEMMA LitmusNames ==
    ASSUME NamesInv, NEW t \in Requests, LitmusStep(t)
    PROVE  ChartNames'
<1>0. WebInv /\ Moved(t) /\ chart \in [Requests -> Charts]
  BY LitmusMoves DEF NamesInv, CacheInv, CacheTypes
<1> USE DEF cacheVars, diskVars, litmusVars, clusterVars
<1>1. CASE installLitmus(t)
  <2>1. Wanted(t) \in Versions \cup {NoVersion}
    BY <1>0, <1>1, LitmusAssumption DEF installLitmus, WebInv, Wanted
  <2>2. GoTo(t, "idle") \/ (Wanted(t) # NoVersion /\ GoTo(t, "pull"))
    BY <1>1 DEF installLitmus, Answered
  <2>3. pc'[t] \in Pulling => Wanted(t) # NoVersion
    BY <1>0, <2>2, GoToMoves DEF Pulling, Working
  <2>4. UNCHANGED <<index, stores, chart, version, release>>
    BY <1>1 DEF installLitmus
  <2> QED
    BY <1>0, <2>1, <2>3, <2>4, PlainNames
<1>2. CASE Install(t)
  <2>1. pc[t] \in Pulling /\ UNCHANGED <<index, stores, version>> /\ release' \in {release, Wanted(t)}
    BY <1>2 DEF Install, Pulling
  <2>2. \A u \in Requests : chart'[u].names \in {chart[u].names, {}}
    BY <1>0, <1>2 DEF Install, NoChart
  <2> QED
    BY <1>0, <2>1, <2>2, MovedNames DEF NamesInv, ChartNames
<1>3. CASE InstallEnds(t)
  <2>1. pc[t] \in Pulling
    BY <1>3 DEF InstallEnds, Pulling
  <2> QED
    BY <1>0, <1>3, <2>1, PlainNames DEF InstallEnds, NamesInv, ChartNames
<1>4. CASE SetVersion(t)
  <2>1. pc[t] \in Pulling /\ UNCHANGED <<index, stores, chart, release>> /\ version' = Wanted(t)
    BY <1>4 DEF SetVersion, Pulling
  <2> QED
    BY <1>0, <2>1, MovedNames DEF NamesInv, ChartNames
<1>5. CASE uninstallLitmus(t) \/ ClearVersion(t)
  <2>1. pc'[t] \notin Pulling
    BY <1>0, <1>5, GoToMoves DEF uninstallLitmus, ClearVersion, Answered, Pulling, Working
  <2>2. /\ UNCHANGED <<index, stores, chart>>
        /\ version' \in {version, NoVersion} /\ release' \in {release, NoVersion}
    BY <1>5 DEF uninstallLitmus, ClearVersion
  <2> QED
    BY <1>0, <2>1, <2>2, MovedNames DEF NamesInv, ChartNames
<1>6. CASE create(t) \/ destroy(t) \/ NoSuchAction(t) \/ createEnginer(t)
  <2>1. pc'[t] \notin Pulling
    BY <1>0, <1>6, GoToMoves DEF create, destroy, NoSuchAction, createEnginer, Answered, Pulling, Working
  <2>2. UNCHANGED <<index, stores, chart, version, release>>
    BY <1>6 DEF create, destroy, NoSuchAction, createEnginer
  <2> QED
    BY <1>0, <2>1, <2>2, PlainNames
<1>7. CASE prepareLitmusExperiment(t) \/ prepareLitmusRbac(t)
  <2>1. \E place \in {"rbac", "getRole", "idle"} : GoTo(t, place)
    BY <1>7 DEF prepareLitmusExperiment, prepareLitmusRbac, Ensure, CallFails, DownloadFails, Answered
  <2>2. UNCHANGED <<index, stores, chart, version, release>>
    BY <1>7 DEF prepareLitmusExperiment, prepareLitmusRbac
  <2>3. pc'[t] \notin Pulling
    BY <1>0, <2>1, GoToMoves DEF Pulling, Working
  <2> QED
    BY <1>0, <2>2, <2>3, PlainNames
<1>8. CASE createRoleAndRoleBinding(t)
  <2>1. \E place \in {"deleteRole", "createRole", "binding", "engine", "idle"} : GoTo(t, place)
    BY <1>8 DEF createRoleAndRoleBinding, getRole, deleteRole, createRole, createBinding,
       Ensure, CallFails, Answered
  <2>2. UNCHANGED <<index, stores, chart, version, release>>
    BY <1>8 DEF createRoleAndRoleBinding, getRole, deleteRole, createRole, createBinding
  <2>3. pc'[t] \notin Pulling
    BY <1>0, <2>1, GoToMoves DEF Pulling, Working
  <2> QED
    BY <1>0, <2>2, <2>3, PlainNames
<1> QED
  BY <1>1, <1>2, <1>3, <1>4, <1>5, <1>6, <1>7, <1>8 DEF LitmusStep

\* Every step names charts of Versions only.
LEMMA NextNames == ASSUME NamesInv, [Next]_vars PROVE ChartNames'
<1> USE DEF cacheVars, diskVars, litmusVars, clusterVars
<1>0. WebInv
  BY DEF NamesInv, CacheInv
<1>1. ASSUME UNCHANGED <<pc, req, index, stores, chart, version, release>> PROVE ChartNames'
  BY <1>1 DEF NamesInv, ChartNames, Wanted
<1>2. CASE MainStarts
  BY <1>0, <1>1, <1>2, MainMoves DEF MainStarts, webVars
<1>3. CASE Crash
  <2>1. /\ UNCHANGED <<index, release>> /\ stores' = <<>> /\ version' = NoVersion
        /\ \A u \in Requests : chart'[u].names = {} /\ pc'[u] \notin Pulling
    BY <1>3 DEF Crash, CacheCrash, LitmusCrash, NoChart, Pulling, Working
  <2> QED
    BY <2>1 DEF NamesInv, ChartNames
<1>4. ASSUME NEW t \in Requests, Register(t) PROVE ChartNames'
  <2>1. UNCHANGED <<index, stores, chart, version, release>>
    BY <1>4 DEF Register
  <2>2. ASSUME NEW r \in load, r.handler \in Handlers,
               pc' = [pc EXCEPT ![t] = r.handler], req' = [req EXCEPT ![t] = r]
        PROVE  ChartNames'
    <3>1. /\ pc'[t] \notin Pulling
          /\ \A u \in Requests : u # t => pc'[u] = pc[u] /\ Wanted(u)' = Wanted(u)
      BY <1>0, <2>2 DEF WebInv, Wanted, Handlers, Pulling, Working
    <3> QED
      BY <2>1, <3>1 DEF NamesInv, ChartNames
  <2> QED
    BY <1>0, <1>1, <1>4, <2>1, <2>2, HandleMoves DEF Register
<1>5. ASSUME NEW t \in Requests, Serve(t) PROVE ChartNames'
  <2>1. CASE CacheStep(t) /\ UNCHANGED litmusVars
    <3>1. CacheInv /\ ChartNames /\ Moved(t)
      BY <1>0, <2>1, CacheMoves DEF NamesInv
    <3>2. Wanted(t) \in Versions
      BY <2>1, <3>1, CacheStepNames DEF ChartNames
    <3>3. version' \in Versions \cup {NoVersion} /\ release' \in Versions \cup {NoVersion}
      BY <2>1, <3>1 DEF ChartNames
    <3> QED
      BY <2>1, <3>1, <3>2, <3>3, CacheStepNames, MovedNames
  <2>2. CASE LitmusStep(t)
    BY <2>2, LitmusNames
  <2>3. CASE (AppStep(t) \/ Ping(t)) /\ UNCHANGED <<cacheVars, litmusVars>>
    <3>1. UNCHANGED <<pc, req>> \/ (Moved(t) /\ pc'[t] = "idle")
      <4>1. CASE AppStep(t)
        BY <1>0, <4>1, UpdateMoves DEF Moved, WebInv
      <4>2. CASE Ping(t)
        BY <1>0, <4>2, GoToMoves DEF Ping
      <4> QED
        BY <2>3, <4>1, <4>2
    <3>2. pc'[t] = "idle" => pc'[t] \notin Pulling
      BY DEF Pulling, Working
    <3> QED
      BY <1>1, <2>3, <3>1, <3>2, PlainNames
  <2> QED
    BY <1>5, <2>1, <2>2, <2>3 DEF Serve, LitmusHandlers
<1>6. ASSUME NEW n \in Engines, Background(n) PROVE ChartNames'
  BY <1>1, <1>6 DEF Background, Reporter, handlerResult, ReportStatus, OperatorRuns, webVars
<1>7. CASE UNCHANGED vars
  BY <1>1, <1>7 DEF vars, webVars
<1> QED
  BY <1>2, <1>3, <1>4, <1>5, <1>6, <1>7 DEF Next

\* A report that is trying has an attempt left.
Attempting ==
    \A n \in Engines :
        /\ reporter[n].left \in 0 .. Attempts
        /\ reporter[n].at = "trying" => reporter[n].left # 0

\* What the types of one component need of the others.
TypesInv ==
    CacheInv /\ RightsInv /\ AppInv /\ ChartNames /\ Attempting /\ Counts

\* A report whose place changes keeps its attempts.
ReportAt(n, place) == reporter' = [reporter EXCEPT ![n].at = place]

\* What that means for each report.
LEMMA ReportMoves ==
    ASSUME RightsInv, NEW n \in Engines, NEW value, ReportAt(n, value)
    PROVE  /\ reporter'[n].at = value /\ reporter'[n].left = reporter[n].left
           /\ \A m \in Engines : m # n => reporter'[m] = reporter[m]
<1>1. reporter[n] = [at |-> reporter[n].at, left |-> reporter[n].left]
  BY DEF RightsInv
<1>2. reporter'[n] = [reporter[n] EXCEPT !.at = value]
  BY DEF RightsInv, ReportAt
<1>3. reporter'[n] = [at |-> value, left |-> reporter[n].left]
  BY <1>1, <1>2
<1>4. \A m \in Engines : m # n => reporter'[m] = reporter[m]
  BY ChangedReport DEF ReportAt
<1>5. reporter'[n].at = value /\ reporter'[n].left = reporter[n].left
  BY <1>3
<1> QED
  BY <1>4, <1>5

\* A report starts with all attempts and ends with the last one.
LEMMA NextAttempting == ASSUME TypesInv, [Next]_vars PROVE Attempting'
<1> USE DEF litmusVars, clusterVars
<1>a. RightsInv
  BY DEF TypesInv
<1>0. /\ RightsInv /\ Attempting /\ WebInv /\ Attempts \in Nat \ {0}
      /\ \A n \in Engines : reporter[n] = [at |-> reporter[n].at, left |-> reporter[n].left]
  BY LitmusAssumption DEF TypesInv, RightsInv
<1>1. ASSUME UNCHANGED reporter PROVE Attempting'
  BY <1>0, <1>1 DEF Attempting
<1>2. ASSUME NEW n \in Engines, reporter'[n].at # "trying", reporter'[n].left = reporter[n].left,
             \A m \in Engines : m # n => reporter'[m] = reporter[m]
      PROVE  Attempting'
  BY <1>0, <1>2 DEF Attempting
<1>3. CASE Crash
  <2>1. ASSUME NEW m \in Engines
        PROVE  /\ reporter'[m].left = reporter[m].left
               /\ reporter'[m].at \in {reporter[m].at, "gone"}
    <3>0. reporter'[m] = IF reporter[m].at \in {"trying", "report"}
                         THEN [reporter[m] EXCEPT !.at = "gone"] ELSE reporter[m]
      BY <1>3 DEF Crash, LitmusCrash
    <3>1. [reporter[m] EXCEPT !.at = "gone"] = [at |-> "gone", left |-> reporter[m].left]
      <4>1. reporter[m] = [at |-> reporter[m].at, left |-> reporter[m].left]
        BY <1>0
      <4> QED
        BY <4>1
    <3> QED
      BY <3>0, <3>1
  <2> QED
    BY <1>0, <2>1 DEF Attempting
<1>4. ASSUME NEW t \in Requests, createEnginer(t) PROVE Attempting'
  <2> DEFINE n == CHOOSE n \in Unused : TRUE
  <2>1. UNCHANGED reporter \/ reporter' = [reporter EXCEPT ![n] = Started]
    BY <1>4 DEF createEnginer
  <2> HIDE DEF n
  <2>2. \A m \in Engines : reporter'[m] \in {reporter[m], Started}
    BY <1>0, <2>1 DEF RightsInv
  <2> QED
    BY <1>0, <2>2 DEF Attempting, Started
<1>5. ASSUME NEW n \in Engines, Reporter(n) PROVE Attempting'
  <2>1. ASSUME reporter[n].at \in {"trying", "report"}, NEW place \in {"report", "reported", "lost"},
               ReportAt(n, place)
        PROVE  Attempting'
    <3>1. /\ reporter'[n].at = place /\ reporter'[n].left = reporter[n].left
          /\ \A m \in Engines : m # n => reporter'[m] = reporter[m]
      BY <1>a, <2>1, ReportMoves
    <3> QED
      BY <1>2, <2>1, <3>1
  <2>2. CASE /\ reporter[n].at = "trying"
             /\ reporter' = [reporter EXCEPT ![n] =
                  [at |-> IF reporter[n].left - 1 = 0 THEN "report" ELSE "trying",
                   left |-> reporter[n].left - 1]]
    <3>1. /\ reporter'[n].left = reporter[n].left - 1
          /\ reporter'[n].at = IF reporter[n].left - 1 = 0 THEN "report" ELSE "trying"
          /\ \A m \in Engines : m # n => reporter'[m] = reporter[m]
      BY <1>0, <2>2 DEF RightsInv
    <3> QED
      BY <1>0, <2>2, <3>1 DEF Attempting
  <2>3. CASE handlerResult(n)
    <3>1. CASE ReportAt(n, "report")
      BY <2>1, <2>3, <3>1 DEF handlerResult
    <3>2. CASE ~ReportAt(n, "report")
      BY <2>2, <2>3, <3>2 DEF handlerResult, ReportAt
    <3> QED
      BY <3>1, <3>2
  <2>4. CASE ReportStatus(n)
    <3>1. PICK outcome \in {"reported", "lost"} : ReportAt(n, outcome)
      BY <2>4, Zenon DEF ReportStatus, ReportAt
    <3>2. reporter[n].at \in {"trying", "report"} /\ outcome \in {"report", "reported", "lost"}
      BY <2>4 DEF ReportStatus
    <3> QED
      BY <2>1, <3>1, <3>2, Zenon
  <2> QED
    BY <1>5, <2>3, <2>4 DEF Reporter
<1>6. ASSUME NEW t \in Requests, Serve(t) PROVE UNCHANGED reporter \/ createEnginer(t)
  BY <1>6 DEF Serve, LitmusHandlers, LitmusStep, installLitmus, Install, InstallEnds, SetVersion,
     uninstallLitmus, ClearVersion, create, destroy, NoSuchAction, prepareLitmusExperiment,
     prepareLitmusRbac, createRoleAndRoleBinding, getRole, deleteRole, createRole, createBinding
<1>7. ASSUME NEW t \in Requests, Register(t) PROVE Attempting'
  BY <1>1, <1>7 DEF Register
<1>8. CASE MainStarts \/ UNCHANGED vars
  BY <1>1, <1>8 DEF MainStarts, vars
<1>9. ASSUME NEW n \in Engines, Background(n) PROVE Attempting'
  BY <1>1, <1>5, <1>9 DEF Background, OperatorRuns
<1>10. ASSUME NEW t \in Requests, Serve(t) PROVE Attempting'
  BY <1>1, <1>4, <1>6, <1>10
<1> QED
  BY <1>3, <1>7, <1>8, <1>9, <1>10 DEF Next

\* At the start the cache is empty, nothing is sent and no one is busy.
LEMMA InitTypesInv == Init => TypesInv
<1> SUFFICES ASSUME Init PROVE TypesInv
  OBVIOUS
<1>1. CacheInv /\ RightsInv /\ AppInv
  BY InitCacheInv, InitRightsInv, InitAppInv
<1>2. ChartNames
  BY DEF Init, WebInit, CacheInit, LitmusInit, ChartNames, NoChart, Pulling, Working
<1>3. Attempting
  <2>1. \A n \in Engines : reporter[n].at = "off" /\ reporter[n].left = Attempts
    BY DEF Init, LitmusInit, Off
  <2> QED
    BY <2>1, LitmusAssumption DEF Attempting
<1>4. Counts
  BY RequestsAssumption, MaxCrashesAssumption DEF Init, WebInit, AppInit, Counts
<1> QED
  BY <1>1, <1>2, <1>3, <1>4 DEF TypesInv

\* The shared state keeps its types, whatever requests overlap and wherever the process ends:
\* no name but a requested chart is in index.json, in helm or in the options, cache.ociStore is
\* a store that was made, a report never runs out of attempts before it is sent, and no option
\* is emptied.
THEOREM HandlerTypes == Spec => []TypeOK
<1>1. TypesInv /\ [Next]_vars => TypesInv'
  BY NextCacheInv, NextRightsInv, NextAppInv, NextNames, NextAttempting, NextCounts
     DEF TypesInv, NamesInv
<1>2. TypesInv => TypeOK
  BY DEF TypesInv, CacheInv, CacheTypes, AppInv, Complete, ChartNames, Attempting, Counts, TypeOK
<1> QED
  BY <1>1, <1>2, InitTypesInv, PTL DEF Spec
=============================================================================
