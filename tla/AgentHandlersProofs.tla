------------------------ MODULE AgentHandlersProofs ------------------------
(* FileIsOneRecord and VersionIsReleased, for any number of goroutines,    *)
(* requests and crashes, and what the proofs about the cache and the       *)
(* engines take from here: the invariant of the requests (WebInv), the     *)
(* counters, and the invariant of the rights (RightsInv) for the steps     *)
(* that change accounts, roles and bindings.                               *)
EXTENDS AgentHandlers, TLAPS

\* Where a writer can be.
Places == {"out", "start", "group", "read", "lock", "open", "line"}

\* A record of both keys, none of them empty.
Complete(values) ==
    values = [k \in Keys |-> values[k]] /\ \A k \in Keys : values[k] # None

\* The lines that are in the file are lines of writer w.
Filled(w) ==
    /\ appFile = [k \in Keys |-> appFile[k]]
    /\ \A k \in Keys : appFile[k] \in {None, args[w][k]}

\* The mutex protects the file: its holder is the only writer, and until the writer
\* has written all its lines the file counts as cut.
AppInv ==
    /\ step \in [Writers -> Places]
    /\ onDisk \in BOOLEAN /\ cut \in BOOLEAN
    /\ args = [w \in Writers |-> args[w]]
    /\ Complete(app)
    /\ \A w \in Writers : step[w] \in {"open", "line"} => lock = w
    /\ \A w \in Writers : step[w] \in {"lock", "open", "line"} =>
            args[w] \in recorded /\ Complete(args[w])
    /\ \A w \in Writers : step[w] = "line" => cut = TRUE /\ Filled(w)
    /\ onDisk = TRUE /\ cut = FALSE => appFile \in recorded

\* The options and no record: the initial state, at the start of main.
LEMMA InitAppInv == Init => AppInv
<1> SUFFICES ASSUME Init PROVE AppInv
  OBVIOUS
<1> USE DEF Init, AppInit, Writers, Complete, Filled, Places
<1>1. Complete(app)
  BY ApplicationAssumption
<1>2. step \in [Writers -> Places] /\ \A w \in Writers : step[w] \in {"start", "out"}
  OBVIOUS
<1>3. onDisk = TRUE => appFile \in recorded
  OBVIOUS
<1>4. args = [w \in Writers |-> args[w]]
  OBVIOUS
<1> QED
  BY <1>1, <1>2, <1>3, <1>4 DEF AppInv

\* A step that leaves the application alone keeps the invariant.
LEMMA UnchangedAppInv == AppInv /\ UNCHANGED appVars => AppInv'
  BY DEF AppInv, appVars, Complete, Filled

\* A writer that is about to record has both values of one record in hand.
LEMMA RecordsAppInv ==
    ASSUME AppInv, NEW w \in Writers, Records(w, app), step[w] \notin {"open", "line"},
           UNCHANGED <<app, appFile, onDisk, lock, cut>>
    PROVE  AppInv'
<1> USE DEF Records, At, Places
<1>1. step' \in [Writers -> Places] /\ args' = [u \in Writers |-> args'[u]]
  BY DEF AppInv
<1>2. args'[w] = app /\ app \in recorded' /\ recorded \subseteq recorded'
  BY DEF AppInv
<1>3. \A u \in Writers : u # w => args'[u] = args[u] /\ step'[u] = step[u]
  BY DEF AppInv
<1>4. step'[w] = "lock"
  BY DEF AppInv
<1>5. Complete(app)'
  BY DEF AppInv, Complete
<1>6. \A u \in Writers : step'[u] \in {"open", "line"} => lock' = u
  BY <1>3, <1>4 DEF AppInv
<1>7. \A u \in Writers : step'[u] \in {"lock", "open", "line"} =>
          args'[u] \in recorded' /\ Complete(args[u])'
  BY <1>2, <1>3, <1>4 DEF AppInv, Complete
<1>8. \A u \in Writers : step'[u] = "line" => cut' = TRUE /\ Filled(u)'
  BY <1>3, <1>4 DEF AppInv, Filled
<1>9. onDisk' = TRUE /\ cut' = FALSE => appFile' \in recorded'
  BY <1>2 DEF AppInv
<1> QED
  BY <1>1, <1>5, <1>6, <1>7, <1>8, <1>9 DEF AppInv

\* An update changes an option, or leaves it; it is never emptied.
LEMMA SetAppInv ==
    ASSUME AppInv, NEW t \in Requests, NEW k \in Keys, NEW place \in {"group", "read"},
           SetOption(t, k), At(t, place), step[t] \in {"out", "group"},
           UNCHANGED <<appFile, onDisk, lock, args, recorded, cut>>
    PROVE  AppInv'
<1> USE DEF SetOption, At, Places
<1>1. Complete(app)'
  BY DEF AppInv, Complete
<1>2. step' \in [Writers -> Places]
  BY DEF AppInv, Writers
<1>3. \A u \in Writers : step'[u] \in {"lock", "open", "line"} => step'[u] = step[u]
  BY DEF AppInv, Writers
<1> QED
  BY <1>1, <1>2, <1>3 DEF AppInv, Complete, Filled

\* The mutex is free when it is taken, so no one is behind it.
LEMMA LockAppInv == ASSUME AppInv, NEW w \in Writers, LockFile(w) PROVE AppInv'
<1> USE DEF LockFile, At, Places
<1>1. step' \in [Writers -> Places] /\ step'[w] = "open"
  BY DEF AppInv
<1>2. \A u \in Writers : u # w => step'[u] = step[u] /\ step[u] \notin {"open", "line"}
  BY ApplicationAssumption DEF AppInv
<1> QED
  BY <1>1, <1>2 DEF AppInv, Complete, Filled

\* The mutex is given back: its holder was the only writer.
LEMMA EndsAppInv ==
    ASSUME AppInv, NEW w \in Writers, RecordEnds(w), step[w] \in {"open", "line"},
           UNCHANGED <<app, onDisk, recorded>>,
           cut' \in BOOLEAN, onDisk' = TRUE /\ cut' = FALSE => appFile' \in recorded'
    PROVE  AppInv'
<1> USE DEF RecordEnds, At, Places
<1>1. step' \in [Writers -> Places] /\ step'[w] = "out"
  BY DEF AppInv
<1>2. \A u \in Writers : u # w => /\ step'[u] = step[u] /\ args'[u] = args[u]
                                  /\ step[u] \notin {"open", "line"}
  BY DEF AppInv
<1>3. args' = [u \in Writers |-> args'[u]]
  BY DEF AppInv
<1>4. \A u \in Writers : step'[u] \in {"lock", "open", "line"} =>
          args'[u] \in recorded' /\ Complete(args[u])'
  BY <1>1, <1>2 DEF AppInv, Complete
<1>5. Complete(app)'
  BY DEF AppInv, Complete
<1> QED
  BY <1>1, <1>2, <1>3, <1>4, <1>5 DEF AppInv

\* OpenFile empties the file and leaves it cut.
LEMMA OpenAppInv == ASSUME AppInv, NEW w \in Writers, OpenFile(w) PROVE AppInv'
<1>1. CASE RecordEnds(w) /\ UNCHANGED <<appFile, onDisk, cut>>
  <2>1. cut' \in BOOLEAN /\ (onDisk' = TRUE /\ cut' = FALSE => appFile' \in recorded')
    BY <1>1 DEF AppInv, OpenFile
  <2> QED
    BY <1>1, <2>1, EndsAppInv DEF OpenFile
<1>2. CASE /\ appFile' = Nothing /\ onDisk' = TRUE /\ cut' = TRUE
           /\ At(w, "line") /\ Waits /\ UNCHANGED <<lock, args>>
  <2> USE <1>2 DEF OpenFile, At, Places
  <2>1. step' \in [Writers -> Places] /\ step'[w] = "line" /\ step[w] = "open"
    BY DEF AppInv
  <2>2. \A u \in Writers : u # w => step'[u] = step[u] /\ step[u] \notin {"open", "line"}
    BY <2>1 DEF AppInv
  <2>3. Filled(w)'
    BY DEF Filled, Nothing
  <2> QED
    BY <2>1, <2>2, <2>3 DEF AppInv, Complete
<1> QED
  BY <1>1, <1>2 DEF OpenFile

\* WriteLine fills a line; the last one makes the file the record.
LEMMA WriteAppInv == ASSUME AppInv, NEW w \in Writers, WriteLine(w) PROVE AppInv'
<1>1. step[w] = "line" /\ cut = TRUE /\ Filled(w) /\ Complete(args[w]) /\ args[w] \in recorded
  BY DEF WriteLine, AppInv
<1>2. UNCHANGED <<app, onDisk, recorded>>
  BY DEF WriteLine
<1>3. CASE RecordEnds(w) /\ UNCHANGED <<appFile, cut>>
  BY <1>1, <1>2, <1>3, EndsAppInv
<1>4. ASSUME NEW k \in Keys, NEW other \in Keys \ {k}, appFile[k] = None,
             appFile' = [appFile EXCEPT ![k] = args[w][k]],
             IF appFile[other] = None THEN Waits /\ UNCHANGED <<lock, step, args, cut>>
                                      ELSE RecordEnds(w) /\ cut' = FALSE
      PROVE  AppInv'
  <2>1. CASE appFile[other] = None
    <3>1. UNCHANGED <<lock, step, args, cut>>
      BY <1>4, <2>1
    <3>2. Filled(w)'
      BY <1>1, <1>4, <3>1 DEF Filled
    <3>3. \A u \in Writers : step[u] = "line" => u = w
      BY <1>1 DEF AppInv
    <3> QED
      BY <1>1, <1>2, <3>1, <3>2, <3>3 DEF AppInv, Complete
  <2>2. CASE appFile[other] # None
    <3>1. appFile[other] = args[w][other]
      BY <1>1, <2>2 DEF Filled
    <3>2. Keys = {k, other}
      BY <1>4 DEF Keys
    <3>3. appFile' = args[w]
      BY <1>1, <1>4, <3>1, <3>2 DEF Filled, Complete
    <3> QED
      BY <1>1, <1>2, <1>4, <2>2, <3>3, EndsAppInv
  <2> QED
    BY <2>1, <2>2
<1> QED
  BY <1>3, <1>4 DEF WriteLine

\* Each writer, in whatever it does with the file.
LEMMA RecordAppInv == ASSUME AppInv, NEW w \in Writers, RecordMapToFile(w) PROVE AppInv'
  BY LockAppInv, OpenAppInv, WriteAppInv DEF RecordMapToFile

\* UpdateApplicationHandler, from the options to the file.
LEMMA AppStepAppInv == ASSUME AppInv, NEW t \in Requests, AppStep(t) PROVE AppInv'
<1>1. t \in Writers
  BY DEF Writers
<1>2. CASE SetInstance(t)
  BY <1>2, SetAppInv DEF SetInstance, Keys
<1>3. CASE SetGroup(t)
  BY <1>3, SetAppInv DEF SetGroup, Keys
<1>4. CASE RecordApplicationToFile(t)
  BY <1>1, <1>4, RecordsAppInv DEF RecordApplicationToFile
<1>5. CASE RecordMapToFile(t)
  BY <1>1, <1>5, RecordAppInv
<1> QED
  BY <1>2, <1>3, <1>4, <1>5 DEF AppStep

\* main at the start, and after a crash.
LEMMA MainAppInv == ASSUME AppInv, MainStarts PROVE AppInv'
<1>1. Main \in Writers
  BY DEF Writers
<1>2. CASE InitApplicationInfo
  <2>1. CASE onDisk /\ Flags = Default
    <3> USE <1>2, <2>1 DEF InitApplicationInfo, At, Places
    <3>1. step' \in [Writers -> Places]
      BY DEF AppInv
    <3>2. \A u \in Writers : step'[u] \in {"lock", "open", "line"} => step'[u] = step[u]
      BY <1>1 DEF AppInv
    <3> QED
      BY <3>1, <3>2 DEF AppInv, Complete, Filled
  <2>2. CASE ~(onDisk /\ Flags = Default)
    BY <1>1, <1>2, <2>2, RecordsAppInv DEF InitApplicationInfo
  <2> QED
    BY <2>1, <2>2
<1>3. CASE RecordMapToFile(Main)
  BY <1>1, <1>3, RecordAppInv
<1> QED
  BY <1>2, <1>3 DEF MainStarts

\* A crash leaves the file as it is, cut or not.
LEMMA CrashAppInv == ASSUME AppInv, AppCrash PROVE AppInv'
<1> USE DEF AppCrash, Places
<1>1. Complete(app)'
  BY ApplicationAssumption DEF Complete
<1>2. step' \in [Writers -> Places] /\ \A w \in Writers : step'[w] \in {"start", "out"}
  OBVIOUS
<1>3. args' = [w \in Writers |-> args'[w]]
  OBVIOUS
<1> QED
  BY <1>1, <1>2, <1>3 DEF AppInv

\* Every step of the agent and its surroundings keeps the invariant.
LEMMA NextAppInv == AppInv /\ [Next]_vars => AppInv'
<1> SUFFICES ASSUME AppInv, [Next]_vars PROVE AppInv'
  OBVIOUS
<1>1. CASE MainStarts
  BY <1>1, MainAppInv
<1>2. CASE Crash
  BY <1>2, CrashAppInv DEF Crash
<1>3. ASSUME NEW t \in Requests, Register(t) PROVE AppInv'
  BY <1>3, UnchangedAppInv DEF Register
<1>4. ASSUME NEW t \in Requests, Serve(t) PROVE AppInv'
  <2>1. CASE AppStep(t)
    BY <2>1, AppStepAppInv
  <2>2. CASE UNCHANGED appVars
    BY <2>2, UnchangedAppInv 
  <2> QED
    BY <1>4, <2>1, <2>2 DEF Serve
<1>5. ASSUME NEW n \in Engines, Background(n) PROVE AppInv'
  BY <1>5, UnchangedAppInv DEF Background
<1>6. CASE UNCHANGED vars
  BY <1>6, UnchangedAppInv DEF vars
<1> QED
  BY <1>1, <1>2, <1>3, <1>4, <1>5, <1>6 DEF Next

\* The file .chaos.app is always the record of one call of RecordMapToFile, unless
\* its last record was cut short: overlapping updates never mix in it.
THEOREM FileOneRecord == Spec => []FileIsOneRecord
<1>1. AppInv => FileIsOneRecord
  BY DEF AppInv, FileIsOneRecord
<1> QED
  BY <1>1, InitAppInv, NextAppInv, PTL DEF Spec

-----------------------------------------------------------------------------
(* Requests: what the proofs about the other handlers take from here.      *)

\* A goroutine that is busy has a request of the workload, and is in the handler of
\* updateApplication as long as it has something to record.
WebInv ==
    /\ pc = [t \in Requests |-> pc[t]] /\ req = [t \in Requests |-> req[t]]
    /\ step = [w \in Writers |-> step[w]]
    /\ load \in Workloads
    /\ \A t \in Requests : pc[t] # "idle" => req[t] \in load
    /\ \A t \in Requests : step[t] # "out" => pc[t] = "updateApplication"

\* Only goroutine t goes on, and keeps its request until it is idle.
Moved(t) ==
    /\ pc' = [pc EXCEPT ![t] = pc'[t]]
    /\ IF pc'[t] = "idle" THEN req' \in {req, [req EXCEPT ![t] = NoRequest]} ELSE req' = req
    /\ load' = load

\* GoTo is such a step.
LEMMA GoToMoves ==
    ASSUME WebInv, NEW t \in Requests, NEW place, GoTo(t, place)
    PROVE  Moved(t) /\ pc'[t] = place
  BY DEF WebInv, GoTo, Moved

\* Each step of the chart cache is the step of one goroutine, and not of an update.
LEMMA CacheMoves ==
    ASSUME WebInv, NEW t \in Requests, CacheStep(t)
    PROVE  Moved(t) /\ pc[t] \notin {"idle", "updateApplication"}
<1>1. CASE PullChart(t)
  BY <1>1, GoToMoves DEF PullChart, Fails
<1>2. CASE CacheIsInit(t)
  BY <1>2, GoToMoves DEF CacheIsInit, Fails
<1>3. CASE NewOCIStore(t)
  BY <1>3, GoToMoves DEF NewOCIStore, Fails
<1>4. CASE SetStore(t)
  BY <1>4, GoToMoves DEF SetStore, Fails
<1>5. CASE FetchReference(t)
  BY <1>5, GoToMoves DEF WebInv, FetchReference, Fails, PullChartToCache, LoadChart, Waits, webVars, Moved
<1>6. CASE Pull(t)
  BY <1>6, GoToMoves DEF Pull, Fails
<1>7. CASE AddReference(t)
  BY <1>7, GoToMoves DEF AddReference, Fails
<1>8. CASE SaveIndex(t)
  BY <1>8, GoToMoves DEF SaveIndex, Fails
<1>9. CASE TruncateIndex(t)
  BY <1>9, GoToMoves DEF TruncateIndex, Fails
<1>10. CASE WriteIndex(t)
  BY <1>10, GoToMoves DEF WriteIndex, Fails
<1> QED
  BY <1>1, <1>2, <1>3, <1>4, <1>5, <1>6, <1>7, <1>8, <1>9, <1>10 DEF CacheStep

\* So is each step of the litmus handlers.
LEMMA LitmusMoves ==
    ASSUME WebInv, NEW t \in Requests, LitmusStep(t)
    PROVE  Moved(t) /\ pc[t] \notin {"idle", "updateApplication"}
<1>1. CASE installLitmus(t)
  BY <1>1, GoToMoves DEF installLitmus, Answered
<1>2. CASE Install(t)
  BY <1>2, GoToMoves DEF Install, Answered
<1>3. CASE InstallEnds(t)
  BY <1>3, GoToMoves DEF InstallEnds, Answered
<1>4. CASE SetVersion(t)
  BY <1>4, GoToMoves DEF SetVersion, Answered
<1>5. CASE uninstallLitmus(t)
  BY <1>5, GoToMoves DEF uninstallLitmus, Answered
<1>6. CASE ClearVersion(t)
  BY <1>6, GoToMoves DEF ClearVersion, Answered
<1>7. CASE create(t)
  BY <1>7, GoToMoves DEF create, Answered
<1>8. CASE destroy(t)
  BY <1>8, GoToMoves DEF destroy, Answered
<1>9. CASE NoSuchAction(t)
  BY <1>9, GoToMoves DEF NoSuchAction, Answered
<1>10. CASE prepareLitmusExperiment(t)
  BY <1>10, GoToMoves DEF prepareLitmusExperiment, Answered, Ensure, CallFails, DownloadFails
<1>11. CASE prepareLitmusRbac(t)
  BY <1>11, GoToMoves DEF prepareLitmusRbac, Answered, Ensure, CallFails, DownloadFails
<1>12. CASE createRoleAndRoleBinding(t)
  BY <1>12, GoToMoves DEF createRoleAndRoleBinding, Answered, getRole, deleteRole, createRole, createBinding, Ensure, CallFails
<1>13. CASE createEnginer(t)
  BY <1>13, GoToMoves DEF createEnginer, Answered
<1> QED
  BY <1>1, <1>2, <1>3, <1>4, <1>5, <1>6, <1>7, <1>8, <1>9, <1>10, <1>11, <1>12, <1>13 DEF LitmusStep

\* Handle gives an idle goroutine a request of the workload.
LEMMA HandleMoves ==
    ASSUME WebInv, NEW t \in Requests, Handle(t)
    PROVE  /\ pc[t] = "idle" /\ load' = load
           /\ \/ UNCHANGED <<pc, req>>
              \/ \E r \in load : /\ r.handler \in Handlers
                                 /\ pc' = [pc EXCEPT ![t] = r.handler]
                                 /\ req' = [req EXCEPT ![t] = r]
  BY RequestsAssumption DEF Handle, WebInv

\* A step of an update leaves its goroutine where it is, or ends with it.
LEMMA UpdateMoves ==
    ASSUME WebInv, NEW t \in Requests, AppStep(t)
    PROVE  /\ pc[t] = "updateApplication"
           /\ step' = [step EXCEPT ![t] = step'[t]] /\ load' = load
           /\ \/ UNCHANGED <<pc, req>>
              \/ /\ step'[t] = "out" /\ pc' = [pc EXCEPT ![t] = "idle"]
                 /\ req' = [req EXCEPT ![t] = NoRequest]
<1> USE DEF Waits, webVars, At, Writers
<1>0. t # Main
  BY ApplicationAssumption
<1>1. CASE SetInstance(t)
  BY <1>1 DEF SetInstance, WebInv
<1>2. CASE SetGroup(t)
  BY <1>2 DEF SetGroup, WebInv
<1>3. CASE RecordApplicationToFile(t)
  BY <1>3 DEF RecordApplicationToFile, Records, WebInv
<1>4. CASE LockFile(t)
  BY <1>4 DEF LockFile, WebInv
<1>5. CASE OpenFile(t)
  BY <1>0, <1>5 DEF OpenFile, RecordEnds, GoTo, WebInv
<1>6. CASE WriteLine(t)
  BY <1>0, <1>6 DEF WriteLine, RecordEnds, GoTo, WebInv
<1> QED
  BY <1>1, <1>2, <1>3, <1>4, <1>5, <1>6 DEF AppStep, RecordMapToFile

\* main touches no request.
LEMMA MainMoves ==
    ASSUME WebInv, MainStarts
    PROVE  UNCHANGED webVars /\ step' = [step EXCEPT ![Main] = step'[Main]]
<1> USE DEF Waits, At, Writers
<1>1. CASE InitApplicationInfo
  BY <1>1 DEF InitApplicationInfo, Records, WebInv
<1>2. CASE LockFile(Main)
  BY <1>2 DEF LockFile, WebInv
<1>3. CASE OpenFile(Main)
  BY <1>3 DEF OpenFile, RecordEnds, WebInv
<1>4. CASE WriteLine(Main)
  BY <1>4 DEF WriteLine, RecordEnds, WebInv
<1> QED
  BY <1>1, <1>2, <1>3, <1>4 DEF MainStarts, RecordMapToFile

\* A step of goroutine t that is not one of an update keeps the invariant.
LEMMA MovedWebInv ==
    ASSUME WebInv, NEW t \in Requests, Moved(t), pc[t] \notin {"idle", "updateApplication"},
           UNCHANGED step
    PROVE  WebInv'
  BY DEF WebInv, Moved, Writers

\* Every step keeps the invariant of the requests.
LEMMA NextWebInv == WebInv /\ [Next]_vars => WebInv'
<1> SUFFICES ASSUME WebInv, [Next]_vars PROVE WebInv'
  OBVIOUS
<1>1. CASE MainStarts
  BY <1>1, MainMoves, ApplicationAssumption DEF WebInv, webVars, Writers
<1>2. CASE Crash
  BY <1>2, ApplicationAssumption DEF Crash, AppCrash, WebInv, Writers
<1>3. ASSUME NEW t \in Requests, Register(t) PROVE WebInv'
  BY <1>3, HandleMoves DEF Register, appVars, WebInv
<1>4. ASSUME NEW t \in Requests, Serve(t) PROVE WebInv'
  <2>1. CASE LitmusHandlers(t) /\ UNCHANGED appVars
    <3>1. Moved(t) /\ pc[t] \notin {"idle", "updateApplication"}
      BY <2>1, CacheMoves, LitmusMoves DEF LitmusHandlers
    <3> QED
      BY <2>1, <3>1, MovedWebInv DEF appVars
  <2>2. CASE AppStep(t)
    BY <2>2, UpdateMoves DEF WebInv, Writers
  <2>3. CASE Ping(t) /\ UNCHANGED appVars
    BY <2>3, GoToMoves, MovedWebInv DEF Ping, appVars
  <2> QED
    BY <1>4, <2>1, <2>2, <2>3 DEF Serve
<1>5. ASSUME NEW n \in Engines, Background(n) PROVE WebInv'
  <2>1. UNCHANGED webVars
    BY <1>5 DEF Background, Reporter, handlerResult, ReportStatus, OperatorRuns
  <2> QED
    BY <1>5, <2>1 DEF Background, appVars, webVars, WebInv
<1>6. CASE UNCHANGED vars
  BY <1>6 DEF vars, webVars, appVars, WebInv
<1> QED
  BY <1>1, <1>2, <1>3, <1>4, <1>5, <1>6 DEF Next

\* The invariant of the requests holds throughout.
THEOREM WebInvariant == Spec => []WebInv
<1>1. Init => WebInv
  BY ApplicationAssumption DEF Init, WebInit, AppInit, WebInv, Writers
<1> QED
  BY <1>1, NextWebInv, PTL DEF Spec

-----------------------------------------------------------------------------
(* The version and the release.                                            *)

\* Where a request that installs or removes litmus can be.
InstallPlaces ==
    {"installLitmus", "pull", "init", "assign", "fetch", "oras", "add", "save", "truncate",
     "write", "helm", "helmRuns", "record", "uninstallLitmus", "forget"}

\* Without overlap, the release is the one of the request between helm and the version.
VersionInv ==
    /\ WebInv
    /\ mixed \in BOOLEAN
    /\ \A t \in Requests : pc[t] \in InstallPlaces => Installs(t)
    /\ \A t, u \in Requests : t # u /\ Installs(t) /\ Installs(u) => mixed = TRUE
    /\ \A t \in Requests : pc[t] \in {"helmRuns", "record"} => mixed = TRUE \/ release = Wanted(t)
    /\ \/ version = NoVersion \/ version = release \/ mixed = TRUE
       \/ \E t \in Requests : pc[t] = "forget"

\* What goroutine t does changes nothing for the others.
LEMMA MovedInstalls ==
    ASSUME WebInv, NEW t \in Requests, Moved(t), pc[t] # "idle"
    PROVE  /\ \A u \in Requests : u # t => /\ pc'[u] = pc[u] /\ Wanted(u)' = Wanted(u)
                                           /\ Installs(u)' = Installs(u)
           /\ pc'[t] # "idle" => Wanted(t)' = Wanted(t) /\ Installs(t)' = Installs(t)
           /\ pc'[t] = "idle" => ~Installs(t)'
  BY DEF WebInv, Moved, Wanted, Installs

\* A step of a goroutine that touches neither version nor release.
LEMMA MovedVersionInv ==
    ASSUME VersionInv, WebInv', NEW t \in Requests, Moved(t), pc[t] \notin {"idle", "forget"},
           UNCHANGED <<version, release, mixed>>,
           pc'[t] \in InstallPlaces => pc[t] \in InstallPlaces,
           pc'[t] \in {"helmRuns", "record"} => pc[t] = "helmRuns"
    PROVE  VersionInv'
<1>1. /\ \A u \in Requests : u # t => /\ pc'[u] = pc[u] /\ Wanted(u)' = Wanted(u)
                                      /\ Installs(u)' = Installs(u)
      /\ pc'[t] # "idle" => Wanted(t)' = Wanted(t) /\ Installs(t)' = Installs(t)
      /\ pc'[t] = "idle" => ~Installs(t)'
  BY MovedInstalls DEF VersionInv
<1>2. \A u \in Requests : Installs(u)' => Installs(u)
  BY <1>1
<1>3. \A u \in Requests : pc'[u] \in InstallPlaces => Installs(u)'
  BY <1>1 DEF VersionInv, InstallPlaces
<1>4. \A u \in Requests : pc'[u] \in {"helmRuns", "record"} => mixed' = TRUE \/ release' = Wanted(u)'
  BY <1>1 DEF VersionInv
<1>5. (\E u \in Requests : pc[u] = "forget") => \E u \in Requests : pc'[u] = "forget"
  BY <1>1
<1> QED
  BY <1>2, <1>3, <1>4, <1>5 DEF VersionInv

\* The cache is used by installations only; from it a goroutine goes to helm, or is idle.
LEMMA CacheStepPlaces ==
    ASSUME WebInv, NEW t \in Requests, CacheStep(t)
    PROVE  /\ pc[t] \in InstallPlaces \ {"forget"}
           /\ pc'[t] \in InstallPlaces \cup {"idle"} /\ pc'[t] \notin {"helmRuns", "record"}
<1>1. pc[t] \in InstallPlaces \ {"forget"}
  BY DEF CacheStep, PullChart, CacheIsInit, NewOCIStore, SetStore, FetchReference, Pull,
     AddReference, SaveIndex, TruncateIndex, WriteIndex, InstallPlaces
<1> USE DEF InstallPlaces
<1>2. CASE PullChart(t) \/ CacheIsInit(t) \/ NewOCIStore(t) \/ SetStore(t)
  BY <1>1, <1>2, GoToMoves DEF PullChart, CacheIsInit, NewOCIStore, SetStore, Fails
<1>3. CASE FetchReference(t)
  BY <1>1, <1>3, GoToMoves DEF FetchReference, PullChartToCache, LoadChart, Fails, Waits, webVars
<1>4. CASE Pull(t) \/ AddReference(t) \/ SaveIndex(t) \/ TruncateIndex(t) \/ WriteIndex(t)
  BY <1>1, <1>4, GoToMoves DEF Pull, AddReference, SaveIndex, TruncateIndex, WriteIndex, Fails
<1> QED
  BY <1>1, <1>2, <1>3, <1>4 DEF CacheStep

\* So the cache changes nothing for the version.
LEMMA CacheVersionInv ==
    ASSUME VersionInv, WebInv', NEW t \in Requests, CacheStep(t),
           UNCHANGED <<version, release, mixed>>
    PROVE  VersionInv'
<1>1. Moved(t) /\ WebInv
  BY CacheMoves DEF VersionInv
<1> QED
  BY <1>1, CacheStepPlaces, MovedVersionInv DEF InstallPlaces

\* Helm.Install: without overlap no version is set while there is no release.
LEMMA InstallVersionInv ==
    ASSUME VersionInv, WebInv', NEW t \in Requests, Install(t), UNCHANGED mixed
    PROVE  VersionInv'
<1>1. WebInv /\ pc[t] = "helm" /\ UNCHANGED version /\ Installs(t)
  BY DEF Install, VersionInv, InstallPlaces
<1>2. CASE Answered(t) /\ UNCHANGED release
  BY <1>1, <1>2, GoToMoves, MovedVersionInv DEF Answered, InstallPlaces
<1>3. CASE release = NoVersion /\ release' = Wanted(t) /\ GoTo(t, "helmRuns")
  <2>1. Moved(t) /\ pc'[t] = "helmRuns"
    BY <1>1, <1>3, GoToMoves
  <2>2. /\ \A u \in Requests : Wanted(u)' = Wanted(u) /\ Installs(u)' = Installs(u)
        /\ \A u \in Requests : u # t => pc'[u] = pc[u]
    BY <1>1, <2>1, MovedInstalls
  <2>3. \A u \in Requests : pc'[u] \in {"helmRuns", "record"} => mixed' = TRUE \/ release' = Wanted(u)'
    BY <1>1, <1>3, <2>1, <2>2 DEF VersionInv, InstallPlaces
  <2>4. \A u \in Requests : pc'[u] \in InstallPlaces => Installs(u)'
    BY <1>1, <2>1, <2>2 DEF VersionInv
  <2>5. version = NoVersion \/ mixed = TRUE
    BY <1>1, <1>3 DEF VersionInv, InstallPlaces
  <2> QED
    BY <1>1, <2>2, <2>3, <2>4, <2>5 DEF VersionInv
<1> QED
  BY <1>2, <1>3 DEF Install

\* The version is set to the release, and cleared after it.
LEMMA RecordVersionInv ==
    ASSUME VersionInv, WebInv', NEW t \in Requests, UNCHANGED mixed,
           SetVersion(t) \/ ClearVersion(t)
    PROVE  VersionInv'
<1>1. WebInv /\ Moved(t) /\ pc'[t] = "idle" /\ pc[t] \in {"record", "forget"} /\ UNCHANGED release
  BY GoToMoves DEF SetVersion, ClearVersion, Answered, VersionInv, clusterVars
<1>2. /\ \A u \in Requests : u # t => /\ pc'[u] = pc[u] /\ Wanted(u)' = Wanted(u)
                                      /\ Installs(u)' = Installs(u)
      /\ ~Installs(t)'
  BY <1>1, MovedInstalls
<1>3. version' = NoVersion \/ version' = release' \/ mixed = TRUE
  BY <1>1 DEF SetVersion, ClearVersion, VersionInv
<1>4. \A u \in Requests : pc'[u] \in InstallPlaces => Installs(u)'
  BY <1>1, <1>2 DEF VersionInv, InstallPlaces
<1>5. \A u \in Requests : pc'[u] \in {"helmRuns", "record"} => mixed' = TRUE \/ release' = Wanted(u)'
  BY <1>1, <1>2 DEF VersionInv
<1> QED
  BY <1>2, <1>3, <1>4, <1>5 DEF VersionInv

\* Helm.Uninstall: the version is on its way to be cleared.
LEMMA UninstallVersionInv ==
    ASSUME VersionInv, WebInv', NEW t \in Requests, uninstallLitmus(t), UNCHANGED mixed
    PROVE  VersionInv'
<1>1. WebInv /\ pc[t] = "uninstallLitmus" /\ UNCHANGED version /\ Installs(t)
  BY DEF uninstallLitmus, VersionInv, InstallPlaces
<1>2. CASE Answered(t) /\ UNCHANGED release
  BY <1>1, <1>2, GoToMoves, MovedVersionInv DEF Answered, InstallPlaces
<1>3. CASE GoTo(t, "forget")
  <2>1. Moved(t) /\ pc'[t] = "forget"
    BY <1>1, <1>3, GoToMoves
  <2>2. /\ \A u \in Requests : Wanted(u)' = Wanted(u) /\ Installs(u)' = Installs(u)
        /\ \A u \in Requests : u # t => pc'[u] = pc[u]
    BY <1>1, <2>1, MovedInstalls
  <2>3. \A u \in Requests : pc'[u] \in {"helmRuns", "record"} => mixed' = TRUE
    BY <1>1, <2>1, <2>2 DEF VersionInv, InstallPlaces
  <2>4. \A u \in Requests : pc'[u] \in InstallPlaces => Installs(u)'
    BY <1>1, <2>1, <2>2 DEF VersionInv
  <2> QED
    BY <2>1, <2>2, <2>3, <2>4 DEF VersionInv
<1> QED
  BY <1>2, <1>3 DEF uninstallLitmus

\* The steps of the litmus handlers.
LEMMA LitmusVersionInv ==
    ASSUME VersionInv, WebInv', NEW t \in Requests, LitmusStep(t), UNCHANGED mixed
    PROVE  VersionInv'
<1>1. Moved(t) /\ pc[t] # "idle" /\ WebInv
  BY LitmusMoves DEF VersionInv
<1> USE DEF litmusVars, clusterVars
<1>2. CASE installLitmus(t) \/ InstallEnds(t)
  <2>1. /\ pc[t] \in {"installLitmus", "helmRuns"} /\ UNCHANGED <<version, release>>
        /\ pc'[t] \in {"pull", "record", "idle"} /\ (pc'[t] = "record" => pc[t] = "helmRuns")
    BY <1>1, <1>2, GoToMoves DEF installLitmus, InstallEnds, Answered
  <2> QED
    BY <1>1, <2>1, MovedVersionInv DEF InstallPlaces
<1>3. CASE Install(t)
  BY <1>3, InstallVersionInv
<1>4. CASE SetVersion(t) \/ ClearVersion(t)
  BY <1>4, RecordVersionInv
<1>5. CASE uninstallLitmus(t)
  BY <1>5, UninstallVersionInv
<1>6. CASE /\ pc[t] \notin InstallPlaces /\ pc'[t] \notin InstallPlaces
           /\ UNCHANGED <<version, release>>
  BY <1>1, <1>6, MovedVersionInv DEF InstallPlaces
<1>7. CASE create(t) \/ destroy(t) \/ NoSuchAction(t) \/ createEnginer(t)
  <2>1. /\ pc[t] \in {"litmuschaos", "engine"} /\ UNCHANGED <<version, release>>
        /\ GoTo(t, "experiment") \/ GoTo(t, "idle")
    BY <1>7, Zenon DEF create, destroy, NoSuchAction, createEnginer, Answered
  <2>3. pc'[t] \in {"experiment", "idle"}
    BY <1>1, <2>1, GoToMoves
  <2> QED
    BY <1>6, <2>1, <2>3 DEF InstallPlaces
<1>8. CASE prepareLitmusExperiment(t) \/ prepareLitmusRbac(t)
  <2>1. /\ pc[t] \in {"experiment", "rbac"} /\ UNCHANGED <<version, release>>
        /\ \E place \in {"rbac", "getRole", "idle"} : GoTo(t, place)
    BY <1>8 DEF prepareLitmusExperiment, prepareLitmusRbac, Answered, Ensure, CallFails,
       DownloadFails
  <2>3. pc'[t] \in {"rbac", "getRole", "idle"}
    BY <1>1, <2>1, GoToMoves
  <2> QED
    BY <1>6, <2>1, <2>3 DEF InstallPlaces
<1>9. CASE createRoleAndRoleBinding(t)
  <2>1. UNCHANGED <<version, release>> /\ pc[t] \in {"getRole", "deleteRole", "createRole", "binding"}
    BY <1>9, Zenon DEF createRoleAndRoleBinding, getRole, deleteRole, createRole, createBinding
  <2>2. \E place \in {"deleteRole", "createRole", "binding", "engine", "idle"} : GoTo(t, place)
    BY <1>9 DEF createRoleAndRoleBinding, getRole, deleteRole, createRole, createBinding,
       Answered, Ensure, CallFails
  <2>3. pc'[t] \in {"deleteRole", "createRole", "binding", "engine", "idle"}
    BY <1>1, <2>1, <2>2, GoToMoves
  <2> QED
    BY <1>6, <2>1, <2>3 DEF InstallPlaces
<1> QED
  BY <1>2, <1>3, <1>4, <1>5, <1>7, <1>8, <1>9 DEF LitmusStep

\* A new request: the first one that overlaps with another sets mixed.
LEMMA RegisterVersionInv ==
    ASSUME VersionInv, WebInv', NEW t \in Requests, Register(t)
    PROVE  VersionInv'
<1>1. WebInv /\ UNCHANGED <<version, release>> /\ pc[t] = "idle"
  BY HandleMoves DEF VersionInv, Register, litmusVars, clusterVars
<1>2. /\ mixed' \in BOOLEAN /\ (mixed = TRUE => mixed' = TRUE)
      /\ \A u, v \in Requests : u # v /\ Installs(u)' /\ Installs(v)' => mixed' = TRUE
  BY DEF VersionInv, Register
<1>3. CASE UNCHANGED <<pc, req>>
  BY <1>1, <1>2, <1>3 DEF VersionInv, Installs, Wanted
<1>4. ASSUME NEW r \in load, r.handler \in Handlers,
             pc' = [pc EXCEPT ![t] = r.handler], req' = [req EXCEPT ![t] = r]
      PROVE  VersionInv'
  <2>1. pc'[t] = r.handler /\ req'[t] = r /\ \A u \in Requests \ {t} : pc'[u] = pc[u] /\ req'[u] = req[u]
    BY <1>1, <1>4 DEF WebInv
  <2>2. pc'[t] \notin {"helmRuns", "record"} /\ pc'[t] # "idle"
    BY <1>4, <2>1 DEF Handlers
  <2>3. pc'[t] \in InstallPlaces => Installs(t)'
    BY <1>4, <2>1, <2>2 DEF Handlers, InstallPlaces, Installs
  <2>4. \A u \in Requests : pc'[u] \in InstallPlaces => Installs(u)'
    BY <2>1, <2>3 DEF VersionInv, Installs
  <2>5. \A u \in Requests : pc'[u] \in {"helmRuns", "record"} => mixed' = TRUE \/ release' = Wanted(u)'
    BY <1>1, <1>2, <2>1, <2>2 DEF VersionInv, Wanted
  <2>6. (\E u \in Requests : pc[u] = "forget") => \E u \in Requests : pc'[u] = "forget"
    BY <1>1, <2>1
  <2> QED
    BY <1>1, <1>2, <2>4, <2>5, <2>6 DEF VersionInv
<1> QED
  BY <1>1, <1>3, <1>4, HandleMoves DEF Register

\* A step that is none of the handlers'.
LEMMA UnchangedVersionInv ==
    ASSUME VersionInv, WebInv', UNCHANGED <<pc, req, version, release, mixed>>
    PROVE  VersionInv'
  BY DEF VersionInv, Installs, Wanted

\* The goroutine of an update goes on.
LEMMA UpdateVersionInv ==
    ASSUME VersionInv, WebInv', NEW t \in Requests, AppStep(t),
           UNCHANGED <<version, release, mixed>>
    PROVE  VersionInv'
<1>1. WebInv
  BY DEF VersionInv
<1>2. CASE UNCHANGED <<pc, req>>
  BY <1>2, UnchangedVersionInv
<1>3. CASE pc' = [pc EXCEPT ![t] = "idle"] /\ req' = [req EXCEPT ![t] = NoRequest]
  <2>1. Moved(t) /\ pc'[t] = "idle" /\ pc[t] = "updateApplication"
    BY <1>1, <1>3, UpdateMoves DEF WebInv, Moved
  <2> QED
    BY <2>1, MovedVersionInv DEF InstallPlaces
<1> QED
  BY <1>1, <1>2, <1>3, UpdateMoves

\* Every step keeps the invariant.
LEMMA NextVersionInv == VersionInv /\ [Next]_vars => VersionInv'
<1> SUFFICES ASSUME VersionInv, [Next]_vars PROVE VersionInv'
  OBVIOUS
<1> USE DEF litmusVars, clusterVars
<1>0. WebInv /\ WebInv'
  BY NextWebInv DEF VersionInv
<1>1. CASE MainStarts
  BY <1>0, <1>1, MainMoves, UnchangedVersionInv DEF MainStarts, webVars
<1>2. CASE Crash
  BY <1>0, <1>2 DEF Crash, LitmusCrash, VersionInv, Installs, InstallPlaces
<1>3. ASSUME NEW t \in Requests, Register(t) PROVE VersionInv'
  BY <1>0, <1>3, RegisterVersionInv
<1>4. ASSUME NEW t \in Requests, Serve(t) PROVE VersionInv'
  <2>1. CASE CacheStep(t) /\ UNCHANGED <<litmusVars, mixed>>
    BY <1>0, <2>1, CacheVersionInv
  <2>2. CASE LitmusStep(t) /\ UNCHANGED mixed
    BY <1>0, <2>2, LitmusVersionInv
  <2>3. CASE AppStep(t) /\ UNCHANGED <<litmusVars, mixed>>
    BY <1>0, <2>3, UpdateVersionInv
  <2>4. CASE Ping(t) /\ UNCHANGED <<litmusVars, mixed>>
    <3>1. Moved(t) /\ pc'[t] = "idle" /\ pc[t] = "ping"
      BY <1>0, <2>4, GoToMoves DEF Ping
    <3> QED
      BY <1>0, <2>4, <3>1, MovedVersionInv DEF InstallPlaces
  <2> QED
    BY <1>4, <2>1, <2>2, <2>3, <2>4 DEF Serve, LitmusHandlers
<1>5. ASSUME NEW n \in Engines, Background(n) PROVE VersionInv'
  BY <1>0, <1>5, UnchangedVersionInv
     DEF Background, Reporter, handlerResult, ReportStatus, OperatorRuns, webVars
<1>6. CASE UNCHANGED vars
  BY <1>0, <1>6, UnchangedVersionInv DEF vars, webVars
<1> QED
  BY <1>1, <1>2, <1>3, <1>4, <1>5, <1>6 DEF Next

\* The version that createParamerAndExec looks at is the one of helm's release, unless
\* requests that install and remove litmus overlapped, for any number of requests.
THEOREM VersionReleased == Spec => []VersionIsReleased
<1>1. Init => WebInv
  BY ApplicationAssumption DEF Init, WebInit, AppInit, WebInv, Writers
<1>2. Init => VersionInv
  BY <1>1 DEF Init, WebInit, LitmusInit, VersionInv, Installs, InstallPlaces
<1>3. VersionInv => VersionIsReleased
  BY DEF VersionInv, VersionIsReleased
<1> QED
  BY <1>2, <1>3, NextVersionInv, PTL DEF Spec

-----------------------------------------------------------------------------
(* The counters and the mutex.                                             *)

\* Their types.
Counts ==
    /\ sent \in 0 .. MaxRequests /\ crashes \in 0 .. MaxCrashes
    /\ lock \in Writers \cup {None}

\* Only Register counts a request.
LEMMA OnlyRegisterSends ==
    ASSUME [Next]_vars PROVE UNCHANGED sent \/ \E t \in Requests : Register(t)
<1> USE DEF GoTo, Answered, Fails, Waits, webVars
<1>1. ASSUME NEW t \in Requests, CacheStep(t) PROVE UNCHANGED sent
  BY <1>1 DEF CacheStep, PullChart, CacheIsInit, NewOCIStore, SetStore, FetchReference,
     PullChartToCache, LoadChart, Pull, AddReference, SaveIndex, TruncateIndex, WriteIndex
<1>2. ASSUME NEW t \in Requests, LitmusStep(t) PROVE UNCHANGED sent
  <2>1. CASE installLitmus(t) \/ Install(t) \/ InstallEnds(t) \/ SetVersion(t)
    BY <2>1 DEF installLitmus, Install, InstallEnds, SetVersion
  <2>2. CASE uninstallLitmus(t) \/ ClearVersion(t) \/ create(t) \/ destroy(t) \/ NoSuchAction(t)
    BY <2>2 DEF uninstallLitmus, ClearVersion, create, destroy, NoSuchAction
  <2>3. CASE prepareLitmusExperiment(t) \/ prepareLitmusRbac(t) \/ createEnginer(t)
    BY <2>3 DEF prepareLitmusExperiment, prepareLitmusRbac, createEnginer, Ensure, CallFails,
       DownloadFails
  <2>4. CASE createRoleAndRoleBinding(t)
    BY <2>4 DEF createRoleAndRoleBinding, getRole, deleteRole, createRole, createBinding, Ensure,
       CallFails
  <2> QED
    BY <1>2, <2>1, <2>2, <2>3, <2>4 DEF LitmusStep
<1>3. ASSUME NEW w \in Writers, RecordMapToFile(w) PROVE UNCHANGED sent
  BY <1>3 DEF RecordMapToFile, LockFile, OpenFile, WriteLine, RecordEnds
<1>4. ASSUME NEW t \in Requests, AppStep(t) \/ Ping(t) PROVE UNCHANGED sent
  BY <1>3, <1>4 DEF AppStep, SetInstance, SetGroup, RecordApplicationToFile, Ping, Writers
<1>5. CASE MainStarts
  BY <1>3, <1>5 DEF MainStarts, InitApplicationInfo, Writers
<1>6. CASE Crash \/ UNCHANGED vars
  BY <1>6 DEF Crash, vars
<1>7. ASSUME NEW n \in Engines, Background(n) PROVE UNCHANGED sent
  BY <1>7 DEF Background, Reporter, handlerResult, ReportStatus, OperatorRuns
<1> QED
  BY <1>1, <1>2, <1>4, <1>5, <1>6, <1>7 DEF Next, Serve, LitmusHandlers

\* Only Crash counts a crash; the mutex is free or held by a writer.
LEMMA NextCounts == ASSUME Counts, [Next]_vars PROVE Counts'
<1>0. /\ MaxRequests \in Nat /\ MaxCrashes \in Nat
      /\ sent \in 0 .. MaxRequests /\ crashes \in 0 .. MaxCrashes /\ lock \in Writers \cup {None}
  BY RequestsAssumption, MaxCrashesAssumption DEF Counts
<1>1. sent' \in 0 .. MaxRequests
  BY <1>0, OnlyRegisterSends DEF Register, Handle
<1>2. crashes' \in 0 .. MaxCrashes
  <2>1. UNCHANGED crashes \/ Crash
    BY DEF Next, MainStarts, Register, Serve, Background, vars
  <2> QED
    BY <1>0, <2>1 DEF Crash
<1>3. lock' \in Writers \cup {None}
  <2>1. ASSUME NEW w \in Writers, RecordMapToFile(w) PROVE lock' \in Writers \cup {None}
    BY <1>0, <2>1 DEF RecordMapToFile, LockFile, OpenFile, WriteLine, RecordEnds
  <2>2. ASSUME NEW t \in Requests, AppStep(t) PROVE lock' \in Writers \cup {None}
    BY <1>0, <2>1, <2>2 DEF AppStep, SetInstance, SetGroup, RecordApplicationToFile, Writers
  <2>3. CASE MainStarts
    BY <1>0, <2>1, <2>3 DEF MainStarts, InitApplicationInfo, Writers
  <2>4. CASE Crash
    BY <2>4 DEF Crash, AppCrash
  <2> QED
    BY <1>0, <2>2, <2>3, <2>4 DEF Next, Register, Serve, Background, vars, appVars
<1> QED
  BY <1>1, <1>2, <1>3 DEF Counts

-----------------------------------------------------------------------------
(* The rights of the engines: the steps that give and take them.           *)

\* The requests whose account is there.
WithAccount == {"getRole", "deleteRole", "createRole", "binding", "engine"}

\* The role of x is there, or a request left it out or is about to create it.
RoleCared(x) ==
    HasRole(x) \/ x \in torn \/ \E t \in Requests : pc[t] = "createRole" /\ Exp(t) = x

\* Accounts and bindings are never removed; a request before its engine has made its own.
RightsInv ==
    /\ WebInv
    /\ engine = [n \in Engines |-> engine[n]] /\ reporter = [n \in Engines |-> reporter[n]]
    /\ \A n \in Engines :
          /\ engine[n] = [exp |-> engine[n].exp, state |-> engine[n].state, result |-> engine[n].result]
          /\ reporter[n] = [at |-> reporter[n].at, left |-> reporter[n].left]
          /\ reporter[n].at # "off" => engine[n] # NoEngine
    /\ \A t \in Requests : pc[t] \in WithAccount => <<"account", Exp(t)>> \in objects
    /\ \A t \in Requests : pc[t] \in {"binding", "engine"} => RoleCared(Exp(t))
    /\ \A t \in Requests : pc[t] = "engine" => <<"binding", Exp(t)>> \in objects
    /\ \A n \in Engines : engine[n] # NoEngine =>
          /\ <<"account", engine[n].exp>> \in objects /\ <<"binding", engine[n].exp>> \in objects
          /\ RoleCared(engine[n].exp)

\* Goroutine t goes on and leaves the requests of the others alone.
LEMMA MovedExp ==
    ASSUME WebInv, NEW t \in Requests, Moved(t)
    PROVE  /\ \A u \in Requests : u # t => pc'[u] = pc[u] /\ Exp(u)' = Exp(u)
           /\ pc'[t] # "idle" => Exp(t)' = Exp(t)
  BY DEF WebInv, Moved, Exp

\* A role stays cared for when a goroutine adds objects, and creates no role.
LEMMA RoleStaysCared ==
    ASSUME WebInv, NEW t \in Requests, Moved(t), pc[t] # "createRole",
           objects \subseteq objects', torn \subseteq torn', NEW x, RoleCared(x)
    PROVE  RoleCared(x)'
<1> USE DEF RoleCared, HasRole, Exp
<1> QED
  BY MovedExp

\* A step of goroutine t that adds objects, keeps the engines, and brings t to a place
\* for which t has what it takes.
LEMMA MovedRightsInv ==
    ASSUME RightsInv, WebInv', NEW t \in Requests, Moved(t),
           \A x : <<"account", x>> \in objects => <<"account", x>> \in objects',
           \A x : <<"binding", x>> \in objects => <<"binding", x>> \in objects',
           \A x : RoleCared(x) => RoleCared(x)',
           UNCHANGED <<engine, reporter>>,
           pc'[t] \in WithAccount => <<"account", Exp(t)>> \in objects',
           pc'[t] \in {"binding", "engine"} => RoleCared(Exp(t))',
           pc'[t] = "engine" => <<"binding", Exp(t)>> \in objects'
    PROVE  RightsInv'
<1> USE DEF RoleCared, HasRole, Exp
<1>1. /\ \A u \in Requests : u # t => pc'[u] = pc[u] /\ Exp(u)' = Exp(u)
      /\ pc'[t] # "idle" => Exp(t)' = Exp(t)
  BY MovedExp DEF RightsInv
<1>2. \A u \in Requests : pc'[u] \in WithAccount => <<"account", Exp(u)'>> \in objects'
  BY <1>1 DEF RightsInv, WithAccount
<1>3. \A u \in Requests : pc'[u] \in {"binding", "engine"} => RoleCared(Exp(u))'
  <2> SUFFICES ASSUME NEW u \in Requests, pc'[u] \in {"binding", "engine"}
               PROVE  RoleCared(Exp(u))'
    OBVIOUS
  <2>1. CASE u = t
    BY <2>1
  <2>2. CASE u # t
    <3>1. pc[u] = pc'[u] /\ req'[u].exp = req[u].exp
      BY <1>1, <2>2
    <3>2. RoleCared(req[u].exp)
      BY <3>1 DEF RightsInv
    <3>3. \A x : RoleCared(x) => RoleCared(x)'
      OBVIOUS
    <3> QED
      BY ONLY <3>1, <3>2, <3>3
  <2> QED
    BY <2>1, <2>2
<1>4. ASSUME NEW u \in Requests, pc'[u] = "engine" PROVE <<"binding", Exp(u)'>> \in objects'
  <2>1. CASE u = t
    BY <1>1, <1>4, <2>1
  <2>2. CASE u # t
    BY <1>1, <1>4, <2>2 DEF RightsInv
  <2> QED
    BY <2>1, <2>2
<1>5. ASSUME NEW n \in Engines, engine[n] # NoEngine
      PROVE  /\ <<"account", engine[n].exp>> \in objects' /\ <<"binding", engine[n].exp>> \in objects'
             /\ RoleCared(engine[n].exp)'
  <2>1. /\ <<"account", engine[n].exp>> \in objects /\ <<"binding", engine[n].exp>> \in objects
        /\ RoleCared(engine[n].exp)
    BY <1>5 DEF RightsInv
  <2> QED
    BY <2>1
<1> QED
  BY <1>2, <1>3, <1>4, <1>5 DEF RightsInv

\* The same for a step that creates no role.
LEMMA AddsRightsInv ==
    ASSUME RightsInv, WebInv', NEW t \in Requests, Moved(t), pc[t] # "createRole",
           objects \subseteq objects', torn \subseteq torn', UNCHANGED <<engine, reporter>>,
           pc'[t] \in WithAccount => <<"account", Exp(t)>> \in objects',
           pc'[t] \in {"binding", "engine"} => RoleCared(Exp(t)),
           pc'[t] = "engine" => <<"binding", Exp(t)>> \in objects'
    PROVE  RightsInv'
<1> USE DEF RoleCared, HasRole, Exp
<1>1. \A x : RoleCared(x) => RoleCared(x)'
  BY RoleStaysCared DEF RightsInv
<1>2. pc'[t] \in {"binding", "engine"} => RoleCared(Exp(t))'
  <2> SUFFICES ASSUME pc'[t] \in {"binding", "engine"} PROVE RoleCared(Exp(t))'
    OBVIOUS
  <2>1. req'[t].exp = req[t].exp /\ RoleCared(Exp(t))
    BY MovedExp DEF RightsInv
  <2> QED
    BY <1>1, <2>1
<1> QED
  BY <1>1, <1>2, MovedRightsInv

\* Steps that have nothing to do with the cluster.
LEMMA UnchangedRightsInv ==
    ASSUME RightsInv, WebInv', UNCHANGED <<pc, req, objects, torn, engine, reporter>>
    PROVE  RightsInv'
  BY DEF RightsInv, RoleCared, HasRole, Exp

\* deleteRole: the role is on its way to be created again, or it is torn.
LEMMA DeleteRightsInv ==
    ASSUME RightsInv, WebInv', NEW t \in Requests, deleteRole(t)
    PROVE  RightsInv'
<1> USE DEF RoleCared, HasRole, Exp
<1>1. WebInv /\ pc[t] = "deleteRole" /\ UNCHANGED <<engine, reporter>>
  BY DEF RightsInv, deleteRole
<1>2. Moved(t) /\ pc'[t] \in {"createRole", "idle"}
  BY <1>1, GoToMoves DEF deleteRole, CallFails, Answered
<1>3. objects' \in {objects, objects \ {<<"role", Exp(t)>>}} /\ torn \subseteq torn'
  BY DEF deleteRole, CallFails
<1>4. objects' = objects \/ Exp(t) \in torn' \/ (pc'[t] = "createRole" /\ req' = req)
  <2>1. CASE GoTo(t, "createRole")
    BY <1>1, <2>1, GoToMoves DEF Moved
  <2>2. CASE torn' = IF objects' = objects THEN torn ELSE torn \cup {Exp(t)}
    BY <2>2
  <2> QED
    BY <2>1, <2>2 DEF deleteRole
<1>5. \A x : RoleCared(x) => RoleCared(x)'
  <2> SUFFICES ASSUME NEW x, RoleCared(x) PROVE RoleCared(x)'
    OBVIOUS
  <2>1. CASE x # Exp(t) \/ objects' = objects
    <3>1. HasRole(x) => HasRole(x)'
      BY <1>3, <2>1
    <3>2. (\E u \in Requests : pc[u] = "createRole" /\ req[u].exp = x)
            => \E u \in Requests : pc'[u] = "createRole" /\ req'[u].exp = x
      BY <1>1, <1>2, MovedExp
    <3> QED
      BY <1>3, <3>1, <3>2
  <2>2. CASE x = Exp(t) /\ objects' # objects
    BY <1>4, <2>2
  <2> QED
    BY <2>1, <2>2
<1>6. /\ \A x : <<"account", x>> \in objects => <<"account", x>> \in objects'
      /\ \A x : <<"binding", x>> \in objects => <<"binding", x>> \in objects'
  BY <1>3
<1>7. <<"account", Exp(t)>> \in objects'
  BY <1>1, <1>6 DEF RightsInv, WithAccount
<1> QED
  BY <1>1, <1>2, <1>5, <1>6, <1>7, MovedRightsInv

\* createRole: the role is there, or it is torn.
LEMMA CreateRightsInv ==
    ASSUME RightsInv, WebInv', NEW t \in Requests, createRole(t)
    PROVE  RightsInv'
<1> USE DEF RoleCared, HasRole, Exp
<1>1. WebInv /\ pc[t] = "createRole" /\ UNCHANGED <<engine, reporter>>
  BY DEF RightsInv, createRole
<1>2. Moved(t) /\ pc'[t] \in {"binding", "idle"}
  BY <1>1, GoToMoves DEF createRole, CallFails, Answered
<1>3. objects \subseteq objects' /\ torn \ {Exp(t)} \subseteq torn'
  BY DEF createRole, CallFails
<1>4. <<"role", Exp(t)>> \in objects' \/ Exp(t) \in torn'
  BY DEF createRole
<1>5. \A x : RoleCared(x) => RoleCared(x)'
  <2> SUFFICES ASSUME NEW x, RoleCared(x) PROVE RoleCared(x)'
    OBVIOUS
  <2>1. CASE x = Exp(t)
    BY <1>4, <2>1
  <2>2. CASE x # Exp(t)
    <3>1. (\E u \in Requests : pc[u] = "createRole" /\ req[u].exp = x)
            => \E u \in Requests : pc'[u] = "createRole" /\ req'[u].exp = x
      BY <1>1, <1>2, <2>2, MovedExp
    <3> QED
      BY <1>3, <2>2, <3>1
  <2> QED
    BY <2>1, <2>2
<1>6. pc'[t] = "binding" => RoleCared(Exp(t))'
  <2> SUFFICES ASSUME pc'[t] = "binding" PROVE RoleCared(Exp(t))'
    OBVIOUS
  <2>1. req'[t].exp = req[t].exp
    BY <1>1, <1>2, MovedExp
  <2> QED
    BY <1>4, <2>1
<1>7. <<"account", Exp(t)>> \in objects'
  BY <1>1, <1>3 DEF RightsInv, WithAccount
<1> QED
  BY <1>1, <1>2, <1>3, <1>5, <1>6, <1>7, MovedRightsInv

\* The engines and their reports are records.
Engine(e) == e = [exp |-> e.exp, state |-> e.state, result |-> e.result]
Report(r) == r = [at |-> r.at, left |-> r.left]
=============================================================================
