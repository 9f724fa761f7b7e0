-------------------------- MODULE ApplicationInfo --------------------------
(***************************************************************************)
(* The application an agent belongs to: two options in memory, set by      *)
(* flags at the start and by updateApplication requests later on, and the  *)
(* file .chaos.app that keeps them (pkg/options, pkg/tools/auth.go).       *)
(*                                                                         *)
(* An update sets the options without a lock and then records both in the  *)
(* file, under the mutex of the package: the file is truncated and gets    *)
(* its two lines in either order.  A line that is missing reads as None.   *)
(***************************************************************************)
EXTENDS WebRequest

CONSTANTS
    Flags,    \* the options of the command line
    Default,  \* DefaultApplicationInstance and DefaultApplicationGroup
    None,     \* the empty string
    Main      \* the goroutine of main

Keys == {"instance", "group"}
Writers == Requests \cup {Main}
Nothing == [k \in Keys |-> None]

ASSUME ApplicationAssumption ==
    /\ Main \notin Requests /\ None \notin Writers
    /\ DOMAIN Flags = Keys /\ Flags = [k \in Keys |-> Flags[k]]
    /\ \A k \in Keys : Flags[k] # None

VARIABLES
    app,       \* Opts.ApplicationInstance and Opts.ApplicationGroup
    appFile,   \* what the lines of the file say
    onDisk,    \* the file exists
    lock,      \* the holder of the mutex, or None
    step,      \* step[w]: where writer w is
    args,      \* args[w]: the two values it records
    recorded,  \* history: the values that were ever to be recorded
    cut        \* history: the last record of the file was not finished

appVars == <<app, appFile, onDisk, lock, step, args, recorded, cut>>

\* The agent starts for the first time, or after one that kept its defaults.
AppInit ==
    /\ app = Flags
    /\ \/ onDisk = FALSE /\ appFile = Nothing /\ recorded = {}
       \/ onDisk = TRUE /\ appFile = Default /\ recorded = {Default}
    /\ lock = None
    /\ step = [w \in Writers |-> IF w = Main THEN "start" ELSE "out"]
    /\ args = [w \in Writers |-> Nothing]
    /\ cut = FALSE

At(w, place) == step' = [step EXCEPT ![w] = place]

Records(w, values) ==
    /\ args' = [args EXCEPT ![w] = values]
    /\ recorded' = recorded \cup {values}
    /\ At(w, "lock")

\* InitApplicationInfo: with default flags and a file the file is read, into the
\* parameters of the function, and nothing changes; else the flags are recorded.
InitApplicationInfo ==
    /\ step[Main] = "start"
    /\ IF onDisk /\ Flags = Default
       THEN At(Main, "out") /\ UNCHANGED <<args, recorded>>
       ELSE Records(Main, app)
    /\ UNCHANGED <<webVars, app, appFile, onDisk, lock, cut>>

\* UpdateApplicationHandler.Handle: a value that is given replaces the option.
SetOption(t, k) ==
    app' = IF req[t][k] = None THEN app ELSE [app EXCEPT ![k] = req[t][k]]

SetInstance(t) ==
    /\ pc[t] = "updateApplication" /\ step[t] = "out"
    /\ SetOption(t, "instance")
    /\ At(t, "group")
    /\ UNCHANGED <<webVars, appFile, onDisk, lock, args, recorded, cut>>

SetGroup(t) ==
    /\ step[t] = "group"
    /\ SetOption(t, "group")
    /\ At(t, "read")
    /\ UNCHANGED <<webVars, appFile, onDisk, lock, args, recorded, cut>>

\* ... and both options are read again for RecordApplicationToFile.
RecordApplicationToFile(t) ==
    /\ step[t] = "read"
    /\ Records(t, app)
    /\ UNCHANGED <<webVars, app, appFile, onDisk, lock, cut>>

-----------------------------------------------------------------------------
(* RecordMapToFile.                                                        *)

\* Mutated: the mutex is not taken.
LockFile_NoMutex(w) ==
    /\ step[w] = "lock"
    /\ lock' = w
    /\ At(w, "open")
    /\ UNCHANGED <<webVars, app, appFile, onDisk, args, recorded, cut>>

LockFile(w) ==
    /\ step[w] = "lock"
    /\ lock = None
    /\ lock' = w
    /\ At(w, "open")
    /\ UNCHANGED <<webVars, app, appFile, onDisk, args, recorded, cut>>

\* The record ends, with or without an error; a request is answered.
RecordEnds(w) ==
    /\ lock' = None
    /\ At(w, "out")
    /\ args' = [args EXCEPT ![w] = Nothing]
    /\ IF w = Main THEN Waits ELSE GoTo(w, "idle")

\* OpenFile with O_TRUNC, which may fail.
OpenFile(w) ==
    /\ step[w] = "open"
    /\ \/ /\ appFile' = Nothing /\ onDisk' = TRUE /\ cut' = TRUE
          /\ At(w, "line") /\ Waits /\ UNCHANGED <<lock, args>>
       \/ RecordEnds(w) /\ UNCHANGED <<appFile, onDisk, cut>>
    /\ UNCHANGED <<app, recorded>>

\* One line, of either key that is left; an error ends the record.
WriteLine(w) ==
    /\ step[w] = "line"
    /\ \/ \E k \in Keys :
            /\ appFile[k] = None
            /\ appFile' = [appFile EXCEPT ![k] = args[w][k]]
            /\ \E other \in Keys \ {k} :
                 IF appFile[other] = None
                 THEN Waits /\ UNCHANGED <<lock, step, args, cut>>
                 ELSE RecordEnds(w) /\ cut' = FALSE
       \/ RecordEnds(w) /\ UNCHANGED <<appFile, cut>>
    /\ UNCHANGED <<app, onDisk, recorded>>

RecordMapToFile(w) == LockFile(w) \/ OpenFile(w) \/ WriteLine(w)

AppStep(t) == SetInstance(t) \/ SetGroup(t) \/ RecordApplicationToFile(t) \/ RecordMapToFile(t)

\* The process ends and is started with the same flags.
AppCrash ==
    /\ app' = Flags
    /\ lock' = None
    /\ step' = [w \in Writers |-> IF w = Main THEN "start" ELSE "out"]
    /\ args' = [w \in Writers |-> Nothing]
    /\ UNCHANGED <<appFile, onDisk, recorded, cut>>

-----------------------------------------------------------------------------
(* Properties.                                                             *)

\* Updates may overlap, but the file is never put together from two of them: when no
\* one holds the mutex and the last record was finished, its two lines are the two
\* values of one call of RecordMapToFile.
FileIsOneRecord == lock = None /\ onDisk /\ ~cut => appFile \in recorded
=============================================================================
