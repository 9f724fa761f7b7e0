---------------------------- MODULE AgentSession ----------------------------
(***************************************************************************)
(* The session of an agent with the server.  conn.Start runs the           *)
(* registration (conn/connect), the heartbeat loop (conn/heartbeat) and    *)
(* the reports side by side.  The registration brings a cid and the pair   *)
(* of keys; every other request is built by NewRequest, signed by the      *)
(* interceptors of transport with the keys it finds at that moment, and    *)
(* sent.  A signal makes tools.Hold send a close request (conn/close), for *)
(* which the process waits two seconds.                                    *)
(*                                                                         *)
(* A registration is a number: its cid, its access key and its secret key  *)
(* are all written as that number, 0 standing for the empty string.  The   *)
(* server is external: it issues the registrations and takes a request     *)
(* when the signature fits the access key.                                 *)
(***************************************************************************)
EXTENDS Naturals

CONSTANTS
    Senders,       \* the loops that send requests: heartbeat, reports
    MaxRestarts,   \* how often the agent may be started again
    MaxSignals     \* how often the agent may get a signal

ASSUME SessionAssumption == MaxRestarts \in Nat /\ MaxSignals \in Nat

\* The goroutines Shutdown starts, one for each signal.
Closers == 1 .. MaxSignals

ASSUME SendersAssumption == Senders \cap Closers = {}

VARIABLES
    proc,     \* the process: "up", "closing" (SIGTERM), "quitting" (SIGQUIT), "down"
    conn,     \* the goroutine of the registration
    cid,      \* options.Opts.Cid
    ak, sk,   \* localAccessKey, localSecureKey
    at,       \* at[t]: where sender t is
    reqCid,   \* reqCid[t]: the cid in the headers of its request
    reqAk,    \* reqAk[t]: the access key of its request
    reqKey,   \* reqKey[t]: the secret key its request is signed with
    issued,   \* the registrations the server has issued (external)
    heard,    \* the last registration the server had a request of (external)
    cidless,  \* history: signed requests of t without a cid since the start
    restarts, signals

sendVars   == <<at, reqCid, reqAk, reqKey, cidless>>
keyVars    == <<conn, cid, ak, sk>>
serverVars == <<issued, heard>>
boundVars  == <<restarts, signals>>
sessionVars == <<proc, keyVars, sendVars, serverVars, boundVars>>

Threads == Senders \cup Closers
ConnPCs == {"send", "granted", "keys", "record", "done", "blocked"}
SendPCs == {"idle", "built", "ak", "sign", "post", "done"}

\* Every variable has its type.
SessionTypeOK ==
    /\ proc \in {"up", "closing", "quitting", "down"}
    /\ conn \in ConnPCs
    /\ cid \in Nat /\ ak \in Nat /\ sk \in Nat
    /\ at \in [Threads -> SendPCs]
    /\ \A t \in Senders : at[t] # "done"
    /\ reqCid \in [Threads -> Nat]
    /\ reqAk \in [Threads -> Nat]
    /\ reqKey \in [Threads -> Nat]
    /\ cidless \in [Threads -> Nat]
    /\ issued \in Nat /\ heard \in Nat
    /\ restarts \in 0 .. MaxRestarts
    /\ signals \in 0 .. MaxSignals

Zero == [t \in Threads |-> 0]
StartPC == [t \in Threads |-> IF t \in Senders THEN "idle" ELSE "done"]

SessionInit ==
    /\ proc = "up" /\ conn = "send"
    /\ cid = 0 /\ ak = 0 /\ sk = 0
    /\ at = StartPC
    /\ reqCid = Zero /\ reqAk = Zero /\ reqKey = Zero /\ cidless = Zero
    /\ issued = 0 /\ heard = 0
    /\ restarts = 0 /\ signals = 0

Running == proc # "down"

-----------------------------------------------------------------------------
(* The registration: ClientConnectHandler.Start, once per process.         *)

\* The server answers with a new registration; the answer may get lost, be a
\* failure or have no result, which is an error of Start.  The error is sent
\* into a channel that conn.Start never made: the goroutine blocks for ever.
Register ==
    /\ Running /\ conn = "send"
    /\ \/ conn' = "granted" /\ issued' = issued + 1
       \/ conn' = "blocked" /\ issued' \in {issued, issued + 1}
    /\ UNCHANGED <<proc, cid, ak, sk, sendVars, heard, boundVars>>

\* SetCid (and SetUid); keys that are missing are an error of Start.
handleDirectHttpConnectResponse ==
    /\ Running /\ conn = "granted"
    /\ cid' = issued
    /\ conn' \in {"keys", "blocked"}
    /\ UNCHANGED <<proc, ak, sk, sendVars, serverVars, boundVars>>

\* RecordSecretKeyToFile: an empty key or a failing file is an error of Start.
RecordMapToFile ==
    /\ Running /\ conn = "keys"
    /\ conn' \in {"record", "blocked"}
    /\ UNCHANGED <<proc, cid, ak, sk, sendVars, serverVars, boundVars>>

\* RecordSecretKeyToFile sets the two keys after the lock is released: a reader
\* may see either of them first.
SetAccessKey ==
    /\ Running /\ conn = "record" /\ ak = 0
    /\ ak' = issued
    /\ conn' = IF sk = 0 THEN "record" ELSE "done"
    /\ UNCHANGED <<proc, cid, sk, sendVars, serverVars, boundVars>>

SetSecureKey ==
    /\ Running /\ conn = "record" /\ sk = 0
    /\ sk' = issued
    /\ conn' = IF ak = 0 THEN "record" ELSE "done"
    /\ UNCHANGED <<proc, cid, ak, sendVars, serverVars, boundVars>>

-----------------------------------------------------------------------------
(* A request: NewRequest, TransportClient.Invoke and DoInvoker.            *)

\* A loop waits for its next tick; the goroutine of Shutdown ends.
After(t) == IF t \in Senders THEN "idle" ELSE "done"

\* Mutated: the loop builds one request and sends it again and again.
NewRequest_Once(t) ==
    /\ Running /\ at[t] = "idle"
    /\ at' = [at EXCEPT ![t] = "built"]
    /\ UNCHANGED <<proc, keyVars, reqCid, reqAk, reqKey, cidless, serverVars, boundVars>>

\* A tick of the heartbeat loop, a report or Shutdown builds its request.
NewRequest(t) ==
    /\ Running /\ at[t] = "idle"
    /\ at' = [at EXCEPT ![t] = "built"]
    /\ reqCid' = [reqCid EXCEPT ![t] = cid]
    /\ UNCHANGED <<proc, keyVars, reqAk, reqKey, cidless, serverVars, boundVars>>

\* authInterceptor.doInvoker: GetAccessKey ...
GetAccessKey(t) ==
    /\ Running /\ at[t] = "built"
    /\ at' = [at EXCEPT ![t] = "ak"]
    /\ reqAk' = [reqAk EXCEPT ![t] = ak]
    /\ UNCHANGED <<proc, keyVars, reqCid, reqKey, cidless, serverVars, boundVars>>

\* Mutated: one of the two keys is enough.
GetSecureKey_Either(t) ==
    /\ Running /\ at[t] = "ak"
    /\ at' = [at EXCEPT ![t] = IF reqAk[t] = 0 /\ sk = 0 THEN After(t) ELSE "sign"]
    /\ UNCHANGED <<proc, keyVars, reqCid, reqAk, reqKey, cidless, serverVars, boundVars>>

\* Mutated: a heartbeat that fails ends the loop.
GetSecureKey_Ends(t) ==
    /\ Running /\ at[t] = "ak"
    /\ at' = [at EXCEPT ![t] = IF reqAk[t] = 0 \/ sk = 0 THEN "done" ELSE "sign"]
    /\ UNCHANGED <<proc, keyVars, reqCid, reqAk, reqKey, cidless, serverVars, boundVars>>

\* ... and GetSecureKey; without both the request fails as TokenNotFound.
GetSecureKey(t) ==
    /\ Running /\ at[t] = "ak"
    /\ at' = [at EXCEPT ![t] = IF reqAk[t] = 0 \/ sk = 0 THEN After(t) ELSE "sign"]
    /\ UNCHANGED <<proc, keyVars, reqCid, reqAk, reqKey, cidless, serverVars, boundVars>>

\* tools.Sign reads localSecureKey again, and DoInvoker sends the request.
Sign(t) ==
    /\ Running /\ at[t] = "sign"
    /\ at' = [at EXCEPT ![t] = "post"]
    /\ reqKey' = [reqKey EXCEPT ![t] = sk]
    /\ cidless' = [cidless EXCEPT ![t] = @ + (IF reqCid[t] = 0 THEN 1 ELSE 0)]
    /\ UNCHANGED <<proc, keyVars, reqCid, reqAk, serverVars, boundVars>>

\* The server takes a request whose signature fits; the answer arrives, or
\* Invoke returns an error, and the sender is done with the request.
Answer(t) ==
    /\ Running /\ at[t] = "post"
    /\ at' = [at EXCEPT ![t] = After(t)]
    /\ heard' = IF reqKey[t] = reqAk[t] THEN reqAk[t] ELSE heard
    /\ UNCHANGED <<proc, keyVars, reqCid, reqAk, reqKey, cidless, issued, boundVars>>

\* The request never reached the server.
Lost(t) ==
    /\ Running /\ at[t] = "post"
    /\ at' = [at EXCEPT ![t] = After(t)]
    /\ UNCHANGED <<proc, keyVars, reqCid, reqAk, reqKey, cidless, serverVars, boundVars>>

-----------------------------------------------------------------------------
(* tools.Hold and the life of the process.                                 *)

\* Hold takes a signal: the Shutdown hook runs, for SIGQUIT as well.
Signal ==
    /\ proc = "up"
    /\ signals < MaxSignals
    /\ signals' = signals + 1
    /\ proc' \in {"closing", "quitting"}
    /\ at' = [at EXCEPT ![signals + 1] = "idle"]
    /\ UNCHANGED <<keyVars, reqCid, reqAk, reqKey, cidless, serverVars, restarts>>

\* Mutated: Shutdown waits for the answer to its request.
ShutdownEnds_Waits ==
    /\ proc \in {"closing", "quitting"}
    /\ at[signals] = "done"
    /\ proc' = IF proc = "closing" THEN "down" ELSE "up"
    /\ UNCHANGED <<keyVars, sendVars, serverVars, boundVars>>

\* Shutdown's two seconds are over, whether or not the request was answered.
\* After SIGTERM main returns; after SIGQUIT Hold goes on waiting.
ShutdownEnds ==
    /\ proc \in {"closing", "quitting"}
    /\ proc' = IF proc = "closing" THEN "down" ELSE "up"
    /\ UNCHANGED <<keyVars, sendVars, serverVars, boundVars>>

\* The process dies.  (An answer to the registration without a cid is one way:
\* the type assertion panics in a goroutine of its own.)
ProcessDies ==
    /\ Running
    /\ proc' = "down"
    /\ UNCHANGED <<keyVars, sendVars, serverVars, boundVars>>

\* The agent is started again; the key file is written, never read.
Restart ==
    /\ proc = "down"
    /\ restarts < MaxRestarts
    /\ restarts' = restarts + 1
    /\ proc' = "up" /\ conn' = "send"
    /\ cid' = 0 /\ ak' = 0 /\ sk' = 0
    /\ at' = StartPC
    /\ reqCid' = Zero /\ reqAk' = Zero /\ reqKey' = Zero /\ cidless' = Zero
    /\ UNCHANGED <<serverVars, signals>>

Connect ==
    \/ Register \/ handleDirectHttpConnectResponse
    \/ RecordMapToFile \/ SetAccessKey \/ SetSecureKey

Send(t) ==
    NewRequest(t) \/ GetAccessKey(t) \/ GetSecureKey(t) \/ Sign(t) \/ Answer(t)

SessionNext ==
    \/ Connect
    \/ \E t \in Threads : Send(t) \/ Lost(t)
    \/ Signal \/ ShutdownEnds \/ ProcessDies \/ Restart

SessionSpec == SessionInit /\ [][SessionNext]_sessionVars

\* Goroutines run, tickers tick, the sleep of Shutdown ends; a request that is
\* sent time and again is answered in the end.
SessionFairSpec ==
    /\ SessionSpec
    /\ WF_sessionVars(Connect) /\ WF_sessionVars(ShutdownEnds)
    /\ \A t \in Senders : WF_sessionVars(Send(t)) /\ SF_sessionVars(Answer(t))

-----------------------------------------------------------------------------
(* Properties.                                                             *)

\* Every request that leaves the agent carries the access key of the current
\* registration and is signed with the secret key of the same registration,
\* although the two keys are set and read one at a time.
SignedWithOneRegistration ==
    \A t \in Threads : at[t] = "post" =>
        reqAk[t] = reqKey[t] /\ reqAk[t] = issued /\ issued # 0

\* A request may be built before the cid is known and signed after the keys
\* are: each goroutine can send at most one such request without a cid, and
\* never one with the cid of an earlier registration.
CidIsMissedOnce ==
    \A t \in Threads :
        /\ cidless[t] <= 1
        /\ at[t] = "post" => reqCid[t] \in {0, issued}

\* Once the keys are there the server hears of this registration, unless the
\* process ends.
RegisteredIsHeard == (conn = "done" /\ Running) ~> (~Running \/ heard = issued)

\* SIGTERM ends the process, however the server treats the close request.
TerminationEnds == (proc = "closing") ~> (proc = "down")

\* conn.go:68-69, "register conn failed" and os.Exit(1): an agent that could not
\* register does not go on running.
FailedRegistrationExits == (conn = "blocked" /\ Running) ~> ~Running
=============================================================================
