----------------------------- MODULE WebRequest -----------------------------
(***************************************************************************)
(* The way of a request of the server into a handler: the HTTP server      *)
(* (web/server), ServerRequestHandler (web/api) and the two interceptors   *)
(* (transport).  Every request is a goroutine of net/http; the keys are    *)
(* those of AgentSession and are there.                                    *)
(*                                                                         *)
(* Only the part of a request that decides its way is kept: whether the    *)
(* form has a body that decodes, its timestamp, access key and signature,  *)
(* and the parameters of the handler.  Answers are not kept.  A panic ends *)
(* the goroutine without an answer, as net/http recovers it.               *)
(***************************************************************************)
EXTENDS Naturals

CONSTANTS
    Requests,     \* goroutines that handle requests
    Workloads,    \* sets of requests: what the server sends in one behaviour
    MaxRequests   \* how many it sends

\* The handlers of api.Register, but for the ones of ChaosbladeHandler and AgentStartup.
Handlers == {"ping", "installLitmus", "uninstallLitmus", "litmuschaos", "updateApplication"}

ASSUME RequestsAssumption ==
    /\ MaxRequests \in Nat
    /\ \A requests \in Workloads : \A r \in requests : r.handler \in Handlers

VARIABLES
    pc,      \* pc[t]: where goroutine t is
    req,     \* req[t]: the request it handles
    load,    \* the workload
    sent     \* how many requests the server has sent

webVars == <<pc, req, load, sent>>

\* The parts of an HTTP request that the handlers have in common.
Wire == [form : {"broken", "empty", "garbled", "request"},
         ts : {"", "text", "number"}, ak : {"", "other", "own"},
         sign : {"", "wrong", "right"}]

NoRequest == [handler |-> "none"]

\* A goroutine that is "idle" has answered its request, or there was none.
GoTo(t, place) ==
    /\ pc' = [pc EXCEPT ![t] = place]
    /\ req' = IF place = "idle" THEN [req EXCEPT ![t] = NoRequest] ELSE req
    /\ UNCHANGED <<load, sent>>

Waits == UNCHANGED webVars

WebInit ==
    /\ load \in Workloads /\ sent = 0
    /\ pc = [t \in Requests |-> "idle"]
    /\ req = [t \in Requests |-> NoRequest]

-----------------------------------------------------------------------------
(* The interceptors: BuildInterceptor puts the timestamp before the keys.  *)

\* timestampInterceptor.doHandler: a number is there, its value is not looked at.
TimestampAllows(w) == w.ts = "number"

\* Auth: the signature of the body with the own secret key.
Auth(w) == w.sign = "right"

\* authInterceptor.doHandler: the access key may be left out, the signature not.
AuthAllows(w) == /\ w.sign # ""
                 /\ w.ak \in {"", "own"}
                 /\ Auth(w)

\* requestInterceptorChain.Handle along the chain of BuildInterceptor.
Allows(w) == TimestampAllows(w) /\ AuthAllows(w)

\* The HTTP handler and ServerRequestHandler.Handle.  A form that does not parse
\* is not answered, one without a body panics, a body that does not decode is
\* answered with the text of the error, a request that an interceptor refuses with
\* the interceptor's response; the rest goes to the handler.
Handle(t) ==
    /\ pc[t] = "idle"
    /\ sent < MaxRequests
    /\ sent' = sent + 1
    /\ \E r \in load :
        IF r.wire.form = "request" /\ Allows(r.wire)
        THEN req' = [req EXCEPT ![t] = r] /\ pc' = [pc EXCEPT ![t] = r.handler]
        ELSE UNCHANGED <<req, pc>>
    /\ UNCHANGED load

\* PingHandler.Handle.
Ping(t) ==
    /\ pc[t] = "ping"
    /\ GoTo(t, "idle")
=============================================================================
