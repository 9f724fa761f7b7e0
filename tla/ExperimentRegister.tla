------------------------- MODULE ExperimentRegister -------------------------
(***************************************************************************)
(* What the handler of the chaosblade requests promises about its running  *)
(* map, without goroutines, mutex, waits or checkers: a book of the        *)
(* experiments that the server was told of.  An experiment is entered once *)
(* in the life of the agent, when the server is told of it and under the   *)
(* request that created it, and it is struck out only after it has ended.  *)
(* A restart empties the book.                                             *)
(***************************************************************************)
CONSTANTS Uids, Requests, NoRequest

VARIABLES
    life,     \* of every experiment: "none", "active" or "ended"
    author,   \* the request that created it
    told,     \* the experiments the server was told of since the agent started
    book      \* of every experiment, the request it is entered under, or NoRequest

vars == <<life, author, told, book>>

Init ==
    /\ life = [u \in Uids |-> "none"]
    /\ author = [u \in Uids |-> NoRequest]
    /\ told = {}
    /\ book = [u \in Uids |-> NoRequest]

\* An experiment is created; it may fail at once.
Begin(u) ==
    /\ life[u] = "none"
    /\ \E s \in {"active", "ended"} : life' = [life EXCEPT ![u] = s]
    /\ \E r \in Requests : author' = [author EXCEPT ![u] = r]
    /\ UNCHANGED <<told, book>>

\* It fails, or is stopped.
End(u) ==
    /\ life[u] = "active"
    /\ life' = [life EXCEPT ![u] = "ended"]
    /\ UNCHANGED <<author, told, book>>

\* The server is told of it, even when it has ended meanwhile.
Enter(u) ==
    /\ life[u] # "none" /\ u \notin told
    /\ told' = told \cup {u}
    /\ book' = [book EXCEPT ![u] = author[u]]
    /\ UNCHANGED <<life, author>>

Strike(u) ==
    /\ life[u] = "ended"
    /\ book' = [book EXCEPT ![u] = NoRequest]
    /\ UNCHANGED <<life, author, told>>

Restart ==
    /\ told' = {}
    /\ book' = [u \in Uids |-> NoRequest]
    /\ UNCHANGED <<life, author>>

Next ==
    \/ \E u \in Uids : Begin(u) \/ End(u) \/ Enter(u) \/ Strike(u)
    \/ Restart

Spec == Init /\ [][Next]_vars
=============================================================================
