-------------------------- MODULE HeartbeatMonitor --------------------------
(***************************************************************************)
(* The heartbeat loop (conn/heartbeat), which records every result in the  *)
(* bounded HBSnapshotList (pkg/tools/limitedlist.go), and the monitor loop *)
(* (monitor/), which walks the list from the newest result to the oldest   *)
(* and decides whether the agent stops or starts again.                    *)
(*                                                                         *)
(* ForeachReverse copies the list under its lock and walks the copy;       *)
(* hbAlreadyStoped belongs to the monitor goroutine alone, so a check is   *)
(* one step, at the moment of the copy.  Its stop and start events end in  *)
(* sendEventToServer, which drops them: no Uri is registered for them.     *)
(***************************************************************************)
EXTENDS Naturals, Sequences

CONSTANTS
    Cap,             \* the capacity of HBSnapshotList (26)
    StopThreshold,   \* hbStopThreshold (12)
    StartThreshold,  \* hbStartThreshold (3)
    MaxBeats         \* how many heartbeats may fall between two checks

\* The defaults (26, 12, 3) leave room for 15 heartbeats between two checks;
\* with a heartbeat every 5 seconds and a check every 10 there are 2 or 3.
ASSUME MonitorAssumption ==
    /\ Cap \in Nat /\ StopThreshold \in Nat \ {0} /\ StartThreshold \in Nat \ {0}
    /\ MaxBeats \in Nat \ {0}
    /\ MaxBeats + StopThreshold <= Cap + 1
    /\ MaxBeats + StartThreshold <= Cap + 1

VARIABLES
    snapshots,        \* HBSnapshotList: the Success flags, oldest first
    hbAlreadyStoped,
    beats             \* heartbeats since the last check

monitorVars == <<snapshots, hbAlreadyStoped, beats>>

\* Every variable has its type; the list never outgrows its capacity.
MonitorTypeOK ==
    /\ snapshots \in Seq(BOOLEAN) /\ Len(snapshots) <= Cap
    /\ hbAlreadyStoped \in BOOLEAN
    /\ beats \in 0 .. MaxBeats

MonitorInit ==
    /\ snapshots = <<>>
    /\ hbAlreadyStoped = FALSE
    /\ beats = 0

\* Mutated: an element is dropped one too early.
Put_Early(list, value) ==
    LET longer == Append(list, value) IN
    IF Len(longer) >= Cap THEN Tail(longer) ELSE longer

\* Mutated: a full list drops the new element.
Put_KeepsOldest(list, value) ==
    IF Len(list) = Cap THEN list ELSE Append(list, value)

\* Mutated: nothing is ever dropped.
Put_Unbounded(list, value) == Append(list, value)

\* LimitedList.Put: append, and drop the oldest when the list is too long.
Put(list, value) ==
    LET longer == Append(list, value) IN
    IF Len(longer) > Cap THEN Tail(longer) ELSE longer

\* One tick of the heartbeat loop: sendHeartbeat records whether Invoke and the
\* response were successful.
sendHeartbeat(success) ==
    /\ beats < MaxBeats
    /\ beats' = beats + 1
    /\ snapshots' = Put(snapshots, success)
    /\ UNCHANGED hbAlreadyStoped

\* Every case of checkHeartBeat in which a count reaches its threshold returns an
\* error, and an error breaks the walk.
Broken(walk) == walk.fail = StopThreshold \/ walk.succ = StartThreshold

\* Mutated: a failure does not reset the count of successes.
Visit_KeepsCount(walk, success) ==
    IF Broken(walk) THEN walk
    ELSE IF success THEN [fail |-> 0, succ |-> walk.succ + 1]
    ELSE [fail |-> walk.fail + 1, succ |-> walk.succ]

\* The callback of checkHeartBeat for one snapshot, unless the walk is broken.
Visit(walk, success) ==
    IF Broken(walk) THEN walk
    ELSE IF success THEN [fail |-> 0, succ |-> walk.succ + 1]
    ELSE [fail |-> walk.fail + 1, succ |-> 0]

\* LimitedList.ForeachReverse with that callback: the counts after i snapshots,
\* newest first.
Walk(list) ==
    LET walk[i \in 0 .. Len(list)] ==
            IF i = 0 THEN [fail |-> 0, succ |-> 0]
            ELSE Visit(walk[i - 1], list[Len(list) + 1 - i])
    IN walk

ForeachReverse(list) == Walk(list)[Len(list)]

\* Mutated: the flag is not reset when the server is back.
check_StaysStopped ==
    LET walk     == ForeachReverse(snapshots)
        needStop == walk.fail = StopThreshold /\ ~hbAlreadyStoped
    IN
    /\ hbAlreadyStoped' = (needStop \/ hbAlreadyStoped)
    /\ beats' = 0
    /\ UNCHANGED snapshots

\* One turn of doMonitor: check, then StopWithReason or StartWithReason, which
\* only send the event.
check ==
    LET walk      == ForeachReverse(snapshots)
        needStop  == walk.fail = StopThreshold /\ ~hbAlreadyStoped
        needStart == walk.succ = StartThreshold /\ hbAlreadyStoped
    IN
    /\ hbAlreadyStoped' = (needStop \/ (hbAlreadyStoped /\ ~needStart))
    /\ beats' = 0
    /\ UNCHANGED snapshots

Beat == \E success \in BOOLEAN : sendHeartbeat(success)

MonitorNext == check \/ Beat

MonitorSpec == MonitorInit /\ [][MonitorNext]_monitorVars

\* Both loops go on for ever: a ticker, and a sleep of ten seconds.
MonitorFairSpec == MonitorSpec /\ WF_monitorVars(check) /\ WF_monitorVars(Beat)

-----------------------------------------------------------------------------
(* The list and the flag stand for the whole history.                      *)

\* The newest n results of a list are all equal to ok.
EndsWith(list, n, ok) ==
    n <= Len(list) /\ \A i \in 1 .. n : list[Len(list) + 1 - i] = ok

Longest(list, max, ok) ==
    CHOOSE n \in 0 .. max : EndsWith(list, n, ok) /\ (n = max \/ ~EndsWith(list, n + 1, ok))

\* The positions where a run that decides ends.
Runs(list, threshold, ok) ==
    {i \in threshold .. Len(list) : \A j \in 0 .. threshold - 1 : list[i - j] = ok}

Stops(list)  == Runs(list, StopThreshold, FALSE)
Starts(list) == Runs(list, StartThreshold, TRUE)

\* What the last run that decides says; with none left in the list, the flag.
Down ==
    LET deciding == Stops(snapshots) \cup Starts(snapshots) IN
    IF deciding = {} THEN hbAlreadyStoped
    ELSE \E i \in Stops(snapshots) : \A j \in deciding : j <= i

Verdict == INSTANCE HeartbeatVerdict
             WITH failing    <- Longest(snapshots, StopThreshold, FALSE),
                  succeeding <- Longest(snapshots, StartThreshold, TRUE),
                  down       <- Down,
                  announced  <- hbAlreadyStoped

-----------------------------------------------------------------------------
(* Properties.                                                             *)

\* Each check announces what the whole history of heartbeats says: the bounded
\* list never drops a run of results before a check has seen it, and the walk
\* from the newest end finds the run that counts.
ImplementsVerdict == Verdict!Spec

Newest(ok) == EndsWith(snapshots, 1, ok)

\* A server that stops answering for good is noticed and stays so.
OutageIsNoticed == <>[]Newest(FALSE) => <>[]hbAlreadyStoped

\* A server that answers again for good is noticed and stays so.
RecoveryIsNoticed == <>[]Newest(TRUE) => <>[](~hbAlreadyStoped)
=============================================================================
