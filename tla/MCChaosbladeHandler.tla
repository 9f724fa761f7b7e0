------------------------ MODULE MCChaosbladeHandler ------------------------
(***************************************************************************)
(* Instances of ChaosbladeHandler for TLC: the command lines of each run.  *)
(***************************************************************************)
EXTENDS ChaosbladeHandler

CONSTANT u1

Line(command, target, uid, async) ==
    [command |-> command, target |-> target, uid |-> uid, async |-> async]

\* Every operation that writes the running map, on one experiment.
RunningCommands ==
    {Line("create", "k8s", NoUid, FALSE), Line("prepare", "jvm", NoUid, FALSE),
     Line("destroy", "os", u1, FALSE), Line("r", "os", u1, FALSE)}

\* The same, and the command lines that leave the handler early.
MixedCommands ==
    {Line("create", "k8s", NoUid, FALSE), Line("p", "jvm", NoUid, FALSE),
     Line("c", "os", NoUid, TRUE), Line("query", "k8s", NoUid, FALSE),
     Line("query", "missing", NoUid, FALSE),
     Line("", "missing", NoUid, FALSE), Line("blank", "missing", NoUid, FALSE),
     Line("d", "os", u1, FALSE), Line("revoke", "os", u1, FALSE)}
=============================================================================
