--------------------------- MODULE MCConversions ---------------------------
(* Instances of Conversions for TLC.                                       *)
EXTENDS Conversions, SequencesExt

\* Components with a path and without, up to three of them, or four without.
Component == {<<x>> : x \in Segments} \cup {<<x, y>> : x \in Segments, y \in {"name", ""}}
AllTexts  == UNION {[1 .. n -> Component] : n \in 1 .. 3}
             \cup [1 .. 4 -> {<<x>> : x \in Segments}]

AllPods ==
    [inits : BoundedSeq(InitStates, 2), containers : BoundedSeq(States, 2),
     phase : {"Running", "Unknown"}, reason : {"", "NodeLost", "Completed"}, deleted : BOOLEAN]

Lines == [label : {"exact", "fold"}, colons : 1 .. 2, words : {<<>>, <<"1.7">>, <<"1.8", "x">>}]
         \cup {[label |-> "other", colons |-> 1, words |-> <<"1.9">>]}
AllBlades ==
    [exists : {TRUE}, succeeds : {TRUE}, lines : BoundedSeq(Lines, 3)]
    \cup [exists : BOOLEAN, succeeds : {FALSE}, lines : {<<>>}]

Service(name, type) ==
    [name |-> name, type |-> type, externalIPs |-> <<>>, ingress |-> <<>>, externalName |-> NoText]

AgentServices ==
    {Service("chaos-agent", type) : type \in {"ClusterIP", "LoadBalancer", "ExternalName", "other"}}
    \cup {[Service("chaos-agent", type) EXCEPT !.externalIPs = <<2, 1>>] :
            type \in {"NodePort", "LoadBalancer"}}
    \cup {[Service("chaos-agent", "LoadBalancer") EXCEPT !.ingress = list] :
            list \in {<<3, 1>>, <<NoText, 2>>, <<NoText>>}}
    \cup {[Service("chaos-agent", "ExternalName") EXCEPT !.externalName = 3],
          [Service("other", "ClusterIP") EXCEPT !.externalIPs = <<3>>]}

Interface(up, loopback, fails, addrs) ==
    [up |-> up, loopback |-> loopback, fails |-> fails, addrs |-> addrs]

HostInterfaces ==
    {<<>>,
     <<Interface(TRUE, TRUE, FALSE, <<1>>), Interface(TRUE, FALSE, FALSE, <<NoText, 2>>)>>,
     <<Interface(FALSE, FALSE, FALSE, <<1>>), Interface(TRUE, FALSE, TRUE, <<>>),
       Interface(TRUE, FALSE, FALSE, <<NoText>>), Interface(TRUE, FALSE, FALSE, <<3, 1>>)>>}
=============================================================================
