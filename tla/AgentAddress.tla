---------------------------- MODULE AgentAddress ----------------------------
(***************************************************************************)
(* The address under which the agent reports itself, Opts.Ip: set from the *)
(* flags or the interfaces at the start (pkg/options), and in a cluster    *)
(* from the services, at every report of the pods (collector/kubernetes).  *)
(*                                                                         *)
(* Addresses are numbers, in the order of their text.  Of a list joined    *)
(* with commas only the first is kept, the one that setAgentExternalIp     *)
(* takes.  The services are read in the order of the indexer, which is     *)
(* any order.                                                              *)
(***************************************************************************)
EXTENDS Integers, Sequences

CONSTANTS
    Addresses,      \* the addresses and host names there are
    Services,       \* the services there may be
    MaxServices,    \* how many of them at a time
    InterfaceLists  \* what net.Interfaces may return

NoText == 0   \* the empty string

ASSUME AddressAssumption ==
    /\ MaxServices \in Nat
    /\ Addresses \subseteq Int /\ \A x \in Addresses : x > NoText
    /\ \A svc \in Services :
          /\ svc.externalIPs \in Seq(Addresses)
          /\ svc.ingress \in Seq(Addresses \cup {NoText})
          /\ svc.externalName \in Addresses \cup {NoText}

\* Texts for an address that is not there, NoText among them.
None    == -1
Waiting == -2
Unknown == -3
invalidIPs == {None, Waiting, Unknown}

VARIABLES
    localIp,     \* the flag --localIp, or NoText
    interfaces,  \* the interfaces of the host
    indexed,     \* the services in the indexer
    ip,          \* Opts.Ip
    state        \* "boot", "up", or "exit" after a Fatal

addressVars == <<localIp, interfaces, indexed, ip, state>>

AddressInit ==
    /\ localIp \in {NoText, None} \cup Addresses   \* None stands for a text that is no address
    /\ interfaces \in InterfaceLists
    /\ indexed = <<>>
    /\ ip = NoText
    /\ state = "boot"

-----------------------------------------------------------------------------
(* At the start.                                                           *)

\* isValidIP.
isValidIP(text) == text \in Addresses

\* An interface that is up, no loopback, and gives its addresses.  An address of it
\* that is a loopback or no IPv4 address is NoText.
Usable(interface) == interface.up /\ ~interface.loopback /\ ~interface.fails

\* The number a loop that returns at one of S returns at.
First(S) == CHOOSE i \in S : \A j \in S : i <= j

\* GetPrivateIp: the first IPv4 address of the first usable interface that has one.
GetPrivateIp ==
    LET v4(i)  == {j \in DOMAIN interfaces[i].addrs : interfaces[i].addrs[j] # NoText}
        giving == {i \in DOMAIN interfaces : Usable(interfaces[i]) /\ v4(i) # {}}
    IN IF giving = {} THEN NoText ELSE interfaces[First(giving)].addrs[First(v4(First(giving)))]

\* SetOthersByFlags, its part on the address: either choice may be Fatal.
SetOthersByFlags ==
    LET own == IF localIp # NoText THEN localIp ELSE GetPrivateIp IN
    /\ state = "boot"
    /\ IF isValidIP(own) THEN ip' = own /\ state' = "up" ELSE state' = "exit" /\ UNCHANGED ip
    /\ UNCHANGED <<localIp, interfaces, indexed>>

-----------------------------------------------------------------------------
(* The services.                                                           *)

\* loadBalancerStatusStringer, wide: a sorted set; an entry has an IP, a hostname or none.
loadBalancerStatusStringer(svc) ==
    LET given == {svc.ingress[i] : i \in DOMAIN svc.ingress} \ {NoText}
    IN IF given = {} THEN NoText ELSE First(given)

FirstItem(list) == IF list = <<>> THEN NoText ELSE list[1]
OrElse(text, other) == IF text # NoText THEN text ELSE other

getServiceExternalIP(svc) ==
    CASE svc.type \in {"ClusterIP", "NodePort"} -> OrElse(FirstItem(svc.externalIPs), None)
      [] svc.type = "LoadBalancer" ->
           OrElse(loadBalancerStatusStringer(svc), OrElse(FirstItem(svc.externalIPs), Waiting))
      [] svc.type = "ExternalName" -> svc.externalName
      [] OTHER -> Unknown

\* Mutated: the placeholders are not told from addresses.
Choice_AnyText(svc) ==
    IF svc.name # "chaos-agent" \/ getServiceExternalIP(svc) = NoText THEN "continue" ELSE "set"

\* The body of the loop of setAgentExternalIp: another name or an empty text goes on
\* with the next service, a placeholder ends the loop, an address is set.
Choice(svc) ==
    LET text == getServiceExternalIP(svc) IN
    CASE svc.name # "chaos-agent" \/ text = NoText                  -> "continue"
      [] svc.name = "chaos-agent" /\ text \in invalidIPs            -> "return"
      [] OTHER                                                      -> "set"

\* setAgentExternalIp: the flag --localIp is not overwritten; the first service that
\* does not let the loop go on decides.
setAgentExternalIp ==
    LET deciding == {i \in DOMAIN indexed : Choice(indexed[i]) # "continue"}
        svc      == indexed[First(deciding)]
    IN
    /\ state = "up"
    /\ IF localIp = NoText /\ deciding # {} /\ Choice(svc) = "set"
       THEN ip' = getServiceExternalIP(svc)
       ELSE UNCHANGED ip
    /\ UNCHANGED <<localIp, interfaces, indexed, state>>

\* The cluster changes, external.
ServicesChange ==
    /\ state = "up"
    /\ \E n \in 0 .. MaxServices : indexed' \in [1 .. n -> Services]
    /\ UNCHANGED <<localIp, interfaces, ip, state>>

AddressNext == SetOthersByFlags \/ setAgentExternalIp \/ ServicesChange

-----------------------------------------------------------------------------
(* Properties.                                                             *)

\* Whatever becomes of the services, an agent that is up has an address, never a
\* placeholder such as <pending>, and it keeps the one given with --localIp.
AgentHasAddress ==
    state = "up" => ip \in Addresses /\ (localIp # NoText => ip = localIp)
=============================================================================
