---------------------------- MODULE Conversions ----------------------------
(***************************************************************************)
(* The places where the agent makes decisions from text that others wrote: *)
(* the reference of a chart, the state of a pod, the version of            *)
(* chaosblade, and its own address.  The first three are functions: a      *)
(* behaviour picks an input and converts it.                               *)
(***************************************************************************)
EXTENDS ChartReference, PodState, BladeVersion, AgentAddress

CONSTANTS
    Texts,        \* references: sequences of components
    PodObjects,   \* pods
    Blades        \* chaosblade: whether it is there, succeeds, and what it prints

\* What strings.Split gives is never empty.
ASSUME ConversionAssumption ==
    /\ \A s \in Texts : s \in Seq(Seq(Segments) \ {<<>>}) \ {<<>>}
    /\ \A pod \in PodObjects : pod.inits \in Seq(InitStates) /\ pod.containers \in Seq(States)
                        /\ pod.deleted \in BOOLEAN
    /\ \A blade \in Blades : blade.lines \in Seq(VersionLine)

VARIABLES
    task,    \* "reference", "pod", "version" or "address"
    input,   \* what is converted, in a sequence of one element
    output   \* the result, likewise

conversionVars == <<task, input, output, addressVars>>

NoAddress ==
    /\ localIp = NoText /\ interfaces = <<>> /\ indexed = <<>> /\ ip = NoText
    /\ state = "exit"

ConversionInit ==
    /\ output = <<>>
    /\ \/ task = "reference" /\ (\E s \in Texts : input = <<s>>) /\ NoAddress
       \/ task = "pod" /\ (\E p \in PodObjects : input = <<p>>) /\ NoAddress
       \/ task = "version" /\ (\E b \in Blades : input = <<b>>) /\ NoAddress
       \/ task = "address" /\ input = <<>> /\ AddressInit

Converts(kind, result) ==
    /\ task = kind /\ output = <<>>
    /\ output' = result
    /\ UNCHANGED <<task, input, addressVars>>

ConversionNext ==
    \/ Converts("reference", <<ParseReference(input[1])>>)
    \/ Converts("pod", <<getPodState(input[1])>>)
    \/ Converts("version", <<GetChaosBladeVersion(input[1])>>)
    \/ AddressNext /\ UNCHANGED <<task, input, output>>

ConversionSpec == ConversionInit /\ [][ConversionNext]_conversionVars

-----------------------------------------------------------------------------
(* Properties.                                                             *)

\* ParseReference takes exactly the references, with at most one colon before the tag
\* and a port behind it, and loses nothing: FullName gives the text back, but for a
\* colon at its end.  A numeric tag without a port before it is taken for a port.
ReferenceIsLossless ==
    task = "reference" /\ output # <<>> =>
        LET ref == output[1] IN
        IF IsReference(input[1]) THEN FullName(ref) = Canonical(input[1]) ELSE ref = Invalid

\* getPodState reports the cause that comes first, although its loop over the
\* containers runs backwards and lets later turns overwrite earlier ones.
PodStateIsFirst ==
    task = "pod" /\ output # <<>> => IsStateOf(output[1], input[1])

\* The version is the first one stated under the label Version:, otherwise the first
\* under another spelling; an error means that there is none, or no blade.
VersionIsStated ==
    task = "version" /\ output # <<>> =>
        IF input[1].exists /\ input[1].succeeds
        THEN IsVersionOf(output[1], input[1].lines)
        ELSE output[1] = NoVersionFound
=============================================================================
