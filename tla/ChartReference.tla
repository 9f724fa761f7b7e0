-------------------------- MODULE ChartReference --------------------------
(***************************************************************************)
(* References to charts, "repo:tag" (pkg/helm3/registry/reference.go).     *)
(*                                                                         *)
(* A text is the sequence of its components, the parts between colons; a   *)
(* component is the sequence of its segments, the parts between slashes.   *)
(* A segment is of one of four classes; names are such that url.Parse      *)
(* accepts them.                                                           *)
(***************************************************************************)
EXTENDS Naturals, Sequences

Segments == {"name", "port", "number", ""}   \* a "number" is too large for a port

\* strconv.Atoi of fixSplitComponents, and validPortRegEx of isValidPort.
IsNumber(segment) == segment \in {"port", "number"}
isValidPort(segment) == segment = "port"

EmptyText == <<"">>

\* Mutated: a port is not told from a tag.
fixSplitComponents_NoPort(c) == [i \in DOMAIN c |-> <<c[i]>>]

\* fixSplitComponents, which joins a host and its port: a sequence of texts, each of
\* them a sequence of components.
fixSplitComponents(c) ==
    IF Len(c) > 1 /\ IsNumber(c[2][1])
    THEN <<SubSeq(c, 1, 2)>> \o [i \in 1 .. Len(c) - 2 |-> <<c[i + 2]>>]
    ELSE [i \in DOMAIN c |-> <<c[i]>>]

\* validateRepo and validateNumColons; the tag has no colon, as the text was split.
validate(ref) ==
    /\ ref.repo # <<EmptyText>>
    /\ Len(ref.repo) <= 2
    /\ Len(ref.repo) = 2 => isValidPort(ref.repo[2][1])

Invalid == [repo |-> <<>>, tag |-> EmptyText]

ParseReference(s) ==
    LET c   == fixSplitComponents(s)
        ref == CASE Len(c) = 1 -> [repo |-> c[1], tag |-> EmptyText]
                 [] Len(c) = 2 -> [repo |-> c[1], tag |-> c[2][1]]
                 [] Len(c) = 3 -> [repo |-> c[1] \o c[2], tag |-> c[3][1]]
                 [] OTHER      -> Invalid
    IN IF Len(c) <= 3 /\ validate(ref) THEN ref ELSE Invalid

\* Reference.FullName.
FullName(ref) == IF ref.tag = EmptyText THEN ref.repo ELSE Append(ref.repo, ref.tag)

-----------------------------------------------------------------------------
(* What a reference is.                                                    *)

\* A host with a port, and a path behind it.
HasPort(s) == Len(s) > 1 /\ IsNumber(s[2][1])

\* repo, host:port/path, repo:tag and host:port/path:tag.
IsReference(s) ==
    /\ s[1] # EmptyText \/ HasPort(s)
    /\ Len(s) <= IF HasPort(s) THEN 3 ELSE 2
    /\ HasPort(s) => isValidPort(s[2][1])

\* The text without an empty tag at its end.
Canonical(s) == IF Len(s) > 1 /\ s[Len(s)] = EmptyText THEN SubSeq(s, 1, Len(s) - 1) ELSE s
=============================================================================
