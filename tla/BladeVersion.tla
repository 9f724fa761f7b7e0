---------------------------- MODULE BladeVersion ----------------------------
(***************************************************************************)
(* The version of chaosblade in what `blade version` prints                *)
(* (pkg/options/bladeoptions.go).                                          *)
(*                                                                         *)
(* Of a line the label is kept ("exact" for Version:, "fold" for another   *)
(* spelling in small and capital letters, "other"), the number of its      *)
(* colons and the words between the first and the second of them.          *)
(***************************************************************************)
EXTENDS Naturals, Sequences

Labels == {"exact", "fold", "other"}
VersionLine == [label : Labels, colons : Nat, words : Seq(STRING)]

\* A version is in a sequence of one element, an error is the empty sequence.
NoVersionFound == <<>>

\* What a pass returns at a line with its label, if it returns.
LineVersion(line) == IF line.colons = 1 /\ line.words # <<>> THEN <<line.words[1]>> ELSE <<>>

\* A turn of a loop over the lines, unless a turn before it has returned.
PassTurn(found, line, labels) ==
    IF found = <<>> /\ line.label \in labels THEN LineVersion(line) ELSE found

\* A loop over the lines.
Pass(lines, labels) ==
    LET found[i \in 0 .. Len(lines)] ==
          IF i = 0 THEN <<>> ELSE PassTurn(found[i - 1], lines[i], labels)
    IN found[Len(lines)]

\* Mutated: one pass that takes both spellings.
parseVersionFromOutput_OnePass(lines) ==
    LET second == Pass(lines, {"exact", "fold"}) IN
    IF second # <<>> THEN second ELSE NoVersionFound

parseVersionFromOutput(lines) ==
    LET first  == Pass(lines, {"exact"})
        second == Pass(lines, {"exact", "fold"})
    IN CASE first # <<>>                   -> first
         [] first = <<>> /\ second # <<>> -> second
         [] OTHER                        -> NoVersionFound

\* GetChaosBladeVersion: without the binary, or when it fails, there is no version.
GetChaosBladeVersion(blade) ==
    IF blade.exists /\ blade.succeeds THEN parseVersionFromOutput(blade.lines) ELSE NoVersionFound

-----------------------------------------------------------------------------
(* What a version is.                                                      *)

\* Lines that state a version.
Stating(lines, label) ==
    {i \in DOMAIN lines : lines[i].label = label /\ lines[i].colons = 1 /\ lines[i].words # <<>>}

IsVersionOf(v, lines) ==
    LET exact == Stating(lines, "exact")
        fold  == Stating(lines, "fold")
        from  == IF exact # {} THEN exact ELSE fold
    IN IF from = {} THEN v = NoVersionFound
       ELSE \E i \in from : v = <<lines[i].words[1]>> /\ \A j \in from : i <= j
=============================================================================
