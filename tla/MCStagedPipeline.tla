-------------------------- MODULE MCStagedPipeline --------------------------
(* Three stages: the first finds up to two items for each source, the      *)
(* second leaves one out, every call may fail.  An item is the path to it. *)
EXTENDS StagedPipeline

MCSource == {<<1>>, <<2>>}
MCItem == MCSource \cup {<<a, b>> : a \in 1..2, b \in 1..2}

MCAnswers(s, x) ==
    IF s = 1 THEN {<<>>, <<Append(x, 1)>>, <<Append(x, 1), Append(x, 2)>>} \cap Seq(MCItem)
    ELSE {<<>>, <<x>>}

MCSkips(s, x) == s = 2 /\ x = <<2, 1>>

ASSUME NamedByPath == Distinct
=============================================================================
