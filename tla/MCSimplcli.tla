----------------------------- MODULE MCSimplcli -----------------------------
(* One line for each command, lines that lead to none, and small servers:   *)
(* two projects with three merge requests; two failed pipelines that count, *)
(* one that does not, jobs that differ in status and log; registries with   *)
(* up to two packages for each of three projects; a name given twice.       *)
EXTENDS Simplcli

MCLines ==
    UNION {{<<g, c>> : c \in Children[g]} : g \in Groups \ {"root"}}
    \cup {<<>>, <<"gitlab">>, <<"gitlab", "nothing">>, <<"kp-new">>}

MCArgs == {1, 2}
MCOpened == [a \in MCArgs |-> IF a = 1 THEN <<"m1", "m2">> ELSE <<"m3">>]

MCFailedPipelines == [a \in MCArgs |-> IF a = 1 THEN <<"p1", "branch">> ELSE <<"p2">>]
MCRelevant == {"p1", "p2"}
MCPipelineJobs ==
    [p1 |-> <<"build", "test", "lint">>, branch |-> <<"b-build">>, p2 |-> <<"package">>]
MCFailedJobs == {"build", "test", "b-build", "package"}
MCSays429 == {"build", "lint", "b-build", "package"}

MCHeadPipeline == [m1 |-> "p1", m2 |-> "p1", m3 |-> "null"]
MCFailedOf == [p1 |-> <<"sast", "fortify">>]
MCFortifyJobs == {"fortify"}
MCReleaseIn == [j \in MCFortifyJobs |-> "r1"]

MCProjectId == [onboarding |-> "796", ch_onboarding |-> "796", users |-> "939"]
MCMembers == [be |-> <<"onboarding", "users">>]
MCWordLists == {<<"all">>, <<"be", "ch_onboarding">>, <<"939", "users">>, <<"unknown">>}

MCMe == <<"me", "len 2">>
MCGiven == <<"given", "len 5">>

Packages == {<<>>, <<"a">>, <<"b", "c">>}
MCRegistries == UNION {[1..n -> Packages] : n \in 1..3}

MCNames == <<"k1", "k2", "k1">>
=============================================================================
