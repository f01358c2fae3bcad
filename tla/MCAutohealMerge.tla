-------------------------- MODULE MCAutohealMerge --------------------------
(* Two projects.  The two merge requests of the first share their head     *)
(* pipeline; the second has one whose pipeline has not failed and one      *)
(* without a pipeline.                                                     *)
EXTENDS AutohealMerge

MCArgs == {1, 2}
MCOpened == [a \in MCArgs |-> IF a = 1 THEN <<"m1", "m2">> ELSE <<"m3", "m4">>]
MCHeadPipeline ==
    [m1 |-> "p1", m2 |-> "p1", m3 |-> "p2", m4 |-> "null"]
MCFailedJobs == [p1 |-> <<"sast", "fortify">>, p2 |-> <<"fortify-nightly">>]
MCFortifyJobs == {"fortify", "fortify-nightly"}
MCReleaseIn == [j \in MCFortifyJobs |-> IF j = "fortify" THEN "r1" ELSE "r2"]
=============================================================================
