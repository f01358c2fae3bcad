------------------------- MODULE MCAutohealFortify -------------------------
(* One project with one merge request and two failed Fortify jobs, so that  *)
(* two workers of the fifth stage meet in the client.                       *)
EXTENDS AutohealFortify

MCOpened == [a \in {1} |-> <<"m1">>]
MCHeadPipeline == [m1 |-> "p1"]
MCFailedJobs == [p1 |-> <<"fortify", "fortify-nightly">>]
MCFortifyJobs == {"fortify", "fortify-nightly"}
MCReleaseIn == [j \in MCFortifyJobs |-> IF j = "fortify" THEN "r1" ELSE "r2"]
=============================================================================
