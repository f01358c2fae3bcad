--------------------------- MODULE MCChartUpdate ---------------------------
(* Three of the six calls of k8s.yaml: two charts on one branch, then one   *)
(* of them again on the other branch, in the clone the first two left.      *)
EXTENDS ChartUpdate

MCCalls == <<[chart |-> "authority", branch |-> "dsdev"],
             [chart |-> "consumer", branch |-> "dsdev"],
             [chart |-> "authority", branch |-> "dsstaging"]>>
MCWanted == [dsdev |-> "SNAPSHOT", dsstaging |-> "release"]
=============================================================================
