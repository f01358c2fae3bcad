------------------------------ MODULE Worklist ------------------------------
(***************************************************************************)
(* What the staged commands of simplcli promise: every item the sources    *)
(* name goes through the stages in order, each stage handles it once and   *)
(* replaces it by what its answer holds, what leaves the last stage is     *)
(* reported once, and the command returns when nothing is left to do.      *)
(* There are no goroutines and no channels here.                           *)
(***************************************************************************)
EXTENDS Naturals, Sequences

CONSTANTS
    NStages,
    Source,         \* what the first stage is started with
    Answers(_, _),  \* the results a stage may pass on for an item
    Skips(_, _)     \* the items a stage leaves out

VARIABLES
    pending,    \* the <<stage, item>> pairs still to be handled
    reported,   \* the items in the answer of the command
    done        \* the command has returned

vars == <<pending, reported, done>>

Stages == 1..NStages

Passed(s, out) == {<<s + 1, out[k]>> : k \in DOMAIN out}

Init ==
    /\ pending = {<<1, i>> : i \in Source}
    /\ reported = {}
    /\ done = FALSE

Handle(s, i) ==
    /\ <<s, i>> \in pending
    /\ \E out \in Answers(s, i) :
         pending' = (pending \ {<<s, i>>}) \cup Passed(s, out)
    /\ UNCHANGED <<reported, done>>

LeaveOut(s, i) ==
    /\ <<s, i>> \in pending
    /\ Skips(s, i)
    /\ pending' = pending \ {<<s, i>>}
    /\ UNCHANGED <<reported, done>>

Report(i) ==
    /\ <<NStages + 1, i>> \in pending
    /\ i \notin reported
    /\ pending' = pending \ {<<NStages + 1, i>>}
    /\ reported' = reported \cup {i}
    /\ UNCHANGED done

Return ==
    /\ pending = {}
    /\ done' = TRUE
    /\ UNCHANGED <<pending, reported>>

Next ==
    \/ \E w \in pending :
        \/ w[1] \in Stages /\ (Handle(w[1], w[2]) \/ LeaveOut(w[1], w[2]))
        \/ w[1] = NStages + 1 /\ Report(w[2])
    \/ Return

Spec == Init /\ [][Next]_vars /\ WF_vars(Next)
=============================================================================
