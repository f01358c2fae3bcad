---------------------------- MODULE ChartUpdate ----------------------------
(***************************************************************************)
(* The cron job of script/update-chart-dependencies (k8s.yaml and          *)
(* update-chart-dependencies.bash): every minute a pod goes through the    *)
(* charts of two branches of one git repository, writes the last published *)
(* version of the wanted kind into each, commits and pushes.  The calls of *)
(* a pod share one clone and nobody looks at their exit codes; a push that *)
(* failed leaves its commit in the clone, and the clone goes with the pod. *)
(*                                                                         *)
(* A branch is its sequence of commits, a version its position in the      *)
(* sequence of publications; each chart stands for all its dependencies.   *)
(***************************************************************************)
EXTENDS Naturals, Sequences, SequencesExt

CONSTANTS
    Calls,          \* the calls of a pod: a sequence of [chart, branch]
    Wanted,         \* Wanted[b]: the kind --version-filter lets through on a branch
    NoHead,         \* no local branch yet
    MaxPublished,   \* bound: publications
    MaxEdits,       \* bound: commits of others
    MaxFaults       \* bound: requests without an answer and pods that are killed

Branches == {Calls[k].branch : k \in DOMAIN Calls}
Charts == {Calls[k].chart : k \in DOMAIN Calls}
Kinds == {Wanted[b] : b \in Branches}
Versions == 0..MaxPublished
Commits == [chart : Charts, version : Versions, by : {"job", "other"}]

ASSUME ChartAssumption ==
    /\ Calls \in Seq([chart : Charts, branch : Branches])
    /\ Calls # <<>>
    /\ NoHead \notin Seq(Commits)
    /\ {MaxPublished, MaxEdits, MaxFaults} \subseteq Nat

VARIABLES
    registry,   \* the kinds of the publications, the last created at the end
    remote,     \* remote[b]: the commits of the branch at the server
    tracking,   \* tracking[b]: origin/b in the clone
    head,       \* head[b]: the local branch in the clone, or NoHead
    cloned,     \* the clone of this pod exists
    call,       \* the call the pod is at
    step,       \* where that call is, or "idle" between two pods
    edits, faults

clone == <<tracking, head, cloned>>
vars == <<registry, remote, clone, call, step, edits, faults>>

TypeOK ==
    /\ registry \in Seq(Kinds) /\ Len(registry) <= MaxPublished
    /\ remote \in [Branches -> Seq(Commits)]
    /\ tracking \in [Branches -> Seq(Commits)]
    /\ head \in [Branches -> Seq(Commits) \cup {NoHead}]
    /\ cloned \in BOOLEAN
    /\ call \in DOMAIN Calls
    /\ step \in {"idle", "clone", "checkout", "pull", "update", "push"}
    /\ edits \in 0..MaxEdits
    /\ faults \in 0..MaxFaults

Init ==
    /\ registry = <<>>
    /\ remote = [b \in Branches |-> <<>>]
    /\ tracking = remote
    /\ head = [b \in Branches |-> NoHead]
    /\ cloned = FALSE
    /\ call = 1
    /\ step = "idle"
    /\ edits = 0
    /\ faults = 0

\* The version of a chart after some commits.
VersionOf(chart, history) ==
    LET of == SelectSeq(history, LAMBDA c : c.chart = chart)
    IN  IF of = <<>> THEN 0 ELSE Last(of).version

\* MUTANT of LatestOf: the version filter lets everything through.
LatestOfAny(branch, current) == IF registry = <<>> THEN current ELSE Len(registry)

\* jq: sort_by(.created), select, last; without one the current version stays.
LatestOf(branch, current) ==
    LET passing == {k \in DOMAIN registry : registry[k] = Wanted[branch]}
    IN  IF passing = {} THEN current ELSE CHOOSE k \in passing : \A j \in passing : j <= k

chart == Calls[call].chart
branch == Calls[call].branch

-----------------------------------------------------------------------------
(* One call of update_chart. *)

\* MUTANT of NextCall: a call too many.
NextCallOver ==
    IF call > Len(Calls) THEN call' = 1 /\ step' = "idle"
    ELSE call' = call + 1 /\ step' = "clone"

\* Whatever became of this call, the next one follows, or the pod ends.
NextCall ==
    IF call = Len(Calls) THEN call' = 1 /\ step' = "idle"
    ELSE call' = call + 1 /\ step' = "clone"

outside == <<registry, edits>>

\* A request is answered, or this is one of the faults.
Fault(answered) ==
    IF answered THEN UNCHANGED faults ELSE faults < MaxFaults /\ faults' = faults + 1

\* The schedule starts a pod when the last one has ended (concurrencyPolicy Forbid).
StartPod ==
    /\ step = "idle"
    /\ step' = "clone"
    /\ cloned' = FALSE
    /\ head' = [b \in Branches |-> NoHead]
    /\ UNCHANGED <<outside, faults, remote, tracking, call>>

\* Only when the directory is missing.  Without a clone no later command of the call
\* finds a repository or a chart.
Clone(answered) ==
    /\ step = "clone"
    /\ cloned => answered
    /\ Fault(answered)
    /\ IF answered
       THEN step' = "checkout" /\ UNCHANGED call
       ELSE NextCall
    /\ cloned' = (cloned \/ answered)
    /\ tracking' = IF ~cloned /\ answered THEN remote ELSE tracking
    /\ UNCHANGED <<outside, remote, head>>

\* git checkout makes the local branch from origin when there is none.  It succeeds: both
\* branches exist, and what a call has written it has committed.
Checkout ==
    /\ step = "checkout"
    /\ head' = [head EXCEPT ![branch] = IF @ = NoHead THEN tracking[branch] ELSE @]
    /\ step' = "pull"
    /\ UNCHANGED <<outside, faults, remote, tracking, cloned, call>>

\* git pull fetches all branches and fast-forwards this one; on branches that have
\* diverged, as on an error, it fails and the script goes on.
Pull(answered) ==
    /\ step = "pull"
    /\ Fault(answered)
    /\ step' = "update"
    /\ tracking' = IF answered THEN remote ELSE tracking
    /\ head' = IF answered /\ IsPrefix(head[branch], remote[branch])
               THEN [head EXCEPT ![branch] = remote[branch]]
               ELSE head
    /\ UNCHANGED <<outside, remote, cloned, call>>

\* Read the chart, ask the registry, write the chart, git add, git commit: with nothing
\* to commit it fails, and && leaves out the push.
Update(answered) ==
    /\ step = "update"
    /\ Fault(answered)
    /\ LET current == VersionOf(chart, head[branch])
           new == IF answered THEN LatestOf(branch, current) ELSE current
       IN  IF new = current
           THEN NextCall /\ UNCHANGED head
           ELSE /\ head' = [head EXCEPT ![branch] =
                              Append(@, [chart |-> chart, version |-> new, by |-> "job"])]
                /\ step' = "push"
                /\ UNCHANGED call
    /\ UNCHANGED <<outside, remote, tracking, cloned>>

\* MUTANT of Push: git push --force.
PushForce(result) ==
    /\ step = "push"
    /\ Fault(result = "ok")
    /\ remote' = IF result = "failed" THEN remote ELSE [remote EXCEPT ![branch] = head[branch]]
    /\ tracking' = IF result = "ok" THEN [tracking EXCEPT ![branch] = head[branch]] ELSE tracking
    /\ NextCall
    /\ UNCHANGED <<outside, head, cloned>>

\* MUTANT of Push: git push without the branch, which stays in the clone.
PushNothing(result) ==
    /\ step = "push"
    /\ UNCHANGED faults
    /\ NextCall
    /\ UNCHANGED <<outside, remote, tracking, head, cloned>>

\* The server refuses a push that is not a fast-forward.  "lost": it took the push and
\* the answer did not arrive.
Push(result) ==
    /\ step = "push"
    /\ Fault(result = "ok" \/ ~IsPrefix(remote[branch], head[branch]))
    /\ result # "failed" => IsPrefix(remote[branch], head[branch])
    /\ remote' = IF result = "failed" THEN remote ELSE [remote EXCEPT ![branch] = head[branch]]
    /\ tracking' = IF result = "ok" THEN [tracking EXCEPT ![branch] = head[branch]] ELSE tracking
    /\ NextCall
    /\ UNCHANGED <<outside, head, cloned>>

\* The pod is evicted or its image is gone.
Kill ==
    /\ step # "idle"
    /\ Fault(FALSE)
    /\ step' = "idle"
    /\ call' = 1
    /\ UNCHANGED <<outside, remote, clone>>

-----------------------------------------------------------------------------
(* The others. *)

Publish(kind) ==
    /\ Len(registry) < MaxPublished
    /\ registry' = Append(registry, kind)
    /\ UNCHANGED <<remote, clone, call, step, edits, faults>>

\* Somebody pushes a commit that sets a chart back.
Edit(c, b) ==
    /\ edits < MaxEdits
    /\ edits' = edits + 1
    /\ remote' = [remote EXCEPT ![b] = Append(@, [chart |-> c, version |-> 0, by |-> "other"])]
    /\ UNCHANGED <<registry, clone, call, step, faults>>

Job ==
    \/ StartPod \/ Checkout
    \/ \E answered \in BOOLEAN : Clone(answered) \/ Pull(answered) \/ Update(answered)
    \/ \E result \in {"ok", "failed", "lost"} : Push(result)

Next ==
    \/ Job \/ Kill
    \/ \E kind \in Kinds : Publish(kind)
    \/ \E c \in Charts, b \in Branches : Edit(c, b)

(* The schedule starts a pod again and again, and its commands run; after  *)
(* the last of the faults every request is answered.                       *)
Spec == Init /\ [][Next]_vars /\ WF_vars(Job)

-----------------------------------------------------------------------------
(* Properties. *)

\* No commit is ever taken out of a branch, although the job commits on what it last
\* saw of it: the history of the server only grows (git push without force).
NothingLost ==
    [][\A b \in Branches : IsPrefix(remote[b], remote'[b])]_vars

\* The calls for both branches share a clone, and still no version of the wrong kind
\* gets onto a branch: the staging branch holds no snapshot (k8s.yaml:33-38).
FilterKept ==
    \A b \in Branches : \A k \in DOMAIN remote[b] :
        remote[b][k].by = "job" => registry[remote[b][k].version] = Wanted[b]

\* "keeps the dependencies of the Chart.yaml for each agent in the iaa-dsdev environment
\* in sync with the version published on the develop branch of the microservices"
\* (simpl-repo/docs/charts/update-chart-dependencies/README.md:3).  The version in
\* question is, in the code, the last one the filter of the call lets through
\* (k8s.yaml:33-38): once nothing is published and nobody commits any more, every chart
\* gets to that version and stays there, whatever requests fail, whatever pods are killed
\* and whatever commits were left in their clones.
InSync ==
    <>[](\A k \in DOMAIN Calls :
           LET current == VersionOf(Calls[k].chart, remote[Calls[k].branch])
           IN  current = LatestOf(Calls[k].branch, current))
=============================================================================
