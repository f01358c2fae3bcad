--------------------------- MODULE AutohealMerge ---------------------------
(***************************************************************************)
(* simplcli autoheal:merge (cmd/simplcli/autoheal-merge-command.go): for   *)
(* each project find the open merge requests, their head pipelines, the    *)
(* failed jobs of those, the Fortify release in the log of the Fortify     *)
(* jobs; mark the findings of the release as false positives, and restart  *)
(* the job.  Six stages of StagedPipeline; what GitLab and Fortify hold is *)
(* given by constants, how each call ends is free.                         *)
(***************************************************************************)
EXTENDS Naturals, Sequences, FiniteSets, Functions

CONSTANTS
    Args,           \* positions of the project arguments, after demux
    Opened,         \* Opened[a]: the open merge requests of the project, a sequence
    HeadPipeline,   \* HeadPipeline[m], or NoPipeline when GitLab answers null
    NoPipeline,
    FailedJobs,     \* FailedJobs[p]: the jobs of scope "failed", a sequence
    FortifyJobs,    \* the jobs with "fortify" in their name
    ReleaseIn,      \* ReleaseIn[j]: the release in the log of a Fortify job, or NoRelease
    NoRelease,
    Cap             \* capacity of the channels, 10 in the code

Elements(seq) == {seq[k] : k \in DOMAIN seq}

MRs == UNION {Elements(Opened[a]) : a \in Args}
JobsOf(m) ==
    IF HeadPipeline[m] = NoPipeline THEN <<>> ELSE FailedJobs[HeadPipeline[m]]
Jobs == UNION {Elements(JobsOf(m)) : m \in MRs}

(* What travels through the channels: an argument, then one of its merge   *)
(* requests (or its head pipeline), then one of the jobs.                  *)
MrItems == UNION {{<<a, m>> : m \in Elements(Opened[a])} : a \in Args}
JobItems == UNION {{<<x[1], x[2], j>> : j \in Elements(JobsOf(x[2]))} : x \in MrItems}
Item == {<<a>> : a \in Args} \cup MrItems \cup JobItems

(* GitLab lists a merge request of a project and a job of a pipeline once. *)
ASSUME MergeAssumption ==
    /\ Cap \in Nat
    /\ IsFiniteSet(Args)
    /\ \A a \in Args : Opened[a] \in Seq(MRs) /\ IsInjective(Opened[a])
    /\ \A m \in MRs : JobsOf(m) \in Seq(Jobs) /\ IsInjective(JobsOf(m))

Search == 1   Details == 2   FindJobs == 3   ReadLog == 4   Mark == 5   Restart == 6
NStages == 6

MergeSource == {<<a>> : a \in Args}

Extend(x, seq) == [k \in DOMAIN seq |-> Append(x, seq[k])]

\* The release in the log; a log that cannot be read is scanned as an empty one.
Released(x) == x[3] \in FortifyJobs /\ ReleaseIn[x[3]] # NoRelease

\* The sequences a worker may send on: <<>> after an error, else what was found.
MergeAnswers(s, x) ==
    {<<>>}
    \cup (IF s = Search /\ Len(x) = 1 THEN {Extend(x, Opened[x[1]])} ELSE {})
    \cup (IF s = FindJobs /\ Len(x) = 2 THEN {Extend(x, JobsOf(x[2]))} ELSE {})
    \cup (IF \/ s = Details /\ Len(x) = 2
             \/ s = ReadLog /\ Len(x) = 3 /\ Released(x)
             \/ s \in {Mark, Restart} /\ Len(x) = 3
          THEN {<<x>>} ELSE {})

\* Only the log stage looks at its item before it starts a goroutine.
MergeSkips(s, x) == s = ReadLog /\ x[3] \notin FortifyJobs

VARIABLES calling, sending, queue, open, report, done

P == INSTANCE StagedPipeline WITH
         Source <- MergeSource, Answers <- MergeAnswers, Skips <- MergeSkips

VARIABLES
    marked,     \* the releases Fortify holds as false positives
    restarts    \* how often GitLab has restarted each job

servers == <<marked, restarts>>
vars == <<P!vars, marked, restarts>>

TypeOK ==
    /\ P!TypeOK
    /\ marked \subseteq {ReleaseIn[j] : j \in FortifyJobs}
    /\ restarts \in [Jobs -> Nat]

Init ==
    /\ P!Init
    /\ marked = {}
    /\ restarts = [j \in Jobs |-> 0]

\* The calls that only read GitLab.
ReadGitlab ==
    /\ \E s \in Search..ReadLog : \E x \in calling[s] : \E out \in MergeAnswers(s, x) :
         P!Answer(s, x, out)
    /\ UNCHANGED servers

\* MUTANT of MarkFalsePositive: the error is printed and the item passed on.
MarkAndGoOn(x, took, out) ==
    /\ P!Answer(Mark, x, <<x>>)
    /\ marked' = IF took THEN marked \cup {ReleaseIn[x[3]]} ELSE marked
    /\ UNCHANGED restarts

\* The bulk edit may have taken effect although its answer is an error or is lost.
MarkFalsePositive(x, took, out) ==
    /\ out = <<x>> => took
    /\ P!Answer(Mark, x, out)
    /\ marked' = IF took THEN marked \cup {ReleaseIn[x[3]]} ELSE marked
    /\ UNCHANGED restarts

\* MUTANT of JobRetry: one more try after an answer that was lost.
JobRetryAgain(x, took, out) ==
    /\ out = <<x>> => took
    /\ P!Answer(Restart, x, out)
    /\ restarts' = IF took THEN [restarts EXCEPT ![x[3]] = @ + (IF out = <<>> THEN 2 ELSE 1)]
                   ELSE restarts
    /\ UNCHANGED marked

\* MUTANT of JobRetry: the row is sent whatever the answer was.
JobRetryUnchecked(x, took, out) ==
    /\ P!Answer(Restart, x, <<x>>)
    /\ restarts' = IF took THEN [restarts EXCEPT ![x[3]] = @ + 1] ELSE restarts
    /\ UNCHANGED marked

\* So may the restart; the row then misses from the report.
JobRetry(x, took, out) ==
    /\ out = <<x>> => took
    /\ P!Answer(Restart, x, out)
    /\ restarts' = IF took THEN [restarts EXCEPT ![x[3]] = @ + 1] ELSE restarts
    /\ UNCHANGED marked

Next ==
    \/ P!Plumbing /\ UNCHANGED servers
    \/ ReadGitlab
    \/ \E x \in calling[Mark] : \E took \in BOOLEAN, out \in MergeAnswers(Mark, x) :
         MarkFalsePositive(x, took, out)
    \/ \E x \in calling[Restart] : \E took \in BOOLEAN, out \in MergeAnswers(Restart, x) :
         JobRetry(x, took, out)

Spec == Init /\ [][Next]_vars

\* Goroutines that can run do, and every exchange with a server ends.
FairSpec == Spec /\ WF_vars(Next)

-----------------------------------------------------------------------------
(* Properties. *)

\* A job is restarted only after the findings of its release are marked, although
\* the two calls go to two servers and are made by different goroutines.
RestartOnlyMarked ==
    \A j \in Jobs : restarts[j] > 0 => j \in FortifyJobs /\ ReleaseIn[j] \in marked

\* The report names only jobs GitLab really restarted.
ReportedWereRestarted ==
    \A k \in DOMAIN report : restarts[report[k][3]] > 0

\* No job is restarted more often than the arguments lead to it: one merge request
\* of one argument restarts it once, whatever failed on the way.
RestartsBounded ==
    \A j \in Jobs : restarts[j] <= Cardinality({x \in JobItems : x[3] = j})

\* The six stages with their channels implement the work list, its end included.
ImplementsWorklist == P!ImplementsWorklist
=============================================================================
