---------------------------- MODULE Autoheal429 ----------------------------
(***************************************************************************)
(* simplcli autoheal:maven-429 (cmd/simplcli/autoheal-429-command.go):     *)
(* restart the failed jobs whose log says that a download was refused with *)
(* status 429.  Three stages of StagedPipeline on unbuffered channels.     *)
(***************************************************************************)
EXTENDS Naturals, Sequences, FiniteSets

CONSTANTS
    Args,           \* positions of the project arguments, after demux
    FailedPipelines,\* FailedPipelines[a]: what the search of a project answers, a sequence
    Relevant,       \* the pipelines of a merge request, of main or of develop
    PipelineJobs,   \* PipelineJobs[p]: all the jobs of a pipeline, a sequence
    FailedJobs,     \* the jobs with status "failed"
    Says429         \* the jobs whose log has the line looked for

Elements(seq) == {seq[k] : k \in DOMAIN seq}

Pipelines == UNION {Elements(FailedPipelines[a]) : a \in Args}
Jobs == UNION {Elements(PipelineJobs[p]) : p \in Pipelines}

PipeItems == UNION {{<<a, p>> : p \in Elements(FailedPipelines[a])} : a \in Args}
JobItems == UNION {{<<x[1], x[2], j>> : j \in Elements(PipelineJobs[x[2]])} : x \in PipeItems}
Item == {<<a>> : a \in Args} \cup PipeItems \cup JobItems

Search == 1   FindJobs == 2   Heal == 3
NStages == 3
Cap == 0

HealSource == {<<a>> : a \in Args}

Extend(x, seq) == [k \in DOMAIN seq |-> Append(x, seq[k])]

\* What the loop over an answer lets through.
Wanted(seq, S) ==
    LET kept[n \in 0..Len(seq)] ==
            IF n = 0 THEN <<>>
            ELSE IF seq[n] \in S THEN Append(kept[n - 1], seq[n]) ELSE kept[n - 1]
    IN  kept[Len(seq)]

\* MUTANT of FoundPipelines: source and ref are not looked at.
FoundPipelinesAll(x) == Extend(x, FailedPipelines[x[1]])

FoundPipelines(x) == Extend(x, Wanted(FailedPipelines[x[1]], Relevant))

\* MUTANT of FoundJobs: the pipeline is not passed on with the job.
FoundJobsAlone(x) == Extend(<<x[1]>>, Wanted(PipelineJobs[x[2]], FailedJobs))

FoundJobs(x) == Extend(x, Wanted(PipelineJobs[x[2]], FailedJobs))

\* <<>> after an error, else what passes the filter of the stage.
HealAnswers(s, x) ==
    CASE s = Search /\ Len(x) = 1   -> {<<>>, FoundPipelines(x)}
      [] s = FindJobs /\ Len(x) = 2 -> {<<>>, FoundJobs(x)}
      [] s = Heal /\ Len(x) = 3     -> IF x[3] \in Says429 THEN {<<>>, <<x>>} ELSE {<<>>}
      [] OTHER                      -> {}

HealSkips(s, x) == FALSE

VARIABLES calling, sending, queue, open, report, done

P == INSTANCE StagedPipeline WITH
         Source <- HealSource, Answers <- HealAnswers, Skips <- HealSkips

VARIABLES
    dryRun,     \* the flag -dry-run
    restarts    \* how often GitLab has restarted each job

vars == <<P!vars, dryRun, restarts>>

TypeOK ==
    /\ P!TypeOK
    /\ dryRun \in BOOLEAN
    /\ restarts \in [Jobs -> Nat]

Init ==
    /\ P!Init
    /\ dryRun \in BOOLEAN
    /\ restarts = [j \in Jobs |-> 0]

ReadGitlab ==
    /\ \E s \in {Search, FindJobs} : \E x \in calling[s] : \E out \in HealAnswers(s, x) :
         P!Answer(s, x, out)
    /\ UNCHANGED <<dryRun, restarts>>

\* MUTANT of HealJob: the row is sent before the answer of the retry is looked at.
HealJobUnchecked(x, took, out) ==
    /\ P!Answer(Heal, x, out)
    /\ took => ~dryRun /\ x[3] \in Says429
    /\ restarts' = IF took THEN [restarts EXCEPT ![x[3]] = @ + 1] ELSE restarts
    /\ UNCHANGED dryRun

\* MUTANT of HealJob: the flag is ignored.
HealJobNotDry(x, took, out) ==
    /\ P!Answer(Heal, x, out)
    /\ took => x[3] \in Says429
    /\ out = <<x>> => took
    /\ restarts' = IF took THEN [restarts EXCEPT ![x[3]] = @ + 1] ELSE restarts
    /\ UNCHANGED dryRun

\* MUTANT of HealJob: the scan goes on to the next line that says 429.
HealJobEachLine(x, took, out) ==
    /\ P!Answer(Heal, x, out)
    /\ took => ~dryRun /\ x[3] \in Says429
    /\ out = <<x>> /\ ~dryRun => took
    /\ restarts' = IF took THEN [restarts EXCEPT ![x[3]] = @ + 2] ELSE restarts
    /\ UNCHANGED dryRun

\* Read the log; on the line looked for retry the job, unless this is a dry run,
\* and send the row.  A retry may take effect although its answer is an error.
HealJob(x, took, out) ==
    /\ P!Answer(Heal, x, out)
    /\ took => ~dryRun /\ x[3] \in Says429
    /\ out = <<x>> /\ ~dryRun => took
    /\ restarts' = IF took THEN [restarts EXCEPT ![x[3]] = @ + 1] ELSE restarts
    /\ UNCHANGED dryRun

Next ==
    \/ P!Plumbing /\ UNCHANGED <<dryRun, restarts>>
    \/ ReadGitlab
    \/ \E x \in calling[Heal] : \E took \in BOOLEAN, out \in HealAnswers(Heal, x) :
         HealJob(x, took, out)

Spec == Init /\ [][Next]_vars

-----------------------------------------------------------------------------
(* Properties. *)

\* Only failed jobs of a merge request, of main or of develop are restarted, and
\* only when their log blames a 429: the filters of three goroutines add up.
RestartsWanted ==
    \A j \in Jobs : restarts[j] > 0 =>
        /\ j \in FailedJobs \cap Says429
        /\ \E p \in Pipelines \cap Relevant : j \in Elements(PipelineJobs[p])

\* A job is restarted at most once for each way the arguments lead to it.
RestartsBounded ==
    \A j \in Jobs : restarts[j] <= Cardinality({x \in JobItems : x[3] = j})

\* The report names only jobs GitLab really restarted, unless this is a dry run,
\* which restarts nothing.
ReportIsHonest ==
    IF dryRun THEN \A j \in Jobs : restarts[j] = 0
    ELSE \A k \in DOMAIN report : restarts[report[k][3]] > 0
=============================================================================
