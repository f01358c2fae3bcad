----------------------------- MODULE MergeCheck -----------------------------
(***************************************************************************)
(* simplcli merge:check (cmd/simplcli/mergecheck-command.go): a table of    *)
(* the open merge requests of many projects, with the state of the head    *)
(* pipeline and of its jobs.  Four stages of StagedPipeline.  A row that   *)
(* met an error is not dropped: it travels on with the error, past the     *)
(* later stages, to a line on stderr.                                      *)
(***************************************************************************)
EXTENDS Naturals, Sequences, FiniteSets

CONSTANTS
    Args,       \* positions of the project arguments, after demux
    Opened,     \* Opened[a]: the merge requests the search of a project answers
    NoMr,       \* the nil ms of a row whose search failed
    Cap         \* capacity of the channels, 10 in the code

Elements(seq) == {seq[k] : k \in DOMAIN seq}

\* How far a row got: err, md, p and r of the struct plsj.
Healthy == {"found", "details", "pipeline", "jobs"}
Broken == {"searchError", "detailsError", "jobsError"}

ArgItems == {<<a>> : a \in Args}
ErrorRow(a) == <<a, NoMr, "searchError">>
MrRows(a) == {<<a, m, state>> : m \in Elements(Opened[a]),
                               state \in (Healthy \cup Broken) \ {"searchError"}}
Item == ArgItems \cup {ErrorRow(a) : a \in Args} \cup UNION {MrRows(a) : a \in Args}

Search == 1   Details == 2   Pipeline == 3   FindJobs == 4
NStages == 4

RowState(x) == x[3]
Becomes(x, state) == <<<<x[1], x[2], state>>>>

FoundRows(a) == [k \in DOMAIN Opened[a] |-> <<a, Opened[a][k], "found">>]

(* What the worker of each stage may send on; every worker sends something. *)

SearchAnswers(x) == {<<ErrorRow(x[1])>>, FoundRows(x[1])}

\* Every later stage first looks at err and passes a broken row on as it is.
UnlessBroken(x, answers) == IF RowState(x) \in Broken THEN {<<x>>} ELSE answers

\* MUTANT of DetailsAnswers: an error ends the goroutine without a row.
DetailsAnswersReturn(x) == UnlessBroken(x, {Becomes(x, "details"), <<>>})

DetailsAnswers(x) == UnlessBroken(x, {Becomes(x, "details"), Becomes(x, "detailsError")})

PipelineAnswers(x) == UnlessBroken(x, {Becomes(x, "pipeline")})

\* MUTANT of JobsAnswers: the error is not kept in the row.
JobsAnswersSilent(x) == UnlessBroken(x, {Becomes(x, "jobs"), <<x>>})

JobsAnswers(x) == UnlessBroken(x, {Becomes(x, "jobs"), Becomes(x, "jobsError")})

RowAnswers(s, x) ==
    CASE s = Search /\ Len(x) = 1   -> SearchAnswers(x)
      [] s = Details /\ Len(x) = 3  -> DetailsAnswers(x)
      [] s = Pipeline /\ Len(x) = 3 -> PipelineAnswers(x)
      [] s = FindJobs /\ Len(x) = 3 -> JobsAnswers(x)
      [] OTHER -> {}

RowSkips(s, x) == FALSE

VARIABLES calling, sending, queue, open, report, done

vars == <<calling, sending, queue, open, report, done>>

P == INSTANCE StagedPipeline WITH
         Source <- ArgItems, Answers <- RowAnswers, Skips <- RowSkips

TypeOK == P!TypeOK
Init == P!Init
Next == P!Next
Spec == Init /\ [][Next]_vars

-----------------------------------------------------------------------------
(* What main makes of a row. *)

\* row.p is not nil.
HasPipeline(x) == RowState(x) \in {"pipeline", "jobs", "jobsError"}

Table == {k \in DOMAIN report :
             HasPipeline(report[k]) /\ RowState(report[k]) \notin Broken}
Stderr == DOMAIN report \ Table

-----------------------------------------------------------------------------
(* Properties. *)

\* The command gives one outcome for everything it was asked about: a project whose
\* search failed has one line on stderr; otherwise each of its merge requests has
\* either one row of the table or one line on stderr, whatever calls failed.
OneOutcomeEach ==
    done => \A a \in Args :
        LET rowsOf(S, m) == Cardinality({k \in S : report[k][1] = a /\ report[k][2] = m})
            failed == rowsOf(Stderr, NoMr)
        IN  /\ failed \in {0, 1}
            /\ rowsOf(Table, NoMr) = 0
            /\ \A m \in Elements(Opened[a]) :
                 rowsOf(Table, m) + rowsOf(Stderr, m) = 1 - failed

\* Main never dereferences a nil: a row of the table has its jobs (res.r), and a line
\* on stderr has an error to print (mergecheck-command.go:172-184).
NoNilDereference ==
    /\ \A k \in Table : RowState(report[k]) = "jobs"
    /\ \A k \in Stderr : RowState(report[k]) \in Broken
=============================================================================
