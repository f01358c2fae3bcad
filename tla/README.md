# A TLA+ model of simpl-monorepo

The repository is the workbench of a team that develops the Simpl dataspace
middleware: a Go command line (`simplcli`) that talks to GitLab, Fortify,
Keycloak and the Simpl services, shell scripts that set up and reset a
dataspace, a cron job that keeps charts current, a `mise.toml` with the daily
tasks, and deployment descriptions. This directory models the parts in which
something can happen in an order, or fail at a point, that no test in the
repository reaches.

## 1. Inventory

| component | source | state | operations | what is hard | what makes it correct |
|---|---|---|---|---|---|
| Fortify client | `internal/fortify/fortify.go` | pacer channel, cached token and expiry, mutex | `MarkFalsePositive`, `doRequest`, `tokenize` | many goroutines share one client; the token expires; a token request fails with the mutex held | one login at a time, no fresh token replaced, cached expiry honest, the pace kept, every call ends |
| goroutine pipelines | `autoheal-merge-command.go` and others | channels, worker goroutines, wait groups | start, call, send, receive, close, return | close against late senders, full buffers, exit with items in flight | nothing sent on a closed channel, nothing lost, the command returns |
| `autoheal:merge` | `autoheal-merge-command.go` | as above; releases marked at Fortify, jobs restarted at GitLab | six stages | two servers changed in turn, lost answers, shared head pipelines, workers that queue inside the Fortify client | restart only after mark, no more often than asked, honest report, the client costs it only time |
| `autoheal:maven-429` | `autoheal-429-command.go` | as above | three stages | filters spread over goroutines, lost retry answers, dry run | only wanted jobs restarted, honest report |
| `merge:check` | `mergecheck-command.go` | rows that carry an error | four stages | rows with an error pass code that dereferences results | one outcome for each merge request, no nil dereference |
| `pipelines:search`, `merge:search`, `tags:search` | `utils.go`, `pipeline-command.go`, `tags-command.go` | shared `*search`, result channel | one goroutine for each project | unsynchronised write and read of `search.Username` | each query filtered by the current user, one outcome for each project |
| names and groups | `constants.go`, `utils.go` | two tables | `demux`, `Get` | several names for one id, groups, `all` in the order of a map, one project named twice | every project as often as the words stand for it |
| single-call commands | `info-`, `job-`, `fortify-commands.go`, `pipeline-`, `simpl-command.go` | none | `pipelines:jobs`, `merge:details`, `jobs:logs`, `tokenize`, `echo`, `kp-active`, `false-positive`, `projects`, `groups` | an answer that is not 2xx, not JSON, or lost; three kinds of token | exit 0 only when the server did it |
| `pipelines:details` | `pipeline-command.go` | two channels | two calls side by side | either may fail, in any order | exit 0 only when both were answered |
| `registry:search` | `registry-command.go` | channel | one goroutine for all projects | the first error ends it | the answer is that of a prefix of the projects |
| `kp-new` | `simpl-command.go`, `simpl.go` | key pairs at the provider | one goroutine for each name | answer lost after the key pair exists | report and provider agree |
| Keycloak client and commands | `internal/kc`, `kccmd` | realms at the server; a token cache that no process uses twice | list, details, export, import, delete, clients | an answer that is not 2xx, lost, or not what is decoded | exit 0 only when Keycloak did it |
| main, groups, flags | `simplcli.go`, `internal/cmd` | the rest of the command line | parse, descend, refuse, exit | an error three frames below becomes a status | the status says what happened; the process ends |
| authority initialization | `cluster_authority_initialization.bash`, `mise.toml` | key pairs, credentials, participants, CSRs in two services | wait, check, seven calls | crash between calls, lost answers, new runs, services that come and go, databases half cleaned | a clean run always succeeds, credentials fit together, done once |
| EJBCA initialization | `ejbca/entrypoint.sh`, `mise.toml` | the database of EJBCA, files in the pod and on the host | find the pod, upload, run the script, download | scripts outlive their task, pods and databases come and go, failures are walked over | a clean script makes everything; the host never gets an old keystore |
| chart updates | `update-chart-dependencies.bash`, `k8s.yaml` | a clone shared by the calls of a pod, two branches at the server | clone, checkout, pull, update, push | a failed push leaves a commit behind, diverged branches, killed pods | nothing lost, filters kept, charts get current |
| Keycloak autoconfiguration | `mise.toml` | realms, the file with a client secret | clean, import, set urls, download the secret | tries that fail after they took effect, tasks that skip their work with status 0, no pipefail | success means that every realm was imported, no secret of a realm that is gone |
| `services:token` | `mise.toml` | a token file, sessions at Keycloak | read, refresh, log in, write | refused refreshes in the file, two shells on one file, a shell killed in the middle of a write; an unexpired token whose session is gone | after a call that printed no unexpired token the next prints a live one |
| GitLab client | `internal/gitlab` | none | one call each | first page only | (calls are steps of the commands) |
| Simpl client | `internal/simpl` | none | one call each | | (calls are steps of the commands) |
| views, logging | `internal/vw`, `internal/log` | none | | | not modelled |
| dataspace reset, version updates | `script/reset-dataspace.sh`, `script/update-version-projects.bash` | databases, deployments; clones | straight sequences | databases dropped under running services | not modelled |
| other tasks, deployment descriptions | `mise.toml`, `helm-charts`, `systemd`, `.config` | | straight command sequences, configuration | | not modelled |

How they interact. `main` takes the global flags, the groups take one word each,
and the command that the last word names runs goroutines that call a client and
speak over channels; what it returns becomes a table or an exit status. The
fifth stage of `autoheal:merge` calls the Fortify client, whose pacer, mutex and
cache all workers share. The two initializations share nothing with `simplcli`:
one calls two services through curl, the other sends a script into a pod with
kubectl. `db:clean` takes databases away under both. The Keycloak tasks delete
the realms whose tokens `services:token` keeps in its file. The chart job talks
to a git server and a package registry and to nothing else here.

## 2. Modules

| module | models | state and code |
|---|---|---|
| `FortifyClient` | `fortify.go` | `pacer`, `pacerLeft`: the goroutine of `init`; `pc`: where a caller is between lines 63 and 90; `lock`: `tokenSync`; `token`, `tokenLeft`: the cache; `serverLeft`, `lag`: what the token endpoint knows. Time is counted down by `Tick`, so no clock has to be bounded. |
| `Worklist` | the promise of the staged commands | a set of `<<stage, item>>` still to be handled; no goroutine, no channel |
| `StagedPipeline` | the goroutine pattern | `calling`, `sending`: the workers of a stage before and after their answer; `queue`, `open`: its channel; `report`, `done`: main. Capacity 0 is a rendezvous (`HandOver`), otherwise `Send` and `Take`/`Collect`. It implements `Worklist` under the mapping `Undone`. |
| `AutohealMerge`, `Autoheal429`, `MergeCheck`, `NewKeyPair` | the staged commands | instances of `StagedPipeline` (`P`): an item is the path by which a goroutine got its work, `...Answers` is what a worker may send on. The stages that change a server are actions of their own: `MarkFalsePositive`, `JobRetry`, `HealJob`, `GenerateKeyPair`; `took` says that the server did it, `out` what the answer says. |
| `AutohealFortify` | `AutohealMerge` and `FortifyClient` together | the fifth stage's `calling` items are the callers; `StartCall`, `CallRefused` and `CallAnswered` join a step of the one to a step of the other; it implements `AutohealMerge`, where the call is one step |
| `MultiProjectSearch` | `SearchMultiProjectAsyncCmd.CRun` with the `ApiFunc` of `pipelines:search`, `demux` and `Get` | `words` are the arguments, `projects` what `Demuxed` may make of them; `username` is the shared Go string as its two words, written and read one at a time, since the race on it is undefined |
| `RegistrySearch`, `PipelineDetails` | the commands of that name | one goroutine and an unbuffered channel; two goroutines and a channel with one place each |
| `RealmCommands` | the six `keycloak` commands | `kcpc`: argument, login, call; `realms` and `served`: what Keycloak holds and did |
| `SingleCalls` | the commands that make one call or none | `place`: arguments, token, call, print; `served`: what was asked for is done |
| `Simplcli` | one process, from `main` to `os.Exit` | `line`, `pos`, `at`: the words, how many the groups have taken, who runs; it composes all the commands above as instances. The variables of the commands that do not run are `Unused`. |
| `HealthWait` | the function `wait_all_services_authority_up` | `line`, `n`, `status` of the script; `up` changes at any time |
| `AuthorityInit` | the script, with `HealthWait` as its first part | script variables, which die with the container, and what the two services keep; what a run creates is named by its number |
| `EjbcaBootstrap` | the task on the host and its scripts in the pod | `at`: the task; `script[t]`: the step of `Plan` the script of task `t` is at; `held`, `epoch`, `usable`: the database; `pod`, `host`: the files, each with the database it comes from |
| `ChartUpdate` | the cron job | `remote`, `tracking`, `head`: a branch at the server, as `origin/...` in the clone, and checked out; `registry`: the publications in their order |
| `ServicesToken` | the task of that name | `file` and its contents; `at`, `held`: each shell and its `LOGIN_TOKEN`; `expired`, `ended`: what time and Keycloak do to tokens; `Unexpired`: what the task takes for valid; `Live`: what Keycloak still stands for; `disturbed`, `bad`: history for the property |
| `KeycloakTasks` | `cluster:keycloak-autoconfigure`, with `ServicesToken` beside it | `step`, `n`, `tries`: the task, the loop, `try_n`; `there`: the realms Keycloak holds; `secret`: whose secret the file holds; deleting `TokenRealm` ends the sessions |
| `MC...` | constants for TLC | |
| `..._proofs` | theorems about `FortifyClient`, `StagedPipeline`, `AutohealMerge`, `AuthorityInit`, `KeycloakTasks`, `EjbcaBootstrap`, `ChartUpdate`, and `Simplcli` with the commands it composes | |

Definitions whose comment begins with MUTANT are wrong on purpose: each is the
definition after it with a plausible mistake, and each property is falsified by
one of them (the list is in `PROJECT.json`).

What is abstracted: URLs, JSON, flags and messages; job, pipeline and release
names are elements of small sets; GitLab and Fortify are constants (what they
hold) plus the effects of the two calls that change them. A release id is a
function of the job whose log names it (a line beyond the 64 KB of
`bufio.Scanner` ends the scan, and is a log without a release). GitLab gives a retried job a new id;
the report item stands for the new id through the job it came from. `-h`, which
prints the flags and exits with 0, is left out. In `ChartUpdate` the
dependencies of a chart are one version, and in `EjbcaBootstrap` some calls of
`ejbca.sh` that stand or fall together (three keys, the settings of an
authority) are one step. In `KeycloakTasks` the realm configurator and `kcadm`
are external: a try that fails may have imported the realm or not, and what the
file `participant.yaml` calls its realm is not in this repository, so the
updates of `cluster:keycloak-base-autoconfigure`, one of which wants a realm
`consumer`, may succeed or fail. In `ServicesToken` a date comparison is the
question whether the token is in `expired`. That is all the task asks: a token
whose session has ended, alone or with a deleted realm, is printed by call after
call until its exp (`mise.toml:1256`). Only then is the refresh refused, the
refusal written and null printed, and the next call logs in. `HealsInOneCall`
is about this last step, from the first undisturbed call that prints no
unexpired token, and makes no promise for the calls before; no line of the
repository does.

## 3. Runs

| run | bounds | shows |
|---|---|---|
| `FortifyClient.cfg` | 3 callers; pause 1; lifetimes 0..1 | two waiting behind the mutex holder; tokens that arrive late, expired or with a life left; every call ends; 392,480 states |
| `FortifyPaused.cfg` | 2 callers, pause 2 | the comment of line 13 does not hold (below) |
| `StagedPipeline.cfg` | 3 stages, channels of one place, 2 sources, up to 2 results each | refinement of `Worklist`, no send on a closed channel, nothing left behind; four items fill a place of one as more fill the ten of the code |
| `AutohealMerge.cfg` | 2 projects, 4 merge requests, 3 pipelines (one shared, one null), 3 jobs | all orders and failures of six stages; 126,866 states |
| `Simplcli.cfg` | one line for each of the 24 commands, four that lead to none; 2 projects for the staged commands (`autoheal:maven-429` on unbuffered channels); 3 project names of which two have one id, a group, and words that are ids, names, `all` or unknown; 3 key pair names of which two are equal; 2 realms | every property of the commands in the process that runs them, the exit status, the end; 67,496 states |
| `AutohealFortify.cfg` | 1 project, 1 merge request, 2 Fortify jobs; channels of one place; pause 1, lifetimes 0..1 | refinement of `AutohealMerge`, its end included, with two workers inside the client; 155,368 states |
| `KeycloakTasks.cfg` | 2 shells, 3 tokens, 2 realms, any number of runs | after a call that printed no unexpired token the next one prints a live token; success means imported; 2,428,600 states |
| `AuthorityInit.cfg` | 3 services, 4 attempts, 3 runs; any call refused, lost or killed; the check may be answered with 5xx; `db:clean` between runs, complete or not | a clean run always succeeds; credentials fit; what the check sees is left alone; 120,672 states |
| `AuthorityInitAgain.cfg` | 1 service, 2 runs | line 38 does not hold |
| `EjbcaBootstrap.cfg` | 2 tasks, 2 databases, any number of pod restarts, every step may fail | scripts side by side make everything; no old keystore gets to the host; 620,660 states |
| `EjbcaAlready.cfg` | 2 tasks, 1 database | line 64 does not hold |
| `ChartUpdate.cfg` | 3 calls, 2 charts, 2 branches, 3 publications, 1 commit of somebody else, 3 faults | nothing lost, filters kept, charts get current; 861,635 states |

Bounds. Three callers are one with the mutex and two that interfere with each
other behind it. In the pipelines an interleaving involves a worker, its
dispatcher, and the next dispatcher; three stages have a first, an inner and a
last one. Three runs of the initialization are one that fails, one that
finishes and one after that; three services have one before, at and after the
loop's place, and four attempts let the count run out in the middle of any.
Two EJBCA tasks are enough for a script to be overtaken by another. Two shells
hold a token each and the file one more, so that a new one always has a name;
the four realms of the import differ only in which of them has the secret and
which the sessions, and two of them are enough for one before and one after the
place of the loop. Shells and tokens are interchangeable there, and the
properties of that run are invariants, so `SYMMETRY` loses nothing. The three
calls of `ChartUpdate` are two on one branch, so that the second finds the
commit the first could not push, and one that comes back to a chart on the
other branch; three faults break a push, the next pull and the next push.
The type invariants of `StagedPipeline`, `AutohealMerge`, `AuthorityInit`,
`ServicesToken` and `KeycloakTasks` are theorems and not repeated in the runs.
`MaxRuns`, `MaxTasks`, `MaxEpoch`, `MaxPublished`, `MaxEdits` and `MaxFaults`
bound counters and are guards of the actions that count.

`AuthorityInit` and `EjbcaBootstrap` run with `CHECK_DEADLOCK FALSE`: the first
stops after the last run, and in the second a state without a successor is no
question. In every other run a state without a successor would be an error;
`Ended` and `Returned` are the stuttering of a process that has ended.

### Where the text and the code differ

1. `fortify.go:13`: "Force a pause of fortify requests". Callers let through one
   by one wait for the token together and then send together (`PausedRequests`).
2. `cluster_authority_initialization.bash:38`: "Check authority already
   initializated". A 5xx answer counts as not initialized (`InitializedOnce`;
   `InitializedOnceIfSeen` is what does hold).
3. `ejbca/entrypoint.sh:64`: "ejbca already bootstrapped", said as soon as
   `SimplCryptoToken` is there, the first of the things the script makes
   (`AlreadyBootstrapped`; `CleanRunCompletes` is what does hold).

### Fairness

Liveness assumes that goroutines that can run do (the Go scheduler), that time
passes, that the shell runs, and that every exchange with a server ends. The
last is an assumption: neither `http.Client{}` nor `curl` is given a timeout.
`StagedPipeline`, `AutohealMerge` and `Simplcli` need only weak fairness of their whole
next-state relation, since each step uses up work. `FortifyClient` needs it for
each caller, because `Tick` can always happen, and gets no strong fairness: a
caller has to be served by the pacer and the mutex because the others run out.
`AutohealFortify` takes that fairness for the client and weak fairness for the
other stages, and has to give back that of `AutohealMerge`.
`AuthorityInit` has it for the script only: nothing is assumed about services
coming up, or the task being started again. In `ChartUpdate` it is that of the
job: the schedule of `k8s.yaml` starts a pod every minute (with
`concurrencyPolicy: Forbid`, so one after the other), and after `MaxFaults`
faults requests are answered; that is what `InSync` needs and no more.

## 4. Proofs

`FortifyClient_proofs` (any set of callers, pause and lifetime). `IInv` is the
type invariant, mutual exclusion (`OneTokenizer`) and

- `PacerInv`: the pacer offers only when a full pause has gone by since the last
  release, and while it sleeps what is left of its timer and the time since the
  release add up to the pause. `PacedReleases` speaks of one step and cannot
  carry itself;
- `LoginInv`: nobody is at the token endpoint while a fresh token is cached,
  because the caller that looked still holds the mutex;
- `AgeInv`: a token on its way has, at the server, lost at most the time it
  travelled, and the caller that fetched the cached token does not fetch again;
- `ExpiryLag` itself.

From it follow `TypeCorrect`, `MutualExclusion`, `ExpiryBound` and the action
properties `Paced` and `LoginsNotWasted`.

`StagedPipeline_proofs` (any number of stages, capacity, items, answers). `IInv`
is the type invariant, `SendingInv` (a worker that sends has something to send),
`CloseInv` (the stage of a closed channel is idle, and the channels before it are
closed and drained) and `ReturnInv` (main has returned only after the last
channel was drained). From it: `TypeCorrect`, `NeverSendsOnClosed`,
`LeavesNothingBehind`. The commands are instances, so what is proved of the
pattern holds for their channels whatever the projects hold.

`Refines` is the safety part of `ImplementsWorklist`: goroutines and channels do
what the work list does, step by step, if the items are named by how they were
reached (`Distinct`: no worker sends one twice, no two workers of a stage send
the same). A set of pending work can stand for workers and buffers only if
nothing is in two places. That is not inductive by itself, since an item could
come out of another one that is still on its way. `Below` is the least relation
that holds between a `<<stage, item>>` and what it may lead to; `Distinct` makes
it a forest (`OneParent`). `Once` says that no pending pair is in two places,
`WorkInv` adds that none of them lies below another and none of what was
reported is still pending or may come again. An answer replaces one pair by its
children, which lie below nothing but it and what it lay below. The four moves
through the channels (`Send`, `Take`, `Collect`, `HandOver`) carry one pair from
one place to another (`OneMoves`) and are a stutter, a `LeaveOut` or a `Report`.

`AuthorityInit_proofs` (any number of services, attempts and runs). The
properties of the credentials speak of what several runs left behind, so `IInv`
says at every section of the script what its variables rest on:

- `WaitInv`: the services before the loop's place have answered UP, and every
  section after the wait has seen all of them;
- `RunInv`: what this run holds it has made itself, or it has read something
  else out of an answer and is marked `faulted`, so a service has no reason to
  refuse an unmarked run;
- `OldInv`: until this run uploads its own, the credentials in use are those of
  an earlier run, and a run that goes on in spite of them has `checkErred`;
- `TypeOK`, `SuccessMeansInitialized`, `CredentialsFit`, `CleanRunSucceeds`.

From it: `TypeCorrect`, `WaitsForAll`, `SuccessIsReal`, `InstalledFit`,
`CanBeRunAgain` and the action property `LeftAlone`.

`AutohealMerge_proofs` (any projects, merge requests, pipelines, jobs, releases
and channel size) uses the theorems about `StagedPipeline` through an instance.
What it adds to the type invariant says what an item has behind it wherever it
is: past the log stage it is a Fortify job with a release, past the marking
stage its release is marked, in the report its job was restarted. That is what
has to be carried from stage to stage, since `RestartOnlyMarked` and
`ReportedWereRestarted` speak of what two servers hold. From it:
`TypeCorrect`, `RestartsOnlyMarked`, `ReportsOnlyRestarted`. The proof needs
that the answers of every stage are sequences of items that fit the next one
(`AnswersFit`), from `MergeAssumption`. `MergeDistinct` proves `Distinct` for the
answers of the six stages, so that the invariant of the pattern that says no item
is in two places (`WorkInv`) is part of `IInv`; `Refines` follows. The last part,
`RestartInv`, counts the items of a job that have gone past the last call
(`Past`): an item whose call has been answered never waits for it again
(`NextNothingNew` of the pattern), so each restart has an item of its own, and
`RestartsLimited` follows.

`KeycloakTasks_proofs` (any shells, tokens and realms). `TokenInv` says what a
call that has not been disturbed holds at each place (`Sound`): after one that
printed no unexpired token the file holds a refusal, so that the call that runs
is on its way to a login, and what it gets there is live until it prints it. `Progress` says that the realms gone through are the realms imported,
and that the secret is the current one unless a task has skipped its work. From
the two: `TypeCorrect`, `TokenHeals`, `SuccessIsImport`.

`Simplcli_proofs` (any command lines, arguments, tables, registries and servers).
`ProcessInv` has three parts:

- `MainInv`: main is at the group or command that the last word it has read names;
  at a command only when that is the last word of all (`Leaf`), which is what
  makes an exit status one of this command; and it comes to its end without an
  error only when the command had done what was asked (`Served`);
- `StagesInv`: the command of the line satisfies its own invariant, whether main
  has got to it or not;
- `CallsInv`: the same for the commands whose outcome main overwrites, until it does.

Each command has lemmas for its start, its steps and what follows of its
invariant; `MainKept` and `RunKept` put them together.

- `merge:check`: `Each` says of everything that is on its way or reported
  (`Everything` of the pattern) that a project is either still searched, or has one
  row of an error, or one row for each merge request, and what a row at a stage
  may be. So at the end every merge request has one row, and every row has what main
  takes from it: `PrintsWhatItHas`, and the first part of `LosesNothing`.
- `autoheal:maven-429`: as `AutohealMerge_proofs`, with other stages and the dry run;
  `autoheal:merge` is that proof, instanced. `RestartsOnlyWanted`,
  `RestartsNoMore`, `ReportsWhatItDid`.
- `kp-new`: `Counted` bounds the key pairs of a name from both sides by the places
  of that name that have an outcome: `ReportsItsPairs`.
- the searches: `RaceInv` says that a word of the user that one goroutine has stored
  stays, since whoever overwrites it stores the same, and what has been read since
  is that word; `HeardInv` says who has ended. That a search is started for the
  projects the words stand for is a matter of `demux` alone: an expansion of `all` has
  as many names as there are ids and misses none, so it has none twice (`AllCounts`);
  places add up where two expansions are joined (`CountJoin`), and by induction over
  the words (`WordsCount`) so do all of them. `QueriesAreMine`, and the second part of
  `LosesNothing`.
- `registry:search`: what main has and what the goroutine still has to send are
  together the items of the first projects (`ItemsOfFirst`): `AnswersAPrefix`.
- `pipelines:details`, the `keycloak` commands and those of one call: an outcome other
  than an error means that it was done: `ZeroMeansDone`.

`EjbcaBootstrap_proofs` (any number of tasks and databases). `CleanInv` says that a
script that is still clean has made everything before the step it is at, which
other scripts can only add to; `PodInv` that the files in a pod that serves this
database were made from it, `HostInv` that the keystore is there when the
truststore is asked for. From them: `TypeCorrect` and the action properties
`RunsComplete` and `KeystoreKept`.

`ChartUpdate_proofs` (any calls, charts, branches and bounds). `FilterInv` says of
all three histories of a branch, at the server, as the clone last saw it and
checked out, that what the job wrote is of the kind of the branch: a push takes
from the clone what an earlier call of the pod has left there. `HeadInv` says
that a call between checkout and push has its branch. From them: `TypeCorrect`,
`FiltersKept`, and the action property `LosesNothing`, which rests on a push
being refused unless it adds to what the server has.

Assumptions: `FortifyAssumption` (the nil token is no caller; pause and bound
are natural numbers), `PipelineAssumption` (at least one stage; answers are
sequences of items), `MergeAssumption` (finitely many arguments; what GitLab answers are sequences that
list a merge request of a project and a job of a pipeline once),
`InitializationAssumption` (at least one attempt and one run),
`TokensAssumption` (a token is not one of the other contents of the file) and
`TasksAssumption` (the loop has a realm, and deletes what it imports),
`BootstrapAssumption` (at least one task and one database) and `ChartAssumption`
(at least one call; no history is the name for a missing branch), `LinesAssumption` (command lines
are sequences of words; what follows the name of a command is an argument) and
`ServersAssumption` (what GitLab answers are sequences that list a merge request, a
pipeline or a job once) and `TablesAssumption` (the tables of projects and groups are
finite and name them by words, as the command line does). TLC
evaluates them in the runs, and `Distinct` in that of `StagedPipeline`
(`NamedByPath`).

Only model-checked: the refinement of `AutohealMerge` by `AutohealFortify`, all
liveness (with it the fairness part of the refinements of `Worklist`), and the
modules without a proof module. Liveness under fairness and `ENABLED` are
beyond the prover used here.

## 5. Not modelled, and the plan

What a later step would add, in this order:

1. A proof of the safety part of the refinement of `AutohealMerge` by
   `AutohealFortify`.
2. An abstract specification of the authority initialization (not initialized,
   initialized) that `AuthorityInit` implements for runs whose check was
   answered truly.

Not modelled:

- a `git checkout` that fails in the chart job: both branches exist and what a
  call has written it has committed. The script has no `-e`, so a call whose
  branch is missing would go on with its own filter on the branch checked out
  before; `FilterKept` says nothing of that;
- output (`internal/vw`, `internal/log`): layout;
- the reflection over flags and DTOs, the encoding of a search and the fields of
  an answer: data that no property here tells apart;
- the token cache of `kc.Client` (`kc.go:46-62`): every process makes one call
  with a new client, so that the cache is always empty when it is read;
- the calls of the Simpl client without a caller (`DataspaceUpdate`,
  `CreateCsr`, `ParticipantCreate`, `UploadCsr`);
- `script/reset-dataspace.sh`: it ignores every failure and waits for nothing;
  what that leads to is decided by Kubernetes, PostgreSQL and services that are
  not in this repository;
- `script/update-version-projects.bash`: the same steps in clones that share
  nothing, no status looked at, nothing pushed;
- the other tasks of `mise.toml`, the dumps and migrations of `script`, the
  chart and container descriptions: straight sequences and configuration.
