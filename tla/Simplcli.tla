----------------------------- MODULE Simplcli -----------------------------
(***************************************************************************)
(* One process of simplcli (cmd/simplcli/simplcli.go, internal/cmd): main  *)
(* takes the global flags, the command groups lead by the words of the     *)
(* command line to a command, the command runs, and what it returns        *)
(* becomes a table or an exit code.  The variables of the commands that do *)
(* not run are Unused.  Names that several commands use (open, done) are   *)
(* the variables of the one that runs.                                     *)
(***************************************************************************)
EXTENDS Naturals, Sequences, FiniteSets, Functions

CONSTANTS
    Lines,      \* the command lines, each a sequence of words without flags
    Unused,
    Args,       \* positions of the project arguments, after demux
    Opened, NoMr, RowCap,                                       \* MergeCheck
    FailedPipelines, Relevant, PipelineJobs, FailedJobs, Says429, \* Autoheal429
    HeadPipeline, NoPipeline, FailedOf, FortifyJobs, ReleaseIn, NoRelease, \* AutohealMerge
    ProjectId, Members, WordLists, Me, Given,                   \* MultiProjectSearch
    Registries,                                                 \* RegistrySearch
    Names,                                                      \* NewKeyPair
    Realms, NoRealm                                             \* RealmCommands

VARIABLES
    line,       \* the words of this process
    pos,        \* how many of them the groups have taken
    at,         \* "main", or the group or command that runs
    exit,       \* the exit status, Unused before the end
    outcome, done

mainVars == <<line, pos, at, exit>>

VARIABLES calling, sending, queue, open, report
stageVars == <<calling, queue, report>>

VARIABLES dryRun, restarts, marked, created
effectVars == <<dryRun, restarts, marked, created>>

VARIABLES my, words, projects, pc, username, query, rows, stderr
searchVars == <<my, words, projects, pc, username, query, rows, stderr>>

VARIABLES registry, next, failed, running, items
registryVars == <<registry, next, failed, running, items>>

VARIABLES asking, channel, received
detailsVars == <<asking, channel, received>>

VARIABLES realm, realms, place, served
realmVars == <<realm, realms, place, served>>

vars == <<mainVars, outcome, done, stageVars, sending, open, effectVars, searchVars,
          registryVars, detailsVars, realmVars>>

\* The last word of the line.
Leaf == IF line = <<>> THEN "" ELSE line[Len(line)]

Check == INSTANCE MergeCheck WITH Cap <- RowCap
Heal == INSTANCE Autoheal429
Merge == INSTANCE AutohealMerge WITH Cap <- RowCap, FailedJobs <- FailedOf
Search == INSTANCE MultiProjectSearch
Registry == INSTANCE RegistrySearch
KeyPairs == INSTANCE NewKeyPair
Details == INSTANCE PipelineDetails
Keycloak == INSTANCE RealmCommands WITH operation <- Leaf, kcpc <- place
Single == INSTANCE SingleCalls WITH operation <- Leaf

Searches == {"pipelines:search", "merge:search", "tags:search"}
RealmLeaves == Keycloak!Operations
SingleLeaves == Single!Operations

Children ==
    [root     |-> {"gitlab", "fortify", "info", "api", "keycloak"},
     gitlab   |-> {"merge:check", "autoheal:merge", "autoheal:maven-429", "registry:search",
                   "pipelines:details"} \cup Searches \cup Single!OfGitlab,
     fortify  |-> {"false-positive"},
     info     |-> Single!OfInfo,
     api      |-> {"kp-new"} \cup Single!OfApi,
     keycloak |-> RealmLeaves]

Groups == DOMAIN Children
Commands == (UNION {Children[g] : g \in Groups}) \ Groups

(* What follows the name of a command on the line are its arguments, which *)
(* are constants of their own.                                             *)
ASSUME LinesAssumption ==
    /\ Unused \notin {0, 1, 2}
    /\ Lines \subseteq Seq(STRING)
    /\ \A l \in Lines : \A k \in DOMAIN l : l[k] \in Commands => k = Len(l)

ItemsIn(answers) == UNION {{answers[p][k] : k \in DOMAIN answers[p]} : p \in DOMAIN answers}

(* GitLab lists what a project, a pipeline or a registry has once.         *)
ASSUME ServersAssumption ==
    /\ RowCap \in Nat
    /\ IsFiniteSet(Args)
    /\ NoMr \notin Merge!MRs
    /\ \A a \in Args :
        /\ Opened[a] \in Seq(Merge!MRs) /\ IsInjective(Opened[a])
        /\ FailedPipelines[a] \in Seq(Heal!Pipelines) /\ IsInjective(FailedPipelines[a])
    /\ \A m \in Merge!MRs : Merge!JobsOf(m) \in Seq(Merge!Jobs) /\ IsInjective(Merge!JobsOf(m))
    /\ \A p \in Heal!Pipelines : PipelineJobs[p] \in Seq(Heal!Jobs) /\ IsInjective(PipelineJobs[p])
    /\ \A answers \in Registries : answers \in Seq(Seq(ItemsIn(answers)))
    /\ Names \in Seq(KeyPairs!AllNames)

(* The tables of constants.go are finite, and name projects by words.      *)
ASSUME TablesAssumption ==
    /\ DOMAIN ProjectId \subseteq STRING /\ IsFiniteSet(DOMAIN ProjectId)
    /\ Members \in [DOMAIN Members -> Seq(STRING)]
    /\ WordLists \subseteq Seq(STRING)

-----------------------------------------------------------------------------

NoStages == calling = Unused /\ queue = Unused /\ report = Unused
NoChannel == sending = Unused /\ open = Unused
NoEffects == dryRun = Unused /\ restarts = Unused /\ marked = Unused /\ created = Unused
NoSearch == my = Unused /\ words = Unused /\ projects = Unused /\ pc = Unused /\ username = Unused /\ query = Unused /\ rows = Unused /\ stderr = Unused
NoRegistry == registry = Unused /\ next = Unused /\ failed = Unused /\ running = Unused /\ items = Unused
NoDetails == asking = Unused /\ channel = Unused /\ received = Unused
NoRealms == realm = Unused /\ realms = Unused /\ place = Unused /\ served = Unused

\* The variables of the command the line leads to, if it leads to one.
InitCommand ==
    CASE Leaf = "merge:check" ->
           Check!Init /\ outcome = "value" /\ NoEffects /\ NoSearch /\ NoRegistry /\ NoDetails /\ NoRealms
      [] Leaf = "autoheal:maven-429" ->
           Heal!Init /\ outcome = "value" /\ marked = Unused /\ created = Unused
           /\ NoSearch /\ NoRegistry /\ NoDetails /\ NoRealms
      [] Leaf = "autoheal:merge" ->
           Merge!Init /\ outcome = "value" /\ dryRun = Unused /\ created = Unused
           /\ NoSearch /\ NoRegistry /\ NoDetails /\ NoRealms
      [] Leaf = "kp-new" ->
           KeyPairs!Init /\ outcome = "value" /\ dryRun = Unused /\ restarts = Unused /\ marked = Unused
           /\ NoSearch /\ NoRegistry /\ NoDetails /\ NoRealms
      [] Leaf \in Searches ->
           Search!Init /\ (Leaf # "pipelines:search" => ~my) /\ outcome = "value" /\ sending = Unused
           /\ NoStages /\ NoEffects /\ NoRegistry /\ NoDetails /\ NoRealms
      [] Leaf = "registry:search" ->
           Registry!Init /\ outcome = "value" /\ NoStages /\ NoEffects /\ NoSearch /\ NoDetails /\ NoRealms
      [] Leaf = "pipelines:details" ->
           Details!Init /\ NoStages /\ NoChannel /\ NoEffects /\ NoSearch /\ NoRegistry /\ NoRealms
      [] Leaf \in RealmLeaves ->
           Keycloak!Init /\ NoStages /\ NoChannel /\ NoEffects /\ NoSearch /\ NoRegistry /\ NoDetails
      [] Leaf \in SingleLeaves ->
           Single!Init /\ realm = Unused /\ realms = Unused
           /\ NoStages /\ NoChannel /\ NoEffects /\ NoSearch /\ NoRegistry /\ NoDetails
      [] OTHER ->
           outcome = "none" /\ done = FALSE
           /\ NoStages /\ NoChannel /\ NoEffects /\ NoSearch /\ NoRegistry /\ NoDetails /\ NoRealms

Init ==
    /\ line \in Lines
    /\ pos = 0
    /\ at = "start"
    /\ exit = Unused
    /\ InitCommand

commandVars == <<stageVars, sending, open, effectVars, searchVars, registryVars,
                 detailsVars, realmVars>>

-----------------------------------------------------------------------------
(* main and the groups. *)

\* The global flags: an unknown one or an unknown view is the end.
ParseFlags ==
    /\ at = "start"
    /\ \/ at' = "root" /\ UNCHANGED exit
       \/ at' = "ended" /\ exit' \in {1, 2}
    /\ UNCHANGED <<line, pos, outcome, done, commandVars>>

\* CommandGroup.CRun: the flags of the group api may be refused (FlagValFunc).
RefuseFlags ==
    /\ at = "api"
    /\ at' = "main"
    /\ outcome' = "error"
    /\ UNCHANGED <<line, pos, exit, done, commandVars>>

\* The next word names the group or command to run.
Descend ==
    /\ at \in Groups
    /\ pos < Len(line)
    /\ pos' = pos + 1
    /\ IF line[pos + 1] \in Children[at]
       THEN at' = line[pos + 1] /\ UNCHANGED outcome
       ELSE at' = "main" /\ outcome' = "error"
    /\ UNCHANGED <<line, exit, done, commandVars>>

\* A flag its flag set does not know ends the process (flag.ExitOnError).
UnknownFlag ==
    /\ at \in Groups
    /\ at' = "ended"
    /\ exit' = 2
    /\ UNCHANGED <<line, pos, outcome, done, commandVars>>

\* What a command asks for before it starts a goroutine is missing: a project, a
\* pipeline, a name, with -my of merge:check the current user.
RefuseArguments ==
    /\ at \in Groups
    /\ pos < Len(line)
    /\ line[pos + 1] \in (Children[at] \cap Commands) \ (RealmLeaves \cup SingleLeaves)
    /\ pos' = pos + 1
    /\ at' = "main"
    /\ outcome' = "error"
    /\ UNCHANGED <<line, exit, done, commandVars>>

\* No word is left: the names are listed and MissingCommand is returned.
MissingCommand ==
    /\ at \in Groups
    /\ pos = Len(line)
    /\ at' = "main"
    /\ outcome' = "missing"
    /\ UNCHANGED <<line, pos, exit, done, commandVars>>

\* The command has returned to CRun and CRun to main.
CommandReturns ==
    /\ at \in Commands
    /\ done
    /\ at' = "main"
    /\ UNCHANGED <<line, pos, exit, outcome, done, commandVars>>

\* AuthFunc panics when -clientid is empty, before the first token of the process: in
\* the goroutine of main, or in one of kp-new.
MissingClientId ==
    /\ \/ at \in Single!OfApi /\ place = "token"
       \/ at = "kp-new" /\ calling[1] = KeyPairs!Source
    /\ at' = "ended"
    /\ exit' = 2
    /\ UNCHANGED <<line, pos, outcome, done, commandVars>>

\* An error but MissingCommand is exit 1, an int is itself (the commands return 0 or
\* an error), all else is rendered.
Exit ==
    /\ at = "main"
    /\ at' = "ended"
    /\ exit' = IF outcome = "error" THEN 1 ELSE 0
    /\ UNCHANGED <<line, pos, outcome, done, commandVars>>

Ended == at = "ended" /\ UNCHANGED vars

Main ==
    \/ ParseFlags \/ UnknownFlag \/ RefuseFlags
    \/ Descend \/ RefuseArguments \/ MissingCommand
    \/ CommandReturns \/ MissingClientId \/ Exit

-----------------------------------------------------------------------------
(* The command that runs. *)

Run ==
    /\ ~done
    /\ UNCHANGED mainVars
    /\ \/ /\ at = "merge:check" /\ Check!Next
          /\ UNCHANGED <<outcome, effectVars, searchVars, registryVars, detailsVars, realmVars>>
       \/ /\ at = "autoheal:maven-429" /\ Heal!Next
          /\ UNCHANGED <<outcome, marked, created, searchVars, registryVars, detailsVars, realmVars>>
       \/ /\ at = "autoheal:merge" /\ Merge!Next
          /\ UNCHANGED <<outcome, dryRun, created, searchVars, registryVars, detailsVars, realmVars>>
       \/ /\ at = "kp-new" /\ KeyPairs!Next
          /\ UNCHANGED <<outcome, dryRun, restarts, marked, searchVars, registryVars, detailsVars, realmVars>>
       \/ /\ at \in Searches /\ Search!Next
          /\ UNCHANGED <<outcome, stageVars, sending, effectVars, registryVars, detailsVars, realmVars>>
       \/ /\ at = "registry:search" /\ Registry!Next
          /\ UNCHANGED <<outcome, stageVars, effectVars, searchVars, detailsVars, realmVars>>
       \/ /\ at = "pipelines:details" /\ Details!Next
          /\ UNCHANGED <<stageVars, sending, open, effectVars, searchVars, registryVars, realmVars>>
       \/ /\ at \in RealmLeaves /\ Keycloak!Next
          /\ UNCHANGED <<stageVars, sending, open, effectVars, searchVars, registryVars, detailsVars>>
       \/ /\ at \in SingleLeaves /\ Single!Next
          /\ UNCHANGED <<stageVars, sending, open, effectVars, searchVars, registryVars, detailsVars,
                         realm, realms>>

Next == Main \/ Run \/ Ended

Spec == Init /\ [][Next]_vars

\* Goroutines that can run do, and every exchange with a server ends.
FairSpec == Spec /\ WF_vars(Next)

-----------------------------------------------------------------------------
(* Properties. *)

\* One type invariant for main and the command that runs.
TypeOK ==
    /\ line \in Lines
    /\ pos \in 0..Len(line)
    /\ at \in Groups \cup Commands \cup {"start", "main", "ended"}
    /\ exit \in {Unused, 0, 1, 2}
    /\ outcome \in {"none", "value", "zero", "error", "missing"}
    /\ Leaf = "merge:check" => Check!TypeOK
    /\ Leaf = "autoheal:maven-429" => Heal!TypeOK
    /\ Leaf = "autoheal:merge" => Merge!TypeOK
    /\ Leaf = "kp-new" => KeyPairs!TypeOK
    /\ Leaf \in Searches => Search!TypeOK
    /\ Leaf = "registry:search" => Registry!TypeOK
    /\ at = "pipelines:details" => Details!TypeOK
    /\ at \in RealmLeaves => Keycloak!TypeOK
    /\ at \in SingleLeaves => Single!TypeOK

\* merge:check and the searches give one outcome for everything they were asked
\* about, whatever calls failed: a row or a line on stderr, never both, never neither,
\* and a search as many for a project as the words name it.
OneOutcomeEach ==
    /\ at = "merge:check" => Check!OneOutcomeEach
    /\ at \in Searches => Search!OneOutcomeEach

\* merge:check prints no row and no error it has not (mergecheck-command.go:172-184).
NoNilDereference == at = "merge:check" => Check!NoNilDereference

\* autoheal:maven-429 restarts only failed jobs of a merge request, of main or of
\* develop whose log blames a 429, autoheal:merge only Fortify jobs whose release is
\* marked: the filters of several goroutines add up.
RestartsWanted ==
    /\ at = "autoheal:maven-429" => Heal!RestartsWanted
    /\ at = "autoheal:merge" => Merge!RestartOnlyMarked

\* They restart a job at most once for each way the arguments lead to it.
RestartsBounded ==
    /\ at = "autoheal:maven-429" => Heal!RestartsBounded
    /\ at = "autoheal:merge" => Merge!RestartsBounded

\* Their reports name only jobs GitLab restarted; a dry run restarts nothing.
ReportIsHonest ==
    /\ at = "autoheal:maven-429" => Heal!ReportIsHonest
    /\ at = "autoheal:merge" => Merge!ReportedWereRestarted

\* Every query of pipelines:search -my is filtered by the current user although the
\* goroutines race on the one search.Username (pipeline-command.go:23).
EveryQueryMine == at = "pipelines:search" => Search!EveryQueryMine

\* registry:search answers with the items of the projects before the first failing one.
AnswerIsPrefix == at = "registry:search" => Registry!AnswerIsPrefix

\* kp-new reports no key pair that does not exist and asks for none twice.
PairsMatchReport == at = "kp-new" => KeyPairs!PairsMatchReport

\* What exit status 0 says: GitLab answered both calls of pipelines:details, and the
\* server did what a command of one call asked for (tokenize has also printed the
\* token), through client, command, groups and main.
HonestExit ==
    exit = 0 =>
        /\ Leaf = "pipelines:details" => \A c \in Details!Calls : received[c] = "ok"
        /\ Leaf \in RealmLeaves \cup SingleLeaves => served

\* The process ends when every call ends, whatever the line and the outcomes.
Finishes == <>(exit # Unused)
=============================================================================
