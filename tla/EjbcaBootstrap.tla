--------------------------- MODULE EjbcaBootstrap ---------------------------
(***************************************************************************)
(* mise.toml cluster:initialization_ejbca and the script it sends into the *)
(* pod, .config/docker/simpl-services/ejbca/entrypoint.sh: put profiles,   *)
(* two certification authorities and a management user into EJBCA, and     *)
(* bring the keystore of that user and the truststore to the host.         *)
(*                                                                         *)
(* The task runs under -e, the script does not: a call of ejbca.sh that    *)
(* fails is followed by the next one.  The database outlives the pod, the  *)
(* files in the pod do not, and a script outlives the kubectl exec that    *)
(* started it, so scripts of several tasks may run in one pod.             *)
(***************************************************************************)
EXTENDS Naturals, Sequences

CONSTANTS
    MaxTasks,   \* bound: how often the task is started
    MaxEpoch    \* bound: databases there ever are, each made by db:clean but the first

ASSUME BootstrapAssumption == MaxTasks \in Nat \ {0} /\ MaxEpoch \in Nat \ {0}

\* MUTANT of Plan: the second authority is made before the one that signs it.
PlanSwapped == <<"protocols", "profiles",
          "SimplOnboardingCryptoToken", "onboardingKeys", "OnBoardingCA", "onboardingSettings",
          "SimplCryptoToken", "simplKeys", "SimplCA", "simplSettings",
          "endentity", "rolemember", "clearpwd", "p12", "truststore">>

\* What the script makes, in its order.
Plan == <<"protocols", "profiles",
          "SimplCryptoToken", "simplKeys", "SimplCA", "simplSettings",
          "SimplOnboardingCryptoToken", "onboardingKeys", "OnBoardingCA", "onboardingSettings",
          "endentity", "rolemember", "clearpwd", "p12", "truststore">>

InDatabase == {Plan[k] : k \in DOMAIN Plan} \ {"p12", "truststore"}

\* What EJBCA must hold to do a step: a CA needs its keys and its certificate profile,
\* the onboarding CA is signed by SimplCA.
Needs(thing) ==
    CASE thing = "simplKeys"          -> {"SimplCryptoToken"}
      [] thing = "SimplCA"            -> {"simplKeys", "profiles"}
      [] thing = "simplSettings"      -> {"SimplCA"}
      [] thing = "onboardingKeys"     -> {"SimplOnboardingCryptoToken"}
      [] thing = "OnBoardingCA"       -> {"onboardingKeys", "profiles", "SimplCA"}
      [] thing = "onboardingSettings" -> {"OnBoardingCA"}
      [] thing = "clearpwd"           -> {"endentity"}
      [] thing = "p12"                -> {"clearpwd"}
      [] OTHER                        -> {}

Tasks == 1..MaxTasks
None == 0
Empty == MaxEpoch + 1   \* the file is there and empty
Files == {"p12", "truststore"}

VARIABLES
    task,       \* the number of this task
    at,         \* where it is
    script,     \* script[t]: the step of the script task t started; None if it does not run
    said,       \* said[t]: "already", "completed", or "nothing" yet
    clean,      \* clean[t]: no call of ejbca.sh has failed but for what the script itself left out
    held,       \* what the database holds
    epoch,      \* which database this is
    usable,     \* EJBCA was started on this database: it has made the tables
    config,     \* the profiles have been uploaded into the pod
    pod,        \* pod[f]: the epoch a file in the pod comes from
    host        \* host[f]: the same on the host

vars == <<task, at, script, said, clean, held, epoch, usable, config, pod, host>>

TypeOK ==
    /\ task \in Tasks
    /\ at \in {"pod", "upload", "exec", "p12", "truststore", "ok", "failed"}
    /\ script \in [Tasks -> 0..Len(Plan) + 1]
    /\ said \in [Tasks -> {"nothing", "already", "completed"}]
    /\ clean \in [Tasks -> BOOLEAN]
    /\ held \subseteq InDatabase
    /\ epoch \in 1..MaxEpoch
    /\ usable \in BOOLEAN
    /\ config \in BOOLEAN
    /\ pod \in [Files -> 0..MaxEpoch + 1]
    /\ host \in [Files -> 0..MaxEpoch + 1]

NoFiles == [f \in Files |-> None]

Init ==
    /\ task = 1
    /\ at = "pod"
    /\ script = [t \in Tasks |-> None]
    /\ said = [t \in Tasks |-> "nothing"]
    /\ clean = [t \in Tasks |-> TRUE]
    /\ held = {}
    /\ epoch = 1
    /\ usable = TRUE
    /\ config = FALSE
    /\ pod = NoFiles
    /\ host = NoFiles

-----------------------------------------------------------------------------
(* The task on the host. *)

database == <<held, epoch, usable>>

\* The pod is found and ready; ten attempts, or the end.
FindPod ==
    /\ at = "pod"
    /\ at' \in {"upload", "failed"}
    /\ UNCHANGED <<task, script, said, clean, database, config, pod, host>>

\* mkdir || true, then one cat for each profile.
Upload ==
    /\ at = "upload"
    /\ config' = TRUE
    /\ at' = "exec"
    /\ script' = [script EXCEPT ![task] = 1]
    /\ UNCHANGED <<task, said, clean, database, pod, host>>

\* kubectl exec ends with the script, whose last command is an echo or exit 0.
ExecEnds ==
    /\ at = "exec"
    /\ said[task] # "nothing"
    /\ at' = "p12"
    /\ UNCHANGED <<task, script, said, clean, database, config, pod, host>>

After == [p12 |-> "truststore", truststore |-> "ok"]

\* MUTANT of Download: the else branch prints its line and the task goes on.
DownloadSkips(f) ==
    /\ at = f
    /\ at' = After[f]
    /\ host' = IF pod[f] = None THEN host ELSE [host EXCEPT ![f] = pod[f]]
    /\ UNCHANGED <<task, script, said, clean, database, config, pod>>

\* cat into a temporary file, mv when it succeeded.  The else branch lacks its echo:
\* "Skip download file ..." is run as a command, which ends the task.
Download(f) ==
    /\ at = f
    /\ IF pod[f] = None
       THEN at' = "failed" /\ UNCHANGED host
       ELSE at' = After[f] /\ host' = [host EXCEPT ![f] = pod[f]]
    /\ UNCHANGED <<task, script, said, clean, database, config, pod>>

\* kubectl fails or the user interrupts the task; what runs in the pod goes on.
Interrupt ==
    /\ at \notin {"ok", "failed"}
    /\ at' = "failed"
    /\ UNCHANGED <<task, script, said, clean, database, config, pod, host>>

StartAgain ==
    /\ at \in {"ok", "failed"}
    /\ task < MaxTasks
    /\ task' = task + 1
    /\ at' = "pod"
    /\ UNCHANGED <<script, said, clean, database, config, pod, host>>

-----------------------------------------------------------------------------
(* A script in the pod. *)

hostVars == <<task, at, config, host>>

Says(t, word) ==
    /\ said' = [said EXCEPT ![t] = word]
    /\ script' = [script EXCEPT ![t] = None]

\* The super admin is ready: look for SimplCryptoToken.  A list that fails reads as
\* one without it.
CheckToken(t) ==
    /\ script[t] = 1
    /\ \/ /\ usable /\ "SimplCryptoToken" \in held
          /\ Says(t, "already")
          /\ UNCHANGED clean
       \/ /\ script' = [script EXCEPT ![t] = 2]
          /\ clean' = [clean EXCEPT ![t] = "SimplCryptoToken" \notin held]
          /\ UNCHANGED said
    /\ UNCHANGED <<hostVars, database, pod>>

\* EJBCA runs on its database and has what it needs to do a step.
Possible(thing) ==
    usable /\ Needs(thing) \subseteq held /\ (thing = "profiles" => config)

\* MUTANT of Step: the end of the script is missed.
StepOn(t, took) ==
    /\ script[t] \in 2..Len(Plan) + 1
    /\ took => Possible(Plan[script[t] - 1])
    /\ script' = [script EXCEPT ![t] = @ + 1]
    /\ UNCHANGED <<hostVars, said, clean, database, pod>>

\* One step of the plan.  What is there already is refused and stays; batch and curl
\* write their file again, curl an empty one when it fails.
Step(t, took) ==
    /\ script[t] \in 2..Len(Plan) + 1
    /\ LET thing == Plan[script[t] - 1]
       IN  /\ took => Possible(thing)
           /\ held' = IF took /\ thing \in InDatabase THEN held \cup {thing} ELSE held
           /\ pod' = CASE thing \in Files /\ took  -> [pod EXCEPT ![thing] = epoch]
                       [] thing = "truststore"     -> [pod EXCEPT ![thing] = Empty]
                       [] OTHER                    -> pod
           /\ clean' = [clean EXCEPT ![t] = @ /\ (took \/ (usable /\ ~Possible(thing)))]
    /\ IF script[t] = Len(Plan) + 1
       THEN Says(t, "completed")
       ELSE script' = [script EXCEPT ![t] = @ + 1] /\ UNCHANGED said
    /\ UNCHANGED <<hostVars, epoch, usable>>

-----------------------------------------------------------------------------

\* The pod is replaced: its files and the scripts in it are gone, and the kubectl
\* exec of a task with them.  EJBCA starts on the database it finds.
PodRestarts ==
    /\ script' = [t \in Tasks |-> None]
    /\ config' = FALSE
    /\ pod' = NoFiles
    /\ at' = IF at \in {"pod", "ok", "failed"} THEN at ELSE "failed"
    /\ usable' = TRUE
    /\ UNCHANGED <<task, said, clean, held, epoch, host>>

\* mise.toml db:clean with DB_CLEAN_ALL=1: dropdb -f and createdb under a running pod.
DatabaseClean ==
    /\ epoch < MaxEpoch
    /\ epoch' = epoch + 1
    /\ held' = {}
    /\ usable' = FALSE
    /\ clean' = [t \in Tasks |-> clean[t] /\ script[t] = None]
    /\ UNCHANGED <<task, at, script, said, config, pod, host>>

Next ==
    \/ FindPod \/ Upload \/ ExecEnds \/ Interrupt \/ StartAgain
    \/ \E f \in Files : Download(f)
    \/ \E t \in Tasks : CheckToken(t) \/ \E took \in BOOLEAN : Step(t, took)
    \/ PodRestarts \/ DatabaseClean

Spec == Init /\ [][Next]_vars

-----------------------------------------------------------------------------
(* Properties. *)

\* The steps are in an order EJBCA can follow, also when a second script goes through
\* them at the same time: a script that found nothing, met no failure but those it
\* causes itself and kept its database leaves everything behind (entrypoint.sh:66-265).
CleanRunCompletes ==
    [][\A t \in Tasks :
         said[t] # "completed" /\ said'[t] = "completed" /\ clean'[t] => held' = InDatabase]_vars

\* A task that ends well on an EJBCA started on its database never leaves the keystore
\* or the truststore of an earlier database on the host (mise.toml:1154), however pods,
\* scripts and databases come and go: a file the pod does not have ends the task.
KeystoreCurrent ==
    [][at # "ok" /\ at' = "ok" /\ usable =>
         host'["p12"] = epoch /\ host'["truststore"] \in {epoch, Empty}]_vars

\* "ejbca already bootstrapped" (entrypoint.sh:62): a script that says so has found
\* everything the bootstrap makes.
AlreadyBootstrapped ==
    [][\A t \in Tasks : said[t] # "already" /\ said'[t] = "already" => held = InDatabase]_vars
=============================================================================
