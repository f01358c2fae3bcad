--------------------------- MODULE KeycloakTasks ---------------------------
(***************************************************************************)
(* mise.toml cluster:keycloak-autoconfigure, its four tasks in a row:      *)
(* delete the realms, import them again with up to three tries each, set   *)
(* their frontend urls, write the secret of a client to a file.  They run  *)
(* under bash -e but without pipefail, and skip what they do when the pod  *)
(* of Keycloak is not ready.  Meanwhile shells run services:token, whose   *)
(* sessions end with the realm.                                            *)
(***************************************************************************)
EXTENDS ServicesToken, Sequences

CONSTANTS
    ToImport,       \* the realms of the loop that imports, a sequence
    ToDelete,       \* the realms that are deleted before
    Onboarding,     \* the realm whose client has the secret
    TokenRealm      \* the realm services:token is run for

Elements(seq) == {seq[k] : k \in DOMAIN seq}

ASSUME TasksAssumption ==
    /\ ToImport \in Seq(ToDelete) /\ ToImport # <<>>
    /\ {Onboarding, TokenRealm} \subseteq Elements(ToImport)

VARIABLES
    step,       \* the task that runs, or how the run has ended
    n,          \* how many realms this run has gone through
    tries,      \* try_n
    there,      \* the realms Keycloak holds
    imported,   \* the realms this run has imported
    skipped,    \* a task of this run has skipped its work
    secret      \* the file with the secret: that of the realm now there, of an earlier
                \* one, or no secret

taskVars == <<step, n, tries, there, imported, skipped, secret>>
tokenVars == <<file, expired, ended, at, held, disturbed, bad>>
allVars == <<taskVars, tokenVars>>

TaskTypeOK ==
    /\ step \in {"clean", "import", "base", "secret", "succeeded", "failed"}
    /\ n \in 0..Len(ToImport)
    /\ tries \in 0..2
    /\ there \subseteq ToDelete
    /\ imported \subseteq there
    /\ skipped \in BOOLEAN
    /\ secret \in {"current", "earlier", "empty"}

TaskInit ==
    /\ step = "clean"
    /\ n = 0
    /\ tries = 0
    /\ there \in {{}, ToDelete}
    /\ imported = {}
    /\ skipped = FALSE
    /\ secret \in {"earlier", "empty"}

Run(tasks) == step' = tasks

\* waitkpod gives up: the task says so and ends with status 0.
PodNotReady ==
    /\ \/ step = "clean" /\ Run("import")
       \/ step = "base" /\ Run("secret")
       \/ step = "secret" /\ Run("succeeded")
    /\ skipped' = TRUE
    /\ UNCHANGED <<n, tries, there, imported, secret, tokenVars>>

Earlier == IF secret = "current" THEN "earlier" ELSE secret

\* kcadm delete ... || true: what cannot be deleted stays.  Sessions end with their realm.
CleanRealms ==
    /\ step = "clean"
    /\ \E gone \in SUBSET there :
        /\ there' = there \ gone
        /\ secret' = IF Onboarding \in gone THEN Earlier ELSE secret
        /\ ended' = IF TokenRealm \in gone THEN Tokens ELSE ended
        /\ disturbed' = (disturbed \/ (TokenRealm \in gone /\ Running # {}))
    /\ Run("import")
    /\ UNCHANGED <<n, tries, imported, skipped, file, expired, at, held, bad>>

\* What configure-realm.sh leaves in Keycloak when it has imported the realm.
Takes(realm) ==
    /\ there' = there \cup {realm}
    /\ secret' = IF realm = Onboarding /\ realm \notin there THEN Earlier ELSE secret

\* The loop over the realms goes on.
Imported(realm) ==
    /\ imported' = imported \cup {realm}
    /\ n' = n + 1
    /\ tries' = 0
    /\ Run(IF n + 1 = Len(ToImport) THEN "base" ELSE "import")

\* MUTANT of TryFailed: with $try_n == 3 in the condition the third failure ends the loop.
TryFailedThrice ==
    /\ step = "import"
    /\ IF tries = 2
       THEN /\ n' = n + 1 /\ tries' = 0
            /\ Run(IF n + 1 = Len(ToImport) THEN "base" ELSE "import")
       ELSE tries' = tries + 1 /\ UNCHANGED <<step, n>>
    /\ Takes(ToImport[n + 1]) \/ UNCHANGED <<there, secret>>
    /\ UNCHANGED <<imported, skipped, tokenVars>>

\* A try that fails may have imported the realm.  [[ try_n == 3 ]] compares a text and
\* is false; [[ try_n -ge 3 ]] is arithmetic and ends the task.
TryFailed ==
    /\ step = "import"
    /\ IF tries = 2 THEN Run("failed") /\ UNCHANGED tries
       ELSE tries' = tries + 1 /\ UNCHANGED step
    /\ Takes(ToImport[n + 1]) \/ UNCHANGED <<there, secret>>
    /\ UNCHANGED <<n, imported, skipped, tokenVars>>

TrySucceeds ==
    /\ step = "import"
    /\ Takes(ToImport[n + 1])
    /\ Imported(ToImport[n + 1])
    /\ UNCHANGED <<skipped, tokenVars>>

\* The realm is imported, but what was generated cannot be copied.
CopyFails ==
    /\ step = "import"
    /\ Takes(ToImport[n + 1])
    /\ Run("failed")
    /\ UNCHANGED <<n, tries, imported, skipped, tokenVars>>

\* keylogin and three updates of realms that may not be there; the first that fails
\* is the end.
BaseAutoconfigure ==
    /\ step = "base"
    /\ Run("secret") \/ Run("failed")
    /\ UNCHANGED <<n, tries, there, imported, skipped, secret, tokenVars>>

\* kcadm | jq: when kcadm fails, jq reads nothing and the secret is empty; when jq, yq
\* or the write fails, the task does.
DownloadSecret ==
    /\ step = "secret"
    /\ \/ /\ secret' \in (IF Onboarding \in there THEN {"current"} ELSE {}) \cup {"empty"}
          /\ Run("succeeded")
       \/ Run("failed") /\ UNCHANGED secret
    /\ UNCHANGED <<n, tries, there, imported, skipped, tokenVars>>

\* The task is started again, after it has ended or was killed.
RunAgain ==
    /\ Run("clean")
    /\ n' = 0
    /\ tries' = 0
    /\ imported' = {}
    /\ skipped' = FALSE
    /\ UNCHANGED <<there, secret, tokenVars>>

Autoconfigure ==
    \/ PodNotReady \/ CleanRealms
    \/ TryFailed \/ TrySucceeds \/ CopyFails
    \/ BaseAutoconfigure \/ DownloadSecret
    \/ RunAgain

AllNext ==
    \/ Autoconfigure
    \/ \E s \in Shells : ShellStep(s, TokenRealm \in there) /\ UNCHANGED taskVars
    \/ \E t \in Tokens : Age(t) /\ UNCHANGED taskVars

AllInit == Init /\ TaskInit

AllSpec == AllInit /\ [][AllNext]_allVars

-----------------------------------------------------------------------------
(* Properties. *)

AllTypeOK == TypeOK /\ TaskTypeOK

\* A run that ends with status 0 has imported every realm itself, whatever was there
\* before and however often a try failed or took effect and failed, and unless it said
\* that it skipped something the file does not hold the secret of a realm that is gone
\* (mise.toml:708-718, 786).
SuccessMeansImported ==
    step = "succeeded" =>
        /\ imported = Elements(ToImport)
        /\ ~skipped => secret # "earlier"
=============================================================================
