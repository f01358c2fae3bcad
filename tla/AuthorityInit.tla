--------------------------- MODULE AuthorityInit ---------------------------
(***************************************************************************)
(* .config/scripts/cluster_authority_initialization.bash: wait until the   *)
(* services are up (HealthWait), then make a local authority usable by     *)
(* seven calls to two of them.  Each run is a fresh container of a fixed   *)
(* name (mise.toml: docker run --name init-authority --rm), so two runs    *)
(* never overlap and no variable or file outlives one; only what the       *)
(* services hold does.  What a run makes is named by the number of the run.*)
(***************************************************************************)
EXTENDS Naturals

CONSTANTS
    NServices,      \* services the wait asks, seven in the script
    MaxN,           \* max_n of the wait, 60 in the script
    MaxRuns         \* bound: how often the task is started

ASSUME InitializationAssumption ==
    /\ NServices \in Nat
    /\ MaxN \in Nat \ {0}
    /\ MaxRuns \in Nat \ {0}

Runs == 1..MaxRuns
None == 0
Unread == MaxRuns + 1   \* what the script reads out of an answer without the field
Ids == Runs \cup {None, Unread}

VARIABLES
    run,            \* the number of this run
    pc,             \* the section of the script it is at
    keypairId, csr, participantId, content, \* KEYPAIR_ID, csr.json, PARTICIPANT_ID, CONTENT
    keypairs,       \* authentication provider: the key pairs
    dataspace,      \* authentication provider: the dataspace is described
    installed,      \* authentication provider: the credentials in use
    participants,   \* identity provider: the participants
    csrOf,          \* identity provider: the key pair in the CSR of each participant
    torn,           \* db:clean has emptied it but not the authentication provider
    checkErred,     \* the check of this run met an answer that is not the truth
    faulted         \* something outside went wrong in this run

VARIABLES up, line, n, status, result, seenUp

Wait == INSTANCE HealthWait

waitVars == <<up, line, n, status, result, seenUp>>

scriptVars == <<keypairId, csr, participantId, content>>
authentication == <<keypairs, dataspace, installed>>
identity == <<participants, csrOf, torn>>
vars == <<run, pc, scriptVars, authentication, identity, checkErred, faulted, waitVars>>

Sections == {"wait", "check", "keypair", "dataspace", "csr", "participant",
             "csrUpload", "credentials", "upload"}
Succeeded == {"already", "completed"}
Ended == Succeeded \cup {"failed"}

NoCredentials == [participant |-> None, keypair |-> None]
Credentials == [participant : Ids, keypair : Ids]

TypeOK ==
    /\ run \in Runs
    /\ pc \in Sections \cup Ended
    /\ keypairId \in Runs \cup {None}
    /\ csr \in Ids
    /\ participantId \in Ids
    /\ content \in Credentials
    /\ keypairs \subseteq Runs
    /\ dataspace \in BOOLEAN
    /\ installed \in Credentials
    /\ participants \subseteq Runs
    /\ csrOf \in [Runs -> Ids]
    /\ torn \in BOOLEAN
    /\ checkErred \in BOOLEAN
    /\ faulted \in BOOLEAN
    /\ Wait!TypeOK

Init ==
    /\ run = 1 /\ pc = "wait" /\ faulted = FALSE /\ checkErred = FALSE
    /\ Wait!Init
    /\ keypairId = None /\ csr = None /\ participantId = None
    /\ content = NoCredentials
    /\ keypairs = {} /\ dataspace = FALSE /\ installed = NoCredentials
    /\ participants = {} /\ csrOf = [r \in Runs |-> None] /\ torn = FALSE

-----------------------------------------------------------------------------

\* An answer: "ok", or "lost" when the call took effect and the script sees an
\* error.  A call without effect and error is Stop.
Answers == {"ok", "lost"}

Goes(answer, section) ==
    /\ pc' = IF answer = "ok" THEN section ELSE "failed"
    /\ faulted' = (faulted \/ answer # "ok")
    /\ UNCHANGED <<run, checkErred, waitVars>>

\* A refused connection, a status that is not 2xx, an exit of the shell, docker kill.
Stop ==
    /\ pc \notin Ended
    /\ pc' = "failed"
    /\ faulted' = TRUE
    /\ UNCHANGED <<run, checkErred, waitVars, scriptVars, authentication, identity>>

\* A step of wait_all_services_authority_up; under sh -e its failure is the end.
Waiting ==
    /\ pc = "wait"
    /\ Wait!Script
    /\ pc' = CASE result' = "none" -> "wait" [] result' = "up" -> "check" [] OTHER -> "failed"
    /\ faulted' = (faulted \/ result' = "failed")
    /\ UNCHANGED <<run, checkErred, scriptVars, authentication, identity>>

\* A service starts or stops; after the wait that shows in the answers of the calls.
ServiceChanges ==
    /\ pc = "wait"
    /\ \E s \in Wait!Services : Wait!Change(s)
    /\ UNCHANGED <<run, pc, checkErred, faulted, scriptVars, authentication, identity>>

\* MUTANT of Check: the status of the answer is not looked at.
CheckIgnored ==
    /\ pc = "check"
    /\ pc' = "keypair"
    /\ UNCHANGED <<run, checkErred, faulted, waitVars, scriptVars, authentication, identity>>

\* HEAD /keypairs/active: 2xx ends the script, every other status means not yet, that
\* of a server that cannot answer included.
Check ==
    /\ pc = "check"
    /\ \/ installed # NoCredentials /\ pc' = "already"
       \/ pc' = "keypair"
    /\ checkErred' = (installed # NoCredentials /\ pc' = "keypair")
    /\ UNCHANGED <<run, faulted, waitVars, scriptVars, authentication, identity>>

GenerateKeypair(answer) ==
    /\ pc = "keypair"
    /\ keypairs' = keypairs \cup {run}
    /\ keypairId' = IF answer = "ok" THEN run ELSE keypairId
    /\ Goes(answer, "dataspace")
    /\ UNCHANGED <<csr, participantId, content, dataspace, installed, identity>>

PutDataspace(answer) ==
    /\ pc = "dataspace"
    /\ dataspace' = TRUE
    /\ Goes(answer, "csr")
    /\ UNCHANGED <<scriptVars, keypairs, installed, identity>>

\* echo "$CSR_RESPONSE" > /tmp/csr.json writes a line even when the body is empty,
\* so the test for an empty file never fires.
RequestCsr(body) ==
    /\ pc = "csr"
    /\ csr' = body
    /\ pc' = "participant"
    /\ faulted' = (faulted \/ body # keypairId)
    /\ UNCHANGED <<run, checkErred, waitVars, keypairId, participantId, content, authentication, identity>>

\* MUTANT of CreateParticipant: a participant an earlier run left is taken again.
CreateParticipantReused(answer, id) ==
    /\ pc = "participant"
    /\ participants' = IF participants = {} THEN {run} ELSE participants
    /\ participantId' = IF answer = "ok" THEN CHOOSE p \in participants' : TRUE ELSE None
    /\ Goes(answer, "csrUpload")
    /\ UNCHANGED <<keypairId, csr, content, authentication, csrOf, torn>>

\* sed prints an answer without "id" as it is and takes it for the id; an empty answer
\* gives an empty PARTICIPANT_ID, which ends the script: it is a lost one.
CreateParticipant(answer, id) ==
    /\ pc = "participant"
    /\ participants' = participants \cup {run}
    /\ participantId' = IF answer = "ok" THEN id ELSE participantId
    /\ pc' = IF answer = "ok" THEN "csrUpload" ELSE "failed"
    /\ faulted' = (faulted \/ answer # "ok" \/ id # run)
    /\ UNCHANGED <<run, checkErred, waitVars, keypairId, csr, content, authentication, csrOf, torn>>

\* MUTANT of UploadCsr: the CSR goes to the participant of another run.
UploadCsrElsewhere(answer) ==
    /\ pc = "csrUpload"
    /\ participantId \in participants
    /\ csrOf' = [csrOf EXCEPT ![CHOOSE p \in participants : TRUE] = csr]
    /\ Goes(answer, "credentials")
    /\ UNCHANGED <<scriptVars, authentication, participants, torn>>

UploadCsr(answer) ==
    /\ pc = "csrUpload"
    /\ participantId \in participants
    /\ csrOf' = [csrOf EXCEPT ![participantId] = csr]
    /\ Goes(answer, "credentials")
    /\ UNCHANGED <<scriptVars, authentication, participants, torn>>

\* A certificate is issued for the key in the CSR of the participant.
CreateCredentials(answer) ==
    /\ pc = "credentials"
    /\ csrOf[participantId] \in Runs
    /\ content' = IF answer = "ok"
                  THEN [participant |-> participantId, keypair |-> csrOf[participantId]]
                  ELSE content
    /\ Goes(answer, "upload")
    /\ UNCHANGED <<keypairId, csr, participantId, authentication, identity>>

\* MUTANT of UploadCredentials: no look at the status of the last answer.
UploadUnchecked(answer) ==
    /\ pc = "upload"
    /\ installed' = IF answer = "ok" /\ content.keypair \in keypairs THEN content ELSE installed
    /\ torn' = FALSE
    /\ pc' = "completed"
    /\ UNCHANGED <<run, checkErred, waitVars, faulted, scriptVars, keypairs, dataspace, participants, csrOf>>

\* The provider takes a certificate that belongs to one of its key pairs.
UploadCredentials(answer) ==
    /\ pc = "upload"
    /\ content.keypair \in keypairs
    /\ installed' = content
    /\ torn' = FALSE
    /\ Goes(answer, "completed")
    /\ UNCHANGED <<scriptVars, keypairs, dataspace, participants, csrOf>>

\* MUTANT of Refused: the same call is sent again and again.
RefusedAgain ==
    /\ \/ pc = "csrUpload" /\ participantId \notin participants
       \/ pc = "credentials" /\ csrOf[participantId] \notin Runs
       \/ pc = "upload" /\ content.keypair \notin keypairs
    /\ UNCHANGED vars

\* The service refuses what it cannot accept: exit 1.
Refused ==
    /\ \/ pc = "csrUpload" /\ participantId \notin participants
       \/ pc = "credentials" /\ csrOf[participantId] \notin Runs
       \/ pc = "upload" /\ content.keypair \notin keypairs
    /\ pc' = "failed"
    /\ UNCHANGED <<run, checkErred, waitVars, scriptVars, authentication, identity, faulted>>

\* The next container: no variable and no file of the last one is left.
NextRun ==
    /\ pc \in Ended
    /\ run < MaxRuns
    /\ run' = run + 1 /\ pc' = "wait" /\ faulted' = FALSE /\ checkErred' = FALSE
    /\ line' = 1 /\ n' = 1 /\ status' = "none" /\ result' = "none" /\ seenUp' = {}
    /\ keypairId' = None /\ csr' = None /\ participantId' = None
    /\ content' = NoCredentials
    /\ UNCHANGED up

StartAgain == NextRun /\ UNCHANGED <<authentication, identity>>

\* simpl:prune_and_init: db:clean drops each database by itself and its wait hides the
\* one that could not be dropped; then the task starts again.
PruneAndInit ==
    /\ NextRun
    /\ \/ keypairs' = {} /\ dataspace' = FALSE /\ installed' = NoCredentials
       \/ UNCHANGED authentication
    /\ \/ participants' = {} /\ csrOf' = [r \in Runs |-> None]
       \/ UNCHANGED <<participants, csrOf>>
    /\ torn' = (installed' # NoCredentials /\ (torn \/ csrOf' # csrOf))

Script ==
    \/ Waiting \/ Check \/ Refused
    \/ \E body \in {keypairId, Unread} : RequestCsr(body)
    \/ \E answer \in Answers :
        \/ GenerateKeypair(answer)
        \/ PutDataspace(answer)
        \/ \E id \in {run, Unread} : CreateParticipant(answer, id)
        \/ UploadCsr(answer)
        \/ CreateCredentials(answer)
        \/ UploadCredentials(answer)

Next == Script \/ ServiceChanges \/ Stop \/ StartAgain \/ PruneAndInit

\* The shell runs and curl returns; that anybody starts the task again is not assumed.
Spec == Init /\ [][Next]_vars /\ WF_vars(Script)

-----------------------------------------------------------------------------
(* Properties. *)

\* The initialization goes on only after every service has answered UP in this run,
\* although the services start and stop and share one count of attempts.
GoesOnOnlyWhenSeenUp ==
    pc \in (Sections \ {"wait"}) \cup Succeeded => seenUp = Wait!Services

\* A run that ends well leaves an authority with credentials (lines 59-62, 315-319).
SuccessMeansInitialized ==
    pc \in Succeeded => installed # NoCredentials

\* The installed credentials fit together: participant and key pair were made by one
\* run, and both are still held by their services, unless db:clean has emptied the
\* identity provider and failed at the authentication provider.
CredentialsFit ==
    installed # NoCredentials =>
        /\ installed.keypair = installed.participant
        /\ installed.keypair \in keypairs
        /\ torn \/ csrOf[installed.participant] = installed.keypair

\* The script can be run again whatever an earlier run left half done: a run in which
\* nothing outside goes wrong succeeds.
CleanRunSucceeds ==
    pc = "failed" => faulted

\* Every run ends, in whatever state the earlier ones left the services and whatever
\* these do during the wait.
RunEnds == pc \in Sections ~> pc \in Ended

\* An authority whose initialization the script can see is left alone: nothing is made
\* or installed in a run whose check was answered truly.
InitializedOnceIfSeen ==
    [][installed # NoCredentials /\ ~checkErred /\ run' = run =>
         UNCHANGED <<keypairs, participants, installed>>]_vars

\* "Check authority already initializated" (line 38): an authority that is initialized
\* is not initialized again.
InitializedOnce ==
    [][installed # NoCredentials /\ run' = run => UNCHANGED <<keypairs, participants, installed>>]_vars
=============================================================================
