------------------------ MODULE AuthorityInit_proofs ------------------------
(***************************************************************************)
(* What holds of the initialization of an authority for every number of    *)
(* services, every limit of the wait and every number of runs.             *)
(***************************************************************************)
EXTENDS AuthorityInit, TLAPS

AfterWait == (Sections \ {"wait"}) \cup Succeeded
AfterCheck == Sections \ {"wait", "check"}
AfterKeypair == AfterCheck \ {"keypair"}
AfterCsr == {"participant", "csrUpload", "credentials", "upload"}

\* The services before the one the wait is at have answered UP, and so has this one
\* when its last answer was UP.
WaitInv ==
    /\ \A s \in Wait!Services : s < line => s \in seenUp
    /\ status = "UP" => line \in seenUp
    /\ status # "none" => line \in Wait!Services
    /\ pc = "wait" => result = "none"
    /\ pc \in AfterWait => seenUp = Wait!Services

\* What this run holds in its variables is what it made itself, or it has read
\* something else out of an answer and is marked by that.
RunInv ==
    /\ pc \in AfterKeypair => keypairId = run /\ run \in keypairs
    /\ pc \in AfterCsr => csr \in {run, Unread} /\ (csr = run \/ faulted)
    /\ pc = "csrUpload" =>
         /\ run \in participants
         /\ participantId \in {run, Unread}
         /\ participantId = run \/ faulted
    /\ pc \in {"credentials", "upload"} => participantId = run /\ csrOf[run] = csr
    /\ pc = "upload" => csr = run /\ content = [participant |-> run, keypair |-> run]

\* The credentials in use are those of an earlier run until this one has uploaded its
\* own, and one that goes on in spite of them has met a wrong answer to its check.
OldInv ==
    /\ installed.participant \in 0..run
    /\ pc \in Sections => installed.participant < run
    /\ installed # NoCredentials /\ pc \in AfterCheck => checkErred

IInv ==
    /\ TypeOK
    /\ WaitInv
    /\ RunInv
    /\ OldInv
    /\ SuccessMeansInitialized
    /\ CredentialsFit
    /\ CleanRunSucceeds

USE DEF Sections, Succeeded, Ended, AfterWait, AfterCheck, AfterKeypair, AfterCsr,
        Wait!Services, waitVars, scriptVars, authentication, identity, vars

-----------------------------------------------------------------------------
\* The numbers of the runs are told apart from what is missing or could not be read.
LEMMA RunsFact ==
    /\ MaxRuns \in Nat \ {0}
    /\ Runs = 1..MaxRuns
    /\ None = 0 /\ None \notin Runs
    /\ Unread = MaxRuns + 1 /\ Unread \notin Runs
    /\ Ids = Runs \cup {None, Unread}
BY InitializationAssumption DEF Runs, None, Unread, Ids

\* The initial state satisfies the invariant.
LEMMA InitIInv == Init => IInv
<1> SUFFICES ASSUME Init PROVE IInv
  OBVIOUS
<1> USE RunsFact, InitializationAssumption DEF Init
<1>1. NoCredentials \in Credentials /\ NoCredentials.participant = 0
  BY DEF NoCredentials, Credentials
<1>2. TypeOK
  <2>1. Wait!TypeOK
    BY DEF Wait!TypeOK, Wait!Init
  <2>2. csrOf \in [Runs -> Ids]
    OBVIOUS
  <2>3. run \in Runs /\ None \in Ids
    OBVIOUS
  <2>4. content \in Credentials /\ installed \in Credentials
    BY <1>1
  <2>5. /\ pc \in Sections \cup Ended
        /\ keypairId \in Runs \cup {None}
        /\ csr \in Ids /\ participantId \in Ids
    BY <2>3
  <2>6. /\ keypairs \subseteq Runs /\ participants \subseteq Runs
        /\ dataspace \in BOOLEAN /\ torn \in BOOLEAN
        /\ checkErred \in BOOLEAN /\ faulted \in BOOLEAN
    OBVIOUS
  <2> QED
    BY <2>1, <2>2, <2>3, <2>4, <2>5, <2>6 DEF TypeOK
<1>3. WaitInv /\ RunInv
  BY DEF WaitInv, RunInv, Wait!Init
<1>4. OldInv /\ SuccessMeansInitialized /\ CredentialsFit /\ CleanRunSucceeds
  BY <1>1 DEF OldInv, SuccessMeansInitialized, CredentialsFit, CleanRunSucceeds
<1> QED
  BY <1>2, <1>3, <1>4 DEF IInv

\* A step of the wait keeps the invariant.
LEMMA WaitingIInv ==
    ASSUME IInv, Waiting \/ ServiceChanges
    PROVE  IInv'
<1> USE RunsFact, InitializationAssumption DEF IInv
<1>1. CASE ServiceChanges
  BY <1>1 DEF ServiceChanges, Wait!Change, TypeOK, Wait!TypeOK, WaitInv, RunInv, OldInv,
              SuccessMeansInitialized, CredentialsFit, CleanRunSucceeds
<1>2. CASE Waiting
  <2>0. /\ pc = "wait" /\ Wait!Script
        /\ UNCHANGED <<run, checkErred, scriptVars, authentication, identity>>
    BY <1>2 DEF Waiting
  <2>1. /\ Wait!TypeOK'
        /\ \A s \in Wait!Services : s < line' => s \in seenUp'
        /\ status' = "UP" => line' \in seenUp'
        /\ status' # "none" => line' \in Wait!Services
        /\ result' = "up" => seenUp' = Wait!Services
    <3>0. Wait!TypeOK /\ WaitInv /\ result = "none"
      BY <2>0 DEF TypeOK, WaitInv
    <3>1. CASE Wait!Ask
      BY <3>0, <3>1 DEF Wait!Ask, Wait!TypeOK, WaitInv
    <3>2. CASE Wait!Sleep
      BY <3>0, <3>2 DEF Wait!Sleep, Wait!TypeOK, WaitInv
    <3>3. CASE Wait!LoopOver
      BY <3>0, <3>3 DEF Wait!LoopOver, Wait!TypeOK, WaitInv
    <3>4. CASE Wait!AllUp
      <4>1. /\ line \in 1..(NServices + 1) /\ line \notin Wait!Services
            /\ result' = "up"
            /\ UNCHANGED <<up, line, n, status, seenUp>>
        BY <3>0, <3>4 DEF Wait!AllUp, Wait!TypeOK
      <4>2. line = NServices + 1
        BY <4>1
      <4>3. \A s \in Wait!Services : s \in seenUp
        BY <3>0, <4>2 DEF WaitInv
      <4>4. seenUp = Wait!Services
        BY <3>0, <4>3 DEF Wait!TypeOK
      <4> QED
        BY <3>0, <4>1, <4>4 DEF Wait!TypeOK, WaitInv
    <3> QED
      BY <2>0, <3>1, <3>2, <3>3, <3>4 DEF Wait!Script
  <2>2. \/ pc' = "wait" /\ result' = "none"
        \/ pc' = "check" /\ result' = "up"
        \/ pc' = "failed" /\ result' = "failed" /\ faulted'
    BY <1>2, <2>1 DEF Waiting, Wait!TypeOK
  <2>3. faulted' \in BOOLEAN
    BY <1>2 DEF Waiting, TypeOK
  <2>4. TypeOK' /\ WaitInv'
    BY <2>0, <2>1, <2>2, <2>3 DEF TypeOK, WaitInv
  <2>5. RunInv' /\ OldInv' /\ SuccessMeansInitialized' /\ CredentialsFit' /\ CleanRunSucceeds'
    BY <2>0, <2>2 DEF RunInv, OldInv, SuccessMeansInitialized, CredentialsFit, CleanRunSucceeds
  <2> QED
    BY <2>4, <2>5
<1> QED
  BY <1>1, <1>2

\* What a section after the wait leaves of it.
LEMMA WaitLeft ==
    ASSUME IInv, pc \in AfterWait, pc' # "wait", UNCHANGED waitVars
    PROVE  Wait!TypeOK' /\ WaitInv'
<1>1. UNCHANGED <<up, line, n, status, result, seenUp>>
  OBVIOUS
<1>2. Wait!TypeOK'
  BY <1>1 DEF IInv, TypeOK, Wait!TypeOK
<1>3. WaitInv'
  BY <1>1 DEF IInv, WaitInv
<1> QED
  BY <1>2, <1>3

\* The check ends the run over credentials in use, or goes on without any, or is
\* marked as answered wrongly.
LEMMA CheckIInv ==
    ASSUME IInv, Check
    PROVE  IInv'
<1> USE RunsFact DEF IInv, Check
<1>1. Wait!TypeOK' /\ WaitInv'
  BY WaitLeft
<1>2. TypeOK'
  BY <1>1 DEF TypeOK
<1>3. RunInv' /\ OldInv' /\ SuccessMeansInitialized' /\ CredentialsFit' /\ CleanRunSucceeds'
  BY DEF RunInv, OldInv, SuccessMeansInitialized, CredentialsFit, CleanRunSucceeds
<1> QED
  BY <1>1, <1>2, <1>3

\* The key pair this run makes is the one it holds.
LEMMA GenerateKeypairIInv ==
    ASSUME IInv, NEW answer \in Answers, GenerateKeypair(answer)
    PROVE  IInv'
<1> USE RunsFact DEF IInv, GenerateKeypair, Goes
<1>1. Wait!TypeOK' /\ WaitInv'
  BY WaitLeft
<1>2. TypeOK'
  BY <1>1 DEF TypeOK
<1>3. RunInv' /\ OldInv' /\ CleanRunSucceeds'
  BY DEF TypeOK, RunInv, OldInv, CleanRunSucceeds
<1>4. SuccessMeansInitialized' /\ CredentialsFit'
  BY DEF SuccessMeansInitialized, CredentialsFit
<1> QED
  BY <1>1, <1>2, <1>3, <1>4

\* Describing the dataspace leaves key pairs and participants alone.
LEMMA PutDataspaceIInv ==
    ASSUME IInv, NEW answer \in Answers, PutDataspace(answer)
    PROVE  IInv'
<1> USE RunsFact DEF IInv, PutDataspace, Goes
<1>1. Wait!TypeOK' /\ WaitInv'
  BY WaitLeft
<1>2. TypeOK'
  BY <1>1 DEF TypeOK
<1>3. RunInv' /\ OldInv' /\ CleanRunSucceeds'
  BY DEF RunInv, OldInv, CleanRunSucceeds
<1>4. SuccessMeansInitialized' /\ CredentialsFit'
  BY DEF SuccessMeansInitialized, CredentialsFit
<1> QED
  BY <1>1, <1>2, <1>3, <1>4

\* The CSR this run reads is for its own key pair, or it could not be read.
LEMMA RequestCsrIInv ==
    ASSUME IInv, NEW body \in {keypairId, Unread}, RequestCsr(body)
    PROVE  IInv'
<1> USE RunsFact DEF IInv, RequestCsr
<1>1. Wait!TypeOK' /\ WaitInv'
  BY WaitLeft
<1>2. TypeOK'
  BY <1>1 DEF TypeOK
<1>3. RunInv' /\ OldInv' /\ CleanRunSucceeds'
  BY DEF TypeOK, RunInv, OldInv, CleanRunSucceeds
<1>4. SuccessMeansInitialized' /\ CredentialsFit'
  BY DEF SuccessMeansInitialized, CredentialsFit
<1> QED
  BY <1>1, <1>2, <1>3, <1>4

\* The participant this run makes is the one it holds, or its number could not be read.
LEMMA CreateParticipantIInv ==
    ASSUME IInv, NEW answer \in Answers, NEW id \in {run, Unread}, CreateParticipant(answer, id)
    PROVE  IInv'
<1> USE RunsFact DEF IInv, CreateParticipant
<1>1. Wait!TypeOK' /\ WaitInv'
  BY WaitLeft
<1>2. TypeOK'
  BY <1>1 DEF TypeOK
<1>3. RunInv' /\ OldInv' /\ CleanRunSucceeds'
  BY DEF TypeOK, RunInv, OldInv, CleanRunSucceeds
<1>4. SuccessMeansInitialized' /\ CredentialsFit'
  BY DEF SuccessMeansInitialized, CredentialsFit
<1> QED
  BY <1>1, <1>2, <1>3, <1>4

\* The CSR goes to the participant of this run, which is not the one the credentials
\* in use belong to.
LEMMA UploadCsrIInv ==
    ASSUME IInv, NEW answer \in Answers, UploadCsr(answer)
    PROVE  IInv'
<1> USE RunsFact DEF IInv, UploadCsr, Goes
<1>1. Wait!TypeOK' /\ WaitInv'
  BY WaitLeft
<1>2. TypeOK'
  BY <1>1 DEF TypeOK
<1>3. participantId = run
  BY DEF TypeOK, RunInv
<1>4. csrOf'[run] = csr
  BY <1>3 DEF TypeOK
<1>5. RunInv'
  BY <1>3, <1>4 DEF RunInv
<1>6. OldInv' /\ CleanRunSucceeds' /\ SuccessMeansInitialized'
  BY DEF OldInv, CleanRunSucceeds, SuccessMeansInitialized
<1>7. CredentialsFit'
  BY <1>3 DEF TypeOK, OldInv, CredentialsFit
<1> QED
  BY <1>1, <1>2, <1>5, <1>6, <1>7

\* The credentials are of this run's participant and of the key pair in its CSR.
LEMMA CreateCredentialsIInv ==
    ASSUME IInv, NEW answer \in Answers, CreateCredentials(answer)
    PROVE  IInv'
<1> USE RunsFact DEF IInv, CreateCredentials, Goes
<1>1. Wait!TypeOK' /\ WaitInv'
  BY WaitLeft
<1>2. participantId = run /\ csrOf[run] = csr /\ csr = run
  BY DEF TypeOK, RunInv
<1>3. content' \in Credentials
  BY <1>2 DEF TypeOK, Credentials
<1>4. TypeOK'
  BY <1>1, <1>3 DEF TypeOK
<1>5. RunInv'
  BY <1>2 DEF RunInv
<1>6. OldInv' /\ CleanRunSucceeds' /\ SuccessMeansInitialized' /\ CredentialsFit'
  BY DEF OldInv, CleanRunSucceeds, SuccessMeansInitialized, CredentialsFit
<1> QED
  BY <1>1, <1>4, <1>5, <1>6

\* The credentials this run installs are of its own participant and key pair.
LEMMA UploadCredentialsIInv ==
    ASSUME IInv, NEW answer \in Answers, UploadCredentials(answer)
    PROVE  IInv'
<1> USE RunsFact DEF IInv, UploadCredentials, Goes
<1>1. Wait!TypeOK' /\ WaitInv'
  BY WaitLeft
<1>2. TypeOK'
  BY <1>1 DEF TypeOK
<1>3. /\ installed'.participant = run
      /\ installed'.keypair = run
      /\ installed' # NoCredentials
      /\ csrOf[run] = run
  BY DEF TypeOK, RunInv, NoCredentials
<1>4. RunInv' /\ CleanRunSucceeds'
  BY DEF RunInv, CleanRunSucceeds
<1>5. OldInv' /\ SuccessMeansInitialized' /\ CredentialsFit'
  BY <1>3 DEF TypeOK, RunInv, OldInv, SuccessMeansInitialized, CredentialsFit
<1> QED
  BY <1>1, <1>2, <1>4, <1>5

\* A failure keeps the invariant; a service refuses only a run that has met a fault.
LEMMA FailureIInv ==
    ASSUME IInv, Stop \/ Refused
    PROVE  IInv'
<1> USE RunsFact DEF IInv
<1>1. CASE Stop
  BY <1>1 DEF Stop, TypeOK, Wait!TypeOK, WaitInv, RunInv, OldInv, SuccessMeansInitialized,
              CredentialsFit, CleanRunSucceeds
<1>2. CASE Refused
  <2> USE <1>2 DEF Refused
  <2>1. Wait!TypeOK' /\ WaitInv'
    BY WaitLeft
  <2>2. TypeOK'
    BY <2>1 DEF TypeOK
  <2>3. faulted
    BY DEF TypeOK, RunInv
  <2>4. RunInv' /\ OldInv' /\ SuccessMeansInitialized' /\ CredentialsFit' /\ CleanRunSucceeds'
    BY <2>3 DEF RunInv, OldInv, SuccessMeansInitialized, CredentialsFit, CleanRunSucceeds
  <2> QED
    BY <2>1, <2>2, <2>4
<1> QED
  BY <1>1, <1>2

\* A new run starts from the invariant, also after db:clean.
LEMMA NextRunIInv ==
    ASSUME IInv, StartAgain \/ PruneAndInit
    PROVE  IInv'
<1> USE RunsFact, InitializationAssumption DEF IInv
<1>1. NextRun /\ run' = run + 1 /\ pc' = "wait"
  BY DEF StartAgain, PruneAndInit, NextRun
<1>2. NoCredentials \in Credentials /\ NoCredentials.participant = 0
  BY DEF NoCredentials, Credentials
<1>3. run' \in Runs
  BY <1>1 DEF NextRun, TypeOK
<1>4. Wait!TypeOK' /\ WaitInv'
  BY <1>1 DEF NextRun, TypeOK, Wait!TypeOK, WaitInv
<1>5. TypeOK'
  BY <1>1, <1>2, <1>3, <1>4 DEF NextRun, StartAgain, PruneAndInit, TypeOK
<1>6. RunInv' /\ SuccessMeansInitialized' /\ CleanRunSucceeds'
  BY <1>1 DEF RunInv, SuccessMeansInitialized, CleanRunSucceeds
<1>7. installed' = installed \/ installed' = NoCredentials
  BY DEF StartAgain, PruneAndInit
<1>8. OldInv'
  BY <1>1, <1>2, <1>3, <1>7 DEF TypeOK, OldInv
<1>9. CredentialsFit'
  <2>1. CASE StartAgain
    BY <2>1 DEF StartAgain, CredentialsFit
  <2>2. CASE PruneAndInit
    <3> SUFFICES ASSUME installed' # NoCredentials
                 PROVE  /\ installed'.keypair = installed'.participant
                        /\ installed'.keypair \in keypairs'
                        /\ torn' \/ csrOf'[installed'.participant] = installed'.keypair
      BY DEF CredentialsFit
    <3>1. UNCHANGED authentication
      BY <2>2 DEF PruneAndInit
    <3>2. torn' \/ (~torn /\ csrOf' = csrOf)
      BY <2>2 DEF PruneAndInit
    <3> QED
      BY <3>1, <3>2 DEF CredentialsFit
  <2> QED
    BY <2>1, <2>2
<1> QED
  BY <1>4, <1>5, <1>6, <1>8, <1>9

\* Every step keeps the invariant.
LEMMA NextIInv == IInv /\ [Next]_vars => IInv'
<1> SUFFICES ASSUME IInv, [Next]_vars PROVE IInv'
  OBVIOUS
<1>1. CASE Script
  BY <1>1, WaitingIInv, CheckIInv, FailureIInv, RequestCsrIInv, GenerateKeypairIInv,
     PutDataspaceIInv, CreateParticipantIInv, UploadCsrIInv, CreateCredentialsIInv,
     UploadCredentialsIInv DEF Script
<1>2. CASE ServiceChanges
  BY <1>2, WaitingIInv
<1>3. CASE Stop
  BY <1>3, FailureIInv
<1>4. CASE StartAgain \/ PruneAndInit
  BY <1>4, NextRunIInv
<1>5. CASE UNCHANGED vars
  BY <1>5 DEF IInv, TypeOK, Wait!TypeOK, WaitInv, RunInv, OldInv, SuccessMeansInitialized,
              CredentialsFit, CleanRunSucceeds
<1> QED
  BY <1>1, <1>2, <1>3, <1>4, <1>5 DEF Next

-----------------------------------------------------------------------------
\* The invariant holds of every behaviour.
THEOREM Inductive == Spec => []IInv
<1>1. Init => IInv
  BY InitIInv
<1>2. IInv /\ [Next]_vars => IInv'
  BY NextIInv
<1> QED
  BY <1>1, <1>2, PTL DEF Spec

\* The type invariant of the script and the services.
THEOREM TypeCorrect == Spec => []TypeOK
<1>1. IInv => TypeOK
  BY DEF IInv
<1> QED
  BY <1>1, Inductive, PTL

\* The first call is made only after every service has answered UP, for any number of
\* services and attempts.
THEOREM WaitsForAll == Spec => []GoesOnOnlyWhenSeenUp
<1>1. IInv => GoesOnOnlyWhenSeenUp
  BY DEF IInv, WaitInv, GoesOnOnlyWhenSeenUp
<1> QED
  BY <1>1, Inductive, PTL

\* A run that ends well leaves an initialized authority.
THEOREM SuccessIsReal == Spec => []SuccessMeansInitialized
<1>1. IInv => SuccessMeansInitialized
  BY DEF IInv
<1> QED
  BY <1>1, Inductive, PTL

\* Participant, key pair and CSR of the installed credentials belong to one run, for
\* any number of runs before and after it.
THEOREM InstalledFit == Spec => []CredentialsFit
<1>1. IInv => CredentialsFit
  BY DEF IInv
<1> QED
  BY <1>1, Inductive, PTL

\* A run fails only if something outside went wrong in it, whatever was left behind.
THEOREM CanBeRunAgain == Spec => []CleanRunSucceeds
<1>1. IInv => CleanRunSucceeds
  BY DEF IInv
<1> QED
  BY <1>1, Inductive, PTL

\* In a run whose check was answered truly an initialized authority is not touched.
THEOREM LeftAlone == Spec => InitializedOnceIfSeen
<1> DEFINE Untouched ==
        installed # NoCredentials /\ ~checkErred /\ run' = run =>
            UNCHANGED <<keypairs, participants, installed>>
<1>1. IInv /\ [Next]_vars => [Untouched]_vars
  <2> SUFFICES ASSUME IInv, Next, installed # NoCredentials, ~checkErred, run' = run
               PROVE  UNCHANGED <<keypairs, participants, installed>>
    OBVIOUS
  <2>1. pc \notin AfterCheck
    BY DEF IInv, OldInv
  <2>2. ~NextRun
    BY RunsFact DEF IInv, TypeOK, NextRun
  <2> QED
    BY <2>1, <2>2 DEF Next, Script, Waiting, ServiceChanges, Stop, StartAgain, PruneAndInit,
       Check, Refused, GenerateKeypair, PutDataspace, RequestCsr, CreateParticipant,
       UploadCsr, CreateCredentials, UploadCredentials
<1> QED
  BY <1>1, Inductive, PTL DEF Spec, InitializedOnceIfSeen
=============================================================================
