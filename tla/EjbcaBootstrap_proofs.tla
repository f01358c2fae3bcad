----------------------- MODULE EjbcaBootstrap_proofs -----------------------
(***************************************************************************)
(* What the EJBCA initialization leaves in the database and on the host,   *)
(* for any number of tasks and databases.                                  *)
(***************************************************************************)
EXTENDS EjbcaBootstrap, TLAPS

\* A script runs on the profiles that its task has put into the pod.
ConfigInv == \A t \in Tasks : script[t] # None => config

\* A script that is still clean has made everything before the step it is at.
CleanInv ==
    \A t \in Tasks : clean[t] => \A i \in 1..Len(Plan) :
        i + 2 <= script[t] /\ Plan[i] \in InDatabase => Plan[i] \in held

\* The files in a pod whose EJBCA was started on this database are made from it.
PodInv ==
    usable => pod["p12"] \in {None, epoch} /\ pod["truststore"] \in {None, epoch, Empty}

\* The keystore goes first: it is on the host when the truststore is asked for.
HostInv == at = "truststore" /\ usable => host["p12"] = epoch

IInv ==
    /\ TypeOK
    /\ ConfigInv
    /\ CleanInv
    /\ PodInv
    /\ HostInv

-----------------------------------------------------------------------------
(* The order of the script. *)

\* The steps of the script, one by one.
LEMMA PlanSteps ==
    /\ Len(Plan) = 15
    /\ Plan[1] = "protocols" /\ Plan[2] = "profiles"
    /\ Plan[3] = "SimplCryptoToken" /\ Plan[4] = "simplKeys" /\ Plan[5] = "SimplCA"
    /\ Plan[6] = "simplSettings" /\ Plan[7] = "SimplOnboardingCryptoToken"
    /\ Plan[8] = "onboardingKeys" /\ Plan[9] = "OnBoardingCA" /\ Plan[10] = "onboardingSettings"
    /\ Plan[11] = "endentity" /\ Plan[12] = "rolemember" /\ Plan[13] = "clearpwd"
    /\ Plan[14] = "p12" /\ Plan[15] = "truststore"
BY DEF Plan

\* What the script makes in the database: all but the last two, which are files.
LEMMA PlanInDatabase ==
    /\ \A k \in 1..13 : Plan[k] \in InDatabase
    /\ \A thing \in InDatabase : \E k \in 1..13 : thing = Plan[k]
<1>1. DOMAIN Plan = 1..15
  BY DEF Plan
<1>2. \A k \in 1..13 : Plan[k] \notin {"p12", "truststore"}
  <2> SUFFICES ASSUME NEW k \in 1..13 PROVE Plan[k] \notin {"p12", "truststore"}
    OBVIOUS
  <2>1. \/ k = 1 \/ k = 2 \/ k = 3 \/ k = 4 \/ k = 5 \/ k = 6 \/ k = 7 \/ k = 8 \/ k = 9
        \/ k = 10 \/ k = 11 \/ k = 12 \/ k = 13
    OBVIOUS
  <2> QED
    BY <2>1, PlanSteps
<1>3. \A k \in 1..13 : Plan[k] \in InDatabase
  BY <1>1, <1>2 DEF InDatabase
<1>4. ASSUME NEW thing \in InDatabase PROVE \E k \in 1..13 : thing = Plan[k]
  <2>1. PICK k \in 1..15 : thing = Plan[k]
    BY <1>1 DEF InDatabase
  <2>2. k # 14 /\ k # 15
    BY <2>1, PlanSteps DEF InDatabase
  <2> QED
    BY <2>1, <2>2
<1> QED
  BY <1>3, <1>4

\* Whatever EJBCA must hold to do a step is made by an earlier one.
LEMMA NeedsBefore ==
    \A k \in 1..15 : \A need \in Needs(Plan[k]) : \E i \in 1..13 : i < k /\ need = Plan[i]
<1> SUFFICES ASSUME NEW k \in 1..15, NEW need \in Needs(Plan[k])
             PROVE  \E i \in 1..13 : i < k /\ need = Plan[i]
  OBVIOUS
<1>1. \/ k = 4 \/ k = 5 \/ k = 6 \/ k = 8 \/ k = 9 \/ k = 10 \/ k = 13 \/ k = 14
      \/ k \in {1, 2, 3, 7, 11, 12, 15}
  OBVIOUS
<1>2. CASE k = 4
  BY <1>2, PlanSteps DEF Needs
<1>3. CASE k = 5
  BY <1>3, PlanSteps DEF Needs
<1>4. CASE k = 6
  BY <1>4, PlanSteps DEF Needs
<1>5. CASE k = 8
  BY <1>5, PlanSteps DEF Needs
<1>6. CASE k = 9
  BY <1>6, PlanSteps DEF Needs
<1>7. CASE k = 10
  BY <1>7, PlanSteps DEF Needs
<1>8. CASE k = 13
  BY <1>8, PlanSteps DEF Needs
<1>9. CASE k = 14
  BY <1>9, PlanSteps DEF Needs
<1>10. CASE k \in {1, 2, 3, 7, 11, 12, 15}
  BY <1>10, PlanSteps DEF Needs
<1> QED
  BY <1>1, <1>2, <1>3, <1>4, <1>5, <1>6, <1>7, <1>8, <1>9, <1>10

\* A clean script on a running EJBCA has what its next step needs.
LEMMA CleanCan ==
    ASSUME IInv, usable, NEW t \in Tasks, clean[t], script[t] \in 2..Len(Plan) + 1
    PROVE  Possible(Plan[script[t] - 1])
<1> DEFINE k == script[t] - 1
<1>1. k \in 1..15
  BY PlanSteps
<1>2. ASSUME NEW need \in Needs(Plan[k]) PROVE need \in held
  <2>1. PICK i \in 1..13 : i < k /\ need = Plan[i]
    BY <1>1, <1>2, NeedsBefore
  <2>2. Plan[i] \in InDatabase
    BY PlanInDatabase
  <2>3. i \in 1..Len(Plan) /\ i + 2 <= script[t]
    BY <1>1, <2>1, PlanSteps
  <2> QED
    BY <2>1, <2>2, <2>3 DEF IInv, CleanInv
<1>3. config
  BY DEF IInv, ConfigInv, None
<1> QED
  BY <1>2, <1>3 DEF Possible

-----------------------------------------------------------------------------

LEMMA InitIInv == Init => IInv
<1> SUFFICES ASSUME Init PROVE IInv
  OBVIOUS
<1>1. TypeOK
  <2>1. NoFiles \in [Files -> 0..MaxEpoch + 1]
    BY BootstrapAssumption DEF NoFiles, None
  <2>2. script \in [Tasks -> 0..Len(Plan) + 1] /\ task \in Tasks
    BY BootstrapAssumption, PlanSteps DEF Init, None, Tasks
  <2>3. clean \in [Tasks -> BOOLEAN] /\ said \in [Tasks -> {"nothing", "already", "completed"}]
    BY DEF Init
  <2>4. epoch \in 1..MaxEpoch
    BY BootstrapAssumption DEF Init
  <2>5. /\ held \subseteq InDatabase
        /\ at \in {"pod", "upload", "exec", "p12", "truststore", "ok", "failed"}
        /\ usable \in BOOLEAN /\ config \in BOOLEAN
        /\ pod = NoFiles /\ host = NoFiles
    BY DEF Init
  <2> QED
    BY <2>1, <2>2, <2>3, <2>4, <2>5 DEF TypeOK
<1>2. ConfigInv /\ CleanInv
  BY DEF Init, ConfigInv, CleanInv, None
<1>3. PodInv /\ HostInv
  BY DEF Init, PodInv, HostInv, NoFiles, Files
<1> QED
  BY <1>1, <1>2, <1>3 DEF IInv

\* The steps of the task on the host.
LEMMA TaskIInv ==
    ASSUME IInv, FindPod \/ ExecEnds \/ Interrupt \/ StartAgain PROVE IInv'
<1>1. UNCHANGED <<script, said, clean, database, config, pod, host>>
  BY DEF FindPod, ExecEnds, Interrupt, StartAgain
<1>2. /\ at' \in {"pod", "upload", "exec", "p12", "failed"}
      /\ task' \in Tasks
  BY BootstrapAssumption
     DEF FindPod, ExecEnds, Interrupt, StartAgain, IInv, TypeOK, Tasks
<1>3. TypeOK'
  BY <1>1, <1>2 DEF IInv, TypeOK, database
<1>4. ConfigInv' /\ CleanInv' /\ PodInv' /\ HostInv'
  BY <1>1, <1>2 DEF IInv, ConfigInv, CleanInv, PodInv, HostInv, database
<1> QED
  BY <1>3, <1>4 DEF IInv

LEMMA UploadIInv == ASSUME IInv, Upload PROVE IInv'
<1>1. TypeOK'
  BY PlanSteps DEF Upload, IInv, TypeOK, database
<1>2. ConfigInv'
  BY DEF Upload, ConfigInv
<1>3. CleanInv'
  <2> SUFFICES ASSUME NEW t \in Tasks, clean'[t], NEW i \in 1..Len(Plan),
                      i + 2 <= script'[t], Plan[i] \in InDatabase
               PROVE  Plan[i] \in held'
    BY DEF CleanInv
  <2>1. t # task
    BY PlanSteps DEF Upload, IInv, TypeOK
  <2> QED
    BY <2>1 DEF Upload, IInv, TypeOK, CleanInv, database
<1>4. PodInv' /\ HostInv'
  BY DEF Upload, IInv, PodInv, HostInv, database
<1> QED
  BY <1>1, <1>2, <1>3, <1>4 DEF IInv

\* cat and mv: the host gets what the pod has.
LEMMA DownloadIInv == ASSUME IInv, NEW f \in Files, Download(f) PROVE IInv'
<1>1. UNCHANGED <<task, script, said, clean, database, config, pod>>
  BY DEF Download
<1>2. /\ at' \in {"truststore", "ok", "failed"}
      /\ at' = "truststore" => at = "p12" /\ f = "p12" /\ pod["p12"] # None
      /\ at' = "truststore" => host'["p12"] = pod["p12"]
  BY DEF Download, After, Files, IInv, TypeOK
<1>3. TypeOK'
  BY <1>1, <1>2 DEF Download, IInv, TypeOK, database, Files
<1>4. HostInv'
  BY <1>1, <1>2 DEF IInv, PodInv, HostInv, database
<1>5. ConfigInv' /\ CleanInv' /\ PodInv'
  BY <1>1 DEF IInv, ConfigInv, CleanInv, PodInv, database
<1> QED
  BY <1>3, <1>4, <1>5 DEF IInv

LEMMA CheckTokenIInv == ASSUME IInv, NEW t \in Tasks, CheckToken(t) PROVE IInv'
<1>1. UNCHANGED <<task, at, config, host, held, epoch, usable, pod>>
  BY DEF CheckToken, hostVars, database
<1>2. /\ script[t] = 1
      /\ script' = [script EXCEPT ![t] = None] \/ script' = [script EXCEPT ![t] = 2]
  BY DEF CheckToken, Says
<1>3. said' \in [Tasks -> {"nothing", "already", "completed"}] /\ clean' \in [Tasks -> BOOLEAN]
  BY DEF CheckToken, Says, IInv, TypeOK
<1>4. \A u \in Tasks : u # t => clean'[u] = clean[u]
  BY DEF CheckToken, IInv, TypeOK
<1>5. script' \in [Tasks -> 0..Len(Plan) + 1] /\ script'[t] \in {0, 2}
  BY <1>2, PlanSteps DEF IInv, TypeOK, None
<1>6. TypeOK'
  BY <1>1, <1>3, <1>5 DEF IInv, TypeOK
<1>7. ConfigInv'
  BY <1>1, <1>2 DEF IInv, TypeOK, ConfigInv, None
<1>8. CleanInv'
  <2> SUFFICES ASSUME NEW u \in Tasks, clean'[u], NEW i \in 1..Len(Plan),
                      i + 2 <= script'[u], Plan[i] \in InDatabase
               PROVE  Plan[i] \in held'
    BY DEF CleanInv
  <2>1. u # t
    BY <1>5, PlanSteps
  <2> QED
    BY <1>1, <1>2, <1>4, <2>1 DEF IInv, TypeOK, CleanInv
<1>9. PodInv' /\ HostInv'
  BY <1>1 DEF IInv, PodInv, HostInv
<1> QED
  BY <1>6, <1>7, <1>8, <1>9 DEF IInv

\* A step of the script.
LEMMA StepIInv == ASSUME IInv, NEW t \in Tasks, NEW took \in BOOLEAN, Step(t, took) PROVE IInv'
<1> DEFINE thing == Plan[script[t] - 1]
<1>1. UNCHANGED <<task, at, config, host, epoch, usable>> /\ script[t] \in 2..Len(Plan) + 1
  BY DEF Step, hostVars
<1>2. /\ took => Possible(thing)
      /\ held' = IF took /\ thing \in InDatabase THEN held \cup {thing} ELSE held
      /\ pod' = CASE thing \in Files /\ took  -> [pod EXCEPT ![thing] = epoch]
                  [] thing = "truststore"     -> [pod EXCEPT ![thing] = Empty]
                  [] OTHER                    -> pod
      /\ clean' = [clean EXCEPT ![t] = @ /\ (took \/ (usable /\ ~Possible(thing)))]
  BY DEF Step
<1>3. /\ script'[t] = None \/ (script'[t] = script[t] + 1 /\ script[t] <= Len(Plan))
      /\ \A u \in Tasks : u # t => script'[u] = script[u]
      /\ script' \in [Tasks -> 0..Len(Plan) + 1]
      /\ said' \in [Tasks -> {"nothing", "already", "completed"}]
  BY <1>1, PlanSteps DEF Step, Says, None, IInv, TypeOK
<1>4. held \subseteq held' /\ held' \subseteq InDatabase
  BY <1>2 DEF IInv, TypeOK
<1>5. pod' \in [Files -> 0..MaxEpoch + 1]
  BY <1>2, BootstrapAssumption DEF IInv, TypeOK, Files, Empty
<1>6. TypeOK'
  BY <1>1, <1>2, <1>3, <1>4, <1>5 DEF IInv, TypeOK
<1>7. ConfigInv'
  BY <1>1, <1>3 DEF IInv, ConfigInv, None
<1>8. CleanInv'
  <2> SUFFICES ASSUME NEW u \in Tasks, clean'[u], NEW i \in 1..Len(Plan),
                      i + 2 <= script'[u], Plan[i] \in InDatabase
               PROVE  Plan[i] \in held'
    BY DEF CleanInv
  <2>1. CASE u # t
    <3>1. clean[u]
      BY <1>2, <2>1 DEF IInv, TypeOK
    <3> QED
      BY <1>3, <1>4, <2>1, <3>1 DEF IInv, CleanInv
  <2>2. CASE u = t
    <3>1. clean[t] /\ (took \/ (usable /\ ~Possible(thing)))
      BY <1>2, <2>2 DEF IInv, TypeOK
    <3>2. took
      BY <1>1, <3>1, CleanCan
    <3>3. script'[t] = script[t] + 1
      BY <1>3, <2>2, PlanSteps DEF None
    <3>4. CASE i + 2 <= script[t]
      BY <1>4, <3>1, <3>4 DEF IInv, CleanInv
    <3>5. CASE ~(i + 2 <= script[t])
      <4>1. i = script[t] - 1
        BY <1>1, <2>2, <3>3, <3>5, PlanSteps
      <4> QED
        BY <1>2, <3>2, <4>1
    <3> QED
      BY <3>4, <3>5
  <2> QED
    BY <2>1, <2>2
<1>9. PodInv'
  <2> SUFFICES ASSUME usable PROVE pod'["p12"] \in {None, epoch} /\ pod'["truststore"] \in {None, epoch, Empty}
    BY <1>1 DEF PodInv, Empty
  <2>1. pod \in [Files -> 0..MaxEpoch + 1] /\ "p12" \in Files /\ "truststore" \in Files
    BY DEF IInv, TypeOK, Files
  <2>2. pod["p12"] \in {None, epoch} /\ pod["truststore"] \in {None, epoch, Empty}
    BY DEF IInv, PodInv
  <2>3. CASE thing \in Files /\ took
    BY <1>2, <2>1, <2>2, <2>3
  <2>4. CASE ~(thing \in Files /\ took) /\ thing = "truststore"
    BY <1>2, <2>1, <2>2, <2>4
  <2>5. CASE ~(thing \in Files /\ took) /\ thing # "truststore"
    BY <1>2, <2>2, <2>5
  <2> QED
    BY <2>3, <2>4, <2>5
<1>10. HostInv'
  BY <1>1 DEF IInv, HostInv
<1> QED
  BY <1>6, <1>7, <1>8, <1>9, <1>10 DEF IInv

LEMMA PodRestartsIInv == ASSUME IInv, PodRestarts PROVE IInv'
<1>1. at' \in {"pod", "ok", "failed"}
  BY DEF PodRestarts
<1>2. TypeOK'
  <2>1. NoFiles \in [Files -> 0..MaxEpoch + 1]
    BY BootstrapAssumption DEF NoFiles, None
  <2>2. script' \in [Tasks -> 0..Len(Plan) + 1]
    BY PlanSteps DEF PodRestarts, None
  <2> QED
    BY <1>1, <2>1, <2>2 DEF PodRestarts, IInv, TypeOK
<1>3. ConfigInv' /\ CleanInv'
  BY DEF PodRestarts, ConfigInv, CleanInv, None
<1>4. PodInv' /\ HostInv'
  BY <1>1 DEF PodRestarts, PodInv, HostInv, NoFiles, Files, None
<1> QED
  BY <1>2, <1>3, <1>4 DEF IInv

LEMMA DatabaseCleanIInv == ASSUME IInv, DatabaseClean PROVE IInv'
<1>1. TypeOK'
  <2>1. clean' \in [Tasks -> BOOLEAN]
    <3>1. clean' = [t \in Tasks |-> clean[t] /\ script[t] = None]
      BY DEF DatabaseClean
    <3>2. ASSUME NEW t \in Tasks PROVE (clean[t] /\ script[t] = None) \in BOOLEAN
      OBVIOUS
    <3> QED
      BY <3>1, <3>2
  <2>2. held' \subseteq InDatabase /\ usable' \in BOOLEAN
    BY DEF DatabaseClean
  <2>3. epoch' \in 1..MaxEpoch
    <3>1. epoch \in 1..MaxEpoch /\ epoch < MaxEpoch /\ epoch' = epoch + 1
      BY DEF DatabaseClean, IInv, TypeOK
    <3> QED
      BY <3>1, BootstrapAssumption
  <2> QED
    BY <2>1, <2>2, <2>3 DEF DatabaseClean, IInv, TypeOK
<1>2. ConfigInv'
  BY DEF DatabaseClean, IInv, ConfigInv
<1>3. CleanInv'
  <2> SUFFICES ASSUME NEW t \in Tasks, clean'[t], NEW i \in 1..Len(Plan), i + 2 <= script'[t]
               PROVE  FALSE
    BY DEF CleanInv
  <2>1. clean' = [u \in Tasks |-> clean[u] /\ script[u] = None] /\ script' = script
    BY DEF DatabaseClean
  <2>2. clean'[t] <=> clean[t] /\ script[t] = None
    BY <2>1, Zenon
  <2> QED
    BY <2>1, <2>2 DEF None
<1>4. PodInv' /\ HostInv'
  BY DEF DatabaseClean, PodInv, HostInv
<1> QED
  BY <1>1, <1>2, <1>3, <1>4 DEF IInv

LEMMA NextIInv == IInv /\ [Next]_vars => IInv'
<1> SUFFICES ASSUME IInv, [Next]_vars PROVE IInv'
  OBVIOUS
<1>1. CASE UNCHANGED vars
  BY <1>1 DEF vars, IInv, TypeOK, ConfigInv, CleanInv, PodInv, HostInv
<1> QED
  BY <1>1, TaskIInv, UploadIInv, DownloadIInv, CheckTokenIInv, StepIInv, PodRestartsIInv,
     DatabaseCleanIInv DEF Next

\* The invariant holds of every behaviour of the tasks and the scripts.
THEOREM Inductive == Spec => []IInv
BY InitIInv, NextIInv, PTL DEF Spec

-----------------------------------------------------------------------------
(* The results. *)

\* The places, the steps of the scripts and the databases keep their types.
THEOREM TypeCorrect == Spec => []TypeOK
<1>1. IInv => TypeOK
  BY DEF IInv
<1> QED
  BY <1>1, Inductive, PTL

\* A script that found nothing, met no failure but those it causes itself and kept its
\* database leaves everything behind, whatever other scripts do (entrypoint.sh:66-265).
THEOREM RunsComplete == Spec => CleanRunCompletes
<1>1. ASSUME IInv, [Next]_vars, NEW t \in Tasks,
             said[t] # "completed", said'[t] = "completed", clean'[t]
      PROVE  held' = InDatabase
  <2>1. PICK took \in BOOLEAN : Step(t, took)
    BY <1>1 DEF Next, vars, FindPod, Upload, ExecEnds, Interrupt, StartAgain, Download,
       CheckToken, Says, Step, PodRestarts, DatabaseClean, IInv, TypeOK
  <2>2. script[t] = Len(Plan) + 1
    BY <1>1, <2>1 DEF Step
  <2>3. clean[t] /\ held \subseteq held' /\ held' \subseteq InDatabase
    BY <1>1, <2>1 DEF Step, IInv, TypeOK
  <2>4. ASSUME NEW thing \in InDatabase PROVE thing \in held
    <3>1. PICK k \in 1..13 : thing = Plan[k]
      BY PlanInDatabase
    <3>2. k \in 1..Len(Plan) /\ k + 2 <= script[t]
      BY <2>2, PlanSteps
    <3> QED
      BY <1>1, <2>3, <3>1, <3>2 DEF IInv, CleanInv
  <2> QED
    BY <2>3, <2>4
<1>2. IInv /\ [Next]_vars =>
        [\A t \in Tasks :
           said[t] # "completed" /\ said'[t] = "completed" /\ clean'[t] => held' = InDatabase]_vars
  BY <1>1
<1> QED
  BY <1>2, Inductive, PTL DEF Spec, CleanRunCompletes

\* A task that ends well never leaves the keystore or the truststore of an earlier
\* database on the host (mise.toml:1154).
THEOREM KeystoreKept == Spec => KeystoreCurrent
<1>1. ASSUME IInv, [Next]_vars, at # "ok", at' = "ok", usable
      PROVE  host'["p12"] = epoch /\ host'["truststore"] \in {epoch, Empty}
  <2>1. Download("truststore")
    <3>1. ~(FindPod \/ Upload \/ ExecEnds \/ Interrupt \/ StartAgain \/ PodRestarts \/ DatabaseClean)
      BY <1>1 DEF FindPod, Upload, ExecEnds, Interrupt, StartAgain, PodRestarts, DatabaseClean
    <3>2. \A t \in Tasks, took \in BOOLEAN : ~CheckToken(t) /\ ~Step(t, took)
      BY <1>1 DEF CheckToken, Step, hostVars
    <3>3. PICK f \in Files : Download(f)
      BY <1>1, <3>1, <3>2 DEF Next, vars
    <3>4. f # "p12"
      BY <1>1, <3>3 DEF Download, After
    <3> QED
      BY <3>3, <3>4 DEF Files
  <2>2. /\ at = "truststore" /\ pod["truststore"] # None
        /\ host' = [host EXCEPT !["truststore"] = pod["truststore"]]
    BY <1>1, <2>1 DEF Download
  <2>3. host \in [Files -> 0..MaxEpoch + 1] /\ "p12" \in Files /\ "truststore" \in Files
    BY <1>1 DEF IInv, TypeOK, Files
  <2> QED
    BY <1>1, <2>2, <2>3 DEF IInv, PodInv, HostInv
<1>2. IInv /\ [Next]_vars =>
        [at # "ok" /\ at' = "ok" /\ usable =>
           host'["p12"] = epoch /\ host'["truststore"] \in {epoch, Empty}]_vars
  BY <1>1
<1> QED
  BY <1>2, Inductive, PTL DEF Spec, KeystoreCurrent
=============================================================================
