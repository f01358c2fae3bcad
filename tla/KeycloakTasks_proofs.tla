------------------------ MODULE KeycloakTasks_proofs ------------------------
(***************************************************************************)
(* Proofs about KeycloakTasks: for any shells, tokens and realms, that a   *)
(* run that succeeds has imported every realm, and that after a call of    *)
(* services:token that printed no unexpired token the next one prints the  *)
(* token of a session that has not ended.                                  *)
(***************************************************************************)
EXTENDS KeycloakTasks, TLAPS

-----------------------------------------------------------------------------
(* The run of the tasks: imported follows n, and n the step.               *)

Progress ==
    /\ imported = {ToImport[k] : k \in 1..n}
    /\ step = "clean" => n = 0
    /\ step = "import" => n < Len(ToImport)
    /\ step \in {"base", "secret", "succeeded"} => n = Len(ToImport)
    /\ step = "succeeded" /\ ~skipped => secret # "earlier"

TaskInv == TaskTypeOK /\ Progress

(* The call of one shell that nothing has disturbed: what it writes is a   *)
(* live token or a refusal, what it prints is that or the unexpired token  *)
(* it found, and both are a live token when the call before it ended       *)
(* without an unexpired one.                                               *)

Sound(s) ==
    /\ at[s] \in {"truncate", "write"} => held[s] \in {"refused"} \cup Live
    /\ at[s] = "print" => \/ held[s] \in Unexpired
                          \/ held[s] = "refused" /\ file = "refused"
    /\ bad = 1 =>
         /\ at[s] = "test" => file = "refused"
         /\ at[s] \notin {"read", "refresh"}
         /\ at[s] \in {"truncate", "write", "print"} => held[s] \in Live

Healing ==
    /\ bad < 2
    /\ ~disturbed => \A s, o \in Running : s = o
    /\ ~disturbed => \A s \in Running : Sound(s)
    /\ bad = 1 /\ Running = {} => file = "refused"

\* A file that is there stays there.
Present == \A s \in Shells : at[s] = "read" => file # "absent"

TokenInv == TypeOK /\ Present /\ Healing

-----------------------------------------------------------------------------
(* services:token. *)

LEMMA NotAbsent == "absent" \notin Contents
  BY TokensAssumption DEF Contents

\* What is live is unexpired.
LEMMA LiveIsUnexpired == Live \subseteq Unexpired
  BY DEF Live, Unexpired

\* A step that leaves the tokens of Keycloak as they are.
LEMMA KeycloakStays == ASSUME UNCHANGED keycloak PROVE Live' = Live /\ Unexpired' = Unexpired
  BY DEF keycloak, Live, Unexpired

LEMMA TokenInit == Init => TokenInv
  <1> SUFFICES ASSUME Init PROVE TokenInv
    OBVIOUS
  <1>1. at \in [Shells -> Places] /\ held \in [Shells -> Contents]
    BY DEF Init, Contents, Places
  <1>2. TypeOK
    <2>1. expired \subseteq Tokens /\ ended \subseteq Tokens
      BY DEF Init
    <2>2. file = "absent" /\ bad \in 0..2
      BY DEF Init
    <2>3. disturbed \in BOOLEAN
      BY Zenon DEF Init
    <2> QED
      BY <1>1, <2>1, <2>2, <2>3 DEF TypeOK
  <1>3. Present
    BY DEF Init, Present
  <1>4. Running = {} /\ bad = 0
    BY DEF Init, Running
  <1> QED
    BY <1>2, <1>3, <1>4 DEF TokenInv, Healing

\* A call that starts alone meets the file the last one left.
LEMMA Starts == ASSUME TokenInv, NEW s \in Shells, Start(s) PROVE TokenInv'
  <1>1. TypeOK' /\ Present'
    BY DEF TokenInv, TypeOK, Present, Start, Goto, Places, keycloak
  <1>2. at' = [at EXCEPT ![s] = "test"] /\ at \in [Shells -> Places] /\ s \in Running'
    BY DEF TokenInv, TypeOK, Start, Goto, Running
  <1>3. (bad < 2)' /\ (bad = 1 /\ Running = {} => file = "refused")'
    BY <1>2 DEF TokenInv, Healing, Start
  <1>4. ASSUME ~disturbed' PROVE Running' = {s} /\ Sound(s)'
    <2>1. Running = {}
      BY <1>4 DEF Start
    <2>2. Running' = {s}
      BY <2>1, <1>2 DEF Running
    <2>3. bad' = 1 => file' = "refused"
      BY <2>1 DEF TokenInv, Healing, Start
    <2>4. at'[s] = "test"
      BY <1>2
    <2> QED
      BY <2>2, <2>3, <2>4 DEF Sound
  <1> QED
    BY <1>1, <1>3, <1>4 DEF TokenInv, Healing

\* A running shell that goes on: nobody starts or ends, and whether the invariant is
\* kept depends on that shell alone.
LEMMA GoesOn ==
  ASSUME TokenInv, NEW s \in Shells, NEW place \in Places \ {"idle"},
         at[s] # "idle", at' = [at EXCEPT ![s] = place], bad' = bad,
         ~disturbed' => ~disturbed /\ Sound(s)'
  PROVE  Healing'
  <1>1. Running' = Running /\ s \in Running
    BY DEF Running, TokenInv, TypeOK
  <1>2. ASSUME ~disturbed' PROVE \A o \in Running' : o = s
    BY <1>1, <1>2 DEF TokenInv, Healing
  <1>3. (\A o \in Running' : o = s) => (~disturbed' => \A o \in Running' : Sound(o)')
    OBVIOUS
  <1> QED
    BY <1>1, <1>2, <1>3 DEF TokenInv, Healing

\* A running shell of an undisturbed time is sound.
LEMMA SoundNow ==
  ASSUME TokenInv, NEW s \in Shells, at[s] # "idle", ~disturbed PROVE Sound(s)
  BY DEF TokenInv, Healing, Running

LEMMA Tests == ASSUME TokenInv, NEW s \in Shells, Test(s) PROVE TokenInv'
  <1>1. TypeOK' /\ Present'
    BY DEF TokenInv, TypeOK, Present, Test, Goto, Places, keycloak, history
  <1>2. PICK place \in {"login", "read"} :
          /\ at' = [at EXCEPT ![s] = place]
          /\ file = "refused" => place = "login"
    BY DEF Test, Goto
  <1>3. at'[s] = place /\ at[s] = "test"
    BY <1>2 DEF TokenInv, TypeOK, Test
  <1>4. ~disturbed' => ~disturbed /\ Sound(s)'
    BY <1>2, <1>3, SoundNow DEF Sound, Test, history
  <1>5. Healing'
    BY <1>2, <1>3, <1>4, GoesOn DEF Test, history, Places
  <1> QED
    BY <1>1, <1>5 DEF TokenInv

\* With a file that would have to be healed no undisturbed call gets here.
LEMMA Reads == ASSUME TokenInv, NEW s \in Shells, Read(s) PROVE TokenInv'
  <1>1. file \in Contents
    BY DEF TokenInv, TypeOK, Present, Read
  <1>2. TypeOK' /\ Present'
    BY <1>1 DEF TokenInv, TypeOK, Present, Read, Goto, Places, keycloak, history
  <1>3. PICK place \in {"print", "refresh"} :
          /\ at' = [at EXCEPT ![s] = place]
          /\ place = "print" => file \in Unexpired
    BY DEF Read, Goto, Unexpired
  <1>4. at'[s] = place /\ at[s] = "read" /\ held'[s] = file /\ Unexpired' = Unexpired
    BY <1>3, KeycloakStays DEF TokenInv, TypeOK, Read
  <1>5. ~disturbed' => ~disturbed /\ Sound(s)'
    BY <1>3, <1>4, SoundNow DEF Sound, Read, history
  <1>6. Healing'
    BY <1>3, <1>4, <1>5, GoesOn DEF Read, history, Places
  <1> QED
    BY <1>2, <1>6 DEF TokenInv

\* What Keycloak issues is live; what it refuses when nothing is disturbed was a
\* refresh, which a call that has to heal does not try.
LEMMA Answers ==
  ASSUME TokenInv, NEW s \in Shells, NEW realmThere \in BOOLEAN, Answer(s, realmThere)
  PROVE  TokenInv'
  <1>0. /\ at[s] \in {"refresh", "login"}
        /\ at' = [at EXCEPT ![s] = "truncate"]
        /\ at'[s] = "truncate"
        /\ file' = file /\ bad' = bad
    BY DEF TokenInv, TypeOK, Answer, Goto
  <1>1. CASE realmThere /\ (at[s] = "login" \/ held[s] \in Tokens \ ended)
    <2>1. Issue(s)
      BY <1>1 DEF Answer
    <2>2. PICK t \in Tokens :
            held' = [held EXCEPT ![s] = t] /\ expired' = expired \ {t} /\ ended' = ended \ {t}
      BY <2>1 DEF Issue
    <2>3. disturbed' = disturbed
      BY <2>1 DEF Issue
    <2>4. TypeOK' /\ Present'
      BY <1>0, <2>2, <2>3 DEF TokenInv, TypeOK, Present, Contents, Places
    <2>5. held'[s] \in Live'
      BY <2>2 DEF TokenInv, TypeOK, Live
    <2>6. Sound(s)'
      BY <1>0, <2>5 DEF Sound
    <2>7. Healing'
      BY <1>0, <2>3, <2>6, GoesOn DEF Places
    <2> QED
      BY <2>4, <2>7 DEF TokenInv
  <1>2. CASE ~(realmThere /\ (at[s] = "login" \/ held[s] \in Tokens \ ended))
    <2>1. /\ held' = [held EXCEPT ![s] = "refused"]
          /\ disturbed' = (disturbed \/ ~realmThere)
          /\ expired' = expired /\ ended' = ended
      BY <1>2 DEF Answer, keycloak
    <2>2. TypeOK' /\ Present'
      BY <1>0, <2>1 DEF TokenInv, TypeOK, Present, Contents, Places
    <2>3. ~disturbed' => ~disturbed /\ at[s] = "refresh"
      BY <1>0, <1>2, <2>1
    <2>4. held'[s] = "refused"
      BY <2>1 DEF TokenInv, TypeOK
    <2>5. ~disturbed' => Sound(s)'
      BY <1>0, <2>3, <2>4, SoundNow DEF Sound
    <2>6. Healing'
      BY <1>0, <2>3, <2>5, GoesOn DEF Places
    <2> QED
      BY <2>2, <2>6 DEF TokenInv
  <1> QED
    BY <1>1, <1>2

LEMMA WrongAnswers ==
  ASSUME TokenInv, NEW s \in Shells, NEW answer \in {"refused", "garbled"},
         WrongAnswer(s, answer)
  PROVE  TokenInv'
  <1>1. TypeOK' /\ Present'
    BY DEF TokenInv, TypeOK, Present, WrongAnswer, Goto, Contents, Places, keycloak
  <1>2. Healing'
    BY GoesOn DEF WrongAnswer, Goto, Places
  <1> QED
    BY <1>1, <1>2 DEF TokenInv

LEMMA Truncates == ASSUME TokenInv, NEW s \in Shells, Truncate(s) PROVE TokenInv'
  <1>1. TypeOK' /\ Present'
    BY NotAbsent DEF TokenInv, TypeOK, Present, Truncate, Goto, Contents, Places, keycloak, history
  <1>2. at'[s] = "write" /\ at[s] = "truncate"
    BY DEF TokenInv, TypeOK, Truncate, Goto
  <1>3. ~disturbed' => ~disturbed /\ Sound(s)'
    BY <1>2, SoundNow, KeycloakStays DEF Sound, Truncate, history
  <1>4. Healing'
    BY <1>2, <1>3, GoesOn DEF Truncate, Goto, history, Places
  <1> QED
    BY <1>1, <1>4 DEF TokenInv

LEMMA Writes == ASSUME TokenInv, NEW s \in Shells, Write(s) PROVE TokenInv'
  <1>1. file' \in Contents /\ file' # "absent"
    BY NotAbsent DEF TokenInv, TypeOK, Write
  <1>2. TypeOK' /\ Present'
    BY <1>1 DEF TokenInv, TypeOK, Present, Write, Goto, Places, keycloak, history
  <1>3. at'[s] = "print" /\ at[s] = "write" /\ file' = held[s]
    BY DEF TokenInv, TypeOK, Write, Goto
  <1>4. ~disturbed' => ~disturbed /\ Sound(s)'
    BY <1>3, SoundNow, KeycloakStays, LiveIsUnexpired DEF Sound, Write, history
  <1>5. Healing'
    BY <1>3, <1>4, GoesOn DEF Write, Goto, history, Places
  <1> QED
    BY <1>2, <1>5 DEF TokenInv

\* A shell that ends in a way that counts for nothing.
LEMMA EndsDisturbed == ASSUME TokenInv, disturbed', bad' = 0 PROVE Healing'
  BY DEF TokenInv, Healing

\* The call ends.  Without an unexpired token it leaves the refusal that makes the
\* next log in.
LEMMA Prints == ASSUME TokenInv, NEW s \in Shells, PrintToken(s) PROVE TokenInv'
  <1>0. at[s] = "print" /\ at' = [at EXCEPT ![s] = "idle"] /\ disturbed' = disturbed
    BY DEF PrintToken, Exits, Goto
  <1>1. CASE disturbed
    <2>1. bad' = 0
      BY <1>1 DEF PrintToken
    <2>2. Healing'
      BY <1>0, <1>1, <2>1, EndsDisturbed
    <2>3. TypeOK' /\ Present'
      BY <1>0, <2>1 DEF TokenInv, TypeOK, Present, PrintToken, Exits, Contents, Places, keycloak
    <2> QED
      BY <2>2, <2>3 DEF TokenInv
  <1>2. CASE ~disturbed
    <2>1. Sound(s) /\ Running = {s}
      BY <1>0, <1>2, SoundNow DEF TokenInv, Healing, Running
    <2>2. Running' = {}
      BY <1>0, <2>1 DEF Running, TokenInv, TypeOK
    <2>3. CASE held[s] \in (IF bad = 0 THEN Unexpired ELSE Live)
      <3>1. bad' = 0
        BY <2>3 DEF PrintToken
      <3>2. Healing'
        BY <2>2, <3>1 DEF Healing
      <3> QED
        BY <1>0, <3>1, <3>2 DEF TokenInv, TypeOK, Present, PrintToken, Exits, Contents, Places, keycloak
    <2>4. CASE held[s] \notin (IF bad = 0 THEN Unexpired ELSE Live)
      <3>1. bad \in {0, 1}
        BY DEF TokenInv, TypeOK, Healing
      <3>2. bad = 0 /\ file = "refused"
        BY <1>0, <2>1, <2>4, <3>1 DEF Sound
      <3>3. bad' = 1 /\ file' = "refused"
        BY <1>2, <2>4, <3>2 DEF PrintToken
      <3>4. Healing'
        BY <2>2, <3>3 DEF Healing
      <3> QED
        BY <1>0, <3>3, <3>4 DEF TokenInv, TypeOK, Present, PrintToken, Exits, Contents, Places, keycloak
    <2> QED
      BY <2>3, <2>4
  <1> QED
    BY <1>1, <1>2

LEMMA Gone ==
  ASSUME TokenInv, NEW s \in Shells, NoAnswer(s) \/ Kill(s) PROVE TokenInv'
  <1>0. /\ at' = [at EXCEPT ![s] = "idle"] /\ held' = [held EXCEPT ![s] = "empty"]
        /\ UNCHANGED <<file, expired, ended>> /\ disturbed' = TRUE /\ bad' = 0
    BY DEF NoAnswer, Kill, Exits, Goto, keycloak
  <1>1. TypeOK' /\ Present'
    BY <1>0 DEF TokenInv, TypeOK, Present, Contents, Places
  <1>2. Healing'
    BY EndsDisturbed DEF NoAnswer, Kill
  <1> QED
    BY <1>1, <1>2 DEF TokenInv

\* Time that passes between the calls leaves the file as it is.
LEMMA Ages == ASSUME TokenInv, NEW t \in Tokens, Age(t) PROVE TokenInv'
  <1>1. TypeOK' /\ Present'
    BY DEF TokenInv, TypeOK, Present, Age, Running
  <1>2. Running' = Running
    BY DEF Age, Running
  <1>3. Healing'
    BY <1>2 DEF TokenInv, Healing, Age
  <1> QED
    BY <1>1, <1>3 DEF TokenInv

LEMMA ShellSteps ==
  ASSUME TokenInv, NEW s \in Shells, NEW realmThere \in BOOLEAN, ShellStep(s, realmThere)
  PROVE  TokenInv'
  BY Starts, Tests, Reads, Answers, WrongAnswers, Gone, Truncates, Writes, Prints DEF ShellStep

-----------------------------------------------------------------------------
(* The tasks. *)

\* A task that leaves the token file alone may end sessions and disturb calls.
LEMMA TasksKeepTokens == ASSUME TokenInv, TaskInv, Autoconfigure PROVE TokenInv'
  <1>1. CASE UNCHANGED tokenVars
    BY <1>1 DEF tokenVars, TokenInv, TypeOK, Present, Healing, Running, Sound, Live, Unexpired
  <1>2. CASE CleanRealms
    <2>1. ended' \subseteq Tokens /\ disturbed' \in BOOLEAN /\ (~disturbed' => ~disturbed)
      BY <1>2 DEF CleanRealms, TokenInv, TypeOK, Running
    <2>2. UNCHANGED <<file, expired, at, held, bad>> /\ Running' = Running
      BY <1>2 DEF CleanRealms, Running
    <2>3. ~disturbed' => Running = {} \/ ended' = ended
      BY <1>2 DEF CleanRealms
    <2>4. ~disturbed' => Running' = {} \/ \A s \in Shells : Sound(s)' = Sound(s)
      BY <2>2, <2>3 DEF Sound, Live, Unexpired
    <2>5. Healing'
      BY <2>1, <2>2, <2>4 DEF TokenInv, Healing, Running
    <2> QED
      BY <2>1, <2>2, <2>5 DEF TokenInv, TypeOK, Present
  <1> QED
    BY <1>1, <1>2 DEF Autoconfigure, PodNotReady, TryFailed, TrySucceeds, CopyFails,
       BaseAutoconfigure, DownloadSecret, RunAgain

LEMMA TaskInitInv == TaskInit => TaskInv
  <1> SUFFICES ASSUME TaskInit PROVE TaskInv
    OBVIOUS
  <1>1. n = 0 /\ imported = {} /\ Len(ToImport) \in Nat
    BY TasksAssumption DEF TaskInit
  <1>2. imported = {ToImport[k] : k \in 1..n}
    BY <1>1
  <1>3. TaskTypeOK
    <2>1. there \subseteq ToDelete /\ imported \subseteq there
      BY <1>1 DEF TaskInit
    <2>2. n \in 0..Len(ToImport) /\ tries \in 0..2
      BY <1>1 DEF TaskInit
    <2>3. skipped \in BOOLEAN
      BY Zenon DEF TaskInit
    <2>4. step = "clean" /\ secret \in {"current", "earlier", "empty"}
      BY DEF TaskInit
    <2> QED
      BY <2>1, <2>2, <2>3, <2>4 DEF TaskTypeOK
  <1> QED
    BY <1>1, <1>2, <1>3 DEF TaskInit, TaskInv, Progress

\* The realm a try is about, and what it may leave.
LEMMA Leaves ==
  ASSUME TaskInv, step = "import", Takes(ToImport[n + 1])
  PROVE  /\ n + 1 \in 1..Len(ToImport)
         /\ there' = there \cup {ToImport[n + 1]} /\ there' \subseteq ToDelete
         /\ secret' \in {"current", "earlier", "empty"}
  <1>1. Len(ToImport) \in Nat /\ n + 1 \in 1..Len(ToImport)
    BY TasksAssumption DEF TaskInv, TaskTypeOK, Progress
  <1>2. ToImport[n + 1] \in ToDelete
    BY <1>1, TasksAssumption
  <1> QED
    BY <1>1, <1>2 DEF Takes, Earlier, TaskInv, TaskTypeOK

LEMMA TryFails == ASSUME TaskInv, TryFailed PROVE TaskInv'
  <1>1. there' \subseteq ToDelete /\ there \subseteq there' /\ secret' \in {"current", "earlier", "empty"}
    BY Leaves DEF TryFailed, TaskInv, TaskTypeOK
  <1>2. step' \in {"import", "failed"} /\ tries' \in 0..2
    BY DEF TryFailed, Run, TaskInv, TaskTypeOK
  <1>3. n' = n /\ imported' = imported /\ skipped' = skipped /\ step = "import"
    BY DEF TryFailed
  <1> QED
    BY <1>1, <1>2, <1>3 DEF TaskInv, TaskTypeOK, Progress

LEMMA CopyFailsInv == ASSUME TaskInv, CopyFails PROVE TaskInv'
  BY Leaves DEF CopyFails, Run, TaskInv, TaskTypeOK, Progress

\* Only here n grows, with the realm that is imported.
LEMMA TrySucceedsInv == ASSUME TaskInv, TrySucceeds PROVE TaskInv'
  <1>1. /\ n + 1 \in 1..Len(ToImport)
        /\ there' = there \cup {ToImport[n + 1]} /\ there' \subseteq ToDelete
        /\ secret' \in {"current", "earlier", "empty"}
    BY Leaves DEF TrySucceeds
  <1>2. n' = n + 1 /\ tries' = 0 /\ imported' = imported \cup {ToImport[n + 1]} /\ skipped' = skipped
    BY DEF TrySucceeds, Imported
  <1>3. Len(ToImport) \in Nat /\ n \in Nat
    BY TasksAssumption DEF TaskInv, TaskTypeOK
  <1>4. step' = IF n + 1 = Len(ToImport) THEN "base" ELSE "import"
    BY DEF TrySucceeds, Imported, Run
  <1>5. TaskTypeOK'
    BY <1>1, <1>2, <1>3, <1>4 DEF TaskInv, TaskTypeOK
  <1>6. imported' = {ToImport[k] : k \in 1..n'}
    <2>1. 1..n' = 1..n \cup {n + 1}
      BY <1>2, <1>3
    <2> QED
      BY <1>2, <2>1 DEF TaskInv, Progress
  <1>7. (step = "import" => n < Len(ToImport))' /\ (step = "base" => n = Len(ToImport))'
    BY <1>1, <1>2, <1>3, <1>4
  <1> QED
    BY <1>4, <1>5, <1>6, <1>7 DEF TaskInv, Progress

LEMMA Restarts == ASSUME TaskInv, RunAgain PROVE TaskInv'
  <1>1. n' = 0 /\ imported' = {} /\ step' = "clean" /\ Len(ToImport) \in Nat
    BY TasksAssumption DEF RunAgain, Run
  <1>2. imported' = {ToImport[k] : k \in 1..n'}
    BY <1>1
  <1>3. TaskTypeOK'
    <2>1. imported' \subseteq there' /\ there' = there
      BY <1>1 DEF RunAgain
    <2>2. n' \in 0..Len(ToImport) /\ tries' \in 0..2 /\ secret' = secret
      BY <1>1 DEF RunAgain
    <2>3. skipped' \in BOOLEAN
      BY Zenon DEF RunAgain
    <2> QED
      BY <1>1, <2>1, <2>2, <2>3 DEF TaskInv, TaskTypeOK
  <1> QED
    BY <1>1, <1>2, <1>3 DEF TaskInv, Progress

LEMMA Cleans == ASSUME TaskInv, CleanRealms PROVE TaskInv'
  <1>1. n = 0 /\ imported = {} /\ 0 < Len(ToImport)
    BY TasksAssumption DEF CleanRealms, TaskInv, Progress
  <1>2. there' \subseteq ToDelete /\ secret' \in {"current", "earlier", "empty"}
    BY DEF CleanRealms, Earlier, TaskInv, TaskTypeOK
  <1>3. step' = "import" /\ UNCHANGED <<n, tries, imported, skipped>>
    BY DEF CleanRealms, Run
  <1> QED
    BY <1>1, <1>2, <1>3 DEF TaskInv, TaskTypeOK, Progress

LEMMA Skips == ASSUME TaskInv, PodNotReady PROVE TaskInv'
  <1>1. 0 < Len(ToImport) /\ Len(ToImport) \in Nat
    BY TasksAssumption
  <1>2. skipped' = TRUE /\ UNCHANGED <<n, tries, there, imported, secret>>
    BY DEF PodNotReady
  <1>3. CASE step = "clean"
    BY <1>1, <1>2, <1>3 DEF PodNotReady, Run, TaskInv, TaskTypeOK, Progress
  <1>4. CASE step = "base"
    BY <1>1, <1>2, <1>4 DEF PodNotReady, Run, TaskInv, TaskTypeOK, Progress
  <1>5. CASE step = "secret"
    BY <1>1, <1>2, <1>5 DEF PodNotReady, Run, TaskInv, TaskTypeOK, Progress
  <1> QED
    BY <1>3, <1>4, <1>5 DEF PodNotReady

LEMMA LastTasks ==
  ASSUME TaskInv, BaseAutoconfigure \/ DownloadSecret PROVE TaskInv'
  <1>1. CASE BaseAutoconfigure
    BY <1>1 DEF BaseAutoconfigure, Run, TaskInv, TaskTypeOK, Progress
  <1>2. CASE DownloadSecret
    BY <1>2 DEF DownloadSecret, Run, TaskInv, TaskTypeOK, Progress
  <1> QED
    BY <1>1, <1>2

LEMMA TaskSteps == ASSUME TaskInv, Autoconfigure PROVE TaskInv'
  BY Skips, Cleans, TryFails, TrySucceedsInv, CopyFailsInv, LastTasks, Restarts DEF Autoconfigure

LEMMA TaskStutters == ASSUME TaskInv, UNCHANGED taskVars PROVE TaskInv'
  BY DEF taskVars, TaskInv, TaskTypeOK, Progress

-----------------------------------------------------------------------------
(* Both together. *)

\* The inductive invariant.
THEOREM Invariant == AllSpec => [](TokenInv /\ TaskInv)
  <1>1. AllInit => TokenInv /\ TaskInv
    BY TokenInit, TaskInitInv DEF AllInit
  <1>2. TokenInv /\ TaskInv /\ [AllNext]_allVars => (TokenInv /\ TaskInv)'
    <2> SUFFICES ASSUME TokenInv, TaskInv, [AllNext]_allVars PROVE TokenInv' /\ TaskInv'
      OBVIOUS
    <2>1. CASE Autoconfigure
      BY <2>1, TasksKeepTokens, TaskSteps
    <2>2. CASE \E s \in Shells : ShellStep(s, TokenRealm \in there) /\ UNCHANGED taskVars
      <3>1. PICK s \in Shells : ShellStep(s, TokenRealm \in there) /\ UNCHANGED taskVars
        BY <2>2
      <3>2. (TokenRealm \in there) \in BOOLEAN
        OBVIOUS
      <3>3. TokenInv'
        BY <3>1, <3>2, ShellSteps
      <3> QED
        BY <3>1, <3>3, TaskStutters
    <2>3. CASE \E t \in Tokens : Age(t) /\ UNCHANGED taskVars
      BY <2>3, Ages, TaskStutters
    <2>4. CASE UNCHANGED allVars
      <3>1. UNCHANGED taskVars /\ UNCHANGED tokenVars
        BY <2>4 DEF allVars
      <3>2. TokenInv'
        BY <3>1 DEF tokenVars, TokenInv, TypeOK, Present, Healing, Running, Sound, Live, Unexpired
      <3> QED
        BY <3>1, <3>2, TaskStutters
    <2> QED
      BY <2>1, <2>2, <2>3, <2>4 DEF AllNext
  <1> QED
    BY <1>1, <1>2, PTL DEF AllSpec

\* Types of the token file, its shells and the tasks (mise.toml:599-791, 1232-1294).
THEOREM TypeCorrect == AllSpec => []AllTypeOK
  <1>1. TokenInv /\ TaskInv => AllTypeOK
    BY DEF TokenInv, TaskInv, AllTypeOK
  <1> QED
    BY <1>1, Invariant, PTL

\* After an undisturbed call of services:token that printed no unexpired token the next
\* one prints a token whose session has not ended, for any number of shells and while
\* realms come and go (mise.toml:1254-1263).  Of the calls before it says nothing: they
\* print the token of an ended session until its exp.
THEOREM TokenHeals == AllSpec => []HealsInOneCall
  <1>1. TokenInv => HealsInOneCall
    BY DEF TokenInv, Healing, HealsInOneCall
  <1> QED
    BY <1>1, Invariant, PTL

\* cluster:keycloak-autoconfigure ends well only when it has imported every realm, for
\* any list of realms (mise.toml:708-718).
THEOREM SuccessIsImport == AllSpec => []SuccessMeansImported
  <1>1. TaskInv => SuccessMeansImported
    <2> SUFFICES ASSUME TaskInv, step = "succeeded"
                 PROVE  imported = Elements(ToImport) /\ (~skipped => secret # "earlier")
      BY DEF SuccessMeansImported
    <2>1. DOMAIN ToImport = 1..Len(ToImport)
      BY TasksAssumption
    <2> QED
      BY <2>1 DEF TaskInv, Progress, Elements
  <1> QED
    BY <1>1, Invariant, PTL
=============================================================================
