-------------------------- MODULE Simplcli_proofs --------------------------
(***************************************************************************)
(* What holds of a process of simplcli for every command line, all         *)
(* arguments and whatever the servers hold and answer.  Each command keeps *)
(* an invariant of its own; main and the groups lead the words of the line *)
(* to the one command they name and leave its variables alone.             *)
(***************************************************************************)
EXTENDS Simplcli, NaturalsInduction, SequenceTheorems, FiniteSetTheorems, TLAPS

(* Loops. *)

Less == {pair \in Nat \X Nat : pair[1] < pair[2]}

\* Induction up to n, over a set.
LEMMA UpTo ==
    ASSUME NEW n \in Nat, NEW G, 0 \in G, \A k \in 1..n : k - 1 \in G => k \in G
    PROVE  \A k \in 0..n : k \in G
<1> DEFINE Left == {k \in 0..n : k \notin G}
<1> SUFFICES ASSUME Left # {} PROVE FALSE
  OBVIOUS
<1>1. IsWellFoundedOn(Less, Nat)
  BY NatLessThanWellFounded DEF OpToRel, Less
<1>2. Left \subseteq Nat
  OBVIOUS
<1> HIDE DEF Left
<1>3. PICK k \in Left : \A l \in Left : <<l, k>> \notin Less
  BY <1>1, <1>2, WFMin
<1>4. k \in 0..n /\ k \notin G /\ k # 0
  BY <1>3 DEF Left
<1>5. k \in 1..n /\ k - 1 \in 0..n /\ k - 1 < k
  BY <1>4
<1>6. k - 1 \in Left
  BY <1>4, <1>5 DEF Left
<1> QED
  BY <1>2, <1>3, <1>5, <1>6 DEF Less

\* A loop of n rounds has a value after each of them.
Total(n, S, round) == \A k \in 1..n, v \in S : round[k][v] \in S
Rounds(n, f, start, round) == f[0] = start /\ \A k \in 1..n : f[k] = round[k][f[k - 1]]
Loop(n, S, start, round) == \E f \in [0..n -> S] : Rounds(n, f, start, round)

LEMMA LoopEnds ==
    ASSUME NEW n \in Nat, NEW S, NEW start \in S, NEW round, Total(n, S, round)
    PROVE  Loop(n, S, start, round)
<1> DEFINE G == {m \in 0..n : Loop(m, S, start, round)}
<1>1. 0 \in G
  <2> DEFINE f == [k \in 0..0 |-> start]
  <2>1. f \in [0..0 -> S] /\ Rounds(0, f, start, round)
    BY DEF Rounds
  <2>2. 0 \in 0..n
    OBVIOUS
  <2> HIDE DEF f
  <2> QED
    BY <2>1, <2>2 DEF Loop
<1>2. ASSUME NEW m \in 1..n, m - 1 \in G PROVE m \in G
  <2>1. PICK f \in [0..m - 1 -> S] : Rounds(m - 1, f, start, round)
    BY <1>2 DEF Loop
  <2> DEFINE g == [k \in 0..m |-> IF k = m THEN round[m][f[m - 1]] ELSE f[k]]
  <2>2. m - 1 \in 0..m - 1 /\ f[m - 1] \in S
    OBVIOUS
  <2>3. g \in [0..m -> S]
    BY <2>2 DEF Total
  <2>4. g[0] = start
    BY <2>1 DEF Rounds
  <2>5. ASSUME NEW k \in 1..m PROVE g[k] = round[k][g[k - 1]]
    <3>1. k - 1 \in 0..m /\ k - 1 # m /\ g[k - 1] = f[k - 1]
      OBVIOUS
    <3>2. CASE k = m
      BY <3>1, <3>2
    <3>3. CASE k # m
      <4>1. k \in 1..m - 1
        BY <3>3
      <4> QED
        BY <2>1, <3>1, <3>3, <4>1 DEF Rounds
    <3> QED
      BY <3>2, <3>3
  <2> HIDE DEF g
  <2>6. Rounds(m, g, start, round)
    BY <2>4, <2>5 DEF Rounds
  <2>7. m \in 0..n
    OBVIOUS
  <2> QED
    BY <2>3, <2>6, <2>7 DEF Loop
<1>3. n \in G
  <2> HIDE DEF G
  <2> QED
    BY <1>1, <1>2, UpTo
<1> QED
  BY <1>3

\* What a filter lets through, in the order it came in.
LEMMA WantedFact ==
    ASSUME NEW T, NEW seq \in Seq(T), NEW S
    PROVE  /\ Heal!Wanted(seq, S) \in Seq(T \cap S)
           /\ IsInjective(seq) => IsInjective(Heal!Wanted(seq, S))
<1> DEFINE n == Len(seq)
           after(kept, k) == IF k = 0 THEN <<>>
                             ELSE IF seq[k] \in S THEN Append(kept[k - 1], seq[k]) ELSE kept[k - 1]
           Is(kept) == kept = [k \in 0..n |-> after(kept, k)]
           kept == CHOOSE kept : Is(kept)
<1>1. Heal!Wanted(seq, S) = kept[n]
  BY DEF Heal!Wanted
<1>2. n \in Nat /\ DOMAIN seq = 1..n /\ \A k \in 1..n : seq[k] \in T
  OBVIOUS
<1>3. Is(kept)
  <2> DEFINE round == [k \in 1..n |-> [v \in Seq(T) |-> IF seq[k] \in S THEN Append(v, seq[k]) ELSE v]]
  <2>1. Total(n, Seq(T), round)
    BY <1>2 DEF Total
  <2>2. Loop(n, Seq(T), <<>>, round)
    <3>1. <<>> \in Seq(T)
      OBVIOUS
    <3> HIDE DEF round, n
    <3> QED
      BY <1>2, <2>1, <3>1, LoopEnds
  <2>3. PICK f \in [0..n -> Seq(T)] : Rounds(n, f, <<>>, round)
    BY <2>2 DEF Loop
  <2>4. ASSUME NEW k \in 1..n PROVE f[k] = after(f, k)
    <3>1. k - 1 \in 0..n /\ k # 0
      BY <1>2
    <3> QED
      BY <2>3, <3>1 DEF Rounds
  <2>5. \A k \in 0..n : f[k] = after(f, k)
    <3>1. \A k \in 0..n : k = 0 \/ k \in 1..n
      BY <1>2
    <3>2. f[0] = after(f, 0)
      BY <2>3 DEF Rounds
    <3> HIDE DEF after
    <3> QED
      BY <2>4, <3>1, <3>2
  <2>6. Is(f)
    BY <2>5
  <2> HIDE DEF Is
  <2> QED
    BY <2>6
<1>4. kept[0] = <<>> /\ \A k \in 1..n : kept[k] = IF seq[k] \in S THEN Append(kept[k - 1], seq[k]) ELSE kept[k - 1]
  <2> HIDE DEF kept
  <2>1. \A k \in 0..n : kept[k] = after(kept, k)
    BY <1>3
  <2> QED
    BY <1>2, <2>1
<1> HIDE DEF kept, n
<1> DEFINE Fine(k) == /\ kept[k] \in Seq(T \cap S)
                      /\ \A i \in 1..Len(kept[k]) : \E j \in 1..k : kept[k][i] = seq[j]
                      /\ IsInjective(seq) => IsInjective(kept[k])
           G == {k \in 0..n : Fine(k)}
<1>5. 0 \in G
  <2>1. <<>> \in Seq(T \cap S) /\ Len(<<>>) = 0 /\ IsInjective(<<>>)
    BY DEF IsInjective
  <2>2. \A i \in 1..0 : FALSE
    OBVIOUS
  <2>3. Fine(0)
    BY <1>4, <2>1, <2>2
  <2> HIDE DEF Fine
  <2> QED
    BY <1>2, <2>3
<1>6. ASSUME NEW k \in 1..n, k - 1 \in G PROVE k \in G
  <2> DEFINE old == kept[k - 1]
  <2>1. /\ old \in Seq(T \cap S)
        /\ \A i \in 1..Len(old) : \E j \in 1..k - 1 : old[i] = seq[j]
        /\ IsInjective(seq) => IsInjective(old)
    BY <1>6
  <2>5. k \in 0..n
    BY <1>2
  <2> SUFFICES Fine(k)
    BY <2>5
  <2>2. kept[k] = IF seq[k] \in S THEN Append(old, seq[k]) ELSE old
    BY <1>4
  <2> HIDE DEF old
  <2>3. CASE seq[k] \notin S
    BY <1>2, <2>1, <2>2, <2>3
  <2>4. CASE seq[k] \in S
    <3> DEFINE x == seq[k]
               new == Append(old, x)
    <3>1. x \in T \cap S
      BY <1>2, <2>4
    <3> HIDE DEF x
    <3>2. /\ new \in Seq(T \cap S) /\ Len(new) = Len(old) + 1 /\ Len(old) \in Nat
          /\ DOMAIN new = 1..Len(old) + 1 /\ DOMAIN old = 1..Len(old)
          /\ \A i \in 1..Len(old) : new[i] = old[i]
          /\ new[Len(old) + 1] = x
      BY <2>1, <3>1
    <3> HIDE DEF new
    <3>3. \A i \in 1..Len(old) + 1 : i \in 1..Len(old) \/ i = Len(old) + 1
      BY <3>2
    <3>4. ASSUME NEW i \in 1..Len(new) PROVE \E j \in 1..k : new[i] = seq[j]
      BY <1>2, <2>1, <3>2, <3>3 DEF x
    <3>5. ASSUME IsInjective(seq) PROVE IsInjective(new)
      <4>1. \A i \in 1..Len(old) : old[i] # x
        BY <1>2, <2>1, <3>5 DEF IsInjective, x
      <4> QED
        BY <2>1, <3>2, <3>3, <3>5, <4>1 DEF IsInjective
    <3>6. kept[k] = new
      BY <2>2, <2>4 DEF new, x
    <3> QED
      BY <2>1, <3>2, <3>4, <3>5, <3>6
  <2> QED
    BY <2>3, <2>4
<1>7. n \in G
  <2> HIDE DEF G
  <2> QED
    BY <1>2, <1>5, <1>6, UpTo
<1> QED
  BY <1>1, <1>7

-----------------------------------------------------------------------------
(* autoheal:merge: its own proofs. *)

MergeP == INSTANCE AutohealMerge_proofs WITH Cap <- RowCap, FailedJobs <- FailedOf

LEMMA MergeNames ==
    /\ Merge!MRs = MergeP!MRs
    /\ \A m : Merge!JobsOf(m) = MergeP!JobsOf(m)
    /\ Merge!Jobs = MergeP!Jobs
    /\ Merge!JobItems = MergeP!JobItems
BY DEF Merge!MRs, MergeP!MRs, Merge!JobsOf, MergeP!JobsOf, Merge!Jobs, MergeP!Jobs, Merge!JobItems,
   MergeP!JobItems, Merge!MrItems, MergeP!MrItems, Merge!Elements, MergeP!Elements

LEMMA MergeHolds ==
    /\ RowCap \in Nat
    /\ MergeP!IsFiniteSet(Args)
    /\ \A a \in Args : Opened[a] \in Seq(MergeP!MRs) /\ MergeP!IsInjective(Opened[a])
    /\ \A m \in MergeP!MRs : MergeP!JobsOf(m) \in Seq(MergeP!Jobs) /\ MergeP!IsInjective(MergeP!JobsOf(m))
<1>1. IsFiniteSet(Args) => MergeP!IsFiniteSet(Args)
  BY DEF IsFiniteSet, MergeP!IsFiniteSet
<1>2. \A f : IsInjective(f) => MergeP!IsInjective(f)
  BY DEF IsInjective, MergeP!IsInjective
<1> QED
  BY <1>1, <1>2, MergeNames, ServersAssumption

LEMMA MergeStart == Merge!Init => MergeP!IInv
<1>1. Merge!Init => MergeP!Init
  BY MergeNames DEF Merge!Init, MergeP!Init, Merge!P!Init, MergeP!P!Init, Merge!MergeSource, MergeP!MergeSource,
     Merge!P!Stages, MergeP!P!Stages, Merge!NStages, MergeP!NStages
<1> QED
  BY <1>1, MergeP!InitIInv, MergeHolds

LEMMA MergeKept == MergeP!IInv /\ [Merge!Next]_(Merge!vars) => MergeP!IInv'
<1> USE MergeNames DEF Merge!Search, MergeP!Search, Merge!Details, MergeP!Details, Merge!FindJobs, MergeP!FindJobs,
     Merge!ReadLog, MergeP!ReadLog, Merge!Mark, MergeP!Mark, Merge!Restart, MergeP!Restart
<1>1. \A s, x : Merge!MergeAnswers(s, x) = MergeP!MergeAnswers(s, x)
  BY DEF Merge!MergeAnswers, MergeP!MergeAnswers, Merge!Extend, MergeP!Extend, Merge!Released, MergeP!Released
<1>2. Merge!P!Plumbing => MergeP!P!Plumbing
  BY DEF Merge!P!Plumbing, MergeP!P!Plumbing, Merge!P!Take, MergeP!P!Take, Merge!P!Close, MergeP!P!Close,
     Merge!P!Send, MergeP!P!Send, Merge!P!HandOver, MergeP!P!HandOver, Merge!P!Collect, MergeP!P!Collect,
     Merge!P!Return, MergeP!P!Return, Merge!P!Returned, MergeP!P!Returned, Merge!P!Started, MergeP!P!Started,
     Merge!P!AfterSend, MergeP!P!AfterSend, Merge!P!Stages, MergeP!P!Stages, Merge!P!Idle, MergeP!P!Idle,
     Merge!P!Drained, MergeP!P!Drained, Merge!NStages, MergeP!NStages, Merge!MergeSkips, MergeP!MergeSkips,
     Merge!P!vars, MergeP!P!vars
<1>3. \A s, x, out : Merge!P!Answer(s, x, out) => MergeP!P!Answer(s, x, out)
  BY <1>1 DEF Merge!P!Answer, MergeP!P!Answer
<1>4. Merge!Next => MergeP!Next
  BY <1>1, <1>2, <1>3 DEF Merge!Next, MergeP!Next, Merge!ReadGitlab, MergeP!ReadGitlab, Merge!JobRetry, MergeP!JobRetry,
     Merge!MarkFalsePositive, MergeP!MarkFalsePositive, Merge!servers, MergeP!servers
<1>5. UNCHANGED Merge!vars => UNCHANGED MergeP!vars
  BY DEF Merge!vars, MergeP!vars, Merge!P!vars, MergeP!P!vars
<1> QED
  BY <1>4, <1>5, MergeP!NextIInv, MergeHolds

LEMMA MergeResults ==
    MergeP!IInv => /\ Merge!TypeOK
                   /\ Merge!RestartOnlyMarked
                   /\ Merge!RestartsBounded
                   /\ Merge!ReportedWereRestarted
<1> SUFFICES ASSUME MergeP!IInv
             PROVE  /\ Merge!TypeOK
                    /\ Merge!RestartOnlyMarked
                    /\ Merge!RestartsBounded
                    /\ Merge!ReportedWereRestarted
  OBVIOUS
<1>1. MergeP!TypeOK /\ MergeP!RestartOnlyMarked /\ MergeP!RestartsBounded /\ MergeP!ReportedWereRestarted
  BY MergeP!Types, MergeP!Marked, MergeP!Limited, MergeP!Restarted, MergeHolds
<1>2. Merge!TypeOK
  BY <1>1, MergeNames DEF Merge!TypeOK, MergeP!TypeOK, Merge!P!TypeOK, MergeP!P!TypeOK, Merge!P!Stages, MergeP!P!Stages,
     Merge!NStages, MergeP!NStages, Merge!Item, MergeP!Item, Merge!MrItems, MergeP!MrItems, Merge!Elements, MergeP!Elements
<1>3. \A S : Cardinality(S) = MergeP!Cardinality(S) /\ Cardinality(S) = Merge!Cardinality(S)
  BY DEF Cardinality, MergeP!Cardinality, Merge!Cardinality
<1>4. Merge!RestartsBounded
  BY <1>1, <1>3, MergeNames DEF Merge!RestartsBounded, MergeP!RestartsBounded
<1>5. Merge!RestartOnlyMarked /\ Merge!ReportedWereRestarted
  BY <1>1, MergeNames DEF Merge!RestartOnlyMarked, MergeP!RestartOnlyMarked, Merge!ReportedWereRestarted, MergeP!ReportedWereRestarted
<1> QED
  BY <1>2, <1>4, <1>5

-----------------------------------------------------------------------------
(* autoheal:maven-429: what the items are. *)

HealAnswers(s, x) == Heal!HealAnswers(s, x)
HealSkips(s, x) == Heal!HealSkips(s, x)

HealP == INSTANCE StagedPipeline_proofs WITH
             NStages <- Heal!NStages, Cap <- Heal!Cap, Item <- Heal!Item,
             Source <- Heal!HealSource, Answers <- HealAnswers, Skips <- HealSkips

LEMMA HealItems ==
    /\ \A a \in Args : \A p \in Heal!Elements(FailedPipelines[a]) : <<a, p>> \in Heal!PipeItems
    /\ \A x \in Heal!PipeItems :
          /\ x = <<x[1], x[2]>> /\ x[1] \in Args
          /\ x[2] \in Heal!Elements(FailedPipelines[x[1]]) /\ x[2] \in Heal!Pipelines
    /\ \A y \in Heal!PipeItems : \A j \in Heal!Elements(PipelineJobs[y[2]]) : <<y[1], y[2], j>> \in Heal!JobItems
    /\ \A x \in Heal!JobItems :
          /\ x = <<x[1], x[2], x[3]>> /\ <<x[1], x[2]>> \in Heal!PipeItems
          /\ x[3] \in Heal!Elements(PipelineJobs[x[2]]) /\ x[3] \in Heal!Jobs
<1>1. \A a \in Args : \A p \in Heal!Elements(FailedPipelines[a]) : <<a, p>> \in Heal!PipeItems
  BY DEF Heal!PipeItems
<1>2. ASSUME NEW x \in Heal!PipeItems
      PROVE  /\ x = <<x[1], x[2]>> /\ x[1] \in Args
             /\ x[2] \in Heal!Elements(FailedPipelines[x[1]]) /\ x[2] \in Heal!Pipelines
  <2>1. PICK a \in Args : x \in {<<a, p>> : p \in Heal!Elements(FailedPipelines[a])}
    BY DEF Heal!PipeItems
  <2>2. PICK p \in Heal!Elements(FailedPipelines[a]) : x = <<a, p>>
    BY <2>1
  <2> QED
    BY <2>2 DEF Heal!Pipelines
<1>3. \A y \in Heal!PipeItems : \A j \in Heal!Elements(PipelineJobs[y[2]]) : <<y[1], y[2], j>> \in Heal!JobItems
  BY DEF Heal!JobItems
<1>4. ASSUME NEW x \in Heal!JobItems
      PROVE  /\ x = <<x[1], x[2], x[3]>> /\ <<x[1], x[2]>> \in Heal!PipeItems
             /\ x[3] \in Heal!Elements(PipelineJobs[x[2]]) /\ x[3] \in Heal!Jobs
  <2>1. PICK y \in Heal!PipeItems : x \in {<<y[1], y[2], j>> : j \in Heal!Elements(PipelineJobs[y[2]])}
    BY DEF Heal!JobItems
  <2>2. PICK j \in Heal!Elements(PipelineJobs[y[2]]) : x = <<y[1], y[2], j>>
    BY <2>1
  <2>3. y = <<y[1], y[2]>> /\ y[2] \in Heal!Pipelines
    BY <1>2
  <2> QED
    BY <2>2, <2>3 DEF Heal!Jobs
<1> QED
  BY <1>1, <1>2, <1>3, <1>4

\* What passes the filters of the first stage, and of the second.
WantedPipes == {x \in Heal!PipeItems : x[2] \in Relevant}
WantedJobs == {x \in Heal!JobItems : x[2] \in Relevant /\ x[3] \in FailedJobs}

LEMMA WantedFound ==
    /\ \A a \in Args : \A w \in Seq(Heal!Elements(FailedPipelines[a]) \cap Relevant) :
          Heal!Extend(<<a>>, w) \in Seq(WantedPipes)
    /\ \A x \in WantedPipes : \A w \in Seq(Heal!Elements(PipelineJobs[x[2]]) \cap FailedJobs) :
          Heal!Extend(x, w) \in Seq(WantedJobs)
<1>1. ASSUME NEW a \in Args, NEW w \in Seq(Heal!Elements(FailedPipelines[a]) \cap Relevant)
      PROVE  Heal!Extend(<<a>>, w) \in Seq(WantedPipes)
  <2>1. DOMAIN w = 1..Len(w) /\ Len(w) \in Nat
    OBVIOUS
  <2>2. ASSUME NEW k \in 1..Len(w) PROVE Append(<<a>>, w[k]) \in WantedPipes
    <3>1. w[k] \in Heal!Elements(FailedPipelines[a]) /\ w[k] \in Relevant
      OBVIOUS
    <3>2. Append(<<a>>, w[k]) = <<a, w[k]>>
      BY MergeP!AppendToOne, MergeHolds
    <3> QED
      <4>1. <<a, w[k]>> \in Heal!PipeItems
        BY <3>1, HealItems
      <4>2. <<a, w[k]>> \in WantedPipes
        BY <3>1, <4>1 DEF WantedPipes
      <4> QED
        BY <3>2, <4>2, Zenon
  <2> QED
    BY <2>1, <2>2 DEF Heal!Extend
<1>2. ASSUME NEW x \in WantedPipes, NEW w \in Seq(Heal!Elements(PipelineJobs[x[2]]) \cap FailedJobs)
      PROVE  Heal!Extend(x, w) \in Seq(WantedJobs)
  <2>1. DOMAIN w = 1..Len(w) /\ Len(w) \in Nat
    OBVIOUS
  <2>2. PICK a, p : x = <<a, p>> /\ p \in Relevant
    BY HealItems DEF WantedPipes
  <2>3. x \in Heal!PipeItems /\ x[1] = a /\ x[2] = p
    BY <2>2 DEF WantedPipes
  <2>4. ASSUME NEW k \in 1..Len(w) PROVE Append(x, w[k]) \in WantedJobs
    <3>1. w[k] \in Heal!Elements(PipelineJobs[p]) /\ w[k] \in FailedJobs
      BY <2>3
    <3>2. Append(x, w[k]) = <<a, p, w[k]>>
      BY <2>2, MergeP!AppendToTwo, MergeHolds
    <3> QED
      <4>1. <<a, p, w[k]>> \in Heal!JobItems
        BY <2>3, <3>1, HealItems
      <4>2. <<a, p, w[k]>> \in WantedJobs
        BY <2>2, <3>1, <4>1 DEF WantedJobs
      <4> QED
        BY <3>2, <4>2, Zenon
  <2> QED
    BY <2>1, <2>4 DEF Heal!Extend
<1> QED
  BY <1>1, <1>2

\* The filters see what GitLab answers, each once.
LEMMA HealLists ==
    /\ \A a \in Args : LET w == Heal!Wanted(FailedPipelines[a], Relevant)
                       IN  w \in Seq(Heal!Elements(FailedPipelines[a]) \cap Relevant) /\ IsInjective(w)
    /\ \A p \in Heal!Pipelines : LET w == Heal!Wanted(PipelineJobs[p], FailedJobs)
                                 IN  w \in Seq(Heal!Elements(PipelineJobs[p]) \cap FailedJobs) /\ IsInjective(w)
<1>1. \A T : \A seq \in Seq(T) : seq \in Seq(Heal!Elements(seq))
  BY DEF Heal!Elements
<1>2. \A a \in Args : FailedPipelines[a] \in Seq(Heal!Elements(FailedPipelines[a])) /\ IsInjective(FailedPipelines[a])
  BY <1>1, ServersAssumption
<1>3. \A p \in Heal!Pipelines : PipelineJobs[p] \in Seq(Heal!Elements(PipelineJobs[p])) /\ IsInjective(PipelineJobs[p])
  BY <1>1, ServersAssumption
<1> QED
  BY <1>2, <1>3, WantedFact

LEMMA HealLengths ==
    /\ \A x \in Heal!HealSource : Len(x) = 1 /\ x[1] \in Args /\ x = <<x[1]>>
    /\ \A x \in Heal!PipeItems : Len(x) = 2
    /\ \A x \in Heal!JobItems : Len(x) = 3
    /\ \A x : x \in Heal!Item <=> x \in Heal!HealSource \/ x \in Heal!PipeItems \/ x \in Heal!JobItems
<1>1. \A x \in Heal!HealSource : Len(x) = 1 /\ x[1] \in Args /\ x = <<x[1]>>
  BY DEF Heal!HealSource
<1>2. \A a, b : Len(<<a, b>>) = 2
  OBVIOUS
<1>3. \A a, b, c : Len(<<a, b, c>>) = 3
  OBVIOUS
<1>4. \A x \in Heal!PipeItems : Len(x) = 2
  BY <1>2, HealItems, Zenon
<1>5. \A x \in Heal!JobItems : Len(x) = 3
  BY <1>3, HealItems, Zenon
<1> QED
  BY <1>1, <1>4, <1>5 DEF Heal!Item, Heal!HealSource

\* What an answer passes on.
LEMMA HealAnswered ==
    ASSUME NEW s \in 1..3, NEW x \in Heal!Item, NEW out \in HealAnswers(s, x)
    PROVE  \/ out = <<>>
           \/ /\ s = 1 /\ x \in Heal!HealSource
              /\ out = Heal!Extend(x, Heal!Wanted(FailedPipelines[x[1]], Relevant))
              /\ out \in Seq(WantedPipes)
           \/ /\ s = 2 /\ x \in Heal!PipeItems
              /\ out = Heal!Extend(x, Heal!Wanted(PipelineJobs[x[2]], FailedJobs))
              /\ x \in WantedPipes => out \in Seq(WantedJobs)
           \/ s = 3 /\ x \in Heal!JobItems /\ x[3] \in Says429 /\ out = <<x>>
<1> USE DEF Heal!Search, Heal!FindJobs, Heal!Heal
<1>1. CASE s = 1
  <2>1. out = <<>> \/ (Len(x) = 1 /\ out = Heal!FoundPipelines(x))
    BY <1>1 DEF HealAnswers, Heal!HealAnswers
  <2>2. Len(x) = 1 => x \in Heal!HealSource
    BY HealLengths
  <2>3. ASSUME x \in Heal!HealSource, out = Heal!FoundPipelines(x) PROVE out \in Seq(WantedPipes)
    <3>1. x = <<x[1]>> /\ x[1] \in Args
      BY <2>3, HealLengths
    <3>2. Heal!Extend(<<x[1]>>, Heal!Wanted(FailedPipelines[x[1]], Relevant)) \in Seq(WantedPipes)
      BY <3>1, HealLists, WantedFound
    <3>3. out = Heal!Extend(x, Heal!Wanted(FailedPipelines[x[1]], Relevant))
      BY <2>3 DEF Heal!FoundPipelines
    <3> QED
      BY <3>1, <3>2, <3>3, Zenon
  <2> QED
    BY <1>1, <2>1, <2>2, <2>3 DEF Heal!FoundPipelines
<1>2. CASE s = 2
  <2>1. out = <<>> \/ (Len(x) = 2 /\ out = Heal!FoundJobs(x))
    BY <1>2 DEF HealAnswers, Heal!HealAnswers
  <2>2. Len(x) = 2 => x \in Heal!PipeItems
    BY HealLengths
  <2>3. ASSUME x \in WantedPipes, out = Heal!FoundJobs(x) PROVE out \in Seq(WantedJobs)
    <3>1. x[2] \in Heal!Pipelines
      BY <2>3, HealItems DEF WantedPipes
    <3>2. Heal!Extend(x, Heal!Wanted(PipelineJobs[x[2]], FailedJobs)) \in Seq(WantedJobs)
      BY <2>3, <3>1, HealLists, WantedFound
    <3> QED
      BY <2>3, <3>2 DEF Heal!FoundJobs
  <2> QED
    BY <1>2, <2>1, <2>2, <2>3 DEF Heal!FoundJobs
<1>3. CASE s = 3
  <2>1. out = <<>> \/ (Len(x) = 3 /\ x[3] \in Says429 /\ out = <<x>>)
    BY <1>3 DEF HealAnswers, Heal!HealAnswers
  <2> QED
    BY <1>3, <2>1, HealLengths
<1> QED
  BY <1>1, <1>2, <1>3

\* Whatever an item, what it is extended with is an item.
LEMMA HealExtends ==
    \A x \in Heal!PipeItems : \A w \in Seq(Heal!Elements(PipelineJobs[x[2]])) :
        Heal!Extend(x, w) \in Seq(Heal!JobItems)
<1> SUFFICES ASSUME NEW x \in Heal!PipeItems, NEW w \in Seq(Heal!Elements(PipelineJobs[x[2]]))
             PROVE  Heal!Extend(x, w) \in Seq(Heal!JobItems)
  OBVIOUS
<1>1. DOMAIN w = 1..Len(w) /\ Len(w) \in Nat
  OBVIOUS
<1>2. ASSUME NEW k \in 1..Len(w) PROVE Append(x, w[k]) \in Heal!JobItems
  <2>1. PICK j : j = w[k]
    OBVIOUS
  <2>2. j \in Heal!Elements(PipelineJobs[x[2]])
    BY <2>1
  <2>3. <<x[1], x[2], j>> \in Heal!JobItems
    BY <2>2, HealItems
  <2>4. Append(<<x[1], x[2]>>, j) = <<x[1], x[2], j>>
    BY MergeP!AppendToTwo, MergeHolds
  <2>5. x = <<x[1], x[2]>>
    BY HealItems
  <2> QED
    BY <2>1, <2>3, <2>4, <2>5, Zenon
<1> QED
  BY <1>1, <1>2 DEF Heal!Extend

LEMMA HealHolds ==
    /\ Heal!NStages \in Nat \ {0}
    /\ Heal!Cap \in Nat
    /\ Heal!HealSource \subseteq Heal!Item
    /\ \A s \in HealP!Stages, i \in Heal!Item : HealAnswers(s, i) \subseteq Seq(Heal!Item)
<1>1. HealP!Stages = 1..3
  BY DEF HealP!Stages, Heal!NStages
<1>2. ASSUME NEW s \in 1..3, NEW x \in Heal!Item, NEW out \in HealAnswers(s, x) PROVE out \in Seq(Heal!Item)
  <2>1. WantedPipes \subseteq Heal!Item /\ Heal!JobItems \subseteq Heal!Item
    BY HealLengths DEF WantedPipes
  <2>2. CASE out = <<>>
    BY <2>2
  <2>3. CASE s = 1 /\ out \in Seq(WantedPipes)
    BY <2>1, <2>3
  <2>4. CASE x \in Heal!PipeItems /\ out = Heal!Extend(x, Heal!Wanted(PipelineJobs[x[2]], FailedJobs))
    <3> DEFINE w == Heal!Wanted(PipelineJobs[x[2]], FailedJobs)
    <3>1. w \in Seq(Heal!Elements(PipelineJobs[x[2]]) \cap FailedJobs)
      BY <2>4, HealItems, HealLists
    <3> HIDE DEF w
    <3>2. w \in Seq(Heal!Elements(PipelineJobs[x[2]]))
      BY <3>1
    <3>3. Heal!Extend(x, w) \in Seq(Heal!JobItems)
      BY <2>4, <3>2, HealExtends
    <3> QED
      BY <2>1, <2>4, <3>3 DEF w
  <2>5. CASE out = <<x>>
    BY <2>5
  <2> QED
    BY <2>2, <2>3, <2>4, <2>5, HealAnswered
<1> QED
  BY <1>1, <1>2, HealLengths DEF Heal!NStages, Heal!Cap

\* An item is named by how it was reached, and GitLab lists what it has once.
LEMMA HealDistinct == HealP!Distinct
<1> SUFFICES ASSUME NEW s \in 1..3, NEW i \in Heal!Item, NEW j \in Heal!Item,
                    NEW out \in HealAnswers(s, i), NEW other \in HealAnswers(s, j),
                    NEW k \in DOMAIN out, NEW l \in DOMAIN other, out[k] = other[l]
             PROVE  i = j /\ (out = other => k = l)
  BY DEF HealP!Distinct, HealP!Stages, Heal!NStages
<1>1. out # <<>> /\ other # <<>>
  OBVIOUS
<1>2. CASE s = 1
  <2> DEFINE v == Heal!Wanted(FailedPipelines[i[1]], Relevant)
             w == Heal!Wanted(FailedPipelines[j[1]], Relevant)
  <2>1. /\ i \in Heal!HealSource /\ j \in Heal!HealSource
        /\ out = Heal!Extend(i, v) /\ other = Heal!Extend(j, w)
    BY <1>1, <1>2, HealAnswered
  <2>2. i = <<i[1]>> /\ j = <<j[1]>> /\ i[1] \in Args /\ j[1] \in Args
    BY <2>1, HealLengths
  <2>3. IsInjective(v)
    BY <2>2, HealLists
  <2>8. i = j => v = w
    OBVIOUS
  <2> HIDE DEF v, w
  <2>4. k \in DOMAIN v /\ l \in DOMAIN w /\ out[k] = Append(i, v[k]) /\ other[l] = Append(j, w[l])
    BY <2>1 DEF Heal!Extend
  <2>5. PICK b, c : b = v[k] /\ c = w[l]
    OBVIOUS
  <2>6. Append(<<i[1]>>, b) = <<i[1], b>> /\ Append(<<j[1]>>, c) = <<j[1], c>>
    BY MergeP!AppendToOne, MergeHolds
  <2>7. <<i[1], b>> = <<j[1], c>>
    BY <2>2, <2>4, <2>5, <2>6, Zenon
  <2>9. i[1] = j[1] /\ b = c
    BY <2>7
  <2>10. i = j
    BY <2>2, <2>9, Zenon
  <2> QED
    BY <2>3, <2>4, <2>5, <2>8, <2>9, <2>10 DEF IsInjective
<1>3. CASE s = 2
  <2> DEFINE v == Heal!Wanted(PipelineJobs[i[2]], FailedJobs)
             w == Heal!Wanted(PipelineJobs[j[2]], FailedJobs)
  <2>1. /\ i \in Heal!PipeItems /\ j \in Heal!PipeItems
        /\ out = Heal!Extend(i, v) /\ other = Heal!Extend(j, w)
    BY <1>1, <1>3, HealAnswered
  <2>2. i = <<i[1], i[2]>> /\ j = <<j[1], j[2]>> /\ i[2] \in Heal!Pipelines
    BY <2>1, HealItems
  <2>3. IsInjective(v)
    BY <2>2, HealLists
  <2>8. i = j => v = w
    OBVIOUS
  <2> HIDE DEF v, w
  <2>4. k \in DOMAIN v /\ l \in DOMAIN w /\ out[k] = Append(i, v[k]) /\ other[l] = Append(j, w[l])
    BY <2>1 DEF Heal!Extend
  <2>5. PICK b, c : b = v[k] /\ c = w[l]
    OBVIOUS
  <2>6. Append(<<i[1], i[2]>>, b) = <<i[1], i[2], b>> /\ Append(<<j[1], j[2]>>, c) = <<j[1], j[2], c>>
    BY MergeP!AppendToTwo, MergeHolds
  <2>7. <<i[1], i[2], b>> = <<j[1], j[2], c>>
    BY <2>2, <2>4, <2>5, <2>6, Zenon
  <2>9. i[1] = j[1] /\ i[2] = j[2] /\ b = c
    BY <2>7
  <2>10. i = j
    BY <2>2, <2>9, Zenon
  <2> QED
    BY <2>3, <2>4, <2>5, <2>8, <2>9, <2>10 DEF IsInjective
<1>4. CASE s = 3
  <2>1. out = <<i>> /\ other = <<j>>
    BY <1>1, <1>4, HealAnswered
  <2> QED
    BY <2>1
<1> QED
  BY <1>2, <1>3, <1>4

\* Each step of the command is one of the pipeline.
LEMMA HealPlumbing == Heal!P!Plumbing \/ UNCHANGED Heal!P!vars => HealP!Plumbing \/ UNCHANGED HealP!vars
BY DEF Heal!P!vars, HealP!vars, Heal!P!Plumbing, HealP!Plumbing, Heal!P!Take, HealP!Take,
   Heal!P!Close, HealP!Close, Heal!P!Send, HealP!Send, Heal!P!HandOver, HealP!HandOver, Heal!P!Collect, HealP!Collect,
   Heal!P!Return, HealP!Return, Heal!P!Returned, HealP!Returned, Heal!P!Started,
   HealP!Started, Heal!P!AfterSend, HealP!AfterSend, Heal!P!Stages, HealP!Stages, Heal!P!Idle, HealP!Idle,
   Heal!P!Drained, HealP!Drained, HealSkips

LEMMA HealSteps == ASSUME [Heal!Next]_(Heal!vars) PROVE [HealP!Next]_(HealP!vars)
<1>1. ASSUME NEW s \in 1..3, NEW x \in calling[s], NEW out \in HealAnswers(s, x), Heal!P!Answer(s, x, out)
      PROVE  HealP!Next
  <2>1. HealP!Answer(s, x, out)
    BY <1>1 DEF Heal!P!Answer, HealP!Answer, HealAnswers
  <2> QED
    BY <1>1, <2>1 DEF HealP!Next, HealP!Stages, Heal!NStages
<1>2. Heal!ReadGitlab => HealP!Next
  BY <1>1 DEF Heal!ReadGitlab, HealAnswers, Heal!Search, Heal!FindJobs
<1>3. \A x \in calling[Heal!Heal] : \A took \in BOOLEAN, out \in Heal!HealAnswers(Heal!Heal, x) :
        Heal!HealJob(x, took, out) => HealP!Next
  BY <1>1 DEF Heal!HealJob, HealAnswers, Heal!Heal
<1>4. Heal!P!Plumbing \/ UNCHANGED Heal!vars => [HealP!Next]_(HealP!vars)
  BY HealPlumbing DEF HealP!Next, Heal!vars
<1> QED
  BY <1>2, <1>3, <1>4 DEF Heal!Next

\* The arguments lead to finitely many jobs.
LEMMA ImageFinite ==
    ASSUME NEW S, IsFiniteSet(S), NEW f, DOMAIN f = S PROVE IsFiniteSet({f[x] : x \in S})
<1> DEFINE T == {f[x] : x \in S}
           g == [x \in S |-> f[x]]
<1>1. g \in Surjection(S, T)
  BY DEF Surjection
<1> QED
  BY <1>1, FS_Surjection

LEMMA UnionFinite ==
    ASSUME NEW S, IsFiniteSet(S), NEW f, DOMAIN f = S, \A x \in S : IsFiniteSet(f[x])
    PROVE  IsFiniteSet(UNION {f[x] : x \in S})
<1> DEFINE T == {f[x] : x \in S}
<1>1. IsFiniteSet(T)
  BY ImageFinite
<1>2. \A y \in T : IsFiniteSet(y)
  OBVIOUS
<1> HIDE DEF T
<1>3. IsFiniteSet(UNION T)
  BY <1>1, <1>2, FS_UNION
<1> QED
  BY <1>3 DEF T

\* A list has finitely many elements.
LEMMA ElementsFinite == ASSUME NEW S, NEW seq \in Seq(S) PROVE IsFiniteSet(Heal!Elements(seq))
<1>1. DOMAIN seq = 1..Len(seq) /\ Len(seq) \in Nat
  OBVIOUS
<1>2. IsFiniteSet(1..Len(seq))
  BY <1>1, FS_Interval
<1> QED
  BY <1>1, <1>2, ImageFinite DEF Heal!Elements

LEMMA HealFinite == IsFiniteSet(Heal!JobItems)
<1>1. IsFiniteSet(Heal!PipeItems)
  <2> DEFINE found(a) == {<<a, p>> : p \in Heal!Elements(FailedPipelines[a])}
             f == [a \in Args |-> found(a)]
  <2>1. ASSUME NEW a \in Args PROVE IsFiniteSet(found(a))
    <3> DEFINE ps == Heal!Elements(FailedPipelines[a])
               g == [p \in ps |-> <<a, p>>]
    <3>1. IsFiniteSet(ps)
      BY ServersAssumption, ElementsFinite
    <3>2. IsFiniteSet({g[p] : p \in ps})
      BY <3>1, ImageFinite
    <3>3. {g[p] : p \in ps} = found(a)
      OBVIOUS
    <3> QED
      BY <3>2, <3>3
  <2>2. DOMAIN f = Args /\ (\A a \in Args : IsFiniteSet(f[a])) /\ IsFiniteSet(Args)
    BY <2>1, ServersAssumption
  <2> HIDE DEF f
  <2>3. IsFiniteSet(UNION {f[a] : a \in Args})
    BY <2>2, UnionFinite
  <2>4. Heal!PipeItems = UNION {f[a] : a \in Args}
    BY DEF f, Heal!PipeItems
  <2> QED
    BY <2>3, <2>4
<1> DEFINE found(x) == {<<x[1], x[2], j>> : j \in Heal!Elements(PipelineJobs[x[2]])}
           f == [x \in Heal!PipeItems |-> found(x)]
<1>2. ASSUME NEW x \in Heal!PipeItems PROVE IsFiniteSet(found(x))
  <2> DEFINE js == Heal!Elements(PipelineJobs[x[2]])
             g == [j \in js |-> <<x[1], x[2], j>>]
  <2>1. IsFiniteSet(js)
    BY HealItems, ServersAssumption, ElementsFinite
  <2>2. IsFiniteSet({g[j] : j \in js})
    BY <2>1, ImageFinite
  <2>3. {g[j] : j \in js} = found(x)
    OBVIOUS
  <2> QED
    BY <2>2, <2>3
<1>3. DOMAIN f = Heal!PipeItems /\ \A x \in Heal!PipeItems : IsFiniteSet(f[x])
  BY <1>2
<1> HIDE DEF f
<1>4. IsFiniteSet(UNION {f[x] : x \in Heal!PipeItems})
  BY <1>1, <1>3, UnionFinite
<1>5. Heal!JobItems = UNION {f[x] : x \in Heal!PipeItems}
  BY DEF f, Heal!JobItems
<1> QED
  BY <1>4, <1>5


-----------------------------------------------------------------------------
(* autoheal:maven-429: its invariant. *)

\* What has come through stage s: after the first stage a pipeline it lets through, after
\* the second a failed job of one, after the third (d: in a dry run) one that blames a 429
\* and has been restarted (r).
HealFitting(d, r) ==
    [s \in 0..3 |->
        CASE s = 0 -> Heal!HealSource
          [] s = 1 -> WantedPipes
          [] s = 2 -> WantedJobs
          [] OTHER -> {x \in WantedJobs : d \/ r[x[3]] > 0}]

\* The ways to a job that the last stage has no item for any more have restarted it
\* once each at most.
HealWays(j) == {x \in Heal!JobItems : x[3] = j}
HealBound == \A j \in Heal!Jobs : restarts[j] <= Cardinality(HealP!Past(3, HealWays(j)))

HealServers == dryRun \in BOOLEAN /\ restarts \in [Heal!Jobs -> Nat]

HealDry == dryRun => \A j \in Heal!Jobs : restarts[j] = 0

HealInv ==
    /\ HealP!IInv
    /\ HealP!WorkInv
    /\ HealP!Carried(HealFitting(dryRun, restarts))
    /\ HealServers
    /\ HealDry
    /\ Heal!RestartsWanted
    /\ HealBound

LEMMA HealStages == HealP!Stages = 1..3 /\ Heal!NStages = 3 /\ Heal!P!Stages = 1..3
BY DEF HealP!Stages, Heal!NStages, Heal!P!Stages

LEMMA HealFits ==
    ASSUME NEW d, NEW r
    PROVE  /\ HealFitting(d, r)[0] = Heal!HealSource
           /\ HealFitting(d, r)[1] = WantedPipes
           /\ HealFitting(d, r)[2] = WantedJobs
           /\ HealFitting(d, r)[3] = {x \in WantedJobs : d \/ r[x[3]] > 0}
BY DEF HealFitting

LEMMA WantedJob ==
    ASSUME NEW x \in WantedJobs
    PROVE  /\ x \in Heal!JobItems /\ x[3] \in Heal!Jobs /\ x[3] \in FailedJobs
           /\ \E p \in Heal!Pipelines \cap Relevant : x[3] \in Heal!Elements(PipelineJobs[p])
<1>1. x \in Heal!JobItems /\ x[2] \in Relevant /\ x[3] \in FailedJobs
  BY DEF WantedJobs
<1>2. <<x[1], x[2]>> \in Heal!PipeItems /\ x[3] \in Heal!Elements(PipelineJobs[x[2]]) /\ x[3] \in Heal!Jobs
  BY <1>1, HealItems
<1>3. <<x[1], x[2]>>[2] \in Heal!Pipelines
  BY <1>2, HealItems
<1> QED
  BY <1>1, <1>2, <1>3

LEMMA HealCalled ==
    ASSUME HealInv, NEW s \in 1..3, NEW x \in calling[s]
    PROVE  x \in HealFitting(dryRun, restarts)[s - 1] /\ x \in Heal!Item
<1>1. PICK F : F = HealFitting(dryRun, restarts)
  OBVIOUS
<1>2. HealP!TypeOK /\ HealP!Carried(F)
  BY <1>1 DEF HealInv, HealP!IInv
<1>3. x \in F[s - 1] /\ x \in Heal!Item
  BY <1>2, HealP!CalledCarried, HealP!CalledUndone, HealHolds, HealStages
<1> QED
  BY <1>1, <1>3

\* Restarts are not taken back, so what has been carried so far still fits.
HealGrows == dryRun' = dryRun /\ \A j \in Heal!Jobs : restarts[j] > 0 => restarts'[j] > 0

LEMMA HealFitsStill ==
    ASSUME HealInv, HealGrows, NEW F, F = HealFitting(dryRun', restarts') PROVE HealP!Carried(F)
<1>1. PICK E : E = HealFitting(dryRun, restarts)
  OBVIOUS
<1>2. \A x \in WantedJobs : x[3] \in Heal!Jobs
  BY WantedJob
<1>3. E[0] \subseteq F[0] /\ E[1] \subseteq F[1] /\ E[2] \subseteq F[2]
  BY <1>1, HealFits
<1>4. E[3] \subseteq F[3]
  BY <1>1, <1>2, HealFits DEF HealGrows
<1>5. \A s \in 0..3 : s = 0 \/ s = 1 \/ s = 2 \/ s = 3
  OBVIOUS
<1>6. \A s \in 0..3 : E[s] \subseteq F[s]
  BY <1>3, <1>4, <1>5
<1>7. ASSUME NEW p \in HealP!Undone PROVE p[1] - 1 \in 0..3
  <2>1. p \in HealP!Nodes
    BY HealP!UndoneNodes, HealHolds, HealStages DEF HealInv, HealP!IInv
  <2> QED
    BY <2>1, HealStages DEF HealP!Nodes
<1> QED
  BY <1>1, <1>6, <1>7, HealStages DEF HealInv, HealP!Carried

\* A call that ends.
LEMMA HealAnswerKeeps ==
    ASSUME HealInv, HealGrows, NEW s \in 1..3, NEW x \in calling[s], NEW out \in HealAnswers(s, x),
           Heal!P!Answer(s, x, out), \A k \in DOMAIN out : out[k] \in HealFitting(dryRun', restarts')[s]
    PROVE  HealP!Carried(HealFitting(dryRun, restarts))'
<1>1. HealP!Answer(s, x, out)
  BY DEF Heal!P!Answer, HealP!Answer, HealAnswers
<1>2. PICK F : F = HealFitting(dryRun', restarts')
  OBVIOUS
<1>3. HealP!Carried(F)
  BY <1>2, HealFitsStill
<1>4. \A k \in DOMAIN out : out[k] \in F[s]
  BY <1>2
<1>5. HealP!Carried(F)'
  BY <1>1, <1>3, <1>4, HealP!AnswerCarries, HealHolds, HealStages DEF HealInv
<1> QED
  BY <1>2, <1>5

\* What ends no call.
LEMMA HealPlumbingKeeps ==
    ASSUME HealInv, Heal!P!Plumbing \/ UNCHANGED Heal!P!vars, UNCHANGED <<dryRun, restarts>>
    PROVE  HealP!Carried(HealFitting(dryRun, restarts))'
<1>1. HealP!Plumbing \/ UNCHANGED HealP!vars
  BY HealPlumbing
<1>2. PICK F : F = HealFitting(dryRun, restarts)
  OBVIOUS
<1>3. HealP!Moves
  BY <1>1, HealP!PlumbingMoves, HealHolds, HealStages DEF HealInv
<1>4. HealP!Carried(F)'
  BY <1>2, <1>3, HealP!MovesCarry, HealHolds, HealStages DEF HealInv, HealP!IInv
<1> QED
  BY <1>2, <1>4

LEMMA HealPipelineKept == ASSUME HealInv, [Heal!Next]_(Heal!vars) PROVE HealP!IInv' /\ HealP!WorkInv'
<1>1. [HealP!Next]_(HealP!vars)
  BY HealSteps
<1> QED
  BY <1>1, HealP!NextIInv, HealP!NextApart, HealHolds, HealDistinct, HealStages DEF HealInv

\* Searching pipelines and jobs restarts nothing.
LEMMA HealReads ==
    ASSUME HealInv, Heal!ReadGitlab
    PROVE  HealP!Carried(HealFitting(dryRun, restarts))' /\ UNCHANGED <<dryRun, restarts>>
<1>1. PICK s \in 1..2 : \E x \in calling[s] : \E out \in HealAnswers(s, x) : Heal!P!Answer(s, x, out)
  BY DEF Heal!ReadGitlab, Heal!Search, Heal!FindJobs, HealAnswers
<1>2. PICK x \in calling[s] : \E out \in HealAnswers(s, x) : Heal!P!Answer(s, x, out)
  BY <1>1
<1>3. PICK out \in HealAnswers(s, x) : Heal!P!Answer(s, x, out)
  BY <1>2
<1>4. s \in 1..3 /\ UNCHANGED <<dryRun, restarts>>
  BY DEF Heal!ReadGitlab
<1>5. x \in HealFitting(dryRun, restarts)[s - 1] /\ x \in Heal!Item
  BY <1>4, HealCalled
<1>6. s = 2 => x \in WantedPipes
  BY <1>5, HealFits
<1>7. out = <<>> \/ (s = 1 /\ out \in Seq(WantedPipes)) \/ (s = 2 /\ out \in Seq(WantedJobs))
  BY <1>4, <1>5, <1>6, HealAnswered
<1>8. \A k \in DOMAIN out : out[k] \in HealFitting(dryRun', restarts')[s]
  BY <1>7, HealFits
<1>9. HealGrows
  BY <1>4 DEF HealGrows
<1> QED
  BY <1>3, <1>4, <1>8, <1>9, HealAnswerKeeps

\* The third stage restarts only what the first two have let through.
LEMMA HealRetries ==
    ASSUME HealInv, NEW x \in calling[3], NEW took \in BOOLEAN, NEW out \in HealAnswers(3, x),
           Heal!HealJob(x, took, out)
    PROVE  /\ HealP!Carried(HealFitting(dryRun, restarts))' /\ HealServers' /\ HealDry'
           /\ Heal!RestartsWanted' /\ x \in HealWays(x[3]) /\ x[3] \in Heal!Jobs
<1>1. Heal!Heal = 3 /\ 3 - 1 = 2 /\ 3 \in 1..3
  BY DEF Heal!Heal
<1>2. x \in WantedJobs /\ x \in Heal!Item
  BY <1>1, HealCalled, HealFits
<1>3. /\ x \in Heal!JobItems /\ x[3] \in Heal!Jobs /\ x[3] \in FailedJobs
      /\ \E p \in Heal!Pipelines \cap Relevant : x[3] \in Heal!Elements(PipelineJobs[p])
  BY <1>2, WantedJob
<1>4. /\ dryRun' = dryRun /\ dryRun \in BOOLEAN
      /\ took => ~dryRun /\ x[3] \in Says429
      /\ out = <<x>> /\ ~dryRun => took
      /\ restarts' = IF took THEN [restarts EXCEPT ![x[3]] = @ + 1] ELSE restarts
      /\ restarts \in [Heal!Jobs -> Nat]
      /\ Heal!P!Answer(3, x, out)
  BY <1>1 DEF Heal!HealJob, HealInv, HealServers
<1>5. HealServers' /\ HealGrows
  BY <1>3, <1>4 DEF HealServers, HealGrows
<1>6. out = <<>> \/ out = <<x>>
  BY <1>1, <1>2, HealAnswered
<1>7. ASSUME out = <<x>> PROVE x \in HealFitting(dryRun', restarts')[3]
  <2>1. dryRun' \/ restarts'[x[3]] > 0
    BY <1>3, <1>4, <1>7
  <2> QED
    BY <1>2, <2>1, HealFits
<1>8. \A k \in DOMAIN out : out[k] \in HealFitting(dryRun', restarts')[3]
  BY <1>6, <1>7
<1>9. HealP!Carried(HealFitting(dryRun, restarts))'
  BY <1>1, <1>4, <1>5, <1>8, HealAnswerKeeps
<1>10. HealDry'
  BY <1>4 DEF HealDry, HealInv
<1>11. Heal!RestartsWanted'
  <2> SUFFICES ASSUME NEW j \in Heal!Jobs, restarts'[j] > 0
               PROVE  /\ j \in FailedJobs \cap Says429
                      /\ \E p \in Heal!Pipelines \cap Relevant : j \in Heal!Elements(PipelineJobs[p])
    BY DEF Heal!RestartsWanted
  <2>1. CASE restarts[j] > 0
    BY <2>1 DEF HealInv, Heal!RestartsWanted
  <2>2. CASE ~(restarts[j] > 0)
    <3>1. took /\ j = x[3]
      BY <1>4, <2>2
    <3> QED
      BY <1>3, <1>4, <3>1
  <2> QED
    BY <2>1, <2>2
<1> QED
  BY <1>3, <1>5, <1>9, <1>10, <1>11 DEF HealWays

\* Each restart has an item of its own.
LEMMA HealRestartStep == ASSUME HealInv, [Heal!Next]_(Heal!vars) PROVE HealBound'
<1> SUFFICES ASSUME NEW j \in Heal!Jobs
             PROVE  restarts'[j] <= Cardinality(HealP!Past(3, HealWays(j))')
  BY DEF HealBound
<1>2. PICK S : S = HealWays(j)
  OBVIOUS
<1>1. IsFiniteSet(S)
  BY <1>2, HealFinite, FS_Subset DEF HealWays
<1> DEFINE past == Cardinality(HealP!Past(3, S))
           past2 == Cardinality(HealP!Past(3, S)')
<1>3. restarts[j] \in Nat /\ restarts[j] <= past
  BY <1>2 DEF HealInv, HealServers, HealBound
<1>4. /\ IsFiniteSet(HealP!Past(3, S)')
      /\ HealP!Past(3, S) \subseteq HealP!Past(3, S)'
  <2>1. HealP!Past(3, S) \subseteq HealP!Past(3, S)'
    BY HealSteps, HealP!PastGrows, HealHolds, HealDistinct, HealStages DEF HealInv
  <2>2. HealP!Past(3, S)' \subseteq S
    BY DEF HealP!Past
  <2> QED
    BY <1>1, <2>1, <2>2, FS_Subset
<1>8. past \in Nat /\ past2 \in Nat /\ past <= past2
  BY <1>4, FS_Subset, FS_CardinalityType
<1>0. past2 = Cardinality(HealP!Past(3, HealWays(j))')
  BY <1>2
<1> SUFFICES restarts'[j] <= past2
  BY <1>0
<1>5. CASE restarts'[j] = restarts[j]
  BY <1>3, <1>8, <1>5
<1>6. ASSUME restarts'[j] # restarts[j],
             NEW x \in calling[3], NEW took \in BOOLEAN, NEW out \in HealAnswers(3, x),
             Heal!HealJob(x, took, out)
      PROVE  restarts'[j] <= past2
  <2>1. x[3] = j /\ restarts'[j] = restarts[j] + 1
    BY <1>6 DEF Heal!HealJob, HealInv, HealServers
  <2>2. x \in S
    BY <1>2, <1>6, <2>1, HealRetries
  <2>3. HealP!Answer(3, x, out) /\ 3 \in 1..3
    BY <1>6 DEF Heal!HealJob, Heal!P!Answer, HealP!Answer, Heal!Heal, HealAnswers
  <2>4. x \notin HealP!Past(3, S) /\ x \in HealP!Past(3, S)'
    BY <2>2, <2>3, <1>6, HealP!AnsweredPast, HealHolds, HealStages DEF HealInv
  <2>5. past # past2
    BY <1>4, <2>4, FS_Subset
  <2> HIDE DEF past, past2
  <2> QED
    BY <1>3, <1>8, <2>1, <2>5
<1>7. ASSUME restarts' # restarts
      PROVE  \E x \in calling[3] : \E took \in BOOLEAN, out \in HealAnswers(3, x) :
                 Heal!HealJob(x, took, out)
  <2>1. ~UNCHANGED <<dryRun, restarts>> /\ ~UNCHANGED Heal!vars
    BY <1>7 DEF Heal!vars
  <2>2. ~Heal!ReadGitlab
    BY <2>1 DEF Heal!ReadGitlab
  <2> QED
    BY <2>1, <2>2 DEF Heal!Next, Heal!Heal, HealAnswers
<1> QED
  BY <1>5, <1>6, <1>7

LEMMA HealStart == ASSUME Heal!Init PROVE HealInv
<1>1. HealP!Init
  BY DEF Heal!Init, Heal!P!Init, HealP!Init, Heal!P!Stages, HealP!Stages
<1>2. HealP!IInv /\ HealP!WorkInv
  BY <1>1, HealP!InitIInv, HealP!InitWorks, HealHolds, HealStages
<1>3. dryRun \in BOOLEAN /\ restarts = [j \in Heal!Jobs |-> 0]
  BY DEF Heal!Init
<1>4. HealServers /\ HealDry /\ Heal!RestartsWanted
  BY <1>3 DEF HealServers, HealDry, Heal!RestartsWanted
<1>5. PICK F : F = HealFitting(dryRun, restarts)
  OBVIOUS
<1>6. Heal!HealSource \subseteq F[0]
  BY <1>5, HealFits
<1>7. HealP!Carried(F)
  BY <1>1, <1>6, HealP!InitCarries, HealHolds, HealStages
<1>8. ASSUME NEW j \in Heal!Jobs PROVE restarts[j] <= Cardinality(HealP!Past(3, HealWays(j)))
  <2>1. restarts[j] = 0
    BY <1>3
  <2>2. HealP!Past(3, HealWays(j)) \subseteq Heal!JobItems
    BY DEF HealP!Past, HealWays
  <2>3. Cardinality(HealP!Past(3, HealWays(j))) \in Nat
    BY <2>2, HealFinite, FS_Subset, FS_CardinalityType
  <2> QED
    BY <2>1, <2>3
<1> QED
  BY <1>2, <1>4, <1>5, <1>7, <1>8 DEF HealInv, HealBound

LEMMA HealKept == HealInv /\ [Heal!Next]_(Heal!vars) => HealInv'
<1> SUFFICES ASSUME HealInv, [Heal!Next]_(Heal!vars) PROVE HealInv'
  OBVIOUS
<1>1. HealP!IInv' /\ HealP!WorkInv' /\ HealBound'
  BY HealPipelineKept, HealRestartStep
<1>2. ASSUME HealP!Carried(HealFitting(dryRun, restarts))', UNCHANGED <<dryRun, restarts>> PROVE HealInv'
  BY <1>1, <1>2 DEF HealInv, HealServers, HealDry, Heal!RestartsWanted
<1>3. CASE Heal!P!Plumbing /\ UNCHANGED <<dryRun, restarts>>
  BY <1>2, <1>3, HealPlumbingKeeps
<1>4. CASE Heal!ReadGitlab
  BY <1>2, <1>4, HealReads
<1>5. ASSUME NEW x \in calling[3], NEW took \in BOOLEAN, NEW out \in HealAnswers(3, x),
             Heal!HealJob(x, took, out)
      PROVE  HealInv'
  BY <1>1, <1>5, HealRetries DEF HealInv
<1>6. CASE UNCHANGED Heal!vars
  <2>1. UNCHANGED Heal!P!vars /\ UNCHANGED <<dryRun, restarts>>
    BY <1>6 DEF Heal!vars
  <2> QED
    BY <1>2, <2>1, HealPlumbingKeeps
<1> QED
  BY <1>3, <1>4, <1>5, <1>6 DEF Heal!Next, Heal!Heal, HealAnswers

LEMMA HealResults ==
    ASSUME HealInv
    PROVE  Heal!TypeOK /\ Heal!RestartsWanted /\ Heal!RestartsBounded /\ Heal!ReportIsHonest
<1>1. Heal!TypeOK
  BY DEF HealInv, HealServers, Heal!TypeOK, HealP!IInv, HealP!TypeOK, Heal!P!TypeOK, Heal!P!Stages, HealP!Stages
<1>2. ASSUME NEW j \in Heal!Jobs PROVE restarts[j] <= Cardinality(HealWays(j))
  <2>1. HealP!Past(3, HealWays(j)) \subseteq HealWays(j)
    BY DEF HealP!Past
  <2>2. IsFiniteSet(HealWays(j))
    BY HealFinite, FS_Subset DEF HealWays
  <2>3. PICK S : S = HealP!Past(3, HealWays(j))
    OBVIOUS
  <2>4. /\ Cardinality(S) \in Nat /\ Cardinality(HealWays(j)) \in Nat
        /\ Cardinality(S) <= Cardinality(HealWays(j))
    BY <2>1, <2>2, <2>3, FS_Subset, FS_CardinalityType
  <2>5. restarts[j] \in Nat /\ restarts[j] <= Cardinality(S)
    BY <2>3 DEF HealInv, HealBound, HealServers
  <2> QED
    BY <2>4, <2>5
<1>3. Heal!RestartsBounded
  <2>1. \A S : Cardinality(S) = Heal!Cardinality(S)
    BY DEF Cardinality, Heal!Cardinality
  <2> QED
    BY <1>2, <2>1 DEF Heal!RestartsBounded, HealWays
<1>4. ASSUME ~dryRun, NEW k \in DOMAIN report PROVE restarts[report[k][3]] > 0
  <2>1. report[k] \in HealFitting(dryRun, restarts)[3]
    BY HealStages DEF HealInv, HealP!Carried
  <2> QED
    BY <1>4, <2>1, HealFits
<1> QED
  BY <1>1, <1>3, <1>4 DEF HealInv, HealDry, Heal!ReportIsHonest

-----------------------------------------------------------------------------
(* pipelines:search, merge:search, tags:search: the race of -my on          *)
(* search.Username, and the end of a search.                                *)

\* Where a goroutine is once it has stored the first word of the user, or both.
StoredFirst == {"write2", "read1", "read2", "query"}
StoredBoth == {"read1", "read2", "query"}

\* What the goroutines share with main, but for the arguments.
SearchTypes ==
    /\ my \in BOOLEAN
    /\ pc \in [Search!Positions -> Search!Places]
    /\ username \in Search!Halves \X Search!Halves
    /\ query \in [Search!Positions -> Search!Halves \X Search!Halves]
    /\ rows \subseteq Search!Positions
    /\ stderr \subseteq Search!Positions
    /\ open \in BOOLEAN
    /\ done \in BOOLEAN

\* All goroutines store the same words, so a word one of them has stored is never
\* undone by another.
RaceInv ==
    my => \A a \in Search!Positions :
        /\ pc[a] \in StoredFirst => username[1] = Me[1]
        /\ pc[a] \in StoredBoth => username[2] = Me[2]
        /\ pc[a] \in {"read2", "query"} => query[a][1] = Me[1]
        /\ pc[a] = "query" => query[a][2] = Me[2]

\* Who has ended has been heard, and the channel is closed when all have.
HeardInv ==
    /\ rows \cap stderr = {}
    /\ \A a \in Search!Positions : a \in rows \cup stderr <=> pc[a] = "ended"
    /\ ~open => \A a \in Search!Positions : pc[a] = "ended"
    /\ done => ~open

SearchLive == SearchTypes /\ RaceInv /\ HeardInv

-----------------------------------------------------------------------------

LEMMA SearchStart == Search!Init => SearchLive
<1> SUFFICES ASSUME Search!Init PROVE SearchLive
  OBVIOUS
<1>1. SearchTypes
  BY DEF Search!Init, SearchTypes, Search!Places, Search!Halves
<1>2. RaceInv
  <2>1. \A a \in Search!Positions : my => pc[a] = "user"
    BY DEF Search!Init
  <2> QED
    BY <2>1 DEF RaceInv, StoredFirst, StoredBoth
<1>3. HeardInv
  <2>1. \A a \in Search!Positions : pc[a] # "ended"
    BY DEF Search!Init
  <2> QED
    BY <2>1 DEF Search!Init, HeardInv
<1> QED
  BY <1>1, <1>2, <1>3 DEF SearchLive

\* What a step of one goroutine leaves to the others.
LEMMA SearchMoves ==
    ASSUME SearchLive, NEW a \in Search!Positions, NEW there \in Search!Places, Search!Goto(a, there), UNCHANGED Search!argumentVars
    PROVE  /\ Search!Positions' = Search!Positions
           /\ my' = my
           /\ pc' \in [Search!Positions -> Search!Places]
           /\ pc'[a] = there
           /\ \A b \in Search!Positions : b # a => pc'[b] = pc[b]
BY DEF Search!Goto, Search!argumentVars, Search!Positions, SearchLive, SearchTypes

\* GET /user.
LEMMA SearchAsks == ASSUME SearchLive, NEW a \in Search!Positions, Search!CurrentUser(a) PROVE SearchLive'
<1>1. PICK there \in {"write1", "error"} : Search!Goto(a, there)
  BY DEF Search!CurrentUser
<1>2. UNCHANGED <<Search!argumentVars, username, query, rows, stderr, open, done>> /\ pc[a] = "user"
  BY DEF Search!CurrentUser
<1>3. there \in Search!Places
  BY <1>1 DEF Search!Places
<1>4. SearchTypes'
  BY <1>1, <1>2, <1>3, SearchMoves DEF SearchLive, SearchTypes
<1>5. RaceInv'
  BY <1>1, <1>2, <1>3, SearchMoves DEF SearchLive, RaceInv, StoredFirst, StoredBoth
<1>6. HeardInv'
  BY <1>1, <1>2, <1>3, SearchMoves DEF SearchLive, HeardInv
<1> QED
  BY <1>4, <1>5, <1>6 DEF SearchLive

\* search.Username = user.Username, word by word.
LEMMA SearchWrites ==
    ASSUME SearchLive, NEW a \in Search!Positions, Search!WritePointer(a) \/ Search!WriteLength(a) PROVE SearchLive'
<1>1. PICK there \in {"write2", "read1"} :
        /\ Search!Goto(a, there)
        /\ there = "write2" => pc[a] = "write1" /\ username' = [username EXCEPT ![1] = Me[1]]
        /\ there = "read1" => pc[a] = "write2" /\ username' = [username EXCEPT ![2] = Me[2]]
  BY DEF Search!WritePointer, Search!WriteLength
<1>2. UNCHANGED <<Search!argumentVars, query, rows, stderr, open, done>>
  BY DEF Search!WritePointer, Search!WriteLength
<1>3. there \in Search!Places /\ pc[a] # "ended"
  BY <1>1 DEF Search!Places
<1>4. username \in Search!Halves \X Search!Halves /\ {Me[1], Me[2]} \subseteq Search!Halves
  BY DEF SearchLive, SearchTypes, Search!Halves
<1>5. /\ username' \in Search!Halves \X Search!Halves
      /\ there = "write2" => username'[1] = Me[1] /\ username'[2] = username[2]
      /\ there = "read1" => username'[1] = username[1] /\ username'[2] = Me[2]
  BY <1>1, <1>4
<1>6. SearchTypes'
  BY <1>1, <1>2, <1>3, <1>5, SearchMoves DEF SearchLive, SearchTypes
<1>7. RaceInv'
  BY <1>1, <1>2, <1>3, <1>5, SearchMoves DEF SearchLive, RaceInv, StoredFirst, StoredBoth
<1>8. HeardInv'
  BY <1>1, <1>2, <1>3, SearchMoves DEF SearchLive, HeardInv
<1> QED
  BY <1>6, <1>7, <1>8 DEF SearchLive

\* The query is built from the words one after the other.
LEMMA SearchReads ==
    ASSUME SearchLive, NEW a \in Search!Positions, Search!ReadPointer(a) \/ Search!ReadLength(a) PROVE SearchLive'
<1>1. PICK there \in {"read2", "query"} :
        /\ Search!Goto(a, there)
        /\ there = "read2" => pc[a] = "read1" /\ query' = [query EXCEPT ![a][1] = username[1]]
        /\ there = "query" => pc[a] = "read2" /\ query' = [query EXCEPT ![a][2] = username[2]]
  BY DEF Search!ReadPointer, Search!ReadLength
<1>2. UNCHANGED <<Search!argumentVars, username, rows, stderr, open, done>>
  BY DEF Search!ReadPointer, Search!ReadLength
<1>3. there \in Search!Places /\ pc[a] # "ended"
  BY <1>1 DEF Search!Places
<1>4. /\ username \in Search!Halves \X Search!Halves
      /\ query \in [Search!Positions -> Search!Halves \X Search!Halves]
  BY DEF SearchLive, SearchTypes
<1>5. query[a] \in Search!Halves \X Search!Halves
  BY <1>4
<1>6. /\ query' \in [Search!Positions -> Search!Halves \X Search!Halves]
      /\ \A b \in Search!Positions : b # a => query'[b] = query[b]
      /\ there = "read2" => query'[a][1] = username[1]
      /\ there = "query" => query'[a][1] = query[a][1] /\ query'[a][2] = username[2]
  BY <1>1, <1>4, <1>5
<1>7. SearchTypes'
  BY <1>1, <1>2, <1>3, <1>6, SearchMoves DEF SearchLive, SearchTypes
<1>8. RaceInv'
  <2>1. Search!Positions' = Search!Positions /\ my' = my /\ username' = username
    BY <1>1, <1>2, <1>3, SearchMoves
  <2> SUFFICES ASSUME my, NEW b \in Search!Positions
               PROVE  /\ pc'[b] \in StoredFirst => username[1] = Me[1]
                      /\ pc'[b] \in StoredBoth => username[2] = Me[2]
                      /\ pc'[b] \in {"read2", "query"} => query'[b][1] = Me[1]
                      /\ pc'[b] = "query" => query'[b][2] = Me[2]
    BY <2>1 DEF RaceInv
  <2>2. CASE b # a
    <3>1. pc'[b] = pc[b] /\ query'[b] = query[b]
      BY <1>1, <1>2, <1>3, <1>6, <2>2, SearchMoves
    <3> QED
      BY <3>1 DEF SearchLive, RaceInv
  <2>3. CASE b = a
    <3>1. pc'[a] = there /\ pc[a] \in StoredBoth
      BY <1>1, <1>2, <1>3, SearchMoves DEF StoredBoth
    <3>2. username[1] = Me[1] /\ username[2] = Me[2]
      BY <3>1 DEF SearchLive, RaceInv, StoredFirst, StoredBoth
    <3>3. there = "query" => query[a][1] = Me[1]
      BY <1>1 DEF SearchLive, RaceInv
    <3> QED
      BY <1>1, <1>6, <2>3, <3>1, <3>2, <3>3
  <2> QED
    BY <2>2, <2>3
<1>9. HeardInv'
  BY <1>1, <1>2, <1>3, SearchMoves DEF SearchLive, HeardInv
<1> QED
  BY <1>7, <1>8, <1>9 DEF SearchLive

\* GitLab answers, or does not.
LEMMA SearchQueries == ASSUME SearchLive, NEW a \in Search!Positions, Search!Query(a) PROVE SearchLive'
<1>1. PICK there \in {"rows", "error"} : Search!Goto(a, there)
  BY DEF Search!Query
<1>2. UNCHANGED <<Search!argumentVars, username, query, rows, stderr, open, done>> /\ pc[a] = "query"
  BY DEF Search!Query
<1>3. there \in Search!Places
  BY <1>1 DEF Search!Places
<1>4. SearchTypes'
  BY <1>1, <1>2, <1>3, SearchMoves DEF SearchLive, SearchTypes
<1>5. RaceInv'
  BY <1>1, <1>2, <1>3, SearchMoves DEF SearchLive, RaceInv, StoredFirst, StoredBoth
<1>6. HeardInv'
  BY <1>1, <1>2, <1>3, SearchMoves DEF SearchLive, HeardInv
<1> QED
  BY <1>4, <1>5, <1>6 DEF SearchLive

\* Main receives what a goroutine sends.
LEMMA SearchDelivers == ASSUME SearchLive, NEW a \in Search!Positions, Search!Deliver(a) PROVE SearchLive'
<1>1. Search!Goto(a, "ended") /\ pc[a] \in {"rows", "error"}
  BY DEF Search!Deliver
<1>2. UNCHANGED <<Search!argumentVars, username, query, open, done>>
  BY DEF Search!Deliver
<1>3. "ended" \in Search!Places
  BY DEF Search!Places
<1>4. \/ rows' = rows \cup {a} /\ stderr' = stderr
      \/ stderr' = stderr \cup {a} /\ rows' = rows
  BY DEF Search!Deliver
<1>5. SearchTypes'
  BY <1>1, <1>2, <1>3, <1>4, SearchMoves DEF SearchLive, SearchTypes
<1>6. RaceInv'
  BY <1>1, <1>2, <1>3, SearchMoves DEF SearchLive, RaceInv, StoredFirst, StoredBoth
<1>7. HeardInv'
  BY <1>1, <1>2, <1>3, <1>4, SearchMoves DEF SearchLive, HeardInv
<1> QED
  BY <1>5, <1>6, <1>7 DEF SearchLive

\* The end of the search, and nothing.
LEMMA SearchEnds == ASSUME SearchLive, Search!Close \/ Search!Return \/ UNCHANGED Search!vars PROVE SearchLive'
<1>1. UNCHANGED <<Search!argumentVars, pc, username, query, rows, stderr>>
  BY DEF Search!Close, Search!Return, Search!vars
<1>2. Search!Positions' = Search!Positions /\ my' = my
  BY <1>1 DEF Search!argumentVars, Search!Positions
<1>3. open' \in BOOLEAN /\ done' \in BOOLEAN
  BY DEF Search!Close, Search!Return, Search!vars, SearchLive, SearchTypes
<1>4. SearchTypes' /\ RaceInv'
  BY <1>1, <1>2, <1>3 DEF SearchLive, SearchTypes, RaceInv
<1>5. HeardInv'
  <2>1. ~open' => \A a \in Search!Positions : pc[a] = "ended"
    BY DEF Search!Close, Search!Return, Search!vars, SearchLive, HeardInv
  <2>2. done' => ~open'
    BY DEF Search!Close, Search!Return, Search!vars, SearchLive, HeardInv, SearchTypes
  <2> QED
    BY <1>1, <1>2, <2>1, <2>2 DEF SearchLive, HeardInv
<1> QED
  BY <1>4, <1>5 DEF SearchLive

LEMMA SearchLives == ASSUME SearchLive, [Search!Next]_(Search!vars) PROVE SearchLive'
BY SearchAsks, SearchWrites, SearchReads, SearchQueries, SearchDelivers, SearchEnds DEF Search!Next, Search!Returned

\* What the command line has asked for does not change.
SearchAsked == words \in WordLists /\ projects \in Search!Demuxed(words)

SearchInv == SearchAsked /\ SearchLive

LEMMA SearchStarts == Search!Init => SearchInv
BY SearchStart DEF Search!Init, SearchInv, SearchAsked

LEMMA SearchKept == SearchInv /\ [Search!Next]_(Search!vars) => SearchInv'
<1> SUFFICES ASSUME SearchInv, [Search!Next]_(Search!vars) PROVE SearchInv'
  OBVIOUS
<1>1. UNCHANGED Search!argumentVars
  BY DEF Search!Next, Search!CurrentUser, Search!WritePointer, Search!WriteLength, Search!ReadPointer, Search!ReadLength,
         Search!Query, Search!Deliver, Search!Close, Search!Return, Search!Returned, Search!vars
<1>2. SearchAsked'
  BY <1>1 DEF SearchInv, SearchAsked, Search!argumentVars
<1> QED
  BY <1>2, SearchLives DEF SearchInv

LEMMA SearchResults == ASSUME SearchInv PROVE Search!TypeOK /\ Search!EveryQueryMine
<1>1. Search!TypeOK
  BY DEF SearchInv, SearchAsked, SearchLive, SearchTypes, Search!TypeOK
<1>2. ASSUME NEW a \in Search!Positions, my, pc[a] = "query" PROVE query[a] = <<Me[1], Me[2]>>
  <2>1. query[a] \in Search!Halves \X Search!Halves
    BY DEF SearchInv, SearchLive, SearchTypes
  <2>2. query[a][1] = Me[1] /\ query[a][2] = Me[2]
    BY <1>2 DEF SearchInv, SearchLive, RaceInv
  <2> QED
    BY <2>1, <2>2
<1> QED
  BY <1>1, <1>2 DEF Search!EveryQueryMine

-----------------------------------------------------------------------------
(* registry:search. *)

\* The items of the first n answers of r.
FirstOf(r) == CHOOSE f : f = [n \in 0..Len(r) |-> IF n = 0 THEN <<>> ELSE f[n - 1] \o r[n]]

LEMMA RegistryFirst ==
    /\ Registry!ItemsOfFirst = FirstOf(registry)
    /\ Registry!ItemsOfFirst' = FirstOf(registry')
BY DEF Registry!ItemsOfFirst, FirstOf

LEMMA RegistryHas ==
    ASSUME NEW r \in Registries
    PROVE  /\ r \in Seq(Seq(ItemsIn(r))) /\ Len(r) \in Nat /\ DOMAIN r = 1..Len(r)
           /\ \A n \in 1..Len(r) : r[n] \in Seq(ItemsIn(r))
BY ServersAssumption

\* What a loop that appends has after each round.
LEMMA FirstValues ==
    ASSUME NEW S, NEW r \in Seq(Seq(S))
    PROVE  /\ FirstOf(r)[0] = <<>>
           /\ \A n \in 1..Len(r) : FirstOf(r)[n] = FirstOf(r)[n - 1] \o r[n]
           /\ \A n \in 0..Len(r) : FirstOf(r)[n] \in Seq(S)
<1> DEFINE n == Len(r)
           T == Seq(S)
           after(f, k) == IF k = 0 THEN <<>> ELSE f[k - 1] \o r[k]
           Is(f) == f = [k \in 0..n |-> after(f, k)]
           first == CHOOSE f : Is(f)
           round == [k \in 1..n |-> [v \in T |-> v \o r[k]]]
<1>1. FirstOf(r) = first
  BY DEF FirstOf
<1>2. n \in Nat /\ \A k \in 1..n : r[k] \in T
  OBVIOUS
<1>3. Is(first)
  <2>1. Total(n, T, round)
    BY <1>2 DEF Total
  <2>2. Loop(n, T, <<>>, round)
    <3>1. <<>> \in T
      OBVIOUS
    <3> HIDE DEF round, n, T
    <3> QED
      BY <1>2, <2>1, <3>1, LoopEnds
  <2>3. PICK f \in [0..n -> T] : Rounds(n, f, <<>>, round)
    BY <2>2 DEF Loop
  <2>4. ASSUME NEW k \in 1..n PROVE f[k] = after(f, k)
    <3>1. k - 1 \in 0..n /\ k # 0
      BY <1>2
    <3>2. f[k - 1] \in T /\ f[k] = round[k][f[k - 1]]
      BY <2>3, <3>1 DEF Rounds
    <3> HIDE DEF n, T
    <3> QED
      BY <3>1, <3>2
  <2>5. \A k \in 0..n : f[k] = after(f, k)
    <3>1. \A k \in 0..n : k = 0 \/ k \in 1..n
      BY <1>2
    <3>2. f[0] = after(f, 0)
      BY <2>3 DEF Rounds
    <3> HIDE DEF after
    <3> QED
      BY <2>4, <3>1, <3>2
  <2>6. Is(f)
    BY <2>5
  <2> HIDE DEF Is
  <2> QED
    BY <2>6
<1> HIDE DEF first
<1>4. \A k \in 0..n : first[k] = after(first, k)
  BY <1>3
<1>5. 0 \in 0..n /\ \A k \in 1..n : k \in 0..n /\ k # 0
  BY <1>2
<1>6. first[0] = <<>> /\ \A k \in 1..n : first[k] = first[k - 1] \o r[k]
  BY <1>4, <1>5
<1>7. \A k \in 0..n : first[k] \in T
  <2> DEFINE G == {k \in 0..n : first[k] \in T}
  <2>1. 0 \in G
    <3>1. <<>> \in T
      OBVIOUS
    <3> QED
      BY <1>5, <1>6, <3>1
  <2>2. ASSUME NEW k \in 1..n, k - 1 \in G PROVE k \in G
    <3>1. first[k - 1] \in Seq(S) /\ r[k] \in Seq(S)
      BY <1>2, <2>2
    <3>2. first[k - 1] \o r[k] \in Seq(S)
      BY <3>1, ConcatProperties
    <3> QED
      BY <1>5, <1>6, <3>2
  <2> HIDE DEF G
  <2>3. \A k \in 0..n : k \in G
    BY <1>2, <2>1, <2>2, UpTo
  <2> QED
    BY <2>3 DEF G
<1> QED
  BY <1>1, <1>6, <1>7

\* What has been sent and what is being sent are the items of the projects asked so far;
\* the goroutine has ended at the first error or behind the last project.
RegistryInv ==
    /\ Registry!TypeOK
    /\ items \o sending = FirstOf(registry)[next - 1]
    /\ running => open /\ failed = {}
    /\ ~running => sending = <<>>
    /\ ~running => \/ failed = {} /\ next = Len(registry) + 1
                   \/ failed = {next} /\ next \in 1..Len(registry)
    /\ done => ~open

LEMMA RegistryStart == ASSUME Registry!Init PROVE RegistryInv
<1>1. registry \in Registries /\ next = 1 /\ sending = <<>> /\ items = <<>> /\ failed = {} /\ running /\ open /\ ~done
  BY DEF Registry!Init
<1>2. running \in BOOLEAN /\ open \in BOOLEAN /\ done \in BOOLEAN
  BY DEF Registry!Init
<1>3. Len(registry) \in Nat /\ 1 \in 1..Len(registry) + 1
  BY <1>1, RegistryHas
<1>4. <<>> \in Seq(Registry!RegistryItems)
  OBVIOUS
<1>5. Registry!TypeOK
  BY <1>1, <1>2, <1>3, <1>4 DEF Registry!TypeOK
<1>6. items \o sending = FirstOf(registry)[next - 1]
  <2>1. <<>> \o <<>> = <<>>
    BY ConcatEmptySeq
  <2>2. FirstOf(registry)[0] = <<>>
    BY <1>1, RegistryHas, FirstValues
  <2> QED
    BY <1>1, <2>1, <2>2
<1> QED
  BY <1>1, <1>5, <1>6 DEF RegistryInv

LEMMA RegistryKept == RegistryInv /\ [Registry!Next]_(Registry!vars) => RegistryInv'
<1> SUFFICES ASSUME RegistryInv, [Registry!Next]_(Registry!vars) PROVE RegistryInv'
  OBVIOUS
<1>1. PICK r : r = registry
  OBVIOUS
<1>2. registry' = r
  BY <1>1 DEF Registry!Next, Registry!Found, Registry!Failed, Registry!LoopEnds, Registry!Deliver, Registry!Close,
         Registry!Return, Registry!Returned, Registry!vars
<1>3. r \in Registries /\ Len(r) \in Nat /\ (\A n \in 1..Len(r) : r[n] \in Seq(ItemsIn(r))) /\ DOMAIN r = 1..Len(r)
  BY <1>1, RegistryHas DEF RegistryInv, Registry!TypeOK
<1>4. PICK S : S = ItemsIn(r)
  OBVIOUS
<1>5. Registry!RegistryItems = S /\ Registry!RegistryItems' = S
  BY <1>1, <1>2, <1>4 DEF Registry!RegistryItems, Registry!Items, Registry!Projects, ItemsIn
<1>6. PICK f : f = FirstOf(r)
  OBVIOUS
<1>7. \A n \in 1..Len(r) : f[n] = f[n - 1] \o r[n]
  BY <1>3, <1>6, RegistryHas, FirstValues
<1> DEFINE Inv(n, s, e, run, o, i, d) ==
             /\ n \in 1..(Len(r) + 1)
             /\ s \in Seq(S)
             /\ e \subseteq 1..Len(r)
             /\ run \in BOOLEAN
             /\ o \in BOOLEAN
             /\ i \in Seq(S)
             /\ d \in BOOLEAN
             /\ i \o s = f[n - 1]
             /\ run => o /\ e = {}
             /\ ~run => s = <<>>
             /\ ~run => \/ e = {} /\ n = Len(r) + 1
                        \/ e = {n} /\ n \in 1..Len(r)
             /\ d => ~o
<1>8. Inv(next, sending, failed, running, open, items, done)
  BY <1>1, <1>5, <1>6 DEF RegistryInv, Registry!TypeOK, Registry!Projects
<1>9. Inv(next', sending', failed', running', open', items', done') => RegistryInv'
  BY <1>2, <1>3, <1>5, <1>6 DEF RegistryInv, Registry!TypeOK, Registry!Projects
<1> SUFFICES Inv(next', sending', failed', running', open', items', done')
  BY <1>9
<1>10. Registry!Projects = 1..Len(r)
  BY <1>1 DEF Registry!Projects
<1>11. CASE Registry!Found
  <2>1. /\ running /\ sending = <<>> /\ next \in 1..Len(r) /\ sending' = r[next] /\ next' = next + 1
        /\ UNCHANGED <<failed, running, open, items, done>>
    BY <1>1, <1>10, <1>11 DEF Registry!Found
  <2>2. items \o <<>> = items
    BY <1>8, ConcatEmptySeq
  <2>3. items \o r[next] = f[next]
    BY <1>7, <1>8, <2>1, <2>2
  <2>4. (next + 1) - 1 = next /\ next + 1 \in 1..(Len(r) + 1)
    BY <1>3, <2>1
  <2>5. r[next] \in Seq(S)
    BY <1>3, <1>4, <2>1
  <2> QED
    BY <1>8, <2>1, <2>3, <2>4, <2>5
<1>12. CASE Registry!Failed
  <2>1. /\ running /\ sending = <<>> /\ next \in 1..Len(r) /\ failed' = failed \cup {next} /\ ~running' /\ running' \in BOOLEAN
        /\ UNCHANGED <<next, sending, open, items, done>>
    BY <1>10, <1>12 DEF Registry!Failed
  <2> QED
    BY <1>8, <2>1
<1>13. CASE Registry!LoopEnds
  <2>1. /\ running /\ sending = <<>> /\ next \notin 1..Len(r) /\ ~running' /\ running' \in BOOLEAN
        /\ UNCHANGED <<next, failed, sending, open, items, done>>
    BY <1>10, <1>13 DEF Registry!LoopEnds
  <2>2. next = Len(r) + 1
    BY <1>3, <1>8, <2>1
  <2> QED
    BY <1>8, <2>1, <2>2
<1>14. CASE Registry!Deliver
  <2>1. /\ sending # <<>> /\ items' = Append(items, Head(sending)) /\ sending' = Tail(sending)
        /\ UNCHANGED <<next, failed, running, open, done>>
    BY <1>14 DEF Registry!Deliver
  <2>2. Head(sending) \in S /\ Tail(sending) \in Seq(S) /\ items' \in Seq(S) /\ items \in Seq(S) /\ sending \in Seq(S)
    BY <1>8, <2>1
  <2>3. items' \o sending' = items \o sending
    <3>1. items' = items \o <<Head(sending)>>
      BY <2>1, <2>2, AppendIsConcat
    <3>2. <<Head(sending)>> \in Seq(S)
      BY <2>2
    <3>3. (items \o <<Head(sending)>>) \o Tail(sending) = items \o (<<Head(sending)>> \o Tail(sending))
      BY <2>2, <3>2, ConcatAssociative
    <3>4. <<Head(sending)>> \o Tail(sending) = sending
      BY <2>1, <2>2, HeadTailProperties
    <3> QED
      BY <2>1, <3>1, <3>3, <3>4
  <2> QED
    BY <1>8, <2>1, <2>2, <2>3
<1>15. CASE Registry!Close
  <2>1. open /\ ~running /\ ~open' /\ open' \in BOOLEAN /\ UNCHANGED <<next, sending, failed, running, items, done>>
    BY <1>15 DEF Registry!Close
  <2> QED
    BY <1>8, <2>1
<1>16. CASE Registry!Return
  <2>1. ~open /\ done' /\ done' \in BOOLEAN /\ UNCHANGED <<next, sending, failed, running, open, items>>
    BY <1>16 DEF Registry!Return
  <2> QED
    BY <1>8, <2>1
<1>17. CASE UNCHANGED Registry!vars
  BY <1>8, <1>17 DEF Registry!vars
<1> QED
  BY <1>11, <1>12, <1>13, <1>14, <1>15, <1>16, <1>17 DEF Registry!Next, Registry!Returned

LEMMA RegistryResults == ASSUME RegistryInv PROVE Registry!TypeOK /\ Registry!AnswerIsPrefix
<1>1. ASSUME done
      PROVE  \/ failed = {} /\ items = Registry!ItemsOfFirst[Len(registry)]
             \/ \E p \in Registry!Projects : failed = {p} /\ items = Registry!ItemsOfFirst[p - 1]
  <2>1. ~running /\ sending = <<>>
    BY <1>1 DEF RegistryInv, Registry!TypeOK
  <2>2. items = FirstOf(registry)[next - 1]
    BY <2>1, ConcatEmptySeq DEF RegistryInv, Registry!TypeOK
  <2>3. Len(registry) \in Nat /\ (Len(registry) + 1) - 1 = Len(registry)
    BY RegistryHas DEF RegistryInv, Registry!TypeOK
  <2> QED
    BY <2>1, <2>2, <2>3, RegistryFirst DEF RegistryInv, Registry!Projects
<1> QED
  BY <1>1 DEF RegistryInv, Registry!AnswerIsPrefix

-----------------------------------------------------------------------------
(* pipelines:details and the commands of one call: what they return says   *)
(* what the server has done.                                                *)

\* A call is asked, then in its channel, then received; a value needs both.
DetailsInv ==
    /\ Details!TypeOK
    /\ \A c \in Details!Calls : c \in asking => channel[c] = <<>>
    /\ done /\ outcome # "error" => \A c \in Details!Calls : received[c] = "ok"

LEMMA DetailsStart == ASSUME Details!Init PROVE DetailsInv
<1>1. <<>> \in Seq(Details!Results) /\ Len(<<>>) = 0
  OBVIOUS
<1>2. channel = [c \in Details!Calls |-> <<>>]
  BY DEF Details!Init
<1>3. channel \in [Details!Calls -> Seq(Details!Results)] /\ \A c \in Details!Calls : channel[c] = <<>> /\ Len(channel[c]) <= 1
  BY <1>1, <1>2
<1> QED
  BY <1>3 DEF Details!Init, DetailsInv, Details!TypeOK

LEMMA DetailsKept == ASSUME DetailsInv, ~done, Details!Next PROVE DetailsInv'
<1> USE DEF DetailsInv, Details!TypeOK
<1>1. ASSUME NEW c \in Details!Calls, NEW result \in Details!Results, Details!Answer(c, result) PROVE DetailsInv'
  <2>0. Append(<<>>, result) = <<result>> /\ Len(<<result>>) = 1 /\ <<result>> \in Seq(Details!Results)
    OBVIOUS
  <2>1. channel[c] = <<>> /\ Append(channel[c], result) = <<result>> /\ Len(<<result>>) = 1 /\ <<result>> \in Seq(Details!Results)
    BY <1>1, <2>0 DEF Details!Answer
  <2>2. channel' = [channel EXCEPT ![c] = <<result>>]
    BY <1>1, <2>1 DEF Details!Answer
  <2>3. channel' \in [Details!Calls -> Seq(Details!Results)] /\ \A b \in Details!Calls : Len(channel'[b]) <= 1 /\ (b # c => channel'[b] = channel[b])
    BY <2>1, <2>2
  <2> QED
    BY <1>1, <2>3 DEF Details!Answer
<1>2. ASSUME NEW c \in Details!Calls, Details!Receive(c) PROVE DetailsInv'
  <2>1. channel[c] \in Seq(Details!Results) /\ channel[c] # <<>> /\ Len(channel[c]) <= 1
    BY <1>2 DEF Details!Receive
  <2>2. Head(channel[c]) \in Details!Results /\ Tail(channel[c]) \in Seq(Details!Results) /\ Len(Tail(channel[c])) <= 1
    BY <2>1
  <2>3. c \notin asking
    BY <2>1
  <2>4. channel' = [channel EXCEPT ![c] = Tail(channel[c])]
    BY <1>2 DEF Details!Receive
  <2>5. channel' \in [Details!Calls -> Seq(Details!Results)] /\ \A b \in Details!Calls : Len(channel'[b]) <= 1 /\ (b # c => channel'[b] = channel[b])
    BY <2>2, <2>4
  <2> QED
    BY <1>2, <2>2, <2>3, <2>5 DEF Details!Receive
<1>3. CASE Details!Return
  BY <1>3 DEF Details!Return, Details!Results
<1> QED
  BY <1>1, <1>2, <1>3 DEF Details!Next

\* No exit code and no value without the thing done.
RealmInv == Keycloak!TypeOK /\ (done /\ outcome # "error" => served)

LEMMA RealmStart == ASSUME Keycloak!Init PROVE RealmInv
BY DEF Keycloak!Init, RealmInv, Keycloak!TypeOK

LEMMA RealmKept == ASSUME RealmInv, ~done, Keycloak!Next PROVE RealmInv'
<1> USE DEF RealmInv, Keycloak!TypeOK, Keycloak!Returns
<1>1. CASE Keycloak!Arguments
  BY <1>1 DEF Keycloak!Arguments
<1>2. CASE Keycloak!ApiToken
  <2>1. CASE place' = "call" /\ UNCHANGED <<outcome, done>>
    BY <1>2, <2>1 DEF Keycloak!ApiToken
  <2>2. CASE Keycloak!Returns("error")
    BY <1>2, <2>2 DEF Keycloak!ApiToken
  <2> QED
    BY <1>2, <2>1, <2>2 DEF Keycloak!ApiToken
<1>3. ASSUME NEW answer \in Keycloak!Answers, Keycloak!DoRequest(answer) PROVE RealmInv'
  <2>1. PICK took \in BOOLEAN :
           /\ took => Keycloak!Possible
           /\ answer \in {"2xx", "garbled"} => took
           /\ served' = took
           /\ realms' = IF took THEN Keycloak!Effect ELSE realms
    BY <1>3 DEF Keycloak!DoRequest
  <2>2. /\ place' = "returned" /\ outcome' = Keycloak!Result(answer) /\ done' = TRUE
        /\ Leaf' = Leaf /\ realm' = realm
    BY <1>3 DEF Keycloak!DoRequest
  <2>3. Keycloak!Result(answer) \in {"value", "zero", "error"}
    BY DEF Keycloak!Result
  <2>6. answer \in {"other", "lost"} => Keycloak!Result(answer) = "error"
    BY DEF Keycloak!Result
  <2>4. Keycloak!Result(answer) # "error" => answer \in {"2xx", "garbled"}
    BY <2>6 DEF Keycloak!Answers
  <2>5. realms' \subseteq Realms
    BY <2>1 DEF Keycloak!Effect, Keycloak!Possible
  <2> QED
    BY <2>1, <2>2, <2>3, <2>4, <2>5
<1> QED
  BY <1>1, <1>2, <1>3 DEF Keycloak!Next

SingleInv == Single!TypeOK /\ (done /\ outcome # "error" => served)

LEMMA SingleStart == ASSUME Leaf \in SingleLeaves, Single!Init PROVE SingleInv
BY DEF Single!Init, SingleInv, Single!TypeOK, SingleLeaves

LEMMA SingleKept == ASSUME SingleInv, ~done, Single!Next PROVE SingleInv'
<1>1. Leaf' = Leaf
  BY DEF Single!Next, Single!Arguments, Single!Token, Single!WriteOut, Single!Call
<1> USE DEF SingleInv, Single!TypeOK, Single!Returns, Single!GoesTo
<1>2. ASSUME NEW yes \in BOOLEAN, Single!Arguments(yes) PROVE SingleInv'
  <2>0. served' = (Leaf \in Single!OfInfo)
    BY <1>2 DEF Single!Arguments
  <2>3. (Leaf \in Single!OfInfo) = TRUE \/ (Leaf \in Single!OfInfo) = FALSE
    OBVIOUS
  <2>4. served' = TRUE \/ (served' = FALSE /\ ~(Leaf \in Single!OfInfo))
    BY <2>0, <2>3
  <2>2. served' \in BOOLEAN /\ (Leaf \in Single!OfInfo => served')
    BY <2>4
  <2>1. \/ place' \in {"call", "token"} /\ UNCHANGED <<outcome, done>>
        \/ Single!Returns("error")
        \/ Single!Returns("value") /\ Leaf \in Single!OfInfo
    BY <1>2 DEF Single!Arguments
  <2>5. CASE place' \in {"call", "token"} /\ UNCHANGED <<outcome, done>>
    BY <1>1, <2>2, <2>5
  <2>6. CASE Single!Returns("error")
    BY <1>1, <2>2, <2>6
  <2>7. CASE Single!Returns("value") /\ Leaf \in Single!OfInfo
    BY <1>1, <2>2, <2>7
  <2> QED
    BY <2>1, <2>5, <2>6, <2>7
<1>3. ASSUME NEW yes \in BOOLEAN, Single!Token(yes) PROVE SingleInv'
  BY <1>1, <1>3 DEF Single!Token
<1>4. ASSUME NEW yes \in BOOLEAN, Single!WriteOut(yes) PROVE SingleInv'
  BY <1>1, <1>4 DEF Single!WriteOut
<1>5. ASSUME NEW answer \in Single!Answers, Single!Call(answer) PROVE SingleInv'
  <2>1. Single!Useful(answer) \in BOOLEAN
    BY DEF Single!Useful
  <2>2. Single!Result(answer) \in {"value", "zero", "error"}
    BY DEF Single!Result, Single!Copied, Single!Decoded
  <2>3. Single!Result(answer) # "error" => Single!Useful(answer)
    BY DEF Single!Result, Single!Copied, Single!Decoded, Single!Useful
  <2> QED
    BY <1>1, <1>5, <2>1, <2>2, <2>3 DEF Single!Call
<1> QED
  BY <1>2, <1>3, <1>4, <1>5 DEF Single!Next

-----------------------------------------------------------------------------
(* kp-new. *)

\* A worker has the place of a name; what it sends names that place and the outcome.
KeyAnswers(s, x) == IF x \in KeyPairs!Source THEN KeyPairs!Results(s, x) ELSE {}
KeySkips(s, x) == FALSE

KeysP == INSTANCE StagedPipeline_proofs WITH
             NStages <- KeyPairs!NStages, Cap <- KeyPairs!Cap, Item <- KeyPairs!Item,
             Source <- KeyPairs!Source, Answers <- KeyAnswers, Skips <- KeySkips

LEMMA KeyStages == KeysP!Stages = 1..1 /\ KeyPairs!NStages = 1 /\ KeyPairs!P!Stages = 1..1
BY DEF KeysP!Stages, KeyPairs!NStages, KeyPairs!P!Stages

LEMMA KeyItems ==
    /\ Len(Names) \in Nat /\ DOMAIN Names = 1..Len(Names)
    /\ \A p \in DOMAIN Names : Names[p] \in KeyPairs!AllNames
    /\ \A x \in KeyPairs!Source : x = <<x[1]>> /\ x[1] \in DOMAIN Names
    /\ \A p \in DOMAIN Names : <<p>> \in KeyPairs!Source
    /\ \A p \in DOMAIN Names : \A o \in KeyPairs!Outcomes : <<p, o>> \in KeyPairs!Item
    /\ KeyPairs!Source \subseteq KeyPairs!Item
BY ServersAssumption DEF KeyPairs!AllNames, KeyPairs!Positions, KeyPairs!Source, KeyPairs!Item

LEMMA KeyAnswered ==
    ASSUME NEW s, NEW x, NEW out \in KeyAnswers(s, x)
    PROVE  /\ x \in KeyPairs!Source
           /\ \E o \in KeyPairs!Outcomes : out = <<<<x[1], o>>>>
BY DEF KeyAnswers, KeyPairs!Results

LEMMA KeyHolds ==
    /\ KeyPairs!NStages \in Nat \ {0}
    /\ KeyPairs!Cap \in Nat
    /\ KeyPairs!Source \subseteq KeyPairs!Item
    /\ \A s \in KeysP!Stages, i \in KeyPairs!Item : KeyAnswers(s, i) \subseteq Seq(KeyPairs!Item)
<1>1. ASSUME NEW s, NEW x, NEW out \in KeyAnswers(s, x) PROVE out \in Seq(KeyPairs!Item)
  <2>1. x[1] \in DOMAIN Names
    BY KeyAnswered, KeyItems
  <2>2. PICK o \in KeyPairs!Outcomes : out = <<<<x[1], o>>>>
    BY KeyAnswered
  <2>3. PICK i : i = <<x[1], o>>
    OBVIOUS
  <2>4. i \in KeyPairs!Item
    BY <2>1, <2>3, KeyItems
  <2>5. <<i>> \in Seq(KeyPairs!Item)
    BY <2>4
  <2> QED
    BY <2>2, <2>3, <2>5
<1> QED
  BY <1>1, KeyItems DEF KeyPairs!NStages, KeyPairs!Cap

LEMMA KeyDistinct == KeysP!Distinct
<1> SUFFICES ASSUME NEW s, NEW i, NEW j, NEW out \in KeyAnswers(s, i), NEW other \in KeyAnswers(s, j),
                    NEW k \in DOMAIN out, NEW l \in DOMAIN other, out[k] = other[l]
             PROVE  i = j /\ (out = other => k = l)
  BY DEF KeysP!Distinct
<1>1. PICK a, o : i = <<a>> /\ out = <<<<a, o>>>>
  BY KeyAnswered, KeyItems
<1>2. PICK b, u : j = <<b>> /\ other = <<<<b, u>>>>
  BY KeyAnswered, KeyItems
<1>3. k = 1 /\ l = 1
  BY <1>1, <1>2
<1>4. <<a, o>> = <<b, u>>
  BY <1>1, <1>2, <1>3
<1> QED
  BY <1>1, <1>2, <1>3, <1>4

LEMMA KeyPlumbing == KeyPairs!P!Plumbing \/ UNCHANGED KeyPairs!P!vars => KeysP!Plumbing \/ UNCHANGED KeysP!vars
BY DEF KeyPairs!P!vars, KeysP!vars, KeyPairs!P!Plumbing, KeysP!Plumbing, KeyPairs!P!Take, KeysP!Take,
   KeyPairs!P!Close, KeysP!Close, KeyPairs!P!Send, KeysP!Send, KeyPairs!P!HandOver, KeysP!HandOver,
   KeyPairs!P!Collect, KeysP!Collect, KeyPairs!P!Return, KeysP!Return, KeyPairs!P!Returned, KeysP!Returned,
   KeyPairs!P!Started, KeysP!Started, KeyPairs!P!AfterSend, KeysP!AfterSend, KeyPairs!P!Stages, KeysP!Stages,
   KeyPairs!P!Idle, KeysP!Idle, KeyPairs!P!Drained, KeysP!Drained, KeyPairs!SkipsNone, KeySkips

\* The places of a name whose worker has an outcome, sent or reported.
Places(E, n, o) == {p \in DOMAIN Names : Names[p] = n /\ <<2, <<p, o>>>> \in E}
EitherWay(E, n) == Places(E, n, "ok") \cup Places(E, n, "error")

\* A place is asked for or has an outcome.
OneStep(E) ==
    /\ \A e \in E : \E p \in DOMAIN Names :
          e = <<1, <<p>>>> \/ \E o \in KeyPairs!Outcomes : e = <<2, <<p, o>>>>
    /\ \A p \in DOMAIN Names : <<1, <<p>>>> \in E =>
          \A o \in KeyPairs!Outcomes : <<2, <<p, o>>>> \notin E

\* There is a pair for each place that got one, and for no place two.
Counted(E, c) ==
    /\ c \in [KeyPairs!AllNames -> Nat]
    /\ \A n \in KeyPairs!AllNames :
          Cardinality(Places(E, n, "ok")) <= c[n] /\ c[n] <= Cardinality(EitherWay(E, n))

LEMMA PlacesFinite ==
    ASSUME NEW E, NEW n
    PROVE  /\ IsFiniteSet(Places(E, n, "ok")) /\ IsFiniteSet(EitherWay(E, n))
           /\ Cardinality(Places(E, n, "ok")) \in Nat /\ Cardinality(EitherWay(E, n)) \in Nat
           /\ Cardinality(EitherWay(E, n)) <= Len(Names)
<1>1. IsFiniteSet(1..Len(Names)) /\ Cardinality(1..Len(Names)) = Len(Names)
  <2>1. PICK m \in Nat : m = Len(Names)
    BY KeyItems
  <2>2. IsFiniteSet(1..m) /\ Cardinality(1..m) = IF 1 > m THEN 0 ELSE m - 1 + 1
    BY FS_Interval
  <2> QED
    BY <2>1, <2>2
<1>2. Places(E, n, "ok") \subseteq 1..Len(Names) /\ EitherWay(E, n) \subseteq 1..Len(Names)
  BY KeyItems DEF Places, EitherWay
<1> QED
  BY <1>1, <1>2, FS_Subset, FS_CardinalityType

After(E, p, o) == (E \ {<<1, <<p>>>>}) \cup {<<2, <<p, o>>>>}
Raised(c, p, took) == IF took THEN [c EXCEPT ![Names[p]] = @ + 1] ELSE c

\* The answer to one place.
LEMMA AnswerCounts ==
    ASSUME NEW E, OneStep(E), NEW c, Counted(E, c), NEW p \in DOMAIN Names, <<1, <<p>>>> \in E,
           NEW o \in KeyPairs!Outcomes, NEW took \in BOOLEAN, o = "ok" => took,
           NEW F, F = After(E, p, o), NEW d, d = Raised(c, p, took)
    PROVE  OneStep(F) /\ Counted(F, d)
<1> USE DEF After, Raised
<1>1. OneStep(F)
  <2>1. ASSUME NEW q \in DOMAIN Names, <<1, <<q>>>> \in F, NEW u \in KeyPairs!Outcomes PROVE <<2, <<q, u>>>> \notin F
    <3>1. <<1, <<q>>>> \in E /\ <<q>> # <<p>> /\ <<1, <<q>>>> # <<2, <<p, o>>>>
      BY <2>1
    <3>2. q # p
      BY <3>1
    <3>3. <<2, <<q, u>>>> # <<2, <<p, o>>>>
      BY <3>2
    <3> QED
      BY <2>1, <3>1, <3>3 DEF OneStep
  <2>2. ASSUME NEW e \in F
        PROVE  \E q \in DOMAIN Names : e = <<1, <<q>>>> \/ \E u \in KeyPairs!Outcomes : e = <<2, <<q, u>>>>
    BY <2>2 DEF OneStep
  <2> QED
    BY <2>1, <2>2 DEF OneStep
<1>2. ASSUME NEW n, NEW u
      PROVE  Places(F, n, u) = IF n = Names[p] /\ u = o THEN Places(E, n, u) \cup {p} ELSE Places(E, n, u)
  <2>1. \A q : <<2, <<q, u>>>> \in F <=> <<2, <<q, u>>>> \in E \/ (q = p /\ u = o)
    <3>1. \A q : <<2, <<q, u>>>> = <<2, <<p, o>>>> <=> q = p /\ u = o
      OBVIOUS
    <3>2. \A q : <<2, <<q, u>>>> # <<1, <<p>>>>
      OBVIOUS
    <3> QED
      BY <3>1, <3>2
  <2> QED
    BY <2>1 DEF Places
<1>3. Names[p] \in KeyPairs!AllNames
  BY KeyItems
<1>4. d \in [KeyPairs!AllNames -> Nat]
  BY <1>3 DEF Counted
<1>5. ASSUME NEW n \in KeyPairs!AllNames
      PROVE  Cardinality(Places(F, n, "ok")) <= d[n] /\ d[n] <= Cardinality(EitherWay(F, n))
  <2>1. /\ Cardinality(Places(E, n, "ok")) <= c[n] /\ c[n] <= Cardinality(EitherWay(E, n)) /\ c[n] \in Nat
        /\ IsFiniteSet(Places(E, n, "ok")) /\ IsFiniteSet(EitherWay(E, n))
        /\ Cardinality(Places(E, n, "ok")) \in Nat /\ Cardinality(EitherWay(E, n)) \in Nat
    BY PlacesFinite DEF Counted
  <2>2. CASE n # Names[p]
    <3>1. Places(F, n, "ok") = Places(E, n, "ok") /\ EitherWay(F, n) = EitherWay(E, n)
      BY <1>2, <2>2 DEF EitherWay
    <3>2. d[n] = c[n]
      BY <1>3, <2>2 DEF Counted
    <3> QED
      BY <2>1, <3>1, <3>2
  <2>3. CASE n = Names[p]
    <3>1. EitherWay(F, n) = EitherWay(E, n) \cup {p}
      BY <1>2, <2>3 DEF EitherWay, KeyPairs!Outcomes
    <3>2. p \notin EitherWay(E, n) /\ p \notin Places(E, n, "ok")
      BY DEF EitherWay, Places, OneStep, KeyPairs!Outcomes
    <3>3. Cardinality(EitherWay(F, n)) = Cardinality(EitherWay(E, n)) + 1
      BY <2>1, <3>1, <3>2, FS_AddElement
    <3>4. d[n] = IF took THEN c[n] + 1 ELSE c[n]
      BY <1>3, <2>3 DEF Counted
    <3>5. CASE o = "ok"
      <4>1. Places(F, n, "ok") = Places(E, n, "ok") \cup {p}
        BY <1>2, <2>3, <3>5
      <4>2. Cardinality(Places(F, n, "ok")) = Cardinality(Places(E, n, "ok")) + 1
        BY <2>1, <3>2, <4>1, FS_AddElement
      <4> QED
        BY <2>1, <3>3, <3>4, <3>5, <4>2
    <3>6. CASE o # "ok"
      <4>1. Places(F, n, "ok") = Places(E, n, "ok")
        BY <1>2, <3>6
      <4> QED
        BY <2>1, <3>3, <3>4, <4>1
    <3> QED
      BY <3>5, <3>6
  <2> QED
    BY <2>2, <2>3
<1> QED
  BY <1>1, <1>4, <1>5 DEF Counted

KeysInv ==
    /\ KeysP!IInv
    /\ KeysP!WorkInv
    /\ IsInjective(report)
    /\ OneStep(KeysP!Everything)
    /\ Counted(KeysP!Everything, created)

LEMMA KeysStart == ASSUME KeyPairs!Init PROVE KeysInv
<1>1. KeysP!Init
  BY DEF KeyPairs!Init, KeyPairs!P!Init, KeysP!Init, KeyPairs!P!Stages, KeysP!Stages
<1>2. KeysP!IInv /\ KeysP!WorkInv
  BY <1>1, KeysP!InitIInv, KeysP!InitWorks, KeyHolds, KeyStages
<1>3. IsInjective(report)
  BY DEF KeyPairs!Init, KeyPairs!P!Init, IsInjective
<1>4. PICK E : E = KeysP!Everything
  OBVIOUS
<1>5. E = {<<1, i>> : i \in KeyPairs!Source}
  BY <1>1, <1>4, KeysP!InitEverything, KeyHolds, KeyStages
<1>6. \A e \in E : \E p \in DOMAIN Names : e = <<1, <<p>>>>
  BY <1>5, KeyItems
<1>7. \A p, o : <<2, <<p, o>>>> \notin E
  BY <1>6
<1>8. OneStep(E)
  BY <1>6, <1>7 DEF OneStep
<1>9. created = [n \in KeyPairs!AllNames |-> 0]
  BY DEF KeyPairs!Init
<1>10. \A n : Places(E, n, "ok") = {}
  BY <1>7 DEF Places
<1>11. Cardinality({}) = 0
  BY FS_EmptySet
<1>12. Counted(E, created)
  <2>1. \A n \in KeyPairs!AllNames : Cardinality(Places(E, n, "ok")) = 0 /\ Cardinality(EitherWay(E, n)) \in Nat
    BY <1>10, <1>11, PlacesFinite
  <2> QED
    BY <1>9, <2>1 DEF Counted
<1> QED
  BY <1>2, <1>3, <1>4, <1>8, <1>12 DEF KeysInv

\* A worker that waits for its answer has a place that has none.
LEMMA KeyCalled ==
    ASSUME KeysInv, NEW x \in calling[1]
    PROVE  <<1, x>> \in KeysP!Everything /\ x = <<x[1]>> /\ x[1] \in DOMAIN Names /\ x \in KeyPairs!Source
<1>1. <<1, x>> \in KeysP!Undone
  BY KeysP!CalledUndone, KeyHolds, KeyStages DEF KeysInv, KeysP!IInv
<1>2. <<1, x>> \in KeysP!Everything
  BY <1>1 DEF KeysP!Everything
<1>3. PICK p \in DOMAIN Names : x = <<p>>
  BY <1>2 DEF KeysInv, OneStep
<1> QED
  BY <1>2, <1>3, KeyItems

LEMMA KeysKept == KeysInv /\ [KeyPairs!Next]_(KeyPairs!vars) => KeysInv'
<1> SUFFICES ASSUME KeysInv, [KeyPairs!Next]_(KeyPairs!vars) PROVE KeysInv'
  OBVIOUS
<1>1. PICK E : E = KeysP!Everything
  OBVIOUS
<1>2. OneStep(E) /\ Counted(E, created)
  BY <1>1 DEF KeysInv
<1>3. ASSUME KeyPairs!P!Plumbing \/ UNCHANGED KeyPairs!P!vars, UNCHANGED created PROVE KeysInv'
  <2>1. KeysP!Plumbing \/ UNCHANGED KeysP!vars
    BY <1>3, KeyPlumbing
  <2>2. KeysP!Moves
    BY <2>1, KeysP!PlumbingMoves, KeyHolds, KeyStages DEF KeysInv
  <2>3. [KeysP!Next]_(KeysP!vars)
    BY <2>1 DEF KeysP!Next
  <2>4. KeysP!IInv' /\ KeysP!WorkInv'
    BY <2>3, KeysP!NextIInv, KeysP!NextApart, KeyHolds, KeyDistinct, KeyStages DEF KeysInv
  <2>5. \A f : IsInjective(f) <=> KeysP!IsInjective(f)
    BY DEF IsInjective, KeysP!IsInjective
  <2>6. KeysP!TypeOK
    BY DEF KeysInv, KeysP!IInv
  <2>7. KeysP!IsInjective(report')
    BY <2>2, <2>5, <2>6, KeysP!MovesReportOnce, KeyHolds, KeyStages DEF KeysInv
  <2>8. KeysP!Everything' = E
    BY <1>1, <2>2, <2>6, KeysP!MovesEverything, KeyHolds, KeyStages DEF KeySkips
  <2> QED
    BY <1>2, <1>3, <2>4, <2>5, <2>7, <2>8 DEF KeysInv
<1>4. ASSUME NEW x \in calling[1], NEW took \in BOOLEAN, NEW o \in KeyPairs!Outcomes,
             KeyPairs!GenerateKeyPair(x, took, o)
      PROVE  KeysInv'
  <2>1. <<1, x>> \in E /\ x = <<x[1]>> /\ x[1] \in DOMAIN Names /\ x \in KeyPairs!Source
    BY <1>1, KeyCalled
  <2>2. PICK p \in DOMAIN Names : x = <<p>> /\ x[1] = p
    BY <2>1
  <2>3. PICK out : out = <<<<p, o>>>>
    OBVIOUS
  <2>4. KeysP!Answer(1, x, out) /\ out \in KeyAnswers(1, x) /\ UNCHANGED report
    BY <1>4, <2>1, <2>2, <2>3 DEF KeyPairs!GenerateKeyPair, KeyPairs!P!Answer, KeysP!Answer, KeyAnswers, KeyPairs!Results
  <2>5. 1 \in KeysP!Stages
    BY KeyStages
  <2>6. KeysP!Next
    BY <2>4, <2>5 DEF KeysP!Next
  <2>7. KeysP!IInv' /\ KeysP!WorkInv'
    BY <2>6, KeysP!NextIInv, KeysP!NextApart, KeyHolds, KeyDistinct, KeyStages DEF KeysInv
  <2>8. KeysP!Everything' = (E \ {<<1, x>>}) \cup KeysP!Work!Passed(1, out)
    BY <1>1, <2>4, <2>5, KeysP!AnswerEverything, KeyHolds, KeyStages DEF KeysInv
  <2>9. KeysP!Work!Passed(1, out) = {<<2, <<p, o>>>>}
    <3>1. DOMAIN out = {1} /\ out[1] = <<p, o>>
      BY <2>3
    <3> QED
      BY <3>1 DEF KeysP!Work!Passed
  <2>10. o = "ok" => took
    BY <1>4 DEF KeyPairs!GenerateKeyPair
  <2>11. created' = IF took THEN [created EXCEPT ![Names[p]] = @ + 1] ELSE created
    BY <1>4, <2>2 DEF KeyPairs!GenerateKeyPair
  <2>12. <<1, <<p>>>> \in E
    BY <2>1, <2>2
  <2>13. PICK F : F = After(E, p, o)
    OBVIOUS
  <2>14. PICK c, d : c = created /\ d = created'
    OBVIOUS
  <2>17. Counted(E, c) /\ d = Raised(c, p, took)
    BY <1>2, <2>11, <2>14 DEF Raised
  <2>15. OneStep(F) /\ Counted(F, d)
    BY <1>2, <2>10, <2>12, <2>13, <2>17, AnswerCounts
  <2>16. KeysP!Everything' = F
    BY <2>2, <2>8, <2>9, <2>13 DEF After
  <2> QED
    BY <2>4, <2>7, <2>14, <2>15, <2>16 DEF KeysInv
<1>5. CASE UNCHANGED KeyPairs!vars
  BY <1>3, <1>5 DEF KeyPairs!vars
<1> QED
  BY <1>3, <1>4, <1>5 DEF KeyPairs!Next

\* As many of one thing as of another.
LEMMA SameCount ==
    ASSUME NEW S, IsFiniteSet(S), NEW f, DOMAIN f = S, IsInjective(f), NEW T, T = {f[x] : x \in S}
    PROVE  Cardinality(T) = Cardinality(S)
<1> DEFINE g == [x \in S |-> f[x]]
<1>1. g \in Surjection(S, T) /\ g \in Injection(S, T)
  BY DEF Surjection, Injection, IsInjective
<1> QED
  BY <1>1, FS_Surjection

LEMMA KeysResults == ASSUME KeysInv PROVE KeyPairs!TypeOK /\ KeyPairs!PairsMatchReport
<1>1. KeyPairs!P!TypeOK
  BY DEF KeysInv, KeysP!IInv, KeysP!TypeOK, KeyPairs!P!TypeOK, KeyPairs!P!Stages, KeysP!Stages
<1>2. PICK E : E = KeysP!Everything
  OBVIOUS
<1>3. OneStep(E) /\ Counted(E, created)
  BY <1>2 DEF KeysInv
<1>4. created \in [KeyPairs!AllNames -> 0..Len(Names)]
  <2>1. \A n \in KeyPairs!AllNames : created[n] \in 0..Len(Names)
    BY <1>3, PlacesFinite, KeyItems DEF Counted
  <2> QED
    BY <1>3, <2>1 DEF Counted
<1>5. ASSUME done, NEW n \in KeyPairs!AllNames
      PROVE  created[n] >= KeyPairs!Got(n, "ok") /\ created[n] <= KeyPairs!Got(n, "ok") + KeyPairs!Got(n, "error")
  <2>1. E = {<<2, i>> : i \in KeysP!Reported}
    BY <1>2, <1>5, KeysP!DoneEverything, KeyHolds, KeyStages DEF KeysInv
  <2> DEFINE ending(o) == {k \in DOMAIN report : Names[report[k][1]] = n /\ report[k][2] = o}
  <2>2. \A k \in DOMAIN report : \E p \in DOMAIN Names : \E o \in KeyPairs!Outcomes : report[k] = <<p, o>>
    <3> SUFFICES ASSUME NEW k \in DOMAIN report
                 PROVE  \E p \in DOMAIN Names : \E o \in KeyPairs!Outcomes : report[k] = <<p, o>>
      OBVIOUS
    <3>1. <<2, report[k]>> \in E
      BY <2>1 DEF KeysP!Reported
    <3> QED
      BY <1>3, <3>1 DEF OneStep
  <2>3. ASSUME NEW o
        PROVE  /\ Cardinality(Places(E, n, o)) = Cardinality(ending(o))
               /\ IsFiniteSet(ending(o)) /\ IsFiniteSet(Places(E, n, o))
    <3> DEFINE f == [k \in ending(o) |-> report[k][1]]
    <3>1. report \in Seq(KeyPairs!Item)
      BY <1>1 DEF KeyPairs!P!TypeOK
    <3>2. IsFiniteSet(ending(o))
      <4>1. DOMAIN report = 1..Len(report) /\ Len(report) \in Nat
        BY <3>1
      <4>2. IsFiniteSet(1..Len(report))
        BY <4>1, FS_Interval
      <4> QED
        BY <4>1, <4>2, FS_Subset
    <3>3. \A k \in ending(o) : report[k] = <<report[k][1], o>> /\ report[k][1] \in DOMAIN Names
      BY <2>2
    <3>4. IsInjective(f)
      BY <3>3 DEF KeysInv, IsInjective
    <3>5. Places(E, n, o) = {f[k] : k \in ending(o)}
      <4>1. ASSUME NEW p \in Places(E, n, o) PROVE p \in {f[k] : k \in ending(o)}
        <5>1. <<2, <<p, o>>>> \in E /\ Names[p] = n
          BY <4>1 DEF Places
        <5>2. PICK i \in KeysP!Reported : <<2, <<p, o>>>> = <<2, i>>
          BY <2>1, <5>1
        <5>3. PICK k \in DOMAIN report : report[k] = i
          BY DEF KeysP!Reported
        <5>4. i = <<p, o>>
          BY <5>2
        <5>5. report[k][1] = p /\ report[k][2] = o
          BY <5>3, <5>4
        <5> QED
          BY <5>1, <5>5
      <4>2. ASSUME NEW k \in ending(o) PROVE f[k] \in Places(E, n, o)
        <5>1. <<2, report[k]>> \in E
          BY <2>1, <4>2 DEF KeysP!Reported
        <5>2. report[k] = <<f[k], o>> /\ f[k] \in DOMAIN Names /\ Names[f[k]] = n
          BY <3>3, <4>2
        <5> QED
          BY <5>1, <5>2 DEF Places
      <4> QED
        BY <4>1, <4>2
    <3>6. DOMAIN f = ending(o)
      OBVIOUS
    <3> HIDE DEF f, ending
    <3>7. Cardinality(Places(E, n, o)) = Cardinality(ending(o))
      BY <3>2, <3>4, <3>5, <3>6, SameCount
    <3>8. IsFiniteSet(Places(E, n, o))
      BY <3>2, <3>5, <3>6, ImageFinite
    <3> QED
      BY <3>2, <3>7, <3>8
  <2>4. \A S : Cardinality(S) = KeyPairs!Cardinality(S)
    BY DEF Cardinality, KeyPairs!Cardinality
  <2>5. \A o : KeyPairs!Got(n, o) = Cardinality(Places(E, n, o))
    BY <2>3, <2>4 DEF KeyPairs!Got
  <2>6. Cardinality(EitherWay(E, n)) <= Cardinality(Places(E, n, "ok")) + Cardinality(Places(E, n, "error"))
    <3>1. PICK S, T : S = Places(E, n, "ok") /\ T = Places(E, n, "error")
      OBVIOUS
    <3>2. IsFiniteSet(S) /\ IsFiniteSet(T) /\ IsFiniteSet(S \cap T)
      BY <2>3, <3>1, FS_Subset
    <3>3. Cardinality(S \cup T) = Cardinality(S) + Cardinality(T) - Cardinality(S \cap T)
      BY <3>2, FS_Union
    <3>4. Cardinality(S) \in Nat /\ Cardinality(T) \in Nat /\ Cardinality(S \cap T) \in Nat
      BY <3>2, FS_CardinalityType
    <3> QED
      BY <3>1, <3>3, <3>4 DEF EitherWay
  <2>7. created[n] \in Nat /\ Cardinality(Places(E, n, "ok")) <= created[n] /\ created[n] <= Cardinality(EitherWay(E, n))
    BY <1>3 DEF Counted
  <2>8. \A o : Cardinality(Places(E, n, o)) \in Nat
    BY <2>3, FS_CardinalityType
  <2>9. Cardinality(EitherWay(E, n)) \in Nat
    BY PlacesFinite
  <2> HIDE DEF ending
  <2> QED
    BY <2>5, <2>6, <2>7, <2>8, <2>9
<1> QED
  BY <1>1, <1>4, <1>5 DEF KeyPairs!TypeOK, KeyPairs!PairsMatchReport

-----------------------------------------------------------------------------
(* merge:check: its rows. *)

\* What a healthy or broken row may be when stage s passes it on.
RowStates(s) ==
    CASE s = 1 -> {"found"}
      [] s = 2 -> {"details", "detailsError"}
      [] s = 3 -> {"pipeline", "detailsError"}
      [] OTHER -> {"jobs", "jobsError", "detailsError"}

IsRow(s, x, a) ==
    \/ x = <<a, NoMr, "searchError">>
    \/ \E m \in Check!Elements(Opened[a]) : \E state \in RowStates(s) : x = <<a, m, state>>

\* What stage s passes on; what the first stage is started with for s = 0.
Arrives(s, x) ==
    \/ s = 0 /\ \E a \in Args : x = <<a>>
    \/ s \in 1..4 /\ \E a \in Args : IsRow(s, x, a)

CheckAnswers(s, x) == {out \in Check!RowAnswers(s, x) : Arrives(s - 1, x)}
CheckSkips(s, x) == FALSE

CheckP == INSTANCE StagedPipeline_proofs WITH
              NStages <- Check!NStages, Cap <- RowCap, Item <- Check!Item,
              Source <- Check!ArgItems, Answers <- CheckAnswers, Skips <- CheckSkips

LEMMA CheckStages == CheckP!Stages = 1..4 /\ Check!NStages = 4 /\ Check!P!Stages = 1..4
BY DEF CheckP!Stages, Check!NStages, Check!P!Stages

\* What a row was before stage s made of it what it is.
Was(s, state) ==
    IF s = 2 /\ state \in {"details", "detailsError"} THEN "found"
    ELSE IF s = 3 /\ state = "pipeline" THEN "details"
    ELSE IF s = 4 /\ state \in {"jobs", "jobsError"} THEN "pipeline"
    ELSE state

\* A later stage answers for a row with a row of the same merge request.
Step(s, x, out) ==
    \E a \in Args : \E m, state :
        /\ x = <<a, m, Was(s, state)>>
        /\ out = <<<<a, m, state>>>>
        /\ IsRow(s, <<a, m, state>>, a)
        /\ m = NoMr \/ m \in Check!Elements(Opened[a])

LEMMA RowSteps ==
    ASSUME NEW s \in 2..4, NEW x, NEW out \in CheckAnswers(s, x) PROVE Step(s, x, out)
<1>1. PICK a \in Args : IsRow(s - 1, x, a)
  BY DEF CheckAnswers, Arrives
<1>2. out \in Check!RowAnswers(s, x)
  BY DEF CheckAnswers
<1> USE DEF Check!Search, Check!Details, Check!Pipeline, Check!FindJobs, Check!UnlessBroken, Check!RowState,
        Check!Broken, Check!Becomes
<1>3. CASE x = <<a, NoMr, "searchError">>
  <2>1. x[3] \in Check!Broken
    BY <1>3
  <2>2. out = <<x>>
    <3>1. s = 2 \/ s = 3 \/ s = 4
      OBVIOUS
    <3>2. out \in {<<x>>}
      BY <1>2, <2>1, <3>1 DEF Check!RowAnswers, Check!DetailsAnswers, Check!PipelineAnswers, Check!JobsAnswers
    <3> QED
      BY <3>2
  <2>3. Was(s, "searchError") = "searchError"
    BY DEF Was
  <2> QED
    BY <1>3, <2>2, <2>3 DEF Step, IsRow
<1>4. ASSUME NEW m \in Check!Elements(Opened[a]), NEW state \in RowStates(s - 1), x = <<a, m, state>>
      PROVE  Step(s, x, out)
  <2>1. x[1] = a /\ x[2] = m /\ x[3] = state
    BY <1>4
  <2>2. ASSUME NEW new \in RowStates(s), Was(s, new) = state, out = <<<<a, m, new>>>> PROVE Step(s, x, out)
    BY <1>4, <2>2 DEF Step, IsRow
  <2>3. CASE s = 2
    <3>1. state = "found"
      BY <2>3 DEF RowStates
    <3>2. out = <<<<a, m, "details">>>> \/ out = <<<<a, m, "detailsError">>>>
      BY <1>2, <2>1, <2>3, <3>1 DEF Check!RowAnswers, Check!DetailsAnswers
    <3>3. {"details", "detailsError"} \subseteq RowStates(s) /\ Was(s, "details") = state /\ Was(s, "detailsError") = state
      BY <2>3, <3>1 DEF RowStates, Was
    <3> QED
      BY <2>2, <3>2, <3>3
  <2>4. CASE s = 3
    <3>1. state = "details" \/ state = "detailsError"
      BY <2>4 DEF RowStates
    <3>2. out = IF state = "detailsError" THEN <<<<a, m, "detailsError">>>> ELSE <<<<a, m, "pipeline">>>>
      BY <1>2, <1>4, <2>1, <2>4, <3>1 DEF Check!RowAnswers, Check!PipelineAnswers
    <3>3. /\ {"pipeline", "detailsError"} \subseteq RowStates(s)
          /\ Was(s, "pipeline") = "details" /\ Was(s, "detailsError") = "detailsError"
      BY <2>4 DEF RowStates, Was
    <3> QED
      BY <2>2, <3>1, <3>2, <3>3
  <2>5. CASE s = 4
    <3>1. state = "pipeline" \/ state = "detailsError"
      BY <2>5 DEF RowStates
    <3>2. IF state = "detailsError" THEN out = <<<<a, m, "detailsError">>>>
          ELSE out = <<<<a, m, "jobs">>>> \/ out = <<<<a, m, "jobsError">>>>
      BY <1>2, <1>4, <2>1, <2>5, <3>1 DEF Check!RowAnswers, Check!JobsAnswers
    <3>3. /\ {"jobs", "jobsError", "detailsError"} \subseteq RowStates(s)
          /\ Was(s, "jobs") = "pipeline" /\ Was(s, "jobsError") = "pipeline" /\ Was(s, "detailsError") = "detailsError"
      BY <2>5 DEF RowStates, Was
    <3> QED
      BY <2>2, <3>1, <3>2, <3>3
  <2> QED
    BY <2>3, <2>4, <2>5
<1> QED
  BY <1>1, <1>3, <1>4 DEF IsRow

\* The first stage makes one row of the error of a search or one for each merge request.
LEMMA FirstRows ==
    ASSUME NEW x, NEW out \in CheckAnswers(1, x)
    PROVE  \E a \in Args : x = <<a>> /\ (out = <<<<a, NoMr, "searchError">>>> \/ out = Check!FoundRows(a))
<1>1. PICK a \in Args : x = <<a>>
  BY DEF CheckAnswers, Arrives
<1>2. x[1] = a
  BY <1>1
<1>3. out \in Check!SearchAnswers(x)
  BY <1>1 DEF CheckAnswers, Check!RowAnswers, Check!Search, Check!Details, Check!Pipeline, Check!FindJobs
<1> QED
  BY <1>1, <1>2, <1>3 DEF Check!SearchAnswers, Check!ErrorRow

LEMMA OpenedLists ==
    ASSUME NEW a \in Args
    PROVE  /\ IsInjective(Opened[a])
           /\ DOMAIN Check!FoundRows(a) = DOMAIN Opened[a]
           /\ Len(Opened[a]) \in Nat /\ DOMAIN Opened[a] = 1..Len(Opened[a])
           /\ \A k \in DOMAIN Opened[a] :
                 Check!FoundRows(a)[k] = <<a, Opened[a][k], "found">> /\ Opened[a][k] \in Check!Elements(Opened[a])
           /\ \A m \in Check!Elements(Opened[a]) : m # NoMr /\ \E k \in DOMAIN Opened[a] : m = Opened[a][k]
<1>1. Opened[a] \in Seq(Merge!MRs) /\ IsInjective(Opened[a]) /\ NoMr \notin Merge!MRs
  BY ServersAssumption
<1> QED
  BY <1>1 DEF Check!FoundRows, Check!Elements

LEMMA RowItems ==
    /\ \A a \in Args : <<a>> \in Check!Item
    /\ \A s \in 1..4 : \A x : \A a \in Args : IsRow(s, x, a) => x \in Check!Item
<1>1. \A a \in Args : <<a>> \in Check!Item
  BY DEF Check!Item, Check!ArgItems
<1>2. ASSUME NEW s \in 1..4, NEW a \in Args, NEW x, IsRow(s, x, a) PROVE x \in Check!Item
  <2>1. CASE x = <<a, NoMr, "searchError">>
    BY <2>1 DEF Check!Item, Check!ErrorRow
  <2>2. ASSUME NEW m \in Check!Elements(Opened[a]), NEW state \in RowStates(s), x = <<a, m, state>> PROVE x \in Check!Item
    <3>1. state \in (Check!Healthy \cup Check!Broken) \ {"searchError"}
      BY DEF RowStates, Check!Healthy, Check!Broken
    <3>2. x \in Check!MrRows(a)
      BY <2>2, <3>1 DEF Check!MrRows
    <3> QED
      BY <3>2 DEF Check!Item
  <2> QED
    BY <1>2, <2>1, <2>2 DEF IsRow
<1> QED
  BY <1>1, <1>2

LEMMA FoundIsRow == ASSUME NEW a \in Args, NEW k \in DOMAIN Opened[a] PROVE IsRow(1, Check!FoundRows(a)[k], a)
BY OpenedLists DEF IsRow, RowStates

\* What an answer passes on arrives.
LEMMA AnswersArrive ==
    ASSUME NEW s \in 1..4, NEW x, NEW out \in CheckAnswers(s, x)
    PROVE  /\ out \in Seq(Check!Item)
           /\ \A k \in DOMAIN out : Arrives(s, out[k])
<1>1. CASE s = 1
  <2>1. PICK a \in Args : x = <<a>> /\ (out = <<<<a, NoMr, "searchError">>>> \/ out = Check!FoundRows(a))
    BY <1>1, FirstRows
  <2>2. CASE out = <<<<a, NoMr, "searchError">>>>
    <3>1. IsRow(1, <<a, NoMr, "searchError">>, a)
      BY DEF IsRow
    <3>2. PICK i : i = <<a, NoMr, "searchError">>
      OBVIOUS
    <3>3. i \in Check!Item /\ Arrives(1, i)
      BY <3>1, <3>2, RowItems DEF Arrives
    <3> QED
      BY <1>1, <2>2, <3>2, <3>3
  <2>3. CASE out = Check!FoundRows(a)
    <3>1. \A k \in DOMAIN Opened[a] : Check!FoundRows(a)[k] \in Check!Item /\ Arrives(1, Check!FoundRows(a)[k])
      BY FoundIsRow, RowItems DEF Arrives
    <3>2. out = [k \in 1..Len(Opened[a]) |-> out[k]] /\ Len(Opened[a]) \in Nat
      BY <2>3, OpenedLists DEF Check!FoundRows
    <3>3. \A k \in 1..Len(Opened[a]) : out[k] \in Check!Item /\ Arrives(1, out[k])
      BY <2>3, <3>1, OpenedLists
    <3>4. out \in Seq(Check!Item)
      BY <3>2, <3>3, IsASeq
    <3> QED
      BY <1>1, <3>2, <3>3, <3>4
  <2> QED
    BY <2>1, <2>2, <2>3
<1>2. CASE s # 1
  <2>1. s \in 2..4
    BY <1>2
  <2>2. PICK a \in Args : \E m, state : out = <<<<a, m, state>>>> /\ IsRow(s, <<a, m, state>>, a)
    BY <2>1, RowSteps DEF Step
  <2>3. PICK i : out = <<i>> /\ IsRow(s, i, a)
    BY <2>2
  <2>4. i \in Check!Item /\ Arrives(s, i)
    BY <2>3, RowItems DEF Arrives
  <2> QED
    BY <2>3, <2>4
<1> QED
  BY <1>1, <1>2

LEMMA CheckHolds ==
    /\ Check!NStages \in Nat \ {0}
    /\ RowCap \in Nat
    /\ Check!ArgItems \subseteq Check!Item
    /\ \A s \in CheckP!Stages, i \in Check!Item : CheckAnswers(s, i) \subseteq Seq(Check!Item)
BY AnswersArrive, ServersAssumption, CheckStages DEF Check!NStages, Check!Item

LEMMA CheckDistinct == CheckP!Distinct
<1> SUFFICES ASSUME NEW s \in 1..4, NEW i, NEW j, NEW out \in CheckAnswers(s, i), NEW other \in CheckAnswers(s, j),
                    NEW k \in DOMAIN out, NEW l \in DOMAIN other, out[k] = other[l]
             PROVE  i = j /\ (out = other => k = l)
  BY CheckStages DEF CheckP!Distinct
<1>1. CASE s = 1
  <2>1. PICK a \in Args : i = <<a>> /\ (out = <<<<a, NoMr, "searchError">>>> \/ out = Check!FoundRows(a))
    BY <1>1, FirstRows
  <2>2. PICK b \in Args : j = <<b>> /\ (other = <<<<b, NoMr, "searchError">>>> \/ other = Check!FoundRows(b))
    BY <1>1, FirstRows
  <2>3. out[k][1] = a
    BY <2>1, OpenedLists
  <2>4. other[l][1] = b
    BY <2>2, OpenedLists
  <2>5. i = j
    BY <2>1, <2>2, <2>3, <2>4
  <2>6. ASSUME out = other PROVE k = l
    <3>1. CASE out = <<<<a, NoMr, "searchError">>>>
      BY <2>6, <3>1
    <3>2. CASE out = Check!FoundRows(a)
      <4>1. out[k] = <<a, Opened[a][k], "found">> /\ out[l] = <<a, Opened[a][l], "found">> /\ {k, l} \subseteq DOMAIN Opened[a]
        BY <2>6, <3>2, OpenedLists
      <4>2. Opened[a][k] = Opened[a][l]
        <5>1. <<a, Opened[a][k], "found">> = <<a, Opened[a][l], "found">>
          BY <2>6, <4>1
        <5> QED
          BY <5>1
      <4> QED
        BY <4>1, <4>2, OpenedLists DEF IsInjective
    <3> QED
      BY <2>1, <3>1, <3>2
  <2> QED
    BY <2>5, <2>6
<1>2. CASE s # 1
  <2>0. s \in 2..4
    BY <1>2
  <2>s. Step(s, i, out) /\ Step(s, j, other)
    BY <2>0, RowSteps
  <2>1. PICK a, m, state : i = <<a, m, Was(s, state)>> /\ out = <<<<a, m, state>>>>
    BY ONLY <2>s DEF Step
  <2>2. PICK b, n, other2 : j = <<b, n, Was(s, other2)>> /\ other = <<<<b, n, other2>>>>
    BY ONLY <2>s DEF Step
  <2>3. k = 1 /\ l = 1
    BY <2>1, <2>2
  <2>4. <<a, m, state>> = <<b, n, other2>>
    BY <2>1, <2>2, <2>3
  <2> QED
    BY <2>1, <2>2, <2>3, <2>4
<1> QED
  BY <1>1, <1>2

LEMMA CheckPlumbing == Check!P!Plumbing \/ UNCHANGED Check!vars => CheckP!Plumbing \/ UNCHANGED CheckP!vars
BY DEF Check!vars, CheckP!vars, Check!P!Plumbing, CheckP!Plumbing, Check!P!Take, CheckP!Take, Check!P!vars,
   Check!P!Close, CheckP!Close, Check!P!Send, CheckP!Send, Check!P!HandOver, CheckP!HandOver,
   Check!P!Collect, CheckP!Collect, Check!P!Return, CheckP!Return, Check!P!Returned, CheckP!Returned,
   Check!P!Started, CheckP!Started, Check!P!AfterSend, CheckP!AfterSend, Check!P!Stages, CheckP!Stages,
   Check!P!Idle, CheckP!Idle, Check!P!Drained, CheckP!Drained, Check!RowSkips, CheckSkips

\* The rows of one merge request, or of the error of a search, and the stage each is at.
RowsAt(E, a, m) == {e \in E : e[1] > 1 /\ e[2][1] = a /\ e[2][2] = m}

Kinds(E) == \A e \in E : e[1] \in 1..5 /\ e = <<e[1], e[2]>> /\ Arrives(e[1] - 1, e[2])

\* A project is searched, its search failed, or each of its merge requests has its row.
Of(E, a) ==
    \/ /\ <<1, <<a>>>> \in E
       /\ \A m : RowsAt(E, a, m) = {}
    \/ /\ <<1, <<a>>>> \notin E
       /\ \E e : RowsAt(E, a, NoMr) = {e}
       /\ \A m \in Check!Elements(Opened[a]) : RowsAt(E, a, m) = {}
    \/ /\ <<1, <<a>>>> \notin E
       /\ RowsAt(E, a, NoMr) = {}
       /\ \A m \in Check!Elements(Opened[a]) : \E e : RowsAt(E, a, m) = {e}

Each(E) == Kinds(E) /\ \A a \in Args : Of(E, a)

\* A row moves on by a stage.
LEMMA RowMoves ==
    ASSUME NEW E, Each(E), NEW s \in 2..4, NEW x, <<s, x>> \in E, NEW out \in CheckAnswers(s, x),
           NEW F, F = (E \ {<<s, x>>}) \cup {<<s + 1, out[k]>> : k \in DOMAIN out}
    PROVE  Each(F)
<1>0. Step(s, x, out)
  BY RowSteps
<1>1. PICK a \in Args : \E m, state :
        /\ x = <<a, m, Was(s, state)>>
        /\ out = <<<<a, m, state>>>>
        /\ IsRow(s, <<a, m, state>>, a)
        /\ m = NoMr \/ m \in Check!Elements(Opened[a])
  BY <1>0 DEF Step
<1>2. PICK m, state :
        /\ x = <<a, m, Was(s, state)>>
        /\ out = <<<<a, m, state>>>>
        /\ IsRow(s, <<a, m, state>>, a)
        /\ m = NoMr \/ m \in Check!Elements(Opened[a])
  BY <1>1
<1>3. PICK y : y = <<a, m, state>>
  OBVIOUS
<1>4. PICK old, new : old = <<s, x>> /\ new = <<s + 1, y>>
  OBVIOUS
<1>5. F = (E \ {old}) \cup {new}
  <2>1. DOMAIN out = {1} /\ out[1] = y
    BY <1>2, <1>3
  <2>2. {<<s + 1, out[k]>> : k \in DOMAIN out} = {new}
    BY <1>4, <2>1
  <2> QED
    BY <1>4, <2>2
<1>6. /\ old[1] = s /\ old[2] = x /\ x[1] = a /\ x[2] = m
      /\ new[1] = s + 1 /\ new[2] = y /\ y[1] = a /\ y[2] = m
  BY <1>2, <1>3, <1>4
<1>7. Kinds(F)
  <2>1. Arrives(s, y)
    BY <1>2, <1>3 DEF Arrives
  <2>2. s + 1 \in 1..5 /\ s + 1 - 1 = s
    OBVIOUS
  <2>3. new[1] \in 1..5 /\ new = <<new[1], new[2]>> /\ Arrives(new[1] - 1, new[2])
    BY <1>4, <1>6, <2>1, <2>2
  <2> QED
    BY <1>5, <2>3 DEF Each, Kinds
<1>8. old \in RowsAt(E, a, m) /\ old # new
  BY <1>4, <1>6 DEF RowsAt
<1>9. ASSUME NEW b, NEW n
      PROVE  RowsAt(F, b, n) = IF b = a /\ n = m THEN (RowsAt(E, b, n) \ {old}) \cup {new} ELSE RowsAt(E, b, n)
  BY <1>5, <1>6 DEF RowsAt
<1>10. \A b : <<1, <<b>>>> \in F <=> <<1, <<b>>>> \in E
  <2>1. \A b : <<1, <<b>>>> # old /\ <<1, <<b>>>> # new
    BY <1>4
  <2> QED
    BY <1>5, <2>1
<1>11. ASSUME NEW b \in Args PROVE Of(F, b)
  <2>1. Of(E, b)
    BY DEF Each
  <2>2. CASE b # a
    <3>1. \A n : RowsAt(F, b, n) = RowsAt(E, b, n)
      BY <1>9, <2>2
    <3> QED
      BY <1>10, <2>1, <3>1 DEF Of
  <2>3. CASE b = a
    <3>1. ~(\A n : RowsAt(E, a, n) = {})
      BY <1>8
    <3>2. CASE m = NoMr
      <4>1. m \notin Check!Elements(Opened[a])
        BY <3>2, OpenedLists
      <4>2. \A n : n # m => RowsAt(F, a, n) = RowsAt(E, a, n)
        BY <1>9
      <4>3. /\ <<1, <<a>>>> \notin E
            /\ \E e : RowsAt(E, a, m) = {e}
            /\ \A n \in Check!Elements(Opened[a]) : RowsAt(E, a, n) = {}
        BY <1>8, <2>1, <2>3, <3>2 DEF Of
      <4>4. RowsAt(F, a, m) = {new}
        BY <1>8, <1>9, <4>3
      <4> QED
        BY <1>10, <2>3, <3>2, <4>1, <4>2, <4>3, <4>4 DEF Of
    <3>3. CASE m # NoMr
      <4>1. m \in Check!Elements(Opened[a])
        BY <1>2, <3>3
      <4>2. \A n : n # m => RowsAt(F, a, n) = RowsAt(E, a, n)
        BY <1>9
      <4>3. /\ <<1, <<a>>>> \notin E
            /\ RowsAt(E, a, NoMr) = {}
            /\ \A n \in Check!Elements(Opened[a]) : \E e : RowsAt(E, a, n) = {e}
        BY <1>8, <2>1, <2>3, <4>1 DEF Of
      <4>4. RowsAt(F, a, m) = {new}
        <5>1. PICK e : RowsAt(E, a, m) = {e}
          BY <4>1, <4>3
        <5> QED
          BY <1>8, <1>9, <5>1
      <4>5. \A n \in Check!Elements(Opened[a]) : \E e : RowsAt(F, a, n) = {e}
        BY <4>2, <4>3, <4>4
      <4> QED
        BY <1>10, <2>3, <3>3, <4>2, <4>3, <4>5 DEF Of
    <3> QED
      BY <3>2, <3>3
  <2> QED
    BY <2>2, <2>3
<1> QED
  BY <1>7, <1>11 DEF Each

\* The search of a project ends.
LEMMA ProjectSearched ==
    ASSUME NEW E, Each(E), NEW x, <<1, x>> \in E, NEW out \in CheckAnswers(1, x),
           NEW F, F = (E \ {<<1, x>>}) \cup {<<2, out[k]>> : k \in DOMAIN out}
    PROVE  Each(F)
<1>1. PICK a \in Args : x = <<a>> /\ (out = <<<<a, NoMr, "searchError">>>> \/ out = Check!FoundRows(a))
  BY FirstRows
<1>2. /\ <<1, <<a>>>> \in E
      /\ \A m : RowsAt(E, a, m) = {}
  BY <1>1 DEF Each, Of
<1>3. \A k \in DOMAIN out : Arrives(1, out[k])
  BY AnswersArrive
<1>4. Kinds(F)
  <2>1. ASSUME NEW k \in DOMAIN out, NEW e, e = <<2, out[k]>>
        PROVE  e[1] \in 1..5 /\ e = <<e[1], e[2]>> /\ Arrives(e[1] - 1, e[2])
    <3>1. e[1] = 2 /\ e[2] = out[k] /\ 2 - 1 = 1
      BY <2>1
    <3> QED
      BY <1>3, <2>1, <3>1
  <2> QED
    BY <2>1 DEF Each, Kinds
<1>5. \A k \in DOMAIN out : out[k][1] = a
  BY <1>1, OpenedLists
<1>6. ASSUME NEW b, NEW n
      PROVE  RowsAt(F, b, n) = RowsAt(E, b, n) \cup
                               (IF b = a THEN {<<2, out[k]>> : k \in {l \in DOMAIN out : out[l][2] = n}} ELSE {})
  <2>1. \A k \in DOMAIN out : \A e : e = <<2, out[k]>> => e[1] = 2 /\ e[2] = out[k]
    OBVIOUS
  <2>2. \A e : e = <<1, x>> => e[1] = 1
    OBVIOUS
  <2> QED
    BY <1>5, <2>1, <2>2 DEF RowsAt
<1>7. \A b : <<1, <<b>>>> \in F <=> <<1, <<b>>>> \in E /\ b # a
  <2>1. \A b : <<1, <<b>>>> = <<1, x>> <=> b = a
    BY <1>1
  <2>2. \A b, k : <<1, <<b>>>> # <<2, out[k]>>
    OBVIOUS
  <2> QED
    BY <2>1, <2>2
<1>8. ASSUME NEW b \in Args PROVE Of(F, b)
  <2>1. CASE b # a
    <3>1. ASSUME NEW n PROVE RowsAt(F, b, n) = RowsAt(E, b, n)
      <4>1. RowsAt(F, b, n) = RowsAt(E, b, n) \cup {}
        BY <1>6, <2>1
      <4> QED
        BY <4>1
    <3>2. Of(E, b)
      BY DEF Each
    <3> QED
      BY <1>7, <2>1, <3>1, <3>2 DEF Of
  <2>2. CASE b = a /\ out = <<<<a, NoMr, "searchError">>>>
    <3>1. DOMAIN out = {1} /\ out[1][2] = NoMr
      BY <2>2
    <3>2. \A n : RowsAt(F, a, n) = IF n = NoMr THEN {<<2, out[1]>>} ELSE {}
      BY <1>2, <1>6, <3>1
    <3>3. NoMr \notin Check!Elements(Opened[a])
      BY OpenedLists
    <3> QED
      BY <1>7, <2>2, <3>2, <3>3 DEF Of
  <2>3. CASE b = a /\ out = Check!FoundRows(a)
    <3>1. /\ IsInjective(Opened[a]) /\ DOMAIN out = DOMAIN Opened[a]
          /\ \A k \in DOMAIN out : out[k][2] = Opened[a][k] /\ Opened[a][k] # NoMr
          /\ \A m \in Check!Elements(Opened[a]) : m # NoMr /\ \E k \in DOMAIN out : out[k][2] = m
      <4>1. \A k \in DOMAIN out : out[k][2] = Opened[a][k]
        BY <2>3, OpenedLists
      <4>2. \A k \in DOMAIN Opened[a] : Opened[a][k] \in Check!Elements(Opened[a])
        BY OpenedLists
      <4>3. \A m \in Check!Elements(Opened[a]) : m # NoMr /\ \E k \in DOMAIN Opened[a] : m = Opened[a][k]
        BY OpenedLists
      <4>4. IsInjective(Opened[a]) /\ DOMAIN out = DOMAIN Opened[a]
        BY <2>3, OpenedLists
      <4> QED
        BY <4>1, <4>2, <4>3, <4>4
    <3>2. RowsAt(F, a, NoMr) = {}
      BY <1>2, <1>6, <3>1
    <3>3. ASSUME NEW m \in Check!Elements(Opened[a]) PROVE \E e : RowsAt(F, a, m) = {e}
      <4>1. PICK k \in DOMAIN out : out[k][2] = m
        BY <3>1
      <4>2. {l \in DOMAIN out : out[l][2] = m} = {k}
        BY <3>1, <4>1 DEF IsInjective
      <4>3. RowsAt(F, a, m) = {<<2, out[k]>>}
        BY <1>2, <1>6, <4>2
      <4> QED
        BY <4>3
    <3> QED
      BY <1>7, <2>3, <3>2, <3>3 DEF Of
  <2> QED
    BY <1>1, <2>1, <2>2, <2>3
<1> QED
  BY <1>4, <1>8 DEF Each

CheckInv ==
    /\ CheckP!IInv
    /\ CheckP!WorkInv
    /\ IsInjective(report)
    /\ Each(CheckP!Everything)

LEMMA CheckStart == ASSUME Check!Init PROVE CheckInv
<1>1. CheckP!Init
  BY DEF Check!Init, Check!P!Init, CheckP!Init, Check!P!Stages, CheckP!Stages
<1>2. CheckP!IInv /\ CheckP!WorkInv
  BY <1>1, CheckP!InitIInv, CheckP!InitWorks, CheckHolds, CheckStages
<1>3. IsInjective(report)
  BY DEF Check!Init, Check!P!Init, IsInjective
<1>4. PICK E : E = CheckP!Everything
  OBVIOUS
<1>5. E = {<<1, i>> : i \in Check!ArgItems}
  BY <1>1, <1>4, CheckP!InitEverything, CheckHolds, CheckStages
<1>6. Kinds(E)
  <2>1. ASSUME NEW a \in Args, NEW e, e = <<1, <<a>>>>
        PROVE  e[1] \in 1..5 /\ e = <<e[1], e[2]>> /\ Arrives(e[1] - 1, e[2])
    <3>1. e[1] = 1 /\ e[2] = <<a>> /\ e[1] - 1 = 0
      BY <2>1
    <3> QED
      BY <2>1, <3>1 DEF Arrives
  <2>2. \A e \in E : \E a \in Args : e = <<1, <<a>>>>
    BY <1>5 DEF Check!ArgItems
  <2> QED
    BY <2>1, <2>2 DEF Kinds
<1>7. ASSUME NEW a \in Args PROVE Of(E, a)
  <2>1. <<1, <<a>>>> \in E
    BY <1>5 DEF Check!ArgItems
  <2>2. \A m : RowsAt(E, a, m) = {}
    BY <1>5 DEF RowsAt
  <2> QED
    BY <2>1, <2>2 DEF Of
<1> QED
  BY <1>2, <1>3, <1>4, <1>6, <1>7 DEF CheckInv, Each

LEMMA CheckKept == CheckInv /\ [Check!Next]_(Check!vars) => CheckInv'
<1> SUFFICES ASSUME CheckInv, [Check!Next]_(Check!vars) PROVE CheckInv'
  OBVIOUS
<1>1. PICK E : E = CheckP!Everything
  OBVIOUS
<1>2. Each(E)
  BY <1>1 DEF CheckInv
<1>3. ASSUME Check!P!Plumbing \/ UNCHANGED Check!vars PROVE CheckInv'
  <2>1. CheckP!Plumbing \/ UNCHANGED CheckP!vars
    BY <1>3, CheckPlumbing
  <2>2. CheckP!Moves
    BY <2>1, CheckP!PlumbingMoves, CheckHolds, CheckStages DEF CheckInv
  <2>3. [CheckP!Next]_(CheckP!vars)
    BY <2>1 DEF CheckP!Next
  <2>4. CheckP!IInv' /\ CheckP!WorkInv'
    BY <2>3, CheckP!NextIInv, CheckP!NextApart, CheckHolds, CheckDistinct, CheckStages DEF CheckInv
  <2>5. \A f : IsInjective(f) <=> CheckP!IsInjective(f)
    BY DEF IsInjective, CheckP!IsInjective
  <2>6. CheckP!TypeOK
    BY DEF CheckInv, CheckP!IInv
  <2>7. CheckP!IsInjective(report')
    BY <2>2, <2>5, <2>6, CheckP!MovesReportOnce, CheckHolds, CheckStages DEF CheckInv
  <2>8. CheckP!Everything' = E
    BY <1>1, <2>2, <2>6, CheckP!MovesEverything, CheckHolds, CheckStages DEF CheckSkips
  <2> QED
    BY <1>2, <2>4, <2>5, <2>7, <2>8 DEF CheckInv
<1>4. ASSUME NEW s \in 1..4, NEW x \in calling[s], NEW out \in Check!RowAnswers(s, x), Check!P!Answer(s, x, out)
      PROVE  CheckInv'
  <2>1. s \in CheckP!Stages
    BY CheckStages
  <2>2. <<s, x>> \in E
    <3>1. <<s, x>> \in CheckP!Undone
      BY <2>1, CheckP!CalledUndone, CheckHolds, CheckStages DEF CheckInv, CheckP!IInv
    <3> QED
      BY <1>1, <3>1 DEF CheckP!Everything
  <2>3. out \in CheckAnswers(s, x)
    <3>1. PICK e \in E : e = <<s, x>>
      BY <2>2
    <3>2. e[1] = s /\ e[2] = x /\ Arrives(e[1] - 1, e[2])
      BY <1>2, <3>1 DEF Each, Kinds
    <3> QED
      BY <1>4, <3>2 DEF CheckAnswers
  <2>4. CheckP!Answer(s, x, out) /\ UNCHANGED report
    BY <1>4, <2>3 DEF Check!P!Answer, CheckP!Answer
  <2>5. CheckP!Next
    BY <2>1, <2>3, <2>4 DEF CheckP!Next
  <2>6. CheckP!IInv' /\ CheckP!WorkInv'
    BY <2>5, CheckP!NextIInv, CheckP!NextApart, CheckHolds, CheckDistinct, CheckStages DEF CheckInv
  <2>7. CheckP!Everything' = (E \ {<<s, x>>}) \cup CheckP!Work!Passed(s, out)
    BY <1>1, <2>1, <2>3, <2>4, CheckP!AnswerEverything, CheckHolds, CheckStages DEF CheckInv
  <2>8. PICK F : F = (E \ {<<s, x>>}) \cup {<<s + 1, out[k]>> : k \in DOMAIN out}
    OBVIOUS
  <2>9. CheckP!Everything' = F
    BY <2>7, <2>8 DEF CheckP!Work!Passed
  <2>10. Each(F)
    <3>1. CASE s = 1
      <4>1. F = (E \ {<<1, x>>}) \cup {<<2, out[k]>> : k \in DOMAIN out}
        BY <2>8, <3>1
      <4> QED
        BY <1>2, <2>2, <2>3, <3>1, <4>1, ProjectSearched
    <3>2. CASE s # 1
      <4>1. s \in 2..4
        BY <3>2
      <4> QED
        BY <1>2, <2>2, <2>3, <2>8, <4>1, RowMoves
    <3> QED
      BY <3>1, <3>2
  <2> QED
    BY <2>4, <2>6, <2>9, <2>10 DEF CheckInv
<1> QED
  BY <1>3, <1>4, CheckStages DEF Check!Next, Check!P!Next

LEMMA CheckType == ASSUME CheckInv PROVE Check!TypeOK /\ report \in Seq(Check!Item)
BY DEF CheckInv, CheckP!IInv, CheckP!TypeOK, Check!TypeOK, Check!P!TypeOK, Check!P!Stages, CheckP!Stages

\* What main gets has been through the four stages.
LEMMA ReportedRow ==
    ASSUME CheckInv, NEW k \in DOMAIN report
    PROVE  /\ <<5, report[k]>> \in CheckP!Everything
           /\ \E a \in Args : IsRow(4, report[k], a)
<1>2. <<5, report[k]>> \in CheckP!Everything
  BY CheckStages DEF CheckP!Everything, CheckP!Reported
<1>3. Arrives(4, report[k])
  <2>1. PICK e \in CheckP!Everything : e = <<5, report[k]>>
    BY <1>2
  <2>2. e[1] = 5 /\ e[2] = report[k] /\ 5 - 1 = 4 /\ Arrives(e[1] - 1, e[2])
    BY <2>1 DEF CheckInv, Each, Kinds
  <2> QED
    BY <2>2
<1> QED
  BY <1>2, <1>3 DEF Arrives

LEMMA CheckNoNil == ASSUME CheckInv PROVE Check!NoNilDereference
<1> SUFFICES ASSUME NEW k \in DOMAIN report
             PROVE  report[k][3] \in {"jobs", "jobsError", "detailsError", "searchError"}
  BY DEF Check!NoNilDereference, Check!Table, Check!Stderr, Check!RowState, Check!Broken, Check!HasPipeline
<1>1. PICK a \in Args : IsRow(4, report[k], a)
  BY ReportedRow
<1> QED
  BY <1>1 DEF IsRow, RowStates

\* The places of a merge request in the report, or of the error of a search.
PlacesOf(a, m) == {k \in DOMAIN report : report[k][1] = a /\ report[k][2] = m}

LEMMA PlacesOfRows ==
    ASSUME CheckInv, done, NEW a, NEW m
    PROVE  /\ RowsAt(CheckP!Everything, a, m) = {} => PlacesOf(a, m) = {}
           /\ (\E e : RowsAt(CheckP!Everything, a, m) = {e}) => \E k : PlacesOf(a, m) = {k}
<1>1. PICK E : E = CheckP!Everything
  OBVIOUS
<1>2. E = {<<5, i>> : i \in CheckP!Reported}
  <2>1. E = {<<Check!NStages + 1, i>> : i \in CheckP!Reported}
    BY <1>1, CheckP!DoneEverything, CheckHolds, CheckStages DEF CheckInv
  <2> QED
    BY <2>1, CheckStages
<1>3. \A k \in PlacesOf(a, m) : \A e : e = <<5, report[k]>> => e \in RowsAt(E, a, m)
  BY <1>2 DEF PlacesOf, RowsAt, CheckP!Reported
<1>4. \A e \in RowsAt(E, a, m) : \E k \in PlacesOf(a, m) : e = <<5, report[k]>>
  <2>1. ASSUME NEW e \in RowsAt(E, a, m) PROVE \E k \in PlacesOf(a, m) : e = <<5, report[k]>>
    <3>1. PICK i \in CheckP!Reported : e = <<5, i>>
      BY <1>2 DEF RowsAt
    <3>2. PICK k \in DOMAIN report : report[k] = i
      BY DEF CheckP!Reported
    <3> QED
      BY <3>1, <3>2 DEF RowsAt, PlacesOf
  <2> QED
    BY <2>1
<1>5. ASSUME NEW e, RowsAt(E, a, m) = {e} PROVE \E k : PlacesOf(a, m) = {k}
  <2>1. PICK k \in PlacesOf(a, m) : e = <<5, report[k]>>
    BY <1>4, <1>5
  <2>2. ASSUME NEW l \in PlacesOf(a, m) PROVE l = k
    <3>1. PICK f : f = <<5, report[l]>>
      OBVIOUS
    <3>2. f = e
      BY <1>3, <1>5, <3>1
    <3>3. report[l] = report[k]
      BY <2>1, <3>1, <3>2
    <3> QED
      BY <3>3 DEF CheckInv, IsInjective, PlacesOf
  <2> QED
    BY <2>1, <2>2
<1> QED
  BY <1>1, <1>3, <1>5

LEMMA CheckOutcomes == ASSUME CheckInv PROVE Check!OneOutcomeEach
<1> DEFINE rowsOf(S, a, m) == {k \in S : report[k][1] = a /\ report[k][2] = m}
<1>1. /\ \A S : Check!Cardinality(S) = Cardinality(S)
      /\ Cardinality({}) = 0 /\ \A k : Cardinality({k}) = 1
  BY FS_EmptySet, FS_Singleton DEF Cardinality, Check!Cardinality
<1>2. \A a, m : /\ rowsOf(Check!Table, a, m) = PlacesOf(a, m) \cap Check!Table
                /\ rowsOf(Check!Stderr, a, m) = PlacesOf(a, m) \ Check!Table
  BY DEF PlacesOf, Check!Table, Check!Stderr
<1>3. ASSUME NEW a \in Args PROVE PlacesOf(a, NoMr) \cap Check!Table = {}
  <2> SUFFICES ASSUME NEW k \in PlacesOf(a, NoMr) PROVE k \notin Check!Table
    OBVIOUS
  <2>1. PICK b \in Args : IsRow(4, report[k], b)
    BY ReportedRow DEF PlacesOf
  <2>2. report[k] = <<b, NoMr, "searchError">>
    <3>1. ASSUME NEW m \in Check!Elements(Opened[b]), NEW state, report[k] = <<b, m, state>> PROVE FALSE
      <4>1. report[k][2] = m
        BY <3>1
      <4>2. report[k][2] = NoMr
        BY DEF PlacesOf
      <4>3. m # NoMr
        BY OpenedLists
      <4> QED
        BY <4>1, <4>2, <4>3
    <3> QED
      BY <2>1, <3>1 DEF IsRow
  <2> QED
    BY <2>2 DEF Check!Table, Check!RowState, Check!HasPipeline, Check!Broken
<1>4. ASSUME done, NEW a \in Args
      PROVE  \/ /\ \E k : PlacesOf(a, NoMr) = {k}
                /\ \A m \in Check!Elements(Opened[a]) : PlacesOf(a, m) = {}
             \/ /\ PlacesOf(a, NoMr) = {}
                /\ \A m \in Check!Elements(Opened[a]) : \E k : PlacesOf(a, m) = {k}
  <2>1. PICK E : E = CheckP!Everything
    OBVIOUS
  <2>2. <<1, <<a>>>> \notin E
    <3>1. E = {<<Check!NStages + 1, i>> : i \in CheckP!Reported}
      BY <1>4, <2>1, CheckP!DoneEverything, CheckHolds, CheckStages DEF CheckInv
    <3>2. \A i : <<1, <<a>>>> # <<4 + 1, i>>
      OBVIOUS
    <3> QED
      BY <3>1, <3>2, CheckStages
  <2>3. Of(E, a)
    BY <2>1 DEF CheckInv, Each
  <2>4. \A m : /\ RowsAt(E, a, m) = {} => PlacesOf(a, m) = {}
               /\ (\E e : RowsAt(E, a, m) = {e}) => \E k : PlacesOf(a, m) = {k}
    BY <1>4, <2>1, PlacesOfRows
  <2> QED
    BY <2>2, <2>3, <2>4 DEF Of
<1>5. ASSUME NEW a, NEW m, NEW k, PlacesOf(a, m) = {k}
      PROVE  Cardinality(rowsOf(Check!Table, a, m)) + Cardinality(rowsOf(Check!Stderr, a, m)) = 1
  <2>1. CASE k \in Check!Table
    <3>1. rowsOf(Check!Table, a, m) = {k} /\ rowsOf(Check!Stderr, a, m) = {}
      BY <1>2, <1>5, <2>1
    <3> HIDE DEF rowsOf
    <3>2. Cardinality(rowsOf(Check!Table, a, m)) = 1 /\ Cardinality(rowsOf(Check!Stderr, a, m)) = 0
      BY <1>1, <3>1
    <3> QED
      BY <3>2
  <2>2. CASE k \notin Check!Table
    <3>1. rowsOf(Check!Table, a, m) = {} /\ rowsOf(Check!Stderr, a, m) = {k}
      BY <1>2, <1>5, <2>2
    <3> HIDE DEF rowsOf
    <3>2. Cardinality(rowsOf(Check!Table, a, m)) = 0 /\ Cardinality(rowsOf(Check!Stderr, a, m)) = 1
      BY <1>1, <3>1
    <3> QED
      BY <3>2
  <2> QED
    BY <2>1, <2>2
<1>6. ASSUME NEW a, NEW m, PlacesOf(a, m) = {}
      PROVE  Cardinality(rowsOf(Check!Table, a, m)) = 0 /\ Cardinality(rowsOf(Check!Stderr, a, m)) = 0
  <2>1. rowsOf(Check!Table, a, m) = {} /\ rowsOf(Check!Stderr, a, m) = {}
    BY <1>2, <1>6
  <2> HIDE DEF rowsOf
  <2> QED
    BY <1>1, <2>1
<1>7. ASSUME NEW a \in Args PROVE Cardinality(rowsOf(Check!Table, a, NoMr)) = 0
  <2>1. rowsOf(Check!Table, a, NoMr) = {}
    BY <1>2, <1>3
  <2> HIDE DEF rowsOf
  <2> QED
    BY <1>1, <2>1
<1> HIDE DEF rowsOf
<1>8. ASSUME done, NEW a \in Args
      PROVE  /\ Cardinality(rowsOf(Check!Stderr, a, NoMr)) \in {0, 1}
             /\ Cardinality(rowsOf(Check!Table, a, NoMr)) = 0
             /\ \A m \in Check!Elements(Opened[a]) :
                  Cardinality(rowsOf(Check!Table, a, m)) + Cardinality(rowsOf(Check!Stderr, a, m))
                  = 1 - Cardinality(rowsOf(Check!Stderr, a, NoMr))
  <2>1. CASE /\ \E k : PlacesOf(a, NoMr) = {k}
             /\ \A m \in Check!Elements(Opened[a]) : PlacesOf(a, m) = {}
    <3>1. PICK k : PlacesOf(a, NoMr) = {k}
      BY <2>1
    <3>2. PICK table, lines : table = Cardinality(rowsOf(Check!Table, a, NoMr))
                              /\ lines = Cardinality(rowsOf(Check!Stderr, a, NoMr))
      OBVIOUS
    <3>3. lines = 1
      <4>1. rowsOf(Check!Stderr, a, NoMr) = {k}
        BY <1>2, <1>3, <3>1
      <4> QED
        BY <1>1, <3>2, <4>1
    <3>4. table = 0
      BY <1>7, <3>2
    <3>5. \A m \in Check!Elements(Opened[a]) :
            Cardinality(rowsOf(Check!Table, a, m)) + Cardinality(rowsOf(Check!Stderr, a, m)) = 0
      <4> SUFFICES ASSUME NEW m \in Check!Elements(Opened[a])
                   PROVE  Cardinality(rowsOf(Check!Table, a, m)) + Cardinality(rowsOf(Check!Stderr, a, m)) = 0
        OBVIOUS
      <4>1. Cardinality(rowsOf(Check!Table, a, m)) = 0 /\ Cardinality(rowsOf(Check!Stderr, a, m)) = 0
        BY <1>6, <2>1
      <4> QED
        BY <4>1
    <3> QED
      BY <3>2, <3>3, <3>4, <3>5
  <2>2. CASE /\ PlacesOf(a, NoMr) = {}
             /\ \A m \in Check!Elements(Opened[a]) : \E k : PlacesOf(a, m) = {k}
    <3>1. Cardinality(rowsOf(Check!Table, a, NoMr)) = 0 /\ Cardinality(rowsOf(Check!Stderr, a, NoMr)) = 0
      BY <1>6, <2>2
    <3>2. \A m \in Check!Elements(Opened[a]) :
            Cardinality(rowsOf(Check!Table, a, m)) + Cardinality(rowsOf(Check!Stderr, a, m)) = 1
      BY <1>5, <2>2
    <3>3. PICK lines : lines = Cardinality(rowsOf(Check!Stderr, a, NoMr))
      OBVIOUS
    <3> QED
      BY <3>1, <3>2, <3>3
  <2> QED
    BY <1>4, <1>8, <2>1, <2>2
<1> QED
  BY <1>1, <1>8 DEF Check!OneOutcomeEach, rowsOf

-----------------------------------------------------------------------------
(* The process: main, the groups and the command that runs. *)

\* The names of groups, of commands and of the other places of main are different words.
LEMMA GroupNames ==
    /\ Groups = {"root", "gitlab", "fortify", "info", "api", "keycloak"}
    /\ Commands = {"merge:check", "autoheal:merge", "autoheal:maven-429", "registry:search", "pipelines:details",
                   "pipelines:search", "merge:search", "tags:search", "kp-new",
                   "false-positive", "pipelines:jobs", "merge:details", "jobs:logs", "tokenize", "echo",
                   "kp-active", "projects", "groups", "realms:list", "realms:details", "realms:export",
                   "clients:list", "realms:import", "realms:delete"}
<1>1. Groups = {"root", "gitlab", "fortify", "info", "api", "keycloak"}
  BY DEF Groups, Children
<1>2. Searches = {"pipelines:search", "merge:search", "tags:search"}
  BY DEF Searches
<1>3. RealmLeaves = {"realms:list", "realms:details", "realms:export", "clients:list", "realms:import", "realms:delete"}
  BY DEF RealmLeaves, Keycloak!Operations, Keycloak!Reading
<1>4. UNION {Children[g] : g \in Groups} =
        Children["root"] \cup Children["gitlab"] \cup Children["fortify"]
        \cup Children["info"] \cup Children["api"] \cup Children["keycloak"]
  BY <1>1
<1>5. /\ Children["root"] = {"gitlab", "fortify", "info", "api", "keycloak"}
      /\ Children["gitlab"] = {"merge:check", "autoheal:merge", "autoheal:maven-429", "registry:search",
                               "pipelines:details", "pipelines:search", "merge:search", "tags:search",
                               "pipelines:jobs", "merge:details", "jobs:logs"}
      /\ Children["fortify"] = {"false-positive"}
      /\ Children["info"] = {"projects", "groups"}
      /\ Children["api"] = {"kp-new", "tokenize", "echo", "kp-active"}
      /\ Children["keycloak"] = RealmLeaves
  BY <1>2 DEF Children, Single!OfGitlab, Single!OfInfo, Single!OfApi
<1> QED
  BY <1>1, <1>3, <1>4, <1>5 DEF Commands

LEMMA Leaves ==
    /\ Searches = {"pipelines:search", "merge:search", "tags:search"}
    /\ RealmLeaves = {"realms:list", "realms:details", "realms:export", "clients:list", "realms:import", "realms:delete"}
    /\ SingleLeaves = {"pipelines:jobs", "merge:details", "jobs:logs", "tokenize", "echo", "kp-active",
                       "projects", "groups", "false-positive"}
BY DEF Searches, RealmLeaves, Keycloak!Operations, Keycloak!Reading, SingleLeaves, Single!Operations,
       Single!OfGitlab, Single!OfInfo, Single!OfApi

LEMMA BelowGroups == \A g \in Groups : Children[g] \subseteq Groups \cup Commands
BY DEF Commands

LEMMA LineFacts ==
    ASSUME line \in Lines
    PROVE  /\ Len(line) \in Nat
           /\ Len(line) = 0 => Leaf = ""
           /\ Len(line) > 0 => Leaf = line[Len(line)]
           /\ \A k \in 1..Len(line) : line[k] \in Commands => k = Len(line)
<1>1. line \in Seq(STRING) /\ \A k \in DOMAIN line : line[k] \in Commands => k = Len(line)
  BY LinesAssumption
<1>2. Len(line) \in Nat /\ DOMAIN line = 1..Len(line) /\ (Len(line) = 0 <=> line = <<>>)
  <2>1. PICK l \in Seq(STRING) : l = line
    BY <1>1
  <2>2. Len(l) \in Nat /\ DOMAIN l = 1..Len(l) /\ (Len(l) = 0 <=> l = <<>>)
    BY <2>1
  <2> QED
    BY <2>1, <2>2
<1>3. (line = <<>> => Leaf = "") /\ (line # <<>> => Leaf = line[Len(line)])
  BY DEF Leaf
<1>4. Len(line) = 0 => Leaf = ""
  BY <1>2, <1>3
<1>5. ASSUME Len(line) > 0 PROVE Leaf = line[Len(line)]
  <2>1. line # <<>>
    BY <1>5
  <2> QED
    BY <1>3, <2>1
<1> QED
  BY <1>1, <1>2, <1>4, <1>5

\* What the commands of one or two calls promise of exit status 0.
Served ==
    /\ Leaf = "pipelines:details" => \A c \in Details!Calls : received[c] = "ok"
    /\ Leaf \in RealmLeaves \cup SingleLeaves => served

\* Where main is agrees with what it has read of the line; it comes to its end without an
\* error only from the command, or from a group the line ends with.
MainInv ==
    /\ line \in Lines
    /\ pos \in 0..Len(line)
    /\ at \in Groups \cup Commands \cup {"start", "main", "ended"}
    /\ exit \in {Unused, 0, 1, 2}
    /\ outcome \in {"none", "value", "zero", "error", "missing"}
    /\ at = "start" => pos = 0
    /\ at \in Groups => (pos = 0 /\ at = "root") \/ (pos > 0 /\ at = line[pos])
    /\ at \in Commands => at = Leaf
    /\ exit # Unused => at = "ended"
    /\ at = "main" /\ outcome # "error" => Served
    /\ exit = 0 => Served

\* The command the line leads to.
StagesInv ==
    /\ Leaf = "merge:check" => CheckInv
    /\ Leaf = "autoheal:maven-429" => HealInv
    /\ Leaf = "autoheal:merge" => MergeP!IInv
    /\ Leaf = "kp-new" => KeysInv
    /\ Leaf \in Searches => SearchInv
    /\ Leaf = "registry:search" => RegistryInv

\* Main replaces what these return once it has left them.
CallsInv ==
    at \notin {"main", "ended"} =>
        /\ Leaf = "pipelines:details" => DetailsInv
        /\ Leaf \in RealmLeaves => RealmInv
        /\ Leaf \in SingleLeaves => SingleInv

ProcessInv == MainInv /\ StagesInv /\ CallsInv

LEMMA InitLeaf ==
    ASSUME InitCommand
    PROVE  /\ Leaf = "merge:check" => Check!Init
           /\ Leaf = "autoheal:maven-429" => Heal!Init
           /\ Leaf = "autoheal:merge" => Merge!Init
           /\ Leaf = "kp-new" => KeyPairs!Init
           /\ Leaf \in Searches => Search!Init
           /\ Leaf = "registry:search" => Registry!Init
           /\ Leaf = "pipelines:details" => Details!Init
           /\ Leaf \in RealmLeaves => Keycloak!Init
           /\ Leaf \in SingleLeaves => Single!Init
           /\ outcome \in {"none", "value"}
<1>1. CASE Leaf \in {"merge:check", "autoheal:maven-429", "autoheal:merge", "kp-new", "registry:search"}
  BY <1>1, Leaves DEF InitCommand
<1>2. CASE Leaf \in Searches
  BY <1>2, Leaves DEF InitCommand
<1>3. CASE Leaf = "pipelines:details"
  <2>1. outcome = "none"
    BY <1>3, Leaves DEF InitCommand, Details!Init
  <2> QED
    BY <1>3, <2>1, Leaves DEF InitCommand
<1>4. CASE Leaf \in RealmLeaves
  <2>1. Keycloak!Init
    BY <1>4, Leaves DEF InitCommand
  <2> QED
    BY <1>4, <2>1, Leaves DEF Keycloak!Init
<1>5. CASE Leaf \in SingleLeaves
  <2>1. Single!Init
    BY <1>5, Leaves DEF InitCommand
  <2> QED
    BY <1>5, <2>1, Leaves DEF Single!Init
<1>6. CASE /\ Leaf \notin {"merge:check", "autoheal:maven-429", "autoheal:merge", "kp-new", "registry:search",
                           "pipelines:details"}
           /\ Leaf \notin Searches /\ Leaf \notin RealmLeaves /\ Leaf \notin SingleLeaves
  BY <1>6 DEF InitCommand
<1> QED
  BY <1>1, <1>2, <1>3, <1>4, <1>5, <1>6

LEMMA ProcessStart == Init => ProcessInv
<1> SUFFICES ASSUME Init PROVE ProcessInv
  OBVIOUS
<1>1. line \in Lines /\ pos = 0 /\ at = "start" /\ exit = Unused /\ InitCommand
  BY DEF Init
<1>2. MainInv
  <2>1. pos \in 0..Len(line)
    <3>1. Len(line) \in Nat
      BY <1>1, LineFacts
    <3> QED
      BY <1>1, <3>1
  <2>2. at \notin Groups /\ at \notin Commands /\ exit # 0
    BY <1>1, GroupNames, LinesAssumption
  <2>3. outcome \in {"none", "value"}
    BY <1>1, InitLeaf
  <2> QED
    BY <1>1, <2>1, <2>2, <2>3 DEF MainInv
<1>3. StagesInv
  BY <1>1, InitLeaf, CheckStart, HealStart, MergeStart, KeysStart, SearchStarts, RegistryStart DEF StagesInv
<1>4. CallsInv
  BY <1>1, InitLeaf, DetailsStart, RealmStart, SingleStart DEF CallsInv
<1> QED
  BY <1>2, <1>3, <1>4 DEF ProcessInv

\* Main leaves the variables of the command alone.
LEMMA MainLeaves == ASSUME Main PROVE UNCHANGED <<line, done, commandVars>> /\ Leaf' = Leaf
BY DEF Main, ParseFlags, RefuseFlags, Descend, UnknownFlag, RefuseArguments, MissingCommand, CommandReturns,
       MissingClientId, Exit, Leaf

LEMMA StagesKept == ASSUME ProcessInv, UNCHANGED <<line, done, commandVars>>, Leaf' = Leaf PROVE StagesInv'
<1>1. UNCHANGED <<calling, queue, report, sending, open, dryRun, restarts, marked, created, my, words, projects,
                  pc, username, query, rows, stderr, registry, next, failed, running, items, done>>
  BY DEF commandVars, stageVars, effectVars, searchVars, registryVars
<1>2. UNCHANGED <<Check!vars, Heal!vars, Merge!vars, KeyPairs!vars, Search!vars, Registry!vars>>
  BY <1>1 DEF Check!vars, Heal!vars, Merge!vars, KeyPairs!vars, Search!vars, Registry!vars, Heal!P!vars, Merge!P!vars,
              KeyPairs!P!vars, Search!argumentVars
<1> QED
  BY <1>2, CheckKept, HealKept, MergeKept, KeysKept, SearchKept, RegistryKept DEF ProcessInv, StagesInv

LEMMA CallsKept ==
    ASSUME ProcessInv, UNCHANGED <<line, done, outcome, commandVars>>, Leaf' = Leaf, at \notin {"main", "ended"}
    PROVE  CallsInv'
<1>1. UNCHANGED <<asking, channel, received, outcome, done, realm, realms, place, served>>
  BY DEF commandVars, detailsVars, realmVars
<1>2. DetailsInv => DetailsInv'
  BY <1>1 DEF DetailsInv, Details!TypeOK
<1>3. RealmInv => RealmInv'
  BY <1>1 DEF RealmInv, Keycloak!TypeOK
<1>4. SingleInv => SingleInv'
  BY <1>1 DEF SingleInv, Single!TypeOK
<1> QED
  BY <1>2, <1>3, <1>4 DEF ProcessInv, CallsInv

\* The command that has returned has done what it says, or says so.
LEMMA ReturnsServed ==
    ASSUME ProcessInv, at \in Commands, done, outcome # "error" PROVE Served
<1>1. at = Leaf /\ at \notin {"main", "ended"}
  BY GroupNames DEF ProcessInv, MainInv
<1>2. CASE Leaf = "pipelines:details"
  BY <1>1, <1>2, Leaves DEF ProcessInv, CallsInv, DetailsInv, Served
<1>3. CASE Leaf \in RealmLeaves
  BY <1>1, <1>3, Leaves DEF ProcessInv, CallsInv, RealmInv, Served
<1>4. CASE Leaf \in SingleLeaves
  BY <1>1, <1>4, Leaves DEF ProcessInv, CallsInv, SingleInv, Served
<1> QED
  BY <1>2, <1>3, <1>4 DEF Served

\* A line that ends with a group, or is empty, leads to no command.
LEMMA MissingServed ==
    ASSUME ProcessInv, at \in Groups, pos = Len(line) PROVE Served
<1>1. line \in Lines /\ ((pos = 0 /\ at = "root") \/ (pos > 0 /\ at = line[pos]))
  BY DEF ProcessInv, MainInv
<1>2. Leaf \in Groups \/ Leaf = ""
  BY <1>1, LineFacts
<1> QED
  BY <1>2, GroupNames, Leaves DEF Served

\* The next word leads down to a group, or to the command of the line.
LEMMA DescendLeads ==
    ASSUME ProcessInv, at \in Groups, pos < Len(line), line[pos + 1] \in Children[at]
    PROVE  /\ line[pos + 1] \in Groups \cup Commands
           /\ line[pos + 1] \in Commands => line[pos + 1] = Leaf
<1>1. line \in Lines /\ pos \in 0..Len(line) /\ Len(line) \in Nat
  BY LineFacts DEF ProcessInv, MainInv
<1>2. line[pos + 1] \in Groups \cup Commands
  BY BelowGroups
<1>3. pos + 1 \in 1..Len(line)
  BY <1>1
<1>4. line[pos + 1] \in Commands => pos + 1 = Len(line)
  BY <1>1, <1>3, LineFacts
<1>5. Len(line) > 0 => Leaf = line[Len(line)]
  BY <1>1, LineFacts
<1>6. line[pos + 1] \in Commands => line[pos + 1] = Leaf
  <2>1. CASE pos + 1 = Len(line)
    BY <1>1, <1>5, <2>1
  <2> QED
    BY <1>4, <2>1
<1> QED
  BY <1>2, <1>6

\* The steps of main and the groups.
LEMMA MainKept == ASSUME ProcessInv, Main PROVE ProcessInv'
<1>1. UNCHANGED <<line, done, commandVars>> /\ Leaf' = Leaf
  BY MainLeaves
<1>2. StagesInv'
  BY <1>1, StagesKept
<1>3. /\ line \in Lines /\ Len(line) \in Nat /\ pos \in 0..Len(line)
      /\ Served' = Served
  <2>1. UNCHANGED <<served, received>>
    BY <1>1 DEF commandVars, realmVars, detailsVars
  <2> QED
    BY <1>1, <2>1, LineFacts DEF ProcessInv, MainInv, Served
<1>4. at # "ended"
  BY GroupNames DEF Main, ParseFlags, RefuseFlags, Descend, UnknownFlag, RefuseArguments, MissingCommand, CommandReturns,
       MissingClientId, Exit, Single!OfApi
<1>5. exit = Unused /\ Unused \notin {0, 1, 2}
  BY <1>4, LinesAssumption DEF ProcessInv, MainInv
<1>n. \A g \in Groups : g \notin Commands /\ g \notin {"start", "main", "ended"}
  BY GroupNames
<1>m. \A c \in Commands : c \notin Groups /\ c \notin {"start", "main", "ended"}
  BY GroupNames
<1>6. ASSUME at' \in Groups \cup Commands, UNCHANGED <<outcome, exit>>, at \notin {"main", "ended"},
             pos' \in 0..Len(line),
             at' \in Groups => (pos' = 0 /\ at' = "root") \/ (pos' > 0 /\ at' = line[pos']),
             at' \in Commands => at' = Leaf
      PROVE  ProcessInv'
  <2>1. CallsInv'
    BY <1>1, <1>6, CallsKept
  <2>2. MainInv'
    BY <1>1, <1>3, <1>5, <1>6, <1>n, <1>m DEF ProcessInv, MainInv
  <2> QED
    BY <1>2, <2>1, <2>2 DEF ProcessInv
<1>7. ASSUME at' \in {"main", "ended"}, pos' \in 0..Len(line), outcome' \in {"none", "value", "zero", "error", "missing"},
             exit' \in {Unused, 0, 1, 2}, exit' # Unused => at' = "ended",
             (at' = "main" /\ outcome' # "error") \/ exit' = 0 => Served
      PROVE  ProcessInv'
  <2>1. CallsInv'
    BY <1>7 DEF CallsInv
  <2>2. MainInv'
    BY <1>1, <1>3, <1>7, <1>n, <1>m DEF MainInv
  <2> QED
    BY <1>2, <2>1, <2>2 DEF ProcessInv
<1>8. outcome \in {"none", "value", "zero", "error", "missing"}
  BY DEF ProcessInv, MainInv
<1>9. CASE ParseFlags
  <2>1. at = "start" /\ pos = 0 /\ UNCHANGED <<pos, outcome>>
    BY <1>9 DEF ParseFlags, ProcessInv, MainInv
  <2>2. CASE at' = "root" /\ UNCHANGED exit
    BY <1>3, <1>6, <2>1, <2>2, GroupNames
  <2>3. CASE at' = "ended" /\ exit' \in {1, 2}
    BY <1>3, <1>7, <1>8, <2>1, <2>3
  <2> QED
    BY <1>9, <2>2, <2>3 DEF ParseFlags
<1>10. CASE UnknownFlag
  BY <1>3, <1>7, <1>8, <1>10 DEF UnknownFlag
<1>11. CASE RefuseFlags
  BY <1>3, <1>5, <1>7, <1>11 DEF RefuseFlags
<1>12. CASE Descend
  <2>1. at \in Groups /\ pos < Len(line) /\ pos' = pos + 1 /\ UNCHANGED exit
    BY <1>12 DEF Descend
  <2>2. pos' \in 0..Len(line) /\ pos' > 0
    BY <1>3, <2>1
  <2>3. CASE line[pos + 1] \in Children[at]
    <3>1. at' = line[pos'] /\ UNCHANGED outcome
      BY <1>12, <2>1, <2>3 DEF Descend
    <3>2. line[pos'] \in Groups \cup Commands /\ (line[pos'] \in Commands => line[pos'] = Leaf)
      BY <2>1, <2>3, DescendLeads
    <3> QED
      BY <1>6, <1>n, <2>1, <2>2, <3>1, <3>2
  <2>4. CASE line[pos + 1] \notin Children[at]
    <3>1. at' = "main" /\ outcome' = "error"
      BY <1>12, <2>4 DEF Descend
    <3> QED
      BY <1>5, <1>7, <2>1, <2>2, <3>1
  <2> QED
    BY <2>3, <2>4
<1>13. CASE RefuseArguments
  <2>1. pos < Len(line) /\ pos' = pos + 1 /\ at' = "main" /\ outcome' = "error" /\ UNCHANGED exit
    BY <1>13 DEF RefuseArguments
  <2>2. pos' \in 0..Len(line)
    BY <1>3, <2>1
  <2> QED
    BY <1>5, <1>7, <2>1, <2>2
<1>14. CASE MissingCommand
  <2>1. Served
    BY <1>14, MissingServed DEF MissingCommand
  <2> QED
    BY <1>3, <1>5, <1>7, <1>14, <2>1 DEF MissingCommand
<1>15. CASE CommandReturns
  <2>1. outcome # "error" => Served
    BY <1>15, ReturnsServed DEF CommandReturns
  <2> QED
    BY <1>3, <1>5, <1>7, <1>8, <1>15, <2>1 DEF CommandReturns
<1>16. CASE MissingClientId
  BY <1>3, <1>7, <1>8, <1>16 DEF MissingClientId
<1>17. CASE Exit
  <2>1. at = "main" /\ at' = "ended" /\ exit' = (IF outcome = "error" THEN 1 ELSE 0) /\ UNCHANGED <<pos, outcome>>
    BY <1>17 DEF Exit
  <2>2. exit' = 0 => Served
    BY <2>1 DEF ProcessInv, MainInv
  <2> QED
    BY <1>3, <1>7, <1>8, <2>1, <2>2
<1> QED
  BY <1>9, <1>10, <1>11, <1>12, <1>13, <1>14, <1>15, <1>16, <1>17 DEF Main

\* The command runs while main waits for it.
LEMMA RunMain ==
    ASSUME ProcessInv, Run, outcome' \in {"none", "value", "zero", "error", "missing"}
    PROVE  MainInv' /\ at \in Commands /\ at = Leaf /\ Leaf' = Leaf /\ at' = at
<1>1. UNCHANGED <<line, pos, at, exit>>
  BY DEF Run, mainVars
<1>2. at \in Commands
  BY GroupNames, Leaves DEF Run
<1>3. at \notin Groups /\ at \notin {"start", "main", "ended"}
  BY <1>2, GroupNames
<1>4. at = Leaf /\ exit = Unused /\ Unused # 0
  BY <1>2, <1>3, LinesAssumption DEF ProcessInv, MainInv
<1>5. Leaf' = Leaf
  BY <1>1 DEF Leaf
<1>6. MainInv'
  BY <1>1, <1>2, <1>3, <1>4, <1>5 DEF ProcessInv, MainInv
<1> QED
  BY <1>1, <1>2, <1>4, <1>5, <1>6

LEMMA RunKept == ASSUME ProcessInv, Run PROVE ProcessInv'
<1>1. at \in Commands /\ at' = at /\ Leaf' = Leaf /\ ~done /\ UNCHANGED mainVars
  <2>1. UNCHANGED <<line, pos, at, exit>> /\ ~done
    BY DEF Run, mainVars
  <2> QED
    BY <2>1, GroupNames, Leaves DEF Run, Leaf, mainVars
<1>2. at = Leaf /\ at \notin {"main", "ended"}
  BY <1>1, GroupNames DEF ProcessInv, MainInv
<1>3. outcome \in {"none", "value", "zero", "error", "missing"}
  BY DEF ProcessInv, MainInv
<1>4. ASSUME UNCHANGED outcome, StagesInv', Leaf \notin {"pipelines:details"} \cup RealmLeaves \cup SingleLeaves
      PROVE  ProcessInv'
  <2>1. MainInv'
    BY <1>3, <1>4, RunMain
  <2>2. CallsInv'
    <3>1. Leaf' \notin {"pipelines:details"} \cup RealmLeaves \cup SingleLeaves
      BY <1>1, <1>4
    <3>2. RealmLeaves' = RealmLeaves /\ SingleLeaves' = SingleLeaves
      BY DEF RealmLeaves, SingleLeaves
    <3> QED
      BY <3>1, <3>2 DEF CallsInv
  <2> QED
    BY <1>4, <2>1, <2>2 DEF ProcessInv
<1>5. CASE at = "merge:check" /\ Check!Next /\ UNCHANGED outcome
  <2>1. CheckInv'
    BY <1>2, <1>5, CheckKept DEF ProcessInv, StagesInv
  <2>2. StagesInv'
    BY <1>1, <1>2, <1>5, <2>1, Leaves DEF StagesInv
  <2> QED
    BY <1>2, <1>4, <1>5, <2>2, Leaves
<1>6. CASE at = "autoheal:maven-429" /\ Heal!Next /\ UNCHANGED outcome
  <2>1. HealInv'
    BY <1>2, <1>6, HealKept DEF ProcessInv, StagesInv
  <2>2. StagesInv'
    BY <1>1, <1>2, <1>6, <2>1, Leaves DEF StagesInv
  <2> QED
    BY <1>2, <1>4, <1>6, <2>2, Leaves
<1>7. CASE at = "autoheal:merge" /\ Merge!Next /\ UNCHANGED outcome
  <2>1. MergeP!IInv'
    BY <1>2, <1>7, MergeKept DEF ProcessInv, StagesInv
  <2>2. StagesInv'
    BY <1>1, <1>2, <1>7, <2>1, Leaves DEF StagesInv
  <2> QED
    BY <1>2, <1>4, <1>7, <2>2, Leaves
<1>8. CASE at = "kp-new" /\ KeyPairs!Next /\ UNCHANGED outcome
  <2>1. KeysInv'
    BY <1>2, <1>8, KeysKept DEF ProcessInv, StagesInv
  <2>2. StagesInv'
    BY <1>1, <1>2, <1>8, <2>1, Leaves DEF StagesInv
  <2> QED
    BY <1>2, <1>4, <1>8, <2>2, Leaves
<1>9. CASE at \in Searches /\ Search!Next /\ UNCHANGED outcome
  <2>1. SearchInv'
    BY <1>2, <1>9, SearchKept DEF ProcessInv, StagesInv
  <2>2. StagesInv'
    BY <1>1, <1>2, <1>9, <2>1, Leaves DEF StagesInv
  <2> QED
    BY <1>2, <1>4, <1>9, <2>2, Leaves
<1>10. CASE at = "registry:search" /\ Registry!Next /\ UNCHANGED outcome
  <2>1. RegistryInv'
    BY <1>2, <1>10, RegistryKept DEF ProcessInv, StagesInv
  <2>2. StagesInv'
    BY <1>1, <1>2, <1>10, <2>1, Leaves DEF StagesInv
  <2> QED
    BY <1>2, <1>4, <1>10, <2>2, Leaves
<1>11. ASSUME Leaf \in {"pipelines:details"} \cup RealmLeaves \cup SingleLeaves PROVE StagesInv'
  BY <1>1, <1>11, Leaves DEF StagesInv
<1>12. CASE at = "pipelines:details" /\ Details!Next
  <2>1. DetailsInv'
    BY <1>1, <1>2, <1>12, DetailsKept DEF ProcessInv, CallsInv
  <2>2. MainInv'
    BY <2>1, RunMain DEF DetailsInv, Details!TypeOK
  <2>3. CallsInv'
    BY <1>1, <1>2, <1>12, <2>1, Leaves DEF CallsInv
  <2> QED
    BY <1>2, <1>11, <1>12, <2>2, <2>3 DEF ProcessInv
<1>13. CASE at \in RealmLeaves /\ Keycloak!Next
  <2>1. RealmInv'
    BY <1>1, <1>2, <1>13, RealmKept DEF ProcessInv, CallsInv
  <2>2. MainInv'
    BY <2>1, RunMain DEF RealmInv, Keycloak!TypeOK
  <2>3. CallsInv'
    BY <1>1, <1>2, <1>13, <2>1, Leaves DEF CallsInv
  <2> QED
    BY <1>2, <1>11, <1>13, <2>2, <2>3 DEF ProcessInv
<1>14. CASE at \in SingleLeaves /\ Single!Next
  <2>1. SingleInv'
    BY <1>1, <1>2, <1>14, SingleKept DEF ProcessInv, CallsInv
  <2>2. MainInv'
    BY <2>1, RunMain DEF SingleInv, Single!TypeOK
  <2>3. CallsInv'
    BY <1>1, <1>2, <1>14, <2>1, Leaves DEF CallsInv
  <2> QED
    BY <1>2, <1>11, <1>14, <2>2, <2>3 DEF ProcessInv
<1> QED
  BY <1>5, <1>6, <1>7, <1>8, <1>9, <1>10, <1>12, <1>13, <1>14 DEF Run

LEMMA ProcessKept == ProcessInv /\ [Next]_vars => ProcessInv'
<1> SUFFICES ASSUME ProcessInv, [Next]_vars PROVE ProcessInv'
  OBVIOUS
<1>1. CASE UNCHANGED vars
  <2>1. UNCHANGED <<line, pos, at, exit, outcome, done, commandVars>>
    BY <1>1 DEF vars, mainVars, commandVars
  <2>2. Leaf' = Leaf
    BY <2>1 DEF Leaf
  <2>3. StagesInv'
    BY <2>1, <2>2, StagesKept
  <2>4. CallsInv'
    <3>1. CASE at \in {"main", "ended"}
      BY <2>1, <3>1 DEF CallsInv
    <3>2. CASE at \notin {"main", "ended"}
      BY <2>1, <2>2, <3>2, CallsKept
    <3> QED
      BY <3>1, <3>2
  <2>5. MainInv'
    <3>1. UNCHANGED <<served, received>>
      BY <2>1 DEF commandVars, realmVars, detailsVars
    <3>2. Served' = Served
      BY <2>2, <3>1 DEF Served
    <3> QED
      BY <2>1, <2>2, <3>2 DEF ProcessInv, MainInv
  <2> QED
    BY <2>3, <2>4, <2>5 DEF ProcessInv
<1> QED
  BY <1>1, MainKept, RunKept DEF Next, Ended

-----------------------------------------------------------------------------
(* From the words of a search to its projects: each stands for what it says. *)

\* The places of s that lead to id, and their number.
Hits(s, id) == {a \in DOMAIN s : Search!Get(s[a]) = id}
CountOf(s, id) == Cardinality(Hits(s, id))

LEMMA SequenceOf ==
    ASSUME NEW n \in Nat, NEW S, NEW f \in [1..n -> S] PROVE f \in Seq(S) /\ Len(f) = n /\ DOMAIN f = 1..n
OBVIOUS

LEMMA HitsFinite ==
    ASSUME NEW s \in Seq(STRING), NEW id
    PROVE  IsFiniteSet(Hits(s, id)) /\ CountOf(s, id) \in Nat
<1>1. Len(s) \in Int /\ DOMAIN s = 1..Len(s)
  OBVIOUS
<1>2. IsFiniteSet(1..Len(s))
  BY <1>1, FS_Interval
<1>3. Hits(s, id) \subseteq 1..Len(s)
  BY <1>1 DEF Hits
<1>4. IsFiniteSet(Hits(s, id))
  BY <1>2, <1>3, FS_Subset
<1> QED
  BY <1>4, FS_CardinalityType DEF CountOf

LEMMA CountNone == ASSUME NEW s, NEW id, Hits(s, id) = {} PROVE CountOf(s, id) = 0
BY FS_EmptySet DEF CountOf

LEMMA CountSingle == ASSUME NEW s, NEW id, NEW k, Hits(s, id) = {k} PROVE CountOf(s, id) = 1
BY FS_Singleton DEF CountOf

\* One behind the other they stand for as much as both.
LEMMA CountJoin ==
    ASSUME NEW s \in Seq(STRING), NEW t \in Seq(STRING), NEW id
    PROVE  s \o t \in Seq(STRING) /\ CountOf(s \o t, id) = CountOf(s, id) + CountOf(t, id)
<1> DEFINE first == Hits(s, id)
           second == Hits(t, id)
           shift == [b \in second |-> Len(s) + b]
           Moved == {shift[b] : b \in second}
<1>1. /\ s \o t \in Seq(STRING) /\ Len(s \o t) = Len(s) + Len(t)
      /\ \A a \in 1..Len(s) + Len(t) : (s \o t)[a] = IF a <= Len(s) THEN s[a] ELSE t[a - Len(s)]
  BY ConcatProperties
<1>2. /\ Len(s) \in Nat /\ Len(t) \in Nat
      /\ DOMAIN s = 1..Len(s) /\ DOMAIN t = 1..Len(t) /\ DOMAIN (s \o t) = 1..Len(s) + Len(t)
  BY <1>1
<1>3. IsFiniteSet(first) /\ IsFiniteSet(second)
  BY HitsFinite
<1>4. second \subseteq 1..Len(t) /\ first \subseteq 1..Len(s)
  BY <1>2 DEF Hits
<1>5. Hits(s \o t, id) = first \cup Moved
  <2>1. ASSUME NEW a \in Hits(s \o t, id) PROVE a \in first \cup Moved
    <3>1. a \in 1..Len(s) + Len(t) /\ Search!Get((s \o t)[a]) = id
      BY <1>2, <2>1 DEF Hits
    <3>2. CASE a <= Len(s)
      <4>1. a \in 1..Len(s) /\ (s \o t)[a] = s[a]
        BY <1>1, <1>2, <3>1, <3>2
      <4> QED
        BY <1>2, <3>1, <4>1 DEF Hits
    <3>3. CASE ~(a <= Len(s))
      <4>1. a - Len(s) \in 1..Len(t) /\ (s \o t)[a] = t[a - Len(s)] /\ Len(s) + (a - Len(s)) = a
        BY <1>1, <1>2, <3>1, <3>3
      <4>2. a - Len(s) \in second
        BY <1>2, <3>1, <4>1 DEF Hits
      <4>3. shift[a - Len(s)] = a
        BY <4>1, <4>2
      <4> QED
        BY <4>2, <4>3
    <3> QED
      BY <3>2, <3>3
  <2>2. ASSUME NEW a \in first PROVE a \in Hits(s \o t, id)
    <3>1. a \in 1..Len(s) /\ Search!Get(s[a]) = id
      BY <1>2, <2>2 DEF Hits
    <3>2. a \in 1..Len(s) + Len(t) /\ (s \o t)[a] = s[a]
      BY <1>1, <1>2, <3>1
    <3> QED
      BY <1>2, <3>1, <3>2 DEF Hits
  <2>3. ASSUME NEW b \in second PROVE shift[b] \in Hits(s \o t, id)
    <3>1. b \in 1..Len(t) /\ Search!Get(t[b]) = id
      BY <1>2, <2>3 DEF Hits
    <3>2. Len(s) + b \in 1..Len(s) + Len(t) /\ ~(Len(s) + b <= Len(s)) /\ (Len(s) + b) - Len(s) = b
      BY <1>2, <3>1
    <3>3. (s \o t)[Len(s) + b] = t[b]
      BY <1>1, <3>2
    <3> QED
      BY <1>2, <3>1, <3>2, <3>3 DEF Hits
  <2> HIDE DEF first, second, shift
  <2> QED
    BY <2>1, <2>2, <2>3
<1>6. IsInjective(shift)
  BY <1>2, <1>4 DEF IsInjective
<1>7. \A b \in second : shift[b] \notin first
  <2> SUFFICES ASSUME NEW b \in second PROVE shift[b] \notin first
    OBVIOUS
  <2>1. b \in 1..Len(t) /\ shift[b] = Len(s) + b
    BY <1>4
  <2> HIDE DEF first, second, shift
  <2> QED
    BY <1>2, <1>4, <2>1
<1>8. DOMAIN shift = second
  OBVIOUS
<1> HIDE DEF first, second, shift
<1>9. IsFiniteSet(Moved) /\ Cardinality(Moved) = Cardinality(second)
  BY <1>3, <1>6, <1>8, SameCount, ImageFinite
<1>10. first \cap Moved = {}
  BY <1>7
<1> HIDE DEF Moved
<1>11. Cardinality(first \cup Moved) = Cardinality(first) + Cardinality(Moved) - 0
  BY <1>3, <1>9, <1>10, FS_Union, FS_EmptySet
<1>12. CountOf(s, id) = Cardinality(first) /\ CountOf(t, id) = Cardinality(second)
  BY DEF CountOf, first, second
<1>13. CountOf(s \o t, id) = Cardinality(first \cup Moved)
  BY <1>5 DEF CountOf
<1>14. Cardinality(first) \in Nat /\ Cardinality(second) \in Nat
  BY <1>3, FS_CardinalityType
<1> QED
  BY <1>1, <1>9, <1>11, <1>12, <1>13, <1>14

LEMMA TablesFact ==
    /\ DOMAIN ProjectId \subseteq STRING
    /\ IsFiniteSet(Search!Ids) /\ Cardinality(Search!Ids) \in Nat
    /\ \A S : Search!Cardinality(S) = Cardinality(S)
<1>1. IsFiniteSet(DOMAIN ProjectId)
  BY TablesAssumption
<1>2. IsFiniteSet({ProjectId[name] : name \in DOMAIN ProjectId})
  BY <1>1, ImageFinite
<1>3. Search!Ids = {ProjectId[name] : name \in DOMAIN ProjectId}
  BY DEF Search!Ids
<1>4. \A S : Search!Cardinality(S) = Cardinality(S)
  BY DEF Cardinality, Search!Cardinality
<1> QED
  BY <1>2, <1>3, <1>4, TablesAssumption, FS_CardinalityType

\* Each of the expansions of a word stands for what the word stands for.  "all" has as
\* many names as there are ids and misses none, so it has none twice.
LEMMA AllCounts ==
    ASSUME NEW s \in Search!EachIdOnce, NEW id
    PROVE  s \in Seq(STRING) /\ CountOf(s, id) = IF id \in Search!Ids THEN 1 ELSE 0
<1>1. PICK n, Ids : n \in Nat /\ n = Cardinality(Search!Ids) /\ Ids = Search!Ids
  BY TablesFact
<1>2. s \in [1..n -> DOMAIN ProjectId] /\ {ProjectId[s[k]] : k \in DOMAIN s} = Ids
  BY <1>1, TablesFact DEF Search!EachIdOnce
<1>3. s \in Seq(STRING) /\ DOMAIN s = 1..n
  <2>1. s \in [1..n -> STRING]
    BY <1>2, TablesFact
  <2> QED
    BY <1>1, <1>2, <2>1, SequenceOf
<1> DEFINE g == [k \in 1..n |-> ProjectId[s[k]]]
<1>4. g \in Surjection(1..n, Ids)
  BY <1>2, <1>3 DEF Surjection
<1>5. IsFiniteSet(1..n) /\ Cardinality(1..n) = n
  <2>1. 1 \in Int /\ n \in Int /\ n \in Nat
    BY <1>1
  <2>2. IsFiniteSet(1..n) /\ Cardinality(1..n) = IF 1 > n THEN 0 ELSE n - 1 + 1
    BY <2>1, FS_Interval
  <2> QED
    BY <2>1, <2>2
<1>6. \A k \in 1..n : Search!Get(s[k]) = g[k]
  BY <1>2 DEF Search!Get
<1>7. Hits(s, id) = {k \in 1..n : g[k] = id}
  BY <1>3, <1>6 DEF Hits
<1> HIDE DEF g
<1>8. g \in Injection(1..n, Ids)
  BY <1>1, <1>4, <1>5, FS_Surjection
<1>9. CASE id \in Ids
  <2>1. PICK k \in 1..n : g[k] = id
    BY <1>4, <1>9 DEF Surjection
  <2>2. Hits(s, id) = {k}
    BY <1>7, <1>8, <2>1 DEF Injection, IsInjective
  <2> QED
    BY <1>1, <1>3, <1>9, <2>2, CountSingle
<1>10. CASE id \notin Ids
  <2>1. Hits(s, id) = {}
    BY <1>4, <1>7, <1>10 DEF Surjection
  <2> QED
    BY <1>1, <1>3, <1>10, <2>1, CountNone
<1> QED
  BY <1>9, <1>10

LEMMA AloneHas ==
    ASSUME NEW W, NEW word \in W, NEW s, s = <<word>>
    PROVE  s \in Seq(W) /\ DOMAIN s = {1} /\ s[1] = word
OBVIOUS

LEMMA WordCounts ==
    ASSUME NEW word \in STRING, NEW s \in Search!Expansions(word), NEW id
    PROVE  s \in Seq(STRING) /\ CountOf(s, id) = Search!StandsFor(word, id)
<1>1. CASE word = "all"
  <2>1. s \in Search!EachIdOnce
    BY <1>1 DEF Search!Expansions
  <2>2. Search!StandsFor(word, id) = IF id \in Search!Ids THEN 1 ELSE 0
    BY <1>1 DEF Search!StandsFor
  <2> QED
    BY <2>1, <2>2, AllCounts
<1>2. CASE word \in DOMAIN Members \ {"all"}
  <2>1. s = Members[word]
    BY <1>2 DEF Search!Expansions
  <2>2. s \in Seq(STRING)
    BY <1>2, <2>1, TablesAssumption
  <2>3. Search!StandsFor(word, id) = Search!Cardinality({k \in DOMAIN Members[word] : Search!Get(Members[word][k]) = id})
    BY <1>2 DEF Search!StandsFor
  <2> QED
    BY <2>1, <2>2, <2>3, TablesFact DEF CountOf, Hits
<1>3. CASE word # "all" /\ word \notin DOMAIN Members
  <2>1. s = <<word>>
    BY <1>3 DEF Search!Expansions
  <2>2. s \in Seq(STRING) /\ DOMAIN s = {1} /\ s[1] = word
    BY <2>1, AloneHas
  <2>3. Search!StandsFor(word, id) = IF Search!Get(word) = id THEN 1 ELSE 0
    BY <1>3 DEF Search!StandsFor
  <2>4. CASE Search!Get(word) = id
    <3>1. Hits(s, id) = {1}
      BY <2>2, <2>4 DEF Hits
    <3> QED
      BY <2>2, <2>3, <2>4, <3>1, CountSingle
  <2>5. CASE Search!Get(word) # id
    <3>1. Hits(s, id) = {}
      BY <2>2, <2>5 DEF Hits
    <3> QED
      BY <2>2, <2>3, <2>5, <3>1, CountNone
  <2> QED
    BY <2>4, <2>5
<1> QED
  BY <1>1, <1>2, <1>3

\* What the first n words stand for.
MentionedBy(list, id) ==
    CHOOSE f : f = [n \in 0..Len(list) |-> IF n = 0 THEN 0 ELSE f[n - 1] + Search!StandsFor(list[n], id)]

LEMMA MentionedFirst == ASSUME NEW id PROVE Search!Mentioned(id) = MentionedBy(words, id)[Len(words)]
BY DEF Search!Mentioned, MentionedBy

LEMMA WordWeight == ASSUME NEW word \in STRING, NEW id PROVE Search!StandsFor(word, id) \in Nat
<1>1. CASE word = "all"
  <2>1. Search!StandsFor(word, id) = IF id \in Search!Ids THEN 1 ELSE 0
    BY <1>1 DEF Search!StandsFor
  <2> QED
    BY <2>1
<1>2. CASE word # "all"
  <2>1. PICK s : Search!Expansions(word) = {s}
    BY <1>2 DEF Search!Expansions
  <2>2. s \in Seq(STRING) /\ CountOf(s, id) = Search!StandsFor(word, id)
    BY <2>1, WordCounts
  <2> QED
    BY <2>2, HitsFinite
<1> QED
  BY <1>1, <1>2

LEMMA MentionedValues ==
    ASSUME NEW list \in Seq(STRING), NEW id
    PROVE  /\ MentionedBy(list, id)[0] = 0
           /\ \A n \in 1..Len(list) :
                MentionedBy(list, id)[n] = MentionedBy(list, id)[n - 1] + Search!StandsFor(list[n], id)
<1> DEFINE n == Len(list)
           weight(k) == Search!StandsFor(list[k], id)
           after(f, k) == IF k = 0 THEN 0 ELSE f[k - 1] + weight(k)
           Is(f) == f = [k \in 0..n |-> after(f, k)]
           first == CHOOSE f : Is(f)
           round == [k \in 1..n |-> [v \in Nat |-> v + weight(k)]]
<1>1. MentionedBy(list, id) = first
  BY DEF MentionedBy
<1>2. n \in Nat /\ \A k \in 1..n : weight(k) \in Nat
  <2>1. n \in Nat /\ \A k \in 1..n : list[k] \in STRING
    OBVIOUS
  <2> QED
    BY <2>1, WordWeight
<1> HIDE DEF weight
<1>3. Is(first)
  <2>1. Total(n, Nat, round)
    BY <1>2 DEF Total
  <2>2. Loop(n, Nat, 0, round)
    <3> HIDE DEF round, n
    <3> QED
      BY <1>2, <2>1, LoopEnds
  <2>3. PICK f \in [0..n -> Nat] : Rounds(n, f, 0, round)
    BY <2>2 DEF Loop
  <2>4. ASSUME NEW k \in 1..n PROVE f[k] = after(f, k)
    <3>1. k - 1 \in 0..n /\ k # 0
      BY <1>2
    <3>2. f[k - 1] \in Nat /\ f[k] = round[k][f[k - 1]]
      BY <2>3, <3>1 DEF Rounds
    <3> HIDE DEF n
    <3> QED
      BY <3>1, <3>2
  <2>5. \A k \in 0..n : f[k] = after(f, k)
    <3>1. \A k \in 0..n : k = 0 \/ k \in 1..n
      BY <1>2
    <3>2. f[0] = after(f, 0)
      BY <2>3 DEF Rounds
    <3> HIDE DEF after
    <3> QED
      BY <2>4, <3>1, <3>2
  <2>6. Is(f)
    BY <2>5
  <2> HIDE DEF Is
  <2> QED
    BY <2>6
<1> HIDE DEF first
<1>4. \A k \in 0..n : first[k] = after(first, k)
  BY <1>3
<1>5. 0 \in 0..n /\ \A k \in 1..n : k \in 0..n /\ k # 0
  BY <1>2
<1>6. first[0] = 0 /\ \A k \in 1..n : first[k] = first[k - 1] + weight(k)
  BY <1>4, <1>5
<1> QED
  BY <1>1, <1>6 DEF weight

\* Each way to expand the words one after the other stands for what they stand for.
LEMMA WordsCount ==
    ASSUME NEW list \in Seq(STRING), NEW parts, DOMAIN parts = DOMAIN list,
           parts \in [DOMAIN parts -> UNION {Search!Expansions(list[k]) : k \in DOMAIN list}],
           \A k \in DOMAIN list : parts[k] \in Search!Expansions(list[k]), NEW id
    PROVE  /\ Search!Joined(parts) \in Seq(STRING)
           /\ CountOf(Search!Joined(parts), id) = MentionedBy(list, id)[Len(list)]
<1>1. PICK n \in Nat : n = Len(list) /\ DOMAIN list = 1..n
  OBVIOUS
<1>2. \A k \in 1..n : parts[k] \in Seq(STRING) /\ CountOf(parts[k], id) = Search!StandsFor(list[k], id)
  BY <1>1, WordCounts
<1>3. parts \in Seq(Seq(STRING)) /\ Len(parts) = n
  <2>1. parts \in [1..n -> Seq(STRING)]
    BY <1>1, <1>2
  <2> QED
    BY <2>1, SequenceOf
<1>4. PICK joined : joined = FirstOf(parts)
  OBVIOUS
<1>5. Search!Joined(parts) = joined[n]
  BY <1>3, <1>4 DEF Search!Joined, FirstOf
<1>6. /\ joined[0] = <<>>
      /\ \A k \in 1..n : joined[k] = joined[k - 1] \o parts[k]
      /\ \A k \in 0..n : joined[k] \in Seq(STRING)
  BY <1>3, <1>4, FirstValues
<1>7. PICK mentioned : mentioned = MentionedBy(list, id)
  OBVIOUS
<1>8. mentioned[0] = 0 /\ \A k \in 1..n : mentioned[k] = mentioned[k - 1] + Search!StandsFor(list[k], id)
  BY <1>1, <1>7, MentionedValues
<1> DEFINE G == {k \in 0..n : CountOf(joined[k], id) = mentioned[k]}
<1>9. 0 \in G
  <2>1. Hits(<<>>, id) = {}
    BY DEF Hits
  <2>2. CountOf(<<>>, id) = 0
    BY <2>1, CountNone
  <2> QED
    BY <1>6, <1>8, <2>2
<1>10. ASSUME NEW k \in 1..n, k - 1 \in G PROVE k \in G
  <2>1. k - 1 \in 0..n /\ k \in 0..n
    OBVIOUS
  <2>2. joined[k - 1] \in Seq(STRING) /\ parts[k] \in Seq(STRING)
    BY <1>2, <1>6, <2>1
  <2>3. CountOf(joined[k - 1] \o parts[k], id) = CountOf(joined[k - 1], id) + CountOf(parts[k], id)
    BY <2>2, CountJoin
  <2>4. CountOf(joined[k], id) = mentioned[k]
    BY <1>2, <1>6, <1>8, <1>10, <2>3
  <2> QED
    BY <2>1, <2>4
<1> HIDE DEF G
<1>11. \A k \in 0..n : k \in G
  BY <1>9, <1>10, UpTo
<1>12. n \in G /\ n \in 0..n
  BY <1>11
<1>13. CountOf(joined[n], id) = mentioned[n]
  BY <1>12 DEF G
<1> QED
  BY <1>1, <1>5, <1>6, <1>7, <1>12, <1>13

\* Each project of a search has as many outcomes as the words stand for it.
LEMMA SearchOutcomes == ASSUME SearchInv PROVE Search!OneOutcomeEach
<1>1. words \in Seq(STRING)
  BY TablesAssumption DEF SearchInv, SearchAsked
<1>2. PICK parts \in [DOMAIN words -> UNION {Search!Expansions(words[k]) : k \in DOMAIN words}] :
        /\ \A k \in DOMAIN words : parts[k] \in Search!Expansions(words[k])
        /\ projects = [k \in DOMAIN Search!Joined(parts) |-> Search!Get(Search!Joined(parts)[k])]
  BY DEF SearchInv, SearchAsked, Search!Demuxed
<1>3. PICK names : names = Search!Joined(parts)
  OBVIOUS
<1>4. ASSUME NEW id PROVE Search!Cardinality({a \in Search!Positions : projects[a] = id}) = Search!Mentioned(id)
  <2>1. DOMAIN parts = DOMAIN words
    OBVIOUS
  <2>2. CountOf(names, id) = Search!Mentioned(id)
    BY <1>1, <1>2, <1>3, <2>1, WordsCount, MentionedFirst
  <2>3. {a \in Search!Positions : projects[a] = id} = Hits(names, id)
    BY <1>2, <1>3 DEF Hits, Search!Positions
  <2> QED
    BY <2>2, <2>3, TablesFact DEF CountOf
<1>5. ASSUME done PROVE rows \cup stderr = Search!Positions /\ rows \cap stderr = {}
  <2>1. \A a \in Search!Positions : a \in rows \cup stderr
    BY <1>5 DEF SearchInv, SearchLive, SearchTypes, HeardInv
  <2>2. rows \subseteq Search!Positions /\ stderr \subseteq Search!Positions /\ rows \cap stderr = {}
    BY DEF SearchInv, SearchLive, SearchTypes, HeardInv
  <2> QED
    BY <2>1, <2>2
<1> QED
  BY <1>4, <1>5 DEF Search!OneOutcomeEach

-----------------------------------------------------------------------------
(* What a process of simplcli never does. *)

\* Main is where the words it has read lead, the command is in a state it can get into, and
\* what main has of a command that returned is what that command had done.
THEOREM Inductive == Spec => []ProcessInv
<1>1. Init => ProcessInv
  BY ProcessStart
<1>2. ProcessInv /\ [Next]_vars => ProcessInv'
  BY ProcessKept
<1> QED
  BY <1>1, <1>2, PTL DEF Spec

\* The command main runs is the one its line ends with.
LEMMA AtLeaf == ASSUME ProcessInv, at \in Commands PROVE at = Leaf /\ at \notin {"main", "ended"}
BY GroupNames DEF ProcessInv, MainInv

\* What main and each of the commands keep in their variables, in every state of every line.
THEOREM TypeCorrect == Spec => []TypeOK
<1>1. ASSUME ProcessInv PROVE TypeOK
  <2>1. /\ line \in Lines
        /\ pos \in 0..Len(line)
        /\ at \in Groups \cup Commands \cup {"start", "main", "ended"}
        /\ exit \in {Unused, 0, 1, 2}
        /\ outcome \in {"none", "value", "zero", "error", "missing"}
    BY <1>1 DEF ProcessInv, MainInv
  <2>2. /\ Leaf = "merge:check" => Check!TypeOK
        /\ Leaf = "autoheal:maven-429" => Heal!TypeOK
        /\ Leaf = "autoheal:merge" => Merge!TypeOK
        /\ Leaf = "kp-new" => KeyPairs!TypeOK
        /\ Leaf \in Searches => Search!TypeOK
        /\ Leaf = "registry:search" => Registry!TypeOK
    BY <1>1, CheckType, HealResults, MergeResults, KeysResults, SearchResults, RegistryResults DEF ProcessInv, StagesInv
  <2>3. at = "pipelines:details" => Details!TypeOK
    BY <1>1, AtLeaf, GroupNames DEF ProcessInv, CallsInv, DetailsInv
  <2>4. at \in RealmLeaves => Keycloak!TypeOK
    BY <1>1, AtLeaf, GroupNames, Leaves DEF ProcessInv, CallsInv, RealmInv
  <2>5. at \in SingleLeaves => Single!TypeOK
    BY <1>1, AtLeaf, GroupNames, Leaves DEF ProcessInv, CallsInv, SingleInv
  <2> QED
    BY <2>1, <2>2, <2>3, <2>4, <2>5 DEF TypeOK
<1> QED
  BY <1>1, Inductive, PTL

\* merge:check prints a row only with its jobs, and a line on stderr only of an error
\* (mergecheck-command.go:172-184).
THEOREM PrintsWhatItHas == Spec => []NoNilDereference
<1>1. ProcessInv => NoNilDereference
  BY AtLeaf, GroupNames, CheckNoNil DEF ProcessInv, StagesInv, NoNilDereference
<1> QED
  BY <1>1, Inductive, PTL

\* merge:check gives every merge request of a project a row or a line on stderr, or the
\* project one line (mergecheck-command.go:172-184), and a search gives each project as
\* many as the words of the command line stand for it (utils.go:29-54, 118-131), whatever
\* calls failed and in whatever order the answers came.
THEOREM LosesNothing == Spec => []OneOutcomeEach
<1>1. ProcessInv => OneOutcomeEach
  BY AtLeaf, GroupNames, Leaves, CheckOutcomes, SearchOutcomes DEF ProcessInv, StagesInv, OneOutcomeEach
<1> QED
  BY <1>1, Inductive, PTL

\* Both autoheal commands restart only the jobs the filters of their stages let through.
THEOREM RestartsOnlyWanted == Spec => []RestartsWanted
<1>1. ProcessInv => RestartsWanted
  BY AtLeaf, GroupNames, HealResults, MergeResults DEF ProcessInv, StagesInv, RestartsWanted
<1> QED
  BY <1>1, Inductive, PTL

\* They restart a job at most once for each way from the arguments to it.
THEOREM RestartsNoMore == Spec => []RestartsBounded
<1>1. ProcessInv => RestartsBounded
  BY AtLeaf, GroupNames, HealResults, MergeResults DEF ProcessInv, StagesInv, RestartsBounded
<1> QED
  BY <1>1, Inductive, PTL

\* A job they report has been restarted, and a dry run of autoheal:maven-429 restarts none.
THEOREM ReportsWhatItDid == Spec => []ReportIsHonest
<1>1. ProcessInv => ReportIsHonest
  BY AtLeaf, GroupNames, HealResults, MergeResults DEF ProcessInv, StagesInv, ReportIsHonest
<1> QED
  BY <1>1, Inductive, PTL

\* With -my no query of pipelines:search is built from a name, or from half a name, that is
\* not the current user's: the goroutines race, but they all write the same words before
\* they read (pipeline-command.go:23).
THEOREM QueriesAreMine == Spec => []EveryQueryMine
<1>1. ProcessInv => EveryQueryMine
  BY AtLeaf, GroupNames, Leaves, SearchResults DEF ProcessInv, StagesInv, EveryQueryMine
<1> QED
  BY <1>1, Inductive, PTL

\* registry:search answers with what the projects before the first failing one hold.
THEOREM AnswersAPrefix == Spec => []AnswerIsPrefix
<1>1. ProcessInv => AnswerIsPrefix
  BY AtLeaf, GroupNames, RegistryResults DEF ProcessInv, StagesInv, AnswerIsPrefix
<1> QED
  BY <1>1, Inductive, PTL

\* kp-new reports no more key pairs of a name than there are, and asks for none twice.
THEOREM ReportsItsPairs == Spec => []PairsMatchReport
<1>1. ProcessInv => PairsMatchReport
  BY AtLeaf, GroupNames, KeysResults DEF ProcessInv, StagesInv, PairsMatchReport
<1> QED
  BY <1>1, Inductive, PTL

\* Exit status 0 of a command of one or two calls says that the server did what was asked.
THEOREM ZeroMeansDone == Spec => []HonestExit
<1>1. ProcessInv => HonestExit
  BY DEF ProcessInv, MainInv, Served, HonestExit
<1> QED
  BY <1>1, Inductive, PTL
=============================================================================
