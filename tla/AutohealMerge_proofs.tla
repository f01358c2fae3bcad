------------------------ MODULE AutohealMerge_proofs ------------------------
(***************************************************************************)
(* What autoheal:merge restarts and reports, for every set of projects,    *)
(* merge requests, pipelines, jobs and releases and every channel size.    *)
(***************************************************************************)
EXTENDS AutohealMerge, SequenceTheorems, FiniteSetTheorems, TLAPS

PP == INSTANCE StagedPipeline_proofs WITH
          Source <- MergeSource, Answers <- MergeAnswers, Skips <- MergeSkips

-----------------------------------------------------------------------------
(* What travels. *)

\* What the stages name their finds by.
LEMMA AppendToOne == ASSUME NEW a, NEW b PROVE Append(<<a>>, b) = <<a, b>>
<1> DEFINE s == Append(<<a>>, b)
           t == <<a, b>>
           S == {a, b}
<1>1. s \in Seq(S) /\ t \in Seq(S)
  OBVIOUS
<1>2. Len(s) = 2 /\ Len(t) = 2
  OBVIOUS
<1>3. s[1] = t[1]
  OBVIOUS
<1>4. s[2] = t[2]
  OBVIOUS
<1>5. \A i \in 1..Len(s) : s[i] = t[i]
  BY <1>2, <1>3, <1>4
<1>6. Len(s) = Len(t)
  BY <1>2
<1> HIDE DEF s, t, S
<1>7. s = t
  BY <1>1, <1>5, <1>6, SeqEqual, Zenon
<1> QED
  BY <1>7 DEF s, t

LEMMA AppendToTwo == ASSUME NEW a, NEW b, NEW c PROVE Append(<<a, b>>, c) = <<a, b, c>>
<1> DEFINE s == Append(<<a, b>>, c)
           t == <<a, b, c>>
           S == {a, b, c}
<1>1. s \in Seq(S) /\ t \in Seq(S)
  OBVIOUS
<1>2. Len(s) = 3 /\ Len(t) = 3
  OBVIOUS
<1>3. s[1] = t[1] /\ s[2] = t[2]
  OBVIOUS
<1>4. s[3] = t[3]
  OBVIOUS
<1>5. \A i \in 1..Len(s) : s[i] = t[i]
  BY <1>2, <1>3, <1>4
<1>6. Len(s) = Len(t)
  BY <1>2
<1> HIDE DEF s, t, S
<1>7. s = t
  BY <1>1, <1>5, <1>6, SeqEqual, Zenon
<1> QED
  BY <1>7 DEF s, t

LEMMA SourceItems == MergeSource \subseteq Item
  BY DEF MergeSource, Item

LEMMA MrItemFact ==
  ASSUME NEW x \in MrItems
  PROVE  /\ x \in Item /\ x[1] \in Args /\ x[2] \in MRs
         /\ x = <<x[1], x[2]>>
<1>1. PICK a \in Args : \E m \in Elements(Opened[a]) : x = <<a, m>>
  BY DEF MrItems
<1>2. PICK m \in Elements(Opened[a]) : x = <<a, m>>
  BY <1>1
<1>3. m \in MRs
  BY <1>2 DEF MRs
<1> QED
  BY <1>2, <1>3 DEF Item

LEMMA JobItemFact ==
  ASSUME NEW x \in JobItems
  PROVE  /\ x \in Item /\ x[3] \in Jobs
         /\ x = <<x[1], x[2], x[3]>>
<1>1. PICK y \in MrItems : \E j \in Elements(JobsOf(y[2])) : x = <<y[1], y[2], j>>
  BY DEF JobItems
<1>2. PICK j \in Elements(JobsOf(y[2])) : x = <<y[1], y[2], j>>
  BY <1>1
<1>3. j \in Jobs
  BY <1>2, MrItemFact DEF Jobs
<1> QED
  BY <1>2, <1>3 DEF Item

LEMMA SearchFinds ==
  ASSUME NEW x \in MergeSource
  PROVE  Extend(x, Opened[x[1]]) \in Seq(MrItems)
<1>1. PICK a \in Args : x = <<a>>
  BY DEF MergeSource
<1>2. Opened[a] \in Seq(MRs) /\ x[1] = a
  BY <1>1, MergeAssumption
<1>3. ASSUME NEW k \in DOMAIN Opened[a] PROVE Append(x, Opened[a][k]) \in MrItems
  <2>1. Append(x, Opened[a][k]) = <<a, Opened[a][k]>>
    BY <1>1, AppendToOne
  <2>2. Opened[a][k] \in Elements(Opened[a])
    BY DEF Elements
  <2> QED
    BY <2>1, <2>2 DEF MrItems
<1>4. DOMAIN Opened[a] = 1..Len(Opened[a]) /\ Len(Opened[a]) \in Nat
  BY <1>2
<1>5. Extend(x, Opened[a]) \in [1..Len(Opened[a]) -> MrItems]
  BY <1>3, <1>4 DEF Extend
<1> QED
  BY <1>2, <1>4, <1>5

LEMMA JobsFound ==
  ASSUME NEW x \in MrItems
  PROVE  Extend(x, JobsOf(x[2])) \in Seq(JobItems)
<1> DEFINE seq == JobsOf(x[2])
<1>1. seq \in Seq(Jobs)
  BY MrItemFact, MergeAssumption
<1>2. ASSUME NEW k \in DOMAIN seq PROVE Append(x, seq[k]) \in JobItems
  <2>1. Append(x, seq[k]) = <<x[1], x[2], seq[k]>>
    BY MrItemFact, AppendToTwo
  <2>2. seq[k] \in Elements(JobsOf(x[2]))
    BY DEF Elements
  <2> QED
    BY <2>1, <2>2 DEF JobItems
<1>3. DOMAIN seq = 1..Len(seq) /\ Len(seq) \in Nat
  BY <1>1
<1>4. Extend(x, seq) \in [1..Len(seq) -> JobItems]
  BY <1>2, <1>3 DEF Extend
<1> QED
  BY <1>3, <1>4

-----------------------------------------------------------------------------
(* The pipeline. *)

\* The constants are as StagedPipeline wants them.
LEMMA PipelineHolds ==
  /\ NStages \in Nat \ {0}
  /\ Cap \in Nat
  /\ MergeSource \subseteq Item
  /\ \A s \in P!Stages, i \in Item : MergeAnswers(s, i) \subseteq Seq(Item)
<1> SUFFICES ASSUME NEW s \in P!Stages, NEW i \in Item, NEW out \in MergeAnswers(s, i)
             PROVE  out \in Seq(Item)
  BY SourceItems, MergeAssumption DEF NStages
<1>1. MrItems \subseteq Item /\ JobItems \subseteq Item
  BY DEF Item
<1>2. i \in MrItems => Len(i) = 2
  BY MrItemFact
<1>3. i \in JobItems => Len(i) = 3
  BY JobItemFact
<1>4. i \in MergeSource => Len(i) = 1
  BY DEF MergeSource
<1>5. i \in MergeSource \/ i \in MrItems \/ i \in JobItems
  BY DEF Item, MergeSource
<1>6. CASE out = <<>>
  BY <1>6
<1>7. CASE out = <<i>>
  BY <1>7
<1>8. CASE Len(i) = 1 /\ out = Extend(i, Opened[i[1]])
  BY <1>1, <1>2, <1>3, <1>5, <1>8, SearchFinds
<1>9. CASE Len(i) = 2 /\ out = Extend(i, JobsOf(i[2]))
  BY <1>1, <1>3, <1>4, <1>5, <1>9, JobsFound
<1> QED
  BY <1>6, <1>7, <1>8, <1>9 DEF MergeAnswers

\* The pipeline of the module and that of the proofs about pipelines are one.
LEMMA SamePipeline == [P!Next]_(P!vars) => [PP!Next]_(PP!vars)
  BY DEF P!Next, PP!Next, P!vars, PP!vars, P!Plumbing, PP!Plumbing, P!Take, PP!Take,
     P!Close, PP!Close, P!Send, PP!Send, P!HandOver, PP!HandOver, P!Collect, PP!Collect,
     P!Return, PP!Return, P!Returned, PP!Returned, P!Answer, PP!Answer, P!Started,
     PP!Started, P!AfterSend, PP!AfterSend, P!Stages, PP!Stages, P!Idle, PP!Idle,
     P!Drained, PP!Drained

\* Every step of the command is one of the pipeline.
LEMMA SamePlumbing == P!Plumbing \/ UNCHANGED P!vars => PP!Plumbing \/ UNCHANGED PP!vars
  BY DEF P!vars, PP!vars, P!Plumbing, PP!Plumbing, P!Take, PP!Take,
     P!Close, PP!Close, P!Send, PP!Send, P!HandOver, PP!HandOver, P!Collect, PP!Collect,
     P!Return, PP!Return, P!Returned, PP!Returned, P!Started,
     PP!Started, P!AfterSend, PP!AfterSend, P!Stages, PP!Stages, P!Idle, PP!Idle,
     P!Drained, PP!Drained

LEMMA PipelineStep == ASSUME Next PROVE P!Next
<1>1. ASSUME P!Plumbing PROVE P!Next
  BY <1>1 DEF P!Next
<1>2. ASSUME NEW s \in P!Stages, NEW x \in calling[s], NEW out, P!Answer(s, x, out) PROVE P!Next
  BY <1>2 DEF P!Next, P!Answer
<1>3. Search..ReadLog \subseteq P!Stages /\ Mark \in P!Stages /\ Restart \in P!Stages
  BY DEF P!Stages, NStages, Search, ReadLog, Mark, Restart
<1> QED
  BY <1>1, <1>2, <1>3 DEF Next, ReadGitlab, MarkFalsePositive, JobRetry

LEMMA PipelineSteps == ASSUME [Next]_vars PROVE [PP!Next]_(PP!vars)
<1>1. [P!Next]_(P!vars)
  BY PipelineStep DEF vars
<1> QED
  BY <1>1, SamePipeline

\* An item is named by how it was reached.
LEMMA Appended ==
  ASSUME NEW x \in MergeSource \cup MrItems, NEW y \in MergeSource \cup MrItems, NEW a, NEW b,
         Len(x) = Len(y), Append(x, a) = Append(y, b)
  PROVE  x = y /\ a = b
<1>1. \A z \in MrItems : z = <<z[1], z[2]>>
  BY MrItemFact
<1>2. \A z \in MergeSource : \E c : z = <<c>>
  BY DEF MergeSource
<1>3. CASE x \in MrItems /\ y \in MrItems
  <2>1. Append(x, a) = <<x[1], x[2], a>> /\ Append(y, b) = <<y[1], y[2], b>>
    BY <1>1, <1>3, AppendToTwo
  <2>2. <<x[1], x[2], a>> = <<y[1], y[2], b>>
    BY <2>1
  <2>3. x[1] = y[1] /\ x[2] = y[2] /\ a = b
    BY <2>2
  <2>4. x = <<x[1], x[2]>> /\ y = <<y[1], y[2]>>
    BY <1>1, <1>3
  <2> QED
    BY <2>3, <2>4
<1>4. CASE x \in MergeSource /\ y \in MergeSource
  <2>1. PICK c : x = <<c>>
    BY <1>2, <1>4
  <2>2. PICK d : y = <<d>>
    BY <1>2, <1>4
  <2>3. Append(x, a) = <<c, a>> /\ Append(y, b) = <<d, b>>
    BY <2>1, <2>2, AppendToOne
  <2> QED
    BY <2>1, <2>2, <2>3
<1>5. (\A z \in MrItems : Len(z) = 2) /\ (\A z \in MergeSource : Len(z) = 1)
  BY <1>1, <1>2
<1> QED
  BY <1>3, <1>4, <1>5

\* So no two workers of a stage pass on the same.
LEMMA MergeDistinct == PP!Distinct
<1> SUFFICES ASSUME NEW s \in PP!Stages, NEW i \in Item, NEW j \in Item,
                    NEW out \in MergeAnswers(s, i), NEW other \in MergeAnswers(s, j),
                    NEW k \in DOMAIN out, NEW l \in DOMAIN other, out[k] = other[l]
             PROVE  i = j /\ (out = other => k = l)
  BY DEF PP!Distinct
<1> USE DEF Search, Details, FindJobs, ReadLog, Mark, Restart
<1>1. out # <<>> /\ other # <<>>
  OBVIOUS
<1>2. CASE s = Search
  <2>1. /\ Len(i) = 1 /\ out = Extend(i, Opened[i[1]])
        /\ Len(j) = 1 /\ other = Extend(j, Opened[j[1]])
    BY <1>1, <1>2 DEF MergeAnswers
  <2>2. i \in MergeSource /\ j \in MergeSource
    BY <2>1, MrItemFact, JobItemFact DEF Item, MergeSource
  <2>3. /\ k \in DOMAIN Opened[i[1]] /\ out[k] = Append(i, Opened[i[1]][k])
        /\ l \in DOMAIN Opened[j[1]] /\ other[l] = Append(j, Opened[j[1]][l])
    BY <2>1 DEF Extend
  <2>4. i = j /\ Opened[i[1]][k] = Opened[j[1]][l]
    BY <2>1, <2>2, <2>3, Appended
  <2>5. i[1] \in Args
    BY <2>2 DEF MergeSource
  <2> QED
    BY <2>3, <2>4, <2>5, MergeAssumption DEF IsInjective
<1>3. CASE s = FindJobs
  <2>1. /\ Len(i) = 2 /\ out = Extend(i, JobsOf(i[2]))
        /\ Len(j) = 2 /\ other = Extend(j, JobsOf(j[2]))
    BY <1>1, <1>3 DEF MergeAnswers
  <2>2. i \in MrItems /\ j \in MrItems
    BY <2>1, JobItemFact DEF Item, MergeSource
  <2>3. /\ k \in DOMAIN JobsOf(i[2]) /\ out[k] = Append(i, JobsOf(i[2])[k])
        /\ l \in DOMAIN JobsOf(j[2]) /\ other[l] = Append(j, JobsOf(j[2])[l])
    BY <2>1 DEF Extend
  <2>6. Append(i, JobsOf(i[2])[k]) = Append(j, JobsOf(j[2])[l])
    BY <2>3
  <2>7. Len(i) = Len(j)
    BY <2>1
  <2> DEFINE a == JobsOf(i[2])[k]
             b == JobsOf(j[2])[l]
  <2>8. Append(i, a) = Append(j, b)
    BY <2>6
  <2> HIDE DEF a, b
  <2>9. i = j /\ a = b
    BY <2>2, <2>7, <2>8, Appended
  <2>4. i = j /\ JobsOf(i[2])[k] = JobsOf(j[2])[l]
    BY <2>9 DEF a, b
  <2>5. i[2] \in MRs
    BY <2>2, MrItemFact
  <2> QED
    BY <2>3, <2>4, <2>5, MergeAssumption DEF IsInjective
<1>4. CASE s \notin {Search, FindJobs}
  <2>1. out = <<i>> /\ other = <<j>>
    BY <1>1, <1>4 DEF MergeAnswers
  <2> QED
    BY <2>1
<1> QED
  BY <1>2, <1>3, <1>4

\* The arguments lead to finitely many jobs.
LEMMA ImageFinite ==
  ASSUME NEW S, IsFiniteSet(S), NEW f, DOMAIN f = S PROVE IsFiniteSet({f[x] : x \in S})
<1> DEFINE T == {f[x] : x \in S}
           g == [x \in S |-> f[x]]
<1>1. g \in Surjection(S, T)
  BY DEF Surjection
<1> QED
  BY <1>1, FS_Surjection

LEMMA ElementsFinite == ASSUME NEW S, NEW seq \in Seq(S) PROVE IsFiniteSet(Elements(seq))
<1>1. DOMAIN seq = 1..Len(seq) /\ Len(seq) \in Nat
  OBVIOUS
<1>2. IsFiniteSet(1..Len(seq))
  BY <1>1, FS_Interval
<1> QED
  BY <1>1, <1>2, ImageFinite DEF Elements

LEMMA UnionFinite ==
  ASSUME NEW S, IsFiniteSet(S), NEW f, DOMAIN f = S, \A x \in S : IsFiniteSet(f[x])
  PROVE  IsFiniteSet(UNION {f[x] : x \in S})
<1> DEFINE T == {f[x] : x \in S}
<1>1. IsFiniteSet(T)
  BY ImageFinite
<1>2. \A y \in T : IsFiniteSet(y)
  OBVIOUS
<1> HIDE DEF T
<1>3. IsFiniteSet(UNION T)
  BY <1>1, <1>2, FS_UNION
<1> QED
  BY <1>3 DEF T

LEMMA JobItemsFinite == IsFiniteSet(JobItems)
<1>1. IsFiniteSet(MrItems)
  <2> DEFINE found(a) == {<<a, m>> : m \in Elements(Opened[a])}
             f == [a \in Args |-> found(a)]
  <2>1. ASSUME NEW a \in Args PROVE IsFiniteSet(found(a))
    <3> DEFINE ms == Elements(Opened[a])
               g == [m \in ms |-> <<a, m>>]
    <3>1. IsFiniteSet(ms)
      BY MergeAssumption, ElementsFinite
    <3>2. IsFiniteSet({g[m] : m \in ms})
      BY <3>1, ImageFinite
    <3>3. {g[m] : m \in ms} = found(a)
      OBVIOUS
    <3> QED
      BY <3>2, <3>3
  <2>4. DOMAIN f = Args /\ \A a \in Args : IsFiniteSet(f[a])
    BY <2>1
  <2>5. IsFiniteSet(Args)
    BY MergeAssumption
  <2> HIDE DEF f
  <2>2. IsFiniteSet(UNION {f[a] : a \in Args})
    BY <2>4, <2>5, UnionFinite
  <2>3. MrItems = UNION {f[a] : a \in Args}
    BY DEF f, MrItems
  <2> QED
    BY <2>2, <2>3
<1>2. IsFiniteSet(JobItems)
  <2> DEFINE found(x) == {<<x[1], x[2], j>> : j \in Elements(JobsOf(x[2]))}
             f == [x \in MrItems |-> found(x)]
  <2>1. ASSUME NEW x \in MrItems PROVE IsFiniteSet(found(x))
    <3> DEFINE js == Elements(JobsOf(x[2]))
               g == [j \in js |-> <<x[1], x[2], j>>]
    <3>1. IsFiniteSet(js)
      BY MrItemFact, MergeAssumption, ElementsFinite
    <3>2. IsFiniteSet({g[j] : j \in js})
      BY <3>1, ImageFinite
    <3>3. {g[j] : j \in js} = found(x)
      OBVIOUS
    <3> QED
      BY <3>2, <3>3
  <2>4. DOMAIN f = MrItems /\ \A x \in MrItems : IsFiniteSet(f[x])
    BY <2>1
  <2>5. IsFiniteSet(MrItems)
    BY <1>1
  <2> HIDE DEF f
  <2>2. IsFiniteSet(UNION {f[x] : x \in MrItems})
    BY <2>4, <2>5, UnionFinite
  <2>3. JobItems = UNION {f[x] : x \in MrItems}
    BY DEF f, JobItems
  <2> QED
    BY <2>2, <2>3
<1> QED
  BY <1>2

-----------------------------------------------------------------------------
(* The goroutines carry what belongs to their stage. *)

\* What has come through stage s (0 before the first) is of the kind that stage lets
\* through: after the log stage a Fortify job with a release, after the fifth stage
\* one whose release is marked (m), after the sixth one that has been restarted (r).
Fits(s, x, m, r) ==
    /\ s = 0 => x \in MergeSource
    /\ s \in {Search, Details} => x \in MrItems
    /\ s \in FindJobs..Restart => x \in JobItems
    /\ s \in ReadLog..Restart => Released(x)
    /\ s \in {Mark, Restart} => ReleaseIn[x[3]] \in m
    /\ s = Restart => r[x[3]] > 0

Fitting(m, r) == [s \in 0..NStages |-> {x \in Item : Fits(s, x, m, r)}]

ServersOK == marked \subseteq {ReleaseIn[j] : j \in FortifyJobs} /\ restarts \in [Jobs -> Nat]

\* The ways to a job that the last stage has no item for any more have restarted it
\* once each at most.
WaysTo(j) == {x \in JobItems : x[3] = j}
RestartInv == \A j \in Jobs : restarts[j] <= Cardinality(PP!Past(Restart, WaysTo(j)))

IInv ==
    /\ PP!IInv
    /\ PP!WorkInv
    /\ PP!Carried(Fitting(marked, restarts))
    /\ ServersOK
    /\ RestartOnlyMarked
    /\ RestartInv

LEMMA StagesFact == P!Stages = 1..6 /\ PP!Stages = 1..6 /\ NStages = 6
BY DEF P!Stages, PP!Stages, NStages

LEMMA CalledFits ==
  ASSUME IInv, NEW s \in 1..6, NEW x \in calling[s]
  PROVE  Fits(s - 1, x, marked, restarts)
<1>1. x \in Fitting(marked, restarts)[s - 1]
  <2>1. PICK F : F = Fitting(marked, restarts)
    OBVIOUS
  <2>2. PP!TypeOK /\ PP!Carried(F)
    BY <2>1 DEF IInv, PP!IInv
  <2>3. x \in F[s - 1]
    BY <2>2, PP!CalledCarried, PipelineHolds, StagesFact
  <2> QED
    BY <2>1, <2>3
<1>2. s - 1 \in 0..NStages
  BY StagesFact
<1> QED
  BY <1>1, <1>2 DEF Fitting

\* An answer lets only items of the stage's kind through.
LEMMA AnswersFit ==
  ASSUME NEW s \in Search..ReadLog, NEW x, Fits(s - 1, x, marked, restarts), NEW out \in MergeAnswers(s, x),
         NEW k \in 1..Len(out)
  PROVE  Fits(s, out[k], marked, restarts)
<1> USE DEF Search, Details, FindJobs, ReadLog, Mark, Restart
<1>1. out # <<>>
  OBVIOUS
<1>2. CASE s = 1
  <2>1. x \in MergeSource /\ out = Extend(x, Opened[x[1]])
    BY <1>1, <1>2 DEF Fits, MergeAnswers
  <2>2. out \in Seq(MrItems)
    BY <2>1, SearchFinds
  <2> QED
    BY <1>2, <2>2 DEF Fits
<1>3. CASE s = 2
  <2>1. x \in MrItems /\ out = <<x>>
    BY <1>1, <1>3 DEF Fits, MergeAnswers
  <2> QED
    BY <1>3, <2>1 DEF Fits
<1>4. CASE s = 3
  <2>1. x \in MrItems /\ out = Extend(x, JobsOf(x[2]))
    BY <1>1, <1>4 DEF Fits, MergeAnswers
  <2>2. out \in Seq(JobItems)
    BY <2>1, JobsFound
  <2> QED
    BY <1>4, <2>2 DEF Fits
<1>5. CASE s = 4
  <2>1. x \in JobItems /\ out = <<x>> /\ Released(x)
    BY <1>1, <1>5 DEF Fits, MergeAnswers
  <2> QED
    BY <1>5, <2>1 DEF Fits
<1> QED
  BY <1>2, <1>3, <1>4, <1>5

-----------------------------------------------------------------------------
(* The steps. *)

\* What the servers hold only grows, so what has been carried so far still fits.
Grows == marked \subseteq marked' /\ \A j \in Jobs : restarts[j] > 0 => restarts'[j] > 0

LEMMA FitsStill ==
  ASSUME IInv, Grows, NEW F, F = Fitting(marked', restarts') PROVE PP!Carried(F)
<1>1. ASSUME NEW s \in 0..NStages, NEW x, Fits(s, x, marked, restarts)
      PROVE  Fits(s, x, marked', restarts')
  <2>1. s = Restart => x[3] \in Jobs
    BY <1>1, JobItemFact DEF Fits, FindJobs, Restart
  <2> QED
    BY <1>1, <2>1 DEF Fits, Grows
<1>2. \A s \in 0..NStages : Fitting(marked, restarts)[s] \subseteq F[s]
  BY <1>1 DEF Fitting
<1>3. ASSUME NEW p \in PP!Undone PROVE p[1] - 1 \in 0..NStages
  <2>1. p \in PP!Nodes
    BY PP!UndoneNodes, PipelineHolds, StagesFact DEF IInv, PP!IInv
  <2> QED
    BY <2>1, StagesFact DEF PP!Nodes
<1> QED
  BY <1>2, <1>3, StagesFact DEF IInv, PP!Carried

\* A call that ends.
LEMMA AnswerKeeps ==
  ASSUME IInv, Grows, NEW s \in 1..6, NEW x \in calling[s], NEW out \in MergeAnswers(s, x),
         P!Answer(s, x, out), \A k \in 1..Len(out) : Fits(s, out[k], marked', restarts')
  PROVE  PP!Carried(Fitting(marked, restarts))'
<1>1. PP!Answer(s, x, out)
  BY DEF P!Answer, PP!Answer
<1>2. PICK F : F = Fitting(marked', restarts')
  OBVIOUS
<1>3. PP!Carried(F)
  BY <1>2, FitsStill
<1>4. \A k \in DOMAIN out : out[k] \in F[s]
  <2>1. x \in Item
    BY StagesFact DEF IInv, PP!IInv, PP!TypeOK
  <2>2. out \in Seq(Item)
    BY <2>1, PipelineHolds, StagesFact
  <2>3. s \in 0..NStages
    BY StagesFact
  <2> QED
    BY <1>2, <2>2, <2>3 DEF Fitting
<1>5. PP!Carried(F)'
  BY <1>1, <1>3, <1>4, PP!AnswerCarries, PipelineHolds, StagesFact DEF IInv
<1> QED
  BY <1>2, <1>5

\* What ends no call.
LEMMA PlumbingKeeps ==
  ASSUME IInv, P!Plumbing \/ UNCHANGED P!vars, UNCHANGED servers
  PROVE  PP!Carried(Fitting(marked, restarts))'
<1>1. PP!Plumbing \/ UNCHANGED PP!vars
  BY SamePlumbing
<1>2. PICK F : F = Fitting(marked, restarts)
  OBVIOUS
<1>3. PP!Moves
  BY <1>1, PP!PlumbingMoves, PipelineHolds, StagesFact DEF IInv
<1>4. PP!Carried(F)'
  BY <1>2, <1>3, PP!MovesCarry, PipelineHolds, StagesFact DEF IInv, PP!IInv
<1>5. F = Fitting(marked', restarts')
  BY <1>2 DEF servers
<1> QED
  BY <1>4, <1>5

LEMMA PipelineKept == ASSUME IInv, [Next]_vars PROVE PP!IInv' /\ PP!WorkInv'
<1>1. [PP!Next]_(PP!vars)
  BY PipelineSteps
<1> QED
  BY <1>1, PP!NextIInv, PP!NextApart, PipelineHolds, MergeDistinct, StagesFact DEF IInv

LEMMA JobTypes ==
  ASSUME NEW x \in JobItems, Released(x)
  PROVE  x[3] \in Jobs /\ x[3] \in FortifyJobs
BY JobItemFact DEF Released

\* Reading GitLab leaves the servers alone.
LEMMA ReadKeeps == ASSUME IInv, ReadGitlab PROVE PP!Carried(Fitting(marked, restarts))' /\ UNCHANGED servers
<1>1. PICK s \in Search..ReadLog : \E x \in calling[s] : \E out \in MergeAnswers(s, x) : P!Answer(s, x, out)
  BY DEF ReadGitlab
<1>2. PICK x \in calling[s] : \E out \in MergeAnswers(s, x) : P!Answer(s, x, out)
  BY <1>1
<1>3. PICK out \in MergeAnswers(s, x) : P!Answer(s, x, out)
  BY <1>2
<1>4. s \in 1..6
  BY DEF Search, ReadLog
<1>5. UNCHANGED servers
  BY DEF ReadGitlab
<1>6. Fits(s - 1, x, marked, restarts)
  BY <1>4, CalledFits
<1>7. \A k \in 1..Len(out) : Fits(s, out[k], marked', restarts')
  BY <1>5, <1>6, AnswersFit DEF servers
<1>8. Grows
  BY <1>5 DEF servers, Grows
<1> QED
  BY <1>3, <1>4, <1>5, <1>7, <1>8, AnswerKeeps

\* An item passes the fifth stage only when its release has been marked.
LEMMA MarkKeeps ==
  ASSUME IInv, NEW x \in calling[Mark], NEW took \in BOOLEAN, NEW out \in MergeAnswers(Mark, x),
         MarkFalsePositive(x, took, out)
  PROVE  PP!Carried(Fitting(marked, restarts))' /\ ServersOK' /\ RestartOnlyMarked'
<1>1. Mark \in 1..6 /\ Mark - 1 = ReadLog
  BY DEF Mark, ReadLog
<1>2. x \in JobItems /\ Released(x)
  <2>1. Fits(ReadLog, x, marked, restarts)
    BY <1>1, CalledFits
  <2> QED
    BY <2>1 DEF Fits, FindJobs, ReadLog, Restart
<1>3. restarts' = restarts /\ marked \subseteq marked'
  BY DEF MarkFalsePositive
<1>4. Grows
  BY <1>3 DEF Grows
<1>5. out = <<>> \/ out = <<x>>
  BY DEF MergeAnswers, Search, Details, FindJobs, ReadLog, Mark, Restart
<1>6. out = <<x>> => ReleaseIn[x[3]] \in marked'
  BY DEF MarkFalsePositive
<1>7. \A k \in 1..Len(out) : Fits(Mark, out[k], marked', restarts')
  <2>1. CASE out = <<>>
    BY <2>1
  <2>2. CASE out = <<x>>
    <3>1. Fits(Mark, x, marked', restarts')
      BY <1>2, <1>6, <2>2 DEF Fits, Search, Details, FindJobs, ReadLog, Mark, Restart
    <3> QED
      BY <2>2, <3>1
  <2> QED
    BY <1>5, <2>1, <2>2
<1>8. PP!Carried(Fitting(marked, restarts))'
  BY <1>1, <1>4, <1>7, AnswerKeeps DEF MarkFalsePositive
<1>9. ServersOK'
  BY <1>2, <1>3, JobTypes DEF IInv, ServersOK, MarkFalsePositive
<1>10. RestartOnlyMarked'
  BY <1>3 DEF IInv, RestartOnlyMarked
<1> QED
  BY <1>8, <1>9, <1>10

\* The sixth stage restarts only what has passed the fifth.
LEMMA RetryKeeps ==
  ASSUME IInv, NEW x \in calling[Restart], NEW took \in BOOLEAN,
         NEW out \in MergeAnswers(Restart, x), JobRetry(x, took, out)
  PROVE  /\ PP!Carried(Fitting(marked, restarts))' /\ ServersOK' /\ RestartOnlyMarked'
         /\ x \in WaysTo(x[3]) /\ x[3] \in Jobs
<1>1. Restart \in 1..6 /\ Restart - 1 = Mark
  BY DEF Mark, Restart
<1>2. x \in JobItems /\ Released(x) /\ ReleaseIn[x[3]] \in marked
  <2>1. Fits(Mark, x, marked, restarts)
    BY <1>1, CalledFits
  <2> QED
    BY <2>1 DEF Fits, FindJobs, ReadLog, Mark, Restart
<1>3. x[3] \in Jobs /\ x[3] \in FortifyJobs
  BY <1>2, JobTypes
<1>4. /\ marked' = marked
      /\ restarts' = IF took THEN [restarts EXCEPT ![x[3]] = @ + 1] ELSE restarts
      /\ restarts \in [Jobs -> Nat]
  BY DEF JobRetry, IInv, ServersOK
<1>5. Grows
  BY <1>3, <1>4 DEF Grows
<1>6. out = <<>> \/ out = <<x>>
  BY DEF MergeAnswers, Search, Details, FindJobs, ReadLog, Mark, Restart
<1>7. \A k \in 1..Len(out) : Fits(Restart, out[k], marked', restarts')
  <2>1. CASE out = <<>>
    BY <2>1
  <2>2. CASE out = <<x>>
    <3>1. took
      BY <2>2 DEF JobRetry
    <3>2. restarts'[x[3]] > 0
      BY <1>3, <1>4, <3>1
    <3>3. Fits(Restart, x, marked', restarts')
      BY <1>2, <1>4, <3>2 DEF Fits, Search, Details, FindJobs, ReadLog, Mark, Restart
    <3> QED
      BY <2>2, <3>3
  <2> QED
    BY <1>6, <2>1, <2>2
<1>8. PP!Carried(Fitting(marked, restarts))'
  BY <1>1, <1>5, <1>7, AnswerKeeps DEF JobRetry
<1>9. ServersOK'
  BY <1>3, <1>4 DEF IInv, ServersOK
<1>10. RestartOnlyMarked'
  <2> SUFFICES ASSUME NEW j \in Jobs, restarts'[j] > 0
               PROVE  j \in FortifyJobs /\ ReleaseIn[j] \in marked
    BY <1>4 DEF RestartOnlyMarked
  <2>1. CASE j = x[3]
    BY <1>2, <1>3, <2>1
  <2>2. CASE j # x[3]
    BY <1>4, <2>2 DEF IInv, RestartOnlyMarked
  <2> QED
    BY <2>1, <2>2
<1> QED
  BY <1>2, <1>3, <1>8, <1>9, <1>10 DEF WaysTo

\* Each restart has an item of its own.
LEMMA RestartStep == ASSUME IInv, [Next]_vars PROVE RestartInv'
<1> SUFFICES ASSUME NEW j \in Jobs
             PROVE  restarts'[j] <= Cardinality(PP!Past(Restart, WaysTo(j))')
  BY DEF RestartInv
<1>2. PICK S : S = WaysTo(j)
  OBVIOUS
<1>1. IsFiniteSet(S)
  BY <1>2, JobItemsFinite, FS_Subset DEF WaysTo
<1> DEFINE past == Cardinality(PP!Past(Restart, S))
           past2 == Cardinality(PP!Past(Restart, S)')
<1>3. restarts[j] \in Nat /\ restarts[j] <= past
  BY <1>2 DEF IInv, ServersOK, RestartInv
<1>4. /\ IsFiniteSet(PP!Past(Restart, S)')
      /\ PP!Past(Restart, S) \subseteq PP!Past(Restart, S)'
  <2>1. PP!Past(Restart, S) \subseteq PP!Past(Restart, S)'
    BY PipelineSteps, PP!PastGrows, PipelineHolds, MergeDistinct, StagesFact DEF IInv
  <2>2. PP!Past(Restart, S)' \subseteq S
    BY DEF PP!Past
  <2> QED
    BY <1>1, <2>1, <2>2, FS_Subset
<1>8. past \in Nat /\ past2 \in Nat /\ past <= past2
  BY <1>4, FS_Subset, FS_CardinalityType
<1>0. past2 = Cardinality(PP!Past(Restart, WaysTo(j))')
  BY <1>2
<1> SUFFICES restarts'[j] <= past2
  BY <1>0
<1>5. CASE restarts'[j] = restarts[j]
  BY <1>3, <1>8, <1>5
<1>6. ASSUME restarts'[j] # restarts[j],
             NEW x \in calling[Restart], NEW took \in BOOLEAN, NEW out \in MergeAnswers(Restart, x),
             JobRetry(x, took, out)
      PROVE  restarts'[j] <= past2
  <2>1. x[3] = j /\ restarts'[j] = restarts[j] + 1
    BY <1>6 DEF JobRetry, IInv, ServersOK
  <2>2. x \in S
    BY <1>2, <1>6, <2>1, RetryKeeps
  <2>3. PP!Answer(Restart, x, out) /\ Restart \in 1..6
    BY <1>6 DEF JobRetry, P!Answer, PP!Answer, Restart
  <2>4. x \notin PP!Past(Restart, S) /\ x \in PP!Past(Restart, S)'
    BY <2>2, <2>3, PP!AnsweredPast, PipelineHolds, StagesFact DEF IInv
  <2>5. past # past2
    BY <1>4, <2>4, FS_Subset
  <2> HIDE DEF past, past2
  <2> QED
    BY <1>3, <1>8, <2>1, <2>5
<1>7. ASSUME restarts' # restarts
      PROVE  \E x \in calling[Restart] : \E took \in BOOLEAN, out \in MergeAnswers(Restart, x) :
                 JobRetry(x, took, out)
  <2>1. ~UNCHANGED servers /\ ~UNCHANGED vars
    BY <1>7 DEF servers, vars
  <2>2. ~ReadGitlab
    BY <2>1 DEF ReadGitlab
  <2>3. \A x, took, out : ~MarkFalsePositive(x, took, out)
    BY <1>7 DEF MarkFalsePositive
  <2> QED
    BY <2>1, <2>2, <2>3 DEF Next
<1> QED
  BY <1>5, <1>6, <1>7

-----------------------------------------------------------------------------

LEMMA InitIInv == Init => IInv
<1> SUFFICES ASSUME Init PROVE IInv
  OBVIOUS
<1>1. PP!Init
  BY DEF Init, P!Init, PP!Init, P!Stages, PP!Stages
<1>2. PP!IInv /\ PP!WorkInv
  BY <1>1, PP!InitIInv, PP!InitWorks, PipelineHolds, StagesFact
<1>3. marked = {} /\ restarts = [j \in Jobs |-> 0]
  BY DEF Init
<1>4. ServersOK /\ RestartOnlyMarked
  BY <1>3 DEF ServersOK, RestartOnlyMarked
<1>5. PICK F : F = Fitting(marked, restarts)
  OBVIOUS
<1>6. MergeSource \subseteq F[0]
  BY <1>5, SourceItems, StagesFact DEF Fitting, Fits, Search, Details, FindJobs, ReadLog, Mark, Restart
<1>7. PP!Carried(F)
  BY <1>1, <1>6, PP!InitCarries, PipelineHolds, StagesFact
<1>8. ASSUME NEW j \in Jobs PROVE restarts[j] <= Cardinality(PP!Past(Restart, WaysTo(j)))
  <2>1. restarts[j] = 0
    BY <1>3
  <2>2. PP!Past(Restart, WaysTo(j)) \subseteq JobItems
    BY DEF PP!Past, WaysTo
  <2>3. Cardinality(PP!Past(Restart, WaysTo(j))) \in Nat
    BY <2>2, JobItemsFinite, FS_Subset, FS_CardinalityType
  <2> QED
    BY <2>1, <2>3
<1> QED
  BY <1>2, <1>4, <1>5, <1>7, <1>8 DEF IInv, RestartInv

LEMMA NextIInv == IInv /\ [Next]_vars => IInv'
<1> SUFFICES ASSUME IInv, [Next]_vars PROVE IInv'
  OBVIOUS
<1>1. PP!IInv' /\ PP!WorkInv' /\ RestartInv'
  BY PipelineKept, RestartStep
<1>2. ASSUME PP!Carried(Fitting(marked, restarts))', UNCHANGED servers PROVE IInv'
  BY <1>1, <1>2 DEF IInv, ServersOK, RestartOnlyMarked, servers
<1>3. CASE P!Plumbing /\ UNCHANGED servers
  BY <1>2, <1>3, PlumbingKeeps
<1>4. CASE ReadGitlab
  BY <1>2, <1>4, ReadKeeps
<1>5. ASSUME NEW x \in calling[Mark], NEW took \in BOOLEAN, NEW out \in MergeAnswers(Mark, x),
             MarkFalsePositive(x, took, out)
      PROVE  IInv'
  BY <1>1, <1>5, MarkKeeps DEF IInv
<1>6. ASSUME NEW x \in calling[Restart], NEW took \in BOOLEAN,
             NEW out \in MergeAnswers(Restart, x), JobRetry(x, took, out)
      PROVE  IInv'
  BY <1>1, <1>6, RetryKeeps DEF IInv
<1>7. CASE UNCHANGED vars
  <2>1. UNCHANGED P!vars /\ UNCHANGED servers
    BY <1>7 DEF vars, servers
  <2> QED
    BY <1>2, <2>1, PlumbingKeeps
<1> QED
  BY <1>3, <1>4, <1>5, <1>6, <1>7 DEF Next

THEOREM Inductive == Spec => []IInv
  BY InitIInv, NextIInv, PTL DEF Spec

-----------------------------------------------------------------------------
(* The results. *)

LEMMA Types == IInv => TypeOK
BY DEF IInv, ServersOK, TypeOK, PP!IInv, PP!TypeOK, P!TypeOK, P!Stages, PP!Stages

\* Types of the channels, the workers and the servers (autoheal-merge-command.go:41-231).
THEOREM TypeCorrect == Spec => []TypeOK
BY Types, Inductive, PTL

LEMMA Marked == IInv => RestartOnlyMarked
BY DEF IInv

\* No job is restarted before the findings of its release are marked, whatever fails
\* and however the goroutines of the six stages interleave (autoheal-merge-command.go:165-218).
THEOREM RestartsOnlyMarked == Spec => []RestartOnlyMarked
BY Marked, Inductive, PTL

LEMMA Restarted == IInv => ReportedWereRestarted
<1> SUFFICES ASSUME IInv, NEW k \in DOMAIN report PROVE restarts[report[k][3]] > 0
  BY DEF ReportedWereRestarted
<1>1. report[k] \in Fitting(marked, restarts)[NStages]
  BY DEF IInv, PP!Carried
<1>2. NStages \in 0..NStages /\ NStages = Restart
  BY StagesFact DEF Restart
<1> QED
  BY <1>1, <1>2 DEF Fitting, Fits

\* Every row of the report is a job that GitLab has restarted (autoheal-merge-command.go:209-229).
THEOREM ReportsOnlyRestarted == Spec => []ReportedWereRestarted
BY Restarted, Inductive, PTL

LEMMA Limited == IInv => RestartsBounded
<1> SUFFICES ASSUME IInv, NEW j \in Jobs PROVE restarts[j] <= Cardinality(WaysTo(j))
  BY DEF RestartsBounded, WaysTo
<1>1. PP!Past(Restart, WaysTo(j)) \subseteq WaysTo(j)
  BY DEF PP!Past
<1>2. IsFiniteSet(WaysTo(j))
  BY JobItemsFinite, FS_Subset DEF WaysTo
<1>3. PICK S : S = PP!Past(Restart, WaysTo(j))
  OBVIOUS
<1>4. /\ Cardinality(S) \in Nat /\ Cardinality(WaysTo(j)) \in Nat
      /\ Cardinality(S) <= Cardinality(WaysTo(j))
  BY <1>1, <1>2, <1>3, FS_Subset, FS_CardinalityType
<1>5. restarts[j] \in Nat /\ restarts[j] <= Cardinality(S)
  BY <1>3 DEF IInv, RestartInv, ServersOK
<1> QED
  BY <1>4, <1>5

\* One merge request of one argument restarts a job once at most: no goroutine gets an
\* item twice, whatever the channels' size and whatever answer is lost.
THEOREM RestartsLimited == Spec => []RestartsBounded
BY Limited, Inductive, PTL

-----------------------------------------------------------------------------
(* The command as a work list. *)

LEMMA SameUndone == P!Undone = PP!Undone
BY DEF P!Undone, PP!Undone, P!Stages, PP!Stages

\* The six stages handle each item as the work list does: nothing is made, lost or
\* repeated between them, and the command returns when nothing is left to do.  That it
\* returns is left to the runs.
THEOREM Refines == Spec => P!Work!Init /\ [][P!Work!Next]_(P!Work!vars)
<1>1. Init => P!Work!Init
  <2> SUFFICES ASSUME Init PROVE P!Work!Init
    OBVIOUS
  <2>1. PP!Init
    BY DEF Init, P!Init, PP!Init, P!Stages, PP!Stages
  <2>2. PP!Work!Init
    BY <2>1, PP!InitWorks, PipelineHolds DEF P!Stages, PP!Stages
  <2> QED
    BY <2>2, SameUndone DEF P!Work!Init, PP!Work!Init
<1>2. IInv /\ [Next]_vars => [P!Work!Next]_(P!Work!vars)
  <2> SUFFICES ASSUME IInv, [Next]_vars PROVE [P!Work!Next]_(P!Work!vars)
    OBVIOUS
  <2>1. PP!Works
    BY PipelineSteps, PP!NextWorks, PipelineHolds, MergeDistinct DEF IInv, P!Stages, PP!Stages
  <2>2. [PP!Work!Next]_(PP!Work!vars)
    BY <2>1 DEF PP!Works
  <2> QED
    BY <2>2 DEF P!Work!Next, PP!Work!Next, P!Work!vars, PP!Work!vars,
                P!Work!Handle, PP!Work!Handle, P!Work!LeaveOut, PP!Work!LeaveOut,
                P!Work!Report, PP!Work!Report, P!Work!Return, PP!Work!Return,
                P!Work!Passed, PP!Work!Passed, P!Work!Stages, PP!Work!Stages,
                P!Undone, PP!Undone, P!Stages, PP!Stages
<1> QED
  BY <1>1, <1>2, Inductive, PTL DEF Spec

=============================================================================
