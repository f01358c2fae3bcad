------------------------- MODULE ChartUpdate_proofs -------------------------
(***************************************************************************)
(* What the cron job writes into the branches, for any calls, charts,      *)
(* branches and kinds, and any number of publications, commits of others   *)
(* and faults.                                                             *)
(***************************************************************************)
EXTENDS ChartUpdate, SequenceTheorems, WellFoundedInduction, TLAPS

\* Between checkout and push the call has the local branch of its branch.
HeadInv == step \in {"pull", "update", "push"} => head[branch] # NoHead

\* The versions that the job wrote into a history are published and of the kind of b.
Filtered(published, history, b) ==
    \A k \in DOMAIN history : history[k].by = "job" =>
        /\ history[k].version \in DOMAIN published
        /\ published[history[k].version] = Wanted[b]

\* So are those in the clone, from where the next push takes them.
FilterInv == \A b \in Branches :
    /\ Filtered(registry, remote[b], b)
    /\ Filtered(registry, tracking[b], b)
    /\ head[b] # NoHead => Filtered(registry, head[b], b)

IInv ==
    /\ TypeOK
    /\ HeadInv
    /\ FilterInv

-----------------------------------------------------------------------------
(* Lemmas about the operators. *)

\* The order of the naturals as a set of pairs.
Less == {ss \in Nat \X Nat : ss[1] < ss[2]}

LEMMA LessWellFounded == IsWellFoundedOn(Less, Nat)
BY NatLessThanWellFounded DEF OpToRel, Less

\* Positions have a last one.
LEMMA LastPosition ==
    ASSUME NEW n \in Nat, NEW S \in SUBSET (1..n), S # {}
    PROVE  \E k \in S : \A j \in S : j <= k
<1> DEFINE T == {n - j : j \in S}
<1>1. \A j \in S : j \in Int /\ n - j \in Nat
  OBVIOUS
<1>2. T \subseteq Nat
  BY <1>1
<1>3. T # {}
  OBVIOUS
<1>4. \E x \in T : \A y \in T : ~(<<y, x>> \in Less)
  <2> HIDE DEF T
  <2> QED
    BY <1>2, <1>3, LessWellFounded, WFMin
<1>5. PICK x \in T : \A y \in T : ~(<<y, x>> \in Less)
  BY <1>4
<1>6. PICK k \in S : x = n - k
  OBVIOUS
<1>7. ASSUME NEW j \in S PROVE j <= k
  <2>1. n - j \in T /\ n - j \in Nat /\ n - k \in Nat
    BY <1>1
  <2>2. ~(n - j < n - k)
    BY <1>5, <1>6, <2>1 DEF Less
  <2> QED
    BY <1>1, <2>2
<1> QED
  BY <1>7

\* What sort_by and last choose is published, and of the wanted kind.
LEMMA LatestIsPublished ==
    ASSUME registry \in Seq(Kinds), NEW b, NEW current, LatestOf(b, current) # current
    PROVE  /\ LatestOf(b, current) \in DOMAIN registry
           /\ registry[LatestOf(b, current)] = Wanted[b]
<1> DEFINE passing == {k \in DOMAIN registry : registry[k] = Wanted[b]}
<1>1. passing # {}
  BY DEF LatestOf
<1>2. passing \in SUBSET (1..Len(registry)) /\ Len(registry) \in Nat
  OBVIOUS
<1>3. \E k \in passing : \A j \in passing : j <= k
  BY <1>1, <1>2, LastPosition
<1>4. LatestOf(b, current) = CHOOSE k \in passing : \A j \in passing : j <= k
  BY <1>1 DEF LatestOf
<1>5. LatestOf(b, current) \in passing
  BY <1>3, <1>4
<1> QED
  BY <1>5

\* A sequence is a prefix of itself and of what is appended to it.
LEMMA PrefixSelf == ASSUME NEW S, NEW s \in Seq(S) PROVE IsPrefix(s, s)
BY DEF IsPrefix

LEMMA PrefixAppend ==
    ASSUME NEW S, NEW s \in Seq(S), NEW e \in S PROVE IsPrefix(s, Append(s, e))
<1>1. Len(Append(s, e)) = Len(s) + 1 /\ Append(s, e) \in Seq(S)
  BY AppendProperties
<1>2. SubSeq(Append(s, e), 1, Len(s)) = s
  BY AppendProperties, SubSeqProperties, SeqEqual
<1>3. SubSeq(s, 1, Len(s)) = s
  BY SubSeqProperties, SeqEqual
<1> QED
  BY <1>1, <1>2, <1>3 DEF IsPrefix

\* One more commit, by somebody else or with a version of the kind, and one more
\* publication keep a history filtered.
LEMMA FilteredAppend ==
    ASSUME NEW published, NEW b, NEW history \in Seq(Commits), NEW commit \in Commits,
           Filtered(published, history, b),
           commit.by = "job" => /\ commit.version \in DOMAIN published
                                /\ published[commit.version] = Wanted[b]
    PROVE  Filtered(published, Append(history, commit), b)
<1> SUFFICES ASSUME NEW k \in DOMAIN Append(history, commit),
                    Append(history, commit)[k].by = "job"
             PROVE  /\ Append(history, commit)[k].version \in DOMAIN published
                    /\ published[Append(history, commit)[k].version] = Wanted[b]
  BY DEF Filtered
<1>1. CASE k \in DOMAIN history
  <2>1. Append(history, commit)[k] = history[k]
    BY <1>1, AppendProperties
  <2> QED
    BY <1>1, <2>1 DEF Filtered
<1>2. CASE k = Len(history) + 1
  <2>1. Append(history, commit)[k] = commit
    BY <1>2, AppendProperties
  <2> QED
    BY <2>1
<1> QED
  BY <1>1, <1>2, AppendProperties

LEMMA FilteredPublish ==
    ASSUME NEW published \in Seq(Kinds), NEW kind \in Kinds, NEW b, NEW history,
           Filtered(published, history, b)
    PROVE  Filtered(Append(published, kind), history, b)
<1>1. \A v \in DOMAIN published :
        v \in DOMAIN Append(published, kind) /\ Append(published, kind)[v] = published[v]
  BY AppendProperties
<1> QED
  BY <1>1 DEF Filtered

-----------------------------------------------------------------------------
(* What the actions have in common. *)

LEMMA BranchTyped == ASSUME TypeOK PROVE branch \in Branches /\ chart \in Charts
BY DEF TypeOK, branch, chart, Branches, Charts

\* The next call of a pod is one of its calls, and starts with the clone.
LEMMA NextCallTyped ==
    ASSUME TypeOK, NextCall PROVE call' \in DOMAIN Calls /\ step' \in {"idle", "clone"}
<1>1. Calls \in Seq([chart : Charts, branch : Branches]) /\ Calls # <<>>
  BY ChartAssumption
<1>2. DOMAIN Calls = 1..Len(Calls) /\ Len(Calls) \in Nat \ {0}
  BY <1>1, EmptySeq, LenProperties
<1>3. call \in 1..Len(Calls)
  BY <1>2 DEF TypeOK
<1>4. CASE call = Len(Calls)
  BY <1>2, <1>4 DEF NextCall
<1>5. CASE call # Len(Calls)
  <2>1. call' = call + 1 /\ step' = "clone"
    BY <1>5 DEF NextCall
  <2>2. \A n \in Nat : \A c \in 1..n : c # n => c + 1 \in 1..n
    OBVIOUS
  <2>3. call + 1 \in 1..Len(Calls)
    BY <1>2, <1>3, <1>5, <2>2, Zenon
  <2> QED
    BY <1>2, <2>1, <2>3
<1> QED
  BY <1>4, <1>5

LEMMA FaultTyped ==
    ASSUME TypeOK, NEW answered \in BOOLEAN, Fault(answered) PROVE faults' \in 0..MaxFaults
<1>1. MaxFaults \in Nat /\ faults \in 0..MaxFaults
  BY ChartAssumption DEF TypeOK
<1>2. CASE answered
  BY <1>1, <1>2 DEF Fault
<1>3. CASE ~answered
  BY <1>1, <1>3 DEF Fault
<1> QED
  BY <1>2, <1>3

\* A commit of the job sets its chart to a published version of the kind of its branch.
LEMMA UpdateCommits ==
    ASSUME IInv, NEW answered \in BOOLEAN, Update(answered), head' # head
    PROVE  \E commit \in Commits :
               /\ commit.version \in DOMAIN registry
               /\ registry[commit.version] = Wanted[branch]
               /\ head' = [head EXCEPT ![branch] = Append(@, commit)]
<1> DEFINE current == VersionOf(chart, head[branch])
           new == IF answered THEN LatestOf(branch, current) ELSE current
           commit == [chart |-> chart, version |-> new, by |-> "job"]
<1>1. new # current /\ head' = [head EXCEPT ![branch] = Append(@, commit)]
  BY DEF Update
<1>2. registry \in Seq(Kinds) /\ Len(registry) <= MaxPublished
  BY DEF IInv, TypeOK
<1>3. new = LatestOf(branch, current) /\ LatestOf(branch, current) # current
  BY <1>1
<1> HIDE DEF current
<1>4. new \in DOMAIN registry /\ registry[new] = Wanted[branch]
  BY <1>2, <1>3, LatestIsPublished
<1>5. new \in Versions
  <2>1. DOMAIN registry = 1..Len(registry) /\ Len(registry) \in Nat /\ MaxPublished \in Nat
    BY <1>2, ChartAssumption, LenProperties
  <2> HIDE DEF new
  <2> QED
    BY <1>2, <1>4, <2>1 DEF Versions
<1>6. commit \in Commits
  BY <1>5, BranchTyped DEF Commits, IInv
<1> QED
  BY <1>1, <1>4, <1>6

-----------------------------------------------------------------------------
(* The invariant holds initially. *)

LEMMA InitInv == Init => IInv
<1> SUFFICES ASSUME Init PROVE IInv
  OBVIOUS
<1>1. TypeOK
  <2>1. Len(Calls) \in Nat \ {0} /\ DOMAIN Calls = 1..Len(Calls)
    BY ChartAssumption, EmptySeq, LenProperties
  <2>2. call \in DOMAIN Calls
    BY <2>1 DEF Init
  <2>3. MaxPublished \in Nat /\ MaxEdits \in Nat /\ MaxFaults \in Nat
    BY ChartAssumption
  <2>4. registry \in Seq(Kinds) /\ Len(registry) <= MaxPublished
    BY <2>3 DEF Init
  <2>5. /\ remote \in [Branches -> Seq(Commits)]
        /\ tracking \in [Branches -> Seq(Commits)]
        /\ head \in [Branches -> Seq(Commits) \cup {NoHead}]
    BY DEF Init
  <2>6. edits \in 0..MaxEdits /\ faults \in 0..MaxFaults
    BY <2>3 DEF Init
  <2> QED
    BY <2>2, <2>4, <2>5, <2>6 DEF Init, TypeOK
<1>2. HeadInv
  BY DEF Init, HeadInv
<1>3. FilterInv
  BY DEF Init, FilterInv, Filtered
<1> QED
  BY <1>1, <1>2, <1>3 DEF IInv

-----------------------------------------------------------------------------
(* Every step keeps it. *)

\* A push of the server took gives it the history of the clone.
LEMMA PushTyped ==
    ASSUME IInv, NEW result \in {"ok", "failed", "lost"}, Push(result)
    PROVE  branch \in Branches /\ head[branch] \in Seq(Commits)
<1>1. branch \in Branches
  BY BranchTyped DEF IInv
<1>2. head[branch] # NoHead
  BY DEF IInv, HeadInv, Push
<1> QED
  BY <1>1, <1>2 DEF IInv, TypeOK

LEMMA TypeStep == IInv /\ [Next]_vars => TypeOK'
<1> SUFFICES ASSUME IInv, [Next]_vars PROVE TypeOK'
  OBVIOUS
<1>0. MaxPublished \in Nat /\ MaxEdits \in Nat /\ MaxFaults \in Nat
  BY ChartAssumption
<1> USE DEF IInv
<1>1. CASE StartPod
  BY <1>1 DEF StartPod, TypeOK, outside
<1>2. CASE Checkout
  BY <1>2, BranchTyped DEF Checkout, TypeOK, outside
<1>3. ASSUME NEW answered \in BOOLEAN, Clone(answered) PROVE TypeOK'
  <2>1. faults' \in 0..MaxFaults
    BY <1>3, FaultTyped DEF Clone
  <2>2. call' \in DOMAIN Calls /\ step' \in {"idle", "clone", "checkout"}
    BY <1>3, NextCallTyped DEF Clone, TypeOK
  <2> QED
    BY <1>3, <2>1, <2>2 DEF Clone, TypeOK, outside
<1>4. ASSUME NEW answered \in BOOLEAN, Pull(answered) PROVE TypeOK'
  <2>1. faults' \in 0..MaxFaults
    BY <1>4, FaultTyped DEF Pull
  <2>2. head' \in [Branches -> Seq(Commits) \cup {NoHead}]
    BY <1>4, BranchTyped DEF Pull, TypeOK
  <2> QED
    BY <1>4, <2>1, <2>2 DEF Pull, TypeOK, outside
<1>5. ASSUME NEW answered \in BOOLEAN, Update(answered) PROVE TypeOK'
  <2>1. faults' \in 0..MaxFaults
    BY <1>5, FaultTyped DEF Update
  <2>2. call' \in DOMAIN Calls /\ step' \in {"idle", "clone", "push"}
    BY <1>5, NextCallTyped DEF Update, TypeOK
  <2>3. head' \in [Branches -> Seq(Commits) \cup {NoHead}]
    <3>1. CASE head' = head
      BY <3>1 DEF TypeOK
    <3>2. CASE head' # head
      <4>1. PICK commit \in Commits : head' = [head EXCEPT ![branch] = Append(@, commit)]
        BY <1>5, <3>2, UpdateCommits
      <4>2. branch \in Branches /\ head[branch] # NoHead
        BY <1>5, BranchTyped DEF Update, HeadInv
      <4>3. Append(head[branch], commit) \in Seq(Commits)
        BY <4>2, AppendProperties DEF TypeOK
      <4> QED
        BY <4>1, <4>2, <4>3 DEF TypeOK
    <3> QED
      BY <3>1, <3>2
  <2> QED
    BY <1>5, <2>1, <2>2, <2>3 DEF Update, TypeOK, outside
<1>6. ASSUME NEW result \in {"ok", "failed", "lost"}, Push(result) PROVE TypeOK'
  <2>1. faults' \in 0..MaxFaults
    BY <1>6, FaultTyped DEF Push
  <2>2. call' \in DOMAIN Calls /\ step' \in {"idle", "clone"}
    BY <1>6, NextCallTyped DEF Push
  <2>3. branch \in Branches /\ head[branch] \in Seq(Commits)
    BY <1>6, PushTyped
  <2>4. remote' \in [Branches -> Seq(Commits)] /\ tracking' \in [Branches -> Seq(Commits)]
    BY <1>6, <2>3 DEF Push, TypeOK
  <2> QED
    BY <1>6, <2>1, <2>2, <2>4 DEF Push, TypeOK, outside
<1>7. CASE Kill
  <2>1. faults' \in 0..MaxFaults
    BY <1>7, FaultTyped DEF Kill
  <2>2. call' \in DOMAIN Calls
    <3>1. Len(Calls) \in Nat \ {0} /\ DOMAIN Calls = 1..Len(Calls)
      BY ChartAssumption, EmptySeq, LenProperties
    <3> QED
      BY <1>7, <3>1 DEF Kill
  <2> QED
    BY <1>7, <2>1, <2>2 DEF Kill, TypeOK, outside, clone
<1>8. ASSUME NEW kind \in Kinds, Publish(kind) PROVE TypeOK'
  <2>1. registry' \in Seq(Kinds) /\ Len(registry') <= MaxPublished
    BY <1>0, <1>8, AppendProperties DEF Publish, TypeOK
  <2> QED
    BY <1>8, <2>1 DEF Publish, TypeOK, clone
<1>9. ASSUME NEW c \in Charts, NEW b \in Branches, Edit(c, b) PROVE TypeOK'
  <2> DEFINE commit == [chart |-> c, version |-> 0, by |-> "other"]
  <2>1. edits' \in 0..MaxEdits
    BY <1>0, <1>9 DEF Edit, TypeOK
  <2>2. commit \in Commits
    BY <1>0 DEF Commits, Versions
  <2>3. remote' = [remote EXCEPT ![b] = Append(@, commit)]
    BY <1>9 DEF Edit
  <2>4. remote' \in [Branches -> Seq(Commits)]
    BY <2>2, <2>3, AppendProperties DEF TypeOK
  <2> QED
    BY <1>9, <2>1, <2>4 DEF Edit, TypeOK, clone
<1>10. CASE UNCHANGED vars
  BY <1>10 DEF vars, clone, TypeOK
<1> QED
  BY <1>1, <1>2, <1>3, <1>4, <1>5, <1>6, <1>7, <1>8, <1>9, <1>10 DEF Next, Job

LEMMA HeadStep == IInv /\ [Next]_vars => HeadInv'
<1> SUFFICES ASSUME IInv, [Next]_vars, step' \in {"pull", "update", "push"}
             PROVE  head'[branch'] # NoHead
  BY DEF HeadInv
<1>1. CASE Checkout
  <2>1. branch' = branch /\ branch \in Branches
    BY <1>1, BranchTyped DEF IInv, Checkout, branch
  <2>2. tracking[branch] # NoHead
    BY <2>1, ChartAssumption DEF IInv, TypeOK
  <2> QED
    BY <1>1, <2>1, <2>2 DEF Checkout, IInv, TypeOK
<1>2. ASSUME NEW answered \in BOOLEAN, Pull(answered) PROVE head'[branch'] # NoHead
  <2>1. branch' = branch /\ branch \in Branches /\ head[branch] # NoHead
    BY <1>2, BranchTyped DEF IInv, HeadInv, Pull, branch
  <2>2. remote[branch] # NoHead
    BY <2>1, ChartAssumption DEF IInv, TypeOK
  <2> QED
    BY <1>2, <2>1, <2>2 DEF Pull, IInv, TypeOK
<1>3. ASSUME NEW answered \in BOOLEAN, Update(answered) PROVE head'[branch'] # NoHead
  <2>1. branch \in Branches /\ head[branch] # NoHead
    BY <1>3, BranchTyped DEF IInv, HeadInv, Update
  <2>2. call' = call
    BY <1>3 DEF Update, NextCall
  <2>3. branch' = branch
    BY <2>2 DEF branch
  <2>4. CASE head' = head
    BY <2>1, <2>3, <2>4
  <2>5. CASE head' # head
    <3>1. PICK commit \in Commits : head' = [head EXCEPT ![branch] = Append(@, commit)]
      BY <1>3, <2>5, UpdateCommits
    <3>2. Append(head[branch], commit) \in Seq(Commits)
      BY <2>1, AppendProperties DEF IInv, TypeOK
    <3>3. head'[branch] = Append(head[branch], commit)
      BY <2>1, <3>1 DEF IInv, TypeOK
    <3> QED
      BY <2>3, <3>2, <3>3, ChartAssumption
  <2> QED
    BY <2>4, <2>5
<1>4. ~StartPod /\ ~Kill /\ \A answered \in BOOLEAN : ~Clone(answered)
  BY DEF StartPod, Kill, Clone, NextCall
<1>5. \A result \in {"ok", "failed", "lost"} : ~Push(result)
  BY DEF Push, NextCall
<1>6. CASE \/ \E kind \in Kinds : Publish(kind)
           \/ \E c \in Charts, b \in Branches : Edit(c, b)
           \/ UNCHANGED vars
  <2>1. UNCHANGED <<clone, call, step>>
    BY <1>6 DEF Publish, Edit, vars
  <2> QED
    BY <2>1 DEF IInv, HeadInv, branch, clone
<1> QED
  BY <1>1, <1>2, <1>3, <1>4, <1>5, <1>6 DEF Next, Job

LEMMA FilterStep == IInv /\ [Next]_vars => FilterInv'
<1> SUFFICES ASSUME IInv, [Next]_vars PROVE FilterInv'
  OBVIOUS
<1>1. ASSUME UNCHANGED registry,
             \A b \in Branches :
                 /\ Filtered(registry, remote'[b], b)
                 /\ Filtered(registry, tracking'[b], b)
                 /\ head'[b] # NoHead => Filtered(registry, head'[b], b)
      PROVE  FilterInv'
  BY <1>1 DEF FilterInv
<1>2. CASE StartPod
  BY <1>1, <1>2 DEF StartPod, outside, IInv, FilterInv, TypeOK
<1>3. CASE Checkout
  BY <1>1, <1>3 DEF Checkout, outside, IInv, FilterInv, TypeOK
<1>4. ASSUME NEW answered \in BOOLEAN, Clone(answered) PROVE FilterInv'
  BY <1>1, <1>4 DEF Clone, outside, IInv, FilterInv, TypeOK
<1>5. ASSUME NEW answered \in BOOLEAN, Pull(answered) PROVE FilterInv'
  BY <1>1, <1>5 DEF Pull, outside, IInv, FilterInv, TypeOK
<1>6. ASSUME NEW answered \in BOOLEAN, Update(answered) PROVE FilterInv'
  <2>1. UNCHANGED <<registry, remote, tracking>>
    BY <1>6 DEF Update, outside
  <2>2. CASE head' = head
    BY <1>1, <2>1, <2>2 DEF IInv, FilterInv
  <2>3. CASE head' # head
    <3>1. PICK commit \in Commits :
            /\ commit.version \in DOMAIN registry
            /\ registry[commit.version] = Wanted[branch]
            /\ head' = [head EXCEPT ![branch] = Append(@, commit)]
      BY <1>6, <2>3, UpdateCommits
    <3>2. branch \in Branches /\ head[branch] # NoHead
      BY <1>6, BranchTyped DEF IInv, HeadInv, Update
    <3>3. head[branch] \in Seq(Commits) /\ Filtered(registry, head[branch], branch)
      BY <3>2 DEF IInv, TypeOK, FilterInv
    <3>4. Filtered(registry, Append(head[branch], commit), branch)
      BY <3>1, <3>3, FilteredAppend
    <3>5. \A b \in Branches : head'[b] = IF b = branch THEN Append(head[branch], commit) ELSE head[b]
      BY <3>1 DEF IInv, TypeOK
    <3> QED
      BY <1>1, <2>1, <3>4, <3>5 DEF IInv, FilterInv
  <2> QED
    BY <2>2, <2>3
<1>7. ASSUME NEW result \in {"ok", "failed", "lost"}, Push(result) PROVE FilterInv'
  <2>1. branch \in Branches /\ head[branch] # NoHead
    BY <1>7, PushTyped, ChartAssumption
  <2>2. Filtered(registry, head[branch], branch)
    BY <2>1 DEF IInv, FilterInv
  <2> QED
    BY <1>1, <1>7, <2>2 DEF Push, outside, IInv, FilterInv, TypeOK
<1>8. CASE Kill
  BY <1>1, <1>8 DEF Kill, outside, clone, IInv, FilterInv
<1>9. ASSUME NEW kind \in Kinds, Publish(kind) PROVE FilterInv'
  BY <1>9, FilteredPublish DEF Publish, clone, IInv, FilterInv, TypeOK
<1>10. ASSUME NEW c \in Charts, NEW b \in Branches, Edit(c, b) PROVE FilterInv'
  <2> DEFINE commit == [chart |-> c, version |-> 0, by |-> "other"]
  <2>1. UNCHANGED <<registry, tracking, head>> /\ remote' = [remote EXCEPT ![b] = Append(@, commit)]
    BY <1>10 DEF Edit, clone
  <2>2. commit \in Commits
    BY ChartAssumption DEF Commits, Versions
  <2>3. remote[b] \in Seq(Commits) /\ Filtered(registry, remote[b], b)
    BY DEF IInv, TypeOK, FilterInv
  <2>4. Filtered(registry, Append(remote[b], commit), b)
    BY <2>2, <2>3, FilteredAppend
  <2>5. \A x \in Branches : remote'[x] = IF x = b THEN Append(remote[b], commit) ELSE remote[x]
    BY <2>1 DEF IInv, TypeOK
  <2> QED
    BY <1>1, <2>1, <2>4, <2>5 DEF IInv, FilterInv
<1>11. CASE UNCHANGED vars
  BY <1>1, <1>11 DEF vars, clone, IInv, FilterInv
<1> QED
  BY <1>2, <1>3, <1>4, <1>5, <1>6, <1>7, <1>8, <1>9, <1>10, <1>11 DEF Next, Job

-----------------------------------------------------------------------------
(* The theorems. *)

\* The invariant holds in every state of every run.
THEOREM Inductive == Spec => []IInv
<1>1. IInv /\ [Next]_vars => IInv'
  BY TypeStep, HeadStep, FilterStep DEF IInv
<1> QED
  BY <1>1, InitInv, PTL DEF Spec

\* The variables keep their types; the call a pod is at is always one of its calls.
THEOREM TypeCorrect == Spec => []TypeOK
BY Inductive, PTL DEF IInv

\* Whatever pods share the clone of two branches, whatever fails, is killed or stays in
\* a clone: no version that update_chart.sh writes gets onto a branch whose
\* --version-filter does not let it through.
THEOREM FiltersKept == Spec => []FilterKept
<1>1. IInv => FilterKept
  BY DEF IInv, FilterInv, Filtered, FilterKept
<1> QED
  BY <1>1, Inductive, PTL

\* No push of the job, and nothing else, takes a commit out of a branch.
THEOREM LosesNothing == Spec => NothingLost
<1>1. ASSUME IInv, [Next]_vars PROVE \A b \in Branches : IsPrefix(remote[b], remote'[b])
  <2> SUFFICES ASSUME NEW b \in Branches PROVE IsPrefix(remote[b], remote'[b])
    OBVIOUS
  <2>1. remote[b] \in Seq(Commits)
    BY <1>1 DEF IInv, TypeOK
  <2>2. CASE remote'[b] = remote[b]
    BY <2>1, <2>2, PrefixSelf
  <2>3. ASSUME NEW result \in {"ok", "failed", "lost"}, Push(result), remote'[b] # remote[b]
        PROVE  IsPrefix(remote[b], remote'[b])
    <3>1. result # "failed" /\ remote' = [remote EXCEPT ![branch] = head[branch]]
      BY <2>3 DEF Push
    <3>2. b = branch /\ remote'[b] = head[branch]
      BY <1>1, <2>3, <3>1 DEF IInv, TypeOK
    <3> QED
      BY <2>3, <3>1, <3>2 DEF Push
  <2>4. ASSUME NEW c \in Charts, NEW d \in Branches, Edit(c, d), remote'[b] # remote[b]
        PROVE  IsPrefix(remote[b], remote'[b])
    <3> DEFINE commit == [chart |-> c, version |-> 0, by |-> "other"]
    <3>1. commit \in Commits
      BY ChartAssumption DEF Commits, Versions
    <3>2. remote' = [remote EXCEPT ![d] = Append(@, commit)]
      BY <2>4 DEF Edit
    <3>3. remote'[b] = Append(remote[b], commit)
      BY <1>1, <2>4, <3>2 DEF IInv, TypeOK
    <3> QED
      BY <2>1, <3>1, <3>3, PrefixAppend
  <2>5. ASSUME remote' # remote
        PROVE  \/ \E result \in {"ok", "failed", "lost"} : Push(result)
               \/ \E c \in Charts, d \in Branches : Edit(c, d)
    <3>1. ~StartPod /\ ~Checkout /\ ~Kill
      BY <2>5 DEF StartPod, Checkout, Kill
    <3>2. \A answered \in BOOLEAN : ~Clone(answered) /\ ~Pull(answered) /\ ~Update(answered)
      BY <2>5 DEF Clone, Pull, Update
    <3>3. \A kind \in Kinds : ~Publish(kind)
      BY <2>5 DEF Publish
    <3>4. ~UNCHANGED vars
      BY <2>5 DEF vars
    <3> QED
      BY <1>1, <3>1, <3>2, <3>3, <3>4 DEF Next, Job
  <2> QED
    BY <2>2, <2>3, <2>4, <2>5
<1> QED
  BY <1>1, Inductive, PTL DEF Spec, NothingLost

=============================================================================
