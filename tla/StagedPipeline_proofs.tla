----------------------- MODULE StagedPipeline_proofs -----------------------
(***************************************************************************)
(* What holds of the goroutine pipeline for every number of stages, every  *)
(* channel capacity, every set of items and everything the calls may       *)
(* answer.                                                                 *)
(***************************************************************************)
EXTENDS StagedPipeline, Functions, TLAPS

\* A worker that is sending has something left to send.
SendingInv ==
    \A s \in Stages : \A w \in sending[s] : w[2] # <<>>

\* The stages close in order: a closed channel has no sender, and every stage
\* before it is closed, idle and read to the end.
CloseInv ==
    \A u \in Stages : ~open[u] =>
        /\ Idle(u)
        /\ \A t \in Stages : t < u => Idle(t) /\ Drained(t)

\* Main returns after it has read the last channel to its end.
ReturnInv == done => Drained(NStages)

IInv ==
    /\ TypeOK
    /\ SendingInv
    /\ CloseInv
    /\ ReturnInv

-----------------------------------------------------------------------------
(* Facts about one worker. *)

\* What a worker has to send is a non-empty sequence of items.
LEMMA WorkerFact ==
    ASSUME IInv, NEW s \in Stages, NEW w \in sending[s]
    PROVE  /\ w = <<w[1], w[2]>>
           /\ w[1] \in Item
           /\ w[2] \in Seq(Item) /\ w[2] # <<>>
           /\ Head(w[2]) \in Item
           /\ Tail(w[2]) \in Seq(Item)
<1>1. w \in Item \X Seq(Item)
  BY DEF IInv, TypeOK
<1>2. w[2] # <<>>
  BY DEF IInv, SendingInv
<1> QED
  BY <1>1, <1>2

\* After a send the workers of the stage still have their type and their work.
LEMMA AfterSendFact ==
    ASSUME IInv, NEW s \in Stages, NEW w \in sending[s]
    PROVE  /\ AfterSend(s, w) \subseteq Item \X Seq(Item)
           /\ \A v \in AfterSend(s, w) : v[2] # <<>>
<1>1. sending[s] \subseteq Item \X Seq(Item)
  BY DEF IInv, TypeOK
<1>2. \A v \in sending[s] : v[2] # <<>>
  BY DEF IInv, SendingInv
<1>3. <<w[1], Tail(w[2])>> \in Item \X Seq(Item)
  BY WorkerFact
<1>4. \A v \in AfterSend(s, w) :
         v \in sending[s] \/ (v = <<w[1], Tail(w[2])>> /\ Tail(w[2]) # <<>>)
  BY DEF AfterSend
<1>5. AfterSend(s, w) \subseteq Item \X Seq(Item)
  BY <1>1, <1>3, <1>4
<1>6. ASSUME NEW v \in AfterSend(s, w)
      PROVE  v[2] # <<>>
  <2>1. CASE v \in sending[s]
    BY <1>2, <2>1
  <2>2. CASE v = <<w[1], Tail(w[2])>> /\ Tail(w[2]) # <<>>
    BY <2>2
  <2> QED
    BY <1>4, <2>1, <2>2
<1> QED
  BY <1>5, <1>6

\* Starting a worker adds one item of the stage and touches no other stage.
LEMMA StartedFact ==
    ASSUME IInv, NEW s \in Stages, NEW i \in Item
    PROVE  /\ Started(s, i) \in [Stages -> SUBSET Item]
           /\ \A t \in Stages : t # s => Started(s, i)[t] = calling[t]
BY DEF Started, IInv, TypeOK

\* A stage whose worker is alive, and every stage after it, has not closed.
LEMMA AliveFact ==
    ASSUME IInv, NEW s \in Stages, ~Idle(s), NEW u \in Stages, ~open[u]
    PROVE  u < s
BY DEF IInv, CloseInv, Stages

-----------------------------------------------------------------------------
\* The initial state satisfies the invariant.
LEMMA InitIInv == Init => IInv
<1> SUFFICES ASSUME Init
             PROVE  IInv
  OBVIOUS
<1>1. <<>> \in Seq(Item) /\ Len(<<>>) = 0
  OBVIOUS
<1>2. calling \in [Stages -> SUBSET Item]
  BY PipelineAssumption DEF Init
<1>3. /\ sending \in [Stages -> SUBSET (Item \X Seq(Item))]
      /\ open \in [Stages -> BOOLEAN]
      /\ done \in BOOLEAN
  BY DEF Init
<1>4. queue \in [Stages -> Seq(Item)] /\ report \in Seq(Item)
  BY <1>1 DEF Init
<1>5. \A s \in Stages : Len(queue[s]) <= Cap
  BY <1>1, PipelineAssumption DEF Init
<1>6. SendingInv /\ CloseInv /\ ReturnInv
  BY DEF Init, SendingInv, CloseInv, ReturnInv
<1> QED
  BY <1>2, <1>3, <1>4, <1>5, <1>6 DEF IInv, TypeOK

\* A call that ends keeps the invariant.
LEMMA AnswerIInv ==
    ASSUME IInv, NEW s \in Stages, NEW i \in calling[s], NEW out \in Answers(s, i),
           Answer(s, i, out)
    PROVE  IInv'
<1>1. i \in Item /\ out \in Seq(Item)
  BY PipelineAssumption DEF IInv, TypeOK
<1>2. ~Idle(s)
  BY DEF Idle
<1>3. TypeOK'
  BY <1>1 DEF Answer, IInv, TypeOK
<1>4. SendingInv'
  BY <1>1 DEF Answer, IInv, TypeOK, SendingInv
<1>5. \A t \in Stages : t # s => (Idle(t)' <=> Idle(t))
  BY DEF Answer, Idle, IInv, TypeOK
<1>6. \A t \in Stages : Drained(t)' <=> Drained(t)
  BY DEF Answer, Drained
<1>7. CloseInv'
  <2> SUFFICES ASSUME NEW u \in Stages, ~open'[u]
               PROVE  /\ Idle(u)'
                      /\ \A t \in Stages : t < u => Idle(t)' /\ Drained(t)'
    BY DEF CloseInv
  <2>1. ~open[u] /\ u < s
    BY <1>2, AliveFact DEF Answer
  <2> QED
    BY <1>5, <1>6, <2>1 DEF IInv, CloseInv, Stages
<1>8. ReturnInv'
  BY DEF Answer, IInv, ReturnInv, Drained
<1> QED
  BY <1>3, <1>4, <1>7, <1>8 DEF IInv

\* A send on a buffered channel keeps the invariant.
LEMMA SendIInv ==
    ASSUME IInv, NEW s \in Stages, NEW w \in sending[s], Send(s, w)
    PROVE  IInv'
<1>1. ~Idle(s)
  BY DEF Idle
<1>2. TypeOK'
  <2>1. sending' \in [Stages -> SUBSET (Item \X Seq(Item))]
    BY AfterSendFact DEF Send, IInv, TypeOK
  <2>2. /\ queue'[s] \in Seq(Item)
        /\ Len(queue'[s]) <= Cap
    BY WorkerFact, PipelineAssumption DEF Send, IInv, TypeOK
  <2>3. \A t \in Stages : t # s => queue'[t] = queue[t]
    BY DEF Send, IInv, TypeOK
  <2>4. queue' \in [Stages -> Seq(Item)] /\ \A t \in Stages : Len(queue'[t]) <= Cap
    BY <2>2, <2>3 DEF Send, IInv, TypeOK
  <2> QED
    BY <2>1, <2>4 DEF Send, IInv, TypeOK
<1>3. SendingInv'
  BY AfterSendFact DEF Send, IInv, TypeOK, SendingInv
<1>4. CloseInv'
  <2> SUFFICES ASSUME NEW u \in Stages, ~open'[u]
               PROVE  /\ Idle(u)'
                      /\ \A t \in Stages : t < u => Idle(t)' /\ Drained(t)'
    BY DEF CloseInv
  <2>1. ~open[u] /\ u < s
    BY <1>1, AliveFact DEF Send
  <2>2. \A t \in Stages : t < s => (Idle(t)' <=> Idle(t)) /\ (Drained(t)' <=> Drained(t))
    BY DEF Send, Idle, Drained, IInv, TypeOK, Stages
  <2> QED
    BY <2>1, <2>2 DEF IInv, CloseInv, Stages
<1>5. ReturnInv'
  <2>1. ~done
    <3>1. ASSUME done PROVE FALSE
      BY <1>1, <3>1, AliveFact, PipelineAssumption DEF IInv, ReturnInv, Drained, Stages
    <3> QED
      BY <3>1
  <2> QED
    BY <2>1 DEF Send, ReturnInv
<1> QED
  BY <1>2, <1>3, <1>4, <1>5 DEF IInv

\* A dispatcher that takes an item keeps the invariant.
LEMMA TakeIInv ==
    ASSUME IInv, NEW s \in Stages, Take(s)
    PROVE  IInv'
<1>1. s - 1 \in Stages /\ queue[s - 1] # <<>>
  BY PipelineAssumption DEF Take, Stages
<1>2. /\ Head(queue[s - 1]) \in Item
      /\ Tail(queue[s - 1]) \in Seq(Item)
      /\ Len(Tail(queue[s - 1])) <= Cap
  BY <1>1, PipelineAssumption DEF IInv, TypeOK
<1>3. TypeOK'
  BY <1>1, <1>2, StartedFact DEF Take, IInv, TypeOK
<1>4. SendingInv'
  BY DEF Take, IInv, SendingInv
<1>5. \A u \in Stages : ~open[u] => u < s
  <2> SUFFICES ASSUME NEW u \in Stages, ~open[u], ~(u < s)
               PROVE  FALSE
    OBVIOUS
  <2>1. Drained(s - 1)
    BY <1>1, PipelineAssumption DEF IInv, CloseInv, Stages
  <2> QED
    BY <1>1, <2>1 DEF Drained
<1>6. CloseInv'
  <2> SUFFICES ASSUME NEW u \in Stages, ~open'[u]
               PROVE  /\ Idle(u)'
                      /\ \A t \in Stages : t < u => Idle(t)' /\ Drained(t)'
    BY DEF CloseInv
  <2>1. ~open[u] /\ u < s
    BY <1>5 DEF Take
  <2>2. \A t \in Stages : t < s => (Idle(t)' <=> Idle(t))
    BY <1>2, StartedFact DEF Take, Idle, Stages
  <2>3. \A t \in Stages : t < u => (Drained(t)' <=> Drained(t))
    BY <2>1 DEF Take, Drained, IInv, TypeOK, Stages
  <2> QED
    BY <2>1, <2>2, <2>3 DEF IInv, CloseInv, Stages
<1>7. ReturnInv'
  BY <1>1, <1>5, PipelineAssumption DEF Take, IInv, TypeOK, ReturnInv, Drained, Stages
<1> QED
  BY <1>3, <1>4, <1>6, <1>7 DEF IInv

\* Handing an item over an unbuffered channel keeps the invariant.
LEMMA HandOverIInv ==
    ASSUME IInv, NEW s \in Stages, NEW w \in sending[s], HandOver(s, w)
    PROVE  IInv'
<1>1. ~Idle(s)
  BY DEF Idle
<1>2. sending' \in [Stages -> SUBSET (Item \X Seq(Item))]
  BY AfterSendFact DEF HandOver, IInv, TypeOK
<1>3. SendingInv'
  BY AfterSendFact DEF HandOver, IInv, TypeOK, SendingInv
<1>4. /\ calling' \in [Stages -> SUBSET Item]
      /\ report' \in Seq(Item)
      /\ \A t \in Stages : t <= s => calling'[t] = calling[t]
  <2>1. CASE s = NStages
    <3>1. Head(w[2]) \in Item
      BY WorkerFact
    <3>2. calling' = calling /\ report' = Append(report, Head(w[2]))
      BY <2>1 DEF HandOver
    <3>3. report' \in Seq(Item)
      BY <3>1, <3>2 DEF IInv, TypeOK
    <3> QED
      BY <3>2, <3>3 DEF IInv, TypeOK
  <2>2. CASE s # NStages
    <3>1. s + 1 \in Stages
      BY <2>2, PipelineAssumption DEF Stages
    <3>2. calling' = Started(s + 1, Head(w[2])) /\ report' = report
      BY <2>2 DEF HandOver
    <3> QED
      BY <3>1, <3>2, WorkerFact, StartedFact DEF IInv, TypeOK, Stages
  <2> QED
    BY <2>1, <2>2
<1>5. TypeOK'
  BY <1>2, <1>4 DEF HandOver, IInv, TypeOK
<1>6. CloseInv'
  <2> SUFFICES ASSUME NEW u \in Stages, ~open'[u]
               PROVE  /\ Idle(u)'
                      /\ \A t \in Stages : t < u => Idle(t)' /\ Drained(t)'
    BY DEF CloseInv
  <2>1. ~open[u] /\ u < s
    BY <1>1, AliveFact DEF HandOver
  <2>2. \A t \in Stages : t < s => (Idle(t)' <=> Idle(t)) /\ (Drained(t)' <=> Drained(t))
    BY <1>4 DEF HandOver, Idle, Drained, IInv, TypeOK, Stages
  <2> QED
    BY <2>1, <2>2 DEF IInv, CloseInv, Stages
<1>7. ReturnInv'
  BY DEF HandOver, IInv, ReturnInv, Drained
<1> QED
  BY <1>3, <1>5, <1>6, <1>7 DEF IInv

\* Closing a channel keeps the invariant.
LEMMA CloseIInv ==
    ASSUME IInv, NEW s \in Stages, Close(s)
    PROVE  IInv'
<1>1. \A t \in Stages : Idle(t)' <=> Idle(t)
  BY DEF Close, Idle
<1>2. \A t \in Stages : Drained(t) => Drained(t)'
  BY DEF Close, Drained, IInv, TypeOK
<1>3. TypeOK' /\ SendingInv'
  BY DEF Close, IInv, TypeOK, SendingInv
<1>4. \A t \in Stages : t < s => Idle(t) /\ Drained(t)
  <2> SUFFICES ASSUME NEW t \in Stages, t < s
               PROVE  Idle(t) /\ Drained(t)
    OBVIOUS
  <2>1. s - 1 \in Stages /\ Drained(s - 1)
    BY PipelineAssumption DEF Close, Stages
  <2>2. ~open[s - 1]
    BY <2>1 DEF Drained
  <2> QED
    BY <2>1, <2>2, PipelineAssumption DEF IInv, CloseInv, Stages
<1>5. CloseInv'
  <2> SUFFICES ASSUME NEW u \in Stages, ~open'[u]
               PROVE  /\ Idle(u)'
                      /\ \A t \in Stages : t < u => Idle(t)' /\ Drained(t)'
    BY DEF CloseInv
  <2>1. CASE u = s
    BY <1>1, <1>2, <1>4, <2>1 DEF Close
  <2>2. CASE u # s
    <3>1. ~open[u]
      BY <2>2 DEF Close, IInv, TypeOK
    <3> QED
      BY <1>1, <1>2, <3>1 DEF IInv, CloseInv
  <2> QED
    BY <2>1, <2>2
<1>6. ReturnInv'
  BY <1>2, PipelineAssumption DEF Close, IInv, ReturnInv, Stages
<1> QED
  BY <1>3, <1>5, <1>6 DEF IInv

\* What main does keeps the invariant.
LEMMA MainIInv ==
    ASSUME IInv, Collect \/ Return \/ Returned
    PROVE  IInv'
<1>1. CASE Collect
  <2>0. NStages \in Stages
    BY PipelineAssumption DEF Stages
  <2>1. /\ Head(queue[NStages]) \in Item
        /\ Tail(queue[NStages]) \in Seq(Item)
        /\ Len(Tail(queue[NStages])) <= Cap
    BY <1>1, <2>0, PipelineAssumption DEF Collect, IInv, TypeOK
  <2>2. TypeOK'
    BY <1>1, <2>0, <2>1 DEF Collect, IInv, TypeOK
  <2>3. SendingInv'
    BY <1>1 DEF Collect, IInv, SendingInv
  <2>4. \A t \in Stages : Idle(t)' <=> Idle(t)
    BY <1>1 DEF Collect, Idle
  <2>5. \A t \in Stages : t < NStages => (Drained(t)' <=> Drained(t))
    BY <1>1, PipelineAssumption DEF Collect, Drained, IInv, TypeOK, Stages
  <2>6. CloseInv'
    BY <1>1, <2>4, <2>5, PipelineAssumption DEF Collect, IInv, CloseInv, Stages
  <2>7. ReturnInv'
    BY <1>1 DEF Collect, IInv, ReturnInv, Drained
  <2> QED
    BY <2>2, <2>3, <2>6, <2>7 DEF IInv
<1>2. CASE Return
  BY <1>2 DEF Return, IInv, TypeOK, SendingInv, CloseInv, ReturnInv, Idle, Drained
<1>3. CASE Returned
  BY <1>3 DEF Returned, vars, IInv, TypeOK, SendingInv, CloseInv, ReturnInv, Idle, Drained
<1> QED
  BY <1>1, <1>2, <1>3

\* The invariant is inductive.
LEMMA NextIInv == IInv /\ [Next]_vars => IInv'
<1> SUFFICES ASSUME IInv, [Next]_vars
             PROVE  IInv'
  OBVIOUS
<1>1. CASE UNCHANGED vars
  BY <1>1 DEF vars, IInv, TypeOK, SendingInv, CloseInv, ReturnInv, Idle, Drained
<1>2. CASE Plumbing
  BY <1>2, SendIInv, TakeIInv, HandOverIInv, CloseIInv, MainIInv DEF Plumbing
<1>3. ASSUME NEW s \in Stages, NEW i \in calling[s], NEW out \in Answers(s, i),
             Answer(s, i, out)
      PROVE  IInv'
  BY <1>3, AnswerIInv
<1> QED
  BY <1>1, <1>2, <1>3 DEF Next

\* The strengthened invariant holds of every behaviour of the pipeline.
THEOREM Inductive == Spec => []IInv
BY InitIInv, NextIInv, PTL DEF Spec

-----------------------------------------------------------------------------
(* The results. *)

\* Every variable keeps its type; in particular no buffer exceeds its capacity.
THEOREM TypeCorrect == Spec => []TypeOK
<1>1. IInv => TypeOK
  BY DEF IInv
<1> QED
  BY <1>1, Inductive, PTL

\* No goroutine can send on a closed channel.
THEOREM NeverSendsOnClosed == Spec => []NoSendOnClosed
<1>1. IInv => NoSendOnClosed
  BY DEF IInv, CloseInv, NoSendOnClosed
<1> QED
  BY <1>1, Inductive, PTL

\* When main has returned, every goroutine has ended and every channel is empty.
THEOREM LeavesNothingBehind == Spec => []NothingLeftBehind
<1>1. IInv => NothingLeftBehind
  <2> SUFFICES ASSUME IInv, done, NEW s \in Stages
               PROVE  Idle(s) /\ Drained(s)
    BY DEF NothingLeftBehind
  <2>1. NStages \in Stages /\ Drained(NStages) /\ ~open[NStages]
    BY PipelineAssumption DEF IInv, ReturnInv, Drained, Stages
  <2> QED
    BY <2>1, PipelineAssumption DEF IInv, CloseInv, Stages
<1> QED
  BY <1>1, Inductive, PTL

-----------------------------------------------------------------------------
(* The items as a forest: what an answer passes on is below the item it    *)
(* answers for, one stage on.                                              *)

Nodes == (1..NStages + 1) \X Item

Child(p, c) ==
    /\ p[1] \in Stages
    /\ \E out \in Answers(p[1], p[2]) : \E k \in DOMAIN out : c = <<p[1] + 1, out[k]>>

\* A relation that holds of an item and itself, and goes on to what is passed on.
Closed(R) ==
    /\ \A p \in Nodes : <<p, p>> \in R
    /\ \A p \in Nodes, q \in Nodes, c \in Nodes : <<p, q>> \in R /\ Child(q, c) => <<p, c>> \in R

\* The least one: q is p, or comes of it through the answers of one stage after another.
Below == {pq \in Nodes \X Nodes : \A R \in SUBSET (Nodes \X Nodes) : Closed(R) => pq \in R}

LEMMA ChildNode == ASSUME NEW p \in Nodes, NEW c, Child(p, c) PROVE c \in Nodes /\ c[1] = p[1] + 1
<1>1. PICK out \in Answers(p[1], p[2]) : \E k \in DOMAIN out : c = <<p[1] + 1, out[k]>>
  BY DEF Child
<1>2. PICK k \in DOMAIN out : c = <<p[1] + 1, out[k]>>
  BY <1>1
<1>3. p[1] \in Stages /\ p[2] \in Item
  BY DEF Child, Nodes
<1>4. out \in Seq(Item)
  BY <1>3, PipelineAssumption
<1>5. out[k] \in Item
  BY <1>4
<1>6. p[1] + 1 \in 1..NStages + 1
  BY <1>3, PipelineAssumption DEF Stages
<1> QED
  BY <1>2, <1>5, <1>6 DEF Nodes

LEMMA BelowClosed == Closed(Below)
<1>1. ASSUME NEW p \in Nodes PROVE <<p, p>> \in Below
  BY DEF Below, Closed
<1>2. ASSUME NEW p \in Nodes, NEW q \in Nodes, NEW c \in Nodes, <<p, q>> \in Below, Child(q, c)
      PROVE  <<p, c>> \in Below
  <2> SUFFICES ASSUME NEW R \in SUBSET (Nodes \X Nodes), Closed(R) PROVE <<p, c>> \in R
    BY DEF Below
  <2>1. <<p, q>> \in R
    BY <1>2 DEF Below
  <2> QED
    BY <1>2, <2>1 DEF Closed
<1> QED
  BY <1>1, <1>2 DEF Closed

LEMMA BelowLeast ==
    ASSUME NEW R \in SUBSET (Nodes \X Nodes), Closed(R), NEW p, NEW q, <<p, q>> \in Below
    PROVE  <<p, q>> \in R
BY DEF Below

LEMMA BelowNodes == ASSUME NEW p, NEW q, <<p, q>> \in Below PROVE p \in Nodes /\ q \in Nodes
BY DEF Below

\* What is below an item belongs to a later stage, or is the item.
LEMMA BelowLater ==
    ASSUME NEW p, NEW q, <<p, q>> \in Below PROVE p = q \/ p[1] < q[1]
<1> DEFINE R == {pq \in Nodes \X Nodes : pq[1] = pq[2] \/ pq[1][1] < pq[2][1]}
<1>1. \A u \in Nodes : u[1] \in Nat
  BY DEF Nodes
<1>2. Closed(R)
  <2>1. ASSUME NEW u \in Nodes, NEW v \in Nodes, NEW c \in Nodes, <<u, v>> \in R, Child(v, c)
        PROVE  <<u, c>> \in R
    <3>1. c[1] = v[1] + 1
      BY <2>1, ChildNode
    <3>2. u[1] < c[1]
      BY <1>1, <2>1, <3>1
    <3> QED
      BY <3>2
  <2> QED
    BY <2>1 DEF Closed
<1>3. <<p, q>> \in R
  BY <1>2, BelowLeast
<1> QED
  BY <1>3

\* What is below a child is below its parent.
LEMMA BelowParent ==
    ASSUME NEW p \in Nodes, NEW c, Child(p, c), NEW q, <<c, q>> \in Below PROVE <<p, q>> \in Below
<1> DEFINE R == {uv \in Nodes \X Nodes : uv[1] = c => <<p, uv[2]>> \in Below}
<1>1. <<p, c>> \in Below
  BY BelowClosed, ChildNode DEF Closed
<1>2. Closed(R)
  <2>1. ASSUME NEW u \in Nodes, NEW v \in Nodes, NEW d \in Nodes, <<u, v>> \in R, Child(v, d)
        PROVE  <<u, d>> \in R
    BY <2>1, BelowClosed DEF Closed
  <2>2. ASSUME NEW u \in Nodes PROVE <<u, u>> \in R
    BY <1>1
  <2> QED
    BY <2>1, <2>2 DEF Closed
<1>3. <<c, q>> \in R
  BY <1>2, BelowLeast
<1> QED
  BY <1>3

\* The parent of an item is the only way to it.
LEMMA OneParent ==
    ASSUME Distinct, NEW p \in Nodes, NEW q \in Nodes, NEW c, Child(p, c), Child(q, c) PROVE p = q
<1>1. PICK out \in Answers(p[1], p[2]) : \E k \in DOMAIN out : c = <<p[1] + 1, out[k]>>
  BY DEF Child
<1>2. PICK k \in DOMAIN out : c = <<p[1] + 1, out[k]>>
  BY <1>1
<1>3. PICK other \in Answers(q[1], q[2]) : \E l \in DOMAIN other : c = <<q[1] + 1, other[l]>>
  BY DEF Child
<1>4. PICK l \in DOMAIN other : c = <<q[1] + 1, other[l]>>
  BY <1>3
<1>5. p[1] \in Stages /\ q[1] \in Stages /\ p[2] \in Item /\ q[2] \in Item
  BY DEF Child, Nodes
<1>6. p[1] = q[1] /\ out[k] = other[l]
  BY <1>2, <1>4, <1>5 DEF Stages
<1>7. p[2] = q[2]
  BY <1>5, <1>6 DEF Distinct
<1> QED
  BY <1>6, <1>7 DEF Nodes

LEMMA OnlyThroughParent ==
    ASSUME Distinct, NEW p \in Nodes, NEW c, Child(p, c), NEW u, <<u, c>> \in Below
    PROVE  u = c \/ <<u, p>> \in Below
<1> DEFINE R == {vw \in Nodes \X Nodes : \/ vw[1] = vw[2]
                                         \/ \E q \in Nodes : Child(q, vw[2]) /\ <<vw[1], q>> \in Below}
<1>1. Closed(R)
  <2>1. ASSUME NEW v \in Nodes, NEW w \in Nodes, NEW d \in Nodes, <<v, w>> \in R, Child(w, d)
        PROVE  <<v, d>> \in R
    <3>1. <<v, w>> \in Below
      BY <2>1, BelowClosed DEF Closed
    <3> QED
      BY <2>1, <3>1
  <2> QED
    BY <2>1 DEF Closed
<1>2. <<u, c>> \in R
  BY <1>1, BelowLeast
<1>3. CASE u = c
  BY <1>3
<1>4. ASSUME NEW q \in Nodes, Child(q, c), <<u, q>> \in Below PROVE <<u, p>> \in Below
  BY <1>4, OneParent
<1> QED
  BY <1>2, <1>3, <1>4

-----------------------------------------------------------------------------
(* Nothing that is still to be handled comes of something else that is, nor *)
(* has anything come of it that is reported.                               *)

Apart(pending) == \A p \in pending, q \in pending : <<p, q>> \in Below => p = q

Unreported(pending, reported) ==
    \A p \in pending, r \in reported : <<p, <<NStages + 1, r>>>> \notin Below

\* The items an answer passes on are new, and apart from all others.
LEMMA HandledApart ==
    ASSUME Distinct, NEW pending \in SUBSET Nodes, Apart(pending), NEW p \in pending,
           NEW passed, \A c \in passed : Child(p, c)
    PROVE  /\ passed \in SUBSET Nodes
           /\ passed \cap pending = {}
           /\ Apart((pending \ {p}) \cup passed)
<1>1. ASSUME NEW c \in passed
      PROVE  c \in Nodes /\ c[1] = p[1] + 1 /\ p # c /\ <<p, c>> \in Below
  <2>1. p \in Nodes /\ c \in Nodes /\ c[1] = p[1] + 1 /\ p[1] \in Nat
    BY <1>1, ChildNode DEF Nodes
  <2>2. <<p, c>> \in Below
    BY <1>1, <2>1, BelowClosed DEF Closed
  <2> QED
    BY <2>1, <2>2
<1>2. passed \cap pending = {}
  BY <1>1 DEF Apart
<1>3. ASSUME NEW u \in (pending \ {p}) \cup passed, NEW v \in (pending \ {p}) \cup passed,
             <<u, v>> \in Below
      PROVE  u = v
  <2>1. CASE u \in pending /\ v \in pending
    BY <1>3, <2>1 DEF Apart
  <2>2. CASE u \in passed /\ v \in pending
    <3>1. <<p, v>> \in Below
      BY <1>3, <2>2, BelowParent
    <3>2. v # p
      BY <1>1, <1>3, <2>2
    <3> QED
      BY <2>2, <3>1, <3>2 DEF Apart
  <2>3. CASE u \in pending /\ u # p /\ v \in passed
    <3>1. u = v \/ <<u, p>> \in Below
      BY <1>3, <2>3, OnlyThroughParent
    <3> QED
      BY <2>3, <3>1 DEF Apart
  <2>4. CASE u \in passed /\ v \in passed
    <3>3. u[1] = p[1] + 1 /\ u \in Nodes
      BY <1>1, <2>4
    <3>4. v[1] = p[1] + 1
      BY <1>1, <2>4
    <3>1. u[1] = v[1] /\ u \in Nodes
      BY <3>3, <3>4
    <3>2. u[1] \in Nat
      BY <3>1 DEF Nodes
    <3> QED
      BY <1>3, <3>1, <3>2, BelowLater
  <2> QED
    BY <1>2, <1>3, <2>1, <2>2, <2>3, <2>4
<1> QED
  BY <1>1, <1>2, <1>3 DEF Apart

LEMMA HandledUnreported ==
    ASSUME NEW pending \in SUBSET Nodes, NEW reported, Unreported(pending, reported), NEW p \in pending,
           NEW passed, \A c \in passed : Child(p, c)
    PROVE  Unreported((pending \ {p}) \cup passed, reported)
BY BelowParent DEF Unreported

\* So is what is reported, once it is no longer pending.
LEMMA ReportedApart ==
    ASSUME NEW pending \in SUBSET Nodes, Apart(pending), NEW reported, Unreported(pending, reported),
           NEW i, <<NStages + 1, i>> \in pending
    PROVE  /\ i \notin reported
           /\ Unreported(pending \ {<<NStages + 1, i>>}, reported \cup {i})
<1> DEFINE p == <<NStages + 1, i>>
<1>1. <<p, p>> \in Below
  BY BelowClosed DEF Closed
<1> QED
  BY <1>1 DEF Apart, Unreported

-----------------------------------------------------------------------------
(* Where a pending item is: with the worker that waits for its answer, with *)
(* the one that sends it, or in the channel between.  It is in one place.  *)

Holds(seq, i) == \E k \in DOMAIN seq : seq[k] = i

Waits(t, i) == t \in Stages /\ i \in calling[t]
Queued(t, i) == t - 1 \in Stages /\ Holds(queue[t - 1], i)
Sent(t, i) == t - 1 \in Stages /\ \E w \in sending[t - 1] : Holds(w[2], i)

OnePlace(t, i) ==
    /\ Waits(t, i) => ~Queued(t, i) /\ ~Sent(t, i)
    /\ Queued(t, i) => ~Sent(t, i)

\* In its place it is once.
OnceIn(s) ==
    /\ IsInjective(queue[s])
    /\ \A w \in sending[s] :
        /\ IsInjective(w[2])
        /\ \A v \in sending[s], i \in Item : Holds(w[2], i) /\ Holds(v[2], i) => v = w

Once ==
    /\ \A s \in Stages : OnceIn(s)
    /\ \A t \in 1..NStages + 1, i \in Item : OnePlace(t, i)

LEMMA HoldsAppend ==
    ASSUME NEW S, NEW seq \in Seq(S), NEW x \in S, NEW i
    PROVE  Holds(Append(seq, x), i) <=> (Holds(seq, i) \/ i = x)
<1>1. /\ DOMAIN seq = 1..Len(seq) /\ Len(seq) \in Nat
      /\ DOMAIN Append(seq, x) = 1..Len(seq) + 1
      /\ \A k \in 1..Len(seq) : Append(seq, x)[k] = seq[k]
      /\ Append(seq, x)[Len(seq) + 1] = x
  OBVIOUS
<1>2. \A k \in 1..Len(seq) + 1 : k \in 1..Len(seq) \/ k = Len(seq) + 1
  BY <1>1
<1>3. \A k \in 1..Len(seq) : k \in 1..Len(seq) + 1
  BY <1>1
<1>4. Len(seq) + 1 \in 1..Len(seq) + 1
  BY <1>1
<1> QED
  BY <1>1, <1>2, <1>3, <1>4 DEF Holds

LEMMA InjectiveAppend ==
    ASSUME NEW S, NEW seq \in Seq(S), NEW x \in S, IsInjective(seq), ~Holds(seq, x)
    PROVE  IsInjective(Append(seq, x))
<1>1. /\ DOMAIN seq = 1..Len(seq) /\ Len(seq) \in Nat
      /\ DOMAIN Append(seq, x) = 1..Len(seq) + 1
      /\ \A k \in 1..Len(seq) : Append(seq, x)[k] = seq[k]
      /\ Append(seq, x)[Len(seq) + 1] = x
  OBVIOUS
<1>2. \A k \in 1..Len(seq) + 1 : k \in 1..Len(seq) \/ k = Len(seq) + 1
  BY <1>1
<1> QED
  BY <1>1, <1>2 DEF Holds, IsInjective

LEMMA HoldsTail ==
    ASSUME NEW S, NEW seq \in Seq(S), seq # <<>>, NEW i
    PROVE  Holds(seq, i) <=> (i = Head(seq) \/ Holds(Tail(seq), i))
<1>1. /\ DOMAIN seq = 1..Len(seq) /\ Len(seq) \in Nat \ {0}
      /\ Head(seq) = seq[1]
      /\ DOMAIN Tail(seq) = 1..Len(seq) - 1
      /\ \A k \in 1..Len(seq) - 1 : Tail(seq)[k] = seq[k + 1]
  OBVIOUS
<1>2. \A k \in 1..Len(seq) - 1 : k + 1 \in 1..Len(seq)
  BY <1>1
<1>3. \A k \in 1..Len(seq) : k = 1 \/ (k - 1 \in 1..Len(seq) - 1 /\ (k - 1) + 1 = k)
  BY <1>1
<1>4. 1 \in 1..Len(seq)
  BY <1>1
<1> QED
  BY <1>1, <1>2, <1>3, <1>4 DEF Holds

LEMMA InjectiveTail ==
    ASSUME NEW S, NEW seq \in Seq(S), seq # <<>>, IsInjective(seq)
    PROVE  IsInjective(Tail(seq)) /\ ~Holds(Tail(seq), Head(seq))
<1>1. /\ DOMAIN seq = 1..Len(seq) /\ Len(seq) \in Nat \ {0}
      /\ Head(seq) = seq[1]
      /\ DOMAIN Tail(seq) = 1..Len(seq) - 1
      /\ \A k \in 1..Len(seq) - 1 : Tail(seq)[k] = seq[k + 1]
  OBVIOUS
<1>2. \A k \in 1..Len(seq) - 1 : k + 1 \in 1..Len(seq) /\ k + 1 # 1
  BY <1>1
<1>3. \A k \in 1..Len(seq) - 1, l \in 1..Len(seq) - 1 : k + 1 = l + 1 => k = l
  BY <1>1
<1>4. 1 \in 1..Len(seq)
  BY <1>1
<1>5. IsInjective(Tail(seq))
  BY <1>1, <1>2, <1>3 DEF IsInjective
<1>6. ~Holds(Tail(seq), Head(seq))
  BY <1>1, <1>2, <1>4 DEF IsInjective, Holds
<1> QED
  BY <1>5, <1>6

LEMMA StageNumbers ==
    /\ \A s \in Stages : s \in Nat /\ s + 1 \in 1..NStages + 1 /\ s \in 1..NStages + 1 /\ (s + 1) - 1 = s
    /\ \A t \in 1..NStages + 1 : t \in Nat /\ t - 1 \in Nat /\ (t - 1) + 1 = t
BY PipelineAssumption DEF Stages

\* What is pending, by its place.
LEMMA PendingFrom ==
    ASSUME TypeOK
    PROVE  \A p : p \in Undone <=>
              \/ \E s \in Stages : \E i \in calling[s] : p = <<s, i>>
              \/ \E s \in Stages, i \in Item : p = <<s + 1, i>> /\ Holds(queue[s], i)
              \/ \E s \in Stages, i \in Item : p = <<s + 1, i>> /\ \E w \in sending[s] : Holds(w[2], i)
<1> TAKE p
<1>1. p \in Undone <=>
          \/ \E s \in Stages : \E i \in calling[s] : p = <<s, i>>
          \/ \E s \in Stages : \E k \in DOMAIN queue[s] : p = <<s + 1, queue[s][k]>>
          \/ \E s \in Stages : \E w \in sending[s] : \E k \in DOMAIN w[2] : p = <<s + 1, w[2][k]>>
  <2> DEFINE called == UNION {{<<s, i>> : i \in calling[s]} : s \in Stages}
             queued == UNION {{<<s + 1, queue[s][k]>> : k \in DOMAIN queue[s]} : s \in Stages}
             sent == UNION {UNION {{<<s + 1, w[2][k]>> : k \in DOMAIN w[2]} : w \in sending[s]} : s \in Stages}
  <2>1. p \in called <=> \E s \in Stages : \E i \in calling[s] : p = <<s, i>>
    OBVIOUS
  <2>2. p \in queued <=> \E s \in Stages : \E k \in DOMAIN queue[s] : p = <<s + 1, queue[s][k]>>
    OBVIOUS
  <2>3. p \in sent <=>
            \E s \in Stages : \E w \in sending[s] : \E k \in DOMAIN w[2] : p = <<s + 1, w[2][k]>>
    OBVIOUS
  <2>4. Undone = called \cup queued \cup sent
    BY DEF Undone
  <2> QED
    BY <2>1, <2>2, <2>3, <2>4
<1>2. \A s \in Stages : \A k \in DOMAIN queue[s] : queue[s][k] \in Item
  BY DEF TypeOK
<1>3. \A s \in Stages : \A w \in sending[s] : \A k \in DOMAIN w[2] : w[2][k] \in Item
  BY DEF TypeOK
<1> QED
  BY <1>1, <1>2, <1>3 DEF Holds

PendingInv ==
    /\ Undone \subseteq Nodes
    /\ \A t \in 1..NStages + 1, i \in Item :
          <<t, i>> \in Undone <=> Waits(t, i) \/ Queued(t, i) \/ Sent(t, i)

LEMMA PendingPlaces == TypeOK => PendingInv
<1> SUFFICES ASSUME TypeOK PROVE PendingInv
  OBVIOUS
<1>1. ASSUME NEW p \in Undone PROVE p \in Nodes
  <2>1. CASE \E s \in Stages : \E i \in calling[s] : p = <<s, i>>
    BY <2>1, StageNumbers DEF Nodes, TypeOK
  <2>2. CASE \E s \in Stages, i \in Item : p = <<s + 1, i>>
    BY <2>2, StageNumbers DEF Nodes
  <2> QED
    BY <1>1, <2>1, <2>2, PendingFrom
<1>2. ASSUME NEW t \in 1..NStages + 1, NEW i \in Item
      PROVE  <<t, i>> \in Undone <=> Waits(t, i) \/ Queued(t, i) \/ Sent(t, i)
  <2>1. (\E s \in Stages : \E j \in calling[s] : <<t, i>> = <<s, j>>) <=> Waits(t, i)
    BY DEF Waits
  <2>2. (\E s \in Stages, j \in Item : <<t, i>> = <<s + 1, j>> /\ Holds(queue[s], j)) <=> Queued(t, i)
    BY StageNumbers DEF Queued
  <2>3. (\E s \in Stages, j \in Item : <<t, i>> = <<s + 1, j>> /\ \E w \in sending[s] : Holds(w[2], j))
            <=> Sent(t, i)
    BY StageNumbers DEF Sent
  <2> QED
    BY <2>1, <2>2, <2>3, PendingFrom
<1> QED
  BY <1>1, <1>2 DEF PendingInv

LEMMA PendingPlacesNext == TypeOK' => PendingInv'
BY PendingPlaces, PTL

LEMMA SameNodes ==
    ASSUME NEW A \in SUBSET Nodes, NEW B \in SUBSET Nodes,
           \A t \in 1..NStages + 1, i \in Item : <<t, i>> \in A <=> <<t, i>> \in B
    PROVE  A = B
BY DEF Nodes

LEMMA PassedFact ==
    ASSUME NEW s \in Stages, NEW i \in Item, NEW out \in Answers(s, i)
    PROVE  /\ out \in Seq(Item)
           /\ <<s, i>> \in Nodes
           /\ Work!Passed(s, out) \in SUBSET Nodes
           /\ \A c \in Work!Passed(s, out) : Child(<<s, i>>, c)
           /\ \A t, y : <<t, y>> \in Work!Passed(s, out) <=> t = s + 1 /\ Holds(out, y)
<1>1. out \in Seq(Item)
  BY PipelineAssumption
<1>2. <<s, i>> \in Nodes
  BY StageNumbers DEF Nodes
<1>3. \A c \in Work!Passed(s, out) : Child(<<s, i>>, c)
  BY DEF Work!Passed, Child
<1>4. \A t, y : <<t, y>> \in Work!Passed(s, out) <=> t = s + 1 /\ Holds(out, y)
  BY DEF Work!Passed, Holds
<1>5. Work!Passed(s, out) \in SUBSET Nodes
  BY <1>2, <1>3, ChildNode
<1> QED
  BY <1>1, <1>2, <1>3, <1>4, <1>5

-----------------------------------------------------------------------------
(* An answer. *)

LEMMA AnswerPending ==
    ASSUME IInv, Once, NEW s \in Stages, NEW i \in calling[s], NEW out \in Answers(s, i),
           Answer(s, i, out)
    PROVE  Undone' = (Undone \ {<<s, i>>}) \cup Work!Passed(s, out)
<1>0. i \in Item /\ s \in 1..NStages + 1
  BY StageNumbers DEF IInv, TypeOK
<1>1. TypeOK /\ TypeOK' /\ PendingInv /\ PendingInv'
  BY AnswerIInv, PendingPlaces, PendingPlacesNext DEF IInv
<1>2. ASSUME NEW t \in 1..NStages + 1, NEW y \in Item
      PROVE  <<t, y>> \in Undone' <=> <<t, y>> \in (Undone \ {<<s, i>>}) \cup Work!Passed(s, out)
  <2>1. <<t, y>> \in Undone' <=> Waits(t, y)' \/ Queued(t, y)' \/ Sent(t, y)'
    BY <1>1 DEF PendingInv
  <2>2. Waits(t, y)' <=> Waits(t, y) /\ <<t, y>> # <<s, i>>
    BY <1>1 DEF Waits, Answer, TypeOK
  <2>3. Queued(t, y)' <=> Queued(t, y)
    BY DEF Queued, Answer
  <2>4. Sent(t, y)' <=> Sent(t, y) \/ (t = s + 1 /\ Holds(out, y))
    <3>1. CASE out = <<>>
      BY <3>1 DEF Sent, Answer, Holds
    <3>2. CASE out # <<>> /\ t = s + 1
      <4>1. t - 1 = s /\ sending'[s] = sending[s] \cup {<<i, out>>}
        BY <1>1, <3>2, StageNumbers DEF Answer, TypeOK
      <4>2. (\E w \in sending'[s] : Holds(w[2], y))
                <=> (\E w \in sending[s] : Holds(w[2], y)) \/ Holds(out, y)
        <5>1. \A w : w \in sending'[s] <=> w \in sending[s] \/ w = <<i, out>>
          BY <4>1
        <5>2. Holds(<<i, out>>[2], y) <=> Holds(out, y)
          OBVIOUS
        <5> QED
          BY <5>1, <5>2, Zenon
      <4>3. Sent(t, y)' <=> \E w \in sending'[s] : Holds(w[2], y)
        BY <4>1 DEF Sent
      <4>4. Sent(t, y) <=> \E w \in sending[s] : Holds(w[2], y)
        BY <4>1 DEF Sent
      <4> QED
        BY <3>2, <4>2, <4>3, <4>4
    <3>3. CASE out # <<>> /\ t # s + 1
      <4>1. t - 1 \in Stages => t - 1 # s /\ sending'[t - 1] = sending[t - 1]
        BY <1>1, <3>3, StageNumbers DEF Answer, TypeOK
      <4> QED
        BY <3>3, <4>1 DEF Sent
    <3> QED
      BY <3>1, <3>2, <3>3
  <2>5. <<t, y>> \in Undone <=> Waits(t, y) \/ Queued(t, y) \/ Sent(t, y)
    BY <1>1 DEF PendingInv
  <2>6. <<t, y>> = <<s, i>> => ~Queued(t, y) /\ ~Sent(t, y)
    BY <1>0 DEF Once, OnePlace, Waits
  <2>7. <<t, y>> \in Work!Passed(s, out) <=> t = s + 1 /\ Holds(out, y)
    BY <1>0, PassedFact
  <2> QED
    BY <2>1, <2>2, <2>3, <2>4, <2>5, <2>6, <2>7
<1> DEFINE pending == (Undone \ {<<s, i>>}) \cup Work!Passed(s, out)
<1>3. Undone' \in SUBSET Nodes /\ pending \in SUBSET Nodes
  BY <1>0, <1>1, PassedFact DEF PendingInv
<1>4. \A t \in 1..NStages + 1, y \in Item : <<t, y>> \in Undone' <=> <<t, y>> \in pending
  BY <1>2
<1> HIDE DEF pending
<1>5. Undone' = pending
  BY <1>3, <1>4, SameNodes
<1> QED
  BY <1>5 DEF pending

LEMMA AnswerOnce ==
    ASSUME IInv, Once, Distinct, Apart(Undone), NEW s \in Stages, NEW i \in calling[s],
           NEW out \in Answers(s, i), Answer(s, i, out)
    PROVE  Once'
<1>0. i \in Item /\ s \in 1..NStages + 1 /\ s + 1 \in 1..NStages + 1 /\ (s + 1) - 1 = s
  BY StageNumbers DEF IInv, TypeOK
<1>1. TypeOK /\ TypeOK' /\ PendingInv /\ PendingInv'
  BY AnswerIInv, PendingPlaces, PendingPlacesNext DEF IInv
<1>2. ASSUME NEW y \in Item, Holds(out, y)
      PROVE  ~Holds(queue[s], y) /\ (\A w \in sending[s] : ~Holds(w[2], y))
             /\ (s + 1 \in Stages => y \notin calling[s + 1])
  <2>1. <<s + 1, y>> \in Work!Passed(s, out)
    BY <1>0, <1>2, PassedFact
  <2>2. <<s, i>> \in Undone
    BY <1>0, <1>1 DEF PendingInv, Waits
  <2>3. <<s + 1, y>> \notin Undone
    <3> DEFINE p == <<s, i>>
               passed == Work!Passed(s, out)
    <3>1. Undone \in SUBSET Nodes /\ p \in Undone
      BY <1>1, <2>2 DEF PendingInv
    <3>2. \A c \in passed : Child(p, c)
      BY <1>0, PassedFact
    <3>3. <<s + 1, y>> \in passed
      BY <2>1
    <3> HIDE DEF p, passed
    <3>4. passed \cap Undone = {}
      BY <3>1, <3>2, HandledApart
    <3> QED
      BY <3>3, <3>4
  <2> QED
    BY <1>0, <1>1, <2>3 DEF PendingInv, Waits, Queued, Sent
<1>3. IsInjective(out)
  BY <1>0 DEF Distinct, IsInjective
<1>4. \A w \in sending'[s] : w \in sending[s] \/ w = <<i, out>>
  BY <1>1 DEF Answer, TypeOK
<1>5. \A t \in Stages : t # s => sending'[t] = sending[t]
  BY <1>1 DEF Answer, TypeOK
<1>6. queue' = queue /\ \A t \in Stages : calling'[t] \subseteq calling[t]
  BY <1>1 DEF Answer, TypeOK
<1>7. ASSUME NEW t \in Stages PROVE OnceIn(t)'
  <2>1. CASE t # s
    BY <1>5, <1>6, <2>1 DEF Once, OnceIn
  <2>2. CASE t = s
    <3>1. IsInjective(queue'[t])
      BY <1>6 DEF Once, OnceIn
    <3>2. ASSUME NEW w \in sending'[t] PROVE IsInjective(w[2])
      BY <1>3, <1>4, <2>2, <3>2 DEF Once, OnceIn
    <3>3. ASSUME NEW w \in sending'[t], NEW v \in sending'[t], NEW y \in Item,
                 Holds(w[2], y), Holds(v[2], y)
          PROVE  v = w
      BY <1>2, <1>4, <2>2, <3>3 DEF Once, OnceIn
    <3> QED
      BY <3>1, <3>2, <3>3 DEF OnceIn
  <2> QED
    BY <2>1, <2>2
<1>8. ASSUME NEW t \in 1..NStages + 1, NEW y \in Item PROVE OnePlace(t, y)'
  <2>1. Waits(t, y)' => Waits(t, y)
    BY <1>6 DEF Waits
  <2>2. Queued(t, y)' <=> Queued(t, y)
    BY <1>6 DEF Queued
  <2>3. Sent(t, y)' => Sent(t, y) \/ (t = s + 1 /\ Holds(out, y))
    BY <1>4, <1>5, StageNumbers DEF Sent
  <2>4. t = s + 1 /\ Holds(out, y) => ~Waits(t, y) /\ ~Queued(t, y)
    BY <1>0, <1>2 DEF Waits, Queued
  <2>5. OnePlace(t, y)
    BY DEF Once
  <2> QED
    BY <2>1, <2>2, <2>3, <2>4, <2>5 DEF OnePlace
<1> QED
  BY <1>7, <1>8 DEF Once

-----------------------------------------------------------------------------
(* A step that moves one item on. *)

Unmoved(t, i) ==
    /\ Waits(t, i)' <=> Waits(t, i)
    /\ Queued(t, i)' <=> Queued(t, i)
    /\ Sent(t, i)' <=> Sent(t, i)

\* When nothing else moves, what is pending changes in this item only.
LEMMA OneMoves ==
    ASSUME TypeOK, TypeOK', NEW t \in 1..NStages + 1, NEW i \in Item,
           \A u \in 1..NStages + 1, y \in Item : <<u, y>> # <<t, i>> => Unmoved(u, y)
    PROVE  /\ ~Waits(t, i)' /\ ~Queued(t, i)' /\ ~Sent(t, i)' => Undone' = Undone \ {<<t, i>>}
           /\ /\ Waits(t, i)' \/ Queued(t, i)' \/ Sent(t, i)'
              /\ Waits(t, i) \/ Queued(t, i) \/ Sent(t, i)
              => Undone' = Undone
<1> DEFINE fewer == Undone \ {<<t, i>>}
<1>1. PendingInv /\ PendingInv'
  BY PendingPlaces, PendingPlacesNext
<1>2. Undone \in SUBSET Nodes /\ Undone' \in SUBSET Nodes /\ fewer \in SUBSET Nodes
  BY <1>1 DEF PendingInv
<1>3. ASSUME NEW u \in 1..NStages + 1, NEW y \in Item, <<u, y>> # <<t, i>>
      PROVE  <<u, y>> \in Undone' <=> <<u, y>> \in Undone
  BY <1>1, <1>3 DEF PendingInv, Unmoved
<1>4. ASSUME ~Waits(t, i)' /\ ~Queued(t, i)' /\ ~Sent(t, i)' PROVE Undone' = fewer
  <2>1. <<t, i>> \notin Undone'
    BY <1>1, <1>4 DEF PendingInv
  <2>2. \A u \in 1..NStages + 1, y \in Item : <<u, y>> \in Undone' <=> <<u, y>> \in fewer
    BY <1>3, <2>1
  <2> HIDE DEF fewer
  <2> QED
    BY <1>2, <2>2, SameNodes
<1>5. ASSUME Waits(t, i)' \/ Queued(t, i)' \/ Sent(t, i)', Waits(t, i) \/ Queued(t, i) \/ Sent(t, i)
      PROVE  Undone' = Undone
  <2>1. <<t, i>> \in Undone' /\ <<t, i>> \in Undone
    BY <1>1, <1>5 DEF PendingInv
  <2>2. \A u \in 1..NStages + 1, y \in Item : <<u, y>> \in Undone' <=> <<u, y>> \in Undone
    BY <1>3, <2>1
  <2> QED
    BY <1>2, <2>2, SameNodes
<1> QED
  BY <1>4, <1>5

\* Nor is anything else in more places than before.
LEMMA OneMovesOnce ==
    ASSUME Once, NEW t \in 1..NStages + 1, NEW i \in Item, OnePlace(t, i)',
           \A u \in 1..NStages + 1, y \in Item : <<u, y>> # <<t, i>> => Unmoved(u, y),
           \A s \in Stages : OnceIn(s)'
    PROVE  Once'
<1>1. ASSUME NEW u \in 1..NStages + 1, NEW y \in Item, <<u, y>> # <<t, i>> PROVE OnePlace(u, y)'
  BY <1>1 DEF Once, OnePlace, Unmoved
<1>2. ASSUME NEW u \in 1..NStages + 1, NEW y \in Item PROVE OnePlace(u, y)'
  BY <1>1
<1> QED
  BY <1>2 DEF Once

\* What is left with the workers of a stage when one has sent its first item.
LEMMA AfterSendHolds ==
    ASSUME IInv, NEW s \in Stages, OnceIn(s), NEW w \in sending[s]
    PROVE  /\ Head(w[2]) \in Item /\ Holds(w[2], Head(w[2]))
           /\ \A y \in Item : (\E v \in AfterSend(s, w) : Holds(v[2], y))
                               <=> (\E v \in sending[s] : Holds(v[2], y)) /\ y # Head(w[2])
           /\ \A v \in AfterSend(s, w) : IsInjective(v[2])
           /\ \A v \in AfterSend(s, w), u \in AfterSend(s, w), y \in Item :
                 Holds(v[2], y) /\ Holds(u[2], y) => u = v
<1> DEFINE h == Head(w[2])
           rest == Tail(w[2])
           left == <<w[1], rest>>
<1>1. w[2] \in Seq(Item) /\ w[2] # <<>> /\ h \in Item
  BY WorkerFact
<1>2. \A y \in Item : Holds(w[2], y) <=> (y = h \/ Holds(rest, y))
  BY <1>1, HoldsTail
<1>3. IsInjective(rest) /\ ~Holds(rest, h)
  BY <1>1, InjectiveTail DEF OnceIn
<1>4. left[2] = rest
  OBVIOUS
<1>5. \A v \in AfterSend(s, w) : (v \in sending[s] /\ v # w) \/ v = left
  BY DEF AfterSend
<1>6. \A v \in sending[s] : v # w => v \in AfterSend(s, w)
  BY DEF AfterSend
<1>7. \A y : Holds(rest, y) => left \in AfterSend(s, w)
  BY DEF AfterSend, Holds
<1>8. \A v \in sending[s], y \in Item : Holds(v[2], y) /\ Holds(w[2], y) => v = w
  BY DEF OnceIn
<1> HIDE DEF h, rest, left
<1>9. ASSUME NEW y \in Item
      PROVE  (\E v \in AfterSend(s, w) : Holds(v[2], y)) <=> (\E v \in sending[s] : Holds(v[2], y)) /\ y # h
  <2>1. ASSUME NEW v \in AfterSend(s, w), Holds(v[2], y)
        PROVE  (\E u \in sending[s] : Holds(u[2], y)) /\ y # h
    <3>1. CASE v \in sending[s] /\ v # w
      BY <1>1, <1>2, <1>8, <2>1, <3>1
    <3>2. CASE v = left
      BY <1>2, <1>3, <1>4, <2>1, <3>2
    <3> QED
      BY <1>5, <3>1, <3>2
  <2>2. ASSUME NEW v \in sending[s], Holds(v[2], y), y # h
        PROVE  \E u \in AfterSend(s, w) : Holds(u[2], y)
    <3>1. CASE v = w
      BY <1>2, <1>4, <1>7, <2>2, <3>1
    <3>2. CASE v # w
      BY <1>6, <2>2, <3>2
    <3> QED
      BY <3>1, <3>2
  <2> QED
    BY <2>1, <2>2
<1>10. ASSUME NEW v \in AfterSend(s, w) PROVE IsInjective(v[2])
  BY <1>3, <1>4, <1>5 DEF OnceIn
<1>11. ASSUME NEW v \in AfterSend(s, w), NEW u \in AfterSend(s, w), NEW y \in Item,
              Holds(v[2], y), Holds(u[2], y)
       PROVE  u = v
  <2>1. CASE u = left /\ v = left
    BY <2>1
  <2>2. CASE u = left /\ v \in sending[s] /\ v # w
    BY <1>2, <1>4, <1>8, <1>11, <2>2
  <2>3. CASE v = left /\ u \in sending[s] /\ u # w
    BY <1>2, <1>4, <1>8, <1>11, <2>3
  <2>4. CASE u \in sending[s] /\ v \in sending[s]
    BY <1>11, <2>4 DEF OnceIn
  <2> QED
    BY <1>5, <2>1, <2>2, <2>3, <2>4
<1>12. Holds(w[2], h)
  BY <1>1, <1>2
<1> QED
  BY <1>1, <1>9, <1>10, <1>11, <1>12 DEF h

\* What the workers of the other stages send, and what the first of a queue is.
LEMMA SentByOthers ==
    ASSUME TypeOK, NEW s \in Stages, NEW workers, sending' = [sending EXCEPT ![s] = workers],
           NEW t \in 1..NStages + 1, NEW y
    PROVE  /\ t # s + 1 => (Sent(t, y)' <=> Sent(t, y))
           /\ t = s + 1 => (Sent(t, y)' <=> \E v \in workers : Holds(v[2], y))
<1>1. sending'[s] = workers /\ \A u \in Stages : u # s => sending'[u] = sending[u]
  BY DEF TypeOK
<1>2. t # s + 1 => t - 1 # s
  BY StageNumbers
<1>3. t = s + 1 => t - 1 = s
  BY StageNumbers
<1> QED
  BY <1>1, <1>2, <1>3 DEF Sent

LEMMA QueuedByOthers ==
    ASSUME TypeOK, NEW s \in Stages, NEW buffer, queue' = [queue EXCEPT ![s] = buffer],
           NEW t \in 1..NStages + 1, NEW y
    PROVE  /\ t # s + 1 => (Queued(t, y)' <=> Queued(t, y))
           /\ t = s + 1 => (Queued(t, y)' <=> Holds(buffer, y))
<1>1. queue'[s] = buffer /\ \A u \in Stages : u # s => queue'[u] = queue[u]
  BY DEF TypeOK
<1>2. t # s + 1 => t - 1 # s
  BY StageNumbers
<1>3. t = s + 1 => t - 1 = s
  BY StageNumbers
<1> QED
  BY <1>1, <1>2, <1>3 DEF Queued

LEMMA WaitsStarted ==
    ASSUME TypeOK, NEW s \in Stages, NEW i \in Item, calling' = Started(s, i),
           NEW t \in 1..NStages + 1, NEW y
    PROVE  Waits(t, y)' <=> Waits(t, y) \/ (<<t, y>> = <<s, i>> /\ ~Skips(s, i))
BY DEF Waits, Started, TypeOK

LEMMA SendMoves ==
    ASSUME IInv, Once, NEW s \in Stages, NEW w \in sending[s], Send(s, w)
    PROVE  Undone' = Undone /\ Once'
<1> DEFINE h == Head(w[2])
           t == s + 1
<1>0. TypeOK /\ TypeOK' /\ t \in 1..NStages + 1 /\ t - 1 = s /\ OnceIn(s)
  BY SendIInv, StageNumbers DEF IInv, Once
<1>1. /\ h \in Item /\ Holds(w[2], h)
      /\ \A y \in Item : (\E v \in AfterSend(s, w) : Holds(v[2], y))
                          <=> (\E v \in sending[s] : Holds(v[2], y)) /\ y # h
      /\ \A v \in AfterSend(s, w) : IsInjective(v[2])
      /\ \A v \in AfterSend(s, w), u \in AfterSend(s, w), y \in Item :
            Holds(v[2], y) /\ Holds(u[2], y) => u = v
  BY <1>0, AfterSendHolds
<1>2. queue[s] \in Seq(Item)
  BY <1>0 DEF TypeOK
<1>3. /\ queue' = [queue EXCEPT ![s] = Append(queue[s], h)]
      /\ sending' = [sending EXCEPT ![s] = AfterSend(s, w)]
      /\ calling' = calling
  BY DEF Send
<1> HIDE DEF h, t
<1>4. \A u \in 1..NStages + 1, y \in Item : Waits(u, y)' <=> Waits(u, y)
  BY <1>3 DEF Waits
<1>5. \A u \in 1..NStages + 1, y \in Item : Queued(u, y)' <=> Queued(u, y) \/ <<u, y>> = <<t, h>>
  <2> TAKE u \in 1..NStages + 1, y \in Item
  <2>1. Holds(Append(queue[s], h), y) <=> Holds(queue[s], y) \/ y = h
    BY <1>1, <1>2, HoldsAppend
  <2>2. u = t => (Queued(u, y) <=> Holds(queue[s], y))
    BY <1>0 DEF Queued
  <2> QED
    BY <1>0, <1>3, <2>1, <2>2, QueuedByOthers DEF t
<1>6. \A u \in 1..NStages + 1, y \in Item : Sent(u, y)' <=> Sent(u, y) /\ <<u, y>> # <<t, h>>
  <2> TAKE u \in 1..NStages + 1, y \in Item
  <2>1. u = t => (Sent(u, y) <=> \E v \in sending[s] : Holds(v[2], y))
    BY <1>0 DEF Sent
  <2> QED
    BY <1>0, <1>1, <1>3, <2>1, SentByOthers DEF t
<1>7. Sent(t, h)
  BY <1>0, <1>1 DEF Sent
<1>8. ~Waits(t, h) /\ ~Queued(t, h)
  BY <1>0, <1>1, <1>7 DEF Once, OnePlace
<1>9. \A u \in 1..NStages + 1, y \in Item : <<u, y>> # <<t, h>> => Unmoved(u, y)
  BY <1>4, <1>5, <1>6 DEF Unmoved
<1>10. Queued(t, h)' /\ ~Waits(t, h)' /\ ~Sent(t, h)'
  BY <1>0, <1>1, <1>4, <1>5, <1>6, <1>8
<1>11. Undone' = Undone
  BY <1>0, <1>1, <1>7, <1>9, <1>10, OneMoves
<1>12. ASSUME NEW u \in Stages PROVE OnceIn(u)'
  <2>1. CASE u # s
    <3>1. queue'[u] = queue[u] /\ sending'[u] = sending[u]
      BY <1>0, <1>3, <2>1 DEF TypeOK
    <3> QED
      BY <3>1 DEF Once, OnceIn
  <2>2. CASE u = s
    <3>1. queue'[u] = Append(queue[s], h) /\ sending'[u] = AfterSend(s, w)
      BY <1>0, <1>3, <2>2 DEF TypeOK
    <3>2. IsInjective(queue[s]) /\ ~Holds(queue[s], h)
      BY <1>0, <1>8 DEF OnceIn, Queued
    <3>3. IsInjective(queue'[u])
      BY <1>1, <1>2, <3>1, <3>2, InjectiveAppend
    <3> QED
      BY <1>1, <3>1, <3>3 DEF OnceIn
  <2> QED
    BY <2>1, <2>2
<1>13. OnePlace(t, h)'
  BY <1>10 DEF OnePlace
<1>14. Once'
  BY <1>0, <1>1, <1>9, <1>12, <1>13, OneMovesOnce
<1> QED
  BY <1>11, <1>14

\* What the next stage, or main, takes out of a channel.
LEMMA HeadMoves ==
    ASSUME IInv, Once, NEW s \in Stages, queue[s] # <<>>, queue' = [queue EXCEPT ![s] = Tail(@)],
           UNCHANGED sending
    PROVE  LET h == Head(queue[s]) IN
           /\ h \in Item /\ Queued(s + 1, h) /\ ~Waits(s + 1, h) /\ ~Sent(s + 1, h)
           /\ \A u \in 1..NStages + 1, y \in Item :
                 /\ Queued(u, y)' <=> Queued(u, y) /\ <<u, y>> # <<s + 1, h>>
                 /\ Sent(u, y)' <=> Sent(u, y)
           /\ \A u \in Stages : OnceIn(u)'
<1> DEFINE h == Head(queue[s])
           t == s + 1
<1>0. TypeOK /\ t \in 1..NStages + 1 /\ t - 1 = s /\ OnceIn(s) /\ queue[s] \in Seq(Item)
  BY StageNumbers DEF IInv, Once, TypeOK
<1>1. h \in Item /\ \A y : Holds(queue[s], y) <=> (y = h \/ Holds(Tail(queue[s]), y))
  BY <1>0, HoldsTail
<1>2. IsInjective(Tail(queue[s])) /\ ~Holds(Tail(queue[s]), h)
  BY <1>0, InjectiveTail DEF OnceIn
<1> HIDE DEF h, t
<1>3. Queued(t, h)
  BY <1>0, <1>1 DEF Queued
<1>4. ~Waits(t, h) /\ ~Sent(t, h)
  BY <1>0, <1>1, <1>3 DEF Once, OnePlace
<1>5. ASSUME NEW u \in 1..NStages + 1, NEW y \in Item
      PROVE  Queued(u, y)' <=> Queued(u, y) /\ <<u, y>> # <<t, h>>
  <2>1. u = t => (Queued(u, y) <=> Holds(queue[s], y))
    BY <1>0 DEF Queued
  <2> QED
    BY <1>0, <1>1, <1>2, <2>1, QueuedByOthers DEF t
<1>6. ASSUME NEW u \in 1..NStages + 1, NEW y \in Item PROVE Sent(u, y)' <=> Sent(u, y)
  BY DEF Sent
<1>7. ASSUME NEW u \in Stages PROVE OnceIn(u)'
  <2>1. IsInjective(queue'[u])
    <3>1. u # s => queue'[u] = queue[u]
      BY <1>0 DEF TypeOK
    <3>2. u = s => queue'[u] = Tail(queue[s])
      BY <1>0 DEF TypeOK
    <3> QED
      BY <1>2, <3>1, <3>2 DEF Once, OnceIn
  <2> QED
    BY <2>1 DEF Once, OnceIn
<1> QED
  BY <1>1, <1>3, <1>4, <1>5, <1>6, <1>7 DEF h, t

LEMMA TakeMoves ==
    ASSUME IInv, Once, NEW s \in Stages, Take(s)
    PROVE  LET h == Head(queue[s - 1]) IN
           /\ <<s, h>> \in Undone
           /\ Undone' = IF Skips(s, h) THEN Undone \ {<<s, h>>} ELSE Undone
           /\ Once'
<1>0. TypeOK /\ TypeOK' /\ s - 1 \in Stages /\ s \in 1..NStages + 1 /\ (s - 1) + 1 = s
  <2>1. s - 1 \in Stages /\ (s - 1) + 1 = s
    BY PipelineAssumption DEF Take, Stages
  <2> QED
    BY <2>1, TakeIInv, StageNumbers DEF IInv
<1>10. Head(queue[s - 1]) \in Item
  BY <1>0, HeadMoves DEF Take
<1>11. PICK h \in Item : h = Head(queue[s - 1])
  BY <1>10
<1>1. /\ h \in Item /\ Queued(s, h) /\ ~Waits(s, h) /\ ~Sent(s, h)
      /\ \A u \in 1..NStages + 1, y \in Item :
            /\ Queued(u, y)' <=> Queued(u, y) /\ <<u, y>> # <<s, h>>
            /\ Sent(u, y)' <=> Sent(u, y)
      /\ \A u \in Stages : OnceIn(u)'
  BY <1>0, <1>11, HeadMoves DEF Take
<1>2. calling' = Started(s, h)
  BY <1>11 DEF Take
<1>3. \A u \in 1..NStages + 1, y \in Item :
        Waits(u, y)' <=> Waits(u, y) \/ (<<u, y>> = <<s, h>> /\ ~Skips(s, h))
  BY <1>0, <1>1, <1>2, WaitsStarted
<1>4. \A u \in 1..NStages + 1, y \in Item : <<u, y>> # <<s, h>> => Unmoved(u, y)
  BY <1>1, <1>3 DEF Unmoved
<1>5. ~Queued(s, h)' /\ ~Sent(s, h)' /\ (Waits(s, h)' <=> ~Skips(s, h))
  BY <1>0, <1>1, <1>3
<1>6. Undone' = IF Skips(s, h) THEN Undone \ {<<s, h>>} ELSE Undone
  BY <1>0, <1>1, <1>4, <1>5, OneMoves
<1>7. OnePlace(s, h)'
  BY <1>5 DEF OnePlace
<1>8. Once'
  BY <1>0, <1>1, <1>4, <1>7, OneMovesOnce
<1>9. <<s, h>> \in Undone
  BY <1>0, <1>1, PendingPlaces DEF PendingInv
<1> QED
  BY <1>6, <1>8, <1>9, <1>11

LEMMA CollectMoves ==
    ASSUME IInv, Once, Collect
    PROVE  LET h == Head(queue[NStages]) IN
           /\ <<NStages + 1, h>> \in Undone
           /\ Undone' = Undone \ {<<NStages + 1, h>>}
           /\ report' = Append(report, h) /\ h \in Item
           /\ Once'
<1> DEFINE t == NStages + 1
<1>0. TypeOK /\ TypeOK' /\ NStages \in Stages /\ t \in 1..NStages + 1
  BY PipelineAssumption, MainIInv DEF IInv, Stages
<1>10. Head(queue[NStages]) \in Item
  BY <1>0, HeadMoves DEF Collect
<1>11. PICK h \in Item : h = Head(queue[NStages])
  BY <1>10
<1>1. /\ h \in Item /\ Queued(t, h) /\ ~Waits(t, h) /\ ~Sent(t, h)
      /\ \A u \in 1..NStages + 1, y \in Item :
            /\ Queued(u, y)' <=> Queued(u, y) /\ <<u, y>> # <<t, h>>
            /\ Sent(u, y)' <=> Sent(u, y)
      /\ \A u \in Stages : OnceIn(u)'
  BY <1>0, <1>11, HeadMoves DEF Collect
<1>2. report' = Append(report, h)
  BY <1>11 DEF Collect
<1>3. \A u \in 1..NStages + 1, y \in Item : Waits(u, y)' <=> Waits(u, y)
  BY DEF Collect, Waits
<1> HIDE DEF t
<1>4. \A u \in 1..NStages + 1, y \in Item : <<u, y>> # <<t, h>> => Unmoved(u, y)
  BY <1>1, <1>3 DEF Unmoved
<1>5. ~Queued(t, h)' /\ ~Sent(t, h)' /\ ~Waits(t, h)'
  BY <1>0, <1>1, <1>3
<1>6. Undone' = Undone \ {<<t, h>>}
  BY <1>0, <1>1, <1>4, <1>5, OneMoves
<1>7. OnePlace(t, h)'
  BY <1>5 DEF OnePlace
<1>8. Once'
  BY <1>0, <1>1, <1>4, <1>7, OneMovesOnce
<1>9. <<t, h>> \in Undone
  BY <1>0, <1>1, PendingPlaces DEF PendingInv
<1> QED
  BY <1>1, <1>2, <1>6, <1>8, <1>9, <1>11 DEF t

LEMMA HandOverMoves ==
    ASSUME IInv, Once, NEW s \in Stages, NEW w \in sending[s], HandOver(s, w)
    PROVE  LET h == Head(w[2]) IN
           /\ <<s + 1, h>> \in Undone /\ h \in Item
           /\ Undone' = IF s = NStages \/ Skips(s + 1, h) THEN Undone \ {<<s + 1, h>>} ELSE Undone
           /\ report' = IF s = NStages THEN Append(report, h) ELSE report
           /\ Once'
<1> DEFINE h == Head(w[2])
           t == s + 1
<1>0. TypeOK /\ TypeOK' /\ t \in 1..NStages + 1 /\ t - 1 = s /\ OnceIn(s)
  BY HandOverIInv, StageNumbers DEF IInv, Once
<1>1. /\ h \in Item /\ Holds(w[2], h)
      /\ \A y \in Item : (\E v \in AfterSend(s, w) : Holds(v[2], y))
                          <=> (\E v \in sending[s] : Holds(v[2], y)) /\ y # h
      /\ \A v \in AfterSend(s, w) : IsInjective(v[2])
      /\ \A v \in AfterSend(s, w), u \in AfterSend(s, w), y \in Item :
            Holds(v[2], y) /\ Holds(u[2], y) => u = v
  BY <1>0, AfterSendHolds
<1>2. /\ queue' = queue
      /\ sending' = [sending EXCEPT ![s] = AfterSend(s, w)]
      /\ report' = IF s = NStages THEN Append(report, h) ELSE report
      /\ calling' = IF s = NStages THEN calling ELSE Started(t, h)
  BY DEF HandOver
<1>3. s # NStages => t \in Stages
  BY PipelineAssumption DEF Stages
<1>4. s = NStages => t \notin Stages
  BY PipelineAssumption DEF Stages
<1> HIDE DEF h, t
<1>5. \A u \in 1..NStages + 1, y \in Item :
        Waits(u, y)' <=> Waits(u, y) \/ (<<u, y>> = <<t, h>> /\ s # NStages /\ ~Skips(t, h))
  <2>1. CASE s = NStages
    BY <1>2, <2>1 DEF Waits
  <2>2. CASE s # NStages
    BY <1>0, <1>1, <1>2, <1>3, <2>2, WaitsStarted
  <2> QED
    BY <2>1, <2>2
<1>6. \A u \in 1..NStages + 1, y \in Item : Queued(u, y)' <=> Queued(u, y)
  BY <1>2 DEF Queued
<1>7. \A u \in 1..NStages + 1, y \in Item : Sent(u, y)' <=> Sent(u, y) /\ <<u, y>> # <<t, h>>
  <2> TAKE u \in 1..NStages + 1, y \in Item
  <2>1. u = t => (Sent(u, y) <=> \E v \in sending[s] : Holds(v[2], y))
    BY <1>0 DEF Sent
  <2> QED
    BY <1>0, <1>1, <1>2, <2>1, SentByOthers DEF t
<1>8. Sent(t, h)
  BY <1>0, <1>1 DEF Sent
<1>9. ~Waits(t, h) /\ ~Queued(t, h)
  BY <1>0, <1>1, <1>8 DEF Once, OnePlace
<1>10. \A u \in 1..NStages + 1, y \in Item : <<u, y>> # <<t, h>> => Unmoved(u, y)
  BY <1>5, <1>6, <1>7 DEF Unmoved
<1>11. ~Queued(t, h)' /\ ~Sent(t, h)' /\ (Waits(t, h)' <=> s # NStages /\ ~Skips(t, h))
  BY <1>0, <1>1, <1>5, <1>6, <1>7, <1>9
<1>12. Undone' = IF s = NStages \/ Skips(t, h) THEN Undone \ {<<t, h>>} ELSE Undone
  BY <1>0, <1>1, <1>8, <1>10, <1>11, OneMoves
<1>13. ASSUME NEW u \in Stages PROVE OnceIn(u)'
  <2>1. u # s => sending'[u] = sending[u]
    BY <1>0, <1>2 DEF TypeOK
  <2>2. u = s => sending'[u] = AfterSend(s, w)
    BY <1>0, <1>2 DEF TypeOK
  <2> QED
    BY <1>1, <1>2, <2>1, <2>2 DEF Once, OnceIn
<1>14. OnePlace(t, h)'
  BY <1>11 DEF OnePlace
<1>15. Once'
  BY <1>0, <1>1, <1>10, <1>13, <1>14, OneMovesOnce
<1>16. <<t, h>> \in Undone
  BY <1>0, <1>1, <1>8, PendingPlaces DEF PendingInv
<1> QED
  BY <1>1, <1>2, <1>12, <1>15, <1>16 DEF h, t

-----------------------------------------------------------------------------
(* The pipeline as a work list. *)

Reported == {report[k] : k \in DOMAIN report}

WorkInv ==
    /\ Once
    /\ Apart(Undone)
    /\ Unreported(Undone, Reported)

\* What a step of the pipeline is to the work list, and that it keeps the items apart.
Works == WorkInv' /\ [Work!Next]_(Work!vars)

LEMMA ReportedAppend ==
    ASSUME TypeOK, NEW i \in Item, report' = Append(report, i) PROVE Reported' = Reported \cup {i}
<1>1. \A y : y \in Reported <=> Holds(report, y)
  BY DEF Reported, Holds
<1>2. \A y : y \in Reported' <=> Holds(report', y)
  BY DEF Reported, Holds
<1>3. \A y : Holds(report', y) <=> Holds(report, y) \/ y = i
  BY HoldsAppend DEF TypeOK
<1> QED
  BY <1>1, <1>2, <1>3

LEMMA UndoneNodes == TypeOK => Undone \in SUBSET Nodes
BY PendingPlaces DEF PendingInv

\* Fewer pending items are apart too.
LEMMA FewerApart ==
    ASSUME NEW pending, NEW fewer, fewer \subseteq pending, NEW reported, Apart(pending),
           Unreported(pending, reported)
    PROVE  Apart(fewer) /\ Unreported(fewer, reported)
BY DEF Apart, Unreported

LEMMA InitWorks == Init => WorkInv /\ Work!Init
<1> SUFFICES ASSUME Init PROVE WorkInv /\ Work!Init
  OBVIOUS
<1>1. TypeOK
  BY InitIInv DEF IInv
<1>2. Reported = {} /\ ~done
  BY DEF Init, Reported
<1>3. Undone = {<<1, i>> : i \in Source}
  <2>1. \A p : p \in Undone <=> \E s \in Stages : \E i \in calling[s] : p = <<s, i>>
    BY <1>1, PendingFrom DEF Init, Holds
  <2>2. 1 \in Stages /\ \A s \in Stages : calling[s] = IF s = 1 THEN Source ELSE {}
    BY PipelineAssumption DEF Init, Stages
  <2> QED
    BY <2>1, <2>2
<1>4. Apart(Undone)
  <2>1. \A p \in Undone : p[1] = 1
    BY <1>3
  <2> QED
    BY <2>1, BelowLater DEF Apart
<1>5. Once
  BY DEF Init, Once, OnceIn, OnePlace, Queued, Sent, IsInjective, Holds
<1> QED
  BY <1>2, <1>3, <1>4, <1>5 DEF WorkInv, Unreported, Work!Init, Reported

LEMMA AnswerWorks ==
    ASSUME IInv, WorkInv, Distinct, NEW s \in Stages, NEW i \in calling[s], NEW out \in Answers(s, i),
           Answer(s, i, out)
    PROVE  Works
<1> DEFINE p == <<s, i>>
           passed == Work!Passed(s, out)
<1>1. TypeOK /\ i \in Item /\ s \in 1..NStages + 1
  BY StageNumbers DEF IInv, TypeOK
<1>2. Undone' = (Undone \ {p}) \cup passed /\ Once'
  BY AnswerPending, AnswerOnce DEF WorkInv
<1>3. p \in Undone /\ Undone \in SUBSET Nodes
  BY <1>1, PendingPlaces DEF PendingInv, Waits
<1>4. \A c \in passed : Child(p, c)
  BY <1>1, PassedFact
<1>5. Reported' = Reported /\ UNCHANGED <<report, done>>
  BY DEF Answer, Reported
<1>6. Apart(Undone) /\ Unreported(Undone, Reported)
  BY DEF WorkInv
<1> HIDE DEF p, passed
<1>7. Apart((Undone \ {p}) \cup passed)
  BY <1>3, <1>4, <1>6, HandledApart
<1>8. Unreported((Undone \ {p}) \cup passed, Reported)
  BY <1>3, <1>4, <1>6, HandledUnreported
<1>9. WorkInv'
  BY <1>2, <1>5, <1>7, <1>8 DEF WorkInv
<1>10. Work!Handle(s, i)
  BY <1>2, <1>3, <1>5 DEF Work!Handle, p, passed
<1>11. Work!Next
  BY <1>3, <1>10 DEF Work!Next, Work!Stages, Stages, p
<1> QED
  BY <1>9, <1>11 DEF Works

\* What a step that ends no call may do: an item changes its place, is left out by a
\* dispatcher, or is received by main.
Moves ==
    /\ WorkInv'
    /\ \/ Undone' = Undone /\ UNCHANGED report
       \/ \E s \in Stages, i \in Item :
            /\ <<s, i>> \in Undone /\ Skips(s, i)
            /\ Undone' = Undone \ {<<s, i>>} /\ UNCHANGED report
       \/ \E i \in Item :
            /\ <<NStages + 1, i>> \in Undone /\ i \notin Reported
            /\ Undone' = Undone \ {<<NStages + 1, i>>} /\ report' = Append(report, i)

LEMMA PlaceMoves ==
    ASSUME WorkInv, UNCHANGED report, Once',
           \/ Undone' = Undone
           \/ \E s \in Stages, i \in Item :
                 <<s, i>> \in Undone /\ Skips(s, i) /\ Undone' = Undone \ {<<s, i>>}
    PROVE  Moves
<1>1. Reported' = Reported
  BY DEF Reported
<1>2. Undone' \subseteq Undone
  OBVIOUS
<1>3. WorkInv'
  BY <1>1, <1>2, FewerApart DEF WorkInv
<1> QED
  BY <1>3 DEF Moves

\* What main receives.
LEMMA ReportMoves ==
    ASSUME IInv, WorkInv, NEW i \in Item, <<NStages + 1, i>> \in Undone,
           Undone' = Undone \ {<<NStages + 1, i>>}, report' = Append(report, i), Once'
    PROVE  Moves
<1>1. Reported' = Reported \cup {i}
  BY ReportedAppend DEF IInv
<1>2. Undone \in SUBSET Nodes
  BY UndoneNodes DEF IInv
<1>3. i \notin Reported /\ Unreported(Undone \ {<<NStages + 1, i>>}, Reported \cup {i})
  BY <1>2, ReportedApart DEF WorkInv
<1>4. Apart(Undone \ {<<NStages + 1, i>>})
  BY FewerApart DEF WorkInv
<1>5. WorkInv'
  BY <1>1, <1>3, <1>4 DEF WorkInv
<1> QED
  BY <1>3, <1>5 DEF Moves

LEMMA PlumbingMoves == ASSUME IInv, WorkInv, Plumbing \/ UNCHANGED vars PROVE Moves
<1>1. ASSUME NEW s \in Stages, Take(s) PROVE Moves
  <2>1. Once' /\ UNCHANGED report
    BY <1>1, TakeMoves DEF WorkInv, Take
  <2>2. Head(queue[s - 1]) \in Item
    BY <1>1, PipelineAssumption DEF IInv, TypeOK, Take, Stages
  <2> QED
    BY <1>1, <2>1, <2>2, TakeMoves, PlaceMoves DEF WorkInv
<1>2. ASSUME NEW s \in Stages, NEW w \in sending[s], Send(s, w) PROVE Moves
  BY <1>2, SendMoves, PlaceMoves DEF WorkInv, Send
<1>3. ASSUME NEW s \in Stages, NEW w \in sending[s], HandOver(s, w) PROVE Moves
  <2> DEFINE h == Head(w[2])
  <2>1. /\ <<s + 1, h>> \in Undone /\ h \in Item
        /\ Undone' = IF s = NStages \/ Skips(s + 1, h) THEN Undone \ {<<s + 1, h>>} ELSE Undone
        /\ report' = IF s = NStages THEN Append(report, h) ELSE report
        /\ Once'
    BY <1>3, HandOverMoves DEF WorkInv
  <2> HIDE DEF h
  <2>2. CASE s = NStages
    BY <2>1, <2>2, ReportMoves
  <2>3. CASE s # NStages
    <3>1. s + 1 \in Stages
      BY <2>3, PipelineAssumption DEF Stages
    <3> QED
      BY <2>1, <2>3, <3>1, PlaceMoves
  <2> QED
    BY <2>2, <2>3
<1>4. CASE Collect
  BY <1>4, CollectMoves, ReportMoves DEF WorkInv
<1>5. ASSUME UNCHANGED <<calling, sending, queue, report>> PROVE Moves
  <2>1. Once'
    BY <1>5 DEF WorkInv, Once, OnceIn, OnePlace, Waits, Queued, Sent
  <2>2. Undone' = Undone
    BY <1>5 DEF Undone
  <2> QED
    BY <1>5, <2>1, <2>2, PlaceMoves
<1>6. ASSUME NEW s \in Stages, Close(s) PROVE Moves
  BY <1>5, <1>6 DEF Close
<1>7. CASE UNCHANGED vars \/ Return \/ Returned
  BY <1>5, <1>7 DEF Return, Returned, vars
<1> QED
  BY <1>1, <1>2, <1>3, <1>4, <1>6, <1>7 DEF Plumbing

\* All of it is a step of the list, or none.
LEMMA MovesWork == ASSUME IInv, Moves, UNCHANGED done PROVE Works
<1>1. WorkInv'
  BY DEF Moves
<1>2. CASE Undone' = Undone /\ UNCHANGED report
  BY <1>1, <1>2 DEF Works, Work!vars
<1>3. ASSUME NEW s \in Stages, NEW i \in Item, <<s, i>> \in Undone, Skips(s, i),
             Undone' = Undone \ {<<s, i>>}, UNCHANGED report
      PROVE  Works
  <2>1. Work!LeaveOut(s, i)
    BY <1>3 DEF Work!LeaveOut
  <2>2. Work!Next
    BY <1>3, <2>1 DEF Work!Next, Work!Stages, Stages
  <2> QED
    BY <1>1, <2>2 DEF Works
<1>4. ASSUME NEW i \in Item, <<NStages + 1, i>> \in Undone, i \notin Reported,
             Undone' = Undone \ {<<NStages + 1, i>>}, report' = Append(report, i)
      PROVE  Works
  <2>1. Reported' = Reported \cup {i}
    BY <1>4, ReportedAppend DEF IInv
  <2>2. Work!Report(i)
    BY <1>4, <2>1 DEF Work!Report, Reported
  <2>3. Work!Next
    BY <1>4, <2>2 DEF Work!Next
  <2> QED
    BY <1>1, <2>3 DEF Works
<1> QED
  BY <1>2, <1>3, <1>4 DEF Moves

LEMMA ReturnWorks == ASSUME IInv, WorkInv, Return PROVE Works
<1>1. UNCHANGED <<calling, sending, queue, report>> /\ done'
  BY DEF Return
<1>2. Undone' = Undone /\ Reported' = Reported
  BY <1>1 DEF Undone, Reported
<1>3. Once'
  BY <1>1 DEF WorkInv, Once, OnceIn, OnePlace, Waits, Queued, Sent
<1>4. WorkInv'
  BY <1>2, <1>3 DEF WorkInv
<1>5. \A s \in Stages : Idle(s) /\ Drained(s)
  BY PipelineAssumption DEF IInv, CloseInv, Return, Drained, Stages
<1>6. Undone = {}
  BY <1>5, PendingFrom DEF IInv, Idle, Drained, Holds
<1>7. Work!Return
  BY <1>1, <1>2, <1>6 DEF Work!Return, Reported
<1> QED
  BY <1>4, <1>7 DEF Works, Work!Next

LEMMA NextWorks == ASSUME IInv, WorkInv, Distinct, [Next]_vars PROVE Works
<1>1. CASE Return
  BY <1>1, ReturnWorks
<1>2. CASE (Plumbing \/ UNCHANGED vars) /\ ~Return
  <2>1. UNCHANGED done
    BY <1>2 DEF Plumbing, Take, Close, Send, HandOver, Collect, Returned, vars
  <2> QED
    BY <1>2, <2>1, PlumbingMoves, MovesWork
<1>3. ASSUME NEW s \in Stages, NEW i \in calling[s], NEW out \in Answers(s, i), Answer(s, i, out)
      PROVE  Works
  BY <1>3, AnswerWorks
<1> QED
  BY <1>1, <1>2, <1>3 DEF Next

\* Stage t may still get item i: something pending is it or leads to it.
Coming(t, i) == \E p \in Undone : <<p, <<t, i>>>> \in Below

\* Nothing comes that was not coming.
LEMMA NothingNew ==
    ASSUME TypeOK, [Work!Next]_(Work!vars), NEW t, NEW i, Coming(t, i)' PROVE Coming(t, i)
<1>1. PICK p \in Undone' : <<p, <<t, i>>>> \in Below
  BY DEF Coming
<1>2. Undone \in SUBSET Nodes
  BY UndoneNodes
<1>3. ASSUME NEW s \in Stages, NEW j, Work!Handle(s, j) PROVE Coming(t, i)
  <2>1. PICK out \in Answers(s, j) : Undone' = (Undone \ {<<s, j>>}) \cup Work!Passed(s, out)
    BY <1>3 DEF Work!Handle
  <2>2. <<s, j>> \in Undone /\ <<s, j>> \in Nodes /\ j \in Item
    BY <1>2, <1>3 DEF Work!Handle, Nodes
  <2>3. CASE p \in Undone
    BY <1>1, <2>3 DEF Coming
  <2>4. CASE p \in Work!Passed(s, out)
    <3>1. Child(<<s, j>>, p)
      BY <2>2, <2>4, PassedFact
    <3> QED
      BY <1>1, <2>2, <3>1, BelowParent DEF Coming
  <2> QED
    BY <1>1, <2>1, <2>3, <2>4
<1>4. CASE Undone' \subseteq Undone
  BY <1>1, <1>4 DEF Coming
<1>5. (\E s \in Stages, j \in Item : Work!Handle(s, j)) \/ Undone' \subseteq Undone
  <2>1. CASE UNCHANGED Work!vars
    BY <2>1 DEF Work!vars
  <2>2. CASE Work!Return
    BY <2>2 DEF Work!Return
  <2>3. ASSUME NEW w \in Undone, w[1] \in Work!Stages, Work!Handle(w[1], w[2])
        PROVE  \E s \in Stages, j \in Item : Work!Handle(s, j)
    BY <1>2, <2>3 DEF Work!Stages, Stages, Nodes
  <2>4. ASSUME NEW w \in Undone, Work!LeaveOut(w[1], w[2]) \/ Work!Report(w[2])
        PROVE  Undone' \subseteq Undone
    BY <2>4 DEF Work!LeaveOut, Work!Report
  <2> QED
    BY <2>1, <2>2, <2>3, <2>4 DEF Work!Next
<1> QED
  BY <1>3, <1>4, <1>5

\* An item whose call is answered does not come again.
LEMMA AnsweredOnce ==
    ASSUME IInv, WorkInv, NEW s \in Stages, NEW i \in calling[s], NEW out \in Answers(s, i), Answer(s, i, out)
    PROVE  Coming(s, i) /\ ~Coming(s, i)'
<1>1. TypeOK /\ i \in Item /\ s \in 1..NStages + 1 /\ <<s, i>> \in Nodes
  BY StageNumbers DEF IInv, TypeOK, Nodes
<1>2. <<s, i>> \in Undone
  BY <1>1, PendingPlaces DEF PendingInv, Waits
<1>3. Coming(s, i)
  BY <1>1, <1>2, BelowClosed DEF Coming, Closed
<1>4. Undone' = (Undone \ {<<s, i>>}) \cup Work!Passed(s, out)
  BY AnswerPending DEF WorkInv
<1>5. ASSUME NEW p \in Undone', <<p, <<s, i>>>> \in Below PROVE FALSE
  <2>1. CASE p \in Undone /\ p # <<s, i>>
    BY <1>2, <1>5, <2>1 DEF WorkInv, Apart
  <2>2. CASE p \in Work!Passed(s, out)
    <3>1. p[1] = s + 1 /\ s \in Nat
      BY <1>1, <2>2, PassedFact, ChildNode
    <3>2. p = <<s, i>> \/ p[1] < s
      BY <1>5, BelowLater
    <3> QED
      BY <3>1, <3>2
  <2> QED
    BY <1>4, <2>1, <2>2
<1> QED
  BY <1>3, <1>5 DEF Coming

\* The same of a step of the pipeline.
LEMMA NextApart == ASSUME IInv, WorkInv, Distinct, [Next]_vars PROVE WorkInv'
BY NextWorks DEF Works

LEMMA NextNothingNew ==
    ASSUME IInv, WorkInv, Distinct, [Next]_vars, NEW t, NEW i, Coming(t, i)' PROVE Coming(t, i)
BY NextWorks, NothingNew DEF Works, IInv

-----------------------------------------------------------------------------
(* What the items of each stage have behind them, and what is reported.    *)

\* What stage s passes on is in F[s], what the first stage is started with in F[0].
Carried(F) ==
    /\ \A p \in Undone : p[2] \in F[p[1] - 1]
    /\ \A k \in DOMAIN report : report[k] \in F[NStages]

LEMMA InitCarries ==
    ASSUME Init, NEW F, Source \subseteq F[0] PROVE Carried(F)
<1>1. Undone = {<<1, i>> : i \in Source}
  BY InitWorks DEF Work!Init
<1>2. DOMAIN report = {}
  BY DEF Init
<1> QED
  BY <1>1, <1>2 DEF Carried

LEMMA MovesCarry == ASSUME TypeOK, NEW F, Carried(F), Moves PROVE Carried(F)'
<1>1. ASSUME NEW i \in Item, <<NStages + 1, i>> \in Undone, report' = Append(report, i)
      PROVE  \A k \in DOMAIN report' : report'[k] \in F[NStages]
  <2>1. i \in F[NStages]
    <3>1. <<NStages + 1, i>>[2] \in F[<<NStages + 1, i>>[1] - 1]
      BY <1>1 DEF Carried
    <3>2. (NStages + 1) - 1 = NStages
      BY PipelineAssumption
    <3> QED
      BY <3>1, <3>2
  <2>2. \A y : Holds(report', y) <=> Holds(report, y) \/ y = i
    BY <1>1, HoldsAppend DEF TypeOK
  <2> QED
    BY <2>1, <2>2 DEF Holds, Carried
<1>2. Undone' \subseteq Undone
  BY DEF Moves
<1>3. \A k \in DOMAIN report' : report'[k] \in F[NStages]
  BY <1>1 DEF Moves, Carried
<1> QED
  BY <1>2, <1>3 DEF Carried

LEMMA AnswerCarries ==
    ASSUME IInv, WorkInv, NEW F, Carried(F), NEW s \in Stages, NEW i \in calling[s],
           NEW out \in Answers(s, i), Answer(s, i, out), \A k \in DOMAIN out : out[k] \in F[s]
    PROVE  Carried(F)'
<1>1. Undone' = (Undone \ {<<s, i>>}) \cup Work!Passed(s, out) /\ UNCHANGED report
  BY AnswerPending DEF WorkInv, Answer
<1>2. ASSUME NEW p \in Work!Passed(s, out) PROVE p[2] \in F[p[1] - 1]
  <2>1. PICK k \in DOMAIN out : p = <<s + 1, out[k]>>
    BY <1>2 DEF Work!Passed
  <2>2. p[1] - 1 = s /\ p[2] = out[k]
    BY <2>1, StageNumbers
  <2> QED
    BY <2>2
<1> QED
  BY <1>1, <1>2 DEF Carried

\* A worker that waits has an item that is still to be handled.
LEMMA CalledUndone ==
    ASSUME TypeOK, NEW s \in Stages, NEW i \in calling[s]
    PROVE  <<s, i>> \in Undone /\ i \in Item
<1>1. i \in Item /\ s \in 1..NStages + 1
  BY StageNumbers DEF TypeOK
<1> QED
  BY <1>1, PendingPlaces DEF PendingInv, Waits

LEMMA CalledCarried ==
    ASSUME TypeOK, NEW F, Carried(F), NEW s \in Stages, NEW i \in calling[s]
    PROVE  i \in F[s - 1]
<1>1. <<s, i>> \in Undone
  BY CalledUndone
<1>2. <<s, i>>[2] \in F[<<s, i>>[1] - 1]
  BY <1>1 DEF Carried
<1> QED
  BY <1>2

\* Main receives an item once.
LEMMA MovesReportOnce ==
    ASSUME TypeOK, IsInjective(report), Moves PROVE IsInjective(report')
<1>1. ASSUME NEW i \in Item, i \notin Reported, report' = Append(report, i)
      PROVE  IsInjective(report')
  <2>1. ~Holds(report, i)
    BY <1>1 DEF Holds, Reported
  <2> QED
    BY <1>1, <2>1, InjectiveAppend DEF TypeOK
<1> QED
  BY <1>1 DEF Moves

\* When main has returned nothing is left to be handled.
LEMMA DoneUndone == ASSUME IInv, done PROVE Undone = {}
<1>1. \A s \in Stages : Idle(s) /\ Drained(s)
  BY PipelineAssumption DEF IInv, CloseInv, ReturnInv, Drained, Stages
<1> QED
  BY <1>1, PendingFrom DEF IInv, Idle, Drained, Holds

\* Every item with the stage it waits for, a reported one with the place behind the last.
Everything == Undone \cup {<<NStages + 1, i>> : i \in Reported}

LEMMA InitEverything == ASSUME Init PROVE Everything = {<<1, i>> : i \in Source}
<1>1. Undone = {<<1, i>> : i \in Source}
  BY InitWorks DEF Work!Init
<1>2. Reported = {}
  BY DEF Init, Reported
<1> QED
  BY <1>1, <1>2 DEF Everything

\* Where no stage leaves an item out, only answers change what there is.
LEMMA MovesEverything ==
    ASSUME TypeOK, Moves, \A s \in Stages, i \in Item : ~Skips(s, i) PROVE Everything' = Everything
<1>1. CASE Undone' = Undone /\ UNCHANGED report
  BY <1>1 DEF Everything, Reported
<1>2. ASSUME NEW i \in Item, <<NStages + 1, i>> \in Undone,
             Undone' = Undone \ {<<NStages + 1, i>>}, report' = Append(report, i)
      PROVE  Everything' = Everything
  <2>1. Reported' = Reported \cup {i}
    BY <1>2, ReportedAppend DEF TypeOK
  <2> QED
    BY <1>2, <2>1 DEF Everything
<1> QED
  BY <1>1, <1>2 DEF Moves

LEMMA AnswerEverything ==
    ASSUME IInv, WorkInv, NEW s \in Stages, NEW i \in calling[s], NEW out \in Answers(s, i), Answer(s, i, out)
    PROVE  Everything' = (Everything \ {<<s, i>>}) \cup Work!Passed(s, out)
<1>1. Undone' = (Undone \ {<<s, i>>}) \cup Work!Passed(s, out) /\ Reported' = Reported
  BY AnswerPending DEF WorkInv, Answer, Reported
<1>2. \A j : <<NStages + 1, j>> # <<s, i>>
  BY PipelineAssumption DEF Stages
<1> QED
  BY <1>1, <1>2 DEF Everything

LEMMA DoneEverything == ASSUME IInv, done PROVE Everything = {<<NStages + 1, i>> : i \in Reported}
BY DoneUndone DEF Everything

\* The items of S that stage s has had, or will not get any more.
Past(s, S) == {i \in S : ~Coming(s, i)}

\* What is past stays past.
LEMMA PastGrows ==
    ASSUME IInv, WorkInv, Distinct, [Next]_vars, NEW s, NEW S
    PROVE  Past(s, S) \subseteq Past(s, S)'
<1>1. \A i : Coming(s, i)' => Coming(s, i)
  BY NextNothingNew
<1> QED
  BY <1>1 DEF Past

\* With each call that ends there is one more.
LEMMA AnsweredPast ==
    ASSUME IInv, WorkInv, NEW s \in Stages, NEW i \in calling[s], NEW out \in Answers(s, i),
           Answer(s, i, out), NEW S, i \in S
    PROVE  i \notin Past(s, S) /\ i \in Past(s, S)'
BY AnsweredOnce DEF Past

-----------------------------------------------------------------------------

\* Goroutines and channels are a work list: every item that is still to be handled is in
\* one place, no step makes, loses or repeats one but the answer, the skip and the report
\* of the list, and main returns when there is none left.  The fairness of the list is
\* left to the runs.
THEOREM Refines == ASSUME Distinct PROVE Spec => Work!Init /\ [][Work!Next]_(Work!vars)
<1>1. Init => IInv /\ WorkInv /\ Work!Init
  BY InitIInv, InitWorks
<1>2. IInv /\ WorkInv /\ [Next]_vars => IInv' /\ WorkInv' /\ [Work!Next]_(Work!vars)
  BY NextIInv, NextWorks DEF Works
<1> QED
  BY <1>1, <1>2, PTL DEF Spec

=============================================================================
