--------------------------- MODULE StagedPipeline ---------------------------
(***************************************************************************)
(* The goroutine pipeline the multi-project commands of simplcli are built *)
(* from (autoheal:merge, autoheal:maven-429, merge:check, kp-new).  A      *)
(* stage is a dispatcher goroutine that ranges over the channel of the     *)
(* stage before it, starts one worker goroutine (wg.Go) for each item,     *)
(* waits for the workers (wg.Wait) and closes its own channel.  A worker   *)
(* makes one call and sends what the answer holds.  The main goroutine     *)
(* ranges over the last channel and returns.                               *)
(*                                                                         *)
(* An item is named by how it was reached, so that two items are the same  *)
(* only when they are the same goroutine's.                                *)
(***************************************************************************)
EXTENDS Naturals, Sequences, FiniteSets

CONSTANTS
    NStages,
    Cap,            \* capacity of the channels: 10, or 0 for a rendezvous
    Item,
    Source,         \* the items the first stage starts a worker for
    Answers(_, _),  \* what a stage's worker may send on for an item
    Skips(_, _)     \* the items a dispatcher starts no worker for

Stages == 1..NStages

ASSUME PipelineAssumption ==
    /\ NStages \in Nat \ {0}
    /\ Cap \in Nat
    /\ Source \subseteq Item
    /\ \A s \in Stages, i \in Item : Answers(s, i) \subseteq Seq(Item)

(* The items are named by how they were reached: no worker sends one       *)
(* twice, and no two workers of a stage send the same.                     *)
Distinct ==
    \A s \in Stages, i \in Item, j \in Item :
        \A out \in Answers(s, i), other \in Answers(s, j) :
            \A k \in DOMAIN out, l \in DOMAIN other :
                out[k] = other[l] => i = j /\ (out = other => k = l)

VARIABLES
    calling,    \* calling[s]: the items whose worker waits for its answer
    sending,    \* sending[s]: <<item, what its worker still has to send>>
    queue,      \* queue[s]: the buffer of the channel stage s sends on
    open,       \* open[s]: that channel has not been closed
    report,     \* what main has received
    done        \* main has returned

vars == <<calling, sending, queue, open, report, done>>

TypeOK ==
    /\ calling \in [Stages -> SUBSET Item]
    /\ sending \in [Stages -> SUBSET (Item \X Seq(Item))]
    /\ queue \in [Stages -> Seq(Item)]
    /\ \A s \in Stages : Len(queue[s]) <= Cap
    /\ open \in [Stages -> BOOLEAN]
    /\ report \in Seq(Item)
    /\ done \in BOOLEAN

\* wg.Wait() of stage s has nothing to wait for.
Idle(s) == calling[s] = {} /\ sending[s] = {}

\* The range loop over the channel of stage s has ended.
Drained(s) == ~open[s] /\ queue[s] = <<>>

\* The first stage starts every worker before it waits for any of them.
Init ==
    /\ calling = [s \in Stages |-> IF s = 1 THEN Source ELSE {}]
    /\ sending = [s \in Stages |-> {}]
    /\ queue = [s \in Stages |-> <<>>]
    /\ open = [s \in Stages |-> TRUE]
    /\ report = <<>>
    /\ done = FALSE

-----------------------------------------------------------------------------
(* The workers. *)

\* The call of a worker returns; an error or an empty answer passes nothing on
\* and the goroutine ends.
Answer(s, i, out) ==
    /\ i \in calling[s]
    /\ out \in Answers(s, i)
    /\ calling' = [calling EXCEPT ![s] = @ \ {i}]
    /\ sending' = IF out = <<>> THEN sending
                  ELSE [sending EXCEPT ![s] = @ \cup {<<i, out>>}]
    /\ UNCHANGED <<queue, open, report, done>>

\* What is left of the workers of a stage when w has sent its first item.
AfterSend(s, w) ==
    LET rest == Tail(w[2])
    IN  (sending[s] \ {w}) \cup (IF rest = <<>> THEN {} ELSE {<<w[1], rest>>})

\* A send on a buffered channel waits for a free place.
Send(s, w) ==
    /\ w \in sending[s]
    /\ Len(queue[s]) < Cap
    /\ queue' = [queue EXCEPT ![s] = Append(@, Head(w[2]))]
    /\ sending' = [sending EXCEPT ![s] = AfterSend(s, w)]
    /\ UNCHANGED <<calling, open, report, done>>

-----------------------------------------------------------------------------
(* The dispatchers and the main goroutine. *)

\* The body of a dispatcher's loop: wg.Go unless the stage leaves the item out.
Started(s, i) ==
    IF Skips(s, i) THEN calling ELSE [calling EXCEPT ![s] = @ \cup {i}]

Take(s) ==
    /\ s > 1
    /\ queue[s - 1] # <<>>
    /\ calling' = Started(s, Head(queue[s - 1]))
    /\ queue' = [queue EXCEPT ![s - 1] = Tail(@)]
    /\ UNCHANGED <<sending, open, report, done>>

Collect ==
    /\ queue[NStages] # <<>>
    /\ report' = Append(report, Head(queue[NStages]))
    /\ queue' = [queue EXCEPT ![NStages] = Tail(@)]
    /\ UNCHANGED <<calling, sending, open, done>>

\* An unbuffered channel: the send and the receive are one step.
HandOver(s, w) ==
    /\ Cap = 0
    /\ w \in sending[s]
    /\ sending' = [sending EXCEPT ![s] = AfterSend(s, w)]
    /\ IF s = NStages
       THEN /\ report' = Append(report, Head(w[2]))
            /\ UNCHANGED calling
       ELSE /\ calling' = Started(s + 1, Head(w[2]))
            /\ UNCHANGED report
    /\ UNCHANGED <<queue, open, done>>

\* MUTANT of Close: the dispatcher closes without wg.Wait.
CloseWithoutWait(s) ==
    /\ open[s]
    /\ s > 1 => Drained(s - 1)
    /\ open' = [open EXCEPT ![s] = FALSE]
    /\ UNCHANGED <<calling, sending, queue, report, done>>

\* MUTANT of Close: one stage lacks its defer close(...).
CloseForgotten(s) ==
    /\ open[s]
    /\ s < NStages
    /\ s > 1 => Drained(s - 1)
    /\ Idle(s)
    /\ open' = [open EXCEPT ![s] = FALSE]
    /\ UNCHANGED <<calling, sending, queue, report, done>>

\* The dispatcher's loop is over, its workers have ended: defer close(...).
Close(s) ==
    /\ open[s]
    /\ s > 1 => Drained(s - 1)
    /\ Idle(s)
    /\ open' = [open EXCEPT ![s] = FALSE]
    /\ UNCHANGED <<calling, sending, queue, report, done>>

\* MUTANT of Return: main does not wait for the last channel.
ReturnUnread ==
    /\ ~done
    /\ ~open[NStages]
    /\ done' = TRUE
    /\ UNCHANGED <<calling, sending, queue, open, report>>

Return ==
    /\ ~done
    /\ Drained(NStages)
    /\ done' = TRUE
    /\ UNCHANGED <<calling, sending, queue, open, report>>

Returned == done /\ UNCHANGED vars

-----------------------------------------------------------------------------

\* The steps that do not end a call.
Plumbing ==
    \/ \E s \in Stages : Take(s) \/ Close(s) \/ (\E w \in sending[s] : Send(s, w) \/ HandOver(s, w))
    \/ Collect
    \/ Return
    \/ Returned

Next ==
    \/ Plumbing
    \/ \E s \in Stages : \E i \in calling[s] : \E out \in Answers(s, i) : Answer(s, i, out)

Spec == Init /\ [][Next]_vars

(* Every goroutine that can run runs, and every call ends: gitlab and      *)
(* fortify use an http.Client without a timeout, so that the server or the *)
(* network ends each exchange is an assumption about them.                 *)
Fairness == WF_vars(Next)

FairSpec == Spec /\ Fairness

-----------------------------------------------------------------------------
(* Properties. *)

\* No goroutine can send on a closed channel, which would panic: while a worker of a
\* stage is alive the channel it sends on is open.
NoSendOnClosed ==
    \A s \in Stages : ~open[s] => Idle(s)

\* When the command returns no goroutine is left behind and no buffer holds an item:
\* nothing that was found is thrown away by the exit of the process.
NothingLeftBehind ==
    done => \A s \in Stages : Idle(s) /\ Drained(s)

\* What is still to be handled: an item with the stage that will handle it.
Undone ==
    (UNION {{<<s, i>> : i \in calling[s]} : s \in Stages})
    \cup (UNION {{<<s + 1, queue[s][k]>> : k \in DOMAIN queue[s]} : s \in Stages})
    \cup (UNION {UNION {{<<s + 1, w[2][k]>> : k \in DOMAIN w[2]} : w \in sending[s]} : s \in Stages})

Work == INSTANCE Worklist WITH
            pending <- Undone,
            reported <- {report[k] : k \in DOMAIN report}

\* The goroutines and channels implement the work list: each item is handled once by
\* each stage it reaches, reported once, the return comes after everything else, and
\* it comes: no order and no outcome of the calls, and no full buffer, stops the command.
ImplementsWorklist == Work!Spec
=============================================================================
