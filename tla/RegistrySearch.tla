--------------------------- MODULE RegistrySearch ---------------------------
(***************************************************************************)
(* simplcli registry:search (cmd/simplcli/registry-command.go): the one    *)
(* search that asks its projects one after the other.  A single goroutine  *)
(* walks through them and sends the items on an unbuffered channel; the    *)
(* first error ends it.                                                    *)
(***************************************************************************)
EXTENDS Naturals, Sequences

CONSTANT
    Registries  \* the answers GitLab may hold: for each project argument a sequence of items

VARIABLES
    registry,   \* what GitLab holds for the arguments of this call
    next,       \* the project the goroutine asks for next
    sending,    \* the items of the last answer still to be sent
    failed,     \* the projects reported on stderr
    running,    \* the goroutine has not returned
    open,       \* ch has not been closed
    items,      \* what main has received
    done

vars == <<registry, next, sending, failed, running, open, items, done>>

Projects == 1..Len(registry)
Items(p) == {registry[p][k] : k \in DOMAIN registry[p]}
RegistryItems == UNION {Items(p) : p \in Projects}

TypeOK ==
    /\ registry \in Registries
    /\ next \in 1..(Len(registry) + 1)
    /\ sending \in Seq(RegistryItems)
    /\ failed \subseteq Projects
    /\ running \in BOOLEAN
    /\ open \in BOOLEAN
    /\ items \in Seq(RegistryItems)
    /\ done \in BOOLEAN

Init ==
    /\ registry \in Registries
    /\ next = 1
    /\ sending = <<>>
    /\ failed = {}
    /\ running = TRUE
    /\ open = TRUE
    /\ items = <<>>
    /\ done = FALSE

\* The registry of the next project answers.
Found ==
    /\ running /\ sending = <<>> /\ next \in Projects
    /\ sending' = registry[next]
    /\ next' = next + 1
    /\ UNCHANGED <<registry, failed, running, open, items, done>>

\* MUTANT of Failed: the loop goes on with the next project.
FailedContinue ==
    /\ running /\ sending = <<>> /\ next \in Projects
    /\ failed' = failed \cup {next}
    /\ next' = next + 1
    /\ UNCHANGED <<registry, sending, running, open, items, done>>

\* It answers with an error: a line on stderr and return.
Failed ==
    /\ running /\ sending = <<>> /\ next \in Projects
    /\ failed' = failed \cup {next}
    /\ running' = FALSE
    /\ UNCHANGED <<registry, next, sending, open, items, done>>

LoopEnds ==
    /\ running /\ sending = <<>> /\ next \notin Projects
    /\ running' = FALSE
    /\ UNCHANGED <<registry, next, sending, failed, open, items, done>>

\* ch <- item meets main's receive.
Deliver ==
    /\ sending # <<>> /\ ~done
    /\ items' = Append(items, Head(sending))
    /\ sending' = Tail(sending)
    /\ UNCHANGED <<registry, next, failed, running, open, done>>

\* wg.Wait, then close(ch).
Close ==
    /\ open /\ ~running
    /\ open' = FALSE
    /\ UNCHANGED <<registry, next, sending, failed, running, items, done>>

Return ==
    /\ ~open /\ ~done
    /\ done' = TRUE
    /\ UNCHANGED <<registry, next, sending, failed, running, open, items>>

Returned == done /\ UNCHANGED vars

Next == Found \/ Failed \/ LoopEnds \/ Deliver \/ Close \/ Return \/ Returned

Spec == Init /\ [][Next]_vars

-----------------------------------------------------------------------------
(* Properties. *)

\* The items of the first n projects, in order.
ItemsOfFirst[n \in 0..Len(registry)] ==
    IF n = 0 THEN <<>> ELSE ItemsOfFirst[n - 1] \o registry[n]

\* The answer keeps the order of the arguments and has the items of the projects
\* before the first failing one, all of them and no others; nothing is printed for
\* the projects after it (registry-command.go:46-49).
AnswerIsPrefix ==
    done => \/ failed = {} /\ items = ItemsOfFirst[Len(registry)]
            \/ \E p \in Projects : failed = {p} /\ items = ItemsOfFirst[p - 1]
=============================================================================
