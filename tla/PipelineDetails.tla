-------------------------- MODULE PipelineDetails --------------------------
(***************************************************************************)
(* simplcli pipelines:details (cmd/simplcli/pipeline-command.go): two      *)
(* goroutines ask GitLab for a pipeline and for its variables, each sends  *)
(* what it got on a channel of its own with one place, and main receives   *)
(* from the first channel, then from the second.                           *)
(***************************************************************************)
EXTENDS Naturals, Sequences

Calls == {"details", "attributes"}
Results == {"ok", "error"}

VARIABLES
    asking,     \* the calls GitLab has not answered yet
    channel,    \* channel[c]: the buffer of the channel of a call
    received,   \* received[c]: what main has taken from it
    outcome,    \* what the command returns
    done

vars == <<asking, channel, received, outcome, done>>

TypeOK ==
    /\ asking \subseteq Calls
    /\ channel \in [Calls -> Seq(Results)]
    /\ \A c \in Calls : Len(channel[c]) <= 1
    /\ received \in [Calls -> Results \cup {"none"}]
    /\ outcome \in {"none", "value", "error"}
    /\ done \in BOOLEAN

Init ==
    /\ asking = Calls
    /\ channel = [c \in Calls |-> <<>>]
    /\ received = [c \in Calls |-> "none"]
    /\ outcome = "none"
    /\ done = FALSE

\* gitlabClient.Pipeline or .PipelineAttributes returns and the goroutine sends; the
\* place in the buffer is free, so nothing waits.
Answer(c, result) ==
    /\ c \in asking
    /\ asking' = asking \ {c}
    /\ channel' = [channel EXCEPT ![c] = Append(@, result)]
    /\ UNCHANGED <<received, outcome, done>>

\* Main takes the details first.
Receive(c) ==
    /\ channel[c] # <<>>
    /\ c = "attributes" => received["details"] # "none"
    /\ received' = [received EXCEPT ![c] = Head(channel[c])]
    /\ channel' = [channel EXCEPT ![c] = Tail(@)]
    /\ UNCHANGED <<asking, outcome, done>>

Return ==
    /\ ~done
    /\ \A c \in Calls : received[c] # "none"
    /\ outcome' = IF \E c \in Calls : received[c] = "error" THEN "error" ELSE "value"
    /\ done' = TRUE
    /\ UNCHANGED <<asking, channel, received>>

Next ==
    \/ \E c \in Calls : Receive(c) \/ \E result \in Results : Answer(c, result)
    \/ Return

Spec == Init /\ [][Next]_vars
=============================================================================
