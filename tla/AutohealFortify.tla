-------------------------- MODULE AutohealFortify --------------------------
(***************************************************************************)
(* autoheal:merge with the Fortify client its fifth stage calls: a worker  *)
(* of that stage is a caller of FortifyClient and waits for the pacer, the *)
(* mutex, the token and the answer while the other stages go on and time   *)
(* passes.  The composition implements AutohealMerge, where the call of    *)
(* the worker is a single step.                                            *)
(***************************************************************************)
EXTENDS AutohealMerge

CONSTANTS Nobody, Pause, MaxTtl     \* of FortifyClient

VARIABLES pacer, pacerLeft, pc, lock, token, tokenLeft, bearer,
          expiresIn, serverLeft, lag, sinceRelease, sinceSend

Client == INSTANCE FortifyClient WITH Callers <- {x \in JobItems : Released(x)}

clientVars == <<pacer, pacerLeft, pc, lock, token, tokenLeft, bearer,
                expiresIn, serverLeft, lag, sinceRelease, sinceSend>>
mergeVars == <<calling, sending, queue, open, report, done, marked, restarts>>
allVars == <<mergeVars, clientVars>>

ComposedInit == Init /\ Client!Init

-----------------------------------------------------------------------------

\* Everything but the fifth stage: none of it touches the Fortify client.
OtherStages ==
    /\ \/ P!Plumbing /\ UNCHANGED servers
       \/ ReadGitlab
       \/ \E x \in calling[Restart] : \E took \in BOOLEAN, out \in MergeAnswers(Restart, x) :
            JobRetry(x, took, out)
    /\ UNCHANGED clientVars

\* A worker of the fifth stage calls fortifyClient.MarkFalsePositive.
StartCall(x) == Client!Call(x) /\ UNCHANGED mergeVars

\* What happens in the client and in time before that call returns.
InsideClient ==
    /\ \/ Client!Tick \/ Client!PacerArm \/ Client!PacerWake
       \/ \E x \in calling[Mark] :
            \/ Client!Release(x) \/ Client!Lock(x)
            \/ Client!UseCached(x) \/ Client!AskToken(x) \/ Client!TokenArrives(x)
            \/ \E ttl \in Client!Ttl : Client!ServerIssue(x, ttl)
            \/ Client!Send(x)
    /\ UNCHANGED mergeVars

\* The call returns without a token: nothing has reached Fortify.
CallRefused(x) == Client!TokenFailed(x) /\ MarkFalsePositive(x, FALSE, <<>>)

\* The call returns what Fortify answered, or that the answer was lost.
CallAnswered(x) ==
    \/ Client!Answered(x, "done") /\ MarkFalsePositive(x, TRUE, <<x>>)
    \/ \E took \in BOOLEAN : Client!Answered(x, "failed") /\ MarkFalsePositive(x, took, <<>>)

ComposedNext ==
    \/ OtherStages
    \/ InsideClient
    \/ \E x \in calling[Mark] : StartCall(x) \/ CallRefused(x) \/ CallAnswered(x)

\* The goroutines of the command run, and those of the client as FortifyClient says.
ComposedSpec ==
    /\ ComposedInit
    /\ [][ComposedNext]_allVars
    /\ WF_allVars(OtherStages)
    /\ WF_allVars(\E x \in calling[Mark] : StartCall(x))
    /\ Client!Fairness

-----------------------------------------------------------------------------
(* Properties. *)

\* Pacer, mutex, token cache and expiry put together cost autoheal:merge nothing but
\* time: it marks, restarts, reports and ends as if the call were one step, so one
\* worker that fails inside the client (fortify.go:96-132) never stops the others,
\* their stage (autoheal-merge-command.go:176-188) or the command.
ImplementsAutoheal == FairSpec
=============================================================================
