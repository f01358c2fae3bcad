--------------------------- MODULE FortifyClient ---------------------------
(***************************************************************************)
(* simplcli/internal/fortify/fortify.go: the client every Fortify call of  *)
(* simplcli shares.  A pacer goroutine lets one request through each       *)
(* Pause, a mutex guards the cached bearer token, and the requests         *)
(* themselves run in the goroutines of the callers.                        *)
(*                                                                         *)
(* Time is discrete.  A deadline is kept as the time left to it, which     *)
(* Tick counts down, so the model needs no bound on the clock.  Steps take *)
(* any time: Tick may come between any two of them.                        *)
(***************************************************************************)
EXTENDS Naturals, FiniteSets

CONSTANTS
    Callers,    \* goroutines that each make one call of the client
    Nobody,     \* the nil token and the free mutex
    Pause,      \* the pacer's 5 * time.Second
    MaxTtl      \* bound: the longest expires_in the token endpoint answers

ASSUME FortifyAssumption ==
    /\ Nobody \notin Callers
    /\ Pause \in Nat
    /\ MaxTtl \in Nat

VARIABLES
    pacer,        \* what the pacer goroutine is doing
    pacerLeft,    \* time left of its time.After
    pc,           \* where each caller is in doRequest / tokenize
    lock,         \* holder of tokenSync
    token,        \* Client.token, named by the caller whose request fetched it
    tokenLeft,    \* time left to Client.tokenExpire
    bearer,       \* the token in the Authorization header of each caller
    expiresIn,    \* expires_in of the token issued to each caller
    serverLeft,   \* time the server still honours the token issued to each caller
    lag,          \* time the answer with that token has travelled, at most MaxTtl
    sinceRelease, \* time since the pacer let a caller through, at most Pause
    sinceSend     \* time since a request left for Fortify, at most Pause

pacerVars == <<pacer, pacerLeft>>
cacheVars == <<lock, token, tokenLeft>>
serverVars == <<expiresIn, serverLeft, lag>>
vars == <<pacerVars, pc, cacheVars, bearer, serverVars, sinceRelease, sinceSend>>

Ttl == 0..MaxTtl
PacerStates == {"offering", "handed", "sleeping"}
InTokenize == {"locked", "asking", "issued"}
Ended == {"done", "failed"}
Places == {"idle", "waiting", "released", "tokenized", "sent"} \cup InTokenize \cup Ended

TypeOK ==
    /\ pacer \in PacerStates
    /\ pacerLeft \in 0..Pause
    /\ pc \in [Callers -> Places]
    /\ lock \in Callers \cup {Nobody}
    /\ token \in Callers \cup {Nobody}
    /\ tokenLeft \in Ttl
    /\ bearer \in [Callers -> Callers \cup {Nobody}]
    /\ expiresIn \in [Callers -> Ttl]
    /\ serverLeft \in [Callers -> Ttl]
    /\ lag \in [Callers -> Ttl]
    /\ sinceRelease \in 0..Pause
    /\ sinceSend \in 0..Pause

Init ==
    /\ pacer = "offering"
    /\ pacerLeft = 0
    /\ pc = [c \in Callers |-> "idle"]
    /\ lock = Nobody
    /\ token = Nobody
    /\ tokenLeft = 0
    /\ bearer = [c \in Callers |-> Nobody]
    /\ expiresIn = [c \in Callers |-> 0]
    /\ serverLeft = [c \in Callers |-> 0]
    /\ lag = [c \in Callers |-> 0]
    /\ sinceRelease = Pause
    /\ sinceSend = Pause

-----------------------------------------------------------------------------
(* Time. *)

Less(n) == IF n = 0 THEN 0 ELSE n - 1
More(n, bound) == IF n < bound THEN n + 1 ELSE bound

Tick ==
    /\ pacerLeft' = Less(pacerLeft)
    /\ tokenLeft' = Less(tokenLeft)
    /\ serverLeft' = [c \in Callers |-> Less(serverLeft[c])]
    /\ lag' = [c \in Callers |->
                 IF pc[c] = "issued" THEN More(lag[c], MaxTtl) ELSE lag[c]]
    /\ sinceRelease' = More(sinceRelease, Pause)
    /\ sinceSend' = More(sinceSend, Pause)
    /\ UNCHANGED <<pacer, pc, lock, token, bearer, expiresIn>>

-----------------------------------------------------------------------------
(* The pacer goroutine: offer on the unbuffered channel, then sleep.  The  *)
(* timer is created after the hand-over, so the pause is never shorter.    *)

PacerArm ==
    /\ pacer = "handed"
    /\ pacer' = "sleeping"
    /\ pacerLeft' = Pause
    /\ UNCHANGED <<pc, cacheVars, bearer, serverVars, sinceRelease, sinceSend>>

\* MUTANT of PacerWake: does not wait for the timer.
PacerWakeEarly ==
    /\ pacer = "sleeping"
    /\ pacer' = "offering"
    /\ UNCHANGED <<pacerLeft, pc, cacheVars, bearer, serverVars, sinceRelease, sinceSend>>

PacerWake ==
    /\ pacer = "sleeping"
    /\ pacerLeft = 0
    /\ pacer' = "offering"
    /\ UNCHANGED <<pacerLeft, pc, cacheVars, bearer, serverVars, sinceRelease, sinceSend>>

-----------------------------------------------------------------------------
(* A caller: MarkFalsePositive -> doRequest. *)

Call(c) ==
    /\ pc[c] = "idle"
    /\ pc' = [pc EXCEPT ![c] = "waiting"]
    /\ UNCHANGED <<pacerVars, cacheVars, bearer, serverVars, sinceRelease, sinceSend>>

\* <-concurrentHttpRequest: the pacer's send and the caller's receive are one step.
Release(c) ==
    /\ pc[c] = "waiting"
    /\ pacer = "offering"
    /\ pc' = [pc EXCEPT ![c] = "released"]
    /\ pacer' = "handed"
    /\ sinceRelease' = 0
    /\ UNCHANGED <<pacerLeft, cacheVars, bearer, serverVars, sinceSend>>

\* MUTANT of Lock: tokenize without tokenSync.
LockNothing(c) ==
    /\ pc[c] = "released"
    /\ lock' = c
    /\ pc' = [pc EXCEPT ![c] = "locked"]
    /\ UNCHANGED <<pacerVars, token, tokenLeft, bearer, serverVars, sinceRelease, sinceSend>>

Lock(c) ==
    /\ pc[c] = "released"
    /\ lock = Nobody
    /\ lock' = c
    /\ pc' = [pc EXCEPT ![c] = "locked"]
    /\ UNCHANGED <<pacerVars, token, tokenLeft, bearer, serverVars, sinceRelease, sinceSend>>

\* c.token != nil && time.Now().Before(c.tokenExpire)
Fresh == token # Nobody /\ tokenLeft > 0

UseCached(c) ==
    /\ pc[c] = "locked"
    /\ Fresh
    /\ bearer' = [bearer EXCEPT ![c] = token]
    /\ pc' = [pc EXCEPT ![c] = "tokenized"]
    /\ lock' = Nobody
    /\ UNCHANGED <<pacerVars, token, tokenLeft, serverVars, sinceRelease, sinceSend>>

\* TokenFunc gave the credentials: POST /oauth/token leaves.
AskToken(c) ==
    /\ pc[c] = "locked"
    /\ ~Fresh
    /\ pc' = [pc EXCEPT ![c] = "asking"]
    /\ UNCHANGED <<pacerVars, cacheVars, bearer, serverVars, sinceRelease, sinceSend>>

\* MUTANT of TokenFailed: an error return that keeps the mutex.
TokenFailedLocked(c) ==
    /\ pc[c] \in InTokenize
    /\ pc[c] = "locked" => ~Fresh
    /\ pc' = [pc EXCEPT ![c] = "failed"]
    /\ UNCHANGED <<pacerVars, cacheVars, bearer, serverVars, sinceRelease, sinceSend>>

\* An error return of tokenize: no TokenFunc, no credentials, a failed request,
\* a status other than 2xx, or an answer that is lost or cannot be decoded after
\* the server issued the token.
TokenFailed(c) ==
    /\ pc[c] \in InTokenize
    /\ pc[c] = "locked" => ~Fresh
    /\ pc' = [pc EXCEPT ![c] = "failed"]
    /\ lock' = Nobody
    /\ UNCHANGED <<pacerVars, token, tokenLeft, bearer, serverVars, sinceRelease, sinceSend>>

\* The Fortify server issues a token; its life starts here, not at the arrival.
ServerIssue(c, ttl) ==
    /\ pc[c] = "asking"
    /\ pc' = [pc EXCEPT ![c] = "issued"]
    /\ expiresIn' = [expiresIn EXCEPT ![c] = ttl]
    /\ serverLeft' = [serverLeft EXCEPT ![c] = ttl]
    /\ lag' = [lag EXCEPT ![c] = 0]
    /\ UNCHANGED <<pacerVars, cacheVars, bearer, sinceRelease, sinceSend>>

\* MUTANT of TokenArrives: expiry extended from the one already cached.
TokenArrivesExtended(c) ==
    /\ pc[c] = "issued"
    /\ token' = c
    /\ tokenLeft' = IF tokenLeft + expiresIn[c] + 1 > MaxTtl
                    THEN MaxTtl ELSE tokenLeft + expiresIn[c] + 1
    /\ bearer' = [bearer EXCEPT ![c] = c]
    /\ pc' = [pc EXCEPT ![c] = "tokenized"]
    /\ lock' = Nobody
    /\ UNCHANGED <<pacerVars, serverVars, sinceRelease, sinceSend>>

\* MUTANT of TokenArrives: expires_in read in a unit twice too long.
TokenArrivesWrongUnit(c) ==
    /\ pc[c] = "issued"
    /\ token' = c
    /\ tokenLeft' = 2 * expiresIn[c]
    /\ bearer' = [bearer EXCEPT ![c] = c]
    /\ pc' = [pc EXCEPT ![c] = "tokenized"]
    /\ lock' = Nobody
    /\ UNCHANGED <<pacerVars, serverVars, sinceRelease, sinceSend>>

\* The answer has come: decode it, compute the expiry from the clock now, unlock.
TokenArrives(c) ==
    /\ pc[c] = "issued"
    /\ token' = c
    /\ tokenLeft' = expiresIn[c]
    /\ bearer' = [bearer EXCEPT ![c] = c]
    /\ pc' = [pc EXCEPT ![c] = "tokenized"]
    /\ lock' = Nobody
    /\ UNCHANGED <<pacerVars, serverVars, sinceRelease, sinceSend>>

\* cl.Do(r): the request leaves for Fortify.
Send(c) ==
    /\ pc[c] = "tokenized"
    /\ pc' = [pc EXCEPT ![c] = "sent"]
    /\ sinceSend' = 0
    /\ UNCHANGED <<pacerVars, cacheVars, bearer, serverVars, sinceRelease>>

\* cl.Do returns: a 2xx answer is a success, everything else an error.  A token
\* the server no longer honours is refused.
Answered(c, outcome) ==
    /\ pc[c] = "sent"
    /\ outcome = "done" => serverLeft[bearer[c]] > 0
    /\ pc' = [pc EXCEPT ![c] = outcome]
    /\ UNCHANGED <<pacerVars, cacheVars, bearer, serverVars, sinceRelease, sinceSend>>

-----------------------------------------------------------------------------

Next ==
    \/ Tick
    \/ PacerArm
    \/ PacerWake
    \/ \E c \in Callers :
        \/ Call(c)
        \/ Release(c)
        \/ Lock(c)
        \/ UseCached(c)
        \/ AskToken(c)
        \/ TokenFailed(c)
        \/ \E ttl \in Ttl : ServerIssue(c, ttl)
        \/ TokenArrives(c)
        \/ Send(c)
        \/ \E outcome \in Ended : Answered(c, outcome)

Spec == Init /\ [][Next]_vars

(* Time passes, the scheduler runs every goroutine that can run, and the   *)
(* server or the network ends every exchange: http.Client{} has no         *)
(* timeout, so the last one is an assumption about the environment.        *)
Fairness ==
    /\ WF_vars(Tick)
    /\ WF_vars(PacerArm)
    /\ WF_vars(PacerWake)
    /\ \A c \in Callers :
        /\ WF_vars(Release(c))
        /\ WF_vars(Lock(c))
        /\ WF_vars(UseCached(c))
        /\ WF_vars(AskToken(c) \/ TokenFailed(c))
        /\ WF_vars(TokenArrives(c) \/ TokenFailed(c))
        /\ WF_vars(\E ttl \in Ttl : ServerIssue(c, ttl) \/ TokenFailed(c))
        /\ WF_vars(Send(c))
        /\ WF_vars(\E outcome \in Ended : Answered(c, outcome))

FairSpec == Spec /\ Fairness

-----------------------------------------------------------------------------
(* Properties. *)

\* tokenSync works: only the goroutine that holds it is between Lock and Unlock of
\* tokenize, so at most one POST /oauth/token is under way (fortify.go:93).
OneTokenizer ==
    \A c \in Callers : pc[c] \in InTokenize => lock = c

\* The pacer keeps its promise at the gate: two callers get past line 63 at least
\* Pause apart, however the goroutines are scheduled (fortify.go:16-22).
PacedReleases ==
    [][\A c \in Callers :
         pc[c] = "waiting" /\ pc'[c] = "released" => sinceRelease = Pause]_vars

\* Concurrent callers share one token: no answer of the token endpoint ever replaces
\* a token that was still usable, so a burst of calls logs in once (fortify.go:100).
NoWastedLogin ==
    [][token' # token => ~Fresh]_vars

\* The expiry the client computes on arrival (fortify.go:135) outlives the server's by
\* at most the time the answer travelled: a cached token is stale for no other reason.
ExpiryLag ==
    token # Nobody => tokenLeft <= serverLeft[token] + lag[token]

\* Every call that reaches the gate ends, whatever the order of the pacer, the mutex
\* holders and the failures: no error path of tokenize keeps the mutex.
EveryCallEnds ==
    \A c \in Callers : pc[c] = "waiting" ~> pc[c] \in Ended

\* fortify.go:13 "Force a pause of fortify requests": two requests leave at least
\* Pause apart.
PausedRequests ==
    [][\A c \in Callers :
         pc[c] = "tokenized" /\ pc'[c] = "sent" => sinceSend = Pause]_vars
=============================================================================
