------------------------ MODULE FortifyClient_proofs ------------------------
(***************************************************************************)
(* What holds of the Fortify client for every set of callers, every pause  *)
(* and every token lifetime.                                               *)
(***************************************************************************)
EXTENDS FortifyClient, TLAPS

\* The pacer offers only when a Pause has gone by since the last release.
PacerInv ==
    /\ pacer = "offering" => sinceRelease = Pause
    /\ pacer = "sleeping" => pacerLeft + sinceRelease >= Pause

\* Nobody logs in while a usable token is cached.
LoginInv ==
    \A c \in Callers : pc[c] \in {"asking", "issued"} => ~Fresh

\* A token on its way is no younger than its journey, and the cached token was
\* fetched by a caller that is past tokenize.
AgeInv ==
    /\ \A c \in Callers :
         pc[c] = "issued" => expiresIn[c] <= serverLeft[c] + lag[c]
    /\ \A c \in Callers :
         token = c => pc[c] \in {"tokenized", "sent", "done", "failed"}

IInv ==
    /\ TypeOK
    /\ OneTokenizer
    /\ PacerInv
    /\ LoginInv
    /\ AgeInv
    /\ ExpiryLag

USE DEF PacerStates, InTokenize, Ended, Places, Ttl,
        pacerVars, cacheVars, serverVars, vars

-----------------------------------------------------------------------------
(* The two saturating counters stay in range and count one step. *)

\* Counting down from a number below a bound stays below it, and loses at most one.
LEMMA LessFact ==
    ASSUME NEW bound \in Nat, NEW n \in 0..bound
    PROVE  /\ Less(n) \in 0..bound
           /\ Less(n) <= n
           /\ n > 0 => Less(n) = n - 1
           /\ n = 0 => Less(n) = 0
BY DEF Less

\* Counting up stops at the bound.
LEMMA MoreFact ==
    ASSUME NEW bound \in Nat, NEW n \in 0..bound
    PROVE  /\ More(n, bound) \in 0..bound
           /\ n < bound => More(n, bound) = n + 1
           /\ n = bound => More(n, bound) = bound
BY DEF More

-----------------------------------------------------------------------------
\* The initial state satisfies the invariant.
LEMMA InitIInv == Init => IInv
BY FortifyAssumption, SMT
   DEF Init, IInv, TypeOK, OneTokenizer, PacerInv, LoginInv, AgeInv, ExpiryLag, Fresh

\* Letting time pass keeps the invariant.
LEMMA TickIInv ==
    ASSUME IInv, Tick
    PROVE  IInv'
<1> USE FortifyAssumption DEF IInv, Tick
<1>0. /\ Less(pacerLeft) \in 0..Pause
      /\ Less(tokenLeft) \in Ttl
      /\ \A c \in Callers : Less(serverLeft[c]) \in Ttl
      /\ \A c \in Callers : More(lag[c], MaxTtl) \in Ttl
      /\ More(sinceRelease, Pause) \in 0..Pause
      /\ More(sinceSend, Pause) \in 0..Pause
  BY LessFact, MoreFact DEF TypeOK
<1>1. TypeOK'
  BY <1>0 DEF TypeOK
<1>2. OneTokenizer'
  BY DEF OneTokenizer
<1>3. PacerInv'
  BY DEF PacerInv, TypeOK, Less, More
<1>4. LoginInv'
  BY DEF LoginInv, Fresh, TypeOK, Less
<1>5. AgeInv'
  BY DEF AgeInv, TypeOK, Less, More
<1>6. ExpiryLag'
  <2> SUFFICES ASSUME token # Nobody
               PROVE  tokenLeft' <= serverLeft'[token] + lag'[token]
    BY DEF ExpiryLag
  <2>1. token \in Callers
    BY DEF TypeOK
  <2>2. tokenLeft <= serverLeft[token] + lag[token]
    BY DEF ExpiryLag
  <2>3. pc[token] # "issued"
    BY <2>1 DEF AgeInv
  <2> QED
    BY <2>1, <2>2, <2>3 DEF TypeOK, Less
<1> QED
  BY <1>1, <1>2, <1>3, <1>4, <1>5, <1>6

\* The pacer's own steps keep the invariant.
LEMMA PacerIInv ==
    ASSUME IInv, PacerArm \/ PacerWake
    PROVE  IInv'
BY FortifyAssumption, SMT
   DEF IInv, PacerArm, PacerWake, TypeOK, OneTokenizer, PacerInv, LoginInv, AgeInv,
       ExpiryLag, Fresh

\* Every step of a caller keeps the invariant.
LEMMA CallerIInv ==
    ASSUME IInv, NEW c \in Callers,
           \/ Call(c) \/ Release(c) \/ Lock(c) \/ UseCached(c) \/ AskToken(c)
           \/ TokenFailed(c) \/ (\E ttl \in Ttl : ServerIssue(c, ttl))
           \/ TokenArrives(c) \/ Send(c) \/ (\E outcome \in Ended : Answered(c, outcome))
    PROVE  IInv'
<1> USE FortifyAssumption DEF IInv
<1>1. CASE Call(c)
  BY <1>1 DEF Call, TypeOK, OneTokenizer, PacerInv, LoginInv, AgeInv, ExpiryLag, Fresh
<1>2. CASE Release(c)
  BY <1>2 DEF Release, TypeOK, OneTokenizer, PacerInv, LoginInv, AgeInv, ExpiryLag, Fresh
<1>3. CASE Lock(c)
  BY <1>3 DEF Lock, TypeOK, OneTokenizer, PacerInv, LoginInv, AgeInv, ExpiryLag, Fresh
<1>4. CASE UseCached(c)
  BY <1>4 DEF UseCached, TypeOK, OneTokenizer, PacerInv, LoginInv, AgeInv, ExpiryLag, Fresh
<1>5. CASE AskToken(c)
  BY <1>5 DEF AskToken, TypeOK, OneTokenizer, PacerInv, LoginInv, AgeInv, ExpiryLag, Fresh
<1>6. CASE TokenFailed(c)
  BY <1>6 DEF TokenFailed, TypeOK, OneTokenizer, PacerInv, LoginInv, AgeInv, ExpiryLag, Fresh
<1>7. ASSUME NEW ttl \in Ttl, ServerIssue(c, ttl)
      PROVE  IInv'
  <2> USE <1>7 DEF ServerIssue
  <2>1. TypeOK'
    BY DEF TypeOK
  <2>2. OneTokenizer' /\ PacerInv'
    BY DEF OneTokenizer, PacerInv, TypeOK
  <2>3. LoginInv'
    BY DEF LoginInv, TypeOK, Fresh
  <2>4. AgeInv'
    BY DEF AgeInv, TypeOK
  <2>5. ExpiryLag'
    BY DEF ExpiryLag, AgeInv, TypeOK
  <2> QED
    BY <2>1, <2>2, <2>3, <2>4, <2>5
<1>8. CASE TokenArrives(c)
  <2> USE <1>8 DEF TokenArrives
  <2>1. TypeOK'
    BY DEF TypeOK
  <2>2. OneTokenizer' /\ PacerInv'
    BY DEF OneTokenizer, PacerInv, TypeOK
  <2>3. LoginInv'
    BY DEF LoginInv, OneTokenizer, TypeOK, Fresh
  <2>4. AgeInv'
    BY DEF AgeInv, TypeOK
  <2>5. ExpiryLag'
    BY DEF ExpiryLag, AgeInv, TypeOK
  <2> QED
    BY <2>1, <2>2, <2>3, <2>4, <2>5
<1>9. CASE Send(c)
  BY <1>9 DEF Send, TypeOK, OneTokenizer, PacerInv, LoginInv, AgeInv, ExpiryLag, Fresh
<1>10. ASSUME NEW outcome \in Ended, Answered(c, outcome)
       PROVE  IInv'
  BY <1>10 DEF Answered, TypeOK, OneTokenizer, PacerInv, LoginInv, AgeInv, ExpiryLag, Fresh
<1> QED
  BY <1>1, <1>2, <1>3, <1>4, <1>5, <1>6, <1>7, <1>8, <1>9, <1>10

\* The invariant is inductive.
LEMMA NextIInv == IInv /\ [Next]_vars => IInv'
<1> SUFFICES ASSUME IInv, [Next]_vars
             PROVE  IInv'
  OBVIOUS
<1>1. CASE UNCHANGED vars
  BY <1>1 DEF IInv, TypeOK, OneTokenizer, PacerInv, LoginInv, AgeInv, ExpiryLag, Fresh
<1>2. CASE Next
  BY <1>2, TickIInv, PacerIInv, CallerIInv DEF Next
<1> QED
  BY <1>1, <1>2

\* The strengthened invariant holds of every behaviour of the client.
THEOREM Inductive == Spec => []IInv
BY InitIInv, NextIInv, PTL DEF Spec

-----------------------------------------------------------------------------
(* The results. *)

\* Every variable keeps its type.
THEOREM TypeCorrect == Spec => []TypeOK
<1>1. IInv => TypeOK
  BY DEF IInv
<1> QED
  BY <1>1, Inductive, PTL

\* At most one goroutine logs in at a time, for any number of callers.
THEOREM MutualExclusion == Spec => []OneTokenizer
<1>1. IInv => OneTokenizer
  BY DEF IInv
<1> QED
  BY <1>1, Inductive, PTL

\* A cached token outlives the server's by no more than its answer's journey.
THEOREM ExpiryBound == Spec => []ExpiryLag
<1>1. IInv => ExpiryLag
  BY DEF IInv
<1> QED
  BY <1>1, Inductive, PTL

\* The gate opens at most once each Pause, whatever the schedule.
THEOREM Paced == Spec => PacedReleases
<1>1. IInv /\ [Next]_vars =>
        [\A c \in Callers :
           pc[c] = "waiting" /\ pc'[c] = "released" => sinceRelease = Pause]_vars
  <2> SUFFICES ASSUME IInv, Next, NEW c \in Callers,
                      pc[c] = "waiting", pc'[c] = "released"
               PROVE  sinceRelease = Pause
    OBVIOUS
  <2>1. PICK d \in Callers : Release(d)
    BY DEF Next, IInv, TypeOK, Tick, PacerArm, PacerWake, Call, Lock, UseCached, AskToken,
           TokenFailed, ServerIssue, TokenArrives, Send, Answered
  <2> QED
    BY <2>1 DEF Release, IInv, PacerInv
<1> QED
  BY <1>1, Inductive, PTL DEF Spec, PacedReleases

\* No answer of the token endpoint replaces a token that is still usable.
THEOREM LoginsNotWasted == Spec => NoWastedLogin
<1>1. IInv /\ [Next]_vars => [token' # token => ~Fresh]_vars
  <2> SUFFICES ASSUME IInv, Next, token' # token
               PROVE  ~Fresh
    OBVIOUS
  <2>1. PICK c \in Callers : TokenArrives(c)
    BY DEF Next, Tick, PacerArm, PacerWake, Call, Release, Lock, UseCached, AskToken,
           TokenFailed, ServerIssue, Send, Answered
  <2> QED
    BY <2>1 DEF TokenArrives, IInv, LoginInv
<1> QED
  BY <1>1, Inductive, PTL DEF Spec, NoWastedLogin
=============================================================================
