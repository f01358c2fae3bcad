----------------------------- MODULE NewKeyPair -----------------------------
(***************************************************************************)
(* simplcli kp-new (cmd/simplcli/internal/simplcmd/simpl-command.go): one  *)
(* goroutine for each name logs in, asks the authentication provider for a *)
(* key pair and sends one result on a channel with a place for each of     *)
(* them.  One stage of StagedPipeline.                                     *)
(***************************************************************************)
EXTENDS Naturals, Sequences, FiniteSets

CONSTANT Names  \* the arguments, a sequence; a name may be given twice

Positions == DOMAIN Names
Source == {<<p>> : p \in Positions}
Outcomes == {"ok", "error"}
Item == Source \cup {<<p, outcome>> : p \in Positions, outcome \in Outcomes}

NStages == 1

\* make(chan resT, len(names))
Cap == Len(Names)

Results(s, x) == {<<<<x[1], outcome>>>> : outcome \in Outcomes}
SkipsNone(s, x) == FALSE

VARIABLES calling, sending, queue, open, report, done

P == INSTANCE StagedPipeline WITH Answers <- Results, Skips <- SkipsNone

VARIABLE
    created     \* created[n]: the key pairs of name n the provider holds

AllNames == {Names[p] : p \in Positions}
vars == <<P!vars, created>>

TypeOK ==
    /\ P!TypeOK
    /\ created \in [AllNames -> 0..Len(Names)]

Init ==
    /\ P!Init
    /\ created = [n \in AllNames |-> 0]

\* MUTANT of GenerateKeyPair: the error of the call is not looked at.
GenerateUnchecked(x, took, outcome) ==
    /\ P!Answer(1, x, <<<<x[1], outcome>>>>)
    /\ created' = IF took THEN [created EXCEPT ![Names[x[1]]] = @ + 1] ELSE created

\* TokenFunc, whose token every goroutine fetches for itself, then POST /keypairs.
\* The pair may exist although the answer is an error or is lost.
GenerateKeyPair(x, took, outcome) ==
    /\ outcome = "ok" => took
    /\ P!Answer(1, x, <<<<x[1], outcome>>>>)
    /\ created' = IF took THEN [created EXCEPT ![Names[x[1]]] = @ + 1] ELSE created

Next ==
    \/ P!Plumbing /\ UNCHANGED created
    \/ \E x \in calling[1], took \in BOOLEAN, outcome \in Outcomes :
         GenerateKeyPair(x, took, outcome)

Spec == Init /\ [][Next]_vars

-----------------------------------------------------------------------------
(* Properties. *)

Got(n, outcome) == Cardinality({k \in DOMAIN report :
                        Names[report[k][1]] = n /\ report[k][2] = outcome})

\* The provider holds at least the reported key pairs of a name, and at most one for
\* each result: a lost answer is not asked for again.
PairsMatchReport ==
    done => \A n \in AllNames :
        /\ created[n] >= Got(n, "ok")
        /\ created[n] <= Got(n, "ok") + Got(n, "error")
=============================================================================
