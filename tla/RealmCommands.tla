--------------------------- MODULE RealmCommands ---------------------------
(***************************************************************************)
(* The keycloak commands of simplcli (cmd/simplcli/internal/kccmd) and the *)
(* client they use (internal/kc/kc.go): check the argument, log in, make   *)
(* one call of the Keycloak administration, make an exit code or a value   *)
(* of its answer.  Each process makes a new client and one call with it,   *)
(* so the token cache of the client is always empty when it is asked.      *)
(***************************************************************************)
EXTENDS FiniteSets

CONSTANTS
    Realms,     \* realm names
    NoRealm     \* the empty argument, or a document that names no realm

Reading == {"realms:list", "realms:details", "realms:export", "clients:list"}
Operations == Reading \cup {"realms:import", "realms:delete"}

VARIABLES
    operation,  \* the command
    realm,      \* its argument; of an import the realm of the document
    realms,     \* the realms Keycloak holds
    kcpc,       \* where the process is
    served,     \* Keycloak did what was asked
    outcome,    \* what the command returns: a value, the exit code 0, an error
    done

vars == <<operation, realm, realms, kcpc, served, outcome, done>>

TypeOK ==
    /\ realm \in Realms \cup {NoRealm}
    /\ realms \subseteq Realms
    /\ kcpc \in {"arguments", "token", "call", "returned"}
    /\ served \in BOOLEAN
    /\ outcome \in {"none", "value", "zero", "error"}
    /\ done \in BOOLEAN

Init ==
    /\ realm \in Realms \cup {NoRealm}
    /\ realms \in SUBSET Realms
    /\ kcpc = "arguments"
    /\ served = FALSE
    /\ outcome = "none"
    /\ done = FALSE

Returns(result) ==
    /\ kcpc' = "returned"
    /\ outcome' = result
    /\ done' = TRUE

\* realms:list needs no realm, realms:import reads its document from stdin.
Arguments ==
    /\ kcpc = "arguments"
    /\ IF realm = NoRealm /\ operation \notin {"realms:list", "realms:import"}
       THEN Returns("error")
       ELSE kcpc' = "token" /\ UNCHANGED <<outcome, done>>
    /\ UNCHANGED <<operation, realm, realms, served>>

\* apiToken -> Tokenize: POST to the token endpoint of the realm of the user.
ApiToken ==
    /\ kcpc = "token"
    /\ \/ kcpc' = "call" /\ UNCHANGED <<outcome, done>>
       \/ Returns("error")
    /\ UNCHANGED <<operation, realm, realms, served>>

\* What Keycloak can do: a realm to delete or to read must be there, one to import
\* must not.
Possible ==
    CASE operation = "realms:list"   -> TRUE
      [] operation = "realms:import" -> realm \in Realms \ realms
      [] OTHER                       -> realm \in realms

Effect ==
    CASE operation = "realms:import" -> realms \cup {realm}
      [] operation = "realms:delete" -> realms \ {realm}
      [] OTHER                       -> realms

\* "garbled" is a 2xx answer whose body is not what the command decodes.
Answers == {"2xx", "garbled", "other", "lost"}

\* doRequest, then the decoding of the commands that decode.
Result(answer) ==
    IF answer \in {"other", "lost"} THEN "error"
    ELSE IF operation \in {"realms:export", "realms:import", "realms:delete"} THEN "zero"
    ELSE IF answer = "garbled" /\ operation # "clients:list" THEN "error"
    ELSE "value"

\* MUTANT of DoRequest: the status of the answer is not looked at.
DoRequestAnyStatus(answer) ==
    /\ kcpc = "call"
    /\ \E took \in BOOLEAN :
         /\ took => Possible
         /\ answer \in {"2xx", "garbled"} => took
         /\ served' = took
         /\ realms' = IF took THEN Effect ELSE realms
    /\ Returns(Result(IF answer = "other" THEN "2xx" ELSE answer))
    /\ UNCHANGED <<operation, realm>>

\* The call and its answer: a 2xx says that it was done; without one it may have been.
DoRequest(answer) ==
    /\ kcpc = "call"
    /\ \E took \in BOOLEAN :
         /\ took => Possible
         /\ answer \in {"2xx", "garbled"} => took
         /\ served' = took
         /\ realms' = IF took THEN Effect ELSE realms
    /\ Returns(Result(answer))
    /\ UNCHANGED <<operation, realm>>

Next ==
    \/ Arguments
    \/ ApiToken
    \/ \E answer \in Answers : DoRequest(answer)

Spec == Init /\ [][Next]_vars
=============================================================================
