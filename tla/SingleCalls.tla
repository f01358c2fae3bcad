---------------------------- MODULE SingleCalls ----------------------------
(***************************************************************************)
(* The commands of simplcli that make one call, or none: check the         *)
(* arguments, get a token where the server wants one, call, make a value   *)
(* or an exit code of the answer.  GitLab takes its token from the         *)
(* environment; Fortify's and Keycloak's are fetched first.                *)
(***************************************************************************)

VARIABLES
    operation,  \* the command
    place,      \* where the process is
    served,     \* what was asked for has been done
    outcome,    \* what the command returns: a value, the exit code 0, an error
    done

vars == <<operation, place, served, outcome, done>>

OfGitlab == {"pipelines:jobs", "merge:details", "jobs:logs"}
OfApi == {"tokenize", "echo", "kp-active"}
OfInfo == {"projects", "groups"}
Operations == OfGitlab \cup OfApi \cup OfInfo \cup {"false-positive"}

\* The commands that need words after their name.
WithArguments == OfGitlab \cup {"false-positive"}

\* The commands whose result is an exit code.
OfInt == {"jobs:logs", "tokenize", "false-positive"}

TypeOK ==
    /\ operation \in Operations
    /\ place \in {"arguments", "token", "call", "print", "returned"}
    /\ served \in BOOLEAN
    /\ outcome \in {"none", "value", "zero", "error"}
    /\ done \in BOOLEAN

Init ==
    /\ place = "arguments"
    /\ served = FALSE
    /\ outcome = "none"
    /\ done = FALSE

Returns(result) ==
    /\ place' = "returned"
    /\ outcome' = result
    /\ done' = TRUE

GoesTo(next) ==
    /\ place' = next
    /\ UNCHANGED <<outcome, done>>

\* A project and an id, or a release, or nothing.
Arguments(given) ==
    /\ place = "arguments"
    /\ \/ operation \in WithArguments /\ ~given /\ Returns("error")
       \/ operation \in OfGitlab /\ given /\ GoesTo("call")
       \/ operation = "false-positive" /\ given /\ GoesTo("token")
       \/ operation \in OfApi /\ GoesTo("token")
       \/ operation \in OfInfo /\ Returns("value")
    /\ served' = (operation \in OfInfo)
    /\ UNCHANGED operation

\* Keycloak's token endpoint, Fortify's, or with -kube the variable KTOKEN; tokenize
\* asks Keycloak whatever the flags say, and has then only to print.
Token(got) ==
    /\ place = "token"
    /\ IF got THEN GoesTo(IF operation = "tokenize" THEN "print" ELSE "call")
       ELSE Returns("error")
    /\ UNCHANGED <<operation, served>>

\* "garbled" is a 2xx answer whose body is not JSON, "lost" one that did not come whole.
Answers == {"2xx", "garbled", "other", "lost"}

\* What is decoded must be JSON; the log of a job is copied as it is, the answer of
\* Fortify is not read.
Decoded(answer) == IF answer = "2xx" THEN "value" ELSE "error"
Copied(answer) == IF answer \in {"2xx", "garbled"} THEN "zero" ELSE "error"
Result(answer) == IF operation \in OfInt THEN Copied(answer) ELSE Decoded(answer)

\* The server has done what was asked.
Useful(answer) == answer = "2xx" \/ (answer = "garbled" /\ operation \in OfInt)

\* MUTANT of Call: the status of the answer is not looked at.
CallAnyStatus(answer) ==
    /\ place = "call"
    /\ served' = Useful(answer)
    /\ Returns(Result(IF answer = "other" THEN "2xx" ELSE answer))
    /\ UNCHANGED operation

\* The request, its answer and what the command makes of it.
Call(answer) ==
    /\ place = "call"
    /\ served' = Useful(answer)
    /\ Returns(Result(answer))
    /\ UNCHANGED operation

\* tokenize looks at the error of os.Stdout.Write.
WriteOut(written) ==
    /\ place = "print"
    /\ served' = written
    /\ Returns(IF written THEN "zero" ELSE "error")
    /\ UNCHANGED operation

Next ==
    \/ \E yes \in BOOLEAN : Arguments(yes) \/ Token(yes) \/ WriteOut(yes)
    \/ \E answer \in Answers : Call(answer)

Spec == Init /\ [][Next]_vars
=============================================================================
