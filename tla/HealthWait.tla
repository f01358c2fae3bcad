----------------------------- MODULE HealthWait -----------------------------
(***************************************************************************)
(* wait_all_services_authority_up of                                       *)
(* .config/scripts/cluster_authority_initialization.bash: ask the services *)
(* one after the other until each says UP.  The count of failed attempts   *)
(* is shared by all of them, and the services start and stop meanwhile.    *)
(***************************************************************************)
EXTENDS Naturals

CONSTANTS
    NServices,  \* seven in the script
    MaxN        \* max_n, 60 in the script

Services == 1..NServices

VARIABLES
    up,         \* the services whose health endpoint answers UP now
    line,       \* the service the loop is at
    n,          \* the count of attempts
    status,     \* the last answer of this service was UP
    result,     \* what the function returned
    seenUp      \* the services that have answered UP to the script

vars == <<up, line, n, status, result, seenUp>>

TypeOK ==
    /\ up \subseteq Services
    /\ line \in 1..(NServices + 1)
    /\ n \in 1..MaxN
    /\ status \in {"none", "UP", "down"}
    /\ result \in {"none", "up", "failed"}
    /\ seenUp \subseteq Services

Init ==
    /\ up \in SUBSET Services
    /\ line = 1
    /\ n = 1
    /\ status = "none"
    /\ result = "none"
    /\ seenUp = {}

\* A service becomes healthy, or stops being so.
Change(s) ==
    /\ up' = IF s \in up THEN up \ {s} ELSE up \cup {s}
    /\ UNCHANGED <<line, n, status, result, seenUp>>

\* The condition of the until loop is evaluated: one curl.
Ask ==
    /\ result = "none" /\ line \in Services /\ status = "none"
    /\ status' = IF line \in up THEN "UP" ELSE "down"
    /\ seenUp' = IF line \in up THEN seenUp \cup {line} ELSE seenUp
    /\ UNCHANGED <<up, line, n, result>>

\* MUTANT of Sleep: the limit is not looked at.
SleepForever ==
    /\ status = "down"
    /\ n' = IF n < MaxN THEN n + 1 ELSE n
    /\ status' = "none"
    /\ UNCHANGED <<up, line, result, seenUp>>

\* The body of the until loop.
Sleep ==
    /\ status = "down" /\ n < MaxN
    /\ n' = n + 1
    /\ status' = "none"
    /\ UNCHANGED <<up, line, result, seenUp>>

\* MUTANT of LoopOver: the if after the loop is missing.
LoopOverUnchecked ==
    /\ status = "UP" \/ (status = "down" /\ n >= MaxN)
    /\ status' = "none"
    /\ line' = line + 1
    /\ UNCHANGED <<up, n, result, seenUp>>

\* The until loop is over: give up when the attempts are, else the next service.
LoopOver ==
    /\ status = "UP" \/ (status = "down" /\ n >= MaxN)
    /\ status' = "none"
    /\ IF n = MaxN
       THEN result' = "failed" /\ UNCHANGED line
       ELSE line' = line + 1 /\ UNCHANGED result
    /\ UNCHANGED <<up, n, seenUp>>

AllUp ==
    /\ result = "none" /\ line \notin Services
    /\ result' = "up"
    /\ UNCHANGED <<up, line, n, status, seenUp>>

Script == Ask \/ Sleep \/ LoopOver \/ AllUp

Next == Script \/ \E s \in Services : Change(s)

Spec == Init /\ [][Next]_vars
=============================================================================
