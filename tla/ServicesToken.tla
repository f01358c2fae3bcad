--------------------------- MODULE ServicesToken ---------------------------
(***************************************************************************)
(* mise.toml services:token: print an access token of Keycloak.  The last  *)
(* answer of the token endpoint is kept in a file; an expired token is     *)
(* refreshed, a file without one leads to a login.  Several shells may run *)
(* the task on one file, and any of them may be killed between the         *)
(* truncation of the file and the write.                                   *)
(***************************************************************************)
EXTENDS Naturals

CONSTANTS
    Shells,     \* who runs the task
    Tokens      \* names for the answers of Keycloak that hold tokens

ASSUME TokensAssumption == Tokens \cap {"absent", "empty", "refused", "garbled"} = {}

VARIABLES
    file,       \* the token file: a token, "absent", "empty", "refused" or "garbled"
    expired,    \* the tokens whose access token is past its exp
    ended,      \* the tokens whose session Keycloak has ended, with their realm or alone
    at,         \* where each shell is
    held,       \* LOGIN_TOKEN of each shell
    disturbed,  \* something went wrong around the calls that run
    bad         \* how many undisturbed calls in a row, from one that printed no unexpired
                \* token on, have ended without a live one

vars == <<file, expired, ended, at, held, disturbed, bad>>
keycloak == <<expired, ended>>
history == <<disturbed, bad>>

\* "refused" is JSON without an access token, "garbled" is no JSON.
Contents == Tokens \cup {"empty", "refused", "garbled"}
Places == {"idle", "test", "read", "refresh", "login", "truncate", "write", "print"}

TypeOK ==
    /\ file \in Contents \cup {"absent"}
    /\ expired \subseteq Tokens
    /\ ended \subseteq Tokens
    /\ at \in [Shells -> Places]
    /\ held \in [Shells -> Contents]
    /\ disturbed \in BOOLEAN
    /\ bad \in 0..2

Init ==
    /\ file = "absent"
    /\ expired = {}
    /\ ended = {}
    /\ at = [s \in Shells |-> "idle"]
    /\ held = [s \in Shells |-> "empty"]
    /\ disturbed = FALSE
    /\ bad = 0

Goto(s, place) == at' = [at EXCEPT ![s] = place]
Running == {s \in Shells : at[s] # "idle"}

\* A call is undisturbed when it runs alone, Keycloak answers, and time stands still.
Start(s) ==
    /\ at[s] = "idle"
    /\ Goto(s, "test")
    /\ disturbed' = (Running # {})
    /\ UNCHANGED <<file, keycloak, held, bad>>

\* MUTANT of Test: any file will do.
TestExists(s) ==
    /\ at[s] = "test"
    /\ Goto(s, IF file = "absent" THEN "login" ELSE "read")
    /\ UNCHANGED <<file, keycloak, held, history>>

\* A file whose .access_token is not "null"; of what is no JSON, jq prints nothing.
Test(s) ==
    /\ at[s] = "test"
    /\ Goto(s, IF file \in {"absent", "refused"} THEN "login" ELSE "read")
    /\ UNCHANGED <<file, keycloak, held, history>>

\* The file is read again; what has no .exp counts as expired.
Read(s) ==
    /\ at[s] = "read"
    /\ held' = [held EXCEPT ![s] = file]
    /\ Goto(s, IF file \in Tokens \ expired THEN "print" ELSE "refresh")
    /\ UNCHANGED <<file, keycloak, history>>

\* The process is gone, and its variable with it.
Exits(s) ==
    /\ Goto(s, "idle")
    /\ held' = [held EXCEPT ![s] = "empty"]

\* A new token: any name that neither the file nor another shell holds.
Issue(s) ==
    \E t \in Tokens \ ({file} \cup {held[o] : o \in Shells \ {s}}) :
        /\ held' = [held EXCEPT ![s] = t]
        /\ expired' = expired \ {t}
        /\ ended' = ended \ {t}
    /\ UNCHANGED disturbed

\* What Keycloak makes of a refresh or, in a realm that is there, of a login.
Answer(s, realmThere) ==
    /\ at[s] \in {"refresh", "login"}
    /\ IF realmThere /\ (at[s] = "login" \/ held[s] \in Tokens \ ended)
       THEN Issue(s)
       ELSE /\ held' = [held EXCEPT ![s] = "refused"]
            /\ disturbed' = (disturbed \/ ~realmThere)
            /\ UNCHANGED keycloak
    /\ Goto(s, "truncate")
    /\ UNCHANGED <<file, bad>>

\* Something else answers: an error document, or a page of a proxy.
WrongAnswer(s, answer) ==
    /\ at[s] \in {"refresh", "login"}
    /\ held' = [held EXCEPT ![s] = answer]
    /\ disturbed' = TRUE
    /\ Goto(s, "truncate")
    /\ UNCHANGED <<file, keycloak, bad>>

\* curl fails or the answer is empty: the file stays as it is.
NoAnswer(s) ==
    /\ at[s] \in {"refresh", "login"}
    /\ Exits(s)
    /\ bad' = 0
    /\ disturbed' = TRUE
    /\ UNCHANGED <<file, keycloak>>

\* echo "$LOGIN_TOKEN" > "$TOKEN_FILE"
Truncate(s) ==
    /\ at[s] = "truncate"
    /\ file' = "empty"
    /\ Goto(s, "write")
    /\ UNCHANGED <<keycloak, held, history>>

Write(s) ==
    /\ at[s] = "write"
    /\ file' = held[s]
    /\ Goto(s, "print")
    /\ UNCHANGED <<keycloak, held, history>>

\* What Keycloak still stands for.
Live == Tokens \ (expired \cup ended)

\* What the task takes for that: of the token it looks at exp, and asks nobody.
Unexpired == Tokens \ expired

\* jq prints null of a refusal and fails on what is no JSON.
PrintToken(s) ==
    /\ at[s] = "print"
    /\ Exits(s)
    /\ bad' = IF disturbed \/ held[s] \in (IF bad = 0 THEN Unexpired ELSE Live) THEN 0 ELSE bad + 1
    /\ UNCHANGED <<file, keycloak, disturbed>>

\* The shell is killed.
Kill(s) ==
    /\ at[s] # "idle"
    /\ Exits(s)
    /\ bad' = 0
    /\ disturbed' = TRUE
    /\ UNCHANGED <<file, keycloak>>

\* Time passes, sessions end.
Age(t) ==
    /\ t = file \/ \E s \in Shells : t = held[s]
    /\ \/ expired' = expired \cup {t} /\ UNCHANGED ended
       \/ ended' = ended \cup {t} /\ UNCHANGED expired
    /\ disturbed' = (disturbed \/ Running # {})
    /\ UNCHANGED <<file, at, held, bad>>

ShellStep(s, realmThere) ==
    \/ Start(s) \/ Test(s) \/ Read(s)
    \/ Answer(s, realmThere)
    \/ \E answer \in {"refused", "garbled"} : WrongAnswer(s, answer)
    \/ NoAnswer(s)
    \/ Truncate(s) \/ Write(s) \/ PrintToken(s)
    \/ Kill(s)

Next ==
    \/ \E s \in Shells : ShellStep(s, TRUE)
    \/ \E t \in Tokens : Age(t)

Spec == Init /\ [][Next]_vars

-----------------------------------------------------------------------------
(* Properties. *)

\* Whatever killed shells, refusals, pages of a proxy, other shells and deleted realms
\* have left in the token file: after an undisturbed call that printed no unexpired token
\* the next one prints a live token, of a session that has not ended.  A refused refresh
\* is written to the file (mise.toml:1263), printed as null with status 0, and that very
\* file makes the next call log in (mise.toml:1254).  It says nothing of the calls before:
\* a token whose session or realm has ended is printed by every call until its exp, the
\* one thing they look at (mise.toml:1256).
HealsInOneCall == bad < 2
=============================================================================
