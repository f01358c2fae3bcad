------------------------- MODULE MultiProjectSearch -------------------------
(***************************************************************************)
(* SearchMultiProjectAsyncCmd.CRun (cmd/simplcli/utils.go) as pipelines:   *)
(* search, merge:search and tags:search use it: the words of the command   *)
(* line become projects (demux, Get), one goroutine for each project calls *)
(* ApiFunc and sends one result on an unbuffered channel, another one      *)
(* closes the channel when all have ended, main collects.                  *)
(*                                                                         *)
(* All goroutines get the same *search.  With -my of pipelines:search each *)
(* of them stores the user in it and then reads it, without a lock.  A Go  *)
(* string is two words and the race is undefined, so the words are written *)
(* and read one at a time.                                                 *)
(***************************************************************************)
EXTENDS Naturals, Sequences, FiniteSets

CONSTANTS
    ProjectId,  \* prIds: from names to ids; several names may have one id
    Members,    \* prIdsDemux: from groups to sequences of names
    WordLists,  \* the arguments of the command line, sequences of words
    Me,         \* the words of the name of the current user
    Given       \* the words of search.Username as the flags left it

VARIABLES
    my,         \* the flag -my
    words,      \* the arguments
    projects,   \* the ids the goroutines are started for
    pc,         \* where the goroutine of each position in projects is
    username,   \* search.Username: <<pointer word, length word>>
    query,      \* the words each goroutine has read for its query
    rows,       \* the positions whose rows main has appended
    stderr,     \* the positions main has printed an error for
    open,       \* ress has not been closed
    done

argumentVars == <<my, words, projects>>
vars == <<argumentVars, pc, username, query, rows, stderr, open, done>>

-----------------------------------------------------------------------------
(* From words to projects. *)

Ids == {ProjectId[name] : name \in DOMAIN ProjectId}

\* projectNameSvT.Get: what is not in the table stands for itself.
Get(word) == IF word \in DOMAIN ProjectId THEN ProjectId[word] ELSE word

\* "all": for each id one of its names, in the order of a Go map, which is any.
EachIdOnce ==
    {names \in [1..Cardinality(Ids) -> DOMAIN ProjectId] :
        {ProjectId[names[k]] : k \in DOMAIN names} = Ids}

\* MUTANT of Expansions: "all" stands for every name.
ExpansionsAlias(word) ==
    IF word = "all"
    THEN {names \in [1..Cardinality(DOMAIN ProjectId) -> DOMAIN ProjectId] :
            \A name \in DOMAIN ProjectId : \E k \in DOMAIN names : names[k] = name}
    ELSE {IF word \in DOMAIN Members THEN Members[word] ELSE <<word>>}

\* What demux may put in the place of a word.
Expansions(word) ==
    IF word = "all" THEN EachIdOnce
    ELSE {IF word \in DOMAIN Members THEN Members[word] ELSE <<word>>}

\* The expansions one behind the other, as append joins them.
Joined(lists) ==
    LET first[n \in 0..Len(lists)] == IF n = 0 THEN <<>> ELSE first[n - 1] \o lists[n]
    IN  first[Len(lists)]

\* The ids the words may lead to: demux, then Get of each.
Demuxed(list) ==
    LET parts == {f \in [DOMAIN list -> UNION {Expansions(list[k]) : k \in DOMAIN list}] :
                    \A k \in DOMAIN list : f[k] \in Expansions(list[k])}
        named == {Joined(f) : f \in parts}
    IN  {[k \in DOMAIN names |-> Get(names[k])] : names \in named}

Positions == DOMAIN projects

-----------------------------------------------------------------------------

Halves == {Me[1], Me[2], Given[1], Given[2], "none"}
Places == {"user", "write1", "write2", "read1", "read2", "query", "rows", "error", "ended"}

TypeOK ==
    /\ my \in BOOLEAN
    /\ words \in WordLists
    /\ projects \in Demuxed(words)
    /\ pc \in [Positions -> Places]
    /\ username \in Halves \X Halves
    /\ query \in [Positions -> Halves \X Halves]
    /\ rows \subseteq Positions
    /\ stderr \subseteq Positions
    /\ open \in BOOLEAN
    /\ done \in BOOLEAN

Init ==
    /\ my \in BOOLEAN
    /\ words \in WordLists
    /\ projects \in Demuxed(words)
    /\ pc = [a \in Positions |-> IF my THEN "user" ELSE "read1"]
    /\ username = <<Given[1], Given[2]>>
    /\ query = [a \in Positions |-> <<"none", "none">>]
    /\ rows = {}
    /\ stderr = {}
    /\ open = TRUE
    /\ done = FALSE

-----------------------------------------------------------------------------
(* The goroutine of one project: ApiFunc, then the send. *)

Goto(a, place) == pc' = [pc EXCEPT ![a] = place]

\* MUTANT of CurrentUser: only the first goroutine to come by asks and stores.
CurrentUserOnce(a) ==
    /\ pc[a] = "user"
    /\ IF \E b \in Positions : pc[b] # "user" THEN Goto(a, "read1")
       ELSE \E next \in {"write1", "error"} : Goto(a, next)
    /\ UNCHANGED <<argumentVars, username, query, rows, stderr, open, done>>

\* GET /user; an error is the result of ApiFunc.
CurrentUser(a) ==
    /\ pc[a] = "user"
    /\ \E next \in {"write1", "error"} : Goto(a, next)
    /\ UNCHANGED <<argumentVars, username, query, rows, stderr, open, done>>

\* search.Username = user.Username
WritePointer(a) ==
    /\ pc[a] = "write1"
    /\ username' = [username EXCEPT ![1] = Me[1]]
    /\ Goto(a, "write2")
    /\ UNCHANGED <<argumentVars, query, rows, stderr, open, done>>

WriteLength(a) ==
    /\ pc[a] = "write2"
    /\ username' = [username EXCEPT ![2] = Me[2]]
    /\ Goto(a, "read1")
    /\ UNCHANGED <<argumentVars, query, rows, stderr, open, done>>

ReadPointer(a) ==
    /\ pc[a] = "read1"
    /\ query' = [query EXCEPT ![a][1] = username[1]]
    /\ Goto(a, "read2")
    /\ UNCHANGED <<argumentVars, username, rows, stderr, open, done>>

ReadLength(a) ==
    /\ pc[a] = "read2"
    /\ query' = [query EXCEPT ![a][2] = username[2]]
    /\ Goto(a, "query")
    /\ UNCHANGED <<argumentVars, username, rows, stderr, open, done>>

\* gitlabClient.Pipelines(projectId, search)
Query(a) ==
    /\ pc[a] = "query"
    /\ \E next \in {"rows", "error"} : Goto(a, next)
    /\ UNCHANGED <<argumentVars, username, query, rows, stderr, open, done>>

\* ress <- ... meets main's receive: rows are appended, an error is printed.
Deliver(a) ==
    /\ ~done
    /\ pc[a] \in {"rows", "error"}
    /\ Goto(a, "ended")
    /\ IF pc[a] = "rows"
       THEN rows' = rows \cup {a} /\ UNCHANGED stderr
       ELSE stderr' = stderr \cup {a} /\ UNCHANGED rows
    /\ UNCHANGED <<argumentVars, username, query, open, done>>

-----------------------------------------------------------------------------

\* The closing goroutine: wg.Wait, then close(ress).
Close ==
    /\ open
    /\ \A a \in Positions : pc[a] = "ended"
    /\ open' = FALSE
    /\ UNCHANGED <<argumentVars, pc, username, query, rows, stderr, done>>

Return ==
    /\ ~done
    /\ ~open
    /\ done' = TRUE
    /\ UNCHANGED <<argumentVars, pc, username, query, rows, stderr, open>>

Returned == done /\ UNCHANGED vars

Next ==
    \/ \E a \in Positions :
        \/ CurrentUser(a)
        \/ WritePointer(a) \/ WriteLength(a)
        \/ ReadPointer(a) \/ ReadLength(a)
        \/ Query(a)
        \/ Deliver(a)
    \/ Close
    \/ Return
    \/ Returned

Spec == Init /\ [][Next]_vars

-----------------------------------------------------------------------------
(* Properties. *)

\* With -my every query is filtered by the current user, never by the flag's user or
\* by half of each, although the goroutines race on search.Username
\* (pipeline-command.go:23).
EveryQueryMine ==
    \A a \in Positions : my /\ pc[a] = "query" => query[a] = <<Me[1], Me[2]>>

\* How often a word stands for a project: all for each once, a group as often as it
\* has a name of it, any other word as a name or an id of it.
StandsFor(word, id) ==
    CASE word = "all"            -> IF id \in Ids THEN 1 ELSE 0
      [] word \in DOMAIN Members \ {"all"} -> Cardinality({k \in DOMAIN Members[word] : Get(Members[word][k]) = id})
      [] OTHER                   -> IF Get(word) = id THEN 1 ELSE 0

\* By the first n words.
Mentioned(id) ==
    LET first[n \in 0..Len(words)] == IF n = 0 THEN 0 ELSE first[n - 1] + StandsFor(words[n], id)
    IN  first[Len(words)]

\* Each project has exactly as many outcomes, rows in the answer or a line on stderr,
\* as the words of the command line stand for it, whatever names it has, in whatever
\* order the map gives them, and whichever projects fail (utils.go:29-54, 118-131).
OneOutcomeEach ==
    done =>
        /\ rows \cup stderr = Positions
        /\ rows \cap stderr = {}
        /\ \A id \in Ids \cup {Get(words[k]) : k \in DOMAIN words} :
             Cardinality({a \in Positions : projects[a] = id}) = Mentioned(id)
=============================================================================
