------------------------------ MODULE MatchBoard ------------------------------
(* The server side of live operations: the `matches` rows of one workspace,   *)
(* the idempotency rows of `commands`, and the write paths that touch them:   *)
(* POST /commands (process_command, process_resolve_court_command), PUT       *)
(* /match-states/{id} and the projection every accepted PUT /state runs.      *)
(*                                                                            *)
(* A command and a status write are handled in two steps, their reads and     *)
(* their commit: the handlers run on a thread pool and a read takes no lock,  *)
(* so other requests may commit in between.  `raced` records that one was     *)
(* committed on rows that had changed since it read them.                     *)
EXTENDS Naturals, FiniteSets, Sequences

CONSTANTS
    Matches,    \* the match ids of the workspace
    Courts,     \* the courts
    None,       \* a null column, a missing cache entry, a closed connection
    MaxCmds,    \* bound: commands the desk issues
    Plans,      \* the schedules a saved document may carry: match -> court or None
    Unresolved  \* matches whose sides are not both known yet

ASSUME BoardAssumption ==
    /\ None \notin Courts
    /\ MaxCmds \in Nat
    /\ Plans \subseteq [Matches -> Courts \cup {None}]
    /\ Unresolved \subseteq Matches

VARIABLES
    match,      \* matches: status, court_id, version, and has it a match_states row
    cmd,        \* commands: what the server decided for each command id
    req,        \* requests that have reached the server and are not answered
    writes,     \* status writes of other devices, between their reads and their commit
    applied,    \* history: ids of the applied commands, in commit order
    raced,      \* history: has a commit overwritten rows it had not read
    plan,       \* the assignments of the stored tournament document
    saves       \* history: how many documents have been saved

boardVars == <<match, cmd, req, writes, applied, raced, plan, saves>>

-------------------------------------------------------------------------------
Cmds == 1..MaxCmds

Statuses == {"scheduled", "called", "playing", "finished", "retired"}

MatchActions == {"call_to_court", "start_match", "finish_match", "retire_match",
                 "uncall", "assign_court", "postpone_match", "resolve_court"}

\* The edges of the shared match state machine.
VALID_TRANSITIONS ==
    [scheduled |-> {"called"},
     called    |-> {"playing", "scheduled"},
     playing   |-> {"finished", "retired", "scheduled"},
     finished  |-> {"playing"},
     retired   |-> {}]

ACTION_TO_TARGET_STATUS ==
    [call_to_court  |-> "called",
     start_match    |-> "playing",
     finish_match   |-> "finished",
     retire_match   |-> "retired",
     uncall         |-> "scheduled",
     assign_court   |-> "scheduled",
     postpone_match |-> "scheduled"]

Row == [status: Statuses, court: Courts \cup {None}, ver: Nat, stated: BOOLEAN]

StatusWrite == [m: Matches, target: Statuses, view: [Matches -> Row]]

Command == [id: Cmds, m: Matches, act: MatchActions, court: Courts \cup {None},
            displaced: SUBSET Matches, seen: Nat]

occupies_court_now(status) == status = "playing"

\* Is some other match playing on the court this one would start on?
CourtTaken(rows, m) ==
    /\ rows[m].court # None
    /\ \E n \in Matches \ {m} : rows[n].court = rows[m].court
                                /\ occupies_court_now(rows[n].status)

\* The workspace as the desk finds it: the statuses the matches have reached
\* and the document that placed them.
BoardInit(statuses, document) ==
    /\ plan = document
    /\ match = [m \in Matches |->
                  [status |-> statuses[m], court |-> document[m], ver |-> 1,
                   stated |-> statuses[m] # "scheduled"]]
    /\ cmd = [i \in Cmds |-> "none"]
    /\ req = {}
    /\ writes = {}
    /\ applied = <<>>
    /\ raced = FALSE
    /\ saves = 0

-------------------------------------------------------------------------------
\* Mutant: the guard looks at the status the match has, not at the one it gets.
CourtAvailableBefore(rows, m, target) ==
    occupies_court_now(rows[m].status) => ~CourtTaken(rows, m)

\* assert_court_available: only a move to playing is checked.
CourtAvailable(rows, m, target) == occupies_court_now(target) => ~CourtTaken(rows, m)

\* The guards after the version check, in one predicate: each rejects with the
\* same 409 `conflict`, so their order does not show.
Permitted(c, rows) ==
    LET target == ACTION_TO_TARGET_STATUS[c.act]
        from   == rows[c.m].status
    IN  /\ CourtAvailable(rows, c.m, target)
        /\ c.act \in {"assign_court", "call_to_court", "start_match", "finish_match"}
             => c.m \notin Unresolved
        /\ c.act = "assign_court" => from = "scheduled"
        /\ \/ target \in VALID_TRANSITIONS[from]
           \/ c.act \in {"assign_court", "postpone_match"} /\ from = target

\* Mutant: the version the desk saw is not compared.
VerdictUnversioned(c, rows) ==
    IF c.act # "resolve_court" /\ ~Permitted(c, rows) THEN "conflict" ELSE "ok"

\* What process_command decides for a command it has not seen before.
Verdict(c, rows) ==
    IF rows[c.m].ver # c.seen THEN "staleVersion"
    ELSE IF c.act # "resolve_court" /\ ~Permitted(c, rows) THEN "conflict"
    ELSE "ok"

\* _apply_resolution_to_displaced with keep_and_unassign, the one resolution
\* the console sends.
Displaced(row) ==
    [status |-> "scheduled", court |-> None, ver |-> row.ver + 1, stated |-> TRUE]

\* _apply_command_mutation and the mirror into match_states.
Mutated(c, row) ==
    [status |-> ACTION_TO_TARGET_STATUS[c.act],
     court  |-> CASE c.act = "assign_court" -> c.court
                  [] c.act = "postpone_match" -> None
                  [] OTHER -> row.court,
     ver    |-> row.ver + 1,
     stated |-> TRUE]

Effect(c, rows) ==
    [m \in Matches |->
        IF c.act = "resolve_court"
        THEN IF m \in c.displaced THEN Displaced(rows[m]) ELSE rows[m]
        ELSE IF m = c.m THEN Mutated(c, rows[m]) ELSE rows[m]]

\* The session writes the columns it changed and no others.
Column(now, old, new) == IF new # old THEN new ELSE now

Written(now, old, new) ==
    [m \in Matches |->
        [status |-> Column(now[m].status, old[m].status, new[m].status),
         court  |-> Column(now[m].court, old[m].court, new[m].court),
         ver    |-> Column(now[m].ver, old[m].ver, new[m].ver),
         stated |-> Column(now[m].stated, old[m].stated, new[m].stated)]]

-------------------------------------------------------------------------------
\* A request reaches the server; `from` is the flush that waits for the answer.
Arrive(c, from) == req' = req \cup {[c |-> c, from |-> from, view |-> None]}

\* The handler finds no row for the id and reads the match rows.
ReadRows(q) ==
    /\ q \in req /\ q.view = None
    /\ cmd[q.c.id] = "none"
    /\ req' = (req \ {q}) \cup {[q EXCEPT !.view = match]}
    /\ UNCHANGED <<match, cmd, writes, applied, raced, plan, saves>>

\* _replay_existing_command: a decided id is answered from its row, an applied
\* one with the match as it is now, a rejected one as a plain conflict.
Replayed(q) ==
    [kind |-> IF cmd[q.c.id] = "applied" THEN "ok" ELSE "conflict", row |-> match[q.c.m]]

Replay(q) ==
    /\ q \in req /\ q.view = None
    /\ cmd[q.c.id] # "none"
    /\ req' = req \ {q}
    /\ UNCHANGED <<match, cmd, writes, applied, raced, plan, saves>>

\* The decision taken on the rows that were read, and the rows it leaves.
Decision(q) == [kind |-> Verdict(q.c, q.view),
                rows |-> Written(match, q.view, Effect(q.c, q.view))]

\* Mutant: nothing keeps an id from being committed twice.
CommitAgain(q) ==
    /\ q \in req /\ q.view # None
    /\ IF Decision(q).kind = "ok"
       THEN /\ match' = Decision(q).rows
            /\ applied' = Append(applied, q.c.id)
            /\ cmd' = [cmd EXCEPT ![q.c.id] = "applied"]
            /\ raced' = (raced \/ match # q.view)
       ELSE /\ cmd' = [cmd EXCEPT ![q.c.id] = "rejected"]
            /\ UNCHANGED <<match, applied, raced>>
    /\ req' = req \ {q}
    /\ UNCHANGED <<writes, plan, saves>>

Commit(q) ==
    /\ q \in req /\ q.view # None
    /\ cmd[q.c.id] = "none"
    /\ IF Decision(q).kind = "ok"
       THEN /\ match' = Decision(q).rows
            /\ applied' = Append(applied, q.c.id)
            /\ cmd' = [cmd EXCEPT ![q.c.id] = "applied"]
            /\ raced' = (raced \/ match # q.view)
       ELSE /\ cmd' = [cmd EXCEPT ![q.c.id] = "rejected"]
            /\ UNCHANGED <<match, applied, raced>>
    /\ req' = req \ {q}
    /\ UNCHANGED <<writes, plan, saves>>

\* The same id was committed in between: the primary key of `commands` refuses
\* the insert and the request fails with a 500.
Collide(q) ==
    /\ q \in req /\ q.view # None
    /\ cmd[q.c.id] # "none"
    /\ req' = req \ {q}
    /\ UNCHANGED <<match, cmd, writes, applied, raced, plan, saves>>

\* PUT /match-states/{id} with an If-Match that is current: another device's
\* status change.  A re-assertion of the status skips the transition guard and
\* still bumps the version.
PutRead(m, target) ==
    /\ target = match[m].status \/ target \in VALID_TRANSITIONS[match[m].status]
    /\ CourtAvailable(match, m, target)
    /\ writes' = writes \cup {[m |-> m, target |-> target, view |-> match]}
    /\ UNCHANGED <<match, cmd, req, applied, raced, plan, saves>>

\* The rows a status write leaves of the rows it read.
Stated(w) ==
    [w.view EXCEPT ![w.m].status = w.target, ![w.m].ver = @ + 1, ![w.m].stated = TRUE]

\* The version is compared once more, but with the row the session already holds.
PutCommit(w) ==
    /\ w \in writes
    /\ match' = Written(match, w.view, Stated(w))
    /\ raced' = (raced \/ match # w.view)
    /\ writes' = writes \ {w}
    /\ UNCHANGED <<cmd, req, applied, plan, saves>>

\* The projection of an accepted PUT /state (bulk_project_from_schedule): court
\* columns follow the document, whatever the status of the match.
SaveDocument(p) ==
    /\ plan' = p
    /\ match' = [m \in Matches |->
                   IF match[m].court = p[m] THEN match[m]
                   ELSE [match[m] EXCEPT !.court = p[m], !.ver = @ + 1]]
    /\ saves' = saves + 1
    /\ UNCHANGED <<cmd, req, writes, applied, raced>>
===============================================================================
