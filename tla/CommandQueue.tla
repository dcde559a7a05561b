----------------------------- MODULE CommandQueue -----------------------------
(* The desk of the console: the IndexedDB command queue, the hook that submits *)
(* through it, the match-state store behind the board, and the network between *)
(* the desk and MatchBoard.                                                    *)
(*                                                                             *)
(* Every call of `submit` runs a flush of its own over all pending rows, and   *)
(* so does a drain (at mount and on the browser's `online` event), so several  *)
(* flushes post the same row at the same time.  A flush is a process that      *)
(* posts one row, awaits the answer, marks the row and goes on.                *)
EXTENDS MatchBoard, FiniteSetsExt

CONSTANT
    Scenarios   \* the runs to consider

\* A scenario: the statuses and the document the desk finds, the matches the
\* operator works on, and how often the desk may lose its network, a request may
\* fail although the browser stays online, the page may reload, another device
\* may change a match, a document may be saved.
Scenario == [start: [Matches -> {"scheduled", "called", "playing"}],
             document: Plans,
             focus: SUBSET Matches,
             drops: Nat, hiccups: Nat, reloads: Nat, puts: Nat, docs: Nat]

ASSUME DeskAssumption ==
    /\ Scenarios \subseteq Scenario
    /\ \A s \in Scenarios, m, n \in Matches :
         m # n /\ s.start[m] = "playing" /\ s.start[n] = "playing"
           => s.document[m] = None \/ s.document[m] # s.document[n]

VARIABLES
    asked,      \* submits that wait for the version of their match
    rows,       \* IndexedDB: the queued commands with their status, in createdAt order
    shown,      \* store.matchStates: status, actualCourtId, postponed
    cached,     \* store.canonicalVersionsByMatchId
    flow,       \* the flush of each submit, and of the drain
    online,     \* has the browser a network
    wake,       \* a mount or an `online` event the drain has not acted on yet
    missed,     \* history: a request failed while the browser was online, and no drain since
    env         \* how much of the scenario is left

deskVars == <<asked, rows, shown, cached, flow, online, wake, missed, env>>
vars == <<boardVars, deskVars>>

-------------------------------------------------------------------------------
\* The drain is process 0, the flush of the submit of command i is process i.
Drain == 0
Procs == 0..MaxCmds

Queued == DOMAIN rows

\* How a submit may end, for the client.
Results == {"ok", "staleVersion", "conflict", "networkError"}

QueueRow == [m: Matches, act: MatchActions, court: Courts \cup {None},
             displaced: SUBSET Matches, seen: Nat,
             st: {"pending", "applied", "rejected", "conflict"}]

Board == [status: Statuses, court: Courts \cup {None}, postponed: BOOLEAN]

Ask == [m: Matches, act: MatchActions, court: Courts \cup {None},
        displaced: SUBSET Matches, prev: Board]

Flows == [at: {"idle", "queued", "flush", "wait", "settle", "reversion"},
          todo: SUBSET Cmds,
          own: Results,
          row: Row \cup {None},
          prev: Board \cup {None}]

Requests == [c: Command, from: Procs \cup {None}, view: [Matches -> Row] \cup {None}]

\* A null value is no version, row, board entry or set of rows.
ASSUME DeskNulls ==
    /\ None \notin Nat /\ None \notin Row /\ None \notin [Matches -> Row]
    /\ None \notin Board /\ None \notin Ask

Idle == [at |-> "idle", todo |-> {}, own |-> "networkError", row |-> None, prev |-> None]

\* What the store holds for a match nobody has reported on yet.
Unseen == [status |-> "scheduled", court |-> None, postponed |-> FALSE]

EmptyStore ==
    /\ shown = [m \in Matches |-> Unseen]
    /\ cached = [m \in Matches |-> None]

Init ==
    /\ env \in Scenarios
    /\ BoardInit(env.start, env.document)
    /\ EmptyStore
    /\ asked = [k \in Cmds |-> None]
    /\ rows = <<>>
    /\ flow = [p \in Procs |-> Idle]
    /\ online = TRUE
    /\ wake = FALSE
    /\ missed = FALSE

\* getPending: the pending rows.  It sorts them by createdAt, which is the order of
\* the ids: a flush posts the least of what is left.
getPending == {i \in Queued : rows[i].st = "pending"}

\* The command as it goes over the wire.
Wire(i) == [id |-> i, m |-> rows[i].m, act |-> rows[i].act, court |-> rows[i].court,
            displaced |-> rows[i].displaced, seen |-> rows[i].seen]

\* The court the board draws a match on (meetToOpsBlocks).
shownCourt(m) == IF shown[m].postponed THEN None
                 ELSE IF shown[m].court # None THEN shown[m].court ELSE plan[m]

\* runMachine.can: the actions the board offers for a status.
can(status, act) ==
    CASE act = "call_to_court"  -> status = "scheduled"
      [] act = "start_match"    -> status = "called"
      [] act = "finish_match"   -> status = "playing"
      [] act = "postpone_match" -> status \in {"called", "playing"}
      [] act = "assign_court"   -> status = "scheduled"
      [] OTHER                  -> FALSE

\* deriveDisputes on the board: the matches shown playing on m's court.
Claimants(m) == {n \in Matches : /\ occupies_court_now(shown[n].status)
                                 /\ shownCourt(n) # None
                                 /\ shownCourt(n) = shownCourt(m)}

-------------------------------------------------------------------------------
\* submit, from the optimistic status to the queued row.
Enqueue(m, act, court, displaced, seen, prev) ==
    LET i == Len(rows) + 1
    IN  /\ Len(rows) < MaxCmds
        /\ rows' = Append(rows, [m |-> m, act |-> act, court |-> court, st |-> "pending",
                                 displaced |-> displaced, seen |-> seen])
        /\ cached' = [cached EXCEPT ![m] = seen]
        /\ shown' = IF act = "resolve_court" THEN shown
                    ELSE [shown EXCEPT ![m].status = ACTION_TO_TARGET_STATUS[act]]
        /\ flow' = [flow EXCEPT ![i] = [Idle EXCEPT !.at = "queued", !.prev = prev]]
        /\ UNCHANGED <<online, wake, missed, env, boardVars>>

\* The version submit stamps on the command: the cached one, or the one it asks
\* the server for.  It holds on to the state the store had when it was called.
Submit(m, act, court, displaced) ==
    /\ Len(rows) + Cardinality({k \in Cmds : asked[k] # None}) < MaxCmds
    /\ m \in env.focus
    /\ \/ /\ cached[m] # None
          /\ Enqueue(m, act, court, displaced, cached[m], shown[m])
          /\ UNCHANGED asked
       \/ /\ cached[m] = None
          /\ \E k \in Cmds :
               /\ asked[k] = None /\ \A j \in Cmds : j < k => asked[j] # None
               /\ asked' = [asked EXCEPT ![k] =
                               [m |-> m, act |-> act, court |-> court,
                                displaced |-> displaced, prev |-> shown[m]]]
          /\ UNCHANGED <<rows, shown, cached, flow, online, wake, missed, env, boardVars>>

\* Mutant: a failed cold read leaves the version missing instead of 0.
VersionReadNoFallback(m) == IF online THEN match[m].ver ELSE None

\* getMatchVersion: without a network it fails, and 0 stands in for the version.
VersionRead(m) == IF online THEN match[m].ver ELSE 0

\* The version arrives.  Other submits may have asked, enqueued and even settled
\* in the meantime.
ColdRead(k) ==
    /\ asked[k] # None
    /\ LET a == asked[k]
       IN  Enqueue(a.m, a.act, a.court, a.displaced, VersionRead(a.m), a.prev)
    /\ asked' = [asked EXCEPT ![k] = None]

\* runAction: the board offers the action for the status it shows.
Press(m, act, court) ==
    /\ can(shown[m].status, act)
    /\ court \in IF act = "assign_court" THEN Courts ELSE {None}
    /\ Submit(m, act, court, {})

\* keepOnCourt: resolve a dispute the board shows by keeping m.
KeepOnCourt(m) ==
    /\ m \in Claimants(m) /\ Claimants(m) # {m}
    /\ Submit(m, "resolve_court", None, Claimants(m) \ {m})

-------------------------------------------------------------------------------
\* Where a flush is with this much of its list left: posting, or over.  Over
\* means done for the drain, which drops its outcomes, and for a submit whose
\* own result is a network error or was taken by a concurrent flush.
Flushing(f, todo, own, row) ==
    IF todo = {} /\ own = "networkError" THEN Idle
    ELSE [f EXCEPT !.at = IF todo = {} THEN "settle" ELSE "flush",
                   !.todo = todo, !.own = own, !.row = row]

\* flush takes its list once.
StartFlush(p) ==
    /\ flow[p].at = "queued"
    /\ flow' = [flow EXCEPT ![p] = Flushing(@, getPending, "networkError", None)]
    /\ UNCHANGED <<asked, rows, shown, cached, online, wake, missed, env, boardVars>>

\* The drain effect, at mount and on `online`.
StartDrain ==
    /\ wake /\ flow[Drain].at = "idle"
    /\ wake' = FALSE
    /\ flow' = [flow EXCEPT ![Drain] = Flushing(@, getPending, "networkError", None)]
    /\ UNCHANGED <<asked, rows, shown, cached, online, missed, env, boardVars>>

\* flush posts the next command and awaits the answer.
Post(p) ==
    /\ online
    /\ flow[p].at = "flush"
    /\ Arrive(Wire(Min(flow[p].todo)), p)
    /\ flow' = [flow EXCEPT ![p].at = "wait"]
    /\ UNCHANGED <<asked, rows, shown, cached, online, wake, missed, env>>
    /\ UNCHANGED <<match, cmd, writes, applied, raced, plan, saves>>

\* markApplied, markRejected, markRetryable.
Marked(st, kind) ==
    CASE kind = "ok" -> "applied"
      [] kind = "staleVersion" -> "rejected"
      [] kind = "conflict" -> "conflict"
      [] kind = "networkError" -> st

\* flush has the result of the command it awaited: it marks the row and goes
\* on, whatever the result was; a submit keeps the result of its own command.
Advance(p, kind, row) ==
    LET i == Min(flow[p].todo)
    IN  /\ rows' = [rows EXCEPT ![i].st = Marked(@, kind)]
        /\ flow' = [flow EXCEPT ![p] =
                       Flushing(@, @.todo \ {i}, IF i = p THEN kind ELSE @.own,
                                IF i = p /\ kind = "ok" THEN row ELSE @.row)]

\* The answer reaches the flush that waits for it; nobody waits for the answer
\* of a request that outlived its page or its connection.
Deliver(q, kind, row) ==
    /\ IF q.from = None THEN UNCHANGED <<rows, flow>> ELSE Advance(q.from, kind, row)
    /\ UNCHANGED <<asked, shown, cached, online, wake, missed, env>>

Read(q) == ReadRows(q) /\ UNCHANGED deskVars

AnswerReplay(q) == Replay(q) /\ Deliver(q, Replayed(q).kind, Replayed(q).row)

AnswerCommit(q) == Commit(q) /\ Deliver(q, Decision(q).kind, Decision(q).rows[q.c.m])

Answer500(q) == Collide(q) /\ Deliver(q, "networkError", None)

\* Without a network a post fails at once.
PostOffline(p) ==
    /\ ~online
    /\ flow[p].at = "flush"
    /\ Advance(p, "networkError", None)
    /\ UNCHANGED <<asked, shown, cached, online, wake, missed, env, boardVars>>

\* An awaited request fails for the client: it never arrived (lost), or it is
\* left to run on the server with nobody to answer to.  Either the browser has
\* lost its network, or it notices nothing: the API restarts, a proxy answers
\* 502, the 5 minute timeout strikes.
FailRequest(q, lost) ==
    /\ q.from # None
    /\ ~online \/ env.hiccups > 0
    /\ lost => q.view = None
    /\ req' = (req \ {q}) \cup (IF lost THEN {} ELSE {[q EXCEPT !.from = None]})
    /\ Advance(q.from, "networkError", None)
    /\ env' = IF online THEN [env EXCEPT !.hiccups = @ - 1] ELSE env
    /\ missed' = (missed \/ online)
    /\ UNCHANGED <<asked, shown, cached, online, wake>>
    /\ UNCHANGED <<match, cmd, writes, applied, raced, plan, saves>>

-------------------------------------------------------------------------------
\* _buildCommandOkPatch: the answer merged onto the state the store held when
\* the operator pressed.
OkPatch(prev, row, act) ==
    [status    |-> row.status,
     court     |-> CASE act = "postpone_match" -> None
                     [] row.court # None -> row.court
                     [] OTHER -> prev.court,
     postponed |-> CASE act = "postpone_match" -> TRUE
                     [] act = "assign_court" -> FALSE
                     [] OTHER -> prev.postponed]

\* The state route's view of a match: no court, no postponed flag.
Fetched(m) == [Unseen EXCEPT !.status = match[m].status]

\* submit handles the result of its own command once its flush is over.
SettleOk(p) ==
    LET m == rows[p].m
    IN  /\ flow[p].at = "settle" /\ flow[p].own = "ok"
        /\ shown' = [shown EXCEPT ![m] = OkPatch(flow[p].prev, flow[p].row, rows[p].act)]
        /\ cached' = [cached EXCEPT ![m] = flow[p].row.ver]
        /\ flow' = [flow EXCEPT ![p] = Idle]
        /\ UNCHANGED <<asked, rows, online, wake, missed, env, boardVars>>

\* After a rejection: it is reported, the status is fetched, then in a second
\* request the version; if the first fails the optimistic status is rolled back.
Refetch(p) ==
    LET m == rows[p].m
    IN  /\ flow[p].at = "settle" /\ flow[p].own \in {"staleVersion", "conflict"}
        /\ \/ /\ online
              /\ shown' = [shown EXCEPT ![m] = Fetched(m)]
              /\ flow' = [flow EXCEPT ![p].at = "reversion"]
           \/ /\ ~online
              /\ shown' = [shown EXCEPT ![m].status = flow[p].prev.status]
              /\ flow' = [flow EXCEPT ![p] = Idle]
        /\ UNCHANGED <<asked, rows, cached, online, wake, missed, env, boardVars>>

Reversion(p) ==
    /\ flow[p].at = "reversion"
    /\ cached' = IF online THEN [cached EXCEPT ![rows[p].m] = match[rows[p].m].ver] ELSE cached
    /\ flow' = [flow EXCEPT ![p] = Idle]
    /\ UNCHANGED <<asked, rows, shown, online, wake, missed, env, boardVars>>

-------------------------------------------------------------------------------
\* syncMatchStates: every match that has a match_states row is replaced by the
\* server's copy, keeping the local postponed flag (mergeMatchStates).
Poll ==
    /\ online
    /\ shown' = [m \in Matches |->
                   IF match[m].stated THEN [Fetched(m) EXCEPT !.postponed = shown[m].postponed]
                   ELSE shown[m]]
    /\ UNCHANGED <<asked, rows, cached, flow, online, wake, missed, env, boardVars>>

GoOffline ==
    /\ online /\ env.drops > 0
    /\ online' = FALSE
    /\ env' = [env EXCEPT !.drops = @ - 1]
    /\ UNCHANGED <<asked, rows, shown, cached, flow, wake, missed, boardVars>>

\* Mutant: the hook does not listen to `online`.
GoOnlineUnheard ==
    /\ ~online
    /\ online' = TRUE
    /\ UNCHANGED <<asked, rows, shown, cached, flow, wake, missed, env, boardVars>>

GoOnline ==
    /\ ~online
    /\ online' = TRUE
    /\ wake' = TRUE
    /\ missed' = FALSE
    /\ UNCHANGED <<asked, rows, shown, cached, flow, env, boardVars>>

\* The page reloads: the store and every running submit and flush are gone,
\* IndexedDB and the requests already on the wire are not.
Reload ==
    /\ online /\ env.reloads > 0
    /\ env' = [env EXCEPT !.reloads = @ - 1]
    /\ shown' = [m \in Matches |-> Unseen]
    /\ cached' = [m \in Matches |-> None]
    /\ asked' = [k \in Cmds |-> None]
    /\ flow' = [p \in Procs |-> Idle]
    /\ req' = {[q EXCEPT !.from = None] : q \in req}
    /\ wake' = TRUE
    /\ missed' = FALSE
    /\ UNCHANGED <<rows, online, match, cmd, writes, applied, raced, plan, saves>>

\* Another device changes a match; the console or another one saves the document.
OtherDevice(m, target) ==
    /\ env.puts > 0
    /\ PutRead(m, target)
    /\ env' = [env EXCEPT !.puts = @ - 1]
    /\ UNCHANGED <<asked, rows, shown, cached, flow, online, wake, missed>>

OtherDeviceCommits(w) == PutCommit(w) /\ UNCHANGED deskVars

Save(p) ==
    /\ env.docs > 0
    /\ SaveDocument(p)
    /\ env' = [env EXCEPT !.docs = @ - 1]
    /\ UNCHANGED <<asked, rows, shown, cached, flow, online, wake, missed>>

-------------------------------------------------------------------------------
\* What is pressed, and the submits that go on with their version.
Operator ==
    \/ \E m \in Matches, act \in MatchActions, court \in Courts \cup {None} : Press(m, act, court)
    \/ \E m \in Matches : KeepOnCourt(m)
    \/ \E k \in Cmds : ColdRead(k)

Flush(p) ==
    \/ StartFlush(p) \/ Post(p) \/ PostOffline(p)
    \/ SettleOk(p) \/ Refetch(p) \/ Reversion(p)

Serve(q) == Read(q) \/ AnswerReplay(q) \/ AnswerCommit(q) \/ Answer500(q)

Network ==
    \/ \E q \in req, lost \in BOOLEAN : FailRequest(q, lost)
    \/ GoOffline \/ GoOnline \/ Reload

Others ==
    \/ \E m \in Matches, s \in Statuses : OtherDevice(m, s)
    \/ \E w \in writes : OtherDeviceCommits(w)
    \/ \E p \in Plans : Save(p)

Next ==
    \/ Operator \/ Network \/ Others \/ Poll
    \/ StartDrain
    \/ \E p \in Procs : Flush(p)
    \/ \E q \in req : Serve(q)

Spec == Init /\ [][Next]_vars

\* The event loop runs every flush that can go on, the server answers what it
\* has received, and a network that was lost comes back.  Nothing makes the
\* operator press, the page reload or an `online` event fire.
FairSpec ==
    /\ Spec
    /\ \A p \in Procs : WF_vars(Flush(p))
    /\ WF_vars(StartDrain) /\ WF_vars(GoOnline)
    /\ WF_vars(\E q \in req : Serve(q))

-------------------------------------------------------------------------------
\* Types: queue rows, store, flushes and requests have the shape the code gives
\* them, and only the commands that were queued are known to anyone.
TypeOK ==
    /\ match \in [Matches -> Row]
    /\ cmd \in [Cmds -> {"none", "applied", "rejected"}]
    /\ req \subseteq Requests
    /\ writes \subseteq StatusWrite
    /\ applied \in Seq(Cmds)
    /\ raced \in BOOLEAN
    /\ plan \in Plans
    /\ saves \in Nat
    /\ asked \in [Cmds -> Ask \cup {None}]
    /\ rows \in Seq(QueueRow) /\ Len(rows) <= MaxCmds
    /\ shown \in [Matches -> Board]
    /\ cached \in [Matches -> Nat \cup {None}]
    /\ flow \in [Procs -> Flows]
    /\ online \in BOOLEAN /\ wake \in BOOLEAN /\ missed \in BOOLEAN
    /\ env \in Scenario

\* No two matches play on one court.
Apart(r) ==
    \A m, n \in Matches :
      m # n /\ r[m].status = "playing" /\ r[n].status = "playing"
        => r[m].court = None \/ r[m].court # r[n].court

\* flush replays at least once and the command id makes it exactly once: however
\* many flushes, replays and late requests carry a command, the board takes it at
\* most once, and a queue row never says anything but what the server decided.
ExactlyOnce ==
    /\ \A k, l \in DOMAIN applied : applied[k] = applied[l] => k = l
    /\ \A i \in Cmds : cmd[i] = "applied" <=> \E k \in DOMAIN applied : applied[k] = i
    /\ \A i \in Queued : /\ rows[i].st = "applied" => cmd[i] = "applied"
                         /\ rows[i].st \in {"rejected", "conflict"} => cmd[i] = "rejected"

\* "One at a time, order matters" (flush): although flushes overlap and a failed
\* post does not stop the loop, no command takes effect on a match after a later
\* command of the desk has moved that match, unless a commit overwrote rows it
\* had not read.
InOrder ==
    ~raced =>
      \A k, l \in DOMAIN applied :
        /\ k < l
        /\ rows[applied[k]].m = rows[applied[l]].m
        /\ rows[applied[k]].act # "resolve_court"
        => applied[k] < applied[l]

\* assert_court_available: commands and status writes (PUT /match-states/{id}) of
\* any number of devices never leave two playing matches on one court; only a commit
\* on rows it had not read, or a saved document's projection, can.  The bulk merge
\* and replace imports, which check no court either, are not modelled.
OnePlayingPerCourt == ~raced /\ saves = 0 => Apart(match)

\* Reconnect resilience (commandQueue.ts): a command queued while the server
\* cannot be reached is replayed once it can, so the server decides every command
\* that was queued; only a request that failed behind the back of the browser's
\* `online` event may leave its command waiting for the next drain or submit.
EveryCommandDecided ==
    \A i \in Cmds : i \in Queued ~> cmd[i] # "none" \/ missed
===============================================================================
