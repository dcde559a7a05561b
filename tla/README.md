# ShuttleWorks: TLA+ models, checks and proofs

ShuttleWorks runs badminton tournaments: a FastAPI service over a relational
database, worker processes that compute timetables, event nodes that run a
tournament at the venue while the uplink is down, and web consoles. This
directory models the parts in which processes race, fail and retry.

## 1. The system and its parts

Paths are relative to `src/apps/api/src/` unless they say otherwise; `console/`
stands for `src/apps/console/src/`.

| Part | State | Operations | What is hard |
|---|---|---|---|
| solve job queue (`solve_rail/solve_jobs.py`, `solve_jobs_routes.py`) | `solve_jobs` rows, two unique indexes | submit, cancel, claim, heartbeat, complete, fail, reap, prune | check-then-write sessions of several processes |
| solve worker and runner (`solve_worker.py`, `solve_runner.py`, `solve_child.py`) | the claimed job, the child process | run loop, maintenance, supervise, record outcome | crashes, expired leases, ghosts |
| authority epochs (`sync/service.py`, `authority.py`, `recovery.py`) | `tournament_authority_epochs` | checkout, ready, return, transfer, recover, revoke | racing transitions, late uploads |
| node operation log and outbox (`sync/operation_log.py`) | `event_operations`, `sync_outbox`, next sequence | append, checkpoint import | the node does not learn that its epoch was closed |
| sync agent (`sync/agent.py`) | outbox marks | batch, post, acknowledge, back off, block | lost, late and repeated uploads |
| cloud ingestion and projection (`sync/service.py`, `ingestion_projection.py`) | cursor, inbox, quarantine, projection | ingest a batch, rebuild | duplicates, gaps, collisions, conflicts |
| reconciliation (`sync/reconciliation.py`) | decisions on quarantined operations | resolve | replays after the fact |
| recovery bundles, backup scheduler (`recovery/`) | encrypted snapshots, scheduler state | create, restore, schedule | a restore rewinds a node |
| match commands (`operations/`, `repositories/local.py`, `core/state_machines.py`) | match rows with a version, command log | call, start, finish, assign, postpone, resolve, status writes | optimistic versions, idempotent replay, check-then-write |
| court occupancy (`shared/court_occupancy.py`, `operations/match_state.py`) | which match plays on which court | guard a start, derive disputes | commands, status writes and saved documents move matches |
| console: command queue (`console/lib/commandQueue.ts`, `hooks/useCommandQueue.ts`, `store/matchStateStore.ts`) | IndexedDB rows, match store, version cache | enqueue, flush, drain, settle, poll | overlapping flushes, lost answers, reloads, no network |
| console: workspace state (`console/hooks/useTournamentState.ts`, `api/client.ts`) | store, timer, save in flight, If-Match tokens | load, edit, save, follow up, re-sync, unlock, leave | one save state for all workspaces, late answers, refusals |
| bracket (`bracket/`), competition registry (`competition/`) | draws, slots, results | generate, record, correct, advance | a correction after the winner advanced |
| entries (`entries/`) | entries, seats, waitlist | submit, withdraw, promote | capacity under racing submits |
| meet and proposals (`meet/`) | schedule versions, proposals | propose, review, commit | a proposal against a stale schedule |
| suggestions worker (`solve_rail/suggestions_worker.py`) | pending tournaments | re-solve | a suggestion for a state that moved on |
| identity, throttle (`identity/`, `core/throttle.py`) | sessions, counters | login, refresh, limit | counters at their limit |
| workspaces, state (`workspaces/`, `repositories/`, `db/`) | tournaments with a document and its version, members | GET and PUT of the state, CRUD | stale writers, locked schedules |
| display and ops (`display/`, `ops/`) | none of their own | read | |
| scheduler core (`src/packages/scheduler-core`) | none | CP-SAT model of the timetable | an optimisation problem |
| other console and entrant pages (`src/apps/console`, `src/apps/entrant`), simulator (`src/simulator`) | forms | read and call the API | |

How they interact: the API inserts solve jobs and the workers poll for them
through the database; a worker runs the scheduler core in a child process and
reads its output file. A command on an event node appends to the operation log
in its own transaction; the sync agent, a separate process, posts the outbox to
the cloud over HTTP; the cloud ingests it into the inbox and the projection that
the display and ops surfaces read. Authority requests decide which node's
epoch the cloud accepts. The console queues its commands in IndexedDB and posts
them to the same API, polls the match states, and saves the whole workspace
document 500 ms after an edit. There is no shared memory between processes: they
meet in database rows, and almost every hazard is a session, or a browser, that
read a row another one has changed by the time it writes.

## 2. Modules

| Module | Models | Role |
|---|---|---|
| `SolveRail` | queue, API threads, workers, runner | component |
| `SolveLedger` | what the rail promises its users | abstract specification, refined by `SolveRail` |
| `SolveRailProofs` | | theorems about `SolveRail`, sessions interleaved |
| `SolveRailSerialProofs` | | theorems about `SolveRail`, sessions apart |
| `SyncAuthority` | epochs, cursor, projection, device revocation | component |
| `SyncPipeline` | node, agent, ingestion; extends `SyncAuthority` | composition of cloud and nodes |
| `SyncLog` | what synchronization promises | abstract specification, refined by `SyncPipeline` |
| `SyncPipelineProofs` | | theorems about `SyncPipeline`, sessions interleaved |
| `SyncSerialProofs` | | theorems about `SyncPipeline`, sessions apart |
| `MatchBoard` | match rows, command log, projection of a saved document (server) | component |
| `CommandQueue` | the console's queue, hook and match store, the network; extends `MatchBoard` | composition of desk and server |
| `CommandQueueProofs` | | theorems about `CommandQueue` |
| `StateSave` | the console's autosave, `GET` and `PUT /state` | component |
| `StateSaveProofs` | | theorems about `StateSave` |
| `MCSolveRail`, `MCSyncPipeline` | | symmetry sets for TLC |
| `MCCommandQueue`, `MCStateSave` | | the scenarios for TLC |

Operators named "Mutant" in a comment are plausible mistakes in the definition
that follows them. They are not part of the specification; they show that each
property can fail.

### Sessions

The code uses two kinds of database session. A guarded UPDATE (`claim_next`) is
atomic. The others SELECT a row, decide in Python and flush an UPDATE keyed by
the primary key; SQLite and READ COMMITTED Postgres both let another session
commit in between, so such a session is a `...Read` and a `...Commit` step, and
the decision waits in the process. `Overlap = TRUE` allows every interleaving of
these steps. `Overlap = FALSE` lets no session commit inside another, which is
the reading the code's own comments argue in; the properties that hold only
there are listed apart, and section 5 says what goes wrong otherwise. A unique
index is a predicate on the table that the commit must satisfy (`ActiveIndex`,
`KeyIndex`, `LiveIndex`); a commit that breaks it leaves the table as it was.

### SolveRail

`jobs` is the table (a row: status, tournament, idempotency key, attempts,
claimed_by, age of heartbeat_at and finished_at, whether error and result are
set). `wk` is each worker's place in `run_once`: maintenance (`ReapRead`,
`ReapCommit`), claim (`ClaimRead`, `ClaimCommit`), supervision of the child
(`Supervise`, `BeatRead`, `BeatCommit`, `Check`, `ChildExits`) and the record of
the outcome (`OutcomeRead`, `OutcomeCommit`). `cl` is each API thread's. `Raises`
is an exception, handled where the code handles it; `Crash` is a process death;
`Tick` lets time pass. Times are ages capped one above the limit they are
compared with. The child process is reduced to its four outcomes. All jobs have
the one type and the one priority that submit gives them, so the claim order is
the insertion order. The user is a member of every tournament, so the quota
counts every active job. The `claimed` status exists for one moment inside the
claim's transaction and no other session sees it.

### SyncAuthority and SyncPipeline

One tournament. `st`, `holder` and `declared` are the epoch rows, `cursor` the
checkpoint of each epoch, `inbox` the receipts, `proj` the projection row, whose
JSON is reduced to the set of sequences it shows. A rebuild also stores the
checkpoint (0 in that set), which an incremental update never does. `admin` holds
the authority requests between read and commit.

A node's database `db` holds its epoch, next sequence, operations and outbox
marks; `bundle` is its latest recovery bundle. An operation is an epoch, a
sequence and a uuid; `Poison` are the operations that the cloud refuses on their
content (a command outside the grant, an unknown schema). `calls` are uploads
under way: `sent`, `checked` once the authority check has passed, `answered`.
`Abandon` covers the timeout, which leaves the request to be processed later,
and the lost answer. An upload's cursor lock makes everything from the lock to
the commit one step (`IngestAccept`, `IngestConflict`, `IngestReject`); the
authority check before the lock is its own step (`IngestCheck`).

Left out: signatures, digests and capabilities (taken to verify for the device
they were issued to), what an operation does to match rows, a payload whose
application to the projection raises, enrolment (every node is enrolled), a
standalone node that gives itself an epoch (`ensure_local_authority`), and
transient 503 answers other than the
conflict, which the agent treats as it treats a network error.

### MatchBoard and CommandQueue

`match` is the `matches` table (status, court, version, and whether a
`match_states` row exists, which decides if a poll reports the match), `cmd` what
`commands` says of each id, `req` the requests the server has and has not
answered, `writes` the status writes of other devices between read and commit.
The handlers run on a thread pool and a read takes no lock, so a command is a
`Read` of the rows and an `AnswerCommit`, and a status write a `PutRead`, with
its transition and court checks, and a `PutCommit`; `Answer500` is the loser of
two requests with one id, which the primary key refuses. At the commit the
session writes the columns it changed (`Written`), over whatever is there by
then; `raced` remembers that a commit was applied to rows it had not read.

`rows` is the IndexedDB store in `createdAt` order, and the position of a row is
its id. A submit whose match has no cached version waits in `asked` for the cold
read (`ColdRead`), with the state the store had when it was called; others may
ask, enqueue and settle in the meantime. Each submit has a flush of its own and
the drain has one: a flush takes
its list once (`getPending`), posts the least id, waits, marks the row and goes
on whatever the result was. `FailRequest` is a request that fails for the client,
either lost or left to run on the server. `SettleOk`, `Refetch` and `Reversion`
are what `submit` does with the result of its own command; the drain drops its
outcomes. `Reload` loses the store and the flushes and keeps the queue and the
requests on the wire.

A `Scenario` is the state the desk finds and how often each disturbance may
happen. Left out: time slots (they move with the court), matches deleted by a
saved document, answers of polls and refetches that arrive late, equal
`createdAt` times, two tabs or two workspaces with one queue, view-only users,
bracket matches, several drains at a time, the bulk merge and replace imports of
match states (they set statuses without the court check), the time between the
server's answer to a cold read and its arrival, and a cold read that fails while
the browser is online.

### StateSave

A document is the workspace it was loaded from (`of`, a history field), the value
of the scheduling config, whether it carries a committed schedule and whether the
schedule is marked stale (`scheduleIsStale`: `setConfig` sets it, a sanctioned
clear resets it on the server). `server` is
each workspace's document, `state_version` and the state of its bracket
schedule; `Answer` has the checks of `PUT /state` in their order (412 without
If-Match, 409 on a version, `CONFIG_LOCKED`, `DRAW_STARTED`, `ROSTER_LOCKED`).
The version is compared at the top of the handler and again by the UPDATE and
both answer alike, so the handler is one step. `timer`, `put`, `followup`,
`clearNext` and `status` are the module-level save state, `etag` and `ack` the
maps per workspace; `put` also holds where the save is: on the wire, answered, in
the unlock modal, in a re-sync. `late` are PUTs the client has given up on.
`base` is the revision the document on screen was edited from (history).
`resynced` says that a re-sync has replaced the document since the last ordinary
save, `declined` that an unlock was declined and its re-sync failed (both
history).

React runs the cleanup of `TournamentPage` before the one of the hook, so by the
time the hook's cleanup calls `forceSaveNow` no workspace is active: `Leave`
clears the timer and starts no save. Left out: the setup facade, which has a
token of its own, the display preview, view-only users and a direct switch
between two workspaces without the hub.

## 3. Runs

Every bound is a constant of the `.cfg`. Where a time is compared with a limit,
limit 0 with ages 0 and 1 already tells "within" from "past".

| Run | Instance | Checks |
|---|---|---|
| `rail_serial` | 2 workers, 1 client, 2 tournaments, 2 jobs, 2 attempts, crashes; sessions apart | `TypeOK`, `RetryBudget`, `LedgerSpec` (refinement), `OnlyHolderCompletes`, `NoGhostBeat` |
| `rail_live` | 2 workers, 1 client, 1 job, 1 exception; sessions interleave, fair | `LeaseShape`, `DecisionsBacked`, `BudgetOverrun`, `EveryJobEnds` |
| `rail_cancel_lost` | 2 workers, 1 job, interleaved | `CancelIsFinal` fails |
| `sync_serial` | 2 nodes, 3 epochs, 2 sequences, batch 2, 1 fault; sessions apart | `LiveIsLatest`, `ClosedAtDeclared`, `ProjectionComplete`, `LogSpec` (refinement) |
| `sync_delivery` | 1 node, 2 uploads in flight, 3 operations (one refused), 1 fault, 1 restore, revocation; interleaved | `TypeOK`, `NoFalseAck`, `InboxContiguous`, `RefusalsVisible` |
| `sync_authority` | 2 nodes, 2 authority threads, 3 epochs, one revocation, one restore; interleaved | `OneNodePerEpoch` |
| `sync_live` | 1 checked-out node, 2 uploads, 3 operations (one refused), batch 2, 1 fault; fair | `EveryOpSettles` |
| `sync_outage_wedges` | 1 checked-out node, 2 operations, 1 fault; fair | `EveryOpArrives` fails |
| `sync_fresh_batch` | 1 checked-out node, 2 operations, batch 2, no fault; fair | `EveryOpArrives` fails |
| `desk` | 3 matches, 1 court, 2 commands, 8 scenarios (network lost, reload, unnoticed failure, other device, saved document, two called matches, two writes of other devices to them, unknown sides); fair | `TypeOK`, `ExactlyOnce`, `InOrder`, `OnePlayingPerCourt`, `EveryCommandDecided` |
| `save` | 1 workspace, 3 values (one refused), 9 scenarios (4 edits, other session, failures, meet and bracket schedules); fair | `TypeOK`, `NoLostUpdate`, `UnsavedShown`, `EditSettles` |
| `save_leak` | 2 workspaces, 3 visits, 1 edit, 1 failure | `OwnDocument` fails |

Why the bounds are enough: two workers are the least number with a lease holder
and a ghost, and with two reapers; a second attempt is the one that a budget of
two can deny; two jobs let one be pruned, reaped or requeued while another is
active. Racing submits of two API threads, and a reaper that meets the active index,
are covered by the theorems, which hold for any number of threads and jobs. Two
uploads in flight are a request that its agent gave up on and its retry. Three epochs are a checkout, a transfer and what comes after it; two
sequences are enough for a gap, a collision and a batch of two. Three uuids over
two sequences let a restored node reuse a sequence number. One fault makes one
outage, which is all the outage run needs. Two commands of the desk are two
flushes and a drain over the same rows, the least that can overtake each other;
two matches on one court are a dispute. Four edits are the A, B, A of a follow-up
and one more; three visits are there, away and back.

`sync_delivery` runs with deadlock checking off: when the only device is revoked
before the checkout, nothing is left to do. The `desk` and `save` runs do too:
a desk that has used up its commands, or a page at rest, may stop.

Fairness. A worker that is not dead goes on with its loop (`run_once` is called
in a `while` loop with a poll interval), an API thread that has read finishes its
session, and the clock goes on. `Crash` always leaves one worker, as the
deployment's restart policy does; nothing is assumed of submits, cancels, crashes
or exceptions. The choice of what a child does is inside the fair step: a child
may return any outcome, and the deadline (`Ceiling`) ends the solve if it returns
none. For sync: the agent's loop polls, each backoff time passes, and the cloud
serves a request that arrives. Operations, faults, restores and authority
requests are not forced. For the console: the event loop runs a flush that can go
on and a timer that is due, the server answers what it has received, answers
arrive, and a network that was lost comes back. Nobody has to press, to edit, to
answer a modal, to reload or to leave; in particular nothing makes the browser
fire an `online` event after a failure it did not notice, which is why
`EveryCommandDecided` has the exception `missed`.

`EveryOpSettles` speaks of the operations of an epoch once the projection has a row
of that epoch. Before that two operations in one batch are turned away for ever
(`sync_fresh_batch`), and the property would be false without the condition; with
it, batches of two are covered.

## 4. Proofs

The proof modules prove, for every value of the constants that the named
assumptions allow. `SolveRailProofs` and `SyncPipelineProofs` hold for both values
of `Overlap`; the theorems of the two `...SerialProofs` modules assume `~Overlap`.

| Theorem | States | Argument |
|---|---|---|
| `SolveRailProofs!TypeCorrect` | `Spec => []TypeOK` | inductive as it stands, one lemma per group of steps |
| `SolveRailProofs!LeaseAlwaysReapable` | `Spec => []LeaseShape` | a lemma lists the ways a step may change a row, and each of them keeps a row well leased; a commit that acts on a stale read sets owner and status together (requeue) or leaves the active states, so it does so whatever it read |
| `SolveRailProofs!DecisionsAlwaysBacked` | `Spec => []DecisionsBacked` | by `BackedThrough`, below |
| `SolveRailProofs!OverrunBounded` | finite, nonempty `Workers`: `Spec => []BudgetOverrun` | by `StartsCovered`, below |
| `SolveRailSerialProofs!RetriesWithinBudget` | `Spec => []RetryBudget` | by `Sessions`, below: a row is queued only while the budget allows another start |
| `SolveRailSerialProofs!HolderCompletes` | `Spec => OnlyHolderCompletes` | the owner that the completion checked is still the owner |
| `SolveRailSerialProofs!HolderBeats` | `Spec => NoGhostBeat` | the same for the heartbeat |
| `SolveRailSerialProofs!RailImplementsLedger` | `Spec => LedgerSpec` | every step of a row is a step of the ledger or a stutter |
| `SolveRailSerialProofs!CancelStands` | `Spec => CancelIsFinal` | what `rail_cancel_lost` shows needs overlapping sessions |
| `SyncPipelineProofs!TypeCorrect` | `Spec => [](TypeOK /\ Scoped)` | types alone are not inductive: that the epoch an upload names is a row of the table comes from `Scoped` |
| `SyncPipelineProofs!NodesApart` | `Spec => []OneNodePerEpoch` | by `Answerable`, below: what a database or a bundle holds is an epoch granted to its node, and a grant is never given again |
| `SyncPipelineProofs!ReceiptsContiguous` | `Spec => []InboxContiguous` | only `IngestAccept` writes receipts and cursors, and a batch that passes `Fits` is, after its duplicates, the interval that follows the cursor |
| `SyncPipelineProofs!AcksAreReceipts` | `Spec => []NoFalseAck` | by `Minted` and `Received` |
| `SyncPipelineProofs!RefusalsExplained` | `Spec => []RefusalsVisible` | by `Answerable`, below |
| `SyncSerialProofs!NewestInForce` | `Spec => []LiveIsLatest` | a checkout commits while its number is still the next and nothing is live; a transfer closes the epoch it follows |
| `SyncSerialProofs!ClosedWhereDeclared` | `Spec => []ClosedAtDeclared` | the cursor a return, transfer or recovery has checked does not move before it commits, and no upload is accepted afterwards |
| `SyncSerialProofs!ProjectionsComplete` | `Spec => []ProjectionComplete` | with `Unprojected`: a rebuild writes the receipts up to the cursor it read, an upload adds the batch it accepts |
| `SyncSerialProofs!PipelineImplementsLog` | `Spec => LogSpec` | every step closes epochs, appends a contiguous batch to one log, acknowledges what is in a log, or stutters |
| `CommandQueueProofs!TypeCorrect` | `Spec => []TypeOK` | with `Processes` and `Waiting`: which flush waits for which request |
| `CommandQueueProofs!CommandsExactlyOnce` | `Spec => []ExactlyOnce` | by `Desk`, below: a command enters `applied` only with its row of `commands` |
| `CommandQueueProofs!CommandsInOrder` | `Spec => []InOrder` | by `Ordered`: versions only grow |
| `CommandQueueProofs!OneMatchPerCourt` | `Spec => []OnePlayingPerCourt` | every step that makes a match play is checked against the rows it writes to, unless it raced (`Granted`: a status write found the court available on the rows it read); a court changes only for a match that is scheduled afterwards |
| `StateSaveProofs!TypeCorrect` | `Spec => []TypeOK` | inductive as it stands |
| `StateSaveProofs!NoLostUpdateInOneVisit` | at most one visit: `Spec => []NoLostUpdate` | by `OneVisit`: a token that is set is the version of the document on screen, and a save was edited from the version of its token |
| `StateSaveProofs!NothingUnsavedInOneVisit` | at most one visit: `Spec => []UnsavedShown` | by `OneVisit`, `Versions` and `Kept`, below |

For the rail, `StartsCovered` counts what can still lead to a start: the starts of
a job, its place in the queue if it has one, and the workers whose session has
decided to requeue it (`Requeuers`) are together at most `MaxAttempts` plus the
workers but one. A claim turns the place into a start, a requeue turns a session
into a place (or, when the row is queued already, into nothing), and a session
joins the requeuers only when it has read the job leased with fewer than
`MaxAttempts` starts; the job is then not queued, and at that moment all workers
together fit under the bound. So two reapers that overlap do exceed the budget,
by one start for each worker beyond the first at most. The proof counts, so it
needs `Workers` finite; with no worker at all the bound would be below the budget.

`DecisionsBacked` is about a row that several sessions have overwritten. A cancel
sets the end time, a requeue clears owner and heartbeat and keeps the start, a
completion writes status, end and result together, so no order of them leaves a
decision without what goes with it. What this needs is `BackedThrough`: a job that
a reaper or a completion has in hand has been started, and stays started (or is
pruned) until that session commits; a requeued or cancelled row does not lose its
attempts.

The theorems under `~Overlap` rest on one invariant per system, `Sessions`: what
a session between its read and its commit has read, and the condition it has
checked, still hold. It is preserved because the commits that write those rows are
disabled while another session is open (`SessionUndisturbed` for the rail, where
only time passes over a row, `Writers` for the cloud, where the lemma lists the
commits that write at all). Each theorem is then a step of a row or of an epoch
that acts on facts which are true when it acts.

The refinements map the rail's row statuses to the ledger's undecided and decided
jobs, and the pipeline's receipts to one log for each epoch, the closed and
recovered epochs to the sealed ones and the acknowledged ids of all node databases
to what the log has reported. The second needs `InboxContiguous` (the log is a
sequence without holes) and `Received` (an acknowledgement is in some log); a
restored database only forgets acknowledgements, which `SyncLog` allows.

The inductive invariant of the sync theorems has four parts. `Scoped`: the
operations of a database and of a batch belong to one epoch, one for each
sequence, below the next sequence. `InboxContiguous` itself. `Minted`: an id names
one operation, and every copy, in a database, a bundle, a batch or the inbox,
was minted; without it a restored node that reuses a sequence number could have
its operation taken for the one the cloud has. `Received`: what a database or a
bundle has acknowledged, and what an upload has been answered "ok" for, is in the
inbox; the bundle is named because a restore brings its acknowledgements back,
and the answer because it may arrive much later.

`RefusalsVisible` needs another one, `Answerable`: a database and a bundle hold an
epoch that was granted to their node and explain their blocked rows; an upload is
about an epoch of the node that posted it and a refusal of it is explained when it
is made, not only when it arrives; and the answer an agent waits for is about the
epoch its database has. The explanation of a late refusal thus belongs to the epoch
whose rows it blocks, and revocations and quarantine records are never withdrawn.
The same invariant gives `OneNodePerEpoch`. Its step is that a number which has
been granted keeps its holder (`GrantsStand`): a checkout inserts under a primary
key that refuses a used number, and a return, transfer or recovery takes the
number after the highest one.

For the desk, `Desk` adds to the types that a flush at work has a row of its own
or is the drain, that the request it waits for carries the first command of its
list, and that only queued commands are on the wire: without it nothing ties an
answer to the row that gets marked. `Ordered` says that, while no commit has
raced, no cached version, no version of a queued command and no version in an
undelivered answer is above the version of its match, and that a command applied
to a match has left a version above every one that an earlier command could have
seen; a command that comes late then carries a version that can only be refused.
For the autosave, one visit is assumed because with two the invariant is false:
the load of an earlier visit, answered before a save and delivered after it, sets
back the document on screen under the newer token.

`UnsavedShown` adds `Versions` (the client knows no version the server has not had,
and a version that is still current comes with its document) and `Kept`: a document
on screen that is not the one on the wire has a follow-up, a save that clears the
schedule was started from a screen without one, the accepted and the acknowledged
document are what the server has while its version stands and no re-sync came in
between, and at rest the screen shows the acknowledged document, a declined one or
the one a re-sync has brought. Both exceptions of `UnsavedShown` are reachable
(section 5). The chain from the screen over the acknowledged
document to the server is what a dropped follow-up or a stale acknowledgement would
break.

The assumptions are `RailAssumption`, `AuthorityAssumption`, `PipelineAssumption`,
`BoardAssumption`, `DeskAssumption`, `DeskNulls`, `SaveAssumption` and
`NullAssumption`: the bounds are naturals (a retry budget, a maintenance
period and a batch size are positive), the process sets are disjoint and the
null values are outside the sets they complete. No set is assumed finite, except
the workers in `OverrunBounded`, and nothing is assumed of fairness.

Out of the prover's reach and left to TLC: liveness (`EveryJobEnds`,
`EveryOpSettles`, `EveryCommandDecided`, `EditSettles`), which needs fairness and
ENABLED. Every invariant, action property and refinement of a passing run is also
a theorem. `EveryOpArrives` and `OwnDocument` are false of the code (section 5), and
so is `CancelIsFinal` with `Overlap = TRUE`.

## 5. Where the code and its documents disagree

Each has a run whose counterexample is the behaviour, and an entry in
`PROJECT.json`.

1. `rail_cancel_lost`: a completion that has read the row overwrites a cancel
   that commits before it, although "the user's decision wins".
2. `sync_outage_wedges`: after one failed upload, rows back off one by one, a
   later row is posted before an earlier one, is refused as a gap and blocked for
   good, and nothing after it can be delivered.
3. `save_leak`: a workspace is stored the document of the workspace viewed before
   it, although the load is written "so leftover state from a previously-viewed
   tournament doesn't leak in". TLC's trace: workspace 1 is opened and left before
   its load answers; workspace 2 is opened, edited and left within the debounce,
   which drops the timer and keeps the status "dirty"; workspace 1 is opened again,
   the answer of the first load has set its token, and "Save now" in the banner
   puts the document of workspace 2 with a valid If-Match. A failed load, after
   which the page is editable with whatever the store held, does the same.
4. `sync_fresh_batch`: two operations in the first batch of an epoch both insert
   the projection row, since the session does not autoflush; the answer is 503
   "retry from the acknowledged cursor", both rows come due together again, and
   "Upload resumes later" never comes true without a rebuild of the projection.

Also seen while modelling, from reading or from TLC runs with other properties or
the other value of `Overlap`, and not kept as runs of their own:

- a submit repeated with its key while the first is in flight looks the key up
  before the first inserts, meets the unique indexes and is answered 409 without a
  job handle, although "a retry with the same key returns the same job"
  (`solve_jobs_routes.py:9`);
- two submits to different tournaments that count before either inserts exceed the
  per-user quota "across ALL their workspaces" (`core/config.py:315`), which no
  constraint backs;
- an upload that passed the authority check is accepted into an epoch that a return
  has closed meanwhile at a lower declared sequence (`ClosedAtDeclared` fails with
  `Overlap = TRUE`): the state is read before the cursor lock and not after it;
- two starts, or a start and a status write, that look at the court before either
  commits are both accepted (`OnePlayingPerCourt` fails without `~raced`), although
  "the write is rejected at the Operations boundary" (`operations/match_state.py:208`);
- the version check that the repository "intentionally" repeats
  (`match_state_routes.py:405`) compares a row the session has loaded before, and
  the UPDATE goes by primary key, so a status write overwrites a commit in between;
- when the re-sync after a declined unlock fails, the declined edit stays on screen
  with status "idle" and no error, although it "is abandoned cleanly"
  (`useTournamentState.ts:233`, `:266`): the exception `declined` of `UnsavedShown`;
- a re-sync replaces the document and not the acknowledged fingerprint, so an edit
  back to the document acknowledged before it is taken for saved and never sent: the
  exception `resynced` of `UnsavedShown`;
- the error of a failed attempt is not "cleared on success"
  (`solve_jobs.py:472`): `complete_success` leaves the column alone;
- two reapers whose sessions overlap requeue a job twice and start it past
  `job_max_attempts`; `BudgetOverrun` bounds by how much;
- a rebuild that overlaps an upload writes old data under a new
  `last_sequence` (`ProjectionComplete` fails with `Overlap = TRUE`);
- two overlapping transitions can leave a live epoch that is not the newest
  (`LiveIsLatest` fails with `Overlap = TRUE`);
- a projection row of an earlier epoch is never replaced by an upload of the
  next one, so every upload after a transfer is answered 503 until someone
  rebuilds the projection;
- a node may upload before the cloud has marked its epoch ready; the batch is
  quarantined and blocked;
- two command requests that overlap on the thread pool lose one of the two
  updates; the docstring of `process_command` concedes it for a single worker, and
  `raced` excludes it from `InOrder`;
- the bulk merge and replace imports set matches to playing without asking for the
  court (`match_state_application.py:253-257`, `:342-346`);
- a saved document moves the court of a playing match and so makes a dispute, or
  undoes a court the desk assigned live; a cold version read fetches the version
  after the press, so it cannot tell that the board showed an older match;
- the poll drops `actualCourtId`, which the API does not report, so the board
  falls back to the planned court (the note at `useCommandQueue.ts:85` says the
  backend serialises it);
- the outcomes of a drain are dropped: a command rejected after a reconnect leaves
  its pending mark and no message; a command whose request failed while the browser
  stayed online waits for the next press;
- the queue is not filtered by workspace, so commands queued in one are posted
  under the id of another that is opened next;
- resolving a dispute returns a displaced match to scheduled whatever it is by
  then, a finished one too, and is not appended to the event node's log;
- an edit within 500 ms of leaving a workspace is dropped (the cleanup says "Flush
  any pending debounced PUT"), and so is one made during a save that is followed
  by leaving; after the load fails on a fresh page with a token from an abandoned
  load, an edit overwrites the workspace with defaults;
- after a failed re-sync the token is gone and every save is refused with 412 until
  the page is mounted again; a `clearScheduleNext` left over from an unlock whose
  edit was re-synced away strips the next edit's schedule on the server while the
  screen keeps it (`UnsavedShown` names it as part of its second exception);
- a re-sync that answers after the operator moved on loads the old workspace's
  document into the new page, and an armed `clearScheduleNext` goes to whichever
  workspace is saved next.

## 6. Plan

Done: the solve rail, its ledger and theorems; authority, outbox, agent, ingestion,
their log and theorems; the desk (commands, courts, queue, store) and the autosave
of the console with their theorems.

Next, in this order:

1. Reconciliation of quarantined operations (`resolve_quarantine`), enrolment and
   the standalone node (`ensure_local_authority`), added to `SyncPipeline`: a
   resolved quarantine record stays linked to an operation the cloud accepted.
2. `Entries`: capacity, withdrawal, waitlist promotion, with an abstract
   first-come-first-served queue.
3. `Bracket`: advancement and correction; the tree as a function, the propagation
   against a reference definition.
4. `Proposals`: a meet proposal and the suggestions worker against a schedule
   version; no commit on a stale version.
5. The backup scheduler and the throttle, small modules with numeric edges.

Proofs next: what the autosave keeps over several visits (the part of `OneVisit`
that survives a late load), and the theorems of the modules above as they are
added.

### Not modelled

The scheduler core is an optimisation problem and is reduced to its outcomes. The
simulator drives the API from outside. The display and ops surfaces only read.
CRUD of workspaces and members keeps no state that two actors could disagree
about beyond the document version that `StateSave` models.

The greater part of the TypeScript is out of scope by its nature: generated types
(`api/dto.generated.ts`, 15,000 lines), pages, tables and forms of the consoles,
styling, tests, and the scripts of editor skills under `src/.github/`. What the
browser shares with other actors, the command queue, the match store and the
workspace document with its saves, is modelled; the rest renders what the API
answers and has no protocol to check.
