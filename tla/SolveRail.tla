----------------------------- MODULE SolveRail -----------------------------
(***************************************************************************)
(* The solve rail: the solve_jobs table of the API database, the HTTP      *)
(* threads that submit and cancel jobs, and the worker processes that      *)
(* claim a job, solve it in a child process under a heartbeat lease,       *)
(* record its outcome, and reap the leases of dead workers.                *)
(*                                                                         *)
(* Every SQLAlchemy session of the code is one of two things here.  A      *)
(* guarded UPDATE is one step.  A read-modify-write session (SELECT the    *)
(* row, decide in Python, flush an UPDATE that is keyed by the primary key *)
(* alone) is two steps, ...Read and ...Commit, with the decision kept in   *)
(* the process between them: neither SQLite nor READ COMMITTED Postgres    *)
(* keeps another session from committing in that window.  Overlap = FALSE  *)
(* is the reading in which the code's comments argue, where no session     *)
(* commits inside the window of another.                                   *)
(*                                                                         *)
(* Times are ages: heartbeat_at and finished_at are kept as the time that  *)
(* has passed since, capped just above the limit they are compared with.   *)
(***************************************************************************)
EXTENDS Integers, FiniteSets

CONSTANTS
    Workers,          \* worker processes; a restarted one has a fresh id
    Clients,          \* threads of the API that run submit or cancel
    Tournaments,
    Keys,             \* Idempotency-Key values
    None,             \* SQL NULL of a name column
    MaxJobs,          \* bound: rows ever inserted
    MaxAttempts,      \* settings.job_max_attempts
    Lease,            \* settings.job_lease_seconds
    Retention,        \* settings.job_retention_days
    MaintenanceEvery, \* _MAINTENANCE_EVERY_TICKS
    Ceiling,          \* supervise rounds before the outer kill
    UserLimit,        \* settings.max_active_solve_jobs_per_user
    MaxFaults,        \* bound: exceptions raised in the workers
    Overlap           \* may sessions interleave between read and commit?

ASSUME RailAssumption ==
    /\ None \notin Workers \cup Keys
    /\ Workers \cap Clients = {}
    /\ MaxJobs \in Nat
    /\ MaxAttempts \in Nat \ {0}
    /\ Lease \in Nat
    /\ Retention \in Nat
    /\ MaintenanceEvery \in Nat \ {0}
    /\ Ceiling \in Nat
    /\ UserLimit \in Nat
    /\ MaxFaults \in Nat
    /\ Overlap \in BOOLEAN

VARIABLES
    jobs,     \* the solve_jobs table, in insertion order
    wk,       \* the worker processes
    cl,       \* the API threads
    faults    \* exceptions still to come

vars == <<jobs, wk, cl, faults>>

Jobs == 1..MaxJobs
NoJob == 0
NoTime == -1      \* SQL NULL of a time column: no comparison holds of it

Active == {"queued", "claimed", "running"}
Terminal == {"succeeded", "failed", "infeasible", "cancelled"}
Live == Active \cup Terminal

\* The edges of the SOLVE_JOB machine.
Edges ==
    { <<"queued", "claimed">>, <<"claimed", "running">>,
      <<"running", "succeeded">>, <<"running", "infeasible">>,
      <<"claimed", "failed">>, <<"running", "failed">>,
      <<"claimed", "queued">>, <<"running", "queued">>,
      <<"queued", "cancelled">>, <<"claimed", "cancelled">>,
      <<"running", "cancelled">> }

Row ==
    [status: Live \cup {"absent", "deleted"},
     tourn: Tournaments \cup {None},
     key: Keys \cup {None},
     attempts: Nat,
     owner: Workers \cup {None},          \* claimed_by
     hb: NoTime..(Lease + 1),             \* age of heartbeat_at
     fin: NoTime..(Retention + 1),        \* age of finished_at
     err: BOOLEAN,                        \* error is not NULL
     res: BOOLEAN]                        \* result is not NULL

NoRow ==
    [status |-> "absent", tourn |-> None, key |-> None, attempts |-> 0,
     owner |-> None, hb |-> NoTime, fin |-> NoTime, err |-> FALSE,
     res |-> FALSE]

Outcome == {"none", "ok", "infeasible", "error", "infra", "cancelled"}

WorkerState ==
    [pc: {"idle", "reap", "reapCommit", "claim", "claimCommit", "solve",
          "beat", "beatCommit", "check", "done", "outcomeCommit", "dead"},
     tick: 0..(MaintenanceEvery - 1),
     job: Jobs \cup {NoJob},
     rounds: 0..Ceiling,                  \* supervise rounds of this solve
     out: Outcome,                        \* the runner's outcome
     target: Live \cup {"none"},          \* status its session will write
     requeue: SUBSET Jobs,                \* the reaper's session
     giveUp: SUBSET Jobs]

ClientState ==
    [pc: {"idle", "insert", "cancelCommit"},
     tourn: Tournaments \cup {None},
     key: Keys \cup {None},
     job: Jobs \cup {NoJob}]

TypeOK ==
    /\ jobs \in [Jobs -> Row]
    /\ wk \in [Workers -> WorkerState]
    /\ cl \in [Clients -> ClientState]
    /\ faults \in 0..MaxFaults

FreshWorker ==
    [pc |-> "idle", tick |-> 0, job |-> NoJob, rounds |-> 0, out |-> "none",
     target |-> "none", requeue |-> {}, giveUp |-> {}]

FreshClient == [pc |-> "idle", tourn |-> None, key |-> None, job |-> NoJob]

Init ==
    /\ jobs = [j \in Jobs |-> NoRow]
    /\ wk = [w \in Workers |-> FreshWorker]
    /\ cl = [c \in Clients |-> FreshClient]
    /\ faults = MaxFaults

-----------------------------------------------------------------------------
(* Sessions and the table's indexes. *)

Exists(j) == jobs[j].status \in Live

MidSession(p) ==
    \/ p \in Workers /\ wk[p].pc \in {"reapCommit", "claimCommit",
                                      "beatCommit", "outcomeCommit"}
    \/ p \in Clients /\ cl[p].pc \in {"insert", "cancelCommit"}

\* May process p talk to the database now?
DbFree(p) ==
    Overlap \/ \A q \in (Workers \cup Clients) \ {p} : ~MidSession(q)

ActiveIn(tab, t) ==
    {j \in Jobs : tab[j].status \in Active /\ tab[j].tourn = t}

\* uq_solve_jobs_active: at most one active row per tournament (and type).
ActiveIndex(tab) ==
    \A i, j \in Jobs : ( /\ i # j
                         /\ tab[i].status \in Active
                         /\ tab[j].status \in Active )
                            => tab[i].tourn # tab[j].tourn

\* uq_solve_jobs_idempotency_key: (tournament_id, idempotency_key).
KeyIndex(tab) ==
    \A i, j \in Jobs : ( /\ i # j
                         /\ tab[i].status \in Live
                         /\ tab[j].status \in Live
                         /\ tab[i].key # None )
                            => <<tab[i].tourn, tab[i].key>>
                                  # <<tab[j].tourn, tab[j].key>>

-----------------------------------------------------------------------------
(* The row functions of solve_jobs.py: what each writes to the row. *)

\* Mutant: the claim leaves heartbeat_at to the first beat.
ClaimNoHeartbeat(r, w) ==
    [r EXCEPT !.status = "running", !.owner = w, !.attempts = @ + 1]

Claim(r, w) ==
    [r EXCEPT !.status = "running", !.owner = w, !.hb = 0,
              !.attempts = @ + 1]

Beat(r) == [r EXCEPT !.hb = 0]

CompleteSuccess(r) == [r EXCEPT !.status = "succeeded", !.res = TRUE, !.fin = 0]

CompleteInfeasible(r) ==
    [r EXCEPT !.status = "infeasible", !.res = TRUE, !.fin = 0]

\* Mutant: the retry path forgets to clear claimed_by.
RequeueKeepsOwner(r) ==
    [r EXCEPT !.status = "queued", !.err = TRUE, !.hb = NoTime]

Requeue(r) ==
    [r EXCEPT !.status = "queued", !.err = TRUE, !.owner = None, !.hb = NoTime]

\* Mutant: giving up leaves finished_at NULL.
GiveUpUnfinished(r) == [r EXCEPT !.status = "failed", !.err = TRUE]

GiveUp(r) == [r EXCEPT !.status = "failed", !.err = TRUE, !.fin = 0]

CancelRow(r) == [r EXCEPT !.status = "cancelled", !.fin = 0]

\* Mutants: the budget is compared with <=, or not at all.
FailTargetOffByOne(r, retryable) ==
    IF retryable /\ r.attempts <= MaxAttempts THEN "queued" ELSE "failed"

FailTargetForever(r, retryable) == IF retryable THEN "queued" ELSE "failed"

\* The branch that fail() takes for a row it reads.
FailTarget(r, retryable) ==
    IF retryable /\ r.attempts < MaxAttempts THEN "queued" ELSE "failed"

-----------------------------------------------------------------------------
(* The API: submit and cancel. *)

AllActive == {j \in Jobs : jobs[j].status \in Active}

\* The user, a member of every tournament, may hold one more job.
UnderQuota == Cardinality(AllActive) < UserLimit

\* Bound: every insert under way finds one of the MaxJobs rows free.
IdsLeft ==
    Cardinality({c \in Clients : cl[c].pc = "insert"})
        < Cardinality({j \in Jobs : jobs[j].status = "absent"})

\* enqueue's reads: no replay of the key, no active job in the tournament,
\* and the user under the quota.  A replay, a 409 and a 429 leave the table
\* alone.
SubmitRead(c, t, k) ==
    /\ cl[c].pc = "idle"
    /\ DbFree(c)
    /\ k # None => \A j \in Jobs :
                      Exists(j) => <<jobs[j].tourn, jobs[j].key>> # <<t, k>>
    /\ ActiveIn(jobs, t) = {}
    /\ UnderQuota
    /\ IdsLeft
    /\ cl' = [cl EXCEPT ![c] = [pc |-> "insert", tourn |-> t, key |-> k,
                                job |-> NoJob]]
    /\ UNCHANGED <<jobs, wk, faults>>

\* The INSERT.  An IntegrityError of either index becomes a 409.
SubmitInsert(c) ==
    LET new == [NoRow EXCEPT !.status = "queued", !.tourn = cl[c].tourn,
                             !.key = cl[c].key]
    IN  /\ cl[c].pc = "insert"
        /\ DbFree(c)
        /\ \E j \in Jobs :
              /\ jobs[j].status = "absent"
              /\ \A i \in Jobs : i < j => jobs[i].status # "absent"
              /\ LET tab == [jobs EXCEPT ![j] = new]
                 IN  jobs' = IF ActiveIndex(tab) /\ KeyIndex(tab)
                                THEN tab ELSE jobs
        /\ cl' = [cl EXCEPT ![c] = FreshClient]
        /\ UNCHANGED <<wk, faults>>

\* Mutant: cancel does not look at the status first.
CancellableAlways(r) == r.status \in Live

Cancellable(r) == <<r.status, "cancelled">> \in Edges

\* _cancel_job's read.  Cancelling a terminal job is a no-op.
CancelRead(c, j) ==
    /\ cl[c].pc = "idle"
    /\ DbFree(c)
    /\ Exists(j) /\ Cancellable(jobs[j])
    /\ cl' = [cl EXCEPT ![c].pc = "cancelCommit", ![c].job = j]
    /\ UNCHANGED <<jobs, wk, faults>>

\* UPDATE ... WHERE id: a row that was deleted meanwhile is a 500.
CancelCommit(c) ==
    LET j == cl[c].job
    IN  /\ cl[c].pc = "cancelCommit"
        /\ DbFree(c)
        /\ jobs' = IF Exists(j) THEN [jobs EXCEPT ![j] = CancelRow(@)] ELSE jobs
        /\ cl' = [cl EXCEPT ![c] = FreshClient]
        /\ UNCHANGED <<wk, faults>>

-----------------------------------------------------------------------------
(* The worker: one iteration of run_once. *)

RunOnce(w) ==
    LET tick == (wk[w].tick + 1) % MaintenanceEvery
    IN  /\ wk[w].pc = "idle"
        /\ wk' = [wk EXCEPT ![w].tick = tick,
                            ![w].pc = IF tick = 1 % MaintenanceEvery
                                         THEN "reap" ELSE "claim"]
        /\ UNCHANGED <<jobs, cl, faults>>

\* reap_expired's SELECT, and the branch fail() takes for each row.
ReapRead(w) ==
    LET stale == {j \in Jobs : /\ jobs[j].status \in {"claimed", "running"}
                               /\ jobs[j].hb > Lease}
    IN  /\ wk[w].pc = "reap"
        /\ DbFree(w)
        /\ wk' = [wk EXCEPT ![w].pc = "reapCommit",
                            ![w].requeue = {j \in stale :
                                FailTarget(jobs[j], TRUE) = "queued"},
                            ![w].giveUp = {j \in stale :
                                FailTarget(jobs[j], TRUE) = "failed"}]
        /\ UNCHANGED <<jobs, cl, faults>>

Prunable(j) == jobs[j].status \in Terminal /\ jobs[j].fin > Retention

\* The table after prune_terminal's DELETE and the reaper's UPDATEs.
Maintained(w) ==
    [j \in Jobs |->
        IF j \in wk[w].requeue THEN Requeue(jobs[j])
        ELSE IF j \in wk[w].giveUp THEN GiveUp(jobs[j])
        ELSE IF Prunable(j) THEN [NoRow EXCEPT !.status = "deleted"]
        ELSE jobs[j]]

\* _maintenance's commit.  An UPDATE that finds its row deleted, or that
\* trips uq_solve_jobs_active, rolls the whole session back.
ReapCommit(w) ==
    LET written == wk[w].requeue \cup wk[w].giveUp
        ok == /\ \A j \in written : Exists(j) /\ ~Prunable(j)
              /\ ActiveIndex(Maintained(w))
    IN  /\ wk[w].pc = "reapCommit"
        /\ DbFree(w)
        /\ jobs' = IF ok THEN Maintained(w) ELSE jobs
        /\ wk' = [wk EXCEPT ![w].pc = "claim", ![w].requeue = {},
                            ![w].giveUp = {}]
        /\ UNCHANGED <<cl, faults>>

\* claim_next's candidate SELECT: the oldest queued row (submit gives every
\* job the same priority).
ClaimRead(w) ==
    LET queued == {j \in Jobs : jobs[j].status = "queued"}
    IN  /\ wk[w].pc = "claim"
        /\ DbFree(w)
        /\ \/ /\ queued = {}
              /\ wk' = [wk EXCEPT ![w].pc = "idle"]
           \/ \E j \in queued :
                 /\ \A i \in queued : j <= i
                 /\ wk' = [wk EXCEPT ![w].pc = "claimCommit", ![w].job = j]
        /\ UNCHANGED <<jobs, cl, faults>>

\* The guarded UPDATE, and mark_running in the same transaction.
ClaimCommit(w) ==
    LET j == wk[w].job
        won == jobs[j].status = "queued"
    IN  /\ wk[w].pc = "claimCommit"
        /\ DbFree(w)
        /\ jobs' = IF won THEN [jobs EXCEPT ![j] = Claim(@, w)] ELSE jobs
        /\ wk' = [wk EXCEPT ![w].pc = IF won THEN "solve" ELSE "idle",
                            ![w].job = IF won THEN j ELSE NoJob,
                            ![w].rounds = 0]
        /\ UNCHANGED <<cl, faults>>

-----------------------------------------------------------------------------
(* The runner: supervision of the child process. *)

\* The child exits.  Its output file is a schedule, a proof of infeasibility,
\* a structured error, or missing or unreadable (infra).
ChildExits(w, out) ==
    /\ wk[w].pc = "solve"
    /\ out \in {"ok", "infeasible", "error", "infra"}
    /\ wk' = [wk EXCEPT ![w].pc = "done", ![w].out = out]
    /\ UNCHANGED <<jobs, cl, faults>>

\* proc.wait timed out: beat, check for a cancel, check the deadline.
Supervise(w) ==
    /\ wk[w].pc = "solve"
    /\ wk' = [wk EXCEPT ![w].pc = "beat"]
    /\ UNCHANGED <<jobs, cl, faults>>

\* Mutant: a beat refreshes the lease whoever holds it.
HoldsLeaseGhost(w, r) == r.status \in {"claimed", "running"}

\* heartbeat's read: only the lease holder of a running job writes.
HoldsLease(w, r) == r.owner = w /\ r.status \in {"claimed", "running"}

BeatRead(w) ==
    LET j == wk[w].job
    IN  /\ wk[w].pc = "beat"
        /\ DbFree(w)
        /\ wk' = [wk EXCEPT ![w].pc =
                     IF Exists(j) /\ HoldsLease(w, jobs[j])
                        THEN "beatCommit" ELSE "check"]
        /\ UNCHANGED <<jobs, cl, faults>>

BeatCommit(w) ==
    LET j == wk[w].job
    IN  /\ wk[w].pc = "beatCommit"
        /\ DbFree(w)
        /\ jobs' = IF Exists(j) THEN [jobs EXCEPT ![j] = Beat(@)] ELSE jobs
        /\ wk' = [wk EXCEPT ![w].pc = "check"]
        /\ UNCHANGED <<cl, faults>>

\* Mutant: the deadline is one supervise round late.
LateOffByOne(w) == wk[w].rounds > Ceiling

Late(w) == wk[w].rounds = Ceiling

\* _is_cancelled, then the outer deadline: both kill the child.
Check(w) ==
    LET j == wk[w].job
        cancelled == ~Exists(j) \/ jobs[j].status = "cancelled"
    IN  /\ wk[w].pc = "check"
        /\ DbFree(w)
        /\ wk' = IF cancelled \/ Late(w)
                    THEN [wk EXCEPT ![w].pc = "done",
                            ![w].out = IF cancelled THEN "cancelled" ELSE "infra"]
                    ELSE [wk EXCEPT ![w].pc = "solve", ![w].rounds = @ + 1]
        /\ UNCHANGED <<jobs, cl, faults>>

-----------------------------------------------------------------------------
(* Recording the outcome. *)

\* The status _record_outcome decides to write for the row it reads.
OutcomeTarget(r, out) ==
    CASE out = "ok" -> "succeeded"
      [] out = "infeasible" -> "infeasible"
      [] out = "error" -> FailTarget(r, FALSE)
      [] out = "infra" -> FailTarget(r, TRUE)
      [] OTHER -> "none"

\* Mutant: the completion write does not check the lease.
RecordsGhost(w, r) ==
    /\ r.status \in Live \ {"cancelled"}
    /\ wk[w].out # "cancelled"
    /\ <<r.status, OutcomeTarget(r, wk[w].out)>> \in Edges

\* Does _record_outcome go on to write?  Not for a vanished or a cancelled
\* job, not without the lease, not on a killed child, and an illegal edge
\* raises before anything is flushed.
Records(w, r) ==
    /\ r.status \in Live \ {"cancelled"}
    /\ r.owner = w
    /\ wk[w].out # "cancelled"
    /\ <<r.status, OutcomeTarget(r, wk[w].out)>> \in Edges

Idle(w) == [FreshWorker EXCEPT !.tick = wk[w].tick]

OutcomeRead(w) ==
    LET r == jobs[wk[w].job]
    IN  /\ wk[w].pc = "done"
        /\ DbFree(w)
        /\ wk' = IF Records(w, r)
                    THEN [wk EXCEPT ![w].pc = "outcomeCommit", ![w].out = "none",
                            ![w].target = OutcomeTarget(r, wk[w].out)]
                    ELSE [wk EXCEPT ![w] = Idle(w)]
        /\ UNCHANGED <<jobs, cl, faults>>

\* The row after _record_outcome's UPDATE.
Recorded(r, target) ==
    CASE target = "succeeded" -> CompleteSuccess(r)
      [] target = "infeasible" -> CompleteInfeasible(r)
      [] target = "queued" -> Requeue(r)
      [] OTHER -> GiveUp(r)

OutcomeCommit(w) ==
    LET j == wk[w].job
        tab == [jobs EXCEPT ![j] = Recorded(@, wk[w].target)]
    IN  /\ wk[w].pc = "outcomeCommit"
        /\ DbFree(w)
        /\ jobs' = IF Exists(j) /\ ActiveIndex(tab) THEN tab ELSE jobs
        /\ wk' = [wk EXCEPT ![w] = Idle(w)]
        /\ UNCHANGED <<cl, faults>>

-----------------------------------------------------------------------------
(* Failures and time. *)

\* An exception in the session or in the runner.  Maintenance and the beat
\* swallow it and go on, the cancel check answers "no", and everywhere else
\* the iteration ends with the row as it is: a claimed job stays running.
Raises(w) ==
    /\ faults > 0
    /\ faults' = faults - 1
    /\ \/ /\ wk[w].pc \in {"reap", "reapCommit"}
          /\ wk' = [wk EXCEPT ![w].pc = "claim", ![w].requeue = {},
                              ![w].giveUp = {}]
       \/ /\ wk[w].pc \in {"beat", "beatCommit"}
          /\ wk' = [wk EXCEPT ![w].pc = "check"]
       \/ /\ wk[w].pc = "check" /\ ~Late(w)
          /\ wk' = [wk EXCEPT ![w].pc = "solve", ![w].rounds = @ + 1]
       \/ /\ wk[w].pc = "check" /\ Late(w)
          /\ wk' = [wk EXCEPT ![w].pc = "done", ![w].out = "infra"]
       \/ /\ wk[w].pc \in {"claim", "claimCommit", "solve", "done",
                           "outcomeCommit"}
          /\ wk' = [wk EXCEPT ![w] = Idle(w)]
    /\ UNCHANGED <<jobs, cl>>

\* The process dies at any point; an open session is rolled back.  The
\* deployment keeps a worker running, so some process is always left.
Crash(w) ==
    /\ wk[w].pc # "dead"
    /\ \E v \in Workers \ {w} : wk[v].pc # "dead"
    /\ wk' = [wk EXCEPT ![w] = [FreshWorker EXCEPT !.pc = "dead"]]
    /\ UNCHANGED <<jobs, cl, faults>>

Older(age, cap) == IF age \in 0..(cap - 1) THEN age + 1 ELSE age

\* The age of a heartbeat is read of leased rows only, that of finished_at of
\* terminal ones: elsewhere time leaves them alone.
Aged(r) ==
    [r EXCEPT !.hb = IF r.status \in {"claimed", "running"}
                        THEN Older(@, Lease + 1) ELSE @,
              !.fin = IF r.status \in Terminal
                        THEN Older(@, Retention + 1) ELSE @]

Tick ==
    /\ jobs' = [j \in Jobs |-> Aged(jobs[j])]
    /\ UNCHANGED <<wk, cl, faults>>

-----------------------------------------------------------------------------

WorkerStep(w) ==
    \/ RunOnce(w)
    \/ ReapRead(w)
    \/ ReapCommit(w)
    \/ ClaimRead(w)
    \/ ClaimCommit(w)
    \/ \E out \in {"ok", "infeasible", "error", "infra"} : ChildExits(w, out)
    \/ Supervise(w)
    \/ BeatRead(w)
    \/ BeatCommit(w)
    \/ Check(w)
    \/ OutcomeRead(w)
    \/ OutcomeCommit(w)

ClientCommit(c) == SubmitInsert(c) \/ CancelCommit(c)

Next ==
    \/ \E w \in Workers : WorkerStep(w) \/ Raises(w) \/ Crash(w)
    \/ \E c \in Clients :
          \/ \E t \in Tournaments, k \in Keys \cup {None} : SubmitRead(c, t, k)
          \/ \E j \in Jobs : CancelRead(c, j)
          \/ ClientCommit(c)
    \/ Tick

Spec == Init /\ [][Next]_vars

\* Worker loops, request threads and the clock go on.
Fairness ==
    /\ \A w \in Workers : WF_vars(WorkerStep(w))
    /\ \A c \in Clients : WF_vars(ClientCommit(c))
    /\ WF_vars(Tick)

FairSpec == Spec /\ Fairness

-----------------------------------------------------------------------------
(* What holds of every interleaving of the sessions. *)

\* A running job always has a lease the reaper can expire: an owner and a
\* heartbeat that is not NULL (reap_expired compares heartbeat_at < cutoff,
\* which no NULL satisfies).  A queued job has no owner, so a completion that
\* arrives after the reap is refused.
WellLeased(r) ==
    /\ r.status \in {"claimed", "running"} => r.owner # None /\ r.hb # NoTime
    /\ r.status = "queued" => r.owner = None

LeaseShape == \A j \in Jobs : WellLeased(jobs[j])

\* A decision, whichever stale session wrote it last, has what goes with it: the
\* finished_at by which prune_terminal finds the row, the result or the error
\* that the poll answers with, and, unless the user cancelled, a start.
Backed(r) ==
    /\ r.status \in Terminal => r.fin # NoTime
    /\ r.status \in {"succeeded", "infeasible"} => r.res
    /\ r.status = "failed" => r.err
    /\ r.status \in Terminal \ {"cancelled"} => r.attempts > 0

DecisionsBacked == \A j \in Jobs : Backed(jobs[j])

\* Stale reaper sessions can start a job more often than its retry budget, but
\* each other worker can add one start at most: no job is retried forever.
BudgetOverrun ==
    \A j \in Jobs :
        jobs[j].attempts <= MaxAttempts + Cardinality(Workers) - 1

(* What the code claims, and overlapping sessions break. *)

\* The user's cancel is never undone.
CancelIsFinal ==
    [][\A j \in Jobs : jobs[j].status = "cancelled" =>
          jobs'[j].status \in {"cancelled", "deleted"}]_vars

(* What holds when no session commits inside another. *)

\* The rail implements the ledger: one undecided job per tournament, decided
\* once, its decision final until it is pruned.  No late completion, reaper or
\* second cancel touches a decided job.
Standing(r) ==
    CASE r.status = "absent" -> "none"
      [] r.status = "deleted" -> "forgotten"
      [] r.status \in Active -> "pending"
      [] OTHER -> r.status

Ledger == INSTANCE SolveLedger
            WITH state <- [j \in Jobs |-> Standing(jobs[j])],
                 home <- [j \in Jobs |-> jobs[j].tourn]

LedgerSpec == Ledger!Spec

\* Only the worker that holds the lease completes a job: a worker that lost it
\* while its child went on solving has its result discarded.
OnlyHolderCompletes ==
    [][\A j \in Jobs :
          /\ jobs[j].status # jobs'[j].status
          /\ jobs'[j].status \in {"succeeded", "infeasible"}
          => \E w \in Workers : /\ jobs[j].owner = w
                                /\ jobs[j].status = "running"
                                /\ wk[w].pc = "outcomeCommit"
                                /\ wk'[w].pc = "idle"]_vars

\* Only the lease holder refreshes a lease, so the lease of a dead owner runs
\* out whatever a ghost worker does.
NoGhostBeat ==
    [][\A j \in Jobs :
          /\ jobs'[j].status = "running"
          /\ jobs[j].hb > 0
          /\ jobs'[j].hb = 0
          /\ jobs'[j].owner = jobs[j].owner
          => \E w \in Workers : /\ jobs[j].owner = w
                                /\ wk[w].job = j
                                /\ wk[w].pc = "beatCommit"]_vars

\* A job is started at most max_attempts times.
RetryBudget == \A j \in Jobs : jobs[j].attempts <= MaxAttempts

(* What must eventually happen. *)

\* Every submitted job is decided: crashed workers' leases are reaped and
\* retries run out.
EveryJobEnds ==
    \A j \in Jobs : jobs[j].status = "queued"
                        ~> jobs[j].status \in Terminal \cup {"deleted"}
=============================================================================
