----------------------- MODULE SolveRailSerialProofs -----------------------
(***************************************************************************)
(* Theorems about SolveRail when no session commits inside another         *)
(* (Overlap = FALSE), which is how the comments of the code argue: what a  *)
(* session has read still holds when it commits, so a decided job stays    *)
(* decided, only the lease holder writes, and the retry budget is kept.    *)
(***************************************************************************)
EXTENDS SolveRailProofs

Leased == {"claimed", "running"}

AtWork ==
    {"claimCommit", "solve", "beat", "beatCommit", "check", "done",
     "outcomeCommit"}

\* A worker that has claimed a job, or is about to, knows which.
HasJob(w) == wk[w].pc \in AtWork => wk[w].job \in Jobs

\* What the session of worker w has read still holds.
Current(w) ==
    LET r == jobs[wk[w].job]
    IN  /\ wk[w].pc = "reapCommit" =>
              /\ \A j \in wk[w].requeue \cup wk[w].giveUp :
                    jobs[j].status \in Leased
              /\ \A j \in wk[w].requeue : jobs[j].attempts < MaxAttempts
        /\ wk[w].pc = "beatCommit" => HoldsLease(w, r)
        /\ wk[w].pc = "outcomeCommit" =>
              /\ r.owner = w
              /\ wk[w].target \in {"succeeded", "infeasible", "queued", "failed"}
              /\ <<r.status, wk[w].target>> \in Edges
              /\ wk[w].target = "queued" => r.attempts < MaxAttempts

\* The same for the API thread c.
CurrentRequest(c) ==
    /\ cl[c].pc = "insert" => cl[c].tourn \in Tournaments
    /\ cl[c].pc = "cancelCommit" =>
          cl[c].job \in Jobs /\ Cancellable(jobs[cl[c].job])

Sessions ==
    /\ \A w \in Workers : HasJob(w) /\ Current(w)
    /\ \A c \in Clients : CurrentRequest(c)

\* A queued job may be started once more.
Budgeted(r) ==
    /\ r.attempts <= MaxAttempts
    /\ r.status = "queued" => r.attempts < MaxAttempts

-----------------------------------------------------------------------------
(* An open session is left alone. *)

\* While a session is open, nothing but time touches the rows: any other
\* session waits for it.
LEMMA SessionUndisturbed ==
    ASSUME TypeOK, [Next]_vars, ~Overlap,
           NEW p \in Workers \cup Clients, MidSession(p),
           p \in Workers => wk'[p] = wk[p],
           p \in Clients => cl'[p] = cl[p],
           NEW j \in Jobs
    PROVE  jobs'[j] = jobs[j] \/ jobs'[j] = Aged(jobs[j])
<1>0. /\ wk \in [Workers -> WorkerState]
      /\ cl \in [Clients -> ClientState]
      /\ jobs \in [Jobs -> Row]
      /\ Workers \cap Clients = {}
  BY RailAssumption DEF TypeOK
<1>1. CASE UNCHANGED jobs
  BY <1>1
<1>2. CASE Tick
  BY <1>0, <1>2 DEF Tick
<1>3. ASSUME NEW c \in Clients, SubmitInsert(c) \/ CancelCommit(c)
      PROVE  FALSE
  <2>1. c = p
    BY <1>3 DEF SubmitInsert, CancelCommit, DbFree
  <2>2. cl'[c] = FreshClient
    BY <1>0, <1>3 DEF SubmitInsert, CancelCommit
  <2> QED
    BY <1>0, <1>3, <2>1, <2>2
       DEF SubmitInsert, CancelCommit, FreshClient, ClientState
<1>4. ASSUME NEW w \in Workers,
             ReapCommit(w) \/ ClaimCommit(w) \/ BeatCommit(w) \/ OutcomeCommit(w)
      PROVE  FALSE
  <2>1. w = p
    BY <1>4 DEF ReapCommit, ClaimCommit, BeatCommit, OutcomeCommit, DbFree
  <2>2. wk[w] \in WorkerState
    BY <1>0
  <2>3. wk[w].pc \in {"reapCommit", "claimCommit", "beatCommit", "outcomeCommit"}
    BY <1>4 DEF ReapCommit, ClaimCommit, BeatCommit, OutcomeCommit
  <2>4. wk'[w].pc \in {"claim", "solve", "idle", "check"}
    <3>1. CASE ReapCommit(w)
      BY <1>0, <2>2, <3>1 DEF ReapCommit, WorkerState
    <3>2. CASE ClaimCommit(w)
      BY <1>0, <2>2, <3>2 DEF ClaimCommit, WorkerState
    <3>3. CASE BeatCommit(w)
      BY <1>0, <2>2, <3>3 DEF BeatCommit, WorkerState
    <3>4. CASE OutcomeCommit(w)
      BY <1>0, <2>2, <3>4 DEF OutcomeCommit, Idle, FreshWorker
    <3> QED
      BY <1>4, <3>1, <3>2, <3>3, <3>4
  <2> QED
    BY <2>1, <2>3, <2>4
<1> QED
  BY <1>1, <1>2, <1>3, <1>4, Writers

-----------------------------------------------------------------------------
(* What a session has read still holds when it commits. *)

\* Time keeps what sessions look at, but for the ages.
LEMMA AgedKeeps ==
    ASSUME NEW r \in Row
    PROVE  /\ Aged(r).status = r.status
           /\ Aged(r).tourn = r.tourn
           /\ Aged(r).key = r.key
           /\ Aged(r).owner = r.owner
           /\ Aged(r).attempts = r.attempts
BY DEF Aged, Row

\* A worker at work keeps its job until it is idle again.
LEMMA JobKnown ==
    ASSUME TypeOK, [Next]_vars, NEW w \in Workers, HasJob(w)
    PROVE  HasJob(w)'
<1>0. /\ wk \in [Workers -> WorkerState]
      /\ wk[w] \in WorkerState
  BY DEF TypeOK
<1>1. CASE wk'[w] = wk[w]
  BY <1>1 DEF HasJob
<1>2. CASE WorkerStep(w) \/ Raises(w) \/ Crash(w)
  <2> USE <1>0 DEF HasJob, AtWork, WorkerState
  <2>1. CASE RunOnce(w)
    <3>1. wk'[w].pc \in {"reap", "claim"}
      BY <2>1 DEF RunOnce
    <3> QED
      BY <3>1
  <2>2. CASE ReapRead(w)
    BY <2>2 DEF ReapRead
  <2>3. CASE ReapCommit(w)
    BY <2>3 DEF ReapCommit
  <2>4. CASE ClaimRead(w)
    BY <2>4 DEF ClaimRead
  <2>5. CASE ClaimCommit(w)
    BY <2>5 DEF ClaimCommit
  <2>6. CASE \E out \in {"ok", "infeasible", "error", "infra"} : ChildExits(w, out)
    BY <2>6 DEF ChildExits
  <2>7. CASE Supervise(w)
    BY <2>7 DEF Supervise
  <2>8. CASE BeatRead(w)
    BY <2>8 DEF BeatRead
  <2>9. CASE BeatCommit(w)
    BY <2>9 DEF BeatCommit
  <2>10. CASE Check(w)
    BY <2>10 DEF Check
  <2>11. CASE OutcomeRead(w)
    BY <2>11 DEF OutcomeRead, Idle, FreshWorker
  <2>12. CASE OutcomeCommit(w)
    BY <2>12 DEF OutcomeCommit, Idle, FreshWorker
  <2>13. CASE Raises(w)
    BY <2>13 DEF Raises, Idle, FreshWorker
  <2>14. CASE Crash(w)
    BY <2>14 DEF Crash, FreshWorker
  <2> QED
    BY <1>2, <2>1, <2>2, <2>3, <2>4, <2>5, <2>6, <2>7, <2>8, <2>9, <2>10,
       <2>11, <2>12, <2>13, <2>14 DEF WorkerStep
<1> QED
  BY <1>1, <1>2, WorkerMoves

\* The sessions that a step opens have just read; the others are undisturbed.
LEMMA WorkerSessions ==
    ASSUME TypeOK, [Next]_vars, ~Overlap, NEW w \in Workers,
           HasJob(w), Current(w)
    PROVE  Current(w)'
<1>0. /\ wk \in [Workers -> WorkerState]
      /\ wk[w] \in WorkerState
      /\ jobs \in [Jobs -> Row]
  BY DEF TypeOK
<1>1. CASE wk'[w] = wk[w] /\ MidSession(w)
  <2>1. \A j \in Jobs : /\ jobs'[j].status = jobs[j].status
                        /\ jobs'[j].owner = jobs[j].owner
                        /\ jobs'[j].attempts = jobs[j].attempts
    <3> SUFFICES ASSUME NEW j \in Jobs
                 PROVE  /\ jobs'[j].status = jobs[j].status
                        /\ jobs'[j].owner = jobs[j].owner
                        /\ jobs'[j].attempts = jobs[j].attempts
      OBVIOUS
    <3>1. jobs'[j] = jobs[j] \/ jobs'[j] = Aged(jobs[j])
      <4>1. w \in Clients => cl'[w] = cl[w]
        BY RailAssumption
      <4> QED
        BY <1>1, <4>1, SessionUndisturbed
    <3> QED
      BY <1>0, <3>1, AgedKeeps
  <2>2. wk[w].requeue \subseteq Jobs /\ wk[w].giveUp \subseteq Jobs
    BY <1>0 DEF WorkerState
  <2> QED
    BY <1>1, <2>1, <2>2 DEF Current, HasJob, AtWork, HoldsLease
<1>2. CASE wk'[w] = wk[w] /\ ~MidSession(w)
  BY <1>2 DEF Current, MidSession
<1>3. CASE WorkerStep(w) \/ Raises(w) \/ Crash(w)
  <2>1. CASE ReapRead(w)
    <3>1. /\ jobs' = jobs
          /\ wk'[w].pc = "reapCommit"
          /\ wk'[w].requeue \subseteq
                {j \in Jobs : /\ jobs[j].status \in Leased
                              /\ FailTarget(jobs[j], TRUE) = "queued"}
          /\ wk'[w].giveUp \subseteq {j \in Jobs : jobs[j].status \in Leased}
      BY <1>0, <2>1 DEF ReapRead, WorkerState, Leased
    <3> QED
      BY <3>1 DEF Current, FailTarget
  <2>2. CASE BeatRead(w)
    <3>1. jobs' = jobs /\ wk'[w].job = wk[w].job
      BY <1>0, <2>2 DEF BeatRead, WorkerState
    <3>2. \/ wk'[w].pc = "check"
          \/ wk'[w].pc = "beatCommit" /\ HoldsLease(w, jobs[wk[w].job])
      BY <1>0, <2>2 DEF BeatRead, WorkerState
    <3> QED
      BY <3>1, <3>2 DEF Current, HoldsLease
  <2>3. CASE OutcomeRead(w)
    <3>1. CASE Records(w, jobs[wk[w].job])
      <4>1. /\ jobs' = jobs
            /\ wk'[w].pc = "outcomeCommit"
            /\ wk'[w].job = wk[w].job
            /\ wk'[w].target = OutcomeTarget(jobs[wk[w].job], wk[w].out)
        BY <1>0, <2>3, <3>1 DEF OutcomeRead, WorkerState
      <4>2. /\ OutcomeTarget(jobs[wk[w].job], wk[w].out)
                  \in {"succeeded", "infeasible", "queued", "failed", "none"}
            /\ OutcomeTarget(jobs[wk[w].job], wk[w].out) = "queued"
                  => jobs[wk[w].job].attempts < MaxAttempts
        BY DEF OutcomeTarget, FailTarget
      <4>3. OutcomeTarget(jobs[wk[w].job], wk[w].out) # "none"
        BY <3>1 DEF Records, Edges
      <4> QED
        BY <3>1, <4>1, <4>2, <4>3 DEF Current, Records
    <3>2. CASE ~Records(w, jobs[wk[w].job])
      <4>1. wk'[w].pc = "idle"
        BY <1>0, <2>3, <3>2 DEF OutcomeRead, Idle, FreshWorker
      <4> QED
        BY <4>1 DEF Current
    <3> QED
      BY <3>1, <3>2
  <2>4. CASE ~ReapRead(w) /\ ~BeatRead(w) /\ ~OutcomeRead(w)
    <3>1. wk'[w].pc \notin {"reapCommit", "beatCommit", "outcomeCommit"}
      <4> USE <1>0 DEF WorkerState
      <4>1. CASE RunOnce(w)
        BY <4>1 DEF RunOnce
      <4>2. CASE ReapCommit(w)
        BY <4>2 DEF ReapCommit
      <4>3. CASE ClaimRead(w)
        BY <4>3 DEF ClaimRead
      <4>4. CASE ClaimCommit(w)
        BY <4>4 DEF ClaimCommit
      <4>5. CASE \E out \in {"ok", "infeasible", "error", "infra"} :
                    ChildExits(w, out)
        BY <4>5 DEF ChildExits
      <4>6. CASE Supervise(w)
        BY <4>6 DEF Supervise
      <4>7. CASE BeatCommit(w)
        BY <4>7 DEF BeatCommit
      <4>8. CASE Check(w)
        BY <4>8 DEF Check
      <4>9. CASE OutcomeCommit(w)
        BY <4>9 DEF OutcomeCommit, Idle, FreshWorker
      <4>10. CASE Raises(w)
        BY <4>10 DEF Raises, Idle, FreshWorker
      <4>11. CASE Crash(w)
        BY <4>11 DEF Crash, FreshWorker
      <4> QED
        BY <1>3, <2>4, <4>1, <4>2, <4>3, <4>4, <4>5, <4>6, <4>7, <4>8, <4>9,
           <4>10, <4>11 DEF WorkerStep
    <3> QED
      BY <3>1 DEF Current
  <2> QED
    BY <2>1, <2>2, <2>3, <2>4
<1> QED
  BY <1>1, <1>2, <1>3, WorkerMoves

\* The same for the API threads.
LEMMA ClientSessions ==
    ASSUME TypeOK, [Next]_vars, ~Overlap, NEW c \in Clients, CurrentRequest(c)
    PROVE  CurrentRequest(c)'
<1>0. /\ cl \in [Clients -> ClientState]
      /\ cl[c] \in ClientState
      /\ jobs \in [Jobs -> Row]
  BY DEF TypeOK
<1>1. CASE cl'[c] = cl[c] /\ MidSession(c)
  <2>1. \A j \in Jobs : jobs'[j].status = jobs[j].status
    <3> SUFFICES ASSUME NEW j \in Jobs PROVE jobs'[j].status = jobs[j].status
      OBVIOUS
    <3>1. c \in Workers => wk'[c] = wk[c]
      BY RailAssumption
    <3>2. jobs'[j] = jobs[j] \/ jobs'[j] = Aged(jobs[j])
      BY <1>1, <3>1, SessionUndisturbed
    <3> QED
      BY <1>0, <3>2, AgedKeeps
  <2> QED
    BY <1>1, <2>1 DEF CurrentRequest, Cancellable
<1>2. CASE cl'[c] = cl[c] /\ ~MidSession(c)
  BY <1>2 DEF CurrentRequest, MidSession
<1>3. CASE \E t \in Tournaments, k \in Keys \cup {None} : SubmitRead(c, t, k)
  BY <1>0, <1>3 DEF SubmitRead, CurrentRequest
<1>4. CASE \E j \in Jobs : CancelRead(c, j)
  <2>1. PICK j \in Jobs : CancelRead(c, j)
    BY <1>4
  <2>2. /\ jobs' = jobs
        /\ cl'[c].pc = "cancelCommit"
        /\ cl'[c].job = j
        /\ Cancellable(jobs[j])
    BY <1>0, <2>1 DEF CancelRead, ClientState
  <2> QED
    BY <2>2 DEF CurrentRequest
<1>5. CASE ClientCommit(c)
  <2>1. cl'[c].pc = "idle"
    BY <1>0, <1>5 DEF ClientCommit, SubmitInsert, CancelCommit, FreshClient
  <2> QED
    BY <2>1 DEF CurrentRequest
<1> QED
  BY <1>1, <1>2, <1>3, <1>4, <1>5, ClientMoves DEF ClientStep

\* Sessions that do not overlap act on what they read.
THEOREM SessionsAreCurrent ==
    ASSUME ~Overlap
    PROVE  Spec => []Sessions
<1>1. Init => Sessions
  BY DEF Init, Sessions, HasJob, AtWork, Current, CurrentRequest, FreshWorker,
         FreshClient
<1>2. TypeOK /\ Sessions /\ [Next]_vars => Sessions'
  BY JobKnown, WorkerSessions, ClientSessions DEF Sessions
<1> QED
  BY <1>1, <1>2, TypeCorrect, PTL DEF Spec

-----------------------------------------------------------------------------
(* What one step does to one row when sessions do not overlap. *)

\* A step leaves a row alone or ages it, or takes it along the job's life.
SerialStep(j) ==
    \/ jobs'[j] = jobs[j]
    \/ jobs'[j] = Aged(jobs[j])
    \/ /\ jobs[j].status = "absent"
       /\ \E t \in Tournaments, k \in Keys \cup {None} :
             jobs'[j] = [NoRow EXCEPT !.status = "queued", !.tourn = t, !.key = k]
    \/ /\ jobs[j].status = "queued"
       /\ \E w \in Workers : jobs'[j] = Claim(jobs[j], w)
    \/ /\ jobs'[j] = Beat(jobs[j])
       /\ \E w \in Workers : /\ wk[w].pc = "beatCommit" /\ wk[w].job = j
                             /\ HoldsLease(w, jobs[j])
    \/ /\ jobs'[j] = CompleteSuccess(jobs[j]) \/ jobs'[j] = CompleteInfeasible(jobs[j])
       /\ jobs[j].status = "running"
       /\ \E w \in Workers : /\ jobs[j].owner = w
                             /\ wk[w].pc = "outcomeCommit" /\ wk'[w].pc = "idle"
    \/ /\ jobs'[j] = Requeue(jobs[j])
       /\ jobs[j].status \in Leased /\ jobs[j].attempts < MaxAttempts
    \/ jobs'[j] = GiveUp(jobs[j]) /\ jobs[j].status \in Leased
    \/ jobs'[j] = CancelRow(jobs[j]) /\ jobs[j].status \in Active
    \/ /\ jobs'[j] = [NoRow EXCEPT !.status = "deleted"]
       /\ jobs[j].status \in Terminal

\* Every step is such a step of every row.
LEMMA SerialSteps ==
    ASSUME TypeOK, Sessions, [Next]_vars, NEW j \in Jobs
    PROVE  SerialStep(j)
<1>0. jobs \in [Jobs -> Row] /\ wk \in [Workers -> WorkerState]
  BY DEF TypeOK
<1>1. CASE UNCHANGED jobs
  BY <1>1 DEF SerialStep
<1>2. CASE Tick
  BY <1>0, <1>2 DEF Tick, SerialStep
<1>3. ASSUME NEW c \in Clients, SubmitInsert(c) PROVE SerialStep(j)
  <2>1. cl[c].tourn \in Tournaments /\ cl[c].key \in Keys \cup {None}
    BY <1>3 DEF Sessions, CurrentRequest, SubmitInsert, TypeOK, ClientState
  <2>2. \/ jobs' = jobs
        \/ \E i \in Jobs :
              /\ jobs[i].status = "absent"
              /\ jobs' = [jobs EXCEPT ![i] =
                    [NoRow EXCEPT !.status = "queued", !.tourn = cl[c].tourn,
                                  !.key = cl[c].key]]
    BY <1>3 DEF SubmitInsert
  <2>3. \/ jobs'[j] = jobs[j]
        \/ /\ jobs[j].status = "absent"
           /\ jobs'[j] = [NoRow EXCEPT !.status = "queued", !.tourn = cl[c].tourn,
                                       !.key = cl[c].key]
    BY <1>0, <2>2
  <2> QED
    BY <2>1, <2>3 DEF SerialStep
<1>4. ASSUME NEW c \in Clients, CancelCommit(c) PROVE SerialStep(j)
  <2>1. cl[c].job \in Jobs /\ jobs[cl[c].job].status \in Active
    BY <1>4 DEF Sessions, CurrentRequest, CancelCommit, Cancellable, Edges, Active
  <2> QED
    BY <1>0, <1>4, <2>1 DEF CancelCommit, SerialStep
<1>5. ASSUME NEW w \in Workers, ReapCommit(w) PROVE SerialStep(j)
  <2>1. /\ \A i \in wk[w].requeue \cup wk[w].giveUp : jobs[i].status \in Leased
        /\ \A i \in wk[w].requeue : jobs[i].attempts < MaxAttempts
    BY <1>5 DEF Sessions, Current, ReapCommit
  <2>2. \/ jobs'[j] = jobs[j]
        \/ jobs'[j] = Requeue(jobs[j]) /\ j \in wk[w].requeue
        \/ jobs'[j] = GiveUp(jobs[j]) /\ j \in wk[w].giveUp
        \/ jobs'[j] = [NoRow EXCEPT !.status = "deleted"] /\ Prunable(j)
    BY <1>5 DEF ReapCommit, Maintained
  <2> QED
    BY <2>1, <2>2 DEF SerialStep, Prunable
<1>6. ASSUME NEW w \in Workers, ClaimCommit(w) PROVE SerialStep(j)
  BY <1>0, <1>6 DEF ClaimCommit, SerialStep
<1>7. ASSUME NEW w \in Workers, BeatCommit(w) PROVE SerialStep(j)
  <2>1. wk[w].pc = "beatCommit" /\ HoldsLease(w, jobs[wk[w].job])
    BY <1>7 DEF Sessions, Current, BeatCommit
  <2>2. jobs'[j] = jobs[j] \/ (jobs'[j] = Beat(jobs[j]) /\ wk[w].job = j)
    BY <1>0, <1>7 DEF BeatCommit
  <2> QED
    BY <2>1, <2>2 DEF SerialStep
<1>8. ASSUME NEW w \in Workers, OutcomeCommit(w) PROVE SerialStep(j)
  <2> DEFINE r == jobs[wk[w].job]
  <2>1. /\ r.owner = w
        /\ wk[w].target \in {"succeeded", "infeasible", "queued", "failed"}
        /\ <<r.status, wk[w].target>> \in Edges
        /\ wk[w].target = "queued" => r.attempts < MaxAttempts
    BY <1>8 DEF Sessions, Current, OutcomeCommit
  <2>2. wk[w].pc = "outcomeCommit" /\ wk'[w].pc = "idle"
    BY <1>0, <1>8 DEF OutcomeCommit, Idle, FreshWorker
  <2>3. \/ jobs'[j] = jobs[j]
        \/ jobs'[j] = Recorded(jobs[j], wk[w].target) /\ wk[w].job = j
    BY <1>0, <1>8 DEF OutcomeCommit
  <2>4. /\ wk[w].target \in {"succeeded", "infeasible"} => r.status = "running"
        /\ r.status \in Leased \cup {"queued"}
        /\ wk[w].target \in {"queued", "failed"} => r.status \in Leased
    BY <2>1 DEF Edges, Leased
  <2> QED
    BY <2>1, <2>2, <2>3, <2>4 DEF SerialStep, Recorded
<1> QED
  BY <1>1, <1>2, <1>3, <1>4, <1>5, <1>6, <1>7, <1>8, Writers

-----------------------------------------------------------------------------
(* The retry budget. *)

\* A job is started at most max_attempts times: the only step that counts one
\* more start finds the row queued, and a row is queued, by submit, the retry
\* path or the reaper, only while the budget allows another start.
THEOREM RetriesWithinBudget ==
    ASSUME ~Overlap
    PROVE  Spec => []RetryBudget
<1> DEFINE Inv == \A j \in Jobs : Budgeted(jobs[j])
<1>1. Init => Inv
  BY RailAssumption DEF Init, Budgeted, NoRow
<1>2. TypeOK /\ Sessions /\ Inv /\ [Next]_vars => Inv'
  <2> SUFFICES ASSUME TypeOK, Sessions, Inv, [Next]_vars, NEW j \in Jobs
               PROVE  Budgeted(jobs'[j])
    OBVIOUS
  <2>1. jobs[j] \in Row /\ Budgeted(jobs[j])
    BY DEF TypeOK
  <2>2. SerialStep(j)
    BY SerialSteps
  <2> HIDE DEF Inv
  <2>3. CASE jobs'[j] = jobs[j] \/ jobs'[j] = Aged(jobs[j])
    BY <2>1, <2>3, AgedKeeps DEF Budgeted
  <2>4. CASE \E t \in Tournaments, k \in Keys \cup {None} :
                jobs'[j] = [NoRow EXCEPT !.status = "queued", !.tourn = t, !.key = k]
    BY <2>4, RailAssumption DEF Budgeted, NoRow
  <2>5. CASE /\ jobs[j].status = "queued"
             /\ \E w \in Workers : jobs'[j] = Claim(jobs[j], w)
    BY <2>1, <2>5, RailAssumption DEF Budgeted, Claim, Row
  <2>6. CASE jobs'[j] = Beat(jobs[j])
    BY <2>1, <2>6 DEF Budgeted, Beat, Row
  <2>7. CASE \/ jobs'[j] = CompleteSuccess(jobs[j])
             \/ jobs'[j] = CompleteInfeasible(jobs[j])
    BY <2>1, <2>7 DEF Budgeted, CompleteSuccess, CompleteInfeasible, Row
  <2>8. CASE jobs'[j] = Requeue(jobs[j]) /\ jobs[j].attempts < MaxAttempts
    BY <2>1, <2>8 DEF Budgeted, Requeue, Row
  <2>9. CASE jobs'[j] = GiveUp(jobs[j]) \/ jobs'[j] = CancelRow(jobs[j])
    BY <2>1, <2>9 DEF Budgeted, GiveUp, CancelRow, Row
  <2>10. CASE jobs'[j] = [NoRow EXCEPT !.status = "deleted"]
    BY <2>10, RailAssumption DEF Budgeted, NoRow
  <2> QED
    BY <2>2, <2>3, <2>4, <2>5, <2>6, <2>7, <2>8, <2>9, <2>10 DEF SerialStep
<1>3. Inv => RetryBudget
  BY DEF Budgeted, RetryBudget
<1> QED
  BY <1>1, <1>2, <1>3, TypeCorrect, SessionsAreCurrent, PTL DEF Spec

-----------------------------------------------------------------------------
(* The lease. *)

\* A job is completed, with a schedule or a proof of infeasibility, only by the
\* worker that holds its lease at that moment.
THEOREM HolderCompletes ==
    ASSUME ~Overlap
    PROVE  Spec => OnlyHolderCompletes
<1> DEFINE A == \A j \in Jobs :
                   /\ jobs[j].status # jobs'[j].status
                   /\ jobs'[j].status \in {"succeeded", "infeasible"}
                   => \E w \in Workers : /\ jobs[j].owner = w
                                         /\ jobs[j].status = "running"
                                         /\ wk[w].pc = "outcomeCommit"
                                         /\ wk'[w].pc = "idle"
<1>1. TypeOK /\ Sessions /\ [Next]_vars => A
  <2> SUFFICES ASSUME TypeOK, Sessions, [Next]_vars, NEW j \in Jobs,
                      jobs[j].status # jobs'[j].status,
                      jobs'[j].status \in {"succeeded", "infeasible"}
               PROVE  \E w \in Workers : /\ jobs[j].owner = w
                                         /\ jobs[j].status = "running"
                                         /\ wk[w].pc = "outcomeCommit"
                                         /\ wk'[w].pc = "idle"
    OBVIOUS
  <2>1. jobs[j] \in Row
    BY DEF TypeOK
  <2>2. /\ Aged(jobs[j]).status = jobs[j].status
        /\ \A w \in Workers : Claim(jobs[j], w).status = "running"
        /\ Beat(jobs[j]).status = jobs[j].status
        /\ Requeue(jobs[j]).status = "queued"
        /\ GiveUp(jobs[j]).status = "failed"
        /\ CancelRow(jobs[j]).status = "cancelled"
        /\ [NoRow EXCEPT !.status = "deleted"].status = "deleted"
        /\ \A t \in Tournaments, k \in Keys \cup {None} :
              [NoRow EXCEPT !.status = "queued", !.tourn = t, !.key = k].status
                  = "queued"
    BY <2>1 DEF Aged, Claim, Beat, Requeue, GiveUp, CancelRow, NoRow, Row
  <2>3. SerialStep(j)
    BY SerialSteps
  <2> QED
    BY <2>2, <2>3 DEF SerialStep
<1>2. [Next]_vars /\ TypeOK /\ Sessions => [A]_vars
  BY <1>1
<1> QED
  BY <1>2, TypeCorrect, SessionsAreCurrent, PTL DEF Spec, OnlyHolderCompletes

\* A lease is refreshed only by its holder, so that of a dead worker expires.
THEOREM HolderBeats ==
    ASSUME ~Overlap
    PROVE  Spec => NoGhostBeat
<1> DEFINE A == \A j \in Jobs :
                   /\ jobs'[j].status = "running"
                   /\ jobs[j].hb > 0
                   /\ jobs'[j].hb = 0
                   /\ jobs'[j].owner = jobs[j].owner
                   => \E w \in Workers : /\ jobs[j].owner = w
                                         /\ wk[w].job = j
                                         /\ wk[w].pc = "beatCommit"
<1>1. TypeOK /\ LeaseShape /\ Sessions /\ [Next]_vars => A
  <2> SUFFICES ASSUME TypeOK, LeaseShape, Sessions, [Next]_vars, NEW j \in Jobs,
                      jobs'[j].status = "running",
                      jobs[j].hb > 0,
                      jobs'[j].hb = 0,
                      jobs'[j].owner = jobs[j].owner
               PROVE  \E w \in Workers : /\ jobs[j].owner = w
                                         /\ wk[w].job = j
                                         /\ wk[w].pc = "beatCommit"
    OBVIOUS
  <2>1. jobs[j] \in Row
    BY DEF TypeOK
  <2>2. Aged(jobs[j]).hb # 0
    BY <2>1, RailAssumption DEF Aged, Older, Row, NoTime
  <2>3. jobs[j].status = "queued" =>
           \A w \in Workers : Claim(jobs[j], w).owner # jobs[j].owner
    BY <2>1, RailAssumption DEF LeaseShape, WellLeased, Claim, Row
  <2>4. /\ CompleteSuccess(jobs[j]).status # "running"
        /\ CompleteInfeasible(jobs[j]).status # "running"
        /\ Requeue(jobs[j]).status # "running"
        /\ GiveUp(jobs[j]).status # "running"
        /\ CancelRow(jobs[j]).status # "running"
        /\ [NoRow EXCEPT !.status = "deleted"].status # "running"
        /\ \A t \in Tournaments, k \in Keys \cup {None} :
              [NoRow EXCEPT !.status = "queued", !.tourn = t, !.key = k].status
                  # "running"
    BY <2>1 DEF CompleteSuccess, CompleteInfeasible, Requeue, GiveUp, CancelRow,
                NoRow, Row
  <2>5. SerialStep(j)
    BY SerialSteps
  <2>6. jobs'[j] # jobs[j]
    OBVIOUS
  <2> QED
    BY <2>2, <2>3, <2>4, <2>5, <2>6 DEF SerialStep, HoldsLease
<1>2. [Next]_vars /\ TypeOK /\ LeaseShape /\ Sessions => [A]_vars
  BY <1>1
<1> QED
  BY <1>2, TypeCorrect, LeaseAlwaysReapable, SessionsAreCurrent, PTL
     DEF Spec, NoGhostBeat

-----------------------------------------------------------------------------
(* The rail implements the ledger. *)

\* The standing of a row and its home, by its status.
LEMMA StandingOf ==
    \A r : /\ r.status = "absent" => Standing(r) = "none"
           /\ r.status = "deleted" => Standing(r) = "forgotten"
           /\ r.status \in Active => Standing(r) = "pending"
           /\ r.status \in Terminal => Standing(r) = r.status
BY DEF Standing, Active, Terminal

\* What the ledger sees of a step of one row that is not an insert.
Settled(j) ==
    \/ Standing(jobs'[j]) = Standing(jobs[j]) /\ jobs'[j].tourn = jobs[j].tourn
    \/ /\ Standing(jobs[j]) = "pending"
       /\ Standing(jobs'[j]) \in Terminal
       /\ jobs'[j].tourn = jobs[j].tourn
    \/ /\ Standing(jobs[j]) \in Terminal
       /\ Standing(jobs'[j]) = "forgotten"
       /\ jobs'[j].tourn = None

\* Each step of a row that exists keeps its standing, decides or forgets it.
LEMMA RowSettles ==
    ASSUME TypeOK, Sessions, [Next]_vars, NEW j \in Jobs,
           jobs[j].status = "absent" => jobs'[j] = jobs[j]
    PROVE  Settled(j)
<1>0. jobs[j] \in Row
  BY DEF TypeOK
<1>1. SerialStep(j)
  BY SerialSteps
<1>2. CASE jobs'[j] = jobs[j]
  BY <1>2 DEF Settled
<1>3. CASE jobs'[j] = Aged(jobs[j]) \/ jobs'[j] = Beat(jobs[j])
  <2>1. jobs'[j].status = jobs[j].status /\ jobs'[j].tourn = jobs[j].tourn
    BY <1>0, <1>3, AgedKeeps DEF Beat, Row
  <2> QED
    BY <2>1 DEF Settled, Standing
<1>4. CASE /\ jobs[j].status = "queued"
           /\ \E w \in Workers : jobs'[j] = Claim(jobs[j], w)
  <2>1. jobs'[j].status = "running" /\ jobs'[j].tourn = jobs[j].tourn
    BY <1>0, <1>4 DEF Claim, Row
  <2> QED
    BY <1>4, <2>1, StandingOf DEF Settled, Active
<1>5. CASE jobs'[j] = Requeue(jobs[j]) /\ jobs[j].status \in Leased
  <2>1. jobs'[j].status = "queued" /\ jobs'[j].tourn = jobs[j].tourn
    BY <1>0, <1>5 DEF Requeue, Row
  <2> QED
    BY <1>5, <2>1, StandingOf DEF Settled, Active, Leased
<1>6. CASE /\ jobs[j].status \in Active
           /\ \/ jobs'[j] = CompleteSuccess(jobs[j])
              \/ jobs'[j] = CompleteInfeasible(jobs[j])
              \/ jobs'[j] = GiveUp(jobs[j])
              \/ jobs'[j] = CancelRow(jobs[j])
  <2>1. jobs'[j].status \in Terminal /\ jobs'[j].tourn = jobs[j].tourn
    <3>1. CASE \/ jobs'[j] = CompleteSuccess(jobs[j])
               \/ jobs'[j] = CompleteInfeasible(jobs[j])
      BY <1>0, <3>1 DEF CompleteSuccess, CompleteInfeasible, Row, Terminal
    <3>2. CASE jobs'[j] = GiveUp(jobs[j]) \/ jobs'[j] = CancelRow(jobs[j])
      BY <1>0, <3>2 DEF GiveUp, CancelRow, Row, Terminal
    <3> QED
      BY <1>6, <3>1, <3>2
  <2> QED
    BY <1>6, <2>1, StandingOf DEF Settled
<1>7. CASE /\ jobs'[j] = [NoRow EXCEPT !.status = "deleted"]
           /\ jobs[j].status \in Terminal
  <2>1. jobs'[j].status = "deleted" /\ jobs'[j].tourn = None
    BY <1>7 DEF NoRow
  <2> QED
    BY <1>7, <2>1, StandingOf DEF Settled
<1>8. CASE /\ jobs[j].status = "absent"
           /\ \E t \in Tournaments, k \in Keys \cup {None} :
                 jobs'[j] = [NoRow EXCEPT !.status = "queued", !.tourn = t, !.key = k]
  BY <1>8 DEF Settled
<1> QED
  BY <1>1, <1>2, <1>3, <1>4, <1>5, <1>6, <1>7, <1>8
     DEF SerialStep, Leased, Active

\* An insert is a submission the ledger allows: the active index of the table
\* keeps a second undecided job of the tournament out.
LEMMA InsertSubmits ==
    ASSUME TypeOK, Sessions, NEW c \in Clients, SubmitInsert(c), jobs' # jobs
    PROVE  \E j \in Jobs, t \in Tournaments : Ledger!Submit(j, t)
<1>0. jobs \in [Jobs -> Row]
  BY DEF TypeOK
<1>2. PICK t \in Tournaments : t = cl[c].tourn
  BY DEF Sessions, CurrentRequest, SubmitInsert
<1> DEFINE new == [NoRow EXCEPT !.status = "queued", !.tourn = cl[c].tourn,
                                !.key = cl[c].key]
<1>1. PICK j \in Jobs : /\ jobs[j].status = "absent"
                        /\ jobs' = [jobs EXCEPT ![j] = new]
                        /\ ActiveIndex(jobs')
  BY DEF SubmitInsert
<1>3. new.status = "queued" /\ new.tourn = t
  BY <1>2 DEF NoRow
<1> HIDE DEF new
<1>4. jobs'[j] = new /\ \A i \in Jobs : i # j => jobs'[i] = jobs[i]
  BY <1>0, <1>1
<1>5. Standing(jobs[j]) = "none" /\ Standing(jobs'[j]) = "pending"
  BY <1>1, <1>3, <1>4, StandingOf DEF Active
<1>6. \A i \in Jobs : Standing(jobs[i]) = "pending" => jobs[i].tourn # t
  <2> SUFFICES ASSUME NEW i \in Jobs, Standing(jobs[i]) = "pending"
               PROVE  jobs[i].tourn # t
    OBVIOUS
  <2>1. i # j
    BY <1>5
  <2>2. jobs[i].status \in Active
    BY <1>0 DEF Standing, Row, Live, Terminal
  <2> QED
    BY <1>1, <1>3, <1>4, <2>1, <2>2 DEF ActiveIndex, Active
<1>7. [i \in Jobs |-> Standing(jobs'[i])]
         = [[i \in Jobs |-> Standing(jobs[i])] EXCEPT ![j] = "pending"]
  BY <1>4, <1>5
<1>8. [i \in Jobs |-> jobs'[i].tourn]
         = [[i \in Jobs |-> jobs[i].tourn] EXCEPT ![j] = t]
  BY <1>3, <1>4
<1>9. Ledger!Submit(j, t)
  BY <1>5, <1>6, <1>7, <1>8 DEF Ledger!Submit
<1> QED
  BY <1>9

\* The rail implements the ledger: a tournament has one undecided job at most,
\* a job is decided once, keeps its decision until it is pruned, and only a
\* decided job is pruned.
THEOREM RailImplementsLedger ==
    ASSUME ~Overlap
    PROVE  Spec => LedgerSpec
<1>1. Init => Ledger!Init
  BY StandingOf DEF Init, Ledger!Init, NoRow
<1>2. TypeOK /\ Sessions /\ [Next]_vars
         => [Ledger!Next]_<<[j \in Jobs |-> Standing(jobs[j])],
                            [j \in Jobs |-> jobs[j].tourn]>>
  <2> SUFFICES ASSUME TypeOK, Sessions, [Next]_vars
               PROVE  Ledger!Next \/ UNCHANGED jobs
    OBVIOUS
  <2>1. CASE \E c \in Clients : SubmitInsert(c) /\ jobs' # jobs
    BY <2>1, InsertSubmits DEF Ledger!Next
  <2>2. CASE ~ \E c \in Clients : SubmitInsert(c) /\ jobs' # jobs
    <3>1. \A j \in Jobs : jobs[j].status = "absent" => jobs'[j] = jobs[j]
      <4> SUFFICES ASSUME NEW j \in Jobs, jobs[j].status = "absent"
                   PROVE  jobs'[j] = jobs[j]
        OBVIOUS
      <4>0. jobs \in [Jobs -> Row]
        BY DEF TypeOK
      <4>1. CASE UNCHANGED jobs
        BY <4>1
      <4>2. CASE Tick
        BY <4>0, <4>2 DEF Tick, Aged, Row, Terminal
      <4>3. ASSUME NEW c \in Clients, SubmitInsert(c) \/ CancelCommit(c)
            PROVE  jobs'[j] = jobs[j]
        BY <2>2, <4>0, <4>3 DEF CancelCommit, Exists, Live, Active, Terminal
      <4>4. ASSUME NEW w \in Workers, ReapCommit(w) PROVE jobs'[j] = jobs[j]
        BY <4>4 DEF ReapCommit, Maintained, Exists, Prunable, Live, Active,
                    Terminal
      <4>5. ASSUME NEW w \in Workers,
                   ClaimCommit(w) \/ BeatCommit(w) \/ OutcomeCommit(w)
            PROVE  jobs'[j] = jobs[j]
        BY <4>0, <4>5 DEF ClaimCommit, BeatCommit, OutcomeCommit, Exists, Live,
                          Active, Terminal
      <4> QED
        BY <4>1, <4>2, <4>3, <4>4, <4>5, Writers
    <3>2. \A j \in Jobs : Settled(j)
      BY <3>1, RowSettles
    <3>3. Ledger!Settle
      BY <3>2 DEF Ledger!Settle, Ledger!Decisions, Settled, Terminal
    <3> QED
      BY <3>3 DEF Ledger!Next
  <2> QED
    BY <2>1, <2>2
<1> QED
  BY <1>1, <1>2, TypeCorrect, SessionsAreCurrent, PTL DEF Spec, LedgerSpec,
     Ledger!Spec

\* A cancel is never undone.  With sessions that overlap this fails, and this
\* theorem says that nothing else is to blame.
THEOREM CancelStands ==
    ASSUME ~Overlap
    PROVE  Spec => CancelIsFinal
<1> DEFINE A == \A j \in Jobs : jobs[j].status = "cancelled" =>
                   jobs'[j].status \in {"cancelled", "deleted"}
<1>1. TypeOK /\ Sessions /\ [Next]_vars => A
  <2> SUFFICES ASSUME TypeOK, Sessions, [Next]_vars, NEW j \in Jobs,
                      jobs[j].status = "cancelled"
               PROVE  jobs'[j].status \in {"cancelled", "deleted"}
    OBVIOUS
  <2>1. jobs[j] \in Row
    BY DEF TypeOK
  <2>2. SerialStep(j)
    BY SerialSteps
  <2>3. /\ Aged(jobs[j]).status = "cancelled"
        /\ [NoRow EXCEPT !.status = "deleted"].status = "deleted"
    BY <2>1, AgedKeeps DEF NoRow
  <2> QED
    BY <2>2, <2>3 DEF SerialStep, HoldsLease, Leased, Active
<1>2. [Next]_vars /\ TypeOK /\ Sessions => [A]_vars
  BY <1>1
<1> QED
  BY <1>2, TypeCorrect, SessionsAreCurrent, PTL DEF Spec, CancelIsFinal

=============================================================================
