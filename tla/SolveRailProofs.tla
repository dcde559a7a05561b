-------------------------- MODULE SolveRailProofs --------------------------
(***************************************************************************)
(* Theorems about SolveRail, for every set of workers, clients and         *)
(* tournaments, every table size and every lease, whether or not sessions  *)
(* interleave.                                                             *)
(***************************************************************************)
EXTENDS SolveRail, FiniteSetTheorems, TLAPS

Age(cap) == NoTime..(cap + 1)
Statuses == Live \cup {"absent", "deleted"}

-----------------------------------------------------------------------------
(* The rows and the process records stay well typed. *)

\* The constants the row functions write are values of their columns.
LEMMA RowValues ==
    /\ Live \subseteq Statuses
    /\ {"queued", "running", "succeeded", "infeasible", "failed", "cancelled"}
          \subseteq Live
    /\ {"absent", "deleted"} \subseteq Statuses
    /\ 0 \in Age(Lease) /\ 0 \in Age(Retention)
    /\ NoTime \in Age(Lease) /\ NoTime \in Age(Retention)
    /\ \A x \in Age(Lease) : Older(x, Lease + 1) \in Age(Lease)
    /\ \A x \in Age(Retention) : Older(x, Retention + 1) \in Age(Retention)
BY RailAssumption
   DEF Statuses, Live, Active, Terminal, Age, NoTime, Older

\* A write of one column, to a value of that column, gives a row.
LEMMA RowColumns ==
    \A r \in Row :
        /\ \A x \in Statuses : [r EXCEPT !.status = x] \in Row
        /\ \A x \in Tournaments \cup {None} : [r EXCEPT !.tourn = x] \in Row
        /\ \A x \in Keys \cup {None} : [r EXCEPT !.key = x] \in Row
        /\ \A x \in Nat : [r EXCEPT !.attempts = x] \in Row
        /\ \A x \in Workers \cup {None} : [r EXCEPT !.owner = x] \in Row
        /\ \A x \in Age(Lease) : [r EXCEPT !.hb = x] \in Row
        /\ \A x \in Age(Retention) : [r EXCEPT !.fin = x] \in Row
        /\ \A x \in BOOLEAN : [r EXCEPT !.err = x] \in Row
        /\ \A x \in BOOLEAN : [r EXCEPT !.res = x] \in Row
BY DEF Row, Statuses, Age

\* Each row function of solve_jobs.py maps a row to a row.
LEMMA RowFunctions ==
    \A r \in Row :
        /\ \A w \in Workers : Claim(r, w) \in Row
        /\ Beat(r) \in Row
        /\ CompleteSuccess(r) \in Row
        /\ CompleteInfeasible(r) \in Row
        /\ Requeue(r) \in Row
        /\ GiveUp(r) \in Row
        /\ CancelRow(r) \in Row
        /\ Aged(r) \in Row
<1> SUFFICES ASSUME NEW r \in Row
             PROVE  /\ \A w \in Workers : Claim(r, w) \in Row
                    /\ Beat(r) \in Row
                    /\ CompleteSuccess(r) \in Row
                    /\ CompleteInfeasible(r) \in Row
                    /\ Requeue(r) \in Row
                    /\ GiveUp(r) \in Row
                    /\ CancelRow(r) \in Row
                    /\ Aged(r) \in Row
  OBVIOUS
<1> USE RowValues, RowColumns
<1>1. \A w \in Workers : Claim(r, w) \in Row
  <2>1. r.attempts + 1 \in Nat
    BY DEF Row
  <2> QED
    BY <2>1 DEF Claim
<1>2. Beat(r) \in Row
  BY DEF Beat
<1>3. CompleteSuccess(r) \in Row
  BY DEF CompleteSuccess
<1>4. CompleteInfeasible(r) \in Row
  BY DEF CompleteInfeasible
<1>5. Requeue(r) \in Row
  BY DEF Requeue
<1>6. GiveUp(r) \in Row
  BY DEF GiveUp
<1>7. CancelRow(r) \in Row
  BY DEF CancelRow
<1>8. Aged(r) \in Row
  <2>1. r.hb \in Age(Lease) /\ r.fin \in Age(Retention)
    BY DEF Row, Age
  <2> QED
    BY <2>1 DEF Aged
<1> QED
  BY <1>1, <1>2, <1>3, <1>4, <1>5, <1>6, <1>7, <1>8

\* An empty row is a row, whatever its status is set to.
LEMMA EmptyRow ==
    /\ NoRow \in Row
    /\ [NoRow EXCEPT !.status = "deleted"] \in Row
    /\ \A t \in Tournaments \cup {None}, k \in Keys \cup {None} :
          [NoRow EXCEPT !.status = "queued", !.tourn = t, !.key = k] \in Row
<1>1. NoRow \in Row
  BY RowValues DEF NoRow, Row, Statuses, Age
<1> QED
  BY <1>1, RowValues, RowColumns

\* What _record_outcome writes is a row, and what it aims for is a status.
LEMMA OutcomeRows ==
    /\ \A r \in Row : \A target : Recorded(r, target) \in Row
    /\ \A r, out : OutcomeTarget(r, out) \in Live \cup {"none"}
BY RowFunctions, RowValues DEF Recorded, OutcomeTarget, FailTarget

WorkerPcs ==
    {"idle", "reap", "reapCommit", "claim", "claimCommit", "solve", "beat",
     "beatCommit", "check", "done", "outcomeCommit", "dead"}

\* A write of one field of a worker gives a worker.
LEMMA WorkerFields ==
    \A r \in WorkerState :
        /\ \A x \in WorkerPcs : [r EXCEPT !.pc = x] \in WorkerState
        /\ \A x \in 0..(MaintenanceEvery - 1) :
              [r EXCEPT !.tick = x] \in WorkerState
        /\ \A x \in Jobs \cup {NoJob} : [r EXCEPT !.job = x] \in WorkerState
        /\ \A x \in 0..Ceiling : [r EXCEPT !.rounds = x] \in WorkerState
        /\ \A x \in Outcome : [r EXCEPT !.out = x] \in WorkerState
        /\ \A x \in Live \cup {"none"} : [r EXCEPT !.target = x] \in WorkerState
        /\ \A x \in SUBSET Jobs : [r EXCEPT !.requeue = x] \in WorkerState
        /\ \A x \in SUBSET Jobs : [r EXCEPT !.giveUp = x] \in WorkerState
<1> SUFFICES ASSUME NEW r \in WorkerState
             PROVE  /\ \A x \in WorkerPcs : [r EXCEPT !.pc = x] \in WorkerState
                    /\ \A x \in 0..(MaintenanceEvery - 1) :
                          [r EXCEPT !.tick = x] \in WorkerState
                    /\ \A x \in Jobs \cup {NoJob} :
                          [r EXCEPT !.job = x] \in WorkerState
                    /\ \A x \in 0..Ceiling : [r EXCEPT !.rounds = x] \in WorkerState
                    /\ \A x \in Outcome : [r EXCEPT !.out = x] \in WorkerState
                    /\ \A x \in Live \cup {"none"} :
                          [r EXCEPT !.target = x] \in WorkerState
                    /\ \A x \in SUBSET Jobs : [r EXCEPT !.requeue = x] \in WorkerState
                    /\ \A x \in SUBSET Jobs : [r EXCEPT !.giveUp = x] \in WorkerState
  OBVIOUS
<1>1. \A x \in WorkerPcs : [r EXCEPT !.pc = x] \in WorkerState
  BY DEF WorkerState, WorkerPcs
<1>2. \A x \in 0..(MaintenanceEvery - 1) : [r EXCEPT !.tick = x] \in WorkerState
  BY DEF WorkerState
<1>3. \A x \in Jobs \cup {NoJob} : [r EXCEPT !.job = x] \in WorkerState
  BY DEF WorkerState
<1>4. \A x \in 0..Ceiling : [r EXCEPT !.rounds = x] \in WorkerState
  BY DEF WorkerState
<1>5. \A x \in Outcome : [r EXCEPT !.out = x] \in WorkerState
  BY DEF WorkerState
<1>6. \A x \in Live \cup {"none"} : [r EXCEPT !.target = x] \in WorkerState
  BY DEF WorkerState
<1>7. \A x \in SUBSET Jobs : [r EXCEPT !.requeue = x] \in WorkerState
  BY DEF WorkerState
<1>8. \A x \in SUBSET Jobs : [r EXCEPT !.giveUp = x] \in WorkerState
  BY DEF WorkerState
<1> QED
  BY <1>1, <1>2, <1>3, <1>4, <1>5, <1>6, <1>7, <1>8

\* The values the actions give those fields.
LEMMA WorkerValues ==
    /\ FreshWorker \in WorkerState
    /\ [FreshWorker EXCEPT !.pc = "dead"] \in WorkerState
    /\ \A w \in Workers : wk[w] \in WorkerState => Idle(w) \in WorkerState
    /\ {"ok", "infeasible", "error", "infra", "cancelled"} \subseteq Outcome
    /\ NoJob \in Jobs \cup {NoJob}
    /\ {} \in SUBSET Jobs
    /\ 0 \in 0..Ceiling
<1>1. FreshWorker \in WorkerState
  BY RailAssumption DEF FreshWorker, WorkerState, Outcome, NoJob
<1>2. [FreshWorker EXCEPT !.pc = "dead"] \in WorkerState
  BY <1>1, WorkerFields DEF WorkerPcs
<1>3. \A w \in Workers : wk[w] \in WorkerState => Idle(w) \in WorkerState
  BY <1>1, WorkerFields DEF Idle, WorkerState
<1> QED
  BY <1>1, <1>2, <1>3, RailAssumption DEF Outcome

\* Init establishes the types.
LEMMA InitTyped == Init => TypeOK
<1> SUFFICES ASSUME Init PROVE TypeOK
  OBVIOUS
<1>1. FreshClient \in ClientState
  BY DEF FreshClient, ClientState
<1>2. faults \in 0..MaxFaults
  BY RailAssumption DEF Init
<1> QED
  BY <1>1, <1>2, EmptyRow, WorkerValues DEF Init, TypeOK

\* The API's steps keep the types.
LEMMA ClientTyped ==
    ASSUME TypeOK, NEW c \in Clients,
           \/ \E t \in Tournaments, k \in Keys \cup {None} : SubmitRead(c, t, k)
           \/ \E j \in Jobs : CancelRead(c, j)
           \/ ClientCommit(c)
    PROVE  TypeOK'
<1> FreshClient \in ClientState
  BY DEF FreshClient, ClientState
<1>1. CASE \E t \in Tournaments, k \in Keys \cup {None} : SubmitRead(c, t, k)
  BY <1>1 DEF SubmitRead, TypeOK, ClientState
<1>2. CASE \E j \in Jobs : CancelRead(c, j)
  <2>1. PICK j \in Jobs : CancelRead(c, j)
    BY <1>2
  <2>2. cl[c] \in ClientState
    BY DEF TypeOK
  <2>3. [cl[c] EXCEPT !.pc = "cancelCommit"] \in ClientState
    BY <2>2 DEF ClientState
  <2>4. [[cl[c] EXCEPT !.pc = "cancelCommit"] EXCEPT !.job = j] \in ClientState
    <3> DEFINE r == [cl[c] EXCEPT !.pc = "cancelCommit"]
    <3>1. r \in ClientState
      BY <2>3
    <3> HIDE DEF r
    <3>2. [r EXCEPT !.job = j] \in ClientState
      BY <3>1 DEF ClientState
    <3> QED
      BY <3>2 DEF r
  <2>5. cl'[c] \in ClientState
    BY <2>1, <2>4 DEF CancelRead, TypeOK
  <2> QED
    BY <2>1, <2>5 DEF CancelRead, TypeOK
<1>3. CASE SubmitInsert(c)
  <2>1. cl[c].tourn \in Tournaments \cup {None} /\ cl[c].key \in Keys \cup {None}
    BY DEF TypeOK, ClientState
  <2>2. [NoRow EXCEPT !.status = "queued", !.tourn = cl[c].tourn, !.key = cl[c].key]
           \in Row
    BY <2>1, EmptyRow
  <2>3. jobs' \in [Jobs -> Row]
    <3> DEFINE new == [NoRow EXCEPT !.status = "queued", !.tourn = cl[c].tourn,
                                    !.key = cl[c].key]
    <3>1. new \in Row
      BY <2>2
    <3>2. \E j \in Jobs : jobs' \in {[jobs EXCEPT ![j] = new], jobs}
      BY <1>3 DEF SubmitInsert
    <3>3. jobs \in [Jobs -> Row]
      BY DEF TypeOK
    <3> HIDE DEF new
    <3> QED
      BY <3>1, <3>2, <3>3
  <2> QED
    BY <1>3, <2>3 DEF SubmitInsert, TypeOK
<1>4. CASE CancelCommit(c)
  BY <1>4, RowFunctions DEF CancelCommit, TypeOK
<1> QED
  BY <1>1, <1>2, <1>3, <1>4 DEF ClientCommit

\* The maintenance transaction writes rows.
LEMMA MaintainedTyped ==
    ASSUME TypeOK, NEW w \in Workers
    PROVE  Maintained(w) \in [Jobs -> Row]
BY RowFunctions, EmptyRow DEF Maintained, TypeOK

\* A write of one row, to a row, gives a table.
LEMMA OneRow ==
    ASSUME NEW tab \in [Jobs -> Row], NEW j, NEW r, j \in Jobs => r \in Row
    PROVE  [tab EXCEPT ![j] = r] \in [Jobs -> Row]
OBVIOUS

\* The worker's steps, its failures and the clock keep the types.
LEMMA WorkerTyped ==
    ASSUME TypeOK, NEW w \in Workers, WorkerStep(w) \/ Raises(w) \/ Crash(w)
    PROVE  TypeOK'
<1> USE WorkerFields, WorkerValues
<1>0. /\ wk[w] \in WorkerState
      /\ wk \in [Workers -> WorkerState]
      /\ jobs \in [Jobs -> Row]
      /\ wk[w].job \in Jobs \cup {NoJob}
      /\ wk[w].tick \in 0..(MaintenanceEvery - 1)
      /\ wk[w].rounds \in 0..Ceiling
  BY DEF TypeOK, WorkerState
<1>1. CASE RunOnce(w)
  <2>1. (wk[w].tick + 1) % MaintenanceEvery \in 0..(MaintenanceEvery - 1)
    BY <1>0, RailAssumption
  <2> QED
    BY <1>0, <1>1, <2>1 DEF RunOnce, TypeOK, WorkerPcs
<1>2. CASE ReapRead(w)
  BY <1>0, <1>2 DEF ReapRead, TypeOK, WorkerPcs
<1>3. CASE ReapCommit(w)
  BY <1>0, <1>3, MaintainedTyped DEF ReapCommit, TypeOK, WorkerPcs
<1>4. CASE ClaimRead(w)
  <2>1. \/ wk' = [wk EXCEPT ![w].pc = "idle"]
        \/ \E j \in Jobs : wk' = [wk EXCEPT ![w].pc = "claimCommit", ![w].job = j]
    BY <1>4 DEF ClaimRead
  <2>2. wk' \in [Workers -> WorkerState]
    <3>1. CASE wk' = [wk EXCEPT ![w].pc = "idle"]
      BY <1>0, <3>1 DEF WorkerPcs
    <3>2. CASE \E j \in Jobs :
                  wk' = [wk EXCEPT ![w].pc = "claimCommit", ![w].job = j]
      <4>1. PICK j \in Jobs :
                   wk' = [wk EXCEPT ![w].pc = "claimCommit", ![w].job = j]
        BY <3>2
      <4>2. j \in Jobs \cup {NoJob}
        OBVIOUS
      <4> QED
        BY <1>0, <4>1, <4>2 DEF WorkerPcs
    <3> QED
      BY <2>1, <3>1, <3>2
  <2> QED
    BY <1>4, <2>2 DEF ClaimRead, TypeOK
<1>5. CASE ClaimCommit(w)
  <2>1. jobs' \in [Jobs -> Row]
    BY <1>0, <1>5, RowFunctions, OneRow DEF ClaimCommit
  <2>2. wk' \in [Workers -> WorkerState]
    BY <1>0, <1>5 DEF ClaimCommit, WorkerPcs
  <2> QED
    BY <1>5, <2>1, <2>2 DEF ClaimCommit, TypeOK
<1>6. CASE \E out \in {"ok", "infeasible", "error", "infra"} : ChildExits(w, out)
  <2>1. PICK out \in Outcome : ChildExits(w, out)
    BY <1>6
  <2>2. wk' \in [Workers -> WorkerState]
    BY <1>0, <2>1 DEF ChildExits, WorkerPcs
  <2> QED
    BY <2>1, <2>2 DEF ChildExits, TypeOK
<1>7. CASE Supervise(w)
  BY <1>0, <1>7 DEF Supervise, TypeOK, WorkerPcs
<1>8. CASE BeatRead(w)
  BY <1>0, <1>8 DEF BeatRead, TypeOK, WorkerPcs
<1>9. CASE BeatCommit(w)
  <2>1. jobs' \in [Jobs -> Row]
    BY <1>0, <1>9, RowFunctions, OneRow DEF BeatCommit
  <2>2. wk' \in [Workers -> WorkerState]
    BY <1>0, <1>9 DEF BeatCommit, WorkerPcs
  <2> QED
    BY <1>9, <2>1, <2>2 DEF BeatCommit, TypeOK
<1>10. CASE Check(w)
  <2>1. ~Late(w) => wk[w].rounds + 1 \in 0..Ceiling
    BY <1>0, RailAssumption DEF Late
  <2>2. wk' \in [Workers -> WorkerState]
    BY <1>0, <1>10, <2>1 DEF Check, WorkerPcs
  <2> QED
    BY <1>10, <2>2 DEF Check, TypeOK
<1>11. CASE OutcomeRead(w)
  <2>1. wk' \in [Workers -> WorkerState]
    BY <1>0, <1>11, OutcomeRows DEF OutcomeRead, WorkerPcs, Outcome
  <2> QED
    BY <1>11, <2>1 DEF OutcomeRead, TypeOK
<1>12. CASE OutcomeCommit(w)
  <2>1. jobs' \in [Jobs -> Row]
    BY <1>0, <1>12, OutcomeRows, OneRow DEF OutcomeCommit
  <2> QED
    BY <1>0, <1>12, <2>1 DEF OutcomeCommit, TypeOK
<1>13. CASE Raises(w)
  <2>1. ~Late(w) => wk[w].rounds + 1 \in 0..Ceiling
    BY <1>0, RailAssumption DEF Late
  <2>2. wk' \in [Workers -> WorkerState]
    <3>1. \/ wk' = [wk EXCEPT ![w].pc = "claim", ![w].requeue = {},
                              ![w].giveUp = {}]
          \/ wk' = [wk EXCEPT ![w].pc = "check"]
          \/ /\ ~Late(w)
             /\ wk' = [wk EXCEPT ![w].pc = "solve", ![w].rounds = @ + 1]
          \/ wk' = [wk EXCEPT ![w].pc = "done", ![w].out = "infra"]
          \/ wk' = [wk EXCEPT ![w] = Idle(w)]
      BY <1>13 DEF Raises
    <3>2. CASE wk' = [wk EXCEPT ![w].pc = "claim", ![w].requeue = {},
                                ![w].giveUp = {}]
      BY <1>0, <3>2 DEF WorkerPcs
    <3>3. CASE wk' = [wk EXCEPT ![w].pc = "check"]
      BY <1>0, <3>3 DEF WorkerPcs
    <3>4. CASE /\ ~Late(w)
               /\ wk' = [wk EXCEPT ![w].pc = "solve", ![w].rounds = @ + 1]
      BY <1>0, <2>1, <3>4 DEF WorkerPcs
    <3>5. CASE wk' = [wk EXCEPT ![w].pc = "done", ![w].out = "infra"]
      BY <1>0, <3>5 DEF WorkerPcs
    <3>6. CASE wk' = [wk EXCEPT ![w] = Idle(w)]
      BY <1>0, <3>6
    <3> QED
      BY <3>1, <3>2, <3>3, <3>4, <3>5, <3>6
  <2>3. faults' \in 0..MaxFaults
    BY <1>13, RailAssumption DEF Raises, TypeOK
  <2> QED
    BY <1>13, <2>2, <2>3 DEF Raises, TypeOK
<1>14. CASE Crash(w)
  BY <1>0, <1>14 DEF Crash, TypeOK
<1> QED
  BY <1>1, <1>2, <1>3, <1>4, <1>5, <1>6, <1>7, <1>8, <1>9, <1>10, <1>11,
     <1>12, <1>13, <1>14 DEF WorkerStep

\* Init establishes the types and every step keeps them.
THEOREM TypeCorrect == Spec => []TypeOK
<1>1. TypeOK /\ [Next]_vars => TypeOK'
  <2> SUFFICES ASSUME TypeOK, [Next]_vars PROVE TypeOK'
    OBVIOUS
  <2>1. CASE \E w \in Workers : WorkerStep(w) \/ Raises(w) \/ Crash(w)
    BY <2>1, WorkerTyped
  <2>2. CASE \E c \in Clients :
                \/ \E t \in Tournaments, k \in Keys \cup {None} : SubmitRead(c, t, k)
                \/ \E j \in Jobs : CancelRead(c, j)
                \/ ClientCommit(c)
    BY <2>2, ClientTyped
  <2>3. CASE Tick
    BY <2>3, RowFunctions DEF Tick, TypeOK
  <2>4. CASE UNCHANGED vars
    BY <2>4 DEF vars, TypeOK
  <2> QED
    BY <2>1, <2>2, <2>3, <2>4 DEF Next
<1> QED
  BY InitTyped, <1>1, PTL DEF Spec

-----------------------------------------------------------------------------
(* What one step does to one row. *)

\* Only these steps write the table.
LEMMA Writers ==
    ASSUME [Next]_vars
    PROVE  \/ UNCHANGED jobs
           \/ Tick
           \/ \E c \in Clients : SubmitInsert(c) \/ CancelCommit(c)
           \/ \E w \in Workers : \/ ReapCommit(w) \/ ClaimCommit(w)
                                 \/ BeatCommit(w) \/ OutcomeCommit(w)
<1>1. ASSUME NEW w \in Workers, RunOnce(w) \/ ReapRead(w) \/ ClaimRead(w)
      PROVE  UNCHANGED jobs
  BY <1>1 DEF RunOnce, ReapRead, ClaimRead
<1>2. ASSUME NEW w \in Workers, NEW out, ChildExits(w, out) PROVE UNCHANGED jobs
  BY <1>2 DEF ChildExits
<1>3. ASSUME NEW w \in Workers,
             Supervise(w) \/ BeatRead(w) \/ Check(w) \/ OutcomeRead(w)
      PROVE  UNCHANGED jobs
  BY <1>3 DEF Supervise, BeatRead, Check, OutcomeRead
<1>4. ASSUME NEW w \in Workers, Raises(w) \/ Crash(w) PROVE UNCHANGED jobs
  BY <1>4 DEF Raises, Crash
<1>5. ASSUME NEW c \in Clients, NEW t \in Tournaments,
             NEW k \in Keys \cup {None}, SubmitRead(c, t, k)
      PROVE  UNCHANGED jobs
  BY <1>5 DEF SubmitRead
<1>6. ASSUME NEW c \in Clients, NEW j \in Jobs, CancelRead(c, j)
      PROVE  UNCHANGED jobs
  BY <1>6 DEF CancelRead
<1> QED
  BY <1>1, <1>2, <1>3, <1>4, <1>5, <1>6 DEF Next, vars, WorkerStep, ClientCommit

\* A step leaves a row alone, or applies one of the row functions to it, or
\* inserts it, or deletes it.
RowStep(j) ==
    \/ jobs'[j] = jobs[j]
    \/ \E w \in Workers : jobs[j].status = "queued" /\ jobs'[j] = Claim(jobs[j], w)
    \/ jobs'[j] = Beat(jobs[j])
    \/ jobs'[j] = CompleteSuccess(jobs[j])
    \/ jobs'[j] = CompleteInfeasible(jobs[j])
    \/ jobs'[j] = Requeue(jobs[j])
    \/ jobs'[j] = GiveUp(jobs[j])
    \/ jobs'[j] = CancelRow(jobs[j])
    \/ jobs'[j] = Aged(jobs[j])
    \/ jobs'[j] = [NoRow EXCEPT !.status = "deleted"]
    \/ \E t \in Tournaments \cup {None}, k \in Keys \cup {None} :
          jobs'[j] = [NoRow EXCEPT !.status = "queued", !.tourn = t, !.key = k]

LEMMA RowSteps ==
    ASSUME TypeOK, [Next]_vars, NEW j \in Jobs
    PROVE  RowStep(j)
<1>0. jobs \in [Jobs -> Row]
  BY DEF TypeOK
<1>1. CASE UNCHANGED jobs
  BY <1>1 DEF RowStep
<1>2. ASSUME NEW c \in Clients, SubmitInsert(c) PROVE RowStep(j)
  <2>1. cl[c].tourn \in Tournaments \cup {None} /\ cl[c].key \in Keys \cup {None}
    BY DEF TypeOK, ClientState
  <2>2. \/ jobs' = jobs
        \/ \E i \in Jobs : jobs' = [jobs EXCEPT ![i] =
              [NoRow EXCEPT !.status = "queued", !.tourn = cl[c].tourn,
                            !.key = cl[c].key]]
    BY <1>2 DEF SubmitInsert
  <2>3. \/ jobs'[j] = jobs[j]
        \/ jobs'[j] = [NoRow EXCEPT !.status = "queued", !.tourn = cl[c].tourn,
                                    !.key = cl[c].key]
    BY <1>0, <2>2
  <2> QED
    BY <2>1, <2>3 DEF RowStep
<1>3. ASSUME NEW c \in Clients, CancelCommit(c) PROVE RowStep(j)
  BY <1>0, <1>3 DEF CancelCommit, RowStep
<1>4. ASSUME NEW w \in Workers, ReapCommit(w) PROVE RowStep(j)
  BY <1>0, <1>4 DEF ReapCommit, Maintained, RowStep
<1>5. ASSUME NEW w \in Workers, ClaimCommit(w) PROVE RowStep(j)
  BY <1>0, <1>5 DEF ClaimCommit, RowStep
<1>6. ASSUME NEW w \in Workers, BeatCommit(w) PROVE RowStep(j)
  BY <1>0, <1>6 DEF BeatCommit, RowStep
<1>7. ASSUME NEW w \in Workers, OutcomeCommit(w) PROVE RowStep(j)
  BY <1>0, <1>7 DEF OutcomeCommit, Recorded, RowStep
<1>8. CASE Tick
  BY <1>0, <1>8 DEF Tick, RowStep
<1> QED
  BY <1>1, <1>2, <1>3, <1>4, <1>5, <1>6, <1>7, <1>8, Writers

-----------------------------------------------------------------------------
(* Who moves, and what is written. *)

ClientStep(c) ==
    \/ \E t \in Tournaments, k \in Keys \cup {None} : SubmitRead(c, t, k)
    \/ \E j \in Jobs : CancelRead(c, j)
    \/ ClientCommit(c)

\* A step of a worker changes the record of no other.
LEMMA OthersKept ==
    ASSUME TypeOK, NEW w \in Workers, WorkerStep(w) \/ Raises(w) \/ Crash(w)
    PROVE  \A v \in Workers \ {w} : wk'[v] = wk[v]
<1>0. wk \in [Workers -> WorkerState]
  BY DEF TypeOK
<1>1. ASSUME RunOnce(w) \/ ReapRead(w) \/ ReapCommit(w)
      PROVE  \A v \in Workers \ {w} : wk'[v] = wk[v]
  BY <1>0, <1>1 DEF RunOnce, ReapRead, ReapCommit
<1>2. ASSUME ClaimRead(w) \/ ClaimCommit(w)
      PROVE  \A v \in Workers \ {w} : wk'[v] = wk[v]
  BY <1>0, <1>2 DEF ClaimRead, ClaimCommit
<1>3. ASSUME NEW out, ChildExits(w, out)
      PROVE  \A v \in Workers \ {w} : wk'[v] = wk[v]
  BY <1>0, <1>3 DEF ChildExits
<1>4. ASSUME Supervise(w) \/ BeatRead(w) \/ BeatCommit(w) \/ Check(w)
      PROVE  \A v \in Workers \ {w} : wk'[v] = wk[v]
  BY <1>0, <1>4 DEF Supervise, BeatRead, BeatCommit, Check
<1>5. ASSUME OutcomeRead(w) \/ OutcomeCommit(w)
      PROVE  \A v \in Workers \ {w} : wk'[v] = wk[v]
  BY <1>0, <1>5 DEF OutcomeRead, OutcomeCommit
<1>6. ASSUME Raises(w) \/ Crash(w)
      PROVE  \A v \in Workers \ {w} : wk'[v] = wk[v]
  BY <1>0, <1>6 DEF Raises, Crash
<1> QED
  BY <1>1, <1>2, <1>3, <1>4, <1>5, <1>6 DEF WorkerStep

\* Only the two reads open a session that decides or requeues a job.
LEMMA SessionsOpen ==
    ASSUME TypeOK, NEW w \in Workers, WorkerStep(w) \/ Raises(w) \/ Crash(w),
           ~ReapRead(w), ~OutcomeRead(w)
    PROVE  wk'[w].pc \notin {"reapCommit", "outcomeCommit"}
<1>0. wk \in [Workers -> WorkerState] /\ wk[w] \in WorkerState
  BY DEF TypeOK
<1> USE <1>0 DEF WorkerState
<1>1. CASE RunOnce(w) \/ ReapCommit(w) \/ ClaimRead(w) \/ ClaimCommit(w)
  BY <1>1 DEF RunOnce, ReapCommit, ClaimRead, ClaimCommit
<1>2. CASE \/ \E out \in {"ok", "infeasible", "error", "infra"} :
                 ChildExits(w, out)
           \/ Supervise(w) \/ BeatRead(w) \/ BeatCommit(w)
  BY <1>2 DEF ChildExits, Supervise, BeatRead, BeatCommit
<1>3. CASE Check(w)
  BY <1>3 DEF Check
<1>4. CASE OutcomeCommit(w)
  BY <1>4 DEF OutcomeCommit, Idle, FreshWorker
<1>5. CASE Raises(w)
  BY <1>5 DEF Raises, Idle, FreshWorker
<1>6. CASE Crash(w)
  BY <1>6 DEF Crash, FreshWorker
<1> QED
  BY <1>1, <1>2, <1>3, <1>4, <1>5, <1>6 DEF WorkerStep

\* A worker whose record changes has taken a step of its own.
LEMMA WorkerMoves ==
    ASSUME TypeOK, [Next]_vars, NEW w \in Workers, wk'[w] # wk[w]
    PROVE  WorkerStep(w) \/ Raises(w) \/ Crash(w)
<1>1. ASSUME NEW v \in Workers, v # w, WorkerStep(v) \/ Raises(v) \/ Crash(v)
      PROVE  wk'[w] = wk[w]
  BY <1>1, OthersKept
<1>2. ASSUME NEW c \in Clients, ClientStep(c) PROVE wk' = wk
  BY <1>2 DEF ClientStep, ClientCommit, SubmitRead, CancelRead, SubmitInsert,
              CancelCommit
<1>3. CASE Tick
  BY <1>3 DEF Tick
<1>4. CASE UNCHANGED vars
  BY <1>4 DEF vars
<1> QED
  BY <1>1, <1>2, <1>3, <1>4 DEF Next, ClientStep

\* The same for an API thread.
LEMMA ClientMoves ==
    ASSUME TypeOK, [Next]_vars, NEW c \in Clients, cl'[c] # cl[c]
    PROVE  ClientStep(c)
<1>0. cl \in [Clients -> ClientState]
  BY DEF TypeOK
<1>1. ASSUME NEW d \in Clients, d # c, ClientStep(d) PROVE cl'[c] = cl[c]
  <2>1. \E r : cl' = [cl EXCEPT ![d] = r]
    BY <1>0, <1>1 DEF ClientStep, ClientCommit, SubmitRead, CancelRead,
                      SubmitInsert, CancelCommit
  <2> QED
    BY <1>0, <1>1, <2>1
<1>2. ASSUME NEW w \in Workers, WorkerStep(w) \/ Raises(w) \/ Crash(w)
      PROVE  cl' = cl
  BY <1>2
     DEF WorkerStep, Raises, Crash, RunOnce, ReapRead, ReapCommit, ClaimRead,
         ClaimCommit, ChildExits, Supervise, BeatRead, BeatCommit, Check,
         OutcomeRead, OutcomeCommit
<1>3. CASE Tick
  BY <1>3 DEF Tick
<1>4. CASE UNCHANGED vars
  BY <1>4 DEF vars
<1> QED
  BY <1>1, <1>2, <1>3, <1>4 DEF Next, ClientStep

-----------------------------------------------------------------------------
(* The lease of a running job can always be expired. *)

\* Every row function gives a well-leased row from a well-leased one.
LEMMA WellLeasedStep ==
    ASSUME TypeOK, [Next]_vars, NEW j \in Jobs, WellLeased(jobs[j])
    PROVE  WellLeased(jobs'[j])
<1>1. jobs[j] \in Row
  BY DEF TypeOK
<1> USE <1>1, RailAssumption DEF WellLeased, Row, NoTime
<1>2. CASE jobs'[j] = jobs[j]
  BY <1>2
<1>3. CASE \E w \in Workers : jobs'[j] = Claim(jobs[j], w)
  BY <1>3 DEF Claim
<1>4. CASE jobs'[j] = Beat(jobs[j])
  BY <1>4 DEF Beat
<1>5. CASE jobs'[j] = CompleteSuccess(jobs[j])
  BY <1>5 DEF CompleteSuccess
<1>6. CASE jobs'[j] = CompleteInfeasible(jobs[j])
  BY <1>6 DEF CompleteInfeasible
<1>7. CASE jobs'[j] = Requeue(jobs[j])
  BY <1>7 DEF Requeue
<1>8. CASE jobs'[j] = GiveUp(jobs[j])
  BY <1>8 DEF GiveUp
<1>9. CASE jobs'[j] = CancelRow(jobs[j])
  BY <1>9 DEF CancelRow
<1>10. CASE jobs'[j] = Aged(jobs[j])
  BY <1>10 DEF Aged, Older
<1>11. CASE jobs'[j] = [NoRow EXCEPT !.status = "deleted"]
  BY <1>11 DEF NoRow
<1>12. CASE \E t \in Tournaments \cup {None}, k \in Keys \cup {None} :
               jobs'[j] = [NoRow EXCEPT !.status = "queued", !.tourn = t, !.key = k]
  BY <1>12 DEF NoRow
<1> QED
  BY <1>2, <1>3, <1>4, <1>5, <1>6, <1>7, <1>8, <1>9, <1>10, <1>11, <1>12,
     RowSteps DEF RowStep

\* A running job has an owner and a heartbeat the reaper can compare, and a
\* queued job has no owner, also when sessions interleave: no stale commit
\* leaves a job that neither a worker nor the reaper would ever touch.
THEOREM LeaseAlwaysReapable == Spec => []LeaseShape
<1>1. Init => LeaseShape
  BY DEF Init, LeaseShape, WellLeased, NoRow
<1>2. TypeOK /\ LeaseShape /\ [Next]_vars => LeaseShape'
  BY WellLeasedStep DEF LeaseShape
<1> QED
  BY <1>1, <1>2, TypeCorrect, PTL DEF Spec

-----------------------------------------------------------------------------
(* Decisions carry what goes with them. *)

\* Job j was started, or is gone.
Started(j) == jobs[j].attempts > 0 \/ jobs[j].status = "deleted"

\* The open session of worker w will decide or requeue job j.
InHand(w, j) ==
    \/ wk[w].pc = "reapCommit" /\ j \in wk[w].requeue \cup wk[w].giveUp
    \/ wk[w].pc = "outcomeCommit" /\ wk[w].job = j

\* The decision that is on the row is backed, and so is the one that a session
\* may still write over it.
BackedThrough(j) ==
    /\ Backed(jobs[j])
    /\ jobs[j].status \in {"claimed", "running"} => jobs[j].attempts > 0
    /\ jobs[j].status = "absent" => jobs[j].attempts = 0
    /\ \A w \in Workers : InHand(w, j) => Started(j)

\* What a row must satisfy after a step.
RowBacked(j) ==
    /\ Backed(jobs'[j])
    /\ jobs'[j].status \in {"claimed", "running"} => jobs'[j].attempts > 0
    /\ jobs'[j].status = "absent" => jobs'[j].attempts = 0
    /\ (Started(j) /\ jobs[j].status # "absent") => Started(j)'

\* The reaper and the completion write to rows that exist and were started.
LEMMA WorkerWrites ==
    ASSUME TypeOK, NEW j \in Jobs, BackedThrough(j), NEW w \in Workers,
           ReapCommit(w) \/ OutcomeCommit(w)
    PROVE  \/ jobs'[j] = jobs[j]
           \/ jobs'[j] = [NoRow EXCEPT !.status = "deleted"]
           \/ /\ jobs[j].attempts > 0
              /\ \/ jobs'[j] = CompleteSuccess(jobs[j])
                 \/ jobs'[j] = CompleteInfeasible(jobs[j])
                 \/ jobs'[j] = Requeue(jobs[j])
                 \/ jobs'[j] = GiveUp(jobs[j])
<1>0. jobs \in [Jobs -> Row] /\ wk[w].job \in Jobs \cup {NoJob}
  BY DEF TypeOK, WorkerState
<1>1. InHand(w, j) /\ Exists(j) => jobs[j].attempts > 0
  BY DEF BackedThrough, Started, Exists, Live, Active, Terminal
<1>2. CASE ReapCommit(w)
  BY <1>0, <1>1, <1>2 DEF ReapCommit, Maintained, InHand
<1>3. CASE OutcomeCommit(w)
  <2>1. \/ jobs'[j] = jobs[j]
        \/ /\ wk[w].pc = "outcomeCommit" /\ wk[w].job = j /\ Exists(j)
           /\ jobs'[j] = Recorded(jobs[j], wk[w].target)
    BY <1>0, <1>3 DEF OutcomeCommit
  <2> QED
    BY <1>1, <2>1 DEF Recorded, InHand
<1> QED
  BY <1>2, <1>3

\* A step leaves the row backed, and a started job started.
LEMMA RowsBacked ==
    ASSUME TypeOK, [Next]_vars, NEW j \in Jobs, BackedThrough(j)
    PROVE  RowBacked(j)
<1>0. jobs \in [Jobs -> Row] /\ jobs[j] \in Row /\ jobs[j].attempts \in Nat
  BY DEF TypeOK, Row
<1>1. ASSUME NEW c \in Clients, SubmitInsert(c)
      PROVE  \/ jobs'[j] = jobs[j]
             \/ jobs[j].status = "absent" /\ jobs'[j].status = "queued"
  <2> DEFINE new == [NoRow EXCEPT !.status = "queued", !.tourn = cl[c].tourn,
                                  !.key = cl[c].key]
  <2>1. new.status = "queued"
    BY DEF NoRow
  <2>2. \/ jobs' = jobs
        \/ \E i \in Jobs : /\ jobs[i].status = "absent"
                           /\ jobs' = [jobs EXCEPT ![i] = new]
    BY <1>1 DEF SubmitInsert
  <2> HIDE DEF new
  <2> QED
    BY <1>0, <2>1, <2>2
<1>2. ASSUME NEW c \in Clients, CancelCommit(c)
      PROVE  \/ jobs'[j] = jobs[j]
             \/ Exists(j) /\ jobs'[j] = CancelRow(jobs[j])
  BY <1>0, <1>2 DEF CancelCommit, Exists
<1>3. ASSUME NEW w \in Workers, ClaimCommit(w)
      PROVE  \/ jobs'[j] = jobs[j]
             \/ jobs[j].status = "queued" /\ jobs'[j] = Claim(jobs[j], w)
  BY <1>0, <1>3 DEF ClaimCommit
<1>4. ASSUME NEW w \in Workers, BeatCommit(w)
      PROVE  jobs'[j] = jobs[j] \/ jobs'[j] = Beat(jobs[j])
  BY <1>0, <1>4 DEF BeatCommit
<1>5. ASSUME Tick PROVE jobs'[j] = Aged(jobs[j])
  BY <1>0, <1>5 DEF Tick
<1> USE DEF RowBacked, BackedThrough, Backed, Started, Row, NoTime, Terminal
<1>6. CASE jobs'[j] = jobs[j]
  BY <1>6
<1>7. CASE jobs[j].attempts > 0 /\ jobs'[j] = CompleteSuccess(jobs[j])
  BY <1>0, <1>7 DEF CompleteSuccess
<1>8. CASE jobs[j].attempts > 0 /\ jobs'[j] = CompleteInfeasible(jobs[j])
  BY <1>0, <1>8 DEF CompleteInfeasible
<1>9. CASE jobs[j].attempts > 0 /\ jobs'[j] = Requeue(jobs[j])
  BY <1>0, <1>9 DEF Requeue
<1>10. CASE jobs[j].attempts > 0 /\ jobs'[j] = GiveUp(jobs[j])
  BY <1>0, <1>10 DEF GiveUp
<1>11. CASE jobs'[j] = [NoRow EXCEPT !.status = "deleted"]
  BY <1>11 DEF NoRow
<1>12. CASE jobs[j].status = "absent" /\ jobs'[j].status = "queued"
  BY <1>12
<1>13. CASE Exists(j) /\ jobs'[j] = CancelRow(jobs[j])
  BY <1>0, <1>13 DEF CancelRow, Exists, Live, Active
<1>14. ASSUME NEW w \in Workers, jobs[j].status = "queued",
              jobs'[j] = Claim(jobs[j], w)
       PROVE  RowBacked(j)
  <2>1. /\ jobs'[j].status = "running"
        /\ jobs'[j].attempts = jobs[j].attempts + 1
    BY <1>0, <1>14 DEF Claim
  <2> QED
    BY <1>0, <2>1
<1>15. CASE jobs'[j] = Beat(jobs[j])
  BY <1>0, <1>15 DEF Beat
<1>16. CASE jobs'[j] = Aged(jobs[j])
  BY <1>0, <1>16, RailAssumption DEF Aged, Older
<1> HIDE DEF RowBacked, BackedThrough, Backed, Started, Row, NoTime, Terminal
<1> QED
  BY <1>1, <1>2, <1>3, <1>4, <1>5, <1>6, <1>7, <1>8, <1>9, <1>10, <1>11, <1>12,
     <1>13, <1>14, <1>15, <1>16, Writers, WorkerWrites

\* A session takes a job in hand when it reads it under a lease.
LEMMA TakesInHand ==
    ASSUME TypeOK, [Next]_vars, NEW j \in Jobs, NEW w \in Workers, InHand(w, j)'
    PROVE  \/ InHand(w, j)
           \/ jobs' = jobs /\ jobs[j].status \in {"claimed", "running"}
<1>0. wk \in [Workers -> WorkerState] /\ wk[w] \in WorkerState
  BY DEF TypeOK
<1>1. CASE wk'[w] = wk[w]
  BY <1>1 DEF InHand
<1>2. CASE ReapRead(w)
  <2>1. /\ jobs' = jobs /\ wk'[w].pc = "reapCommit"
        /\ j \in wk'[w].requeue \cup wk'[w].giveUp =>
              jobs[j].status \in {"claimed", "running"}
    BY <1>0, <1>2 DEF ReapRead, WorkerState
  <2> QED
    BY <2>1 DEF InHand
<1>3. CASE OutcomeRead(w)
  <2>1. jobs' = jobs /\ wk'[w].pc \in {"outcomeCommit", "idle"}
    BY <1>0, <1>3 DEF OutcomeRead, Idle, FreshWorker, WorkerState
  <2>2. wk'[w].pc = "outcomeCommit" /\ wk'[w].job = j
    BY <2>1 DEF InHand
  <2>3. Records(w, jobs[wk[w].job]) /\ wk[w].job = j
    BY <1>0, <1>3, <2>2 DEF OutcomeRead, Idle, FreshWorker, WorkerState
  <2>4. <<jobs[j].status, OutcomeTarget(jobs[j], wk[w].out)>> \in Edges
    BY <2>3 DEF Records
  <2>5. OutcomeTarget(jobs[j], wk[w].out)
           \in {"succeeded", "infeasible", "queued", "failed", "none"}
    BY DEF OutcomeTarget, FailTarget
  <2> QED
    BY <2>1, <2>4, <2>5 DEF Edges
<1>4. CASE wk'[w] # wk[w] /\ ~ReapRead(w) /\ ~OutcomeRead(w)
  <2>1. WorkerStep(w) \/ Raises(w) \/ Crash(w)
    BY <1>4, WorkerMoves
  <2>2. wk'[w].pc \notin {"reapCommit", "outcomeCommit"}
    BY <1>4, <2>1, SessionsOpen
  <2> QED
    BY <2>2 DEF InHand
<1> QED
  BY <1>1, <1>2, <1>3, <1>4

\* However sessions interleave and whichever write comes last, a decided job has
\* its finish time and its result or error, and was started unless it was
\* cancelled: a session that will write a decision read the job under a lease,
\* and no step takes a start back.
THEOREM DecisionsAlwaysBacked == Spec => []DecisionsBacked
<1> DEFINE Inv == \A j \in Jobs : BackedThrough(j)
<1>1. Init => Inv
  BY DEF Init, BackedThrough, Backed, InHand, NoRow, FreshWorker, Terminal
<1>2. TypeOK /\ Inv /\ [Next]_vars => Inv'
  <2> SUFFICES ASSUME TypeOK, Inv, [Next]_vars, NEW j \in Jobs
               PROVE  BackedThrough(j)'
    OBVIOUS
  <2>1. BackedThrough(j) /\ RowBacked(j)
    BY RowsBacked
  <2>2. ASSUME NEW w \in Workers, InHand(w, j)' PROVE Started(j)'
    <3>0. jobs[j].attempts \in Nat
      BY DEF TypeOK, Row
    <3>1. Started(j) /\ jobs[j].status # "absent"
      BY <2>1, <2>2, <3>0, TakesInHand DEF BackedThrough, Started
    <3> QED
      BY <2>1, <3>1 DEF RowBacked
  <2> QED
    BY <2>1, <2>2 DEF BackedThrough, RowBacked
<1>3. Inv => DecisionsBacked
  BY DEF BackedThrough, DecisionsBacked
<1> QED
  BY <1>1, <1>2, <1>3, TypeCorrect, PTL DEF Spec

-----------------------------------------------------------------------------
(* How far stale sessions can exceed the retry budget. *)

\* The workers whose open session will put job j back in the queue, whatever
\* has become of it since they read it.
Requeuers(j) ==
    {w \in Workers : \/ wk[w].pc = "reapCommit" /\ j \in wk[w].requeue
                     \/ /\ wk[w].pc = "outcomeCommit" /\ wk[w].job = j
                        /\ wk[w].target = "queued"}

Waiting(j) == IF jobs[j].status = "queued" THEN 1 ELSE 0

\* Every start of a job uses up its place in the queue, every place in the queue
\* after the first uses up a session that requeues it, and such a session opens
\* only while the budget is not used up.
StartsCovered(j) ==
    /\ jobs[j].status = "absent" => Requeuers(j) = {}
    /\ jobs[j].attempts + Waiting(j) + Cardinality(Requeuers(j))
          <= MaxAttempts + Cardinality(Workers) - 1

\* The sum only falls when no worker joins the requeuers and the starts and the
\* place in the queue do not grow.
LEMMA FewerRequeuers ==
    ASSUME IsFiniteSet(Workers), TypeOK, TypeOK', NEW j \in Jobs,
           StartsCovered(j),
           Requeuers(j)' \subseteq Requeuers(j),
           jobs'[j].status = "absent" => jobs[j].status = "absent",
           jobs'[j].attempts + Waiting(j)' <= jobs[j].attempts + Waiting(j)
    PROVE  StartsCovered(j)'
<1>1. jobs[j].attempts \in Nat /\ jobs'[j].attempts \in Nat
  BY DEF TypeOK, Row
<1>2. Waiting(j) \in Nat /\ Waiting(j)' \in Nat
  BY DEF Waiting
<1>3. IsFiniteSet(Requeuers(j))
  BY FS_Subset DEF Requeuers
<1>4. /\ Cardinality(Requeuers(j)) \in Nat
      /\ Cardinality(Requeuers(j)') \in Nat
      /\ Cardinality(Requeuers(j)') <= Cardinality(Requeuers(j))
  BY <1>3, FS_Subset, FS_CardinalityType
<1>5. Cardinality(Workers) \in Nat /\ MaxAttempts \in Nat
  BY FS_CardinalityType, RailAssumption
<1> HIDE DEF Waiting, Requeuers
<1> QED
  BY <1>1, <1>2, <1>4, <1>5 DEF StartsCovered

\* A worker that stops being one of the requeuers pays for the place in the queue.
LEMMA RequeuerLeaves ==
    ASSUME IsFiniteSet(Workers), TypeOK, TypeOK', NEW j \in Jobs,
           StartsCovered(j), NEW w \in Requeuers(j),
           Requeuers(j)' \subseteq Requeuers(j) \ {w},
           jobs'[j].status # "absent",
           jobs'[j].attempts = jobs[j].attempts
    PROVE  StartsCovered(j)'
<1>1. jobs[j].attempts \in Nat
  BY DEF TypeOK, Row
<1>2. Waiting(j) \in 0..1 /\ Waiting(j)' \in 0..1
  BY DEF Waiting
<1>3. IsFiniteSet(Requeuers(j))
  BY FS_Subset DEF Requeuers
<1>4. /\ IsFiniteSet(Requeuers(j) \ {w})
      /\ Cardinality(Requeuers(j) \ {w}) = Cardinality(Requeuers(j)) - 1
  BY <1>3, FS_RemoveElement
<1>5. /\ Cardinality(Requeuers(j)) \in Nat
      /\ Cardinality(Requeuers(j)') \in Nat
      /\ Cardinality(Requeuers(j)') <= Cardinality(Requeuers(j)) - 1
  BY <1>3, <1>4, FS_Subset, FS_CardinalityType
<1>6. Cardinality(Workers) \in Nat /\ MaxAttempts \in Nat
  BY FS_CardinalityType, RailAssumption
<1> HIDE DEF Waiting, Requeuers
<1> QED
  BY <1>1, <1>2, <1>5, <1>6 DEF StartsCovered

\* A worker joins the requeuers of a job it read as leased and within the budget.
LEMMA RequeuerJoins ==
    ASSUME IsFiniteSet(Workers), TypeOK, TypeOK', NEW j \in Jobs,
           jobs'[j].status \in {"claimed", "running"},
           jobs'[j].attempts < MaxAttempts
    PROVE  StartsCovered(j)'
<1>1. jobs'[j].attempts \in Nat
  BY DEF TypeOK, Row
<1>2. Waiting(j)' = 0
  BY DEF Waiting
<1>3. /\ Cardinality(Requeuers(j)') \in Nat
      /\ Cardinality(Requeuers(j)') <= Cardinality(Workers)
  <2>1. Requeuers(j)' \subseteq Workers
    BY DEF Requeuers
  <2> QED
    BY <2>1, FS_Subset, FS_CardinalityType
<1>4. Cardinality(Workers) \in Nat /\ MaxAttempts \in Nat
  BY FS_CardinalityType, RailAssumption
<1> HIDE DEF Waiting, Requeuers
<1> QED
  BY <1>1, <1>2, <1>3, <1>4 DEF StartsCovered

\* A worker whose record is kept, or whose session is over, is no new requeuer.
LEMMA NoNewRequeuer ==
    ASSUME TypeOK, NEW j \in Jobs, NEW w \in Workers,
           \A v \in Workers \ {w} : wk'[v] = wk[v],
           wk'[w].pc \notin {"reapCommit", "outcomeCommit"}
    PROVE  Requeuers(j)' \subseteq Requeuers(j) \ {w}
BY DEF Requeuers

\* The steps of the API threads and of the clock.
LEMMA ClientsCovered ==
    ASSUME IsFiniteSet(Workers), Workers # {}, TypeOK, TypeOK', NEW j \in Jobs,
           StartsCovered(j),
           \/ \E c \in Clients : ClientStep(c)
           \/ Tick
           \/ UNCHANGED vars
    PROVE  StartsCovered(j)'
<1>0. jobs \in [Jobs -> Row] /\ jobs[j] \in Row
  BY DEF TypeOK
<1>1. wk' = wk
  BY DEF ClientStep, ClientCommit, SubmitRead, CancelRead, SubmitInsert,
         CancelCommit, Tick, vars
<1>2. Requeuers(j)' = Requeuers(j)
  BY <1>1 DEF Requeuers
<1>3. CASE jobs'[j] = jobs[j]
  BY <1>2, <1>3, FewerRequeuers DEF Waiting, TypeOK, Row
<1>4. CASE jobs'[j] = Aged(jobs[j])
  <2>1. jobs'[j].status = jobs[j].status /\ jobs'[j].attempts = jobs[j].attempts
    BY <1>0, <1>4 DEF Aged, Row
  <2> QED
    BY <1>0, <1>2, <2>1, FewerRequeuers DEF Waiting, Row
<1>5. CASE jobs'[j] = CancelRow(jobs[j])
  <2>1. jobs'[j].status = "cancelled" /\ jobs'[j].attempts = jobs[j].attempts
    BY <1>0, <1>5 DEF CancelRow, Row
  <2> QED
    BY <1>0, <1>2, <2>1, FewerRequeuers DEF Waiting, Row
<1>6. CASE /\ jobs[j].status = "absent"
           /\ jobs'[j].status = "queued"
           /\ jobs'[j].attempts = 0
  <2>1. Requeuers(j)' = {}
    BY <1>2, <1>6 DEF StartsCovered
  <2>2. Cardinality(Requeuers(j)') = 0
    BY <2>1, FS_EmptySet
  <2>3. Cardinality(Workers) \in Nat /\ Cardinality(Workers) # 0
    BY FS_EmptySet, FS_CardinalityType
  <2>4. Waiting(j)' = 1
    BY <1>6 DEF Waiting
  <2> QED
    BY <1>6, <2>1, <2>2, <2>3, <2>4, RailAssumption DEF StartsCovered
<1>7. \/ jobs'[j] = jobs[j]
      \/ jobs'[j] = Aged(jobs[j])
      \/ jobs'[j] = CancelRow(jobs[j])
      \/ /\ jobs[j].status = "absent"
         /\ jobs'[j].status = "queued"
         /\ jobs'[j].attempts = 0
  <2>1. ASSUME NEW c \in Clients, SubmitInsert(c)
        PROVE  \/ jobs'[j] = jobs[j]
               \/ /\ jobs[j].status = "absent"
                  /\ jobs'[j].status = "queued"
                  /\ jobs'[j].attempts = 0
    <3> DEFINE new == [NoRow EXCEPT !.status = "queued", !.tourn = cl[c].tourn,
                                    !.key = cl[c].key]
    <3>1. new.status = "queued" /\ new.attempts = 0
      BY DEF NoRow
    <3>2. \/ jobs' = jobs
          \/ \E i \in Jobs : /\ jobs[i].status = "absent"
                             /\ jobs' = [jobs EXCEPT ![i] = new]
      BY <2>1 DEF SubmitInsert
    <3> HIDE DEF new
    <3> QED
      BY <1>0, <3>1, <3>2
  <2>2. ASSUME NEW c \in Clients, CancelCommit(c)
        PROVE  jobs'[j] = jobs[j] \/ jobs'[j] = CancelRow(jobs[j])
    BY <1>0, <2>2 DEF CancelCommit
  <2>3. CASE Tick
    BY <1>0, <2>3 DEF Tick
  <2> QED
    BY <2>1, <2>2, <2>3
       DEF ClientStep, ClientCommit, SubmitRead, CancelRead, vars
<1> QED
  BY <1>3, <1>4, <1>5, <1>6, <1>7

\* The steps of the workers.
LEMMA WorkersCovered ==
    ASSUME IsFiniteSet(Workers), TypeOK, TypeOK', NEW j \in Jobs,
           StartsCovered(j), NEW w \in Workers,
           WorkerStep(w) \/ Raises(w) \/ Crash(w)
    PROVE  StartsCovered(j)'
<1>0. /\ jobs \in [Jobs -> Row] /\ jobs[j] \in Row
      /\ wk \in [Workers -> WorkerState] /\ wk[w] \in WorkerState
      /\ jobs[j].attempts \in Nat
  BY DEF TypeOK, Row
<1>1. \A v \in Workers \ {w} : wk'[v] = wk[v]
  BY OthersKept
<1>2. CASE ReapRead(w)
  <2>1. /\ jobs' = jobs
        /\ wk'[w].pc = "reapCommit"
        /\ j \in wk'[w].requeue =>
              /\ jobs[j].status \in {"claimed", "running"}
              /\ FailTarget(jobs[j], TRUE) = "queued"
    BY <1>0, <1>2 DEF ReapRead, WorkerState
  <2>2. CASE j \in wk'[w].requeue
    BY <2>1, <2>2, RequeuerJoins DEF FailTarget
  <2>3. CASE j \notin wk'[w].requeue
    <3>1. Requeuers(j)' \subseteq Requeuers(j)
      BY <1>1, <2>1, <2>3 DEF Requeuers
    <3> QED
      BY <1>0, <2>1, <3>1, FewerRequeuers DEF Waiting
  <2> QED
    BY <2>2, <2>3
<1>3. CASE OutcomeRead(w)
  <2>1. jobs' = jobs
    BY <1>3 DEF OutcomeRead
  <2>2. CASE w \in Requeuers(j)'
    <3>1. wk'[w].pc = "outcomeCommit" \/ wk'[w].pc = "idle"
      BY <1>0, <1>3 DEF OutcomeRead, Idle, FreshWorker, WorkerState
    <3>2. wk'[w].pc = "outcomeCommit" /\ wk'[w].job = j /\ wk'[w].target = "queued"
      BY <2>2, <3>1 DEF Requeuers
    <3>3. Records(w, jobs[wk[w].job])
      BY <1>0, <1>3, <3>2 DEF OutcomeRead, Idle, FreshWorker
    <3>4. wk[w].job = j /\ OutcomeTarget(jobs[j], wk[w].out) = "queued"
      BY <1>0, <1>3, <3>2, <3>3 DEF OutcomeRead, WorkerState
    <3>5. jobs[j].status \in {"claimed", "running"}
      BY <3>3, <3>4 DEF Records, Edges
    <3>6. jobs[j].attempts < MaxAttempts
      BY <3>4 DEF OutcomeTarget, FailTarget
    <3> QED
      BY <2>1, <3>5, <3>6, RequeuerJoins
  <2>3. CASE w \notin Requeuers(j)'
    <3>1. Requeuers(j)' \subseteq Requeuers(j)
      BY <1>1, <2>3 DEF Requeuers
    <3> QED
      BY <1>0, <2>1, <3>1, FewerRequeuers DEF Waiting
  <2> QED
    BY <2>2, <2>3
<1>4. CASE ~ReapRead(w) /\ ~OutcomeRead(w)
  <2>1. wk'[w].pc \notin {"reapCommit", "outcomeCommit"}
    BY <1>4, SessionsOpen
  <2>2. Requeuers(j)' \subseteq Requeuers(j) \ {w}
    BY <1>1, <2>1, NoNewRequeuer
  <2>3. CASE jobs'[j] = jobs[j]
    BY <1>0, <2>2, <2>3, FewerRequeuers DEF Waiting
  <2>4. CASE w \in Requeuers(j) /\ jobs'[j] = Requeue(jobs[j])
    <3>1. jobs'[j].status = "queued" /\ jobs'[j].attempts = jobs[j].attempts
      BY <1>0, <2>4 DEF Requeue, Row
    <3> QED
      BY <2>2, <2>4, <3>1, RequeuerLeaves
  <2>5. CASE jobs[j].status = "queued" /\ jobs'[j] = Claim(jobs[j], w)
    <3>1. jobs'[j].status = "running" /\ jobs'[j].attempts = jobs[j].attempts + 1
      BY <1>0, <2>5 DEF Claim, Row
    <3>2. Waiting(j) = 1 /\ Waiting(j)' = 0
      BY <2>5, <3>1 DEF Waiting
    <3> QED
      BY <1>0, <2>2, <3>1, <3>2, FewerRequeuers
  <2>6. CASE jobs'[j] = Beat(jobs[j])
    <3>1. jobs'[j].status = jobs[j].status /\ jobs'[j].attempts = jobs[j].attempts
      BY <1>0, <2>6 DEF Beat, Row
    <3> QED
      BY <1>0, <2>2, <3>1, FewerRequeuers DEF Waiting
  <2>7. CASE \/ jobs'[j] = CompleteSuccess(jobs[j])
             \/ jobs'[j] = CompleteInfeasible(jobs[j])
             \/ jobs'[j] = GiveUp(jobs[j])
    <3>1. /\ jobs'[j].status \in Terminal
          /\ jobs'[j].attempts = jobs[j].attempts
      BY <1>0, <2>7 DEF CompleteSuccess, CompleteInfeasible, GiveUp, Row, Terminal
    <3> QED
      BY <1>0, <2>2, <3>1, FewerRequeuers DEF Waiting, Terminal
  <2>8. CASE jobs'[j] = [NoRow EXCEPT !.status = "deleted"]
    <3>1. jobs'[j].status = "deleted" /\ jobs'[j].attempts = 0
      BY <2>8 DEF NoRow
    <3>2. Waiting(j)' = 0 /\ Waiting(j) \in Nat
      BY <3>1 DEF Waiting
    <3> QED
      BY <1>0, <2>2, <3>1, <3>2, FewerRequeuers
  <2>9. \/ jobs'[j] = jobs[j]
        \/ w \in Requeuers(j) /\ jobs'[j] = Requeue(jobs[j])
        \/ jobs[j].status = "queued" /\ jobs'[j] = Claim(jobs[j], w)
        \/ jobs'[j] = Beat(jobs[j])
        \/ jobs'[j] = CompleteSuccess(jobs[j])
        \/ jobs'[j] = CompleteInfeasible(jobs[j])
        \/ jobs'[j] = GiveUp(jobs[j])
        \/ jobs'[j] = [NoRow EXCEPT !.status = "deleted"]
    <3>1. CASE ReapCommit(w)
      BY <1>0, <3>1 DEF ReapCommit, Maintained, Requeuers
    <3>2. CASE ClaimCommit(w)
      BY <1>0, <3>2 DEF ClaimCommit
    <3>3. CASE BeatCommit(w)
      BY <1>0, <3>3 DEF BeatCommit
    <3>4. CASE OutcomeCommit(w)
      <4>1. /\ wk[w].pc = "outcomeCommit"
            /\ \/ jobs'[j] = jobs[j]
               \/ wk[w].job = j /\ jobs'[j] = Recorded(jobs[j], wk[w].target)
        BY <1>0, <3>4 DEF OutcomeCommit
      <4> QED
        BY <4>1 DEF Recorded, Requeuers
    <3> QED
      BY <1>4, <3>1, <3>2, <3>3, <3>4
         DEF WorkerStep, Raises, Crash, RunOnce, ClaimRead, ChildExits, Supervise,
             BeatRead, Check
  <2> QED
    BY <2>3, <2>4, <2>5, <2>6, <2>7, <2>8, <2>9
<1> QED
  BY <1>2, <1>3, <1>4

\* Sessions that overlap can start a job more often than its budget allows, as
\* two reapers or a reaper and a retry both requeue it, but never by more than
\* one start for each worker but one.
THEOREM OverrunBounded ==
    ASSUME IsFiniteSet(Workers), Workers # {}
    PROVE  Spec => []BudgetOverrun
<1> DEFINE Inv == \A j \in Jobs : StartsCovered(j)
<1>1. Init => Inv
  <2> SUFFICES ASSUME Init, NEW j \in Jobs PROVE StartsCovered(j)
    OBVIOUS
  <2>1. Requeuers(j) = {}
    BY DEF Init, Requeuers, FreshWorker
  <2>2. Cardinality(Requeuers(j)) = 0
    BY <2>1, FS_EmptySet
  <2>3. Cardinality(Workers) \in Nat
    BY FS_CardinalityType
  <2>4. jobs[j].attempts = 0 /\ Waiting(j) = 0
    BY DEF Init, NoRow, Waiting
  <2> QED
    BY <2>1, <2>2, <2>3, <2>4, RailAssumption DEF StartsCovered
<1>2. TypeOK /\ TypeOK' /\ Inv /\ [Next]_vars => Inv'
  <2> SUFFICES ASSUME TypeOK, TypeOK', Inv, [Next]_vars, NEW j \in Jobs
               PROVE  StartsCovered(j)'
    OBVIOUS
  <2>1. StartsCovered(j)
    OBVIOUS
  <2> HIDE DEF Inv
  <2> QED
    BY <2>1, ClientsCovered, WorkersCovered DEF Next, ClientStep
<1>3. TypeOK /\ Inv => BudgetOverrun
  <2> SUFFICES ASSUME TypeOK, NEW j \in Jobs, StartsCovered(j)
               PROVE  jobs[j].attempts <= MaxAttempts + Cardinality(Workers) - 1
    BY DEF BudgetOverrun
  <2>1. jobs[j].attempts \in Nat /\ Waiting(j) \in Nat
    BY DEF TypeOK, Row, Waiting
  <2>2. Cardinality(Requeuers(j)) \in Nat /\ Cardinality(Workers) \in Nat
    BY FS_Subset, FS_CardinalityType DEF Requeuers
  <2> QED
    BY <2>1, <2>2, RailAssumption DEF StartsCovered
<1> QED
  BY <1>1, <1>2, <1>3, TypeCorrect, PTL DEF Spec

=============================================================================
