-------------------------- MODULE CommandQueueProofs --------------------------
(* TLAPS proofs about CommandQueue, for any number of matches, courts and      *)
(* commands and however flushes, replays, reloads and other devices            *)
(* interleave: types, exactly-once, the order of the desk, and one playing     *)
(* match per court.                                                            *)
EXTENDS CommandQueue, SequenceTheorems, WellFoundedInduction, TLAPS

\* A flush works off rows of the queue, the drain never has a result of its own,
\* and a submit that runs has its row and what the board showed before.
Processes ==
    \A p \in Procs :
      /\ flow[p].todo \subseteq Queued
      /\ flow[p].at \in {"flush", "wait"} => flow[p].todo # {}
      /\ flow[p].own = "ok" => flow[p].row # None
      /\ p = Drain => /\ flow[p].at \in {"idle", "flush", "wait"}
                      /\ flow[p].own = "networkError"
      /\ p # Drain /\ flow[p].at # "idle" => p \in Queued /\ flow[p].prev # None

\* A request carries a row of the queue; the flush that waits for its answer is at
\* that row and waits for no other.
Waiting ==
    \A q \in req :
      /\ q.c.id \in Queued /\ q.c = Wire(q.c.id)
      /\ q.from # None => flow[q.from].at = "wait" /\ q.c.id = Min(flow[q.from].todo)
      /\ \A r \in req : q.from # None /\ r.from = q.from => r = q

Desk == TypeOK /\ Processes /\ Waiting

-------------------------------------------------------------------------------
\* The row a flush posts next is one of those that are left.
LEMMA MinIn ==
    ASSUME NEW S \in SUBSET Nat, S # {} PROVE Min(S) \in S
<1> DEFINE R == OpToRel(<, Nat)
<1>1. \E x \in S : \A y \in S : ~ (<<y, x>> \in R)
  BY NatLessThanWellFounded, WFMin
<1>2. \A x, y \in Nat : y < x => <<y, x>> \in R
  BY DEF OpToRel
<1> HIDE DEF R
<1>3. \E x \in S : \A y \in S : x <= y
  <2> PICK x \in S : \A y \in S : ~ (<<y, x>> \in R)
    BY <1>1
  <2> SUFFICES ASSUME NEW y \in S PROVE x <= y
    OBVIOUS
  <2>1. ~ (y < x)
    BY <1>2, Zenon
  <2>2. QED
    BY <2>1
<1>4. QED
  BY <1>3 DEF Min

\* Every action but resolve_court has a status as its target, and only start_match
\* starts a match.
LEMMA TargetType ==
    ASSUME NEW a \in MatchActions \ {"resolve_court"}
    PROVE  /\ ACTION_TO_TARGET_STATUS[a] \in Statuses
           /\ ACTION_TO_TARGET_STATUS[a] = "playing" => a = "start_match"
BY DEF MatchActions, ACTION_TO_TARGET_STATUS, Statuses

\* The rows a command leaves are match rows.
LEMMA EffectType ==
    ASSUME NEW c \in Command, NEW v \in [Matches -> Row]
    PROVE  Effect(c, v) \in [Matches -> Row]
<1> SUFFICES ASSUME NEW m \in Matches PROVE Effect(c, v)[m] \in Row
  BY DEF Effect
<1>1. v[m] \in Row
  OBVIOUS
<1>2. Displaced(v[m]) \in Row
  BY <1>1 DEF Displaced, Row, Statuses
<1>3. c.act # "resolve_court" => Mutated(c, v[m]) \in Row
  BY <1>1, TargetType DEF Mutated, Row, Command
<1>4. QED
  BY <1>1, <1>2, <1>3 DEF Effect

\* Writing the changed columns of match rows gives match rows.
LEMMA WrittenType ==
    ASSUME NEW now \in [Matches -> Row], NEW old \in [Matches -> Row], NEW new \in [Matches -> Row]
    PROVE  Written(now, old, new) \in [Matches -> Row]
BY DEF Written, Column, Row

\* The rows a status write leaves are match rows, and only its match has changed.
LEMMA StatedType ==
    ASSUME NEW w \in StatusWrite
    PROVE  /\ Stated(w) \in [Matches -> Row]
           /\ Stated(w)[w.m].status = w.target
           /\ Stated(w)[w.m].court = w.view[w.m].court
           /\ Stated(w)[w.m].ver = w.view[w.m].ver + 1
           /\ \A n \in Matches \ {w.m} : Stated(w)[n] = w.view[n]
<1>1. PICK m, t, v : m = w.m /\ t = w.target /\ v = w.view
  OBVIOUS
<1>2. m \in Matches /\ t \in Statuses /\ v \in [Matches -> Row] /\ v[m] \in Row
  BY <1>1 DEF StatusWrite
<1> DEFINE new == [status |-> t, court |-> v[m].court, ver |-> v[m].ver + 1, stated |-> TRUE]
<1>3. new \in Row
  BY <1>2 DEF Row
<1>4. Stated(w) = [v EXCEPT ![m] = new]
  BY <1>1, <1>2 DEF Stated, Row
<1>5. new.status = t /\ new.court = v[m].court /\ new.ver = v[m].ver + 1
  OBVIOUS
<1> HIDE DEF new
<1>6. QED
  BY <1>1, <1>2, <1>3, <1>4, <1>5

\* What the server decides is a result and leaves match rows.
LEMMA DecisionType ==
    ASSUME NEW q \in Requests, q.view # None, match \in [Matches -> Row]
    PROVE  /\ Decision(q).kind \in {"ok", "staleVersion", "conflict"}
           /\ Decision(q).rows \in [Matches -> Row]
<1>1. q.c \in Command /\ q.view \in [Matches -> Row]
  BY DEF Requests
<1>2. Effect(q.c, q.view) \in [Matches -> Row]
  BY <1>1, EffectType
<1>3. Written(match, q.view, Effect(q.c, q.view)) \in [Matches -> Row]
  BY <1>1, <1>2, WrittenType
<1>4. Verdict(q.c, q.view) \in {"ok", "staleVersion", "conflict"}
  BY DEF Verdict
<1>5. QED
  BY <1>3, <1>4 DEF Decision

\* Where a flush goes with some rows left.
LEMMA FlushingType ==
    ASSUME NEW f \in Flows, NEW t \in SUBSET Cmds, NEW o \in Results, NEW r \in Row \cup {None},
           NEW g, g = Flushing(f, t, o, r)
    PROVE  /\ g \in Flows
           /\ g.todo \subseteq t
           /\ g.at \in {"idle", "flush", "settle"}
           /\ g.at = "flush" => g.todo # {}
           /\ g.at = "settle" => g.own # "networkError"
           /\ g.own = o
           /\ o = "ok" => g.row = r
           /\ g.at # "idle" => g.prev = f.prev
<1>1. CASE t = {} /\ o = "networkError"
  BY <1>1 DEF Flushing, Idle, Flows, Results
<1>2. CASE ~(t = {} /\ o = "networkError")
  <2> DEFINE at == IF t = {} THEN "settle" ELSE "flush"
  <2>1. g = [f EXCEPT !.at = at, !.todo = t, !.own = o, !.row = r]
    BY <1>2 DEF Flushing
  <2>2. at \in {"flush", "settle"} /\ (at = "flush" => t # {})
        /\ (at = "settle" => o # "networkError")
    BY <1>2
  <2> HIDE DEF at
  <2>3. /\ g \in Flows
        /\ g.at = at /\ g.todo = t /\ g.own = o /\ g.row = r /\ g.prev = f.prev
    BY <2>1, <2>2 DEF Flows
  <2>4. QED
    BY <2>2, <2>3
<1>3. QED
  BY <1>1, <1>2

\* The budgets of a scenario stay natural numbers.
LEMMA BudgetType ==
    ASSUME NEW e \in Scenario
    PROVE  /\ e.drops > 0 => [e EXCEPT !.drops = @ - 1] \in Scenario
           /\ e.hiccups > 0 => [e EXCEPT !.hiccups = @ - 1] \in Scenario
           /\ e.reloads > 0 => [e EXCEPT !.reloads = @ - 1] \in Scenario
           /\ e.puts > 0 => [e EXCEPT !.puts = @ - 1] \in Scenario
           /\ e.docs > 0 => [e EXCEPT !.docs = @ - 1] \in Scenario
BY DEF Scenario

-------------------------------------------------------------------------------
\* The desk starts with nothing queued and nothing on the wire.
LEMMA DeskInit == Init => Desk
<1> SUFFICES ASSUME Init PROVE Desk
  OBVIOUS
<1>1. env \in Scenario
  BY DeskAssumption DEF Init
<1>2. /\ env.start \in [Matches -> {"scheduled", "called", "playing"}]
      /\ env.document \in Plans /\ env.document \in [Matches -> Courts \cup {None}]
  BY <1>1, BoardAssumption DEF Scenario
<1>3. match \in [Matches -> Row]
  BY <1>2 DEF Init, BoardInit, Row, Statuses
<1>4. /\ cmd \in [Cmds -> {"none", "applied", "rejected"}] /\ req = {} /\ writes = {} /\ applied = <<>>
      /\ raced = FALSE /\ plan \in Plans /\ saves = 0
  BY <1>2 DEF Init, BoardInit
<1>5. shown \in [Matches -> Board] /\ cached \in [Matches -> Nat \cup {None}]
  BY DEF Init, EmptyStore, Unseen, Board, Statuses
<1>6. Idle \in Flows
  BY DEF Idle, Flows, Results
<1>7. /\ flow = [p \in Procs |-> Idle] /\ asked = [k \in Cmds |-> None] /\ rows = <<>> /\ online = TRUE /\ wake = FALSE
      /\ missed = FALSE
  BY DEF Init
<1>8. TypeOK
  <2>1. rows \in Seq(QueueRow) /\ Len(rows) = 0 /\ applied \in Seq(Cmds)
    BY <1>4, <1>7
  <2>2. flow \in [Procs -> Flows]
    BY <1>6, <1>7
  <2>3. raced \in BOOLEAN /\ online \in BOOLEAN /\ wake \in BOOLEAN /\ missed \in BOOLEAN
    BY <1>4, <1>7, Zenon
  <2>4. /\ cmd \in [Cmds -> {"none", "applied", "rejected"}] /\ plan \in Plans
        /\ req \subseteq Requests /\ saves \in Nat /\ 0 <= MaxCmds
        /\ writes \subseteq StatusWrite /\ asked \in [Cmds -> Ask \cup {None}]
    BY <1>4, <1>7, BoardAssumption
  <2>5. QED
    BY <1>1, <1>3, <1>5, <2>1, <2>2, <2>3, <2>4 DEF TypeOK
<1>9. Processes
  BY <1>7 DEF Processes, Idle, Queued
<1>10. Waiting
  BY <1>4 DEF Waiting
<1>11. QED
  BY <1>8, <1>9, <1>10 DEF Desk

\* A queued command is a command of the wire.
LEMMA WireType ==
    ASSUME Desk, NEW i \in Queued PROVE Wire(i) \in Command /\ Wire(i).id = i
<1>1. rows \in Seq(QueueRow) /\ Len(rows) <= MaxCmds /\ MaxCmds \in Nat
  BY BoardAssumption DEF Desk, TypeOK
<1>2. i \in Cmds /\ rows[i] \in QueueRow
  BY <1>1 DEF Queued, Cmds
<1>3. QED
  BY <1>2 DEF Wire, Command, QueueRow

\* What submit does up to the enqueue keeps the desk in order.
LEMMA EnqueueDesk ==
    ASSUME Desk, asked' \in [Cmds -> Ask \cup {None}],
           NEW m \in Matches, NEW act \in MatchActions, NEW court \in Courts \cup {None},
           NEW displaced \in SUBSET Matches, NEW seen \in Nat, NEW prev \in Board,
           Enqueue(m, act, court, displaced, seen, prev)
    PROVE  Desk'
<1> USE BoardAssumption, DeskNulls
<1> DEFINE i   == Len(rows) + 1
           row == [m |-> m, act |-> act, court |-> court, st |-> "pending",
                   displaced |-> displaced, seen |-> seen]
           own == [Idle EXCEPT !.at = "queued", !.prev = prev]
<1>1. rows \in Seq(QueueRow) /\ Len(rows) \in Nat /\ i \in Cmds /\ i \in Procs /\ i \notin Queued /\ i # Drain
  BY DEF Enqueue, Desk, TypeOK, Cmds, Procs, Queued, Drain
<1>3. row \in QueueRow
  BY DEF QueueRow
<1>4. shown[m] \in Board
  BY DEF Desk, TypeOK
<1>5. own \in Flows /\ own.at = "queued" /\ own.prev # None /\ own.todo = {} /\ own.own = "networkError"
  BY DEF Idle, Flows, Results
<1>6. rows' = Append(rows, row) /\ flow' = [flow EXCEPT ![i] = own]
  BY DEF Enqueue
<1> HIDE DEF row, own
<1>7. /\ rows' \in Seq(QueueRow) /\ Len(rows') = i
      /\ \A j \in Queued : rows'[j] = rows[j]
      /\ Queued' = Queued \cup {i}
  BY <1>1, <1>3, <1>6, AppendProperties DEF Queued
<1> HIDE DEF i
<1>8. flow' \in [Procs -> Flows]
  BY <1>1, <1>5, <1>6 DEF Desk, TypeOK
<1>9. shown' \in [Matches -> Board]
  <2>1. CASE act = "resolve_court"
    BY <2>1 DEF Enqueue, Desk, TypeOK
  <2>2. CASE act # "resolve_court"
    <3> DEFINE new == [shown[m] EXCEPT !.status = ACTION_TO_TARGET_STATUS[act]]
    <3>1. new \in Board
      BY <1>4, <2>2, TargetType DEF Board
    <3>2. shown' = [shown EXCEPT ![m] = new]
      BY <2>2 DEF Enqueue
    <3> HIDE DEF new
    <3>3. QED
      BY <3>1, <3>2 DEF Desk, TypeOK
  <2>3. QED
    BY <2>1, <2>2
<1>10. cached' \in [Matches -> Nat \cup {None}]
  BY DEF Enqueue, Desk, TypeOK
<1>11. TypeOK'
  BY <1>1, <1>7, <1>8, <1>9, <1>10 DEF Enqueue, Desk, TypeOK, boardVars, Cmds
<1>12. Processes'
  <2> SUFFICES ASSUME NEW p \in Procs
               PROVE  /\ flow'[p].todo \subseteq Queued'
                      /\ flow'[p].at \in {"flush", "wait"} => flow'[p].todo # {}
                      /\ flow'[p].own = "ok" => flow'[p].row # None
                      /\ p = Drain => /\ flow'[p].at \in {"idle", "flush", "wait"}
                                      /\ flow'[p].own = "networkError"
                      /\ p # Drain /\ flow'[p].at # "idle" => p \in Queued' /\ flow'[p].prev # None
    BY DEF Processes
  <2>1. CASE p = i
    <3>1. flow'[p] = own
      BY <1>6, <2>1 DEF Desk, TypeOK
    <3>2. QED
      BY <1>1, <1>5, <1>7, <2>1, <3>1
  <2>2. CASE p # i
    <3>1. flow'[p] = flow[p]
      BY <1>6, <2>2 DEF Desk, TypeOK
    <3>2. QED
      BY <1>7, <3>1 DEF Desk, Processes
  <2>3. QED
    BY <2>1, <2>2
<1>13. Waiting'
  <2> SUFFICES ASSUME NEW q \in req
               PROVE  /\ q.c.id \in Queued' /\ q.c = Wire(q.c.id)'
                      /\ q.from # None => flow'[q.from].at = "wait" /\ q.c.id = Min(flow'[q.from].todo)
                      /\ \A r \in req : q.from # None /\ r.from = q.from => r = q
    BY DEF Waiting, Enqueue, boardVars
  <2>1. q.c.id \in Queued /\ q.c = Wire(q.c.id)
    BY DEF Desk, Waiting
  <2>2. q.c.id \in Queued' /\ q.c = Wire(q.c.id)'
    BY <1>7, <2>1 DEF Wire
  <2>3. q.from # None => flow[q.from].at = "wait" /\ q.c.id = Min(flow[q.from].todo) /\ q.from \in Procs
    BY DEF Desk, Waiting, TypeOK, Requests
  <2>4. q.from # None => q.from # i
    BY <1>1, <2>3 DEF Desk, Processes
  <2>5. q.from # None => flow'[q.from] = flow[q.from]
    BY <1>6, <2>3, <2>4 DEF Desk, TypeOK
  <2>6. QED
    BY <2>2, <2>3, <2>5 DEF Desk, Waiting
<1>14. QED
  BY <1>11, <1>12, <1>13 DEF Desk

-------------------------------------------------------------------------------
\* A flush that has a result marks the one row it posted, and only its own state
\* moves on.
LEMMA AdvanceDesk ==
    ASSUME Desk, NEW p \in Procs, flow[p].at \in {"flush", "wait"},
           NEW kind \in Results, NEW row \in Row \cup {None}, kind = "ok" => row # None,
           Advance(p, kind, row)
    PROVE  /\ rows' \in Seq(QueueRow) /\ Len(rows') = Len(rows) /\ Queued' = Queued
           /\ \A j \in Queued :
                /\ Wire(j)' = Wire(j)
                /\ rows'[j].m = rows[j].m /\ rows'[j].act = rows[j].act
                /\ rows'[j].seen = rows[j].seen
                /\ rows'[j].st = IF j = Min(flow[p].todo) THEN Marked(rows[j].st, kind)
                                 ELSE rows[j].st
           /\ flow' \in [Procs -> Flows]
           /\ \A r \in Procs \ {p} : flow'[r] = flow[r]
           /\ flow'[p].own = "ok" =>
                \/ flow[p].own = "ok" /\ flow'[p].row = flow[p].row
                \/ Min(flow[p].todo) = p /\ kind = "ok" /\ flow'[p].row = row
           /\ Processes'
<1> USE BoardAssumption, DeskNulls
<1> DEFINE i == Min(flow[p].todo)
           f == flow[p]
           t == f.todo \ {i}
           o == IF i = p THEN kind ELSE f.own
           r == IF i = p /\ kind = "ok" THEN row ELSE f.row
           g == Flushing(f, t, o, r)
<1>1. f \in Flows /\ rows \in Seq(QueueRow) /\ f.todo \in SUBSET Cmds
  BY DEF Desk, TypeOK, Flows
<1>2. f.todo # {} /\ f.todo \subseteq Queued
  BY DEF Desk, Processes
<1>3. i \in f.todo
  BY <1>1, <1>2, MinIn DEF Cmds
<1>4. i \in Queued /\ i \in 1..Len(rows) /\ i # Drain
  BY <1>1, <1>2, <1>3 DEF Queued, Drain, Cmds
<1>5. rows[i] \in QueueRow
  BY <1>1, <1>4
<1> DEFINE st == Marked(rows[i].st, kind)
           new == [rows[i] EXCEPT !.st = st]
<1>6. st \in {"pending", "applied", "rejected", "conflict"}
  BY <1>5 DEF Marked, QueueRow, Results
<1>7. rows' = [rows EXCEPT ![i] = new]
  BY DEF Advance
<1>8. flow' = [flow EXCEPT ![p] = g]
  BY DEF Advance
<1> HIDE DEF st, i
<1>9. /\ new \in QueueRow /\ new.st = st
      /\ new.m = rows[i].m /\ new.act = rows[i].act /\ new.court = rows[i].court
      /\ new.displaced = rows[i].displaced /\ new.seen = rows[i].seen
  BY <1>5, <1>6 DEF QueueRow
<1> HIDE DEF new
<1>10. /\ rows' \in Seq(QueueRow) /\ Len(rows') = Len(rows)
       /\ \A j \in 1..Len(rows) : rows'[j] = IF j = i THEN new ELSE rows[j]
  BY <1>1, <1>4, <1>7, <1>9, ExceptSeq
<1>11. Queued' = Queued /\ Queued = 1..Len(rows)
  BY <1>1, <1>10 DEF Queued
<1>12. \A j \in Queued :
         /\ Wire(j)' = Wire(j)
         /\ rows'[j].m = rows[j].m /\ rows'[j].act = rows[j].act /\ rows'[j].seen = rows[j].seen
         /\ rows'[j].st = IF j = i THEN Marked(rows[j].st, kind) ELSE rows[j].st
  <2> SUFFICES ASSUME NEW j \in Queued
               PROVE  /\ Wire(j)' = Wire(j)
                      /\ rows'[j].m = rows[j].m /\ rows'[j].act = rows[j].act
                      /\ rows'[j].seen = rows[j].seen
                      /\ rows'[j].st = IF j = i THEN Marked(rows[j].st, kind) ELSE rows[j].st
    OBVIOUS
  <2>1. CASE j = i
    BY <1>9, <1>10, <1>11, <2>1 DEF Wire, st
  <2>2. CASE j # i
    BY <1>10, <1>11, <2>2 DEF Wire
  <2>3. QED
    BY <2>1, <2>2
<1>13. t \in SUBSET Cmds /\ o \in Results /\ r \in Row \cup {None}
  BY <1>1 DEF Flows
<1>14. /\ g \in Flows
       /\ g.todo \subseteq t
       /\ g.at \in {"idle", "flush", "settle"}
       /\ g.at = "flush" => g.todo # {}
       /\ g.at = "settle" => g.own # "networkError"
       /\ g.own = o
       /\ o = "ok" => g.row = r
       /\ g.at # "idle" => g.prev = f.prev
  <2>1. g = Flushing(f, t, o, r)
    OBVIOUS
  <2> HIDE DEF f, t, o, r, g
  <2>2. f \in Flows
    BY <1>1
  <2>3. t \in SUBSET Cmds
    BY <1>13
  <2>4. o \in Results /\ r \in Row \cup {None}
    BY <1>13
  <2>5. QED
    BY <2>1, <2>2, <2>3, <2>4, FlushingType
<1> HIDE DEF g
<1>15. flow' \in [Procs -> Flows] /\ flow'[p] = g /\ \A s \in Procs \ {p} : flow'[s] = flow[s]
  BY <1>8, <1>14 DEF Desk, TypeOK
<1>16. flow'[p].own = "ok" =>
          \/ flow[p].own = "ok" /\ flow'[p].row = flow[p].row
          \/ i = p /\ kind = "ok" /\ flow'[p].row = row
  BY <1>14, <1>15
<1>17. Processes'
  <2> SUFFICES ASSUME NEW s \in Procs
               PROVE  /\ flow'[s].todo \subseteq Queued
                      /\ flow'[s].at \in {"flush", "wait"} => flow'[s].todo # {}
                      /\ flow'[s].own = "ok" => flow'[s].row # None
                      /\ s = Drain => /\ flow'[s].at \in {"idle", "flush", "wait"}
                                      /\ flow'[s].own = "networkError"
                      /\ s # Drain /\ flow'[s].at # "idle" => s \in Queued /\ flow'[s].prev # None
    BY <1>11 DEF Processes
  <2>1. CASE s # p
    BY <1>15, <2>1 DEF Desk, Processes
  <2>2. CASE s = p
    <3>1. /\ f.own = "ok" => f.row # None
          /\ p = Drain => f.own = "networkError"
          /\ p # Drain => p \in Queued /\ f.prev # None
      BY DEF Desk, Processes
    <3>2. flow'[s] = g
      BY <1>15, <2>2
    <3>3. g.own = "ok" => g.row # None
      BY <1>14, <3>1
    <3>4. p = Drain => g.own = "networkError" /\ g.at \in {"idle", "flush", "wait"}
      BY <1>4, <1>14, <3>1
    <3>5. QED
      BY <1>2, <1>14, <2>2, <3>1, <3>2, <3>3, <3>4
  <2>3. QED
    BY <2>1, <2>2
<1>18. QED
  BY <1>10, <1>11, <1>12, <1>15, <1>16, <1>17 DEF i

\* What the requests say stays true when the flush of one of them has moved on and
\* that request is answered.
LEMMA OthersWait ==
    ASSUME Desk, NEW p \in Procs,
           \A j \in Queued : Wire(j)' = Wire(j), Queued' = Queued,
           \A s \in Procs \ {p} : flow'[s] = flow[s],
           NEW q \in req, q.from # p
    PROVE  /\ q.c.id \in Queued' /\ q.c = Wire(q.c.id)'
           /\ q.from # None => flow'[q.from].at = "wait" /\ q.c.id = Min(flow'[q.from].todo)
           /\ \A r \in req : q.from # None /\ r.from = q.from => r = q
BY DEF Desk, Waiting, TypeOK, Requests

\* An answer, delivered or not, keeps the desk in order.
LEMMA DeliverDesk ==
    ASSUME Desk, NEW q \in req, req' = req \ {q},
           NEW kind \in Results, NEW row \in Row \cup {None}, kind = "ok" => row # None,
           Deliver(q, kind, row),
           match' \in [Matches -> Row], cmd' \in [Cmds -> {"none", "applied", "rejected"}],
           applied' \in Seq(Cmds), raced' \in BOOLEAN, UNCHANGED <<writes, plan, saves>>
    PROVE  Desk'
<1>1. CASE q.from = None
  <2>1. UNCHANGED <<asked, rows, flow, shown, cached, online, wake, missed, env>>
    BY <1>1 DEF Deliver
  <2>2. TypeOK'
    BY <2>1 DEF Desk, TypeOK
  <2>3. Processes' /\ Waiting'
    BY <2>1 DEF Desk, Processes, Waiting, Queued, Wire
  <2>4. QED
    BY <2>2, <2>3 DEF Desk
<1>2. CASE q.from # None
  <2> DEFINE p == q.from
  <2>1. p \in Procs /\ flow[p].at \in {"flush", "wait"} /\ Advance(p, kind, row)
    BY <1>2 DEF Deliver, Desk, Waiting, TypeOK, Requests
  <2> HIDE DEF p
  <2>2. /\ rows' \in Seq(QueueRow) /\ Len(rows') = Len(rows) /\ Queued' = Queued
        /\ \A j \in Queued : Wire(j)' = Wire(j)
        /\ flow' \in [Procs -> Flows]
        /\ \A s \in Procs \ {p} : flow'[s] = flow[s]
        /\ Processes'
    BY <2>1, AdvanceDesk
  <2>3. TypeOK'
    BY <2>2 DEF Deliver, Desk, TypeOK
  <2>4. \A r \in req' : r \in req /\ r.from # p
    BY <1>2 DEF Desk, Waiting, p
  <2>5. Waiting'
    BY <2>1, <2>2, <2>4, OthersWait DEF Waiting
  <2>6. QED
    BY <2>2, <2>3, <2>5 DEF Desk
<1>3. QED
  BY <1>1, <1>2

\* The server's steps keep the desk in order.
LEMMA DeskServe ==
    ASSUME Desk, NEW q \in req, Serve(q) PROVE Desk'
<1> USE DeskNulls
<1>1. q \in Requests /\ q.c \in Command /\ q.c.id \in Cmds /\ q.c.m \in Matches
  BY DEF Desk, TypeOK, Requests, Command
<1>2. match \in [Matches -> Row]
  BY DEF Desk, TypeOK
<1>3. CASE Read(q)
  <2> DEFINE r == [q EXCEPT !.view = match]
  <2>1. r \in Requests /\ r.c = q.c /\ r.from = q.from
    BY <1>1, <1>2 DEF Requests
  <2>2. req' = (req \ {q}) \cup {r} /\ UNCHANGED <<deskVars, match, cmd, writes, applied, raced, plan, saves>>
    BY <1>3 DEF Read, ReadRows
  <2> HIDE DEF r
  <2>3. TypeOK'
    BY <2>1, <2>2 DEF Desk, TypeOK, deskVars
  <2>4. Processes'
    BY <2>2 DEF Desk, Processes, Queued, deskVars
  <2>5. Waiting'
    <3>1. \A i : Wire(i)' = Wire(i)
      BY <2>2 DEF Wire, deskVars
    <3>2. Queued' = Queued /\ flow' = flow
      BY <2>2 DEF Queued, deskVars
    <3>3. /\ q.c.id \in Queued /\ q.c = Wire(q.c.id)
          /\ q.from # None => flow[q.from].at = "wait" /\ q.c.id = Min(flow[q.from].todo)
          /\ \A s \in req : q.from # None /\ s.from = q.from => s = q
      BY DEF Desk, Waiting
    <3>4. ASSUME NEW s \in req \ {q}
          PROVE  /\ s.c.id \in Queued /\ s.c = Wire(s.c.id)
                 /\ s.from # None => flow[s.from].at = "wait" /\ s.c.id = Min(flow[s.from].todo)
                 /\ \A u \in req : s.from # None /\ u.from = s.from => u = s
      BY DEF Desk, Waiting
    <3>5. \A s \in req' : /\ s.c.id \in Queued' /\ s.c = Wire(s.c.id)'
                          /\ s.from # None =>
                               flow'[s.from].at = "wait" /\ s.c.id = Min(flow'[s.from].todo)
      BY <2>1, <2>2, <3>1, <3>2, <3>3, <3>4
    <3>6. \A s, u \in req' : s.from # None /\ u.from = s.from => u = s
      BY <2>1, <2>2, <3>3, <3>4
    <3>7. QED
      BY <3>5, <3>6 DEF Waiting
  <2>6. QED
    BY <2>3, <2>4, <2>5 DEF Desk
<1>4. CASE AnswerReplay(q)
  <2>1. /\ Replayed(q).kind \in Results
        /\ Replayed(q).row \in Row
    BY <1>1, <1>2 DEF Replayed, Results
  <2>2. /\ Deliver(q, Replayed(q).kind, Replayed(q).row) /\ req' = req \ {q}
        /\ UNCHANGED <<match, cmd, writes, applied, raced, plan, saves>>
    BY <1>4 DEF AnswerReplay, Replay
  <2>3. QED
    BY <2>1, <2>2, DeliverDesk DEF Desk, TypeOK
<1>5. CASE AnswerCommit(q)
  <2>1. q.view # None /\ req' = req \ {q} /\ UNCHANGED <<writes, plan, saves>>
        /\ Deliver(q, Decision(q).kind, Decision(q).rows[q.c.m])
    BY <1>5 DEF AnswerCommit, Commit
  <2>2. /\ Decision(q).kind \in {"ok", "staleVersion", "conflict"}
        /\ Decision(q).rows \in [Matches -> Row]
    BY <1>1, <1>2, <2>1, DecisionType
  <2>3. Decision(q).kind \in Results /\ Decision(q).rows[q.c.m] \in Row
    BY <1>1, <2>2 DEF Results
  <2>4. /\ match' \in [Matches -> Row] /\ cmd' \in [Cmds -> {"none", "applied", "rejected"}]
        /\ applied' \in Seq(Cmds) /\ raced' \in BOOLEAN
    <3>1. CASE Decision(q).kind = "ok"
      <4>1. /\ match' = Decision(q).rows /\ applied' = Append(applied, q.c.id)
            /\ cmd' = [cmd EXCEPT ![q.c.id] = "applied"]
        BY <1>5, <3>1 DEF AnswerCommit, Commit
      <4>2. raced' = (raced \/ match # q.view)
        BY <1>5, <3>1 DEF AnswerCommit, Commit
      <4>3. raced' \in BOOLEAN
        BY <4>2, Zenon
      <4>4. applied' \in Seq(Cmds)
        BY <1>1, <4>1, AppendProperties DEF Desk, TypeOK
      <4>5. QED
        BY <1>1, <2>2, <4>1, <4>3, <4>4 DEF Desk, TypeOK
    <3>2. CASE Decision(q).kind # "ok"
      BY <1>1, <1>5, <3>2 DEF AnswerCommit, Commit, Desk, TypeOK
    <3>3. QED
      BY <3>1, <3>2
  <2>5. QED
    BY <2>1, <2>3, <2>4, DeliverDesk
<1>6. CASE Answer500(q)
  <2>1. /\ Deliver(q, "networkError", None) /\ req' = req \ {q}
        /\ UNCHANGED <<match, cmd, writes, applied, raced, plan, saves>>
    BY <1>6 DEF Answer500, Collide
  <2>2. "networkError" \in Results
    BY DEF Results
  <2>3. QED
    BY <2>1, <2>2, DeliverDesk DEF Desk, TypeOK
<1>7. QED
  BY <1>3, <1>4, <1>5, <1>6 DEF Serve

\* A flush that waits for no answer moves on by itself.
LEMMA MovesOn ==
    ASSUME Desk, NEW p \in Procs, flow[p].at # "wait", NEW g \in Flows,
           g.todo \subseteq Queued, g.at \in {"flush", "wait"} => g.todo # {},
           g.own = "ok" => g.row # None,
           p = Drain => g.at \in {"idle", "flush", "wait"} /\ g.own = "networkError",
           p # Drain /\ g.at # "idle" => p \in Queued /\ g.prev # None,
           flow' = [flow EXCEPT ![p] = g], UNCHANGED <<rows, req>>
    PROVE  flow' \in [Procs -> Flows] /\ Processes' /\ Waiting'
<1>1. flow' \in [Procs -> Flows] /\ flow'[p] = g /\ \A s \in Procs \ {p} : flow'[s] = flow[s]
  BY DEF Desk, TypeOK
<1>2. Queued' = Queued /\ \A j \in Queued : Wire(j)' = Wire(j)
  BY DEF Queued, Wire
<1>3. Processes'
  BY <1>1, <1>2 DEF Desk, Processes
<1>4. \A q \in req : q.from # p
  BY BoardAssumption, DeskNulls DEF Desk, Waiting, Procs
<1>5. Waiting'
  BY <1>1, <1>2, <1>4, OthersWait DEF Waiting
<1>6. QED
  BY <1>1, <1>3, <1>5

\* Idle is where every flush may end.
LEMMA IdleType ==
    Idle \in Flows /\ Idle.at = "idle" /\ Idle.todo = {} /\ Idle.own = "networkError"
BY DEF Idle, Flows, Results

\* The steps of a flush keep the desk in order.
LEMMA DeskFlush ==
    ASSUME Desk, NEW p \in Procs, Flush(p) \/ (p = Drain /\ StartDrain) PROVE Desk'
<1> USE BoardAssumption, DeskNulls
<1> DEFINE f == flow[p]
<1>1. f \in Flows /\ (p # Drain /\ f.at # "idle" => p \in Queued /\ f.prev # None)
  BY DEF Desk, TypeOK, Processes
<1>2. getPending \in SUBSET Cmds /\ getPending \subseteq Queued
  BY DEF getPending, Queued, Desk, TypeOK, Cmds
<1>3. CASE StartFlush(p) \/ (p = Drain /\ StartDrain)
  <2> DEFINE g == Flushing(f, getPending, "networkError", None)
  <2>1. g = Flushing(f, getPending, "networkError", None)
    OBVIOUS
  <2>2. /\ f.at # "wait" /\ flow' = [flow EXCEPT ![p] = g]
        /\ UNCHANGED <<asked, rows, shown, cached, online, missed, env, boardVars>>
        /\ wake' \in BOOLEAN
        /\ p # Drain => f.at # "idle"
    BY <1>3 DEF StartFlush, StartDrain, Desk, TypeOK
  <2>3. p = Drain => StartDrain
    BY <1>3 DEF StartFlush, Desk, Processes
  <2> HIDE DEF g, f
  <2>4. /\ g \in Flows /\ g.todo \subseteq getPending /\ g.at \in {"idle", "flush", "settle"}
        /\ g.at = "flush" => g.todo # {}
        /\ g.at = "settle" => g.own # "networkError"
        /\ g.own = "networkError"
        /\ g.at # "idle" => g.prev = f.prev
    <3>1. f \in Flows
      BY <1>1
    <3>2. getPending \in SUBSET Cmds
      BY <1>2
    <3>3. "networkError" \in Results /\ None \in Row \cup {None}
      BY DEF Results
    <3>4. QED
      BY <2>1, <3>1, <3>2, <3>3, FlushingType
  <2>5. flow[p].at # "wait"
    BY <2>2 DEF f
  <2>6. flow' \in [Procs -> Flows] /\ Processes' /\ Waiting'
    BY <1>1, <1>2, <2>2, <2>4, <2>5, MovesOn DEF boardVars
  <2>7. QED
    BY <2>2, <2>6 DEF Desk, TypeOK, boardVars
<1>4. CASE Post(p)
  <2> DEFINE g == [f EXCEPT !.at = "wait"]
  <2>0. PICK i, q : i = Min(f.todo) /\ q = [c |-> Wire(i), from |-> p, view |-> None]
    OBVIOUS
  <2>1. f.at = "flush" /\ f.todo # {} /\ f.todo \subseteq Queued /\ f.todo \in SUBSET Nat
    BY <1>1, <1>4 DEF Post, Desk, Processes, Flows, Cmds
  <2>2. i \in f.todo /\ i \in Queued
    BY <2>0, <2>1, MinIn
  <2>3. Wire(i) \in Command /\ Wire(i).id = i
    BY <2>2, WireType
  <2>4. q \in Requests /\ q.c = Wire(i) /\ q.c.id = i /\ q.from = p
    BY <2>0, <2>3 DEF Requests
  <2>5. g \in Flows /\ g.at = "wait" /\ g.todo = f.todo /\ g.own = f.own /\ g.row = f.row /\ g.prev = f.prev
    BY <1>1 DEF Flows
  <2>6. /\ req' = req \cup {q} /\ flow' = [flow EXCEPT ![p] = g]
        /\ UNCHANGED <<asked, rows, shown, cached, online, wake, missed, env>>
        /\ UNCHANGED <<match, cmd, writes, applied, raced, plan, saves>>
    BY <1>4, <2>0 DEF Post, Arrive
  <2>7. \A r \in req : r.from # p
    BY <2>1 DEF Desk, Waiting, Procs
  <2> HIDE DEF g
  <2>8. flow' \in [Procs -> Flows] /\ flow'[p] = g /\ \A s \in Procs \ {p} : flow'[s] = flow[s]
    BY <2>5, <2>6 DEF Desk, TypeOK
  <2>9. TypeOK'
    BY <2>4, <2>6, <2>8 DEF Desk, TypeOK
  <2>10. Queued' = Queued /\ \A j : Wire(j)' = Wire(j)
    BY <2>6 DEF Queued, Wire
  <2>11. Processes'
    BY <1>1, <2>1, <2>5, <2>8, <2>10 DEF Desk, Processes
  <2>12. Waiting'
    <3>1. ASSUME NEW r \in req
          PROVE  /\ r.c.id \in Queued' /\ r.c = Wire(r.c.id)'
                 /\ r.from # None => flow'[r.from].at = "wait" /\ r.c.id = Min(flow'[r.from].todo)
                 /\ \A s \in req : r.from # None /\ s.from = r.from => s = r
      BY <2>7, <2>8, <2>10, OthersWait
    <3>2. q.c.id \in Queued'
      BY <2>2, <2>4, <2>10
    <3>3. q.c = Wire(q.c.id)'
      BY <2>4, <2>10, Zenon
    <3>4. flow'[q.from].at = "wait" /\ q.c.id = Min(flow'[q.from].todo)
      BY <2>0, <2>4, <2>5, <2>8
    <3>5. \A r \in req' : /\ r.c.id \in Queued' /\ r.c = Wire(r.c.id)'
                          /\ r.from # None =>
                               flow'[r.from].at = "wait" /\ r.c.id = Min(flow'[r.from].todo)
      BY <2>6, <3>1, <3>2, <3>3, <3>4
    <3>6. \A r, s \in req' : r.from # None /\ s.from = r.from => s = r
      BY <2>4, <2>6, <2>7, <3>1
    <3>7. QED
      BY <3>5, <3>6 DEF Waiting
  <2>13. QED
    BY <2>9, <2>11, <2>12 DEF Desk
<1>5. CASE PostOffline(p)
  <2>1. /\ f.at = "flush" /\ Advance(p, "networkError", None)
        /\ UNCHANGED <<asked, shown, cached, online, wake, missed, env, boardVars>>
    BY <1>5 DEF PostOffline
  <2>2. "networkError" \in Results /\ None \in Row \cup {None}
    BY DEF Results
  <2>3. /\ rows' \in Seq(QueueRow) /\ Len(rows') = Len(rows) /\ Queued' = Queued
        /\ \A j \in Queued : Wire(j)' = Wire(j)
        /\ flow' \in [Procs -> Flows]
        /\ \A s \in Procs \ {p} : flow'[s] = flow[s]
        /\ Processes'
    BY <2>1, <2>2, AdvanceDesk
  <2>4. TypeOK'
    BY <2>1, <2>3 DEF Desk, TypeOK, boardVars
  <2>5. \A r \in req : r.from # p
    BY <2>1 DEF Desk, Waiting, Procs
  <2>6. Waiting'
    BY <2>1, <2>3, <2>5, OthersWait DEF Waiting, boardVars
  <2>7. QED
    BY <2>3, <2>4, <2>6 DEF Desk
<1>6. CASE SettleOk(p) \/ Refetch(p) \/ Reversion(p)
  <2>1. /\ f.at \in {"settle", "reversion"} /\ p # Drain /\ p \in Queued /\ f.prev \in Board
        /\ UNCHANGED <<asked, rows, online, wake, missed, env, boardVars>>
    BY <1>1, <1>6 DEF SettleOk, Refetch, Reversion, Desk, Processes, Flows
  <2>2. rows[p] \in QueueRow /\ rows[p].m \in Matches
    <3>1. rows \in Seq(QueueRow) /\ p \in 1..Len(rows)
      BY <2>1 DEF Desk, TypeOK, Queued
    <3>2. rows[p] \in QueueRow
      BY <3>1
    <3>3. QED
      BY <3>2 DEF QueueRow
  <2> DEFINE m == rows[p].m
             b == [f EXCEPT !.at = "reversion"]
  <2>3. match[m] \in Row /\ match[m].ver \in Nat
    BY <2>2 DEF Desk, TypeOK, Row
  <2>4. flow' \in [Procs -> Flows] /\ Processes' /\ Waiting'
    <3>1. CASE flow' = [flow EXCEPT ![p] = Idle]
      BY <2>1, <3>1, IdleType, MovesOn DEF boardVars
    <3>2. CASE flow' = [flow EXCEPT ![p].at = "reversion"] /\ f.own # "ok" /\ f.at = "settle"
      <4>1. b \in Flows /\ b.at = "reversion" /\ b.todo = f.todo /\ b.own = f.own /\ b.prev = f.prev
        BY <1>1 DEF Flows
      <4>2. flow' = [flow EXCEPT ![p] = b] /\ f.todo \subseteq Queued /\ f.own # "ok"
        BY <3>2 DEF Desk, Processes
      <4> HIDE DEF b
      <4>3. QED
        BY <1>1, <2>1, <4>1, <4>2, MovesOn DEF boardVars
    <3>3. QED
      BY <1>6, <3>1, <3>2 DEF SettleOk, Refetch, Reversion
  <2>5. cached' \in [Matches -> Nat \cup {None}]
    <3>1. CASE SettleOk(p)
      <4>1. f.row \in Row /\ f.row.ver \in Nat
        BY <1>1, <3>1 DEF SettleOk, Desk, Processes, Flows, Row
      <4>2. QED
        BY <2>2, <3>1, <4>1 DEF SettleOk, Desk, TypeOK
    <3>2. CASE Refetch(p)
      BY <3>2 DEF Refetch, Desk, TypeOK
    <3>3. CASE Reversion(p)
      BY <2>2, <2>3, <3>3 DEF Reversion, Desk, TypeOK
    <3>4. QED
      BY <1>6, <3>1, <3>2, <3>3
  <2>6. shown' \in [Matches -> Board]
    <3>1. CASE SettleOk(p)
      <4>1. f.row \in Row
        BY <1>1, <3>1 DEF SettleOk, Desk, Processes, Flows
      <4>2. OkPatch(f.prev, f.row, rows[p].act) \in Board
        BY <2>1, <4>1 DEF OkPatch, Board, Row
      <4>3. QED
        BY <2>2, <3>1, <4>2 DEF SettleOk, Desk, TypeOK
    <3>2. CASE Refetch(p)
      <4>1. Fetched(m) \in Board
        BY <2>2, <2>3 DEF Fetched, Unseen, Board, Row
      <4>2. [shown[m] EXCEPT !.status = f.prev.status] \in Board
        <5>1. shown[m] \in Board
          BY <2>2 DEF Desk, TypeOK
        <5>2. f.prev.status \in Statuses
          BY <2>1 DEF Board
        <5>3. QED
          BY <5>1, <5>2 DEF Board
      <4>3. \/ shown' = [shown EXCEPT ![m] = Fetched(m)]
            \/ shown' = [shown EXCEPT ![m] = [shown[m] EXCEPT !.status = f.prev.status]]
        BY <3>2 DEF Refetch
      <4>4. QED
        BY <2>2, <4>1, <4>2, <4>3 DEF Desk, TypeOK
    <3>3. CASE Reversion(p)
      BY <3>3 DEF Reversion, Desk, TypeOK
    <3>4. QED
      BY <1>6, <3>1, <3>2, <3>3
  <2>7. QED
    BY <2>1, <2>4, <2>5, <2>6 DEF Desk, TypeOK, boardVars
<1>7. QED
  BY <1>3, <1>4, <1>5, <1>6 DEF Flush

\* A network that fails and a page that reloads keep the desk in order.
LEMMA DeskNetwork ==
    ASSUME Desk, Network PROVE Desk'
<1> USE BoardAssumption, DeskNulls
<1>1. env \in Scenario
  BY DEF Desk, TypeOK
<1>2. CASE \E q \in req, lost \in BOOLEAN : FailRequest(q, lost)
  <2> PICK q \in req, lost \in BOOLEAN : FailRequest(q, lost)
    BY <1>2
  <2>0. PICK p, u : p = q.from /\ u = [q EXCEPT !.from = None]
    OBVIOUS
  <2>1. /\ p # None /\ p \in Procs /\ flow[p].at = "wait" /\ Advance(p, "networkError", None)
    BY <2>0 DEF FailRequest, Desk, Waiting, TypeOK, Requests
  <2>2. u \in Requests /\ u.c = q.c /\ u.from = None
    <3>1. q \in Requests
      BY DEF Desk, TypeOK
    <3>2. QED
      BY <2>0, <3>1 DEF Requests
  <2>3. "networkError" \in Results /\ None \in Row \cup {None}
    BY DEF Results
  <2>4. /\ rows' \in Seq(QueueRow) /\ Len(rows') = Len(rows) /\ Queued' = Queued
        /\ \A j \in Queued : Wire(j)' = Wire(j)
        /\ flow' \in [Procs -> Flows]
        /\ \A s \in Procs \ {p} : flow'[s] = flow[s]
        /\ Processes'
    BY <2>1, <2>3, AdvanceDesk
  <2>5. req' = (req \ {q}) \/ req' = (req \ {q}) \cup {u}
    BY <2>0 DEF FailRequest
  <2>6. env' \in Scenario
    BY <1>1, BudgetType DEF FailRequest, Desk, TypeOK
  <2>7. missed' \in BOOLEAN
    <3>1. missed' = (missed \/ online)
      BY DEF FailRequest
    <3>2. QED
      BY <3>1, Zenon
  <2>8. TypeOK'
    <3>1. req' \subseteq Requests
      BY <2>2, <2>5 DEF Desk, TypeOK
    <3>2. QED
      BY <2>4, <2>6, <2>7, <3>1 DEF FailRequest, Desk, TypeOK
  <2>9. Waiting'
    <3>1. ASSUME NEW r \in req \ {q}
          PROVE  /\ r.c.id \in Queued' /\ r.c = Wire(r.c.id)'
                 /\ r.from # None => flow'[r.from].at = "wait" /\ r.c.id = Min(flow'[r.from].todo)
                 /\ \A s \in req : r.from # None /\ s.from = r.from => s = r
      <4>1. r.from # p
        BY <2>0, <2>1 DEF Desk, Waiting
      <4>2. QED
        BY <2>1, <2>4, <4>1, OthersWait
    <3>2. u.c.id \in Queued' /\ u.c = Wire(u.c.id)'
      BY <2>2, <2>4 DEF Desk, Waiting
    <3>3. \A r \in req' : /\ r.c.id \in Queued' /\ r.c = Wire(r.c.id)'
                          /\ r.from # None =>
                               flow'[r.from].at = "wait" /\ r.c.id = Min(flow'[r.from].todo)
      BY <2>2, <2>5, <3>1, <3>2
    <3>4. \A r, s \in req' : r.from # None /\ s.from = r.from => s = r
      BY <2>2, <2>5, <3>1
    <3>5. QED
      BY <3>3, <3>4 DEF Waiting
  <2>10. QED
    BY <2>4, <2>8, <2>9 DEF Desk
<1>3. CASE GoOffline \/ GoOnline
  <2>1. env' \in Scenario
    BY <1>1, <1>3, BudgetType DEF GoOffline, GoOnline
  <2>2. online' \in BOOLEAN /\ wake' \in BOOLEAN /\ missed' \in BOOLEAN
    BY <1>3 DEF GoOffline, GoOnline, Desk, TypeOK
  <2>3. UNCHANGED <<asked, rows, shown, cached, flow, match, cmd, req, writes, applied, raced, plan, saves>>
    BY <1>3 DEF GoOffline, GoOnline, boardVars
  <2>4. TypeOK'
    BY <2>1, <2>2, <2>3 DEF Desk, TypeOK
  <2>5. Processes' /\ Waiting'
    BY <2>3 DEF Desk, Processes, Waiting, Queued, Wire
  <2>6. QED
    BY <2>4, <2>5 DEF Desk
<1>4. CASE Reload
  <2>1. env' \in Scenario
    BY <1>1, <1>4, BudgetType DEF Reload
  <2>2. /\ shown' \in [Matches -> Board] /\ cached' \in [Matches -> Nat \cup {None}]
        /\ asked' \in [Cmds -> Ask \cup {None}]
    BY <1>4 DEF Reload, Unseen, Board, Statuses
  <2>3. flow' \in [Procs -> Flows] /\ \A p \in Procs : flow'[p] = Idle
    BY <1>4, IdleType DEF Reload
  <2>4. \A r \in req' : \E q \in req : r = [q EXCEPT !.from = None]
    BY <1>4 DEF Reload
  <2>5. \A r \in req' : r \in Requests /\ r.from = None /\ \E q \in req : r.c = q.c
    <3> SUFFICES ASSUME NEW q \in req, NEW r, r = [q EXCEPT !.from = None]
                 PROVE  r \in Requests /\ r.from = None /\ r.c = q.c
      BY <2>4
    <3>1. q \in Requests
      BY DEF Desk, TypeOK
    <3>2. QED
      BY <3>1 DEF Requests
  <2>6. UNCHANGED <<rows, online, match, cmd, writes, applied, raced, plan, saves>> /\ wake' = TRUE /\ missed' = FALSE
    BY <1>4 DEF Reload
  <2>7. wake' \in BOOLEAN /\ missed' \in BOOLEAN
    BY <2>6, Zenon
  <2>8. TypeOK'
    BY <2>1, <2>2, <2>3, <2>5, <2>6, <2>7 DEF Desk, TypeOK
  <2>9. Queued' = Queued /\ \A j : Wire(j)' = Wire(j)
    BY <2>6 DEF Queued, Wire
  <2>10. Processes'
    BY <2>3, <2>9, IdleType DEF Processes
  <2>11. Waiting'
    BY <2>5, <2>9 DEF Waiting, Desk
  <2>12. QED
    BY <2>8, <2>10, <2>11 DEF Desk
<1>5. QED
  BY <1>2, <1>3, <1>4 DEF Network

\* A row whose court a document has changed is a row, one version later.
LEMMA MovedRow ==
    ASSUME NEW x \in Row, NEW c \in Courts \cup {None}
    PROVE  /\ [x EXCEPT !.court = c, !.ver = @ + 1] \in Row
           /\ [x EXCEPT !.court = c, !.ver = @ + 1].status = x.status
           /\ [x EXCEPT !.court = c, !.ver = @ + 1].court = c
           /\ [x EXCEPT !.court = c, !.ver = @ + 1].ver = x.ver + 1
<1>1. PICK v : v = x.ver + 1
  OBVIOUS
<1>2. v \in Nat
  BY <1>1 DEF Row
<1>3. PICK y : y = [x EXCEPT !.court = c, !.ver = v]
  OBVIOUS
<1>4. y \in Row /\ y.status = x.status /\ y.court = c /\ y.ver = v
  BY <1>2, <1>3 DEF Row
<1>5. QED
  BY <1>1, <1>3, <1>4

\* So do other devices, saved documents and the poll.
LEMMA DeskOthers ==
    ASSUME Desk, Others \/ Poll PROVE Desk'
<1>1. env \in Scenario /\ match \in [Matches -> Row]
  BY DEF Desk, TypeOK
<1>2. CASE \E m \in Matches, t \in Statuses : OtherDevice(m, t)
  <2> PICK m \in Matches, t \in Statuses : OtherDevice(m, t)
    BY <1>2
  <2>1. env' \in Scenario
    BY <1>1, BudgetType DEF OtherDevice
  <2>2. writes' \subseteq StatusWrite
    BY <1>1 DEF OtherDevice, PutRead, StatusWrite, Desk, TypeOK
  <2>3. /\ UNCHANGED <<asked, rows, shown, cached, flow, online, wake, missed>>
        /\ UNCHANGED <<match, cmd, req, applied, raced, plan, saves>>
    BY DEF OtherDevice, PutRead
  <2>4. QED
    BY <2>1, <2>2, <2>3 DEF Desk, TypeOK, Processes, Waiting, Queued, Wire
<1>5. CASE \E w \in writes : OtherDeviceCommits(w)
  <2> PICK w \in writes : OtherDeviceCommits(w)
    BY <1>5
  <2>1. w.view \in [Matches -> Row] /\ Stated(w) \in [Matches -> Row]
    BY StatedType DEF Desk, TypeOK, StatusWrite
  <2>2. match' \in [Matches -> Row]
    BY <1>1, <2>1, WrittenType DEF OtherDeviceCommits, PutCommit
  <2>3. raced' \in BOOLEAN
    <3>1. raced' = (raced \/ match # w.view)
      BY DEF OtherDeviceCommits, PutCommit
    <3>2. QED
      BY <3>1, Zenon
  <2>4. writes' \subseteq StatusWrite /\ UNCHANGED <<deskVars, cmd, req, applied, plan, saves>>
    BY DEF OtherDeviceCommits, PutCommit, Desk, TypeOK
  <2>5. QED
    BY <2>2, <2>3, <2>4 DEF Desk, TypeOK, Processes, Waiting, Queued, Wire, deskVars
<1>3. CASE \E d \in Plans : Save(d)
  <2> PICK d \in Plans : Save(d)
    BY <1>3
  <2>1. env' \in Scenario
    BY <1>1, BudgetType DEF Save
  <2>2. match' \in [Matches -> Row]
    <3>1. match' = [m \in Matches |->
                      IF match[m].court = d[m] THEN match[m]
                      ELSE [match[m] EXCEPT !.court = d[m], !.ver = @ + 1]]
      BY DEF Save, SaveDocument
    <3>2. ASSUME NEW m \in Matches
          PROVE  [match[m] EXCEPT !.court = d[m], !.ver = @ + 1] \in Row
      <4>1. match[m] \in Row /\ d[m] \in Courts \cup {None}
        BY <1>1, BoardAssumption
      <4>2. QED
        BY <4>1, MovedRow
    <3>3. QED
      BY <1>1, <3>1, <3>2
  <2>3. /\ UNCHANGED <<asked, rows, shown, cached, flow, online, wake, missed, cmd, req, writes, applied, raced>>
        /\ plan' = d /\ saves' = saves + 1
    BY DEF Save, SaveDocument
  <2>4. QED
    BY <2>1, <2>2, <2>3 DEF Desk, TypeOK, Processes, Waiting, Queued, Wire
<1>4. CASE Poll
  <2>1. shown' \in [Matches -> Board]
    <3>1. ASSUME NEW m \in Matches
          PROVE  [Fetched(m) EXCEPT !.postponed = shown[m].postponed] \in Board
      BY <1>1 DEF Fetched, Unseen, Board, Row, Desk, TypeOK
    <3>2. shown' = [m \in Matches |->
                      IF match[m].stated THEN [Fetched(m) EXCEPT !.postponed = shown[m].postponed]
                      ELSE shown[m]]
      BY <1>4 DEF Poll
    <3>3. QED
      BY <3>1, <3>2 DEF Desk, TypeOK
  <2>2. UNCHANGED <<asked, rows, cached, flow, online, wake, missed, env, boardVars>>
    BY <1>4 DEF Poll
  <2>3. QED
    BY <2>1, <2>2 DEF Desk, TypeOK, Processes, Waiting, Queued, Wire, boardVars
<1>6. QED
  BY <1>2, <1>3, <1>4, <1>5 DEF Others

\* A submit enqueues its command at once or asks for the version first.
LEMMA DeskSubmit ==
    ASSUME Desk, NEW m \in Matches, NEW act \in MatchActions, NEW court \in Courts \cup {None},
           NEW displaced \in SUBSET Matches, Submit(m, act, court, displaced)
    PROVE  Desk'
<1>1. shown[m] \in Board /\ asked \in [Cmds -> Ask \cup {None}]
  BY DEF Desk, TypeOK
<1>2. CASE cached[m] # None
  <2>1. Enqueue(m, act, court, displaced, cached[m], shown[m]) /\ asked' = asked
    BY <1>2 DEF Submit
  <2>2. cached[m] \in Nat
    BY <1>2 DEF Desk, TypeOK
  <2>3. QED
    BY <1>1, <2>1, <2>2, EnqueueDesk
<1>3. CASE cached[m] = None
  <2> DEFINE a == [m |-> m, act |-> act, court |-> court, displaced |-> displaced, prev |-> shown[m]]
  <2>1. /\ \E k \in Cmds : asked' = [asked EXCEPT ![k] = a]
        /\ UNCHANGED <<rows, shown, cached, flow, online, wake, missed, env, boardVars>>
    BY <1>3 DEF Submit
  <2>2. a \in Ask
    BY <1>1 DEF Ask
  <2> HIDE DEF a
  <2>3. asked' \in [Cmds -> Ask \cup {None}]
    BY <1>1, <2>1, <2>2
  <2>4. QED
    BY <2>1, <2>3 DEF Desk, TypeOK, Processes, Waiting, Queued, Wire, boardVars
<1>4. QED
  BY <1>2, <1>3

\* And so does what the operator presses.
LEMMA DeskOperator ==
    ASSUME Desk, Operator PROVE Desk'
<1>1. CASE \E m \in Matches, act \in MatchActions, court \in Courts \cup {None} : Press(m, act, court)
  BY <1>1, DeskSubmit DEF Press
<1>2. CASE \E m \in Matches : KeepOnCourt(m)
  <2> PICK m \in Matches : KeepOnCourt(m)
    BY <1>2
  <2>1. /\ Claimants(m) \ {m} \in SUBSET Matches
        /\ Submit(m, "resolve_court", None, Claimants(m) \ {m})
    BY DEF KeepOnCourt, Claimants
  <2>2. "resolve_court" \in MatchActions /\ None \in Courts \cup {None}
    BY DEF MatchActions
  <2>3. QED
    BY <2>1, <2>2, DeskSubmit
<1>3. CASE \E k \in Cmds : ColdRead(k)
  <2> PICK k \in Cmds : ColdRead(k)
    BY <1>3
  <2>1. PICK a : a = asked[k]
    OBVIOUS
  <2>2. a \in Ask /\ asked' \in [Cmds -> Ask \cup {None}]
    BY <2>1 DEF ColdRead, Desk, TypeOK
  <2>3. a.m \in Matches /\ a.act \in MatchActions /\ a.court \in Courts \cup {None}
        /\ a.displaced \in SUBSET Matches /\ a.prev \in Board
    BY <2>2 DEF Ask
  <2>4. VersionRead(a.m) \in Nat
    BY <2>3 DEF VersionRead, Desk, TypeOK, Row
  <2>5. Enqueue(a.m, a.act, a.court, a.displaced, VersionRead(a.m), a.prev)
    BY <2>1 DEF ColdRead
  <2>6. QED
    BY <2>2, <2>3, <2>4, <2>5, EnqueueDesk
<1>4. QED
  BY <1>1, <1>2, <1>3 DEF Operator

\* Nothing the operator does reaches the board at once.
LEMMA OperatorWaits ==
    ASSUME Operator PROVE UNCHANGED boardVars
<1>1. ASSUME NEW m, NEW act, NEW court, NEW displaced, NEW seen, NEW prev,
             Enqueue(m, act, court, displaced, seen, prev)
      PROVE  UNCHANGED boardVars
  BY <1>1 DEF Enqueue
<1>2. ASSUME NEW m, NEW act, NEW court, NEW displaced, Submit(m, act, court, displaced)
      PROVE  UNCHANGED boardVars
  BY <1>1, <1>2 DEF Submit
<1>3. CASE \E m \in Matches, act \in MatchActions, court \in Courts \cup {None} : Press(m, act, court)
  BY <1>2, <1>3 DEF Press
<1>4. CASE \E m \in Matches : KeepOnCourt(m)
  BY <1>2, <1>4 DEF KeepOnCourt
<1>5. CASE \E k \in Cmds : ColdRead(k)
  BY <1>1, <1>5 DEF ColdRead
<1>6. QED
  BY <1>3, <1>4, <1>5 DEF Operator

\* Every press and every version that arrives enqueues one command or none.
LEMMA Enqueues ==
    ASSUME Desk, Operator
    PROVE  \/ UNCHANGED <<rows, cached, flow, boardVars>>
           \/ \E m \in Matches, act \in MatchActions, court \in Courts \cup {None},
                 displaced \in SUBSET Matches, seen \in Nat, prev \in Board :
                /\ Enqueue(m, act, court, displaced, seen, prev)
                /\ seen = cached[m] \/ seen = 0 \/ seen = match[m].ver
<1>1. ASSUME NEW m \in Matches, NEW act \in MatchActions, NEW court \in Courts \cup {None},
             NEW displaced \in SUBSET Matches, Submit(m, act, court, displaced)
      PROVE  \/ UNCHANGED <<rows, cached, flow, boardVars>>
             \/ \E seen \in Nat, prev \in Board :
                  Enqueue(m, act, court, displaced, seen, prev) /\ seen = cached[m]
  <2>1. CASE cached[m] # None
    <3>1. cached[m] \in Nat /\ shown[m] \in Board
      BY <2>1 DEF Desk, TypeOK
    <3>2. QED
      BY <1>1, <2>1, <3>1 DEF Submit
  <2>2. CASE cached[m] = None
    BY <1>1, <2>2 DEF Submit
  <2>3. QED
    BY <2>1, <2>2
<1>2. CASE \E m \in Matches, act \in MatchActions, court \in Courts \cup {None} : Press(m, act, court)
  <2> PICK m \in Matches, act \in MatchActions, court \in Courts \cup {None} : Press(m, act, court)
    BY <1>2
  <2>1. Submit(m, act, court, {}) /\ {} \in SUBSET Matches
    BY DEF Press
  <2>2. QED
    BY <1>1, <2>1
<1>3. CASE \E m \in Matches : KeepOnCourt(m)
  <2> PICK m \in Matches : KeepOnCourt(m)
    BY <1>3
  <2>1. /\ Claimants(m) \ {m} \in SUBSET Matches
        /\ Submit(m, "resolve_court", None, Claimants(m) \ {m})
        /\ "resolve_court" \in MatchActions /\ None \in Courts \cup {None}
    BY DEF KeepOnCourt, Claimants, MatchActions
  <2>2. QED
    BY <1>1, <2>1
<1>4. CASE \E k \in Cmds : ColdRead(k)
  <2> PICK k \in Cmds : ColdRead(k)
    BY <1>4
  <2>1. PICK a : a = asked[k]
    OBVIOUS
  <2>2. a \in Ask
    BY <2>1 DEF ColdRead, Desk, TypeOK
  <2>3. a.m \in Matches /\ a.act \in MatchActions /\ a.court \in Courts \cup {None}
        /\ a.displaced \in SUBSET Matches /\ a.prev \in Board
    BY <2>2 DEF Ask
  <2>4. PICK seen : seen = VersionRead(a.m)
    OBVIOUS
  <2>5. seen \in Nat /\ (seen = 0 \/ seen = match[a.m].ver)
    BY <2>3, <2>4 DEF VersionRead, Desk, TypeOK, Row
  <2>6. Enqueue(a.m, a.act, a.court, a.displaced, seen, a.prev)
    BY <2>1, <2>4 DEF ColdRead
  <2>7. QED
    BY <2>3, <2>5, <2>6
<1>5. QED
  BY <1>2, <1>3, <1>4 DEF Operator

\* The desk stays in order.
LEMMA DeskStep == Desk /\ [Next]_vars => Desk'
<1> SUFFICES ASSUME Desk, [Next]_vars PROVE Desk'
  OBVIOUS
<1>1. CASE Operator
  BY <1>1, DeskOperator
<1>2. CASE Network
  BY <1>2, DeskNetwork
<1>3. CASE Others \/ Poll
  BY <1>3, DeskOthers
<1>4. CASE StartDrain
  BY <1>4, DeskFlush, BoardAssumption DEF Procs, Drain
<1>5. CASE \E p \in Procs : Flush(p)
  BY <1>5, DeskFlush
<1>6. CASE \E q \in req : Serve(q)
  BY <1>6, DeskServe
<1>7. CASE UNCHANGED vars
  BY <1>7 DEF vars, boardVars, deskVars, Desk, TypeOK, Processes, Waiting, Queued, Wire
<1>8. QED
  BY <1>1, <1>2, <1>3, <1>4, <1>5, <1>6, <1>7 DEF Next

\* Queue rows, flushes, requests, the board and the match rows keep their types for
\* any number of matches, courts and commands.
THEOREM TypeCorrect == Spec => []TypeOK
<1>1. Desk => TypeOK
  BY DEF Desk
<1>2. QED
  BY DeskInit, DeskStep, <1>1, PTL DEF Spec

-------------------------------------------------------------------------------
\* What an answer does to the queue: at most the row of its command is marked, and
\* only the submit of that command keeps the match row that came with it.
LEMMA DeliverMarks ==
    ASSUME Desk, NEW q \in req, NEW kind \in Results, NEW row \in Row \cup {None},
           kind = "ok" => row # None, Deliver(q, kind, row)
    PROVE  /\ Queued' = Queued
           /\ \A j \in Queued :
                /\ rows'[j].m = rows[j].m /\ rows'[j].act = rows[j].act
                /\ rows'[j].seen = rows[j].seen
                /\ \/ rows'[j].st = rows[j].st
                   \/ j = q.c.id /\ rows'[j].st = Marked(rows[j].st, kind)
           /\ \A p \in Procs : flow'[p].own = "ok" =>
                \/ flow[p].own = "ok" /\ flow'[p].row = flow[p].row
                \/ p = q.c.id /\ kind = "ok" /\ flow'[p].row = row
<1>1. CASE q.from = None
  BY <1>1 DEF Deliver, Queued
<1>2. CASE q.from # None
  <2>1. PICK p : p = q.from
    OBVIOUS
  <2>2. /\ p \in Procs /\ flow[p].at \in {"flush", "wait"} /\ Advance(p, kind, row)
        /\ q.c.id = Min(flow[p].todo)
    BY <1>2, <2>1 DEF Deliver, Desk, Waiting, TypeOK, Requests
  <2>3. QED
    BY <2>2, AdvanceDesk
<1>3. QED
  BY <1>1, <1>2

\* What the steps that decide nothing do to the queue.
Undecided ==
    /\ UNCHANGED <<cmd, applied>>
    /\ \A i \in Queued' \ Queued : rows'[i].st = "pending"
    /\ \A i \in Queued : /\ i \in Queued' /\ rows'[i].m = rows[i].m
                         /\ rows'[i].act = rows[i].act /\ rows'[i].seen = rows[i].seen
                         /\ rows'[i].st = rows[i].st

\* Every step but an answer of the server decides nothing.
LEMMA DecidesNothing ==
    ASSUME Desk, [Next]_vars PROVE Undecided \/ \E q \in req : Serve(q)
<1> USE BoardAssumption, DeskNulls
<1>1. CASE Operator
  <2>1. ASSUME NEW m, NEW act, NEW court, NEW displaced, NEW seen, NEW prev,
               Enqueue(m, act, court, displaced, seen, prev)
        PROVE  Undecided
    <3>1. PICK r : /\ r = [m |-> m, act |-> act, court |-> court, st |-> "pending",
                           displaced |-> displaced, seen |-> seen]
                   /\ rows' = Append(rows, r)
      BY <2>1 DEF Enqueue
    <3>2. /\ rows \in Seq(QueueRow) /\ Queued = 1..Len(rows) /\ Len(rows) \in Nat
          /\ Queued' = 1..(Len(rows) + 1)
          /\ \A i \in Queued : rows'[i] = rows[i]
          /\ rows'[Len(rows) + 1] = r /\ r.st = "pending"
      BY <3>1 DEF Desk, TypeOK, Queued
    <3>3. UNCHANGED <<cmd, applied>>
      BY <2>1 DEF Enqueue, boardVars
    <3>4. QED
      BY <3>2, <3>3 DEF Undecided, Queued
  <2>2. CASE UNCHANGED <<rows, boardVars>>
    BY <2>2 DEF Undecided, Queued, boardVars
  <2>3. QED
    BY <1>1, <2>1, <2>2, Enqueues
<1>2. CASE \E q \in req, lost \in BOOLEAN : FailRequest(q, lost)
  <2> PICK q \in req, lost \in BOOLEAN : FailRequest(q, lost)
    BY <1>2
  <2>0. PICK p : p = q.from
    OBVIOUS
  <2>1. /\ p \in Procs /\ flow[p].at \in {"flush", "wait"} /\ Advance(p, "networkError", None)
        /\ "networkError" \in Results /\ None \in Row \cup {None}
    BY <2>0 DEF FailRequest, Desk, Waiting, TypeOK, Requests, Results
  <2>2. /\ Queued' = Queued
        /\ \A j \in Queued :
             /\ rows'[j].m = rows[j].m /\ rows'[j].act = rows[j].act /\ rows'[j].seen = rows[j].seen
             /\ rows'[j].st = IF j = Min(flow[p].todo) THEN Marked(rows[j].st, "networkError")
                              ELSE rows[j].st
    BY <2>1, AdvanceDesk
  <2>3. QED
    BY <2>2 DEF FailRequest, Undecided, Marked
<1>3. CASE \E p \in Procs : PostOffline(p)
  <2> PICK p \in Procs : PostOffline(p)
    BY <1>3
  <2>1. /\ flow[p].at \in {"flush", "wait"} /\ Advance(p, "networkError", None)
        /\ "networkError" \in Results /\ None \in Row \cup {None}
    BY DEF PostOffline, Results
  <2>2. /\ Queued' = Queued
        /\ \A j \in Queued :
             /\ rows'[j].m = rows[j].m /\ rows'[j].act = rows[j].act /\ rows'[j].seen = rows[j].seen
             /\ rows'[j].st = IF j = Min(flow[p].todo) THEN Marked(rows[j].st, "networkError")
                              ELSE rows[j].st
    BY <2>1, AdvanceDesk
  <2>3. QED
    BY <2>2 DEF PostOffline, Undecided, Marked, boardVars
<1>4. CASE UNCHANGED <<rows, cmd, applied>>
  BY <1>4 DEF Undecided, Queued
<1>5. CASE GoOffline \/ GoOnline \/ Reload \/ Others \/ Poll \/ StartDrain
  BY <1>4, <1>5 DEF GoOffline, GoOnline, Reload, Others, OtherDevice, OtherDeviceCommits, PutRead,
                    PutCommit, Save, SaveDocument, Poll, StartDrain, boardVars, deskVars
<1>6. CASE \E p \in Procs : Flush(p) /\ ~PostOffline(p)
  BY <1>4, <1>6 DEF Flush, StartFlush, Post, SettleOk, Refetch, Reversion, boardVars
<1>7. CASE UNCHANGED vars
  BY <1>4, <1>7 DEF vars, boardVars, deskVars
<1>8. QED
  BY <1>1, <1>2, <1>3, <1>5, <1>6, <1>7 DEF Next, Network

\* The server decides a command id once, and the queue learns what it decided.
LEMMA OnceStep ==
    ASSUME Desk, ExactlyOnce, [Next]_vars PROVE ExactlyOnce'
<1> USE DeskNulls
<1>0. /\ Queued = DOMAIN rows /\ applied \in Seq(Cmds) /\ DOMAIN applied = 1..Len(applied)
      /\ Len(applied) \in Nat /\ cmd \in [Cmds -> {"none", "applied", "rejected"}]
  BY DEF Desk, TypeOK, Queued
<1>1. CASE Undecided
  BY <1>1 DEF Undecided, ExactlyOnce
<1>2. CASE \E q \in req : Serve(q)
  <2> PICK q \in req : Serve(q)
    BY <1>2
  <2>1. /\ q \in Requests /\ q.c.id \in Cmds /\ q.c.m \in Matches /\ match \in [Matches -> Row]
    BY DEF Desk, TypeOK, Requests, Command
  <2>2. CASE Read(q)
    BY <2>2 DEF Read, ReadRows, deskVars, ExactlyOnce, Queued
  <2>3. CASE AnswerReplay(q)
    <3>1. PICK kind, row : kind = Replayed(q).kind /\ row = Replayed(q).row
      OBVIOUS
    <3>2. /\ kind = IF cmd[q.c.id] = "applied" THEN "ok" ELSE "conflict"
          /\ kind \in Results /\ row \in Row
      BY <2>1, <3>1 DEF Replayed, Results
    <3>3. Deliver(q, kind, row) /\ cmd[q.c.id] # "none" /\ UNCHANGED <<cmd, applied>>
      BY <2>3, <3>1 DEF AnswerReplay, Replay
    <3>4. /\ Queued' = Queued
          /\ \A j \in Queued : \/ rows'[j].st = rows[j].st
                               \/ j = q.c.id /\ rows'[j].st = Marked(rows[j].st, kind)
      BY <3>2, <3>3, DeliverMarks
    <3>5. cmd[q.c.id] = "applied" \/ cmd[q.c.id] = "rejected"
      BY <1>0, <2>1, <3>3
    <3>6. QED
      BY <3>2, <3>3, <3>4, <3>5 DEF ExactlyOnce, Marked
  <2>4. CASE AnswerCommit(q)
    <3>1. PICK kind, row, i : kind = Decision(q).kind /\ row = Decision(q).rows[q.c.m] /\ i = q.c.id
      OBVIOUS
    <3>2. q.view # None /\ cmd[i] = "none" /\ Deliver(q, kind, row) /\ i \in Cmds
      BY <2>1, <2>4, <3>1 DEF AnswerCommit, Commit
    <3>3. kind \in {"ok", "staleVersion", "conflict"} /\ kind \in Results /\ row \in Row
      BY <2>1, <3>1, <3>2, DecisionType DEF Results
    <3>4. /\ Queued' = Queued
          /\ \A j \in Queued : \/ rows'[j].st = rows[j].st
                               \/ j = i /\ rows'[j].st = Marked(rows[j].st, kind)
      BY <3>1, <3>2, <3>3, DeliverMarks
    <3>5. \A k \in DOMAIN applied : applied[k] # i
      BY <3>2 DEF ExactlyOnce
    <3>6. i \in Queued => rows[i].st \notin {"applied", "rejected", "conflict"}
      BY <3>2 DEF ExactlyOnce
    <3>7. CASE kind = "ok"
      <4>1. applied' = Append(applied, i) /\ cmd' = [cmd EXCEPT ![i] = "applied"]
        BY <2>4, <3>1, <3>7 DEF AnswerCommit, Commit
      <4>2. /\ DOMAIN applied' = 1..(Len(applied) + 1)
            /\ \A k \in DOMAIN applied : applied'[k] = applied[k]
            /\ applied'[Len(applied) + 1] = i
        BY <1>0, <3>2, <4>1, AppendProperties
      <4>3. \A k, l \in DOMAIN applied' : applied'[k] = applied'[l] => k = l
        BY <1>0, <3>5, <4>2 DEF ExactlyOnce
      <4>4. \A j \in Cmds : cmd'[j] = "applied" <=> \E k \in DOMAIN applied' : applied'[k] = j
        BY <1>0, <3>2, <4>1, <4>2 DEF ExactlyOnce
      <4>5. \A j \in Queued' : /\ rows'[j].st = "applied" => cmd'[j] = "applied"
                               /\ rows'[j].st \in {"rejected", "conflict"} => cmd'[j] = "rejected"
        BY <1>0, <3>2, <3>4, <3>6, <3>7, <4>1 DEF ExactlyOnce, Marked
      <4>6. QED
        BY <4>3, <4>4, <4>5 DEF ExactlyOnce
    <3>8. CASE kind # "ok"
      <4>1. UNCHANGED applied /\ cmd' = [cmd EXCEPT ![i] = "rejected"]
        BY <2>4, <3>1, <3>8 DEF AnswerCommit, Commit
      <4>2. \A j \in Cmds : cmd'[j] = "applied" <=> \E k \in DOMAIN applied' : applied'[k] = j
        BY <1>0, <3>2, <3>5, <4>1 DEF ExactlyOnce
      <4>3. \A j \in Queued' : /\ rows'[j].st = "applied" => cmd'[j] = "applied"
                               /\ rows'[j].st \in {"rejected", "conflict"} => cmd'[j] = "rejected"
        BY <1>0, <3>2, <3>3, <3>4, <3>6, <3>8, <4>1 DEF ExactlyOnce, Marked
      <4>4. QED
        BY <4>1, <4>2, <4>3 DEF ExactlyOnce
    <3>9. QED
      BY <3>7, <3>8
  <2>5. CASE Answer500(q)
    <3>1. /\ Deliver(q, "networkError", None) /\ UNCHANGED <<cmd, applied>>
          /\ "networkError" \in Results /\ None \in Row \cup {None}
      BY <2>5 DEF Answer500, Collide, Results
    <3>2. /\ Queued' = Queued
          /\ \A j \in Queued : \/ rows'[j].st = rows[j].st
                               \/ j = q.c.id /\ rows'[j].st = Marked(rows[j].st, "networkError")
      BY <3>1, DeliverMarks
    <3>3. QED
      BY <3>1, <3>2 DEF ExactlyOnce, Marked
  <2>6. QED
    BY <2>2, <2>3, <2>4, <2>5 DEF Serve
<1>3. QED
  BY <1>1, <1>2, DecidesNothing

\* However many flushes, drains, replays, reloads and late requests carry a command,
\* the board takes it at most once, and the queue says what the server decided.
THEOREM CommandsExactlyOnce == Spec => []ExactlyOnce
<1>1. Init => ExactlyOnce
  BY DEF Init, BoardInit, ExactlyOnce, Queued
<1>2. Desk /\ ExactlyOnce /\ [Next]_vars => ExactlyOnce'
  BY OnceStep
<1>3. QED
  BY DeskInit, DeskStep, <1>1, <1>2, PTL DEF Spec

-------------------------------------------------------------------------------
\* On rows that nobody changed in between, the rows a command leaves are its effect.
LEMMA WrittenSame ==
    ASSUME NEW v \in [Matches -> Row], NEW e \in [Matches -> Row] PROVE Written(v, v, e) = e
<1> SUFFICES ASSUME NEW m \in Matches
             PROVE  [status |-> Column(v[m].status, v[m].status, e[m].status),
                     court  |-> Column(v[m].court, v[m].court, e[m].court),
                     ver    |-> Column(v[m].ver, v[m].ver, e[m].ver),
                     stated |-> Column(v[m].stated, v[m].stated, e[m].stated)] = e[m]
  BY DEF Written
<1>1. \A a, b : Column(a, a, b) = b
  BY DEF Column
<1>2. e[m] \in Row
  OBVIOUS
<1>3. e[m] = [status |-> e[m].status, court |-> e[m].court, ver |-> e[m].ver, stated |-> e[m].stated]
  BY <1>2 DEF Row
<1>4. QED
  BY <1>1, <1>3

\* What a command that is applied on the rows it read does, match by match.
LEMMA AppliedEffect ==
    ASSUME Desk, NEW q \in req, Commit(q), Decision(q).kind = "ok", ~raced'
    PROVE  /\ ~raced
           /\ match[q.c.m].ver = q.c.seen
           /\ \A m \in Matches : match'[m].ver >= match[m].ver
           /\ q.c.act # "resolve_court" => match'[q.c.m].ver = match[q.c.m].ver + 1
           /\ q.c.act # "resolve_court" => Permitted(q.c, match)
           /\ match' = Effect(q.c, match)
<1>1. /\ q \in Requests /\ q.view # None /\ q.view \in [Matches -> Row] /\ q.c \in Command
      /\ match \in [Matches -> Row] /\ q.c.m \in Matches
  BY DEF Commit, Desk, TypeOK, Requests, Command
<1>2. raced' = (raced \/ match # q.view) /\ match' = Decision(q).rows
  BY DEF Commit
<1>3. ~raced /\ match = q.view
  BY <1>2
<1>4. Effect(q.c, match) \in [Matches -> Row]
  BY <1>1, EffectType
<1>5. match' = Effect(q.c, match)
  BY <1>1, <1>2, <1>3, <1>4, WrittenSame DEF Decision
<1>6. Verdict(q.c, match) = "ok"
  BY <1>3 DEF Decision
<1>7. match[q.c.m].ver = q.c.seen /\ (q.c.act # "resolve_court" => Permitted(q.c, match))
  BY <1>6 DEF Verdict
<1>8. \A m \in Matches : match[m].ver \in Nat
  BY <1>1 DEF Row
<1>9. ASSUME NEW m \in Matches
      PROVE  /\ match'[m].ver >= match[m].ver
             /\ m = q.c.m /\ q.c.act # "resolve_court" => match'[m].ver = match[m].ver + 1
  BY <1>5, <1>8 DEF Effect, Displaced, Mutated
<1>10. QED
  BY <1>1, <1>3, <1>5, <1>7, <1>9

\* A match that moves to a status the court guard allows, and stays where it is,
\* leaves the playing matches apart.
LEMMA StaysApart ==
    ASSUME NEW r, NEW s, Apart(r), NEW m \in Matches, NEW t,
           CourtAvailable(r, m, t), s[m].status = t, t = "playing" => s[m].court = r[m].court,
           \A n \in Matches \ {m} : s[n].status = r[n].status /\ s[n].court = r[n].court
    PROVE  Apart(s)
BY DEF Apart, CourtAvailable, CourtTaken, occupies_court_now

\* A status write that has read its rows found the court available on them.
Granted == \A w \in writes : CourtAvailable(w.view, w.m, w.target)

LEMMA GrantedStep == Granted /\ [Next]_vars => Granted'
<1> SUFFICES ASSUME Granted, [Next]_vars PROVE Granted'
  OBVIOUS
<1>1. CASE writes' \subseteq writes
  BY <1>1 DEF Granted
<1>2. CASE \E m \in Matches, t \in Statuses : OtherDevice(m, t)
  <2> PICK m \in Matches, t \in Statuses : OtherDevice(m, t)
    BY <1>2
  <2>1. CourtAvailable(match, m, t) /\ writes' = writes \cup {[m |-> m, target |-> t, view |-> match]}
    BY DEF OtherDevice, PutRead
  <2>2. PICK x : x = [m |-> m, target |-> t, view |-> match]
    OBVIOUS
  <2>3. CourtAvailable(x.view, x.m, x.target) /\ writes' = writes \cup {x}
    BY <2>1, <2>2
  <2>4. QED
    BY <2>3 DEF Granted
<1>3. CASE (\E w \in writes : OtherDeviceCommits(w)) \/ (\E d \in Plans : Save(d))
  BY <1>1, <1>3 DEF OtherDeviceCommits, PutCommit, Save, SaveDocument
<1>4. CASE Operator
  BY <1>1, <1>4, OperatorWaits DEF boardVars
<1>5. CASE Network \/ Poll \/ StartDrain
  BY <1>1, <1>5 DEF Network, FailRequest, GoOffline, GoOnline, Reload, Poll, StartDrain, boardVars
<1>6. CASE \E p \in Procs : Flush(p)
  BY <1>1, <1>6 DEF Flush, StartFlush, Post, PostOffline, SettleOk, Refetch, Reversion, boardVars
<1>7. CASE \E q \in req : Serve(q)
  BY <1>1, <1>7 DEF Serve, Read, ReadRows, AnswerReplay, Replay, AnswerCommit, Commit, Answer500, Collide
<1>8. CASE UNCHANGED vars
  BY <1>1, <1>8 DEF vars, boardVars
<1>9. QED
  BY <1>2, <1>3, <1>4, <1>5, <1>6, <1>7, <1>8 DEF Next, Others

\* Commands and status writes of any number of devices leave at most one playing
\* match on a court, as long as no commit overwrites rows it had not read and no
\* saved document moves a match.
THEOREM OneMatchPerCourt == Spec => []OnePlayingPerCourt
<1>1. Init => OnePlayingPerCourt
  <2> SUFFICES ASSUME Init PROVE Apart(match)
    BY DEF OnePlayingPerCourt, Apart
  <2>1. env \in Scenarios
    BY DEF Init
  <2>2. \A m \in Matches : match[m].status = env.start[m] /\ match[m].court = env.document[m]
    BY DEF Init, BoardInit
  <2>3. QED
    BY <2>1, <2>2, DeskAssumption DEF Apart
<1>2. Desk /\ Granted /\ OnePlayingPerCourt /\ [Next]_vars => OnePlayingPerCourt'
  <2> SUFFICES ASSUME Desk, Granted, OnePlayingPerCourt, [Next]_vars, ~raced', saves' = 0
               PROVE  Apart(match')
    BY DEF OnePlayingPerCourt, Apart
  <2>0. match \in [Matches -> Row] /\ saves \in Nat
    BY DEF Desk, TypeOK
  <2>1. CASE UNCHANGED <<match, raced, saves>>
    BY <2>1 DEF OnePlayingPerCourt, Apart
  <2>2. CASE \E q \in req : AnswerCommit(q)
    <3> PICK q \in req : AnswerCommit(q)
      BY <2>2
    <3>1. Commit(q) /\ saves' = saves /\ q.c.m \in Matches /\ q.c \in Command
      BY DEF AnswerCommit, Commit, Desk, TypeOK, Requests, Command
    <3>2. CASE Decision(q).kind # "ok"
      BY <2>1, <3>1, <3>2 DEF Commit
    <3>3. CASE Decision(q).kind = "ok"
      <4>1. /\ ~raced /\ match' = Effect(q.c, match)
            /\ q.c.act # "resolve_court" => Permitted(q.c, match)
        BY <3>1, <3>3, AppliedEffect
      <4>2. Apart(match)
        BY <3>1, <4>1 DEF OnePlayingPerCourt, Apart
      <4>3. CASE q.c.act = "resolve_court"
        <5>1. \A m \in Matches : match'[m] = match[m] \/ match'[m].status = "scheduled"
          BY <4>1, <4>3 DEF Effect, Displaced
        <5>2. QED
          BY <4>2, <5>1 DEF Apart
      <4>4. CASE q.c.act # "resolve_court"
        <5>1. PICK m, t : m = q.c.m /\ t = ACTION_TO_TARGET_STATUS[q.c.act]
          OBVIOUS
        <5>2. CourtAvailable(match, m, t) /\ m \in Matches
          BY <3>1, <4>1, <4>4, <5>1 DEF Permitted
        <5>3. t = "playing" => q.c.act = "start_match"
          BY <3>1, <4>4, <5>1, TargetType DEF Command
        <5>4. match'[m] = Mutated(q.c, match[m]) /\ \A n \in Matches \ {m} : match'[n] = match[n]
          BY <4>1, <4>4, <5>1, <5>2 DEF Effect
        <5>5. match'[m].status = t /\ (t = "playing" => match'[m].court = match[m].court)
          BY <5>1, <5>3, <5>4 DEF Mutated
        <5>6. QED
          BY <4>2, <5>2, <5>4, <5>5, StaysApart
      <4>5. QED
        BY <4>3, <4>4
    <3>4. QED
      BY <3>2, <3>3
  <2>3. CASE \E w \in writes : OtherDeviceCommits(w)
    <3> PICK w \in writes : OtherDeviceCommits(w)
      BY <2>3
    <3>1. w \in StatusWrite /\ w.m \in Matches /\ w.view \in [Matches -> Row]
      BY DEF Desk, TypeOK, StatusWrite
    <3>2. /\ match' = Written(match, w.view, Stated(w)) /\ raced' = (raced \/ match # w.view)
          /\ UNCHANGED saves
      BY DEF OtherDeviceCommits, PutCommit
    <3>3. ~raced /\ match = w.view
      BY <3>2
    <3>4. match' = Stated(w)
      BY <3>1, <3>2, <3>3, StatedType, WrittenSame
    <3>5. /\ match'[w.m].status = w.target /\ match'[w.m].court = match[w.m].court
          /\ \A n \in Matches \ {w.m} : match'[n] = match[n]
      BY <3>1, <3>3, <3>4, StatedType
    <3>6. CourtAvailable(match, w.m, w.target)
      BY <3>3 DEF Granted
    <3>7. Apart(match)
      BY <3>2, <3>3 DEF OnePlayingPerCourt, Apart
    <3>8. QED
      BY <3>1, <3>5, <3>6, <3>7, StaysApart
  <2>4. CASE \E d \in Plans : Save(d)
    <3>1. saves' = saves + 1
      BY <2>4 DEF Save, SaveDocument
    <3>2. QED
      BY <2>0, <3>1
  <2>5. CASE Operator \/ Network \/ Poll \/ StartDrain \/ \E p \in Procs : Flush(p)
    <3>1. CASE Operator
      BY <2>1, <3>1, OperatorWaits DEF boardVars
    <3>2. CASE Network
      BY <2>1, <3>2 DEF Network, FailRequest, GoOffline, GoOnline, Reload, boardVars
    <3>3. CASE Poll \/ StartDrain
      BY <2>1, <3>3 DEF Poll, StartDrain, boardVars
    <3>4. CASE \E p \in Procs : Flush(p)
      BY <2>1, <3>4 DEF Flush, StartFlush, Post, PostOffline, SettleOk, Refetch,
                        Reversion, boardVars
    <3>5. QED
      BY <2>5, <3>1, <3>2, <3>3, <3>4
  <2>6. CASE \E q \in req : Read(q) \/ AnswerReplay(q) \/ Answer500(q)
    BY <2>1, <2>6 DEF Read, ReadRows, AnswerReplay, Replay, Answer500, Collide
  <2>7. CASE UNCHANGED vars \/ \E m \in Matches, t \in Statuses : OtherDevice(m, t)
    BY <2>1, <2>7 DEF vars, boardVars, OtherDevice, PutRead
  <2>8. QED
    BY <2>2, <2>3, <2>4, <2>5, <2>6, <2>7 DEF Next, Others, Serve
<1>3. Init => Granted
  BY DEF Init, BoardInit, Granted
<1>4. QED
  BY DeskInit, DeskStep, GrantedStep, <1>1, <1>2, <1>3, PTL DEF Spec

-------------------------------------------------------------------------------
\* Versions only grow, so nothing the desk knows of a match is newer than the match,
\* and a command that a later one has overtaken carries an old version.
Versions ==
    ~raced =>
      /\ \A m \in Matches : cached[m] # None => cached[m] <= match[m].ver
      /\ \A i \in Queued : rows[i].seen <= match[rows[i].m].ver
      /\ \A p \in Queued : flow[p].own = "ok" => flow[p].row.ver <= match[rows[p].m].ver
      /\ \A i \in Queued, k \in DOMAIN applied :
           /\ i < applied[k]
           /\ rows[i].m = rows[applied[k]].m
           /\ rows[applied[k]].act # "resolve_court"
           => rows[i].seen < match[rows[i].m].ver

\* Only queued commands are decided.
Known == \A k \in DOMAIN applied : applied[k] \in Queued

Ordered == Versions /\ Known /\ InOrder

\* Order survives a step that applies no command and lowers no version, when what it
\* learns is not newer than the match.
LEMMA OrderedKept ==
    ASSUME Desk, Desk', Ordered, UNCHANGED <<applied, raced>>,
           \A m \in Matches : match'[m].ver >= match[m].ver,
           Queued' = Queued,
           \A j \in Queued : /\ rows'[j].m = rows[j].m /\ rows'[j].act = rows[j].act
                             /\ rows'[j].seen = rows[j].seen,
           ~raced => \A m \in Matches : cached'[m] # None => cached'[m] <= match'[m].ver,
           ~raced => \A p \in Queued :
                       flow'[p].own = "ok" => flow'[p].row.ver <= match'[rows[p].m].ver
    PROVE  Ordered'
<1>1. \A j \in Queued : rows[j].seen \in Nat /\ rows[j].m \in Matches
  <2> SUFFICES ASSUME NEW j \in Queued PROVE rows[j].seen \in Nat /\ rows[j].m \in Matches
    OBVIOUS
  <2>1. rows[j] \in QueueRow
    BY DEF Desk, TypeOK, Queued
  <2>2. QED
    BY <2>1 DEF QueueRow
<1>2. \A m \in Matches : match[m].ver \in Nat /\ match'[m].ver \in Nat
  BY DEF Desk, TypeOK, Row
<1>3. Known' /\ InOrder'
  BY DEF Ordered, Known, InOrder
<1>4. ASSUME ~raced, NEW i \in Queued, NEW k \in DOMAIN applied,
             i < applied[k], rows[i].m = rows[applied[k]].m, rows[applied[k]].act # "resolve_court"
      PROVE  rows[i].seen < match'[rows[i].m].ver
  BY <1>1, <1>2, <1>4 DEF Ordered, Versions
<1>5. Versions'
  BY <1>1, <1>2, <1>4 DEF Ordered, Versions, Known
<1>6. QED
  BY <1>3, <1>5 DEF Ordered

\* Order survives a step that leaves the board, the queue and the versions alone and
\* gives no flush a new result.
LEMMA OrderedQuiet ==
    ASSUME Desk, Desk', Ordered, UNCHANGED <<applied, raced, match, cached>>, Queued' = Queued,
           \A j \in Queued : /\ rows'[j].m = rows[j].m /\ rows'[j].act = rows[j].act
                             /\ rows'[j].seen = rows[j].seen,
           \A p \in Queued : flow'[p].own = "ok" =>
                               flow[p].own = "ok" /\ flow'[p].row = flow[p].row
    PROVE  Ordered'
<1>1. \A m \in Matches : match[m].ver \in Nat /\ match'[m].ver = match[m].ver
  BY DEF Desk, TypeOK, Row
<1>2. \A m \in Matches : match'[m].ver >= match[m].ver
  BY <1>1
<1>3. ~raced => \A m \in Matches : cached'[m] # None => cached'[m] <= match'[m].ver
  BY DEF Ordered, Versions
<1>4. ~raced => \A p \in Queued :
                  flow'[p].own = "ok" => flow'[p].row.ver <= match'[rows[p].m].ver
  BY DEF Ordered, Versions
<1>5. QED
  BY <1>2, <1>3, <1>4, OrderedKept

\* A command is enqueued behind all others with a version that is not newer than its
\* match.
LEMMA OrderedOperator ==
    ASSUME Desk, Desk', Ordered, Operator PROVE Ordered'
<1>1. SUFFICES ASSUME NEW m \in Matches, NEW act \in MatchActions, NEW court \in Courts \cup {None},
                      NEW displaced \in SUBSET Matches, NEW seen \in Nat, NEW prev \in Board,
                      Enqueue(m, act, court, displaced, seen, prev),
                      seen = cached[m] \/ seen = 0 \/ seen = match[m].ver
               PROVE  Ordered'
  <2>1. CASE UNCHANGED <<rows, cached, flow, boardVars>>
    BY <2>1 DEF boardVars, Ordered, Versions, Known, InOrder, Queued
  <2>2. QED
    BY <2>1, Enqueues
<1>2. PICK i, r, g :
        /\ i = Len(rows) + 1
        /\ r = [m |-> m, act |-> act, court |-> court, st |-> "pending",
                displaced |-> displaced, seen |-> seen]
        /\ g = [Idle EXCEPT !.at = "queued", !.prev = prev]
  OBVIOUS
<1>3. /\ rows' = Append(rows, r) /\ cached' = [cached EXCEPT ![m] = seen]
      /\ flow' = [flow EXCEPT ![i] = g] /\ UNCHANGED <<match, applied, raced>>
  BY <1>1, <1>2 DEF Enqueue, boardVars
<1>4. /\ rows \in Seq(QueueRow) /\ Queued = 1..Len(rows) /\ Len(rows) \in Nat
      /\ Queued' = Queued \cup {i}
      /\ \A j \in Queued : rows'[j] = rows[j]
      /\ rows'[i] = r /\ r.seen = seen /\ r.m = m
  BY <1>2, <1>3 DEF Desk, TypeOK, Queued
<1>5. g.own = "networkError" /\ \A p \in Procs : flow'[p] = IF p = i THEN g ELSE flow[p]
  BY <1>2, <1>3 DEF Idle, Desk, TypeOK
<1>6. Queued' \subseteq Procs /\ Queued \subseteq Procs
  <2>1. Len(rows') \in Nat /\ Len(rows') <= MaxCmds /\ Queued' = 1..Len(rows')
    BY DEF Desk, TypeOK, Queued
  <2>2. Queued' \subseteq Procs
    BY <2>1, BoardAssumption DEF Procs
  <2>3. QED
    BY <1>4, <2>2
<1>7. match[m].ver \in Nat /\ (~raced => seen <= match[m].ver)
  <2>1. match[m].ver \in Nat
    BY DEF Desk, TypeOK, Row
  <2>2. ~raced /\ seen = cached[m] => seen <= match[m].ver
    BY DeskNulls DEF Ordered, Versions
  <2>3. QED
    BY <1>1, <2>1, <2>2
<1>8. \A k \in DOMAIN applied : applied[k] \in Queued /\ applied[k] < i
  BY <1>2, <1>4 DEF Ordered, Known
<1>9. Known' /\ InOrder'
  BY <1>3, <1>4, <1>8 DEF Ordered, Known, InOrder
<1>10. Versions'
  <2> SUFFICES ASSUME ~raced
               PROVE  /\ \A u \in Matches : cached'[u] # None => cached'[u] <= match[u].ver
                      /\ \A j \in Queued' : rows'[j].seen <= match[rows'[j].m].ver
                      /\ \A p \in Queued' :
                           flow'[p].own = "ok" => flow'[p].row.ver <= match[rows'[p].m].ver
                      /\ \A j \in Queued', k \in DOMAIN applied :
                           /\ j < applied[k]
                           /\ rows'[j].m = rows'[applied[k]].m
                           /\ rows'[applied[k]].act # "resolve_court"
                           => rows'[j].seen < match[rows'[j].m].ver
    BY <1>3 DEF Versions
  <2>1. \A u \in Matches : cached'[u] # None => cached'[u] <= match[u].ver
    BY <1>3, <1>7 DEF Ordered, Versions, Desk, TypeOK
  <2>2. \A j \in Queued' : rows'[j].seen <= match[rows'[j].m].ver
    BY <1>4, <1>7 DEF Ordered, Versions
  <2>3. \A p \in Queued' : flow'[p].own = "ok" => flow'[p].row.ver <= match[rows'[p].m].ver
    BY <1>4, <1>5, <1>6 DEF Ordered, Versions
  <2>4. ASSUME NEW j \in Queued', NEW k \in DOMAIN applied,
               j < applied[k], rows'[j].m = rows'[applied[k]].m,
               rows'[applied[k]].act # "resolve_court"
        PROVE  rows'[j].seen < match[rows'[j].m].ver
    <3>1. j \in Queued
      BY <1>2, <1>4, <1>8, <2>4
    <3>2. QED
      BY <1>4, <1>8, <2>4, <3>1 DEF Ordered, Versions
  <2>5. QED
    BY <2>1, <2>2, <2>3, <2>4
<1>11. QED
  BY <1>9, <1>10 DEF Ordered

\* A command that is applied has not been overtaken, and overtakes the ones queued
\* before it that are still to come.
LEMMA OrderedCommit ==
    ASSUME Desk, Desk', Ordered, ExactlyOnce, NEW q \in req, AnswerCommit(q),
           Decision(q).kind = "ok"
    PROVE  Ordered'
<1>1. PICK i, row, m, n : i = q.c.id /\ row = Decision(q).rows[q.c.m] /\ m = q.c.m /\ n = Len(applied) + 1
  OBVIOUS
<1>2. /\ q \in Requests /\ q.view # None /\ i \in Cmds /\ i \in Queued /\ m \in Matches
      /\ match \in [Matches -> Row] /\ cmd[i] = "none" /\ Commit(q)
      /\ Deliver(q, "ok", row) /\ UNCHANGED cached
  BY <1>1 DEF AnswerCommit, Commit, Deliver, Desk, TypeOK, Requests, Command, Waiting
<1>3. row \in Row /\ row \in Row \cup {None} /\ row # None /\ "ok" \in Results
  BY <1>1, <1>2, DecisionType, DeskNulls DEF Results
<1>4. rows[i].m = m /\ rows[i].act = q.c.act /\ rows[i].seen = q.c.seen
  <2>1. q.c = Wire(i)
    BY <1>1 DEF Desk, Waiting
  <2>2. QED
    BY <1>1, <2>1 DEF Wire
<1>5. /\ Queued' = Queued
      /\ \A j \in Queued : /\ rows'[j].m = rows[j].m /\ rows'[j].act = rows[j].act
                           /\ rows'[j].seen = rows[j].seen
      /\ \A p \in Procs : flow'[p].own = "ok" =>
           \/ flow[p].own = "ok" /\ flow'[p].row = flow[p].row
           \/ p = i /\ flow'[p].row = row
  BY <1>1, <1>2, <1>3, DeliverMarks
<1>6. applied' = Append(applied, i) /\ match' = Decision(q).rows /\ row = match'[m]
  BY <1>1, <1>2 DEF Commit
<1>7. /\ applied \in Seq(Cmds) /\ DOMAIN applied = 1..Len(applied) /\ Len(applied) \in Nat
      /\ DOMAIN applied' = 1..n
      /\ \A k \in DOMAIN applied : applied'[k] = applied[k]
      /\ applied'[n] = i
  BY <1>1, <1>2, <1>6, AppendProperties DEF Desk, TypeOK
<1>8. Known'
  BY <1>1, <1>2, <1>5, <1>7 DEF Ordered, Known
<1>9. SUFFICES ASSUME ~raced' PROVE Versions' /\ InOrder'
  BY <1>8 DEF Ordered, Versions, InOrder
<1>10. /\ ~raced
       /\ match[m].ver = rows[i].seen
       /\ \A u \in Matches : match'[u].ver >= match[u].ver
       /\ rows[i].act # "resolve_court" => match'[m].ver = match[m].ver + 1
  <2>1. /\ ~raced
        /\ match[q.c.m].ver = q.c.seen
        /\ \A u \in Matches : match'[u].ver >= match[u].ver
        /\ q.c.act # "resolve_court" => match'[q.c.m].ver = match[q.c.m].ver + 1
    BY <1>2, <1>9, AppliedEffect
  <2>2. QED
    BY <1>1, <1>4, <2>1
<1>11. \A j \in Queued : rows[j].seen \in Nat /\ rows[j].m \in Matches /\ j \in Nat
  <2> SUFFICES ASSUME NEW j \in Queued PROVE rows[j].seen \in Nat /\ rows[j].m \in Matches /\ j \in Nat
    OBVIOUS
  <2>1. rows[j] \in QueueRow /\ j \in Nat
    BY DEF Desk, TypeOK, Queued
  <2>2. QED
    BY <2>1 DEF QueueRow
<1>12. \A u \in Matches : match[u].ver \in Nat /\ match'[u].ver \in Nat
  BY DEF Desk, TypeOK, Row
<1>13. \A k \in DOMAIN applied : applied[k] # i /\ applied[k] \in Queued
  BY <1>2 DEF ExactlyOnce, Ordered, Known
<1>14. \A k \in DOMAIN applied :
         rows[applied[k]].m = m /\ rows[applied[k]].act # "resolve_court" => applied[k] < i
  <2> SUFFICES ASSUME NEW k \in DOMAIN applied, rows[applied[k]].m = m,
                      rows[applied[k]].act # "resolve_court", i < applied[k]
               PROVE  FALSE
    BY <1>2, <1>11, <1>13
  <2>1. rows[i].seen < match[rows[i].m].ver
    BY <1>2, <1>4, <1>10 DEF Ordered, Versions
  <2>2. QED
    BY <1>2, <1>4, <1>10, <1>11, <2>1
<1>15. InOrder'
  <2> SUFFICES ASSUME NEW k \in 1..n, NEW l \in 1..n, k < l,
                      rows'[applied'[k]].m = rows'[applied'[l]].m,
                      rows'[applied'[k]].act # "resolve_court"
               PROVE  applied'[k] < applied'[l]
    BY <1>7 DEF InOrder
  <2>1. k \in DOMAIN applied
    BY <1>1, <1>7
  <2>2. CASE l = n
    BY <1>4, <1>5, <1>7, <1>2, <1>13, <1>14, <2>1, <2>2
  <2>3. CASE l # n
    <3>1. l \in DOMAIN applied
      BY <1>1, <1>7, <2>3
    <3>2. QED
      BY <1>5, <1>7, <1>10, <1>13, <2>1, <3>1 DEF Ordered, InOrder
  <2>4. QED
    BY <2>2, <2>3
<1>16. Versions'
  <2>1. \A u \in Matches : cached'[u] # None => cached'[u] <= match'[u].ver
    <3>1. \A u \in Matches : cached[u] # None => cached[u] <= match[u].ver
      BY <1>10 DEF Ordered, Versions
    <3>2. \A u \in Matches : cached[u] # None => cached[u] \in Nat
      BY DEF Desk, TypeOK
    <3>3. QED
      BY <1>2, <1>10, <1>12, <3>1, <3>2
  <2>2. \A j \in Queued' : rows'[j].seen <= match'[rows'[j].m].ver
    <3>1. \A j \in Queued : rows[j].seen <= match[rows[j].m].ver
      BY <1>10 DEF Ordered, Versions
    <3>2. QED
      BY <1>5, <1>10, <1>11, <1>12, <3>1
  <2>3. \A p \in Queued' : flow'[p].own = "ok" => flow'[p].row.ver <= match'[rows'[p].m].ver
    <3> SUFFICES ASSUME NEW p \in Queued, flow'[p].own = "ok"
                 PROVE  flow'[p].row.ver <= match'[rows[p].m].ver
      BY <1>5
    <3>1. p \in Procs /\ flow[p] \in Flows
      BY BoardAssumption DEF Desk, TypeOK, Queued, Procs
    <3>2. CASE flow[p].own = "ok" /\ flow'[p].row = flow[p].row
      <4>1. flow[p].row \in Row /\ flow[p].row.ver \in Nat
        BY <3>1, <3>2 DEF Desk, Processes, Flows, Row
      <4>2. flow[p].row.ver <= match[rows[p].m].ver
        BY <1>10, <3>2 DEF Ordered, Versions
      <4>3. QED
        BY <1>10, <1>11, <1>12, <3>2, <4>1, <4>2
    <3>3. CASE p = i /\ flow'[p].row = row
      BY <1>2, <1>4, <1>6, <1>12, <3>3
    <3>4. QED
      BY <1>5, <3>1, <3>2, <3>3
  <2>4. ASSUME NEW j \in Queued, NEW k \in 1..n,
               j < applied'[k], rows[j].m = rows[applied'[k]].m,
               rows[applied'[k]].act # "resolve_court"
        PROVE  rows[j].seen < match'[rows[j].m].ver
    <3>1. CASE k = n
      <4>1. rows[j].seen <= match[m].ver /\ rows[j].m = m /\ match'[m].ver = match[m].ver + 1
        BY <1>4, <1>7, <1>10, <2>4, <3>1 DEF Ordered, Versions
      <4>2. QED
        BY <1>2, <1>11, <1>12, <4>1
    <3>2. CASE k # n
      <4>1. k \in DOMAIN applied
        BY <1>1, <1>7, <3>2
      <4>2. rows[j].seen < match[rows[j].m].ver
        BY <1>7, <1>10, <2>4, <4>1 DEF Ordered, Versions
      <4>3. QED
        BY <1>10, <1>11, <1>12, <4>2
    <3>3. QED
      BY <3>1, <3>2
  <2>5. \A k \in DOMAIN applied' : applied'[k] \in Queued
    BY <1>5, <1>8 DEF Known
  <2>6. QED
    BY <1>5, <1>7, <2>1, <2>2, <2>3, <2>4, <2>5 DEF Versions
<1>17. QED
  BY <1>15, <1>16

\* The answers of the server keep the order.
LEMMA OrderedServe ==
    ASSUME Desk, Desk', Ordered, ExactlyOnce, NEW q \in req, Serve(q) PROVE Ordered'
<1> USE DeskNulls
<1>1. /\ q \in Requests /\ q.c.m \in Matches /\ match \in [Matches -> Row]
      /\ q.c = Wire(q.c.id) /\ q.c.id \in Queued
  BY DEF Desk, TypeOK, Requests, Command, Waiting
<1>2. Queued \subseteq Procs
  BY BoardAssumption DEF Desk, TypeOK, Queued, Procs
<1>3. CASE Read(q)
  BY <1>3, OrderedQuiet DEF Read, ReadRows, deskVars, Queued
<1>4. CASE AnswerReplay(q)
  <2>1. PICK kind, row : kind = Replayed(q).kind /\ row = Replayed(q).row
    OBVIOUS
  <2>2. kind \in Results /\ row \in Row /\ row \in Row \cup {None} /\ row # None /\ row = match[q.c.m]
    BY <1>1, <2>1 DEF Replayed, Results
  <2>3. Deliver(q, kind, row) /\ UNCHANGED <<match, applied, raced, cached>>
    BY <1>4, <2>1 DEF AnswerReplay, Replay, Deliver
  <2>4. /\ Queued' = Queued
        /\ \A j \in Queued : /\ rows'[j].m = rows[j].m /\ rows'[j].act = rows[j].act
                             /\ rows'[j].seen = rows[j].seen
        /\ \A p \in Procs : flow'[p].own = "ok" =>
             \/ flow[p].own = "ok" /\ flow'[p].row = flow[p].row
             \/ p = q.c.id /\ flow'[p].row = row
    BY <2>2, <2>3, DeliverMarks
  <2>5. rows[q.c.id].m = q.c.m
    <3>1. PICK i : i = q.c.id
      OBVIOUS
    <3>2. q.c = Wire(i)
      BY <1>1, <3>1
    <3>3. QED
      BY <3>1, <3>2 DEF Wire
  <2>6. \A u \in Matches : match[u].ver \in Nat /\ match'[u].ver >= match[u].ver
    BY <1>1, <2>3 DEF Row
  <2>7. ~raced => \A u \in Matches : cached'[u] # None => cached'[u] <= match'[u].ver
    BY <2>3 DEF Ordered, Versions
  <2>8. ~raced => \A p \in Queued :
                    flow'[p].own = "ok" => flow'[p].row.ver <= match'[rows[p].m].ver
    BY <1>1, <1>2, <2>2, <2>3, <2>4, <2>5, <2>6 DEF Ordered, Versions
  <2>9. QED
    BY <2>3, <2>4, <2>6, <2>7, <2>8, OrderedKept
<1>5. CASE AnswerCommit(q)
  <2>1. CASE Decision(q).kind = "ok"
    BY <1>5, <2>1, OrderedCommit
  <2>2. CASE Decision(q).kind # "ok"
    <3>1. PICK kind, row : kind = Decision(q).kind /\ row = Decision(q).rows[q.c.m]
      OBVIOUS
    <3>2. /\ q.view # None /\ Deliver(q, kind, row) /\ UNCHANGED <<match, applied, raced, cached>>
      BY <1>5, <2>2, <3>1 DEF AnswerCommit, Commit, Deliver
    <3>3. kind \in Results /\ kind # "ok" /\ row \in Row \cup {None}
      BY <1>1, <2>2, <3>1, <3>2, DecisionType DEF Results
    <3>4. /\ Queued' = Queued
          /\ \A j \in Queued : /\ rows'[j].m = rows[j].m /\ rows'[j].act = rows[j].act
                               /\ rows'[j].seen = rows[j].seen
          /\ \A p \in Procs : flow'[p].own = "ok" =>
               flow[p].own = "ok" /\ flow'[p].row = flow[p].row
      BY <3>2, <3>3, DeliverMarks
    <3>5. QED
      BY <1>2, <3>2, <3>4, OrderedQuiet
  <2>3. QED
    BY <2>1, <2>2
<1>6. CASE Answer500(q)
  <2>1. /\ Deliver(q, "networkError", None) /\ UNCHANGED <<match, applied, raced, cached>>
        /\ "networkError" \in Results /\ None \in Row \cup {None}
    BY <1>6 DEF Answer500, Collide, Deliver, Results
  <2>2. /\ Queued' = Queued
        /\ \A j \in Queued : /\ rows'[j].m = rows[j].m /\ rows'[j].act = rows[j].act
                             /\ rows'[j].seen = rows[j].seen
        /\ \A p \in Procs : flow'[p].own = "ok" =>
             flow[p].own = "ok" /\ flow'[p].row = flow[p].row
    BY <2>1, DeliverMarks
  <2>3. QED
    BY <1>2, <2>1, <2>2, OrderedQuiet
<1>7. QED
  BY <1>3, <1>4, <1>5, <1>6 DEF Serve

\* So do the steps of the flushes.
LEMMA OrderedFlush ==
    ASSUME Desk, Desk', Ordered, NEW p \in Procs, Flush(p) \/ (p = Drain /\ StartDrain)
    PROVE  Ordered'
<1> USE DeskNulls
<1>1. flow[p] \in Flows /\ match \in [Matches -> Row] /\ flow \in [Procs -> Flows]
  BY DEF Desk, TypeOK
<1>2. Queued \subseteq Procs
  BY BoardAssumption DEF Desk, TypeOK, Queued, Procs
<1>3. ASSUME NEW g, flow' = [flow EXCEPT ![p] = g],
             g.own = "ok" => flow[p].own = "ok" /\ g.row = flow[p].row
      PROVE  \A s \in Queued : flow'[s].own = "ok" => flow[s].own = "ok" /\ flow'[s].row = flow[s].row
  BY <1>1, <1>2, <1>3
<1>4. CASE StartFlush(p) \/ (p = Drain /\ StartDrain)
  <2>1. PICK g : g = Flushing(flow[p], getPending, "networkError", None)
    OBVIOUS
  <2>2. g.own = "networkError"
    BY <1>1, <2>1 DEF Flushing, Idle, Flows
  <2>3. flow' = [flow EXCEPT ![p] = g] /\ UNCHANGED <<rows, applied, raced, match, cached>>
    BY <1>4, <2>1 DEF StartFlush, StartDrain, boardVars
  <2>4. QED
    BY <1>3, <2>2, <2>3, OrderedQuiet DEF Queued
<1>5. CASE Post(p)
  <2>1. PICK g : g = [flow[p] EXCEPT !.at = "wait"]
    OBVIOUS
  <2>2. g.own = flow[p].own /\ g.row = flow[p].row
    BY <1>1, <2>1 DEF Flows
  <2>3. flow' = [flow EXCEPT ![p] = g] /\ UNCHANGED <<rows, applied, raced, match, cached>>
    BY <1>5, <2>1 DEF Post
  <2>4. QED
    BY <1>3, <2>2, <2>3, OrderedQuiet DEF Queued
<1>6. CASE PostOffline(p)
  <2>1. /\ flow[p].at \in {"flush", "wait"} /\ Advance(p, "networkError", None)
        /\ UNCHANGED <<applied, raced, match, cached>>
        /\ "networkError" \in Results /\ None \in Row \cup {None}
    BY <1>6 DEF PostOffline, Results, boardVars
  <2>2. /\ Queued' = Queued
        /\ \A j \in Queued : /\ rows'[j].m = rows[j].m /\ rows'[j].act = rows[j].act
                             /\ rows'[j].seen = rows[j].seen
        /\ \A s \in Procs \ {p} : flow'[s] = flow[s]
        /\ flow'[p].own = "ok" => flow[p].own = "ok" /\ flow'[p].row = flow[p].row
    BY <2>1, AdvanceDesk
  <2>3. \A s \in Queued : flow'[s].own = "ok" => flow[s].own = "ok" /\ flow'[s].row = flow[s].row
    BY <1>2, <2>2
  <2>4. QED
    BY <2>1, <2>2, <2>3, OrderedQuiet
<1>7. CASE Refetch(p)
  <2>1. PICK g : g = [flow[p] EXCEPT !.at = "reversion"]
    OBVIOUS
  <2>2. g.own = flow[p].own /\ g.row = flow[p].row
    BY <1>1, <2>1 DEF Flows
  <2>3. /\ flow' = [flow EXCEPT ![p] = g] \/ flow' = [flow EXCEPT ![p] = Idle]
        /\ UNCHANGED <<rows, applied, raced, match, cached>>
    BY <1>7, <2>1 DEF Refetch, boardVars
  <2>4. \A s \in Queued : flow'[s].own = "ok" => flow[s].own = "ok" /\ flow'[s].row = flow[s].row
    BY <1>3, <2>2, <2>3, IdleType
  <2>5. QED
    BY <2>3, <2>4, OrderedQuiet DEF Queued
<1>8. CASE SettleOk(p) \/ Reversion(p)
  <2>1. PICK m, v : m = rows[p].m /\ v = IF SettleOk(p) THEN flow[p].row.ver ELSE match[m].ver
    OBVIOUS
  <2>2. p \in Queued
    BY <1>8 DEF SettleOk, Reversion, Desk, Processes
  <2>3. rows[p] \in QueueRow /\ m \in Matches
    <3>1. rows[p] \in QueueRow
      BY <2>2 DEF Desk, TypeOK, Queued
    <3>2. QED
      BY <2>1, <3>1 DEF QueueRow
  <2>4. /\ flow' = [flow EXCEPT ![p] = Idle] /\ UNCHANGED <<rows, applied, raced, match>>
        /\ cached' = [cached EXCEPT ![m] = v] \/ cached' = cached
    BY <1>8, <2>1 DEF SettleOk, Reversion, boardVars
  <2>5. \A u \in Matches : match[u].ver \in Nat /\ match'[u].ver >= match[u].ver
    BY <1>1, <2>4 DEF Row
  <2>6. ~raced => v <= match[m].ver
    <3>1. CASE SettleOk(p)
      BY <2>1, <2>2, <3>1 DEF SettleOk, Ordered, Versions
    <3>2. CASE ~SettleOk(p)
      BY <2>1, <2>3, <2>5, <3>2
    <3>3. QED
      BY <3>1, <3>2
  <2>7. ~raced => \A u \in Matches : cached'[u] # None => cached'[u] <= match'[u].ver
    BY <2>3, <2>4, <2>6 DEF Ordered, Versions, Desk, TypeOK
  <2>8. \A s \in Queued : flow'[s].own = "ok" => flow[s].own = "ok" /\ flow'[s].row = flow[s].row
    BY <1>3, <2>4, IdleType
  <2>9. ~raced => \A s \in Queued :
                    flow'[s].own = "ok" => flow'[s].row.ver <= match'[rows[s].m].ver
    BY <2>4, <2>8 DEF Ordered, Versions
  <2>10. QED
    BY <2>4, <2>5, <2>7, <2>9, OrderedKept DEF Queued
<1>9. QED
  BY <1>4, <1>5, <1>6, <1>7, <1>8 DEF Flush

\* So do the network, reloads, other devices, saved documents and the poll.
LEMMA OrderedRest ==
    ASSUME Desk, Desk', Ordered, Network \/ Others \/ Poll PROVE Ordered'
<1> USE DeskNulls
<1>1. match \in [Matches -> Row] /\ Queued \subseteq Procs
  BY BoardAssumption DEF Desk, TypeOK, Queued, Procs
<1>2. CASE \E q \in req, lost \in BOOLEAN : FailRequest(q, lost)
  <2> PICK q \in req, lost \in BOOLEAN : FailRequest(q, lost)
    BY <1>2
  <2>0. PICK p : p = q.from
    OBVIOUS
  <2>1. /\ p \in Procs /\ flow[p].at \in {"flush", "wait"} /\ Advance(p, "networkError", None)
        /\ UNCHANGED <<applied, raced, match, cached>>
        /\ "networkError" \in Results /\ None \in Row \cup {None}
    BY <2>0 DEF FailRequest, Desk, Waiting, TypeOK, Requests, Results
  <2>2. /\ Queued' = Queued
        /\ \A j \in Queued : /\ rows'[j].m = rows[j].m /\ rows'[j].act = rows[j].act
                             /\ rows'[j].seen = rows[j].seen
        /\ \A s \in Procs \ {p} : flow'[s] = flow[s]
        /\ flow'[p].own = "ok" => flow[p].own = "ok" /\ flow'[p].row = flow[p].row
    BY <2>1, AdvanceDesk
  <2>3. \A s \in Queued : flow'[s].own = "ok" => flow[s].own = "ok" /\ flow'[s].row = flow[s].row
    BY <1>1, <2>2
  <2>4. QED
    BY <2>1, <2>2, <2>3, OrderedQuiet
<1>3. CASE GoOffline \/ GoOnline \/ Poll
  BY <1>3, OrderedQuiet DEF GoOffline, GoOnline, Poll, boardVars, Queued
<1>4. CASE Reload
  <2>1. /\ UNCHANGED <<rows, match, applied, raced>>
        /\ \A m \in Matches : cached'[m] = None
        /\ \A p \in Procs : flow'[p] = Idle
    BY <1>4 DEF Reload
  <2>2. \A m \in Matches : match[m].ver \in Nat /\ match'[m].ver >= match[m].ver
    BY <1>1, <2>1 DEF Row
  <2>3. \A p \in Queued : flow'[p].own # "ok"
    BY <1>1, <2>1, IdleType
  <2>4. QED
    BY <2>1, <2>2, <2>3, OrderedKept DEF Queued
<1>5. CASE Others /\ raced'
  <2>1. UNCHANGED <<rows, cached, flow, applied>>
    BY <1>5 DEF Others, OtherDevice, OtherDeviceCommits, PutRead, PutCommit, Save, SaveDocument, deskVars
  <2>2. Known' /\ Versions' /\ InOrder'
    BY <1>5, <2>1 DEF Ordered, Known, Versions, InOrder, Queued
  <2>3. QED
    BY <2>2 DEF Ordered
<1>6. CASE Others /\ ~raced'
  <2>1. UNCHANGED <<rows, cached, flow, applied, raced>>
    <3>1. UNCHANGED <<rows, cached, flow, applied>>
      BY <1>6 DEF Others, OtherDevice, OtherDeviceCommits, PutRead, PutCommit, Save, SaveDocument, deskVars
    <3>2. \/ raced' = raced
          \/ \E w \in writes : raced' = (raced \/ match # w.view)
      BY <1>6 DEF Others, OtherDevice, OtherDeviceCommits, PutRead, PutCommit, Save, SaveDocument
    <3>3. ~raced
      BY <1>6, <3>2
    <3>4. raced' \in BOOLEAN /\ raced \in BOOLEAN
      BY DEF Desk, TypeOK
    <3>5. raced' = raced
      BY <1>6, <3>3, <3>4, Zenon
    <3>6. QED
      BY <3>1, <3>5
  <2>2. ASSUME NEW m \in Matches PROVE match[m].ver \in Nat /\ match'[m].ver \in Nat /\ match'[m].ver >= match[m].ver
    <3>1. match[m] \in Row /\ match[m].ver \in Nat
      BY <1>1 DEF Row
    <3>2. CASE \E w \in writes : OtherDeviceCommits(w)
      <4> PICK w \in writes : OtherDeviceCommits(w)
        BY <3>2
      <4>1. w \in StatusWrite /\ w.view \in [Matches -> Row]
        BY DEF Desk, TypeOK, StatusWrite
      <4>2. match' = Written(match, w.view, Stated(w)) /\ raced' = (raced \/ match # w.view)
        BY DEF OtherDeviceCommits, PutCommit
      <4>3. match = w.view
        BY <1>6, <4>2
      <4>4. match' = Stated(w)
        BY <4>1, <4>2, <4>3, StatedType, WrittenSame
      <4>5. match'[m].ver = match[m].ver \/ match'[m].ver = match[m].ver + 1
        BY <4>1, <4>3, <4>4, StatedType
      <4>6. QED
        BY <3>1, <4>5
    <3>4. CASE \E n \in Matches, t \in Statuses : OtherDevice(n, t)
      <4>1. match' = match
        BY <3>4 DEF OtherDevice, PutRead
      <4>2. QED
        BY <3>1, <4>1
    <3>3. CASE \E d \in Plans : Save(d)
      <4> PICK d \in Plans : Save(d)
        BY <3>3
      <4>1. match'[m] = match[m] \/ match'[m] = [match[m] EXCEPT !.court = d[m], !.ver = @ + 1]
        BY DEF Save, SaveDocument
      <4>2. CASE match'[m] = match[m]
        BY <3>1, <4>2
      <4>3. CASE match'[m] = [match[m] EXCEPT !.court = d[m], !.ver = @ + 1]
        <5>1. match'[m].ver = match[m].ver + 1
          BY <3>1, <4>3 DEF Row
        <5>2. QED
          BY <3>1, <5>1
      <4>4. QED
        BY <4>1, <4>2, <4>3
    <3>5. QED
      BY <1>6, <3>2, <3>3, <3>4 DEF Others
  <2>3. ASSUME ~raced, NEW m \in Matches, NEW v, v <= match[m].ver, v \in Nat PROVE v <= match'[m].ver
    BY <2>2, <2>3
  <2>4. ~raced => \A m \in Matches : cached'[m] # None => cached'[m] <= match'[m].ver
    BY <2>1, <2>3 DEF Ordered, Versions, Desk, TypeOK
  <2>5. ~raced => \A p \in Queued :
                    flow'[p].own = "ok" => flow'[p].row.ver <= match'[rows[p].m].ver
    <3> SUFFICES ASSUME ~raced, NEW p \in Queued, flow[p].own = "ok"
                 PROVE  flow[p].row.ver <= match'[rows[p].m].ver
      BY <2>1
    <3>1. flow[p] \in Flows /\ rows[p] \in QueueRow
      BY <1>1 DEF Desk, TypeOK, Queued
    <3>2. flow[p].row \in Row /\ rows[p].m \in Matches
      BY <1>1, <3>1 DEF Desk, Processes, Flows, QueueRow
    <3>3. flow[p].row.ver \in Nat /\ flow[p].row.ver <= match[rows[p].m].ver
      BY <3>2 DEF Row, Ordered, Versions
    <3>4. QED
      BY <2>3, <3>2, <3>3
  <2>6. QED
    BY <2>1, <2>2, <2>4, <2>5, OrderedKept DEF Queued
<1>7. QED
  BY <1>2, <1>3, <1>4, <1>5, <1>6 DEF Network

\* Although flushes overlap and a failed post does not stop the loop, no command
\* takes effect on a match after a later command of the desk has moved it, unless a
\* commit overwrites rows it had not read.
THEOREM CommandsInOrder == Spec => []InOrder
<1>1. Init => Ordered
  <2> SUFFICES ASSUME Init PROVE Ordered
    OBVIOUS
  <2>1. rows = <<>> /\ applied = <<>> /\ \A m \in Matches : cached[m] = None
    BY DEF Init, BoardInit, EmptyStore
  <2>2. QED
    BY <2>1 DEF Ordered, Versions, Known, InOrder, Queued
<1>2. Init => ExactlyOnce
  BY DEF Init, BoardInit, ExactlyOnce, Queued
<1>3. Desk /\ Desk' /\ ExactlyOnce /\ Ordered /\ [Next]_vars => Ordered'
  <2> SUFFICES ASSUME Desk, Desk', ExactlyOnce, Ordered, [Next]_vars PROVE Ordered'
    OBVIOUS
  <2>1. CASE Operator
    BY <2>1, OrderedOperator
  <2>2. CASE Network \/ Others \/ Poll
    BY <2>2, OrderedRest
  <2>3. CASE StartDrain
    BY <2>3, OrderedFlush, BoardAssumption DEF Procs, Drain
  <2>4. CASE \E p \in Procs : Flush(p)
    BY <2>4, OrderedFlush
  <2>5. CASE \E q \in req : Serve(q)
    BY <2>5, OrderedServe
  <2>6. CASE UNCHANGED vars
    BY <2>6 DEF vars, boardVars, deskVars, Ordered, Versions, Known, InOrder, Queued
  <2>7. QED
    BY <2>1, <2>2, <2>3, <2>4, <2>5, <2>6 DEF Next
<1>4. Desk /\ ExactlyOnce /\ [Next]_vars => ExactlyOnce'
  BY OnceStep
<1>5. Ordered => InOrder
  BY DEF Ordered
<1>6. QED
  BY DeskInit, DeskStep, <1>1, <1>2, <1>3, <1>4, <1>5, PTL DEF Spec
===============================================================================
