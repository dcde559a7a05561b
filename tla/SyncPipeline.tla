---------------------------- MODULE SyncPipeline ----------------------------
(***************************************************************************)
(* The event nodes and the upload of their operations: a node commits an   *)
(* operation and its outbox row together, its sync agent posts due rows in *)
(* batches, the cloud ingests a batch under the lock of the epoch's cursor *)
(* and answers, and the agent marks the rows acknowledged, backing off or  *)
(* blocked.  Requests and answers get lost or come late, the agent dies,   *)
(* and a node's database is restored from a recovery bundle.               *)
(***************************************************************************)
EXTENDS SyncAuthority

CONSTANTS
    BatchSize,    \* settings.sync_batch_size
    Poison,       \* operations outside the grant or of an unknown schema
    NoCall,       \* the agent is not waiting
    MaxFaults,    \* bound: network failures and agent deaths
    MaxRestores   \* bound: databases restored from a bundle

ASSUME PipelineAssumption ==
    /\ BatchSize \in Nat \ {0}
    /\ Poison \subseteq OpIds
    /\ NoCall \notin Calls
    /\ MaxFaults \in Nat
    /\ MaxRestores \in Nat

VARIABLES
    db,        \* the database of each node
    bundle,    \* the latest recovery bundle of each node
    call,      \* the upload its agent is waiting for
    quar,      \* sync_quarantine: operations refused with evidence
    minted,    \* every operation ever created, under its uuid
    faults,    \* failures still to come
    restores   \* restores still to come

nodeVars == <<db, bundle, call>>
vars == <<authVars, nodeVars, calls, quar, minted, faults, restores>>

\* event_operations and sync_outbox of a node.  A row of backoff has a
\* next_attempt_at in the future.
NodeDb ==
    [epoch: Epochs \cup {NoEpoch},
     next: 1..(MaxSeq + 1),
     ops: SUBSET Op, ack: SUBSET Op, blocked: SUBSET Op, backoff: SUBSET Op]

EmptyDb == [epoch |-> NoEpoch, next |-> 1, ops |-> {}, ack |-> {},
            blocked |-> {}, backoff |-> {}]

CallState ==
    [pc: {"free", "sent", "checked", "answered"},
     node: Nodes \cup {None},
     epoch: Epochs \cup {NoEpoch},
     batch: SUBSET Op,
     again: BOOLEAN,                  \* ingest_batch is in its one retry
     code: {"none", "ok", "refused", "unavailable"},
     high: 0..MaxSeq]                 \* highest_contiguous_sequence answered

FreeCall == [pc |-> "free", node |-> None, epoch |-> NoEpoch, batch |-> {},
             again |-> FALSE, code |-> "none", high |-> 0]

TypeOK ==
    /\ AuthorityTypeOK
    /\ db \in [Nodes -> NodeDb]
    /\ bundle \in [Nodes -> NodeDb]
    /\ call \in [Nodes -> Calls \cup {NoCall}]
    /\ calls \in [Calls -> CallState]
    /\ quar \subseteq Op
    /\ minted \subseteq Op
    /\ faults \in 0..MaxFaults
    /\ restores \in 0..MaxRestores

NodeInit ==
    /\ bundle = [n \in Nodes |-> EmptyDb]
    /\ call = [n \in Nodes |-> NoCall]
    /\ calls = [c \in Calls |-> FreeCall]
    /\ quar = {}
    /\ minted = {}
    /\ faults = MaxFaults
    /\ restores = MaxRestores

Init ==
    /\ AuthorityInit
    /\ db = [n \in Nodes |-> EmptyDb]
    /\ NodeInit

-----------------------------------------------------------------------------
(* The node. *)

\* import_checkpoint: into a database without the tournament, with a grant
\* for this node.  The node does not ask whether the epoch is still in force.
Import(n, e) ==
    /\ db[n].epoch = NoEpoch
    /\ st[e] # "none" /\ holder[e] = n
    /\ db' = [db EXCEPT ![n].epoch = e]
    /\ UNCHANGED <<authVars, bundle, call, calls, quar, minted, faults, restores>>

\* append_local_operation in the command's transaction.  The node never
\* learns that its epoch was closed.
AppendOperation(n) ==
    /\ db[n].epoch # NoEpoch
    /\ db[n].next <= MaxSeq
    /\ \E i \in OpIds \ {o.id : o \in minted} :
          LET o == [epoch |-> db[n].epoch, seq |-> db[n].next, id |-> i]
          IN  /\ \A j \in OpIds \ {p.id : p \in minted} : i <= j
              /\ db' = [db EXCEPT ![n].ops = @ \cup {o}, ![n].next = @ + 1]
              /\ minted' = minted \cup {o}
    /\ UNCHANGED <<authVars, bundle, call, calls, quar, faults, restores>>

CreateBundle(n) ==
    /\ restores > 0
    /\ db[n].epoch # NoEpoch /\ bundle[n] # db[n]
    /\ bundle' = [bundle EXCEPT ![n] = db[n]]
    /\ UNCHANGED <<authVars, db, call, calls, quar, minted, faults, restores>>

\* The node starts over from its bundle; what came after it is lost.
RestoreBundle(n) ==
    /\ restores > 0
    /\ bundle[n].epoch # NoEpoch /\ db[n] # bundle[n]
    /\ restores' = restores - 1
    /\ db' = [db EXCEPT ![n] = bundle[n]]
    /\ call' = [call EXCEPT ![n] = NoCall]
    /\ calls' = [c \in Calls |-> IF call[n] = c /\ calls[c].pc = "answered"
                                   THEN FreeCall ELSE calls[c]]
    /\ UNCHANGED <<authVars, bundle, quar, minted, faults>>

-----------------------------------------------------------------------------
(* The sync agent. *)

Due(n) == db[n].ops \ (db[n].ack \cup db[n].blocked \cup db[n].backoff)

\* The first BatchSize due rows in sequence order.
IsBatch(n, b) ==
    /\ b # {}
    /\ \A o \in b, p \in Due(n) \ b : o.seq < p.seq
    /\ \/ Cardinality(b) = BatchSize
       \/ b = Due(n) /\ Cardinality(b) < BatchSize

Post(n, c) ==
    /\ call[n] = NoCall /\ calls[c].pc = "free"
    /\ \E b \in SUBSET Due(n) :
          /\ IsBatch(n, b)
          /\ calls' = [calls EXCEPT ![c] = [FreeCall EXCEPT !.pc = "sent",
                !.node = n, !.epoch = db[n].epoch, !.batch = b]]
    /\ call' = [call EXCEPT ![n] = c]
    /\ UNCHANGED <<authVars, db, bundle, quar, minted, faults, restores>>

\* Mutant: whatever was answered, the batch is taken for delivered.
AcknowledgedAll(r) == r.batch

\* _mark_acknowledged
Acknowledged(r) == {o \in r.batch : r.code = "ok" /\ o.seq <= r.high}

\* Mutant: a refusal only backs off.
MarkedRetriesAll(d, r) ==
    [d EXCEPT !.ack = @ \cup Acknowledged(r),
              !.backoff = IF r.code # "ok" THEN @ \cup r.batch ELSE @]

\* What drain_once writes to the outbox for an answer: 4xx is permanent, 5xx
\* is retried.
Marked(d, r) ==
    [d EXCEPT !.ack = @ \cup Acknowledged(r),
              !.blocked = IF r.code = "refused" THEN @ \cup r.batch ELSE @,
              !.backoff = IF r.code = "unavailable" THEN @ \cup r.batch ELSE @]

HandleAnswer(n, c) ==
    /\ call[n] = c /\ calls[c].pc = "answered"
    /\ db' = [db EXCEPT ![n] = Marked(@, calls[c])]
    /\ call' = [call EXCEPT ![n] = NoCall]
    /\ calls' = [calls EXCEPT ![c] = FreeCall]
    /\ UNCHANGED <<authVars, bundle, quar, minted, faults, restores>>

\* The agent stops waiting.  A request that has not arrived may be lost or
\* still arrive; an answer is lost.
Abandon(n, c) ==
    /\ faults > 0 /\ faults' = faults - 1
    /\ call[n] = c
    /\ call' = [call EXCEPT ![n] = NoCall]
    /\ \/ /\ calls[c].pc \in {"sent", "answered"}
          /\ calls' = [calls EXCEPT ![c] = FreeCall]
       \/ /\ calls[c].pc \in {"sent", "checked"}
          /\ UNCHANGED calls
    /\ UNCHANGED <<authVars, bundle, quar, minted, restores>>

\* Timeout or network error: every row of the batch gets its own jittered
\* next_attempt_at.
NetworkError(n, c) ==
    /\ Abandon(n, c)
    /\ db' = [db EXCEPT ![n].backoff = @ \cup calls[c].batch]

\* The agent dies after its request, and nothing is marked.
AgentDies(n, c) ==
    /\ Abandon(n, c)
    /\ UNCHANGED db

\* next_attempt_at of a row passes.
BackoffOver(n, o) ==
    /\ o \in db[n].backoff
    /\ db' = [db EXCEPT ![n].backoff = @ \ {o}]
    /\ UNCHANGED <<authVars, bundle, call, calls, quar, minted, faults, restores>>

-----------------------------------------------------------------------------
(* Ingestion. *)

\* The cloud answers, if anyone is still listening.
Answer(c, code, high) ==
    calls' = [calls EXCEPT ![c] =
                IF \E n \in Nodes : call[n] = c
                   THEN [@ EXCEPT !.pc = "answered", !.again = FALSE,
                                  !.code = code, !.high = high]
                   ELSE FreeCall]

ingestFrame == <<st, holder, declared, revoked, admin, nodeVars, minted,
                 faults, restores>>

\* Mutant: any known epoch may upload.
InForceKnown(e) == st[e] # "none"

InForce(e) == st[e] = "active"

\* Mutant: the refusal of another epoch leaves no evidence.
EvidenceNone(r) == {}

\* _quarantine_batch
Evidence(r) == r.batch

\* The authority check, before the cursor is locked.  A batch of another epoch
\* is quarantined whole; a revoked device gets a bare 403.
IngestCheck(c) ==
    LET r == calls[c]
    IN  /\ r.pc = "sent" /\ DbFree(c)
        /\ \/ /\ ~InForce(r.epoch)
              /\ quar' = quar \cup Evidence(r)
              /\ Answer(c, "refused", 0)
           \/ /\ InForce(r.epoch)
              /\ holder[r.epoch] # r.node \/ r.node \in revoked
              /\ Answer(c, "refused", 0)
              /\ UNCHANGED quar
           \/ /\ InForce(r.epoch)
              /\ holder[r.epoch] = r.node /\ r.node \notin revoked
              /\ calls' = [calls EXCEPT ![c].pc = "checked"]
              /\ UNCHANGED quar
        /\ UNCHANGED <<ingestFrame, cursor, inbox, proj>>

\* Mutant: an operation is known by its sequence, not by its id.
DuplicateBySequence(o, cur) ==
    \E p \in inbox : p.epoch = o.epoch /\ p.seq = o.seq

\* Already received: an inbox row with its id, at or below the cursor.
Duplicate(o, cur) == \E p \in inbox : p.id = o.id /\ p.seq <= cur

New(r) == {o \in r.batch : ~Duplicate(o, cursor[r.epoch])}

\* Mutant: a gap is let through.
FitsWithGap(o, new, cur) == o.seq > cur

\* In the loop's order, o comes right after the cursor or another new
\* operation: neither a collision nor a gap.
Fits(o, new, cur) ==
    /\ o.seq > cur
    /\ \A s \in (cur + 1)..o.seq : \E p \in new : p.seq = s

\* The operations of the batch at which the loop would stop.
Unfit(r) ==
    {o \in r.batch : \/ o.id \in Poison
                     \/ \E p \in inbox : p.id = o.id /\ p.seq > cursor[r.epoch]
                     \/ /\ o \in New(r)
                        /\ ~Fits(o, New(r), cursor[r.epoch])}

\* The projection can take the new operations: its row is of this epoch, or
\* there is none and one operation creates it.  The session does not
\* autoflush, so a second operation does not find the pending row and INSERTs
\* it again; neither does a row of another epoch make way.
Projectable(r) ==
    \/ proj.epoch = r.epoch
    \/ proj.epoch = NoEpoch /\ \A o, p \in New(r) : o = p

\* The batch is accepted: receipts, projection and cursor in one commit.
IngestAccept(c) ==
    LET r == calls[c]
        cur == cursor[r.epoch]
    IN  /\ r.pc = "checked" /\ DbFree(c)
        /\ Unfit(r) = {}
        /\ New(r) # {} => Projectable(r)
        /\ \E high \in cur..MaxSeq :
              /\ \A o \in New(r) : o.seq <= high
              /\ high = cur \/ \E o \in New(r) : o.seq = high
              /\ inbox' = inbox \cup New(r)
              /\ cursor' = [cursor EXCEPT ![r.epoch] = high]
              /\ proj' = IF New(r) = {} THEN proj
                         ELSE [epoch |-> r.epoch, last |-> high,
                               data |-> proj.data \cup {o.seq : o \in New(r)}]
              /\ Answer(c, "ok", high)
        /\ UNCHANGED <<ingestFrame, quar>>

\* IntegrityError on the projection row: one retry from the start, then 503.
IngestConflict(c) ==
    LET r == calls[c]
    IN  /\ r.pc = "checked" /\ DbFree(c)
        /\ Unfit(r) = {}
        /\ New(r) # {} /\ ~Projectable(r)
        /\ IF r.again THEN Answer(c, "unavailable", 0)
           ELSE calls' = [calls EXCEPT ![c].pc = "sent", ![c].again = TRUE]
        /\ UNCHANGED <<ingestFrame, cursor, inbox, proj, quar>>

\* The first unfit operation is quarantined and the batch refused with 409.
IngestReject(c) ==
    LET r == calls[c]
    IN  /\ r.pc = "checked" /\ DbFree(c)
        /\ \E o \in Unfit(r) :
              /\ \A p \in Unfit(r) : o.seq <= p.seq
              /\ quar' = quar \cup {o}
        /\ Answer(c, "refused", 0)
        /\ UNCHANGED <<ingestFrame, cursor, inbox, proj>>

-----------------------------------------------------------------------------

NodeStep(n) ==
    \/ \E e \in Epochs : Import(n, e)
    \/ AppendOperation(n)
    \/ CreateBundle(n)
    \/ RestoreBundle(n)

AgentStep(n) == \E c \in Calls : Post(n, c) \/ HandleAnswer(n, c)

CloudStep(c) ==
    IngestCheck(c) \/ IngestAccept(c) \/ IngestConflict(c) \/ IngestReject(c)

Next ==
    \/ AuthorityNext /\ UNCHANGED <<nodeVars, calls, quar, minted, faults, restores>>
    \/ \E n \in Nodes :
          \/ NodeStep(n)
          \/ AgentStep(n)
          \/ \E c \in Calls : NetworkError(n, c) \/ AgentDies(n, c)
          \/ \E o \in Op : BackoffOver(n, o)
    \/ \E c \in Calls : CloudStep(c)

Spec == Init /\ [][Next]_vars

\* The agent polls, backoffs pass, and the cloud serves what arrives.
Fairness ==
    /\ \A n \in Nodes : WF_vars(AgentStep(n))
    /\ \A n \in Nodes, o \in Op : WF_vars(BackoffOver(n, o))
    /\ \A c \in Calls : WF_vars(CloudStep(c))

\* A tournament checked out: the node has imported epoch 1 and is ready.
CheckedOutInit ==
    /\ \E n \in Nodes :
          /\ db = [m \in Nodes |-> IF m = n THEN [EmptyDb EXCEPT !.epoch = 1]
                                   ELSE EmptyDb]
          /\ st = [e \in Epochs |-> IF e = 1 THEN "active" ELSE "none"]
          /\ holder = [e \in Epochs |-> IF e = 1 THEN n ELSE None]
    /\ declared = [e \in Epochs |-> 0]
    /\ cursor = [e \in Epochs |-> 0]
    /\ inbox = {}
    /\ proj = NoProjection
    /\ revoked = {}
    /\ admin = [a \in Admins |-> FreshAdmin]
    /\ NodeInit

CheckedOutSpec == CheckedOutInit /\ [][Next]_vars /\ Fairness

-----------------------------------------------------------------------------
(* What holds of every interleaving. *)

\* No operation is acknowledged that the cloud has not received, under its own
\* id: not after a late answer, a lost one, a duplicate upload, or an upload
\* from a restored database that reuses sequence numbers.
NoFalseAck == \A n \in Nodes : db[n].ack \subseteq inbox

\* The receipts of an epoch are one operation for each sequence up to the
\* cursor, which is what rebuild and recovery replay.
InboxContiguous ==
    \A e \in Epochs :
        /\ {o.seq : o \in Receipts(e)} = 1..cursor[e]
        /\ \A o, p \in Receipts(e) : o.seq = p.seq => o = p

\* A node's blocked row always has evidence on the cloud: a quarantined
\* operation of its epoch, or the revocation of the device.
RefusalsVisible ==
    \A n \in Nodes : db[n].blocked # {} =>
        n \in revoked \/ \E o \in quar : o.epoch = db[n].epoch

\* No two nodes run the same epoch, however their checkouts race with each
\* other and with the return, transfer or recovery of an epoch between them.
OneNodePerEpoch ==
    \A m, n \in Nodes : db[m].epoch # NoEpoch /\ db[m].epoch = db[n].epoch => m = n

(* What holds when no cloud session commits inside another. *)

Chronicle == INSTANCE SyncLog
    WITH delivered <- [e \in Epochs |-> [s \in 1..cursor[e] |->
                          (CHOOSE o \in Receipts(e) : o.seq = s).id]],
         sealed <- {e \in Epochs : st[e] \in {"closed", "recovered"}},
         acked <- UNION {{o.id : o \in db[n].ack} : n \in Nodes}

\* The pipeline implements the log: in order, once, nothing after the epoch is
\* closed, and no false acknowledgement.
LogSpec == Chronicle!Spec

(* What must eventually happen. *)

\* Once the projection has a row of its epoch, every operation in the outbox is
\* settled: acknowledged or blocked.  Before that a batch of several operations
\* may be turned away for ever (IngestConflict).
EveryOpSettles ==
    \A n \in Nodes, o \in Op :
        (o \in db[n].ops /\ proj.epoch = o.epoch) ~> o \in db[n].ack \cup db[n].blocked

\* An operation of a node whose epoch stays in force reaches the cloud once
\* the network is back.
EveryOpArrives ==
    \A n \in Nodes, o \in Op : o \in db[n].ops ~> o \in inbox
=============================================================================
