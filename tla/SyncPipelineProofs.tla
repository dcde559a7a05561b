------------------------- MODULE SyncPipelineProofs -------------------------
(***************************************************************************)
(* Theorems about SyncPipeline, for every set of nodes and threads, every  *)
(* number of epochs, operations, failures and restores, whether or not     *)
(* cloud sessions interleave.                                              *)
(***************************************************************************)
EXTENDS SyncPipeline, TLAPS

-----------------------------------------------------------------------------
(* One epoch in force. *)

\* Of the authority requests, the commits of checkout, readiness and leaving
\* write epochs, none writes receipts, and a revocation only adds to the
\* revoked devices.
LEMMA AuthorityWrites ==
    ASSUME AuthorityNext
    PROVE  /\ UNCHANGED <<inbox, cursor>>
           /\ revoked \subseteq revoked'
           /\ \/ UNCHANGED <<st, holder>>
              \/ \E a \in Admins :
                    CheckoutCommit(a) \/ ReadyCommit(a) \/ LeaveCommit(a)
<1> DEFINE Reads == UNCHANGED <<st, holder, inbox, cursor, revoked>>
           Writes == UNCHANGED <<inbox, cursor, revoked>>
<1>1. ASSUME NEW a \in Admins, NEW n \in Nodes, CheckoutRead(a, n) PROVE Reads
  BY <1>1 DEF CheckoutRead
<1>2. ASSUME NEW a \in Admins, NEW e \in Epochs,
             ReadyRead(a, e) \/ ReturnRead(a, e) \/ RebuildRead(a, e)
      PROVE  Reads
  BY <1>2 DEF ReadyRead, ReturnRead, RebuildRead
<1>3. ASSUME NEW a \in Admins, NEW e \in Epochs, NEW n \in Nodes,
             TransferRead(a, e, n) \/ RecoverRead(a, e, n)
      PROVE  Reads
  BY <1>3 DEF TransferRead, RecoverRead
<1>4. ASSUME NEW a \in Admins, LeaveExhausted(a) \/ RebuildCommit(a) PROVE Reads
  BY <1>4 DEF LeaveExhausted, RebuildCommit
<1>5. ASSUME NEW a \in Admins, CheckoutCommit(a) \/ ReadyCommit(a) PROVE Writes
  BY <1>5 DEF CheckoutCommit, ReadyCommit
<1>6. ASSUME NEW a \in Admins, LeaveCommit(a) PROVE Writes
  BY <1>6 DEF LeaveCommit
<1>7. ASSUME NEW n \in Nodes, RevokeDevice(n)
      PROVE  UNCHANGED <<st, holder, inbox, cursor>> /\ revoked \subseteq revoked'
  BY <1>7 DEF RevokeDevice
<1> QED
  BY <1>1, <1>2, <1>3, <1>4, <1>5, <1>6, <1>7 DEF AuthorityNext

\* An authority request writes the epoch states that it read, or states that
\* satisfy the partial unique index.
LEMMA IndexGuards ==
    ASSUME AuthorityNext PROVE UNCHANGED st \/ LiveIndex(st')
<1>1. ASSUME NEW a \in Admins, CheckoutCommit(a) PROVE UNCHANGED st \/ LiveIndex(st')
  BY <1>1 DEF CheckoutCommit
<1>2. ASSUME NEW a \in Admins, ReadyCommit(a) PROVE UNCHANGED st \/ LiveIndex(st')
  BY <1>2 DEF ReadyCommit
<1>3. ASSUME NEW a \in Admins, LeaveCommit(a) PROVE UNCHANGED st \/ LiveIndex(st')
  BY <1>3 DEF LeaveCommit
<1> QED
  BY <1>1, <1>2, <1>3, AuthorityWrites

\* Nothing but an authority request changes the state of an epoch.
LEMMA OnlyAuthority ==
    ASSUME [Next]_vars PROVE AuthorityNext \/ UNCHANGED <<st, holder>>
<1>1. ASSUME NEW n \in Nodes, NodeStep(n) PROVE UNCHANGED <<st, holder>>
  BY <1>1 DEF NodeStep, Import, AppendOperation, CreateBundle, RestoreBundle,
              authVars
<1>2. ASSUME NEW n \in Nodes,
             \/ AgentStep(n)
             \/ \E c \in Calls : NetworkError(n, c) \/ AgentDies(n, c)
             \/ \E o \in Op : BackoffOver(n, o)
      PROVE  UNCHANGED <<st, holder>>
  BY <1>2 DEF AgentStep, Post, HandleAnswer, NetworkError, AgentDies, Abandon,
              BackoffOver, authVars
<1>3. ASSUME NEW c \in Calls, CloudStep(c) PROVE UNCHANGED <<st, holder>>
  BY <1>3 DEF CloudStep, IngestCheck, IngestAccept, IngestConflict,
              IngestReject, ingestFrame, authVars
<1> QED
  BY <1>1, <1>2, <1>3 DEF Next, vars, authVars

\* Every commit keeps the partial unique index or is rolled back.
LEMMA IndexStands == Spec => []LiveIndex(st)
<1>1. Init => LiveIndex(st)
  BY DEF Init, AuthorityInit, LiveIndex, Live
<1>2. LiveIndex(st) /\ [Next]_vars => LiveIndex(st)'
  BY IndexGuards, OnlyAuthority DEF LiveIndex
<1> QED
  BY <1>1, <1>2, PTL DEF Spec

-----------------------------------------------------------------------------
(* Types. *)

AdminPcs ==
    {"idle", "checkout", "ready", "return", "transfer", "recover", "rebuild"}
Codes == {"none", "ok", "refused", "unavailable"}
Marks == SUBSET Op

\* A write of one field of a request gives a request.
LEMMA AdminFields ==
    \A r \in AdminState :
        /\ \A x \in AdminPcs : [r EXCEPT !.pc = x] \in AdminState
        /\ \A x \in Epochs \cup {NoEpoch} : [r EXCEPT !.epoch = x] \in AdminState
        /\ \A x \in Nodes \cup {None} : [r EXCEPT !.node = x] \in AdminState
        /\ \A x \in 0..MaxSeq : [r EXCEPT !.seq = x] \in AdminState
        /\ \A x \in Projection : [r EXCEPT !.old = x] \in AdminState
BY DEF AdminState, AdminPcs

\* A write of one field of a node's database gives a database.
LEMMA DbFields ==
    \A d \in NodeDb :
        /\ \A x \in Epochs \cup {NoEpoch} : [d EXCEPT !.epoch = x] \in NodeDb
        /\ \A x \in 1..(MaxSeq + 1) : [d EXCEPT !.next = x] \in NodeDb
        /\ \A x \in Marks : [d EXCEPT !.ops = x] \in NodeDb
        /\ \A x \in Marks : [d EXCEPT !.ack = x] \in NodeDb
        /\ \A x \in Marks : [d EXCEPT !.blocked = x] \in NodeDb
        /\ \A x \in Marks : [d EXCEPT !.backoff = x] \in NodeDb
BY DEF NodeDb, Marks

\* A write of one field of an upload gives an upload.
LEMMA CallFields ==
    \A r \in CallState :
        /\ \A x \in {"free", "sent", "checked", "answered"} :
              [r EXCEPT !.pc = x] \in CallState
        /\ \A x \in Nodes \cup {None} : [r EXCEPT !.node = x] \in CallState
        /\ \A x \in Epochs \cup {NoEpoch} : [r EXCEPT !.epoch = x] \in CallState
        /\ \A x \in Marks : [r EXCEPT !.batch = x] \in CallState
        /\ \A x \in BOOLEAN : [r EXCEPT !.again = x] \in CallState
        /\ \A x \in Codes : [r EXCEPT !.code = x] \in CallState
        /\ \A x \in 0..MaxSeq : [r EXCEPT !.high = x] \in CallState
BY DEF CallState, Marks, Codes

\* The values that the processes start from.
LEMMA FreshTyped ==
    /\ NoProjection \in Projection
    /\ FreshAdmin \in AdminState
    /\ EmptyDb \in NodeDb
    /\ FreeCall \in CallState
<1>0. 0 \in 0..MaxSeq /\ 1 \in 1..(MaxSeq + 1)
  BY AuthorityAssumption
<1>1. NoProjection \in Projection
  BY <1>0 DEF NoProjection, Projection, NoEpoch
<1>2. FreshAdmin \in AdminState
  BY <1>0, <1>1 DEF FreshAdmin, AdminState, NoEpoch
<1>3. EmptyDb \in NodeDb
  BY <1>0 DEF EmptyDb, NodeDb, NoEpoch
<1>4. FreeCall \in CallState
  BY <1>0 DEF FreeCall, CallState, NoEpoch
<1> QED
  BY <1>1, <1>2, <1>3, <1>4

\* Init establishes the types.
LEMMA InitTyped == Init => TypeOK
<1> SUFFICES ASSUME Init PROVE TypeOK
  OBVIOUS
<1>1. AuthorityTypeOK
  BY FreshTyped, AuthorityAssumption
     DEF Init, AuthorityInit, AuthorityTypeOK, EpochState
<1>2. faults \in 0..MaxFaults /\ restores \in 0..MaxRestores
  BY PipelineAssumption DEF Init, NodeInit
<1> QED
  BY <1>1, <1>2, FreshTyped DEF Init, NodeInit, TypeOK

\* A request that begins is a request.
LEMMA StartsTyped ==
    ASSUME AuthorityTypeOK, NEW a \in Admins, NEW pc \in AdminPcs,
           NEW e \in Epochs, NEW n \in Nodes \cup {None}, NEW seq \in 0..MaxSeq,
           Starts(a, pc, e, n, seq)
    PROVE  admin' \in [Admins -> AdminState]
<1>1. e \in Epochs \cup {NoEpoch}
  OBVIOUS
<1>2. admin \in [Admins -> AdminState]
  BY DEF AuthorityTypeOK
<1>3. [FreshAdmin EXCEPT !.pc = pc, !.epoch = e, !.node = n, !.seq = seq]
         \in AdminState
  BY <1>1, FreshTyped, AdminFields
<1> QED
  BY <1>2, <1>3 DEF Starts

\* So is one that has ended.
LEMMA EndsTyped ==
    ASSUME AuthorityTypeOK, NEW a \in Admins, Ends(a)
    PROVE  admin' \in [Admins -> AdminState]
BY FreshTyped DEF Ends, AuthorityTypeOK

\* A rebuilt projection, and one of which some columns are kept, is a
\* projection.
LEMMA RebuiltTyped ==
    ASSUME NEW r \in AdminState, proj \in Projection
    PROVE  /\ Rebuilt(r) \in Projection
           /\ [epoch |-> Column(r.old.epoch, Rebuilt(r).epoch, proj.epoch),
               last |-> Column(r.old.last, Rebuilt(r).last, proj.last),
               data |-> Column(r.old.data, Rebuilt(r).data, proj.data)]
                 \in Projection
<1>1. r.seq \in 0..MaxSeq
  BY DEF AdminState
<1>2. 0..r.seq \in SUBSET (0..MaxSeq)
  BY <1>1, AuthorityAssumption
<1>3. Rebuilt(r) \in Projection
  BY <1>1, <1>2 DEF Rebuilt, Projection, AdminState
<1> QED
  BY <1>3 DEF Column, Projection

\* Every authority request keeps the types.
LEMMA AuthorityTyped ==
    ASSUME AuthorityTypeOK, AuthorityNext
    PROVE  AuthorityTypeOK'
<1> USE EndsTyped, StartsTyped
<1>0. /\ st \in [Epochs -> EpochState]
      /\ holder \in [Epochs -> Nodes \cup {None}]
      /\ declared \in [Epochs -> 0..MaxSeq]
      /\ cursor \in [Epochs -> 0..MaxSeq]
      /\ \A a \in Admins : admin[a] \in AdminState
      /\ \A a \in Admins : admin[a].node \in Nodes \cup {None}
      /\ \A a \in Admins : admin[a].seq \in 0..MaxSeq
  BY DEF AuthorityTypeOK, AdminState
<1>1. 0 \in 0..MaxSeq
  BY AuthorityAssumption
<1>2. ASSUME NEW a \in Admins, NEW n \in Nodes, CheckoutRead(a, n)
      PROVE  AuthorityTypeOK'
  BY <1>1, <1>2 DEF CheckoutRead, AuthorityTypeOK, AdminPcs
<1>3. ASSUME NEW a \in Admins, CheckoutCommit(a) PROVE AuthorityTypeOK'
  BY <1>0, <1>3 DEF CheckoutCommit, AuthorityTypeOK, EpochState, Live
<1>4. ASSUME NEW a \in Admins, NEW e \in Epochs, ReadyRead(a, e)
      PROVE  AuthorityTypeOK'
  BY <1>0, <1>1, <1>4 DEF ReadyRead, AuthorityTypeOK, AdminPcs
<1>5. ASSUME NEW a \in Admins, ReadyCommit(a) PROVE AuthorityTypeOK'
  BY <1>0, <1>5 DEF ReadyCommit, AuthorityTypeOK, EpochState, Live
<1>6. ASSUME NEW a \in Admins, NEW e \in Epochs, ReturnRead(a, e)
      PROVE  AuthorityTypeOK'
  BY <1>0, <1>6 DEF ReturnRead, AuthorityTypeOK, AdminPcs
<1>7. ASSUME NEW a \in Admins, NEW e \in Epochs, NEW n \in Nodes,
             TransferRead(a, e, n) \/ RecoverRead(a, e, n)
      PROVE  AuthorityTypeOK'
  BY <1>0, <1>7 DEF TransferRead, RecoverRead, AuthorityTypeOK, AdminPcs
<1>8. ASSUME NEW a \in Admins, LeaveCommit(a) PROVE AuthorityTypeOK'
  <2>1. ClosedAs(admin[a].pc) \in EpochState /\ SuccessorAs(admin[a].pc) \in EpochState
    BY DEF ClosedAs, SuccessorAs, EpochState, Live
  <2> QED
    BY <1>0, <1>8, <2>1 DEF LeaveCommit, AuthorityTypeOK
<1>9. ASSUME NEW a \in Admins, LeaveExhausted(a) PROVE AuthorityTypeOK'
  BY <1>9 DEF LeaveExhausted, AuthorityTypeOK
<1>10. ASSUME NEW a \in Admins, NEW e \in Epochs, RebuildRead(a, e)
       PROVE  AuthorityTypeOK'
  <2>1. [FreshAdmin EXCEPT !.pc = "rebuild", !.epoch = e, !.seq = cursor[e],
                           !.old = proj] \in AdminState
    <3>1. e \in Epochs \cup {NoEpoch} /\ cursor[e] \in 0..MaxSeq
             /\ proj \in Projection /\ "rebuild" \in AdminPcs
      BY <1>0 DEF AuthorityTypeOK, AdminPcs
    <3> QED
      BY <3>1, FreshTyped, AdminFields
  <2> QED
    BY <1>0, <1>10, <2>1 DEF RebuildRead, AuthorityTypeOK
<1>11. ASSUME NEW a \in Admins, RebuildCommit(a) PROVE AuthorityTypeOK'
  <2>1. proj' \in Projection
    BY <1>0, <1>11, RebuiltTyped DEF RebuildCommit, AuthorityTypeOK
  <2> QED
    BY <1>11, <2>1 DEF RebuildCommit, AuthorityTypeOK
<1>12. ASSUME NEW n \in Nodes, RevokeDevice(n) PROVE AuthorityTypeOK'
  BY <1>12 DEF RevokeDevice, AuthorityTypeOK
<1> QED
  BY <1>2, <1>3, <1>4, <1>5, <1>6, <1>7, <1>8, <1>9, <1>10, <1>11, <1>12
     DEF AuthorityNext

\* The steps of a node keep the types.
LEMMA NodeTyped ==
    ASSUME TypeOK, NEW n \in Nodes, NodeStep(n) PROVE TypeOK'
<1>0. /\ db \in [Nodes -> NodeDb] /\ db[n] \in NodeDb
      /\ bundle \in [Nodes -> NodeDb] /\ bundle[n] \in NodeDb
      /\ calls \in [Calls -> CallState]
      /\ db[n].next \in 1..(MaxSeq + 1)
      /\ db[n].epoch \in Epochs \cup {NoEpoch}
      /\ db[n].ops \in Marks
  BY DEF TypeOK, NodeDb, Marks
<1> USE DEF TypeOK, authVars, AuthorityTypeOK
<1>1. ASSUME NEW e \in Epochs, Import(n, e) PROVE TypeOK'
  <2>1. [db[n] EXCEPT !.epoch = e] \in NodeDb
    BY <1>0, DbFields
  <2>2. db' \in [Nodes -> NodeDb]
    BY <1>0, <1>1, <2>1 DEF Import
  <2> QED
    BY <1>1, <2>2 DEF Import
<1>2. CASE AppendOperation(n)
  <2>1. PICK i \in OpIds :
           LET o == [epoch |-> db[n].epoch, seq |-> db[n].next, id |-> i]
           IN  /\ db' = [db EXCEPT ![n].ops = @ \cup {o}, ![n].next = @ + 1]
               /\ minted' = minted \cup {o}
    BY <1>2 DEF AppendOperation
  <2> DEFINE o == [epoch |-> db[n].epoch, seq |-> db[n].next, id |-> i]
  <2>2. db[n].next \in 1..MaxSeq /\ db[n].next + 1 \in 1..(MaxSeq + 1)
    BY <1>0, <1>2, AuthorityAssumption DEF AppendOperation
  <2>3. o \in Op
    BY <1>0, <1>2, <2>2 DEF AppendOperation, Op, Seqs
  <2>4. db[n].ops \cup {o} \in Marks
    BY <1>0, <2>3 DEF Marks
  <2>5. [db[n] EXCEPT !.ops = db[n].ops \cup {o}] \in NodeDb
    BY <1>0, <2>4, DbFields
  <2>6. [db[n] EXCEPT !.ops = db[n].ops \cup {o}, !.next = db[n].next + 1] \in NodeDb
    BY <2>2, <2>5, DbFields
  <2>7. db' \in [Nodes -> NodeDb]
    BY <1>0, <2>1, <2>6
  <2>8. minted' \subseteq Op
    BY <2>1, <2>3
  <2> QED
    BY <1>2, <2>7, <2>8 DEF AppendOperation
<1>3. CASE CreateBundle(n)
  BY <1>0, <1>3 DEF CreateBundle
<1>4. CASE RestoreBundle(n)
  <2>1. calls' \in [Calls -> CallState]
    BY <1>0, <1>4, FreshTyped DEF RestoreBundle
  <2>2. db' \in [Nodes -> NodeDb] /\ call' \in [Nodes -> Calls \cup {NoCall}]
    BY <1>0, <1>4 DEF RestoreBundle
  <2>3. restores' \in 0..MaxRestores
    BY <1>4, PipelineAssumption DEF RestoreBundle
  <2> QED
    BY <1>4, <2>1, <2>2, <2>3 DEF RestoreBundle
<1> QED
  BY <1>1, <1>2, <1>3, <1>4 DEF NodeStep

\* What an answer does to the outbox keeps the database typed.
LEMMA MarkedTyped ==
    ASSUME NEW d \in NodeDb, NEW r \in CallState PROVE Marked(d, r) \in NodeDb
<1>1. /\ d.ack \in Marks /\ d.blocked \in Marks /\ d.backoff \in Marks
      /\ r.batch \in Marks
  BY DEF NodeDb, CallState, Marks
<1>2. /\ d.ack \cup Acknowledged(r) \in Marks
      /\ (IF r.code = "refused" THEN d.blocked \cup r.batch ELSE d.blocked) \in Marks
      /\ (IF r.code = "unavailable" THEN d.backoff \cup r.batch
             ELSE d.backoff) \in Marks
  BY <1>1 DEF Acknowledged, Marks
<1> DEFINE x == d.ack \cup Acknowledged(r)
           y == IF r.code = "refused" THEN d.blocked \cup r.batch ELSE d.blocked
           z == IF r.code = "unavailable" THEN d.backoff \cup r.batch
                   ELSE d.backoff
<1>3. [d EXCEPT !.ack = x] \in NodeDb
  BY <1>2, DbFields
<1>4. [[d EXCEPT !.ack = x] EXCEPT !.blocked = y] \in NodeDb
  BY <1>2, <1>3, DbFields
<1>5. [[[d EXCEPT !.ack = x] EXCEPT !.blocked = y] EXCEPT !.backoff = z] \in NodeDb
  BY <1>2, <1>4, DbFields
<1>6. Marked(d, r) = [[[d EXCEPT !.ack = x] EXCEPT !.blocked = y] EXCEPT !.backoff = z]
  BY DEF Marked, NodeDb
<1> QED
  BY <1>5, <1>6

\* The steps of a sync agent keep the types.
LEMMA AgentTyped ==
    ASSUME TypeOK, NEW n \in Nodes,
           \/ AgentStep(n)
           \/ \E c \in Calls : NetworkError(n, c) \/ AgentDies(n, c)
           \/ \E o \in Op : BackoffOver(n, o)
    PROVE  TypeOK'
<1>0. /\ db \in [Nodes -> NodeDb] /\ db[n] \in NodeDb
      /\ call \in [Nodes -> Calls \cup {NoCall}]
      /\ calls \in [Calls -> CallState]
      /\ db[n].epoch \in Epochs \cup {NoEpoch}
      /\ db[n].ops \in Marks /\ db[n].backoff \in Marks
      /\ \A c \in Calls : calls[c].batch \in Marks
  BY DEF TypeOK, NodeDb, CallState, Marks
<1> USE DEF TypeOK, authVars, AuthorityTypeOK
<1>1. ASSUME NEW c \in Calls, Post(n, c) PROVE TypeOK'
  <2>1. PICK b \in SUBSET Due(n) :
           calls' = [calls EXCEPT ![c] = [FreeCall EXCEPT !.pc = "sent",
                       !.node = n, !.epoch = db[n].epoch, !.batch = b]]
    BY <1>1 DEF Post
  <2>2. b \in Marks /\ n \in Nodes \cup {None}
    BY <1>0, <2>1 DEF Due, Marks
  <2>3. [FreeCall EXCEPT !.pc = "sent", !.node = n, !.epoch = db[n].epoch,
                         !.batch = b] \in CallState
    BY <1>0, <2>2, FreshTyped, CallFields
  <2>4. calls' \in [Calls -> CallState]
    BY <1>0, <2>1, <2>3
  <2> QED
    BY <1>1, <2>4 DEF Post
<1>2. ASSUME NEW c \in Calls, HandleAnswer(n, c) PROVE TypeOK'
  <2>1. db' \in [Nodes -> NodeDb]
    BY <1>0, <1>2, MarkedTyped DEF HandleAnswer
  <2>2. calls' \in [Calls -> CallState]
    BY <1>0, <1>2, FreshTyped DEF HandleAnswer
  <2> QED
    BY <1>2, <2>1, <2>2 DEF HandleAnswer
<1>3. ASSUME NEW c \in Calls, Abandon(n, c), db' \in [Nodes -> NodeDb]
      PROVE  TypeOK'
  <2>1. calls' \in [Calls -> CallState]
    BY <1>0, <1>3, FreshTyped DEF Abandon
  <2>2. faults' \in 0..MaxFaults
    BY <1>3, PipelineAssumption DEF Abandon
  <2> QED
    BY <1>3, <2>1, <2>2 DEF Abandon
<1>4. ASSUME NEW c \in Calls, NetworkError(n, c) PROVE TypeOK'
  <2>1. db[n].backoff \cup calls[c].batch \in Marks
    BY <1>0 DEF Marks
  <2>2. [db[n] EXCEPT !.backoff = db[n].backoff \cup calls[c].batch] \in NodeDb
    BY <1>0, <2>1, DbFields
  <2>3. db' \in [Nodes -> NodeDb]
    BY <1>0, <1>4, <2>2 DEF NetworkError
  <2> QED
    BY <1>3, <1>4, <2>3 DEF NetworkError
<1>5. ASSUME NEW c \in Calls, AgentDies(n, c) PROVE TypeOK'
  BY <1>0, <1>3, <1>5 DEF AgentDies
<1>6. ASSUME NEW o \in Op, BackoffOver(n, o) PROVE TypeOK'
  <2>1. db[n].backoff \ {o} \in Marks
    BY <1>0 DEF Marks
  <2>2. [db[n] EXCEPT !.backoff = db[n].backoff \ {o}] \in NodeDb
    BY <1>0, <2>1, DbFields
  <2>3. db' \in [Nodes -> NodeDb]
    BY <1>0, <1>6, <2>2 DEF BackoffOver
  <2> QED
    BY <1>6, <2>3 DEF BackoffOver
<1> QED
  BY <1>1, <1>2, <1>4, <1>5, <1>6 DEF AgentStep

\* An answered upload, or a freed one, is an upload.
LEMMA AnswerTyped ==
    ASSUME calls \in [Calls -> CallState], NEW c \in Calls, NEW code \in Codes,
           NEW high \in 0..MaxSeq, Answer(c, code, high)
    PROVE  calls' \in [Calls -> CallState]
<1>1. calls[c] \in CallState
  OBVIOUS
<1>2. [calls[c] EXCEPT !.pc = "answered"] \in CallState
  BY <1>1, CallFields
<1>3. [calls[c] EXCEPT !.pc = "answered", !.again = FALSE] \in CallState
  BY <1>2, CallFields
<1>4. [calls[c] EXCEPT !.pc = "answered", !.again = FALSE, !.code = code]
         \in CallState
  BY <1>3, CallFields
<1>5. [calls[c] EXCEPT !.pc = "answered", !.again = FALSE, !.code = code,
                       !.high = high] \in CallState
  BY <1>4, CallFields
<1> QED
  BY <1>5, FreshTyped DEF Answer

\* A database holds operations of its own epoch, under sequences it has
\* allocated, one for each.
Logged(d) ==
    /\ \A o \in d.ops : o.epoch = d.epoch /\ o.seq < d.next
    /\ \A o, p \in d.ops : o.seq = p.seq => o = p

\* An upload names its epoch, and carries at most one operation of the epoch
\* for a sequence.
Batched(r) ==
    /\ r.pc # "free" => r.epoch \in Epochs
    /\ \A o \in r.batch : o.epoch = r.epoch
    /\ \A o, p \in r.batch : o.seq = p.seq => o = p

Scoped ==
    /\ \A n \in Nodes : Logged(db[n]) /\ Logged(bundle[n])
    /\ \A c \in Calls : Batched(calls[c])

\* Ingestion keeps the types.
LEMMA CloudTyped ==
    ASSUME TypeOK, Scoped, NEW c \in Calls, CloudStep(c) PROVE TypeOK'
<1>0. /\ calls \in [Calls -> CallState] /\ calls[c] \in CallState
      /\ calls[c].batch \subseteq Op
      /\ calls[c].epoch \in Epochs \cup {NoEpoch}
      /\ cursor \in [Epochs -> 0..MaxSeq]
      /\ proj \in Projection
      /\ inbox \subseteq Op /\ quar \subseteq Op
      /\ 0 \in 0..MaxSeq
      /\ "refused" \in Codes /\ "ok" \in Codes /\ "unavailable" \in Codes
  BY AuthorityAssumption DEF TypeOK, AuthorityTypeOK, CallState, Codes
<1> USE DEF TypeOK, AuthorityTypeOK, ingestFrame, nodeVars
<1>1. CASE IngestCheck(c)
  <2>1. calls' \in [Calls -> CallState]
    <3>1. CASE Answer(c, "refused", 0)
      BY <1>0, <3>1, AnswerTyped
    <3>2. CASE calls' = [calls EXCEPT ![c].pc = "checked"]
      BY <1>0, <3>2, CallFields
    <3> QED
      BY <1>1, <3>1, <3>2 DEF IngestCheck
  <2>2. quar' \subseteq Op
    BY <1>0, <1>1 DEF IngestCheck, Evidence
  <2> QED
    BY <1>1, <2>1, <2>2 DEF IngestCheck
<1>2. CASE IngestAccept(c)
  <2> DEFINE r == calls[c]
  <2>1. PICK high \in cursor[r.epoch]..MaxSeq :
           /\ inbox' = inbox \cup New(r)
           /\ \A o \in New(r) : o.seq <= high
           /\ high = cursor[r.epoch] \/ \E o \in New(r) : o.seq = high
           /\ cursor' = [cursor EXCEPT ![r.epoch] = high]
           /\ proj' = IF New(r) = {} THEN proj
                      ELSE [epoch |-> r.epoch, last |-> high,
                            data |-> proj.data \cup {o.seq : o \in New(r)}]
           /\ Answer(c, "ok", high)
    BY <1>2 DEF IngestAccept
  <2>2. New(r) \subseteq Op
    BY <1>0 DEF New
  <2>3. r.epoch \in Epochs
    BY <1>2 DEF IngestAccept, Scoped, Batched
  <2>4. high \in 0..MaxSeq
    BY <1>0, <2>1, <2>3, AuthorityAssumption
  <2>5. calls' \in [Calls -> CallState]
    BY <1>0, <2>1, <2>4, AnswerTyped
  <2>6. cursor' \in [Epochs -> 0..MaxSeq]
    BY <1>0, <2>1, <2>3, <2>4
  <2>7. proj' \in Projection
    <3>1. proj.data \cup {o.seq : o \in New(r)} \subseteq 0..MaxSeq
      BY <1>0, <2>2, AuthorityAssumption DEF Projection, Op, Seqs
    <3> QED
      BY <1>0, <2>1, <2>3, <2>4, <3>1 DEF Projection
  <2>8. inbox' \subseteq Op
    BY <1>0, <2>1, <2>2
  <2> QED
    BY <1>2, <2>5, <2>6, <2>7, <2>8 DEF IngestAccept
<1>3. CASE IngestConflict(c)
  <2>1. calls' \in [Calls -> CallState]
    <3>1. CASE Answer(c, "unavailable", 0)
      BY <1>0, <3>1, AnswerTyped
    <3>2. CASE calls' = [calls EXCEPT ![c].pc = "sent", ![c].again = TRUE]
      <4>1. [calls[c] EXCEPT !.pc = "sent"] \in CallState
        BY <1>0, CallFields
      <4>2. [calls[c] EXCEPT !.pc = "sent", !.again = TRUE] \in CallState
        BY <4>1, CallFields
      <4> QED
        BY <1>0, <3>2, <4>2
    <3> QED
      BY <1>3, <3>1, <3>2 DEF IngestConflict
  <2> QED
    BY <1>3, <2>1 DEF IngestConflict
<1>4. CASE IngestReject(c)
  <2>1. calls' \in [Calls -> CallState]
    BY <1>0, <1>4, AnswerTyped DEF IngestReject
  <2>2. quar' \subseteq Op
    BY <1>0, <1>4 DEF IngestReject, Unfit
  <2> QED
    BY <1>4, <2>1, <2>2 DEF IngestReject
<1> QED
  BY <1>1, <1>2, <1>3, <1>4 DEF CloudStep

\* The epoch, the sequence numbers and the batches stay in step.
LEMMA ScopedStep ==
    ASSUME TypeOK, Scoped, [Next]_vars PROVE Scoped'
<1>0. /\ db \in [Nodes -> NodeDb] /\ bundle \in [Nodes -> NodeDb]
      /\ calls \in [Calls -> CallState]
      /\ \A n \in Nodes : /\ db[n] \in NodeDb
                          /\ db[n].ops \subseteq Op
                          /\ db[n].next \in Nat
                          /\ db[n].epoch \in Epochs \cup {NoEpoch}
      /\ \A o \in Op : o.epoch \in Epochs /\ o.seq \in Nat
      /\ NoEpoch \notin Epochs
  BY AuthorityAssumption DEF TypeOK, NodeDb, Op, Seqs, NoEpoch, Epochs
<1>1. /\ \A n \in Nodes : Logged(db[n]) /\ Logged(bundle[n])
      /\ \A c \in Calls : Batched(calls[c])
  BY DEF Scoped
<1>2. Batched(FreeCall)
  BY DEF Batched, FreeCall
<1>3. CASE UNCHANGED <<db, bundle, calls>>
  BY <1>1, <1>3 DEF Scoped
<1>4. ASSUME NEW n \in Nodes, NEW e \in Epochs, Import(n, e) PROVE Scoped'
  <2>1. db[n].ops = {}
    BY <1>0, <1>1, <1>4 DEF Import, Logged
  <2>2. db'[n].ops = {}
    BY <1>0, <1>4, <2>1 DEF Import, NodeDb
  <2>3. \A m \in Nodes : m # n => db'[m] = db[m]
    BY <1>0, <1>4 DEF Import
  <2> QED
    BY <1>1, <1>4, <2>2, <2>3 DEF Import, Scoped, Logged
<1>5. ASSUME NEW n \in Nodes, AppendOperation(n) PROVE Scoped'
  <2>1. PICK i \in OpIds :
           db' = [db EXCEPT ![n].ops = @ \cup {[epoch |-> db[n].epoch,
                                                seq |-> db[n].next, id |-> i]},
                            ![n].next = @ + 1]
    BY <1>5 DEF AppendOperation
  <2> DEFINE o == [epoch |-> db[n].epoch, seq |-> db[n].next, id |-> i]
  <2>2. /\ db'[n].ops = db[n].ops \cup {o}
        /\ db'[n].next = db[n].next + 1
        /\ db'[n].epoch = db[n].epoch
    BY <1>0, <2>1 DEF NodeDb
  <2>3. o.epoch = db[n].epoch /\ o.seq = db[n].next
    OBVIOUS
  <2> HIDE DEF o
  <2>4. Logged(db'[n])
    BY <1>0, <1>1, <2>2, <2>3 DEF Logged
  <2>5. \A m \in Nodes : m # n => db'[m] = db[m]
    BY <1>0, <2>1
  <2> QED
    BY <1>1, <1>5, <2>4, <2>5 DEF AppendOperation, Scoped
<1>6. ASSUME NEW n \in Nodes, CreateBundle(n) \/ RestoreBundle(n) PROVE Scoped'
  <2>1. \A m \in Nodes : /\ db'[m] = db[m] \/ db'[m] = bundle[m]
                         /\ bundle'[m] = bundle[m] \/ bundle'[m] = db[m]
    BY <1>0, <1>6 DEF CreateBundle, RestoreBundle
  <2>2. \A c \in Calls : calls'[c] = calls[c] \/ calls'[c] = FreeCall
    BY <1>0, <1>6 DEF CreateBundle, RestoreBundle
  <2> QED
    BY <1>1, <1>2, <2>1, <2>2 DEF Scoped
<1>7. ASSUME NEW n \in Nodes, NEW c \in Calls, Post(n, c) PROVE Scoped'
  <2>1. PICK b \in SUBSET Due(n) :
           /\ b # {}
           /\ calls' = [calls EXCEPT ![c] = [FreeCall EXCEPT !.pc = "sent",
                          !.node = n, !.epoch = db[n].epoch, !.batch = b]]
    BY <1>7 DEF Post, IsBatch
  <2>2. b \subseteq db[n].ops
    BY <2>1 DEF Due
  <2>3. /\ calls'[c].epoch = db[n].epoch
        /\ calls'[c].batch = b
    BY <1>0, <2>1 DEF FreeCall
  <2>4. db[n].epoch \in Epochs
    BY <1>0, <1>1, <2>1, <2>2 DEF Logged
  <2>5. Batched(calls'[c])
    BY <1>1, <2>2, <2>3, <2>4 DEF Batched, Logged
  <2>6. \A d \in Calls : d # c => calls'[d] = calls[d]
    BY <1>0, <2>1
  <2> QED
    BY <1>1, <1>7, <2>5, <2>6 DEF Post, Scoped
<1>8. ASSUME NEW n \in Nodes, NEW c \in Calls,
             HandleAnswer(n, c) \/ NetworkError(n, c) \/ AgentDies(n, c)
      PROVE  Scoped'
  <2>1. \A m \in Nodes : /\ db'[m].ops = db[m].ops
                         /\ db'[m].next = db[m].next
                         /\ db'[m].epoch = db[m].epoch
    <3>1. CASE HandleAnswer(n, c)
      BY <1>0, <3>1 DEF HandleAnswer, Marked, NodeDb
    <3>2. CASE NetworkError(n, c)
      BY <1>0, <3>2 DEF NetworkError, NodeDb
    <3>3. CASE AgentDies(n, c)
      BY <3>3 DEF AgentDies
    <3> QED
      BY <1>8, <3>1, <3>2, <3>3
  <2>2. \A d \in Calls : calls'[d] = calls[d] \/ calls'[d] = FreeCall
    BY <1>0, <1>8 DEF HandleAnswer, NetworkError, AgentDies, Abandon
  <2>3. bundle' = bundle
    BY <1>8 DEF HandleAnswer, NetworkError, AgentDies, Abandon
  <2> QED
    BY <1>1, <1>2, <2>1, <2>2, <2>3 DEF Scoped, Logged
<1>9. ASSUME NEW n \in Nodes, NEW o \in Op, BackoffOver(n, o) PROVE Scoped'
  <2>1. \A m \in Nodes : /\ db'[m].ops = db[m].ops
                         /\ db'[m].next = db[m].next
                         /\ db'[m].epoch = db[m].epoch
    BY <1>0, <1>9 DEF BackoffOver, NodeDb
  <2> QED
    BY <1>1, <1>9, <2>1 DEF BackoffOver, Scoped, Logged
<1>10. ASSUME NEW c \in Calls, CloudStep(c) PROVE Scoped'
  <2>1. \A d \in Calls : \/ calls'[d] = calls[d]
                         \/ calls'[d] = FreeCall
                         \/ /\ calls[d].pc # "free"
                            /\ calls'[d].epoch = calls[d].epoch
                            /\ calls'[d].batch = calls[d].batch
    <3>1. \/ \E code, high : Answer(c, code, high)
          \/ calls' = [calls EXCEPT ![c].pc = "checked"]
          \/ calls' = [calls EXCEPT ![c].pc = "sent", ![c].again = TRUE]
      BY <1>10 DEF CloudStep, IngestCheck, IngestAccept, IngestConflict,
                   IngestReject
    <3>2. calls[c].pc # "free"
      BY <1>10 DEF CloudStep, IngestCheck, IngestAccept, IngestConflict,
                   IngestReject
    <3>3. \A d \in Calls : d # c => calls'[d] = calls[d]
      BY <1>0, <3>1 DEF Answer
    <3>4. CASE \E code, high : Answer(c, code, high)
      <4>1. PICK code, high : Answer(c, code, high)
        BY <3>4
      <4> QED
        BY <1>0, <3>2, <3>3, <4>1 DEF Answer, CallState
    <3>5. CASE calls' = [calls EXCEPT ![c].pc = "checked"]
      BY <1>0, <3>2, <3>3, <3>5 DEF CallState
    <3>6. CASE calls' = [calls EXCEPT ![c].pc = "sent", ![c].again = TRUE]
      BY <1>0, <3>2, <3>3, <3>6 DEF CallState
    <3> QED
      BY <3>1, <3>4, <3>5, <3>6
  <2>2. UNCHANGED <<db, bundle>>
    BY <1>10 DEF CloudStep, IngestCheck, IngestAccept, IngestConflict,
                 IngestReject, ingestFrame, nodeVars
  <2> QED
    BY <1>1, <1>2, <2>1, <2>2 DEF Scoped, Batched
<1> QED
  BY <1>3, <1>4, <1>5, <1>6, <1>7, <1>8, <1>9, <1>10
     DEF Next, vars, nodeVars, NodeStep, AgentStep

\* Every node, agent, upload and authority request keeps its type, and every
\* batch stays within one epoch with one operation for a sequence.
THEOREM TypeCorrect == Spec => [](TypeOK /\ Scoped)
<1>1. Init => TypeOK /\ Scoped
  <2>1. Init => Scoped
    BY DEF Init, NodeInit, Scoped, Logged, Batched, EmptyDb, FreeCall
  <2> QED
    BY <2>1, InitTyped
<1>2. TypeOK /\ Scoped /\ [Next]_vars => (TypeOK /\ Scoped)'
  <2> SUFFICES ASSUME TypeOK, Scoped, [Next]_vars PROVE TypeOK'
    BY ScopedStep
  <2>1. CASE AuthorityNext /\ UNCHANGED <<nodeVars, calls, quar, minted, faults,
                                          restores>>
    BY <2>1, AuthorityTyped DEF TypeOK, nodeVars
  <2>2. CASE UNCHANGED vars
    BY <2>2 DEF TypeOK, AuthorityTypeOK, vars, authVars, nodeVars
  <2> QED
    BY <2>1, <2>2, NodeTyped, AgentTyped, CloudTyped DEF Next
<1> QED
  BY <1>1, <1>2, PTL DEF Spec

-----------------------------------------------------------------------------
(* Receipts. *)

\* Only an accepted batch changes the inbox or a cursor.
LEMMA OnlyAccept ==
    ASSUME [Next]_vars
    PROVE  \/ UNCHANGED <<inbox, cursor>>
           \/ \E c \in Calls : IngestAccept(c)
<1>1. ASSUME AuthorityNext PROVE UNCHANGED <<inbox, cursor>>
  BY <1>1, AuthorityWrites
<1>2. ASSUME NEW n \in Nodes, NodeStep(n) PROVE UNCHANGED <<inbox, cursor>>
  BY <1>2 DEF NodeStep, Import, AppendOperation, CreateBundle, RestoreBundle,
              authVars
<1>3. ASSUME NEW n \in Nodes,
             \/ AgentStep(n)
             \/ \E c \in Calls : NetworkError(n, c) \/ AgentDies(n, c)
             \/ \E o \in Op : BackoffOver(n, o)
      PROVE  UNCHANGED <<inbox, cursor>>
  BY <1>3 DEF AgentStep, Post, HandleAnswer, NetworkError, AgentDies, Abandon,
              BackoffOver, authVars
<1>4. ASSUME NEW c \in Calls, CloudStep(c)
      PROVE  UNCHANGED <<inbox, cursor>> \/ IngestAccept(c)
  BY <1>4 DEF CloudStep, IngestCheck, IngestConflict, IngestReject
<1> QED
  BY <1>1, <1>2, <1>3, <1>4 DEF Next, vars, authVars

\* What an accepted batch consists of: operations that are in the inbox under
\* their id, and new ones that continue the epoch without a gap.
LEMMA AcceptedBatch ==
    ASSUME TypeOK, Scoped, NEW c \in Calls, IngestAccept(c)
    PROVE  \E e \in Epochs, high \in Nat, new \in SUBSET calls[c].batch :
              /\ e = calls[c].epoch /\ new = New(calls[c])
              /\ cursor[e] \in Nat /\ cursor[e] <= high
              /\ inbox' = inbox \cup new
              /\ cursor' = [cursor EXCEPT ![e] = high]
              /\ \A o \in new : /\ o \in Op /\ o.epoch = e
                                /\ o.seq \in Nat /\ cursor[e] < o.seq /\ o.seq <= high
              /\ \A o, p \in new : o.seq = p.seq => o = p
              /\ \A s \in (cursor[e] + 1)..high : \E p \in new : p.seq = s
              /\ \A o \in calls[c].batch \ new : \E p \in inbox : p.id = o.id
              /\ proj' = IF new = {} THEN proj
                         ELSE [epoch |-> e, last |-> high,
                               data |-> proj.data \cup {o.seq : o \in new}]
<1> DEFINE r == calls[c]
           e == r.epoch
           new == New(r)
<1>0. e = calls[c].epoch /\ new = New(calls[c])
  OBVIOUS
<1>1. /\ e \in Epochs
      /\ \A o \in r.batch : o \in Op /\ o.epoch = e /\ o.seq \in Nat
      /\ \A o, p \in r.batch : o.seq = p.seq => o = p
      /\ cursor[e] \in 0..MaxSeq /\ MaxSeq \in Nat
  BY AuthorityAssumption
     DEF IngestAccept, Scoped, Batched, TypeOK, AuthorityTypeOK, CallState, Op, Seqs
<1>2. PICK high \in cursor[e]..MaxSeq :
         /\ \A o \in new : o.seq <= high
         /\ high = cursor[e] \/ \E o \in new : o.seq = high
         /\ inbox' = inbox \cup new
         /\ cursor' = [cursor EXCEPT ![e] = high]
         /\ proj' = IF new = {} THEN proj
                    ELSE [epoch |-> e, last |-> high,
                          data |-> proj.data \cup {o.seq : o \in new}]
  BY DEF IngestAccept
<1>3. new \subseteq r.batch
  BY DEF New
<1>4. \A o \in new : Fits(o, new, cursor[e])
  BY <1>3 DEF IngestAccept, Unfit
<1>5. \A o \in r.batch \ new : \E p \in inbox : p.id = o.id
  BY DEF New, Duplicate
<1>6. high \in Nat /\ cursor[e] \in Nat /\ cursor[e] <= high
  BY <1>1, <1>2
<1>7. \A o \in new : cursor[e] < o.seq
  BY <1>1, <1>3, <1>4, <1>6 DEF Fits
<1> HIDE DEF new
<1>8. \A s \in (cursor[e] + 1)..high : \E p \in new : p.seq = s
  <2> TAKE s \in (cursor[e] + 1)..high
  <2>1. PICK o \in new : o.seq = high
    BY <1>2, <1>6
  <2> QED
    BY <1>4, <2>1 DEF Fits
<1>9. \A o \in new : /\ o \in Op /\ o.epoch = e
                      /\ o.seq \in Nat /\ cursor[e] < o.seq /\ o.seq <= high
  BY <1>1, <1>2, <1>3, <1>7
<1>10. \A o, p \in new : o.seq = p.seq => o = p
  BY <1>1, <1>3
<1> e \in Epochs /\ high \in Nat /\ new \in SUBSET calls[c].batch
  BY <1>1, <1>3, <1>6
<1> HIDE DEF e
<1> WITNESS e \in Epochs, high \in Nat, new \in SUBSET calls[c].batch
<1> QED
  BY <1>0, <1>2, <1>5, <1>6, <1>8, <1>9, <1>10

\* An accepted batch keeps the receipts contiguous.
LEMMA ContiguousStep ==
    ASSUME TypeOK, Scoped, InboxContiguous, [Next]_vars PROVE InboxContiguous'
<1>1. CASE UNCHANGED <<inbox, cursor>>
  BY <1>1 DEF InboxContiguous, Receipts
<1>2. CASE \E c \in Calls : IngestAccept(c)
  <2>1. PICK c \in Calls : IngestAccept(c)
    BY <1>2
  <2>2. PICK e \in Epochs, high \in Nat, new \in SUBSET calls[c].batch :
              /\ cursor[e] \in Nat /\ cursor[e] <= high
              /\ inbox' = inbox \cup new
              /\ cursor' = [cursor EXCEPT ![e] = high]
              /\ \A o \in new : /\ o \in Op /\ o.epoch = e
                                /\ o.seq \in Nat /\ cursor[e] < o.seq /\ o.seq <= high
              /\ \A o, p \in new : o.seq = p.seq => o = p
              /\ \A s \in (cursor[e] + 1)..high : \E p \in new : p.seq = s
    BY <2>1, AcceptedBatch
  <2>3. cursor \in [Epochs -> 0..MaxSeq]
    BY DEF TypeOK, AuthorityTypeOK
  <2>4. ASSUME NEW d \in Epochs, d # e
        PROVE  /\ {o.seq : o \in Receipts(d)'} = 1..(cursor'[d])
               /\ \A o, p \in Receipts(d)' : o.seq = p.seq => o = p
    <3>1. Receipts(d)' = Receipts(d) /\ cursor'[d] = cursor[d]
      BY <2>2, <2>3, <2>4 DEF Receipts
    <3> QED
      BY <3>1 DEF InboxContiguous
  <2>5. /\ Receipts(e)' = Receipts(e) \cup new
        /\ cursor'[e] = high
    BY <2>2, <2>3 DEF Receipts
  <2>6. \A o \in Receipts(e) : o.seq \in 1..cursor[e]
    BY DEF InboxContiguous
  <2>7. \A s \in 1..cursor[e] : \E o \in Receipts(e) : o.seq = s
    BY DEF InboxContiguous
  <2>8. {o.seq : o \in Receipts(e)'} = 1..high
    <3>1. ASSUME NEW o \in Receipts(e)' PROVE o.seq \in 1..high
      BY <2>2, <2>5, <2>6
    <3>2. ASSUME NEW s \in 1..high PROVE \E o \in Receipts(e)' : o.seq = s
      <4>1. CASE s <= cursor[e]
        BY <2>2, <2>5, <2>7, <4>1
      <4>2. CASE s > cursor[e]
        <5>1. s \in (cursor[e] + 1)..high
          BY <2>2, <4>2
        <5> QED
          BY <2>2, <2>5, <5>1
      <4> QED
        BY <2>2, <4>1, <4>2
    <3> QED
      BY <3>1, <3>2
  <2>9. \A o, p \in Receipts(e)' : o.seq = p.seq => o = p
    <3>1. \A o, p \in Receipts(e) : o.seq = p.seq => o = p
      BY DEF InboxContiguous
    <3>2. \A o \in Receipts(e), p \in new : o.seq # p.seq
      BY <2>2, <2>6
    <3> QED
      BY <2>2, <2>5, <3>1, <3>2
  <2> QED
    BY <2>4, <2>5, <2>8, <2>9 DEF InboxContiguous
<1> QED
  BY <1>1, <1>2, OnlyAccept

\* The receipts of an epoch are exactly one operation for each sequence up to
\* its cursor, whatever is lost, repeated, late or restored, and whichever
\* authority requests interleave with the uploads.
THEOREM ReceiptsContiguous == Spec => []InboxContiguous
<1>1. Init => InboxContiguous
  BY DEF Init, AuthorityInit, InboxContiguous, Receipts
<1>2. TypeOK /\ Scoped /\ InboxContiguous /\ [Next]_vars => InboxContiguous'
  BY ContiguousStep
<1> QED
  BY <1>1, <1>2, TypeCorrect, PTL DEF Spec

-----------------------------------------------------------------------------
(* Acknowledgements. *)

\* Operations are known by their id, wherever a copy of them is.
Minted ==
    /\ \A o, p \in minted : o.id = p.id => o = p
    /\ inbox \subseteq minted
    /\ \A n \in Nodes : db[n].ops \subseteq minted /\ bundle[n].ops \subseteq minted
    /\ \A c \in Calls : calls[c].batch \subseteq minted

\* What is or will be taken for delivered is in the inbox.
Received ==
    /\ \A n \in Nodes : db[n].ack \subseteq inbox /\ bundle[n].ack \subseteq inbox
    /\ \A c \in Calls : calls[c].code = "ok" => calls[c].batch \subseteq inbox

\* How a step may change an upload: not at all, by freeing it, by posting due
\* rows of a node, by moving it on with its batch and no verdict yet, or by a
\* verdict, which is "ok" for an accepted batch only.
LEMMA CallSteps ==
    ASSUME TypeOK, [Next]_vars, NEW c \in Calls
    PROVE  \/ calls'[c] = calls[c]
           \/ calls'[c] = FreeCall
           \/ /\ calls'[c].code = "none"
              /\ \E n \in Nodes : calls'[c].batch \subseteq db[n].ops
           \/ /\ calls'[c].batch = calls[c].batch
              /\ calls'[c].code = calls[c].code
           \/ /\ calls'[c].batch = calls[c].batch
              /\ calls'[c].code = "ok" => IngestAccept(c)
<1>0. calls \in [Calls -> CallState]
  BY DEF TypeOK
<1>1. CASE UNCHANGED calls
  BY <1>1
<1>2. ASSUME NEW n \in Nodes, RestoreBundle(n)
      PROVE  calls'[c] = calls[c] \/ calls'[c] = FreeCall
  BY <1>2 DEF RestoreBundle
<1>3. ASSUME NEW n \in Nodes, NEW d \in Calls, Post(n, d)
      PROVE  \/ calls'[c] = calls[c]
             \/ /\ calls'[c].code = "none"
                /\ calls'[c].batch \subseteq db[n].ops
  <2>1. PICK b \in SUBSET Due(n) :
           calls' = [calls EXCEPT ![d] = [FreeCall EXCEPT !.pc = "sent",
                       !.node = n, !.epoch = db[n].epoch, !.batch = b]]
    BY <1>3 DEF Post
  <2> QED
    BY <1>0, <2>1 DEF FreeCall, Due
<1>4. ASSUME NEW n \in Nodes, NEW d \in Calls,
             HandleAnswer(n, d) \/ NetworkError(n, d) \/ AgentDies(n, d)
      PROVE  calls'[c] = calls[c] \/ calls'[c] = FreeCall
  BY <1>0, <1>4 DEF HandleAnswer, NetworkError, AgentDies, Abandon
<1>5. ASSUME NEW d \in Calls, NEW code, NEW high, Answer(d, code, high)
      PROVE  \/ calls'[c] = calls[c]
             \/ calls'[c] = FreeCall
             \/ /\ c = d
                /\ calls'[c].batch = calls[c].batch
                /\ calls'[c].code = code
  BY <1>0, <1>5 DEF Answer, CallState
<1>6. ASSUME NEW d \in Calls, CloudStep(d)
      PROVE  \/ calls'[c] = calls[c]
             \/ calls'[c] = FreeCall
             \/ /\ calls'[c].batch = calls[c].batch
                /\ calls'[c].code = calls[c].code
             \/ /\ calls'[c].batch = calls[c].batch
                /\ calls'[c].code = "ok" => IngestAccept(c)
  <2>1. CASE Answer(d, "refused", 0)
    BY <1>5, <2>1
  <2>2. CASE Answer(d, "unavailable", 0)
    BY <1>5, <2>2
  <2>3. CASE IngestAccept(d)
    <3>1. PICK high : Answer(d, "ok", high)
      BY <2>3 DEF IngestAccept
    <3> QED
      BY <1>5, <2>3, <3>1
  <2>4. CASE calls' = [calls EXCEPT ![d].pc = "checked"]
    BY <1>0, <2>4 DEF CallState
  <2>5. CASE calls' = [calls EXCEPT ![d].pc = "sent", ![d].again = TRUE]
    BY <1>0, <2>5 DEF CallState
  <2> QED
    BY <1>6, <2>1, <2>2, <2>3, <2>4, <2>5
       DEF CloudStep, IngestCheck, IngestConflict, IngestReject
<1>7. ASSUME NEW n \in Nodes, NodeStep(n)
      PROVE  RestoreBundle(n) \/ UNCHANGED calls
  BY <1>7 DEF NodeStep, Import, AppendOperation, CreateBundle
<1>8. ASSUME NEW n \in Nodes, NEW o \in Op, BackoffOver(n, o) PROVE UNCHANGED calls
  BY <1>8 DEF BackoffOver
<1> QED
  BY <1>1, <1>2, <1>3, <1>4, <1>6, <1>7, <1>8 DEF Next, vars, AgentStep

\* How a step may change the log and the acknowledgements of a node and of its
\* bundle.
LEMMA LogSteps ==
    ASSUME TypeOK, [Next]_vars, NEW n \in Nodes
    PROVE  /\ minted \subseteq minted'
           /\ \/ bundle'[n] = bundle[n]
              \/ bundle'[n] = db[n]
           /\ \/ db'[n] = bundle[n]
              \/ /\ db'[n].ops \subseteq db[n].ops \cup (minted' \ minted)
                 /\ \/ db'[n].ack = db[n].ack
                    \/ \E c \in Calls : /\ calls[c].code = "ok"
                                        /\ db'[n].ack \subseteq
                                              db[n].ack \cup calls[c].batch
<1>0. /\ db \in [Nodes -> NodeDb] /\ bundle \in [Nodes -> NodeDb]
      /\ db[n] \in NodeDb
  BY DEF TypeOK
<1>1. CASE UNCHANGED <<db, bundle, minted>>
  BY <1>1
<1>2. ASSUME NEW m \in Nodes, NEW e \in Epochs, Import(m, e)
      PROVE  /\ UNCHANGED <<bundle, minted>>
             /\ db'[n].ops = db[n].ops /\ db'[n].ack = db[n].ack
  BY <1>0, <1>2 DEF Import, NodeDb
<1>3. ASSUME NEW m \in Nodes, AppendOperation(m)
      PROVE  /\ UNCHANGED bundle /\ minted \subseteq minted'
             /\ db'[n].ops \subseteq db[n].ops \cup (minted' \ minted)
             /\ db'[n].ack = db[n].ack
  <2>1. PICK i \in OpIds \ {o.id : o \in minted} :
           LET o == [epoch |-> db[m].epoch, seq |-> db[m].next, id |-> i]
           IN  /\ db' = [db EXCEPT ![m].ops = @ \cup {o}, ![m].next = @ + 1]
               /\ minted' = minted \cup {o}
    BY <1>3 DEF AppendOperation
  <2> DEFINE o == [epoch |-> db[m].epoch, seq |-> db[m].next, id |-> i]
  <2>2. o \notin minted
    BY <2>1
  <2> HIDE DEF o
  <2>3. /\ db' = [db EXCEPT ![m].ops = @ \cup {o}, ![m].next = @ + 1]
        /\ minted' = minted \cup {o}
    BY <2>1 DEF o
  <2>4. /\ db'[n].ops \subseteq db[n].ops \cup {o}
        /\ db'[n].ack = db[n].ack
    BY <1>0, <2>3 DEF NodeDb
  <2> QED
    BY <1>3, <2>2, <2>3, <2>4 DEF AppendOperation
<1>4. ASSUME NEW m \in Nodes, CreateBundle(m)
      PROVE  /\ UNCHANGED <<db, minted>>
             /\ bundle'[n] = bundle[n] \/ bundle'[n] = db[n]
  BY <1>0, <1>4 DEF CreateBundle
<1>5. ASSUME NEW m \in Nodes, RestoreBundle(m)
      PROVE  /\ UNCHANGED <<bundle, minted>>
             /\ db'[n] = db[n] \/ db'[n] = bundle[n]
  BY <1>0, <1>5 DEF RestoreBundle
<1>6. ASSUME NEW m \in Nodes, NEW c \in Calls, HandleAnswer(m, c)
      PROVE  /\ UNCHANGED <<bundle, minted>>
             /\ db'[n].ops = db[n].ops
             /\ \/ db'[n].ack = db[n].ack
                \/ /\ calls[c].code = "ok"
                   /\ db'[n].ack \subseteq db[n].ack \cup calls[c].batch
  <2>1. db'[n] = db[n] \/ db'[n] = Marked(db[n], calls[c])
    BY <1>0, <1>6 DEF HandleAnswer
  <2>2. /\ Marked(db[n], calls[c]).ops = db[n].ops
        /\ Marked(db[n], calls[c]).ack = db[n].ack \cup Acknowledged(calls[c])
    BY <1>0 DEF Marked, NodeDb
  <2>3. \/ Acknowledged(calls[c]) = {}
        \/ calls[c].code = "ok" /\ Acknowledged(calls[c]) \subseteq calls[c].batch
    BY DEF Acknowledged
  <2> QED
    BY <1>6, <2>1, <2>2, <2>3 DEF HandleAnswer
<1>7. ASSUME NEW m \in Nodes, NEW c \in Calls, NetworkError(m, c) \/ AgentDies(m, c)
      PROVE  /\ UNCHANGED <<bundle, minted>>
             /\ db'[n].ops = db[n].ops /\ db'[n].ack = db[n].ack
  <2>1. CASE NetworkError(m, c)
    BY <1>0, <2>1 DEF NetworkError, Abandon, NodeDb
  <2>2. CASE AgentDies(m, c)
    BY <2>2 DEF AgentDies, Abandon
  <2> QED
    BY <1>7, <2>1, <2>2
<1>8. ASSUME NEW m \in Nodes, NEW o \in Op, BackoffOver(m, o)
      PROVE  /\ UNCHANGED <<bundle, minted>>
             /\ db'[n].ops = db[n].ops /\ db'[n].ack = db[n].ack
  BY <1>0, <1>8 DEF BackoffOver, NodeDb
<1>9. ASSUME NEW m \in Nodes, NEW c \in Calls, Post(m, c)
      PROVE  UNCHANGED <<db, bundle, minted>>
  BY <1>9 DEF Post
<1>10. ASSUME NEW c \in Calls, CloudStep(c) PROVE UNCHANGED <<db, bundle, minted>>
  BY <1>10 DEF CloudStep, IngestCheck, IngestAccept, IngestConflict,
               IngestReject, ingestFrame, nodeVars
<1> QED
  BY <1>1, <1>2, <1>3, <1>4, <1>5, <1>6, <1>7, <1>8, <1>9, <1>10
     DEF Next, vars, nodeVars, NodeStep, AgentStep

\* An operation that is new has a new id.
LEMMA FreshIds ==
    ASSUME [Next]_vars
    PROVE  \/ minted' = minted
           \/ \E o : minted' = minted \cup {o} /\ \A p \in minted : p.id # o.id
<1>1. ASSUME NEW n \in Nodes, AppendOperation(n)
      PROVE  \E o : minted' = minted \cup {o} /\ \A p \in minted : p.id # o.id
  <2>1. PICK i \in OpIds \ {p.id : p \in minted} :
           minted' = minted \cup {[epoch |-> db[n].epoch, seq |-> db[n].next,
                                   id |-> i]}
    BY <1>1 DEF AppendOperation
  <2> DEFINE o == [epoch |-> db[n].epoch, seq |-> db[n].next, id |-> i]
  <2>2. \A p \in minted : p.id # o.id
    BY <2>1
  <2>3. minted' = minted \cup {o}
    BY <2>1
  <2> HIDE DEF o
  <2> QED
    BY <2>2, <2>3
<1>2. ASSUME NEW n \in Nodes, NodeStep(n) PROVE AppendOperation(n) \/ minted' = minted
  BY <1>2 DEF NodeStep, Import, CreateBundle, RestoreBundle
<1>3. ASSUME NEW n \in Nodes,
             \/ AgentStep(n)
             \/ \E c \in Calls : NetworkError(n, c) \/ AgentDies(n, c)
             \/ \E o \in Op : BackoffOver(n, o)
      PROVE  minted' = minted
  BY <1>3 DEF AgentStep, Post, HandleAnswer, NetworkError, AgentDies, Abandon,
              BackoffOver
<1>4. ASSUME NEW c \in Calls, CloudStep(c) PROVE minted' = minted
  BY <1>4 DEF CloudStep, IngestCheck, IngestAccept, IngestConflict,
              IngestReject, ingestFrame
<1> QED
  BY <1>1, <1>2, <1>3, <1>4 DEF Next, vars

\* What a step adds to the inbox comes from an upload.
LEMMA InboxGrows ==
    ASSUME TypeOK, Scoped, [Next]_vars
    PROVE  /\ inbox \subseteq inbox'
           /\ inbox' \subseteq inbox \cup UNION {calls[c].batch : c \in Calls}
<1>1. ASSUME NEW c \in Calls, IngestAccept(c)
      PROVE  /\ inbox \subseteq inbox'
             /\ inbox' \subseteq inbox \cup calls[c].batch
  BY <1>1, AcceptedBatch
<1> QED
  BY <1>1, OnlyAccept

\* Every copy of an operation is of one that was created, under its own id.
LEMMA MintedStep ==
    ASSUME TypeOK, Scoped, Minted, [Next]_vars PROVE Minted'
<1>1. minted \subseteq minted'
  BY FreshIds
<1>2. \A o, p \in minted' : o.id = p.id => o = p
  BY FreshIds DEF Minted
<1>3. inbox' \subseteq minted'
  BY <1>1, InboxGrows DEF Minted
<1>4. ASSUME NEW n \in Nodes
      PROVE  db'[n].ops \subseteq minted' /\ bundle'[n].ops \subseteq minted'
  BY <1>1, LogSteps DEF Minted
<1>5. ASSUME NEW c \in Calls PROVE calls'[c].batch \subseteq minted'
  <2>1. FreeCall.batch = {}
    BY DEF FreeCall
  <2> QED
    BY <1>1, <2>1, CallSteps DEF Minted
<1> QED
  BY <1>2, <1>3, <1>4, <1>5 DEF Minted

\* A batch that is answered "ok" is in the inbox to the last operation: an
\* operation that was not new has its id, so it is the one that was received.
LEMMA AcceptedReceived ==
    ASSUME TypeOK, Scoped, Minted, NEW c \in Calls, IngestAccept(c)
    PROVE  calls[c].batch \subseteq inbox'
<1>1. PICK new \in SUBSET calls[c].batch :
         /\ inbox' = inbox \cup new
         /\ \A o \in calls[c].batch \ new : \E p \in inbox : p.id = o.id
  BY AcceptedBatch
<1>2. ASSUME NEW o \in calls[c].batch, o \notin new PROVE o \in inbox
  BY <1>1, <1>2 DEF Minted
<1> QED
  BY <1>1, <1>2

\* Acknowledgements, and the answers that will become ones, stay in the inbox.
LEMMA ReceivedStep ==
    ASSUME TypeOK, Scoped, Minted, Received, [Next]_vars PROVE Received'
<1>1. inbox \subseteq inbox'
  BY InboxGrows
<1>2. ASSUME NEW n \in Nodes
      PROVE  db'[n].ack \subseteq inbox' /\ bundle'[n].ack \subseteq inbox'
  BY <1>1, LogSteps DEF Received
<1>3. ASSUME NEW c \in Calls, calls'[c].code = "ok"
      PROVE  calls'[c].batch \subseteq inbox'
  <2>1. FreeCall.batch = {}
    BY DEF FreeCall
  <2> QED
    BY <1>1, <1>3, <2>1, CallSteps, AcceptedReceived DEF Received
<1> QED
  BY <1>2, <1>3 DEF Received

\* A node takes for delivered only what the cloud has received under that id:
\* not after a lost or late answer, a second upload of the same rows, or a
\* restore after which sequence numbers are used again.
THEOREM AcksAreReceipts == Spec => []NoFalseAck
<1>1. Init => Minted /\ Received
  BY DEF Init, AuthorityInit, NodeInit, Minted, Received, EmptyDb, FreeCall
<1>2. TypeOK /\ Scoped /\ Minted /\ Received /\ [Next]_vars => (Minted /\ Received)'
  BY MintedStep, ReceivedStep
<1>3. Received => NoFalseAck
  BY DEF Received, NoFalseAck
<1> QED
  BY <1>1, <1>2, <1>3, TypeCorrect, PTL DEF Spec

-----------------------------------------------------------------------------
(* Refusals. *)

\* There is evidence on the cloud against what node n uploads in epoch e.
Explained(n, e) == n \in revoked \/ \E o \in quar : o.epoch = e

\* Epoch e was given to node n.
Granted(n, e) == e \in Epochs /\ st[e] # "none" /\ holder[e] = n

\* A database of node n holds an epoch of that node, and its blocked rows are
\* explained.
Held(n, d) ==
    /\ d.epoch # NoEpoch => Granted(n, d.epoch)
    /\ d.blocked # {} => Explained(n, d.epoch)

\* An upload carries rows of an epoch of the node that posted it, and its
\* refusal is explained.
Posted(r) ==
    /\ r.pc # "free" => r.node \in Nodes /\ r.batch # {} /\ Granted(r.node, r.epoch)
    /\ r.code = "refused" => Explained(r.node, r.epoch)

\* The answer that an agent waits for is about its own epoch.
Awaited(n) ==
    call[n] \in Calls => /\ calls[call[n]].pc # "free"
                         /\ calls[call[n]].node = n
                         /\ calls[call[n]].epoch = db[n].epoch

Answerable ==
    /\ \A n \in Nodes : /\ Held(n, db[n]) /\ Held(n, bundle[n])
                        /\ bundle[n].epoch \in {NoEpoch, db[n].epoch}
                        /\ Awaited(n)
    /\ \A c \in Calls : Posted(calls[c])

\* An epoch number that was granted stays granted to its node: successors take
\* numbers that were not used.
LEMMA GrantsStand ==
    ASSUME TypeOK, [Next]_vars, NEW e \in Epochs, st[e] # "none"
    PROVE  st'[e] # "none" /\ holder'[e] = holder[e]
<1>0. st \in [Epochs -> EpochState] /\ holder \in [Epochs -> Nodes \cup {None}]
  BY DEF TypeOK, AuthorityTypeOK
<1>1. CASE UNCHANGED <<st, holder>>
  BY <1>1
<1>2. ASSUME NEW a \in Admins, CheckoutCommit(a)
      PROVE  st'[e] # "none" /\ holder'[e] = holder[e]
  BY <1>0, <1>2 DEF CheckoutCommit, Unused
<1>3. ASSUME NEW a \in Admins, ReadyCommit(a)
      PROVE  st'[e] # "none" /\ holder'[e] = holder[e]
  BY <1>0, <1>3 DEF ReadyCommit
<1>4. ASSUME NEW a \in Admins, LeaveCommit(a)
      PROVE  st'[e] # "none" /\ holder'[e] = holder[e]
  <2>1. PICK f \in Epochs :
           /\ IsNextEpoch(f)
           /\ \/ UNCHANGED <<st, holder>>
              \/ /\ st' = [st EXCEPT ![admin[a].epoch] = ClosedAs(admin[a].pc),
                                     ![f] = SuccessorAs(admin[a].pc)]
                 /\ holder' = [holder EXCEPT ![f] = admin[a].node]
    BY <1>4 DEF LeaveCommit
  <2>2. st[f] = "none"
    BY <2>1, AuthorityAssumption DEF IsNextEpoch, Epochs
  <2>3. ClosedAs(admin[a].pc) # "none" /\ SuccessorAs(admin[a].pc) # "none"
    BY DEF ClosedAs, SuccessorAs
  <2> QED
    BY <1>0, <2>1, <2>2, <2>3
<1> QED
  BY <1>1, <1>2, <1>3, <1>4, OnlyAuthority, AuthorityWrites

\* Quarantined operations and revocations stay.
LEMMA EvidenceStands ==
    ASSUME [Next]_vars PROVE quar \subseteq quar' /\ revoked \subseteq revoked'
<1>1. ASSUME AuthorityNext PROVE revoked \subseteq revoked'
  BY <1>1, AuthorityWrites
<1>2. ASSUME NEW n \in Nodes, NodeStep(n) PROVE UNCHANGED <<quar, revoked>>
  BY <1>2 DEF NodeStep, Import, AppendOperation, CreateBundle, RestoreBundle,
              authVars
<1>3. ASSUME NEW n \in Nodes,
             \/ AgentStep(n)
             \/ \E c \in Calls : NetworkError(n, c) \/ AgentDies(n, c)
             \/ \E o \in Op : BackoffOver(n, o)
      PROVE  UNCHANGED <<quar, revoked>>
  BY <1>3 DEF AgentStep, Post, HandleAnswer, NetworkError, AgentDies, Abandon,
              BackoffOver, authVars
<1>4. ASSUME NEW c \in Calls, CloudStep(c)
      PROVE  quar \subseteq quar' /\ UNCHANGED revoked
  BY <1>4 DEF CloudStep, IngestCheck, IngestAccept, IngestConflict,
              IngestReject, ingestFrame
<1> QED
  BY <1>1, <1>2, <1>3, <1>4 DEF Next, vars, authVars

\* The same of the state after a step, of a database, an epoch or an upload
\* before or after it.
ExplainedNext(n, e) == n \in revoked' \/ \E o \in quar' : o.epoch = e
GrantedNext(n, e) == e \in Epochs /\ st'[e] # "none" /\ holder'[e] = n
HeldNext(n, d) ==
    /\ d.epoch # NoEpoch => GrantedNext(n, d.epoch)
    /\ d.blocked # {} => ExplainedNext(n, d.epoch)
PostedNext(r) ==
    /\ r.pc # "free" =>
          r.node \in Nodes /\ r.batch # {} /\ GrantedNext(r.node, r.epoch)
    /\ r.code = "refused" => ExplainedNext(r.node, r.epoch)

\* What was granted or explained remains so, and so does what rests on it.
LEMMA HoldingStands ==
    ASSUME TypeOK, [Next]_vars
    PROVE  /\ \A n, e : Granted(n, e) => GrantedNext(n, e)
           /\ \A n, e : Explained(n, e) => ExplainedNext(n, e)
           /\ \A n, d : Held(n, d) => HeldNext(n, d)
           /\ \A r : Posted(r) => PostedNext(r)
<1>1. \A n, e : Granted(n, e) => GrantedNext(n, e)
  BY GrantsStand DEF Granted, GrantedNext
<1>2. \A n, e : Explained(n, e) => ExplainedNext(n, e)
  BY EvidenceStands DEF Explained, ExplainedNext
<1> QED
  BY <1>1, <1>2 DEF Held, HeldNext, Posted, PostedNext

\* What has to be shown of the state after a step.
LEMMA AnswerableNext ==
    ASSUME \A n \in Nodes :
              /\ HeldNext(n, db'[n]) /\ HeldNext(n, bundle'[n])
              /\ bundle'[n].epoch \in {NoEpoch, db'[n].epoch}
              /\ call'[n] \in Calls => /\ calls'[call'[n]].pc # "free"
                                       /\ calls'[call'[n]].node = n
                                       /\ calls'[call'[n]].epoch = db'[n].epoch,
           \A c \in Calls : PostedNext(calls'[c])
    PROVE  Answerable'
<1>1. \A n \in Nodes : /\ (Held(n, db[n]) /\ Held(n, bundle[n]))'
                       /\ (bundle[n].epoch \in {NoEpoch, db[n].epoch})'
                       /\ Awaited(n)'
  BY DEF Held, HeldNext, Granted, GrantedNext, Explained, ExplainedNext, Awaited
<1>2. \A c \in Calls : Posted(calls[c])'
  BY DEF Posted, PostedNext, Granted, GrantedNext, Explained, ExplainedNext
<1> QED
  BY <1>1, <1>2 DEF Answerable

\* The cloud moves an upload on, or answers it and explains a refusal; one that
\* nobody waits for is freed.
LEMMA CloudAnswers ==
    ASSUME TypeOK, Scoped, Answerable, NEW d \in Calls, CloudStep(d)
    PROVE  /\ \A c \in Calls : c # d => calls'[c] = calls[c]
           /\ \/ calls'[d] = FreeCall /\ \A n \in Nodes : call[n] # d
              \/ /\ calls'[d].pc # "free"
                 /\ calls'[d].node = calls[d].node
                 /\ calls'[d].epoch = calls[d].epoch
                 /\ calls'[d].batch = calls[d].batch
                 /\ \/ calls'[d].code = calls[d].code
                    \/ calls'[d].code # "refused"
                    \/ ExplainedNext(calls[d].node, calls[d].epoch)
           /\ calls[d].pc # "free"
           /\ UNCHANGED <<db, bundle, call>>
<1>0. /\ calls \in [Calls -> CallState] /\ calls[d] \in CallState
      /\ calls[d].pc # "free"
      /\ UNCHANGED <<db, bundle, call>>
  BY DEF TypeOK, CloudStep, IngestCheck, IngestAccept, IngestConflict,
         IngestReject, ingestFrame, nodeVars
<1>1. ASSUME NEW code, NEW high, Answer(d, code, high),
             code = "refused" => ExplainedNext(calls[d].node, calls[d].epoch)
      PROVE  /\ \A c \in Calls : c # d => calls'[c] = calls[c]
             /\ \/ calls'[d] = FreeCall /\ \A n \in Nodes : call[n] # d
                \/ /\ calls'[d].pc # "free"
                   /\ calls'[d].node = calls[d].node
                   /\ calls'[d].epoch = calls[d].epoch
                   /\ calls'[d].batch = calls[d].batch
                   /\ \/ calls'[d].code # "refused"
                      \/ ExplainedNext(calls[d].node, calls[d].epoch)
  BY <1>0, <1>1 DEF Answer, CallState
<1>2. /\ calls[d].batch # {}
      /\ \A o \in calls[d].batch : o.epoch = calls[d].epoch
      /\ holder[calls[d].epoch] = calls[d].node
  BY <1>0 DEF Answerable, Posted, Granted, Scoped, Batched
<1>3. CASE IngestCheck(d)
  <2>1. CASE ~InForce(calls[d].epoch) /\ quar' = quar \cup Evidence(calls[d])
                /\ Answer(d, "refused", 0)
    <3>1. ExplainedNext(calls[d].node, calls[d].epoch)
      BY <1>2, <2>1 DEF Evidence, ExplainedNext
    <3> QED
      BY <1>0, <1>1, <2>1, <3>1
  <2>2. CASE calls[d].node \in revoked /\ Answer(d, "refused", 0)
    <3>1. ExplainedNext(calls[d].node, calls[d].epoch)
      BY <1>3, <2>2 DEF ExplainedNext, IngestCheck, ingestFrame
    <3> QED
      BY <1>0, <1>1, <2>2, <3>1
  <2>3. CASE calls' = [calls EXCEPT ![d].pc = "checked"]
    BY <1>0, <2>3 DEF CallState
  <2> QED
    BY <1>2, <1>3, <2>1, <2>2, <2>3 DEF IngestCheck
<1>4. CASE IngestAccept(d)
  <2>1. PICK high : Answer(d, "ok", high)
    BY <1>4 DEF IngestAccept
  <2> QED
    BY <1>0, <1>1, <2>1
<1>5. CASE IngestConflict(d)
  <2>1. CASE Answer(d, "unavailable", 0)
    BY <1>0, <1>1, <2>1
  <2>2. CASE calls' = [calls EXCEPT ![d].pc = "sent", ![d].again = TRUE]
    BY <1>0, <2>2 DEF CallState
  <2> QED
    BY <1>5, <2>1, <2>2 DEF IngestConflict
<1>6. CASE IngestReject(d)
  <2>1. ExplainedNext(calls[d].node, calls[d].epoch)
    BY <1>2, <1>6 DEF IngestReject, Unfit, ExplainedNext
  <2> QED
    BY <1>0, <1>1, <1>6, <2>1 DEF IngestReject
<1> QED
  BY <1>3, <1>4, <1>5, <1>6 DEF CloudStep

\* Every step keeps what explains a refusal next to the refusal: an upload is
\* freed only when no agent waits for it any more.
LEMMA AnswerableStep ==
    ASSUME TypeOK, Scoped, Answerable, [Next]_vars PROVE Answerable'
<1>0. /\ db \in [Nodes -> NodeDb] /\ bundle \in [Nodes -> NodeDb]
      /\ call \in [Nodes -> Calls \cup {NoCall}]
      /\ calls \in [Calls -> CallState]
      /\ \A n \in Nodes : db[n] \in NodeDb
      /\ NoCall \notin Calls /\ NoEpoch \notin Epochs
  BY PipelineAssumption DEF TypeOK, NoEpoch, Epochs
<1>1. /\ \A n \in Nodes : /\ Held(n, db[n]) /\ Held(n, bundle[n])
                          /\ bundle[n].epoch \in {NoEpoch, db[n].epoch}
                          /\ Awaited(n)
      /\ \A c \in Calls : Posted(calls[c])
  BY DEF Answerable
<1>2. /\ \A n \in Nodes : HeldNext(n, db[n]) /\ HeldNext(n, bundle[n])
      /\ \A c \in Calls : PostedNext(calls[c])
      /\ PostedNext(FreeCall)
  <2>1. PostedNext(FreeCall)
    BY DEF PostedNext, FreeCall
  <2> QED
    BY <1>1, <2>1, HoldingStands
\* The databases after the step, when an agent waits for what it waited for.
<1>3. ASSUME NEW n \in Nodes, HeldNext(n, db'[n]), db'[n].epoch = db[n].epoch,
             \A m \in Nodes : m # n => db'[m] = db[m],
             UNCHANGED <<bundle, calls>>, UNCHANGED call
      PROVE  Answerable'
  BY <1>1, <1>2, <1>3, AnswerableNext DEF Awaited
\* The agent of n gives its upload up.
<1>4. ASSUME NEW n \in Nodes, HeldNext(n, db'[n]), db'[n].epoch = db[n].epoch,
             \A m \in Nodes : m # n => db'[m] = db[m],
             UNCHANGED bundle, call' = [call EXCEPT ![n] = NoCall],
             \A c \in Calls : \/ calls'[c] = calls[c]
                              \/ calls'[c] = FreeCall /\ call[n] = c
      PROVE  Answerable'
  <2>1. \A c \in Calls : PostedNext(calls'[c])
    BY <1>2, <1>4
  <2>2. ASSUME NEW m \in Nodes, call'[m] \in Calls
        PROVE  /\ calls'[call'[m]].pc # "free"
               /\ calls'[call'[m]].node = m
               /\ calls'[call'[m]].epoch = db'[m].epoch
    <3>1. m # n /\ call'[m] = call[m] /\ db'[m] = db[m]
      BY <1>0, <1>4, <2>2
    <3>2. call[m] # call[n]
      BY <1>1, <2>2, <3>1 DEF Awaited
    <3>3. calls'[call[m]] = calls[call[m]]
      BY <1>4, <2>2, <3>1, <3>2
    <3> QED
      BY <1>1, <2>2, <3>1, <3>3 DEF Awaited
  <2>3. \A m \in Nodes : /\ HeldNext(m, db'[m]) /\ HeldNext(m, bundle'[m])
                         /\ bundle'[m].epoch \in {NoEpoch, db'[m].epoch}
    BY <1>1, <1>2, <1>4
  <2> QED
    BY <2>1, <2>2, <2>3, AnswerableNext
<1>5. CASE UNCHANGED <<db, bundle, call, calls>>
  BY <1>1, <1>2, <1>5, AnswerableNext DEF Awaited
<1>6. ASSUME NEW n \in Nodes, NEW e \in Epochs, Import(n, e) PROVE Answerable'
  <2>1. /\ db'[n].epoch = e /\ db'[n].blocked = db[n].blocked
        /\ \A m \in Nodes : m # n => db'[m] = db[m]
        /\ db[n].epoch = NoEpoch
        /\ UNCHANGED <<st, holder, quar, revoked, bundle, call, calls>>
    BY <1>0, <1>6 DEF Import, NodeDb, authVars
  <2>2. db[n].blocked # {} => n \in revoked
    BY <1>0, <1>1, <2>1 DEF Held, Explained, TypeOK, Op
  <2>3. HeldNext(n, db'[n])
    BY <1>6, <2>1, <2>2 DEF Import, HeldNext, GrantedNext, ExplainedNext
  <2>4. call[n] \notin Calls
    BY <1>0, <1>1, <2>1 DEF Awaited, Posted, Granted
  <2>5. \A m \in Nodes : call'[m] \in Calls => /\ calls'[call'[m]].pc # "free"
                                               /\ calls'[call'[m]].node = m
                                               /\ calls'[call'[m]].epoch = db'[m].epoch
    BY <1>1, <2>1, <2>4 DEF Awaited
  <2>6. \A m \in Nodes : /\ HeldNext(m, db'[m]) /\ HeldNext(m, bundle'[m])
                         /\ bundle'[m].epoch \in {NoEpoch, db'[m].epoch}
    BY <1>1, <1>2, <2>1, <2>3
  <2>7. \A c \in Calls : PostedNext(calls'[c])
    BY <1>2, <2>1
  <2> QED
    BY <2>5, <2>6, <2>7, AnswerableNext
<1>7. ASSUME NEW n \in Nodes, AppendOperation(n) PROVE Answerable'
  <2>1. /\ db'[n].epoch = db[n].epoch /\ db'[n].blocked = db[n].blocked
        /\ \A m \in Nodes : m # n => db'[m] = db[m]
    BY <1>0, <1>7 DEF AppendOperation, NodeDb
  <2>2. HeldNext(n, db'[n])
    BY <1>2, <2>1 DEF HeldNext
  <2> QED
    BY <1>3, <1>7, <2>1, <2>2 DEF AppendOperation
<1>8. ASSUME NEW n \in Nodes, CreateBundle(n) PROVE Answerable'
  <2>1. /\ \A m \in Nodes : bundle'[m] = bundle[m] \/ bundle'[m] = db[m]
        /\ UNCHANGED <<db, call, calls>>
    BY <1>0, <1>8 DEF CreateBundle
  <2>2. \A m \in Nodes : /\ HeldNext(m, db'[m]) /\ HeldNext(m, bundle'[m])
                         /\ bundle'[m].epoch \in {NoEpoch, db'[m].epoch}
    BY <1>1, <1>2, <2>1
  <2> QED
    BY <1>1, <1>2, <2>1, <2>2, AnswerableNext DEF Awaited
<1>9. ASSUME NEW n \in Nodes, RestoreBundle(n) PROVE Answerable'
  <2>1. /\ db'[n] = bundle[n]
        /\ \A m \in Nodes : m # n => db'[m] = db[m]
        /\ UNCHANGED bundle /\ call' = [call EXCEPT ![n] = NoCall]
        /\ \A c \in Calls : \/ calls'[c] = calls[c]
                            \/ calls'[c] = FreeCall /\ call[n] = c
    BY <1>0, <1>9 DEF RestoreBundle
  <2>2. db'[n].epoch = db[n].epoch
    BY <1>1, <1>9, <2>1 DEF RestoreBundle
  <2>3. HeldNext(n, db'[n])
    BY <1>2, <2>1
  <2> QED
    BY <1>4, <2>1, <2>2, <2>3
<1>10. ASSUME NEW n \in Nodes, NEW c \in Calls, Post(n, c) PROVE Answerable'
  <2>1. PICK b \in SUBSET Due(n) :
           /\ b # {}
           /\ calls' = [calls EXCEPT ![c] = [FreeCall EXCEPT !.pc = "sent",
                          !.node = n, !.epoch = db[n].epoch, !.batch = b]]
    BY <1>10 DEF Post, IsBatch
  <2>2. /\ calls'[c].pc = "sent" /\ calls'[c].node = n /\ calls'[c].code = "none"
        /\ calls'[c].epoch = db[n].epoch /\ calls'[c].batch = b
        /\ \A d \in Calls : d # c => calls'[d] = calls[d]
    BY <1>0, <2>1 DEF FreeCall
  <2>3. /\ UNCHANGED <<db, bundle>> /\ call' = [call EXCEPT ![n] = c]
        /\ calls[c].pc = "free"
    BY <1>10 DEF Post
  <2>4. db[n].epoch # NoEpoch
    BY <1>0, <2>1 DEF Due, Scoped, Logged, NodeDb, Op
  <2>5. PostedNext(calls'[c])
    BY <1>2, <2>1, <2>2, <2>4 DEF HeldNext, PostedNext
  <2>6. \A d \in Calls : PostedNext(calls'[d])
    BY <1>2, <2>2, <2>5
  <2>7. ASSUME NEW m \in Nodes, call'[m] \in Calls
        PROVE  /\ calls'[call'[m]].pc # "free"
               /\ calls'[call'[m]].node = m
               /\ calls'[call'[m]].epoch = db'[m].epoch
    <3>1. CASE m = n
      BY <1>0, <2>2, <2>3, <3>1
    <3>2. CASE m # n
      <4>1. call'[m] = call[m]
        BY <1>0, <2>3, <3>2
      <4>2. call[m] # c
        BY <1>1, <2>3, <2>7, <4>1 DEF Awaited
      <4> QED
        BY <1>1, <2>2, <2>3, <2>7, <4>1, <4>2 DEF Awaited
    <3> QED
      BY <3>1, <3>2
  <2>8. \A m \in Nodes : /\ HeldNext(m, db'[m]) /\ HeldNext(m, bundle'[m])
                         /\ bundle'[m].epoch \in {NoEpoch, db'[m].epoch}
    BY <1>1, <1>2, <2>3
  <2> QED
    BY <2>6, <2>7, <2>8, AnswerableNext
<1>11. ASSUME NEW n \in Nodes, NEW c \in Calls, HandleAnswer(n, c)
       PROVE  Answerable'
  <2>1. /\ db'[n] = Marked(db[n], calls[c])
        /\ \A m \in Nodes : m # n => db'[m] = db[m]
        /\ UNCHANGED bundle /\ call' = [call EXCEPT ![n] = NoCall]
        /\ \A d \in Calls : \/ calls'[d] = calls[d]
                            \/ calls'[d] = FreeCall /\ call[n] = d
        /\ call[n] = c
    BY <1>0, <1>11 DEF HandleAnswer
  <2>2. /\ db'[n].epoch = db[n].epoch
        /\ \/ db'[n].blocked = db[n].blocked
           \/ calls[c].code = "refused"
    BY <1>0, <2>1 DEF Marked, NodeDb
  <2>3. calls[c].node = n /\ calls[c].epoch = db[n].epoch
    BY <1>1, <2>1 DEF Awaited
  <2>4. HeldNext(n, db'[n])
    BY <1>2, <2>2, <2>3 DEF HeldNext, PostedNext
  <2> QED
    BY <1>4, <2>1, <2>2, <2>4
<1>12. ASSUME NEW n \in Nodes, NEW c \in Calls, NetworkError(n, c) \/ AgentDies(n, c)
       PROVE  Answerable'
  <2>1. /\ UNCHANGED bundle /\ call' = [call EXCEPT ![n] = NoCall]
        /\ \A d \in Calls : \/ calls'[d] = calls[d]
                            \/ calls'[d] = FreeCall /\ call[n] = d
    BY <1>0, <1>12 DEF NetworkError, AgentDies, Abandon
  <2>2. /\ db'[n].epoch = db[n].epoch /\ db'[n].blocked = db[n].blocked
        /\ \A m \in Nodes : m # n => db'[m] = db[m]
    BY <1>0, <1>12 DEF NetworkError, AgentDies, NodeDb
  <2>3. HeldNext(n, db'[n])
    BY <1>2, <2>2 DEF HeldNext
  <2> QED
    BY <1>4, <2>1, <2>2, <2>3
<1>13. ASSUME NEW n \in Nodes, NEW o \in Op, BackoffOver(n, o) PROVE Answerable'
  <2>1. /\ db'[n].epoch = db[n].epoch /\ db'[n].blocked = db[n].blocked
        /\ \A m \in Nodes : m # n => db'[m] = db[m]
    BY <1>0, <1>13 DEF BackoffOver, NodeDb
  <2>2. HeldNext(n, db'[n])
    BY <1>2, <2>1 DEF HeldNext
  <2> QED
    BY <1>3, <1>13, <2>1, <2>2 DEF BackoffOver
<1>14. ASSUME NEW d \in Calls, CloudStep(d) PROVE Answerable'
  <2>1. PostedNext(calls'[d])
    BY <1>1, <1>2, <1>14, CloudAnswers DEF PostedNext
  <2>2. \A c \in Calls : PostedNext(calls'[c])
    BY <1>2, <1>14, <2>1, CloudAnswers
  <2>3. UNCHANGED <<db, bundle, call>>
    BY <1>14, CloudAnswers
  <2>4. ASSUME NEW m \in Nodes, call'[m] \in Calls
        PROVE  /\ calls'[call'[m]].pc # "free"
               /\ calls'[call'[m]].node = m
               /\ calls'[call'[m]].epoch = db'[m].epoch
    BY <1>1, <1>14, <2>3, <2>4, CloudAnswers DEF Awaited
  <2>5. \A m \in Nodes : /\ HeldNext(m, db'[m]) /\ HeldNext(m, bundle'[m])
                         /\ bundle'[m].epoch \in {NoEpoch, db'[m].epoch}
    BY <1>1, <1>2, <2>3
  <2> QED
    BY <2>2, <2>4, <2>5, AnswerableNext
<1> QED
  BY <1>5, <1>6, <1>7, <1>8, <1>9, <1>10, <1>11, <1>12, <1>13, <1>14
     DEF Next, vars, nodeVars, NodeStep, AgentStep

\* What nodes hold was granted to them, and what is refused is explained.
LEMMA AlwaysAnswerable == Spec => []Answerable
<1>1. Init => Answerable
  BY PipelineAssumption
     DEF Init, AuthorityInit, NodeInit, Answerable, Held, Posted, Awaited,
         EmptyDb, FreeCall
<1>2. TypeOK /\ Scoped /\ Answerable /\ [Next]_vars => Answerable'
  BY AnswerableStep
<1> QED
  BY <1>1, <1>2, TypeCorrect, PTL DEF Spec

\* Whenever a node has rows that it will not send again, the cloud can tell
\* why: the device is revoked, or an operation of its epoch is in quarantine.
\* The refusal may have come late, and the database may be a restored one.
THEOREM RefusalsExplained == Spec => []RefusalsVisible
<1>1. Answerable => RefusalsVisible
  BY DEF Answerable, Held, Explained, RefusalsVisible
<1> QED
  BY <1>1, AlwaysAnswerable, PTL

\* No two nodes ever run the same epoch: an import needs the grant of that very
\* node, and an epoch number keeps the holder it was first committed with, in
\* whatever order checkouts, returns, transfers and recoveries commit.
THEOREM NodesApart == Spec => []OneNodePerEpoch
<1>1. Answerable => OneNodePerEpoch
  BY DEF Answerable, Held, Granted, OneNodePerEpoch
<1> QED
  BY <1>1, AlwaysAnswerable, PTL

=============================================================================
