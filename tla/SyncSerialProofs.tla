-------------------------- MODULE SyncSerialProofs --------------------------
(***************************************************************************)
(* Theorems about SyncPipeline when no cloud session commits between the   *)
(* read and the commit of another (Overlap = FALSE), for every set of      *)
(* nodes and threads and every number of epochs, operations, failures and  *)
(* restores.  What a session has read is then still so when it commits.    *)
(***************************************************************************)
EXTENDS SyncPipelineProofs, Sequences

-----------------------------------------------------------------------------
(* What a session has read stands. *)

\* What the request a has read and checked, and relies on when it commits.
Current(a) ==
    LET r == admin[a]
    IN  /\ r.pc # "idle" => r.epoch \in Epochs
        /\ r.pc = "checkout" => IsNextEpoch(r.epoch) /\ ~CheckedOut
        /\ r.pc = "ready" => st[r.epoch] = "preparing"
        /\ r.pc \in {"return", "transfer", "recover"} => st[r.epoch] \in Live
        /\ r.pc \in {"return", "transfer", "recover", "rebuild"} =>
              r.seq = cursor[r.epoch]
        /\ r.pc = "rebuild" => r.old = proj

Sessions ==
    /\ \A a \in Admins : Current(a)
    /\ \A c \in Calls : calls[c].pc = "checked" => InForce(calls[c].epoch)

cloudVars == <<st, holder, declared, cursor, inbox, proj>>

\* The commits that write what sessions read.
Commit(a) ==
    CheckoutCommit(a) \/ ReadyCommit(a) \/ LeaveCommit(a) \/ RebuildCommit(a)

\* Nothing else writes it.
LEMMA Writers ==
    ASSUME [Next]_vars
    PROVE  \/ UNCHANGED cloudVars
           \/ \E a \in Admins : Commit(a) /\ UNCHANGED db
           \/ \E c \in Calls : IngestAccept(c)
<1>1. ASSUME AuthorityNext
      PROVE  UNCHANGED cloudVars \/ \E a \in Admins : Commit(a)
  <2>1. ASSUME NEW a \in Admins, NEW n \in Nodes, CheckoutRead(a, n)
        PROVE  UNCHANGED cloudVars
    BY <2>1 DEF CheckoutRead, cloudVars
  <2>2. ASSUME NEW a \in Admins, NEW e \in Epochs,
               ReadyRead(a, e) \/ ReturnRead(a, e) \/ RebuildRead(a, e)
        PROVE  UNCHANGED cloudVars
    BY <2>2 DEF ReadyRead, ReturnRead, RebuildRead, cloudVars
  <2>3. ASSUME NEW a \in Admins, NEW e \in Epochs, NEW n \in Nodes,
               TransferRead(a, e, n) \/ RecoverRead(a, e, n)
        PROVE  UNCHANGED cloudVars
    BY <2>3 DEF TransferRead, RecoverRead, cloudVars
  <2>4. ASSUME NEW a \in Admins, LeaveExhausted(a) PROVE UNCHANGED cloudVars
    BY <2>4 DEF LeaveExhausted, cloudVars
  <2>5. ASSUME NEW n \in Nodes, RevokeDevice(n) PROVE UNCHANGED cloudVars
    BY <2>5 DEF RevokeDevice, cloudVars
  <2> QED
    BY <1>1, <2>1, <2>2, <2>3, <2>4, <2>5 DEF AuthorityNext, Commit
<1>2. ASSUME NEW n \in Nodes, NodeStep(n) PROVE UNCHANGED cloudVars
  BY <1>2 DEF NodeStep, Import, AppendOperation, CreateBundle, RestoreBundle,
              authVars, cloudVars
<1>3. ASSUME NEW n \in Nodes,
             \/ AgentStep(n)
             \/ \E c \in Calls : NetworkError(n, c) \/ AgentDies(n, c)
             \/ \E o \in Op : BackoffOver(n, o)
      PROVE  UNCHANGED cloudVars
  BY <1>3 DEF AgentStep, Post, HandleAnswer, NetworkError, AgentDies, Abandon,
              BackoffOver, authVars, cloudVars
<1>4. ASSUME NEW c \in Calls, CloudStep(c)
      PROVE  UNCHANGED cloudVars \/ IngestAccept(c)
  BY <1>4 DEF CloudStep, IngestCheck, IngestConflict, IngestReject, ingestFrame,
              cloudVars
<1> QED
  BY <1>1, <1>2, <1>3, <1>4 DEF Next, vars, authVars, nodeVars, cloudVars

\* A step that writes it ends the only session there is.
LEMMA Exclusive ==
    ASSUME TypeOK, ~Overlap, NEW p \in Admins \cup Calls, MidSession(p),
           \/ \E a \in Admins : Commit(a)
           \/ \E c \in Calls : IngestAccept(c)
    PROVE  \/ p \in Admins /\ admin'[p].pc = "idle"
           \/ p \in Calls /\ calls'[p].pc # "checked"
<1>0. admin \in [Admins -> AdminState] /\ calls \in [Calls -> CallState]
  BY DEF TypeOK, AuthorityTypeOK
<1>1. ASSUME NEW a \in Admins, Commit(a) PROVE p \in Admins /\ admin'[p].pc = "idle"
  <2>1. DbFree(a) /\ Ends(a)
    BY <1>1 DEF Commit, CheckoutCommit, ReadyCommit, LeaveCommit, RebuildCommit
  <2>2. p = a
    BY <2>1 DEF DbFree
  <2> QED
    BY <1>0, <2>1, <2>2 DEF Ends, FreshAdmin
<1>2. ASSUME NEW c \in Calls, IngestAccept(c)
      PROVE  p \in Calls /\ calls'[p].pc # "checked"
  <2>1. PICK high : DbFree(c) /\ Answer(c, "ok", high)
    BY <1>2 DEF IngestAccept
  <2>2. p = c
    BY <2>1 DEF DbFree
  <2> QED
    BY <1>0, <2>1, <2>2 DEF Answer, FreeCall, CallState
<1> QED
  BY <1>1, <1>2

\* How a request changes: it ends, or it begins with a read that changes
\* nothing else.
LEMMA RequestSteps ==
    ASSUME TypeOK, [Next]_vars, NEW a \in Admins
    PROVE  \/ admin'[a] = admin[a]
           \/ admin'[a].pc = "idle"
           \/ UNCHANGED cloudVars /\ Current(a)'
<1>0. admin \in [Admins -> AdminState] /\ NoEpoch \notin Epochs
  BY DEF TypeOK, AuthorityTypeOK, NoEpoch, Epochs
<1>1. CASE UNCHANGED admin
  BY <1>1
<1>2. ASSUME NEW b \in Admins, Ends(b)
      PROVE  admin'[a] = admin[a] \/ admin'[a].pc = "idle"
  BY <1>0, <1>2 DEF Ends, FreshAdmin
<1>3. ASSUME NEW b \in Admins, NEW pc, NEW e, NEW n, NEW seq,
             Starts(b, pc, e, n, seq)
      PROVE  \/ admin'[a] = admin[a]
             \/ /\ a = b /\ admin'[a].pc = pc /\ admin'[a].epoch = e
                /\ admin'[a].seq = seq
  BY <1>0, <1>3 DEF Starts, FreshAdmin
<1>4. ASSUME NEW b \in Admins, NEW n \in Nodes, CheckoutRead(b, n)
      PROVE  admin'[a] = admin[a] \/ (UNCHANGED cloudVars /\ Current(a)')
  <2>1. PICK e \in Epochs : IsNextEpoch(e) /\ Starts(b, "checkout", e, n, 0)
    BY <1>4 DEF CheckoutRead
  <2>2. UNCHANGED cloudVars /\ ~CheckedOut
    BY <1>4 DEF CheckoutRead, MayCheckout, cloudVars
  <2> QED
    BY <1>3, <2>1, <2>2 DEF Current, IsNextEpoch, CheckedOut, cloudVars
<1>5. ASSUME NEW b \in Admins, NEW e \in Epochs, ReadyRead(b, e)
      PROVE  admin'[a] = admin[a] \/ (UNCHANGED cloudVars /\ Current(a)')
  <2>1. UNCHANGED cloudVars /\ st[e] = "preparing"
           /\ Starts(b, "ready", e, holder[e], 0)
    BY <1>5 DEF ReadyRead, Readiable, cloudVars
  <2> QED
    BY <1>3, <2>1 DEF Current, cloudVars
<1>6. ASSUME NEW b \in Admins, NEW e \in Epochs, NEW pc, NEW n,
             pc \in {"return", "transfer", "recover"}, st[e] \in Live,
             Starts(b, pc, e, n, cursor[e]), UNCHANGED cloudVars
      PROVE  admin'[a] = admin[a] \/ (UNCHANGED cloudVars /\ Current(a)')
  <2>1. \/ admin'[a] = admin[a]
        \/ admin'[a].pc = pc /\ admin'[a].epoch = e /\ admin'[a].seq = cursor[e]
    BY <1>3, <1>6
  <2> QED
    BY <1>6, <2>1 DEF Current, cloudVars
<1>7. ASSUME NEW b \in Admins, NEW e \in Epochs, ReturnRead(b, e)
      PROVE  admin'[a] = admin[a] \/ (UNCHANGED cloudVars /\ Current(a)')
  BY <1>6, <1>7 DEF ReturnRead, ActiveCapability, Live, cloudVars
<1>8. ASSUME NEW b \in Admins, NEW e \in Epochs, NEW n \in Nodes,
             TransferRead(b, e, n) \/ RecoverRead(b, e, n)
      PROVE  admin'[a] = admin[a] \/ (UNCHANGED cloudVars /\ Current(a)')
  BY <1>6, <1>8 DEF TransferRead, RecoverRead, ActiveCapability, Live, cloudVars
<1>9. ASSUME NEW b \in Admins, NEW e \in Epochs, RebuildRead(b, e)
      PROVE  admin'[a] = admin[a] \/ (UNCHANGED cloudVars /\ Current(a)')
  <2>1. \/ admin'[a] = admin[a]
        \/ /\ admin'[a].pc = "rebuild" /\ admin'[a].epoch = e
           /\ admin'[a].seq = cursor[e] /\ admin'[a].old = proj
    BY <1>0, <1>9 DEF RebuildRead, FreshAdmin
  <2>2. UNCHANGED cloudVars
    BY <1>9 DEF RebuildRead, cloudVars
  <2> QED
    BY <2>1, <2>2 DEF Current, cloudVars
<1>10. ASSUME AuthorityNext
       PROVE  \/ admin'[a] = admin[a]
              \/ admin'[a].pc = "idle"
              \/ UNCHANGED cloudVars /\ Current(a)'
  BY <1>1, <1>2, <1>4, <1>5, <1>7, <1>8, <1>9, <1>10
     DEF AuthorityNext, CheckoutCommit, ReadyCommit, LeaveCommit,
         LeaveExhausted, RebuildCommit, RevokeDevice
<1>11. ASSUME NEW n \in Nodes, NodeStep(n) PROVE UNCHANGED admin
  BY <1>11 DEF NodeStep, Import, AppendOperation, CreateBundle, RestoreBundle,
               authVars
<1>12. ASSUME NEW n \in Nodes,
              \/ AgentStep(n)
              \/ \E c \in Calls : NetworkError(n, c) \/ AgentDies(n, c)
              \/ \E o \in Op : BackoffOver(n, o)
       PROVE  UNCHANGED admin
  BY <1>12 DEF AgentStep, Post, HandleAnswer, NetworkError, AgentDies, Abandon,
               BackoffOver, authVars
<1>13. ASSUME NEW c \in Calls, CloudStep(c) PROVE UNCHANGED admin
  BY <1>13 DEF CloudStep, IngestCheck, IngestAccept, IngestConflict,
               IngestReject, ingestFrame
<1> QED
  BY <1>1, <1>10, <1>11, <1>12, <1>13 DEF Next, vars, authVars

\* An upload gets past the authority check only while its epoch is in force.
LEMMA CheckSteps ==
    ASSUME TypeOK, [Next]_vars, NEW c \in Calls, calls'[c].pc = "checked"
    PROVE  \/ calls'[c] = calls[c]
           \/ UNCHANGED cloudVars /\ InForce(calls'[c].epoch)
<1>0. calls \in [Calls -> CallState]
  BY DEF TypeOK
<1>1. CASE UNCHANGED calls
  BY <1>1
<1>2. ASSUME NEW n \in Nodes, NodeStep(n)
      PROVE  calls'[c] = calls[c] \/ calls'[c] = FreeCall
  BY <1>2 DEF NodeStep, Import, AppendOperation, CreateBundle, RestoreBundle
<1>3. ASSUME NEW n \in Nodes, NEW d \in Calls, Post(n, d)
      PROVE  calls'[c] = calls[c] \/ calls'[c].pc = "sent"
  BY <1>0, <1>3 DEF Post, FreeCall
<1>4. ASSUME NEW n \in Nodes, NEW d \in Calls,
             HandleAnswer(n, d) \/ NetworkError(n, d) \/ AgentDies(n, d)
      PROVE  calls'[c] = calls[c] \/ calls'[c] = FreeCall
  BY <1>0, <1>4 DEF HandleAnswer, NetworkError, AgentDies, Abandon
<1>5. ASSUME NEW n \in Nodes, NEW o \in Op, BackoffOver(n, o) PROVE UNCHANGED calls
  BY <1>5 DEF BackoffOver
<1>6. ASSUME NEW d \in Calls, CloudStep(d)
      PROVE  \/ calls'[c] = calls[c]
             \/ UNCHANGED cloudVars /\ InForce(calls'[c].epoch)
  <2>1. ASSUME NEW code, NEW high, Answer(d, code, high)
        PROVE  calls'[c] = calls[c] \/ calls'[c].pc # "checked"
    BY <1>0, <2>1 DEF Answer, FreeCall, CallState
  <2>2. CASE IngestCheck(d)
    <3>1. CASE Answer(d, "refused", 0)
      BY <2>1, <3>1
    <3>2. CASE InForce(calls[d].epoch) /\ calls' = [calls EXCEPT ![d].pc = "checked"]
      BY <1>0, <2>2, <3>2 DEF IngestCheck, ingestFrame, cloudVars, CallState
    <3> QED
      BY <2>2, <3>1, <3>2 DEF IngestCheck
  <2>3. CASE IngestConflict(d)
    <3>1. CASE calls' = [calls EXCEPT ![d].pc = "sent", ![d].again = TRUE]
      BY <1>0, <3>1 DEF CallState
    <3> QED
      BY <2>1, <2>3, <3>1 DEF IngestConflict
  <2> QED
    BY <1>6, <2>1, <2>2, <2>3 DEF CloudStep, IngestAccept, IngestReject
<1> QED
  BY <1>1, <1>2, <1>3, <1>4, <1>5, <1>6 DEF Next, vars, AgentStep, FreeCall

\* Sessions stay current: whoever writes what one has read ends it.
LEMMA SessionsStep ==
    ASSUME TypeOK, ~Overlap, Sessions, [Next]_vars PROVE Sessions'
<1>1. ASSUME NEW a \in Admins PROVE Current(a)'
  <2>1. CASE admin'[a].pc = "idle"
    BY <2>1 DEF Current
  <2>2. CASE admin'[a] = admin[a] /\ admin[a].pc # "idle"
    <3>1. MidSession(a)
      BY <2>2 DEF MidSession
    <3>2. UNCHANGED cloudVars
      BY <2>2, <3>1, Writers, Exclusive, AuthorityAssumption
    <3> QED
      BY <2>2, <3>2 DEF Sessions, Current, IsNextEpoch, CheckedOut, cloudVars
  <2> QED
    BY <2>1, <2>2, RequestSteps
<1>2. ASSUME NEW c \in Calls, calls'[c].pc = "checked"
      PROVE  InForce(calls[c].epoch)'
  <2>1. CASE calls'[c] = calls[c]
    <3>1. MidSession(c)
      BY <1>2, <2>1 DEF MidSession
    <3>2. UNCHANGED cloudVars
      BY <1>2, <2>1, <3>1, Writers, Exclusive, AuthorityAssumption
    <3> QED
      BY <1>2, <2>1, <3>2 DEF Sessions, InForce, cloudVars
  <2>2. CASE UNCHANGED cloudVars /\ InForce(calls'[c].epoch)
    BY <2>2 DEF InForce, cloudVars
  <2> QED
    BY <1>2, <2>1, <2>2, CheckSteps
<1> QED
  BY <1>1, <1>2 DEF Sessions

\* Without overlapping sessions, every request and every upload commits on
\* rows that are still as it has read them.
THEOREM SessionsAreCurrent ==
    ASSUME ~Overlap PROVE Spec => []Sessions
<1>1. Init => Sessions
  BY DEF Init, AuthorityInit, NodeInit, Sessions, Current, FreshAdmin, FreeCall
<1>2. TypeOK /\ Sessions /\ [Next]_vars => Sessions'
  BY SessionsStep
<1> QED
  BY <1>1, <1>2, TypeCorrect, PTL DEF Spec

-----------------------------------------------------------------------------
(* What the commits do then. *)

\* A checkout grants the next epoch while none is live.
LEMMA CheckoutEffect ==
    ASSUME TypeOK, Sessions, NEW a \in Admins, CheckoutCommit(a)
    PROVE  /\ UNCHANGED <<declared, cursor, inbox, proj>>
           /\ ~CheckedOut
           /\ \/ UNCHANGED st
              \/ \E e \in Epochs : /\ IsNextEpoch(e)
                                   /\ st' = [st EXCEPT ![e] = "preparing"]
BY DEF CheckoutCommit, Sessions, Current

\* Readiness makes the preparing epoch active.
LEMMA ReadyEffect ==
    ASSUME TypeOK, Sessions, NEW a \in Admins, ReadyCommit(a)
    PROVE  /\ UNCHANGED <<declared, cursor, inbox, proj>>
           /\ \/ UNCHANGED st
              \/ \E e \in Epochs : /\ st[e] = "preparing"
                                   /\ st' = [st EXCEPT ![e] = "active"]
BY DEF ReadyCommit, Sessions, Current

\* A return, transfer or recovery closes the live epoch where its cursor is,
\* and the next epoch succeeds it.
LEMMA LeaveEffect ==
    ASSUME TypeOK, Sessions, NEW a \in Admins, LeaveCommit(a)
    PROVE  /\ UNCHANGED <<cursor, inbox, proj>>
           /\ \/ UNCHANGED <<st, declared>>
              \/ \E e, f \in Epochs, s \in {"closed", "recovered"},
                    t \in {"cloud", "preparing"} :
                    /\ st[e] \in Live /\ IsNextEpoch(f)
                    /\ st' = [st EXCEPT ![e] = s, ![f] = t]
                    /\ declared' = [declared EXCEPT ![e] = cursor[e]]
<1> DEFINE e == admin[a].epoch
<1>1. /\ e \in Epochs /\ st[e] \in Live
      /\ admin[a].seq = cursor[e]
      /\ UNCHANGED <<cursor, inbox, proj>>
  BY DEF LeaveCommit, Sessions, Current
<1>2. ClosedAs(admin[a].pc) \in {"closed", "recovered"}
         /\ SuccessorAs(admin[a].pc) \in {"cloud", "preparing"}
  BY DEF ClosedAs, SuccessorAs
<1>3. PICK f \in Epochs :
         /\ IsNextEpoch(f)
         /\ \/ UNCHANGED <<st, declared>>
            \/ /\ st' = [st EXCEPT ![e] = ClosedAs(admin[a].pc),
                                   ![f] = SuccessorAs(admin[a].pc)]
               /\ declared' = [declared EXCEPT ![e] = admin[a].seq]
  BY DEF LeaveCommit
<1> QED
  BY <1>1, <1>2, <1>3

\* A rebuild replaces the projection by one of its epoch at the cursor.
LEMMA RebuildEffect ==
    ASSUME TypeOK, Sessions, NEW a \in Admins, RebuildCommit(a)
    PROVE  /\ UNCHANGED <<st, declared, cursor, inbox>>
           /\ \E e \in Epochs : proj' = [epoch |-> e, last |-> cursor[e],
                                         data |-> 0..cursor[e]]
<1> DEFINE r == admin[a]
<1>1. /\ r.epoch \in Epochs /\ r.seq = cursor[r.epoch] /\ r.old = proj
      /\ UNCHANGED <<st, declared, cursor, inbox>>
  BY DEF RebuildCommit, Sessions, Current
<1>2. Rebuilt(r) = [epoch |-> r.epoch, last |-> cursor[r.epoch],
                    data |-> 0..cursor[r.epoch]]
  BY <1>1 DEF Rebuilt
<1>3. CASE proj.epoch = NoEpoch
  BY <1>1, <1>2, <1>3 DEF RebuildCommit
<1>4. CASE proj.epoch # NoEpoch
  <2>1. proj' = [epoch |-> Column(proj.epoch, Rebuilt(r).epoch, proj.epoch),
                 last |-> Column(proj.last, Rebuilt(r).last, proj.last),
                 data |-> Column(proj.data, Rebuilt(r).data, proj.data)]
    BY <1>1, <1>4 DEF RebuildCommit
  <2>2. \A x, y : Column(x, y, x) = y
    BY DEF Column
  <2> QED
    BY <1>1, <1>2, <2>1, <2>2
<1> QED
  BY <1>3, <1>4

\* The next epoch is above every epoch that was granted.
LEMMA NextIsLast ==
    ASSUME NEW f \in Epochs, IsNextEpoch(f)
    PROVE  st[f] = "none" /\ \A d \in Epochs : st[d] # "none" => d < f
BY AuthorityAssumption DEF IsNextEpoch, Epochs

\* An upload adds to an epoch in force.
LEMMA AcceptEffect ==
    ASSUME Sessions, NEW c \in Calls, IngestAccept(c)
    PROVE  UNCHANGED <<st, declared>> /\ st[calls[c].epoch] = "active"
BY DEF IngestAccept, ingestFrame, Sessions, InForce

-----------------------------------------------------------------------------
(* Epochs. *)

\* A step leaves the newest epoch the only live one.
LEMMA LatestStep ==
    ASSUME TypeOK, Sessions, LiveIndex(st), LiveIsLatest, [Next]_vars
    PROVE  LiveIsLatest'
<1>0. st \in [Epochs -> EpochState] /\ Epochs \subseteq Nat
  BY DEF TypeOK, AuthorityTypeOK, Epochs
<1>1. CASE UNCHANGED st
  BY <1>1 DEF LiveIsLatest
<1>2. ASSUME NEW a \in Admins, CheckoutCommit(a) PROVE LiveIsLatest'
  <2>1. CASE \E e \in Epochs : /\ IsNextEpoch(e)
                               /\ st' = [st EXCEPT ![e] = "preparing"]
    <3>1. PICK e \in Epochs : /\ IsNextEpoch(e)
                              /\ st' = [st EXCEPT ![e] = "preparing"]
      BY <2>1
    <3>2. \A d \in Epochs : st[d] \notin Live
      BY <1>2, CheckoutEffect DEF CheckedOut
    <3>3. \A d \in Epochs : st[d] # "none" => d < e
      BY <3>1, NextIsLast
    <3> QED
      BY <1>0, <3>1, <3>2, <3>3 DEF LiveIsLatest
  <2> QED
    BY <1>1, <1>2, <2>1, CheckoutEffect
<1>3. ASSUME NEW a \in Admins, ReadyCommit(a) PROVE LiveIsLatest'
  <2>1. CASE \E e \in Epochs : /\ st[e] = "preparing"
                               /\ st' = [st EXCEPT ![e] = "active"]
    <3>1. PICK e \in Epochs : /\ st[e] = "preparing"
                              /\ st' = [st EXCEPT ![e] = "active"]
      BY <2>1
    <3>2. \A d \in Epochs : /\ st'[d] \in Live <=> st[d] \in Live
                            /\ st'[d] = "none" <=> st[d] = "none"
      BY <1>0, <3>1 DEF Live
    <3> QED
      BY <3>2 DEF LiveIsLatest
  <2> QED
    BY <1>1, <1>3, <2>1, ReadyEffect
<1>4. ASSUME NEW a \in Admins, LeaveCommit(a) PROVE LiveIsLatest'
  <2>1. CASE \E e, f \in Epochs, s \in {"closed", "recovered"},
                t \in {"cloud", "preparing"} :
                /\ st[e] \in Live /\ IsNextEpoch(f)
                /\ st' = [st EXCEPT ![e] = s, ![f] = t]
    <3>1. PICK e, f \in Epochs, s \in {"closed", "recovered"},
               t \in {"cloud", "preparing"} :
               /\ st[e] \in Live /\ IsNextEpoch(f)
               /\ st' = [st EXCEPT ![e] = s, ![f] = t]
      BY <2>1
    <3>2. /\ st[f] = "none"
          /\ \A d \in Epochs : st[d] # "none" => d < f
      BY <3>1, NextIsLast
    <3>3. \A d \in Epochs : d # e => st[d] \notin Live
      BY <3>1 DEF LiveIndex
    <3>4. e # f
      BY <3>1, <3>2 DEF Live
    <3>5. \A d \in Epochs : st'[d] \in Live => d = f
      BY <1>0, <3>1, <3>3, <3>4 DEF Live
    <3>6. \A d \in Epochs : st'[d] # "none" => d <= f
      BY <1>0, <3>1, <3>2 DEF Live
    <3> QED
      BY <3>5, <3>6 DEF LiveIsLatest
  <2> QED
    BY <1>1, <1>4, <2>1, LeaveEffect
<1> QED
  BY <1>1, <1>2, <1>3, <1>4, Writers, RebuildEffect, AcceptEffect
     DEF Commit, cloudVars

\* Without overlapping sessions, the epoch in force is the newest one, so the
\* status of the highest epoch is the status of the tournament.
THEOREM NewestInForce ==
    ASSUME ~Overlap PROVE Spec => []LiveIsLatest
<1>1. Init => LiveIsLatest
  BY DEF Init, AuthorityInit, LiveIsLatest
<1>2. TypeOK /\ Sessions /\ LiveIndex(st) /\ LiveIsLatest /\ [Next]_vars
         => LiveIsLatest'
  BY LatestStep
<1> QED
  BY <1>1, <1>2, TypeCorrect, SessionsAreCurrent, IndexStands, PTL DEF Spec

\* A closed epoch is one that a leave has closed, and receives nothing more.
LEMMA DeclaredStep ==
    ASSUME TypeOK, Scoped, Sessions, ClosedAtDeclared, [Next]_vars
    PROVE  ClosedAtDeclared'
<1>0. /\ st \in [Epochs -> EpochState] /\ declared \in [Epochs -> 0..MaxSeq]
      /\ cursor \in [Epochs -> 0..MaxSeq]
  BY DEF TypeOK, AuthorityTypeOK
<1>1. CASE UNCHANGED <<st, declared, cursor>>
  BY <1>1 DEF ClosedAtDeclared
<1>2. ASSUME UNCHANGED <<declared, cursor>>, NEW e \in Epochs, NEW s \in Live,
             st' = [st EXCEPT ![e] = s]
      PROVE  ClosedAtDeclared'
  BY <1>0, <1>2 DEF ClosedAtDeclared, Live
<1>3. ASSUME NEW a \in Admins, CheckoutCommit(a) \/ ReadyCommit(a)
      PROVE  ClosedAtDeclared'
  <2>1. UNCHANGED <<declared, cursor>>
    BY <1>3 DEF CheckoutCommit, ReadyCommit
  <2>2. UNCHANGED st \/ \E e \in Epochs, s \in Live : st' = [st EXCEPT ![e] = s]
    BY <1>3, CheckoutEffect, ReadyEffect DEF Live
  <2> QED
    BY <1>1, <1>2, <2>1, <2>2
<1>4. ASSUME NEW a \in Admins, LeaveCommit(a) PROVE ClosedAtDeclared'
  <2>1. CASE UNCHANGED <<st, declared>>
    BY <1>1, <1>4, <2>1, LeaveEffect
  <2>2. CASE ~UNCHANGED <<st, declared>>
    <3>1. PICK e, f \in Epochs, s \in {"closed", "recovered"},
               t \in {"cloud", "preparing"} :
               /\ st' = [st EXCEPT ![e] = s, ![f] = t]
               /\ declared' = [declared EXCEPT ![e] = cursor[e]]
               /\ UNCHANGED cursor
      BY <1>4, <2>2, LeaveEffect
    <3> QED
      BY <1>0, <3>1 DEF ClosedAtDeclared
  <2> QED
    BY <2>1, <2>2
<1>5. ASSUME NEW c \in Calls, IngestAccept(c) PROVE ClosedAtDeclared'
  <2>1. \A d \in Epochs : d # calls[c].epoch => cursor'[d] = cursor[d]
    BY <1>0, <1>5 DEF IngestAccept
  <2> QED
    BY <1>5, <2>1, AcceptEffect DEF ClosedAtDeclared
<1> QED
  BY <1>1, <1>3, <1>4, <1>5, Writers, RebuildEffect DEF Commit, cloudVars

\* Without overlapping sessions, what the cloud holds of a closed epoch is what
\* the return, transfer or recovery that closed it declared and had checked.
THEOREM ClosedWhereDeclared ==
    ASSUME ~Overlap PROVE Spec => []ClosedAtDeclared
<1>1. Init => ClosedAtDeclared
  BY DEF Init, AuthorityInit, ClosedAtDeclared
<1>2. TypeOK /\ Scoped /\ Sessions /\ ClosedAtDeclared /\ [Next]_vars
         => ClosedAtDeclared'
  BY DeclaredStep
<1> QED
  BY <1>1, <1>2, TypeCorrect, SessionsAreCurrent, PTL DEF Spec

-----------------------------------------------------------------------------
(* The projection. *)

\* Before the projection is there, nothing has been received.
Unprojected ==
    proj.epoch = NoEpoch => /\ proj.data = {}
                            /\ \A e \in Epochs : cursor[e] = 0

\* What an accepted batch does to the projection: nothing when it brings
\* nothing new, and otherwise it continues the projection of the epoch, or
\* begins one, with the sequences after the cursor.
LEMMA AcceptedProjection ==
    ASSUME TypeOK, Scoped, NEW c \in Calls, IngestAccept(c)
    PROVE  \E e \in Epochs, high \in Nat :
              /\ cursor[e] \in Nat /\ cursor[e] <= high
              /\ cursor' = [cursor EXCEPT ![e] = high]
              /\ \/ UNCHANGED <<cursor, proj>>
                 \/ /\ proj.epoch \in {e, NoEpoch}
                    /\ proj' = [epoch |-> e, last |-> high,
                                data |-> proj.data \cup ((cursor[e] + 1)..high)]
<1>1. PICK e \in Epochs, high \in Nat, new \in SUBSET calls[c].batch :
              /\ e = calls[c].epoch /\ new = New(calls[c])
              /\ cursor[e] \in Nat /\ cursor[e] <= high
              /\ cursor' = [cursor EXCEPT ![e] = high]
              /\ \A o \in new : o.seq \in Nat /\ cursor[e] < o.seq /\ o.seq <= high
              /\ \A s \in (cursor[e] + 1)..high : \E p \in new : p.seq = s
              /\ proj' = IF new = {} THEN proj
                         ELSE [epoch |-> e, last |-> high,
                               data |-> proj.data \cup {o.seq : o \in new}]
  BY AcceptedBatch
<1>2. cursor \in [Epochs -> 0..MaxSeq]
  BY DEF TypeOK, AuthorityTypeOK
<1>3. CASE new = {}
  <2>1. high = cursor[e]
    <3>1. ~(cursor[e] < high)
      <4> SUFFICES ASSUME cursor[e] < high PROVE FALSE
        OBVIOUS
      <4>1. high \in (cursor[e] + 1)..high
        BY <1>1
      <4> QED
        BY <1>1, <1>3, <4>1
    <3> QED
      BY <1>1, <3>1
  <2> QED
    BY <1>1, <1>2, <1>3, <2>1
<1>4. CASE new # {}
  <2>1. Projectable(calls[c])
    BY <1>1, <1>4 DEF IngestAccept
  <2>2. proj.epoch \in {e, NoEpoch}
    BY <1>1, <2>1 DEF Projectable
  <2>3. {o.seq : o \in new} = (cursor[e] + 1)..high
    <3>1. ASSUME NEW o \in new PROVE o.seq \in (cursor[e] + 1)..high
      BY <1>1
    <3>2. ASSUME NEW s \in (cursor[e] + 1)..high PROVE s \in {o.seq : o \in new}
      BY <1>1
    <3> QED
      BY <3>1, <3>2
  <2> QED
    BY <1>1, <1>4, <2>2, <2>3
<1> QED
  BY <1>3, <1>4

\* Receiving and rebuilding keep the projection complete.
LEMMA ProjectionStep ==
    ASSUME TypeOK, Scoped, Sessions, Unprojected, ProjectionComplete, [Next]_vars
    PROVE  (Unprojected /\ ProjectionComplete)'
<1>0. cursor \in [Epochs -> 0..MaxSeq] /\ NoEpoch \notin Epochs /\ MaxSeq \in Nat
  BY AuthorityAssumption DEF TypeOK, AuthorityTypeOK, NoEpoch, Epochs
<1>1. CASE UNCHANGED <<cursor, proj>>
  BY <1>1 DEF Unprojected, ProjectionComplete
<1>2. ASSUME NEW a \in Admins, RebuildCommit(a)
      PROVE  (Unprojected /\ ProjectionComplete)'
  <2>1. PICK e \in Epochs : /\ proj' = [epoch |-> e, last |-> cursor[e],
                                        data |-> 0..cursor[e]]
                            /\ UNCHANGED cursor
    BY <1>2, RebuildEffect
  <2>2. (0..cursor[e]) \ {0} = 1..cursor[e]
    BY <1>0
  <2> QED
    BY <1>0, <2>1, <2>2 DEF Unprojected, ProjectionComplete
<1>3. ASSUME NEW c \in Calls, IngestAccept(c)
      PROVE  (Unprojected /\ ProjectionComplete)'
  <2>1. CASE ~UNCHANGED <<cursor, proj>>
    <3>1. PICK e \in Epochs, high \in Nat :
             /\ cursor[e] \in Nat /\ cursor[e] <= high
             /\ cursor' = [cursor EXCEPT ![e] = high]
             /\ proj.epoch \in {e, NoEpoch}
             /\ proj' = [epoch |-> e, last |-> high,
                         data |-> proj.data \cup ((cursor[e] + 1)..high)]
      BY <1>3, <2>1, AcceptedProjection
    <3>2. proj.data \ {0} = 1..cursor[e]
      BY <1>0, <3>1 DEF Unprojected, ProjectionComplete
    <3>3. (proj.data \cup ((cursor[e] + 1)..high)) \ {0} = 1..high
      <4>1. ((cursor[e] + 1)..high) \ {0} = (cursor[e] + 1)..high
        BY <3>1
      <4>2. (1..cursor[e]) \cup ((cursor[e] + 1)..high) = 1..high
        BY <3>1
      <4> QED
        BY <3>2, <4>1, <4>2
    <3>4. cursor'[e] = high
      BY <1>0, <3>1
    <3> QED
      BY <1>0, <3>1, <3>3, <3>4 DEF Unprojected, ProjectionComplete
  <2> QED
    BY <1>1, <2>1
<1>4. ASSUME NEW a \in Admins, CheckoutCommit(a) \/ ReadyCommit(a) \/ LeaveCommit(a)
      PROVE  UNCHANGED <<cursor, proj>>
  BY <1>4 DEF CheckoutCommit, ReadyCommit, LeaveCommit
<1> QED
  BY <1>1, <1>2, <1>3, <1>4, Writers DEF Commit, cloudVars

\* Without overlapping sessions, the projection shows every operation received
\* in its epoch, up to the cursor: a rebuild loses no operation that arrived
\* meanwhile, and a digest of the projection stands for the epoch.
THEOREM ProjectionsComplete ==
    ASSUME ~Overlap PROVE Spec => []ProjectionComplete
<1>1. Init => Unprojected /\ ProjectionComplete
  BY DEF Init, AuthorityInit, NoProjection, Unprojected, ProjectionComplete
<1>2. TypeOK /\ Scoped /\ Sessions /\ Unprojected /\ ProjectionComplete
         /\ [Next]_vars => (Unprojected /\ ProjectionComplete)'
  BY ProjectionStep
<1> QED
  BY <1>1, <1>2, TypeCorrect, SessionsAreCurrent, PTL DEF Spec

-----------------------------------------------------------------------------
(* The log. *)

\* The ids of the receipts R up to the sequence n, in order.
LogOf(R, n) == [s \in 1..n |-> (CHOOSE o \in R : o.seq = s).id]

\* The values that the refinement gives to the variables of SyncLog.
Logs == [e \in Epochs |-> LogOf(Receipts(e), cursor[e])]
Sealed == {e \in Epochs : st[e] \in {"closed", "recovered"}}
Acked == UNION {{o.id : o \in db[n].ack} : n \in Nodes}

\* One receipt for each sequence makes a log of the receipts' ids.
LEMMA LogOfReceipts ==
    ASSUME NEW R, NEW n \in Nat, R \subseteq Op, {o.seq : o \in R} = 1..n,
           \A o, p \in R : o.seq = p.seq => o = p
    PROVE  /\ Len(LogOf(R, n)) = n
           /\ \A o \in R : o.seq \in 1..n /\ LogOf(R, n)[o.seq] = o.id
           /\ \A s \in 1..n : \E o \in R : o.seq = s /\ LogOf(R, n)[s] = o.id
<1>1. ASSUME NEW s \in 1..n
      PROVE  \E o \in R : o.seq = s /\ LogOf(R, n)[s] = o.id
  <2>1. \E o \in R : o.seq = s
    OBVIOUS
  <2>2. /\ (CHOOSE o \in R : o.seq = s) \in R
        /\ (CHOOSE o \in R : o.seq = s).seq = s
    BY <2>1
  <2>3. LogOf(R, n)[s] = (CHOOSE o \in R : o.seq = s).id
    BY DEF LogOf
  <2> QED
    BY <2>2, <2>3
<1>2. ASSUME NEW o \in R PROVE o.seq \in 1..n /\ LogOf(R, n)[o.seq] = o.id
  <2>1. o.seq \in 1..n
    OBVIOUS
  <2>2. PICK p \in R : p.seq = o.seq /\ LogOf(R, n)[o.seq] = p.id
    BY <1>1, <2>1
  <2> QED
    BY <2>1, <2>2
<1>3. Len(LogOf(R, n)) = n
  <2>1. LogOf(R, n) \in [1..n -> OpIds]
    <3>1. \A s \in 1..n : LogOf(R, n)[s] \in OpIds
      BY <1>1 DEF Op
    <3>2. /\ DOMAIN LogOf(R, n) = 1..n
          /\ LogOf(R, n) = [s \in 1..n |-> LogOf(R, n)[s]]
      BY DEF LogOf
    <3> QED
      BY <3>1, <3>2
  <2>2. LogOf(R, n) \in Seq(OpIds)
    BY <2>1
  <2>3. DOMAIN LogOf(R, n) = 1..n
    BY DEF LogOf
  <2> QED
    BY <2>2, <2>3
<1> QED
  BY <1>1, <1>2, <1>3

\* The log of each epoch: as long as its cursor, a receipt's id at its sequence.
LEMMA LogsNow ==
    ASSUME TypeOK, InboxContiguous, NEW e \in Epochs
    PROVE  /\ cursor[e] \in Nat /\ Len(Logs[e]) = cursor[e]
           /\ \A o \in Receipts(e) : o.seq \in 1..cursor[e] /\ Logs[e][o.seq] = o.id
           /\ \A s \in 1..cursor[e] :
                 \E o \in Receipts(e) : o.seq = s /\ Logs[e][s] = o.id
<1>1. /\ Receipts(e) \subseteq Op /\ cursor[e] \in Nat
      /\ {o.seq : o \in Receipts(e)} = 1..cursor[e]
      /\ \A o, p \in Receipts(e) : o.seq = p.seq => o = p
  BY AuthorityAssumption DEF TypeOK, AuthorityTypeOK, Receipts, InboxContiguous
<1>2. Logs[e] = LogOf(Receipts(e), cursor[e])
  BY DEF Logs
<1> QED
  BY <1>1, <1>2, LogOfReceipts

\* The same after a step.
LEMMA LogsNext ==
    ASSUME TypeOK', InboxContiguous', NEW e \in Epochs
    PROVE  /\ cursor'[e] \in Nat /\ Len(Logs'[e]) = cursor'[e]
           /\ \A o \in Receipts(e)' : o.seq \in 1..cursor'[e] /\ Logs'[e][o.seq] = o.id
           /\ \A s \in 1..cursor'[e] :
                 \E o \in Receipts(e)' : o.seq = s /\ Logs'[e][s] = o.id
<1>1. /\ Receipts(e)' \subseteq Op /\ cursor'[e] \in Nat
      /\ {o.seq : o \in Receipts(e)'} = 1..(cursor'[e])
      /\ \A o, p \in Receipts(e)' : o.seq = p.seq => o = p
  BY AuthorityAssumption DEF TypeOK, AuthorityTypeOK, Receipts, InboxContiguous
<1>2. Logs'[e] = LogOf(Receipts(e)', cursor'[e])
  BY DEF Logs
<1> QED
  BY <1>1, <1>2, LogOfReceipts

\* Nothing that the log shows changes, or only what the nodes take for
\* delivered, which the cloud has.
LEMMA LearnStep ==
    ASSUME TypeOK, InboxContiguous, NoFalseAck', UNCHANGED <<inbox, cursor>>,
           Sealed' = Sealed
    PROVE  Chronicle!Next
<1>1. Logs' = Logs
  BY DEF Logs, Receipts
<1>2. ASSUME NEW x \in Acked'
      PROVE  \E e \in Epochs : \E i \in 1..Len(Logs[e]) : Logs[e][i] = x
  <2>0. PICK n \in Nodes : x \in {o.id : o \in db'[n].ack}
    BY <1>2 DEF Acked
  <2>1. PICK o \in db'[n].ack : o.id = x
    BY <2>0
  <2>2. o \in inbox /\ o \in Op
    BY <2>1 DEF NoFalseAck, TypeOK, AuthorityTypeOK
  <2>3. o.epoch \in Epochs /\ o \in Receipts(o.epoch)
    BY <2>2 DEF Op, Receipts
  <2>4. o.seq \in 1..Len(Logs[o.epoch]) /\ Logs[o.epoch][o.seq] = o.id
    BY <2>3, LogsNow
  <2> QED
    BY <2>1, <2>3, <2>4
<1>3. Acked' \subseteq UNION {{Logs[e][i] : i \in 1..Len(Logs[e])} : e \in Epochs}
  BY <1>2
<1>4. Chronicle!Learn
  BY <1>1, <1>3
     DEF Chronicle!Learn, Chronicle!Delivered, Logs, LogOf, Sealed, Acked
<1> QED
  BY <1>4 DEF Chronicle!Next

\* Leaving an epoch seals it.
LEMMA SealStep ==
    ASSUME TypeOK, Sessions, InboxContiguous, NoFalseAck', NEW a \in Admins,
           LeaveCommit(a), UNCHANGED db
    PROVE  Chronicle!Next
<1>0. st \in [Epochs -> EpochState]
  BY DEF TypeOK, AuthorityTypeOK
<1>1. UNCHANGED <<inbox, cursor>>
  BY LeaveEffect
<1>2. CASE UNCHANGED st
  BY <1>1, <1>2, LearnStep DEF Sealed
<1>3. CASE ~UNCHANGED st
  <2>1. PICK e, f \in Epochs, s \in {"closed", "recovered"},
             t \in {"cloud", "preparing"} :
             /\ st[e] \in Live /\ IsNextEpoch(f)
             /\ st' = [st EXCEPT ![e] = s, ![f] = t]
    BY <1>3, LeaveEffect
  <2>2. st[f] = "none"
    BY <2>1, NextIsLast
  <2>3. e # f
    BY <2>1, <2>2 DEF Live
  <2>4. Sealed' = Sealed \cup {e}
    BY <1>0, <2>1, <2>2, <2>3 DEF Sealed
  <2>5. Logs' = Logs /\ Acked' = Acked
    BY <1>1 DEF Logs, Receipts, Acked
  <2>6. Chronicle!Seal(e)
    BY <2>4, <2>5 DEF Chronicle!Seal, Logs, LogOf, Sealed, Acked
  <2> QED
    BY <2>6 DEF Chronicle!Next
<1> QED
  BY <1>2, <1>3

\* An accepted batch delivers what is new of it, in order and once.
LEMMA DeliverStep ==
    ASSUME TypeOK, TypeOK', Scoped, Sessions, InboxContiguous, InboxContiguous',
           Minted', NoFalseAck', NEW c \in Calls, IngestAccept(c)
    PROVE  Chronicle!Next
<1>1. PICK e \in Epochs, high \in Nat, new \in SUBSET calls[c].batch :
              /\ e = calls[c].epoch
              /\ cursor[e] \in Nat /\ cursor[e] <= high
              /\ inbox' = inbox \cup new
              /\ cursor' = [cursor EXCEPT ![e] = high]
              /\ \A o \in new : /\ o \in Op /\ o.epoch = e
                                /\ o.seq \in Nat /\ cursor[e] < o.seq /\ o.seq <= high
  BY AcceptedBatch
<1>2. cursor \in [Epochs -> 0..MaxSeq]
  BY DEF TypeOK, AuthorityTypeOK
<1>3. UNCHANGED <<st, db>> /\ st[e] = "active"
  BY <1>1, AcceptEffect DEF IngestAccept, ingestFrame, nodeVars
<1>4. Sealed' = Sealed /\ Acked' = Acked /\ e \notin Sealed
  BY <1>3 DEF Sealed, Acked
<1>5. CASE high = cursor[e]
  <2>1. new = {}
    BY <1>1, <1>5
  <2>2. UNCHANGED <<inbox, cursor>>
    BY <1>1, <1>2, <1>5, <2>1
  <2> QED
    BY <1>4, <2>2, LearnStep
<1>6. CASE cursor[e] < high
  <2>1. ASSUME NEW d \in Epochs, d # e PROVE Logs'[d] = Logs[d]
    <3>1. Receipts(d)' = Receipts(d) /\ cursor'[d] = cursor[d]
      BY <1>1, <1>2, <2>1 DEF Receipts
    <3> QED
      BY <3>1 DEF Logs
  <2>2. Logs' = [Logs EXCEPT ![e] = Logs'[e]]
    <3>1. Logs = [d \in Epochs |-> Logs[d]] /\ Logs' = [d \in Epochs |-> Logs'[d]]
      BY DEF Logs
    <3> QED
      BY <2>1, <3>1
  <2>3. Len(Logs[e]) < Len(Logs'[e])
    BY <1>1, <1>2, <1>6, LogsNow, LogsNext
  <2>4. ASSUME NEW i \in 1..Len(Logs[e]) PROVE Logs'[e][i] = Logs[e][i]
    <3>1. PICK o \in Receipts(e) : o.seq = i /\ Logs[e][i] = o.id
      BY LogsNow
    <3>2. o \in Receipts(e)'
      BY <1>1, <3>1 DEF Receipts
    <3> QED
      BY <3>1, <3>2, LogsNext
  <2>5. ASSUME NEW d1 \in Epochs, NEW d2 \in Epochs, NEW i \in 1..Len(Logs'[d1]),
               NEW j \in 1..Len(Logs'[d2]), Logs'[d1][i] = Logs'[d2][j]
        PROVE  d1 = d2 /\ i = j
    <3>1. PICK o \in Receipts(d1)' : o.seq = i /\ Logs'[d1][i] = o.id
      BY LogsNext
    <3>2. PICK p \in Receipts(d2)' : p.seq = j /\ Logs'[d2][j] = p.id
      BY LogsNext
    <3>3. o \in minted' /\ p \in minted' /\ o.id = p.id
             /\ o.epoch = d1 /\ p.epoch = d2
      BY <2>5, <3>1, <3>2 DEF Receipts, Minted
    <3>4. o = p
      BY <3>3 DEF Minted
    <3> QED
      BY <3>1, <3>2, <3>3, <3>4
  <2>6. Chronicle!Once(Logs')
    BY <2>5 DEF Chronicle!Once
  <2>7. Chronicle!Deliver(e)
    BY <1>4, <2>2, <2>3, <2>4, <2>6
       DEF Chronicle!Deliver, Chronicle!Once, Logs, LogOf, Sealed, Acked
  <2> QED
    BY <2>7 DEF Chronicle!Next
<1> QED
  BY <1>1, <1>5, <1>6

\* Every step is a step of the log, or leaves it alone.
LEMMA LogStep ==
    ASSUME TypeOK, TypeOK', Scoped, Sessions, InboxContiguous, InboxContiguous',
           Minted', NoFalseAck', [Next]_vars
    PROVE  Chronicle!Next
<1>0. st \in [Epochs -> EpochState]
  BY DEF TypeOK, AuthorityTypeOK
<1>1. CASE UNCHANGED cloudVars
  BY <1>1, LearnStep DEF cloudVars, Sealed
<1>2. ASSUME NEW a \in Admins, CheckoutCommit(a) PROVE Chronicle!Next
  <2>1. Sealed' = Sealed
    BY <1>0, <1>2, CheckoutEffect, NextIsLast DEF Sealed
  <2> QED
    BY <1>2, <2>1, CheckoutEffect, LearnStep
<1>3. ASSUME NEW a \in Admins, ReadyCommit(a) PROVE Chronicle!Next
  <2>1. Sealed' = Sealed
    BY <1>0, <1>3, ReadyEffect DEF Sealed
  <2> QED
    BY <1>3, <2>1, ReadyEffect, LearnStep
<1>4. ASSUME NEW a \in Admins, RebuildCommit(a) PROVE Chronicle!Next
  BY <1>4, RebuildEffect, LearnStep DEF Sealed
<1>5. ASSUME NEW a \in Admins, LeaveCommit(a), UNCHANGED db PROVE Chronicle!Next
  BY <1>5, SealStep
<1> QED
  BY <1>1, <1>2, <1>3, <1>4, <1>5, DeliverStep, Writers DEF Commit

\* Without overlapping sessions, the nodes, the agents, the network and the
\* cloud together implement the log of SyncLog: operations are received in
\* order and once, none after the epoch is closed, and a node takes for
\* delivered only what is.
THEOREM PipelineImplementsLog ==
    ASSUME ~Overlap PROVE Spec => LogSpec
<1>1. Init => Chronicle!Init
  <2> SUFFICES ASSUME Init PROVE Chronicle!Init
    OBVIOUS
  <2>1. \A e \in Epochs : LogOf(Receipts(e), cursor[e]) = << >>
    BY DEF Init, AuthorityInit, LogOf
  <2>2. Logs = [e \in Epochs |-> << >>]
    BY <2>1 DEF Logs
  <2>3. Sealed = {}
    BY DEF Init, AuthorityInit, Sealed
  <2>4. Acked = {}
    BY DEF Init, EmptyDb, Acked
  <2> QED
    BY <2>2, <2>3, <2>4 DEF Chronicle!Init, Logs, LogOf, Sealed, Acked
<1>2. Init => Minted
  BY DEF Init, AuthorityInit, NodeInit, Minted, EmptyDb, FreeCall
<1>3. TypeOK /\ Scoped /\ Minted /\ [Next]_vars => Minted'
  BY MintedStep
<1>4. /\ TypeOK /\ TypeOK' /\ Scoped /\ Sessions /\ InboxContiguous
      /\ InboxContiguous' /\ Minted' /\ NoFalseAck' /\ [Next]_vars
      => [Chronicle!Next]_(Chronicle!logVars)
  BY LogStep
<1> QED
  BY <1>1, <1>2, <1>3, <1>4, TypeCorrect, SessionsAreCurrent,
     ReceiptsContiguous, AcksAreReceipts, PTL
     DEF Spec, LogSpec, Chronicle!Spec

=============================================================================
