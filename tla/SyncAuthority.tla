--------------------------- MODULE SyncAuthority ---------------------------
(***************************************************************************)
(* The cloud side of authority over one tournament: the authority epochs,  *)
(* the cloud's cursor, receipts and read projection, and the requests that *)
(* check the tournament out to an event node, make the node's epoch        *)
(* active, return, transfer or recover authority, rebuild the projection   *)
(* and revoke a device.                                                    *)
(*                                                                         *)
(* A request reads rows, decides, and commits UPDATEs that are keyed by    *)
(* primary key; nothing locks what it has read.  Each is a ...Read and a   *)
(* ...Commit step, with the request's decision kept in admin between them. *)
(* Overlap = FALSE lets no other cloud session commit in that window.      *)
(***************************************************************************)
EXTENDS Integers, FiniteSets

CONSTANTS
    Nodes,        \* enrolled event-node devices
    Admins,       \* cloud threads serving authority requests
    Calls,        \* uploads under way, served by cloud threads too
    None,         \* no node
    MaxEpochs,    \* bound: epochs ever granted
    MaxSeq,       \* bound: operations per epoch
    OpIds,        \* operation ids (uuid4): every operation gets a new one
    Revocable,    \* devices the owner may revoke
    Overlap       \* may cloud sessions interleave between read and commit?

ASSUME AuthorityAssumption ==
    /\ None \notin Nodes
    /\ Admins \cap Calls = {}
    /\ MaxEpochs \in Nat
    /\ MaxSeq \in Nat
    /\ OpIds \subseteq Nat
    /\ Revocable \subseteq Nodes
    /\ Overlap \in BOOLEAN

VARIABLES
    st,        \* state column of tournament_authority_epochs
    holder,    \* node_id of the epoch
    declared,  \* declared_last_sequence of the transition that closed it
    cursor,    \* sync_checkpoints.highest_contiguous_sequence
    inbox,     \* sync_inbox and the receipted event_operations
    proj,      \* the row of cloud_event_projections
    revoked,   \* devices with revoked_at set
    admin,     \* the authority requests
    calls      \* the uploads (SyncPipeline)

authVars == <<st, holder, declared, cursor, inbox, proj, revoked, admin>>

Epochs == 1..MaxEpochs
NoEpoch == 0
Seqs == 1..MaxSeq
Op == [epoch: Epochs, seq: Seqs, id: OpIds]

Live == {"preparing", "active"}
EpochState == Live \cup {"none", "closed", "recovered", "cloud"}

\* last is last_sequence; data is what the JSON holds: the effects of these
\* sequences, and under 0 the checkpoint that only a rebuild puts there.
Projection ==
    [epoch: Epochs \cup {NoEpoch}, last: 0..MaxSeq, data: SUBSET (0..MaxSeq)]
NoProjection == [epoch |-> NoEpoch, last |-> 0, data |-> {}]

AdminState ==
    [pc: {"idle", "checkout", "ready", "return", "transfer", "recover",
          "rebuild"},
     epoch: Epochs \cup {NoEpoch},
     node: Nodes \cup {None},
     seq: 0..MaxSeq,                  \* the cursor it read
     old: Projection]                 \* the projection it read

FreshAdmin == [pc |-> "idle", epoch |-> NoEpoch, node |-> None, seq |-> 0,
               old |-> NoProjection]

AuthorityTypeOK ==
    /\ st \in [Epochs -> EpochState]
    /\ holder \in [Epochs -> Nodes \cup {None}]
    /\ declared \in [Epochs -> 0..MaxSeq]
    /\ cursor \in [Epochs -> 0..MaxSeq]
    /\ inbox \subseteq Op
    /\ proj \in Projection
    /\ revoked \subseteq Revocable
    /\ admin \in [Admins -> AdminState]

AuthorityInit ==
    /\ st = [e \in Epochs |-> "none"]
    /\ holder = [e \in Epochs |-> None]
    /\ declared = [e \in Epochs |-> 0]
    /\ cursor = [e \in Epochs |-> 0]
    /\ inbox = {}
    /\ proj = NoProjection
    /\ revoked = {}
    /\ admin = [a \in Admins |-> FreshAdmin]

-----------------------------------------------------------------------------

MidSession(p) ==
    \/ p \in Admins /\ admin[p].pc # "idle"
    \/ p \in Calls /\ calls[p].pc = "checked"

\* May the thread p talk to the cloud database now?
DbFree(p) == Overlap \/ \A q \in (Admins \cup Calls) \ {p} : ~MidSession(q)

\* max(epoch) + 1
IsNextEpoch(e) == \A d \in Epochs : st[d] = "none" <=> d >= e

\* uq_tournament_authority_one_live_epoch
LiveIndex(tab) ==
    \A d, e \in Epochs : (tab[d] \in Live /\ tab[e] \in Live) => d = e

CheckedOut == \E e \in Epochs : st[e] \in Live

Receipts(e) == {o \in inbox : o.epoch = e}

Starts(a, pc, e, n, seq) ==
    admin' = [admin EXCEPT ![a] = [FreshAdmin EXCEPT !.pc = pc, !.epoch = e,
                                                     !.node = n, !.seq = seq]]

Ends(a) == admin' = [admin EXCEPT ![a] = FreshAdmin]

-----------------------------------------------------------------------------
(* Checkout and readiness. *)

MayCheckout(n) == n \notin revoked /\ ~CheckedOut

CheckoutRead(a, n) ==
    /\ admin[a].pc = "idle" /\ DbFree(a)
    /\ MayCheckout(n)
    /\ \E e \in Epochs : IsNextEpoch(e) /\ Starts(a, "checkout", e, n, 0)
    /\ UNCHANGED <<st, holder, declared, cursor, inbox, proj, revoked>>

\* Mutant: the epoch is saved by primary key, over a row that is there.
UnusedOrOverwritten(e) == TRUE

\* The primary key of the INSERT.
Unused(e) == st[e] = "none"

\* The INSERT of the epoch, its sequence and its cursor.  The primary key and
\* the live index turn a lost race into a 409.
CheckoutCommit(a) ==
    LET e == admin[a].epoch
        tab == [st EXCEPT ![e] = "preparing"]
        ok == Unused(e) /\ LiveIndex(tab)
    IN  /\ admin[a].pc = "checkout" /\ DbFree(a)
        /\ st' = IF ok THEN tab ELSE st
        /\ holder' = IF ok THEN [holder EXCEPT ![e] = admin[a].node] ELSE holder
        /\ Ends(a)
        /\ UNCHANGED <<declared, cursor, inbox, proj, revoked>>

\* Mutant: an epoch that was closed can be made ready again.
ReadiableClosed(e) == st[e] \in {"preparing", "closed"}

Readiable(e) == st[e] = "preparing"

\* mark_ready: an epoch that is active already is answered as it is.
ReadyRead(a, e) ==
    /\ admin[a].pc = "idle" /\ DbFree(a)
    /\ Readiable(e) /\ holder[e] \notin revoked
    /\ Starts(a, "ready", e, holder[e], 0)
    /\ UNCHANGED <<st, holder, declared, cursor, inbox, proj, revoked>>

\* UPDATE by primary key: it may revive an epoch that was recovered meanwhile,
\* unless the live index stops it.
ReadyCommit(a) ==
    LET tab == [st EXCEPT ![admin[a].epoch] = "active"]
    IN  /\ admin[a].pc = "ready" /\ DbFree(a)
        /\ st' = IF LiveIndex(tab) THEN tab ELSE st
        /\ Ends(a)
        /\ UNCHANGED <<holder, declared, cursor, inbox, proj, revoked>>

-----------------------------------------------------------------------------
(* Leaving an epoch. *)

\* cloud_projection_digest answers: no projection, or one at the cursor.
Digestible(e) ==
    \/ proj.epoch = NoEpoch
    \/ proj.epoch = e /\ proj.last = cursor[e]

\* Only the trusted holder of an active epoch may give it up.
ActiveCapability(e) == st[e] = "active" /\ holder[e] \notin revoked

\* The caller declares a last sequence; only the cursor itself is accepted.
ReturnRead(a, e) ==
    /\ admin[a].pc = "idle" /\ DbFree(a)
    /\ ActiveCapability(e)
    /\ Digestible(e)
    /\ Starts(a, "return", e, None, cursor[e])
    /\ UNCHANGED <<st, holder, declared, cursor, inbox, proj, revoked>>

TransferRead(a, e, n) ==
    /\ admin[a].pc = "idle" /\ DbFree(a)
    /\ ActiveCapability(e)
    /\ n # holder[e] /\ n \notin revoked
    /\ Starts(a, "transfer", e, n, cursor[e])
    /\ UNCHANGED <<st, holder, declared, cursor, inbox, proj, revoked>>

\* The backup at sequence b can be rolled forward: every later receipt is kept.
Replayable(e, b) ==
    Cardinality({o \in Receipts(e) : o.seq > b /\ o.seq <= cursor[e]})
        = cursor[e] - b

RecoverRead(a, e, n) ==
    /\ admin[a].pc = "idle" /\ DbFree(a)
    /\ st[e] \in Live
    /\ n # holder[e] /\ n \notin revoked
    /\ \E b \in 0..cursor[e] : Replayable(e, b)
    /\ Starts(a, "recover", e, n, cursor[e])
    /\ UNCHANGED <<st, holder, declared, cursor, inbox, proj, revoked>>

\* The states an epoch and its successor get.
ClosedAs(pc) == IF pc = "recover" THEN "recovered" ELSE "closed"
SuccessorAs(pc) == IF pc = "return" THEN "cloud" ELSE "preparing"

\* The commit of the three: the old epoch is closed by primary key, and the
\* successor takes the next number, read after the checks.
LeaveCommit(a) ==
    LET r == admin[a]
        e == r.epoch
    IN  /\ r.pc \in {"return", "transfer", "recover"} /\ DbFree(a)
        /\ \E f \in Epochs :
              /\ IsNextEpoch(f)
              /\ LET tab == [st EXCEPT ![e] = ClosedAs(r.pc),
                                       ![f] = SuccessorAs(r.pc)]
                     ok == LiveIndex(tab)
                 IN  /\ st' = IF ok THEN tab ELSE st
                     /\ holder' = IF ok THEN [holder EXCEPT ![f] = r.node]
                                  ELSE holder
                     /\ declared' = IF ok THEN [declared EXCEPT ![e] = r.seq]
                                    ELSE declared
        /\ Ends(a)
        /\ UNCHANGED <<cursor, inbox, proj, revoked>>

\* Bound: no epoch number is left for the successor, and the request ends.
LeaveExhausted(a) ==
    /\ admin[a].pc \in {"return", "transfer", "recover"} /\ DbFree(a)
    /\ \A f \in Epochs : ~IsNextEpoch(f)
    /\ Ends(a)
    /\ UNCHANGED <<st, holder, declared, cursor, inbox, proj, revoked>>

-----------------------------------------------------------------------------
(* The projection, and devices. *)

\* rebuild_cloud_projection's reads and checks.
RebuildRead(a, e) ==
    /\ admin[a].pc = "idle" /\ DbFree(a)
    /\ st[e] # "none"
    /\ {o.seq : o \in Receipts(e)} = 1..cursor[e]
    /\ admin' = [admin EXCEPT ![a] = [FreshAdmin EXCEPT !.pc = "rebuild",
                   !.epoch = e, !.seq = cursor[e], !.old = proj]]
    /\ UNCHANGED <<st, holder, declared, cursor, inbox, proj, revoked>>

\* Mutant: the highest sequence is taken for the next one.
RebuiltPastEnd(r) ==
    [epoch |-> r.epoch, last |-> r.seq + 1, data |-> 0..r.seq]

\* Mutant: the rebuilt projection leaves out the last operation.
RebuiltOffByOne(r) ==
    [epoch |-> r.epoch, last |-> r.seq, data |-> 0..(r.seq - 1)]

Rebuilt(r) == [epoch |-> r.epoch, last |-> r.seq, data |-> 0..r.seq]

\* An UPDATE writes the columns whose value differs from the one read.
Column(old, new, now) == IF old = new THEN now ELSE new

\* An INSERT that meets a row fails; an UPDATE goes by primary key.
RebuildCommit(a) ==
    LET old == admin[a].old
        new == Rebuilt(admin[a])
    IN  /\ admin[a].pc = "rebuild" /\ DbFree(a)
        /\ proj' = IF old.epoch = NoEpoch
                      THEN IF proj.epoch = NoEpoch THEN new ELSE proj
                      ELSE [epoch |-> Column(old.epoch, new.epoch, proj.epoch),
                            last |-> Column(old.last, new.last, proj.last),
                            data |-> Column(old.data, new.data, proj.data)]
        /\ Ends(a)
        /\ UNCHANGED <<st, holder, declared, cursor, inbox, revoked>>

RevokeDevice(n) ==
    /\ n \in Revocable \ revoked
    /\ revoked' = revoked \cup {n}
    /\ UNCHANGED <<st, holder, declared, cursor, inbox, proj, admin>>

-----------------------------------------------------------------------------

AuthorityNext ==
    \/ \E a \in Admins :
          \/ \E n \in Nodes : CheckoutRead(a, n)
          \/ CheckoutCommit(a)
          \/ \E e \in Epochs : \/ ReadyRead(a, e)
                               \/ ReturnRead(a, e)
                               \/ RebuildRead(a, e)
          \/ \E e \in Epochs, n \in Nodes : \/ TransferRead(a, e, n)
                                            \/ RecoverRead(a, e, n)
          \/ ReadyCommit(a)
          \/ LeaveCommit(a)
          \/ LeaveExhausted(a)
          \/ RebuildCommit(a)
    \/ \E n \in Nodes : RevokeDevice(n)

-----------------------------------------------------------------------------

\* A live epoch is the newest one, so the status the operator is shown (that of
\* the highest epoch) is that of the epoch in force.
LiveIsLatest ==
    \A d, e \in Epochs : (st[d] \in Live /\ st[e] # "none") => e <= d

\* What an epoch received is what its closing transition declared and had
\* checked: nothing slips in after the check.
ClosedAtDeclared ==
    \A e \in Epochs : st[e] \in {"closed", "recovered"} => cursor[e] = declared[e]

\* The projection shows every operation received in its epoch, up to the
\* cursor, and says so: a digest taken of it stands for the whole epoch.
ProjectionComplete ==
    proj.epoch # NoEpoch => /\ proj.last = cursor[proj.epoch]
                            /\ proj.data \ {0} = 1..proj.last
=============================================================================
