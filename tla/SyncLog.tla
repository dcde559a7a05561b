------------------------------ MODULE SyncLog ------------------------------
(***************************************************************************)
(* What synchronization promises of an epoch: the cloud receives the       *)
(* operations of the epoch's node in order and each one once, nothing      *)
(* after the epoch is sealed, and the node takes an operation for          *)
(* delivered only when it is.                                              *)
(***************************************************************************)
EXTENDS Integers, Sequences, FiniteSets

CONSTANTS Epochs, OpIds

VARIABLES
    delivered,   \* per epoch, the operations received, in order
    sealed,      \* epochs that have been closed
    acked        \* operations a node takes for delivered

logVars == <<delivered, sealed, acked>>

Delivered(log) == UNION {{log[e][i] : i \in 1..Len(log[e])} : e \in Epochs}

Once(log) ==
    \A d, e \in Epochs : \A i \in 1..Len(log[d]), j \in 1..Len(log[e]) :
        log[d][i] = log[e][j] => d = e /\ i = j

Init ==
    /\ delivered = [e \in Epochs |-> << >>]
    /\ sealed = {}
    /\ acked = {}

\* The cloud receives some more operations of an open epoch.
Deliver(e) ==
    /\ e \notin sealed
    /\ delivered' = [delivered EXCEPT ![e] = delivered'[e]]
    /\ Len(delivered[e]) < Len(delivered'[e])
    /\ \A i \in 1..Len(delivered[e]) : delivered'[e][i] = delivered[e][i]
    /\ Once(delivered')
    /\ UNCHANGED <<sealed, acked>>

Seal(e) ==
    /\ sealed' = sealed \cup {e}
    /\ UNCHANGED <<delivered, acked>>

\* A node learns of deliveries, or forgets them with a restored backup.
Learn ==
    /\ acked' \subseteq Delivered(delivered)
    /\ UNCHANGED <<delivered, sealed>>

Next ==
    \/ \E e \in Epochs : Deliver(e) \/ Seal(e)
    \/ Learn

Spec == Init /\ [][Next]_logVars
=============================================================================
