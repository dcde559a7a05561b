---------------------------- MODULE SolveLedger ----------------------------
(***************************************************************************)
(* What the solve rail promises its users, with no workers, leases or      *)
(* attempts in sight.  A tournament has at most one undecided job.  A job  *)
(* is decided once, keeps its decision while it is kept, and only a        *)
(* decided job is forgotten.                                               *)
(***************************************************************************)
CONSTANTS Jobs, Tournaments, None

VARIABLES
    state,   \* of each job: "none", "pending", a decision or "forgotten"
    home     \* the tournament of each job that is known

Decisions == {"succeeded", "failed", "infeasible", "cancelled"}

Init ==
    /\ state = [j \in Jobs |-> "none"]
    /\ home = [j \in Jobs |-> None]

Submit(j, t) ==
    /\ state[j] = "none"
    /\ \A i \in Jobs : state[i] = "pending" => home[i] # t
    /\ state' = [state EXCEPT ![j] = "pending"]
    /\ home' = [home EXCEPT ![j] = t]

\* Some pending jobs are decided, and some decided ones forgotten.
Settle ==
    /\ \A j \in Jobs :
          \/ state'[j] = state[j] /\ home'[j] = home[j]
          \/ /\ state[j] = "pending"
             /\ state'[j] \in Decisions
             /\ home'[j] = home[j]
          \/ /\ state[j] \in Decisions
             /\ state'[j] = "forgotten"
             /\ home'[j] = None
    /\ DOMAIN state' = Jobs
    /\ DOMAIN home' = Jobs

Next ==
    \/ \E j \in Jobs, t \in Tournaments : Submit(j, t)
    \/ Settle

Spec == Init /\ [][Next]_<<state, home>>
=============================================================================
