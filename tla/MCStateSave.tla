------------------------------ MODULE MCStateSave ------------------------------
(* StateSave on the small instances of the StateSave_*.cfg files.              *)
EXTENDS StateSave, TLC

CONSTANTS w1, w2, a, b, x

\* One visit with four edits and no schedule.
Visit == [sched |-> FALSE, bracket |-> "none", edits |-> 4, opens |-> 1, others |-> 0, faults |-> 0]

\* The same with another session and failures, under a committed meet or bracket
\* schedule, and with a draw in play.
SaveScenarios == {[Visit EXCEPT !.others = 2],
                  [Visit EXCEPT !.faults = 2],
                  [Visit EXCEPT !.edits = 3, !.others = 1, !.faults = 1]}
                 \cup {[Visit EXCEPT !.bracket = s, !.sched = m, !.edits = 3, !.faults = 1] :
                         s \in {"none", "committed", "started"}, m \in BOOLEAN}

\* Two workspaces, one after the other and back again, and one failed request.
VisitScenarios == {[Visit EXCEPT !.opens = 3, !.edits = 1, !.faults = 1]}
===============================================================================
