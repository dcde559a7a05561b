---------------------------- MODULE MCCommandQueue ----------------------------
(* CommandQueue on the small instances of the CommandQueue_*.cfg files.        *)
EXTENDS CommandQueue, TLC

CONSTANTS m1, m2, m3, c1

\* Two matches planned on the one court, or only the first.  The sides of m3 are
\* not known yet.
Shared == [m \in Matches |-> IF m = m3 THEN None ELSE c1]
Spread == [m \in Matches |-> IF m = m1 THEN c1 ELSE None]
DeskPlans == {Shared, Spread}

\* One match that waits, and nothing goes wrong.
Quiet == [start |-> [m \in Matches |-> "scheduled"], document |-> Shared, focus |-> {m1},
          drops |-> 0, hiccups |-> 0, reloads |-> 0, puts |-> 0, docs |-> 0]

\* Called to court although its sides are not known.
TooEarly == [Quiet EXCEPT !.focus = {m3}]

\* Two matches called to the one court, or both playing with one not placed.
Both(status) == [m \in Matches |-> IF m = m3 THEN "scheduled" ELSE status]
TwoCalled == [Quiet EXCEPT !.start = Both("called"), !.focus = {m1, m2}]
TwoPlaying == [Quiet EXCEPT !.start = Both("playing"), !.document = Spread]

DeskScenarios == {[Quiet EXCEPT !.drops = 1],
                  [Quiet EXCEPT !.reloads = 1],
                  [Quiet EXCEPT !.hiccups = 1],
                  [Quiet EXCEPT !.puts = 1],
                  TwoCalled, TooEarly,
                  [TwoCalled EXCEPT !.focus = {}, !.puts = 2],
                  [TwoPlaying EXCEPT !.docs = 1]}
===============================================================================
