---------------------------- MODULE StateSaveProofs ----------------------------
(* TLAPS proofs about StateSave: types for every size of the system, and, for  *)
(* a workspace that is opened once, that no save overwrites a revision it was  *)
(* not edited from and that no edit is left unsaved without a sign of it.      *)
EXTENDS StateSave, TLAPS

USE DEF history

\* Every save the server may get carries the revision it was edited from.
Sound(p) == p.tag # None => p.base = Revision(p.ws, p.tag)

\* Before the visit nothing has happened on the client.
Fresh ==
    env.opens # 0 => /\ active = None /\ gets = {} /\ put = None /\ late = {}
                     /\ ~timer /\ status \notin {"error", "dirty"}
                     /\ \A w \in Workspaces : etag[w] = None

\* During the visit the only token is the one of the revision on screen.
Tagged ==
    active # None =>
      \A w \in Workspaces : etag[w] # None => w = active /\ base = Revision(w, etag[w])

\* The load of the visit is over before anything is saved.
Loading ==
    active # None =>
      \A g \in gets : /\ g.ws = active /\ g.id = page.id
                      /\ gets = {g}
                      /\ put = None /\ ~timer /\ ~page.done
                      /\ status \notin {"error", "dirty"}

\* The save in flight was taken from the document on screen.
InFlight ==
    put # None => /\ Sound(put)
                  /\ active # None => put.ws = active /\ put.base = base

OneVisit ==
    /\ TypeOK
    /\ env.opens <= 1
    /\ Fresh /\ Tagged /\ Loading /\ InFlight
    /\ \A p \in late : Sound(p)
    /\ NoLostUpdate

-------------------------------------------------------------------------------
\* What the server answers is a reply, and what it stores is a tournament.
LEMMA AnswerType ==
    ASSUME NEW p PROVE Answer(p) \in {"ok", "required", "versionConflict", "configLocked",
                                      "drawStarted", "rosterLocked"}
BY DEF Answer

\* An accepted save leaves a well-formed row and a well-formed history.
LEMMA HandleType ==
    ASSUME TypeOK, NEW p \in Save, Handle(p)
    PROVE  /\ server' \in [Workspaces -> Tournament]
           /\ last' \in [ws: Workspaces, over: Nat, base: Revisions \cup {None}] \cup {None}
<1>1. server[p.ws] \in Tournament
  BY DEF TypeOK, Save
<1>2. Stored(p) \in Tournament
  <2> DEFINE cleared == p.clear /\ Changed(p)
             doc     == IF cleared THEN [p.doc EXCEPT !.sched = FALSE, !.stale = FALSE]
                        ELSE p.doc
             bracket == IF cleared THEN "none" ELSE server[p.ws].bracket
  <2>2. p.doc \in Document
    BY DEF Save
  <2> HIDE DEF cleared
  <2>3. doc \in Document
    BY <2>2 DEF Document
  <2>4. bracket \in {"none", "committed", "started"} /\ server[p.ws].ver + 1 \in Nat
    BY <1>1 DEF Tournament
  <2>5. Stored(p) = [doc |-> doc, ver |-> server[p.ws].ver + 1, bracket |-> bracket]
    BY DEF Stored, cleared
  <2> HIDE DEF doc, bracket
  <2>6. QED
    BY <2>3, <2>4, <2>5 DEF Tournament
<1>3. CASE Answer(p) = "ok"
  <2>1. server' = [server EXCEPT ![p.ws] = Stored(p)]
    BY <1>3 DEF Handle, Accept
  <2>2. server' \in [Workspaces -> Tournament]
    BY <2>1, <1>2 DEF TypeOK, Save
  <2>3. last' = [ws |-> p.ws, over |-> server[p.ws].ver, base |-> p.base]
    BY <1>3 DEF Handle, Accept
  <2>4. QED
    BY <2>2, <2>3, <1>1 DEF Save, Tournament
<1>4. CASE Answer(p) # "ok"
  BY <1>4 DEF Handle, TypeOK
<1>5. QED
  BY <1>3, <1>4

\* A save stays a save when one of its fields is set.
LEMMA SaveFields ==
    ASSUME NEW p \in Save
    PROVE  /\ \A x \in {"sent", "answered", "modal", "resync", "decline"} :
                [p EXCEPT !.at = x] \in Save /\ [p EXCEPT !.at = x].at = x
           /\ \A r \in Reply : /\ [p EXCEPT !.at = "answered", !.res = r] \in Save
                               /\ [p EXCEPT !.at = "answered", !.res = r].res = r
           /\ \A t \in Nat \cup {None} :
                /\ [p EXCEPT !.at = "sent", !.clear = TRUE, !.tag = t] \in Save
                /\ [p EXCEPT !.at = "sent", !.clear = TRUE, !.tag = t].at = "sent"
BY DEF Save

\* The subscription only touches the status, the timer and the follow-up flag, and
\* starts the debounce only when no save is in flight.
LEMMA SubscribedType ==
    ASSUME TypeOK, NEW doc, Subscribed(doc)
    PROVE  /\ status' \in {"idle", "dirty", "saving", "error"}
           /\ timer' \in BOOLEAN /\ followup' \in BOOLEAN
           /\ timer' => put = None
           /\ followup' => put # None
BY DEF TypeOK, Subscribed

\* forceSaveNow joins the save in flight or starts a well-formed one, and no
\* debounce is left running.
LEMMA FlushType ==
    ASSUME TypeOK, forceSaveNow
    PROVE  /\ put' \in Save \cup {None}
           /\ status' \in {"idle", "dirty", "saving", "error"}
           /\ timer' = FALSE /\ followup' \in BOOLEAN /\ clearNext' \in BOOLEAN
           /\ followup' => put' # None
           /\ put' # None /\ put'.at = "answered" => put'.res # None
<1>1. CASE put # None \/ active = None
  BY <1>1 DEF forceSaveNow, Flush, TypeOK
<1>2. CASE put = None /\ active # None
  <2> DEFINE p == [ws |-> active, doc |-> store, base |-> base, tag |-> etag[active],
                   clear |-> clearNext, at |-> "sent", res |-> None]
  <2>1. p \in Save /\ p.at = "sent"
    BY <1>2 DEF TypeOK, Save
  <2>2. put' = p /\ followup' = FALSE /\ clearNext' = FALSE /\ status' = "saving" /\ timer' = FALSE
    BY <1>2 DEF forceSaveNow, Flush
  <2> HIDE DEF p
  <2>3. QED
    BY <2>1, <2>2
<1>3. QED
  BY <1>1, <1>2

\* The budgets of a scenario stay natural numbers.
LEMMA BudgetType ==
    ASSUME NEW e \in Scenario
    PROVE  /\ e.edits > 0 => [e EXCEPT !.edits = @ - 1] \in Scenario
           /\ e.opens > 0 => [e EXCEPT !.opens = @ - 1] \in Scenario
           /\ e.others > 0 => [e EXCEPT !.others = @ - 1] \in Scenario
           /\ e.faults > 0 => [e EXCEPT !.faults = @ - 1] \in Scenario
BY DEF Scenario

-------------------------------------------------------------------------------
\* Types hold at the start.
LEMMA TypeInit == Init => TypeOK
<1> SUFFICES ASSUME Init PROVE TypeOK
  OBVIOUS
<1>1. env \in Scenario
  BY SaveAssumption DEF Init
<1>2. server \in [Workspaces -> Tournament]
  <2> SUFFICES ASSUME NEW w \in Workspaces
               PROVE  [doc |-> [of |-> w, val |-> First, sched |-> env.sched, stale |-> FALSE], ver |-> 1,
                       bracket |-> env.bracket] \in Tournament
    BY DEF Init
  <2>1. First \in Vals /\ env.sched \in BOOLEAN /\ env.bracket \in {"none", "committed", "started"}
    BY <1>1, SaveAssumption DEF Scenario
  <2>2. QED
    BY <2>1 DEF Tournament, Document
<1>3. QED
  BY <1>1, <1>2 DEF Init, TypeOK, Defaults, Document

\* What the operator does keeps the types.
LEMMA TypeOperator ==
    ASSUME TypeOK, Operator PROVE TypeOK'
<1> USE NullAssumption
<1>1. CASE \E v \in Vals, unlock \in BOOLEAN : Edit(v, unlock)
  <2> PICK v \in Vals, unlock \in BOOLEAN : Edit(v, unlock)
    BY <1>1
  <2> DEFINE doc == [store EXCEPT !.val = v, !.sched = @ /\ ~unlock,
                                  !.stale = @ \/ store.val # None]
  <2>1. doc \in Document
    BY DEF TypeOK, Document
  <2>2. store' = doc /\ Subscribed(doc) /\ env' \in Scenario /\ clearNext' \in BOOLEAN
    BY BudgetType DEF Edit, TypeOK
  <2> HIDE DEF doc
  <2>3. QED
    BY <2>1, <2>2, SubscribedType DEF TypeOK, Edit
<1>2. CASE SaveNow
  BY <1>2, FlushType DEF SaveNow, TypeOK, sessionVars
<1>3. CASE Unlock
  <2>1. store' \in Document
    BY <1>3 DEF Unlock, TypeOK, Document
  <2>2. put' \in Save /\ put'.at = "sent" /\ put # None
    <3>1. put \in Save /\ etag[put.ws] \in Nat \cup {None}
      BY <1>3 DEF Unlock, TypeOK, Save
    <3>2. put' = [put EXCEPT !.at = "sent", !.clear = TRUE, !.tag = etag[put.ws]]
      BY <1>3 DEF Unlock
    <3>3. QED
      BY <3>1, <3>2, SaveFields
  <2>3. /\ status' \in {"idle", "dirty", "saving", "error"}
        /\ timer' \in BOOLEAN /\ followup' \in BOOLEAN
        /\ timer' => put = None
        /\ followup' => put # None
    BY <1>3, SubscribedType DEF Unlock, TypeOK
  <2>4. QED
    BY <1>3, <2>1, <2>2, <2>3 DEF Unlock, TypeOK
<1>4. CASE Decline
  <2>1. put \in Save /\ put' = [put EXCEPT !.at = "decline"]
    BY <1>4 DEF Decline, TypeOK
  <2>2. put' \in Save /\ put'.at = "decline"
    BY <2>1, SaveFields
  <2>3. QED
    BY <1>4, <2>1, <2>2 DEF Decline, TypeOK, sessionVars
<1>5. CASE Leave
  <2>1. /\ timer' \in BOOLEAN /\ followup' \in BOOLEAN
        /\ timer' => put' = None
        /\ followup' => put' # None
    BY <1>5 DEF Leave, TypeOK
  <2>2. QED
    BY <1>5, <2>1 DEF Leave, TypeOK
<1>6. CASE \E w \in Workspaces : Open(w)
  <2> PICK w \in Workspaces : Open(w)
    BY <1>6
  <2>1. env.opens \in Nat /\ env' \in Scenario
    BY BudgetType DEF Open, TypeOK, Scenario
  <2>2. [id |-> env.opens, ws |-> w, res |-> None] \in Load
    BY <2>1 DEF Load
  <2>3. page' \in [id: Nat, done: BOOLEAN]
    BY <2>1 DEF Open
  <2>4. QED
    BY <2>1, <2>2, <2>3 DEF Open, TypeOK, flushVars
<1>7. QED
  BY <1>1, <1>2, <1>3, <1>4, <1>5, <1>6 DEF Operator

\* So does what the event loop and the server do.
LEMMA TypeWork ==
    ASSUME TypeOK, Work PROVE TypeOK'
<1> USE NullAssumption
<1>1. CASE FireTimer
  BY <1>1, FlushType DEF FireTimer, TypeOK, sessionVars
<1>2. CASE ServePut
  <2>1. put \in Save
    BY <1>2 DEF ServePut, TypeOK
  <2> DEFINE r == [kind |-> Answer(put), ver |-> server[put.ws].ver + 1]
  <2>2. r \in Reply
    <3>1. server[put.ws].ver \in Nat
      BY <2>1 DEF TypeOK, Save, Tournament
    <3>2. QED
      BY <3>1, AnswerType DEF Reply
  <2>3. put' = [put EXCEPT !.at = "answered", !.res = r]
    BY <1>2 DEF ServePut
  <2> HIDE DEF r
  <2>4. put' \in Save /\ put'.res # None
    <3>1. put' \in Save /\ put'.res = r
      BY <2>1, <2>2, <2>3 DEF Save
    <3>2. QED
      BY <2>2, <3>1
  <2>5. Handle(put)
    BY <1>2 DEF ServePut
  <2>6. QED
    BY <1>2, <2>1, <2>4, <2>5, HandleType DEF ServePut, TypeOK, sessionVars
<1>3. CASE PutOk
  <2>1. put \in Save /\ put.res \in Reply
    BY <1>3 DEF PutOk, Answered, TypeOK, Save
  <2>2. put.ws \in Workspaces /\ put.doc \in Document /\ put.res.ver \in Nat
    BY <2>1 DEF Save, Reply
  <2>3. Revision(put.ws, put.res.ver) \in Revisions
    BY <2>2 DEF Revision, Revisions
  <2>4. /\ etag' \in [Workspaces -> Nat \cup {None}]
        /\ ack' \in [Workspaces -> Document \cup {None}]
        /\ base' \in Revisions \cup {None}
    BY <1>3, <2>2, <2>3 DEF PutOk, TypeOK
  <2>5. QED
    BY <1>3, <2>4 DEF PutOk, Finally, TypeOK
<1>4. CASE PutRejected
  <2>1. put \in Save /\ put' = [put EXCEPT !.at = "resync"]
    BY <1>4 DEF PutRejected, Answered, TypeOK
  <2>2. put' \in Save /\ put'.at = "resync"
    BY <2>1, SaveFields
  <2>3. etag' \in [Workspaces -> Nat \cup {None}]
    BY <1>4 DEF PutRejected, DroppedTag, TypeOK
  <2>4. QED
    BY <1>4, <2>1, <2>2, <2>3 DEF PutRejected, TypeOK
<1>5. CASE PutRequired
  BY <1>5 DEF PutRequired, Finally, TypeOK, sessionVars
<1>6. CASE AskUnlock
  <2>1. put \in Save /\ put' = [put EXCEPT !.at = "modal"]
    BY <1>6 DEF AskUnlock, Answered, TypeOK
  <2>2. put' \in Save /\ put'.at = "modal"
    BY <2>1, SaveFields
  <2>3. QED
    BY <1>6, <2>1, <2>2 DEF AskUnlock, TypeOK, sessionVars
<1>7. CASE Resync
  <2>1. put \in Save
    BY <1>7 DEF Resync, TypeOK
  <2>2. put.ws \in Workspaces /\ server[put.ws].doc \in Document /\ server[put.ws].ver \in Nat
    BY <2>1 DEF TypeOK, Save, Tournament
  <2>3. Revision(put.ws, server[put.ws].ver) \in Revisions
    BY <2>2 DEF Revision, Revisions
  <2>4. etag' \in [Workspaces -> Nat \cup {None}]
    BY <1>7, <2>2 DEF Resync, TypeOK
  <2>5. QED
    BY <1>7, <2>2, <2>3, <2>4 DEF Resync, Finally, TypeOK
<1>8. CASE \E g \in gets : ServeGet(g) \/ Hydrate(g)
  <2> PICK g \in gets : ServeGet(g) \/ Hydrate(g)
    BY <1>8
  <2>0. g \in Load
    BY DEF TypeOK
  <2>1. CASE ServeGet(g)
    <3>1. server[g.ws] \in Tournament
      BY <2>0 DEF TypeOK, Load
    <3>2. [g EXCEPT !.res = server[g.ws]] \in Load
      BY <2>0, <3>1 DEF Load
    <3>3. QED
      BY <2>1, <3>2 DEF ServeGet, TypeOK, flushVars
  <2>2. CASE Hydrate(g)
    <3>1. g.ws \in Workspaces /\ g.res \in Tournament
      BY <2>0, <2>2 DEF Load, Hydrate
    <3>2. g.res.doc \in Document /\ g.res.ver \in Nat
      BY <3>1 DEF Tournament
    <3>3. Revision(g.ws, g.res.ver) \in Revisions
      BY <3>1, <3>2 DEF Revision, Revisions
    <3>4. /\ etag' \in [Workspaces -> Nat \cup {None}]
          /\ ack' \in [Workspaces -> Document \cup {None}]
          /\ page' \in [id: Nat, done: BOOLEAN]
      BY <2>2, <3>1, <3>2 DEF Hydrate, TypeOK
    <3>5. store' \in Document /\ base' \in Revisions \cup {None}
      BY <2>2, <3>2, <3>3 DEF Hydrate, TypeOK
    <3>6. gets' \subseteq Load
      BY <2>2 DEF Hydrate, TypeOK
    <3>7. resynced' \in BOOLEAN /\ declined' \in BOOLEAN
      BY <2>2 DEF Hydrate, TypeOK, history
    <3>8. /\ UNCHANGED <<server, active, late, last, env>>
          /\ UNCHANGED <<timer, put, followup, clearNext, status>>
      BY <2>2 DEF Hydrate, flushVars
    <3>9. QED
      BY <3>4, <3>5, <3>6, <3>7, <3>8 DEF TypeOK
  <2>3. QED
    BY <2>1, <2>2
<1>9. QED
  BY <1>1, <1>2, <1>3, <1>4, <1>5, <1>6, <1>7, <1>8 DEF Work

\* And so does everything that goes wrong, or comes from another session.
LEMMA TypeFaults ==
    ASSUME TypeOK,
           Faults \/ (\E w \in Workspaces, v \in Vals : OtherSaves(w, v))
    PROVE  TypeOK'
<1> USE NullAssumption
<1>1. CASE \E reached \in BOOLEAN : PutFailed(reached)
  <2> PICK reached \in BOOLEAN : PutFailed(reached)
    BY <1>1
  <2>1. env' \in Scenario /\ put \in Save
    BY BudgetType DEF PutFailed, TypeOK
  <2>2. QED
    BY <2>1 DEF PutFailed, Finally, TypeOK, sessionVars
<1>2. CASE ResyncFailed
  <2>1. env' \in Scenario
    BY <1>2, BudgetType DEF ResyncFailed, TypeOK
  <2>2. QED
    BY <1>2, <2>1 DEF ResyncFailed, Finally, TypeOK, sessionVars
<1>3. CASE \E g \in gets : HydrateFailed(g)
  <2> PICK g \in gets : HydrateFailed(g)
    BY <1>3
  <2>1. env' \in Scenario
    BY BudgetType DEF HydrateFailed, TypeOK
  <2>2. page' \in [id: Nat, done: BOOLEAN]
    BY DEF HydrateFailed, TypeOK
  <2>3. QED
    BY <2>1, <2>2 DEF HydrateFailed, TypeOK, flushVars
<1>4. CASE \E p \in late : ServeLate(p)
  <2> PICK p \in late : ServeLate(p)
    BY <1>4
  <2>1. p \in Save /\ Handle(p)
    BY DEF ServeLate, TypeOK
  <2>2. QED
    BY <2>1, HandleType DEF ServeLate, TypeOK, sessionVars, flushVars
<1>5. CASE \E w \in Workspaces, v \in Vals : OtherSaves(w, v)
  <2> PICK w \in Workspaces, v \in Vals : OtherSaves(w, v)
    BY <1>5
  <2>1. env' \in Scenario
    BY BudgetType DEF OtherSaves, TypeOK
  <2>2. server[w] \in Tournament
    BY DEF TypeOK
  <2> DEFINE doc == [server[w].doc EXCEPT !.val = v, !.stale = TRUE]
             row == [doc |-> doc, ver |-> server[w].ver + 1, bracket |-> server[w].bracket]
  <2>3. row \in Tournament
    <3>1. doc \in Document
      BY <2>2 DEF Tournament, Document
    <3>2. QED
      BY <2>2, <3>1 DEF Tournament
  <2>4. server' = [server EXCEPT ![w] = row]
    <3>1. server' = [server EXCEPT ![w].doc.val = v, ![w].doc.stale = TRUE, ![w].ver = @ + 1]
      BY DEF OtherSaves
    <3>2. server \in [Workspaces -> Tournament] /\ server[w].doc \in Document
      BY <2>2 DEF TypeOK, Tournament
    <3>3. QED
      BY <2>2, <3>1, <3>2 DEF Tournament, Document
  <2> HIDE DEF row
  <2>5. server' \in [Workspaces -> Tournament]
    BY <2>3, <2>4 DEF TypeOK
  <2>6. UNCHANGED <<sessionVars, flushVars, late, history, last>>
    BY DEF OtherSaves
  <2>7. QED
    BY <2>1, <2>5, <2>6 DEF TypeOK, sessionVars, flushVars
<1>6. QED
  BY <1>1, <1>2, <1>3, <1>4, <1>5 DEF Faults

\* Documents, tokens, saves and loads keep their types for any number of
\* workspaces and values, the debounce never runs while a save is in flight, only
\* a save in flight is asked for a follow-up, and an answered save has its answer.
THEOREM TypeCorrect == Spec => []TypeOK
<1>1. TypeOK /\ [Next]_vars => TypeOK'
  <2> SUFFICES ASSUME TypeOK, [Next]_vars PROVE TypeOK'
    OBVIOUS
  <2>1. CASE Operator
    BY <2>1, TypeOperator
  <2>2. CASE Work
    BY <2>2, TypeWork
  <2>3. CASE Faults \/ (\E w \in Workspaces, v \in Vals : OtherSaves(w, v))
    BY <2>3, TypeFaults
  <2>4. CASE UNCHANGED vars
    BY <2>4 DEF vars, sessionVars, flushVars, TypeOK
  <2>5. QED
    BY <2>1, <2>2, <2>3, <2>4 DEF Next
<1>2. QED
  BY TypeInit, <1>1, PTL DEF Spec

-------------------------------------------------------------------------------
\* The server accepts only the token of the revision it holds, so a save that is
\* sound overwrites the revision it was edited from.
LEMMA HandleSafe ==
    ASSUME TypeOK, NEW p \in Save, Sound(p), NoLostUpdate, Handle(p)
    PROVE  NoLostUpdate'
<1>1. CASE Answer(p) = "ok"
  <2>1. p.tag # None /\ p.tag = server[p.ws].ver
    BY <1>1 DEF Answer
  <2>2. last' = [ws |-> p.ws, over |-> server[p.ws].ver, base |-> p.base]
    BY <1>1 DEF Handle, Accept
  <2>3. QED
    BY <2>1, <2>2 DEF NoLostUpdate, Sound, Revision
<1>2. CASE Answer(p) # "ok"
  BY <1>2 DEF Handle, NoLostUpdate
<1>3. QED
  BY <1>1, <1>2

\* Once anything has happened on the client, the visit is spent.
LEMMA Spent ==
    ASSUME OneVisit,
           active # None \/ timer \/ put # None \/ gets # {} \/ late # {}
    PROVE  env.opens = 0
BY DEF OneVisit, Fresh

\* forceSaveNow sends the token of the revision on screen.
LEMMA FlushVisit ==
    ASSUME OneVisit, TypeOK', forceSaveNow, UNCHANGED <<sessionVars, late, last, env>>,
           timer \/ (active # None /\ status \in {"error", "dirty"})
    PROVE  OneVisit'
<1>1. env.opens = 0 /\ env'.opens = 0
  BY Spent
<1>2. Fresh' /\ Tagged' /\ NoLostUpdate' /\ (\A p \in late' : Sound(p))
  BY <1>1 DEF OneVisit, Fresh, Tagged, NoLostUpdate, sessionVars
<1>3. active # None => gets = {}
  BY DEF OneVisit, Loading
<1>4. Loading'
  BY <1>3 DEF Loading, sessionVars
<1>5. InFlight'
  <2>1. CASE put # None \/ active = None
    BY <2>1 DEF forceSaveNow, Flush, OneVisit, InFlight, sessionVars, Sound
  <2>2. CASE put = None /\ active # None
    <3>1. /\ put'.ws = active /\ put'.base = base /\ put'.tag = etag[active]
      BY <2>2 DEF forceSaveNow, Flush
    <3>2. etag[active] # None => base = Revision(active, etag[active])
      BY <2>2 DEF OneVisit, Tagged, TypeOK
    <3>3. QED
      BY <3>1, <3>2 DEF InFlight, Sound, sessionVars
  <2>3. QED
    BY <2>1, <2>2
<1>6. QED
  BY <1>1, <1>2, <1>4, <1>5 DEF OneVisit

\* What is established when the workspace is entered survives what the operator
\* does.
LEMMA VisitOperator ==
    ASSUME OneVisit, TypeOK', Operator PROVE OneVisit'
<1>1. CASE \E v \in Vals, unlock \in BOOLEAN : Edit(v, unlock)
  <2> PICK v \in Vals, unlock \in BOOLEAN : Edit(v, unlock)
    BY <1>1
  <2>1. env.opens = 0 /\ env'.opens = 0
    BY Spent DEF Edit, OneVisit, TypeOK, Scenario
  <2>2. Loading'
    BY DEF Edit, Subscribed, OneVisit, Loading
  <2>3. QED
    BY <2>1, <2>2 DEF Edit, OneVisit, Fresh, Tagged, InFlight, NoLostUpdate, Sound
<1>2. CASE SaveNow
  BY <1>2, FlushVisit DEF SaveNow
<1>3. CASE Unlock
  <2>1. env.opens = 0 /\ env' = env
    BY <1>3, Spent DEF Unlock
  <2>2. put \in Save /\ put.ws = active /\ put.base = base
    BY <1>3 DEF Unlock, OneVisit, InFlight, TypeOK
  <2>3. put'.ws = put.ws /\ put'.base = put.base /\ put'.tag = etag[put.ws]
    BY <1>3, <2>2 DEF Unlock, Save
  <2>4. etag[active] # None => base = Revision(active, etag[active])
    BY <1>3 DEF Unlock, OneVisit, Tagged, TypeOK
  <2>5. InFlight'
    BY <1>3, <2>2, <2>3, <2>4 DEF Unlock, InFlight, Sound
  <2>6. gets = {}
    BY <1>3 DEF Unlock, OneVisit, Loading
  <2>7. QED
    BY <1>3, <2>1, <2>5, <2>6 DEF Unlock, OneVisit, Fresh, Tagged, Loading, NoLostUpdate
<1>4. CASE Decline
  <2>1. env.opens = 0 /\ env' = env
    BY <1>4, Spent DEF Decline
  <2>2. put \in Save
    BY <1>4 DEF Decline, OneVisit, TypeOK
  <2>3. put'.ws = put.ws /\ put'.base = put.base /\ put'.tag = put.tag
    BY <1>4, <2>2 DEF Decline, Save
  <2>4. gets = {}
    BY <1>4 DEF Decline, OneVisit, Loading
  <2>5. QED
    BY <1>4, <2>1, <2>3, <2>4
       DEF Decline, OneVisit, Fresh, Tagged, Loading, InFlight, Sound, NoLostUpdate, sessionVars
<1>5. CASE Leave
  <2>1. env.opens = 0 /\ env' = env
    BY <1>5, Spent DEF Leave
  <2>2. QED
    BY <1>5, <2>1 DEF Leave, OneVisit, Fresh, Tagged, Loading, InFlight, Sound, NoLostUpdate
<1>6. CASE \E w \in Workspaces : Open(w)
  <2> PICK w \in Workspaces : Open(w)
    BY <1>6
  <2>1. env.opens = 1 /\ env'.opens = 0
    BY DEF Open, OneVisit, TypeOK, Scenario
  <2>2. /\ gets = {} /\ put = None /\ late = {} /\ ~timer
        /\ status \notin {"error", "dirty"}
        /\ \A u \in Workspaces : etag[u] = None
    BY <2>1 DEF OneVisit, Fresh
  <2>3. gets' = {[id |-> page'.id, ws |-> active', res |-> None]} /\ ~page'.done
    BY <2>2 DEF Open
  <2>4. Loading'
    BY <2>2, <2>3 DEF Open, Loading, flushVars
  <2>5. QED
    BY <2>1, <2>2, <2>4 DEF Open, OneVisit, Fresh, Tagged, InFlight, NoLostUpdate, flushVars
<1>7. QED
  BY <1>1, <1>2, <1>3, <1>4, <1>5, <1>6 DEF Operator

\* A save that ends leaves no save behind, and no load was under way.
LEMMA FinallyVisit ==
    ASSUME OneVisit, TypeOK', put # None, Finally, Tagged', UNCHANGED active, gets' = gets,
           env'.opens = env.opens, last' = last, \A p \in late' : Sound(p)
    PROVE  OneVisit'
<1>1. env.opens = 0
  BY Spent
<1>2. active # None => gets = {}
  BY DEF OneVisit, Loading
<1>3. QED
  BY <1>1, <1>2 DEF Finally, OneVisit, Fresh, Loading, InFlight, NoLostUpdate

\* It survives the answers of the server and of the event loop.
LEMMA VisitWork ==
    ASSUME OneVisit, TypeOK', Work PROVE OneVisit'
<1>1. CASE FireTimer
  BY <1>1, FlushVisit DEF FireTimer
<1>2. CASE ServePut
  <2>1. env.opens = 0 /\ env' = env
    BY <1>2, Spent DEF ServePut
  <2>2. put \in Save /\ Sound(put) /\ Handle(put)
    BY <1>2 DEF ServePut, OneVisit, InFlight, TypeOK
  <2>3. put'.ws = put.ws /\ put'.base = put.base /\ put'.tag = put.tag
    BY <1>2, <2>2 DEF ServePut, Save
  <2>4. NoLostUpdate'
    BY <2>2, HandleSafe DEF OneVisit
  <2>5. active # None => gets = {}
    BY <1>2 DEF ServePut, OneVisit, Loading
  <2>6. QED
    BY <1>2, <2>1, <2>3, <2>4, <2>5
       DEF ServePut, OneVisit, Fresh, Tagged, Loading, InFlight, Sound, sessionVars
<1>3. CASE PutOk
  <2>1. put # None /\ put.ws \in Workspaces
    BY <1>3 DEF PutOk, Answered, OneVisit, TypeOK, Save
  <2>2. Tagged'
    <3> SUFFICES ASSUME active # None, NEW w \in Workspaces, etag'[w] # None
                 PROVE  w = active /\ base' = Revision(w, etag'[w])
      BY <1>3 DEF PutOk, Tagged
    <3>1. put.ws = active /\ put.base = base
      BY <2>1 DEF OneVisit, InFlight
    <3>2. base' = Revision(put.ws, put.res.ver)
      BY <1>3, <3>1 DEF PutOk
    <3>3. etag' = [etag EXCEPT ![put.ws] = put.res.ver]
      BY <1>3 DEF PutOk
    <3>4. CASE w = active
      BY <2>1, <3>1, <3>2, <3>3, <3>4 DEF OneVisit, TypeOK
    <3>5. CASE w # active
      BY <3>1, <3>3, <3>5 DEF OneVisit, TypeOK, Tagged
    <3>6. QED
      BY <3>4, <3>5
  <2>3. QED
    BY <1>3, <2>1, <2>2, FinallyVisit DEF PutOk, OneVisit
<1>4. CASE PutRejected
  <2>1. put # None /\ env.opens = 0 /\ env' = env
    BY <1>4, Spent DEF PutRejected, Answered
  <2>2. put \in Save
    BY <2>1 DEF OneVisit, TypeOK
  <2>3. put'.ws = put.ws /\ put'.base = put.base /\ put'.tag = put.tag
    BY <1>4, <2>2 DEF PutRejected, Save
  <2>4. \A w \in Workspaces : etag'[w] # None => etag'[w] = etag[w]
    BY <1>4 DEF PutRejected, DroppedTag, OneVisit, TypeOK
  <2>5. Tagged'
    BY <1>4, <2>4 DEF PutRejected, OneVisit, Tagged
  <2>6. active # None => gets = {}
    BY <2>1 DEF OneVisit, Loading
  <2>7. QED
    BY <1>4, <2>1, <2>3, <2>5, <2>6
       DEF PutRejected, OneVisit, Fresh, Loading, InFlight, Sound, NoLostUpdate
<1>5. CASE PutRequired
  <2>1. put # None
    BY <1>5 DEF PutRequired, Answered
  <2>2. Tagged'
    BY <1>5 DEF PutRequired, sessionVars, OneVisit, Tagged
  <2>3. QED
    BY <1>5, <2>1, <2>2, FinallyVisit DEF PutRequired, sessionVars, OneVisit
<1>6. CASE AskUnlock
  <2>1. put # None /\ env.opens = 0 /\ env' = env
    BY <1>6, Spent DEF AskUnlock, Answered
  <2>2. put \in Save
    BY <2>1 DEF OneVisit, TypeOK
  <2>3. put'.ws = put.ws /\ put'.base = put.base /\ put'.tag = put.tag
    BY <1>6, <2>2 DEF AskUnlock, Save
  <2>4. active # None => gets = {}
    BY <2>1 DEF OneVisit, Loading
  <2>5. QED
    BY <1>6, <2>1, <2>3, <2>4
       DEF AskUnlock, OneVisit, Fresh, Tagged, Loading, InFlight, Sound, NoLostUpdate, sessionVars
<1>7. CASE Resync
  <2>1. put # None /\ put.ws \in Workspaces
    BY <1>7 DEF Resync, OneVisit, TypeOK, Save
  <2>2. Tagged'
    <3> SUFFICES ASSUME active # None, NEW w \in Workspaces, etag'[w] # None
                 PROVE  w = active /\ base' = Revision(w, etag'[w])
      BY <1>7 DEF Resync, Tagged
    <3>1. put.ws = active
      BY <2>1 DEF OneVisit, InFlight
    <3>2. /\ base' = Revision(put.ws, server[put.ws].ver)
          /\ etag' = [etag EXCEPT ![put.ws] = server[put.ws].ver]
      BY <1>7 DEF Resync
    <3>3. CASE w = active
      BY <2>1, <3>1, <3>2, <3>3 DEF OneVisit, TypeOK
    <3>4. CASE w # active
      BY <3>1, <3>2, <3>4 DEF OneVisit, TypeOK, Tagged
    <3>5. QED
      BY <3>3, <3>4
  <2>3. QED
    BY <1>7, <2>1, <2>2, FinallyVisit DEF Resync, OneVisit
<1>8. CASE \E g \in gets : ServeGet(g)
  <2> PICK g \in gets : ServeGet(g)
    BY <1>8
  <2>1. env.opens = 0 /\ env' = env
    BY Spent DEF ServeGet
  <2>2. Loading'
    <3> DEFINE h == [g EXCEPT !.res = server[g.ws]]
    <3> SUFFICES ASSUME active # None PROVE Loading'
      BY DEF ServeGet, Loading
    <3>1. gets = {g} /\ g.ws = active /\ g.id = page.id
      BY DEF OneVisit, Loading
    <3>2. h.ws = g.ws /\ h.id = g.id
      BY DEF OneVisit, TypeOK, Load
    <3>3. gets' = {h}
      BY <3>1 DEF ServeGet
    <3> HIDE DEF h
    <3>4. QED
      BY <3>1, <3>2, <3>3 DEF ServeGet, OneVisit, Loading, flushVars
  <2>3. QED
    BY <2>1, <2>2
       DEF ServeGet, OneVisit, Fresh, Tagged, InFlight, Sound, NoLostUpdate, flushVars
<1>9. CASE \E g \in gets : Hydrate(g)
  <2> PICK g \in gets : Hydrate(g)
    BY <1>9
  <2>1. env.opens = 0 /\ env' = env
    BY Spent DEF Hydrate
  <2>2. CASE active = None
    BY <2>1, <2>2
       DEF Hydrate, OneVisit, Fresh, Tagged, Loading, InFlight, Sound, NoLostUpdate, flushVars
  <2>3. CASE active # None
    <3>1. g.ws = active /\ g.id = page.id /\ gets = {g} /\ put = None
      BY <2>3 DEF OneVisit, Loading
    <3>2. /\ base' = Revision(active, g.res.ver)
          /\ etag' = [etag EXCEPT ![active] = g.res.ver]
          /\ gets' = {}
      BY <2>3, <3>1 DEF Hydrate
    <3>3. Tagged'
      <4> SUFFICES ASSUME NEW w \in Workspaces, etag'[w] # None
                   PROVE  w = active /\ base' = Revision(w, etag'[w])
        BY DEF Hydrate, Tagged
      <4>1. active \in Workspaces
        BY <2>3 DEF OneVisit, TypeOK
      <4>2. CASE w = active
        BY <3>2, <4>1, <4>2 DEF OneVisit, TypeOK
      <4>3. CASE w # active
        BY <2>3, <3>2, <4>3 DEF OneVisit, TypeOK, Tagged
      <4>4. QED
        BY <4>2, <4>3
    <3>4. QED
      BY <2>1, <3>1, <3>2, <3>3
         DEF Hydrate, OneVisit, Fresh, Loading, InFlight, NoLostUpdate, flushVars
  <2>4. QED
    BY <2>2, <2>3
<1>10. QED
  BY <1>1, <1>2, <1>3, <1>4, <1>5, <1>6, <1>7, <1>8, <1>9 DEF Work

\* It survives lost requests and answers, saves that arrive after the client gave
\* them up, and the saves of other sessions.
LEMMA VisitFaults ==
    ASSUME OneVisit, TypeOK', Faults \/ (\E w \in Workspaces, v \in Vals : OtherSaves(w, v))
    PROVE  OneVisit'
<1> env \in Scenario
  BY DEF OneVisit, TypeOK
<1>1. CASE \E reached \in BOOLEAN : PutFailed(reached)
  <2> PICK reached \in BOOLEAN : PutFailed(reached)
    BY <1>1
  <2>1. put # None /\ env'.opens = env.opens
    BY DEF PutFailed, Scenario
  <2>2. Tagged' /\ (\A p \in late' : Sound(p))
    BY <2>1 DEF PutFailed, OneVisit, Tagged, InFlight, sessionVars
  <2>3. QED
    BY <2>1, <2>2, FinallyVisit DEF PutFailed, sessionVars
<1>2. CASE ResyncFailed
  <2>1. put # None /\ env'.opens = env.opens
    BY <1>2 DEF ResyncFailed, Scenario
  <2>2. Tagged' /\ (\A p \in late' : Sound(p))
    BY <1>2 DEF ResyncFailed, OneVisit, Tagged, sessionVars
  <2>3. QED
    BY <1>2, <2>1, <2>2, FinallyVisit DEF ResyncFailed, sessionVars
<1>3. CASE \E g \in gets : HydrateFailed(g)
  <2> PICK g \in gets : HydrateFailed(g)
    BY <1>3
  <2>1. env.opens = 0 /\ env'.opens = 0
    BY Spent DEF HydrateFailed, Scenario
  <2>2. active # None => gets' = {}
    BY DEF HydrateFailed, OneVisit, Loading
  <2>3. QED
    BY <2>1, <2>2
       DEF HydrateFailed, OneVisit, Fresh, Tagged, Loading, InFlight, Sound, NoLostUpdate, flushVars
<1>4. CASE \E p \in late : ServeLate(p)
  <2> PICK p \in late : ServeLate(p)
    BY <1>4
  <2>1. env.opens = 0 /\ env' = env
    BY Spent DEF ServeLate
  <2>2. NoLostUpdate'
    BY HandleSafe DEF ServeLate, OneVisit, TypeOK
  <2>3. QED
    BY <2>1, <2>2
       DEF ServeLate, OneVisit, Fresh, Tagged, Loading, InFlight, Sound, sessionVars, flushVars
<1>5. CASE \E w \in Workspaces, v \in Vals : OtherSaves(w, v)
  <2> PICK w \in Workspaces, v \in Vals : OtherSaves(w, v)
    BY <1>5
  <2>1. env'.opens = env.opens
    BY DEF OtherSaves, Scenario
  <2>2. QED
    BY <2>1
       DEF OtherSaves, OneVisit, Fresh, Tagged, Loading, InFlight, Sound, NoLostUpdate,
           sessionVars, flushVars
<1>6. QED
  BY <1>1, <1>2, <1>3, <1>4, <1>5 DEF Faults

\* In a session that opens one workspace once, whatever is edited, lost, delayed,
\* refused, re-synced or saved by others meanwhile, a save the server accepts was
\* edited from the revision it replaces: nothing another session saved is reverted.
THEOREM NoLostUpdateInOneVisit ==
    ASSUME \A s \in Scenarios : s.opens <= 1
    PROVE  Spec => []NoLostUpdate
<1>1. Init => OneVisit
  <2> SUFFICES ASSUME Init PROVE OneVisit
    OBVIOUS
  <2>1. TypeOK
    BY TypeInit
  <2>2. QED
    BY <2>1 DEF Init, OneVisit, Fresh, Tagged, Loading, InFlight, NoLostUpdate
<1>2. OneVisit /\ [Next]_vars => OneVisit'
  <2> SUFFICES ASSUME OneVisit, [Next]_vars PROVE OneVisit'
    OBVIOUS
  <2>0. TypeOK
    BY DEF OneVisit
  <2>1. CASE Operator
    BY <2>0, <2>1, TypeOperator, VisitOperator
  <2>2. CASE Work
    BY <2>0, <2>2, TypeWork, VisitWork
  <2>3. CASE Faults \/ (\E w \in Workspaces, v \in Vals : OtherSaves(w, v))
    BY <2>0, <2>3, TypeFaults, VisitFaults
  <2>4. CASE UNCHANGED vars
    BY <2>4 DEF vars, sessionVars, flushVars, OneVisit, TypeOK, Fresh, Tagged, Loading, InFlight,
                Sound, NoLostUpdate
  <2>5. QED
    BY <2>1, <2>2, <2>3, <2>4 DEF Next
<1>3. OneVisit => NoLostUpdate
  BY DEF OneVisit
<1>4. QED
  BY <1>1, <1>2, <1>3, PTL DEF Spec

-------------------------------------------------------------------------------
\* The client knows no version that the server has not had, and a version that
\* the server still has comes with its document.
Versions ==
    /\ \A w \in Workspaces : etag[w] # None => etag[w] <= server[w].ver
    /\ \A g \in gets : g.res # None =>
          /\ g.res.ver <= server[g.ws].ver
          /\ g.res.ver = server[g.ws].ver => g.res.doc = server[g.ws].doc
    /\ Answered({"ok"}) => put.res.ver <= server[put.ws].ver

\* What a step does to a row of the server: nothing, or a new version.
LEMMA RowSteps ==
    ASSUME TypeOK, [Next]_vars, NEW w \in Workspaces
    PROVE  server'[w] = server[w] \/ server'[w].ver = server[w].ver + 1
<1>0. server \in [Workspaces -> Tournament]
  BY DEF TypeOK
<1>1. ASSUME NEW p, Handle(p)
      PROVE  server'[w] = server[w] \/ server'[w].ver = server[w].ver + 1
  BY <1>0, <1>1 DEF Handle, Accept, Stored
<1>2. ASSUME NEW u \in Workspaces, NEW v \in Vals, OtherSaves(u, v)
      PROVE  server'[w] = server[w] \/ server'[w].ver = server[w].ver + 1
  BY <1>0, <1>2 DEF OtherSaves, Tournament
<1>3. ASSUME Operator PROVE UNCHANGED server
  BY <1>3 DEF Operator, Edit, SaveNow, Unlock, Decline, Leave, Open
<1>4. ASSUME Work PROVE UNCHANGED server \/ Handle(put)
  BY <1>4 DEF Work, FireTimer, ServePut, PutOk, PutRejected, PutRequired, AskUnlock,
              Resync, ServeGet, Hydrate
<1>5. ASSUME Faults PROVE UNCHANGED server \/ \E p \in late : Handle(p)
  BY <1>5 DEF Faults, PutFailed, ResyncFailed, HydrateFailed, ServeLate
<1>6. QED
  BY <1>1, <1>2, <1>3, <1>4, <1>5 DEF Next, vars

\* So versions only grow, and a version names one row.
LEMMA RowsGrow ==
    ASSUME TypeOK, [Next]_vars, NEW w \in Workspaces
    PROVE  /\ server[w].ver \in Nat /\ server'[w].ver \in Nat
           /\ server[w].ver <= server'[w].ver
           /\ server'[w].ver <= server[w].ver => server'[w] = server[w]
<1>1. server[w].ver \in Nat
  BY DEF TypeOK, Tournament
<1>2. QED
  BY <1>1, RowSteps

\* The tokens after a step.
LEMMA TagSteps ==
    ASSUME TypeOK, Versions, [Next]_vars, NEW w \in Workspaces, etag'[w] # None
    PROVE  etag'[w] <= server[w].ver
<1>0. etag \in [Workspaces -> Nat \cup {None}] /\ server[w].ver \in Nat
  BY DEF TypeOK, Tournament
<1>1. CASE etag'[w] = etag[w]
  BY <1>1 DEF Versions
<1>2. CASE PutOk
  <2>1. /\ etag' = [etag EXCEPT ![put.ws] = put.res.ver]
        /\ put.res.ver <= server[put.ws].ver
    BY <1>2 DEF PutOk, Versions
  <2>2. QED
    BY <1>0, <1>1, <2>1
<1>3. CASE PutRejected
  BY <1>0, <1>1, <1>3 DEF PutRejected, DroppedTag
<1>4. CASE Resync
  BY <1>0, <1>1, <1>4 DEF Resync
<1>5. ASSUME NEW g \in gets, Hydrate(g) PROVE etag'[w] <= server[w].ver
  <2>1. /\ etag' = [etag EXCEPT ![g.ws] = g.res.ver]
        /\ g.res.ver <= server[g.ws].ver
    BY <1>5 DEF Hydrate, Versions
  <2>2. QED
    BY <1>0, <1>1, <2>1
<1>6. ASSUME Operator PROVE UNCHANGED etag
  BY <1>6 DEF Operator, Edit, SaveNow, Unlock, Decline, Leave, Open, sessionVars
<1>7. ASSUME Work
      PROVE  \/ UNCHANGED etag \/ PutOk \/ PutRejected \/ Resync
             \/ \E g \in gets : Hydrate(g)
  BY <1>7 DEF Work, FireTimer, ServePut, PutRequired, AskUnlock, ServeGet, sessionVars
<1>8. ASSUME Faults PROVE UNCHANGED etag
  BY <1>8 DEF Faults, PutFailed, ResyncFailed, HydrateFailed, ServeLate, sessionVars
<1>9. ASSUME NEW u \in Workspaces, NEW v \in Vals, OtherSaves(u, v) PROVE UNCHANGED etag
  BY <1>9 DEF OtherSaves, sessionVars
<1>10. QED
  BY <1>1, <1>2, <1>3, <1>4, <1>5, <1>6, <1>7, <1>8, <1>9 DEF Next, vars, sessionVars

\* The loads after a step: old ones, one that is sent and one that is answered.
LEMMA LoadSteps ==
    ASSUME TypeOK, [Next]_vars, NEW g \in gets'
    PROVE  \/ g \in gets
           \/ g.res = None
           \/ g.res = server[g.ws] /\ g.ws \in Workspaces /\ UNCHANGED server
<1>1. ASSUME NEW h \in gets, ServeGet(h)
      PROVE  \/ g \in gets
             \/ g.res = server[g.ws] /\ g.ws \in Workspaces /\ UNCHANGED server
  <2>1. h \in Load
    BY DEF TypeOK
  <2> DEFINE k == [h EXCEPT !.res = server[h.ws]]
  <2>2. k.res = server[k.ws] /\ k.ws \in Workspaces
    BY <2>1 DEF Load
  <2>3. gets' = (gets \ {h}) \cup {k} /\ UNCHANGED server
    BY <1>1 DEF ServeGet
  <2> HIDE DEF k
  <2>4. QED
    BY <2>2, <2>3
<1>2. ASSUME NEW w \in Workspaces, Open(w) PROVE g \in gets \/ g.res = None
  BY <1>2 DEF Open
<1>3. ASSUME Operator PROVE gets' = gets \/ \E w \in Workspaces : Open(w)
  BY <1>3 DEF Operator, Edit, SaveNow, Unlock, Decline, Leave, sessionVars
<1>4. ASSUME Work PROVE gets' \subseteq gets \/ \E h \in gets : ServeGet(h)
  BY <1>4 DEF Work, FireTimer, ServePut, PutOk, PutRejected, PutRequired, AskUnlock,
              Resync, Hydrate, sessionVars
<1>5. ASSUME Faults PROVE gets' \subseteq gets
  BY <1>5 DEF Faults, PutFailed, ResyncFailed, HydrateFailed, ServeLate, sessionVars
<1>6. ASSUME NEW u \in Workspaces, NEW v \in Vals, OtherSaves(u, v) PROVE gets' = gets
  BY <1>6 DEF OtherSaves, sessionVars
<1>7. QED
  BY <1>1, <1>2, <1>3, <1>4, <1>5, <1>6 DEF Next, vars, sessionVars

\* A save that has been accepted after a step was so before, or is accepted now.
LEMMA AcceptSteps ==
    ASSUME TypeOK, [Next]_vars, Answered({"ok"})'
    PROVE  \/ put' = put
           \/ ServePut /\ Answer(put) = "ok"
<1>1. ASSUME forceSaveNow PROVE put' = put \/ put'.at = "sent"
  BY <1>1 DEF forceSaveNow, Flush
<1>2. ASSUME NEW x, put # None, put' = [put EXCEPT !.at = x] PROVE put'.at = x
  BY <1>2 DEF TypeOK, Save
<1>3. ASSUME Operator PROVE put' = put \/ put'.at \in {"sent", "decline"}
  <2>1. CASE Unlock
    BY <2>1 DEF Unlock, TypeOK, Save
  <2>2. QED
    BY <1>1, <1>2, <1>3, <2>1 DEF Operator, Edit, SaveNow, Decline, Leave, Open, flushVars
<1>4. ASSUME Work
      PROVE  put' = put \/ put' = None \/ put'.at \in {"sent", "resync", "modal"} \/ ServePut
  BY <1>1, <1>2, <1>4 DEF Work, FireTimer, PutOk, PutRejected, PutRequired, AskUnlock, Resync,
              Finally, Answered, ServeGet, Hydrate, flushVars
<1>5. ASSUME Faults PROVE put' = put \/ put' = None
  BY <1>5 DEF Faults, PutFailed, ResyncFailed, HydrateFailed, ServeLate, Finally, flushVars
<1>6. ASSUME NEW u \in Workspaces, NEW v \in Vals, OtherSaves(u, v) PROVE put' = put
  BY <1>6 DEF OtherSaves, flushVars
<1>7. ASSUME ServePut PROVE Answer(put) = "ok"
  BY <1>7 DEF ServePut, Answered, TypeOK, Save
<1>8. QED
  BY <1>3, <1>4, <1>5, <1>6, <1>7 DEF Next, vars, flushVars, Answered

\* The save that is accepted is the row of the server.
LEMMA ServedPut ==
    ASSUME TypeOK, ServePut, Answer(put) = "ok"
    PROVE  /\ put \in Save /\ put'.ws = put.ws /\ put'.doc = put.doc /\ put.ws \in Workspaces
           /\ put'.res.ver = server'[put.ws].ver
           /\ server'[put.ws].ver = server[put.ws].ver + 1
           /\ \/ Agrees(put.doc, server'[put.ws].doc)
              \/ put.doc.sched /\ put.clear
<1>1. put \in Save /\ put.ws \in Workspaces /\ put.doc \in Document
  BY DEF ServePut, TypeOK, Save
<1>2. put'.ws = put.ws /\ put'.doc = put.doc /\ put'.res.ver = server[put.ws].ver + 1
  BY <1>1 DEF ServePut, Save
<1>3. server'[put.ws] = Stored(put)
  BY <1>1 DEF ServePut, Handle, Accept, TypeOK
<1>4. /\ Stored(put).ver = server[put.ws].ver + 1
      /\ \/ Stored(put).doc = put.doc
         \/ put.clear /\ Stored(put).doc = [put.doc EXCEPT !.sched = FALSE, !.stale = FALSE]
  BY DEF Stored
<1>5. ~put.doc.sched => [put.doc EXCEPT !.sched = FALSE, !.stale = FALSE]
                          = [put.doc EXCEPT !.stale = FALSE]
  BY <1>1 DEF Document
<1>6. QED
  BY <1>1, <1>2, <1>3, <1>4, <1>5 DEF Agrees

\* Versions stay in step.
LEMMA VersionsStep ==
    ASSUME TypeOK, TypeOK', Versions, [Next]_vars PROVE Versions'
<1>1. ASSUME NEW w \in Workspaces, etag'[w] # None PROVE etag'[w] <= server'[w].ver
  <2>1. etag'[w] <= server[w].ver
    BY <1>1, TagSteps
  <2>2. etag'[w] \in Nat
    BY <1>1 DEF TypeOK
  <2>3. QED
    BY <2>1, <2>2, RowsGrow
<1>2. ASSUME NEW g \in gets', g.res # None
      PROVE  /\ g.res.ver <= server'[g.ws].ver
             /\ g.res.ver = server'[g.ws].ver => g.res.doc = server'[g.ws].doc
  <2>1. g.ws \in Workspaces /\ g.res.ver \in Nat
    BY <1>2 DEF TypeOK, Load, Tournament
  <2>2. CASE g \in gets
    <3>1. /\ g.res.ver <= server[g.ws].ver
          /\ g.res.ver = server[g.ws].ver => g.res.doc = server[g.ws].doc
      BY <1>2, <2>2 DEF Versions
    <3>2. QED
      BY <2>1, <3>1, RowsGrow
  <2>3. CASE g.res = server[g.ws] /\ UNCHANGED server
    BY <2>1, <2>3
  <2>4. QED
    BY <1>2, <2>2, <2>3, LoadSteps
<1>3. ASSUME Answered({"ok"})' PROVE put'.res.ver <= server'[put'.ws].ver
  <2>1. CASE put' = put
    <3>1. put \in Save /\ put.res \in Reply
      BY <1>3, <2>1 DEF TypeOK, Save, Answered
    <3>2. put.ws \in Workspaces /\ put.res.ver \in Nat
      BY <3>1 DEF Save, Reply
    <3>3. put.res.ver <= server[put.ws].ver
      BY <1>3, <2>1 DEF Versions, Answered
    <3>4. QED
      BY <2>1, <3>2, <3>3, RowsGrow
  <2>2. CASE ServePut /\ Answer(put) = "ok"
    <3>1. server'[put.ws].ver \in Nat
      BY <2>2, ServedPut DEF TypeOK, Tournament
    <3>2. QED
      BY <2>2, <3>1, ServedPut
  <2>3. QED
    BY <1>3, <2>1, <2>2, AcceptSteps
<1>4. QED
  BY <1>1, <1>2, <1>3 DEF Versions

-------------------------------------------------------------------------------
\* The document d is the one s that the server has, up to the mark on a schedule
\* that is gone, or its schedule has been cleared there and on screen.
Matches(s, d) == Agrees(d, s) \/ (d.sched /\ ~store.sched)

\* Before the first load there is no schedule on screen to be cleared.
Blank == env.opens # 0 => ~store.sched /\ ~clearNext

Opening ==
    active # None /\ ~page.done => /\ ~store.sched /\ ~clearNext
                                   /\ put = None /\ ~timer
                                   /\ status \notin {"error", "dirty"}
                                   /\ etag[active] = None

\* A save clears the schedule only when it is gone from the screen, unless the
\* wish to clear it is older than a re-sync; the first save after that spends it.
Cleared ==
    active # None => /\ clearNext /\ (put # None \/ ~resynced) => ~store.sched
                     /\ ~resynced /\ put # None /\ put.clear => ~store.sched

\* A document that is not the one on the wire gets a follow-up, and a refused
\* save shows an error until then.
FollowedUp ==
    active # None /\ put # None => /\ store # put.doc => followup
                                   /\ put.at = "resync" /\ ~followup => status = "error"

\* The save that was accepted, and the last acknowledged document, are what the
\* server has.
AcceptedDoc ==
    /\ active # None /\ Answered({"ok"}) /\ put.res.ver = server[put.ws].ver
    /\ ~(resynced /\ put.clear)
    => Matches(server[put.ws].doc, put.doc)

AckedDoc ==
    active # None /\ ~resynced /\ etag[active] = server[active].ver
      => Matches(server[active].doc, ack[active])

\* At rest the document on screen is the last acknowledged one, a declined one, or
\* the one that a re-sync has brought.
Settled ==
    AtRest => store = ack[active] \/ declined \/ (resynced /\ store = server[active].doc)

Kept ==
    /\ Blank /\ Opening /\ Cleared /\ FollowedUp
    /\ AcceptedDoc /\ AckedDoc /\ Settled

\* What has to be shown is what UnsavedShown says.
LEMMA KeptShows == ASSUME TypeOK, Kept PROVE UnsavedShown
<1> SUFFICES ASSUME AtRest, store = ack[active], ~resynced
             PROVE  Agrees(store, server[active].doc)
  BY DEF UnsavedShown, Kept, Settled, AtRest, Agrees
<1>1. Matches(server[active].doc, ack[active])
  BY DEF Kept, AckedDoc, AtRest
<1>2. QED
  BY <1>1 DEF Matches

\* An edit is followed up, starts the debounce, or returns to what is saved.
LEMMA EditKept ==
    ASSUME OneVisit, Kept, NEW v \in Vals, NEW unlock \in BOOLEAN, Edit(v, unlock)
    PROVE  Kept'
<1>0. TypeOK /\ env.opens = 0 /\ env'.opens = 0
  BY Spent DEF OneVisit, Edit, TypeOK, Scenario
<1>1. /\ active # None /\ active' = active /\ resynced' = resynced /\ page' = page
      /\ ~declined'
      /\ UNCHANGED <<server, etag, ack, put>>
      /\ store'.sched => store.sched
      /\ clearNext' => clearNext \/ ~store'.sched
      /\ Subscribed(store')
      /\ unlock => store.sched
      /\ clearNext' = (clearNext \/ unlock)
  BY <1>0 DEF Edit, TypeOK, Document
<1>2. Blank'
  BY <1>0 DEF Blank
<1>3. Opening'
  BY <1>1 DEF Kept, Opening, Subscribed
<1>4. Cleared'
  BY <1>1 DEF Kept, Cleared
<1>5. FollowedUp'
  <2> SUFFICES ASSUME active # None, put # None
               PROVE  /\ store' # put.doc => followup'
                      /\ put.at = "resync" /\ ~followup' => status' = "error"
    BY <1>1 DEF FollowedUp
  <2>1. page.done
    BY DEF Kept, Opening
  <2>2. CASE store' # put.doc
    BY <1>1, <2>1, <2>2 DEF Subscribed, shouldScheduleFollowup
  <2>3. CASE store' = put.doc
    <3>1. UNCHANGED <<status, followup, timer>>
      BY <1>1, <2>3 DEF Subscribed, shouldScheduleFollowup
    <3>2. QED
      BY <2>3, <3>1 DEF Kept, FollowedUp
  <2>4. QED
    BY <2>2, <2>3
<1>6. AcceptedDoc' /\ AckedDoc'
  BY <1>1 DEF Kept, AcceptedDoc, AckedDoc, Matches, Agrees, Answered
<1>7. Settled'
  <2> SUFFICES ASSUME active # None, page.done, put = None, ~timer', store' # ack[active]
               PROVE  FALSE
    BY <1>1 DEF Settled, AtRest, Pending
  <2>1. QED
    BY <1>1 DEF Subscribed, shouldScheduleFollowup
<1>8. QED
  BY <1>2, <1>3, <1>4, <1>5, <1>6, <1>7 DEF Kept

\* A save that begins carries what is on screen.
LEMMA FlushKept ==
    ASSUME OneVisit, Kept, forceSaveNow,
           UNCHANGED <<server, sessionVars, resynced, env>>,
           timer \/ (active # None /\ status \in {"error", "dirty"})
    PROVE  Kept'
<1>0. TypeOK /\ env.opens = 0
  BY Spent DEF OneVisit
<1>1. Blank'
  BY <1>0 DEF Blank
<1>2. CASE active = None
  BY <1>1, <1>2 DEF Kept, Opening, Cleared, FollowedUp, AcceptedDoc, AckedDoc, Settled, AtRest,
                    sessionVars
<1>3. CASE active # None
  <2>1. active # None => page.done
    BY <1>3 DEF Kept, Opening
  <2>2. AckedDoc' /\ Opening'
    BY <2>1 DEF Kept, AckedDoc, Opening, Matches, Agrees, sessionVars
  <2>3. CASE put # None
    <3>1. put' = put /\ followup' = TRUE /\ UNCHANGED <<clearNext, status>>
      BY <2>3 DEF forceSaveNow, Flush
    <3>2. QED
      BY <1>1, <2>2, <2>3, <3>1
         DEF Kept, Cleared, FollowedUp, AcceptedDoc, Settled, AtRest, Matches, Agrees, Pending,
             Answered, sessionVars
  <2>4. CASE put = None
    <3>1. /\ put' = [ws |-> active, doc |-> store, base |-> base, tag |-> etag[active],
                     clear |-> clearNext, at |-> "sent", res |-> None]
          /\ clearNext' = FALSE
      BY <1>3, <2>4 DEF forceSaveNow, Flush
    <3>2. put' \in Save
      BY <1>0, <1>3, <3>1 DEF TypeOK, Save
    <3>3. put' # None
      BY <3>2, NullAssumption
    <3>4. put'.doc = store /\ put'.clear = clearNext /\ put'.at = "sent"
      BY <3>1
    <3>5. Cleared' /\ FollowedUp' /\ AcceptedDoc' /\ Settled'
      BY <3>1, <3>3, <3>4
         DEF Kept, Cleared, FollowedUp, AcceptedDoc, Settled, AtRest, Pending, Answered,
             sessionVars
    <3>6. QED
      BY <1>1, <2>2, <3>5 DEF Kept
  <2>5. QED
    BY <2>3, <2>4
<1>4. QED
  BY <1>2, <1>3

\* The confirmed unlock clears the schedule on screen too, and what is then not
\* on the wire is followed up.
LEMMA UnlockKept ==
    ASSUME OneVisit, Kept, Unlock PROVE Kept'
<1>0. TypeOK /\ env.opens = 0 /\ env' = env
  BY Spent DEF OneVisit, Unlock
<1>1. put \in Save /\ put # None /\ put.at = "modal"
  BY <1>0 DEF Unlock, TypeOK
<1>2. put' # None /\ put'.at = "sent" /\ put'.doc = put.doc
  <2>1. put' \in Save /\ put'.at = "sent" /\ put'.doc = put.doc
    BY <1>0, <1>1 DEF Unlock, TypeOK, Save
  <2>2. QED
    BY <2>1, NullAssumption
<1>3. /\ UNCHANGED <<server, active, page, etag, ack, clearNext, resynced>>
      /\ store' = [store EXCEPT !.sched = FALSE]
      /\ store' \in Document /\ ~store'.sched
  BY <1>0 DEF Unlock, TypeOK, Document
<1>4. Blank' /\ Cleared' /\ AcceptedDoc' /\ AckedDoc' /\ Settled'
  BY <1>0, <1>2, <1>3
     DEF Kept, Blank, Cleared, AcceptedDoc, AckedDoc, Settled, AtRest, Matches, Agrees, Pending, Answered
<1>5. active # None => page.done
  BY <1>1 DEF Kept, Opening
<1>6. Opening'
  BY <1>3, <1>5 DEF Opening
<1>7. FollowedUp'
  <2> SUFFICES ASSUME active # None, store' # put.doc PROVE followup'
    BY <1>2, <1>3 DEF FollowedUp
  <2>1. CASE store.sched
    BY <1>1, <1>5, <2>1 DEF Unlock, Subscribed, shouldScheduleFollowup
  <2>2. CASE ~store.sched
    <3>1. store' = store
      BY <1>0, <1>3, <2>2 DEF TypeOK, Document
    <3>2. QED
      BY <1>1, <2>2, <3>1 DEF Unlock, Kept, FollowedUp
  <2>3. QED
    BY <2>1, <2>2
<1>8. QED
  BY <1>4, <1>6, <1>7 DEF Kept

\* What the operator does keeps the document on screen accounted for.
LEMMA KeptOperator ==
    ASSUME OneVisit, Kept, Operator PROVE Kept'
<1>0. TypeOK
  BY DEF OneVisit
<1>1. CASE SaveNow
  BY <1>1, FlushKept DEF SaveNow
<1>2. CASE Decline
  <2>1. env.opens = 0 /\ env' = env
    BY <1>2, Spent DEF Decline
  <2>2. put \in Save /\ put # None
    BY <1>0, <1>2 DEF Decline, TypeOK
  <2>3. put' # None /\ put'.at = "decline" /\ put'.doc = put.doc /\ put'.clear = put.clear
    <3>1. put' \in Save /\ put'.at = "decline" /\ put'.doc = put.doc /\ put'.clear = put.clear
      BY <1>2, <2>2 DEF Decline, Save
    <3>2. QED
      BY <3>1, NullAssumption
  <2>4. active # None => page.done
    BY <2>2 DEF Kept, Opening
  <2>5. QED
    BY <1>2, <2>1, <2>2, <2>3, <2>4
       DEF Decline, Kept, Blank, Opening, Cleared, FollowedUp, AcceptedDoc, AckedDoc, Settled, AtRest,
           Matches, Agrees, Pending, Answered, sessionVars
<1>3. CASE Leave
  <2>1. env.opens = 0 /\ env' = env /\ active' = None
    BY <1>3, Spent DEF Leave
  <2>2. QED
    BY <2>1
       DEF Kept, Blank, Opening, Cleared, FollowedUp, AcceptedDoc, AckedDoc, Settled, AtRest
<1>4. CASE \E w \in Workspaces : Open(w)
  <2> PICK w \in Workspaces : Open(w)
    BY <1>4
  <2>1. env.opens = 1 /\ env'.opens = 0
    BY DEF Open, OneVisit, TypeOK, Scenario
  <2>2. /\ put = None /\ ~timer /\ status \notin {"error", "dirty"}
        /\ \A u \in Workspaces : etag[u] = None
        /\ ~store.sched /\ ~clearNext
    BY <2>1 DEF OneVisit, Fresh, Kept, Blank
  <2>3. active' = w /\ ~page'.done /\ UNCHANGED <<server, store, etag, ack, flushVars>>
    BY DEF Open
  <2>4. AckedDoc'
    <3>1. etag'[w] # server'[w].ver
      BY <1>0, <2>2, <2>3, NullAssumption DEF TypeOK, Tournament
    <3>2. QED
      BY <2>3, <3>1 DEF AckedDoc
  <2>5. QED
    BY <2>1, <2>2, <2>3, <2>4
       DEF Kept, Blank, Opening, Cleared, FollowedUp, AcceptedDoc, Settled, AtRest, Answered, flushVars
<1>5. QED
  BY <1>1, <1>2, <1>3, <1>4, EditKept, UnlockKept DEF Operator

\* A save that ends without an acknowledgement shows an error, unless it is
\* followed up.
LEMMA EndedKept ==
    ASSUME OneVisit, Kept, put # None, Finally, env'.opens = env.opens,
           UNCHANGED <<server, store, active, page, etag, ack, clearNext, resynced>>,
           active # None /\ ~followup => status' = "error" \/ declined'
    PROVE  Kept'
<1>1. env.opens = 0
  BY Spent
<1>2. active # None => page.done
  BY DEF Kept, Opening
<1>3. put' = None /\ timer' = (timer \/ followup)
  BY DEF Finally
<1>4. Blank' /\ Opening' /\ Cleared' /\ FollowedUp' /\ AcceptedDoc'
  BY <1>1, <1>2, <1>3 DEF Kept, Blank, Opening, Cleared, FollowedUp, AcceptedDoc, Answered
<1>5. AckedDoc'
  BY DEF Kept, AckedDoc, Matches, Agrees
<1>6. Settled'
  BY <1>3 DEF Settled, AtRest, Pending
<1>7. QED
  BY <1>4, <1>5, <1>6 DEF Kept

\* A row that the server changes gets a version that the client does not know.
LEMMA KnownRow ==
    ASSUME TypeOK, Versions, [Next]_vars, active # None, etag[active] = server'[active].ver
    PROVE  server'[active] = server[active]
<1>1. active \in Workspaces
  BY DEF TypeOK
<1>2. etag[active] # None
  BY <1>1, RowsGrow, NullAssumption
<1>3. etag[active] <= server[active].ver
  BY <1>1, <1>2 DEF Versions
<1>4. QED
  BY <1>1, <1>3, RowsGrow

LEMMA AckedKept ==
    ASSUME TypeOK, Versions, AckedDoc, [Next]_vars,
           UNCHANGED <<store, active, etag, ack, resynced>>
    PROVE  AckedDoc'
<1>1. active # None /\ etag[active] = server'[active].ver => server'[active] = server[active]
  BY KnownRow
<1>2. QED
  BY <1>1 DEF AckedDoc, Matches, Agrees

\* The same of the answer that is on its way.
LEMMA AcceptedKept ==
    ASSUME TypeOK, Versions, AcceptedDoc, [Next]_vars,
           UNCHANGED <<store, active, put, resynced>>
    PROVE  AcceptedDoc'
<1> SUFFICES ASSUME active # None, Answered({"ok"}), put.res.ver = server'[put.ws].ver
             PROVE  server'[put.ws] = server[put.ws]
  BY DEF AcceptedDoc, Matches, Agrees, Answered
<1>1. put.ws \in Workspaces
  BY DEF Answered, TypeOK, Save
<1>2. put.res.ver <= server[put.ws].ver
  BY DEF Versions
<1>3. QED
  BY <1>1, <1>2, RowsGrow

\* The answers of the server and the event loop keep the document on screen
\* accounted for.
LEMMA KeptWork ==
    ASSUME OneVisit, Versions, Kept, Work PROVE Kept'
<1>0. TypeOK /\ [Next]_vars
  BY DEF OneVisit, Next
<1>1. CASE FireTimer
  BY <1>1, FlushKept DEF FireTimer
<1>2. CASE ServePut
  <2>1. env.opens = 0 /\ env' = env /\ put # None /\ put \in Save
    BY <1>0, <1>2, Spent DEF ServePut, TypeOK
  <2>2. put' # None /\ put'.at = "answered" /\ put'.doc = put.doc /\ put'.clear = put.clear
           /\ put'.ws = put.ws /\ put'.res.kind = Answer(put)
    <3> DEFINE r == [kind |-> Answer(put), ver |-> server[put.ws].ver + 1]
    <3>1. r \in Reply
      BY <1>0, <2>1, AnswerType DEF TypeOK, Save, Tournament, Reply
    <3>2. put' = [put EXCEPT !.at = "answered", !.res = r]
      BY <1>2 DEF ServePut
    <3>3. r.kind = Answer(put)
      OBVIOUS
    <3> HIDE DEF r
    <3>4. put' \in Save
      BY <2>1, <3>1, <3>2, SaveFields
    <3>5. QED
      BY <2>1, <3>2, <3>3, <3>4, NullAssumption DEF Save
  <2>3. active # None => page.done
    BY <2>1 DEF Kept, Opening
  <2>4. AckedDoc'
    BY <1>0, <1>2, AckedKept DEF Kept, ServePut, sessionVars
  <2>5. AcceptedDoc'
    <3> SUFFICES ASSUME active # None, Answer(put) = "ok", ~(resynced /\ put.clear)
                 PROVE  Matches(server[put.ws].doc, put.doc)'
      BY <1>2, <2>2 DEF AcceptedDoc, Answered, ServePut, sessionVars
    <3>1. \/ Agrees(put.doc, server'[put.ws].doc)
          \/ put.doc.sched /\ put.clear
      BY <1>0, <1>2, ServedPut
    <3>2. put.clear => ~store.sched
      BY <2>1 DEF Kept, Cleared
    <3>3. QED
      BY <1>2, <2>2, <3>1, <3>2 DEF Matches, Agrees, ServePut, sessionVars
  <2>6. QED
    BY <1>2, <2>1, <2>2, <2>3, <2>4, <2>5
       DEF ServePut, Kept, Blank, Opening, Cleared, FollowedUp, Settled, AtRest, Pending, sessionVars
<1>3. CASE PutOk
  <2>1. put # None /\ env.opens = 0 /\ env' = env /\ put.ws \in Workspaces
    BY <1>0, <1>3, Spent DEF PutOk, Answered, TypeOK, Save
  <2>2. /\ UNCHANGED <<server, store, active, page, clearNext>>
        /\ resynced' = (resynced /\ put.clear)
        /\ put' = None /\ timer' = (timer \/ followup)
        /\ etag' = [etag EXCEPT ![put.ws] = put.res.ver]
        /\ ack' = [ack EXCEPT ![put.ws] = put.doc]
    BY <1>3 DEF PutOk, Finally
  <2>3. active # None => page.done
    BY <2>1 DEF Kept, Opening
  <2>4. active # None => put.ws = active /\ etag'[active] = put.res.ver /\ ack'[active] = put.doc
    BY <1>0, <2>1, <2>2 DEF OneVisit, InFlight, TypeOK
  <2>5. AckedDoc'
    <3> SUFFICES ASSUME active # None, put.res.ver = server[put.ws].ver,
                        ~(resynced /\ put.clear)
                 PROVE  Matches(server[put.ws].doc, put.doc)
      BY <2>2, <2>4 DEF AckedDoc, Matches, Agrees
    <3>1. QED
      BY <1>3 DEF PutOk, Kept, AcceptedDoc, Matches, Agrees
  <2>6. Settled'
    <3> SUFFICES ASSUME active # None, ~timer' PROVE store = put.doc
      BY <2>2, <2>4 DEF Settled, AtRest, Pending
    <3>1. ~followup
      BY <2>2
    <3>2. QED
      BY <2>1, <3>1 DEF Kept, FollowedUp
  <2>7. QED
    BY <2>1, <2>2, <2>3, <2>5, <2>6
       DEF Kept, Blank, Opening, Cleared, FollowedUp, AcceptedDoc, Answered
<1>4. CASE PutRejected
  <2>1. put # None /\ put \in Save /\ env.opens = 0 /\ env' = env
    BY <1>0, <1>4, Spent DEF PutRejected, Answered, TypeOK
  <2>2. put' # None /\ put'.at = "resync" /\ put'.doc = put.doc /\ put'.clear = put.clear
    <3>1. put' \in Save /\ put'.at = "resync" /\ put'.doc = put.doc /\ put'.clear = put.clear
      BY <1>4, <2>1 DEF PutRejected, Save
    <3>2. QED
      BY <3>1, NullAssumption
  <2>3. /\ UNCHANGED <<server, store, active, page, ack, followup, clearNext, resynced>>
        /\ status' = "error"
    BY <1>4 DEF PutRejected
  <2>4. active # None => page.done
    BY <2>1 DEF Kept, Opening
  <2>5. AckedDoc'
    <3> SUFFICES ASSUME active # None, etag'[active] = server[active].ver
                 PROVE  etag[active] = server[active].ver
      BY <2>3 DEF Kept, AckedDoc, Matches, Agrees
    <3>1. active \in Workspaces /\ server[active].ver # None
      BY <1>0, NullAssumption DEF TypeOK, Tournament
    <3>2. etag'[active] = etag[active] \/ etag'[active] = None
      BY <1>0, <1>4, <3>1 DEF PutRejected, DroppedTag, TypeOK
    <3>3. QED
      BY <3>1, <3>2
  <2>6. QED
    BY <2>1, <2>2, <2>3, <2>4, <2>5
       DEF Kept, Blank, Opening, Cleared, FollowedUp, AcceptedDoc, Settled, AtRest, Pending, Answered
<1>5. CASE PutRequired
  <2>1. put # None /\ env' = env /\ status' = "error" /\ Finally /\ UNCHANGED clearNext
           /\ UNCHANGED <<server, sessionVars, resynced>>
    BY <1>5 DEF PutRequired, Answered
  <2>2. QED
    BY <2>1, EndedKept DEF sessionVars
<1>6. CASE AskUnlock
  <2>1. put # None /\ put \in Save /\ env.opens = 0 /\ env' = env
    BY <1>0, <1>6, Spent DEF AskUnlock, Answered, TypeOK
  <2>2. put' # None /\ put'.at = "modal" /\ put'.doc = put.doc /\ put'.clear = put.clear
    <3>1. put' \in Save /\ put'.at = "modal" /\ put'.doc = put.doc /\ put'.clear = put.clear
      BY <1>6, <2>1 DEF AskUnlock, Save
    <3>2. QED
      BY <3>1, NullAssumption
  <2>3. active # None => page.done
    BY <2>1 DEF Kept, Opening
  <2>4. QED
    BY <1>6, <2>1, <2>2, <2>3
       DEF AskUnlock, Kept, Blank, Opening, Cleared, FollowedUp, AcceptedDoc, AckedDoc, Settled, AtRest,
           Matches, Agrees, Pending, Answered, sessionVars
<1>7. CASE Resync
  <2>1. /\ env.opens = 0 /\ env' = env /\ resynced' /\ put' = None
        /\ put # None /\ active' = active /\ page' = page /\ server' = server
        /\ store' = server[put.ws].doc
    BY <1>7, Spent DEF Resync, Finally
  <2>2. active # None => put.ws = active /\ page.done
    BY <2>1 DEF OneVisit, InFlight, Kept, Opening
  <2>3. QED
    BY <2>1, <2>2
       DEF Kept, Blank, Opening, Cleared, FollowedUp, AcceptedDoc, AckedDoc, Settled, AtRest,
           Answered
<1>8. CASE \E g \in gets : ServeGet(g)
  <2>1. UNCHANGED <<server, store, active, page, etag, ack, flushVars, history, env>>
    BY <1>8 DEF ServeGet
  <2>2. QED
    BY <2>1
       DEF Kept, Blank, Opening, Cleared, FollowedUp, AcceptedDoc, AckedDoc, Settled, AtRest,
           Matches, Agrees, Pending, Answered, flushVars
<1>9. CASE \E g \in gets : Hydrate(g)
  <2> PICK g \in gets : Hydrate(g)
    BY <1>9
  <2>1. env.opens = 0 /\ env' = env
    BY Spent DEF Hydrate
  <2>2. CASE active = None
    BY <2>1, <2>2
       DEF Hydrate, Kept, Blank, Opening, Cleared, FollowedUp, AcceptedDoc, AckedDoc, Settled, AtRest
  <2>3. CASE active # None
    <3>1. g.ws = active /\ g.id = page.id /\ put = None /\ ~page.done /\ active \in Workspaces
      BY <1>0, <2>3 DEF OneVisit, Loading, TypeOK
    <3>2. /\ store' = g.res.doc /\ page'.done
          /\ etag'[active] = g.res.ver /\ ack'[active] = g.res.doc
          /\ UNCHANGED <<server, active, flushVars>> /\ ~resynced'
      BY <1>0, <2>3, <3>1 DEF Hydrate, TypeOK
    <3>3. g.res.ver = server[active].ver => g.res.doc = server[active].doc
      BY <3>1 DEF Hydrate, Versions
    <3>4. active # None => ~clearNext
      BY <3>1 DEF Kept, Opening
    <3>5. AckedDoc' /\ Settled'
      BY <3>2, <3>3 DEF AckedDoc, Settled, AtRest, Matches, Agrees
    <3>6. QED
      BY <2>1, <3>1, <3>2, <3>4, <3>5
         DEF Kept, Blank, Opening, Cleared, FollowedUp, AcceptedDoc, Answered, flushVars
  <2>4. QED
    BY <2>2, <2>3
<1>10. QED
  BY <1>1, <1>2, <1>3, <1>4, <1>5, <1>6, <1>7, <1>8, <1>9 DEF Work

\* So does what fails, comes late, or comes from another session.
LEMMA KeptFaults ==
    ASSUME OneVisit, Versions, Kept,
           Faults \/ (\E w \in Workspaces, v \in Vals : OtherSaves(w, v))
    PROVE  Kept'
<1>0. TypeOK /\ [Next]_vars /\ env \in Scenario
  BY DEF OneVisit, TypeOK, Next
<1>1. CASE \E reached \in BOOLEAN : PutFailed(reached)
  <2>1. put # None /\ env'.opens = env.opens /\ status' = "error" /\ Finally
           /\ UNCHANGED <<server, sessionVars, clearNext, resynced>>
    BY <1>0, <1>1 DEF PutFailed, Scenario
  <2>2. QED
    BY <2>1, EndedKept DEF sessionVars
<1>2. CASE ResyncFailed
  <2>1. put # None /\ env'.opens = env.opens /\ Finally
           /\ UNCHANGED <<server, sessionVars, clearNext, resynced>>
    BY <1>0, <1>2 DEF ResyncFailed, Scenario
  <2>2. declined' \/ (put.at = "resync" /\ status' = status)
    BY <1>0, <1>2 DEF ResyncFailed, sessionVars, TypeOK
  <2>3. active # None /\ ~followup => status' = "error" \/ declined'
    BY <2>1, <2>2 DEF Kept, FollowedUp
  <2>4. QED
    BY <2>1, <2>2, <2>3, EndedKept DEF sessionVars
<1>3. CASE \E g \in gets : HydrateFailed(g)
  <2> PICK g \in gets : HydrateFailed(g)
    BY <1>3
  <2>1. env.opens = 0 /\ env'.opens = 0
    BY <1>0, Spent DEF HydrateFailed, Scenario
  <2>2. UNCHANGED <<server, store, active, etag, ack, flushVars, resynced>>
    BY DEF HydrateFailed
  <2>3. active # None => ~page.done
    BY DEF OneVisit, Loading
  <2>4. active # None => etag[active] = None /\ etag[active] # server[active].ver
    BY <1>0, <2>3, NullAssumption DEF Kept, Opening, TypeOK, Tournament
  <2>5. active # None /\ ~page'.done => ~page.done
    BY <2>3
  <2>6. QED
    BY <2>1, <2>2, <2>4, <2>5
       DEF Kept, Blank, Opening, Cleared, FollowedUp, AcceptedDoc, AckedDoc, Settled, AtRest,
           Matches, Agrees, Pending, Answered, flushVars
<1>4. ASSUME UNCHANGED <<sessionVars, flushVars, history>>, env'.opens = env.opens PROVE Kept'
  <2>1. AckedDoc' /\ AcceptedDoc'
    BY <1>0, <1>4, AckedKept, AcceptedKept DEF Kept, sessionVars, flushVars
  <2>2. active # None /\ etag[active] = server'[active].ver => server'[active] = server[active]
    BY <1>0, KnownRow
  <2>3. Settled'
    BY <1>4, <2>2 DEF Kept, Settled, AtRest, Pending, sessionVars, flushVars
  <2>4. QED
    BY <1>4, <2>1, <2>3
       DEF Kept, Blank, Opening, Cleared, FollowedUp, sessionVars, flushVars
<1>5. CASE \E p \in late : ServeLate(p)
  BY <1>4, <1>5 DEF ServeLate
<1>6. CASE \E w \in Workspaces, v \in Vals : OtherSaves(w, v)
  BY <1>0, <1>4, <1>6 DEF OtherSaves, Scenario
<1>7. QED
  BY <1>1, <1>2, <1>3, <1>5, <1>6 DEF Faults

\* In a session that opens one workspace once, on the loaded page, with no save
\* under way or due, no error shown and a server at the known revision, the server
\* has the document on screen; it may lack it only after a declined save whose
\* re-sync failed, or for the document that was acknowledged before a re-sync.
THEOREM NothingUnsavedInOneVisit ==
    ASSUME \A s \in Scenarios : s.opens <= 1
    PROVE  Spec => []UnsavedShown
<1> DEFINE Inv == OneVisit /\ Versions /\ Kept
<1>1. Init => Inv
  <2> SUFFICES ASSUME Init PROVE Inv
    OBVIOUS
  <2>1. TypeOK
    BY TypeInit
  <2>2. OneVisit
    BY <2>1 DEF Init, OneVisit, Fresh, Tagged, Loading, InFlight, NoLostUpdate
  <2>3. Versions
    BY DEF Init, Versions, Answered
  <2>4. Kept
    BY DEF Init, Defaults, Kept, Blank, Opening, Cleared, FollowedUp, AcceptedDoc, AckedDoc,
           Settled, AtRest
  <2>5. QED
    BY <2>2, <2>3, <2>4
<1>2. Inv /\ [Next]_vars => Inv'
  <2> SUFFICES ASSUME OneVisit, Versions, Kept, [Next]_vars PROVE Inv'
    OBVIOUS
  <2>0. TypeOK
    BY DEF OneVisit
  <2>1. CASE Operator
    BY <2>0, <2>1, TypeOperator, VisitOperator, VersionsStep, KeptOperator
  <2>2. CASE Work
    BY <2>0, <2>2, TypeWork, VisitWork, VersionsStep, KeptWork
  <2>3. CASE Faults \/ (\E w \in Workspaces, v \in Vals : OtherSaves(w, v))
    BY <2>0, <2>3, TypeFaults, VisitFaults, VersionsStep, KeptFaults
  <2>4. CASE UNCHANGED vars
    <3>1. OneVisit'
      BY <2>4 DEF vars, sessionVars, flushVars, OneVisit, TypeOK, Fresh, Tagged, Loading,
                  InFlight, Sound, NoLostUpdate
    <3>2. Versions'
      BY <2>4 DEF vars, sessionVars, flushVars, Versions, Answered
    <3>3. Kept'
      BY <2>4 DEF vars, sessionVars, flushVars, Kept, Blank, Opening, Cleared, FollowedUp,
                  AcceptedDoc, AckedDoc, Settled, AtRest, Matches, Agrees, Pending, Answered
    <3>4. QED
      BY <3>1, <3>2, <3>3
  <2>5. QED
    BY <2>1, <2>2, <2>3, <2>4 DEF Next
<1>3. Inv => UnsavedShown
  BY KeptShows DEF OneVisit
<1>4. QED
  BY <1>1, <1>2, <1>3, PTL DEF Spec

===============================================================================
