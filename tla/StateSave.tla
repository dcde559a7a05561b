------------------------------- MODULE StateSave -------------------------------
(* The autosave of the console: the tournament store behind every page of a    *)
(* workspace, the hook that loads and saves it (useTournamentState), the       *)
(* If-Match tokens of the API client, and GET and PUT /tournaments/{id}/state  *)
(* on the server.                                                              *)
(*                                                                             *)
(* The save state is module-level and not per workspace: one timer, one save   *)
(* in flight, one follow-up flag, one store.  A workspace is left and entered  *)
(* through the hub; the answers of its requests may arrive later.              *)
EXTENDS Naturals, FiniteSets

CONSTANTS
    Workspaces, \* the workspaces of the operator
    Vals,       \* what an edit may set the scheduling config to
    First,      \* the value every stored document starts with
    Refused,    \* values whose document drops a player that a draw has placed
    None,       \* a null value, a missing map entry
    Scenarios   \* the runs to consider

\* A scenario: is a meet schedule committed, is a bracket schedule, and how often
\* the operator edits, a workspace is opened, another session saves, a request
\* fails.
Scenario == [sched: BOOLEAN, bracket: {"none", "committed", "started"},
             edits: Nat, opens: Nat, others: Nat, faults: Nat]

ASSUME SaveAssumption ==
    /\ First \in Vals \ Refused
    /\ None \notin Vals /\ None \notin Workspaces
    /\ Scenarios \subseteq Scenario

VARIABLES
    server,     \* tournaments: data, state_version and the bracket's schedule
    store,      \* useTournamentStore: the document on screen
    base,       \* history: the revision the document on screen was edited from
    active,     \* ui.activeTournamentId
    page,       \* the mount of useTournamentState: its number, hydrationDoneRef
    gets,       \* the GETs of the mounts
    etag,       \* stateEtags
    ack,        \* acknowledgedFingerprints
    timer,      \* is moduleTimer set
    put,        \* flushPromise: the save in flight
    followup,   \* pendingFollowup
    clearNext,  \* clearScheduleNext
    status,     \* persistStatus
    late,       \* PUTs the client has given up on and the server may still get
    resynced,   \* history: has a re-sync outdated the last acknowledged document
    declined,   \* history: is an edit whose save was declined still on screen
    last,       \* history: the last save of this console the server accepted
    env         \* how much of the scenario is left

sessionVars == <<store, base, active, page, gets, etag, ack>>
flushVars == <<timer, put, followup, clearNext, status>>
history == <<resynced, declined>>
vars == <<server, sessionVars, flushVars, late, history, last, env>>

-------------------------------------------------------------------------------
\* The scheduling config, whether a schedule is there, and whether it is marked
\* out of date (scheduleIsStale).
Document == [of: Workspaces \cup {None}, val: Vals \cup {None}, sched: BOOLEAN,
             stale: BOOLEAN]

Revisions == [of: Workspaces, ver: Nat]

Tournament == [doc: Document, ver: Nat, bracket: {"none", "committed", "started"}]

Load == [id: Nat, ws: Workspaces, res: Tournament \cup {None}]

Reply == [kind: {"ok", "required", "versionConflict", "configLocked", "drawStarted",
                 "rosterLocked"}, ver: Nat]

Save == [ws: Workspaces, doc: Document, base: Revisions \cup {None},
         tag: Nat \cup {None}, clear: BOOLEAN,
         at: {"sent", "answered", "modal", "resync", "decline"},
         res: Reply \cup {None}]

\* A missing value is no version, no document, no save and no answer.
ASSUME NullAssumption ==
    /\ None \notin Nat /\ None \notin Revisions
    /\ None \notin Tournament /\ None \notin Save /\ None \notin Reply

\* resetToDefaults, and the store before anything was loaded.
Defaults == [of |-> None, val |-> None, sched |-> FALSE, stale |-> FALSE]

Revision(w, v) == [of |-> w, ver |-> v]

Init ==
    /\ env \in Scenarios
    /\ server = [w \in Workspaces |->
                   [doc |-> [of |-> w, val |-> First, sched |-> env.sched, stale |-> FALSE],
                    ver |-> 1, bracket |-> env.bracket]]
    /\ store = Defaults /\ base = None
    /\ active = None
    /\ page = [id |-> 0, done |-> FALSE]
    /\ gets = {}
    /\ etag = [w \in Workspaces |-> None]
    /\ ack = [w \in Workspaces |-> None]
    /\ timer = FALSE /\ put = None
    /\ followup = FALSE /\ clearNext = FALSE
    /\ status = "idle"
    /\ late = {}
    /\ resynced = FALSE /\ declined = FALSE /\ last = None

-------------------------------------------------------------------------------
\* PUT /state: the checks in the order of the handler.  The version is compared
\* at the top and again by the UPDATE, so the handler acts on one revision.
Changed(p) == /\ p.doc.val # None /\ server[p.ws].doc.val # None
              /\ p.doc.val # server[p.ws].doc.val

LockedBy(p) == /\ Changed(p)
               /\ \/ server[p.ws].doc.sched /\ p.doc.sched
                  \/ server[p.ws].bracket # "none"

Answer(p) ==
    IF p.tag = None THEN "required"
    ELSE IF p.tag # server[p.ws].ver THEN "versionConflict"
    ELSE IF LockedBy(p) /\ ~p.clear THEN "configLocked"
    ELSE IF p.clear /\ Changed(p) /\ server[p.ws].bracket = "started" THEN "drawStarted"
    ELSE IF p.doc.val \in Refused THEN "rosterLocked"
    ELSE "ok"

\* The document an accepted save leaves: clearSchedule drops the schedules, and
\* with them the mark that they are out of date.
Stored(p) ==
    LET cleared == p.clear /\ Changed(p)
    IN  [doc     |-> IF cleared THEN [p.doc EXCEPT !.sched = FALSE, !.stale = FALSE]
                     ELSE p.doc,
         ver     |-> server[p.ws].ver + 1,
         bracket |-> IF cleared THEN "none" ELSE server[p.ws].bracket]

Accept(p) ==
    /\ server' = [server EXCEPT ![p.ws] = Stored(p)]
    /\ last' = [ws |-> p.ws, over |-> server[p.ws].ver, base |-> p.base]

Handle(p) == IF Answer(p) = "ok" THEN Accept(p) ELSE UNCHANGED <<server, last>>

-------------------------------------------------------------------------------
\* Mutant: an edit is compared with the last acknowledged document only.
shouldScheduleFollowupAcked(doc) == doc # ack[active]

\* Is a document on screen worth a save?  Against the payload on the wire while
\* there is one, else against the last acknowledged document.
shouldScheduleFollowup(doc) == doc # IF put # None THEN put.doc ELSE ack[active]

\* The subscription: a changed document marks the workspace dirty, and asks the
\* save in flight for a follow-up or (re)starts the debounce.
Subscribed(doc) ==
    IF page.done /\ shouldScheduleFollowup(doc)
    THEN /\ status' = IF status = "saving" THEN status ELSE "dirty"
         /\ IF put # None THEN followup' = TRUE /\ UNCHANGED timer
            ELSE timer' = TRUE /\ UNCHANGED followup
    ELSE UNCHANGED <<status, followup, timer>>

\* An edit: setConfig marks the schedule stale, unless no config was there.
\* Behind a lock guard that sees the committed schedule, the operator has confirmed
\* that it goes; other edits do not ask.
Edit(v, unlock) ==
    LET doc == [store EXCEPT !.val = v, !.sched = @ /\ ~unlock,
                             !.stale = @ \/ store.val # None]
    IN  /\ active # None /\ env.edits > 0
        /\ v # store.val
        /\ unlock => store.sched
        /\ store' = doc
        /\ clearNext' = (clearNext \/ unlock)
        /\ Subscribed(doc)
        /\ declined' = FALSE
        /\ env' = [env EXCEPT !.edits = @ - 1]
        /\ UNCHANGED <<server, base, active, page, gets, etag, ack, put, late, resynced, last>>

\* Join the save in flight, or start one for the active workspace with the
\* document on screen.
Flush ==
    IF put # None
    THEN followup' = TRUE /\ UNCHANGED <<put, clearNext, status>>
    ELSE IF active = None THEN UNCHANGED <<put, followup, clearNext, status>>
    ELSE /\ put' = [ws |-> active, doc |-> store, base |-> base, tag |-> etag[active],
                    clear |-> clearNext, at |-> "sent", res |-> None]
         /\ followup' = FALSE /\ clearNext' = FALSE
         /\ status' = "saving"

\* Mutant: the debounce goes on although the save has begun.
forceSaveNowKeepsTimer == Flush /\ UNCHANGED timer

forceSaveNow == Flush /\ timer' = FALSE

\* The debounce is over.
FireTimer ==
    /\ timer
    /\ forceSaveNow
    /\ UNCHANGED <<server, sessionVars, late, history, last, env>>

\* The button of the unsaved-changes banner.
SaveNow ==
    /\ active # None /\ status \in {"error", "dirty"}
    /\ forceSaveNow
    /\ UNCHANGED <<server, sessionVars, late, history, last, env>>

-------------------------------------------------------------------------------
\* The server answers the save in flight, or gets one nobody waits for.
ServePut ==
    /\ put # None /\ put.at = "sent"
    /\ Handle(put)
    /\ put' = [put EXCEPT !.at = "answered",
                          !.res = [kind |-> Answer(put), ver |-> server[put.ws].ver + 1]]
    /\ UNCHANGED <<sessionVars, timer, followup, clearNext, status, late, history, env>>

ServeLate(p) ==
    /\ p \in late
    /\ Handle(p)
    /\ late' = late \ {p}
    /\ UNCHANGED <<sessionVars, flushVars, history, env>>

\* Mutant: the promise of the save is never cleared.
FinallyKeeps == UNCHANGED <<put, followup, timer>>

\* The finally block: the next save may start, and edits made meanwhile get one.
Finally ==
    /\ put' = None
    /\ followup' = FALSE
    /\ timer' = (timer \/ followup)

Answered(kinds) == put # None /\ put.at = "answered" /\ put.res.kind \in kinds

PutOk ==
    /\ Answered({"ok"})
    /\ etag' = [etag EXCEPT ![put.ws] = put.res.ver]
    /\ ack' = [ack EXCEPT ![put.ws] = put.doc]
    /\ base' = IF base = put.base THEN Revision(put.ws, put.res.ver) ELSE base
    /\ status' = "idle"
    /\ resynced' = (resynced /\ put.clear) /\ declined' = FALSE
    /\ Finally
    /\ UNCHANGED <<server, store, active, page, gets, clearNext, late, last, env>>

\* Mutant: a refused save adopts the version of the server.
DroppedTagAdopts == [etag EXCEPT ![put.ws] = server[put.ws].ver]

\* A version conflict costs the client its token for the workspace.
DroppedTag == [etag EXCEPT ![put.ws] = None]

\* handleRejectedSave: a 409 re-syncs from the server.
PutRejected ==
    /\ Answered({"versionConflict", "drawStarted", "rosterLocked"})
    /\ etag' = IF put.res.kind = "versionConflict" THEN DroppedTag ELSE etag
    /\ status' = "error"
    /\ put' = [put EXCEPT !.at = "resync"]
    /\ UNCHANGED <<server, store, base, active, page, gets, ack, timer, followup, clearNext,
                   late, history, last, env>>

\* 412: the edit stays on screen and the banner says that it is not saved.
PutRequired ==
    /\ Answered({"required"})
    /\ status' = "error"
    /\ Finally
    /\ UNCHANGED <<server, sessionVars, clearNext, late, history, last, env>>

\* The request, or its answer, does not make it: as a 412, whatever the server
\* did or will do with it.
PutFailed(reached) ==
    /\ put # None /\ put.at \in {"sent", "answered"}
    /\ env.faults > 0
    /\ late' = IF put.at = "sent" /\ reached THEN late \cup {put} ELSE late
    /\ status' = "error"
    /\ Finally
    /\ env' = [env EXCEPT !.faults = @ - 1]
    /\ UNCHANGED <<server, sessionVars, clearNext, history, last>>

\* CONFIG_LOCKED: the operator is asked, and the save waits for the answer.
AskUnlock ==
    /\ Answered({"configLocked"})
    /\ put' = [put EXCEPT !.at = "modal"]
    /\ UNCHANGED <<server, sessionVars, timer, followup, clearNext, status, late, history,
                   last, env>>

\* Confirmed: the schedule goes from the screen, and the same payload is sent
\* again with clearSchedule.
Unlock ==
    /\ put # None /\ put.at = "modal" /\ active # None
    /\ store' = [store EXCEPT !.sched = FALSE]
    /\ IF store.sched THEN Subscribed(store') ELSE UNCHANGED <<status, followup, timer>>
    /\ put' = [put EXCEPT !.at = "sent", !.clear = TRUE, !.tag = etag[put.ws]]
    /\ UNCHANGED <<server, base, active, page, gets, etag, ack, clearNext, late, history,
                   last, env>>

\* Declined: the edit is abandoned and the workspace re-synced.
Decline ==
    /\ put # None /\ put.at = "modal" /\ active # None
    /\ put' = [put EXCEPT !.at = "decline"]
    /\ UNCHANGED <<server, sessionVars, timer, followup, clearNext, status, late, history,
                   last, env>>

\* The GET of a re-sync: its document replaces the one on screen, whatever has
\* been typed or opened meanwhile; ack and clearNext keep what they had.
Resync ==
    /\ put # None /\ put.at \in {"resync", "decline"}
    /\ store' = server[put.ws].doc
    /\ base' = Revision(put.ws, server[put.ws].ver)
    /\ etag' = [etag EXCEPT ![put.ws] = server[put.ws].ver]
    /\ status' = "idle"
    /\ resynced' = TRUE /\ declined' = FALSE
    /\ Finally
    /\ UNCHANGED <<server, active, page, gets, ack, clearNext, late, last, env>>

\* A re-sync that fails replaces nothing.  After a refusal the error stands; after
\* a declined unlock the page is idle.
ResyncFailed ==
    /\ put # None /\ put.at \in {"resync", "decline"}
    /\ env.faults > 0
    /\ status' = IF put.at = "decline" THEN "idle" ELSE status
    /\ declined' = (declined \/ put.at = "decline")
    /\ Finally
    /\ env' = [env EXCEPT !.faults = @ - 1]
    /\ UNCHANGED <<server, sessionVars, clearNext, late, resynced, last>>

-------------------------------------------------------------------------------
\* A workspace is opened from the hub: the hook mounts and asks for its state.
Open(w) ==
    /\ active = None /\ env.opens > 0
    /\ active' = w
    /\ page' = [id |-> env.opens, done |-> FALSE]
    /\ gets' = gets \cup {[id |-> env.opens, ws |-> w, res |-> None]}
    /\ env' = [env EXCEPT !.opens = @ - 1]
    /\ UNCHANGED <<server, store, base, etag, ack, flushVars, late, history, last>>

ServeGet(g) ==
    /\ g \in gets /\ g.res = None
    /\ gets' = (gets \ {g}) \cup {[g EXCEPT !.res = server[g.ws]]}
    /\ UNCHANGED <<server, store, base, active, page, etag, ack, flushVars, late, history,
                   last, env>>

\* The client notes the token in any case; the document is loaded if the hook
\* that asked for it is still mounted.
Hydrate(g) ==
    /\ g \in gets /\ g.res # None
    /\ gets' = gets \ {g}
    /\ etag' = [etag EXCEPT ![g.ws] = g.res.ver]
    /\ IF active # None /\ g.id = page.id
       THEN /\ store' = g.res.doc
            /\ base' = Revision(g.ws, g.res.ver)
            /\ ack' = [ack EXCEPT ![g.ws] = g.res.doc]
            /\ page' = [page EXCEPT !.done = TRUE]
            /\ resynced' = FALSE /\ declined' = FALSE
       ELSE UNCHANGED <<store, base, ack, page, history>>
    /\ UNCHANGED <<server, active, flushVars, late, last, env>>

\* A failed load is logged, and the page is as editable as after a good one.
HydrateFailed(g) ==
    /\ g \in gets /\ env.faults > 0
    /\ gets' = gets \ {g}
    /\ page' = IF g.id = page.id THEN [page EXCEPT !.done = TRUE] ELSE page
    /\ env' = [env EXCEPT !.faults = @ - 1]
    /\ UNCHANGED <<server, store, base, active, etag, ack, flushVars, late, history, last>>

\* The workspace is left.  React runs the cleanup of TournamentPage before the
\* hook's, so the hook's forceSaveNow clears the timer, finds no active workspace
\* and, when a save is in flight, asks it for a follow-up.
Leave ==
    /\ active # None
    /\ active' = None
    /\ timer' = FALSE
    /\ followup' = (followup \/ (put # None /\ put.doc # store))
    /\ UNCHANGED <<server, store, base, page, gets, etag, ack, put, clearNext, status, late,
                   history, last, env>>

\* Another session edits a workspace.
OtherSaves(w, v) ==
    /\ env.others > 0
    /\ v # server[w].doc.val /\ v \notin Refused
    /\ server[w].bracket = "none" /\ ~server[w].doc.sched
    /\ server' = [server EXCEPT ![w].doc.val = v, ![w].doc.stale = TRUE, ![w].ver = @ + 1]
    /\ env' = [env EXCEPT !.others = @ - 1]
    /\ UNCHANGED <<sessionVars, flushVars, late, history, last>>

-------------------------------------------------------------------------------
Operator ==
    \/ \E v \in Vals, unlock \in BOOLEAN : Edit(v, unlock)
    \/ SaveNow \/ Unlock \/ Decline \/ Leave
    \/ \E w \in Workspaces : Open(w)

\* What the event loop and the server do by themselves.
Work ==
    \/ FireTimer \/ ServePut
    \/ PutOk \/ PutRejected \/ PutRequired \/ AskUnlock \/ Resync
    \/ \E g \in gets : ServeGet(g) \/ Hydrate(g)

Faults ==
    \/ \E reached \in BOOLEAN : PutFailed(reached)
    \/ ResyncFailed
    \/ \E g \in gets : HydrateFailed(g)
    \/ \E p \in late : ServeLate(p)

Next ==
    \/ Operator \/ Work \/ Faults
    \/ \E w \in Workspaces, v \in Vals : OtherSaves(w, v)

Spec == Init /\ [][Next]_vars

\* Timers fire, the server answers and answers arrive; nobody has to edit, to
\* press "Save now" or to answer the modal.
FairSpec == Spec /\ WF_vars(Work)

-------------------------------------------------------------------------------
\* Types, and what the hook relies on: the debounce never runs while a save is in
\* flight, only the save in flight asks for a follow-up, and an answered save has
\* its answer.
TypeOK ==
    /\ server \in [Workspaces -> Tournament]
    /\ store \in Document
    /\ base \in Revisions \cup {None}
    /\ active \in Workspaces \cup {None}
    /\ page \in [id: Nat, done: BOOLEAN]
    /\ gets \subseteq Load
    /\ etag \in [Workspaces -> Nat \cup {None}]
    /\ ack \in [Workspaces -> Document \cup {None}]
    /\ timer \in BOOLEAN /\ followup \in BOOLEAN /\ clearNext \in BOOLEAN
    /\ put \in Save \cup {None}
    /\ status \in {"idle", "dirty", "saving", "error"}
    /\ late \subseteq Save
    /\ resynced \in BOOLEAN /\ declined \in BOOLEAN
    /\ last \in [ws: Workspaces, over: Nat, base: Revisions \cup {None}] \cup {None}
    /\ env \in Scenario
    /\ timer => put = None
    /\ followup => put # None
    /\ put # None /\ put.at = "answered" => put.res # None

\* A stale writer reverts every field the other tab changed (put_tournament_state):
\* a save the server accepts was edited from the very revision it replaces.
NoLostUpdate ==
    last # None => last.base = Revision(last.ws, last.over)

Pending == timer \/ put # None

\* The server has the document on screen, or has it without the mark on a schedule
\* that a sanctioned clear has removed on both sides.
Agrees(doc, stored) ==
    \/ stored = doc
    \/ ~doc.sched /\ stored = [doc EXCEPT !.stale = FALSE]

\* An open page with nothing under way or due, no error shown, and a server at the
\* revision this console knows.
AtRest ==
    /\ active # None /\ page.done
    /\ ~Pending /\ status # "error"
    /\ etag[active] = server[active].ver

\* Changes made while a save is in flight are not silently dropped (forceSaveNow):
\* at rest the server has the document on screen.  The code has two exceptions,
\* and they are the only ones: the edit of a declined save whose re-sync failed
\* stays until the next edit; and from a re-sync to the next ordinary save, an
\* edit that returns to the document acknowledged before it is taken for saved, as
\* is one that a left-over clearSchedule strips of its schedule.
UnsavedShown ==
    AtRest => \/ Agrees(store, server[active].doc)
              \/ declined
              \/ resynced /\ store = ack[active]

\* An edit settles: the server gets it, or the operator is told (an error, the
\* unlock question), unless the workspace is left or has been changed by someone
\* else, or the page is at one of the two exceptions of UnsavedShown.
EditSettles ==
    (active # None /\ page.done /\ ~Agrees(store, server[active].doc))
      ~> \/ active = None
         \/ Agrees(store, server[active].doc)
         \/ etag[active] # server[active].ver
         \/ status = "error"
         \/ put # None /\ put.at = "modal"
         \/ declined
         \/ resynced /\ store = ack[active]

\* Leftover state of a previously viewed workspace does not leak in (the load of
\* useTournamentState): no workspace is stored the document of another one.
OwnDocument ==
    \A w \in Workspaces : server[w].doc.of \in {w, None}
===============================================================================
