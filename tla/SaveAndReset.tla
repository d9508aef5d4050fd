---------------------------- MODULE SaveAndReset ----------------------------
(***************************************************************************)
(* How one tab saves its library and how a factory reset wipes it.         *)
(*                                                                         *)
(* Debounced autosaves, the manual save and the lifecycle flush put saves  *)
(* into the persistence coordinators; a running save needs the tab's       *)
(* IndexedDB connection, which it opens through the reset gate.  A factory *)
(* reset stops the autosaves, waits for the coordinators to drain, closes  *)
(* the connections through the gate, deletes the databases and reloads.    *)
(* IndexedDB itself is modelled as its queue of open and delete requests.  *)
(*                                                                         *)
(* A version of a resource is a number, 0 when nothing is stored.  The two *)
(* databases of the tab are one here, the DuckDB mirror is left to the     *)
(* search index, whose coordinator it shares the shape of, and the modules *)
(* with a connection of their own are the closers of the barrier.          *)
(***************************************************************************)
EXTENDS PersistenceCoordinator, IdbResetGate, FiniteSets

CONSTANTS
    Autosaves,          \* runs of the project autosave that may overlap
    Resets,             \* calls of wipeAllAppData
    ProjectAdmitted,    \* FALSE: a safe session may not save its project
    MaxEvents,          \* bound: edits, manual saves, flushes, resets, failing
                        \* saves and late closers in one behaviour
    MaxPasses           \* MAX_VERIFICATION_PASSES of a flush

ASSUME BoundsAssumption ==
    /\ MaxEvents \in Nat /\ MaxPasses \in Nat \ {0}
    /\ ProjectAdmitted \in BOOLEAN

VARIABLES
    edits,      \* the version of each resource in the Redux store
    armed,      \* resources whose debounce is running
    client,     \* where each caller of a coordinator stands
    coord,      \* the coordinators
    step,       \* where each coordinator's active save stands
    awaited,    \* the open request that save waits for
    idleWait,   \* who waits for each coordinator to be idle
    flush,      \* the lifecycle flush
    reset,      \* the factory resets
    flag,       \* isFactoryResetInProgress
    gate,       \* the reset gate
    barriers,   \* per barrier: closers still closing, and whether one failed
    conn,       \* generation of the cached connection, or None
    opening,    \* generation of the open in flight (stateDbPromise), or None
    requests,   \* IndexedDB's queue of requests for the database
    other,      \* another tab holds the database open
    stored,     \* what the database holds
    written,    \* the version the last successful save of a resource wrote
    page,       \* "live", or "reloaded"
    events      \* how many of MaxEvents have happened

saveVars  == <<edits, armed, client, coord, step, awaited, idleWait, flush>>
resetVars == <<reset, flag, gate, barriers>>
idbVars   == <<conn, opening, requests, other, stored, written>>
vars == <<saveVars, resetVars, idbVars, page, events>>

Resources == {"project", "settings", "index"}
Clients == Autosaves \cup {"settings", "manual", "index", "flushProject", "flushSettings"}
Tickets == {"flushProject", "flushSettings"}
Indexed == 1            \* what the index holds is not told apart

NoFlush == [pc |-> "none", pass |-> 0, upto |-> 0,
            mark |-> [r \in {"project", "settings"} |-> [seq |-> 0, activeAtMark |-> FALSE]],
            seen |-> [r \in {"project", "settings"} |-> 0],
            captured |-> [r \in {"project", "settings"} |-> 0]]

Init ==
    /\ edits = [r \in Resources |-> 1]
    /\ armed = {}
    /\ client = [c \in Clients |-> "none"]
    /\ coord = [r \in Resources |-> NewCoordinator]
    /\ step = [r \in Resources |-> "none"]
    /\ awaited = [r \in Resources |-> None]
    /\ idleWait = [r \in Resources |-> {}]
    /\ flush = NoFlush
    /\ reset = [x \in Resets |-> [pc |-> "none", barrier |-> None]]
    /\ flag = FALSE
    /\ gate = NewGate
    /\ barriers = [g \in {} |-> 0]
    /\ conn \in {None, NewGate.generation}
    /\ opening = None
    /\ requests = <<>>
    /\ other \in BOOLEAN
    /\ stored = [r \in Resources |-> 1]
    /\ written = [r \in Resources |-> 1]
    /\ page = "live"
    /\ events = 0

Event == events < MaxEvents /\ events' = events + 1

(***************************************************************************)
(* Entering a coordinator.  An idle one starts the save at once.           *)
(***************************************************************************)
Enqueue(r, who, version) ==
    /\ coord' = [coord EXCEPT ![r] = Enqueued(@, who, version)]
    /\ step' = [step EXCEPT ![r] = IF Idle(coord[r]) THEN "start" ELSE @]

(***************************************************************************)
(* The end of active saves, those of S: the coordinator answers its        *)
(* callers, goes on with the queued save, or wakes who waits for it to be  *)
(* idle.  A failed index update is caught inside the save.                 *)
(***************************************************************************)
EndsWell(r, ok) == ok \/ r = "index"

(* What a caller does with its answer: an autosave that was not superseded *)
(* goes on to the index, a flush keeps its answer, the others are done.    *)
Continued(who, answer) ==
    CASE who \in Tickets -> answer
      [] who \in Autosaves /\ answer = "saved" -> "indexing"
      [] OTHER -> "none"

AnswersTo(who, S, ok) ==
    UNION {{Answer(coord[r], w, EndsWell(r, ok)) :
               w \in {v \in Answered(coord[r], EndsWell(r, ok)) : v.client = who}} : r \in S}

NotWokenEver(r) == idleWait[r]

NotWoken(r) == IF coord[r].queued = NoSave THEN {} ELSE idleWait[r]

(* Generations and chain numbers are compared within a chain and by a      *)
(* flush only: between flushes an idle coordinator counts anew.            *)
Recycled(c) ==
    IF Idle(c) /\ flush.pc \in {"none", "ok", "failed"} THEN NewCoordinator ELSE c

EndSaves(S, ok) ==
    /\ coord' = [r \in Resources |->
                    IF r \in S THEN Recycled(Ended(coord[r], EndsWell(r, ok))) ELSE coord[r]]
    /\ step' = [r \in Resources |->
                    IF r \notin S THEN step[r]
                    ELSE IF coord[r].queued = NoSave THEN "none" ELSE "start"]
    /\ idleWait' = [r \in Resources |-> IF r \in S THEN NotWoken(r) ELSE idleWait[r]]
    /\ client' = [who \in Clients |->
                    IF AnswersTo(who, S, ok) = {} THEN client[who]
                    ELSE Continued(who, CHOOSE a \in AnswersTo(who, S, ok) : TRUE)]
    /\ awaited' = [r \in Resources |-> IF r \in S THEN None ELSE awaited[r]]

(***************************************************************************)
(* Saving: the editor and its listeners.                                   *)
(***************************************************************************)

(* An edit arms the debounce, cancelling the one that was running.         *)
Edit(r) ==
    /\ r # "index"
    /\ Event
    /\ edits' = [edits EXCEPT ![r] = @ + 1]
    /\ armed' = armed \cup {r}
    /\ UNCHANGED <<client, coord, step, awaited, idleWait, flush>>
    /\ UNCHANGED <<resetVars, idbVars, page>>

(* The debounce is over: during a reset nothing is saved.  The project is  *)
(* saved after a check of the storage's health, the settings at once.      *)
ProjectDebounced(a) ==
    /\ "project" \in armed
    /\ armed' = armed \ {"project"}
    /\ IF flag THEN client' = client
       ELSE client[a] = "none" /\ client' = [client EXCEPT ![a] = "health"]
    /\ UNCHANGED <<edits, coord, step, awaited, idleWait, flush>>
    /\ UNCHANGED <<resetVars, idbVars, page, events>>

(* The state is read after the health check, and the flag asked again.     *)
ProjectSaved(a) ==
    /\ client[a] = "health"
    /\ IF flag
       THEN client' = [client EXCEPT ![a] = "none"] /\ UNCHANGED <<coord, step>>
       ELSE /\ client' = [client EXCEPT ![a] = "waiting"]
            /\ Enqueue("project", a, edits["project"])
    /\ UNCHANGED <<edits, armed, awaited, idleWait, flush>>
    /\ UNCHANGED <<resetVars, idbVars, page, events>>

(* After a save that was not superseded, and after loading the index code, *)
(* the flag is asked a third time before the index update is enqueued.     *)
IndexProject(a) ==
    /\ client[a] = "indexing"
    /\ client' = [client EXCEPT ![a] = "none"]
    /\ IF flag THEN UNCHANGED <<coord, step>>
       ELSE Enqueue("index", "index", Indexed)
    /\ UNCHANGED <<edits, armed, awaited, idleWait, flush>>
    /\ UNCHANGED <<resetVars, idbVars, page, events>>

SettingsDebounced ==
    /\ "settings" \in armed
    /\ armed' = armed \ {"settings"}
    /\ IF flag THEN UNCHANGED <<client, coord, step>>
       ELSE /\ client["settings"] = "none"
            /\ client' = [client EXCEPT !["settings"] = "waiting"]
            /\ Enqueue("settings", "settings", edits["settings"])
    /\ UNCHANGED <<edits, awaited, idleWait, flush>>
    /\ UNCHANGED <<resetVars, idbVars, page, events>>

(* Ctrl+S saves at once, during a reset too.                               *)
ManualSave ==
    /\ client["manual"] = "none"
    /\ Event
    /\ client' = [client EXCEPT !["manual"] = "waiting"]
    /\ Enqueue("project", "manual", edits["project"])
    /\ UNCHANGED <<edits, armed, awaited, idleWait, flush>>
    /\ UNCHANGED <<resetVars, idbVars, page>>

(***************************************************************************)
(* A lifecycle flush (tab hidden, window closed, new app version): it      *)
(* saves both resources, waits until both coordinators are idle, and then  *)
(* checks that every chain since its start ended well, in passes until     *)
(* none started meanwhile.                                                 *)
(***************************************************************************)
Flushed == IF ProjectAdmitted THEN {"project", "settings"} ELSE {"settings"}

Ticket(r) == IF r = "project" THEN "flushProject" ELSE "flushSettings"

FlushBegin ==
    /\ flush.pc = "none"
    /\ ~flag
    /\ Event
    /\ flush' = [flush EXCEPT !.pc = "results",
                              !.mark = [r \in {"project", "settings"} |-> ChainMark(coord[r])],
                              !.captured = [r \in {"project", "settings"} |->
                                               IF r \in Flushed THEN edits[r] ELSE 0]]
    /\ client' = [c \in Clients |-> IF \E r \in Flushed : c = Ticket(r)
                                    THEN "waiting" ELSE client[c]]
    /\ coord' = [r \in Resources |-> IF r \in Flushed
                                     THEN Enqueued(coord[r], Ticket(r), edits[r]) ELSE coord[r]]
    /\ step' = [r \in Resources |-> IF r \in Flushed /\ Idle(coord[r]) THEN "start" ELSE step[r]]
    /\ UNCHANGED <<edits, armed, awaited, idleWait>>
    /\ UNCHANGED <<resetVars, idbVars, page>>

(* Both saves are answered; a coordinator may already run a newer one.     *)
FlushAnswered ==
    /\ flush.pc = "results"
    /\ \A t \in Tickets : client[t] # "waiting"
    /\ flush' = [flush EXCEPT !.pc = "drain"]
    /\ idleWait' = [r \in Resources |->
                       IF r # "index" /\ ~Idle(coord[r]) THEN idleWait[r] \cup {"flush"}
                       ELSE idleWait[r]]
    /\ UNCHANGED <<edits, armed, client, coord, step, awaited>>
    /\ UNCHANGED <<resetVars, idbVars, page, events>>

(* One half of a pass looks at the chains of r there are now.              *)
LookAt(f, r) ==
    IF HistoryCovers(coord[r], f.mark[r])
    THEN [f EXCEPT !.pc = r, !.upto = Len(coord[r].chains)]
    ELSE [f EXCEPT !.pc = "failed"]

NextPassTrusting(f) == [f EXCEPT !.pc = "ok"]

NextPass(f) ==
    IF f.pass = MaxPasses THEN [f EXCEPT !.pc = "failed"]
    ELSE LookAt([f EXCEPT !.pass = @ + 1,
                          !.seen = [r \in {"project", "settings"} |-> Len(coord[r].chains)]],
                "settings")

FlushDrained ==
    /\ flush.pc = "drain"
    /\ \A r \in Resources : "flush" \notin idleWait[r]
    /\ client' = [c \in Clients |-> IF c \in Tickets THEN "none" ELSE client[c]]
    /\ flush' = IF \E t \in Tickets : client[t] = "failed"
                THEN [flush EXCEPT !.pc = "failed"] ELSE NextPass(flush)
    /\ UNCHANGED <<edits, armed, coord, step, awaited, idleWait>>
    /\ UNCHANGED <<resetVars, idbVars, page, events>>

Observed(r) == {coord[r].chains[i] : i \in FirstSince(flush.mark[r]) .. flush.upto}

(* After the settings the project, after the project the comparison.       *)
FlushVerify(r) ==
    /\ flush.pc = r
    /\ "open" \notin Observed(r)
    /\ flush' = IF "failed" \in Observed(r) THEN [flush EXCEPT !.pc = "failed"]
                ELSE IF r = "settings" THEN LookAt(flush, "project")
                ELSE IF \A q \in {"project", "settings"} : flush.seen[q] = Len(coord[q].chains)
                     THEN [flush EXCEPT !.pc = "ok"] ELSE NextPass(flush)
    /\ UNCHANGED <<edits, armed, client, coord, step, awaited, idleWait>>
    /\ UNCHANGED <<resetVars, idbVars, page, events>>

(* The flush returns to its caller, which may flush again.                 *)
FlushReturned ==
    /\ flush.pc \in {"ok", "failed"}
    /\ flush' = NoFlush
    /\ coord' = [r \in Resources |-> Recycled(coord[r])]
    /\ UNCHANGED <<edits, armed, client, step, awaited, idleWait>>
    /\ UNCHANGED <<resetVars, idbVars, page, events>>

(***************************************************************************)
(* The storage under a save: one connection, opened through the gate, and  *)
(* one transaction.                                                        *)
(***************************************************************************)

(* The save takes the cached connection, joins the open in flight, starts  *)
(* one, or is refused because of a reset.                                  *)
SaveNeedsConnection(r) ==
    /\ step[r] = "start"
    /\ \/ /\ conn # None
          /\ step' = [step EXCEPT ![r] = "tx"]
          /\ UNCHANGED <<awaited, opening, requests, client, coord, idleWait>>
       \/ /\ conn = None /\ opening # None
          /\ step' = [step EXCEPT ![r] = "opening"]
          /\ awaited' = [awaited EXCEPT ![r] = opening]
          /\ UNCHANGED <<opening, requests, client, coord, idleWait>>
       \/ /\ conn = None /\ opening = None /\ OpenAdmitted(gate)
          /\ opening' = gate.generation
          /\ requests' = Append(requests, [op |-> "open", id |-> gate.generation])
          /\ step' = [step EXCEPT ![r] = "opening"]
          /\ awaited' = [awaited EXCEPT ![r] = gate.generation]
          /\ UNCHANGED <<client, coord, idleWait>>
       \/ /\ conn = None /\ opening = None /\ ~OpenAdmitted(gate)
          /\ EndSaves({r}, FALSE)
          /\ UNCHANGED <<opening, requests>>
    /\ UNCHANGED <<edits, armed, flush>>
    /\ UNCHANGED <<resetVars, conn, other, stored, written, page, events>>

HeadIs(op) == requests # <<>> /\ Head(requests).op = op

(* An open that a reset has overtaken is closed again, and the saves that  *)
(* waited for it fail.                                                     *)
Opened ==
    /\ HeadIs("open")
    /\ requests' = Tail(requests)
    /\ LET generation == Head(requests).id
           waiting == {r \in Resources : step[r] = "opening" /\ awaited[r] = generation}
       IN  /\ opening' = IF opening = generation THEN None ELSE opening
           /\ IF OpenStillValid(gate, generation)
              THEN /\ conn' = generation
                   /\ step' = [r \in Resources |-> IF r \in waiting THEN "start" ELSE step[r]]
                   /\ awaited' = [r \in Resources |-> IF r \in waiting THEN None ELSE awaited[r]]
                   /\ UNCHANGED <<client, coord, idleWait>>
              ELSE EndSaves(waiting, FALSE) /\ conn' = conn
    /\ UNCHANGED <<edits, armed, flush>>
    /\ UNCHANGED <<resetVars, other, stored, written, page, events>>

Commit(r) ==
    /\ step[r] = "tx"
    /\ stored' = [stored EXCEPT ![r] = coord[r].active.version]
    /\ written' = [written EXCEPT ![r] = coord[r].active.version]
    /\ EndSaves({r}, TRUE)
    /\ UNCHANGED <<edits, armed, flush>>
    /\ UNCHANGED <<resetVars, conn, opening, requests, other, page, events>>

(* IndexedDB aborts the transaction (quota, disk) and the retries with it. *)
SaveFails(r) ==
    /\ step[r] = "tx"
    /\ Event
    /\ EndSaves({r}, FALSE)
    /\ UNCHANGED <<edits, armed, flush>>
    /\ UNCHANGED <<resetVars, idbVars, page>>

(* The other tab closes its connection, perhaps after a reset gave up.        *)
OtherTabCloses ==
    /\ other /\ HeadIs("delete")
    /\ other' = FALSE
    /\ UNCHANGED <<saveVars, resetVars, conn, opening, requests, stored, written, page, events>>

(* A deletion at the head of the queue asks every connection to close; the *)
(* tab's own does (onversionchange).                                       *)
VersionChange ==
    /\ HeadIs("delete")
    /\ conn # None
    /\ conn' = None
    /\ UNCHANGED <<saveVars, resetVars, opening, requests, other, stored, written, page, events>>

(* It runs when no connection is left and no transaction either.           *)
Deleted ==
    /\ HeadIs("delete")
    /\ conn = None /\ ~other /\ \A r \in Resources : step[r] # "tx"
    /\ LET x == Head(requests).id
       IN  reset' = IF reset[x].pc = "deleting" THEN [reset EXCEPT ![x].pc = "deleted"] ELSE reset
    /\ requests' = Tail(requests)
    /\ stored' = [r \in Resources |-> 0]
    /\ UNCHANGED <<saveVars, flag, gate, barriers, conn, opening, other, written, page, events>>

(***************************************************************************)
(* A factory reset.                                                        *)
(***************************************************************************)
ResetBegin(x) ==
    /\ reset[x].pc = "none"
    /\ Event
    /\ reset' = [reset EXCEPT ![x].pc = "drain"]
    /\ flag' = TRUE
    /\ idleWait' = [r \in Resources |->
                       IF Idle(coord[r]) THEN idleWait[r] ELSE idleWait[r] \cup {x}]
    /\ UNCHANGED <<edits, armed, client, coord, step, awaited, flush>>
    /\ UNCHANGED <<gate, barriers, idbVars, page>>

(* The coordinators are drained: the gate closes and every closer runs;    *)
(* the tab's own connection is closed at once, another closer takes time.  *)
ResetDrained(x) ==
    /\ reset[x].pc = "drain"
    /\ \A r \in Resources : x \notin idleWait[r]
    /\ reset' = [reset EXCEPT ![x] = [pc |-> "close", barrier |-> BarrierOf(gate)]]
    /\ gate' = ResetBegun(gate)
    /\ IF JoinsBarrier(gate)
       THEN UNCHANGED <<barriers, conn, opening>>
       ELSE /\ barriers' = [g \in DOMAIN barriers \cup {BarrierOf(gate)} |->
                               IF g \in DOMAIN barriers THEN barriers[g]
                               ELSE [pending |-> 1, failed |-> FALSE]]
            /\ conn' = None /\ opening' = None
    /\ UNCHANGED <<saveVars, flag, requests, other, stored, written, page, events>>

CloserSettles(g, ok) ==
    /\ g \in DOMAIN barriers /\ barriers[g].pending > 0
    /\ barriers' = [barriers EXCEPT ![g].pending = @ - 1, ![g].failed = @ \/ ~ok]
    /\ UNCHANGED <<saveVars, reset, flag, gate, idbVars, page, events>>

(* A module loaded during a reset registers its closer with the barrier    *)
(* the reset waits on.                                                     *)
LateCloser ==
    /\ gate.inReset /\ JoinsBarrier(gate)
    /\ Event
    /\ barriers' = [barriers EXCEPT ![gate.barrier].pending = @ + 1]
    /\ UNCHANGED <<saveVars, reset, flag, gate, idbVars, page>>

(* A failed reset lifts both gates, whoever else is resetting.             *)
ResetFails(x, newGate) ==
    /\ reset' = [reset EXCEPT ![x].pc = "failed"]
    /\ flag' = FALSE
    /\ gate' = ResetEnded(newGate)

ResetClosed(x) ==
    /\ reset[x].pc = "close"
    /\ barriers[reset[x].barrier].pending = 0
    /\ IF barriers[reset[x].barrier].failed
       THEN ResetFails(x, BarrierLeft(gate, reset[x].barrier)) /\ UNCHANGED requests
       ELSE /\ reset' = [reset EXCEPT ![x].pc = "deleting"]
            /\ gate' = BarrierLeft(gate, reset[x].barrier)
            /\ requests' = Append(requests, [op |-> "delete", id |-> x])
            /\ flag' = flag
    /\ UNCHANGED <<saveVars, barriers, conn, opening, other, stored, written, page, events>>

(* The other tab keeps the deletion waiting for three seconds: the reset   *)
(* gives up, the request does not.                                         *)
DeletionBlocked(x) ==
    /\ reset[x].pc = "deleting"
    /\ HeadIs("delete") /\ Head(requests).id = x
    /\ other
    /\ ResetFails(x, gate)
    /\ UNCHANGED <<saveVars, barriers, idbVars, page, events>>

Reload(x) ==
    /\ reset[x].pc = "deleted"
    /\ page' = "reloaded"
    /\ UNCHANGED <<saveVars, resetVars, idbVars, events>>

User ==
    \/ \E r \in Resources : Edit(r)
    \/ ManualSave
    \/ FlushBegin
    \/ \E x \in Resets : ResetBegin(x)
    \/ LateCloser

Continuations ==
    \/ \E a \in Autosaves : ProjectDebounced(a) \/ ProjectSaved(a) \/ IndexProject(a)
    \/ SettingsDebounced
    \/ FlushAnswered \/ FlushDrained \/ FlushReturned
    \/ \E r \in {"project", "settings"} : FlushVerify(r)
    \/ \E x \in Resets : ResetDrained(x) \/ ResetClosed(x) \/ Reload(x)
    \/ \E r \in Resources : SaveNeedsConnection(r)

Database ==
    \/ Opened
    \/ VersionChange
    \/ Deleted
    \/ \E r \in Resources : Commit(r) \/ SaveFails(r)
    \/ \E g \in DOMAIN barriers, ok \in BOOLEAN : CloserSettles(g, ok)

Next ==
    /\ page = "live"
    /\ \/ User \/ Continuations \/ Database
       \/ OtherTabCloses
       \/ \E x \in Resets : DeletionBlocked(x)

(* The event loop runs what is due, IndexedDB answers, a closer settles,   *)
(* a timer fires and the other tab closes its connection when asked to     *)
(* (its onversionchange).  Nothing makes the user act.                     *)
Fairness ==
    /\ \A a \in Autosaves : WF_vars(page = "live" /\ (ProjectSaved(a) \/ IndexProject(a)))
    /\ WF_vars(page = "live" /\ (\/ FlushAnswered \/ FlushDrained \/ FlushReturned
                                 \/ \E r \in {"project", "settings"} : FlushVerify(r)))
    /\ \A x \in Resets : WF_vars(page = "live" /\ (\/ ResetDrained(x) \/ ResetClosed(x)
                                                   \/ DeletionBlocked(x) \/ Reload(x)))
    /\ \A r \in Resources : WF_vars(page = "live" /\ (SaveNeedsConnection(r) \/ Commit(r)))
    /\ WF_vars(page = "live" /\ (Opened \/ VersionChange \/ Deleted))
    /\ WF_vars(page = "live" /\ OtherTabCloses)
    /\ \A g \in 1 .. Cardinality(Resets) + 1 :
           WF_vars(page = "live" /\ g \in DOMAIN barriers /\ \E ok \in BOOLEAN : CloserSettles(g, ok))

Spec == Init /\ [][Next]_vars /\ Fairness

-----------------------------------------------------------------------------
TypeOK ==
    /\ edits \in [Resources -> 0 .. MaxEvents + 1]
    /\ armed \subseteq {"project", "settings"}
    /\ client \in [Clients -> {"none", "health", "waiting", "indexing", "saved", "superseded", "failed"}]
    /\ \A r \in Resources : coord[r].queued # NoSave => coord[r].active # NoSave
    /\ step \in [Resources -> {"none", "start", "opening", "tx"}]
    /\ \A r \in Resources : step[r] = "none" <=> coord[r].active = NoSave
    /\ awaited \in [Resources -> Nat]
    /\ idleWait \in [Resources -> SUBSET (Resets \cup {"flush"})]
    /\ reset \in [Resets -> [pc : {"none", "drain", "close", "deleting", "deleted", "failed"},
                             barrier : Nat]]
    /\ flag \in BOOLEAN /\ other \in BOOLEAN
    /\ gate \in [inReset : BOOLEAN, generation : Nat, barrier : Nat]
    /\ conn \in Nat /\ opening \in Nat
    /\ stored \in [Resources -> 0 .. MaxEvents + 1]
    /\ page \in {"live", "reloaded"}

(* idbResetGate.ts promises that no connection opened before or during a   *)
(* reset is used after it, even after a reset that failed.                 *)
NoStaleConnection ==
    /\ conn # None => ~gate.inReset /\ conn = gate.generation
    /\ opening # None => opening = gate.generation

Empty == \A r \in Resources : stored[r] = 0 /\ step[r] # "tx"

(* No failing reset lifted the flag of the one that reloads: none failed,  *)
(* or it is the only one that has begun and not failed.  (A third reset    *)
(* raises the flag again, which tells nothing about the other two.)        *)
Undisturbed ==
    /\ flag
    /\ \/ \A x \in Resets : reset[x].pc # "failed"
       \/ \E x \in Resets : \A y \in Resets \ {x} : reset[y].pc \in {"none", "failed"}

(* "After the reload the app starts as a fresh install"                    *)
(* (services/factoryResetService.ts:213): the library is empty and nothing *)
(* is writing into it, whatever saves were under way, a manual one in its  *)
(* middle included.                                                        *)
ResetLeavesNothing == page = "reloaded" /\ Undisturbed => Empty

(* No reset deletes while a closer is unsettled that joined its barrier or *)
(* an earlier one.                                                         *)
TornDownBeforeDeletion ==
    [][\A x \in Resets : reset[x].pc = "close" /\ reset'[x].pc = "deleting" =>
           \A g \in DOMAIN barriers : g <= reset[x].barrier => barriers[g].pending = 0]_vars

(* A flush that returns has saved what it captured, and nothing newer was  *)
(* left unsaved or failed: the newest save of each resource is the one     *)
(* written last, though other savers superseded the flush's own.           *)
FlushMeansSaved ==
    [][flush.pc # "ok" /\ flush'.pc = "ok" =>
           \A r \in Flushed : /\ Idle(coord[r])
                              /\ coord[r].chains[Len(coord[r].chains)] = "ok"
                              /\ written[r] >= flush.captured[r]]_vars

(* Saves overtake each other in the queue but never in the library.        *)
NeverOlder ==
    [][\A r \in Resources : written'[r] >= written[r]]_vars

(* Every save is answered, a flush and a reset come to an end: nobody      *)
(* waits for ever for a coordinator to be idle.                            *)
EverythingSettles ==
    /\ \A c \in Clients : client[c] = "waiting" ~> client[c] # "waiting" \/ page = "reloaded"
    /\ flush.pc # "none" ~> flush.pc \in {"ok", "failed"} \/ page = "reloaded"
    /\ \A x \in Resets : reset[x].pc # "none" ~> reset[x].pc = "failed" \/ page = "reloaded"
=============================================================================
