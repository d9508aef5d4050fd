-------------------------- MODULE CanonicalAutosave --------------------------
(***************************************************************************)
(* The web autosave of a project: services/projectAutosaveCanonicalWriter  *)
(* over services/storage/idbProjectCanonicalAuthority, with the editor     *)
(* epochs of services/editorProjectGeneration.  Several tabs of one origin *)
(* share the one project record and its generation record ("marker").      *)
(*                                                                         *)
(* A project's modelled content is [line, ver]: the lineage it belongs to  *)
(* (each reset, import and restore starts a new one) and its last edit.    *)
(* What a record's text holds beyond what this build models - opaque       *)
(* fields, exact number tokens - is named by the lineage it came from, or  *)
(* None for a text built from the editor's project alone.  All projects    *)
(* have the same id, as a library's default projects do.  Generations and  *)
(* raw bytes are compared by value.                                        *)
(***************************************************************************)
EXTENDS Naturals

CONSTANTS
    Tabs,       \* windows of this build on one origin
    MaxEvents   \* bound: user steps, failures and foreign writes

ASSUME AutosaveAssumption == MaxEvents \in Nat

None == 0
Lines == 0 .. MaxEvents + 2     \* a lineage per replacement, first and blank one
Vers == 0 .. MaxEvents
Epochs == 0 .. MaxEvents
NoEpoch == MaxEvents + 1

Kinds == {"absent", "current", "legacy", "future"}
Records == [kind : Kinds, line : Lines, ver : Vers, text : Lines]
Absent == [kind |-> "absent", line |-> None, ver |-> 0, text |-> None]

Projects == [line : Lines, ver : Vers, epoch : Epochs]
NoCarrier == [line |-> None, epoch |-> 0]

VARIABLES
    stored,     \* the value under PROJECT_RECORD_KEY
    marker,     \* does the generation record say `migrated`?
    up,         \* the tabs that run
    editor,     \* present project of each tab: data and generation
    past,       \* where one undo (redo) across the last replacement leads
    dirty,      \* has the project changed since a save captured it?
    baseline,   \* epoch of the last committed save, or NoEpoch
    carrier,    \* replacementCarrier: the text an import or restore admitted
    op,         \* the save in flight
    events,     \* events so far
    lines,      \* lineages so far
    known,      \* history: the record as the tab loaded or last wrote it
    owed,       \* history: the imported lineage whose text no save kept yet
    named       \* history: the epochs of each tab and the lineages they named

tabVars == <<up, editor, past, dirty, baseline, carrier, known, owed, named>>
vars == <<stored, marker, tabVars, op, events, lines>>

NoPast == [to |-> [line |-> None, ver |-> 0, epoch |-> 0],
           ready |-> FALSE, redo |-> FALSE]
Idle == [pc |-> "idle", snap |-> NoPast.to, replace |-> FALSE, carry |-> None,
         tries |-> 0, migrated |-> FALSE, how |-> "none",
         seen |-> Absent, next |-> Absent]

\* Saves, loads, closings: everything the bounded events do not count is
\* finite by itself.
Event == events < MaxEvents /\ events' = events + 1

-----------------------------------------------------------------------------
(* Classification and the texts a save writes.                             *)

\* A legacy record beside a marker is a stale write that superseded a
\* migrated one: GENERATION_CONTRADICTION.
Contradiction(s, m) == s.kind = "legacy" /\ m
Migratable(s, m) == s.kind = "legacy" /\ ~m

Current(p, text) ==
    [kind |-> "current", line |-> p.line, ver |-> p.ver, text |-> text]

\* An owned edit goes into the stored text; a replacement is the carrier's
\* text or a fresh one; the first record of a library is always fresh.
Edited(o) == Current(o.snap, o.seen.text)
Replaced(o) == Current(o.snap, o.carry)
Created(o) == Current(o.snap, None)

\* Mutant: only the boot epoch is compared.
ReplacementPendingAtBoot(t, e) == baseline[t] = NoEpoch /\ e # 0
ReplacementPending(t, e) ==
    IF baseline[t] = NoEpoch THEN e # 0 ELSE baseline[t] # e

CarrierFor(t, e) == IF carrier[t].epoch = e THEN carrier[t].line ELSE None

\* Mutant: whichever save commits drops the carrier.
ConsumesAny(t, e) == TRUE
\* Only the save of the carrier's own epoch consumes it.
Consumes(t, e) == carrier[t].epoch = e

\* Mutant: no comparison inside the write transaction.
UnfencedRecord(s, o) == TRUE
\* The fence: the raw value inside the transaction is the one the save read.
SameRecord(s, o) == s = o.seen

-----------------------------------------------------------------------------
Init ==
    /\ stored \in {Absent} \cup
          [kind : Kinds \ {"absent"}, line : {1}, ver : {0}, text : {1}]
    /\ marker = (stored.kind = "current")
    /\ up = {}
    /\ editor = [t \in Tabs |-> NoPast.to]
    /\ past = [t \in Tabs |-> NoPast]
    /\ dirty = [t \in Tabs |-> FALSE]
    /\ baseline = [t \in Tabs |-> NoEpoch]
    /\ carrier = [t \in Tabs |-> NoCarrier]
    /\ op = [t \in Tabs |-> Idle]
    /\ events = 0
    /\ lines = 1
    /\ known = [t \in Tabs |-> Absent]
    /\ owed = [t \in Tabs |-> None]
    /\ named = [t \in Tabs |-> {}]

\* Boot: the stored project whatever its version, or a blank one; epoch 0.
Load(t) ==
    /\ t \notin up
    /\ up' = up \cup {t}
    /\ LET fresh == stored.kind = "absent" IN
       /\ lines' = IF fresh THEN lines + 1 ELSE lines
       /\ editor' = [editor EXCEPT ![t] =
             [line |-> IF fresh THEN lines + 1 ELSE stored.line,
              ver |-> stored.ver, epoch |-> 0]]
    /\ lines' \in Lines
    /\ named' = [named EXCEPT ![t] = {<<0, editor'[t].line>>}]
    /\ known' = [known EXCEPT ![t] = stored]
    /\ UNCHANGED <<stored, marker, past, dirty, baseline, carrier, owed, op,
                   events>>

\* The tab goes away in the middle of whatever it does.
Close(t) ==
    /\ t \in up
    /\ Event
    /\ up' = up \ {t}
    /\ editor' = [editor EXCEPT ![t] = NoPast.to]
    /\ past' = [past EXCEPT ![t] = NoPast]
    /\ dirty' = [dirty EXCEPT ![t] = FALSE]
    /\ baseline' = [baseline EXCEPT ![t] = NoEpoch]
    /\ carrier' = [carrier EXCEPT ![t] = NoCarrier]
    /\ op' = [op EXCEPT ![t] = Idle]
    /\ known' = [known EXCEPT ![t] = Absent]
    /\ owed' = [owed EXCEPT ![t] = None]
    /\ named' = [named EXCEPT ![t] = {}]
    /\ UNCHANGED <<stored, marker, lines>>

\* An undoable action: an import can be undone from now on, an undone
\* replacement can no longer be redone.
Edit(t) ==
    /\ t \in up
    /\ Event
    /\ editor' = [editor EXCEPT ![t].ver = events + 1]
    /\ dirty' = [dirty EXCEPT ![t] = TRUE]
    /\ past' = [past EXCEPT ![t] =
          IF @.redo THEN NoPast
          ELSE [@ EXCEPT !.ready = past[t].ready \/ past[t].to.line # None]]
    /\ UNCHANGED <<stored, marker, up, baseline, carrier, op, lines, known,
                   owed, named>>

\* What redux-undo last saw unfiltered: an import is filtered, so until the
\* next edit it is still the project of before the import.
LatestUnfiltered(t) ==
    IF past[t].to.line # None /\ ~past[t].ready THEN past[t].to ELSE editor[t]

\* A new project at the epoch after the present one, which an undo may have
\* taken back.  The root reducer empties the history, and redux-undo then
\* adds what it last saw unfiltered: at once for a reset, with the next edit
\* for an import or a restore.
NewProject(t, undoable) ==
    /\ t \in up
    /\ Event
    /\ lines + 1 \in Lines
    /\ lines' = lines + 1
    /\ editor' = [editor EXCEPT ![t] =
          [line |-> lines + 1, ver |-> events + 1, epoch |-> @.epoch + 1]]
    /\ past' = [past EXCEPT ![t] =
          [to |-> LatestUnfiltered(t), ready |-> undoable, redo |-> FALSE]]
    /\ named' = [named EXCEPT ![t] = @ \cup {<<editor[t].epoch + 1, lines + 1>>}]
    /\ dirty' = [dirty EXCEPT ![t] = TRUE]
    /\ UNCHANGED <<stored, marker, up, baseline, op, known>>

Reset(t) ==
    /\ NewProject(t, TRUE)
    /\ owed' = [owed EXCEPT ![t] = None]
    /\ UNCHANGED carrier

\* An import or a restore binds the text it admitted to the new epoch.
Import(t) ==
    /\ NewProject(t, FALSE)
    /\ carrier' = [carrier EXCEPT ![t] =
          [line |-> lines + 1, epoch |-> editor[t].epoch + 1]]
    /\ owed' = [owed EXCEPT ![t] = lines + 1]

\* Undo across the last replacement, or redo it: the generation is part of
\* the project slice and goes back with it.
Undo(t) ==
    /\ t \in up
    /\ past[t].ready
    /\ Event
    /\ editor' = [editor EXCEPT ![t] = past[t].to]
    /\ past' = [past EXCEPT ![t] =
          [to |-> editor[t], ready |-> TRUE, redo |-> ~@.redo]]
    /\ dirty' = [dirty EXCEPT ![t] = TRUE]
    /\ owed' = [owed EXCEPT ![t] = None]
    /\ UNCHANGED <<stored, marker, up, baseline, carrier, op, lines, known,
                   named>>

-----------------------------------------------------------------------------
(* The save of one tab; the coordinator runs one at a time.                *)

End(t) == op' = [op EXCEPT ![t] = Idle]

\* The debounced listener captures the project and its epoch.
Capture(t) ==
    /\ t \in up /\ dirty[t] /\ op[t].pc = "idle"
    /\ op' = [op EXCEPT ![t] = [Idle EXCEPT !.pc = "queued", !.snap = editor[t]]]
    /\ dirty' = [dirty EXCEPT ![t] = FALSE]
    /\ UNCHANGED <<stored, marker, up, editor, past, baseline, carrier, known,
                   owed, named, events, lines>>

\* Its turn comes: only now are baseline and carrier read.
Dispatch(t) ==
    /\ op[t].pc = "queued"
    /\ LET e == op[t].snap.epoch
           replace == ReplacementPending(t, e) IN
       op' = [op EXCEPT ![t].pc = "evaluate", ![t].tries = 1,
                        ![t].replace = replace,
                        ![t].carry = IF replace THEN CarrierFor(t, e) ELSE None]
    /\ UNCHANGED <<stored, marker, tabVars, events, lines>>

\* One admission of the record: create, edit or replace, migrate, or refuse.
Evaluate(t) ==
    /\ op[t].pc = "evaluate"
    /\ \/ /\ stored.kind = "absent" /\ ~op[t].migrated
          /\ op' = [op EXCEPT ![t].pc = "write", ![t].how = "create",
                              ![t].seen = Absent, ![t].next = Created(op[t])]
       \/ /\ stored.kind = "current"
          /\ op' = [op EXCEPT ![t].pc = "commit", ![t].seen = stored]
       \/ /\ Migratable(stored, marker) /\ ~op[t].migrated
          /\ op' = [op EXCEPT ![t].pc = "migrate"]
       \/ /\ \/ stored.kind = "future"
             \/ Contradiction(stored, marker)
             \/ op[t].migrated /\ stored.kind # "current"
          /\ End(t)
    /\ UNCHANGED <<stored, marker, tabVars, events, lines>>

\* The authority reads again; another record than the admitted one is refused.
Commit(t) ==
    /\ op[t].pc = "commit"
    /\ IF stored = op[t].seen
       THEN op' = [op EXCEPT
                ![t].pc = "write",
                ![t].how = IF op[t].replace THEN "replace" ELSE "edit",
                ![t].next = IF op[t].replace THEN Replaced(op[t])
                                             ELSE Edited(op[t])]
       ELSE End(t)
    /\ UNCHANGED <<stored, marker, tabVars, events, lines>>

\* Mutant: a save looks as often as it is sent back.
LookAgainAlways(t) ==
    op' = [op EXCEPT ![t].pc = "evaluate", ![t].tries = @ + 1]
\* The one fresh evaluation a save may make.
LookAgain(t) ==
    IF op[t].tries = 1
    THEN op' = [op EXCEPT ![t].pc = "evaluate", ![t].tries = 2]
    ELSE End(t)

\* commitLegacyToV1Migration reads the record itself.
Migrate(t) ==
    /\ op[t].pc = "migrate"
    /\ \/ /\ Migratable(stored, marker)
          /\ op' = [op EXCEPT ![t].pc = "write", ![t].how = "migrate",
                ![t].seen = stored, ![t].next = [stored EXCEPT !.kind = "current"]]
       \/ /\ stored.kind = "current"
          /\ LookAgain(t)
       \/ /\ stored.kind = "future" \/ Contradiction(stored, marker)
          /\ End(t)
    /\ UNCHANGED <<stored, marker, tabVars, events, lines>>

\* Both records are put in one transaction that first compares the project's.
Put(t) ==
    /\ op[t].pc = "write"
    /\ SameRecord(stored, op[t])
    /\ stored' = op[t].next
    /\ marker' = TRUE

\* The migration of a stored project, then the save itself in the same call.
Migrated(t) ==
    /\ op[t].how = "migrate"
    /\ Put(t)
    /\ IF op[t].tries = 1
       THEN op' = [op EXCEPT ![t].pc = "evaluate", ![t].tries = 2,
                             ![t].migrated = TRUE]
       ELSE End(t)
    /\ known' = [known EXCEPT ![t] = IF @ = stored THEN op[t].next ELSE @]
    /\ UNCHANGED <<up, editor, past, dirty, baseline, carrier, owed, named,
                   events, lines>>

\* A committed save: its epoch becomes the baseline.
Saved(t) ==
    /\ op[t].how \in {"create", "edit", "replace"}
    /\ Put(t)
    /\ LET e == op[t].snap.epoch IN
       /\ baseline' = [baseline EXCEPT ![t] = e]
       /\ carrier' = [carrier EXCEPT ![t] = IF Consumes(t, e) THEN NoCarrier ELSE @]
    /\ known' = [known EXCEPT ![t] = op[t].next]
    /\ owed' = [owed EXCEPT ![t] = IF @ = op[t].snap.line THEN None ELSE @]
    /\ End(t)
    /\ UNCHANGED <<up, editor, past, dirty, named, events, lines>>

\* The record changed under the save: nothing is written; a creation looks
\* once more.
Conflict(t) ==
    /\ op[t].pc = "write"
    /\ ~SameRecord(stored, op[t])
    /\ IF op[t].how = "create" THEN LookAgain(t) ELSE End(t)
    /\ UNCHANGED <<stored, marker, tabVars, events, lines>>

\* A rejected request, an aborted transaction, a failed verification: the
\* save rejects, and only the next change of the project saves again.
Fail(t) ==
    /\ op[t].pc # "idle"
    /\ Event
    /\ End(t)
    /\ UNCHANGED <<stored, marker, tabVars, lines>>

-----------------------------------------------------------------------------
(* Other builds on the same origin.                                        *)

\* A build of before the versions saves its whole project, unfenced, and
\* knows nothing of the generation record.
OldBuildWrites ==
    /\ Event
    /\ stored' = [kind |-> "legacy", ver |-> events + 1,
                  line |-> IF stored.kind = "absent" THEN 1 ELSE stored.line,
                  text |-> IF stored.kind = "absent" THEN 1 ELSE stored.text]
    /\ UNCHANGED <<marker, tabVars, op, lines>>

\* A later build upgrades the project to a schema this one does not know.
NewBuildWrites ==
    /\ Event
    /\ stored.kind = "current"
    /\ stored' = [stored EXCEPT !.kind = "future", !.ver = events + 1]
    /\ UNCHANGED <<marker, tabVars, op, lines>>

Next ==
    \/ \E t \in Tabs :
          \/ Load(t) \/ Close(t) \/ Edit(t) \/ Reset(t) \/ Import(t) \/ Undo(t)
          \/ Capture(t) \/ Dispatch(t) \/ Evaluate(t) \/ Commit(t)
          \/ Migrate(t) \/ Migrated(t) \/ Saved(t) \/ Conflict(t) \/ Fail(t)
    \/ OldBuildWrites
    \/ NewBuildWrites

Spec == Init /\ [][Next]_vars

-----------------------------------------------------------------------------
(* Types.  A save evaluates the record at most twice: "exactly one         *)
(* re-evaluation per invocation".                                          *)

Ops == [pc : {"idle", "queued", "evaluate", "commit", "migrate", "write"},
        snap : Projects, replace : BOOLEAN, carry : Lines, tries : 0 .. 2,
        migrated : BOOLEAN, how : {"none", "create", "edit", "replace", "migrate"},
        seen : Records, next : Records]

TypeOK ==
    /\ stored \in Records
    /\ marker \in BOOLEAN
    /\ up \subseteq Tabs
    /\ editor \in [Tabs -> Projects]
    /\ past \in [Tabs -> [to : Projects, ready : BOOLEAN, redo : BOOLEAN]]
    /\ dirty \in [Tabs -> BOOLEAN]
    /\ baseline \in [Tabs -> Epochs \cup {NoEpoch}]
    /\ carrier \in [Tabs -> [line : Lines, epoch : Epochs]]
    /\ op \in [Tabs -> Ops]
    /\ events \in 0 .. MaxEvents
    /\ lines \in Lines
    /\ known \in [Tabs -> Records]
    /\ owed \in [Tabs -> Lines]
    /\ named \in [Tabs -> SUBSET (Epochs \X Lines)]

-----------------------------------------------------------------------------
(* Properties.                                                             *)

Writes(t) == op[t].pc = "write" /\ op'[t].pc # "write" /\ stored' # stored

\* A save never replaces a record of a later build, or a stale record that
\* superseded a migrated one, whatever was written between its reads and its
\* transaction (the refusals of evaluateOnce and of the authority).
StoredVersionRespected ==
    [][\A t \in Tabs : Writes(t) =>
          \/ stored.kind \in {"absent", "current"}
          \/ Migratable(stored, marker)]_vars

\* The epoch has named one lineage only in this tab.  Replacements count on
\* from the epoch an undo went back to, so an epoch may name a second one.
OneLineage(t, e) ==
    \A n, m \in named[t] : n[1] = e /\ m[1] = e => n[2] = m[2]

\* When nobody else wrote since the tab loaded or last wrote the record, an
\* edit is merged only into the text of the project it belongs to, and a
\* replacement starts from its own admitted text or from none: a reset,
\* import, restore or undo across one does not inherit the predecessor's text
\* (isReplacementPending, editorReplacementRaw).  For saves whose epoch named
\* one lineage only; EpochDistinguishes is the rest.
MergesOwnText ==
    [][\A t \in Tabs :
          Writes(t) /\ OneLineage(t, op[t].snap.epoch) =>
             /\ op[t].how = "edit" /\ stored = known[t]
                   => stored'.line = stored.line
             /\ op[t].how = "replace" => stored'.text \in {None, stored'.line}]_vars

\* The same of every edit: the epoch "distinguishes this import from any other
\* project state that also happens to keep the same id" (projectSlice.ts:83),
\* a reset "from any other one that also happens to keep id:'default'"
\* (metaReducers.ts:53).
EpochDistinguishes ==
    [][\A t \in Tabs :
          Writes(t) /\ op[t].how = "edit" /\ stored = known[t]
             => stored'.line = stored.line]_vars

\* A save that finds a record and brings it an imported or restored project
\* for the first time starts from the text that was admitted, also after
\* failed saves, conflicts and migrations, and after an older save that ends
\* late (projectImportCarrier.ts:4).  A save that finds none creates the
\* record without looking at that text, and an epoch that named two lineages
\* may take the import for an edit: both are left out here.
ImportKeepsText ==
    [][\A t \in Tabs :
          Writes(t) /\ op[t].how \in {"edit", "replace"} /\ owed[t] # None
                    /\ op[t].snap.line = owed[t]
                    /\ OneLineage(t, op[t].snap.epoch)
             => stored'.text = owed[t]]_vars

=============================================================================
