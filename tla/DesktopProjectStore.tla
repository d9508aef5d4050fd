------------------------- MODULE DesktopProjectStore -------------------------
(***************************************************************************)
(* One project directory of the desktop library and the windows (each a    *)
(* process of its own) that edit it.                                       *)
(*                                                                         *)
(* A window loads the project for editing, migrating a legacy file first,  *)
(* and remembers as its baseline the text it loaded or last wrote and the  *)
(* incarnation token beside it.  Saves, auxiliary writes, migrations,      *)
(* deletions and quarantines run under a lock file; a save or an auxiliary *)
(* write of a window whose baseline is no longer on disk is refused.       *)
(* Each window runs one store operation at a time (its routing tail); the  *)
(* steps of different windows interleave, a window may be killed at any    *)
(* of them, and another program may write the file without the lock.       *)
(*                                                                         *)
(* A document is its schema state and the set of edits in it; a generation *)
(* is the document.  A creation is numbered, and the number is its token.  *)
(* The replacement of a whole project (import, restore) is an ordinary     *)
(* save here; routing of legacy names and the active-project marker are    *)
(* left out, and of the automatic snapshots only the pruning is modelled.  *)
(***************************************************************************)
EXTENDS Naturals

CONSTANTS
    Windows,
    NoWindow, Orphan,   \* who holds the lock: nobody, or a window that is gone
    NoFile,             \* project.json is missing
    LoadAttempts,       \* INCARNATION_LOAD_ATTEMPTS
    MaxEdits,           \* bound: edits made by all windows and programs
    MaxEvents           \* bound: deletions, auxiliary writes, kills, failures,
                        \* foreign writes and locks removed by hand

ASSUME StoreAssumption ==
    /\ {NoWindow, Orphan} \cap Windows = {}
    /\ NoWindow # Orphan
    /\ LoadAttempts \in Nat \ {0}
    /\ MaxEdits \in Nat /\ MaxEvents \in Nat

VARIABLES
    project,    \* project.json: a document, or NoFile
    token,      \* .incarnation, 0 when there is none
    creation,   \* history: which creation project.json belongs to
    aux,        \* history: the creation an auxiliary file was written for
    foreign,    \* history: the edits made by programs without the lock
    lock,       \* the lock file: its owner
    snapshots,  \* the texts kept by migrations and not pruned
    phase,      \* per window: "open", "boot", "refused" or "corrupt"
                \* (the recovery screens)
    baseline,   \* per window: editingBaselines
    editor,     \* per window: the project in its editor
    op,         \* per window: its store operation
    edited,     \* how many of MaxEdits were made
    created,    \* how many creations there were
    events      \* how many of MaxEvents have happened

disk  == <<project, token, creation, aux>>
vars  == <<disk, lock, snapshots, phase, baseline, editor, op, foreign, edited, created, events>>

Document(kind, edits) == [kind |-> kind, edits |-> edits]
Documents ==
    [kind : {"CURRENT", "LEGACY", "MALFORMED"}, edits : SUBSET (1 .. MaxEdits)]
Creations == Nat

ASSUME MissingIsNoDocument == NoFile \notin Documents

Baseline(doc, t) == [doc |-> doc, token |-> t]
NoBaseline == Baseline(NoFile, 0)
Knows(w) == baseline[w] # NoBaseline
Idle == [kind |-> "none", step |-> "none", edits |-> {}, doc |-> NoFile, token |-> 0,
         latest |-> NoFile, of |-> 0, attempt |-> 0, migrated |-> FALSE]
Begin(kind, step) == [Idle EXCEPT !.kind = kind, !.step = step]

(* The blank project of a window that found none: of no creation. *)
Blank == [edits |-> {}, of |-> 0]

Init ==
    /\ project \in {NoFile} \cup {Document(k, {}) : k \in {"CURRENT", "LEGACY", "MALFORMED"}}
    /\ token \in IF project = NoFile \/ project.kind = "LEGACY" THEN {0} ELSE {0, 1}
    /\ creation = IF project = NoFile THEN 0 ELSE 1
    /\ created = 1
    /\ aux = 0
    /\ lock = NoWindow
    /\ snapshots = {}
    /\ phase = [w \in Windows |-> "boot"]
    /\ baseline = [w \in Windows |-> NoBaseline]
    /\ editor = [w \in Windows |-> Blank]
    /\ op = [w \in Windows |-> Idle]
    /\ foreign = {} /\ edited = 0
    /\ events = 0

Event == events < MaxEvents /\ events' = events + 1
NoEvent == UNCHANGED events

At(w, kind, step) == op[w].kind = kind /\ op[w].step = step
Goto(w, step) == op' = [op EXCEPT ![w].step = step]
End(w, step) == op' = [op EXCEPT ![w] = Begin(@.kind, step)]
Finish(w) == op' = [op EXCEPT ![w] = Idle]
UntouchedDisk == UNCHANGED <<disk, snapshots, foreign, edited, created>>
UntouchedWindow == UNCHANGED <<phase, baseline, editor>>

-----------------------------------------------------------------------------
(* The lock.  A failed exclusive create is an answer, never a reason to    *)
(* remove the file; after its attempts the operation fails, and a load     *)
(* that had to migrate fails with it.                                      *)
Refused(w) == phase' = IF phase[w] = "boot" THEN [phase EXCEPT ![w] = "refused"] ELSE phase

TakeLockReclaimed(w) ==
    /\ op[w].step = "lock"
    /\ lock' = w
    /\ Goto(w, "locked")
    /\ UntouchedDisk /\ UntouchedWindow /\ NoEvent

TakeLock(w) ==
    /\ op[w].step = "lock" /\ lock = NoWindow
    /\ lock' = w
    /\ Goto(w, "locked")
    /\ UntouchedDisk /\ UntouchedWindow /\ NoEvent

LockRefused(w) ==
    /\ op[w].step = "lock" /\ lock # NoWindow
    /\ Finish(w) /\ Refused(w)
    /\ UntouchedDisk /\ NoEvent /\ UNCHANGED <<lock, baseline, editor>>

(* The finally clause.  A migration goes back to its load, a quarantine    *)
(* reloads the window, a failure inside ends the operation.                *)
AfterRelease(w, fails) ==
    IF fails \/ op[w].kind # "migrate" THEN Idle
    ELSE [Begin("load", "before") EXCEPT !.migrated = TRUE]

PhaseAfter(w, fails) ==
    CASE op[w].kind = "migrate" /\ fails -> "refused"
      [] op[w].kind = "quarantine" /\ ~fails -> "boot"
      [] OTHER -> phase[w]

Leave(w, fails) ==
    /\ op' = [op EXCEPT ![w] = AfterRelease(w, fails)]
    /\ phase' = [phase EXCEPT ![w] = PhaseAfter(w, fails)]

Release(w) ==
    /\ op[w].step \in {"release", "fail"}
    /\ lock' = NoWindow
    /\ Leave(w, op[w].step = "fail")
    /\ UntouchedDisk /\ NoEvent /\ UNCHANGED <<baseline, editor>>

(* Not even the retries removed the file: it stays, and blocks everyone.   *)
ReleaseFails(w) ==
    /\ op[w].step \in {"release", "fail"}
    /\ Event
    /\ lock' = Orphan
    /\ Leave(w, op[w].step = "fail")
    /\ UntouchedDisk /\ UNCHANGED <<baseline, editor>>

(* A file operation of a locked section fails; nothing was replaced.       *)
Fails(w) ==
    /\ op[w].step \in {"locked", "replace", "rename", "create", "write", "remove"}
    /\ Event
    /\ End(w, "fail")
    /\ UntouchedDisk /\ UntouchedWindow /\ UNCHANGED lock

(* Mutant: the re-read is not compared.                                    *)
UnchangedAssumed(w) == TRUE

(* The text is the one that was admitted: same generation, same source.    *)
Unchanged(w) == project = op[w].doc

(* beforeReplace: the text is read again just before the rename, which is  *)
(* another call: a program that does not lock can write between the two.   *)
Recheck(w) ==
    /\ op[w].kind \in {"save", "migrate"} /\ op[w].step = "replace"
    /\ IF Unchanged(w)
       THEN op' = [op EXCEPT ![w].step = "rename", ![w].latest = project]
       ELSE End(w, "fail")
    /\ UntouchedDisk /\ UntouchedWindow /\ NoEvent /\ UNCHANGED lock

(* A rename that failed for the moment is tried again, after a new re-read. *)
RenameRetried(w) ==
    /\ op[w].kind \in {"save", "migrate"} /\ op[w].step = "rename"
    /\ Event
    /\ Goto(w, "replace")
    /\ UntouchedDisk /\ UntouchedWindow /\ UNCHANGED lock

-----------------------------------------------------------------------------
(* Loading for editing: the token is read on both sides of the project.    *)
LoadBegin(w) ==
    /\ phase[w] = "boot" /\ op[w] = Idle
    /\ op' = [op EXCEPT ![w] = [Begin("load", "read") EXCEPT !.token = token]]
    /\ UntouchedDisk /\ UntouchedWindow /\ NoEvent /\ UNCHANGED lock

LoadAgain(w) ==
    /\ At(w, "load", "before")
    /\ op' = [op EXCEPT ![w].token = token, ![w].step = "read"]
    /\ UntouchedDisk /\ UntouchedWindow /\ NoEvent /\ UNCHANGED lock

LoadRead(w) ==
    /\ At(w, "load", "read")
    /\ \/ /\ project # NoFile /\ project.kind = "MALFORMED"
          /\ Finish(w) /\ phase' = [phase EXCEPT ![w] = "corrupt"]
       \/ /\ project # NoFile => project.kind # "MALFORMED"
          /\ op' = [op EXCEPT ![w].doc = project, ![w].of = creation, ![w].step = "after"]
          /\ UNCHANGED phase
    /\ UntouchedDisk /\ NoEvent /\ UNCHANGED <<lock, baseline, editor>>

Coherent(w) == token = op[w].token

AttemptOfMany(w) == op[w].attempt < LoadAttempts

AttemptsLeft(w) == op[w].attempt + 1 < LoadAttempts

LoadRetried(w) ==
    /\ At(w, "load", "after") /\ ~Coherent(w)
    /\ IF AttemptsLeft(w)
       THEN op' = [op EXCEPT ![w].attempt = @ + 1, ![w].step = "before"] /\ UNCHANGED phase
       ELSE Finish(w) /\ Refused(w)
    /\ UntouchedDisk /\ NoEvent /\ UNCHANGED <<lock, baseline, editor>>

(* A file that is still legacy after its migration does not become         *)
(* editable.                                                               *)
LoadLegacy(w) ==
    /\ At(w, "load", "after") /\ Coherent(w)
    /\ op[w].doc # NoFile /\ op[w].doc.kind = "LEGACY"
    /\ IF op[w].migrated THEN Finish(w) /\ Refused(w)
       ELSE op' = [op EXCEPT ![w] = [Begin("migrate", "lock") EXCEPT !.token = op[w].token]] /\ UNCHANGED phase
    /\ UntouchedDisk /\ NoEvent /\ UNCHANGED <<lock, baseline, editor>>

LoadDone(w) ==
    /\ At(w, "load", "after") /\ Coherent(w)
    /\ op[w].doc # NoFile => op[w].doc.kind = "CURRENT"
    /\ phase' = [phase EXCEPT ![w] = "open"]
    /\ IF op[w].doc = NoFile
       THEN /\ baseline' = [baseline EXCEPT ![w] = NoBaseline]
            /\ editor' = [editor EXCEPT ![w] = Blank]
       ELSE /\ baseline' = [baseline EXCEPT ![w] = Baseline(op[w].doc, op[w].token)]
            /\ editor' = [editor EXCEPT ![w] = [edits |-> op[w].doc.edits, of |-> op[w].of]]
    /\ Finish(w)
    /\ UntouchedDisk /\ NoEvent /\ UNCHANGED lock

(* The migration re-reads the token and the text under the lock, keeps the *)
(* legacy text, and replaces the file if the re-read found it the same.    *)
MigrateAdmit(w) ==
    /\ At(w, "migrate", "locked")
    /\ IF token # op[w].token \/ project = NoFile THEN End(w, "fail")
       ELSE IF project.kind # "LEGACY" THEN End(w, "release")
       ELSE op' = [op EXCEPT ![w].step = "write", ![w].doc = project]
    /\ UntouchedDisk /\ UntouchedWindow /\ NoEvent /\ UNCHANGED lock

MigrateKeep(w) ==
    /\ At(w, "migrate", "write")
    /\ snapshots' = snapshots \cup {op[w].doc}
    /\ Goto(w, "replace")
    /\ UNCHANGED <<disk, lock, foreign, edited, created>> /\ UntouchedWindow /\ NoEvent

Migrated(doc) == Document("CURRENT", doc.edits)

MigrateReplace(w) ==
    /\ At(w, "migrate", "rename")
    /\ project' = Migrated(op[w].doc)
    /\ End(w, "release")
    /\ UNCHANGED <<token, creation, aux, lock, snapshots, foreign, edited, created>>
    /\ UntouchedWindow /\ NoEvent

(* The pruning after an automatic snapshot, of a project of this window or *)
(* another: the oldest snapshots go, whatever their label.  That the copy  *)
(* of a migration under way is not among the oldest (20 newer ones did not *)
(* come meanwhile, MAX_AUTO_SNAPSHOTS) is assumed.                         *)
Prune ==
    \E old \in snapshots :
        /\ \A w \in Windows :
              op[w].kind = "migrate" /\ op[w].step \in {"replace", "rename"} => op[w].doc # old
        /\ snapshots' = snapshots \ {old}
        /\ UNCHANGED <<disk, lock, op, foreign, edited, created>> /\ UntouchedWindow /\ NoEvent

-----------------------------------------------------------------------------
(* Editing, and saving what the editor holds when the save begins.         *)
Edit(w) ==
    /\ phase[w] = "open" /\ edited < MaxEdits
    /\ edited' = edited + 1
    /\ editor' = [editor EXCEPT ![w].edits = @ \cup {edited + 1}]
    /\ UNCHANGED <<disk, lock, snapshots, phase, baseline, op, foreign, created>> /\ NoEvent

SaveBegin(w) ==
    /\ phase[w] = "open" /\ op[w] = Idle
    /\ op' = [op EXCEPT ![w] = [Begin("save", "lock") EXCEPT !.edits = editor[w].edits]]
    /\ UntouchedDisk /\ UntouchedWindow /\ NoEvent /\ UNCHANGED lock

(* The verdict on a window that knows what the file should hold.           *)
StaleByToken(w, doc, t) == Knows(w) /\ baseline[w].token # t

StaleByText(w, doc, t) == Knows(w) /\ baseline[w].doc # doc

Stale(w, doc, t) == Knows(w) /\ (baseline[w].doc # doc \/ baseline[w].token # t)

(* A missing file is created, unless this window knows one should be       *)
(* there; a file that is not current is never written.                     *)
SaveVerdict(w) ==
    IF project = NoFile THEN IF Knows(w) THEN "fail" ELSE "create"
    ELSE IF project.kind # "CURRENT" \/ Stale(w, project, token) THEN "fail" ELSE "replace"

SaveAdmit(w) ==
    /\ At(w, "save", "locked")
    /\ IF SaveVerdict(w) = "fail" THEN End(w, "fail")
       ELSE op' = [op EXCEPT ![w].step = SaveVerdict(w), ![w].doc = project, ![w].token = token]
    /\ UntouchedDisk /\ UntouchedWindow /\ NoEvent /\ UNCHANGED lock

(* A creation writes its token first, so that the project never exists     *)
(* without it.                                                             *)
CreateToken(w) ==
    /\ At(w, "save", "create")
    /\ created' = created + 1
    /\ token' = created + 1
    /\ op' = [op EXCEPT ![w].step = "write", ![w].token = created + 1]
    /\ UNCHANGED <<project, creation, aux, lock, snapshots, foreign, edited>>
    /\ UntouchedWindow /\ NoEvent

Owns(w, doc, t, c) ==
    /\ baseline' = [baseline EXCEPT ![w] = Baseline(doc, t)]
    /\ editor' = [editor EXCEPT ![w].of = c]

CreateFile(w) ==
    /\ At(w, "save", "write")
    /\ project' = Document("CURRENT", op[w].edits)
    /\ creation' = op[w].token
    /\ Owns(w, project', op[w].token, op[w].token)
    /\ End(w, "release")
    /\ UNCHANGED <<token, aux, lock, snapshots, phase, foreign, edited, created>> /\ NoEvent

SaveReplace(w) ==
    /\ At(w, "save", "rename")
    /\ project' = Document("CURRENT", op[w].edits)
    /\ Owns(w, project', op[w].token, creation)
    /\ End(w, "release")
    /\ UNCHANGED <<token, creation, aux, lock, snapshots, phase, foreign, edited, created>> /\ NoEvent

(* The codex or a binder blob, in the project's directory.  (Images pass   *)
(* the same lock and fence but lie outside it, and no deletion takes them.) *)
AuxBegin(w) ==
    /\ phase[w] = "open" /\ op[w] = Idle
    /\ Event
    /\ op' = [op EXCEPT ![w] = [Begin("aux", "lock") EXCEPT !.of = editor[w].of]]
    /\ UntouchedDisk /\ UntouchedWindow /\ UNCHANGED lock

AuxAdmit(w) ==
    /\ At(w, "aux", "locked")
    /\ IF Stale(w, project, token) THEN End(w, "fail") ELSE Goto(w, "write")
    /\ UntouchedDisk /\ UntouchedWindow /\ NoEvent /\ UNCHANGED lock

AuxWrite(w) ==
    /\ At(w, "aux", "write")
    /\ aux' = op[w].of
    /\ End(w, "release")
    /\ UNCHANGED <<project, token, creation, lock, snapshots, foreign, edited, created>>
    /\ UntouchedWindow /\ NoEvent

-----------------------------------------------------------------------------
(* Deleting: the directory goes entry by entry, in no order the store      *)
(* knows; a failure in the middle leaves the rest.                         *)
Forget(w) ==
    /\ baseline' = [baseline EXCEPT ![w] = NoBaseline]
    /\ editor' = [editor EXCEPT ![w].of = 0]

DeleteBegin(w) ==
    /\ phase[w] = "open" /\ op[w] = Idle
    /\ Event
    /\ op' = [op EXCEPT ![w] = Begin("delete", "lock")]
    /\ UntouchedDisk /\ UntouchedWindow /\ UNCHANGED lock

DeleteAdmit(w) ==
    /\ At(w, "delete", "locked")
    /\ Goto(w, "remove")
    /\ UntouchedDisk /\ UntouchedWindow /\ NoEvent /\ UNCHANGED lock

DeleteEntry(w) ==
    /\ At(w, "delete", "remove")
    /\ \/ project # NoFile /\ project' = NoFile /\ UNCHANGED <<token, aux>>
       \/ token # 0 /\ token' = 0 /\ UNCHANGED <<project, aux>>
       \/ aux # 0 /\ aux' = 0 /\ UNCHANGED <<project, token>>
    /\ creation' = IF project' = NoFile THEN 0 ELSE creation
    /\ UNCHANGED <<lock, snapshots, foreign, edited, created, op>> /\ UntouchedWindow /\ NoEvent

DeleteDone(w) ==
    /\ At(w, "delete", "remove")
    /\ project = NoFile /\ token = 0 /\ aux = 0
    /\ Forget(w)
    /\ End(w, "release")
    /\ UntouchedDisk /\ NoEvent /\ UNCHANGED <<lock, phase>>

(* The recovery screen of a corrupt file moves the whole directory aside,  *)
(* also what another window's deletion left of it.                         *)
QuarantineBegin(w) ==
    /\ phase[w] = "corrupt" /\ op[w] = Idle
    /\ op' = [op EXCEPT ![w] = Begin("quarantine", "lock")]
    /\ UntouchedDisk /\ UntouchedWindow /\ NoEvent /\ UNCHANGED lock

QuarantineMove(w) ==
    /\ At(w, "quarantine", "locked")
    /\ IF project = NoFile /\ token = 0 /\ aux = 0
       THEN End(w, "fail") /\ UNCHANGED <<disk, baseline, editor>>
       ELSE /\ project' = NoFile /\ token' = 0 /\ aux' = 0 /\ creation' = 0
            /\ Forget(w)
            /\ End(w, "release")
    /\ UNCHANGED <<lock, snapshots, phase, foreign, edited, created>> /\ NoEvent

-----------------------------------------------------------------------------
Retry(w) ==
    /\ phase[w] = "refused" /\ op[w] = Idle
    /\ phase' = [phase EXCEPT ![w] = "boot"]
    /\ UntouchedDisk /\ NoEvent /\ UNCHANGED <<lock, baseline, editor, op>>

(* A window is closed, reloaded or killed, whatever it was doing; nobody   *)
(* removes its lock but a user who is told to.                             *)
Restart(w) ==
    /\ phase[w] # "boot" \/ op[w] # Idle
    /\ Event
    /\ phase' = [phase EXCEPT ![w] = "boot"]
    /\ baseline' = [baseline EXCEPT ![w] = NoBaseline]
    /\ editor' = [editor EXCEPT ![w] = Blank]
    /\ Finish(w)
    /\ lock' = IF lock = w THEN Orphan ELSE lock
    /\ UntouchedDisk

LockRemovedByHand ==
    /\ lock = Orphan
    /\ Event
    /\ lock' = NoWindow
    /\ UntouchedDisk /\ UntouchedWindow /\ UNCHANGED op

(* A program that knows nothing of the lock changes the document.          *)
ForeignWrite ==
    /\ project # NoFile /\ edited < MaxEdits
    /\ Event
    /\ edited' = edited + 1
    /\ foreign' = foreign \cup {edited + 1}
    /\ project' = [project EXCEPT !.edits = @ \cup {edited + 1}]
    /\ UNCHANGED <<token, creation, aux, lock, snapshots, op, created>> /\ UntouchedWindow

Locking(w) == TakeLock(w) \/ LockRefused(w) \/ Release(w) \/ ReleaseFails(w) \/ Fails(w)
Replacing(w) == Recheck(w) \/ RenameRetried(w)
Loading(w) == LoadBegin(w) \/ LoadAgain(w) \/ LoadRead(w) \/ LoadRetried(w) \/ LoadLegacy(w) \/ LoadDone(w)
Migrating(w) == MigrateAdmit(w) \/ MigrateKeep(w) \/ MigrateReplace(w)
Saving(w) == SaveBegin(w) \/ SaveAdmit(w) \/ CreateToken(w) \/ CreateFile(w) \/ SaveReplace(w)
Auxiliary(w) == AuxBegin(w) \/ AuxAdmit(w) \/ AuxWrite(w)
Removing(w) == DeleteBegin(w) \/ DeleteAdmit(w) \/ DeleteEntry(w) \/ DeleteDone(w)
                  \/ QuarantineBegin(w) \/ QuarantineMove(w)

Next ==
    \/ \E w \in Windows :
          \/ Locking(w) \/ Loading(w) \/ Replacing(w) \/ Migrating(w) \/ Saving(w)
          \/ Auxiliary(w) \/ Removing(w)
          \/ Edit(w) \/ Retry(w) \/ Restart(w)
    \/ LockRemovedByHand
    \/ ForeignWrite
    \/ Prune

Spec == Init /\ [][Next]_vars

-----------------------------------------------------------------------------
Locked == {"locked", "write", "replace", "rename", "create", "remove", "release", "fail"}
Steps == {"none", "lock", "before", "read", "after"} \cup Locked

TypeOK ==
    /\ project \in {NoFile} \cup Documents
    /\ token \in Creations /\ creation \in Creations /\ aux \in Creations
    /\ lock \in Windows \cup {NoWindow, Orphan}
    /\ snapshots \subseteq Documents
    /\ phase \in [Windows -> {"boot", "refused", "corrupt", "open"}]
    /\ baseline \in [Windows -> [doc : {NoFile} \cup Documents, token : Creations]]
    /\ editor \in [Windows -> [edits : SUBSET (1 .. MaxEdits), of : Creations]]
    /\ op \in [Windows -> [kind : {"none", "load", "migrate", "save", "aux", "delete", "quarantine"},
                           step : Steps, edits : SUBSET (1 .. MaxEdits),
                           doc : {NoFile} \cup Documents, token : Creations,
                           latest : {NoFile} \cup Documents, of : Creations,
                           attempt : 0 .. LoadAttempts - 1, migrated : BOOLEAN]]
    /\ foreign \subseteq 1 .. MaxEdits
    /\ edited \in 0 .. MaxEdits /\ created \in Creations /\ events \in 0 .. MaxEvents

(* A window in a section the lock protects holds the lock, hence is alone  *)
(* in it, whoever deletes or quarantines the directory meanwhile           *)
(* (projectFsStore.ts:933 keeps the lock outside it for that).             *)
LockHeld == \A w \in Windows : op[w].step \in Locked => lock = w

Writes(w) ==
    \/ op[w].kind = "save" /\ op'[w] # op[w] /\ project' # project
    \/ op[w].kind = "aux" /\ op'[w] # op[w] /\ aux' # aux

(* The stale-writer fence (fsCore.ts:167): a window that knows what it     *)
(* edits never replaces a file by a text without the edits other windows   *)
(* made to it, and of the edits of a program that does not lock it         *)
(* loses at most those that fell between its last re-read and its rename   *)
(* ("narrows but does not eliminate", fsCore.ts:158).                      *)
NoSilentRevert ==
    [][\A w \in Windows :
           Writes(w) /\ project # NoFile /\ Knows(w) =>
               /\ project.edits \ foreign \subseteq project'.edits
               /\ op[w].latest = project => project.edits \subseteq project'.edits]_vars

(* A window whose editor holds a project of one creation never writes it   *)
(* into another creation, nor brings it back when another window removed   *)
(* it, even if the new file is equal byte for byte.  A project of before   *)
(* the tokens is excepted: a deletion that stops half way through its      *)
(* successor leaves a file without a token as well.                        *)
OwnCreation ==
    [][\A w \in Windows :
           baseline[w].token # 0 /\ Writes(w) =>
               /\ project # NoFile /\ editor[w].of = creation
               /\ op[w].kind = "aux" => aux' = creation]_vars

(* When a migration replaces a legacy text, a snapshot has kept it, unless *)
(* a program that does not lock wrote it between the re-read and the       *)
(* rename.                                                                 *)
LegacyTextKept ==
    [][\A w \in Windows :
           At(w, "migrate", "rename") /\ op'[w] # op[w] /\ project' # project
               /\ op[w].latest = project
           => project \in snapshots]_vars
=============================================================================
