---------------------- MODULE DesktopProjectStoreProofs ----------------------
(***************************************************************************)
(* Proofs about the desktop project store, for any set of windows and any  *)
(* number of load attempts, edits and events.                              *)
(***************************************************************************)
EXTENDS DesktopProjectStore, TLAPS

DocOrNone == {NoFile} \cup Documents
Kinds == {"none", "load", "migrate", "save", "aux", "delete", "quarantine"}
Ops == [kind : Kinds, step : Steps, edits : SUBSET (1 .. MaxEdits),
        doc : DocOrNone, token : Creations, latest : DocOrNone, of : Creations,
        attempt : 0 .. LoadAttempts - 1, migrated : BOOLEAN]
Phases == {"boot", "refused", "corrupt", "open"}
Baselines == [doc : DocOrNone, token : Creations]
Editors == [edits : SUBSET (1 .. MaxEdits), of : Creations]

(* TypeOK with its sets named. *)
Typed ==
    /\ project \in DocOrNone
    /\ token \in Nat /\ creation \in Nat /\ aux \in Nat
    /\ lock \in Windows \cup {NoWindow, Orphan}
    /\ snapshots \subseteq Documents
    /\ phase \in [Windows -> Phases]
    /\ baseline \in [Windows -> Baselines]
    /\ editor \in [Windows -> Editors]
    /\ op \in [Windows -> Ops]
    /\ foreign \subseteq 1 .. MaxEdits
    /\ edited \in 0 .. MaxEdits /\ created \in Nat /\ events \in 0 .. MaxEvents

LEMMA TypeParts == (TypeOK <=> Typed) /\ (TypeOK' <=> Typed')
BY DEF TypeOK, Typed, DocOrNone, Ops, Kinds, Phases, Baselines, Editors, Creations

(***************************************************************************)
(* The inductive invariant.  Private(w) is what a window's own operation,  *)
(* baseline and editor say, whatever the others do; Section(w) is what it  *)
(* may rely on of the disk because it holds the lock.                      *)
(***************************************************************************)

(* The legacy text a migration read under the lock, kept before the file   *)
(* is replaced.                                                            *)
MigrationHolds(w) ==
    /\ op[w].kind = "migrate" /\ op[w].step \in {"write", "replace", "rename"}
       => op[w].doc \in Documents /\ op[w].doc.kind = "LEGACY"
    /\ op[w].kind = "migrate" /\ op[w].step \in {"replace", "rename"} => op[w].doc \in snapshots

(* The re-read before a rename found the text that was admitted.           *)
Reread(w) ==
    op[w].kind \in {"save", "migrate"} /\ op[w].step = "rename" => op[w].latest = op[w].doc

(* The text a window knows is in its editor, and in what it is saving.     *)
KnownText(w) ==
    Knows(w) => baseline[w].doc \in Documents /\ baseline[w].doc.edits \subseteq editor[w].edits

SaveHolds(w) ==
    op[w].kind = "save" /\ op[w].step \in {"lock", "locked", "create", "write", "replace", "rename"} =>
        /\ op[w].edits \subseteq editor[w].edits
        /\ Knows(w) => baseline[w].doc.edits \subseteq op[w].edits

SaveAdmitted(w) ==
    op[w].kind = "save" /\ op[w].step \in {"replace", "rename"} =>
        /\ op[w].doc \in Documents /\ op[w].doc.kind = "CURRENT"
        /\ Knows(w) => op[w].doc = baseline[w].doc /\ op[w].token = baseline[w].token

(* The token of the baseline names the creation in the editor: a load      *)
(* found the token unchanged around its read, and tokens are never reused. *)
LoadCreation(w) ==
    At(w, "load", "after") /\ op[w].doc # NoFile /\ op[w].token # 0 /\ token = op[w].token
        => op[w].of = op[w].token

KnownToken(w) == baseline[w].token # 0 => editor[w].of = baseline[w].token

AuxHolds(w) ==
    op[w].kind = "aux" /\ op[w].step \in {"lock", "locked", "write"} /\ baseline[w].token # 0
        => op[w].of = baseline[w].token

Private(w) ==
    /\ MigrationHolds(w) /\ Reread(w) /\ KnownText(w) /\ SaveHolds(w) /\ SaveAdmitted(w)
    /\ LoadCreation(w) /\ KnownToken(w) /\ AuxHolds(w)
    /\ op[w].token <= created

Section(w) ==
    /\ op[w].kind = "save" /\ op[w].step \in {"create", "write"} => project = NoFile /\ ~Knows(w)
    /\ op[w].kind = "save" /\ op[w].step \in {"write", "replace", "rename"} => token = op[w].token
    /\ op[w].kind \in {"save", "migrate"} /\ op[w].step = "rename" =>
          project # NoFile /\ project.edits \ foreign \subseteq op[w].doc.edits
    /\ At(w, "aux", "write") /\ Knows(w) => project # NoFile /\ token = baseline[w].token

TokenOfProject ==
    /\ token <= created
    /\ project # NoFile /\ token # 0 => creation = token

IInv ==
    /\ TypeOK /\ LockHeld /\ TokenOfProject
    /\ \A w \in Windows : Private(w) /\ Section(w)

WindowStep(w) ==
    \/ Locking(w) \/ Loading(w) \/ Replacing(w) \/ Migrating(w) \/ Saving(w)
    \/ Auxiliary(w) \/ Removing(w)
    \/ Edit(w) \/ Retry(w) \/ Restart(w)

LEMMA BeginTyped ==
  ASSUME NEW k \in Kinds, NEW s \in Steps
  PROVE  /\ Idle \in Ops /\ Begin(k, s) \in Ops
         /\ Begin(k, s).kind = k /\ Begin(k, s).step = s
<1>1. 0 \in 0 .. LoadAttempts - 1
  BY StoreAssumption
<1>2. "none" \in Steps /\ "none" \in Kinds
  BY DEF Steps, Kinds
<1>3. Idle \in Ops
  BY <1>1, <1>2 DEF Ops, Idle, DocOrNone, Creations
<1>4. ASSUME NEW r \in Ops
      PROVE  /\ [r EXCEPT !.kind = k, !.step = s] \in Ops
             /\ [r EXCEPT !.kind = k, !.step = s].kind = k
             /\ [r EXCEPT !.kind = k, !.step = s].step = s
  BY DEF Ops
<1> QED BY <1>3, <1>4 DEF Begin

LEMMA DocumentTyped ==
  ASSUME NEW k \in {"CURRENT", "LEGACY", "MALFORMED"}, NEW e \in SUBSET (1 .. MaxEdits)
  PROVE  /\ Document(k, e) \in Documents
         /\ Document(k, e).kind = k /\ Document(k, e).edits = e
BY DEF Document, Documents

(* A step of the file operation of one window leaves every other alone. *)
LEMMA OpTyped ==
  ASSUME op \in [Windows -> Ops], NEW w \in Windows, NEW r \in Ops
  PROVE  [op EXCEPT ![w] = r] \in [Windows -> Ops]
OBVIOUS

LEMMA InitTyped == Init => TypeOK
<1> SUFFICES ASSUME Init PROVE TypeOK
  OBVIOUS
<1>1. project \in DocOrNone
  BY DocumentTyped DEF Init, DocOrNone
<1>2. Blank \in Editors /\ NoBaseline \in Baselines
  BY DEF Blank, Editors, NoBaseline, Baseline, Baselines, DocOrNone, Creations
<1>3. Idle \in Ops
  BY BeginTyped DEF Kinds, Steps, Locked
<1>4. token \in Nat /\ creation \in Nat
  BY DEF Init
<1> QED BY <1>1, <1>2, <1>3, <1>4, StoreAssumption, TypeParts DEF Init, Phases, Typed

LEMMA LockingTyped ==
  ASSUME TypeOK, NEW w \in Windows, Locking(w)
  PROVE  TypeOK'
<1> USE TypeParts DEF Typed
<1>1. op[w] \in Ops /\ op[w].kind \in Kinds /\ op[w].step \in Steps /\ phase[w] \in Phases
  BY DEF Ops
<1>2. Idle \in Ops /\ Begin("load", "before") \in Ops /\ Begin(op[w].kind, "fail") \in Ops
  BY <1>1, BeginTyped DEF Kinds, Steps, Locked
<1>3. CASE TakeLock(w)
  <2>1. [op[w] EXCEPT !.step = "locked"] \in Ops
    BY <1>1 DEF Ops, Steps, Locked
  <2>2. op' \in [Windows -> Ops]
    BY <1>3, <2>1 DEF TakeLock, Goto
  <2> QED BY <1>3, <2>2 DEF TakeLock, UntouchedDisk, UntouchedWindow, NoEvent, disk
<1>4. CASE LockRefused(w)
  <2>1. op' \in [Windows -> Ops]
    BY <1>2, <1>4 DEF LockRefused, Finish
  <2>2. phase' \in [Windows -> Phases]
    BY <1>4 DEF LockRefused, Refused, Phases
  <2> QED BY <1>4, <2>1, <2>2 DEF LockRefused, UntouchedDisk, NoEvent, disk
<1>5. ASSUME NEW fails \in BOOLEAN, Leave(w, fails)
      PROVE  op' \in [Windows -> Ops] /\ phase' \in [Windows -> Phases]
  <2>1. AfterRelease(w, fails) \in Ops
    BY <1>2 DEF AfterRelease, Ops
  <2>2. PhaseAfter(w, fails) \in Phases
    BY <1>1 DEF PhaseAfter, Phases
  <2> QED BY <1>5, <2>1, <2>2 DEF Leave
<1>6. CASE Release(w)
  BY <1>5, <1>6 DEF Release, UntouchedDisk, NoEvent, disk
<1>7. CASE ReleaseFails(w)
  <2>1. events' \in 0 .. MaxEvents
    BY <1>7, StoreAssumption DEF ReleaseFails, Event
  <2> QED BY <1>5, <1>7, <2>1 DEF ReleaseFails, UntouchedDisk, disk
<1>8. CASE Fails(w)
  <2>1. op' \in [Windows -> Ops]
    BY <1>2, <1>8 DEF Fails, End
  <2>2. events' \in 0 .. MaxEvents
    BY <1>8, StoreAssumption DEF Fails, Event
  <2> QED BY <1>8, <2>1, <2>2 DEF Fails, UntouchedDisk, UntouchedWindow, disk
<1> QED BY <1>3, <1>4, <1>6, <1>7, <1>8 DEF Locking

(* The fields of an operation, and what changing them leaves in Ops. *)
LEMMA OpFields ==
  ASSUME TypeOK, NEW w \in Windows
  PROVE  /\ op[w] \in Ops /\ op[w].doc \in DocOrNone /\ op[w].edits \in SUBSET (1 .. MaxEdits)
         /\ op[w].token \in Nat /\ op[w].of \in Nat /\ op[w].kind \in Kinds
         /\ op[w].attempt \in 0 .. LoadAttempts - 1
         /\ baseline[w] \in Baselines /\ editor[w] \in Editors /\ phase[w] \in Phases
         /\ editor[w].edits \in SUBSET (1 .. MaxEdits) /\ editor[w].of \in Nat
BY TypeParts DEF Typed, Ops, Baselines, Editors, Creations

LEMMA LoadingTyped ==
  ASSUME TypeOK, NEW w \in Windows, Loading(w)
  PROVE  TypeOK'
<1> USE TypeParts DEF Typed
<1>1. \A k \in Kinds, s \in Steps : Begin(k, s) \in Ops
  BY BeginTyped
<1>2. Idle \in Ops
  BY BeginTyped DEF Kinds, Steps
<1>3. \A ph \in Phases : [phase EXCEPT ![w] = ph] \in [Windows -> Phases]
  OBVIOUS
<1>4. Refused(w) => phase' \in [Windows -> Phases]
  BY <1>3 DEF Refused, Phases
<1>5. Finish(w) => op' \in [Windows -> Ops]
  BY <1>2 DEF Finish
<1>6. CASE LoadBegin(w)
  <2>1. [Begin("load", "read") EXCEPT !.token = token] \in Ops
    BY <1>1 DEF Kinds, Steps, Ops, Creations
  <2> QED BY <1>6, <2>1 DEF LoadBegin, UntouchedDisk, UntouchedWindow, NoEvent, disk
<1>7. CASE LoadAgain(w)
  <2>1. [op[w] EXCEPT !.token = token, !.step = "read"] \in Ops
    BY OpFields DEF Steps, Ops, Creations
  <2>2. op' = [op EXCEPT ![w] = [op[w] EXCEPT !.token = token, !.step = "read"]]
    BY <1>7 DEF LoadAgain
  <2> QED BY <1>7, <2>1, <2>2 DEF LoadAgain, UntouchedDisk, UntouchedWindow, NoEvent, disk
<1>8. CASE LoadRead(w)
  <2>1. [op[w] EXCEPT !.doc = project, !.of = creation, !.step = "after"] \in Ops
    BY OpFields DEF Steps, Ops, Creations
  <2>2. op' \in [Windows -> Ops] /\ phase' \in [Windows -> Phases]
    <3>1. CASE Finish(w) /\ phase' = [phase EXCEPT ![w] = "corrupt"]
      BY <1>3, <1>5, <3>1 DEF Phases
    <3>2. CASE /\ op' = [op EXCEPT ![w].doc = project, ![w].of = creation, ![w].step = "after"]
               /\ UNCHANGED phase
      BY <2>1, <3>2
    <3> QED BY <1>8, <3>1, <3>2 DEF LoadRead
  <2> QED BY <1>8, <2>2 DEF LoadRead, UntouchedDisk, NoEvent, disk
<1>9. CASE LoadRetried(w)
  <2>1. AttemptsLeft(w) => [op[w] EXCEPT !.attempt = @ + 1, !.step = "before"] \in Ops
    <3>1. AttemptsLeft(w) => op[w].attempt + 1 \in 0 .. LoadAttempts - 1
      BY OpFields, StoreAssumption DEF AttemptsLeft
    <3> QED BY <3>1, OpFields DEF Steps, Ops
  <2>2. op' \in [Windows -> Ops] /\ phase' \in [Windows -> Phases]
    <3>1. CASE AttemptsLeft(w)
      BY <1>9, <2>1, <3>1 DEF LoadRetried
    <3>2. CASE ~AttemptsLeft(w)
      BY <1>4, <1>5, <1>9, <3>2 DEF LoadRetried
    <3> QED BY <3>1, <3>2
  <2> QED BY <1>9, <2>2 DEF LoadRetried, UntouchedDisk, NoEvent, disk
<1>10. CASE LoadLegacy(w)
  <2>1. [Begin("migrate", "lock") EXCEPT !.token = op[w].token] \in Ops
    <3>1. Begin("migrate", "lock") \in Ops
      BY <1>1 DEF Kinds, Steps
    <3> QED BY <3>1, OpFields DEF Ops, Creations
  <2>2. op' \in [Windows -> Ops] /\ phase' \in [Windows -> Phases]
    <3>1. CASE op[w].migrated
      BY <1>4, <1>5, <1>10, <3>1 DEF LoadLegacy
    <3>2. CASE ~op[w].migrated
      BY <1>10, <2>1, <3>2 DEF LoadLegacy
    <3> QED BY <3>1, <3>2
  <2> QED BY <1>10, <2>2 DEF LoadLegacy, UntouchedDisk, NoEvent, disk
<1>11. CASE LoadDone(w)
  <2>1. op' \in [Windows -> Ops] /\ phase' \in [Windows -> Phases]
    BY <1>3, <1>5, <1>11 DEF LoadDone, Phases
  <2>2. Blank \in Editors /\ NoBaseline \in Baselines
    BY DEF Blank, Editors, NoBaseline, Baseline, Baselines, DocOrNone, Creations
  <2>3. op[w].doc # NoFile => /\ Baseline(op[w].doc, op[w].token) \in Baselines
                              /\ [edits |-> op[w].doc.edits, of |-> op[w].of] \in Editors
    BY OpFields DEF Baseline, Baselines, Editors, DocOrNone, Documents, Creations
  <2>4. baseline' \in [Windows -> Baselines] /\ editor' \in [Windows -> Editors]
    <3>1. CASE op[w].doc = NoFile
      BY <1>11, <2>2, <3>1 DEF LoadDone
    <3>2. CASE op[w].doc # NoFile
      BY <1>11, <2>3, <3>2 DEF LoadDone
    <3> QED BY <3>1, <3>2
  <2> QED BY <1>11, <2>1, <2>4 DEF LoadDone, UntouchedDisk, NoEvent, disk
<1> QED BY <1>6, <1>7, <1>8, <1>9, <1>10, <1>11 DEF Loading

LEMMA Ends ==
  ASSUME TypeOK, NEW w \in Windows, NEW s \in Steps
  PROVE  /\ Begin(op[w].kind, s) \in Ops
         /\ End(w, s) => op' \in [Windows -> Ops]
<1>1. Begin(op[w].kind, s) \in Ops
  BY OpFields, BeginTyped
<1> QED BY <1>1, TypeParts DEF Typed, End

LEMMA Goes ==
  ASSUME TypeOK, NEW w \in Windows, NEW s \in Steps
  PROVE  /\ [op[w] EXCEPT !.step = s] \in Ops
         /\ Goto(w, s) => op' \in [Windows -> Ops]
<1>1. [op[w] EXCEPT !.step = s] \in Ops
  BY OpFields DEF Ops
<1> QED BY <1>1, TypeParts DEF Typed, Goto

LEMMA StepNames ==
  /\ "none" \in Steps /\ "lock" \in Steps /\ "fail" \in Steps /\ "release" \in Steps
  /\ "write" \in Steps /\ "replace" \in Steps /\ "create" \in Steps /\ "remove" \in Steps
  /\ "locked" \in Steps /\ "rename" \in Steps
BY DEF Steps, Locked

LEMMA EventTyped == ASSUME TypeOK, Event PROVE events' \in 0 .. MaxEvents
BY StoreAssumption, TypeParts DEF Typed, Event

LEMMA ReplacingTyped ==
  ASSUME TypeOK, NEW w \in Windows, Replacing(w)
  PROVE  TypeOK'
<1> USE TypeParts DEF Typed
<1>1. CASE Recheck(w)
  <2>1. [op[w] EXCEPT !.step = "rename", !.latest = project] \in Ops
    BY OpFields, StepNames DEF Ops
  <2>2. op' \in [Windows -> Ops]
    <3>1. CASE End(w, "fail")
      BY <3>1, Ends, StepNames
    <3>2. CASE op' = [op EXCEPT ![w].step = "rename", ![w].latest = project]
      BY <2>1, <3>2
    <3> QED BY <1>1, <3>1, <3>2 DEF Recheck
  <2> QED BY <1>1, <2>2 DEF Recheck, UntouchedDisk, UntouchedWindow, NoEvent, disk
<1>2. CASE RenameRetried(w)
  <2>1. op' \in [Windows -> Ops] /\ events' \in 0 .. MaxEvents
    BY <1>2, Goes, StepNames, EventTyped DEF RenameRetried
  <2> QED BY <1>2, <2>1 DEF RenameRetried, UntouchedDisk, UntouchedWindow, disk
<1> QED BY <1>1, <1>2 DEF Replacing

LEMMA MigratingTyped ==
  ASSUME TypeOK, NEW w \in Windows, MigrationHolds(w), Migrating(w)
  PROVE  TypeOK'
<1> USE TypeParts DEF Typed
<1>3. (End(w, "fail") \/ End(w, "release")) => op' \in [Windows -> Ops]
  BY Ends, StepNames
<1>4. CASE MigrateAdmit(w)
  <2>1. [op[w] EXCEPT !.step = "write", !.doc = project] \in Ops
    BY OpFields, StepNames DEF Ops
  <2>2. op' \in [Windows -> Ops]
    <3>1. CASE End(w, "fail") \/ End(w, "release")
      BY <1>3, <3>1
    <3>2. CASE op' = [op EXCEPT ![w].step = "write", ![w].doc = project]
      BY <2>1, <3>2
    <3> QED BY <1>4, <3>1, <3>2 DEF MigrateAdmit
  <2> QED BY <1>4, <2>2 DEF MigrateAdmit, UntouchedDisk, UntouchedWindow, NoEvent, disk
<1>5. CASE MigrateKeep(w)
  <2>1. op[w].doc \in Documents
    BY <1>5 DEF MigrateKeep, MigrationHolds, At
  <2>2. op' \in [Windows -> Ops]
    BY <1>5, Goes, StepNames DEF MigrateKeep
  <2> QED BY <1>5, <2>1, <2>2 DEF MigrateKeep, UntouchedWindow, NoEvent, disk
<1>6. CASE MigrateReplace(w)
  <2>1. op' \in [Windows -> Ops]
    BY <1>3, <1>6 DEF MigrateReplace
  <2>2. project' \in DocOrNone
    <3>1. op[w].doc.edits \in SUBSET (1 .. MaxEdits)
      BY <1>6 DEF MigrateReplace, MigrationHolds, At, Documents
    <3>2. Migrated(op[w].doc) \in Documents
      BY <3>1, DocumentTyped DEF Migrated
    <3> QED BY <1>6, <3>2 DEF MigrateReplace, DocOrNone
  <2> QED BY <1>6, <2>1, <2>2 DEF MigrateReplace, UntouchedWindow, NoEvent
<1> QED BY <1>4, <1>5, <1>6 DEF Migrating

LEMMA SavingTyped ==
  ASSUME TypeOK, NEW w \in Windows, Saving(w)
  PROVE  TypeOK'
<1> USE TypeParts DEF Typed
<1>1. (End(w, "fail") \/ End(w, "release")) => op' \in [Windows -> Ops]
  BY Ends, StepNames
<1>2. \A c \in Nat, d \in DocOrNone, t \in Nat :
         Owns(w, d, t, c) => baseline' \in [Windows -> Baselines] /\ editor' \in [Windows -> Editors]
  <2>1. \A c \in Nat : [editor[w] EXCEPT !.of = c] \in Editors
    BY OpFields DEF Editors, Creations
  <2>2. \A d \in DocOrNone, t \in Nat : Baseline(d, t) \in Baselines
    BY DEF Baseline, Baselines, Creations
  <2> QED BY <2>1, <2>2 DEF Owns
<1>3. Document("CURRENT", op[w].edits) \in DocOrNone
  BY OpFields, DocumentTyped DEF DocOrNone
<1>4. CASE SaveBegin(w)
  <2>1. [Begin("save", "lock") EXCEPT !.edits = editor[w].edits] \in Ops
    <3>1. Begin("save", "lock") \in Ops
      BY BeginTyped, StepNames DEF Kinds
    <3> QED BY <3>1, OpFields DEF Ops
  <2> QED BY <1>4, <2>1 DEF SaveBegin, UntouchedDisk, UntouchedWindow, NoEvent, disk
<1>5. CASE SaveAdmit(w)
  <2>1. SaveVerdict(w) # "fail" => SaveVerdict(w) \in Steps
    BY StepNames DEF SaveVerdict
  <2>2. op' \in [Windows -> Ops]
    <3>1. CASE SaveVerdict(w) = "fail"
      BY <1>1, <1>5, <3>1 DEF SaveAdmit
    <3>2. CASE SaveVerdict(w) # "fail"
      <4>1. [op[w] EXCEPT !.step = SaveVerdict(w), !.doc = project, !.token = token] \in Ops
        BY <2>1, <3>2, OpFields DEF Ops, Creations
      <4> QED BY <1>5, <3>2, <4>1 DEF SaveAdmit
    <3> QED BY <3>1, <3>2
  <2> QED BY <1>5, <2>2 DEF SaveAdmit, UntouchedDisk, UntouchedWindow, NoEvent, disk
<1>6. CASE CreateToken(w)
  <2>1. [op[w] EXCEPT !.step = "write", !.token = created + 1] \in Ops
    <3>1. created + 1 \in Nat
      OBVIOUS
    <3> QED BY <3>1, StepNames, OpFields DEF Ops, Creations
  <2>2. op' \in [Windows -> Ops]
    BY <1>6, <2>1 DEF CreateToken
  <2> QED BY <1>6, <2>2 DEF CreateToken, UntouchedWindow, NoEvent
<1>7. CASE CreateFile(w)
  <2>1. project' \in DocOrNone /\ op[w].token \in Nat
    BY <1>3, <1>7, OpFields DEF CreateFile
  <2> QED BY <1>1, <1>2, <1>7, <2>1 DEF CreateFile, NoEvent
<1>8. CASE SaveReplace(w)
  <2>1. op' \in [Windows -> Ops]
    BY <1>1, <1>8 DEF SaveReplace
  <2>2. /\ project' \in DocOrNone
        /\ baseline' \in [Windows -> Baselines] /\ editor' \in [Windows -> Editors]
    <3>1. project' = Document("CURRENT", op[w].edits) /\ Owns(w, project', op[w].token, creation)
      BY <1>8 DEF SaveReplace
    <3> QED BY <1>2, <1>3, <3>1, OpFields
  <2> QED BY <1>8, <2>1, <2>2 DEF SaveReplace, NoEvent
<1> QED BY <1>4, <1>5, <1>6, <1>7, <1>8 DEF Saving

LEMMA AuxiliaryTyped ==
  ASSUME TypeOK, NEW w \in Windows, Auxiliary(w)
  PROVE  TypeOK'
<1> USE TypeParts DEF Typed
<1>1. CASE AuxBegin(w)
  <2>1. [Begin("aux", "lock") EXCEPT !.of = editor[w].of] \in Ops
    <3>1. Begin("aux", "lock") \in Ops
      BY BeginTyped, StepNames DEF Kinds
    <3> QED BY <3>1, OpFields DEF Ops, Creations
  <2>2. events' \in 0 .. MaxEvents
    BY <1>1, EventTyped DEF AuxBegin
  <2> QED BY <1>1, <2>1, <2>2 DEF AuxBegin, UntouchedDisk, UntouchedWindow, disk
<1>2. CASE AuxAdmit(w)
  <2>1. op' \in [Windows -> Ops]
    BY <1>2, Ends, Goes, StepNames DEF AuxAdmit
  <2> QED BY <1>2, <2>1 DEF AuxAdmit, UntouchedDisk, UntouchedWindow, NoEvent, disk
<1>3. CASE AuxWrite(w)
  <2>1. op' \in [Windows -> Ops]
    BY <1>3, Ends, StepNames DEF AuxWrite
  <2> QED BY <1>3, <2>1, OpFields DEF AuxWrite, UntouchedWindow, NoEvent
<1> QED BY <1>1, <1>2, <1>3 DEF Auxiliary

LEMMA RemovingTyped ==
  ASSUME TypeOK, NEW w \in Windows, Removing(w)
  PROVE  TypeOK'
<1> USE TypeParts DEF Typed
<1>1. Begin("delete", "lock") \in Ops /\ Begin("quarantine", "lock") \in Ops
  BY BeginTyped, StepNames DEF Kinds
<1>2. (End(w, "fail") \/ End(w, "release")) => op' \in [Windows -> Ops]
  BY Ends, StepNames
<1>3. Forget(w) => baseline' \in [Windows -> Baselines] /\ editor' \in [Windows -> Editors]
  <2>1. NoBaseline \in Baselines
    BY DEF NoBaseline, Baseline, Baselines, DocOrNone, Creations
  <2>2. [editor[w] EXCEPT !.of = 0] \in Editors
    BY OpFields DEF Editors, Creations
  <2> QED BY <2>1, <2>2 DEF Forget
<1>4. CASE DeleteBegin(w)
  <2>1. events' \in 0 .. MaxEvents
    BY <1>4, EventTyped DEF DeleteBegin
  <2> QED BY <1>1, <1>4, <2>1 DEF DeleteBegin, UntouchedDisk, UntouchedWindow, disk
<1>5. CASE DeleteAdmit(w)
  <2>1. op' \in [Windows -> Ops]
    BY <1>5, Goes, StepNames DEF DeleteAdmit
  <2> QED BY <1>5, <2>1 DEF DeleteAdmit, UntouchedDisk, UntouchedWindow, NoEvent, disk
<1>6. CASE DeleteEntry(w)
  <2>1. project' \in DocOrNone /\ token' \in Nat /\ aux' \in Nat
    BY <1>6 DEF DeleteEntry, DocOrNone
  <2>2. creation' \in Nat
    BY <1>6 DEF DeleteEntry
  <2> QED BY <1>6, <2>1, <2>2 DEF DeleteEntry, UntouchedWindow, NoEvent
<1>7. CASE DeleteDone(w)
  BY <1>2, <1>3, <1>7 DEF DeleteDone, UntouchedDisk, NoEvent, disk
<1>8. CASE QuarantineBegin(w)
  BY <1>1, <1>8 DEF QuarantineBegin, UntouchedDisk, UntouchedWindow, NoEvent, disk
<1>9. CASE QuarantineMove(w)
  <2>1. CASE project = NoFile /\ token = 0 /\ aux = 0
    BY <1>2, <1>9, <2>1 DEF QuarantineMove, NoEvent, disk
  <2>2. CASE ~(project = NoFile /\ token = 0 /\ aux = 0)
    BY <1>2, <1>3, <1>9, <2>2 DEF QuarantineMove, NoEvent, DocOrNone
  <2> QED BY <2>1, <2>2
<1> QED BY <1>4, <1>5, <1>6, <1>7, <1>8, <1>9 DEF Removing

LEMMA OthersTyped ==
  ASSUME TypeOK, NEW w \in Windows,
         Edit(w) \/ Retry(w) \/ Restart(w)
  PROVE  TypeOK'
<1> USE TypeParts DEF Typed
<1>1. CASE Edit(w)
  <2>1. edited' \in 0 .. MaxEdits /\ edited + 1 \in 1 .. MaxEdits
    BY <1>1, StoreAssumption DEF Edit
  <2>2. [editor[w] EXCEPT !.edits = @ \cup {edited + 1}] \in Editors
    <3>1. editor[w].edits \cup {edited + 1} \in SUBSET (1 .. MaxEdits)
      BY <2>1, OpFields
    <3> QED BY <3>1, OpFields DEF Editors
  <2>3. editor' \in [Windows -> Editors]
    BY <1>1, <2>2 DEF Edit
  <2> QED BY <1>1, <2>1, <2>3 DEF Edit, NoEvent, disk
<1>2. CASE Retry(w)
  BY <1>2 DEF Retry, UntouchedDisk, NoEvent, disk, Phases
<1>3. CASE Restart(w)
  <2>1. Idle \in Ops
    BY BeginTyped, StepNames DEF Kinds
  <2>2. Blank \in Editors /\ NoBaseline \in Baselines
    BY DEF Blank, Editors, NoBaseline, Baseline, Baselines, DocOrNone, Creations
  <2>3. events' \in 0 .. MaxEvents
    BY <1>3, EventTyped DEF Restart
  <2>4. op' \in [Windows -> Ops] /\ phase' \in [Windows -> Phases]
    BY <1>3, <2>1 DEF Restart, Finish, Phases
  <2>5. baseline' \in [Windows -> Baselines] /\ editor' \in [Windows -> Editors]
    BY <1>3, <2>2 DEF Restart
  <2>6. lock' \in Windows \cup {NoWindow, Orphan}
    BY <1>3 DEF Restart
  <2> QED BY <1>3, <2>3, <2>4, <2>5, <2>6 DEF Restart, UntouchedDisk, disk
<1> QED BY <1>1, <1>2, <1>3

LEMMA OutsideTyped ==
  ASSUME TypeOK, LockRemovedByHand \/ ForeignWrite \/ Prune
  PROVE  TypeOK'
<1> USE TypeParts DEF Typed
<1>1. CASE LockRemovedByHand
  <2>1. events' \in 0 .. MaxEvents
    BY <1>1, EventTyped DEF LockRemovedByHand
  <2> QED BY <1>1, <2>1 DEF LockRemovedByHand, UntouchedDisk, UntouchedWindow, disk
<1>2. CASE ForeignWrite
  <2>1. events' \in 0 .. MaxEvents
    BY <1>2, EventTyped DEF ForeignWrite
  <2>2. edited' \in 0 .. MaxEdits /\ edited + 1 \in 1 .. MaxEdits
    BY <1>2, StoreAssumption DEF ForeignWrite
  <2>3. project' \in DocOrNone
    <3>1. project \in Documents
      BY <1>2 DEF ForeignWrite, DocOrNone
    <3>2. project.edits \cup {edited + 1} \in SUBSET (1 .. MaxEdits)
      BY <2>2, <3>1 DEF Documents
    <3> QED BY <1>2, <3>1, <3>2 DEF ForeignWrite, DocOrNone, Documents
  <2> QED BY <1>2, <2>1, <2>2, <2>3 DEF ForeignWrite, UntouchedWindow
<1>3. CASE Prune
  BY <1>3 DEF Prune, UntouchedWindow, NoEvent, disk
<1> QED BY <1>1, <1>2, <1>3

LEMMA NextTyped ==
  ASSUME IInv, [Next]_vars
  PROVE  TypeOK'
<1>1. \A w \in Windows : MigrationHolds(w)
  BY DEF IInv, Private
<1>2. TypeOK
  BY DEF IInv
<1>3. CASE UNCHANGED vars
  BY <1>2, <1>3, TypeParts DEF Typed, vars, disk
<1>4. ASSUME NEW w \in Windows, WindowStep(w) PROVE TypeOK'
  BY <1>1, <1>2, <1>4, LockingTyped, LoadingTyped, ReplacingTyped, MigratingTyped, SavingTyped, AuxiliaryTyped,
     RemovingTyped, OthersTyped DEF WindowStep
<1> QED BY <1>2, <1>3, <1>4, OutsideTyped DEF Next, WindowStep

-----------------------------------------------------------------------------
(* What a step of a window leaves alone: the other windows; the disk, when *)
(* it is not in its locked section; a token is only ever removed or fresh. *)
Framed(w) ==
    /\ \A v \in Windows \ {w} : op'[v] = op[v] /\ baseline'[v] = baseline[v] /\ editor'[v] = editor[v]
    /\ snapshots \subseteq snapshots' /\ foreign' = foreign /\ created' \in {created, created + 1}
    /\ token' \in {token, 0} \/ (token' = created + 1 /\ created' = created + 1)
    /\ project' # project \/ token' # token => op[w].step \in Locked
    /\ lock' # lock => lock \in {NoWindow, w} \/ op[w].step \in Locked
    /\ op'[w].step \in Locked => lock' = w \/ (lock' = lock /\ op[w].step \in Locked)

(* What the steps below need of the types. *)
Domains(w) ==
    /\ op \in [Windows -> Ops] /\ op[w] \in Ops /\ created \in Nat
    /\ baseline \in [Windows -> Baselines] /\ editor \in [Windows -> Editors]

LEMMA DomainsTyped == ASSUME TypeOK, NEW w \in Windows PROVE Domains(w)
BY TypeParts DEF Typed, Domains

LEMMA LockingFramed ==
  ASSUME TypeOK, NEW w \in Windows, Locking(w)
  PROVE  Framed(w)
<1>0. Domains(w)
  BY DomainsTyped
<1> USE <1>0 DEF Domains, Framed, UntouchedDisk, UntouchedWindow, disk
<1>1. CASE TakeLock(w)
  BY <1>1 DEF TakeLock, Goto
<1>2. CASE LockRefused(w)
  BY <1>2 DEF LockRefused, Finish, Idle, Locked
<1>3. ASSUME NEW fails \in BOOLEAN, Leave(w, fails)
      PROVE  /\ \A v \in Windows \ {w} : op'[v] = op[v]
             /\ op'[w].step \notin Locked
  BY <1>3, BeginTyped DEF Leave, AfterRelease, Begin, Idle, Locked
<1>4. CASE Release(w)
  BY <1>3, <1>4 DEF Release, Locked
<1>5. CASE ReleaseFails(w)
  BY <1>3, <1>5 DEF ReleaseFails, Locked
<1>6. CASE Fails(w)
  BY <1>6 DEF Fails, End, Locked
<1> QED BY <1>1, <1>2, <1>4, <1>5, <1>6 DEF Locking

LEMMA LoadingFramed ==
  ASSUME TypeOK, NEW w \in Windows, Loading(w)
  PROVE  Framed(w)
<1>0. Domains(w)
  BY DomainsTyped
<1> USE <1>0 DEF Domains, Framed, UntouchedDisk, UntouchedWindow, disk
<1>1. CASE LoadBegin(w)
  BY <1>1 DEF LoadBegin, Begin, Idle, Locked
<1>2. CASE LoadAgain(w)
  BY <1>2 DEF LoadAgain, Locked
<1>3. CASE LoadRead(w)
  <2>1. (\A v \in Windows \ {w} : op'[v] = op[v]) /\ op'[w].step \notin Locked
    <3>1. CASE Finish(w)
      BY <3>1, <1>3 DEF Finish, Idle, Locked
    <3>2. CASE op' = [op EXCEPT ![w].doc = project, ![w].of = creation, ![w].step = "after"]
      BY <3>2, <1>3 DEF Locked, Ops
    <3> QED BY <3>1, <3>2, <1>3 DEF LoadRead
  <2>2. UNCHANGED <<project, token, lock, snapshots, foreign, created, baseline, editor>>
    BY <1>3 DEF LoadRead
  <2> QED BY ONLY <1>0, <2>1, <2>2 DEF Framed
<1>4. CASE LoadRetried(w)
  <2>1. (\A v \in Windows \ {w} : op'[v] = op[v]) /\ op'[w].step \notin Locked
    <3>1. CASE Finish(w)
      BY <3>1, <1>4 DEF Finish, Idle, Locked
    <3>2. CASE op' = [op EXCEPT ![w].attempt = @ + 1, ![w].step = "before"]
      BY <3>2, <1>4 DEF Locked, Ops
    <3> QED BY <3>1, <3>2, <1>4 DEF LoadRetried
  <2>2. UNCHANGED <<project, token, lock, snapshots, foreign, created, baseline, editor>>
    BY <1>4 DEF LoadRetried
  <2> QED BY ONLY <1>0, <2>1, <2>2 DEF Framed
<1>5. CASE LoadLegacy(w)
  <2>1. (\A v \in Windows \ {w} : op'[v] = op[v]) /\ op'[w].step \notin Locked
    <3>1. CASE Finish(w)
      BY <3>1, <1>5 DEF Finish, Idle, Locked
    <3>2. CASE op' = [op EXCEPT ![w] = [Begin("migrate", "lock") EXCEPT !.token = op[w].token]]
      BY <3>2, <1>5 DEF Begin, Idle, Locked, Ops
    <3> QED BY <3>1, <3>2, <1>5 DEF LoadLegacy
  <2>2. UNCHANGED <<project, token, lock, snapshots, foreign, created, baseline, editor>>
    BY <1>5 DEF LoadLegacy
  <2> QED BY ONLY <1>0, <2>1, <2>2 DEF Framed
<1>6. CASE LoadDone(w)
  BY <1>6 DEF LoadDone, Finish, Idle, Locked
<1> QED BY <1>1, <1>2, <1>3, <1>4, <1>5, <1>6 DEF Loading

LEMMA ReplacingFramed ==
  ASSUME TypeOK, NEW w \in Windows, Replacing(w)
  PROVE  Framed(w)
<1>0. Domains(w)
  BY DomainsTyped
<1> USE <1>0 DEF Domains, Framed, UntouchedDisk, UntouchedWindow, disk
<1>1. CASE Recheck(w)
  BY <1>1 DEF Recheck, End, Locked
<1>2. CASE RenameRetried(w)
  BY <1>2 DEF RenameRetried, Goto, Locked
<1> QED BY <1>1, <1>2 DEF Replacing

LEMMA MigratingFramed ==
  ASSUME TypeOK, NEW w \in Windows, Migrating(w)
  PROVE  Framed(w)
<1>0. Domains(w)
  BY DomainsTyped
<1> USE <1>0 DEF Domains, Framed, UntouchedDisk, UntouchedWindow, disk
<1>1. CASE MigrateAdmit(w)
  BY <1>1 DEF MigrateAdmit, End, At, Locked
<1>2. CASE MigrateKeep(w)
  BY <1>2 DEF MigrateKeep, Goto, At, Locked
<1>3. CASE MigrateReplace(w)
  BY <1>3 DEF MigrateReplace, End, At, Locked
<1> QED BY <1>1, <1>2, <1>3 DEF Migrating

LEMMA SavingFramed ==
  ASSUME TypeOK, NEW w \in Windows, Saving(w)
  PROVE  Framed(w)
<1>0. Domains(w)
  BY DomainsTyped
<1> USE <1>0 DEF Domains, Framed, UntouchedDisk, UntouchedWindow, disk
<1>1. CASE SaveBegin(w)
  BY <1>1 DEF SaveBegin, Begin, Idle, Locked
<1>2. CASE SaveAdmit(w)
  BY <1>2 DEF SaveAdmit, SaveVerdict, End, At, Locked
<1>3. CASE CreateToken(w)
  BY <1>3 DEF CreateToken, At, Locked
<1>4. CASE CreateFile(w)
  BY <1>4 DEF CreateFile, Owns, End, At, Locked
<1>5. CASE SaveReplace(w)
  BY <1>5 DEF SaveReplace, Owns, End, At, Locked
<1> QED BY <1>1, <1>2, <1>3, <1>4, <1>5 DEF Saving

LEMMA AuxiliaryFramed ==
  ASSUME TypeOK, NEW w \in Windows, Auxiliary(w)
  PROVE  Framed(w)
<1>0. Domains(w)
  BY DomainsTyped
<1> USE <1>0 DEF Domains, Framed, UntouchedDisk, UntouchedWindow, disk
<1>1. CASE AuxBegin(w)
  BY <1>1 DEF AuxBegin, Begin, Idle, Locked
<1>2. CASE AuxAdmit(w)
  BY <1>2 DEF AuxAdmit, Goto, End, At, Locked
<1>3. CASE AuxWrite(w)
  BY <1>3 DEF AuxWrite, End, At, Locked
<1> QED BY <1>1, <1>2, <1>3 DEF Auxiliary

LEMMA RemovingFramed ==
  ASSUME TypeOK, NEW w \in Windows, Removing(w)
  PROVE  Framed(w)
<1>0. Domains(w)
  BY DomainsTyped
<1> USE <1>0 DEF Domains, Framed, UntouchedDisk, UntouchedWindow, disk
<1>1. CASE DeleteBegin(w)
  BY <1>1 DEF DeleteBegin, Begin, Idle, Locked
<1>2. CASE DeleteAdmit(w)
  BY <1>2 DEF DeleteAdmit, Goto, At, Locked
<1>3. CASE DeleteEntry(w)
  BY <1>3 DEF DeleteEntry, At, Locked
<1>4. CASE DeleteDone(w)
  BY <1>4 DEF DeleteDone, Forget, End, At, Locked
<1>5. CASE QuarantineBegin(w)
  BY <1>5 DEF QuarantineBegin, Begin, Idle, Locked
<1>6. CASE QuarantineMove(w)
  BY <1>6 DEF QuarantineMove, Forget, End, At, Locked
<1> QED BY <1>1, <1>2, <1>3, <1>4, <1>5, <1>6 DEF Removing

LEMMA OthersFramed ==
  ASSUME TypeOK, NEW w \in Windows, Edit(w) \/ Retry(w) \/ Restart(w)
  PROVE  Framed(w)
<1>0. Domains(w)
  BY DomainsTyped
<1> USE <1>0 DEF Domains, Framed, UntouchedDisk, UntouchedWindow, disk
<1>1. CASE Edit(w)
  BY <1>1 DEF Edit
<1>2. CASE Retry(w)
  BY <1>2 DEF Retry
<1>3. CASE Restart(w)
  BY <1>3 DEF Restart, Finish, Idle, Locked
<1> QED BY <1>1, <1>2, <1>3

LEMMA StepFramed ==
  ASSUME TypeOK, NEW w \in Windows, WindowStep(w)
  PROVE  Framed(w)
BY LockingFramed, LoadingFramed, ReplacingFramed, MigratingFramed, SavingFramed, AuxiliaryFramed, RemovingFramed,
   OthersFramed DEF WindowStep

-----------------------------------------------------------------------------
(* Private(v) survives a step that leaves the operation and the baseline   *)
(* of v alone and only adds to its editor.                                 *)
LEMMA PrivateKept ==
  ASSUME TypeOK, NEW v \in Windows, Private(v),
         op'[v] = op[v], baseline'[v] = baseline[v],
         editor[v].edits \subseteq editor'[v].edits, editor'[v].of = editor[v].of,
         op[v].kind = "migrate" /\ op[v].step \in {"replace", "rename"} /\ op[v].doc \in snapshots
            => op[v].doc \in snapshots',
         created' \in {created, created + 1},
         token' \in {token, 0} \/ (token' = created + 1 /\ created' = created + 1)
  PROVE  Private(v)'
<1>0. op[v].token \in Nat /\ created \in Nat /\ op[v].token <= created
  BY OpFields, TypeParts DEF Typed, Private
<1>1. MigrationHolds(v)' /\ Reread(v)'
  BY DEF Private, MigrationHolds, Reread
<1>2. KnownText(v)' /\ SaveHolds(v)' /\ SaveAdmitted(v)'
  BY DEF Private, KnownText, SaveHolds, SaveAdmitted, Knows, At
<1>3. LoadCreation(v)'
  <2>1. op[v].token # 0 /\ token' = op[v].token => token' = token
    BY <1>0
  <2> QED BY <2>1 DEF Private, LoadCreation, At
<1>4. KnownToken(v)' /\ AuxHolds(v)'
  BY DEF Private, KnownToken, AuxHolds
<1>5. (op[v].token <= created)'
  BY <1>0
<1> QED BY <1>1, <1>2, <1>3, <1>4, <1>5 DEF Private

(* A step that ends or restarts an operation, or one of a deletion.        *)
Busy == {"lock", "locked", "create", "write", "replace", "rename", "after"}

LEMMA PrivateQuiet ==
  ASSUME TypeOK, NEW w \in Windows, Private(w),
         op'[w].step \notin Busy \/ op'[w].kind \in {"delete", "quarantine"}, op'[w].token <= created',
         \/ baseline'[w] = NoBaseline
         \/ /\ baseline'[w] = baseline[w]
            /\ editor'[w].edits = editor[w].edits /\ editor'[w].of = editor[w].of
  PROVE  Private(w)'
<1>1. /\ MigrationHolds(w)' /\ Reread(w)' /\ SaveHolds(w)' /\ SaveAdmitted(w)'
      /\ LoadCreation(w)' /\ AuxHolds(w)'
  BY DEF Busy, MigrationHolds, Reread, SaveHolds, SaveAdmitted, LoadCreation, AuxHolds, At
<1>2. KnownText(w)' /\ KnownToken(w)'
  <2>1. CASE baseline'[w] = NoBaseline
    BY <2>1 DEF KnownText, KnownToken, Knows, NoBaseline, Baseline
  <2>2. CASE /\ baseline'[w] = baseline[w]
             /\ editor'[w].edits = editor[w].edits /\ editor'[w].of = editor[w].of
    BY <2>2 DEF Private, KnownText, KnownToken, Knows
  <2> QED BY <2>1, <2>2
<1> QED BY <1>1, <1>2 DEF Private

(* Ending, failing or dropping an operation. *)
LEMMA OpEnds ==
  ASSUME TypeOK, NEW w \in Windows, NEW s \in Steps
  PROVE  /\ End(w, s) => op'[w].kind = op[w].kind /\ op'[w].step = s /\ op'[w].token = 0
         /\ Finish(w) => op'[w].kind = "none" /\ op'[w].step = "none" /\ op'[w].token = 0
<1>1. op \in [Windows -> Ops]
  BY TypeParts DEF Typed
<1>2. End(w, s) => op'[w] = Begin(op[w].kind, s)
  BY <1>1 DEF End
<1>3. Begin(op[w].kind, s).token = 0
  BY DEF Begin, Idle
<1>4. Begin(op[w].kind, s).kind = op[w].kind /\ Begin(op[w].kind, s).step = s
  BY OpFields, BeginTyped
<1>5. Finish(w) => op'[w] = Idle
  BY <1>1 DEF Finish
<1> QED BY <1>2, <1>3, <1>4, <1>5 DEF Idle

LEMMA LockingPrivate ==
  ASSUME TypeOK, NEW w \in Windows, Private(w), Locking(w)
  PROVE  Private(w)'
<1>0. Domains(w) /\ op[w].token \in Nat
  BY DomainsTyped, OpFields
<1>1. CASE TakeLock(w)
  <2>1. /\ op'[w].kind = op[w].kind /\ op'[w].step = "locked" /\ op'[w].edits = op[w].edits
        /\ op'[w].of = op[w].of /\ op'[w].token = op[w].token /\ op[w].step = "lock"
    BY <1>0, <1>1 DEF TakeLock, Goto, Domains, Ops
  <2>2. UNCHANGED <<baseline, editor, created>>
    BY <1>1 DEF TakeLock, UntouchedDisk, UntouchedWindow
  <2> QED BY <2>1, <2>2 DEF Private, MigrationHolds, Reread, KnownText, SaveHolds, SaveAdmitted,
             LoadCreation, KnownToken, AuxHolds, Knows, At
<1>2. CASE LockRefused(w) \/ Release(w) \/ ReleaseFails(w) \/ Fails(w)
  <2>1. op'[w].step \notin Busy /\ op'[w].token = 0
    <3>1. CASE LockRefused(w)
      BY <3>1, OpEnds, StepNames DEF LockRefused, Busy
    <3>2. CASE Fails(w)
      BY <3>2, OpEnds, StepNames DEF Fails, Busy
    <3>3. ASSUME NEW fails \in BOOLEAN, Leave(w, fails)
          PROVE  op'[w].step \notin Busy /\ op'[w].token = 0
      <4>1. op'[w] = AfterRelease(w, fails)
        BY <1>0, <3>3 DEF Leave, Domains
      <4> QED BY <4>1 DEF AfterRelease, Begin, Idle, Busy
    <3>4. CASE Release(w) \/ ReleaseFails(w)
      BY <3>3, <3>4 DEF Release, ReleaseFails
    <3> QED BY <1>2, <3>1, <3>2, <3>4
  <2>2. UNCHANGED <<baseline, editor, created>>
    BY <1>2 DEF LockRefused, Release, ReleaseFails, Fails, UntouchedDisk, UntouchedWindow
  <2> QED BY <1>0, <2>1, <2>2, PrivateQuiet DEF Domains
<1> QED BY <1>1, <1>2 DEF Locking

LEMMA LoadingPrivate ==
  ASSUME TypeOK, TokenOfProject, NEW w \in Windows, Private(w), Loading(w)
  PROVE  Private(w)'
<1>0. Domains(w) /\ op[w].token \in Nat /\ op[w].token <= created /\ token \in Nat
  BY DomainsTyped, OpFields, TypeParts DEF Private, Typed
<1>1. CASE LoadBegin(w) \/ LoadAgain(w)
  <2>1. op'[w].step = "read" /\ op'[w].token = token
    <3>1. CASE LoadBegin(w)
      <4>1. op'[w] = [Begin("load", "read") EXCEPT !.token = token]
        BY <1>0, <3>1 DEF LoadBegin, Domains
      <4> QED BY <4>1 DEF Begin, Idle
    <3>2. CASE LoadAgain(w)
      BY <1>0, <3>2 DEF LoadAgain, Domains, Ops
    <3> QED BY <1>1, <3>1, <3>2
  <2>2. UNCHANGED <<baseline, editor, created>>
    BY <1>1 DEF LoadBegin, LoadAgain, UntouchedDisk, UntouchedWindow
  <2>3. token <= created
    BY DEF TokenOfProject
  <2> QED BY <2>1, <2>2, <2>3, PrivateQuiet DEF Busy
<1>2. CASE LoadRead(w)
  <2>1. UNCHANGED <<project, token, creation, baseline, editor, created, snapshots>>
    BY <1>2 DEF LoadRead, UntouchedDisk, disk
  <2>2. CASE Finish(w)
    BY <1>0, <2>1, <2>2, OpEnds, StepNames, PrivateQuiet DEF Busy, Domains
  <2>3. CASE op' = [op EXCEPT ![w].doc = project, ![w].of = creation, ![w].step = "after"]
    <3>1. /\ op'[w].kind = "load" /\ op'[w].step = "after" /\ op'[w].token = op[w].token
          /\ op'[w].doc = project /\ op'[w].of = creation
      BY <1>0, <1>2, <2>3 DEF LoadRead, At, Domains, Ops
    <3>2. LoadCreation(w)'
      BY <2>1, <3>1 DEF LoadCreation, TokenOfProject
    <3> QED BY <1>0, <2>1, <3>1, <3>2 DEF Private, MigrationHolds, Reread, KnownText, SaveHolds, SaveAdmitted,
               KnownToken, AuxHolds, Knows, At
  <2> QED BY <1>2, <2>2, <2>3 DEF LoadRead
<1>3. CASE LoadRetried(w)
  <2>1. op'[w].step \notin Busy /\ op'[w].token \in {0, op[w].token}
    <3>1. CASE Finish(w)
      BY <3>1, OpEnds, StepNames DEF Busy
    <3>2. CASE op' = [op EXCEPT ![w].attempt = @ + 1, ![w].step = "before"]
      BY <1>0, <3>2 DEF Domains, Ops, Busy
    <3> QED BY <1>3, <3>1, <3>2 DEF LoadRetried
  <2>2. UNCHANGED <<baseline, editor, created>>
    BY <1>3 DEF LoadRetried, UntouchedDisk
  <2> QED BY <1>0, <2>1, <2>2, PrivateQuiet DEF Domains
<1>4. CASE LoadLegacy(w)
  <2>1. UNCHANGED <<baseline, editor, created>>
    BY <1>4 DEF LoadLegacy, UntouchedDisk
  <2>2. CASE Finish(w)
    BY <1>0, <2>1, <2>2, OpEnds, StepNames, PrivateQuiet DEF Busy, Domains
  <2>3. CASE op' = [op EXCEPT ![w] = [Begin("migrate", "lock") EXCEPT !.token = op[w].token]]
    <3>1. op'[w] = [Begin("migrate", "lock") EXCEPT !.token = op[w].token]
      BY <1>0, <2>3 DEF Domains
    <3>2. op'[w].kind = "migrate" /\ op'[w].step = "lock" /\ op'[w].token = op[w].token
      BY <3>1 DEF Begin, Idle
    <3> QED BY <1>0, <2>1, <3>2 DEF Private, MigrationHolds, Reread, KnownText, SaveHolds, SaveAdmitted,
               LoadCreation, KnownToken, AuxHolds, Knows, At
  <2> QED BY <1>4, <2>2, <2>3 DEF LoadLegacy
<1>5. CASE LoadDone(w)
  <2>1. op'[w].kind = "none" /\ op'[w].step = "none" /\ op'[w].token = 0
    BY <1>5, OpEnds, StepNames DEF LoadDone
  <2>2. CASE op[w].doc = NoFile
    <3>1. baseline'[w] = NoBaseline
      BY <1>0, <1>5, <2>2 DEF LoadDone, Domains
    <3> QED BY <1>0, <1>5, <2>1, <3>1, PrivateQuiet DEF Busy, Domains, LoadDone, UntouchedDisk
  <2>3. CASE op[w].doc # NoFile
    <3>1. /\ baseline'[w] = Baseline(op[w].doc, op[w].token)
          /\ editor'[w] = [edits |-> op[w].doc.edits, of |-> op[w].of]
      BY <1>0, <1>5, <2>3 DEF LoadDone, Domains
    <3>2. op[w].doc \in Documents
      BY <2>3, OpFields DEF DocOrNone
    <3>3. KnownText(w)'
      BY <3>1, <3>2 DEF KnownText, Baseline
    <3>4. KnownToken(w)'
      BY <1>5, <2>3, <3>1 DEF LoadDone, Coherent, Private, LoadCreation, KnownToken, Baseline
    <3>5. created' = created
      BY <1>5 DEF LoadDone, UntouchedDisk
    <3> QED BY <1>0, <2>1, <3>3, <3>4, <3>5 DEF Domains, Private, MigrationHolds, Reread, SaveHolds, SaveAdmitted,
               LoadCreation, AuxHolds, At
  <2> QED BY <2>2, <2>3
<1> QED BY <1>1, <1>2, <1>3, <1>4, <1>5 DEF Loading

LEMMA ReplacingPrivate ==
  ASSUME TypeOK, NEW w \in Windows, Private(w), Replacing(w)
  PROVE  Private(w)'
<1>0. Domains(w) /\ op[w].token \in Nat /\ op[w].token <= created
  BY DomainsTyped, OpFields DEF Private
<1>1. UNCHANGED <<baseline, editor, created, snapshots>>
  BY DEF Replacing, Recheck, RenameRetried, UntouchedDisk, UntouchedWindow
<1>2. CASE Recheck(w) /\ End(w, "fail")
  BY <1>0, <1>1, <1>2, OpEnds, StepNames, PrivateQuiet DEF Busy, Domains
<1>3. ASSUME op[w].step \in {"replace", "rename"}, op'[w].step \in {"replace", "rename"},
             op[w].kind \in {"save", "migrate"}, op'[w].kind = op[w].kind,
             op'[w].doc = op[w].doc, op'[w].token = op[w].token, op'[w].edits = op[w].edits,
             op'[w].step = "rename" => op'[w].latest = op[w].doc
      PROVE  Private(w)'
  <2>1. MigrationHolds(w)' /\ Reread(w)'
    BY <1>1, <1>3 DEF Private, MigrationHolds, Reread
  <2>2. SaveHolds(w)' /\ SaveAdmitted(w)'
    BY <1>1, <1>3 DEF Private, SaveHolds, SaveAdmitted, Knows
  <2> QED BY <1>0, <1>1, <1>3, <2>1, <2>2 DEF Private, KnownText, LoadCreation, KnownToken, AuxHolds,
             Knows, At
<1>4. CASE Recheck(w) /\ Unchanged(w)
  <2>1. op' = [op EXCEPT ![w].step = "rename", ![w].latest = project]
    BY <1>4 DEF Recheck
  <2> QED BY <1>0, <1>3, <1>4, <2>1 DEF Recheck, Unchanged, Domains, Ops
<1>5. CASE RenameRetried(w)
  BY <1>0, <1>3, <1>5 DEF RenameRetried, Goto, Domains, Ops
<1> QED BY <1>2, <1>4, <1>5 DEF Replacing, Recheck

LEMMA MigratingPrivate ==
  ASSUME TypeOK, NEW w \in Windows, Private(w), Migrating(w)
  PROVE  Private(w)'
<1>0. Domains(w) /\ op[w].token \in Nat /\ op[w].token <= created
  BY DomainsTyped, OpFields DEF Private
<1>1. UNCHANGED <<baseline, editor, created>>
  BY DEF Migrating, MigrateAdmit, MigrateKeep, MigrateReplace, UntouchedDisk, UntouchedWindow
<1>2. ASSUME End(w, "fail") \/ End(w, "release") PROVE Private(w)'
  BY <1>0, <1>1, <1>2, OpEnds, StepNames, PrivateQuiet DEF Busy, Domains
<1>3. CASE MigrateAdmit(w)
  <2>1. CASE /\ token = op[w].token /\ project # NoFile /\ project.kind = "LEGACY"
             /\ op' = [op EXCEPT ![w].step = "write", ![w].doc = project]
    <3>1. /\ op'[w].kind = "migrate" /\ op'[w].step = "write" /\ op'[w].token = op[w].token
          /\ op'[w].doc = project
      BY <1>0, <1>3, <2>1 DEF MigrateAdmit, At, Domains, Ops
    <3>2. project \in Documents
      BY <2>1, TypeParts DEF Typed, DocOrNone
    <3>3. MigrationHolds(w)'
      BY <2>1, <3>1, <3>2 DEF MigrationHolds, At
    <3> QED BY <1>0, <1>1, <3>1, <3>3 DEF Private, Reread, KnownText, SaveHolds, SaveAdmitted,
               LoadCreation, KnownToken, AuxHolds, Knows, At
  <2> QED BY <1>2, <1>3, <2>1 DEF MigrateAdmit
<1>4. CASE MigrateKeep(w)
  <2>1. /\ op'[w].kind = "migrate" /\ op'[w].step = "replace" /\ op'[w].token = op[w].token
        /\ op'[w].doc = op[w].doc /\ op[w].kind = "migrate" /\ op[w].step = "write"
    BY <1>0, <1>4 DEF MigrateKeep, Goto, At, Domains, Ops
  <2>2. op[w].doc \in snapshots'
    BY <1>4 DEF MigrateKeep
  <2>3. MigrationHolds(w)'
    BY <2>1, <2>2 DEF Private, MigrationHolds, Reread, At
  <2> QED BY <1>0, <1>1, <2>1, <2>3 DEF Private, Reread, KnownText, SaveHolds, SaveAdmitted,
             LoadCreation, KnownToken, AuxHolds, Knows, At
<1>5. CASE MigrateReplace(w)
  BY <1>2, <1>5 DEF MigrateReplace
<1> QED BY <1>3, <1>4, <1>5 DEF Migrating

LEMMA SavingPrivate ==
  ASSUME TypeOK, TokenOfProject, NEW w \in Windows, Private(w), Section(w), Saving(w)
  PROVE  Private(w)'
<1>0. /\ Domains(w) /\ op[w].token \in Nat /\ op[w].token <= created
      /\ token \in Nat /\ token <= created /\ editor[w] \in Editors
  BY DomainsTyped, OpFields, TypeParts DEF Private, Typed, TokenOfProject
<1>1. ASSUME End(w, "fail") \/ End(w, "release"), UNCHANGED <<baseline, editor, created>>
      PROVE  Private(w)'
  BY <1>0, <1>1, OpEnds, StepNames, PrivateQuiet DEF Busy, Domains
<1>2. ASSUME op[w].kind = "save", op[w].step \in {"write", "rename"}, token = op[w].token,
             NEW c \in Nat, op[w].token # 0 => c = op[w].token,
             Owns(w, Document("CURRENT", op[w].edits), op[w].token, c),
             End(w, "release"), UNCHANGED created
      PROVE  Private(w)'
  <2>1. /\ baseline'[w] = Baseline(Document("CURRENT", op[w].edits), op[w].token)
        /\ editor'[w].of = c /\ editor'[w].edits = editor[w].edits
    BY <1>0, <1>2 DEF Owns, Domains, Editors
  <2>2. /\ Document("CURRENT", op[w].edits) \in Documents
        /\ Document("CURRENT", op[w].edits).edits = op[w].edits
    BY OpFields, DocumentTyped
  <2>3. op[w].edits \subseteq editor[w].edits
    BY <1>2 DEF Private, SaveHolds
  <2>4. KnownText(w)' /\ KnownToken(w)'
    BY <1>2, <2>1, <2>2, <2>3 DEF KnownText, KnownToken, Baseline
  <2>5. op'[w].kind = "save" /\ op'[w].step = "release" /\ op'[w].token = 0
    BY <1>2, OpEnds, StepNames
  <2> QED BY <1>0, <1>2, <2>4, <2>5 DEF Domains, Private, MigrationHolds, Reread, SaveHolds, SaveAdmitted,
             LoadCreation, AuxHolds, At
<1>3. CASE SaveBegin(w)
  <2>1. op'[w] = [Begin("save", "lock") EXCEPT !.edits = editor[w].edits]
    BY <1>0, <1>3 DEF SaveBegin, Domains
  <2>2. /\ op'[w].kind = "save" /\ op'[w].step = "lock" /\ op'[w].edits = editor[w].edits
        /\ op'[w].token = 0
    BY <2>1 DEF Begin, Idle
  <2>3. UNCHANGED <<baseline, editor, created>>
    BY <1>3 DEF SaveBegin, UntouchedDisk, UntouchedWindow
  <2> QED BY <1>0, <2>2, <2>3 DEF Domains, Private, MigrationHolds, Reread, KnownText, SaveHolds, SaveAdmitted,
             LoadCreation, KnownToken, AuxHolds, Knows, At
<1>4. CASE SaveAdmit(w)
  <2>1. UNCHANGED <<baseline, editor, created>>
    BY <1>4 DEF SaveAdmit, UntouchedDisk, UntouchedWindow
  <2>2. CASE SaveVerdict(w) = "fail"
    BY <1>1, <1>4, <2>1, <2>2 DEF SaveAdmit
  <2>3. CASE SaveVerdict(w) # "fail"
    <3>1. op' = [op EXCEPT ![w].step = SaveVerdict(w), ![w].doc = project, ![w].token = token]
      BY <1>4, <2>3 DEF SaveAdmit
    <3>2. /\ op'[w].kind = "save" /\ op'[w].step = SaveVerdict(w) /\ op'[w].edits = op[w].edits
          /\ op'[w].token = token /\ op'[w].doc = project
          /\ op[w].kind = "save" /\ op[w].step = "locked"
      BY <1>0, <1>4, <3>1 DEF SaveAdmit, At, Domains, Ops
    <3>3. SaveAdmitted(w)'
      <4>1. SaveVerdict(w) = "replace" =>
               /\ project # NoFile /\ project.kind = "CURRENT"
               /\ Knows(w) => baseline[w].doc = project /\ baseline[w].token = token
        BY DEF SaveVerdict, Stale
      <4>2. SaveVerdict(w) = "replace" => project \in Documents
        BY <4>1, TypeParts DEF Typed, DocOrNone
      <4>3. SaveVerdict(w) \in {"fail", "create", "replace"}
        BY DEF SaveVerdict
      <4>4. op'[w].step \in {"replace", "rename"} => SaveVerdict(w) = "replace"
        BY <3>2, <4>3
      <4> QED BY <2>1, <3>2, <4>1, <4>2, <4>4 DEF SaveAdmitted, At, Knows
    <3>4. op'[w].step # "rename"
      BY <3>2 DEF SaveVerdict
    <3> QED BY <1>0, <2>1, <3>2, <3>3, <3>4 DEF Private, MigrationHolds, Reread, KnownText, SaveHolds,
               LoadCreation, KnownToken, AuxHolds, Knows, At
  <2> QED BY <2>2, <2>3
<1>5. CASE CreateToken(w)
  <2>1. op' = [op EXCEPT ![w].step = "write", ![w].token = created + 1]
    BY <1>5 DEF CreateToken
  <2>2. /\ op'[w].kind = "save" /\ op'[w].step = "write" /\ op'[w].edits = op[w].edits
        /\ op'[w].token = created + 1
        /\ op[w].kind = "save" /\ op[w].step = "create"
    BY <1>0, <1>5, <2>1 DEF CreateToken, At, Domains, Ops
  <2>3. UNCHANGED <<baseline, editor>> /\ created' = created + 1
    BY <1>5 DEF CreateToken, UntouchedWindow
  <2> QED BY <1>0, <2>2, <2>3 DEF Domains, Private, MigrationHolds, Reread, KnownText, SaveHolds, SaveAdmitted,
             LoadCreation, KnownToken, AuxHolds, Knows, At
<1>6. CASE CreateFile(w)
  <2>1. /\ op[w].kind = "save" /\ op[w].step = "write" /\ token = op[w].token
        /\ Owns(w, Document("CURRENT", op[w].edits), op[w].token, op[w].token)
        /\ End(w, "release") /\ UNCHANGED created
    BY <1>6 DEF CreateFile, At, Section
  <2> QED BY <1>0, <1>2, <2>1
<1>7. CASE SaveReplace(w)
  <2>1. /\ op[w].kind = "save" /\ op[w].step = "rename" /\ token = op[w].token /\ project # NoFile
        /\ Owns(w, Document("CURRENT", op[w].edits), op[w].token, creation)
        /\ End(w, "release") /\ UNCHANGED created
    BY <1>7 DEF SaveReplace, At, Section
  <2>2. creation \in Nat /\ (op[w].token # 0 => creation = op[w].token)
    BY <2>1, TypeParts DEF TokenOfProject, Typed
  <2> QED BY <1>2, <2>1, <2>2
<1> QED BY <1>3, <1>4, <1>5, <1>6, <1>7 DEF Saving

LEMMA AuxiliaryPrivate ==
  ASSUME TypeOK, NEW w \in Windows, Private(w), Auxiliary(w)
  PROVE  Private(w)'
<1>0. Domains(w) /\ op[w].token \in Nat /\ op[w].token <= created
  BY DomainsTyped, OpFields DEF Private
<1>1. UNCHANGED <<baseline, editor, created>>
  BY DEF Auxiliary, AuxBegin, AuxAdmit, AuxWrite, UntouchedDisk, UntouchedWindow
<1>2. ASSUME End(w, "fail") \/ End(w, "release") PROVE Private(w)'
  BY <1>0, <1>1, <1>2, OpEnds, StepNames, PrivateQuiet DEF Busy, Domains
<1>3. CASE AuxBegin(w)
  <2>1. op'[w] = [Begin("aux", "lock") EXCEPT !.of = editor[w].of]
    BY <1>0, <1>3 DEF AuxBegin, Domains
  <2>2. op'[w].kind = "aux" /\ op'[w].step = "lock" /\ op'[w].of = editor[w].of /\ op'[w].token = 0
    BY <2>1 DEF Begin, Idle
  <2> QED BY <1>0, <1>1, <2>2 DEF Domains, Private, MigrationHolds, Reread, KnownText, SaveHolds, SaveAdmitted,
             LoadCreation, KnownToken, AuxHolds, Knows, At
<1>4. CASE AuxAdmit(w)
  <2>1. CASE Goto(w, "write")
    <3>1. /\ op'[w].kind = "aux" /\ op'[w].step = "write" /\ op'[w].of = op[w].of
          /\ op'[w].token = op[w].token /\ op[w].kind = "aux" /\ op[w].step = "locked"
      BY <1>0, <1>4, <2>1 DEF AuxAdmit, Goto, At, Domains, Ops
    <3> QED BY <1>0, <1>1, <3>1 DEF Private, MigrationHolds, Reread, KnownText, SaveHolds, SaveAdmitted,
               LoadCreation, KnownToken, AuxHolds, Knows, At
  <2> QED BY <1>2, <1>4, <2>1 DEF AuxAdmit
<1>5. CASE AuxWrite(w)
  BY <1>2, <1>5 DEF AuxWrite
<1> QED BY <1>3, <1>4, <1>5 DEF Auxiliary

LEMMA RemovingPrivate ==
  ASSUME TypeOK, NEW w \in Windows, Private(w), Removing(w)
  PROVE  Private(w)'
<1>0. Domains(w) /\ op[w].token \in Nat /\ op[w].token <= created
  BY DomainsTyped, OpFields DEF Private
<1>1. /\ op'[w].kind \in {"delete", "quarantine"} /\ op'[w].token \in {0, op[w].token}
      /\ created' = created
  <2>1. \A s \in Steps, k \in Kinds : Begin(k, s).kind = k /\ Begin(k, s).token = 0
    BY BeginTyped DEF Begin, Idle
  <2>2. CASE DeleteBegin(w) \/ QuarantineBegin(w)
    <3>1. op'[w] = Begin("delete", "lock") \/ op'[w] = Begin("quarantine", "lock")
      BY <1>0, <2>2 DEF DeleteBegin, QuarantineBegin, Domains
    <3>2. created' = created
      BY <2>2 DEF DeleteBegin, QuarantineBegin, UntouchedDisk
    <3> QED BY <2>1, <3>1, <3>2, StepNames DEF Kinds
  <2>3. CASE DeleteAdmit(w)
    BY <1>0, <2>3 DEF DeleteAdmit, Goto, At, Domains, Ops, UntouchedDisk
  <2>4. CASE DeleteEntry(w)
    BY <2>4 DEF DeleteEntry, At
  <2>5. CASE DeleteDone(w) \/ QuarantineMove(w)
    BY <2>5, OpEnds, StepNames DEF DeleteDone, QuarantineMove, At, UntouchedDisk
  <2> QED BY <2>2, <2>3, <2>4, <2>5 DEF Removing
<1>2. UNCHANGED <<baseline, editor>> \/ baseline'[w] = NoBaseline
  BY <1>0 DEF Removing, DeleteBegin, DeleteAdmit, DeleteEntry, DeleteDone, QuarantineBegin, QuarantineMove,
     UntouchedWindow, Forget, Domains
<1> QED BY <1>0, <1>1, <1>2, PrivateQuiet DEF Domains

LEMMA OthersPrivate ==
  ASSUME TypeOK, NEW w \in Windows, Private(w), Edit(w) \/ Retry(w) \/ Restart(w)
  PROVE  Private(w)'
<1>0. Domains(w) /\ op[w].token \in Nat /\ token \in Nat
  BY DomainsTyped, OpFields, TypeParts DEF Typed
<1>1. CASE Edit(w) \/ Retry(w)
  <2>1. UNCHANGED <<op, baseline, token, snapshots, created>>
    BY <1>1 DEF Edit, Retry, UntouchedDisk, disk
  <2>2. editor[w].edits \subseteq editor'[w].edits /\ editor'[w].of = editor[w].of
    BY <1>0, <1>1 DEF Edit, Retry, Domains, Editors
  <2> QED BY <1>0, <2>1, <2>2, PrivateKept DEF Domains
<1>2. CASE Restart(w)
  <2>1. baseline'[w] = NoBaseline /\ created' = created
    BY <1>0, <1>2 DEF Restart, Domains, UntouchedDisk
  <2>2. op'[w].step = "none" /\ op'[w].token = 0
    BY <1>2, OpEnds, StepNames DEF Restart
  <2> QED BY <1>0, <2>1, <2>2, PrivateQuiet DEF Busy, Domains
<1> QED BY <1>1, <1>2

LEMMA StepPrivate ==
  ASSUME IInv, NEW w \in Windows, WindowStep(w)
  PROVE  \A v \in Windows : Private(v)'
<1>1. Private(w)'
  BY LockingPrivate, LoadingPrivate, ReplacingPrivate, MigratingPrivate, SavingPrivate, AuxiliaryPrivate,
     RemovingPrivate, OthersPrivate DEF IInv, WindowStep
<1>2. ASSUME NEW v \in Windows \ {w} PROVE Private(v)'
  <2>1. Framed(w) /\ TypeOK /\ Private(v)
    BY StepFramed DEF IInv
  <2> QED BY <2>1, PrivateKept DEF Framed
<1> QED BY <1>1, <1>2

-----------------------------------------------------------------------------
(* The lock: it is taken when nobody holds it and left by its holder.      *)
LEMMA StepLocked ==
  ASSUME IInv, NEW w \in Windows, WindowStep(w)
  PROVE  LockHeld'
<1>1. Framed(w) /\ LockHeld
  BY StepFramed DEF IInv
<1>2. ASSUME NEW v \in Windows, op'[v].step \in Locked PROVE lock' = v
  <2>1. CASE v = w
    BY <1>1, <1>2, <2>1 DEF Framed, LockHeld
  <2>2. CASE v # w
    <3>1. op[v].step \in Locked /\ lock = v
      BY <1>1, <1>2, <2>2 DEF Framed, LockHeld
    <3>2. op[w].step \notin Locked /\ lock \notin {NoWindow, w}
      BY <1>1, <2>2, <3>1, StoreAssumption DEF LockHeld
    <3> QED BY <1>1, <3>1, <3>2 DEF Framed
  <2> QED BY <2>1, <2>2
<1> QED BY <1>2 DEF LockHeld

LEMMA SectionAlone ==
  ASSUME IInv, NEW w \in Windows, WindowStep(w), NEW v \in Windows \ {w}
  PROVE  Section(v)'
<1>1. /\ Framed(w) /\ LockHeld /\ Section(v)
      /\ op'[v] = op[v] /\ baseline'[v] = baseline[v]
  BY StepFramed DEF IInv, Framed
<1>2. CASE op[v].step \in {"create", "write", "replace", "rename"}
  <2>1. lock = v
    BY <1>1, <1>2 DEF LockHeld, Locked
  <2>2. op[w].step \notin Locked
    BY <1>1, <2>1 DEF LockHeld
  <2>3. project' = project /\ token' = token /\ foreign' = foreign
    BY <1>1, <2>2 DEF Framed
  <2> QED BY <1>1, <2>3 DEF Section, Knows, At
<1>3. CASE op[v].step \notin {"create", "write", "replace", "rename"}
  BY <1>1, <1>3 DEF Section, At
<1> QED BY <1>2, <1>3

(* Which steps enter the part of a save, a migration or an auxiliary write *)
(* that relies on the disk.                                                *)
Relying == {"create", "write", "replace", "rename"}

LEMMA SectionQuiet ==
  ASSUME NEW w \in Windows,
         \/ op'[w].step \notin Relying
         \/ op'[w].kind \notin {"save", "aux", "migrate"}
         \/ op'[w].kind = "migrate" /\ op'[w].step # "rename"
  PROVE  Section(w)'
BY DEF Section, Relying, At

LEMMA LockingSection ==
  ASSUME TypeOK, NEW w \in Windows, Locking(w)
  PROVE  Section(w)'
<1>0. Domains(w)
  BY DomainsTyped
<1>1. CASE TakeLock(w)
  BY <1>0, <1>1, SectionQuiet DEF TakeLock, Goto, Domains, Ops, Relying
<1>2. CASE LockRefused(w) \/ Fails(w)
  BY <1>2, OpEnds, StepNames, SectionQuiet DEF LockRefused, Fails, Relying
<1>3. ASSUME NEW fails \in BOOLEAN, Leave(w, fails) PROVE Section(w)'
  <2>1. op'[w] = AfterRelease(w, fails)
    BY <1>0, <1>3 DEF Leave, Domains
  <2>2. op'[w].step \notin Relying
    BY <2>1 DEF AfterRelease, Begin, Idle, Relying
  <2> QED BY <2>2, SectionQuiet
<1>4. CASE Release(w) \/ ReleaseFails(w)
  BY <1>3, <1>4 DEF Release, ReleaseFails
<1> QED BY <1>1, <1>2, <1>4 DEF Locking

LEMMA LoadingSection ==
  ASSUME TypeOK, NEW w \in Windows, Loading(w)
  PROVE  Section(w)'
<1>0. Domains(w)
  BY DomainsTyped
<1> USE SectionQuiet, <1>0 DEF Domains, Relying
<1>1. CASE LoadBegin(w)
  <2>1. op'[w] = [Begin("load", "read") EXCEPT !.token = token]
    BY <1>1 DEF LoadBegin
  <2> QED BY <2>1 DEF Begin, Idle
<1>2. CASE LoadAgain(w)
  BY <1>2 DEF LoadAgain, Ops
<1>3. ASSUME Finish(w) PROVE Section(w)'
  BY <1>3, OpEnds, StepNames
<1>4. CASE LoadRead(w)
  <2>1. CASE op' = [op EXCEPT ![w].doc = project, ![w].of = creation, ![w].step = "after"]
    BY <2>1 DEF Ops
  <2> QED BY <1>3, <1>4, <2>1 DEF LoadRead
<1>5. CASE LoadRetried(w)
  <2>1. CASE op' = [op EXCEPT ![w].attempt = @ + 1, ![w].step = "before"]
    BY <2>1 DEF Ops
  <2> QED BY <1>3, <1>5, <2>1 DEF LoadRetried
<1>6. CASE LoadLegacy(w)
  <2>1. CASE op' = [op EXCEPT ![w] = [Begin("migrate", "lock") EXCEPT !.token = op[w].token]]
    <3>1. op'[w] = [Begin("migrate", "lock") EXCEPT !.token = op[w].token]
      BY <2>1
    <3> QED BY <3>1 DEF Begin, Idle
  <2> QED BY <1>3, <1>6, <2>1 DEF LoadLegacy
<1>7. CASE LoadDone(w)
  BY <1>3, <1>7 DEF LoadDone
<1> QED BY <1>1, <1>2, <1>4, <1>5, <1>6, <1>7 DEF Loading

LEMMA ReplacingSection ==
  ASSUME TypeOK, NEW w \in Windows, Private(w), Section(w), Replacing(w)
  PROVE  Section(w)'
<1>0. Domains(w) /\ UNCHANGED <<project, token, foreign, baseline>>
  BY DomainsTyped DEF Replacing, Recheck, RenameRetried, UntouchedDisk, UntouchedWindow, disk
<1>1. CASE Recheck(w) /\ End(w, "fail")
  BY <1>1, OpEnds, StepNames, SectionQuiet DEF Relying
<1>2. CASE Recheck(w) /\ Unchanged(w)
  <2>1. op' = [op EXCEPT ![w].step = "rename", ![w].latest = project]
    BY <1>2 DEF Recheck
  <2>2. /\ op[w].kind \in {"save", "migrate"} /\ op[w].step = "replace"
        /\ op'[w].kind = op[w].kind /\ op'[w].step = "rename" /\ op'[w].token = op[w].token
        /\ op'[w].doc = op[w].doc /\ project = op[w].doc
    BY <1>0, <1>2, <2>1 DEF Recheck, Unchanged, Domains, Ops
  <2>3. op[w].doc \in Documents
    BY <2>2 DEF Private, MigrationHolds, SaveAdmitted
  <2> QED BY <1>0, <2>2, <2>3, MissingIsNoDocument DEF Section, Knows, At
<1>3. CASE RenameRetried(w)
  <2>1. /\ op[w].kind \in {"save", "migrate"} /\ op[w].step = "rename"
        /\ op'[w].kind = op[w].kind /\ op'[w].step = "replace" /\ op'[w].token = op[w].token
    BY <1>0, <1>3 DEF RenameRetried, Goto, Domains, Ops
  <2> QED BY <1>0, <2>1 DEF Section, Knows, At
<1> QED BY <1>1, <1>2, <1>3 DEF Replacing, Recheck

LEMMA MigratingSection ==
  ASSUME TypeOK, NEW w \in Windows, Migrating(w)
  PROVE  Section(w)'
<1>0. Domains(w)
  BY DomainsTyped
<1>1. op'[w].kind = "migrate" /\ op'[w].step # "rename"
  <2>1. op[w].kind = "migrate"
    BY DEF Migrating, MigrateAdmit, MigrateKeep, MigrateReplace, At
  <2>2. CASE End(w, "fail") \/ End(w, "release")
    BY <2>1, <2>2, OpEnds, StepNames
  <2>3. CASE op' = [op EXCEPT ![w].step = "write", ![w].doc = project]
    BY <1>0, <2>1, <2>3 DEF Domains, Ops
  <2>4. CASE Goto(w, "replace")
    BY <1>0, <2>1, <2>4 DEF Goto, Domains, Ops
  <2> QED BY <2>2, <2>3, <2>4 DEF Migrating, MigrateAdmit, MigrateKeep, MigrateReplace
<1> QED BY <1>1, SectionQuiet

LEMMA SavingSection ==
  ASSUME TypeOK, NEW w \in Windows, Section(w), Saving(w)
  PROVE  Section(w)'
<1>0. Domains(w)
  BY DomainsTyped
<1>1. ASSUME End(w, "fail") \/ End(w, "release") PROVE Section(w)'
  BY <1>1, OpEnds, StepNames, SectionQuiet DEF Relying
<1>2. CASE SaveBegin(w)
  <2>1. op'[w] = [Begin("save", "lock") EXCEPT !.edits = editor[w].edits]
    BY <1>0, <1>2 DEF SaveBegin, Domains
  <2>2. op'[w].step = "lock"
    BY <2>1 DEF Begin, Idle
  <2> QED BY <2>2, SectionQuiet DEF Relying
<1>3. CASE SaveAdmit(w)
  <2>1. CASE SaveVerdict(w) = "fail"
    BY <1>1, <1>3, <2>1 DEF SaveAdmit
  <2>2. CASE SaveVerdict(w) # "fail"
    <3>1. op' = [op EXCEPT ![w].step = SaveVerdict(w), ![w].doc = project, ![w].token = token]
      BY <1>3, <2>2 DEF SaveAdmit
    <3>2. op'[w].kind = "save" /\ op'[w].step = SaveVerdict(w) /\ op'[w].token = token
      BY <1>0, <1>3, <3>1 DEF SaveAdmit, At, Domains, Ops
    <3>3. UNCHANGED <<project, token, baseline>>
      BY <1>3 DEF SaveAdmit, UntouchedDisk, UntouchedWindow, disk
    <3>4. /\ SaveVerdict(w) \in {"create", "replace"}
          /\ SaveVerdict(w) = "create" => project = NoFile /\ ~Knows(w)
      BY <2>2 DEF SaveVerdict
    <3> QED BY <3>2, <3>3, <3>4 DEF Section, Knows, At
  <2> QED BY <2>1, <2>2
<1>4. CASE CreateToken(w)
  <2>1. op' = [op EXCEPT ![w].step = "write", ![w].token = created + 1]
    BY <1>4 DEF CreateToken
  <2>2. op'[w].kind = "save" /\ op'[w].step = "write" /\ op'[w].token = token'
    BY <1>0, <1>4, <2>1 DEF CreateToken, At, Domains, Ops
  <2>3. UNCHANGED <<project, baseline>> /\ project = NoFile /\ ~Knows(w)
    BY <1>4 DEF CreateToken, UntouchedWindow, Section, At
  <2> QED BY <2>2, <2>3 DEF Section, Knows, At
<1>5. CASE CreateFile(w) \/ SaveReplace(w)
  BY <1>1, <1>5 DEF CreateFile, SaveReplace
<1> QED BY <1>2, <1>3, <1>4, <1>5 DEF Saving

LEMMA AuxiliarySection ==
  ASSUME TypeOK, NEW w \in Windows, Private(w), Auxiliary(w)
  PROVE  Section(w)'
<1>0. Domains(w)
  BY DomainsTyped
<1>1. ASSUME End(w, "fail") \/ End(w, "release") PROVE Section(w)'
  BY <1>1, OpEnds, StepNames, SectionQuiet DEF Relying
<1>2. CASE AuxBegin(w)
  <2>1. op'[w] = [Begin("aux", "lock") EXCEPT !.of = editor[w].of]
    BY <1>0, <1>2 DEF AuxBegin, Domains
  <2>2. op'[w].step = "lock"
    BY <2>1 DEF Begin, Idle
  <2> QED BY <2>2, SectionQuiet DEF Relying
<1>3. CASE AuxAdmit(w)
  <2>1. CASE Stale(w, project, token)
    BY <1>1, <1>3, <2>1 DEF AuxAdmit
  <2>2. CASE ~Stale(w, project, token)
    <3>1. op'[w].kind = "aux" /\ op'[w].step = "write"
      BY <1>0, <1>3, <2>2 DEF AuxAdmit, Goto, At, Domains, Ops
    <3>2. UNCHANGED <<project, token, baseline>>
      BY <1>3 DEF AuxAdmit, UntouchedDisk, UntouchedWindow, disk
    <3>3. Knows(w) => project # NoFile /\ token = baseline[w].token
      BY <2>2, MissingIsNoDocument DEF Stale, Private, KnownText
    <3> QED BY <3>1, <3>2, <3>3 DEF Section, Knows, At
  <2> QED BY <2>1, <2>2
<1>4. CASE AuxWrite(w)
  BY <1>1, <1>4 DEF AuxWrite
<1> QED BY <1>2, <1>3, <1>4 DEF Auxiliary

LEMMA RemovingSection ==
  ASSUME TypeOK, NEW w \in Windows, Removing(w)
  PROVE  Section(w)'
<1>0. Domains(w)
  BY DomainsTyped
<1>1. op'[w].kind \in {"delete", "quarantine"}
  <2>1. CASE DeleteBegin(w) \/ QuarantineBegin(w)
    <3>1. op'[w] = Begin("delete", "lock") \/ op'[w] = Begin("quarantine", "lock")
      BY <1>0, <2>1 DEF DeleteBegin, QuarantineBegin, Domains
    <3> QED BY <3>1, BeginTyped, StepNames DEF Kinds
  <2>2. CASE DeleteAdmit(w)
    BY <1>0, <2>2 DEF DeleteAdmit, Goto, At, Domains, Ops
  <2>3. CASE DeleteEntry(w)
    BY <2>3 DEF DeleteEntry, At
  <2>4. CASE DeleteDone(w) \/ QuarantineMove(w)
    BY <2>4, OpEnds, StepNames DEF DeleteDone, QuarantineMove, At
  <2> QED BY <2>1, <2>2, <2>3, <2>4 DEF Removing
<1> QED BY <1>1, SectionQuiet

LEMMA OthersSection ==
  ASSUME TypeOK, NEW w \in Windows, Section(w), Edit(w) \/ Retry(w) \/ Restart(w)
  PROVE  Section(w)'
<1>1. CASE Edit(w) \/ Retry(w)
  BY <1>1 DEF Edit, Retry, UntouchedDisk, disk, Section, Knows, At
<1>2. CASE Restart(w)
  BY <1>2, OpEnds, StepNames, SectionQuiet DEF Restart, Relying
<1> QED BY <1>1, <1>2

LEMMA StepSection ==
  ASSUME IInv, NEW w \in Windows, WindowStep(w)
  PROVE  \A v \in Windows : Section(v)'
<1>1. Section(w)'
  BY LockingSection, LoadingSection, ReplacingSection, MigratingSection, SavingSection, AuxiliarySection,
     RemovingSection, OthersSection DEF IInv, WindowStep
<1> QED BY <1>1, SectionAlone

-----------------------------------------------------------------------------
(* The token on disk is that of the project beside it.                     *)
LEMMA StepToken ==
  ASSUME IInv, NEW w \in Windows, WindowStep(w)
  PROVE  TokenOfProject'
<1>0. /\ TypeOK /\ TokenOfProject /\ Private(w) /\ Section(w)
      /\ token \in Nat /\ created \in Nat /\ creation \in Nat
  BY TypeParts DEF IInv, Typed
<1>1. ASSUME UNCHANGED <<disk, created>> PROVE TokenOfProject'
  BY <1>0, <1>1 DEF TokenOfProject, disk
<1>2. ASSUME UNCHANGED <<token, creation, created>>, project # NoFile PROVE TokenOfProject'
  BY <1>0, <1>2 DEF TokenOfProject
<1>3. CASE Locking(w) \/ Replacing(w)
  BY <1>1, <1>3 DEF Locking, TakeLock, LockRefused, Release, ReleaseFails, Fails,
     Replacing, Recheck, RenameRetried, UntouchedDisk
<1>4. CASE Loading(w)
  BY <1>1, <1>4 DEF Loading, LoadBegin, LoadAgain, LoadRead, LoadRetried, LoadLegacy, LoadDone, UntouchedDisk
<1>5. CASE Migrating(w)
  <2>1. CASE MigrateAdmit(w) \/ MigrateKeep(w)
    BY <1>1, <2>1 DEF MigrateAdmit, MigrateKeep, UntouchedDisk
  <2>2. CASE MigrateReplace(w)
    BY <1>0, <1>2, <2>2 DEF MigrateReplace, Section, At
  <2> QED BY <1>5, <2>1, <2>2 DEF Migrating
<1>6. CASE Saving(w)
  <2>1. CASE SaveBegin(w) \/ SaveAdmit(w)
    BY <1>1, <2>1 DEF SaveBegin, SaveAdmit, UntouchedDisk
  <2>2. CASE CreateToken(w)
    BY <1>0, <2>2 DEF CreateToken, Section, At, TokenOfProject
  <2>3. CASE CreateFile(w)
    BY <1>0, <2>3 DEF CreateFile, Section, At, TokenOfProject
  <2>4. CASE SaveReplace(w)
    BY <1>0, <1>2, <2>4 DEF SaveReplace, Section, At
  <2> QED BY <1>6, <2>1, <2>2, <2>3, <2>4 DEF Saving
<1>7. CASE Auxiliary(w)
  <2>1. CASE AuxBegin(w) \/ AuxAdmit(w)
    BY <1>1, <2>1 DEF AuxBegin, AuxAdmit, UntouchedDisk
  <2>2. CASE AuxWrite(w)
    BY <1>0, <2>2 DEF AuxWrite, TokenOfProject
  <2> QED BY <1>7, <2>1, <2>2 DEF Auxiliary
<1>8. CASE Removing(w)
  <2>1. CASE DeleteBegin(w) \/ DeleteAdmit(w) \/ DeleteDone(w) \/ QuarantineBegin(w)
    BY <1>1, <2>1 DEF DeleteBegin, DeleteAdmit, DeleteDone, QuarantineBegin, UntouchedDisk
  <2>2. CASE DeleteEntry(w)
    BY <1>0, <2>2 DEF DeleteEntry, TokenOfProject
  <2>3. CASE QuarantineMove(w)
    BY <1>0, <2>3 DEF QuarantineMove, TokenOfProject, disk
  <2> QED BY <1>8, <2>1, <2>2, <2>3 DEF Removing
<1>9. CASE Edit(w) \/ Retry(w) \/ Restart(w)
  BY <1>1, <1>9 DEF Edit, Retry, Restart, UntouchedDisk
<1> QED BY <1>3, <1>4, <1>5, <1>6, <1>7, <1>8, <1>9 DEF WindowStep

(* A hand that removes an orphaned lock, a program that ignores it, and    *)
(* the pruning of old snapshots.                                           *)
LEMMA OutsideKeeps ==
  ASSUME IInv, LockRemovedByHand \/ ForeignWrite \/ Prune
  PROVE  LockHeld' /\ TokenOfProject' /\ \A v \in Windows : Private(v)' /\ Section(v)'
<1>0. /\ TypeOK /\ TokenOfProject /\ LockHeld
      /\ UNCHANGED <<op, baseline, editor, created, token, creation>>
  BY DEF IInv, LockRemovedByHand, ForeignWrite, Prune, UntouchedDisk, UntouchedWindow, disk
<1>1. LockHeld'
  <2>1. CASE lock' = lock
    BY <1>0, <2>1 DEF LockHeld
  <2>2. CASE lock = Orphan
    BY <1>0, <2>2, StoreAssumption DEF LockHeld
  <2> QED BY <2>1, <2>2 DEF LockRemovedByHand, ForeignWrite, Prune
<1>2. \/ project' = project /\ foreign' = foreign
      \/ /\ project # NoFile /\ project' # NoFile
         /\ project'.edits \ foreign' \subseteq project.edits \ foreign
  <2>1. CASE LockRemovedByHand \/ Prune
    BY <2>1 DEF LockRemovedByHand, Prune, UntouchedDisk, disk
  <2>2. CASE ForeignWrite
    <3>1. project \in Documents
      BY <1>0, <2>2, TypeParts DEF ForeignWrite, Typed, DocOrNone
    <3>2. edited + 1 \in 1 .. MaxEdits
      BY <1>0, <2>2, TypeParts, StoreAssumption DEF ForeignWrite, Typed
    <3>3. project' \in Documents /\ project'.edits = project.edits \cup {edited + 1}
      <4>1. project.edits \cup {edited + 1} \in SUBSET (1 .. MaxEdits)
        BY <3>1, <3>2 DEF Documents
      <4> QED BY <2>2, <3>1, <4>1 DEF ForeignWrite, Documents
    <3>4. foreign' = foreign \cup {edited + 1}
      BY <2>2 DEF ForeignWrite
    <3> QED BY <2>2, <3>3, <3>4, MissingIsNoDocument DEF ForeignWrite
  <2> QED BY <2>1, <2>2
<1>3. TokenOfProject'
  BY <1>0, <1>2 DEF TokenOfProject
<1>4. ASSUME NEW v \in Windows PROVE Private(v)' /\ Section(v)'
  <2>1. Private(v) /\ Section(v)
    BY DEF IInv
  <2>2. op[v].kind = "migrate" /\ op[v].step \in {"replace", "rename"} /\ op[v].doc \in snapshots
           => op[v].doc \in snapshots'
    <3>1. CASE LockRemovedByHand \/ ForeignWrite
      BY <3>1 DEF LockRemovedByHand, ForeignWrite, UntouchedDisk
    <3>2. CASE Prune
      BY <3>2 DEF Prune
    <3> QED BY <3>1, <3>2
  <2>3. Private(v)'
    BY <1>0, <2>1, <2>2, PrivateKept
  <2>4. Section(v)'
    <3>1. CASE project' = project /\ foreign' = foreign
      BY <1>0, <2>1, <3>1 DEF Section, Knows, At
    <3>2. CASE /\ project # NoFile /\ project' # NoFile
               /\ project'.edits \ foreign' \subseteq project.edits \ foreign
      BY <1>0, <2>1, <3>2 DEF Section, Knows, At
    <3> QED BY <1>2, <3>1, <3>2
  <2> QED BY <2>3, <2>4
<1> QED BY <1>1, <1>3, <1>4

-----------------------------------------------------------------------------
(* The invariant holds at first, when every window is still loading.       *)
LEMMA InitInvariant == Init => IInv
<1> SUFFICES ASSUME Init PROVE IInv
  OBVIOUS
<1>1. LockHeld
  BY DEF Init, LockHeld, Idle, Locked
<1>2. TokenOfProject
  BY DEF Init, TokenOfProject
<1>3. ASSUME NEW w \in Windows PROVE Private(w) /\ Section(w)
  <2>1. op[w] = Idle /\ baseline[w] = NoBaseline /\ created = 1
    BY DEF Init
  <2> QED BY <2>1 DEF Private, Section, MigrationHolds, Reread, KnownText, SaveHolds, SaveAdmitted,
             LoadCreation, KnownToken, AuxHolds, Knows, NoBaseline, Baseline, Idle, At
<1> QED BY <1>1, <1>2, <1>3, InitTyped DEF IInv

LEMMA StepInvariant == IInv /\ [Next]_vars => IInv'
<1> SUFFICES ASSUME IInv, [Next]_vars PROVE IInv'
  OBVIOUS
<1>1. TypeOK'
  BY NextTyped
<1>2. CASE UNCHANGED vars
  <2>1. LockHeld' /\ TokenOfProject' /\ \A v \in Windows : Private(v)' /\ Section(v)'
    BY <1>2 DEF IInv, LockHeld, TokenOfProject, Private, Section, MigrationHolds, Reread, KnownText, SaveHolds,
       SaveAdmitted, LoadCreation, KnownToken, AuxHolds, Knows, At, vars, disk
  <2> QED BY <1>1, <2>1 DEF IInv
<1>3. ASSUME NEW w \in Windows, WindowStep(w) PROVE IInv'
  BY <1>1, <1>3, StepLocked, StepPrivate, StepSection, StepToken DEF IInv
<1>4. CASE LockRemovedByHand \/ ForeignWrite \/ Prune
  BY <1>1, <1>4, OutsideKeeps DEF IInv
<1> QED BY <1>2, <1>3, <1>4 DEF Next, WindowStep

LEMMA Invariant == Spec => []IInv
BY InitInvariant, StepInvariant, PTL DEF Spec

(* Every variable keeps its type.                                          *)
THEOREM StoreTypes == Spec => []TypeOK
<1>1. IInv => TypeOK
  BY DEF IInv
<1> QED BY <1>1, Invariant, PTL

(* A window in a section the lock file protects holds the lock, whoever    *)
(* deletes the directory, is killed, or has its lock removed by hand       *)
(* (projectFsStore.ts:933).                                                *)
THEOREM LockIsHeld == Spec => []LockHeld
<1>1. IInv => LockHeld
  BY DEF IInv
<1> QED BY <1>1, Invariant, PTL

(* Only the step of a window's own save changes the project while that     *)
(* window is saving and its operation moves.                               *)
LEMMA SaveWrites ==
  ASSUME IInv, [Next]_vars, NEW w \in Windows, op'[w] # op[w], op[w].kind = "save", project' # project
  PROVE  CreateFile(w) \/ SaveReplace(w)
<1>1. PICK v \in Windows : WindowStep(v)
  BY DEF Next, WindowStep, vars, disk, LockRemovedByHand, ForeignWrite, Prune
<1>2. v = w
  BY <1>1, StepFramed DEF Framed, IInv
<1>3. WindowStep(w)
  BY <1>1, <1>2
<1>4. ~(Locking(w) \/ Loading(w) \/ Replacing(w) \/ Edit(w) \/ Retry(w) \/ Restart(w))
  BY DEF Locking, TakeLock, LockRefused, Release, ReleaseFails, Fails, Loading, LoadBegin, LoadAgain,
     LoadRead, LoadRetried, LoadLegacy, LoadDone, Replacing, Recheck, RenameRetried, Edit, Retry, Restart,
     UntouchedDisk, disk
<1>5. ~(Migrating(w) \/ Auxiliary(w) \/ Removing(w))
  BY DEF Migrating, MigrateAdmit, MigrateKeep, MigrateReplace, Auxiliary, AuxBegin, AuxAdmit, AuxWrite,
     Removing, DeleteBegin, DeleteAdmit, DeleteEntry, DeleteDone, QuarantineBegin, QuarantineMove,
     UntouchedDisk, disk, At
<1>6. Saving(w)
  BY <1>3, <1>4, <1>5 DEF WindowStep
<1> QED BY <1>6 DEF Saving, SaveBegin, SaveAdmit, CreateToken, CreateFile, SaveReplace, UntouchedDisk, disk

LEMMA AuxWrites ==
  ASSUME IInv, [Next]_vars, NEW w \in Windows, op'[w] # op[w], op[w].kind = "aux", aux' # aux
  PROVE  AuxWrite(w)
<1>1. PICK v \in Windows : WindowStep(v)
  BY DEF Next, WindowStep, vars, disk, LockRemovedByHand, ForeignWrite, Prune, UntouchedDisk
<1>2. v = w
  BY <1>1, StepFramed DEF Framed, IInv
<1>3. WindowStep(w)
  BY <1>1, <1>2
<1>4. ~(Locking(w) \/ Loading(w) \/ Replacing(w) \/ Edit(w) \/ Retry(w) \/ Restart(w))
  BY DEF Locking, TakeLock, LockRefused, Release, ReleaseFails, Fails, Loading, LoadBegin, LoadAgain,
     LoadRead, LoadRetried, LoadLegacy, LoadDone, Replacing, Recheck, RenameRetried, Edit, Retry, Restart,
     UntouchedDisk, disk
<1>5. ~(Migrating(w) \/ Saving(w) \/ Removing(w))
  BY DEF Migrating, MigrateAdmit, MigrateKeep, MigrateReplace, Saving, SaveBegin, SaveAdmit, CreateToken,
     CreateFile, SaveReplace, Removing, DeleteBegin, DeleteAdmit, DeleteEntry, DeleteDone, QuarantineBegin,
     QuarantineMove, UntouchedDisk, disk, At
<1>6. Auxiliary(w)
  BY <1>3, <1>4, <1>5 DEF WindowStep
<1> QED BY <1>6 DEF Auxiliary, AuxBegin, AuxAdmit, AuxWrite, UntouchedDisk, disk

LEMMA StepReverts ==
  ASSUME IInv, [Next]_vars, NEW w \in Windows, Writes(w), project # NoFile, Knows(w)
  PROVE  /\ project.edits \ foreign \subseteq project'.edits
         /\ op[w].latest = project => project.edits \subseteq project'.edits
<1>1. /\ Private(w) /\ Section(w) /\ TypeOK /\ op[w].edits \in SUBSET (1 .. MaxEdits)
  BY OpFields DEF IInv
<1>2. CASE op[w].kind = "save" /\ op'[w] # op[w] /\ project' # project
  <2>1. CASE CreateFile(w)
    BY <1>1, <2>1 DEF CreateFile, Section, At
  <2>2. CASE SaveReplace(w)
    <3>1. /\ project' = Document("CURRENT", op[w].edits) /\ op[w].doc = baseline[w].doc
          /\ op[w].latest = op[w].doc /\ project.edits \ foreign \subseteq op[w].doc.edits
      BY <1>1, <2>2 DEF SaveReplace, Private, SaveAdmitted, Reread, Section, At
    <3>2. baseline[w].doc.edits \subseteq op[w].edits
      BY <1>1, <2>2 DEF SaveReplace, Private, SaveHolds, At
    <3> QED BY <3>1, <3>2 DEF Document
  <2> QED BY <1>2, <2>1, <2>2, SaveWrites
<1>3. CASE op[w].kind = "aux" /\ op'[w] # op[w] /\ aux' # aux
  <2>1. AuxWrite(w)
    BY <1>3, AuxWrites
  <2> QED BY <2>1 DEF AuxWrite
<1> QED BY <1>2, <1>3 DEF Writes

(* The fence against stale writers: a window that knows what it edits      *)
(* never takes back the edits of another window (fsCore.ts:167), and of a  *)
(* program that ignores the lock only what it wrote between the last       *)
(* re-read and the rename.                                                 *)
THEOREM Fence == Spec => NoSilentRevert
<1>1. IInv /\ [Next]_vars =>
         [\A w \in Windows :
             Writes(w) /\ project # NoFile /\ Knows(w) =>
                 /\ project.edits \ foreign \subseteq project'.edits
                 /\ op[w].latest = project => project.edits \subseteq project'.edits]_vars
  BY StepReverts
<1> QED BY <1>1, Invariant, PTL DEF Spec, NoSilentRevert

LEMMA StepOwns ==
  ASSUME IInv, [Next]_vars, NEW w \in Windows, baseline[w].token # 0, Writes(w)
  PROVE  /\ project # NoFile /\ editor[w].of = creation
         /\ op[w].kind = "aux" => aux' = creation
<1>1. Private(w) /\ Section(w) /\ TokenOfProject
  BY DEF IInv
<1>2. Knows(w)
  BY DEF Knows, NoBaseline, Baseline
<1>3. editor[w].of = baseline[w].token
  BY <1>1 DEF Private, KnownToken
<1>4. CASE op[w].kind = "save" /\ op'[w] # op[w] /\ project' # project
  <2>1. ~CreateFile(w)
    BY <1>1, <1>2 DEF CreateFile, Section, At
  <2>2. SaveReplace(w)
    BY <1>4, <2>1, SaveWrites
  <2>3. project # NoFile /\ token = baseline[w].token
    BY <1>1, <1>2, <2>2 DEF SaveReplace, Private, SaveAdmitted, Section, At
  <2> QED BY <1>1, <1>3, <1>4, <2>3 DEF TokenOfProject
<1>5. CASE op[w].kind = "aux" /\ op'[w] # op[w] /\ aux' # aux
  <2>1. AuxWrite(w)
    BY <1>5, AuxWrites
  <2>2. project # NoFile /\ token = baseline[w].token
    BY <1>1, <1>2, <2>1 DEF AuxWrite, Section
  <2>3. op[w].of = baseline[w].token
    BY <1>1, <2>1 DEF AuxWrite, Private, AuxHolds, At
  <2> QED BY <1>1, <1>3, <2>1, <2>2, <2>3 DEF AuxWrite, TokenOfProject
<1> QED BY <1>4, <1>5 DEF Writes

(* A window that knows the creation it edits by its token never writes     *)
(* into another creation, nor brings a removed one back.                   *)
THEOREM CreationKept == Spec => OwnCreation
<1>1. IInv /\ [Next]_vars =>
         [\A w \in Windows :
             baseline[w].token # 0 /\ Writes(w) =>
                 /\ project # NoFile /\ editor[w].of = creation
                 /\ op[w].kind = "aux" => aux' = creation]_vars
  BY StepOwns
<1> QED BY <1>1, Invariant, PTL DEF Spec, OwnCreation

(* When a migration replaces the text its re-read saw, that text is in a   *)
(* snapshot: it is the one that was kept, and no pruning has taken it.     *)
THEOREM LegacyKept == Spec => LegacyTextKept
<1>1. IInv /\ [Next]_vars =>
         [\A w \in Windows :
             At(w, "migrate", "rename") /\ op'[w] # op[w] /\ project' # project
                 /\ op[w].latest = project
             => project \in snapshots]_vars
  BY DEF IInv, Private, MigrationHolds, Reread, At
<1> QED BY <1>1, Invariant, PTL DEF Spec, LegacyTextKept
=============================================================================
