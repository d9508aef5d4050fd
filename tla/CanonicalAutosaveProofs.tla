----------------------- MODULE CanonicalAutosaveProofs -----------------------
(***************************************************************************)
(* Proofs about the web autosave, for any set of tabs and any number of    *)
(* events: types, the respect of stored versions, and that the text of a   *)
(* project stays with it as long as its epoch named no other project.      *)
(***************************************************************************)
EXTENDS CanonicalAutosave, TLAPS

(***************************************************************************)
(* The inductive invariant.                                                *)
(***************************************************************************)
Pasts == [to : Projects, ready : BOOLEAN, redo : BOOLEAN]
Carriers == [line : Lines, epoch : Epochs]

(* What a tab has seen or made is no newer than the events.                *)
Bounded(t) ==
    /\ editor[t].epoch <= events /\ editor[t].ver <= events
    /\ past[t].to.epoch <= events /\ past[t].to.ver <= events
    /\ op[t].snap.ver <= events /\ op[t].seen.ver <= events /\ op[t].next.ver <= events

(* What a save knows of the record it will compare.  A migration started   *)
(* without a marker: as long as its record is the one stored there is      *)
(* still none, since every write that sets one stores another kind, and a  *)
(* later legacy record is newer.                                           *)
Ready(t) ==
    /\ op[t].pc = "commit" => op[t].seen.kind = "current"
    /\ op[t].pc = "write" =>
          /\ op[t].next.kind = "current"
          /\ op[t].how = "create" => op[t].seen.kind = "absent"
          /\ op[t].how \in {"edit", "replace"} => op[t].seen.kind = "current"
          /\ op[t].how = "migrate" => op[t].seen.kind = "legacy" /\ (stored = op[t].seen => ~marker)

IInv ==
    /\ TypeOK /\ stored.ver <= events
    /\ \A t \in Tabs : Bounded(t) /\ Ready(t)

TabStep(t) ==
    \/ Load(t) \/ Close(t) \/ Edit(t) \/ Reset(t) \/ Import(t) \/ Undo(t)
    \/ Capture(t) \/ Dispatch(t) \/ Evaluate(t) \/ Commit(t)
    \/ Migrate(t) \/ Migrated(t) \/ Saved(t) \/ Conflict(t) \/ Fail(t)

-----------------------------------------------------------------------------
LEMMA Constants0 ==
  /\ None \in Lines /\ 0 \in Vers /\ 0 \in Epochs /\ 1 \in Lines
  /\ NoPast \in Pasts /\ NoPast.to \in Projects /\ NoPast.to.ver = 0 /\ NoPast.to.epoch = 0
  /\ Absent \in Records /\ Absent.kind = "absent" /\ Absent.ver = 0
  /\ NoCarrier \in Carriers
<1>1. None \in Lines /\ 0 \in Vers /\ 0 \in Epochs /\ 1 \in Lines
  BY AutosaveAssumption DEF None, Lines, Vers, Epochs
<1>2. /\ NoPast \in Pasts /\ NoPast.to \in Projects /\ NoPast.to.ver = 0 /\ NoPast.to.epoch = 0
  BY <1>1 DEF NoPast, Pasts, Projects
<1>3. Absent \in Records /\ Absent.kind = "absent" /\ Absent.ver = 0 /\ NoCarrier \in Carriers
  BY <1>1 DEF Absent, Records, Kinds, NoCarrier, Carriers
<1> QED BY <1>1, <1>2, <1>3

LEMMA IdleTyped ==
  /\ Idle \in Ops /\ Idle.pc = "idle"
  /\ Idle.snap.ver = 0 /\ Idle.seen.ver = 0 /\ Idle.next.ver = 0
BY Constants0 DEF Idle, Ops

(* A tab's part of the state. *)
LEMMA TabTyped ==
  ASSUME TypeOK, NEW t \in Tabs
  PROVE  /\ op[t] \in Ops /\ editor[t] \in Projects /\ past[t] \in Pasts /\ carrier[t] \in Carriers
         /\ past[t].to \in Projects /\ op[t].snap \in Projects
         /\ op[t].seen \in Records /\ op[t].next \in Records /\ known[t] \in Records
BY DEF TypeOK, Ops, Pasts, Carriers

LEMMA EventTyped ==
  ASSUME TypeOK, Event
  PROVE  events' = events + 1 /\ events' \in 0 .. MaxEvents /\ events \in Nat
BY AutosaveAssumption DEF Event, TypeOK

LEMMA CurrentTyped ==
  ASSUME NEW p \in Projects, NEW x \in Lines
  PROVE  Current(p, x) \in Records /\ Current(p, x).kind = "current" /\ Current(p, x).ver = p.ver
BY DEF Current, Projects, Records, Kinds

LEMMA EndTyped ==
  ASSUME TypeOK, NEW t \in Tabs, End(t)
  PROVE  op' \in [Tabs -> Ops] /\ op'[t] = Idle /\ \A u \in Tabs \ {t} : op'[u] = op[u]
BY IdleTyped DEF End, TypeOK

(* A step of the save of t: only its operation moves. *)
Saves(t) == UNCHANGED <<stored, marker, tabVars, events, lines>>

LEMMA SavesTyped ==
  ASSUME TypeOK, NEW t \in Tabs, Saves(t), op' \in [Tabs -> Ops]
  PROVE  TypeOK'
BY DEF Saves, TypeOK, tabVars

LEMMA SavesBounded ==
  ASSUME TypeOK, NEW t \in Tabs, Bounded(t), Saves(t), NEW r, op'[t] = r,
         r.snap.ver <= events, r.seen.ver <= events, r.next.ver <= events
  PROVE  Bounded(t)'
BY DEF Saves, Bounded, tabVars

-----------------------------------------------------------------------------
(* The user's steps.                                                       *)
LEMMA LoadKeeps ==
  ASSUME IInv, NEW t \in Tabs, Load(t)
  PROVE  TypeOK' /\ Bounded(t)'
<1>0. /\ TypeOK /\ Bounded(t) /\ stored \in Records /\ stored.ver <= events /\ events \in Nat
      /\ editor \in [Tabs -> Projects] /\ known \in [Tabs -> Records] /\ lines \in Lines
  BY AutosaveAssumption DEF IInv, TypeOK
<1>1. lines' \in Lines
  BY DEF Load
<1>2. PICK n \in Lines : editor' = [editor EXCEPT ![t] = [line |-> n, ver |-> stored.ver, epoch |-> 0]]
  <2>1. CASE stored.kind = "absent"
    BY <1>1, <2>1 DEF Load
  <2>2. CASE stored.kind # "absent"
    BY <1>0, <2>2 DEF Load, Records
  <2> QED BY <2>1, <2>2
<1>3. [line |-> n, ver |-> stored.ver, epoch |-> 0] \in Projects
  BY <1>0, Constants0 DEF Projects, Records
<1>4. editor' \in [Tabs -> Projects] /\ editor'[t].ver = stored.ver /\ editor'[t].epoch = 0
  BY <1>0, <1>2, <1>3
<1>5. known' \in [Tabs -> Records]
  BY <1>0 DEF Load
<1>6. TypeOK'
  <2>1. named' = [named EXCEPT ![t] = {<<0, editor'[t].line>>}] /\ editor'[t].line \in Lines
    BY <1>4 DEF Load, Projects
  <2>2. named' \in [Tabs -> SUBSET (Epochs \X Lines)]
    BY <1>0, <2>1, Constants0 DEF TypeOK
  <2> QED BY <1>0, <1>1, <1>4, <1>5, <2>2 DEF TypeOK, Load
<1>7. Bounded(t)'
  BY <1>0, <1>4 DEF Bounded, Load
<1> QED BY <1>6, <1>7

LEMMA CloseKeeps ==
  ASSUME IInv, NEW t \in Tabs, Close(t)
  PROVE  TypeOK' /\ Bounded(t)'
<1>0. TypeOK /\ events' \in 0 .. MaxEvents
  BY EventTyped DEF IInv, Close
<1>1. /\ editor' \in [Tabs -> Projects] /\ past' \in [Tabs -> Pasts] /\ dirty' \in [Tabs -> BOOLEAN]
      /\ editor'[t] = NoPast.to /\ past'[t] = NoPast
  BY <1>0, Constants0 DEF Close, TypeOK, Pasts
<1>2. /\ baseline' \in [Tabs -> Epochs \cup {NoEpoch}] /\ carrier' \in [Tabs -> Carriers]
      /\ known' \in [Tabs -> Records] /\ owed' \in [Tabs -> Lines]
      /\ named' \in [Tabs -> SUBSET (Epochs \X Lines)]
  BY <1>0, Constants0 DEF Close, TypeOK, Carriers
<1>3. op' \in [Tabs -> Ops] /\ op'[t] = Idle
  BY <1>0, IdleTyped DEF Close, TypeOK
<1>4. TypeOK'
  BY <1>0, <1>1, <1>2, <1>3 DEF TypeOK, Close, Pasts, Carriers
<1>5. Bounded(t)'
  BY <1>0, <1>1, <1>3, Constants0, IdleTyped DEF Bounded
<1> QED BY <1>4, <1>5

LEMMA EditKeeps ==
  ASSUME IInv, NEW t \in Tabs, Edit(t)
  PROVE  TypeOK' /\ Bounded(t)'
<1>0. TypeOK /\ Bounded(t) /\ events' = events + 1 /\ events' \in 0 .. MaxEvents /\ events \in Nat
  BY EventTyped DEF IInv, Edit
<1>1. [editor[t] EXCEPT !.ver = events + 1] \in Projects
  BY <1>0, TabTyped DEF Projects, Vers
<1>2. /\ editor' \in [Tabs -> Projects] /\ editor'[t].ver = events + 1
      /\ editor'[t].epoch = editor[t].epoch
  BY <1>0, <1>1, TabTyped DEF Edit, TypeOK, Projects
<1>3. past' \in [Tabs -> Pasts] /\ (past'[t].to = past[t].to \/ past'[t].to = NoPast.to)
  <2>2. /\ [past[t] EXCEPT !.ready = past[t].ready \/ past[t].to.line # None] \in Pasts
        /\ [past[t] EXCEPT !.ready = past[t].ready \/ past[t].to.line # None].to = past[t].to
    BY <1>0, TabTyped DEF Pasts
  <2>3. past \in [Tabs -> Pasts]
    BY <1>0 DEF TypeOK, Pasts
  <2> DEFINE edited == [past[t] EXCEPT !.ready = past[t].ready \/ past[t].to.line # None]
             new == IF past[t].redo THEN NoPast ELSE edited
  <2>4. past' = [past EXCEPT ![t] = new]
    BY DEF Edit
  <2>5. edited \in Pasts /\ edited.to = past[t].to
    BY <2>2
  <2> HIDE DEF edited
  <2>6. new \in Pasts /\ (new.to = past[t].to \/ new.to = NoPast.to)
    BY <2>5, Constants0
  <2> HIDE DEF new
  <2> QED BY <2>3, <2>4, <2>6
<1>4. TypeOK'
  BY <1>0, <1>2, <1>3 DEF TypeOK, Edit, Pasts
<1>5. Bounded(t)'
  <2>1. /\ past[t].to.epoch \in Nat /\ past[t].to.ver \in Nat /\ editor[t].epoch \in Nat
        /\ op[t].snap.ver \in Nat /\ op[t].seen.ver \in Nat /\ op[t].next.ver \in Nat
    BY <1>0, TabTyped DEF Projects, Records, Epochs, Vers
  <2>2. op' = op
    BY DEF Edit
  <2> QED BY <1>0, <1>2, <1>3, <2>1, <2>2, Constants0 DEF Bounded
<1> QED BY <1>4, <1>5

LEMMA NewProjectKeeps ==
  ASSUME IInv, NEW t \in Tabs, NEW undoable \in BOOLEAN, NewProject(t, undoable)
  PROVE  /\ events' = events + 1 /\ events' \in 0 .. MaxEvents
         /\ lines' \in Lines /\ lines' = lines + 1 /\ editor[t].epoch + 1 \in Epochs
         /\ editor' \in [Tabs -> Projects] /\ past' \in [Tabs -> Pasts] /\ dirty' \in [Tabs -> BOOLEAN]
         /\ named' \in [Tabs -> SUBSET (Epochs \X Lines)] /\ Bounded(t)'
<1>0. /\ TypeOK /\ Bounded(t) /\ events' = events + 1 /\ events' \in 0 .. MaxEvents /\ events \in Nat
      /\ editor \in [Tabs -> Projects] /\ past \in [Tabs -> Pasts]
  BY EventTyped DEF IInv, NewProject, TypeOK, Pasts
<1>1. lines' \in Lines /\ lines' = lines + 1
  BY DEF NewProject
<1>2. editor[t].epoch \in Nat /\ editor[t].epoch + 1 \in Epochs
  <2>1. editor[t].epoch \in 0 .. MaxEvents /\ editor[t].epoch <= events
    BY <1>0, TabTyped DEF Bounded, Projects, Epochs
  <2> QED BY <1>0, <2>1, AutosaveAssumption DEF Epochs
<1>3. [line |-> lines + 1, ver |-> events + 1, epoch |-> editor[t].epoch + 1] \in Projects
  BY <1>0, <1>1, <1>2 DEF Projects, Vers
<1>4. editor' = [editor EXCEPT ![t] =
                    [line |-> lines + 1, ver |-> events + 1, epoch |-> editor[t].epoch + 1]]
  BY DEF NewProject
<1>5. /\ editor' \in [Tabs -> Projects]
      /\ editor'[t].ver = events + 1 /\ editor'[t].epoch = editor[t].epoch + 1
  BY <1>0, <1>3, <1>4
<1>6. /\ [to |-> LatestUnfiltered(t), ready |-> undoable, redo |-> FALSE] \in Pasts
      /\ LatestUnfiltered(t) \in {editor[t], past[t].to}
  BY <1>0, TabTyped DEF Pasts, LatestUnfiltered
<1>7. past' \in [Tabs -> Pasts] /\ past'[t].to \in {editor[t], past[t].to}
  BY <1>0, <1>6 DEF NewProject
<1>8. dirty' \in [Tabs -> BOOLEAN]
  BY <1>0 DEF NewProject, TypeOK
<1>9. op' = op /\ op[t].snap.ver \in Nat /\ op[t].seen.ver \in Nat /\ op[t].next.ver \in Nat
      /\ editor[t].ver \in Nat /\ past[t].to.ver \in Nat /\ past[t].to.epoch \in Nat
  BY <1>0, TabTyped DEF NewProject, Projects, Records, Vers, Epochs
<1>10. Bounded(t)'
  BY <1>0, <1>2, <1>5, <1>7, <1>9 DEF Bounded
<1>11. named' \in [Tabs -> SUBSET (Epochs \X Lines)]
  <2>1. <<editor[t].epoch + 1, lines + 1>> \in Epochs \X Lines
    BY <1>1, <1>2
  <2> QED BY <1>0, <2>1 DEF NewProject, TypeOK
<1> QED BY <1>0, <1>1, <1>2, <1>5, <1>7, <1>8, <1>10, <1>11

LEMMA ReplaceKeeps ==
  ASSUME IInv, NEW t \in Tabs, Reset(t) \/ Import(t)
  PROVE  TypeOK' /\ Bounded(t)'
<1>0. TypeOK
  BY DEF IInv
<1>1. PICK undoable \in BOOLEAN : NewProject(t, undoable)
  BY DEF Reset, Import
<1>2. /\ events' \in 0 .. MaxEvents /\ lines' \in Lines /\ lines' = lines + 1 /\ Bounded(t)'
      /\ editor[t].epoch + 1 \in Epochs
      /\ editor' \in [Tabs -> Projects] /\ past' \in [Tabs -> Pasts] /\ dirty' \in [Tabs -> BOOLEAN]
      /\ named' \in [Tabs -> SUBSET (Epochs \X Lines)]
  BY <1>1, NewProjectKeeps
<1>3. carrier' \in [Tabs -> Carriers] /\ owed' \in [Tabs -> Lines]
  <2>1. carrier \in [Tabs -> Carriers] /\ owed \in [Tabs -> Lines]
    BY <1>0 DEF TypeOK, Carriers
  <2>2. CASE Reset(t)
    BY <2>1, <2>2, Constants0 DEF Reset
  <2>3. CASE Import(t)
    <3>1. [line |-> lines + 1, epoch |-> editor[t].epoch + 1] \in Carriers
      BY <1>2 DEF Carriers
    <3> QED BY <1>2, <2>1, <2>3, <3>1 DEF Import
  <2> QED BY <2>2, <2>3
<1>4. UNCHANGED <<stored, marker, up, baseline, op, known>>
  BY <1>1 DEF NewProject
<1> QED BY <1>0, <1>2, <1>3, <1>4 DEF TypeOK, Pasts, Carriers

LEMMA UndoKeeps ==
  ASSUME IInv, NEW t \in Tabs, Undo(t)
  PROVE  TypeOK' /\ Bounded(t)'
<1>0. /\ TypeOK /\ Bounded(t) /\ events' = events + 1 /\ events' \in 0 .. MaxEvents /\ events \in Nat
      /\ editor \in [Tabs -> Projects] /\ past \in [Tabs -> Pasts]
  BY EventTyped DEF IInv, Undo, TypeOK, Pasts
<1>1. editor' \in [Tabs -> Projects] /\ editor'[t] = past[t].to
  BY <1>0, TabTyped DEF Undo
<1>2. past' \in [Tabs -> Pasts] /\ past'[t].to = editor[t]
  <2>1. PICK b \in BOOLEAN : b = ~past[t].redo
    OBVIOUS
  <2>2. past' = [past EXCEPT ![t] = [to |-> editor[t], ready |-> TRUE, redo |-> b]]
    BY <2>1 DEF Undo
  <2>3. [to |-> editor[t], ready |-> TRUE, redo |-> b] \in Pasts
    BY <1>0 DEF Pasts
  <2> QED BY <1>0, <2>2, <2>3
<1>3. dirty' \in [Tabs -> BOOLEAN] /\ owed' \in [Tabs -> Lines]
  BY <1>0, Constants0 DEF Undo, TypeOK
<1>4. TypeOK'
  BY <1>0, <1>1, <1>2, <1>3 DEF TypeOK, Undo, Pasts
<1>5. /\ past[t].to.epoch \in Nat /\ past[t].to.ver \in Nat
      /\ editor[t].epoch \in Nat /\ editor[t].ver \in Nat
      /\ op[t].snap.ver \in Nat /\ op[t].seen.ver \in Nat /\ op[t].next.ver \in Nat /\ op' = op
  BY <1>0, TabTyped DEF Undo, Projects, Records, Epochs, Vers
<1>6. Bounded(t)'
  BY <1>0, <1>1, <1>2, <1>5 DEF Bounded
<1> QED BY <1>4, <1>6

-----------------------------------------------------------------------------
(* The steps of a save.                                                    *)
LEMMA CaptureKeeps ==
  ASSUME IInv, NEW t \in Tabs, Capture(t)
  PROVE  TypeOK' /\ Bounded(t)' /\ op'[t].pc = "queued"
<1>0. TypeOK /\ Bounded(t)
  BY DEF IInv
<1>1. [Idle EXCEPT !.pc = "queued", !.snap = editor[t]] \in Ops
  BY <1>0, IdleTyped, TabTyped DEF Ops
<1>2. /\ op' \in [Tabs -> Ops] /\ op'[t].pc = "queued" /\ op'[t].snap = editor[t]
      /\ op'[t].seen = Idle.seen /\ op'[t].next = Idle.next
  BY <1>0, <1>1, IdleTyped DEF Capture, TypeOK, Ops
<1>3. dirty' \in [Tabs -> BOOLEAN]
  BY <1>0 DEF Capture, TypeOK
<1>4. TypeOK'
  BY <1>0, <1>2, <1>3 DEF TypeOK, Capture
<1>5. events \in Nat
  BY <1>0, AutosaveAssumption DEF TypeOK
<1>6. Bounded(t)'
  BY <1>0, <1>2, <1>5, IdleTyped DEF Bounded, Capture
<1> QED BY <1>2, <1>4, <1>6

LEMMA EndKeeps ==
  ASSUME TypeOK, NEW t \in Tabs, Bounded(t), End(t), UNCHANGED <<editor, past>>,
         events' \in {events, events + 1}
  PROVE  Bounded(t)' /\ op'[t].pc = "idle" /\ op' \in [Tabs -> Ops]
<1>1. op'[t] = Idle /\ op' \in [Tabs -> Ops]
  BY EndTyped
<1>2. /\ past[t].to.epoch \in Nat /\ past[t].to.ver \in Nat
      /\ editor[t].epoch \in Nat /\ editor[t].ver \in Nat /\ events \in Nat
  BY TabTyped, AutosaveAssumption DEF TypeOK, Projects, Epochs, Vers
<1> QED BY <1>1, <1>2, IdleTyped DEF Bounded

LEMMA DispatchKeeps ==
  ASSUME IInv, NEW t \in Tabs, Dispatch(t)
  PROVE  TypeOK' /\ Bounded(t)' /\ op'[t].pc = "evaluate"
<1>0. TypeOK /\ Bounded(t) /\ Saves(t)
  BY DEF IInv, Dispatch, Saves
<1> DEFINE e == op[t].snap.epoch
           carry == IF ReplacementPending(t, e) THEN CarrierFor(t, e) ELSE None
<1>1. carry \in Lines
  BY <1>0, TabTyped, Constants0 DEF CarrierFor, Carriers
<1>2. PICK b \in BOOLEAN : b = ReplacementPending(t, e)
  BY DEF ReplacementPending
<1>3. op' = [op EXCEPT ![t].pc = "evaluate", ![t].tries = 1, ![t].replace = b, ![t].carry = carry]
  BY <1>2 DEF Dispatch
<1> HIDE DEF carry
<1>4. [op[t] EXCEPT !.pc = "evaluate", !.tries = 1, !.replace = b, !.carry = carry] \in Ops
  <2>1. 1 \in 0 .. 2
    OBVIOUS
  <2>2. op[t] \in Ops
    BY <1>0, TabTyped
  <2> QED BY <1>1, <2>1, <2>2 DEF Ops
<1>5. /\ op' \in [Tabs -> Ops] /\ op'[t].pc = "evaluate"
      /\ op'[t].snap = op[t].snap /\ op'[t].seen = op[t].seen /\ op'[t].next = op[t].next
  BY <1>0, <1>3, <1>4, TabTyped DEF TypeOK, Ops
<1> QED BY <1>0, <1>5, SavesTyped DEF Saves, tabVars, Bounded

LEMMA EvaluateKeeps ==
  ASSUME IInv, NEW t \in Tabs, Evaluate(t)
  PROVE  TypeOK' /\ Bounded(t)' /\ Ready(t)'
<1>0. /\ TypeOK /\ Bounded(t) /\ Saves(t) /\ UNCHANGED <<editor, past, events, stored, marker>>
      /\ op \in [Tabs -> Ops] /\ op[t] \in Ops /\ events \in Nat /\ stored \in Records /\ stored.ver <= events
      /\ op[t].snap \in Projects
  BY TabTyped, AutosaveAssumption DEF IInv, Evaluate, Saves, tabVars, TypeOK
<1>1. CASE /\ stored.kind = "absent"
           /\ op' = [op EXCEPT ![t].pc = "write", ![t].how = "create",
                               ![t].seen = Absent, ![t].next = Created(op[t])]
  <2>1. /\ Created(op[t]) \in Records /\ Created(op[t]).kind = "current"
        /\ Created(op[t]).ver = op[t].snap.ver
    BY <1>0, Constants0, CurrentTyped DEF Created
  <2>2. [op[t] EXCEPT !.pc = "write", !.how = "create", !.seen = Absent, !.next = Created(op[t])] \in Ops
    BY <1>0, <2>1, Constants0 DEF Ops
  <2>3. /\ op' \in [Tabs -> Ops] /\ op'[t].pc = "write" /\ op'[t].how = "create"
        /\ op'[t].seen = Absent /\ op'[t].next = Created(op[t]) /\ op'[t].snap = op[t].snap
    BY <1>0, <1>1, <2>2 DEF Ops
  <2>4. TypeOK'
    BY <1>0, <2>3, SavesTyped
  <2>5. Bounded(t)'
    BY <1>0, <2>1, <2>3, Constants0 DEF Bounded
  <2>6. Ready(t)'
    BY <2>1, <2>3, Constants0 DEF Ready
  <2> QED BY <2>4, <2>5, <2>6
<1>2. CASE stored.kind = "current" /\ op' = [op EXCEPT ![t].pc = "commit", ![t].seen = stored]
  <2>1. [op[t] EXCEPT !.pc = "commit", !.seen = stored] \in Ops
    BY <1>0 DEF Ops
  <2>2. /\ op' \in [Tabs -> Ops] /\ op'[t].pc = "commit" /\ op'[t].seen = stored
        /\ op'[t].next = op[t].next /\ op'[t].snap = op[t].snap
    BY <1>0, <1>2, <2>1 DEF Ops
  <2> QED BY <1>0, <1>2, <2>2, SavesTyped DEF Bounded, Ready
<1>3. CASE op' = [op EXCEPT ![t].pc = "migrate"]
  <2>1. [op[t] EXCEPT !.pc = "migrate"] \in Ops
    BY <1>0 DEF Ops
  <2>2. /\ op' \in [Tabs -> Ops] /\ op'[t].pc = "migrate" /\ op'[t].seen = op[t].seen
        /\ op'[t].next = op[t].next /\ op'[t].snap = op[t].snap
    BY <1>0, <1>3, <2>1 DEF Ops
  <2> QED BY <1>0, <2>2, SavesTyped DEF Bounded, Ready
<1>4. CASE End(t)
  BY <1>0, <1>4, EndKeeps, SavesTyped DEF Ready
<1> QED BY <1>1, <1>2, <1>3, <1>4 DEF Evaluate

LEMMA CommitKeeps ==
  ASSUME IInv, NEW t \in Tabs, Commit(t)
  PROVE  TypeOK' /\ Bounded(t)' /\ Ready(t)'
<1>0. /\ TypeOK /\ Bounded(t) /\ Ready(t) /\ Saves(t) /\ UNCHANGED <<editor, past, events, stored, marker>>
      /\ op \in [Tabs -> Ops] /\ op[t] \in Ops /\ op[t].pc = "commit"
  BY TabTyped DEF IInv, Commit, Saves, tabVars, TypeOK
<1>1. CASE stored = op[t].seen
  <2> DEFINE how == IF op[t].replace THEN "replace" ELSE "edit"
             next == IF op[t].replace THEN Replaced(op[t]) ELSE Edited(op[t])
  <2>1. op' = [op EXCEPT ![t].pc = "write", ![t].how = how, ![t].next = next]
    BY <1>1 DEF Commit
  <2>2. next \in Records /\ next.kind = "current" /\ next.ver = op[t].snap.ver /\ how \in {"replace", "edit"}
    <3>1. op[t].carry \in Lines /\ op[t].seen.text \in Lines /\ op[t].snap \in Projects
      BY <1>0, TabTyped DEF Ops, Records
    <3> QED BY <3>1, CurrentTyped DEF Replaced, Edited
  <2> HIDE DEF how, next
  <2>3. [op[t] EXCEPT !.pc = "write", !.how = how, !.next = next] \in Ops
    BY <1>0, <2>2 DEF Ops
  <2>4. /\ op' \in [Tabs -> Ops] /\ op'[t].pc = "write" /\ op'[t].how = how
        /\ op'[t].seen = op[t].seen /\ op'[t].next = next /\ op'[t].snap = op[t].snap
    BY <1>0, <2>1, <2>3 DEF Ops
  <2>5. TypeOK'
    BY <1>0, <2>4, SavesTyped
  <2>6. Bounded(t)'
    BY <1>0, <2>2, <2>4 DEF Bounded
  <2>7. Ready(t)'
    BY <1>0, <2>2, <2>4 DEF Ready
  <2> QED BY <2>5, <2>6, <2>7
<1>2. CASE stored # op[t].seen
  <2>1. End(t)
    BY <1>2 DEF Commit
  <2> QED BY <1>0, <2>1, EndKeeps, SavesTyped DEF Ready
<1> QED BY <1>1, <1>2

LEMMA LookAgainKeeps ==
  ASSUME TypeOK, NEW t \in Tabs, Bounded(t), Saves(t), LookAgain(t)
  PROVE  TypeOK' /\ Bounded(t)' /\ Ready(t)'
<1>0. /\ UNCHANGED <<editor, past, events>> /\ op \in [Tabs -> Ops] /\ op[t] \in Ops
  BY TabTyped DEF Saves, tabVars, TypeOK
<1>1. CASE op[t].tries = 1
  <2>1. [op[t] EXCEPT !.pc = "evaluate", !.tries = 2] \in Ops
    <3>1. 2 \in 0 .. 2
      OBVIOUS
    <3> QED BY <1>0, <3>1 DEF Ops
  <2>2. /\ op' \in [Tabs -> Ops] /\ op'[t].pc = "evaluate" /\ op'[t].seen = op[t].seen
        /\ op'[t].next = op[t].next /\ op'[t].snap = op[t].snap
    BY <1>0, <1>1, <2>1 DEF LookAgain, Ops
  <2> QED BY <1>0, <2>2, SavesTyped DEF Bounded, Ready
<1>2. CASE op[t].tries # 1
  BY <1>0, <1>2, EndKeeps, SavesTyped DEF LookAgain, Ready
<1> QED BY <1>1, <1>2

LEMMA MigrateKeeps ==
  ASSUME IInv, NEW t \in Tabs, Migrate(t)
  PROVE  TypeOK' /\ Bounded(t)' /\ Ready(t)'
<1>0. /\ TypeOK /\ Bounded(t) /\ Saves(t) /\ UNCHANGED <<editor, past, events, stored, marker>>
      /\ op \in [Tabs -> Ops] /\ op[t] \in Ops /\ stored \in Records /\ stored.ver <= events
  BY TabTyped DEF IInv, Migrate, Saves, tabVars, TypeOK
<1>1. CASE /\ Migratable(stored, marker)
           /\ op' = [op EXCEPT ![t].pc = "write", ![t].how = "migrate",
                     ![t].seen = stored, ![t].next = [stored EXCEPT !.kind = "current"]]
  <2> DEFINE next == [stored EXCEPT !.kind = "current"]
  <2>1. next \in Records /\ next.kind = "current" /\ next.ver = stored.ver
    BY <1>0 DEF Records, Kinds
  <2> HIDE DEF next
  <2>2. op' = [op EXCEPT ![t].pc = "write", ![t].how = "migrate", ![t].seen = stored, ![t].next = next]
    BY <1>1 DEF next
  <2>3. [op[t] EXCEPT !.pc = "write", !.how = "migrate", !.seen = stored, !.next = next] \in Ops
    BY <1>0, <2>1 DEF Ops
  <2>4. /\ op' \in [Tabs -> Ops] /\ op'[t].pc = "write" /\ op'[t].how = "migrate"
        /\ op'[t].seen = stored /\ op'[t].next = next /\ op'[t].snap = op[t].snap
    BY <1>0, <2>2, <2>3 DEF Ops
  <2>5. TypeOK'
    BY <1>0, <2>4, SavesTyped
  <2>6. Bounded(t)'
    BY <1>0, <2>1, <2>4 DEF Bounded
  <2>7. Ready(t)'
    BY <1>0, <1>1, <2>1, <2>4 DEF Ready, Migratable
  <2> QED BY <2>5, <2>6, <2>7
<1>2. CASE LookAgain(t)
  BY <1>0, <1>2, LookAgainKeeps
<1>3. CASE End(t)
  BY <1>0, <1>3, EndKeeps, SavesTyped DEF Ready
<1> QED BY <1>1, <1>2, <1>3 DEF Migrate

LEMMA ConflictKeeps ==
  ASSUME IInv, NEW t \in Tabs, Conflict(t)
  PROVE  TypeOK' /\ Bounded(t)' /\ Ready(t)'
<1>0. TypeOK /\ Bounded(t) /\ Saves(t) /\ UNCHANGED <<editor, past, events>>
  BY DEF IInv, Conflict, Saves, tabVars
<1>1. LookAgain(t) \/ End(t)
  BY DEF Conflict
<1> QED BY <1>0, <1>1, LookAgainKeeps, EndKeeps, SavesTyped DEF Ready

LEMMA FailKeeps ==
  ASSUME IInv, NEW t \in Tabs, Fail(t)
  PROVE  TypeOK' /\ Bounded(t)' /\ Ready(t)'
<1>0. /\ TypeOK /\ Bounded(t) /\ End(t) /\ UNCHANGED <<stored, marker, tabVars, lines>>
      /\ events' \in 0 .. MaxEvents /\ events' = events + 1
  BY EventTyped DEF IInv, Fail
<1>1. Bounded(t)' /\ op'[t].pc = "idle" /\ op' \in [Tabs -> Ops]
  BY <1>0, EndKeeps DEF tabVars
<1> QED BY <1>0, <1>1 DEF TypeOK, tabVars, Ready

-----------------------------------------------------------------------------
(* The transaction.                                                        *)
LEMMA PutTyped ==
  ASSUME IInv, NEW t \in Tabs, Put(t)
  PROVE  /\ stored = op[t].seen /\ stored' = op[t].next /\ marker' = TRUE
         /\ stored' \in Records /\ stored'.ver <= events /\ stored'.kind = "current"
<1>1. op[t].next \in Records /\ op[t].next.ver <= events /\ op[t].next.kind = "current"
  BY TabTyped DEF IInv, Put, Bounded, Ready
<1> QED BY <1>1 DEF Put, SameRecord

LEMMA MigratedKeeps ==
  ASSUME IInv, NEW t \in Tabs, Migrated(t)
  PROVE  TypeOK' /\ Bounded(t)' /\ Ready(t)'
<1>0. /\ TypeOK /\ Bounded(t) /\ Put(t) /\ UNCHANGED <<editor, past, events>>
      /\ op \in [Tabs -> Ops] /\ op[t] \in Ops /\ op[t].next \in Records
  BY TabTyped DEF IInv, Migrated, TypeOK
<1>1. op' \in [Tabs -> Ops] /\ Bounded(t)' /\ op'[t].pc \notin {"commit", "write"}
  <2>1. CASE op[t].tries = 1
    <3>1. [op[t] EXCEPT !.pc = "evaluate", !.tries = 2, !.migrated = TRUE] \in Ops
      <4>1. 2 \in 0 .. 2
        OBVIOUS
      <4> QED BY <1>0, <4>1 DEF Ops
    <3>2. /\ op' \in [Tabs -> Ops] /\ op'[t].pc = "evaluate" /\ op'[t].seen = op[t].seen
          /\ op'[t].next = op[t].next /\ op'[t].snap = op[t].snap
      BY <1>0, <2>1, <3>1 DEF Migrated, Ops
    <3> QED BY <1>0, <3>2 DEF Bounded
  <2>2. CASE op[t].tries # 1
    <3>1. End(t)
      BY <2>2 DEF Migrated
    <3> QED BY <1>0, <3>1, EndKeeps
  <2> QED BY <2>1, <2>2
<1>2. known' \in [Tabs -> Records]
  <2> DEFINE new == IF known[t] = stored THEN op[t].next ELSE known[t]
  <2>1. known' = [known EXCEPT ![t] = new]
    BY DEF Migrated
  <2>2. new \in Records
    BY <1>0, TabTyped
  <2> HIDE DEF new
  <2> QED BY <1>0, <2>1, <2>2 DEF TypeOK
<1>3. stored' \in Records /\ marker' \in BOOLEAN
  BY <1>0, PutTyped
<1> QED BY <1>0, <1>1, <1>2, <1>3 DEF TypeOK, Migrated, Ready

LEMMA SavedKeeps ==
  ASSUME IInv, NEW t \in Tabs, Saved(t)
  PROVE  TypeOK' /\ Bounded(t)' /\ Ready(t)'
<1>0. /\ TypeOK /\ Bounded(t) /\ Put(t) /\ End(t) /\ UNCHANGED <<editor, past, events>>
      /\ op[t].snap \in Projects /\ op[t].next \in Records
  BY TabTyped DEF IInv, Saved
<1>1. op' \in [Tabs -> Ops] /\ Bounded(t)' /\ op'[t].pc = "idle"
  BY <1>0, EndKeeps
<1>2. stored' \in Records /\ marker' \in BOOLEAN
  BY <1>0, PutTyped
<1>3. baseline' \in [Tabs -> Epochs \cup {NoEpoch}]
  BY <1>0 DEF Saved, TypeOK, Projects
<1>4. carrier' \in [Tabs -> Carriers]
  <2> DEFINE new == IF Consumes(t, op[t].snap.epoch) THEN NoCarrier ELSE carrier[t]
  <2>1. carrier' = [carrier EXCEPT ![t] = new]
    BY DEF Saved
  <2>2. new \in Carriers
    BY <1>0, TabTyped, Constants0
  <2> HIDE DEF new
  <2> QED BY <1>0, <2>1, <2>2 DEF TypeOK, Carriers
<1>5. known' \in [Tabs -> Records]
  BY <1>0 DEF Saved, TypeOK
<1>6. owed' \in [Tabs -> Lines]
  <2> DEFINE new == IF owed[t] = op[t].snap.line THEN None ELSE owed[t]
  <2>1. owed' = [owed EXCEPT ![t] = new]
    BY DEF Saved
  <2>2. new \in Lines
    BY <1>0, Constants0 DEF TypeOK
  <2> HIDE DEF new
  <2> QED BY <1>0, <2>1, <2>2 DEF TypeOK
<1>7. TypeOK'
  BY <1>0, <1>1, <1>2, <1>3, <1>4, <1>5, <1>6 DEF TypeOK, Saved, Carriers
<1> QED BY <1>1, <1>7 DEF Ready

-----------------------------------------------------------------------------
(* Every step of a tab.                                                    *)
LEMMA OwnStep ==
  ASSUME IInv, NEW t \in Tabs, TabStep(t)
  PROVE  TypeOK' /\ Bounded(t)' /\ Ready(t)'
<1>0. Ready(t)
  BY DEF IInv
<1>1. CASE Load(t) \/ Edit(t) \/ Reset(t) \/ Import(t) \/ Undo(t)
  <2>1. UNCHANGED <<op, stored, marker>>
    BY <1>1 DEF Load, Edit, Reset, Import, NewProject, Undo
  <2> QED BY <1>0, <1>1, <2>1, LoadKeeps, EditKeeps, ReplaceKeeps, UndoKeeps DEF Ready
<1>2. CASE Close(t)
  <2>1. op'[t].pc = "idle"
    BY <1>2, IdleTyped DEF Close, IInv, TypeOK
  <2> QED BY <1>2, <2>1, CloseKeeps DEF Ready
<1>3. CASE Capture(t) \/ Dispatch(t)
  BY <1>3, CaptureKeeps, DispatchKeeps DEF Ready
<1>4. CASE Evaluate(t) \/ Commit(t) \/ Migrate(t) \/ Migrated(t) \/ Saved(t) \/ Conflict(t) \/ Fail(t)
  BY <1>4, EvaluateKeeps, CommitKeeps, MigrateKeeps, MigratedKeeps, SavedKeeps, ConflictKeeps, FailKeeps
<1> QED BY <1>1, <1>2, <1>3, <1>4 DEF TabStep

(* What a step of a tab leaves to the others, and to the record. *)
LEMMA TabFrame ==
  ASSUME IInv, NEW t \in Tabs, TabStep(t)
  PROVE  /\ \A u \in Tabs \ {t} : op'[u] = op[u] /\ editor'[u] = editor[u] /\ past'[u] = past[u]
         /\ events' \in {events, events + 1}
         /\ UNCHANGED <<stored, marker>> \/ (Put(t) /\ (Migrated(t) \/ Saved(t)))
<1>0. TypeOK /\ op \in [Tabs -> Ops] /\ editor \in [Tabs -> Projects] /\ past \in [Tabs -> Pasts]
  BY DEF IInv, TypeOK, Pasts
<1>1. CASE Load(t) \/ Close(t) \/ Edit(t) \/ Reset(t) \/ Import(t) \/ Undo(t)
  BY <1>0, <1>1 DEF Load, Close, Edit, Reset, Import, NewProject, Undo, Event
<1>2. CASE Capture(t) \/ Dispatch(t)
  BY <1>0, <1>2 DEF Capture, Dispatch, tabVars
<1>3. CASE Evaluate(t) \/ Commit(t)
  BY <1>0, <1>3 DEF Evaluate, Commit, End, tabVars
<1>4. CASE Migrate(t) \/ Conflict(t) \/ Fail(t)
  BY <1>0, <1>4 DEF Migrate, Conflict, Fail, LookAgain, End, Event, tabVars
<1>5. CASE Migrated(t)
  BY <1>0, <1>5 DEF Migrated, End
<1>6. CASE Saved(t)
  BY <1>0, <1>6 DEF Saved, End
<1> QED BY <1>1, <1>2, <1>3, <1>4, <1>5, <1>6 DEF TabStep

LEMMA OtherTabs ==
  ASSUME IInv, NEW t \in Tabs, TabStep(t), NEW u \in Tabs \ {t}
  PROVE  Bounded(u)' /\ Ready(u)'
<1>0. /\ TypeOK /\ Bounded(u) /\ Ready(u) /\ events \in Nat
      /\ op'[u] = op[u] /\ editor'[u] = editor[u] /\ past'[u] = past[u] /\ events' \in {events, events + 1}
      /\ UNCHANGED <<stored, marker>> \/ Put(t)
  BY TabFrame, AutosaveAssumption DEF IInv, TypeOK
<1>1. /\ past[u].to.epoch \in Nat /\ past[u].to.ver \in Nat
      /\ editor[u].epoch \in Nat /\ editor[u].ver \in Nat
      /\ op[u].snap.ver \in Nat /\ op[u].seen.ver \in Nat /\ op[u].next.ver \in Nat
  BY <1>0, TabTyped DEF Projects, Records, Epochs, Vers
<1>2. Bounded(u)'
  BY <1>0, <1>1 DEF Bounded
<1>3. CASE UNCHANGED <<stored, marker>>
  BY <1>0, <1>2, <1>3 DEF Ready
<1>4. CASE Put(t)
  BY <1>0, <1>2, <1>4, PutTyped DEF Ready
<1> QED BY <1>0, <1>2, <1>3, <1>4

LEMMA ForeignKeeps ==
  ASSUME IInv, OldBuildWrites \/ NewBuildWrites
  PROVE  IInv'
<1>0. /\ TypeOK /\ events' = events + 1 /\ events' \in 0 .. MaxEvents /\ events \in Nat
      /\ UNCHANGED <<marker, tabVars, op, lines>> /\ stored \in Records /\ stored.ver <= events
  BY EventTyped DEF IInv, OldBuildWrites, NewBuildWrites, TypeOK
<1>1. stored' \in Records /\ stored'.ver = events + 1
  <2>0. events + 1 \in Vers /\ stored.line \in Lines /\ stored.text \in Lines
    BY <1>0 DEF Vers, Records
  <2>1. CASE OldBuildWrites
    <3>1. PICK n \in Lines, x \in Lines :
             stored' = [kind |-> "legacy", ver |-> events + 1, line |-> n, text |-> x]
      <4>1. CASE stored.kind = "absent"
        BY <2>1, <4>1, Constants0 DEF OldBuildWrites
      <4>2. CASE stored.kind # "absent"
        BY <2>0, <2>1, <4>2 DEF OldBuildWrites
      <4> QED BY <4>1, <4>2
    <3> QED BY <2>0, <3>1 DEF Records, Kinds
  <2>2. CASE NewBuildWrites
    BY <1>0, <2>0, <2>2 DEF NewBuildWrites, Records, Kinds
  <2> QED BY <2>1, <2>2
<1>2. TypeOK'
  BY <1>0, <1>1 DEF TypeOK, tabVars
<1>3. ASSUME NEW u \in Tabs PROVE Bounded(u)' /\ Ready(u)'
  <2>1. Bounded(u) /\ Ready(u) /\ op[u].seen.ver \in Nat
    BY <1>0, TabTyped DEF IInv, Records, Vers
  <2>2. /\ past[u].to.epoch \in Nat /\ past[u].to.ver \in Nat
        /\ editor[u].epoch \in Nat /\ editor[u].ver \in Nat
        /\ op[u].snap.ver \in Nat /\ op[u].next.ver \in Nat
    BY <1>0, TabTyped DEF Projects, Records, Epochs, Vers
  <2>3. Bounded(u)'
    BY <1>0, <2>1, <2>2 DEF Bounded, tabVars
  <2>4. stored' # op[u].seen
    BY <1>0, <1>1, <2>1 DEF Bounded
  <2>5. Ready(u)'
    BY <1>0, <2>1, <2>4 DEF Ready
  <2> QED BY <2>3, <2>5
<1>4. stored'.ver <= events'
  BY <1>0, <1>1
<1> QED BY <1>2, <1>3, <1>4 DEF IInv

LEMMA InitInvariant == Init => IInv
<1> SUFFICES ASSUME Init PROVE IInv
  OBVIOUS
<1>1. stored \in Records /\ stored.ver = 0 /\ events = 0
  BY Constants0 DEF Init, Records, Kinds
<1>2. /\ NoEpoch \in Epochs \cup {NoEpoch} /\ 1 \in Lines /\ 0 \in 0 .. MaxEvents
  BY Constants0, AutosaveAssumption
<1>3. TypeOK
  BY <1>1, <1>2, Constants0, IdleTyped DEF Init, TypeOK, Pasts, Carriers
<1>4. ASSUME NEW t \in Tabs PROVE Bounded(t) /\ Ready(t)
  <2>1. editor[t] = NoPast.to /\ past[t] = NoPast /\ op[t] = Idle
    BY DEF Init
  <2> QED BY <1>1, <2>1, Constants0, IdleTyped DEF Bounded, Ready
<1> QED BY <1>1, <1>3, <1>4 DEF IInv

LEMMA StepInvariant == IInv /\ [Next]_vars => IInv'
<1> SUFFICES ASSUME IInv, [Next]_vars PROVE IInv'
  OBVIOUS
<1>1. CASE UNCHANGED vars
  BY <1>1 DEF IInv, TypeOK, Bounded, Ready, vars, tabVars
<1>2. ASSUME NEW t \in Tabs, TabStep(t) PROVE IInv'
  <2>1. TypeOK' /\ \A u \in Tabs : Bounded(u)' /\ Ready(u)'
    BY <1>2, OwnStep, OtherTabs
  <2>2. stored'.ver <= events'
    <3>1. /\ stored.ver \in Nat /\ stored.ver <= events /\ events \in Nat
          /\ events' \in {events, events + 1} /\ (UNCHANGED <<stored, marker>> \/ Put(t))
      BY <1>2, TabFrame, AutosaveAssumption DEF IInv, TypeOK, Records, Vers
    <3>2. CASE UNCHANGED <<stored, marker>>
      BY <3>1, <3>2
    <3>3. CASE Put(t)
      <4>1. stored' \in Records /\ stored'.ver <= events
        BY <3>3, PutTyped
      <4> QED BY <3>1, <4>1 DEF Records, Vers
    <3> QED BY <3>1, <3>2, <3>3
  <2> QED BY <2>1, <2>2 DEF IInv
<1>3. CASE OldBuildWrites \/ NewBuildWrites
  BY <1>3, ForeignKeeps
<1> QED BY <1>1, <1>2, <1>3 DEF Next, TabStep

LEMMA Invariant == Spec => []IInv
BY InitInvariant, StepInvariant, PTL DEF Spec

(* Every variable keeps its type; with it, a save evaluates the stored     *)
(* record at most twice, however often others write meanwhile.             *)
THEOREM AutosaveTypes == Spec => []TypeOK
<1>1. IInv => TypeOK
  BY DEF IInv
<1> QED BY <1>1, Invariant, PTL

LEMMA StepRespects ==
  ASSUME IInv, [Next]_vars, NEW t \in Tabs, Writes(t)
  PROVE  stored.kind \in {"absent", "current"} \/ Migratable(stored, marker)
<1>1. op'[t] # op[t] /\ op[t].pc = "write" /\ stored' # stored /\ Ready(t)
  BY DEF Writes, IInv
<1>2. PICK u \in Tabs : TabStep(u)
  BY <1>1 DEF Next, TabStep, OldBuildWrites, NewBuildWrites, vars
<1>3. u = t
  BY <1>1, <1>2, TabFrame
<1>4. Put(t) /\ (Migrated(t) \/ Saved(t))
  BY <1>1, <1>2, <1>3, TabFrame
<1>5. stored = op[t].seen
  BY <1>4, PutTyped
<1>6. CASE Migrated(t)
  BY <1>1, <1>5, <1>6 DEF Migrated, Ready, Migratable
<1>7. CASE Saved(t)
  BY <1>1, <1>5, <1>7 DEF Saved, Ready
<1> QED BY <1>4, <1>6, <1>7

(* No save replaces a record of a later build, or a stale legacy record    *)
(* that superseded a migrated one.                                         *)
THEOREM VersionRespected == Spec => StoredVersionRespected
<1>1. IInv /\ [Next]_vars =>
         [\A t \in Tabs : Writes(t) =>
             \/ stored.kind \in {"absent", "current"}
             \/ Migratable(stored, marker)]_vars
  BY StepRespects
<1> QED BY <1>1, Invariant, PTL DEF Spec, StoredVersionRespected

(***************************************************************************)
(* Epochs and lineages.  A save decides by its epoch alone whether it edits*)
(* the stored text or replaces it.  That is right as long as the epoch     *)
(* names one lineage in its tab, so what a tab holds is related to the     *)
(* lineages its epochs named.                                              *)
(***************************************************************************)
(* The projects a tab holds: its present one, the one an undo leads to and *)
(* the one a save has captured.                                            *)
Holds(t, x) ==
    \/ x = editor[t] /\ t \in up
    \/ x = past[t].to /\ (past[t].ready \/ past[t].to.line # None)
    \/ x = op[t].snap /\ op[t].pc # "idle"

(* The epoch whose text the record has, for all this tab knows.            *)
Base(t) == IF baseline[t] = NoEpoch THEN 0 ELSE baseline[t]
Dispatched(t) == op[t].pc \notin {"idle", "queued"}

(* A tab that does not run holds nothing.                                  *)
Away(t) ==
    t \notin up => /\ past[t] = NoPast /\ op[t] = Idle /\ baseline[t] = NoEpoch
                   /\ owed[t] = None /\ carrier[t] = NoCarrier /\ known[t] = Absent

(* Every project a tab holds belongs to a lineage its epoch named, and so  *)
(* does the text in its carrier; no lineage is ahead of the counter.       *)
Named(t) ==
    /\ \A x \in Projects : Holds(t, x) => <<x.epoch, x.line>> \in named[t]
    /\ carrier[t].line # None => <<carrier[t].epoch, carrier[t].line>> \in named[t]
    /\ \A n \in named[t] : n[2] <= lines

(* The record a tab knows is of a lineage that its baseline named.         *)
OwnRecord(t) ==
    /\ baseline[t] # NoEpoch => known[t].kind # "absent"
    /\ known[t].kind # "absent" => <<Base(t), known[t].line>> \in named[t]

(* A save in flight knows which epoch it belongs to and what it writes.    *)
Prepared(t) ==
    /\ Dispatched(t) /\ ~op[t].replace => op[t].snap.epoch = Base(t)
    /\ Dispatched(t) /\ op[t].carry # None => <<op[t].snap.epoch, op[t].carry>> \in named[t]
    /\ op[t].pc = "write" =>
          /\ op[t].how \in {"create", "edit", "replace", "migrate"}
          /\ op[t].how # "migrate" => op[t].next.line = op[t].snap.line
          /\ op[t].how = "migrate" => op[t].next.line = op[t].seen.line
          /\ op[t].how = "edit" => ~op[t].replace
          /\ op[t].how = "replace" => op[t].replace /\ op[t].next.text = op[t].carry

(* The text a tab still owes to its import is in the carrier, under an     *)
(* epoch that is not the baseline's, unless that epoch named a second      *)
(* lineage too.                                                            *)
Owes(t) ==
    owed[t] # None =>
        \A e \in Epochs :
            <<e, owed[t]>> \in named[t] /\ OneLineage(t, e) =>
                /\ carrier[t].line = owed[t] /\ carrier[t].epoch = e /\ e # Base(t)
                /\ Dispatched(t) /\ op[t].snap.line = owed[t] /\ op[t].snap.epoch = e
                      => op[t].replace /\ op[t].carry = owed[t]

Lineage(t) == Away(t) /\ Named(t) /\ OwnRecord(t) /\ Prepared(t) /\ Owes(t)
LInv ==
    /\ lines >= 1 /\ stored.line <= lines
    /\ \A t \in Tabs : Lineage(t)


(* The numbers of a tab's part of the state.                               *)
LEMMA ProjectNumbers ==
  /\ \A x \in Projects : x.epoch \in Epochs /\ x.epoch \in Nat /\ x.line \in Nat
  /\ \A n \in Lines : n \in Nat
  /\ TypeOK => lines \in Nat /\ events \in Nat
  /\ NoEpoch \notin Epochs /\ None = 0
<1>1. \A n \in Lines : n \in Nat
  BY AutosaveAssumption DEF Lines
<1> QED BY <1>1, AutosaveAssumption DEF Projects, Epochs, NoEpoch, None, TypeOK

LEMMA NamedTyped ==
  ASSUME TypeOK, NEW t \in Tabs
  PROVE  \A n \in named[t] : n[1] \in Epochs /\ n[2] \in Nat
BY ProjectNumbers DEF TypeOK

(* A step after which a tab holds nothing new, with the same record and    *)
(* carrier, keeps what it knows of its lineages.                           *)
LEMMA HeldKept ==
  ASSUME TypeOK, TypeOK', NEW t \in Tabs, Named(t), OwnRecord(t), Owes(t),
         lines' >= lines, baseline'[t] = baseline[t], carrier'[t] = carrier[t],
         named'[t] = named[t],
         known'[t].line = known[t].line,
         known[t].kind = "absent" <=> known'[t].kind = "absent",
         owed'[t] = owed[t] \/ owed'[t] = None,
         \A x \in Projects : Holds(t, x)' =>
             \E y \in Projects : Holds(t, y) /\ y.epoch = x.epoch /\ y.line = x.line,
         \A e \in Epochs :
             owed[t] # None /\ <<e, owed[t]>> \in named[t] /\ OneLineage(t, e)
                 /\ Dispatched(t)' /\ op'[t].snap.line = owed[t] /\ op'[t].snap.epoch = e
               => op'[t].replace /\ op'[t].carry = owed[t]
  PROVE  Named(t)' /\ OwnRecord(t)' /\ Owes(t)'
<1>1. Base(t)' = Base(t) /\ (\A e : OneLineage(t, e)' <=> OneLineage(t, e))
  BY DEF Base, OneLineage
<1>2. lines \in Nat /\ lines' \in Nat
  BY ProjectNumbers, AutosaveAssumption DEF TypeOK, Lines
<1>3. Named(t)'
  <2>1. \A n \in named'[t] : n[2] <= lines'
    BY <1>2, NamedTyped DEF Named
  <2> QED BY <2>1 DEF Named
<1>4. OwnRecord(t)'
  BY <1>1 DEF OwnRecord
<1>5. Owes(t)'
  BY <1>1 DEF Owes
<1> QED BY <1>3, <1>4, <1>5

(* Nothing a tab knows depends on what others do.                          *)
LEMMA OthersKeepLineage ==
  ASSUME TypeOK, TypeOK', NEW t \in Tabs, Lineage(t), lines' >= lines,
         (t \in up') <=> (t \in up), editor'[t] = editor[t], past'[t] = past[t],
         baseline'[t] = baseline[t], carrier'[t] = carrier[t], op'[t] = op[t],
         known'[t] = known[t], owed'[t] = owed[t], named'[t] = named[t]
  PROVE  Lineage(t)'
<1>1. \A x : Holds(t, x)' <=> Holds(t, x)
  BY DEF Holds
<1>2. Base(t)' = Base(t) /\ (Dispatched(t)' <=> Dispatched(t))
  BY DEF Base, Dispatched
<1>3. Named(t)' /\ OwnRecord(t)' /\ Owes(t)'
  <2>1. \A e \in Epochs :
             owed[t] # None /\ <<e, owed[t]>> \in named[t] /\ OneLineage(t, e)
                 /\ Dispatched(t)' /\ op'[t].snap.line = owed[t] /\ op'[t].snap.epoch = e
               => op'[t].replace /\ op'[t].carry = owed[t]
    BY <1>2 DEF Lineage, Owes
  <2> QED BY <1>1, <2>1, HeldKept DEF Lineage
<1>4. Away(t)' /\ Prepared(t)'
  BY <1>2 DEF Lineage, Away, Prepared
<1> QED BY <1>3, <1>4 DEF Lineage

-----------------------------------------------------------------------------
(* The user's steps keep a tab's lineages.                                 *)
LEMMA LoadLineage ==
  ASSUME IInv, TypeOK', NEW t \in Tabs, Lineage(t), lines >= 1, stored.line <= lines, Load(t)
  PROVE  Lineage(t)'
<1>0. /\ TypeOK /\ lines \in Nat /\ stored.line \in Nat
      /\ past[t] = NoPast /\ op[t] = Idle /\ baseline[t] = NoEpoch /\ owed[t] = None
      /\ carrier[t] = NoCarrier
  BY ProjectNumbers DEF Lineage, Away, Load, IInv, TypeOK, Records
<1>1. /\ past'[t] = NoPast /\ op'[t] = Idle /\ baseline'[t] = NoEpoch /\ owed'[t] = None
      /\ carrier'[t] = NoCarrier /\ t \in up' /\ known'[t] = stored
      /\ named'[t] = {<<0, editor'[t].line>>}
  BY <1>0 DEF Load, TypeOK
<1>2. /\ editor'[t].epoch = 0 /\ editor'[t].line <= lines' /\ editor'[t] \in Projects
      /\ editor'[t].line = stored.line \/ stored.kind = "absent"
  <2>1. editor \in [Tabs -> Projects] /\ editor' \in [Tabs -> Projects]
    BY <1>0 DEF TypeOK
  <2>2. CASE stored.kind = "absent"
    BY <1>0, <2>1, <2>2 DEF Load
  <2>3. CASE stored.kind # "absent"
    BY <1>0, <2>1, <2>3 DEF Load
  <2> QED BY <2>1, <2>2, <2>3
<1>3. \A x : Holds(t, x)' => x = editor'[t]
  BY <1>1, IdleTyped DEF Holds, NoPast
<1>4. Base(t)' = 0
  BY <1>1 DEF Base
<1>5. Named(t)'
  <2>1. \A n \in named'[t] : n[2] <= lines'
    BY <1>1, <1>2
  <2> QED BY <1>1, <1>2, <1>3, <2>1 DEF Named, NoCarrier
<1>6. OwnRecord(t)'
  BY <1>1, <1>2, <1>4 DEF OwnRecord
<1>7. Away(t)' /\ Owes(t)'
  BY <1>1 DEF Away, Owes
<1>8. Prepared(t)'
  BY <1>1, IdleTyped DEF Prepared, Dispatched
<1> QED BY <1>5, <1>6, <1>7, <1>8 DEF Lineage

LEMMA CloseLineage ==
  ASSUME IInv, TypeOK', NEW t \in Tabs, Close(t)
  PROVE  Lineage(t)'
<1>1. /\ past'[t] = NoPast /\ op'[t] = Idle /\ baseline'[t] = NoEpoch /\ owed'[t] = None
      /\ t \notin up' /\ known'[t] = Absent /\ carrier'[t] = NoCarrier /\ named'[t] = {}
  BY DEF Close, IInv, TypeOK
<1>2. \A x : ~Holds(t, x)'
  BY <1>1, IdleTyped DEF Holds, NoPast
<1>3. Named(t)'
  BY <1>1, <1>2 DEF Named, NoCarrier
<1>4. OwnRecord(t)'
  BY <1>1, Constants0 DEF OwnRecord
<1>5. Away(t)' /\ Owes(t)'
  BY <1>1 DEF Away, Owes
<1>6. Prepared(t)'
  BY <1>1, IdleTyped DEF Prepared, Dispatched
<1> QED BY <1>3, <1>4, <1>5, <1>6 DEF Lineage

(* An edit that follows an undo forgets where the redo would have led; any *)
(* other keeps what the tab holds.                                         *)
LEMMA EditLineage ==
  ASSUME IInv, TypeOK', NEW t \in Tabs, Lineage(t), Edit(t)
  PROVE  Lineage(t)'
<1>0. /\ TypeOK /\ editor \in [Tabs -> Projects] /\ past \in [Tabs -> Pasts]
      /\ UNCHANGED <<stored, baseline, carrier, op, lines, known, owed, named, up>> /\ t \in up
  BY DEF IInv, TypeOK, Edit, Pasts
<1>1. editor'[t].epoch = editor[t].epoch /\ editor'[t].line = editor[t].line /\ editor[t] \in Projects
  BY <1>0 DEF Edit, Projects
<1>2. past'[t] = NoPast \/ (past'[t].to = past[t].to /\ (past'[t].ready => past[t].ready \/ past[t].to.line # None))
  <2> DEFINE r == past[t].ready \/ past[t].to.line # None
             new == IF past[t].redo THEN NoPast ELSE [past[t] EXCEPT !.ready = r]
  <2>1. past' = [past EXCEPT ![t] = new]
    BY DEF Edit
  <2>2. r \in BOOLEAN /\ past[t] \in Pasts
    BY <1>0 DEF Pasts
  <2> HIDE DEF r
  <2>3. new = NoPast \/ (new.to = past[t].to /\ new.ready = r)
    BY <2>2 DEF Pasts
  <2> HIDE DEF new
  <2>4. past'[t] = new
    BY <1>0, <2>1
  <2> QED BY <2>3, <2>4 DEF r
<1>3. \A x : Holds(t, x)' => x = editor'[t] \/ Holds(t, x)
  BY <1>0, <1>2 DEF Holds, NoPast
<1>4. Holds(t, editor[t])
  BY <1>0 DEF Holds
<1>5. \A x \in Projects : Holds(t, x)' => \E y \in Projects : Holds(t, y) /\ y.epoch = x.epoch /\ y.line = x.line
  BY <1>1, <1>3, <1>4
<1>6. lines' >= lines
  BY <1>0, ProjectNumbers
<1>7. Named(t)' /\ OwnRecord(t)' /\ Owes(t)'
  <2>1. \A e \in Epochs :
             owed[t] # None /\ <<e, owed[t]>> \in named[t] /\ OneLineage(t, e)
                 /\ Dispatched(t)' /\ op'[t].snap.line = owed[t] /\ op'[t].snap.epoch = e
               => op'[t].replace /\ op'[t].carry = owed[t]
    BY <1>0 DEF Lineage, Owes, Dispatched
  <2> QED BY <1>0, <1>5, <1>6, <2>1, HeldKept DEF Lineage
<1>8. Away(t)' /\ Prepared(t)'
  BY <1>0 DEF Away, Prepared, Lineage, Dispatched, Base
<1> QED BY <1>7, <1>8 DEF Lineage

(* A new project has a lineage that nothing of the tab has; its epoch may  *)
(* have named another, and is then no longer that of one lineage.          *)
LEMMA ReplaceLineage ==
  ASSUME IInv, TypeOK', NEW t \in Tabs, Lineage(t),
         NEW undoable \in BOOLEAN, NewProject(t, undoable), Reset(t) \/ Import(t)
  PROVE  Lineage(t)'
<1>0. /\ TypeOK /\ editor \in [Tabs -> Projects] /\ past \in [Tabs -> Pasts]
      /\ UNCHANGED <<stored, baseline, op, known, up>> /\ t \in up
      /\ lines' = lines + 1 /\ lines \in Nat /\ editor[t] \in Projects /\ editor[t].epoch \in Nat
      /\ owed \in [Tabs -> Lines] /\ carrier \in [Tabs -> Carriers]
  BY ProjectNumbers, TabTyped DEF IInv, TypeOK, NewProject, Pasts, Carriers
<1> DEFINE new == <<editor[t].epoch + 1, lines + 1>>
<1>1. /\ editor'[t].line = lines + 1 /\ editor'[t].epoch = editor[t].epoch + 1
      /\ past'[t].to = LatestUnfiltered(t) /\ named'[t] = named[t] \cup {new}
  BY <1>0 DEF NewProject, TypeOK
<1>2. Base(t)' = Base(t) /\ (Dispatched(t)' <=> Dispatched(t))
  BY <1>0 DEF Base, Dispatched
<1>3. \A x : Holds(t, x)' => x = editor'[t] \/ Holds(t, x)
  BY <1>0, <1>1 DEF Holds, LatestUnfiltered
<1>4. \A n \in named[t] : n[2] <= lines /\ n[2] # lines + 1
  BY <1>0, NamedTyped DEF Lineage, Named
<1>5. Named(t)'
  <2>1. carrier'[t].line # None => <<carrier'[t].epoch, carrier'[t].line>> \in named'[t]
    <3>1. CASE Reset(t)
      BY <1>1, <3>1 DEF Reset, Lineage, Named
    <3>2. CASE Import(t)
      BY <1>0, <1>1, <3>2 DEF Import
    <3> QED BY <3>1, <3>2
  <2>2. \A n \in named'[t] : n[2] <= lines'
    BY <1>0, <1>1, <1>4, NamedTyped
  <2>3. \A x \in Projects : Holds(t, x)' => <<x.epoch, x.line>> \in named'[t]
    BY <1>1, <1>3 DEF Lineage, Named
  <2> QED BY <2>1, <2>2, <2>3 DEF Named
<1>6. OwnRecord(t)'
  BY <1>0, <1>1, <1>2 DEF Lineage, OwnRecord
<1>7. Owes(t)'
  <2>1. CASE Reset(t)
    <3>1. owed'[t] = None
      BY <1>0, <2>1 DEF Reset
    <3> QED BY <3>1 DEF Owes
  <2>2. CASE Import(t)
    <3>1. /\ carrier'[t].line = lines + 1 /\ carrier'[t].epoch = editor[t].epoch + 1
          /\ owed'[t] = lines + 1
      BY <1>0, <2>2 DEF Import
    <3> SUFFICES ASSUME NEW e \in Epochs, <<e, lines + 1>> \in named'[t], OneLineage(t, e)'
                 PROVE  /\ e = editor[t].epoch + 1 /\ e # Base(t)
                        /\ ~(Dispatched(t) /\ op[t].snap.line = lines + 1)
      BY <1>0, <1>2, <3>1 DEF Owes
    <3>2. e = editor[t].epoch + 1
      BY <1>1, <1>4
    <3>3. e # Base(t)
      <4> SUFFICES ASSUME e = Base(t) PROVE FALSE
        OBVIOUS
      <4>1. baseline[t] # NoEpoch
        BY <1>0, <3>2 DEF Base
      <4>2. <<e, known[t].line>> \in named[t]
        BY <4>1 DEF Lineage, OwnRecord
      <4> QED BY <1>1, <1>4, <3>2, <4>2 DEF OneLineage
    <3>4. ~(Dispatched(t) /\ op[t].snap.line = lines + 1)
      <4>1. Dispatched(t) => Holds(t, op[t].snap) /\ op[t].snap \in Projects
        BY <1>0, TabTyped DEF Dispatched, Holds
      <4>2. Dispatched(t) => <<op[t].snap.epoch, op[t].snap.line>> \in named[t]
        BY <4>1 DEF Lineage, Named
      <4> QED BY <1>4, <4>2
    <3> QED BY <3>2, <3>3, <3>4
  <2> QED BY <2>1, <2>2
<1>8. Away(t)' /\ Prepared(t)'
  BY <1>0, <1>1, <1>2 DEF Away, Prepared, Lineage
<1> QED BY <1>5, <1>6, <1>7, <1>8 DEF Lineage

(* An undo or redo swaps the ends of the last replacement.                 *)
LEMMA UndoLineage ==
  ASSUME IInv, TypeOK', NEW t \in Tabs, Lineage(t), Undo(t)
  PROVE  Lineage(t)'
<1>0. /\ TypeOK /\ editor \in [Tabs -> Projects] /\ past \in [Tabs -> Pasts]
      /\ UNCHANGED <<stored, baseline, carrier, op, lines, known, named, up>> /\ t \in up /\ past[t].ready
      /\ owed'[t] = None
  BY DEF IInv, TypeOK, Undo, Pasts
<1>1. /\ editor'[t] = past[t].to
      /\ past'[t].to = editor[t]
  <2>1. PICK b \in BOOLEAN : b = ~past[t].redo
    OBVIOUS
  <2>2. past' = [past EXCEPT ![t] = [to |-> editor[t], ready |-> TRUE, redo |-> b]]
    BY <2>1 DEF Undo
  <2> QED BY <1>0, <2>2 DEF Undo
<1>2. \A x : Holds(t, x)' => Holds(t, x)
  BY <1>0, <1>1 DEF Holds
<1>3. lines' >= lines
  BY <1>0, ProjectNumbers
<1>4. \A e \in Epochs :
             owed[t] # None /\ <<e, owed[t]>> \in named[t] /\ OneLineage(t, e)
                 /\ Dispatched(t)' /\ op'[t].snap.line = owed[t] /\ op'[t].snap.epoch = e
               => op'[t].replace /\ op'[t].carry = owed[t]
  BY <1>0 DEF Lineage, Owes, Dispatched
<1>5. Named(t)' /\ OwnRecord(t)' /\ Owes(t)'
  BY <1>0, <1>2, <1>3, <1>4, HeldKept DEF Lineage
<1>6. Away(t)' /\ Prepared(t)'
  BY <1>0 DEF Away, Prepared, Lineage, Dispatched, Base
<1> QED BY <1>5, <1>6 DEF Lineage

-----------------------------------------------------------------------------
(* The steps of a save keep a tab's lineages.                              *)
LEMMA CaptureLineage ==
  ASSUME IInv, TypeOK', NEW t \in Tabs, Lineage(t), Capture(t)
  PROVE  Lineage(t)'
<1>0. /\ TypeOK /\ t \in up
      /\ UNCHANGED <<stored, up, editor, past, baseline, carrier, known, owed, named, lines>>
      /\ lines' >= lines
  BY ProjectNumbers DEF IInv, Capture
<1>1. op'[t].pc = "queued" /\ op'[t].snap = editor[t]
  BY <1>0, IdleTyped, TabTyped DEF Capture, TypeOK, Ops
<1>2. \A x : Holds(t, x)' => Holds(t, x)
  BY <1>0, <1>1 DEF Holds
<1>3. ~Dispatched(t)'
  BY <1>1 DEF Dispatched
<1>4. Named(t)' /\ OwnRecord(t)' /\ Owes(t)'
  BY <1>0, <1>2, <1>3, HeldKept DEF Lineage
<1>5. Away(t)' /\ Prepared(t)'
  BY <1>0, <1>1, <1>3 DEF Away, Prepared
<1> QED BY <1>4, <1>5 DEF Lineage

(* What a save in flight does to its own operation, short of writing.      *)
Continues(t) ==
    /\ Dispatched(t) /\ op'[t].pc # "queued"
    /\ op'[t].snap = op[t].snap /\ op'[t].replace = op[t].replace /\ op'[t].carry = op[t].carry
    /\ op'[t].pc = "write" =>
          /\ op'[t].how \in {"create", "edit", "replace", "migrate"}
          /\ op'[t].how # "migrate" => op'[t].next.line = op'[t].snap.line
          /\ op'[t].how = "migrate" => op'[t].next.line = op'[t].seen.line
          /\ op'[t].how = "edit" => ~op'[t].replace
          /\ op'[t].how = "replace" => op'[t].replace /\ op'[t].next.text = op'[t].carry

LEMMA SaveLineage ==
  ASSUME IInv, TypeOK', NEW t \in Tabs, Lineage(t), op[t].pc # "idle",
         UNCHANGED <<stored, up, editor, past, baseline, carrier, known, owed, named, lines>>,
         op'[t] = Idle \/ Continues(t)
  PROVE  Lineage(t)'
<1>0. TypeOK /\ lines' >= lines /\ t \in up
  BY ProjectNumbers, IdleTyped DEF IInv, Lineage, Away
<1>1. \A x : Holds(t, x)' => Holds(t, x)
  BY IdleTyped DEF Holds, Continues
<1>2. Base(t)' = Base(t)
  BY DEF Base
<1>3. \A e \in Epochs :
             owed[t] # None /\ <<e, owed[t]>> \in named[t] /\ OneLineage(t, e)
                 /\ Dispatched(t)' /\ op'[t].snap.line = owed[t] /\ op'[t].snap.epoch = e
               => op'[t].replace /\ op'[t].carry = owed[t]
  BY IdleTyped DEF Lineage, Owes, Dispatched, Continues
<1>4. Named(t)' /\ OwnRecord(t)' /\ Owes(t)'
  BY <1>0, <1>1, <1>2, <1>3, HeldKept DEF Lineage
<1>5. Away(t)'
  BY <1>0 DEF Away
<1>6. Prepared(t)'
  BY <1>2, IdleTyped DEF Prepared, Lineage, Dispatched, Continues
<1> QED BY <1>4, <1>5, <1>6 DEF Lineage

(* The save reads the baseline and the carrier: whether it replaces is a   *)
(* matter of its epoch alone.                                              *)
LEMMA DispatchLineage ==
  ASSUME IInv, TypeOK', NEW t \in Tabs, Lineage(t), Dispatch(t)
  PROVE  Lineage(t)'
<1>0. /\ TypeOK /\ t \in up /\ lines' >= lines /\ op[t].pc = "queued"
      /\ UNCHANGED <<stored, up, editor, past, baseline, carrier, known, owed, named, lines>>
  BY ProjectNumbers, IdleTyped DEF IInv, Dispatch, tabVars, Lineage, Away
<1> DEFINE e == op[t].snap.epoch
           carry == IF ReplacementPending(t, e) THEN CarrierFor(t, e) ELSE None
<1>1. PICK b \in BOOLEAN : b = ReplacementPending(t, e)
  BY DEF ReplacementPending
<1>2. op' = [op EXCEPT ![t].pc = "evaluate", ![t].tries = 1, ![t].replace = b, ![t].carry = carry]
  BY <1>1 DEF Dispatch
<1>3. b => carry = CarrierFor(t, e)
  BY <1>1
<1> HIDE DEF carry
<1>4. /\ op'[t].pc = "evaluate" /\ op'[t].snap = op[t].snap
      /\ op'[t].replace = b /\ op'[t].carry = carry
  BY <1>0, <1>2 DEF TypeOK, Ops
<1>5. ~b => e = Base(t)
  BY <1>1 DEF ReplacementPending, Base
<1>6. \A x : Holds(t, x)' => Holds(t, x)
  BY <1>0, <1>4 DEF Holds
<1>7. Base(t)' = Base(t)
  BY <1>0 DEF Base
<1>8. \A d \in Epochs :
             owed[t] # None /\ <<d, owed[t]>> \in named[t] /\ OneLineage(t, d)
                 /\ Dispatched(t)' /\ op'[t].snap.line = owed[t] /\ op'[t].snap.epoch = d
               => op'[t].replace /\ op'[t].carry = owed[t]
  <2> SUFFICES ASSUME NEW d \in Epochs, owed[t] # None, <<d, owed[t]>> \in named[t],
                      OneLineage(t, d), d = e
               PROVE  op'[t].replace /\ op'[t].carry = owed[t]
    BY <1>4
  <2>2. e = carrier[t].epoch /\ e # Base(t) /\ carrier[t].line = owed[t]
    BY DEF Lineage, Owes
  <2>3. b /\ carry = owed[t]
    BY <1>3, <1>5, <2>2 DEF CarrierFor
  <2> QED BY <1>4, <2>3
<1>9. Named(t)' /\ OwnRecord(t)' /\ Owes(t)'
  BY <1>0, <1>6, <1>7, <1>8, HeldKept DEF Lineage
<1>10. carry # None => <<e, carry>> \in named[t]
  BY DEF carry, CarrierFor, Lineage, Named
<1>11. Away(t)' /\ Prepared(t)'
  BY <1>0, <1>4, <1>5, <1>7, <1>10 DEF Away, Prepared
<1> QED BY <1>9, <1>11 DEF Lineage

LEMMA EvaluateLineage ==
  ASSUME IInv, TypeOK', NEW t \in Tabs, Lineage(t), Evaluate(t)
  PROVE  Lineage(t)'
<1>0. /\ TypeOK /\ op \in [Tabs -> Ops] /\ op[t] \in Ops /\ op[t].pc = "evaluate"
      /\ UNCHANGED <<stored, up, editor, past, baseline, carrier, known, owed, named, lines>>
  BY TabTyped DEF IInv, TypeOK, Evaluate, tabVars
<1>1. CASE op' = [op EXCEPT ![t].pc = "write", ![t].how = "create",
                              ![t].seen = Absent, ![t].next = Created(op[t])]
  <2> DEFINE next == Created(op[t])
  <2>1. next.line = op[t].snap.line
    BY DEF Created, Current
  <2> HIDE DEF next
  <2>2. op' = [op EXCEPT ![t].pc = "write", ![t].how = "create", ![t].seen = Absent, ![t].next = next]
    BY <1>1 DEF next
  <2>3. /\ op'[t].pc = "write" /\ op'[t].how = "create" /\ op'[t].next = next
        /\ op'[t].snap = op[t].snap /\ op'[t].replace = op[t].replace /\ op'[t].carry = op[t].carry
    BY <1>0, <2>2 DEF Ops
  <2> QED BY <1>0, <2>1, <2>3, SaveLineage DEF Continues, Dispatched
<1>2. CASE op' = [op EXCEPT ![t].pc = "commit", ![t].seen = stored]
  <2>1. /\ op'[t].pc = "commit" /\ op'[t].snap = op[t].snap
        /\ op'[t].replace = op[t].replace /\ op'[t].carry = op[t].carry
    BY <1>0, <1>2 DEF Ops
  <2> QED BY <1>0, <2>1, SaveLineage DEF Continues, Dispatched
<1>3. CASE op' = [op EXCEPT ![t].pc = "migrate"]
  <2>1. /\ op'[t].pc = "migrate" /\ op'[t].snap = op[t].snap
        /\ op'[t].replace = op[t].replace /\ op'[t].carry = op[t].carry
    BY <1>0, <1>3 DEF Ops
  <2> QED BY <1>0, <2>1, SaveLineage DEF Continues, Dispatched
<1>4. CASE End(t)
  BY <1>0, <1>4, EndTyped, SaveLineage
<1> QED BY <1>1, <1>2, <1>3, <1>4 DEF Evaluate

LEMMA CommitLineage ==
  ASSUME IInv, TypeOK', NEW t \in Tabs, Lineage(t), Commit(t)
  PROVE  Lineage(t)'
<1>0. /\ TypeOK /\ op \in [Tabs -> Ops] /\ op[t] \in Ops /\ op[t].pc = "commit"
      /\ UNCHANGED <<stored, up, editor, past, baseline, carrier, known, owed, named, lines>>
  BY TabTyped DEF IInv, TypeOK, Commit, tabVars
<1>1. CASE stored = op[t].seen
  <2> DEFINE how == IF op[t].replace THEN "replace" ELSE "edit"
             next == IF op[t].replace THEN Replaced(op[t]) ELSE Edited(op[t])
  <2>1. op' = [op EXCEPT ![t].pc = "write", ![t].how = how, ![t].next = next]
    BY <1>1 DEF Commit
  <2>2. /\ how \in {"edit", "replace"} /\ (how = "edit" => ~op[t].replace)
        /\ (how = "replace" => op[t].replace) /\ next.line = op[t].snap.line
        /\ (op[t].replace => next.text = op[t].carry)
    BY DEF Replaced, Edited, Current
  <2> HIDE DEF how, next
  <2>3. /\ op'[t].pc = "write" /\ op'[t].how = how /\ op'[t].next = next
        /\ op'[t].snap = op[t].snap /\ op'[t].replace = op[t].replace /\ op'[t].carry = op[t].carry
    BY <1>0, <2>1 DEF Ops
  <2> QED BY <1>0, <2>2, <2>3, SaveLineage DEF Continues, Dispatched
<1>2. CASE stored # op[t].seen
  BY <1>0, <1>2, EndTyped, SaveLineage DEF Commit
<1> QED BY <1>1, <1>2

LEMMA LookAgainLineage ==
  ASSUME IInv, TypeOK', NEW t \in Tabs, Lineage(t), Dispatched(t), LookAgain(t),
         UNCHANGED <<stored, up, editor, past, baseline, carrier, known, owed, named, lines>>
  PROVE  Lineage(t)'
<1>0. /\ TypeOK /\ op \in [Tabs -> Ops] /\ op[t] \in Ops /\ op[t].pc # "idle"
  BY TabTyped DEF IInv, TypeOK, Dispatched
<1>1. CASE op[t].tries = 1
  <2>1. /\ op'[t].pc = "evaluate" /\ op'[t].snap = op[t].snap
        /\ op'[t].replace = op[t].replace /\ op'[t].carry = op[t].carry
    BY <1>0, <1>1 DEF LookAgain, Ops
  <2> QED BY <1>0, <2>1, SaveLineage DEF Continues
<1>2. CASE op[t].tries # 1
  BY <1>0, <1>2, EndTyped, SaveLineage DEF LookAgain
<1> QED BY <1>1, <1>2

LEMMA MigrateLineage ==
  ASSUME IInv, TypeOK', NEW t \in Tabs, Lineage(t), Migrate(t)
  PROVE  Lineage(t)'
<1>0. /\ TypeOK /\ op \in [Tabs -> Ops] /\ op[t] \in Ops /\ op[t].pc = "migrate" /\ stored \in Records
      /\ UNCHANGED <<stored, up, editor, past, baseline, carrier, known, owed, named, lines>>
  BY TabTyped DEF IInv, TypeOK, Migrate, tabVars
<1>1. CASE op' = [op EXCEPT ![t].pc = "write", ![t].how = "migrate",
                     ![t].seen = stored, ![t].next = [stored EXCEPT !.kind = "current"]]
  <2> DEFINE next == [stored EXCEPT !.kind = "current"]
  <2>1. next.line = stored.line
    BY <1>0 DEF Records
  <2> HIDE DEF next
  <2>2. op' = [op EXCEPT ![t].pc = "write", ![t].how = "migrate", ![t].seen = stored, ![t].next = next]
    BY <1>1 DEF next
  <2>3. /\ op'[t].pc = "write" /\ op'[t].how = "migrate" /\ op'[t].next = next /\ op'[t].seen = stored
        /\ op'[t].snap = op[t].snap /\ op'[t].replace = op[t].replace /\ op'[t].carry = op[t].carry
    BY <1>0, <2>2 DEF Ops
  <2> QED BY <1>0, <2>1, <2>3, SaveLineage DEF Continues, Dispatched
<1>2. CASE LookAgain(t)
  BY <1>0, <1>2, LookAgainLineage DEF Dispatched
<1>3. CASE End(t)
  BY <1>0, <1>3, EndTyped, SaveLineage
<1> QED BY <1>1, <1>2, <1>3 DEF Migrate

LEMMA StopLineage ==
  ASSUME IInv, TypeOK', NEW t \in Tabs, Lineage(t), Conflict(t) \/ Fail(t)
  PROVE  Lineage(t)'
<1>0. TypeOK /\ UNCHANGED <<stored, up, editor, past, baseline, carrier, known, owed, named, lines>>
  BY DEF IInv, Conflict, Fail, tabVars
<1>1. CASE Conflict(t)
  <2>1. Dispatched(t) /\ op[t].pc # "idle" /\ (LookAgain(t) \/ End(t))
    BY <1>1 DEF Conflict, Dispatched
  <2> QED BY <1>0, <2>1, EndTyped, LookAgainLineage, SaveLineage
<1>2. CASE Fail(t)
  BY <1>0, <1>2, EndTyped, SaveLineage DEF Fail
<1> QED BY <1>1, <1>2

-----------------------------------------------------------------------------
(* The transaction keeps them too.                                         *)
LEMMA MigratedLineage ==
  ASSUME IInv, TypeOK', NEW t \in Tabs, Lineage(t), stored.line <= lines, Migrated(t)
  PROVE  Lineage(t)' /\ stored'.line <= lines'
<1>0. /\ TypeOK /\ op \in [Tabs -> Ops] /\ op[t] \in Ops /\ op[t].pc = "write" /\ op[t].how = "migrate"
      /\ UNCHANGED <<up, editor, past, baseline, carrier, owed, named, lines>> /\ lines' >= lines
      /\ stored = op[t].seen /\ stored' = op[t].next /\ stored'.kind = "current" /\ t \in up
  BY TabTyped, PutTyped, IdleTyped, ProjectNumbers
     DEF IInv, TypeOK, Migrated, Put, tabVars, Lineage, Away
<1>1. stored'.line = stored.line /\ stored.kind = "legacy"
  BY <1>0 DEF Lineage, Prepared, IInv, Ready
<1>2. known'[t].line = known[t].line /\ (known[t].kind = "absent" <=> known'[t].kind = "absent")
  <2> DEFINE new == IF known[t] = stored THEN op[t].next ELSE known[t]
  <2>1. known' = [known EXCEPT ![t] = new] /\ known \in [Tabs -> Records]
    BY <1>0 DEF Migrated, TypeOK
  <2>2. known'[t] = new
    BY <2>1
  <2> QED BY <1>0, <1>1, <2>2
<1>3. \/ op'[t] = Idle
      \/ /\ op'[t].pc = "evaluate" /\ op'[t].snap = op[t].snap
         /\ op'[t].replace = op[t].replace /\ op'[t].carry = op[t].carry
  <2>1. CASE op[t].tries = 1
    BY <1>0, <2>1 DEF Migrated, Ops
  <2>2. CASE op[t].tries # 1
    BY <1>0, <2>2, EndTyped DEF Migrated
  <2> QED BY <2>1, <2>2
<1>4. \A x : Holds(t, x)' => Holds(t, x)
  BY <1>0, <1>3, IdleTyped DEF Holds
<1>5. Base(t)' = Base(t) /\ Dispatched(t)
  BY <1>0 DEF Base, Dispatched
<1>6. \A e \in Epochs :
             owed[t] # None /\ <<e, owed[t]>> \in named[t] /\ OneLineage(t, e)
                 /\ Dispatched(t)' /\ op'[t].snap.line = owed[t] /\ op'[t].snap.epoch = e
               => op'[t].replace /\ op'[t].carry = owed[t]
  BY <1>3, <1>5, IdleTyped DEF Lineage, Owes, Dispatched
<1>7. Named(t)' /\ OwnRecord(t)' /\ Owes(t)'
  BY <1>0, <1>2, <1>4, <1>5, <1>6, HeldKept DEF Lineage
<1>8. Away(t)' /\ Prepared(t)'
  BY <1>0, <1>3, <1>5, IdleTyped DEF Away, Prepared, Lineage, Dispatched
<1> QED BY <1>0, <1>1, <1>7, <1>8 DEF Lineage

(* The save's epoch becomes the baseline, and the record it wrote is of    *)
(* the lineage it captured.                                                *)
LEMMA SavedLineage ==
  ASSUME IInv, TypeOK', NEW t \in Tabs, Lineage(t), stored.line <= lines, Saved(t)
  PROVE  Lineage(t)' /\ stored'.line <= lines'
<1>0. /\ TypeOK /\ op \in [Tabs -> Ops] /\ op[t].snap \in Projects /\ op[t].pc = "write"
      /\ op[t].how \in {"create", "edit", "replace"} /\ carrier \in [Tabs -> Carriers]
      /\ UNCHANGED <<up, editor, past, named, lines>> /\ lines' >= lines
      /\ stored' = op[t].next /\ stored'.kind = "current" /\ t \in up /\ op'[t] = Idle
  BY TabTyped, PutTyped, IdleTyped, EndTyped, ProjectNumbers
     DEF IInv, TypeOK, Saved, Put, tabVars, Lineage, Away, Carriers
<1> DEFINE e == op[t].snap.epoch
<1>1. /\ <<e, op[t].snap.line>> \in named[t] /\ op[t].next.line = op[t].snap.line
      /\ op[t].snap.line <= lines
  <2>1. Holds(t, op[t].snap)
    BY <1>0 DEF Holds
  <2>2. <<e, op[t].snap.line>> \in named[t]
    BY <1>0, <2>1 DEF Lineage, Named
  <2>3. op[t].snap.line <= lines
    BY <2>2 DEF Lineage, Named
  <2> QED BY <1>0, <2>2, <2>3 DEF Lineage, Prepared
<1>2. known'[t] = op[t].next /\ baseline'[t] = e
  BY <1>0 DEF Saved, TypeOK
<1>3. Base(t)' = e
  BY <1>0, <1>2, ProjectNumbers DEF Base, Projects
<1>4. \A x : Holds(t, x)' => Holds(t, x)
  BY <1>0, IdleTyped DEF Holds
<1>5. carrier'[t] = (IF Consumes(t, e) THEN NoCarrier ELSE carrier[t])
  <2> DEFINE new == IF Consumes(t, e) THEN NoCarrier ELSE carrier[t]
  <2>1. carrier' = [carrier EXCEPT ![t] = new]
    BY DEF Saved
  <2> HIDE DEF new
  <2>2. carrier'[t] = new
    BY <1>0, <2>1
  <2> QED BY <2>2 DEF new
<1>6. Named(t)'
  <2>1. carrier'[t].line # None => carrier'[t] = carrier[t]
    BY <1>5 DEF NoCarrier
  <2> QED BY <1>0, <1>4, <2>1 DEF Lineage, Named
<1>7. OwnRecord(t)'
  BY <1>0, <1>1, <1>2, <1>3 DEF OwnRecord
<1>8. Owes(t)'
  <2> SUFFICES ASSUME owed'[t] # None PROVE Owes(t)'
    BY DEF Owes
  <2> DEFINE left == IF owed[t] = op[t].snap.line THEN None ELSE owed[t]
  <2>1. owed' = [owed EXCEPT ![t] = left] /\ owed \in [Tabs -> Lines]
    BY <1>0 DEF Saved, TypeOK
  <2>2. owed'[t] = left
    BY <2>1
  <2>3. owed'[t] = owed[t] /\ owed[t] # op[t].snap.line /\ owed[t] # None
    BY <2>2
  <2>4. ASSUME NEW d \in Epochs, <<d, owed[t]>> \in named[t], OneLineage(t, d)
        PROVE  /\ carrier'[t].line = owed[t] /\ carrier'[t].epoch = d /\ d # e
    <3>1. d # e
      BY <1>1, <2>3, <2>4 DEF OneLineage
    <3>2. carrier[t].line = owed[t] /\ carrier[t].epoch = d
      BY <2>3, <2>4 DEF Lineage, Owes
    <3> QED BY <1>5, <3>1, <3>2 DEF Consumes
  <2>5. ~Dispatched(t)' /\ (\A d : OneLineage(t, d)' <=> OneLineage(t, d))
    BY <1>0, IdleTyped DEF Dispatched, OneLineage
  <2> QED BY <1>0, <1>3, <2>3, <2>4, <2>5 DEF Owes
<1>9. Away(t)' /\ Prepared(t)'
  BY <1>0, IdleTyped DEF Away, Prepared, Dispatched
<1>10. stored'.line <= lines'
  BY <1>0, <1>1
<1> QED BY <1>6, <1>7, <1>8, <1>9, <1>10 DEF Lineage

-----------------------------------------------------------------------------
LEMMA OwnLineage ==
  ASSUME IInv, TypeOK', NEW t \in Tabs, TabStep(t),
         Lineage(t), lines >= 1, stored.line <= lines
  PROVE  Lineage(t)'
<1>1. CASE Load(t) \/ Close(t) \/ Edit(t) \/ Undo(t)
  BY <1>1, LoadLineage, CloseLineage, EditLineage, UndoLineage
<1>2. CASE Reset(t) \/ Import(t)
  <2>1. PICK undoable \in BOOLEAN : NewProject(t, undoable)
    BY <1>2 DEF Reset, Import
  <2> QED BY <1>2, <2>1, ReplaceLineage
<1>3. CASE Capture(t) \/ Dispatch(t) \/ Evaluate(t) \/ Commit(t)
  BY <1>3, CaptureLineage, DispatchLineage, EvaluateLineage, CommitLineage
<1>4. CASE Migrate(t) \/ Migrated(t) \/ Saved(t) \/ Conflict(t) \/ Fail(t)
  BY <1>4, MigrateLineage, MigratedLineage, SavedLineage, StopLineage
<1> QED BY <1>1, <1>2, <1>3, <1>4 DEF TabStep

(* What else a step of a tab leaves to the others.                         *)
LEMMA TabFrameRest ==
  ASSUME IInv, NEW t \in Tabs, TabStep(t), NEW u \in Tabs \ {t}
  PROVE  /\ (u \in up') <=> (u \in up)
         /\ baseline'[u] = baseline[u] /\ carrier'[u] = carrier[u]
         /\ known'[u] = known[u] /\ owed'[u] = owed[u] /\ named'[u] = named[u]
<1>0. /\ named \in [Tabs -> SUBSET (Epochs \X Lines)]
      /\ baseline \in [Tabs -> Epochs \cup {NoEpoch}] /\ carrier \in [Tabs -> Carriers]
      /\ known \in [Tabs -> Records] /\ owed \in [Tabs -> Lines] /\ u # t
  BY DEF IInv, TypeOK, Carriers
<1>1. CASE Load(t) \/ Close(t) \/ Edit(t) \/ Undo(t)
  BY <1>0, <1>1 DEF Load, Close, Edit, Undo
<1>2. CASE Reset(t) \/ Import(t)
  BY <1>0, <1>2 DEF Reset, Import, NewProject
<1>3. CASE Capture(t) \/ Dispatch(t) \/ Evaluate(t) \/ Commit(t)
  BY <1>0, <1>3 DEF Capture, Dispatch, Evaluate, Commit, tabVars
<1>4. CASE Migrate(t) \/ Conflict(t) \/ Fail(t)
  BY <1>0, <1>4 DEF Migrate, Conflict, Fail, tabVars
<1>5. CASE Migrated(t) \/ Saved(t)
  BY <1>0, <1>5 DEF Migrated, Saved
<1> QED BY <1>1, <1>2, <1>3, <1>4, <1>5 DEF TabStep

(* A step never takes a lineage back, and what it stores is of a lineage   *)
(* that has begun.                                                         *)
LEMMA LinesGrow ==
  ASSUME IInv, TypeOK', NEW t \in Tabs, TabStep(t), Lineage(t), lines >= 1, stored.line <= lines
  PROVE  lines' >= lines /\ lines' >= 1 /\ stored'.line <= lines'
<1>0. lines \in Nat /\ lines' \in Nat /\ stored.line \in Nat
  BY ProjectNumbers DEF IInv, TypeOK, Records
<1>1. CASE Load(t)
  BY <1>0, <1>1 DEF Load
<1>2. CASE Reset(t) \/ Import(t)
  BY <1>0, <1>2 DEF Reset, Import, NewProject
<1>3. CASE Close(t) \/ Edit(t) \/ Undo(t) \/ Capture(t) \/ Dispatch(t) \/ Evaluate(t) \/ Commit(t)
  BY <1>0, <1>3 DEF Close, Edit, Undo, Capture, Dispatch, Evaluate, Commit
<1>4. CASE Migrate(t) \/ Conflict(t) \/ Fail(t)
  BY <1>0, <1>4 DEF Migrate, Conflict, Fail
<1>5. CASE Migrated(t) \/ Saved(t)
  <2>1. Put(t) /\ lines' = lines
    BY <1>5 DEF Migrated, Saved
  <2>2. stored'.kind = "current" /\ stored'.line <= lines'
    BY <1>5, <2>1, PutTyped, MigratedLineage, SavedLineage
  <2> QED BY <1>0, <2>1, <2>2
<1> QED BY <1>1, <1>2, <1>3, <1>4, <1>5 DEF TabStep

LEMMA InitLineage == Init => LInv
<1> SUFFICES ASSUME Init PROVE LInv
  OBVIOUS
<1>1. stored.line <= lines /\ lines >= 1
  BY DEF Init, Absent, None
<1>2. ASSUME NEW t \in Tabs PROVE Lineage(t)
  <2>1. /\ past[t] = NoPast /\ op[t] = Idle /\ baseline[t] = NoEpoch /\ carrier[t] = NoCarrier
        /\ owed[t] = None /\ known[t] = Absent /\ named[t] = {} /\ t \notin up
    BY DEF Init
  <2>2. \A x : ~Holds(t, x)
    BY <2>1, IdleTyped DEF Holds, NoPast
  <2>3. Named(t)
    BY <2>1, <2>2 DEF Named, NoCarrier
  <2>4. OwnRecord(t)
    BY <2>1, Constants0 DEF OwnRecord
  <2>5. Away(t) /\ Owes(t)
    BY <2>1 DEF Away, Owes
  <2>6. Prepared(t)
    BY <2>1, IdleTyped DEF Prepared, Dispatched
  <2> QED BY <2>3, <2>4, <2>5, <2>6 DEF Lineage
<1> QED BY <1>1, <1>2 DEF LInv

LEMMA StepLineage ==
  ASSUME IInv, LInv, [Next]_vars
  PROVE  LInv'
<1>0. /\ TypeOK /\ TypeOK' /\ lines \in Nat /\ stored.line \in Nat
      /\ lines >= 1 /\ stored.line <= lines /\ \A t \in Tabs : Lineage(t)
  BY StepInvariant, ProjectNumbers DEF IInv, LInv, TypeOK, Records
<1>1. ASSUME UNCHANGED <<tabVars, op, lines>>, stored'.line <= lines'
      PROVE  LInv'
  <2>1. ASSUME NEW u \in Tabs PROVE Lineage(u)'
    <3>1. lines' >= lines
      BY <1>0, <1>1
    <3> QED BY <1>0, <1>1, <3>1, OthersKeepLineage DEF tabVars
  <2> QED BY <1>0, <1>1, <2>1 DEF LInv
<1>2. CASE UNCHANGED vars
  BY <1>0, <1>1, <1>2 DEF vars
<1>3. ASSUME NEW t \in Tabs, TabStep(t) PROVE LInv'
  <2>1. lines' >= lines /\ lines' >= 1 /\ stored'.line <= lines'
    BY <1>0, <1>3, LinesGrow
  <2>2. Lineage(t)'
    BY <1>0, <1>3, OwnLineage
  <2>3. ASSUME NEW u \in Tabs \ {t} PROVE Lineage(u)'
    BY <1>0, <1>3, <2>1, TabFrame, TabFrameRest, OthersKeepLineage
  <2> QED BY <2>1, <2>2, <2>3 DEF LInv
<1>4. CASE OldBuildWrites \/ NewBuildWrites
  <2>1. UNCHANGED <<tabVars, op, lines>> /\ stored \in Records
    BY <1>0, <1>4 DEF OldBuildWrites, NewBuildWrites, TypeOK
  <2>2. stored'.line <= lines'
    <3>1. CASE OldBuildWrites
      <4>1. CASE stored.kind = "absent"
        BY <1>0, <2>1, <3>1, <4>1 DEF OldBuildWrites
      <4>2. CASE stored.kind # "absent"
        BY <1>0, <2>1, <3>1, <4>2 DEF OldBuildWrites
      <4> QED BY <4>1, <4>2
    <3>2. CASE NewBuildWrites
      <4>1. stored'.line = stored.line
        BY <2>1, <3>2 DEF NewBuildWrites, Records
      <4> QED BY <1>0, <2>1, <4>1
    <3> QED BY <1>4, <3>1, <3>2
  <2> QED BY <1>1, <2>1, <2>2
<1> QED BY <1>2, <1>3, <1>4 DEF Next, TabStep

LEMMA LineageInvariant == Spec => [](IInv /\ LInv)
<1>1. Init => IInv /\ LInv
  BY InitInvariant, InitLineage
<1>2. IInv /\ LInv /\ [Next]_vars => (IInv /\ LInv)'
  BY StepInvariant, StepLineage
<1> QED BY <1>1, <1>2, PTL DEF Spec

(* A step that writes is the save's own transaction.                       *)
LEMMA Writer ==
  ASSUME IInv, LInv, [Next]_vars, NEW t \in Tabs, Writes(t)
  PROVE  /\ Migrated(t) \/ Saved(t)
         /\ op[t].pc = "write" /\ Lineage(t) /\ Ready(t) /\ stored = op[t].seen /\ stored' = op[t].next
         /\ Dispatched(t) /\ Holds(t, op[t].snap) /\ op[t].snap \in Projects
<1>1. op'[t] # op[t] /\ op[t].pc = "write" /\ stored' # stored /\ TypeOK
  BY DEF Writes, IInv
<1>2. PICK u \in Tabs : TabStep(u)
  BY <1>1 DEF Next, TabStep, OldBuildWrites, NewBuildWrites, vars
<1>3. u = t
  BY <1>1, <1>2, TabFrame
<1>4. Put(t) /\ (Migrated(t) \/ Saved(t))
  BY <1>1, <1>2, <1>3, TabFrame
<1> QED BY <1>1, <1>4, PutTyped, TabTyped DEF Dispatched, Holds, LInv, IInv

(* Edits are merged only into the text of the project they belong to, and  *)
(* a replacement starts from its own admitted text or from none, for every *)
(* save whose epoch named one lineage in its tab: a save that takes itself *)
(* for an edit has the epoch of the baseline, which named the lineage of   *)
(* the record the tab last loaded or wrote, and the carrier a save takes   *)
(* was bound to the save's epoch.                                          *)
THEOREM EditsMergeOwnText == Spec => MergesOwnText
<1>1. IInv /\ LInv /\ [Next]_vars =>
         [\A t \in Tabs :
             Writes(t) /\ OneLineage(t, op[t].snap.epoch) =>
                /\ op[t].how = "edit" /\ stored = known[t]
                      => stored'.line = stored.line
                /\ op[t].how = "replace" => stored'.text \in {None, stored'.line}]_vars
  <2> SUFFICES ASSUME IInv, LInv, [Next]_vars, NEW t \in Tabs, Writes(t),
                      OneLineage(t, op[t].snap.epoch)
               PROVE  /\ op[t].how = "edit" /\ stored = known[t]
                            => stored'.line = stored.line
                      /\ op[t].how = "replace" => stored'.text \in {None, stored'.line}
    OBVIOUS
  <2>1. /\ op[t].pc = "write" /\ Lineage(t) /\ Ready(t) /\ stored = op[t].seen /\ stored' = op[t].next
        /\ Dispatched(t) /\ Holds(t, op[t].snap) /\ op[t].snap \in Projects
    BY Writer
  <2>2. <<op[t].snap.epoch, op[t].snap.line>> \in named[t]
    BY <2>1 DEF Lineage, Named
  <2>3. ASSUME op[t].how = "edit", stored = known[t] PROVE stored'.line = stored.line
    <3>1. op[t].snap.epoch = Base(t) /\ op[t].next.line = op[t].snap.line
      BY <2>1, <2>3 DEF Lineage, Prepared
    <3>2. <<Base(t), known[t].line>> \in named[t]
      BY <2>1, <2>3 DEF Ready, Lineage, OwnRecord
    <3>3. op[t].snap.line = known[t].line
      BY <2>2, <3>1, <3>2 DEF OneLineage
    <3> QED BY <2>1, <2>3, <3>1, <3>3
  <2>4. ASSUME op[t].how = "replace" PROVE stored'.text \in {None, stored'.line}
    <3>1. op[t].next.text = op[t].carry /\ op[t].next.line = op[t].snap.line
      BY <2>1, <2>4 DEF Lineage, Prepared
    <3>2. op[t].carry = None \/ <<op[t].snap.epoch, op[t].carry>> \in named[t]
      BY <2>1 DEF Lineage, Prepared
    <3>3. op[t].carry \in {None, op[t].snap.line}
      BY <2>2, <3>2 DEF OneLineage
    <3> QED BY <2>1, <3>1, <3>3
  <2> QED BY <2>3, <2>4
<1> QED BY <1>1, LineageInvariant, PTL DEF Spec, MergesOwnText

(* A save that brings an imported or restored project to a stored record   *)
(* for the first time starts from the text that was admitted: until it     *)
(* commits, the carrier holds that text under the import's epoch, which is *)
(* not the baseline's as long as it named no other lineage.                *)
THEOREM ImportsKeepText == Spec => ImportKeepsText
<1>1. IInv /\ LInv /\ [Next]_vars =>
         [\A t \in Tabs :
             Writes(t) /\ op[t].how \in {"edit", "replace"} /\ owed[t] # None
                       /\ op[t].snap.line = owed[t]
                       /\ OneLineage(t, op[t].snap.epoch)
                => stored'.text = owed[t]]_vars
  <2> SUFFICES ASSUME IInv, LInv, [Next]_vars, NEW t \in Tabs, Writes(t),
                      op[t].how \in {"edit", "replace"},
                      owed[t] # None, op[t].snap.line = owed[t],
                      OneLineage(t, op[t].snap.epoch)
               PROVE  stored'.text = owed[t]
    OBVIOUS
  <2>1. /\ op[t].pc = "write" /\ Lineage(t) /\ stored' = op[t].next
        /\ Dispatched(t) /\ Holds(t, op[t].snap) /\ op[t].snap \in Projects
    BY Writer
  <2>2. <<op[t].snap.epoch, owed[t]>> \in named[t] /\ op[t].snap.epoch \in Epochs
    BY <2>1, ProjectNumbers DEF Lineage, Named
  <2>3. op[t].replace /\ op[t].carry = owed[t]
    BY <2>1, <2>2 DEF Lineage, Owes
  <2>4. op[t].how = "replace"
    BY <2>1, <2>3 DEF Lineage, Prepared
  <2> QED BY <2>1, <2>3, <2>4 DEF Lineage, Prepared
<1> QED BY <1>1, LineageInvariant, PTL DEF Spec, ImportKeepsText
=============================================================================
