--------------------- MODULE EncryptionMigrationProofs ---------------------
(***************************************************************************)
(* Proofs about EncryptionMigration, for every number of tabs, stores and   *)
(* records, every batch size and every value of the bounds.                 *)
(*                                                                         *)
(*   TypeCorrect    every variable keeps its type                           *)
(*   FenceHolds     WriterFence, with leases that may run out at any time   *)
(*   OneRunnerHolds, ConversionHolds, CommitHolds                           *)
(*                  OneRunner, BehindCursorConverted and ConvertedAtCommit, *)
(*                  as long as no live runner loses its lease               *)
(*   ProgressIsKept CheckpointsMonotone, with leases that may run out       *)
(*   VerifierIsKept SentinelKeptWhileNeeded, as long as no live runner      *)
(*                  loses its lease                                         *)
(***************************************************************************)
EXTENDS EncryptionMigration, TLAPS

-----------------------------------------------------------------------------
(* Inductive invariants.                                                    *)

AllDone(j) == \A s \in Stores : j.stores[s].done
LatePhases == {"verifying", "committing", "completed"}

\* A journal makes sense by itself: what its phase says of its checkpoints.
Sound(j) ==
  /\ (j.phase = "none") <=> (j.op = 0)
  /\ j.op = 0 => j.rev = 0 /\ j.stores = FreshStores
  /\ j.phase = "prepared" => j.stores = FreshStores
  /\ \A s \in Stores : j.stores[s].done => j.stores[s].cursor = NRecords
  /\ j.phase \in LatePhases => AllDone(j)

\* A copy j of the stored journal jn, in the hands of some tab, is never ahead
\* of it, and equals it, up to the lease, while their revisions agree.
Agrees(j, jn) ==
  /\ j.op = jn.op => j.rev <= jn.rev
  /\ j.op = jn.op /\ j.rev = jn.rev => j.phase = jn.phase /\ j.stores = jn.stores
  /\ j.op = jn.op /\ j.rev = jn.rev /\ j.op # 0
       => j.kind = jn.kind /\ j.target = jn.target
Copy(j, jn, n) == Sound(j) /\ Agrees(j, jn) /\ j.op <= n

\* The phase an operation's copy is in, by the step the operation is at.
PhaseAt(pc) ==
  CASE pc = "claim" -> {"prepared", "migrating", "verifying"}
    [] pc = "start" -> {"prepared"}
    [] pc \in {"batch", "checkpoint", "converted"} -> {"migrating"}
    [] pc \in {"verify", "verified"} -> {"verifying"}
    [] pc \in {"retire", "clearSalt", "replace", "complete"} -> {"committing"}
    [] pc \in {"clear", "finish"} -> {"completed"}
    [] OTHER -> {"none"}

\* The invariant of one tab with operation o and modal m, when the stored
\* journal is jn and n migrations were begun.
TabInv(o, m, jn, n) ==
  /\ Copy(o.j, jn, n) /\ Copy(m, jn, n)
  /\ o.j.phase \in PhaseAt(o.pc)
  /\ o.pc = "converted" => AllDone(o.j)
  /\ m.phase # "completed"
JournalInv ==
  /\ Copy(journal, journal, ops)
  /\ \A t \in Tabs : TabInv(op[t], modal[t], journal, ops)

FenceInv == TypeOK /\ JournalInv /\ WriterFence

\* A runner holds the current copy of the journal and its live lease, and it is
\* the only one.
RunnerOwns ==
  \A t \in Tabs : op[t].pc \in RunnerPcs =>
                    Current(op[t].j) /\ journal.lease = "live" /\ op[t].j.lease = "live"
RunnerInv == OneRunner /\ RunnerOwns

\* A batch that was rewritten but not checkpointed yet has its final form.
BatchConverted ==
  \A t \in Tabs, s \in Stores :
    Is(t, "checkpoint") /\ AtStore(op[t].j, s) =>
      \A k \in InBatch(op[t].j, s) : rec[s][k] = TargetForm(op[t].j)
ConversionInv == FenceInv /\ RunnerInv /\ BatchConverted /\ BehindCursorConverted

-----------------------------------------------------------------------------
(* Type correctness.                                                        *)

\* The constructors of journals and operations, with the types they return.
LEMMA Constructors ==
  /\ NoJournal \in Journal /\ FreshStores \in [Stores -> Checkpoint]
  /\ Idle \in Operation /\ NoWriter \in Writer
  /\ \A pc \in Pcs : At(pc) \in Operation
  /\ \A j \in Journal : Renewed(j) \in Journal
  /\ \A o \in Operation : o.pc \in Pcs /\ o.j \in Journal
  <1>1. FreshStores \in [Stores -> Checkpoint]
    BY ConstantsOK DEF FreshStores, Checkpoint
  <1>2. NoJournal \in Journal
    BY <1>1, ConstantsOK DEF NoJournal, Journal, Phases
  <1>3. \A pc \in Pcs : At(pc) \in Operation
    BY <1>2 DEF At, Operation
  <1>4. Idle \in Operation
    BY <1>3 DEF Idle, Pcs
  <1>5. NoWriter \in Writer
    BY DEF NoWriter, Writer
  <1>6. ASSUME NEW j \in Journal PROVE Renewed(j) \in Journal
    <2>1. j.rev + 1 \in Nat
      BY DEF Journal
    <2>2. (IF j.lease = "free" THEN "free" ELSE "live") \in {"free", "live", "expired"}
      OBVIOUS
    <2> HIDE DEF Renewed
    <2>3. \A r \in Nat, l \in {"free", "live", "expired"} :
            [j EXCEPT !.rev = r, !.lease = l] \in Journal
      BY DEF Journal
    <2> QED BY <2>1, <2>2, <2>3 DEF Renewed
  <1>7. \A o \in Operation : o.pc \in Pcs /\ o.j \in Journal
    BY DEF Operation
  <1> QED BY <1>1, <1>2, <1>3, <1>4, <1>5, <1>6, <1>7

LEMMA TypeInit == Init => TypeOK
  BY Constructors, ConstantsOK DEF Init, TypeOK

\* A successor journal j with a new phase, checkpoint or lease stays a journal.
LEMMA JournalUpdates ==
  ASSUME NEW j \in Journal
  PROVE  /\ \A p \in Phases : [j EXCEPT !.phase = p] \in Journal
         /\ \A l \in {"free", "live", "expired"} : [j EXCEPT !.lease = l] \in Journal
         /\ \A s \in Stores : /\ [j EXCEPT !.stores[s] = Advanced(@)] \in Journal
                              /\ [j EXCEPT !.stores[s].verified = TRUE] \in Journal
  <1>1. \A p \in Phases : [j EXCEPT !.phase = p] \in Journal
    BY DEF Journal
  <1>2. \A l \in {"free", "live", "expired"} : [j EXCEPT !.lease = l] \in Journal
    BY DEF Journal
  <1>3. ASSUME NEW s \in Stores
        PROVE  /\ [j EXCEPT !.stores[s] = Advanced(@)] \in Journal
               /\ [j EXCEPT !.stores[s].verified = TRUE] \in Journal
    <2>1. j.stores \in [Stores -> Checkpoint]
      BY DEF Journal
    <2>2. ASSUME NEW c \in Checkpoint PROVE Advanced(c) \in Checkpoint
      <3>1. (IF c.cursor + BatchSize < NRecords THEN c.cursor + BatchSize
                                                ELSE NRecords) \in 0..NRecords
        BY ConstantsOK DEF Checkpoint
      <3>2. (NRecords - c.cursor < BatchSize) \in BOOLEAN
        OBVIOUS
      <3>3. \A n \in 0..NRecords, b \in BOOLEAN :
              [c EXCEPT !.cursor = n, !.done = b] \in Checkpoint
        BY DEF Checkpoint
      <3> QED BY <3>1, <3>2, <3>3 DEF Advanced
    <2>3. \A c \in Checkpoint : [c EXCEPT !.verified = TRUE] \in Checkpoint
      BY DEF Checkpoint
    <2>4. [j.stores EXCEPT ![s] = Advanced(@)] \in [Stores -> Checkpoint]
      BY <2>1, <2>2
    <2>5. [j.stores EXCEPT ![s].verified = TRUE] \in [Stores -> Checkpoint]
      BY <2>1, <2>3
    <2>6. \A st \in [Stores -> Checkpoint] : [j EXCEPT !.stores = st] \in Journal
      BY DEF Journal
    <2>7. /\ [j EXCEPT !.stores[s] = Advanced(@)]
               = [j EXCEPT !.stores = [j.stores EXCEPT ![s] = Advanced(@)]]
          /\ [j EXCEPT !.stores[s].verified = TRUE]
               = [j EXCEPT !.stores = [j.stores EXCEPT ![s].verified = TRUE]]
      OBVIOUS
    <2> QED BY <2>4, <2>5, <2>6, <2>7
  <1> QED BY <1>1, <1>2, <1>3

\* The next-state relation as a choice of one action of one tab.
LEMMA NextCases ==
  ASSUME Next
  PROVE  \/ LeaseExpires
         \/ \E t \in Tabs :
              \/ \E p \in Passes : SetupAdmit(t, p) \/ RotateAdmit(t, p)
              \/ SetupSave(t) \/ SetupInstall(t) \/ UnlockRead(t)
              \/ UnlockInstall(t) \/ LockSession(t) \/ DisableAdmit(t)
              \/ Begin(t) \/ BeginRefused(t) \/ Claim(t) \/ Start(t)
              \/ MigrateNext(t) \/ SaveCheckpoint(t) \/ EndMigrating(t)
              \/ Verify(t) \/ SaveVerified(t) \/ EndVerifying(t)
              \/ RetireSentinel(t) \/ ClearSalt(t) \/ ReplaceSentinel(t)
              \/ Complete(t) \/ ClearCompleted(t) \/ Finish(t) \/ Abort(t)
              \/ Reload(t) \/ Boot(t) \/ WriteBegin(t) \/ SentinelSeen(t)
              \/ WriteCheck(t)
              \/ \E st \in Stores, k \in Records : WritePut(t, st, k)
              \/ \E sp, tp \in Passes : Resume(t, sp, tp)
  BY DEF Next, Runner, WriterStep

\* Saving a journal keeps the journal and the operation typed.
LEMMA SaveTyped ==
  ASSUME TypeOK, NEW t \in Tabs, NEW j \in Journal, NEW pc \in Pcs,
         SaveAndGoto(t, j, pc)
  PROVE  journal' \in Journal /\ op' \in [Tabs -> Operation]
  <1>1. Renewed(j) \in Journal
    BY Constructors
  <1>2. \A o \in Operation, r \in Journal : [o EXCEPT !.j = r, !.pc = pc] \in Operation
    BY DEF Operation
  <1> QED BY <1>1, <1>2 DEF SaveAndGoto, TypeOK

\* Moving on, and stopping, keep the operation typed.
LEMMA GotoTyped ==
  ASSUME TypeOK, NEW t \in Tabs
  PROVE  /\ \A pc \in Pcs : Goto(t, pc) => op' \in [Tabs -> Operation]
         /\ Quit(t) => op' \in [Tabs -> Operation]
         /\ op[t] \in Operation
  <1>1. \A o \in Operation, pc \in Pcs : [o EXCEPT !.pc = pc] \in Operation
    BY DEF Operation
  <1> QED BY <1>1, Constructors DEF Goto, Quit, TypeOK

LEMMA TypeStep == TypeOK /\ [Next]_vars => TypeOK'
  <1> SUFFICES ASSUME TypeOK, [Next]_vars PROVE TypeOK'
    OBVIOUS
  <1> USE ConstantsOK
  <1>0. CASE UNCHANGED vars
    BY <1>0 DEF vars, TypeOK
  <1>1. CASE LeaseExpires
    <2>1. journal' \in Journal
      BY <1>1, JournalUpdates DEF LeaseExpires, TypeOK
    <2> QED BY <1>1, <2>1 DEF LeaseExpires, TypeOK, bounds
  <1>2. ASSUME NEW t \in Tabs, NEW p \in Passes,
               SetupAdmit(t, p) \/ RotateAdmit(t, p)
        PROVE  TypeOK'
    <2>1. CASE SetupAdmit(t, p)
      <3>1. salt' \in Salts /\ salts' \in 0..MaxSalts
        BY <2>1 DEF SetupAdmit, TypeOK, Salts
      <3>2. [pass |-> p, salt |-> salt'] \in Key
        BY <3>1 DEF Key
      <3>3. \A o \in Operation, k \in Key : [o EXCEPT !.tgt = k] \in Operation
        BY DEF Operation
      <3>4. op' \in [Tabs -> Operation]
        BY <2>1, <3>2, <3>3, Constructors DEF SetupAdmit, TypeOK, Pcs
      <3> QED BY <2>1, <3>1, <3>4 DEF SetupAdmit, TypeOK, Salts
    <2>2. CASE RotateAdmit(t, p)
      <3>1. sentinel \in Key /\ salt \in Salts
        BY <2>2 DEF RotateAdmit, TypeOK, Key
      <3>2. [pass |-> p, salt |-> salt] \in Key
        BY <3>1 DEF Key
      <3>3. \A o \in Operation, k, r \in Key :
              [o EXCEPT !.j.kind = "rekey", !.src = k, !.j.target = r, !.tgt = r]
                \in Operation
        <4>1. \A j \in Journal, r \in Key :
                [j EXCEPT !.kind = "rekey", !.target = r] \in Journal
          BY DEF Journal
        <4> QED BY <4>1 DEF Operation
      <3>4. op' \in [Tabs -> Operation]
        BY <2>2, <3>1, <3>2, <3>3, Constructors DEF RotateAdmit, TypeOK, Pcs
      <3> QED BY <2>2, <3>4 DEF RotateAdmit, TypeOK, bounds
    <2> QED BY <1>2, <2>1, <2>2
  <1>3. ASSUME NEW t \in Tabs, SetupSave(t) PROVE TypeOK'
    <2>1. op' \in [Tabs -> Operation] /\ sentinel' \in Key \cup {None}
      BY <1>3, GotoTyped DEF SetupSave, Operation, Pcs
    <2> QED BY <1>3, <2>1 DEF SetupSave, TypeOK, bounds
  <1>4. ASSUME NEW t \in Tabs, SetupInstall(t) \/ UnlockInstall(t) PROVE TypeOK'
    <2>1. op' \in [Tabs -> Operation] /\ activeKey' \in [Tabs -> Key \cup {None}]
      BY <1>4, GotoTyped DEF SetupInstall, UnlockInstall, Operation, TypeOK
    <2> QED BY <1>4, <2>1 DEF SetupInstall, UnlockInstall, TypeOK, bounds
  <1>5. ASSUME NEW t \in Tabs, UnlockRead(t) PROVE TypeOK'
    <2>1. \A o \in Operation, k \in Key : [o EXCEPT !.tgt = k] \in Operation
      BY DEF Operation
    <2>2. op' \in [Tabs -> Operation]
      BY <1>5, <2>1, Constructors DEF UnlockRead, TypeOK, Pcs
    <2> QED BY <1>5, <2>2 DEF UnlockRead, TypeOK, bounds
  <1>6. ASSUME NEW t \in Tabs, LockSession(t) PROVE TypeOK'
    <2>1. op' \in [Tabs -> Operation]
      BY <1>6, GotoTyped DEF LockSession, Pcs
    <2> QED BY <1>6, <2>1 DEF LockSession, TypeOK, bounds
  <1>7. ASSUME NEW t \in Tabs, DisableAdmit(t) PROVE TypeOK'
    <2>1. \A o \in Operation, k \in Key \cup {None} :
            [o EXCEPT !.j.kind = "disable", !.src = k] \in Operation
      <3>1. \A j \in Journal : [j EXCEPT !.kind = "disable"] \in Journal
        BY DEF Journal
      <3> QED BY <3>1 DEF Operation
    <2>2. op' \in [Tabs -> Operation]
      BY <1>7, <2>1, Constructors DEF DisableAdmit, TypeOK, Pcs
    <2> QED BY <1>7, <2>2 DEF DisableAdmit, TypeOK, bounds
  <1>8. ASSUME NEW t \in Tabs, Begin(t) PROVE TypeOK'
    <2>1. ops' \in 0..MaxOps
      BY <1>8 DEF Begin, TypeOK
    <2>2. op[t].j \in Journal
      BY GotoTyped, Constructors
    <2>3. \A n \in 0..MaxOps, j \in Journal :
            [NoJournal EXCEPT !.op = n, !.kind = j.kind, !.phase = "prepared",
                              !.target = j.target] \in Journal
      BY Constructors DEF Journal, Phases
    <2>4. journal' \in Journal
      BY <1>8, <2>1, <2>2, <2>3 DEF Begin
    <2>5. \A o \in Operation, j \in Journal :
            [o EXCEPT !.j = j, !.pc = "claim"] \in Operation
      BY DEF Operation, Pcs
    <2>6. op' \in [Tabs -> Operation]
      BY <1>8, <2>4, <2>5 DEF Begin, TypeOK
    <2> QED BY <1>8, <2>1, <2>4, <2>6 DEF Begin, TypeOK
  <1>9. ASSUME NEW t \in Tabs, BeginRefused(t) PROVE TypeOK'
    BY <1>9, GotoTyped DEF BeginRefused, TypeOK, bounds
  <1>10. ASSUME NEW t \in Tabs, Claim(t) PROVE TypeOK'
    <2> DEFINE j == [Renewed(op[t].j) EXCEPT !.lease = "live"]
    <2>1. j \in Journal
      BY GotoTyped, Constructors, JournalUpdates
    <2>2. \A o \in Operation, r \in Journal, pc \in Pcs :
            [o EXCEPT !.j = r, !.pc = pc] \in Operation
      BY DEF Operation
    <2>3. PICK pc \in Pcs : op' = [op EXCEPT ![t].j = j, ![t].pc = pc]
      BY <1>10 DEF Claim, MigratingPc, Pcs, RunnerPcs
    <2>4. op' \in [Tabs -> Operation]
      BY <2>1, <2>2, <2>3 DEF TypeOK
    <2> QED BY <1>10, <2>1, <2>4 DEF Claim, TypeOK, bounds
  <1>11. ASSUME NEW t \in Tabs, Start(t) \/ EndMigrating(t) \/ EndVerifying(t) \/ Complete(t)
         PROVE  TypeOK'
    <2>1. PICK ph \in Phases, pc \in Pcs :
            SaveAndGoto(t, [op[t].j EXCEPT !.phase = ph], pc)
      BY <1>11 DEF Start, EndMigrating, EndVerifying, Complete, Phases, Pcs,
                   RunnerPcs, CommitPcs, CommitPc
    <2>2. [op[t].j EXCEPT !.phase = ph] \in Journal
      BY GotoTyped, Constructors, JournalUpdates
    <2>3. journal' \in Journal /\ op' \in [Tabs -> Operation]
      BY <2>1, <2>2, SaveTyped
    <2> QED BY <1>11, <2>3 DEF Start, EndMigrating, EndVerifying, Complete, TypeOK, bounds
  <1>12. ASSUME NEW t \in Tabs, MigrateNext(t) PROVE TypeOK'
    <2>1. op' \in [Tabs -> Operation]
      BY <1>12, GotoTyped DEF MigrateNext, Pcs, RunnerPcs
    <2>2. TargetForm(op[t].j) \in Key \cup {Plain}
      BY GotoTyped, Constructors DEF TargetForm, Journal
    <2>3. rec' \in [Stores -> [Records -> Key \cup {Plain}]]
      BY <1>12, <2>2 DEF MigrateNext, TypeOK
    <2> QED BY <1>12, <2>1, <2>3 DEF MigrateNext, TypeOK, bounds
  <1>13. ASSUME NEW t \in Tabs, SaveCheckpoint(t) \/ SaveVerified(t) PROVE TypeOK'
    <2>1. op[t].j \in Journal
      BY GotoTyped, Constructors
    <2>2. PICK j \in Journal, pc \in Pcs : SaveAndGoto(t, j, pc)
      <3>1. CASE SaveCheckpoint(t)
        <4>1. PICK s \in Stores :
                LET j == [op[t].j EXCEPT !.stores[s] = Advanced(@)]
                IN SaveAndGoto(t, j, MigratingPc(j))
          BY <3>1 DEF SaveCheckpoint
        <4>2. \A j : MigratingPc(j) \in Pcs
          BY DEF MigratingPc, Pcs, RunnerPcs
        <4> QED BY <2>1, <4>1, <4>2, JournalUpdates
      <3>2. CASE SaveVerified(t)
        <4> DEFINE s == CHOOSE r \in ToVerify(op[t].j) :
                          \A q \in ToVerify(op[t].j) : r <= q
        <4>1. SaveAndGoto(t, [op[t].j EXCEPT !.stores[s].verified = TRUE], "verify")
          BY <3>2 DEF SaveVerified
        <4>2. [op[t].j EXCEPT !.stores[s].verified = TRUE] \in Journal
          <5> HIDE DEF s
          <5>1. CASE s \in Stores
            BY <2>1, <5>1, JournalUpdates
          <5>2. CASE s \notin Stores
            <6>1. [op[t].j.stores EXCEPT ![s].verified = TRUE] = op[t].j.stores
              BY <2>1, <5>2 DEF Journal
            <6>2. [op[t].j EXCEPT !.stores[s].verified = TRUE]
                    = [op[t].j EXCEPT !.stores = [op[t].j.stores EXCEPT ![s].verified = TRUE]]
              OBVIOUS
            <6> QED BY <2>1, <6>1, <6>2 DEF Journal
          <5> QED BY <5>1, <5>2
        <4> QED BY <4>1, <4>2 DEF Pcs, RunnerPcs
      <3> QED BY <1>13, <3>1, <3>2
    <2>3. journal' \in Journal /\ op' \in [Tabs -> Operation]
      BY <2>2, SaveTyped
    <2> QED BY <1>13, <2>3 DEF SaveCheckpoint, SaveVerified, TypeOK, bounds
  <1>14. ASSUME NEW t \in Tabs, Verify(t) \/ RetireSentinel(t) \/ ClearSalt(t)
                                \/ ReplaceSentinel(t) \/ ClearCompleted(t)
         PROVE  TypeOK'
    <2>1. op' \in [Tabs -> Operation]
      BY <1>14, GotoTyped DEF Verify, RetireSentinel, ClearSalt, ReplaceSentinel,
                              ClearCompleted, Pcs, RunnerPcs, CommitPcs
    <2>2. op[t].tgt \in Key \cup {None}
      BY GotoTyped DEF Operation
    <2> QED BY <1>14, <2>1, <2>2, Constructors
            DEF Verify, RetireSentinel, ClearSalt, ReplaceSentinel, ClearCompleted,
                TypeOK, bounds
  <1>15. ASSUME NEW t \in Tabs, Finish(t) PROVE TypeOK'
    <2>1. op[t].tgt \in Key \cup {None}
      BY GotoTyped DEF Operation
    <2> QED BY <1>15, <2>1, GotoTyped, Constructors DEF Finish, TypeOK, bounds
  <1>16. ASSUME NEW t \in Tabs, Abort(t) PROVE TypeOK'
    <2>1. [Renewed(op[t].j) EXCEPT !.lease = "free"] \in Journal
      BY GotoTyped, Constructors, JournalUpdates
    <2>2. faults' \in 0..MaxFaults
      BY <1>16 DEF Abort, TypeOK
    <2>3. journal' \in Journal
      BY <1>16, <2>1 DEF Abort, TypeOK
    <2> QED BY <1>16, <2>2, <2>3, GotoTyped DEF Abort, TypeOK
  <1>17. ASSUME NEW t \in Tabs, Reload(t) PROVE TypeOK'
    BY <1>17, Constructors DEF Reload, TypeOK, Pcs
  <1>18. ASSUME NEW t \in Tabs, Boot(t) PROVE TypeOK'
    <2>1. op' \in [Tabs -> Operation]
      BY <1>18, GotoTyped DEF Boot, Pcs
    <2> QED BY <1>18, <2>1, Constructors DEF Boot, TypeOK, bounds
  <1>19. ASSUME NEW t \in Tabs,
                WriteBegin(t) \/ SentinelSeen(t) \/ WriteCheck(t)
                \/ \E st \in Stores, k \in Records : WritePut(t, st, k)
         PROVE  TypeOK'
    <2>1. \A k \in Key \cup {None} : [pc |-> "check", key |-> k] \in Writer
      BY DEF Writer
    <2>2. \A w \in Writer : [w EXCEPT !.pc = "put"] \in Writer
      BY DEF Writer
    <2>3. wr[t].key \in Key \cup {None}
      BY DEF TypeOK, Writer
    <2>4. CASE WriteBegin(t)
      BY <2>1, <2>4 DEF WriteBegin, TypeOK, bounds
    <2>5. CASE SentinelSeen(t)
      BY <2>5 DEF SentinelSeen, TypeOK, bounds
    <2>6. CASE WriteCheck(t)
      BY <2>2, <2>6, Constructors DEF WriteCheck, TypeOK, bounds
    <2>7. ASSUME NEW st \in Stores, NEW k \in Records, WritePut(t, st, k)
          PROVE  TypeOK'
      BY <2>3, <2>7, Constructors DEF WritePut, TypeOK, bounds
    <2> QED BY <1>19, <2>4, <2>5, <2>6, <2>7
  <1>20. ASSUME NEW t \in Tabs, NEW sp \in Passes, NEW tp \in Passes, Resume(t, sp, tp)
         PROVE  TypeOK'
    <2>1. modal[t] \in Journal /\ modal[t].target \in Key \cup {None}
      BY DEF TypeOK, Journal
    <2>2. \A pc \in Pcs, j \in Journal, k, r \in Key \cup {None} :
            /\ [pc |-> pc, j |-> j, src |-> k, tgt |-> r] \in Operation
            /\ [At(pc) EXCEPT !.j = j] \in Operation
            /\ [At(pc) EXCEPT !.j = j, !.tgt = r] \in Operation
      BY DEF Operation, At
    <2>3. sentinel \in Key \cup {None} /\ None \in Key \cup {None}
      BY DEF TypeOK
    <2>4. {"claim", "retire", "replace", "complete"} \subseteq Pcs
      BY DEF Pcs, CommitPcs
    <2>5. PICK o \in Operation : op' = [op EXCEPT ![t] = o]
      <3>1. CASE ResumeCommit(t, sp, tp)
        BY <2>1, <2>2, <2>4, <3>1 DEF ResumeCommit
      <3>2. CASE ResumeRun(t, sp, tp)
        BY <2>1, <2>2, <2>3, <2>4, <3>2 DEF ResumeRun
      <3> QED BY <1>20, <3>1, <3>2 DEF Resume
    <2>6. op' \in [Tabs -> Operation]
      BY <2>5 DEF TypeOK
    <2> QED BY <1>20, <2>6 DEF Resume, TypeOK, bounds
  <1> HIDE ConstantsOK
  <1> QED BY <1>0, <1>1, <1>2, <1>3, <1>4, <1>5, <1>6, <1>7, <1>8, <1>9, <1>10,
             <1>11, <1>12, <1>13, <1>14, <1>15, <1>16, <1>17, <1>18, <1>19, <1>20,
             NextCases

\* Every variable keeps the type the code gives it.
THEOREM TypeCorrect == Spec => []TypeOK
  BY TypeInit, TypeStep, PTL DEF Spec

-----------------------------------------------------------------------------
(* Copies of the journal.                                                   *)

\* How the stored journal moves: saved from its current copy, begun, cleared,
\* or touched in its lease only.
Moved(jn, jm, n, m) ==
  \/ jm.op = jn.op /\ jm.rev = jn.rev + 1 /\ m = n
  \/ jm.op = n + 1 /\ m = n + 1
  \/ jm = NoJournal /\ m = n
  \/ jm = jn /\ m = n
  \/ \E l \in {"free", "live", "expired"} : jm = [jn EXCEPT !.lease = l] /\ m = n

\* No move of the stored journal makes a copy wrong.
LEMMA CopyKept ==
  ASSUME NEW jn \in Journal, NEW jm \in Journal, NEW n \in Nat, NEW m \in Nat,
         Moved(jn, jm, n, m), NEW j \in Journal, Copy(j, jn, n)
  PROVE  Copy(j, jm, m)
  <1>1. j.op <= m
    BY DEF Moved, Copy, Journal
  <1>2. CASE jm.op = jn.op /\ jm.rev = jn.rev + 1
    <2>1. j.op = jm.op => j.rev < jm.rev
      BY <1>2 DEF Copy, Agrees, Journal
    <2>2. Agrees(j, jm)
      BY <2>1 DEF Agrees, Journal
    <2> QED BY <1>1, <2>2 DEF Copy
  <1>3. CASE jm.op = n + 1
    <2>1. j.op # jm.op
      BY <1>3 DEF Copy, Journal
    <2>2. Agrees(j, jm)
      BY <2>1 DEF Agrees
    <2> QED BY <1>1, <2>2 DEF Copy
  <1>4. CASE jm = NoJournal
    <2>1. jm.op = 0 /\ jm.rev = 0 /\ jm.phase = "none" /\ jm.stores = FreshStores
      BY <1>4 DEF NoJournal
    <2>2. j.op = 0 => j.rev = 0 /\ j.phase = "none" /\ j.stores = FreshStores
      BY DEF Copy, Sound
    <2>3. Agrees(j, jm)
      BY <2>1, <2>2 DEF Agrees
    <2> QED BY <1>1, <2>3 DEF Copy
  <1>5. CASE jm = jn
    BY <1>1, <1>5 DEF Copy
  <1>6. ASSUME NEW l \in {"free", "live", "expired"}, jm = [jn EXCEPT !.lease = l]
        PROVE  Agrees(j, jm)
    BY <1>6 DEF Copy, Agrees, Journal
  <1> QED BY <1>1, <1>2, <1>3, <1>4, <1>5, <1>6 DEF Moved, Copy

\* So the tabs that stand still keep their invariant.
LEMMA OthersKept ==
  ASSUME TypeOK, TypeOK', JournalInv, Moved(journal, journal', ops, ops'),
         NEW u \in Tabs, op'[u] = op[u], modal'[u] = modal[u]
  PROVE  TabInv(op'[u], modal'[u], journal', ops')
  <1>1. /\ journal \in Journal /\ journal' \in Journal /\ ops \in Nat /\ ops' \in Nat
        /\ op[u].j \in Journal /\ modal[u] \in Journal
    BY DEF TypeOK, Operation
  <1>2. TabInv(op[u], modal[u], journal, ops)
    BY DEF JournalInv
  <1>3. \A j \in Journal : Copy(j, journal, ops) => Copy(j, journal', ops')
    BY <1>1, CopyKept
  <1> QED BY <1>1, <1>2, <1>3 DEF TabInv

\* A renewed journal differs in its revision and its lease only.
LEMMA RenewedFields ==
  ASSUME NEW j \in Journal
  PROVE  /\ Renewed(j).op = j.op /\ Renewed(j).rev = j.rev + 1
         /\ Renewed(j).phase = j.phase /\ Renewed(j).stores = j.stores
         /\ Renewed(j).kind = j.kind /\ Renewed(j).target = j.target
  BY DEF Renewed, Journal

\* What a tab saves makes sense when the copy it started from did.
LEMMA SavesSound ==
  ASSUME NEW j \in Journal, Sound(j), j.op # 0
  PROVE  /\ Sound(Renewed(j))
         /\ \A l \in {"free", "live", "expired"} : Sound([Renewed(j) EXCEPT !.lease = l])
         /\ Sound([j EXCEPT !.phase = "migrating"])
         /\ AllDone(j) => \A p \in LatePhases : Sound([j EXCEPT !.phase = p])
         /\ j.phase = "migrating" =>
              \A s \in Stores : Sound([j EXCEPT !.stores[s] = Advanced(@)])
         /\ j.phase = "verifying" =>
              \A s \in Stores : Sound([j EXCEPT !.stores[s].verified = TRUE])
  <1>1. Sound(Renewed(j))
    BY RenewedFields, Constructors DEF Sound, AllDone, Journal
  <1>2. ASSUME NEW l \in {"free", "live", "expired"}
        PROVE  Sound([Renewed(j) EXCEPT !.lease = l])
    <2> DEFINE r == Renewed(j)
    <2>1. r \in Journal
      BY Constructors
    <2> HIDE DEF r
    <2>2. /\ [r EXCEPT !.lease = l].op = r.op /\ [r EXCEPT !.lease = l].rev = r.rev
          /\ [r EXCEPT !.lease = l].phase = r.phase
          /\ [r EXCEPT !.lease = l].stores = r.stores
      BY <2>1 DEF Journal
    <2> QED BY <1>1, <2>2 DEF Sound, AllDone, r
  <1>3. \A p \in Phases : /\ [j EXCEPT !.phase = p].op = j.op
                          /\ [j EXCEPT !.phase = p].rev = j.rev
                          /\ [j EXCEPT !.phase = p].phase = p
                          /\ [j EXCEPT !.phase = p].stores = j.stores
    BY DEF Journal
  <1>4. Sound([j EXCEPT !.phase = "migrating"])
    BY <1>3 DEF Sound, AllDone, LatePhases, Phases
  <1>5. ASSUME AllDone(j), NEW p \in LatePhases PROVE Sound([j EXCEPT !.phase = p])
    BY <1>3, <1>5 DEF Sound, AllDone, LatePhases, Phases
  <1>6. \A st \in [Stores -> Checkpoint] :
          /\ [j EXCEPT !.stores = st].op = j.op /\ [j EXCEPT !.stores = st].rev = j.rev
          /\ [j EXCEPT !.stores = st].phase = j.phase
          /\ [j EXCEPT !.stores = st].stores = st
    BY DEF Journal
  <1>7. ASSUME j.phase = "migrating", NEW s \in Stores
        PROVE  Sound([j EXCEPT !.stores[s] = Advanced(@)])
    <2> DEFINE st == [j.stores EXCEPT ![s] = Advanced(@)]
    <2>1. [j EXCEPT !.stores[s] = Advanced(@)] = [j EXCEPT !.stores = st]
      OBVIOUS
    <2>2. [j EXCEPT !.stores[s] = Advanced(@)] \in Journal
      BY JournalUpdates
    <2>3. j.stores \in [Stores -> Checkpoint]
      BY DEF Journal
    <2>4. [j EXCEPT !.stores = st] \in Journal /\ [j EXCEPT !.stores = st].stores = st
      BY <2>1, <2>2 DEF Journal
    <2>5. st \in [Stores -> Checkpoint]
      BY <2>4 DEF Journal
    <2>6. Advanced(j.stores[s]).done => Advanced(j.stores[s]).cursor = NRecords
      <3> DEFINE c == j.stores[s]
      <3>1. c \in Checkpoint
        BY <2>3
      <3> HIDE DEF c
      <3>2. Advanced(c).done = (NRecords - c.cursor < BatchSize)
        BY <3>1 DEF Advanced, Checkpoint
      <3>3. Advanced(c).cursor = IF c.cursor + BatchSize < NRecords
                                 THEN c.cursor + BatchSize ELSE NRecords
        BY <3>1 DEF Advanced, Checkpoint
      <3>4. c.cursor \in 0..NRecords
        BY <3>1 DEF Checkpoint
      <3>5. NRecords - c.cursor < BatchSize => Advanced(c).cursor = NRecords
        BY <3>3, <3>4, ConstantsOK
      <3> QED BY <3>2, <3>5 DEF c
    <2>7. \A r \in Stores : st[r] = IF r = s THEN Advanced(j.stores[s]) ELSE j.stores[r]
      BY <2>3
    <2>8. \A r \in Stores : st[r].done => st[r].cursor = NRecords
      BY <2>6, <2>7 DEF Sound
    <2> HIDE DEF st
    <2> QED BY <1>6, <1>7, <2>1, <2>5, <2>8 DEF Sound, LatePhases
  <1>8. ASSUME j.phase = "verifying", NEW s \in Stores
        PROVE  Sound([j EXCEPT !.stores[s].verified = TRUE])
    <2> DEFINE st == [j.stores EXCEPT ![s].verified = TRUE]
    <2>1. [j EXCEPT !.stores[s].verified = TRUE] = [j EXCEPT !.stores = st]
      OBVIOUS
    <2>2. j.stores \in [Stores -> Checkpoint]
      BY DEF Journal
    <2>3. /\ st \in [Stores -> Checkpoint]
          /\ \A r \in Stores : st[r].done = j.stores[r].done
                               /\ st[r].cursor = j.stores[r].cursor
      BY <2>2 DEF Checkpoint
    <2>4. AllDone(j)
      BY <1>8 DEF Sound, LatePhases
    <2> HIDE DEF st
    <2> QED BY <1>6, <1>8, <2>1, <2>3, <2>4 DEF Sound, AllDone, LatePhases
  <1> QED BY <1>1, <1>2, <1>4, <1>5, <1>7, <1>8

\* The empty journal is a copy of whatever is stored, whatever kind and target
\* an operation notes in it before it begins.
LEMMA EmptyCopy ==
  ASSUME NEW jn \in Journal, NEW n \in Nat, Copy(jn, jn, n)
  PROVE  /\ Copy(NoJournal, jn, n)
         /\ \A j \in Journal : j.op = 0 /\ j.rev = 0 /\ j.phase = "none" /\ j.stores = FreshStores
                                 => Copy(j, jn, n)
  <1>1. \A j \in Journal : j.op = 0 /\ j.rev = 0 /\ j.phase = "none" /\ j.stores = FreshStores
                                 => Copy(j, jn, n)
    BY DEF Copy, Sound, Agrees, FreshStores, LatePhases, Journal
  <1> QED BY <1>1, Constructors DEF NoJournal

\* A step of tab t that stores the next revision keeps the invariant, when t
\* keeps what it stored at a step it fits, or stops.
LEMMA StoreKept ==
  ASSUME TypeOK, TypeOK', JournalInv, NEW t \in Tabs,
         journal'.op = journal.op, journal'.rev = journal.rev + 1, Sound(journal'),
         ops' = ops, modal' = modal, \A u \in Tabs \ {t} : op'[u] = op[u],
         \/ /\ op'[t].j = journal' /\ journal'.phase \in PhaseAt(op'[t].pc)
            /\ op'[t].pc = "converted" => AllDone(journal')
         \/ op'[t] = Idle
  PROVE  JournalInv'
  <1>1. /\ journal \in Journal /\ journal' \in Journal /\ ops \in Nat /\ ops' \in Nat
        /\ modal \in [Tabs -> Journal]
    BY DEF TypeOK
  <1>2. Moved(journal, journal', ops, ops')
    BY DEF Moved
  <1>3. Copy(journal', journal', ops')
    <2>1. journal'.op <= ops' /\ journal'.rev <= journal'.rev
      BY <1>1 DEF JournalInv, Copy, Journal
    <2> QED BY <2>1 DEF Copy, Agrees
  <1>4. Copy(modal[t], journal', ops') /\ modal[t].phase # "completed"
    BY <1>1, <1>2, CopyKept DEF JournalInv, TabInv
  <1>5. Copy(NoJournal, journal', ops')
    BY <1>1, <1>3, EmptyCopy
  <1>6. Idle.j = NoJournal /\ NoJournal.phase \in PhaseAt(Idle.pc) /\ Idle.pc # "converted"
    BY DEF Idle, At, NoJournal, PhaseAt
  <1>7. TabInv(op'[t], modal'[t], journal', ops')
    BY <1>3, <1>4, <1>5, <1>6 DEF TabInv
  <1>8. \A u \in Tabs \ {t} : TabInv(op'[u], modal'[u], journal', ops')
    BY <1>2, OthersKept
  <1> QED BY <1>3, <1>7, <1>8 DEF JournalInv

\* In particular a compare-and-swap that saves j and keeps the saved copy.
LEMMA SaveKept ==
  ASSUME TypeOK, TypeOK', JournalInv, NEW t \in Tabs, NEW j \in Journal, NEW pc \in Pcs,
         journal.op = j.op, journal.rev = j.rev, Sound(j), j.op # 0,
         SaveAndGoto(t, j, pc), ops' = ops, modal' = modal,
         j.phase \in PhaseAt(pc), pc = "converted" => AllDone(j)
  PROVE  JournalInv'
  <1>1. /\ journal' = Renewed(j) /\ op'[t].j = journal' /\ op'[t].pc = pc
        /\ \A u \in Tabs \ {t} : op'[u] = op[u]
    BY DEF SaveAndGoto, TypeOK, Operation
  <1>2. journal'.op = journal.op /\ journal'.rev = journal.rev + 1 /\ Sound(journal')
    BY <1>1, RenewedFields, SavesSound
  <1>3. journal'.phase = j.phase /\ journal'.stores = j.stores
    BY <1>1, RenewedFields
  <1>4. pc = "converted" => AllDone(journal')
    BY <1>3 DEF AllDone
  <1> QED BY <1>1, <1>2, <1>3, <1>4, StoreKept

\* A step of tab t that leaves the stored journal alone.
LEMMA QuietKept ==
  ASSUME TypeOK, TypeOK', JournalInv, NEW t \in Tabs, journal' = journal, ops' = ops,
         \A u \in Tabs \ {t} : op'[u] = op[u] /\ modal'[u] = modal[u],
         TabInv(op'[t], modal'[t], journal, ops)
  PROVE  JournalInv'
  <1>1. \A u \in Tabs \ {t} : TabInv(op'[u], modal'[u], journal', ops')
    BY OthersKept DEF Moved
  <1> QED BY <1>1 DEF JournalInv

\* A step that only moves the operation of t on, keeping its journal copy.
LEMMA GotoKept ==
  ASSUME TypeOK, TypeOK', JournalInv, NEW t \in Tabs, NEW pc \in Pcs, Goto(t, pc),
         journal' = journal, ops' = ops, modal' = modal,
         PhaseAt(op[t].pc) \subseteq PhaseAt(pc), pc # "converted"
  PROVE  JournalInv'
  <1>1. op'[t].j = op[t].j /\ op'[t].pc = pc
    BY DEF Goto, TypeOK, Operation
  <1>2. TabInv(op'[t], modal'[t], journal, ops)
    BY <1>1 DEF JournalInv, TabInv
  <1>3. \A u \in Tabs \ {t} : op'[u] = op[u] /\ modal'[u] = modal[u]
    BY DEF Goto, TypeOK
  <1> QED BY <1>2, <1>3, QuietKept

\* A step that ends the operation of t or starts one without a journal.
LEMMA FreshKept ==
  ASSUME TypeOK, TypeOK', JournalInv, NEW t \in Tabs, NEW o \in Operation,
         op' = [op EXCEPT ![t] = o], journal' = journal, ops' = ops,
         \A u \in Tabs \ {t} : modal'[u] = modal[u],
         modal'[t] \in {modal[t], NoJournal} \/ (modal'[t] = journal /\ Active(journal)),
         o.j.op = 0, o.j.rev = 0, o.j.phase = "none", o.j.stores = FreshStores,
         PhaseAt(o.pc) = {"none"}, o.pc # "converted"
  PROVE  JournalInv'
  <1>1. journal \in Journal /\ ops \in Nat /\ o.j \in Journal /\ Copy(journal, journal, ops)
    BY DEF TypeOK, Operation, JournalInv
  <1>2. Copy(o.j, journal, ops) /\ Copy(NoJournal, journal, ops)
    BY <1>1, EmptyCopy
  <1>3. Copy(modal'[t], journal, ops) /\ modal'[t].phase # "completed"
    BY <1>1, <1>2 DEF JournalInv, TabInv, Active, NoJournal
  <1>4. op'[t] = o
    BY DEF TypeOK
  <1>5. TabInv(op'[t], modal'[t], journal, ops)
    BY <1>2, <1>3, <1>4 DEF TabInv
  <1>6. \A u \in Tabs \ {t} : op'[u] = op[u] /\ modal'[u] = modal[u]
    BY DEF TypeOK
  <1> QED BY <1>5, <1>6, QuietKept

LEMMA JournalInit == Init => JournalInv
  <1> SUFFICES ASSUME Init PROVE JournalInv
    OBVIOUS
  <1>1. Copy(NoJournal, NoJournal, 0)
    BY DEF Copy, Sound, Agrees, NoJournal, FreshStores, LatePhases
  <1>2. Idle.j = NoJournal /\ Idle.pc = "idle" /\ NoJournal.phase = "none"
    BY DEF Idle, At, NoJournal
  <1>3. "none" \in PhaseAt("idle")
    BY DEF PhaseAt
  <1> QED BY <1>1, <1>2, <1>3 DEF Init, JournalInv, TabInv

\* A runner's copy is in a phase of the run.
LEMMA RunnerPhases ==
  ASSUME NEW pc \in RunnerPcs
  PROVE  \/ pc = "start" /\ PhaseAt(pc) = {"prepared"}
         \/ pc \in {"batch", "checkpoint", "converted"} /\ PhaseAt(pc) = {"migrating"}
         \/ pc \in {"verify", "verified"} /\ PhaseAt(pc) = {"verifying"}
  <1>1. CASE pc = "start"
    BY <1>1 DEF PhaseAt
  <1>2. CASE pc \in {"batch", "checkpoint", "converted"}
    BY <1>2 DEF PhaseAt
  <1>3. CASE pc \in {"verify", "verified"}
    BY <1>3 DEF PhaseAt
  <1> QED
    <2>1. pc \in {"start", "batch", "checkpoint", "converted", "verify", "verified"}
      BY DEF RunnerPcs
    <2> QED BY <1>1, <1>2, <1>3, <2>1

LEMMA JournalStep == TypeOK /\ TypeOK' /\ JournalInv /\ [Next]_vars => JournalInv'
  <1> SUFFICES ASSUME TypeOK, TypeOK', JournalInv, [Next]_vars PROVE JournalInv'
    OBVIOUS
  <1>a. /\ journal \in Journal /\ journal' \in Journal /\ ops \in Nat /\ ops' \in Nat
        /\ op \in [Tabs -> Operation] /\ modal \in [Tabs -> Journal]
    BY DEF TypeOK
  <1>b. \A t \in Tabs : /\ op[t] \in Operation /\ op[t].j \in Journal /\ op[t].pc \in Pcs
                        /\ Sound(op[t].j) /\ op[t].j.phase \in PhaseAt(op[t].pc)
    BY <1>a, Constructors DEF JournalInv, TabInv, Copy
  <1>c. /\ NoJournal.op = 0 /\ NoJournal.rev = 0 /\ NoJournal.phase = "none"
        /\ NoJournal.stores = FreshStores
    BY DEF NoJournal
  <1>0. CASE UNCHANGED vars
    BY <1>0 DEF vars, JournalInv
  <1>1. CASE LeaseExpires
    <2>1. Moved(journal, journal', ops, ops')
      BY <1>1 DEF LeaseExpires, bounds, Moved
    <2>2. \A u \in Tabs : TabInv(op'[u], modal'[u], journal', ops')
      BY <1>1, <2>1, OthersKept DEF LeaseExpires
    <2>3. /\ journal'.op = journal.op /\ journal'.rev = journal.rev
          /\ journal'.phase = journal.phase /\ journal'.stores = journal.stores
      BY <1>1, <1>a DEF LeaseExpires, Journal
    <2>4. Sound(journal') /\ journal'.op <= ops' /\ journal'.rev <= journal'.rev
      BY <1>1, <1>a, <2>3 DEF LeaseExpires, bounds, JournalInv, Copy, Sound, AllDone, Journal
    <2>5. Copy(journal', journal', ops')
      BY <2>4 DEF Copy, Agrees
    <2> QED BY <2>2, <2>5 DEF JournalInv
  <1>2. ASSUME NEW t \in Tabs,
               \/ \E p \in Passes : SetupAdmit(t, p) \/ RotateAdmit(t, p)
               \/ DisableAdmit(t)
        PROVE  JournalInv'
    <2> DEFINE o == op'[t]
    <2>1. /\ o \in Operation /\ op' = [op EXCEPT ![t] = o]
          /\ journal' = journal /\ ops' = ops /\ modal' = modal
      BY <1>2, <1>a DEF SetupAdmit, RotateAdmit, DisableAdmit, bounds, TypeOK
    <2>2. /\ o.j.op = 0 /\ o.j.rev = 0 /\ o.j.phase = "none" /\ o.j.stores = FreshStores
          /\ o.pc \in {"saveSentinel", "begin"}
      <3>1. CASE \E p \in Passes : SetupAdmit(t, p)
        BY <1>a, <1>c, <3>1 DEF SetupAdmit, At
      <3>2. CASE \E p \in Passes : RotateAdmit(t, p)
        BY <1>a, <3>2 DEF RotateAdmit, At, NoJournal
      <3>3. CASE DisableAdmit(t)
        BY <1>a, <3>3 DEF DisableAdmit, At, NoJournal
      <3> QED BY <1>2, <3>1, <3>2, <3>3
    <2>3. PhaseAt(o.pc) = {"none"} /\ o.pc # "converted"
      BY <2>2 DEF PhaseAt
    <2> HIDE DEF o
    <2> QED BY <2>1, <2>2, <2>3, FreshKept
  <1>3. ASSUME NEW t \in Tabs,
               SetupSave(t) \/ LockSession(t) \/ Verify(t) \/ MigrateNext(t)
               \/ RetireSentinel(t) \/ ClearSalt(t) \/ ReplaceSentinel(t)
        PROVE  JournalInv'
    <2>1. PICK pc \in Pcs : /\ Goto(t, pc) /\ pc # "converted"
                            /\ PhaseAt(op[t].pc) \subseteq PhaseAt(pc)
      <3>1. /\ PhaseAt("saveSentinel") = PhaseAt("install")
            /\ PhaseAt("idle") = PhaseAt("prompt")
            /\ PhaseAt("verify") = PhaseAt("verified")
            /\ PhaseAt("batch") = PhaseAt("checkpoint")
            /\ PhaseAt("retire") = PhaseAt("clearSalt")
            /\ PhaseAt("clearSalt") = PhaseAt("complete")
            /\ PhaseAt("replace") = PhaseAt("complete")
        BY DEF PhaseAt
      <3>2. {"install", "prompt", "verified", "checkpoint", "clearSalt", "complete"}
              \subseteq Pcs
        BY DEF Pcs, RunnerPcs, CommitPcs
      <3> QED BY <1>3, <3>1, <3>2
              DEF SetupSave, LockSession, Free, Verify, MigrateNext, RetireSentinel,
                  ClearSalt, ReplaceSentinel, Is
    <2>2. journal' = journal /\ ops' = ops /\ modal' = modal
      BY <1>3 DEF SetupSave, LockSession, Verify, MigrateNext, RetireSentinel,
                  ClearSalt, ReplaceSentinel, bounds
    <2> QED BY <2>1, <2>2, GotoKept
  <1>4. ASSUME NEW t \in Tabs,
               SetupInstall(t) \/ UnlockInstall(t) \/ BeginRefused(t) \/ Finish(t)
        PROVE  JournalInv'
    <2>1. /\ op' = [op EXCEPT ![t] = Idle] /\ journal' = journal /\ ops' = ops
          /\ modal' = [modal EXCEPT ![t] = NoJournal] \/ modal' = modal
      BY <1>4 DEF SetupInstall, UnlockInstall, BeginRefused, Finish, Quit, bounds
    <2>2. /\ Idle \in Operation /\ Idle.j = NoJournal /\ PhaseAt(Idle.pc) = {"none"}
          /\ Idle.pc # "converted"
      BY Constructors DEF Idle, At, PhaseAt
    <2>3. /\ modal'[t] \in {modal[t], NoJournal}
          /\ \A u \in Tabs \ {t} : modal'[u] = modal[u]
      BY <1>a, <2>1
    <2> QED BY <1>c, <2>1, <2>2, <2>3, FreshKept
  <1>5. ASSUME NEW t \in Tabs, UnlockRead(t) \/ Reload(t) \/ Boot(t)
        PROVE  JournalInv'
    <2> DEFINE o == op'[t]
    <2>1. /\ o \in Operation /\ op' = [op EXCEPT ![t] = o]
          /\ journal' = journal /\ ops' = ops
          /\ modal'[t] \in {modal[t], NoJournal} \/ (modal'[t] = journal /\ Active(journal))
          /\ \A u \in Tabs \ {t} : modal'[u] = modal[u]
      BY <1>5, <1>a DEF UnlockRead, Reload, Boot, Goto, bounds, TypeOK
    <2>2. /\ o.j.op = 0 /\ o.j.rev = 0 /\ o.j.phase = "none" /\ o.j.stores = FreshStores
          /\ o.pc \in {"unlock", "boot", "prompt", "idle"}
      <3>1. CASE UnlockRead(t) \/ Reload(t)
        BY <3>1, <1>a, <1>c DEF UnlockRead, Reload, At
      <3>2. CASE Boot(t)
        <4>1. o.j = op[t].j /\ o.pc \in {"prompt", "idle"}
          BY <3>2, <1>a, <1>b DEF Boot, Goto, Operation
        <4>2. PhaseAt(op[t].pc) = {"none"}
          BY <3>2 DEF Boot, Is, PhaseAt
        <4> QED BY <4>1, <4>2, <1>b DEF Sound
      <3> QED BY <1>5, <3>1, <3>2
    <2>3. PhaseAt(o.pc) = {"none"} /\ o.pc # "converted"
      BY <2>2 DEF PhaseAt
    <2> HIDE DEF o
    <2> QED BY <2>1, <2>2, <2>3, FreshKept
  <1>6. ASSUME NEW t \in Tabs, Begin(t) PROVE JournalInv'
    <2>1. /\ ops' = ops + 1 /\ journal'.op = ops' /\ journal'.rev = 0
          /\ journal'.phase = "prepared" /\ journal'.stores = FreshStores
          /\ op'[t].j = journal' /\ op'[t].pc = "claim" /\ modal' = modal
          /\ \A u \in Tabs \ {t} : op'[u] = op[u]
      BY <1>6, <1>a, <1>b DEF Begin, NoJournal, Operation
    <2>2. Moved(journal, journal', ops, ops')
      BY <2>1 DEF Moved
    <2>3. Sound(journal')
      BY <1>a, <2>1 DEF Sound, FreshStores, LatePhases
    <2>4. Copy(journal', journal', ops')
      BY <1>a, <2>1, <2>3 DEF Copy, Agrees
    <2>5. Copy(modal[t], journal', ops') /\ modal[t].phase # "completed"
      BY <1>a, <2>2, CopyKept DEF JournalInv, TabInv
    <2>6. journal'.phase \in PhaseAt("claim")
      BY <2>1 DEF PhaseAt
    <2>7. TabInv(op'[t], modal'[t], journal', ops')
      BY <2>1, <2>4, <2>5, <2>6 DEF TabInv
    <2>8. \A u \in Tabs \ {t} : TabInv(op'[u], modal'[u], journal', ops')
      BY <2>1, <2>2, OthersKept
    <2> QED BY <2>4, <2>7, <2>8 DEF JournalInv
  <1>7. ASSUME NEW t \in Tabs, Claim(t) PROVE JournalInv'
    <2> DEFINE j == op[t].j
               r == Renewed(j)
    <2>1. /\ j \in Journal /\ Sound(j) /\ j.phase \in {"prepared", "migrating", "verifying"}
          /\ journal.op = j.op /\ journal.rev = j.rev
      BY <1>7, <1>b DEF Claim, Is, Current, PhaseAt
    <2>2. j.op # 0
      BY <2>1 DEF Sound
    <2>3. /\ r \in Journal /\ r.op = j.op /\ r.rev = j.rev + 1 /\ r.phase = j.phase
          /\ r.stores = j.stores /\ Sound([r EXCEPT !.lease = "live"])
      BY <2>1, <2>2, Constructors, RenewedFields, SavesSound
    <2>4. /\ journal' = [r EXCEPT !.lease = "live"] /\ op'[t].j = journal'
          /\ op'[t].pc = CASE journal'.phase = "prepared"  -> "start"
                           [] journal'.phase = "migrating" -> MigratingPc(journal')
                           [] OTHER                        -> "verify"
          /\ ops' = ops /\ modal' = modal /\ \A u \in Tabs \ {t} : op'[u] = op[u]
      BY <1>7, <1>a, <1>b DEF Claim, bounds, Operation
    <2> HIDE DEF j, r
    <2>5. /\ journal'.op = journal.op /\ journal'.rev = journal.rev + 1
          /\ journal'.phase = j.phase
      BY <2>1, <2>3, <2>4 DEF Journal
    <2>6. journal'.phase \in PhaseAt(op'[t].pc)
      BY <2>1, <2>4, <2>5 DEF MigratingPc, PhaseAt
    <2>7. op'[t].pc = "converted" => AllDone(journal')
      BY <2>1, <2>4, <2>5 DEF MigratingPc, AllDone
    <2> QED BY <2>3, <2>4, <2>5, <2>6, <2>7, StoreKept
  <1>8. ASSUME NEW t \in Tabs,
               Start(t) \/ EndMigrating(t) \/ EndVerifying(t) \/ Complete(t)
               \/ SaveCheckpoint(t) \/ SaveVerified(t)
        PROVE  JournalInv'
    <2> DEFINE j == op[t].j
    <2>1. j \in Journal /\ Sound(j) /\ j.phase \in PhaseAt(op[t].pc) /\ TabInv(op[t], modal[t], journal, ops)
      BY <1>b DEF JournalInv
    <2>2. /\ journal.op = j.op /\ journal.rev = j.rev /\ ops' = ops /\ modal' = modal
      BY <1>8 DEF Start, EndMigrating, EndVerifying, Complete, SaveCheckpoint,
                  SaveVerified, CanSave, Current, bounds
    <2>3. j.op # 0
      BY <1>8, <2>1 DEF Start, EndMigrating, EndVerifying, Complete, SaveCheckpoint,
                        SaveVerified, Is, Sound, PhaseAt
    <2>4. \A p \in Phases : /\ [j EXCEPT !.phase = p] \in Journal
                            /\ [j EXCEPT !.phase = p].op = j.op
                            /\ [j EXCEPT !.phase = p].rev = j.rev
                            /\ [j EXCEPT !.phase = p].phase = p
      BY <2>1, JournalUpdates DEF Journal
    <2> HIDE DEF j
    <2>5. CASE Start(t)
      <3>1. SaveAndGoto(t, [j EXCEPT !.phase = "migrating"], "batch")
        BY <2>5 DEF Start, j
      <3>2. Sound([j EXCEPT !.phase = "migrating"])
        BY <2>1, <2>3, SavesSound
      <3>3. "batch" \in Pcs /\ "migrating" \in PhaseAt("batch") /\ "migrating" \in Phases
        BY DEF Pcs, RunnerPcs, PhaseAt, Phases
      <3> QED BY <2>2, <2>3, <2>4, <3>1, <3>2, <3>3, SaveKept
    <2>6. CASE EndMigrating(t) \/ EndVerifying(t) \/ Complete(t)
      <3>1. AllDone(j)
        BY <2>1, <2>6 DEF EndMigrating, EndVerifying, Complete, Is, TabInv, Sound, PhaseAt,
                          LatePhases, j
      <3>2. PICK p \in LatePhases, pc \in Pcs :
              /\ SaveAndGoto(t, [j EXCEPT !.phase = p], pc)
              /\ p \in PhaseAt(pc) /\ pc # "converted"
        BY <2>6 DEF EndMigrating, EndVerifying, Complete, LatePhases, CommitPc, PhaseAt,
                    Pcs, RunnerPcs, CommitPcs, j
      <3>3. Sound([j EXCEPT !.phase = p]) /\ p \in Phases
        BY <2>1, <2>3, <3>1, SavesSound DEF LatePhases, Phases
      <3> QED BY <2>2, <2>3, <2>4, <3>2, <3>3, SaveKept
    <2>7. CASE SaveCheckpoint(t)
      <3>1. PICK s \in Stores :
              LET k == [j EXCEPT !.stores[s] = Advanced(@)]
              IN SaveAndGoto(t, k, MigratingPc(k))
        BY <2>7 DEF SaveCheckpoint, j
      <3> DEFINE k == [j EXCEPT !.stores[s] = Advanced(@)]
      <3>2. j.phase = "migrating"
        BY <2>1, <2>7 DEF SaveCheckpoint, Is, PhaseAt, j
      <3>3. /\ k \in Journal /\ Sound(k) /\ k.op = j.op /\ k.rev = j.rev
            /\ k.phase = "migrating"
        BY <2>1, <2>3, <3>2, JournalUpdates, SavesSound DEF Journal
      <3>4. SaveAndGoto(t, k, MigratingPc(k))
        BY <3>1
      <3> HIDE DEF k
      <3>5. /\ MigratingPc(k) \in Pcs /\ "migrating" \in PhaseAt(MigratingPc(k))
            /\ MigratingPc(k) = "converted" => AllDone(k)
        BY DEF MigratingPc, Pcs, RunnerPcs, PhaseAt, AllDone
      <3> QED BY <2>2, <2>3, <3>3, <3>4, <3>5, SaveKept
    <2>8. CASE SaveVerified(t)
      <3> DEFINE s == CHOOSE r \in ToVerify(j) : \A q \in ToVerify(j) : r <= q
                 k == [j EXCEPT !.stores[s].verified = TRUE]
      <3>1. SaveAndGoto(t, k, "verify")
        BY <2>8 DEF SaveVerified, j
      <3>2. j.phase = "verifying"
        BY <2>1, <2>8 DEF SaveVerified, Is, PhaseAt, j
      <3> HIDE DEF s
      <3>3. k \in Journal /\ Sound(k)
        <4>1. CASE s \in Stores
          BY <2>1, <2>3, <3>2, <4>1, JournalUpdates, SavesSound
        <4>2. CASE s \notin Stores
          <5>1. [j.stores EXCEPT ![s].verified = TRUE] = j.stores
            BY <2>1, <4>2 DEF Journal
          <5>2. k = [j EXCEPT !.stores = [j.stores EXCEPT ![s].verified = TRUE]]
            OBVIOUS
          <5>3. k = j
            BY <2>1, <5>1, <5>2 DEF Journal
          <5> QED BY <2>1, <5>3
        <4> QED BY <4>1, <4>2
      <3>4. k.op = j.op /\ k.rev = j.rev /\ k.phase = "verifying"
        BY <2>1, <3>2 DEF Journal
      <3>5. "verify" \in Pcs /\ "verifying" \in PhaseAt("verify")
        BY DEF Pcs, RunnerPcs, PhaseAt
      <3> HIDE DEF k
      <3> QED BY <2>2, <2>3, <3>1, <3>3, <3>4, <3>5, SaveKept
    <2> QED BY <1>8, <2>5, <2>6, <2>7, <2>8
  <1>9. ASSUME NEW t \in Tabs, ClearCompleted(t) PROVE JournalInv'
    <2>1. /\ journal' = NoJournal /\ ops' = ops /\ modal' = modal
          /\ op'[t].j = op[t].j /\ op'[t].pc = "finish" /\ op[t].pc = "clear"
          /\ \A u \in Tabs \ {t} : op'[u] = op[u]
      BY <1>9, <1>a, <1>b DEF ClearCompleted, Goto, Is, bounds, Operation
    <2>2. Moved(journal, journal', ops, ops')
      BY <2>1 DEF Moved
    <2>3. Copy(journal', journal', ops')
      BY <1>a, <2>1 DEF Copy, Agrees, Sound, NoJournal, FreshStores, LatePhases
    <2>4. /\ Copy(modal[t], journal', ops') /\ modal[t].phase # "completed"
          /\ Copy(op[t].j, journal', ops')
      BY <1>a, <1>b, <2>2, CopyKept DEF JournalInv, TabInv
    <2>5. op[t].j.phase \in PhaseAt("finish")
      BY <1>b, <2>1 DEF PhaseAt
    <2>6. TabInv(op'[t], modal'[t], journal', ops')
      BY <2>1, <2>4, <2>5 DEF TabInv
    <2>7. \A u \in Tabs \ {t} : TabInv(op'[u], modal'[u], journal', ops')
      BY <2>1, <2>2, OthersKept
    <2> QED BY <2>3, <2>6, <2>7 DEF JournalInv
  <1>10. ASSUME NEW t \in Tabs, Abort(t) PROVE JournalInv'
    <2>1. /\ op' = [op EXCEPT ![t] = Idle] /\ ops' = ops /\ modal' = modal
      BY <1>10 DEF Abort, Quit
    <2>2. CASE journal' = journal
      <3>1. /\ Idle \in Operation /\ Idle.j = NoJournal /\ PhaseAt(Idle.pc) = {"none"}
            /\ Idle.pc # "converted"
        BY Constructors DEF Idle, At, PhaseAt
      <3> QED BY <1>c, <2>1, <2>2, <3>1, FreshKept
    <2>3. CASE op[t].pc \in RunnerPcs /\ Current(op[t].j)
               /\ journal' = [Renewed(op[t].j) EXCEPT !.lease = "free"]
      <3> DEFINE j == op[t].j
                 r == Renewed(j)
      <3>1. j \in Journal /\ Sound(j) /\ j.phase # "none" /\ journal.op = j.op /\ journal.rev = j.rev
        BY <1>b, <2>3, RunnerPhases DEF Current
      <3>2. j.op # 0
        BY <3>1 DEF Sound
      <3>3. /\ r \in Journal /\ r.op = j.op /\ r.rev = j.rev + 1
            /\ Sound([r EXCEPT !.lease = "free"])
        BY <3>1, <3>2, Constructors, RenewedFields, SavesSound
      <3>4. journal' = [r EXCEPT !.lease = "free"]
        BY <2>3
      <3> HIDE DEF j, r
      <3>5. journal'.op = journal.op /\ journal'.rev = journal.rev + 1 /\ Sound(journal')
        BY <3>1, <3>3, <3>4 DEF Journal
      <3>6. op'[t] = Idle /\ \A u \in Tabs \ {t} : op'[u] = op[u]
        BY <1>a, <2>1
      <3> QED BY <2>1, <3>5, <3>6, StoreKept
    <2> QED BY <1>10, <2>2, <2>3 DEF Abort
  <1>11. ASSUME NEW t \in Tabs,
                WriteBegin(t) \/ SentinelSeen(t) \/ WriteCheck(t)
                \/ \E st \in Stores, k \in Records : WritePut(t, st, k)
         PROVE  JournalInv'
    <2>1. journal' = journal /\ ops' = ops /\ op' = op /\ modal' = modal
      BY <1>11 DEF WriteBegin, SentinelSeen, WriteCheck, WritePut, bounds
    <2> QED BY <2>1 DEF JournalInv
  <1>12. ASSUME NEW t \in Tabs, NEW sp \in Passes, NEW tp \in Passes, Resume(t, sp, tp)
         PROVE  JournalInv'
    <2>1. journal' = journal /\ ops' = ops /\ modal' = modal
      BY <1>12 DEF Resume, bounds
    <2>2. /\ op'[t].j = modal[t] /\ \A u \in Tabs \ {t} : op'[u] = op[u]
          /\ \/ modal[t].phase = "committing" /\ op'[t].pc \in {"complete", "retire", "replace"}
             \/ modal[t].phase \notin {"none", "committing"} /\ op'[t].pc = "claim"
      <3>1. CASE ResumeCommit(t, sp, tp)
        BY <3>1, <1>a DEF ResumeCommit, At
      <3>2. CASE ResumeRun(t, sp, tp)
        BY <3>2, <1>a DEF ResumeRun
      <3> QED BY <1>12, <3>1, <3>2 DEF Resume
    <2>3. Copy(modal[t], journal, ops) /\ modal[t].phase # "completed"
      BY DEF JournalInv, TabInv
    <2>4. modal[t].phase \in PhaseAt(op'[t].pc) /\ op'[t].pc # "converted"
      BY <1>a, <2>2, <2>3 DEF PhaseAt, Journal, Phases
    <2>5. TabInv(op'[t], modal'[t], journal, ops)
      BY <2>1, <2>2, <2>3, <2>4 DEF TabInv
    <2> QED BY <2>1, <2>2, <2>5, QuietKept
  <1> QED BY <1>0, <1>1, <1>2, <1>3, <1>4, <1>5, <1>6, <1>7, <1>8, <1>9, <1>10, <1>11,
             <1>12, NextCases

-----------------------------------------------------------------------------
(* The writer fence.                                                        *)

\* A step that leaves the journal alone, admits no writer under an active
\* journal and rewrites no batch.
LEMMA QuietFence ==
  ASSUME TypeOK, WriterFence, journal' = journal,
         \A u \in Tabs : wr'[u].pc = "put" => wr[u].pc = "put" \/ ~Active(journal),
         \A u \in Tabs : op'[u].pc = "checkpoint" =>
                           op[u].pc = "checkpoint" /\ op'[u].j = op[u].j
  PROVE  WriterFence'
  <1> SUFFICES ASSUME NEW u \in Tabs, wr'[u].pc = "put", Active(journal) PROVE Untouched'
    BY DEF WriterFence
  <1>1. Untouched
    BY DEF WriterFence
  <1> QED BY <1>1 DEF Untouched, Is, Current

\* A save under an active journal that nobody has begun to rewrite.
LEMMA SavedUntouched ==
  ASSUME TypeOK, JournalInv, WriterFence, Active(journal), NEW t \in Tabs,
         journal'.op = journal.op, journal'.rev = journal.rev + 1,
         wr' = wr, \A u \in Tabs \ {t} : op'[u] = op[u], op'[t].pc # "checkpoint",
         journal.phase \in {"prepared", "migrating"} /\ journal.stores = FreshStores =>
           journal'.phase \in {"prepared", "migrating"} /\ journal'.stores = FreshStores
  PROVE  WriterFence'
  <1> SUFFICES ASSUME NEW u \in Tabs, wr'[u].pc = "put" PROVE Untouched'
    BY DEF WriterFence
  <1>1. Untouched
    BY DEF WriterFence
  <1>2. ASSUME NEW v \in Tabs, op'[v].pc = "checkpoint"
        PROVE  ~(journal'.op = op'[v].j.op /\ journal'.rev = op'[v].j.rev)
    <2>1. v # t /\ op'[v] = op[v]
      BY <1>2
    <2>2. op[v].j \in Journal /\ journal \in Journal
      BY DEF TypeOK, Operation
    <2>3. op[v].j.op = journal.op => op[v].j.rev <= journal.rev
      BY DEF JournalInv, TabInv, Copy, Agrees
    <2> QED BY <2>1, <2>2, <2>3 DEF Journal
  <1> QED BY <1>1, <1>2 DEF Untouched, Is, Current

LEMMA FenceStep ==
  TypeOK /\ TypeOK' /\ JournalInv /\ WriterFence /\ [Next]_vars => WriterFence'
  <1> SUFFICES ASSUME TypeOK, TypeOK', JournalInv, WriterFence, [Next]_vars
               PROVE  WriterFence'
    OBVIOUS
  <1>a. /\ journal \in Journal /\ journal' \in Journal /\ ops \in Nat /\ ops' \in Nat
        /\ op \in [Tabs -> Operation] /\ modal \in [Tabs -> Journal]
        /\ wr \in [Tabs -> Writer]
    BY DEF TypeOK
  <1>b. \A t \in Tabs :
          /\ op[t] \in Operation /\ op[t].j \in Journal /\ op[t].pc \in Pcs
          /\ Sound(op[t].j) /\ op[t].j.phase \in PhaseAt(op[t].pc)
          /\ op[t].pc = "converted" => AllDone(op[t].j)
          /\ Current(op[t].j) => /\ op[t].j.phase = journal.phase
                                 /\ op[t].j.stores = journal.stores
    BY <1>a, Constructors DEF JournalInv, TabInv, Copy, Agrees, Current
  <1>0. CASE UNCHANGED vars
    BY <1>0, QuietFence DEF vars
  <1>1. CASE LeaseExpires
    <2>1. /\ journal'.op = journal.op /\ journal'.rev = journal.rev
          /\ journal'.phase = journal.phase /\ journal'.stores = journal.stores
          /\ wr' = wr /\ op' = op
      BY <1>1, <1>a DEF LeaseExpires, Journal
    <2> QED BY <2>1 DEF WriterFence, Untouched, Active, Is, Current
  <1>2. ASSUME NEW t \in Tabs,
               \/ \E p \in Passes : SetupAdmit(t, p) \/ RotateAdmit(t, p)
               \/ DisableAdmit(t) \/ SetupSave(t) \/ SetupInstall(t) \/ UnlockRead(t)
               \/ UnlockInstall(t) \/ LockSession(t) \/ BeginRefused(t) \/ Verify(t)
               \/ RetireSentinel(t) \/ ClearSalt(t) \/ ReplaceSentinel(t) \/ Finish(t)
               \/ Boot(t) \/ SentinelSeen(t) \/ \E sp, tp \in Passes : Resume(t, sp, tp)
        PROVE  WriterFence'
    <2>1. journal' = journal /\ wr' = wr
      BY <1>2 DEF SetupAdmit, RotateAdmit, DisableAdmit, SetupSave, SetupInstall, UnlockRead,
                  UnlockInstall, LockSession, BeginRefused, Verify, RetireSentinel,
                  ClearSalt, ReplaceSentinel, Finish, Boot, SentinelSeen, Resume, bounds
    <2>2. op'[t].pc # "checkpoint" /\ \A u \in Tabs \ {t} : op'[u] = op[u]
      <3>1. CASE \/ \E p \in Passes : SetupAdmit(t, p) \/ RotateAdmit(t, p)
                 \/ DisableAdmit(t) \/ UnlockRead(t)
        <4>1. CASE UnlockRead(t)
          BY <1>a, <4>1 DEF UnlockRead, At
        <4>2. CASE DisableAdmit(t)
          BY <1>a, <4>2 DEF DisableAdmit, At
        <4>3. CASE \E p \in Passes : SetupAdmit(t, p)
          BY <1>a, <4>3 DEF SetupAdmit, At
        <4>4. CASE \E p \in Passes : RotateAdmit(t, p)
          BY <1>a, <4>4 DEF RotateAdmit, At
        <4> QED BY <3>1, <4>1, <4>2, <4>3, <4>4
      <3>2. CASE \/ SetupInstall(t) \/ UnlockInstall(t) \/ BeginRefused(t) \/ Finish(t)
        BY <1>a, <3>2 DEF SetupInstall, UnlockInstall, BeginRefused, Finish, Quit, Idle, At
      <3>3. CASE \/ SetupSave(t) \/ LockSession(t) \/ Verify(t) \/ RetireSentinel(t)
                 \/ ClearSalt(t) \/ ReplaceSentinel(t) \/ Boot(t)
        BY <1>a, <1>b, <3>3 DEF SetupSave, LockSession, Verify, RetireSentinel, ClearSalt,
                                ReplaceSentinel, Boot, Goto, Operation
      <3>4. CASE SentinelSeen(t)
        BY <3>4 DEF SentinelSeen, Is
      <3>5. ASSUME NEW sp \in Passes, NEW tp \in Passes, Resume(t, sp, tp)
            PROVE  op'[t].pc # "checkpoint" /\ \A u \in Tabs \ {t} : op'[u] = op[u]
        <4>1. CASE ResumeCommit(t, sp, tp)
          BY <1>a, <4>1 DEF ResumeCommit, At
        <4>2. CASE ResumeRun(t, sp, tp)
          BY <1>a, <4>2 DEF ResumeRun
        <4> QED BY <3>5, <4>1, <4>2 DEF Resume
      <3> QED BY <1>2, <3>1, <3>2, <3>3, <3>4, <3>5
    <2> QED BY <2>1, <2>2, QuietFence
  <1>3. ASSUME NEW t \in Tabs, Begin(t) PROVE WriterFence'
    <2>1. /\ journal'.op = ops + 1 /\ journal'.phase = "prepared"
          /\ journal'.stores = FreshStores /\ op'[t].pc = "claim"
          /\ \A u \in Tabs \ {t} : op'[u] = op[u]
      BY <1>3, <1>a, <1>b DEF Begin, NoJournal, Operation
    <2>2. \A u \in Tabs : op[u].j.op <= ops
      BY DEF JournalInv, TabInv, Copy
    <2>3. \A u \in Tabs : op[u].j.op # ops + 1
      BY <1>a, <1>b, <2>2 DEF Journal
    <2>4. Untouched'
      BY <2>1, <2>3 DEF Untouched, Is, Current
    <2> QED BY <2>4 DEF WriterFence
  <1>4. ASSUME NEW t \in Tabs, Claim(t) PROVE WriterFence'
    <2> DEFINE r == Renewed(op[t].j)
    <2>1. /\ Current(op[t].j) /\ op[t].j.phase \in {"prepared", "migrating", "verifying"}
          /\ journal' = [r EXCEPT !.lease = "live"] /\ wr' = wr
          /\ op'[t].pc # "checkpoint" /\ \A u \in Tabs \ {t} : op'[u] = op[u]
      BY <1>4, <1>a, <1>b DEF Claim, Is, PhaseAt, MigratingPc, Operation
    <2>2. r \in Journal
      BY <1>b, Constructors
    <2>3. /\ journal'.op = r.op /\ journal'.rev = r.rev /\ journal'.phase = r.phase
          /\ journal'.stores = r.stores
      BY <2>1, <2>2 DEF Journal
    <2>4. /\ journal'.op = journal.op /\ journal'.rev = journal.rev + 1
          /\ journal'.phase = journal.phase /\ journal'.stores = journal.stores
      BY <1>b, <2>1, <2>3, RenewedFields DEF Current
    <2>5. Active(journal)
      BY <1>b, <2>1 DEF Active
    <2> QED BY <2>1, <2>4, <2>5, SavedUntouched
  <1>5. ASSUME NEW t \in Tabs, Start(t) PROVE WriterFence'
    <2> DEFINE j == [op[t].j EXCEPT !.phase = "migrating"]
    <2>1. /\ Current(op[t].j) /\ op[t].j.phase = "prepared" /\ wr' = wr
          /\ journal' = Renewed(j)
          /\ op'[t].pc # "checkpoint" /\ \A u \in Tabs \ {t} : op'[u] = op[u]
      BY <1>5, <1>a, <1>b DEF Start, CanSave, SaveAndGoto, Is, PhaseAt, Operation
    <2>2. /\ j \in Journal /\ j.op = op[t].j.op /\ j.rev = op[t].j.rev
          /\ j.phase = "migrating" /\ j.stores = op[t].j.stores
      <3>1. j \in Journal
        BY <1>b, JournalUpdates DEF Phases
      <3> QED BY <1>b, <3>1 DEF Journal
    <2> HIDE DEF j
    <2>3. /\ journal'.op = journal.op /\ journal'.rev = journal.rev + 1
          /\ journal'.phase = "migrating" /\ journal'.stores = journal.stores
      BY <1>b, <2>1, <2>2, RenewedFields DEF Current
    <2>4. Active(journal)
      BY <1>b, <2>1 DEF Active
    <2> QED BY <2>1, <2>3, <2>4, SavedUntouched
  <1>6. ASSUME NEW t \in Tabs, MigrateNext(t) PROVE WriterFence'
    BY <1>6 DEF MigrateNext, SharedHeld, WriterFence
  <1>7. ASSUME NEW t \in Tabs,
               SaveCheckpoint(t) \/ EndMigrating(t) \/ SaveVerified(t) \/ EndVerifying(t)
        PROVE  WriterFence'
    <2>1. Current(op[t].j) /\ wr' = wr /\ op[t].pc \in RunnerPcs
      BY <1>7 DEF SaveCheckpoint, EndMigrating, SaveVerified, EndVerifying, CanSave, Is,
                  RunnerPcs
    <2>2. Active(journal)
      BY <1>b, <2>1, RunnerPhases DEF Active
    <2>3. ~Untouched
      <3>1. CASE SaveCheckpoint(t)
        BY <2>1, <3>1 DEF SaveCheckpoint, Untouched
      <3>2. CASE EndMigrating(t)
        <4>1. AllDone(journal)
          BY <1>b, <2>1, <3>2 DEF EndMigrating, Is, AllDone
        <4>2. 1 \in Stores /\ ~FreshStores[1].done
          BY ConstantsOK DEF Stores, FreshStores
        <4> QED BY <4>1, <4>2 DEF Untouched, AllDone
      <3>3. CASE SaveVerified(t) \/ EndVerifying(t)
        <4>1. journal.phase = "verifying"
          BY <1>b, <2>1, <3>3 DEF SaveVerified, EndVerifying, Is, PhaseAt
        <4> QED BY <4>1 DEF Untouched
      <3> QED BY <1>7, <3>1, <3>2, <3>3
    <2> QED BY <2>1, <2>2, <2>3 DEF WriterFence
  <1>8. ASSUME NEW t \in Tabs, Complete(t) \/ ClearCompleted(t) PROVE WriterFence'
    <2>1. ~Active(journal')
      <3>1. CASE Complete(t)
        <4>1. [op[t].j EXCEPT !.phase = "completed"] \in Journal
          BY <1>b, JournalUpdates DEF Phases
        <4>2. journal'.phase = "completed"
          BY <1>b, <3>1, <4>1, RenewedFields DEF Complete, SaveAndGoto, Journal
        <4> QED BY <4>2 DEF Active
      <3>2. CASE ClearCompleted(t)
        BY <3>2 DEF ClearCompleted, Active, NoJournal
      <3> QED BY <1>8, <3>1, <3>2
    <2> QED BY <2>1 DEF WriterFence
  <1>9. ASSUME NEW t \in Tabs, Abort(t) PROVE WriterFence'
    <2>1. /\ wr' = wr /\ op'[t].pc # "checkpoint" /\ \A u \in Tabs \ {t} : op'[u] = op[u]
      BY <1>9, <1>a DEF Abort, Quit, Idle, At
    <2>2. CASE journal' = journal
      BY <2>1, <2>2, QuietFence
    <2>3. CASE op[t].pc \in RunnerPcs /\ Current(op[t].j)
               /\ journal' = [Renewed(op[t].j) EXCEPT !.lease = "free"]
      <3> DEFINE r == Renewed(op[t].j)
      <3>1. r \in Journal
        BY <1>b, Constructors
      <3>2. /\ journal'.op = r.op /\ journal'.rev = r.rev /\ journal'.phase = r.phase
            /\ journal'.stores = r.stores
        BY <2>3, <3>1 DEF Journal
      <3>3. /\ journal'.op = journal.op /\ journal'.rev = journal.rev + 1
            /\ journal'.phase = journal.phase /\ journal'.stores = journal.stores
        BY <1>b, <2>3, <3>2, RenewedFields DEF Current
      <3>4. Active(journal)
        BY <1>b, <2>3, RunnerPhases DEF Active
      <3> QED BY <2>1, <3>3, <3>4, SavedUntouched
    <2> QED BY <1>9, <2>2, <2>3 DEF Abort
  <1>10. ASSUME NEW t \in Tabs, Reload(t) PROVE WriterFence'
    <2>1. /\ journal' = journal /\ op'[t].pc = "boot" /\ wr'[t].pc = "idle"
          /\ \A u \in Tabs \ {t} : op'[u] = op[u] /\ wr'[u] = wr[u]
      BY <1>10, <1>a DEF Reload, At, NoWriter
    <2> QED BY <2>1, QuietFence
  <1>11. ASSUME NEW t \in Tabs,
                WriteBegin(t) \/ WriteCheck(t)
                \/ \E st \in Stores, k \in Records : WritePut(t, st, k)
         PROVE  WriterFence'
    <2>1. journal' = journal /\ op' = op /\ \A u \in Tabs \ {t} : wr'[u] = wr[u]
      BY <1>11, <1>a DEF WriteBegin, WriteCheck, WritePut
    <2>2. wr'[t].pc = "put" => ~Active(journal)
      BY <1>11, <1>a DEF WriteBegin, WriteCheck, WritePut, NoWriter
    <2> QED BY <2>1, <2>2, QuietFence
  <1> QED BY <1>0, <1>1, <1>2, <1>3, <1>4, <1>5, <1>6, <1>7, <1>8, <1>9, <1>10, <1>11,
             NextCases

LEMMA FenceInit == Init => WriterFence
  BY DEF Init, WriterFence, NoWriter

LEMMA FenceInductive == Spec => []FenceInv
  <1>1. Init => FenceInv
    BY TypeInit, JournalInit, FenceInit DEF FenceInv
  <1>2. FenceInv /\ [Next]_vars => FenceInv'
    BY TypeStep, JournalStep, FenceStep DEF FenceInv
  <1> QED BY <1>1, <1>2, PTL DEF Spec

\* No record of an ordinary writer lands behind the back of a migration: past
\* its check a writer either meets no migration or one that has rewritten
\* nothing, even when leases run out under live runners.
THEOREM FenceHolds == Spec => []WriterFence
  <1>1. FenceInv => WriterFence
    BY DEF FenceInv
  <1> QED BY FenceInductive, <1>1, PTL

-----------------------------------------------------------------------------
(* One runner, as long as no live runner loses its lease.                   *)

\* No new runner, and the journal stays.
LEMMA QuietRunners ==
  ASSUME RunnerInv, journal' = journal,
         \A u \in Tabs : op'[u].pc \in RunnerPcs =>
                           op[u].pc \in RunnerPcs /\ op'[u].j = op[u].j
  PROVE  RunnerInv'
  BY DEF RunnerInv, OneRunner, RunnerOwns, Current

\* Only t may run after the step, with the journal it has just stored.
LEMMA SoleRunner ==
  ASSUME NEW t \in Tabs, \A u \in Tabs : op'[u].pc \in RunnerPcs => u = t,
         op'[t].pc \in RunnerPcs => op'[t].j = journal' /\ journal'.lease = "live"
  PROVE  RunnerInv'
  BY DEF RunnerInv, OneRunner, RunnerOwns, Current

\* A runner works under an active journal that has not reached committing.
LEMMA RunnerActive ==
  ASSUME FenceInv, RunnerInv, NEW t \in Tabs, op[t].pc \in RunnerPcs
  PROVE  /\ Active(journal) /\ journal.phase # "committing"
         /\ journal.op = op[t].j.op /\ journal.rev = op[t].j.rev /\ op[t].j.op # 0
         /\ journal.stores = op[t].j.stores /\ journal.kind = op[t].j.kind
         /\ journal.target = op[t].j.target
  <1>1. Current(op[t].j)
    BY DEF RunnerInv, RunnerOwns
  <1>2. /\ Sound(op[t].j) /\ Agrees(op[t].j, journal)
        /\ op[t].j.phase \in PhaseAt(op[t].pc)
    BY DEF FenceInv, JournalInv, TabInv, Copy
  <1>3. op[t].j.phase \in {"prepared", "migrating", "verifying"}
    BY <1>2, RunnerPhases
  <1> QED BY <1>1, <1>2, <1>3 DEF Current, Agrees, Sound, Active

LEMMA RunnerStep ==
  ASSUME LiveLeaseExpiry = FALSE, FenceInv, TypeOK', RunnerInv, [Next]_vars
  PROVE  RunnerInv'
  <1>a. /\ op \in [Tabs -> Operation] /\ modal \in [Tabs -> Journal]
        /\ journal \in Journal /\ journal' \in Journal
        /\ \A t \in Tabs : op[t] \in Operation /\ op[t].j \in Journal
    BY Constructors DEF FenceInv, TypeOK
  <1>b. \A t \in Tabs : op[t].pc \in RunnerPcs => Active(journal) /\ journal.phase # "committing"
    BY RunnerActive
  <1>0. CASE UNCHANGED vars
    BY <1>0, QuietRunners DEF vars
  <1>1. CASE LeaseExpires
    <2>1. \A u \in Tabs : op[u].pc \notin RunnerPcs
      BY <1>1 DEF LeaseExpires, RunnerAlive, RunnerInv, RunnerOwns
    <2>2. op' = op
      BY <1>1 DEF LeaseExpires
    <2> QED BY <2>1, <2>2 DEF RunnerInv, OneRunner, RunnerOwns
  <1>2. ASSUME NEW t \in Tabs, NEW p \in Passes,
               SetupAdmit(t, p) \/ RotateAdmit(t, p)
        PROVE  RunnerInv'
    <2>1. CASE SetupAdmit(t, p)
      <3>1. op'[t].pc = "saveSentinel" /\ \A u \in Tabs \ {t} : op'[u] = op[u]
        BY <1>a, <2>1 DEF SetupAdmit, At
      <3> QED BY <2>1, <3>1, QuietRunners DEF SetupAdmit, RunnerPcs
    <2>2. CASE RotateAdmit(t, p)
      <3>1. op'[t].pc = "begin" /\ \A u \in Tabs \ {t} : op'[u] = op[u]
        BY <1>a, <2>2 DEF RotateAdmit, At
      <3> QED BY <2>2, <3>1, QuietRunners DEF RotateAdmit, RunnerPcs
    <2> QED BY <1>2, <2>1, <2>2
  <1>3. ASSUME NEW t \in Tabs,
               \/ DisableAdmit(t) \/ SetupSave(t) \/ SetupInstall(t) \/ UnlockRead(t)
               \/ UnlockInstall(t) \/ LockSession(t) \/ BeginRefused(t)
               \/ RetireSentinel(t) \/ ClearSalt(t) \/ ReplaceSentinel(t) \/ Finish(t)
               \/ Boot(t) \/ Reload(t)
        PROVE  RunnerInv'
    <2>1. journal' = journal
      BY <1>3 DEF DisableAdmit, SetupSave, SetupInstall, UnlockRead, UnlockInstall,
                  LockSession, BeginRefused, RetireSentinel, ClearSalt, ReplaceSentinel,
                  Finish, Boot, Reload
    <2>2. op'[t].pc \notin RunnerPcs /\ \A u \in Tabs \ {t} : op'[u] = op[u]
      <3>1. CASE DisableAdmit(t)
        BY <1>a, <3>1 DEF DisableAdmit, At, RunnerPcs
      <3>2. CASE UnlockRead(t) \/ Reload(t)
        BY <1>a, <3>2 DEF UnlockRead, Reload, At, RunnerPcs
      <3>3. CASE SetupInstall(t) \/ UnlockInstall(t) \/ BeginRefused(t) \/ Finish(t)
        BY <1>a, <3>3 DEF SetupInstall, UnlockInstall, BeginRefused, Finish, Quit, Idle, At,
                          RunnerPcs
      <3>4. CASE \/ SetupSave(t) \/ LockSession(t) \/ RetireSentinel(t)
                 \/ ClearSalt(t) \/ ReplaceSentinel(t) \/ Boot(t)
        BY <1>a, <3>4 DEF SetupSave, LockSession, RetireSentinel, ClearSalt,
                          ReplaceSentinel, Boot, Goto, Operation, RunnerPcs
      <3> QED BY <1>3, <3>1, <3>2, <3>3, <3>4
    <2> QED BY <2>1, <2>2, QuietRunners
  <1>4. ASSUME NEW t \in Tabs, MigrateNext(t) \/ Verify(t) PROVE RunnerInv'
    <2>1. /\ journal' = journal /\ op[t].pc \in RunnerPcs /\ op'[t].j = op[t].j
          /\ \A u \in Tabs \ {t} : op'[u] = op[u]
      BY <1>4, <1>a DEF MigrateNext, Verify, Goto, Is, Operation, RunnerPcs
    <2> QED BY <2>1, QuietRunners
  <1>5. ASSUME NEW t \in Tabs, Begin(t) \/ Complete(t) \/ ClearCompleted(t)
        PROVE  RunnerInv'
    <2>1. /\ op'[t].pc \notin RunnerPcs /\ \A u \in Tabs \ {t} : op'[u] = op[u]
      BY <1>5, <1>a DEF Begin, Complete, ClearCompleted, SaveAndGoto, Goto, Operation, RunnerPcs
    <2>2. ~Active(journal) \/ journal.phase = "committing"
      <3>1. CASE Complete(t)
        <4>1. /\ Current(op[t].j) /\ op[t].j.phase \in PhaseAt("complete")
              /\ Agrees(op[t].j, journal)
          BY <3>1 DEF Complete, CanSave, Is, FenceInv, JournalInv, TabInv, Copy
        <4>2. PhaseAt("complete") = {"committing"}
          BY DEF PhaseAt
        <4> QED BY <4>1, <4>2 DEF Current, Agrees
      <3> QED BY <1>5, <3>1 DEF Begin, ClearCompleted
    <2>3. \A u \in Tabs : op'[u].pc \notin RunnerPcs
      BY <1>b, <2>1, <2>2
    <2> QED BY <2>3 DEF RunnerInv, OneRunner, RunnerOwns
  <1>6. ASSUME NEW t \in Tabs, Claim(t) PROVE RunnerInv'
    <2>1. \A u \in Tabs : op[u].pc \notin RunnerPcs
      BY <1>6 DEF Claim, RunnerInv, RunnerOwns
    <2>2. Renewed(op[t].j) \in Journal
      BY <1>a, Constructors
    <2>3. /\ op'[t].j = journal' /\ journal'.lease = "live"
          /\ \A u \in Tabs \ {t} : op'[u] = op[u]
      BY <1>6, <1>a, <2>2 DEF Claim, Operation, Journal
    <2> QED BY <2>1, <2>3, SoleRunner
  <1>7. ASSUME NEW t \in Tabs,
               \/ Start(t) \/ SaveCheckpoint(t) \/ EndMigrating(t) \/ SaveVerified(t)
               \/ EndVerifying(t)
        PROVE  RunnerInv'
    <2>1. op[t].pc \in RunnerPcs
      BY <1>7 DEF Start, SaveCheckpoint, EndMigrating, SaveVerified, EndVerifying, Is, RunnerPcs
    <2>2. PICK j, pc : SaveAndGoto(t, j, pc) /\ j \in Journal /\ j.lease = op[t].j.lease
      <3>1. \A ph \in Phases : /\ [op[t].j EXCEPT !.phase = ph] \in Journal
                               /\ [op[t].j EXCEPT !.phase = ph].lease = op[t].j.lease
        <4>1. \A ph \in Phases : [op[t].j EXCEPT !.phase = ph] \in Journal
          BY <1>a, JournalUpdates
        <4>2. \A ph \in Phases : [op[t].j EXCEPT !.phase = ph].lease = op[t].j.lease
          BY <1>a DEF Journal
        <4> QED BY <4>1, <4>2
      <3>2. CASE Start(t) \/ EndMigrating(t) \/ EndVerifying(t)
        <4>1. PICK ph \in Phases, pc \in Pcs :
                SaveAndGoto(t, [op[t].j EXCEPT !.phase = ph], pc)
          BY <3>2 DEF Start, EndMigrating, EndVerifying, Phases, Pcs,
                      RunnerPcs, CommitPcs, CommitPc
        <4> QED BY <3>1, <4>1
      <3>3. CASE SaveCheckpoint(t)
        <4>1. PICK s \in Stores :
                LET k == [op[t].j EXCEPT !.stores[s] = Advanced(@)]
                IN SaveAndGoto(t, k, MigratingPc(k))
          BY <3>3 DEF SaveCheckpoint
        <4> DEFINE k == [op[t].j EXCEPT !.stores[s] = Advanced(@)]
        <4>2. k \in Journal
          BY <1>a, JournalUpdates
        <4>3. k.lease = op[t].j.lease
          BY <1>a DEF Journal
        <4> QED BY <4>1, <4>2, <4>3
      <3>4. CASE SaveVerified(t)
        <4> DEFINE s == CHOOSE r \in ToVerify(op[t].j) : \A q \in ToVerify(op[t].j) : r <= q
                   k == [op[t].j EXCEPT !.stores[s].verified = TRUE]
        <4>1. SaveAndGoto(t, k, "verify")
          BY <3>4 DEF SaveVerified
        <4>2. k \in Journal
          <5> HIDE DEF s
          <5>1. CASE s \in Stores
            BY <1>a, <5>1, JournalUpdates
          <5>2. CASE s \notin Stores
            <6>1. [op[t].j.stores EXCEPT ![s].verified = TRUE] = op[t].j.stores
              BY <1>a, <5>2 DEF Journal
            <6>2. k = [op[t].j EXCEPT !.stores = [op[t].j.stores EXCEPT ![s].verified = TRUE]]
              OBVIOUS
            <6> QED BY <1>a, <6>1, <6>2 DEF Journal
          <5> QED BY <5>1, <5>2
        <4>3. k.lease = op[t].j.lease
          BY <1>a DEF Journal
        <4> QED BY <4>1, <4>2, <4>3
      <3> QED BY <1>7, <3>2, <3>3, <3>4
    <2>3. Renewed(j).lease = "live"
      BY <2>1, <2>2 DEF RunnerInv, RunnerOwns, Renewed, Journal
    <2>4. /\ op'[t].j = journal' /\ journal'.lease = "live"
          /\ \A u \in Tabs \ {t} : op'[u] = op[u]
      BY <1>a, <2>2, <2>3 DEF SaveAndGoto, Operation
    <2>5. \A u \in Tabs : op'[u].pc \in RunnerPcs => u = t
      BY <2>1, <2>4 DEF RunnerInv, OneRunner
    <2> QED BY <2>4, <2>5, SoleRunner
  <1>8. ASSUME NEW t \in Tabs, Abort(t) PROVE RunnerInv'
    <2>1. op'[t].pc \notin RunnerPcs /\ \A u \in Tabs \ {t} : op'[u] = op[u]
      BY <1>8, <1>a DEF Abort, Quit, Idle, At, RunnerPcs
    <2>2. CASE journal' = journal
      BY <2>1, <2>2, QuietRunners
    <2>3. CASE op[t].pc \in RunnerPcs
      <3>1. \A u \in Tabs : op'[u].pc \notin RunnerPcs
        BY <2>1, <2>3 DEF RunnerInv, OneRunner
      <3> QED BY <3>1 DEF RunnerInv, OneRunner, RunnerOwns
    <2> QED BY <1>8, <2>2, <2>3 DEF Abort
  <1>9. ASSUME NEW t \in Tabs,
               WriteBegin(t) \/ SentinelSeen(t) \/ WriteCheck(t)
               \/ \E st \in Stores, k \in Records : WritePut(t, st, k)
        PROVE  RunnerInv'
    <2>1. journal' = journal /\ op' = op
      BY <1>9 DEF WriteBegin, SentinelSeen, WriteCheck, WritePut
    <2> QED BY <2>1, QuietRunners
  <1>10. ASSUME NEW t \in Tabs, NEW sp \in Passes, NEW tp \in Passes, Resume(t, sp, tp)
         PROVE  RunnerInv'
    <2>1. op'[t].pc \notin RunnerPcs /\ \A u \in Tabs \ {t} : op'[u] = op[u]
      <3>1. CASE ResumeCommit(t, sp, tp)
        BY <1>a, <3>1 DEF ResumeCommit, At, RunnerPcs
      <3>2. CASE ResumeRun(t, sp, tp)
        BY <1>a, <3>2 DEF ResumeRun, RunnerPcs
      <3> QED BY <1>10, <3>1, <3>2 DEF Resume
    <2> QED BY <1>10, <2>1, QuietRunners DEF Resume
  <1> QED BY <1>0, <1>1, <1>2, <1>3, <1>4, <1>5, <1>6, <1>7, <1>8, <1>9, <1>10, NextCases

-----------------------------------------------------------------------------
(* What the checkpoints promise.                                            *)

\* A step that rewrites no record, advances no cursor of an active journal and
\* moves no tab to a checkpoint.
LEMMA QuietConversion ==
  ASSUME TypeOK, BatchConverted, BehindCursorConverted, rec' = rec,
         \/ ~Active(journal')
         \/ journal'.stores = FreshStores
         \/ /\ Active(journal)
            /\ journal'.kind = journal.kind /\ journal'.target = journal.target
            /\ \A s \in Stores : journal'.stores[s].cursor = journal.stores[s].cursor,
         \A u \in Tabs : op'[u].pc = "checkpoint" =>
                           op[u].pc = "checkpoint" /\ op'[u].j = op[u].j
  PROVE  BatchConverted' /\ BehindCursorConverted'
  <1>1. BatchConverted'
    BY DEF BatchConverted, Is
  <1>2. BehindCursorConverted'
    <2>1. CASE ~Active(journal')
      BY <2>1 DEF BehindCursorConverted
    <2>2. CASE journal'.stores = FreshStores
      <3>1. \A s \in Stores, k \in Records : ~(k <= FreshStores[s].cursor)
        BY ConstantsOK DEF FreshStores, Records
      <3> QED BY <2>2, <3>1 DEF BehindCursorConverted
    <2>3. CASE /\ Active(journal)
               /\ journal'.kind = journal.kind /\ journal'.target = journal.target
               /\ \A s \in Stores : journal'.stores[s].cursor = journal.stores[s].cursor
      <3>1. TargetForm(journal') = TargetForm(journal)
        BY <2>3 DEF TargetForm
      <3> QED BY <2>3, <3>1 DEF BehindCursorConverted
    <2> QED BY <2>1, <2>2, <2>3
  <1> QED BY <1>1, <1>2

\* migrateNext gives the batch after the cursor its final form.
LEMMA MigrateConverts ==
  ASSUME FenceInv, RunnerInv, BatchConverted, BehindCursorConverted,
         NEW t \in Tabs, MigrateNext(t)
  PROVE  BatchConverted' /\ BehindCursorConverted'
  <1> DEFINE j == op[t].j
  <1>1. /\ journal' = journal /\ op'[t].j = j /\ op'[t].pc = "checkpoint"
        /\ op[t].pc \in RunnerPcs /\ \A u \in Tabs \ {t} : op'[u] = op[u]
    BY DEF MigrateNext, Goto, Is, RunnerPcs, FenceInv, TypeOK, Operation
  <1>2. /\ Active(journal) /\ journal.stores = j.stores /\ j \in Journal
        /\ TargetForm(journal) = TargetForm(j)
    BY <1>1, RunnerActive, Constructors DEF TargetForm, FenceInv, TypeOK
  <1>3. PICK s \in Stores :
          /\ AtStore(j, s)
          /\ rec' = [rec EXCEPT ![s] = [k \in Records |->
                       IF k \in InBatch(j, s) THEN TargetForm(j) ELSE @[k]]]
    BY DEF MigrateNext
  <1>4. \A r \in Stores, k \in Records :
          rec'[r][k] = IF r = s /\ k \in InBatch(j, s) THEN TargetForm(j) ELSE rec[r][k]
    BY <1>3 DEF FenceInv, TypeOK
  <1> HIDE DEF j
  <1>5. BehindCursorConverted'
    <2> SUFFICES ASSUME NEW r \in Stores, NEW k \in Records, k <= j.stores[r].cursor
                 PROVE  rec'[r][k] = TargetForm(j)
      BY <1>1, <1>2 DEF BehindCursorConverted
    <2>1. rec[r][k] = TargetForm(j)
      BY <1>2 DEF BehindCursorConverted
    <2> QED BY <1>4, <2>1
  <1>6. BatchConverted'
    <2> SUFFICES ASSUME NEW u \in Tabs, NEW r \in Stores, op'[u].pc = "checkpoint",
                        AtStore(op'[u].j, r), NEW k \in InBatch(op'[u].j, r)
                 PROVE  rec'[r][k] = TargetForm(op'[u].j)
      BY DEF BatchConverted, Is
    <2>1. u = t
      BY <1>1 DEF RunnerInv, OneRunner, RunnerPcs
    <2>2. r = s
      BY <1>1, <1>3, <2>1, ConstantsOK DEF AtStore, Stores
    <2>3. k \in Records
      BY DEF InBatch
    <2> QED BY <1>1, <1>4, <2>1, <2>2, <2>3
  <1> QED BY <1>5, <1>6

\* A checkpoint moves its cursor over the batch that was just rewritten.
LEMMA CheckpointConverts ==
  ASSUME FenceInv, RunnerInv, BatchConverted, BehindCursorConverted,
         NEW t \in Tabs, SaveCheckpoint(t)
  PROVE  BatchConverted' /\ BehindCursorConverted'
  <1> DEFINE j == op[t].j
  <1>1. /\ rec' = rec /\ op[t].pc = "checkpoint" /\ op[t].pc \in RunnerPcs
    BY DEF SaveCheckpoint, Is, RunnerPcs
  <1>2. /\ Active(journal) /\ journal.stores = j.stores /\ j \in Journal
        /\ journal.kind = j.kind /\ journal.target = j.target
    BY <1>1, RunnerActive, Constructors DEF FenceInv, TypeOK
  <1>3. PICK s \in Stores :
          LET n == [j EXCEPT !.stores[s] = Advanced(@)]
          IN AtStore(j, s) /\ SaveAndGoto(t, n, MigratingPc(n))
    BY DEF SaveCheckpoint
  <1> DEFINE n == [j EXCEPT !.stores[s] = Advanced(@)]
  <1>4. AtStore(j, s) /\ SaveAndGoto(t, n, MigratingPc(n))
    BY <1>3
  <1>5. n \in Journal
    BY <1>2, JournalUpdates
  <1>6. /\ n.kind = j.kind /\ n.target = j.target
        /\ \A r \in Stores : n.stores[r] = IF r = s THEN Advanced(j.stores[s]) ELSE j.stores[r]
    BY <1>2 DEF Journal
  <1>7. BatchConverted
    OBVIOUS
  <1>8. /\ journal' = Renewed(n) /\ op'[t].pc # "checkpoint"
        /\ \A u \in Tabs \ {t} : op'[u] = op[u]
    BY <1>4 DEF SaveAndGoto, FenceInv, TypeOK, Operation, MigratingPc
  <1>9. /\ journal'.stores = n.stores /\ TargetForm(journal') = TargetForm(journal)
        /\ TargetForm(journal) = TargetForm(j)
    BY <1>2, <1>5, <1>6, <1>8, RenewedFields DEF TargetForm
  <1> HIDE DEF j, n
  <1>10. BehindCursorConverted'
    <2> SUFFICES ASSUME NEW r \in Stores, NEW k \in Records, k <= n.stores[r].cursor
                 PROVE  rec[r][k] = TargetForm(j)
      BY <1>1, <1>9 DEF BehindCursorConverted
    <2>1. CASE k <= j.stores[r].cursor
      BY <1>2, <1>9, <2>1 DEF BehindCursorConverted
    <2>2. CASE r = s /\ ~(k <= j.stores[r].cursor)
      <3> DEFINE c == j.stores[s]
      <3>1. c \in Checkpoint
        BY <1>2 DEF Journal
      <3>2. k <= Advanced(c).cursor
        BY <1>6, <2>2
      <3> HIDE DEF c
      <3>3. c.cursor \in 0..NRecords /\
            Advanced(c).cursor = IF c.cursor + BatchSize < NRecords
                                 THEN c.cursor + BatchSize ELSE NRecords
        BY <3>1 DEF Advanced, Checkpoint
      <3>4. k <= c.cursor + BatchSize
        BY <3>2, <3>3, ConstantsOK DEF Records
      <3>5. c.cursor < k
        BY <2>2, <3>3, ConstantsOK DEF Records, c
      <3>6. k \in InBatch(j, s)
        BY <3>4, <3>5 DEF InBatch, c
      <3> QED BY <1>1, <1>4, <2>2, <3>6 DEF BatchConverted, Is, j
    <2> QED BY <1>6, <2>1, <2>2
  <1>11. BatchConverted'
    <2>1. \A u \in Tabs : op'[u].pc # "checkpoint"
      BY <1>1, <1>8 DEF RunnerInv, OneRunner, RunnerPcs
    <2> QED BY <2>1 DEF BatchConverted, Is
  <1> QED BY <1>10, <1>11

\* A record an ordinary writer lands is ahead of every cursor.
LEMMA WriteSpares ==
  ASSUME FenceInv, RunnerInv, BatchConverted, BehindCursorConverted,
         NEW t \in Tabs, NEW st \in Stores, NEW k \in Records, WritePut(t, st, k)
  PROVE  BatchConverted' /\ BehindCursorConverted'
  <1>1. journal' = journal /\ op' = op /\ wr[t].pc = "put"
    BY DEF WritePut
  <1>2. ~Active(journal) \/ Untouched
    BY <1>1 DEF FenceInv, WriterFence
  <1>3. \A u \in Tabs : op[u].pc # "checkpoint"
    <2> SUFFICES ASSUME NEW u \in Tabs, op[u].pc = "checkpoint" PROVE FALSE
      OBVIOUS
    <2>1. op[u].pc \in RunnerPcs
      BY DEF RunnerPcs
    <2>2. Active(journal) /\ Current(op[u].j)
      BY <2>1, RunnerActive DEF Current
    <2> QED BY <1>2, <2>2 DEF Untouched, Is
  <1>4. BatchConverted'
    BY <1>1, <1>3 DEF BatchConverted, Is
  <1>5. \A s \in Stores, r \in Records : ~(r <= FreshStores[s].cursor)
    BY ConstantsOK DEF FreshStores, Records
  <1>6. BehindCursorConverted'
    BY <1>1, <1>2, <1>5 DEF BehindCursorConverted, Untouched
  <1> QED BY <1>4, <1>6

LEMMA ConversionStep ==
  ASSUME FenceInv, RunnerInv, BatchConverted, BehindCursorConverted, [Next]_vars
  PROVE  BatchConverted' /\ BehindCursorConverted'
  <1>a. /\ op \in [Tabs -> Operation] /\ modal \in [Tabs -> Journal]
        /\ journal \in Journal /\ TypeOK
        /\ \A t \in Tabs : op[t] \in Operation /\ op[t].j \in Journal
    BY Constructors DEF FenceInv, TypeOK
  <1>0. CASE UNCHANGED vars
    <2>1. rec' = rec /\ journal' = journal /\ op' = op
      BY <1>0 DEF vars
    <2> QED BY <1>a, <2>1, QuietConversion
  <1>1. CASE LeaseExpires
    <2>1. rec' = rec /\ op' = op
      BY <1>1 DEF LeaseExpires
    <2>2. /\ journal'.kind = journal.kind /\ journal'.target = journal.target
          /\ journal'.stores = journal.stores /\ journal'.phase = journal.phase
      BY <1>1, <1>a DEF LeaseExpires, Journal
    <2>3. Active(journal') => Active(journal)
      BY <2>2 DEF Active
    <2> QED BY <1>a, <2>1, <2>2, <2>3, QuietConversion
  <1>2. ASSUME NEW t \in Tabs, NEW p \in Passes, SetupAdmit(t, p) \/ RotateAdmit(t, p)
        PROVE  BatchConverted' /\ BehindCursorConverted'
    <2>1. CASE SetupAdmit(t, p)
      <3>1. /\ op'[t].pc = "saveSentinel" /\ \A u \in Tabs \ {t} : op'[u] = op[u]
            /\ rec' = rec /\ journal' = journal
        BY <1>a, <2>1 DEF SetupAdmit, At
      <3> QED BY <1>a, <3>1, QuietConversion
    <2>2. CASE RotateAdmit(t, p)
      <3>1. /\ op'[t].pc = "begin" /\ \A u \in Tabs \ {t} : op'[u] = op[u]
            /\ rec' = rec /\ journal' = journal
        BY <1>a, <2>2 DEF RotateAdmit, At
      <3> QED BY <1>a, <3>1, QuietConversion
    <2> QED BY <1>2, <2>1, <2>2
  <1>3. ASSUME NEW t \in Tabs,
               \/ DisableAdmit(t) \/ SetupSave(t) \/ SetupInstall(t) \/ UnlockRead(t)
               \/ UnlockInstall(t) \/ LockSession(t) \/ BeginRefused(t)
               \/ Verify(t) \/ RetireSentinel(t) \/ ClearSalt(t) \/ ReplaceSentinel(t)
               \/ Finish(t) \/ Boot(t) \/ Reload(t)
        PROVE  BatchConverted' /\ BehindCursorConverted'
    <2>1. rec' = rec /\ journal' = journal
      BY <1>3 DEF DisableAdmit, SetupSave, SetupInstall, UnlockRead, UnlockInstall,
                  LockSession, BeginRefused, Verify, RetireSentinel, ClearSalt,
                  ReplaceSentinel, Finish, Boot, Reload
    <2>2. op'[t].pc # "checkpoint" /\ \A u \in Tabs \ {t} : op'[u] = op[u]
      <3>1. CASE DisableAdmit(t)
        BY <1>a, <3>1 DEF DisableAdmit, At
      <3>2. CASE UnlockRead(t) \/ Reload(t)
        BY <1>a, <3>2 DEF UnlockRead, Reload, At
      <3>3. CASE SetupInstall(t) \/ UnlockInstall(t) \/ BeginRefused(t) \/ Finish(t)
        BY <1>a, <3>3 DEF SetupInstall, UnlockInstall, BeginRefused, Finish, Quit, Idle, At
      <3>4. CASE \/ SetupSave(t) \/ LockSession(t) \/ Verify(t) \/ RetireSentinel(t)
                 \/ ClearSalt(t) \/ ReplaceSentinel(t) \/ Boot(t)
        BY <1>a, <3>4 DEF SetupSave, LockSession, Verify, RetireSentinel, ClearSalt,
                          ReplaceSentinel, Boot, Goto, Operation
      <3> QED BY <1>3, <3>1, <3>2, <3>3, <3>4
    <2> QED BY <1>a, <2>1, <2>2, QuietConversion
  <1>4. ASSUME NEW t \in Tabs, MigrateNext(t) \/ SaveCheckpoint(t)
                               \/ \E st \in Stores, k \in Records : WritePut(t, st, k)
        PROVE  BatchConverted' /\ BehindCursorConverted'
    BY <1>4, MigrateConverts, CheckpointConverts, WriteSpares
  <1>5. ASSUME NEW t \in Tabs, Begin(t) \/ Complete(t) \/ ClearCompleted(t)
        PROVE  BatchConverted' /\ BehindCursorConverted'
    <2>1. /\ rec' = rec /\ op'[t].pc # "checkpoint" /\ \A u \in Tabs \ {t} : op'[u] = op[u]
      BY <1>5, <1>a DEF Begin, Complete, ClearCompleted, SaveAndGoto, Goto, Operation
    <2>2. journal'.stores = FreshStores \/ ~Active(journal')
      <3>1. CASE Begin(t)
        BY <3>1 DEF Begin, NoJournal
      <3>2. CASE Complete(t)
        <4>1. [op[t].j EXCEPT !.phase = "completed"] \in Journal
          BY <1>a, JournalUpdates DEF Phases
        <4>2. journal'.phase = "completed"
          BY <1>a, <3>2, <4>1, RenewedFields DEF Complete, SaveAndGoto, Journal
        <4> QED BY <4>2 DEF Active
      <3>3. CASE ClearCompleted(t)
        BY <3>3 DEF ClearCompleted, Active, NoJournal
      <3> QED BY <1>5, <3>1, <3>2, <3>3
    <2> QED BY <1>a, <2>1, <2>2, QuietConversion
  <1>6. ASSUME NEW t \in Tabs,
               \/ Claim(t) \/ Start(t) \/ EndMigrating(t) \/ SaveVerified(t)
               \/ EndVerifying(t) \/ Abort(t)
        PROVE  BatchConverted' /\ BehindCursorConverted'
    <2>1. /\ rec' = rec /\ op'[t].pc # "checkpoint" /\ \A u \in Tabs \ {t} : op'[u] = op[u]
      <3>1. CASE Claim(t)
        BY <1>a, <3>1 DEF Claim, MigratingPc, Operation
      <3>2. CASE Start(t) \/ EndMigrating(t) \/ SaveVerified(t) \/ EndVerifying(t)
        BY <1>a, <3>2 DEF Start, EndMigrating, SaveVerified, EndVerifying, SaveAndGoto,
                          CommitPc, Operation
      <3>3. CASE Abort(t)
        BY <1>a, <3>3 DEF Abort, Quit, Idle, At
      <3> QED BY <1>6, <3>1, <3>2, <3>3
    <2>2. CASE journal' = journal
      BY <1>a, <2>1, <2>2, QuietConversion
    <2> DEFINE j == op[t].j
    <2>3. CASE journal' # journal
      <3>1. Current(j) /\ op[t].pc \in {"claim"} \cup RunnerPcs
        BY <1>6, <2>3 DEF Claim, Start, EndMigrating, SaveVerified, EndVerifying, Abort,
                          CanSave, Is, RunnerPcs
      <3>2. j.phase \in {"prepared", "migrating", "verifying"}
        <4>1. PhaseAt("claim") = {"prepared", "migrating", "verifying"}
          BY DEF PhaseAt
        <4>2. j.phase \in PhaseAt(op[t].pc)
          BY DEF FenceInv, JournalInv, TabInv
        <4> QED BY <3>1, <4>1, <4>2, RunnerPhases
      <3>3. Sound(j) /\ Agrees(j, journal)
        BY DEF FenceInv, JournalInv, TabInv, Copy
      <3>4. /\ Active(journal) /\ journal.stores = j.stores
            /\ journal.kind = j.kind /\ journal.target = j.target
        BY <3>1, <3>2, <3>3 DEF Current, Agrees, Sound, Active
      <3>5. PICK n \in Journal :
              /\ \/ \E l \in {"free", "live", "expired"} : journal' = [Renewed(n) EXCEPT !.lease = l]
                 \/ journal' = Renewed(n)
              /\ n.kind = j.kind /\ n.target = j.target
              /\ \A r \in Stores : n.stores[r].cursor = j.stores[r].cursor
        <4>1. CASE Claim(t) \/ Abort(t)
          BY <1>a, <2>3, <4>1 DEF Claim, Abort
        <4>2. CASE Start(t) \/ EndMigrating(t) \/ EndVerifying(t)
          <5>1. PICK ph, pc : ph \in Phases /\ SaveAndGoto(t, [j EXCEPT !.phase = ph], pc)
            BY <4>2 DEF Start, EndMigrating, EndVerifying, Phases
          <5>2. [j EXCEPT !.phase = ph] \in Journal
            BY <1>a, <5>1, JournalUpdates
          <5>3. /\ [j EXCEPT !.phase = ph].kind = j.kind
                /\ [j EXCEPT !.phase = ph].target = j.target
                /\ [j EXCEPT !.phase = ph].stores = j.stores
            BY <1>a DEF Journal
          <5> QED BY <5>1, <5>2, <5>3 DEF SaveAndGoto
        <4>3. CASE SaveVerified(t)
          <5> DEFINE s == CHOOSE r \in ToVerify(j) : \A q \in ToVerify(j) : r <= q
                     k == [j EXCEPT !.stores[s].verified = TRUE]
          <5>1. journal' = Renewed(k)
            BY <4>3 DEF SaveVerified, SaveAndGoto
          <5> HIDE DEF s
          <5>2. j.stores \in [Stores -> Checkpoint]
            BY <1>a DEF Journal
          <5>3. /\ k.kind = j.kind /\ k.target = j.target
                /\ k.stores = [j.stores EXCEPT ![s].verified = TRUE]
            BY <1>a DEF Journal
          <5>4. \A r \in Stores : k.stores[r].cursor = j.stores[r].cursor
            BY <5>2, <5>3 DEF Checkpoint
          <5>5. k \in Journal
            <6>1. CASE s \in Stores
              BY <1>a, <6>1, JournalUpdates
            <6>2. CASE s \notin Stores
              <7>1. [j.stores EXCEPT ![s].verified = TRUE] = j.stores
                BY <5>2, <6>2
              <7>2. k = [j EXCEPT !.stores = [j.stores EXCEPT ![s].verified = TRUE]]
                OBVIOUS
              <7> QED BY <1>a, <7>1, <7>2 DEF Journal
            <6> QED BY <6>1, <6>2
          <5> HIDE DEF k
          <5> QED BY <5>1, <5>3, <5>4, <5>5
        <4> QED BY <1>6, <4>1, <4>2, <4>3
      <3>6. Renewed(n) \in Journal
        BY Constructors
      <3>7. /\ journal'.kind = n.kind /\ journal'.target = n.target
            /\ journal'.stores = n.stores
        BY <3>5, <3>6, RenewedFields DEF Journal
      <3>8. \A r \in Stores : journal'.stores[r].cursor = journal.stores[r].cursor
        BY <3>4, <3>5, <3>7
      <3> QED BY <1>a, <2>1, <3>4, <3>5, <3>7, <3>8, QuietConversion
    <2> QED BY <2>2, <2>3
  <1>7. ASSUME NEW t \in Tabs, WriteBegin(t) \/ SentinelSeen(t) \/ WriteCheck(t)
        PROVE  BatchConverted' /\ BehindCursorConverted'
    <2>1. journal' = journal /\ op' = op /\ rec' = rec
      BY <1>7 DEF WriteBegin, SentinelSeen, WriteCheck
    <2> QED BY <1>a, <2>1, QuietConversion
  <1>8. ASSUME NEW t \in Tabs, NEW sp \in Passes, NEW tp \in Passes, Resume(t, sp, tp)
        PROVE  BatchConverted' /\ BehindCursorConverted'
    <2>1. op'[t].pc # "checkpoint" /\ \A u \in Tabs \ {t} : op'[u] = op[u]
      <3>1. CASE ResumeCommit(t, sp, tp)
        BY <1>a, <3>1 DEF ResumeCommit, At
      <3>2. CASE ResumeRun(t, sp, tp)
        BY <1>a, <3>2 DEF ResumeRun
      <3> QED BY <1>8, <3>1, <3>2 DEF Resume
    <2>2. rec' = rec /\ journal' = journal
      BY <1>8 DEF Resume
    <2> QED BY <1>a, <2>1, <2>2, QuietConversion
  <1> QED BY <1>0, <1>1, <1>2, <1>3, <1>4, <1>5, <1>6, <1>7, <1>8, NextCases

LEMMA ConversionInit == Init => RunnerInv /\ BatchConverted /\ BehindCursorConverted
  BY DEF Init, RunnerInv, OneRunner, RunnerOwns, BatchConverted, BehindCursorConverted,
         Idle, At, RunnerPcs, Is, Active, NoJournal

LEMMA ConversionInductive ==
  ASSUME LiveLeaseExpiry = FALSE PROVE Spec => []ConversionInv
  <1>1. Init => ConversionInv
    BY TypeInit, JournalInit, FenceInit, ConversionInit DEF ConversionInv, FenceInv
  <1>2. ConversionInv /\ [Next]_vars => ConversionInv'
    BY TypeStep, JournalStep, FenceStep, RunnerStep, ConversionStep DEF ConversionInv, FenceInv
  <1> QED BY <1>1, <1>2, PTL DEF Spec

\* At most one tab rewrites stores, as long as a lease does not run out under
\* a live runner.
THEOREM OneRunnerHolds == ASSUME LiveLeaseExpiry = FALSE PROVE Spec => []OneRunner
  <1>1. ConversionInv => OneRunner
    BY DEF ConversionInv, RunnerInv
  <1> QED BY ConversionInductive, <1>1, PTL

\* Under the same assumption a checkpoint never claims more than was rewritten,
\* for all interleavings of writers, crashes, failures and resumed runs.
THEOREM ConversionHolds ==
  ASSUME LiveLeaseExpiry = FALSE PROVE Spec => []BehindCursorConverted
  <1>1. ConversionInv => BehindCursorConverted
    BY DEF ConversionInv
  <1> QED BY ConversionInductive, <1>1, PTL

\* A journal in committing has every cursor at the end of its store.
LEMMA CommittingConverted == ConversionInv => ConvertedAtCommit
  <1> SUFFICES ASSUME ConversionInv, journal.phase = "committing",
                      NEW s \in Stores, NEW k \in Records
               PROVE  rec[s][k] = TargetForm(journal)
    BY DEF ConvertedAtCommit
  <1>1. AllDone(journal) /\ \A r \in Stores : journal.stores[r].done =>
                                                journal.stores[r].cursor = NRecords
    BY DEF ConversionInv, FenceInv, JournalInv, Copy, Sound, LatePhases
  <1>2. k <= journal.stores[s].cursor
    BY <1>1, ConstantsOK DEF AllDone, Records
  <1> QED BY <1>2 DEF ConversionInv, BehindCursorConverted, Active

\* And when the old key is about to be dropped no record needs it.
THEOREM CommitHolds == ASSUME LiveLeaseExpiry = FALSE PROVE Spec => []ConvertedAtCommit
  BY ConversionInductive, CommittingConverted, PTL

-----------------------------------------------------------------------------
(* Progress: what one migration has recorded never goes back.              *)

\* A checkpoint never goes back.
Ahead(c, d) ==
  /\ c.cursor <= d.cursor
  /\ c.done => d.done
  /\ c.verified => d.verified

\* How the stored journal j may become n while the same migration runs.
MovesOn(j, n) ==
  /\ n.kind = j.kind /\ n.target = j.target
  /\ n.phase \in NextPhases(j.phase)
  /\ \A s \in Stores : Ahead(j.stores[s], n.stores[s])

\* A compare-and-swap that saves n, a successor of the copy j in hand.
LEMMA SavedMovesOn ==
  ASSUME NEW j \in Journal, NEW n \in Journal, Agrees(j, journal), Current(j), j.op # 0,
         journal' = Renewed(n) \/ \E l \in {"free", "live", "expired"} :
                                     journal' = [Renewed(n) EXCEPT !.lease = l],
         MovesOn(j, n)
  PROVE  MovesOn(journal, journal')
  <1>1. /\ journal.phase = j.phase /\ journal.stores = j.stores
        /\ journal.kind = j.kind /\ journal.target = j.target
    BY DEF Agrees, Current
  <1>2. Renewed(n) \in Journal
    BY Constructors
  <1>3. /\ journal'.phase = n.phase /\ journal'.stores = n.stores
        /\ journal'.kind = n.kind /\ journal'.target = n.target
    BY <1>2, RenewedFields DEF Journal
  <1> QED BY <1>1, <1>3 DEF MovesOn

\* What a checkpoint or a verified store does to a journal.
LEMMA SuccessorsMoveOn ==
  ASSUME NEW j \in Journal
  PROVE  /\ MovesOn(j, j)
         /\ \A p \in NextPhases(j.phase) \cap Phases : MovesOn(j, [j EXCEPT !.phase = p])
         /\ \A s \in Stores : ~j.stores[s].done => MovesOn(j, [j EXCEPT !.stores[s] = Advanced(@)])
         /\ \A s : MovesOn(j, [j EXCEPT !.stores[s].verified = TRUE])
                   /\ [j EXCEPT !.stores[s].verified = TRUE] \in Journal
  <1>1. j.stores \in [Stores -> Checkpoint] /\ j.phase \in Phases
    BY DEF Journal
  <1>2. j.phase \in NextPhases(j.phase)
    BY <1>1 DEF NextPhases, Phases
  <1>3. \A s \in Stores : Ahead(j.stores[s], j.stores[s])
    <2> SUFFICES ASSUME NEW s \in Stores PROVE Ahead(j.stores[s], j.stores[s])
      OBVIOUS
    <2>1. j.stores[s].cursor \in Nat
      BY <1>1, ConstantsOK DEF Checkpoint
    <2> QED BY <2>1 DEF Ahead
  <1>4. MovesOn(j, j)
    BY <1>2, <1>3 DEF MovesOn
  <1>5. ASSUME NEW p \in NextPhases(j.phase) \cap Phases PROVE MovesOn(j, [j EXCEPT !.phase = p])
    <2> DEFINE n == [j EXCEPT !.phase = p]
    <2>1. n.kind = j.kind /\ n.target = j.target /\ n.phase = p /\ n.stores = j.stores
      BY DEF Journal
    <2> QED BY <1>3, <2>1 DEF MovesOn
  <1>6. ASSUME NEW s \in Stores, ~j.stores[s].done
        PROVE  MovesOn(j, [j EXCEPT !.stores[s] = Advanced(@)])
    <2> DEFINE n == [j EXCEPT !.stores[s] = Advanced(@)]
               c == j.stores[s]
    <2>1. /\ n.kind = j.kind /\ n.target = j.target /\ n.phase = j.phase
          /\ n.stores = [j.stores EXCEPT ![s] = Advanced(@)]
      BY DEF Journal
    <2>2. \A r \in Stores : n.stores[r] = IF r = s THEN Advanced(c) ELSE j.stores[r]
      BY <1>1, <2>1
    <2>3. c \in Checkpoint /\ ~c.done
      BY <1>1, <1>6
    <2> HIDE DEF c
    <2>4. /\ c.cursor \in 0..NRecords
          /\ Advanced(c).cursor = IF c.cursor + BatchSize < NRecords
                                  THEN c.cursor + BatchSize ELSE NRecords
          /\ Advanced(c).verified = c.verified
      BY <2>3 DEF Advanced, Checkpoint
    <2>5. Ahead(c, Advanced(c))
      BY <2>3, <2>4, ConstantsOK DEF Ahead
    <2> HIDE DEF n
    <2>6. ASSUME NEW r \in Stores PROVE Ahead(j.stores[r], n.stores[r])
      <3>1. CASE r = s
        BY <2>2, <2>5, <3>1 DEF c
      <3>2. CASE r # s
        BY <1>3, <2>2, <3>2
      <3> QED BY <3>1, <3>2
    <2> QED BY <1>2, <2>1, <2>6 DEF MovesOn, n
  <1>7. ASSUME NEW s
        PROVE  MovesOn(j, [j EXCEPT !.stores[s].verified = TRUE])
               /\ [j EXCEPT !.stores[s].verified = TRUE] \in Journal
    <2> DEFINE n == [j EXCEPT !.stores[s].verified = TRUE]
    <2>1. /\ n.kind = j.kind /\ n.target = j.target /\ n.phase = j.phase
          /\ n.stores = [j.stores EXCEPT ![s].verified = TRUE]
      BY DEF Journal
    <2>2. \A r \in Stores : /\ n.stores[r].cursor = j.stores[r].cursor
                            /\ n.stores[r].done = j.stores[r].done
                            /\ j.stores[r].verified => n.stores[r].verified
      <3> SUFFICES ASSUME NEW r \in Stores
                   PROVE  /\ n.stores[r].cursor = j.stores[r].cursor
                          /\ n.stores[r].done = j.stores[r].done
                          /\ j.stores[r].verified => n.stores[r].verified
        OBVIOUS
      <3>1. CASE r = s
        <4>1. n.stores[r] = [j.stores[r] EXCEPT !.verified = TRUE] /\ j.stores[r] \in Checkpoint
          BY <1>1, <2>1, <3>1
        <4> QED BY <4>1 DEF Checkpoint
      <3>2. CASE r # s
        BY <1>1, <2>1, <3>2
      <3> QED BY <3>1, <3>2
    <2>3. \A r \in Stores : j.stores[r].cursor \in Nat
      BY <1>1, ConstantsOK DEF Checkpoint
    <2>4. n \in Journal
      <3>1. CASE s \in Stores
        BY <3>1, JournalUpdates
      <3>2. CASE s \notin Stores
        <4>1. [j.stores EXCEPT ![s].verified = TRUE] = j.stores
          BY <1>1, <3>2
        <4>2. n = [j EXCEPT !.stores = [j.stores EXCEPT ![s].verified = TRUE]]
          OBVIOUS
        <4> QED BY <4>1, <4>2 DEF Journal
      <3> QED BY <3>1, <3>2
    <2> HIDE DEF n
    <2>5. \A r \in Stores : Ahead(j.stores[r], n.stores[r])
      BY <2>2, <2>3 DEF Ahead
    <2> QED BY <1>2, <2>1, <2>4, <2>5 DEF MovesOn, n
  <1> QED BY <1>4, <1>5, <1>6, <1>7

\* The two updates a runner saves, whole.
LEMMA PhaseMovesOn ==
  ASSUME NEW j \in Journal, NEW p \in NextPhases(j.phase) \cap Phases
  PROVE  LET n == [j EXCEPT !.phase = p]
         IN  n \in Journal /\ n.op = j.op /\ MovesOn(j, n)
  <1> DEFINE n == [j EXCEPT !.phase = p]
  <1>1. n \in Journal
    BY JournalUpdates
  <1>2. n.op = j.op
    BY DEF Journal
  <1>3. MovesOn(j, n)
    BY SuccessorsMoveOn
  <1> QED BY <1>1, <1>2, <1>3

LEMMA CheckpointMovesOn ==
  ASSUME NEW j \in Journal, NEW s \in Stores, ~j.stores[s].done
  PROVE  LET n == [j EXCEPT !.stores[s] = Advanced(@)]
         IN  n \in Journal /\ n.op = j.op /\ MovesOn(j, n)
  <1> DEFINE n == [j EXCEPT !.stores[s] = Advanced(@)]
  <1>1. n \in Journal
    BY JournalUpdates
  <1>2. n.op = j.op
    BY DEF Journal
  <1>3. MovesOn(j, n)
    BY SuccessorsMoveOn
  <1> QED BY <1>1, <1>2, <1>3

\* What a step may do to the stored journal: nothing or the next save of the
\* migration that runs, the begin of another one, or its removal.
LEMMA JournalMoves ==
  ASSUME FenceInv, [Next]_vars
  PROVE  \/ journal'.op = journal.op /\ MovesOn(journal, journal')
         \/ journal'.op = ops + 1 /\ ops' = ops + 1 /\ ~Active(journal)
         \/ journal' = NoJournal /\ ~Active(journal)
  <1> DEFINE Goal == \/ journal'.op = journal.op /\ MovesOn(journal, journal')
                     \/ journal'.op = ops + 1 /\ ops' = ops + 1 /\ ~Active(journal)
                     \/ journal' = NoJournal /\ ~Active(journal)
  <1>a. /\ journal \in Journal /\ ops \in Nat
        /\ \A t \in Tabs : op[t].j \in Journal /\ Sound(op[t].j) /\ Agrees(op[t].j, journal)
                           /\ op[t].j.phase \in PhaseAt(op[t].pc) /\ op[t].pc \in Pcs
    BY Constructors DEF FenceInv, TypeOK, JournalInv, TabInv, Copy
  <1>b. journal' = journal => Goal
    BY <1>a, SuccessorsMoveOn
  <1>c. ASSUME NEW t \in Tabs, NEW n \in Journal, n.op = op[t].j.op, Current(op[t].j),
               op[t].j.phase # "none",
               journal' = Renewed(n) \/ \E l \in {"free", "live", "expired"} :
                                           journal' = [Renewed(n) EXCEPT !.lease = l],
               MovesOn(op[t].j, n)
        PROVE  Goal
    <2>1. op[t].j.op # 0
      BY <1>a, <1>c DEF Sound
    <2>2. MovesOn(journal, journal')
      BY <1>a, <1>c, <2>1, SavedMovesOn
    <2>3. Renewed(n) \in Journal /\ Renewed(n).op = n.op
      BY RenewedFields, Constructors
    <2>4. journal'.op = n.op
      BY <1>c, <2>3 DEF Journal
    <2> QED BY <1>c, <2>2, <2>4 DEF Current
  <1>0. CASE UNCHANGED vars
    BY <1>0, <1>b DEF vars
  <1>1. CASE LeaseExpires
    <2>1. /\ journal'.op = journal.op /\ journal'.kind = journal.kind
          /\ journal'.target = journal.target /\ journal'.phase = journal.phase
          /\ journal'.stores = journal.stores
      BY <1>1, <1>a DEF LeaseExpires, Journal
    <2>2. MovesOn(journal, journal)
      BY <1>a, SuccessorsMoveOn
    <2> QED BY <2>1, <2>2 DEF MovesOn
  <1>2. ASSUME NEW t \in Tabs,
               \/ \E p \in Passes : SetupAdmit(t, p) \/ RotateAdmit(t, p)
               \/ SetupSave(t) \/ SetupInstall(t) \/ UnlockRead(t)
               \/ UnlockInstall(t) \/ LockSession(t) \/ DisableAdmit(t)
               \/ BeginRefused(t) \/ MigrateNext(t) \/ Verify(t)
               \/ RetireSentinel(t) \/ ClearSalt(t) \/ ReplaceSentinel(t)
               \/ Finish(t) \/ Reload(t) \/ Boot(t) \/ WriteBegin(t) \/ SentinelSeen(t)
               \/ WriteCheck(t)
               \/ \E st \in Stores, k \in Records : WritePut(t, st, k)
               \/ \E sp, tp \in Passes : Resume(t, sp, tp)
        PROVE  Goal
    <2>1. journal' = journal
      BY <1>2 DEF SetupAdmit, RotateAdmit, SetupSave, SetupInstall, UnlockRead,
           UnlockInstall, LockSession, DisableAdmit, BeginRefused, MigrateNext, Verify,
           RetireSentinel, ClearSalt, ReplaceSentinel, Finish, Reload, Boot, WriteBegin,
           SentinelSeen, WriteCheck, WritePut, Resume
    <2> QED BY <1>b, <2>1
  <1>3. ASSUME NEW t \in Tabs, Begin(t) \/ ClearCompleted(t) PROVE Goal
    <2>1. CASE Begin(t)
      <3>1. ops' = ops + 1 /\ ~Active(journal)
        BY <2>1 DEF Begin
      <3>2. journal'.op = ops + 1
        BY <2>1 DEF Begin, NoJournal
      <3> QED BY <3>1, <3>2
    <2>2. CASE ClearCompleted(t)
      BY <2>2 DEF ClearCompleted
    <2> QED BY <1>3, <2>1, <2>2
  <1>4. ASSUME NEW t \in Tabs, Claim(t) \/ Abort(t) PROVE Goal
    <2>1. CASE journal' = journal
      BY <1>b, <2>1
    <2>2. CASE journal' # journal
      <3>1. /\ Current(op[t].j) /\ op[t].pc \in {"claim"} \cup RunnerPcs
            /\ \E l \in {"free", "live", "expired"} :
                 journal' = [Renewed(op[t].j) EXCEPT !.lease = l]
        BY <1>4, <2>2 DEF Claim, Abort, Is
      <3>2. op[t].j.phase # "none"
        <4>1. PhaseAt("claim") = {"prepared", "migrating", "verifying"}
          BY DEF PhaseAt
        <4> QED BY <1>a, <3>1, <4>1, RunnerPhases
      <3>3. MovesOn(op[t].j, op[t].j)
        BY <1>a, SuccessorsMoveOn
      <3> QED BY <1>a, <1>c, <3>1, <3>2, <3>3
    <2> QED BY <2>1, <2>2
  <1>5. ASSUME NEW t \in Tabs,
               \/ Start(t) \/ EndMigrating(t) \/ EndVerifying(t) \/ Complete(t)
        PROVE  Goal
    <2> DEFINE j == op[t].j
    <2>1. PICK ph, pc : /\ ph \in NextPhases(journal.phase) \cap Phases /\ Current(j)
                        /\ SaveAndGoto(t, [j EXCEPT !.phase = ph], pc)
      BY <1>5 DEF Start, EndMigrating, EndVerifying, Complete, CanSave, Phases
    <2>2. op[t].pc \in RunnerPcs \cup {"complete"}
      BY <1>5 DEF Start, EndMigrating, EndVerifying, Complete, Is, RunnerPcs
    <2>3. j.phase = journal.phase /\ j.phase # "none"
      <3>1. PhaseAt("complete") = {"committing"}
        BY DEF PhaseAt
      <3>2. j.phase # "none"
        BY <1>a, <2>2, <3>1, RunnerPhases
      <3> QED BY <1>a, <2>1, <3>2 DEF Agrees, Current
    <2>4. /\ [j EXCEPT !.phase = ph] \in Journal /\ [j EXCEPT !.phase = ph].op = j.op
          /\ MovesOn(j, [j EXCEPT !.phase = ph])
      <3>1. j \in Journal /\ ph \in NextPhases(j.phase) \cap Phases
        BY <1>a, <2>1, <2>3
      <3> HIDE DEF j
      <3> QED BY <3>1, PhaseMovesOn
    <2>5. journal' = Renewed([j EXCEPT !.phase = ph])
      BY <2>1 DEF SaveAndGoto
    <2> HIDE DEF j
    <2> QED BY <1>c, <2>1, <2>3, <2>4, <2>5 DEF j
  <1>6. ASSUME NEW t \in Tabs, SaveCheckpoint(t) PROVE Goal
    <2> DEFINE j == op[t].j
    <2>1. PICK s \in Stores :
            /\ ~j.stores[s].done
            /\ journal' = Renewed([j EXCEPT !.stores[s] = Advanced(@)])
      BY <1>6 DEF SaveCheckpoint, SaveAndGoto, AtStore
    <2>2. Current(j) /\ op[t].pc = "checkpoint"
      BY <1>6 DEF SaveCheckpoint, CanSave, Is
    <2>3. j.phase # "none"
      BY <1>a, <2>2, RunnerPhases DEF RunnerPcs
    <2> DEFINE n == [j EXCEPT !.stores[s] = Advanced(@)]
    <2>4. n \in Journal /\ n.op = j.op /\ MovesOn(j, n)
      <3>1. j \in Journal
        BY <1>a
      <3> HIDE DEF j
      <3> QED BY <2>1, <3>1, CheckpointMovesOn
    <2>5. journal' = Renewed(n)
      BY <2>1
    <2> HIDE DEF n
    <2> QED BY <1>c, <2>2, <2>3, <2>4, <2>5
  <1>7. ASSUME NEW t \in Tabs, SaveVerified(t) PROVE Goal
    <2> DEFINE j == op[t].j
    <2>1. PICK s : journal' = Renewed([j EXCEPT !.stores[s].verified = TRUE])
      BY <1>7 DEF SaveVerified, SaveAndGoto
    <2>2. Current(j) /\ op[t].pc = "verified"
      BY <1>7 DEF SaveVerified, CanSave, Is
    <2>3. j.phase # "none"
      BY <1>a, <2>2, RunnerPhases DEF RunnerPcs
    <2> DEFINE n == [j EXCEPT !.stores[s].verified = TRUE]
    <2>4. n \in Journal /\ n.op = j.op /\ MovesOn(j, n)
      BY <1>a, SuccessorsMoveOn DEF Journal
    <2>5. journal' = Renewed(n)
      BY <2>1
    <2> HIDE DEF n
    <2> QED BY <1>c, <2>2, <2>3, <2>4, <2>5
  <1> QED BY <1>0, <1>1, <1>2, <1>3, <1>4, <1>5, <1>6, <1>7, NextCases

\* The transitions of the saga follow the order of the phases.
LEMMA PhasesOrdered ==
  ASSUME NEW p \in Phases, NEW q \in NextPhases(p)
  PROVE  PhaseOrder[p] <= PhaseOrder[q]
  <1>1. /\ PhaseOrder["none"] = 0 /\ PhaseOrder["prepared"] = 1
        /\ PhaseOrder["migrating"] = 2 /\ PhaseOrder["verifying"] = 3
        /\ PhaseOrder["committing"] = 4 /\ PhaseOrder["completed"] = 5
    BY DEF PhaseOrder, Phases
  <1>2. p \in {"none", "prepared", "migrating", "verifying", "committing", "completed"}
    BY DEF Phases
  <1>3. CASE p = "prepared"
    BY <1>1, <1>3 DEF NextPhases
  <1>4. CASE p = "migrating"
    BY <1>1, <1>4 DEF NextPhases
  <1>5. CASE p = "verifying"
    BY <1>1, <1>5 DEF NextPhases
  <1>6. CASE p = "committing"
    BY <1>1, <1>6 DEF NextPhases
  <1>7. CASE p \in {"none", "completed"}
    BY <1>1, <1>7 DEF NextPhases
  <1> QED BY <1>2, <1>3, <1>4, <1>5, <1>6, <1>7

\* The durable progress of a migration never goes back, with leases that may
\* run out at any time: the compare-and-swap alone is enough.
THEOREM ProgressIsKept == Spec => CheckpointsMonotone
  <1>1. FenceInv /\ [Next]_vars => [NoRegress]_vars
    <2> SUFFICES ASSUME FenceInv, [Next]_vars, journal.op # 0, journal'.op = journal.op
                 PROVE  /\ PhaseOrder[journal.phase] <= PhaseOrder[journal'.phase]
                        /\ \A s \in Stores :
                             /\ journal.stores[s].cursor <= journal'.stores[s].cursor
                             /\ journal.stores[s].done => journal'.stores[s].done
                             /\ journal.stores[s].verified => journal'.stores[s].verified
      BY DEF NoRegress
    <2>1. journal.op <= ops /\ journal \in Journal /\ ops \in Nat
      BY DEF FenceInv, TypeOK, JournalInv, Copy
    <2>2. journal'.op # ops + 1 /\ journal' # NoJournal
      BY <2>1 DEF NoJournal, Journal
    <2>3. MovesOn(journal, journal')
      BY <2>2, JournalMoves
    <2>4. journal.phase \in Phases
      BY <2>1 DEF Journal
    <2> QED BY <2>3, <2>4, PhasesOrdered DEF MovesOn, Ahead
  <1> QED BY <1>1, FenceInductive, PTL DEF Spec, CheckpointsMonotone

-----------------------------------------------------------------------------
(* The commit and the old verifier.                                         *)

\* What an operation is about to do with the sentinel is what its journal says.
Faithful(o) ==
  /\ o.pc \in {"begin", "claim", "replace"} \cup RunnerPcs => o.tgt = o.j.target
  /\ o.pc = "retire" => o.j.kind = "disable"
  /\ o.pc = "replace" => o.j.kind = "rekey"
FaithfulInv == \A t \in Tabs : Faithful(op[t])

\* The empty journal is about nothing.
LEMMA NoJournalFields ==
  /\ NoJournal.op = 0 /\ NoJournal.rev = 0 /\ NoJournal.phase = "none"
  /\ NoJournal.kind = "disable" /\ NoJournal.target = None
  BY DEF NoJournal

\* A successor of a journal is about the same migration.
LEMMA SuccessorFields ==
  ASSUME NEW j \in Journal
  PROVE  /\ Renewed(j).kind = j.kind /\ Renewed(j).target = j.target
         /\ \A l : LET n == [j EXCEPT !.lease = l]
                   IN n.kind = j.kind /\ n.target = j.target
         /\ \A p : LET n == [j EXCEPT !.phase = p]
                   IN n.kind = j.kind /\ n.target = j.target
         /\ \A s : LET n == [j EXCEPT !.stores[s] = Advanced(@)]
                   IN n.kind = j.kind /\ n.target = j.target
         /\ \A s : LET n == [j EXCEPT !.stores[s].verified = TRUE]
                   IN n.kind = j.kind /\ n.target = j.target
  BY DEF Journal, Renewed

\* A step that changes the operation of one tab only.
LEMMA FaithfulOthers ==
  ASSUME FaithfulInv, op \in [Tabs -> Operation], NEW t \in Tabs, NEW o,
         op' = [op EXCEPT ![t] = o], Faithful(o)
  PROVE  FaithfulInv'
  BY DEF FaithfulInv

\* Saving a successor n of the journal in hand keeps what the operation is about.
LEMMA FaithfulSave ==
  ASSUME FaithfulInv, op \in [Tabs -> Operation], NEW t \in Tabs, NEW n \in Journal, NEW pc,
         SaveAndGoto(t, n, pc), op[t].pc \in RunnerPcs \cup {"complete"},
         n.kind = op[t].j.kind, n.target = op[t].j.target,
         pc \in RunnerPcs \cup {CommitPc(op[t].j), "clear"},
         op[t].pc = "complete" => pc = "clear"
  PROVE  FaithfulInv'
  <1> DEFINE o == [op[t] EXCEPT !.j = Renewed(n), !.pc = pc]
  <1>1. op' = [op EXCEPT ![t] = o]
    BY DEF SaveAndGoto
  <1>2. Renewed(n).kind = op[t].j.kind /\ Renewed(n).target = op[t].j.target
    BY SuccessorFields
  <1>3. o.pc = pc /\ o.j = Renewed(n) /\ o.tgt = op[t].tgt
    BY DEF Operation
  <1>4. op[t].pc \in RunnerPcs => op[t].tgt = op[t].j.target
    BY DEF FaithfulInv, Faithful
  <1>5. op[t].j \in Journal
    BY Constructors
  <1>6. CommitPc(op[t].j) = IF op[t].j.kind = "disable" THEN "retire" ELSE "replace"
    BY DEF CommitPc
  <1> HIDE DEF o
  <1>7. Faithful(o)
    BY <1>2, <1>3, <1>4, <1>5, <1>6 DEF Faithful, RunnerPcs, Journal
  <1> QED BY <1>1, <1>7, FaithfulOthers

LEMMA FaithfulInit == Init => FaithfulInv
  BY DEF Init, FaithfulInv, Faithful, Idle, At, RunnerPcs

LEMMA FaithfulStep == TypeOK /\ FaithfulInv /\ [Next]_vars => FaithfulInv'
  <1> SUFFICES ASSUME TypeOK, FaithfulInv, [Next]_vars PROVE FaithfulInv'
    OBVIOUS
  <1>a. op \in [Tabs -> Operation] /\ journal \in Journal /\ modal \in [Tabs -> Journal]
    BY DEF TypeOK
  <1>b. \A t \in Tabs : op[t] \in Operation /\ op[t].j \in Journal /\ Faithful(op[t])
    BY <1>a, Constructors DEF FaithfulInv
  <1>0. CASE UNCHANGED vars
    BY <1>0 DEF vars, FaithfulInv
  <1>1. ASSUME op' = op PROVE FaithfulInv'
    BY <1>1 DEF FaithfulInv
  <1>2. ASSUME NEW t \in Tabs, \E p \in Passes : RotateAdmit(t, p) PROVE FaithfulInv'
    <2>1. PICK p \in Passes : RotateAdmit(t, p)
      BY <1>2
    <2> DEFINE r == [pass |-> p, salt |-> salt]
               o == [At("begin") EXCEPT !.j.kind = "rekey", !.src = sentinel,
                                        !.j.target = r, !.tgt = r]
    <2>2. op' = [op EXCEPT ![t] = o]
      BY <2>1 DEF RotateAdmit
    <2>3. o.pc = "begin" /\ o.tgt = r /\ o.j.target = r
      BY DEF At, NoJournal
    <2> HIDE DEF o, r
    <2>4. Faithful(o)
      BY <2>3 DEF Faithful
    <2> QED BY <1>a, <2>2, <2>4, FaithfulOthers
  <1>3. ASSUME NEW t \in Tabs, DisableAdmit(t) PROVE FaithfulInv'
    <2> DEFINE o == [At("begin") EXCEPT !.j.kind = "disable", !.src = activeKey[t]]
    <2>1. op' = [op EXCEPT ![t] = o]
      BY <1>3 DEF DisableAdmit
    <2>2. o.pc = "begin" /\ o.tgt = None /\ o.j.target = None
      BY DEF At, NoJournal
    <2> HIDE DEF o
    <2>3. Faithful(o)
      BY <2>2 DEF Faithful
    <2> QED BY <1>a, <2>1, <2>3, FaithfulOthers
  <1>4. ASSUME NEW t \in Tabs, Begin(t) PROVE FaithfulInv'
    <2> DEFINE o == [op[t] EXCEPT !.j = journal', !.pc = "claim"]
    <2>1. op' = [op EXCEPT ![t] = o] /\ op[t].pc = "begin" /\ journal'.target = op[t].j.target
      BY <1>4, NoJournalFields DEF Begin, Is, NoJournal
    <2>2. o.pc = "claim" /\ o.tgt = op[t].tgt /\ o.j = journal'
      BY <1>b DEF Operation
    <2> HIDE DEF o
    <2>3. Faithful(o)
      BY <1>b, <2>1, <2>2 DEF Faithful
    <2> QED BY <1>a, <2>1, <2>3, FaithfulOthers
  <1>5. ASSUME NEW t \in Tabs, Claim(t) PROVE FaithfulInv'
    <2> DEFINE n == [Renewed(op[t].j) EXCEPT !.lease = "live"]
    <2>1. PICK pc \in RunnerPcs : op' = [op EXCEPT ![t] = [op[t] EXCEPT !.j = n, !.pc = pc]]
      BY <1>5 DEF Claim, MigratingPc, RunnerPcs
    <2>2. n.target = op[t].j.target
      <3>1. Renewed(op[t].j) \in Journal
        BY <1>b, Constructors
      <3> QED BY <1>b, <3>1, SuccessorFields
    <2>3. op[t].tgt = op[t].j.target
      BY <1>5, <1>b DEF Claim, Is, Faithful
    <2> HIDE DEF n
    <2> DEFINE o == [op[t] EXCEPT !.j = n, !.pc = pc]
    <2>4. o.pc = pc /\ o.tgt = op[t].tgt /\ o.j = n
      BY <1>b DEF Operation
    <2> HIDE DEF o
    <2>5. Faithful(o)
      BY <2>1, <2>2, <2>3, <2>4 DEF Faithful, RunnerPcs
    <2> QED BY <1>a, <2>1, <2>5, FaithfulOthers DEF o
  <1>6. ASSUME NEW t \in Tabs,
               Start(t) \/ EndMigrating(t) \/ EndVerifying(t) \/ Complete(t)
        PROVE  FaithfulInv'
    <2>1. PICK p \in Phases, pc \in RunnerPcs \cup {CommitPc(op[t].j), "clear"} :
            /\ SaveAndGoto(t, [op[t].j EXCEPT !.phase = p], pc)
            /\ op[t].pc \in RunnerPcs \cup {"complete"}
            /\ op[t].pc = "complete" => pc = "clear"
      BY <1>6 DEF Start, EndMigrating, EndVerifying, Complete, Is, RunnerPcs, Phases
    <2>2. [op[t].j EXCEPT !.phase = p] \in Journal
      BY <1>b, JournalUpdates
    <2> QED BY <1>a, <1>b, <2>1, <2>2, SuccessorFields, FaithfulSave
  <1>7. ASSUME NEW t \in Tabs, SaveCheckpoint(t) PROVE FaithfulInv'
    <2>1. PICK s \in Stores :
            LET n == [op[t].j EXCEPT !.stores[s] = Advanced(@)]
            IN SaveAndGoto(t, n, MigratingPc(n))
      BY <1>7 DEF SaveCheckpoint
    <2> DEFINE n == [op[t].j EXCEPT !.stores[s] = Advanced(@)]
    <2>2. n \in Journal /\ n.kind = op[t].j.kind /\ n.target = op[t].j.target
      BY <1>b, JournalUpdates, SuccessorFields
    <2>3. SaveAndGoto(t, n, MigratingPc(n)) /\ op[t].pc = "checkpoint"
      BY <1>7, <2>1 DEF SaveCheckpoint, Is
    <2> HIDE DEF n
    <2>4. MigratingPc(n) \in RunnerPcs /\ "checkpoint" \in RunnerPcs
      BY DEF MigratingPc, RunnerPcs
    <2> QED BY <1>a, <2>2, <2>3, <2>4, FaithfulSave
  <1>8. ASSUME NEW t \in Tabs, SaveVerified(t) PROVE FaithfulInv'
    <2> DEFINE s == CHOOSE r \in ToVerify(op[t].j) : \A q \in ToVerify(op[t].j) : r <= q
               n == [op[t].j EXCEPT !.stores[s].verified = TRUE]
    <2>1. SaveAndGoto(t, n, "verify") /\ op[t].pc = "verified"
      BY <1>8 DEF SaveVerified, Is
    <2> HIDE DEF s
    <2>2. n \in Journal /\ n.kind = op[t].j.kind /\ n.target = op[t].j.target
      <3>1. n.kind = op[t].j.kind /\ n.target = op[t].j.target
        BY <1>b, SuccessorFields
      <3>2. CASE s \in Stores
        BY <1>b, <3>1, <3>2, JournalUpdates
      <3>3. CASE s \notin Stores
        <4>1. [op[t].j.stores EXCEPT ![s].verified = TRUE] = op[t].j.stores
          BY <1>b, <3>3 DEF Journal
        <4>2. n = [op[t].j EXCEPT !.stores = [op[t].j.stores EXCEPT ![s].verified = TRUE]]
          OBVIOUS
        <4>3. n = op[t].j
          BY <1>b, <4>1, <4>2 DEF Journal
        <4> QED BY <1>b, <3>1, <4>3
      <3> QED BY <3>2, <3>3
    <2> HIDE DEF n
    <2>3. "verify" \in RunnerPcs /\ "verified" \in RunnerPcs
      BY DEF RunnerPcs
    <2> QED BY <1>a, <2>1, <2>2, <2>3, FaithfulSave
  <1>9. ASSUME NEW t \in Tabs, MigrateNext(t) \/ Verify(t) PROVE FaithfulInv'
    <2>1. PICK pc \in RunnerPcs : Goto(t, pc) /\ op[t].pc \in RunnerPcs
      BY <1>9 DEF MigrateNext, Verify, Is, RunnerPcs
    <2> DEFINE o == [op[t] EXCEPT !.pc = pc]
    <2>2. op' = [op EXCEPT ![t] = o]
      BY <2>1 DEF Goto
    <2>3. o.pc = pc /\ o.tgt = op[t].tgt /\ o.j = op[t].j
      BY <1>b DEF Operation
    <2> HIDE DEF o
    <2>4. Faithful(o)
      BY <1>b, <2>1, <2>3 DEF Faithful, RunnerPcs
    <2> QED BY <1>a, <2>2, <2>4, FaithfulOthers
  \* Steps after which the operation is no longer about the sentinel.
  <1>10. ASSUME NEW t \in Tabs, NEW o, op' = [op EXCEPT ![t] = o],
                o.pc \in Pcs \ ({"begin", "claim", "retire", "replace"} \cup RunnerPcs)
         PROVE  FaithfulInv'
    <2>1. Faithful(o)
      BY <1>10 DEF Faithful
    <2> QED BY <1>a, <1>10, <2>1, FaithfulOthers
  <1>11. ASSUME NEW t \in Tabs,
                \/ \E p \in Passes : SetupAdmit(t, p)
                \/ SetupSave(t) \/ SetupInstall(t) \/ UnlockRead(t) \/ UnlockInstall(t)
                \/ LockSession(t) \/ BeginRefused(t) \/ RetireSentinel(t) \/ ClearSalt(t)
                \/ ReplaceSentinel(t) \/ ClearCompleted(t) \/ Finish(t) \/ Abort(t)
                \/ Reload(t) \/ Boot(t)
         PROVE  FaithfulInv'
    <2> DEFINE o == op'[t]
    <2>1. op' = [op EXCEPT ![t] = o]
      BY <1>11, <1>a
         DEF SetupAdmit, SetupSave, SetupInstall, UnlockRead, UnlockInstall, LockSession,
             BeginRefused, RetireSentinel, ClearSalt, ReplaceSentinel, ClearCompleted,
             Finish, Abort, Reload, Boot, Goto, Quit
    <2>2. o.pc \in {"saveSentinel", "install", "idle", "unlock", "prompt", "clearSalt",
                    "complete", "finish", "boot"}
      <3>1. CASE \/ \E p \in Passes : SetupAdmit(t, p)
                 \/ UnlockRead(t) \/ Reload(t)
        BY <3>1, <1>a DEF SetupAdmit, UnlockRead, Reload, At
      <3>2. CASE \/ SetupInstall(t) \/ UnlockInstall(t) \/ BeginRefused(t) \/ Finish(t)
                 \/ Abort(t)
        BY <3>2, <1>a DEF SetupInstall, UnlockInstall, BeginRefused, Finish, Abort, Quit,
                          Idle, At
      <3>3. CASE \/ SetupSave(t) \/ LockSession(t) \/ RetireSentinel(t) \/ ClearSalt(t)
                 \/ ReplaceSentinel(t) \/ ClearCompleted(t) \/ Boot(t)
        BY <3>3, <1>a, <1>b DEF SetupSave, LockSession, RetireSentinel, ClearSalt,
             ReplaceSentinel, ClearCompleted, Boot, Goto, Operation
      <3> QED BY <1>11, <3>1, <3>2, <3>3
    <2> HIDE DEF o
    <2> QED BY <1>10, <2>1, <2>2 DEF Pcs, RunnerPcs, CommitPcs
  <1>12. ASSUME NEW t \in Tabs, NEW sp \in Passes, NEW tp \in Passes, Resume(t, sp, tp)
         PROVE  FaithfulInv'
    <2> DEFINE o == op'[t]
    <2>1. op' = [op EXCEPT ![t] = o]
      BY <1>12, <1>a DEF Resume, ResumeCommit, ResumeRun
    <2>2. CASE ResumeRun(t, sp, tp)
      <3>1. o.pc = "claim" /\ o.j = modal[t] /\ o.tgt = modal[t].target
        BY <2>2, <1>a DEF ResumeRun
      <3> HIDE DEF o
      <3>2. Faithful(o)
        BY <3>1 DEF Faithful
      <3> QED BY <1>a, <2>1, <3>2, FaithfulOthers
    <2>3. CASE ResumeCommit(t, sp, tp)
      <3>1. /\ o.j = modal[t] /\ o.pc \in {"complete", "retire", "replace"}
            /\ o.pc = "retire" => modal[t].kind = "disable"
            /\ o.pc = "replace" => modal[t].kind = "rekey" /\ o.tgt = modal[t].target
        BY <2>3, <1>a DEF ResumeCommit, At
      <3> HIDE DEF o
      <3>2. Faithful(o)
        BY <3>1 DEF Faithful, RunnerPcs
      <3> QED BY <1>a, <2>1, <3>2, FaithfulOthers
    <2> QED BY <1>12, <2>2, <2>3 DEF Resume
  <1>13. CASE LeaseExpires
    BY <1>1, <1>13 DEF LeaseExpires
  <1>14. ASSUME NEW t \in Tabs,
                \/ WriteBegin(t) \/ SentinelSeen(t) \/ WriteCheck(t)
                \/ \E st \in Stores, k \in Records : WritePut(t, st, k)
         PROVE  FaithfulInv'
    BY <1>1, <1>14 DEF WriteBegin, SentinelSeen, WriteCheck, WritePut
  <1> QED BY <1>0, <1>2, <1>3, <1>4, <1>5, <1>6, <1>7, <1>8, <1>9, <1>11, <1>12, <1>13,
             <1>14, NextCases

\* The verifier of the old key is the only way back to it.  As long as no live
\* runner loses its lease, a commit of the stored journal takes it away only
\* when no record needs it, whichever tab commits, mistyped passphrases,
\* failing calls and crashes included.
THEOREM VerifierIsKept ==
  ASSUME LiveLeaseExpiry = FALSE
  PROVE  Spec => SentinelKeptWhileNeeded
  <1>1. ConversionInv /\ FaithfulInv /\ [Next]_vars => [VerifierKept]_vars
    <2> SUFFICES ASSUME ConversionInv, FaithfulInv, [Next]_vars,
                        sentinel # None, sentinel' # sentinel,
                        \A t \in Tabs : op'[t] # op[t] =>
                                          ~Is(t, "saveSentinel") /\ Current(op[t].j),
                        NEW s \in Stores, NEW k \in Records
                 PROVE  rec[s][k] # sentinel
      BY DEF VerifierKept
    <2>1. PICK t \in Tabs : SetupSave(t) \/ RetireSentinel(t) \/ ReplaceSentinel(t)
      <3>1. ~(UNCHANGED vars \/ LeaseExpires)
        BY DEF vars, LeaseExpires
      <3>2. \A t \in Tabs :
              /\ \A p \in Passes : ~SetupAdmit(t, p) /\ ~RotateAdmit(t, p)
              /\ ~SetupInstall(t) /\ ~UnlockRead(t) /\ ~UnlockInstall(t)
              /\ ~LockSession(t) /\ ~DisableAdmit(t) /\ ~Begin(t) /\ ~BeginRefused(t)
              /\ ~Claim(t) /\ ~Start(t)
        BY DEF SetupAdmit, RotateAdmit, SetupInstall, UnlockRead, UnlockInstall,
               LockSession, DisableAdmit, Begin, BeginRefused, Claim, Start
      <3>3. \A t \in Tabs :
              /\ ~MigrateNext(t) /\ ~SaveCheckpoint(t) /\ ~EndMigrating(t) /\ ~Verify(t)
              /\ ~SaveVerified(t) /\ ~EndVerifying(t) /\ ~ClearSalt(t) /\ ~Complete(t)
              /\ ~ClearCompleted(t) /\ ~Finish(t) /\ ~Abort(t)
        BY DEF MigrateNext, SaveCheckpoint, EndMigrating, Verify, SaveVerified,
               EndVerifying, ClearSalt, Complete, ClearCompleted, Finish, Abort
      <3>4. \A t \in Tabs :
              /\ ~Reload(t) /\ ~Boot(t) /\ ~WriteBegin(t) /\ ~SentinelSeen(t)
              /\ ~WriteCheck(t)
              /\ \A st \in Stores, r \in Records : ~WritePut(t, st, r)
              /\ \A sp, tp \in Passes : ~Resume(t, sp, tp)
        BY DEF Reload, Boot, WriteBegin, SentinelSeen, WriteCheck, WritePut, Resume
      <3> QED BY <3>1, <3>2, <3>3, <3>4, NextCases
    <2>2. /\ Faithful(op[t]) /\ TabInv(op[t], modal[t], journal, ops)
          /\ op \in [Tabs -> Operation] /\ op[t] \in Operation
          /\ op[t].j \in Journal /\ journal \in Journal /\ sentinel \in Key \cup {None}
      BY Constructors DEF FaithfulInv, ConversionInv, FenceInv, TypeOK, JournalInv
    <2>3. op'[t] # op[t]
      BY <2>1, <2>2 DEF SetupSave, RetireSentinel, ReplaceSentinel, Goto, Is, Operation
    <2>4. ~Is(t, "saveSentinel") /\ Current(op[t].j)
      BY <2>3
    <2>5. \/ /\ op[t].pc = "retire" /\ op[t].j.kind = "disable" /\ sentinel' = None
          \/ /\ op[t].pc = "replace" /\ op[t].j.kind = "rekey"
             /\ sentinel' = op[t].j.target
      BY <2>1, <2>2, <2>4 DEF SetupSave, RetireSentinel, ReplaceSentinel, Faithful, Is
    <2>6. op[t].j.phase = "committing"
      BY <2>2, <2>5 DEF TabInv, PhaseAt
    <2>7. Sound(op[t].j) /\ Agrees(op[t].j, journal)
      BY <2>2 DEF TabInv, Copy
    <2>8. op[t].j.op # 0
      BY <2>6, <2>7 DEF Sound
    <2>9. /\ journal.phase = "committing"
          /\ journal.kind = op[t].j.kind /\ journal.target = op[t].j.target
      BY <2>4, <2>6, <2>7, <2>8 DEF Agrees, Current
    <2>10. rec[s][k] = TargetForm(journal)
      BY <2>9, CommittingConverted DEF ConvertedAtCommit
    <2>11. TargetForm(journal) \in {Plain, sentinel'}
      BY <2>5, <2>9 DEF TargetForm
    <2> QED BY <2>2, <2>10, <2>11, ConstantsOK
  <1>2. FaithfulInv /\ ConversionInv /\ [Next]_vars => FaithfulInv'
    BY FaithfulStep DEF ConversionInv, FenceInv
  <1>3. Spec => []ConversionInv
    BY ConversionInductive
  <1> QED BY <1>1, <1>2, <1>3, FaithfulInit, PTL DEF Spec, SentinelKeptWhileNeeded
=============================================================================
