------------------------- MODULE EncryptionMigration -------------------------
(***************************************************************************)
(* At-rest encryption of the IndexedDB library: passphrase setup, unlock,  *)
(* lock, disable and rotation, run by browser tabs that share one origin.  *)
(* A disable or a rotation is a saga over several object stores, driven by *)
(* a durable journal (encryptionMigrationJournal.ts), executed by          *)
(* runProtectedStoreMigration (protectedStoreMigration.ts) and committed   *)
(* by storageEncryptionService.ts.  Ordinary writers keep saving records   *)
(* under a shared lock (protectedWriteAdmission.ts, saveSlice).            *)
(*                                                                         *)
(* Shared by all tabs: the journal, the passphrase sentinel, the KDF salt  *)
(* and the records.  Private to a tab, and lost with it: the session key,  *)
(* the positive sentinel cache, the recovery modal's copy of the journal,  *)
(* the running operation and the running writer.                           *)
(*                                                                         *)
(* One action is one IndexedDB transaction or one synchronous stretch of   *)
(* code between two awaits.  A key is derived from a passphrase and a salt *)
(* and is identified with that pair; a record is the key that encrypts it, *)
(* or Plain.                                                               *)
(***************************************************************************)
EXTENDS Integers, FiniteSets

CONSTANTS Tabs,         \* browser tabs of the origin
          Passes,       \* passphrases the user may choose
          NStores,      \* registered protected-store adapters, in order
          NRecords,     \* records in each store
          BatchSize,    \* records one migrateNext call converts
          None,         \* absent key
          Plain,        \* content of a record that is not encrypted
          LiveLeaseExpiry, \* may the 60 s lease of a live runner run out?
          Mistypes,     \* may the user mistype the old passphrase on resume?
          MaxOps,       \* bound: migrations started
          MaxSalts,     \* bound: salts created
          MaxReloads,   \* bound: crashes and page reloads
          MaxFaults     \* bound: failing IndexedDB calls

Stores  == 1..NStores
Records == 1..NRecords
Salts   == 1..MaxSalts
Key     == [pass : Passes, salt : Salts]

ASSUME ConstantsOK ==
  /\ NStores \in Nat \ {0} /\ NRecords \in Nat /\ BatchSize \in Nat \ {0}
  /\ MaxOps \in Nat /\ MaxSalts \in Nat /\ MaxReloads \in Nat /\ MaxFaults \in Nat
  /\ LiveLeaseExpiry \in BOOLEAN /\ Mistypes \in BOOLEAN
  /\ None \notin Key /\ Plain \notin Key /\ None # Plain

VARIABLES
  journal,    \* the journal record of APP_DATA_STORE, NoJournal when absent
  sentinel,   \* key the stored passphrase sentinel verifies, None when absent
  salt,       \* salt in localStorage, 0 when absent
  rec,        \* rec[s][k]: the key record k of store s is encrypted with
  activeKey,  \* _activeKey of each tab
  cached,     \* _sentinelPresenceCache = true
  modal,      \* journal copy the recovery modal of a tab was opened with
  op,         \* operation a tab is executing
  wr,         \* protected writer a tab is executing, inside its shared lock
  ops, salts, reloads, faults \* bound counters

vars == <<journal, sentinel, salt, rec, activeKey, cached, modal, op, wr,
          ops, salts, reloads, faults>>
bounds == <<ops, salts, reloads, faults>>

-----------------------------------------------------------------------------
(* The journal.                                                             *)

Phases == {"none", "prepared", "migrating", "verifying", "committing",
           "completed"}
Checkpoint  == [cursor : 0..NRecords, done : BOOLEAN, verified : BOOLEAN]
FreshStores == [s \in Stores |-> [cursor |-> 0, done |-> FALSE,
                                  verified |-> FALSE]]
Journal == {j \in [op : 0..MaxOps, rev : Nat, kind : {"rekey", "disable"},
                   phase : Phases, lease : {"free", "live", "expired"},
                   target : Key \cup {None}, stores : [Stores -> Checkpoint]] :
              j.kind = "rekey" => j.target # None}
NoJournal == [op |-> 0, rev |-> 0, kind |-> "disable", phase |-> "none",
              lease |-> "free", target |-> None, stores |-> FreshStores]

\* The part of ALLOWED_PHASE_TRANSITIONS the saga uses.
NextPhases(phase) ==
  CASE phase = "prepared"   -> {"prepared", "migrating"}
    [] phase = "migrating"  -> {"migrating", "verifying"}
    [] phase = "verifying"  -> {"verifying", "committing"}
    [] phase = "committing" -> {"committing", "completed"}
    [] OTHER                -> {phase}

Active(j) == j.phase \notin {"none", "completed"}

\* The compare half of every compare-and-swap.  Each save moves the revision,
\* so the owner and the lease stamp the code also compares agree when it does.
Current(j) == journal.op = j.op /\ journal.rev = j.rev

\* nextOwnedJournal: a new revision, and a new lease when there is an owner.
Renewed(j) == [j EXCEPT !.rev = @ + 1,
                        !.lease = IF @ = "free" THEN "free" ELSE "live"]

CanSave(j, phase) == Current(j) /\ phase \in NextPhases(journal.phase)

-----------------------------------------------------------------------------
(* Operations of a tab.                                                     *)

RunnerPcs == {"start", "batch", "checkpoint", "converted", "verify",
              "verified"}
CommitPcs == {"retire", "clearSalt", "replace", "complete", "clear", "finish"}
Pcs == {"idle", "boot", "prompt", "saveSentinel", "install", "unlock",
        "begin", "claim"} \cup RunnerPcs \cup CommitPcs
Operation == [pc : Pcs, j : Journal, src : Key \cup {None},
              tgt : Key \cup {None}]
At(pc)    == [pc |-> pc, j |-> NoJournal, src |-> None, tgt |-> None]
Idle      == At("idle")
Writer    == [pc : {"idle", "check", "put"}, key : Key \cup {None}]
NoWriter  == [pc |-> "idle", key |-> None]

Is(t, pc)   == op[t].pc = pc
Goto(t, pc) == op' = [op EXCEPT ![t].pc = pc]
Quit(t)     == op' = [op EXCEPT ![t] = Idle]
Free(t)     == op[t].pc = "idle" /\ modal[t] = NoJournal

\* Persist j as the next journal and keep the saved copy in hand.
SaveAndGoto(t, j, pc) ==
  /\ journal' = Renewed(j)
  /\ op' = [op EXCEPT ![t].j = Renewed(j), ![t].pc = pc]

Init ==
  /\ journal = NoJournal /\ sentinel = None /\ salt = 0
  /\ rec = [s \in Stores |-> [k \in Records |-> Plain]]
  /\ activeKey = [t \in Tabs |-> None]
  /\ cached = [t \in Tabs |-> FALSE]
  /\ modal = [t \in Tabs |-> NoJournal]
  /\ op = [t \in Tabs |-> Idle]
  /\ wr = [t \in Tabs |-> NoWriter]
  /\ ops = 0 /\ salts = 0 /\ reloads = 0 /\ faults = 0

-----------------------------------------------------------------------------
(* Setup, unlock and lock.                                                  *)

\* setupIdbEncryption up to the derived key: no active journal, no sentinel
\* (a positive answer is cached), and the stored salt or a new one.
SetupAdmit(t, p) ==
  /\ Free(t) /\ ~Active(journal) /\ ~cached[t] /\ sentinel = None
  /\ \/ /\ salt # 0
        /\ UNCHANGED <<salt, salts>>
     \/ /\ salt = 0 /\ salts < MaxSalts
        /\ salts' = salts + 1
        /\ salt' = salts'
  /\ op' = [op EXCEPT ![t] = [At("saveSentinel") EXCEPT
                                !.tgt = [pass |-> p, salt |-> salt']]]
  /\ UNCHANGED <<journal, sentinel, rec, activeKey, cached, modal, wr, ops,
                 reloads, faults>>

SetupSave(t) ==
  /\ Is(t, "saveSentinel")
  /\ sentinel' = op[t].tgt
  /\ Goto(t, "install")
  /\ UNCHANGED <<journal, salt, rec, activeKey, cached, modal, wr, bounds>>

SetupInstall(t) ==
  /\ Is(t, "install")
  /\ activeKey' = [activeKey EXCEPT ![t] = op[t].tgt]
  /\ cached' = [cached EXCEPT ![t] = TRUE]
  /\ Quit(t)
  /\ UNCHANGED <<journal, sentinel, salt, rec, modal, wr, bounds>>

\* verifyAndInitIdbEncryption: the sentinel is read, then the key is derived
\* with the stored salt and checked against the bytes that were read.
UnlockRead(t) ==
  /\ Is(t, "prompt") \/ (Free(t) /\ activeKey[t] = None)
  /\ ~Active(journal) /\ sentinel # None /\ salt = sentinel.salt
  /\ cached' = [cached EXCEPT ![t] = TRUE]
  /\ op' = [op EXCEPT ![t] = [At("unlock") EXCEPT !.tgt = sentinel]]
  /\ UNCHANGED <<journal, sentinel, salt, rec, activeKey, modal, wr, bounds>>

UnlockInstall(t) ==
  /\ Is(t, "unlock")
  /\ activeKey' = [activeKey EXCEPT ![t] = op[t].tgt]
  /\ Quit(t)
  /\ UNCHANGED <<journal, sentinel, salt, rec, cached, modal, wr, bounds>>

\* clearIdbEncryptionKey, reached from handleLockSession, which also opens
\* the unlock prompt.
LockSession(t) ==
  /\ Free(t) /\ activeKey[t] # None
  /\ activeKey' = [activeKey EXCEPT ![t] = None]
  /\ cached' = [cached EXCEPT ![t] = FALSE]
  /\ Goto(t, "prompt")
  /\ UNCHANGED <<journal, sentinel, salt, rec, modal, wr, bounds>>

-----------------------------------------------------------------------------
(* Starting a disable or a rotation.                                        *)

\* clearIdbPassphrase up to the import of the orchestrator: the session key
\* of this tab is the source key.
DisableAdmit(t) ==
  /\ Free(t) /\ activeKey[t] # None /\ ~Active(journal)
  /\ op' = [op EXCEPT ![t] = [At("begin") EXCEPT
                                !.j.kind = "disable", !.src = activeKey[t]]]
  /\ UNCHANGED <<journal, sentinel, salt, rec, activeKey, cached, modal, wr,
                 bounds>>

\* rotateIdbPassphrase up to the import of the orchestrator: the source key
\* is derived from the old passphrase and checked against the sentinel.
RotateAdmit(t, p) ==
  /\ Free(t) /\ activeKey[t] # None /\ ~Active(journal)
  /\ sentinel # None /\ salt = sentinel.salt
  /\ op' = [op EXCEPT ![t] = [At("begin") EXCEPT
                                !.j.kind = "rekey", !.src = sentinel,
                                !.j.target = [pass |-> p, salt |-> salt],
                                !.tgt = [pass |-> p, salt |-> salt]]]
  /\ UNCHANGED <<journal, sentinel, salt, rec, activeKey, cached, modal, wr,
                 bounds>>

\* beginEncryptionMigration: one transaction that refuses an active journal.
Begin(t) ==
  /\ Is(t, "begin") /\ ~Active(journal) /\ ops < MaxOps
  /\ ops' = ops + 1
  /\ journal' = [NoJournal EXCEPT !.op = ops', !.kind = op[t].j.kind,
                                  !.phase = "prepared", !.target = op[t].j.target]
  /\ op' = [op EXCEPT ![t].j = journal', ![t].pc = "claim"]
  /\ UNCHANGED <<sentinel, salt, rec, activeKey, cached, modal, wr, salts,
                 reloads, faults>>

BeginRefused(t) ==
  /\ Is(t, "begin") /\ (Active(journal) \/ ops = MaxOps)
  /\ Quit(t)
  /\ UNCHANGED <<journal, sentinel, salt, rec, activeKey, cached, modal, wr,
                 bounds>>

-----------------------------------------------------------------------------
(* runProtectedStoreMigration.                                              *)

\* The migrating loop runs while a store is not done.
MigratingPc(j) == IF \A s \in Stores : j.stores[s].done THEN "converted"
                                                       ELSE "batch"

\* Mutant of Claim: a live lease is taken over.
ClaimLive(t) ==
  /\ Is(t, "claim") /\ Current(op[t].j)
  /\ LET j == [Renewed(op[t].j) EXCEPT !.lease = "live"]
     IN /\ journal' = j
        /\ op' = [op EXCEPT
             ![t].j = j,
             ![t].pc = CASE j.phase = "prepared"  -> "start"
                         [] j.phase = "migrating" -> MigratingPc(j)
                         [] OTHER                 -> "verify"]
  /\ UNCHANGED <<sentinel, salt, rec, activeKey, cached, modal, wr, bounds>>

\* Mutant of Claim: a new owner starts the rewriting over.
ClaimAfresh(t) ==
  /\ Is(t, "claim") /\ Current(op[t].j) /\ journal.lease # "live"
  /\ LET j == [Renewed(op[t].j) EXCEPT !.lease = "live", !.stores = FreshStores]
     IN /\ journal' = j
        /\ op' = [op EXCEPT
             ![t].j = j,
             ![t].pc = CASE j.phase = "prepared"  -> "start"
                         [] j.phase = "migrating" -> MigratingPc(j)
                         [] OTHER                 -> "verify"]
  /\ UNCHANGED <<sentinel, salt, rec, activeKey, cached, modal, wr, bounds>>

\* claimEncryptionMigrationOwnership under a fresh owner id: the revision
\* must match and the lease must be free or expired.
Claim(t) ==
  /\ Is(t, "claim") /\ Current(op[t].j) /\ journal.lease # "live"
  /\ LET j == [Renewed(op[t].j) EXCEPT !.lease = "live"]
     IN /\ journal' = j
        /\ op' = [op EXCEPT
             ![t].j = j,
             ![t].pc = CASE j.phase = "prepared"  -> "start"
                         [] j.phase = "migrating" -> MigratingPc(j)
                         [] OTHER                 -> "verify"]
  /\ UNCHANGED <<sentinel, salt, rec, activeKey, cached, modal, wr, bounds>>

Start(t) ==
  /\ Is(t, "start") /\ CanSave(op[t].j, "migrating")
  /\ SaveAndGoto(t, [op[t].j EXCEPT !.phase = "migrating"], "batch")
  /\ UNCHANGED <<sentinel, salt, rec, activeKey, cached, modal, wr, bounds>>

\* The store the migration loop is at: the first one that is not done.
AtStore(j, s) ==
  ~j.stores[s].done /\ \A r \in Stores : r < s => j.stores[r].done

\* The content a migrated record must have, and the contents the adapter can
\* bring there (transformWholeValue).
TargetForm(j) == IF j.kind = "rekey" THEN j.target ELSE Plain
Convertible(o) == {Plain, o.src} \cup (IF o.j.kind = "rekey" THEN {o.tgt}
                                                             ELSE {})
InBatch(j, s) == {k \in Records : /\ j.stores[s].cursor < k
                                  /\ k <= j.stores[s].cursor + BatchSize}
\* Mutant of SharedHeld: migrateNext outside the exclusive lock.
SharedHeldIgnored == FALSE

SharedHeld == \E t \in Tabs : wr[t].pc # "idle"

\* migrateNext under the exclusive lock: the batch after the cursor is read,
\* transformed and written in one transaction, or not at all.
MigrateNext(t) ==
  /\ Is(t, "batch") /\ ~SharedHeld
  /\ \E s \in Stores :
       /\ AtStore(op[t].j, s)
       /\ \A k \in InBatch(op[t].j, s) : rec[s][k] \in Convertible(op[t])
       /\ rec' = [rec EXCEPT ![s] =
                    [k \in Records |-> IF k \in InBatch(op[t].j, s)
                                       THEN TargetForm(op[t].j) ELSE @[k]]]
  /\ Goto(t, "checkpoint")
  /\ UNCHANGED <<journal, sentinel, salt, activeKey, cached, modal, wr, bounds>>

\* Mutant of Advanced: the cursor points past the last record read.
AdvancedPastBatch(c) == [c EXCEPT
  !.cursor = IF @ + BatchSize + 1 < NRecords THEN @ + BatchSize + 1 ELSE NRecords,
  !.done = NRecords - c.cursor < BatchSize]

\* Mutant of Advanced: no clamp at the last key.
AdvancedPastEnd(c) == [c EXCEPT !.cursor = @ + BatchSize,
                                !.done = NRecords + 1 - c.cursor < BatchSize]

\* The checkpoint after a batch: the last key read, and done when the cursor
\* ran out before the batch was full.
Advanced(c) == [c EXCEPT
  !.cursor = IF @ + BatchSize < NRecords THEN @ + BatchSize ELSE NRecords,
  !.done = NRecords - c.cursor < BatchSize]

SaveCheckpoint(t) ==
  /\ Is(t, "checkpoint") /\ CanSave(op[t].j, "migrating")
  /\ \E s \in Stores :
       /\ AtStore(op[t].j, s)
       /\ LET j == [op[t].j EXCEPT !.stores[s] = Advanced(@)]
          IN SaveAndGoto(t, j, MigratingPc(j))
  /\ UNCHANGED <<sentinel, salt, rec, activeKey, cached, modal, wr, bounds>>

EndMigrating(t) ==
  /\ Is(t, "converted") /\ CanSave(op[t].j, "verifying")
  /\ SaveAndGoto(t, [op[t].j EXCEPT !.phase = "verifying"], "verify")
  /\ UNCHANGED <<sentinel, salt, rec, activeKey, cached, modal, wr, bounds>>

ToVerify(j) == {s \in Stores : ~j.stores[s].verified}

\* adapter.verify, without any lock: every record of the store is read back
\* under the post-migration policy.
Verify(t) ==
  /\ Is(t, "verify") /\ ToVerify(op[t].j) # {}
  /\ LET s == CHOOSE r \in ToVerify(op[t].j) :
                \A q \in ToVerify(op[t].j) : r <= q
     IN \A k \in Records : rec[s][k] = TargetForm(op[t].j)
  /\ Goto(t, "verified")
  /\ UNCHANGED <<journal, sentinel, salt, rec, activeKey, cached, modal, wr,
                 bounds>>

SaveVerified(t) ==
  /\ Is(t, "verified") /\ CanSave(op[t].j, "verifying")
  /\ LET s == CHOOSE r \in ToVerify(op[t].j) :
                \A q \in ToVerify(op[t].j) : r <= q
     IN SaveAndGoto(t, [op[t].j EXCEPT !.stores[s].verified = TRUE], "verify")
  /\ UNCHANGED <<sentinel, salt, rec, activeKey, cached, modal, wr, bounds>>

\* The saga hands the journal over in committing, with its lease still held.
CommitPc(j) == IF j.kind = "disable" THEN "retire" ELSE "replace"
EndVerifying(t) ==
  /\ Is(t, "verify") /\ ToVerify(op[t].j) = {} /\ CanSave(op[t].j, "committing")
  /\ SaveAndGoto(t, [op[t].j EXCEPT !.phase = "committing"], CommitPc(op[t].j))
  /\ UNCHANGED <<sentinel, salt, rec, activeKey, cached, modal, wr, bounds>>

-----------------------------------------------------------------------------
(* Committing: the sentinel first, the journal after it.                    *)


RetireSentinel(t) ==
  /\ Is(t, "retire")
  /\ sentinel' = None
  /\ Goto(t, "clearSalt")
  /\ UNCHANGED <<journal, salt, rec, activeKey, cached, modal, wr, bounds>>

ClearSalt(t) ==
  /\ Is(t, "clearSalt")
  /\ salt' = 0
  /\ Goto(t, "complete")
  /\ UNCHANGED <<journal, sentinel, rec, activeKey, cached, modal, wr, bounds>>

ReplaceSentinel(t) ==
  /\ Is(t, "replace")
  /\ sentinel' = op[t].tgt
  /\ Goto(t, "complete")
  /\ UNCHANGED <<journal, salt, rec, activeKey, cached, modal, wr, bounds>>

\* completeEncryptionMigration.
Complete(t) ==
  /\ Is(t, "complete") /\ CanSave(op[t].j, "completed")
  /\ SaveAndGoto(t, [op[t].j EXCEPT !.phase = "completed"], "clear")
  /\ UNCHANGED <<sentinel, salt, rec, activeKey, cached, modal, wr, bounds>>

\* clearCompletedEncryptionMigration: deletes a journal that is not active.
ClearCompleted(t) ==
  /\ Is(t, "clear") /\ ~Active(journal)
  /\ journal' = NoJournal
  /\ Goto(t, "finish")
  /\ UNCHANGED <<sentinel, salt, rec, activeKey, cached, modal, wr, bounds>>

\* Mutant of Finish: the session keeps the key it had.
FinishKeepsKey(t) ==
  /\ Is(t, "finish")
  /\ modal' = [modal EXCEPT ![t] = NoJournal]
  /\ Quit(t)
  /\ UNCHANGED <<journal, sentinel, salt, rec, activeKey, cached, wr, bounds>>

\* Only now does the tab that committed change its own session key.
Finish(t) ==
  /\ Is(t, "finish")
  /\ activeKey' = [activeKey EXCEPT ![t] = op[t].tgt]
  /\ cached' = [cached EXCEPT ![t] = op[t].tgt # None]
  /\ modal' = [modal EXCEPT ![t] = NoJournal]
  /\ Quit(t)
  /\ UNCHANGED <<journal, sentinel, salt, rec, wr, bounds>>

-----------------------------------------------------------------------------
(* Errors.                                                                  *)

\* The compare-and-swap an operation is about to make, with its error.
Refused(t) ==
  \/ Is(t, "claim") /\ ~(Current(op[t].j) /\ journal.lease # "live")
  \/ Is(t, "start") /\ ~CanSave(op[t].j, "migrating")
  \/ Is(t, "checkpoint") /\ ~CanSave(op[t].j, "migrating")
  \/ Is(t, "converted") /\ ~CanSave(op[t].j, "verifying")
  \/ Is(t, "verified") /\ ~CanSave(op[t].j, "verifying")
  \/ Is(t, "verify") /\ ToVerify(op[t].j) = {} /\ ~CanSave(op[t].j, "committing")
  \/ Is(t, "complete") /\ ~CanSave(op[t].j, "completed")
  \/ Is(t, "clear") /\ Active(journal)

\* A record no key in hand opens: transform or verifyValue throws.
Unreadable(t) ==
  \/ /\ Is(t, "batch") /\ ~SharedHeld
     /\ \E s \in Stores :
          /\ AtStore(op[t].j, s)
          /\ \E k \in InBatch(op[t].j, s) : rec[s][k] \notin Convertible(op[t])
  \/ /\ Is(t, "verify") /\ ToVerify(op[t].j) # {}
     /\ LET s == CHOOSE r \in ToVerify(op[t].j) :
                   \A q \in ToVerify(op[t].j) : r <= q
        IN \E k \in Records : rec[s][k] # TargetForm(op[t].j)

\* Where an operation awaits IndexedDB, which may fail (a full disk, an aborted
\* transaction).
IdbPcs == {"saveSentinel", "begin", "claim"} \cup RunnerPcs
            \cup (CommitPcs \ {"clearSalt", "finish"})

\* An error ends the operation.  A runner that still owns its lease gives it
\* back; a committing one keeps it, and so does whoever lost the revision.
Abort(t) ==
  /\ \/ Refused(t) \/ Unreadable(t)
     \/ faults < MaxFaults /\ op[t].pc \in IdbPcs
  /\ faults' = IF Refused(t) \/ Unreadable(t) THEN faults ELSE faults + 1
  /\ IF op[t].pc \in RunnerPcs /\ Current(op[t].j)
     THEN journal' = [Renewed(op[t].j) EXCEPT !.lease = "free"]
     ELSE UNCHANGED journal
  /\ Quit(t)
  /\ UNCHANGED <<sentinel, salt, rec, activeKey, cached, modal, wr, ops, salts,
                 reloads>>

\* Sixty seconds without a checkpoint.
RunnerAlive ==
  \E t \in Tabs : op[t].pc \in RunnerPcs /\ Current(op[t].j)
LeaseExpires ==
  /\ journal.lease = "live" /\ (LiveLeaseExpiry \/ ~RunnerAlive)
  /\ journal' = [journal EXCEPT !.lease = "expired"]
  /\ UNCHANGED <<sentinel, salt, rec, activeKey, cached, modal, op, wr, bounds>>

-----------------------------------------------------------------------------
(* Crash, startup and recovery.                                             *)

Reload(t) ==
  /\ reloads < MaxReloads
  /\ reloads' = reloads + 1
  /\ activeKey' = [activeKey EXCEPT ![t] = None]
  /\ cached' = [cached EXCEPT ![t] = FALSE]
  /\ modal' = [modal EXCEPT ![t] = NoJournal]
  /\ op' = [op EXCEPT ![t] = At("boot")]
  /\ wr' = [wr EXCEPT ![t] = NoWriter]
  /\ UNCHANGED <<journal, sentinel, salt, rec, ops, salts, faults>>

\* Mutant of Boot: a journal left in committing does not open the modal.
BootSkipsCommitting(t) ==
  /\ Is(t, "boot")
  /\ modal' = [modal EXCEPT ![t] =
                 IF Active(journal) /\ journal.phase # "committing"
                 THEN journal ELSE NoJournal]
  /\ Goto(t, IF journal = NoJournal /\ sentinel # None THEN "prompt" ELSE "idle")
  /\ cached' = [cached EXCEPT ![t] = journal = NoJournal /\ sentinel # None]
  /\ UNCHANGED <<journal, sentinel, salt, rec, activeKey, wr, bounds>>

\* The startup effects of App.tsx and useIdbUnlockStartupGuard: an active
\* journal opens the recovery modal; otherwise a present sentinel opens the
\* unlock prompt, unless any journal record is in the way.
Boot(t) ==
  /\ Is(t, "boot")
  /\ modal' = [modal EXCEPT ![t] = IF Active(journal) THEN journal
                                                      ELSE NoJournal]
  /\ Goto(t, IF journal = NoJournal /\ sentinel # None THEN "prompt" ELSE "idle")
  /\ cached' = [cached EXCEPT ![t] = journal = NoJournal /\ sentinel # None]
  /\ UNCHANGED <<journal, sentinel, salt, rec, activeKey, wr, bounds>>

\* deriveKey(passphrase, getExistingSalt()).
Derives(p, key) == key # None /\ salt # 0 /\ key = [pass |-> p, salt |-> salt]

\* Mutant of ResumeCommit: an earlier phase is committed as well.
ResumeCommitAnyPhase(t, sp, tp) ==
  LET j == modal[t]
  IN /\ j.kind = "rekey" /\ Derives(sp, sentinel) /\ Derives(tp, j.target)
     /\ op' = [op EXCEPT ![t] = [At("replace") EXCEPT !.j = j, !.tgt = j.target]]

\* resumeEncryptionMigration with the modal's journal and the passphrases the
\* user types: sp for the source, tp for the target of a rotation.  In committing
\* any source passphrase that does not open the sentinel is taken as a sign that
\* the sentinel was already replaced.
ResumeCommit(t, sp, tp) ==
  LET j == modal[t]
  IN /\ j.phase = "committing"
     /\ \/ /\ j.kind = "disable" /\ sentinel = None
           /\ op' = [op EXCEPT ![t] = [At("complete") EXCEPT !.j = j]]
        \/ /\ j.kind = "disable" /\ Derives(sp, sentinel)
           /\ op' = [op EXCEPT ![t] = [At("retire") EXCEPT !.j = j]]
        \/ /\ j.kind = "rekey" /\ Derives(sp, sentinel) /\ Derives(tp, j.target)
           /\ op' = [op EXCEPT ![t] = [At("replace") EXCEPT
                                         !.j = j, !.tgt = j.target]]
        \/ /\ j.kind = "rekey" /\ ~Derives(sp, sentinel)
           /\ Derives(tp, j.target) /\ (Mistypes \/ sentinel = j.target)
           /\ op' = [op EXCEPT ![t] = [At("complete") EXCEPT
                                         !.j = j, !.tgt = j.target]]

ResumeRun(t, sp, tp) ==
  LET j == modal[t]
  IN /\ j.phase \notin {"none", "committing"}
     /\ Derives(sp, sentinel)
     /\ j.kind = "rekey" => Derives(tp, j.target)
     /\ op' = [op EXCEPT ![t] = [pc |-> "claim", j |-> j, src |-> sentinel,
                                 tgt |-> j.target]]

Resume(t, sp, tp) ==
  /\ Is(t, "idle")
  /\ ResumeCommit(t, sp, tp) \/ ResumeRun(t, sp, tp)
  /\ UNCHANGED <<journal, sentinel, salt, rec, activeKey, cached, modal, wr,
                 bounds>>

-----------------------------------------------------------------------------
(* Ordinary protected writers (saveSlice), inside the shared lock.          *)

\* resolveProtectedWriteKey: the session key, or plaintext when the library
\* has no sentinel.
WriteBegin(t) ==
  /\ wr[t].pc = "idle" /\ op[t].pc # "boot"
  /\ activeKey[t] # None \/ (~cached[t] /\ sentinel = None)
  /\ wr' = [wr EXCEPT ![t] = [pc |-> "check", key |-> activeKey[t]]]
  /\ UNCHANGED <<journal, sentinel, salt, rec, activeKey, cached, modal, op,
                 bounds>>

\* hasPassphraseSentinel on a locked tab: a positive answer is remembered and
\* the caller, a writer or a setup, is refused.
SentinelSeen(t) ==
  /\ wr[t].pc = "idle" /\ op[t].pc = "idle"
  /\ activeKey[t] = None /\ ~cached[t] /\ sentinel # None
  /\ cached' = [cached EXCEPT ![t] = TRUE]
  /\ UNCHANGED <<journal, sentinel, salt, rec, activeKey, modal, op, wr, bounds>>

\* Mutant of WriteCheck: no assertNoActiveEncryptionMigration.
WriteUnchecked(t) ==
  /\ wr[t].pc = "check"
  /\ wr' = [wr EXCEPT ![t].pc = "put"]
  /\ UNCHANGED <<journal, sentinel, salt, rec, activeKey, cached, modal, op,
                 bounds>>

\* assertNoActiveEncryptionMigration, after the payload is encrypted.
WriteCheck(t) ==
  /\ wr[t].pc = "check"
  /\ wr' = [wr EXCEPT ![t] = IF Active(journal) THEN NoWriter
                                                ELSE [@ EXCEPT !.pc = "put"]]
  /\ UNCHANGED <<journal, sentinel, salt, rec, activeKey, cached, modal, op,
                 bounds>>

WritePut(t, s, k) ==
  /\ wr[t].pc = "put"
  /\ rec' = [rec EXCEPT ![s][k] = IF wr[t].key = None THEN Plain ELSE wr[t].key]
  /\ wr' = [wr EXCEPT ![t] = NoWriter]
  /\ UNCHANGED <<journal, sentinel, salt, activeKey, cached, modal, op, bounds>>

-----------------------------------------------------------------------------

Runner(t) ==
  \/ Begin(t) \/ BeginRefused(t) \/ Claim(t) \/ Start(t) \/ MigrateNext(t)
  \/ SaveCheckpoint(t) \/ EndMigrating(t) \/ Verify(t) \/ SaveVerified(t)
  \/ EndVerifying(t) \/ RetireSentinel(t) \/ ClearSalt(t)
  \/ ReplaceSentinel(t) \/ Complete(t) \/ ClearCompleted(t) \/ Finish(t)

WriterStep(t) ==
  \/ WriteCheck(t)
  \/ \E s \in Stores, k \in Records : WritePut(t, s, k)

Next ==
  \/ LeaseExpires
  \/ \E t \in Tabs :
       \/ \E p \in Passes : SetupAdmit(t, p) \/ RotateAdmit(t, p)
       \/ SetupSave(t) \/ SetupInstall(t) \/ UnlockRead(t) \/ UnlockInstall(t)
       \/ LockSession(t) \/ DisableAdmit(t) \/ Runner(t) \/ Abort(t)
       \/ Reload(t) \/ Boot(t) \/ WriteBegin(t) \/ SentinelSeen(t) \/ WriterStep(t)
       \/ \E sp, tp \in Passes : Resume(t, sp, tp)

Spec == Init /\ [][Next]_vars

-----------------------------------------------------------------------------
(* Properties.                                                              *)

\* Every variable stays within the values the code can give it.
TypeOK ==
  /\ journal \in Journal /\ sentinel \in Key \cup {None} /\ salt \in 0..MaxSalts
  /\ rec \in [Stores -> [Records -> Key \cup {Plain}]]
  /\ activeKey \in [Tabs -> Key \cup {None}] /\ cached \in [Tabs -> BOOLEAN]
  /\ modal \in [Tabs -> Journal] /\ op \in [Tabs -> Operation]
  /\ wr \in [Tabs -> Writer]
  /\ ops \in 0..MaxOps /\ salts \in 0..MaxSalts
  /\ reloads \in 0..MaxReloads /\ faults \in 0..MaxFaults

\* No batch of the running migration has been rewritten yet.
Untouched ==
  /\ journal.phase \in {"prepared", "migrating"} /\ journal.stores = FreshStores
  /\ \A t \in Tabs : Is(t, "checkpoint") => ~Current(op[t].j)

\* A writer that passed assertNoActiveEncryptionMigration can only land its
\* record before the first batch of a migration is rewritten or after the
\* migration is over, although it never looks at the journal again: the shared
\* lock it holds keeps migrateNext out.  Holds with stale runners as well.
WriterFence ==
  \A t \in Tabs : wr[t].pc = "put" => ~Active(journal) \/ Untouched

\* Checkpoints never claim more than was rewritten: each record at or behind
\* the cursor of its store has its final form, whatever writers, crashes and
\* repeated batches did.
BehindCursorConverted ==
  Active(journal) =>
    \A s \in Stores, k \in Records :
      k <= journal.stores[s].cursor => rec[s][k] = TargetForm(journal)

\* A journal in committing, whose next steps drop the old key for good, leaves
\* no record under it.
ConvertedAtCommit ==
  journal.phase = "committing" =>
    \A s \in Stores, k \in Records : rec[s][k] = TargetForm(journal)

\* The lease keeps store rewrites to one tab ("the lease prevents concurrent
\* store rewrites across clients", encryptionMigrationJournal.ts).
OneRunner ==
  \A t, u \in Tabs : op[t].pc \in RunnerPcs /\ op[u].pc \in RunnerPcs => t = u

PhaseOrder == [p \in Phases |->
  CASE p = "none" -> 0 [] p = "prepared" -> 1 [] p = "migrating" -> 2
    [] p = "verifying" -> 3 [] p = "committing" -> 4 [] OTHER -> 5]

\* The durable progress of one migration never goes back, not even when a tab
\* that lost its lease saves a checkpoint it computed long ago.
NoRegress ==
  journal.op # 0 /\ journal'.op = journal.op =>
    /\ PhaseOrder[journal.phase] <= PhaseOrder[journal'.phase]
    /\ \A s \in Stores :
         /\ journal.stores[s].cursor <= journal'.stores[s].cursor
         /\ journal.stores[s].done => journal'.stores[s].done
         /\ journal.stores[s].verified => journal'.stores[s].verified
CheckpointsMonotone == [][NoRegress]_vars

\* The old verifier is the only way back to the old key: a commit of the stored
\* journal removes or replaces it only when no record needs it, whichever tab
\* commits and however often the commit was resumed after crashes.  Two ways to
\* lose it are outside the claim: a tab that resumes a commit takes no lease and
\* may retire the sentinel again when another has finished the migration, and
\* two set-ups may overlap, the second sentinel replacing the first.
VerifierKept ==
  sentinel # None /\ sentinel' # sentinel =>
    \/ \A s \in Stores, k \in Records : rec[s][k] # sentinel
    \/ \E t \in Tabs : /\ op'[t] # op[t]
                       /\ Is(t, "saveSentinel") \/ ~Current(op[t].j)
SentinelKeptWhileNeeded == [][VerifierKept]_vars

\* When a migration has left no journal behind, the session of the tab follows
\* the sentinel: its key is the one the sentinel verifies, and it does not
\* remember a sentinel that is gone, whatever call of the commit failed, was
\* repeated from the modal or was cut off by a crash.  (For one tab.  A commit
\* whose last clear fails leaves its completed journal and the old key.)
SessionFollowsSentinel ==
  \A t \in Tabs : Is(t, "idle") /\ journal = NoJournal =>
                    /\ activeKey[t] \in {None, sentinel}
                    /\ cached[t] => sentinel # None

\* Every record opens once no migration is under way: ADR 0018 excludes an
\* operation that is "claimed successful while leaving unreadable ciphertext".
\* The code breaks it: a writer that took the old session key before the commit
\* passes assertNoActiveEncryptionMigration after it.
RecordsReadable ==
  ~Active(journal) => \A s \in Stores, k \in Records : rec[s][k] \in {Plain, sentinel}

\* The browser runs what is pending, IndexedDB answers, the lease is a clock,
\* a waiting exclusive lock is granted although writers keep coming (the lock
\* queue is first come, first served) and the user answers the recovery modal.
Fairness ==
  /\ WF_vars(LeaseExpires)
  /\ \A t \in Tabs :
       /\ WF_vars(Runner(t)) /\ SF_vars(MigrateNext(t)) /\ WF_vars(WriterStep(t))
       /\ WF_vars((Refused(t) \/ Unreadable(t)) /\ Abort(t)) /\ WF_vars(Boot(t))
       /\ WF_vars(\E sp, tp \in Passes : Resume(t, sp, tp))
FairSpec == Spec /\ Fairness

\* A migration that was begun is finished: by its runner as long as no call
\* fails, and by recovery after a crash at any step, or after a failed call once
\* the tab is reloaded (a modal keeps the journal it was opened with, so a runner
\* it started that failed cannot be resumed from it).
MigrationFinishes ==
  /\ (Active(journal) /\ faults = 0) ~> (~Active(journal) \/ faults # 0)
  /\ (Active(journal) /\ faults = MaxFaults /\ \E t \in Tabs : Is(t, "boot"))
       ~> ~Active(journal)
=============================================================================
