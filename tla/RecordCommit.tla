---------------------------- MODULE RecordCommit ----------------------------
(***************************************************************************)
(* The commit protocol of one record of the native secure store: the       *)
(* write, the startup reconciliation and the read of                       *)
(* crates/worldscript-secure-storage/src/commit.rs over the staging and    *)
(* promotion of durable.rs.  An operation is a list of file-system steps,  *)
(* `todo`; between any two of them a step may fail, the process may be     *)
(* killed or the power may fail.                                           *)
(*                                                                         *)
(* The record directory is kept as three sets of entries (a name and the   *)
(* write whose bytes it holds): what programs see, what is certainly on    *)
(* disk and what may be on disk.  A directory sync makes the three equal,  *)
(* and a power loss leaves any directory between the last two.  Bytes are  *)
(* in the page cache from the moment they are written, outlive the process *)
(* there, and are durable ("sealed") once the staging file is synced; a    *)
(* power loss before that keeps or takes them.  Bytes left complete and    *)
(* unsynced by a failed sync or a killed process are "stranded", what a    *)
(* power loss makes of them if the disk has not got them is "lost", and an *)
(* envelope of which only a part was ever written is "torn".  The marker   *)
(* directory only grows, by one marker at a time, so it is a sequence of   *)
(* which all but the last are durable.  Complete bytes open as exactly the *)
(* write they are; cryptography, key epochs and counter exhaustion are     *)
(* left out, and so are the staging names of the marker directory, which   *)
(* no decision reads.                                                      *)
(***************************************************************************)
EXTENDS Naturals, Sequences

CONSTANTS MaxWrites,   \* writes the callers start
          MaxFaults    \* failed steps, kills and power losses together

ASSUME CommitAssumption == /\ MaxWrites \in Nat \ {0}
                           /\ MaxFaults \in Nat

Writes == 1 .. MaxWrites

VARIABLES markers,      \* the visible marker chain
          durableMarkers, \* how many of them are certainly on disk
          seen, sure, maybe, \* the record directory: visible, on disk, possibly on disk
          bytes,        \* the state of each write's envelope
          todo,         \* the steps left of the running operation
          begun,        \* the newest write started
          returned,     \* the newest write a read or a success reported
          refusal,      \* why the last operation refused to go on, if it did
          faults

vars == <<markers, durableMarkers, seen, sure, maybe, bytes, todo, begun,
          returned, refusal, faults>>
files == <<seen, sure, maybe>>
chain == <<markers, durableMarkers>>

Nothing == [gen |-> 0, op |-> 0]

(* The names of the record directory (`generation_path`, `staging_path`,   *)
(* the rejected name `relocate` builds).                                   *)
Generation(n) == <<"generation", n, 0>>
Staging(n, w) == <<"staging", n, w>>
Rejected(name, w) == <<"rejected", name, w>>

Holders(dir, name) == {e[2] : e \in {f \in dir : f[1] = name}}
Present(name) == Holders(seen, name) # {}
OneContentPerName(dir) == \A e, f \in dir : e[1] = f[1] => e = f

Readable(w) == bytes[w] \in {"written", "stranded", "sealed"}

(* The bodies of `write_marker`.                                           *)
Pending(old, target, w) == [kind |-> "pending", old |-> old, gen |-> target, op |-> w]
Active(c) == [kind |-> "active", old |-> 0, gen |-> c.gen, op |-> c.op]

(***************************************************************************)
(* The authority a chain states (`load_chain`, `transition`).              *)
(***************************************************************************)
Absent == [state |-> "absent", serving |-> Nothing, pending |-> Nothing]
Illegal == [state |-> "illegal", serving |-> Nothing, pending |-> Nothing]

AfterPending(a, m) ==
    IF a.state # "illegal" /\ (a.state = "pending" => a.serving = Nothing)
          /\ m.old = a.serving.gen
    THEN [state |-> "pending", serving |-> a.serving, pending |-> [gen |-> m.gen, op |-> m.op]]
    ELSE Illegal

AfterActive(a, m) ==
    LET committed == [gen |-> m.gen, op |-> m.op]
    IN IF a.state = "pending" /\ (m.gen = a.pending.gen \/ committed = a.serving)
       THEN [state |-> "active", serving |-> committed, pending |-> Nothing]
       ELSE Illegal

Transition(a, m) == IF m.kind = "pending" THEN AfterPending(a, m) ELSE AfterActive(a, m)

(* The authority after the first n markers.                                *)
AuthorityAt(n) ==
    LET after[i \in 0 .. n] == IF i = 0 THEN Absent ELSE Transition(after[i - 1], markers[i])
    IN after[n]
Authority == AuthorityAt(Len(markers))
Durable == AuthorityAt(durableMarkers)

(* `verify_committed`: the file of the committed generation is exactly the *)
(* envelope the marker committed.                                          *)
Verified(c) == c = Nothing \/ (<<Generation(c.gen), c.op>> \in seen /\ Readable(c.op))

(***************************************************************************)
(* The lists of steps an operation is made of.                             *)
(***************************************************************************)
WriteMarker(body) == << <<"linkMarker", body>>, <<"syncMarkers">> >>

RelocateUnsynced(name, w) == << <<"linkRejected", name, w>>, <<"remove", name>>, <<"syncRecord">> >>

Relocate(name, w) == << <<"linkRejected", name, w>>, <<"syncRecord">>,
                        <<"remove", name>>, <<"syncRecord">> >>

RelocateIfPresent(name, w) == IF Present(name) THEN Relocate(name, w) ELSE << >>

(* Resolving PENDING(p): the staging file under the marker's own operation *)
(* name is the only evidence.                                              *)
CandidateValid(p) == <<Staging(p.gen, p.op), p.op>> \in seen /\ Readable(p.op)

Promotion(p) ==
    IF <<Generation(p.gen), p.op>> \in seen THEN << >>
    ELSE RelocateIfPresent(Generation(p.gen), p.op)
         \o << <<"promote", Staging(p.gen, p.op), Generation(p.gen), p.op>> >>

AdoptPlanUnsynced(p) == Promotion(p) \o WriteMarker(Active(p)) \o << <<"drop", Staging(p.gen, p.op)>> >>

AdoptPlan(p) == Promotion(p) \o << <<"syncRecord">> >>
                \o WriteMarker(Active(p)) \o << <<"drop", Staging(p.gen, p.op)>> >>

RejectPlan(p, serving) ==
    RelocateIfPresent(Staging(p.gen, p.op), p.op)
    \o RelocateIfPresent(Generation(p.gen), p.op)
    \o (IF serving = Nothing THEN << >>
        ELSE << <<"verify", serving>> >> \o WriteMarker(Active(serving)))

ResolvePending(p, serving) ==
    IF CandidateValid(p) THEN AdoptPlan(p) ELSE RejectPlan(p, serving)

(* `begin_write` from the PENDING marker on and `finish_write`.            *)
WritePlan(old, w) ==
    LET target == old.gen + 1
        staging == Staging(target, w)
    IN WriteMarker(Pending(old.gen, target, w))
       \o << <<"create", staging, w>>, <<"syncFile", staging, w>>,
             <<"promote", staging, Generation(target), w>>, <<"syncRecord">> >>
       \o WriteMarker(Active([gen |-> target, op |-> w]))
       \o << <<"drop", staging>>, <<"return", w>> >>

(***************************************************************************)
(* The file system.                                                        *)
(***************************************************************************)
Link(name, w) == /\ seen' = seen \cup {<<name, w>>}
                 /\ maybe' = maybe \cup {<<name, w>>}
                 /\ sure' = sure

Unlink(name) == /\ seen' = {e \in seen : e[1] # name}
                /\ sure' = {e \in sure : e[1] # name}
                /\ maybe' = maybe

LinkReplacing(name) == TRUE
LinkFree(name) == ~Present(name)

(* What a load makes durable before it trusts the chain.                   *)
LoadUnsynced == durableMarkers
LoadSyncs == Len(markers)

Init == /\ markers = << >>
        /\ durableMarkers = 0
        /\ seen = {} /\ sure = {} /\ maybe = {}
        /\ bytes = [w \in Writes |-> "none"]
        /\ todo = << >>
        /\ begun = 0
        /\ returned = 0
        /\ refusal = "none"
        /\ faults = 0

(***************************************************************************)
(* The callers: one operation at a time, since a writer holds the record   *)
(* exclusively.                                                            *)
(***************************************************************************)
Start(steps) == /\ todo = << >>
                /\ todo' = steps
                /\ refusal' = "none"
                /\ UNCHANGED <<chain, files, bytes, returned, faults>>

CommitWrite == /\ begun < MaxWrites
               /\ begun' = begun + 1
               /\ Start(<< <<"reconcile">>, <<"begin">> >>)

StartupReconcile == Start(<< <<"reconcile">> >>) /\ UNCHANGED begun

ReadCommitted == Start(<< <<"read">> >>) /\ UNCHANGED begun

Doing(step) == todo # << >> /\ todo[1][1] = step

(* The rest of the operation, or its refusal.                              *)
GoOn(permitted, steps, reason) ==
    /\ todo' = IF permitted THEN steps ELSE << >>
    /\ refusal' = IF permitted THEN "none" ELSE reason
    /\ UNCHANGED <<begun, faults>>

Proceed == GoOn(TRUE, Tail(todo), "none")

(* `reconcile`: the pending write is resolved, then the debris classified. *)
Reconcile ==
    /\ Doing("reconcile")
    /\ durableMarkers' = LoadSyncs
    /\ GoOn(Authority.state # "illegal",
            (IF Authority.state = "pending"
             THEN ResolvePending(Authority.pending, Authority.serving) ELSE << >>)
            \o << <<"debris">> >> \o Tail(todo),
            "recoveryRequired")
    /\ UNCHANGED <<markers, files, bytes, returned>>

(* `begin_write` after its reconciliation, and `read_committed`.           *)
Load(step, steps) ==
    /\ Doing(step)
    /\ durableMarkers' = LoadSyncs
    /\ GoOn(Authority.state # "illegal", << <<"verify", Authority.serving>> >> \o steps,
            "recoveryRequired")
    /\ UNCHANGED <<markers, files, bytes, returned>>

BeginWrite == Load("begin", WritePlan(Authority.serving, begun))

Read == Load("read", << <<"return", Authority.serving.op>> >>)

Verify ==
    /\ Doing("verify")
    /\ GoOn(Verified(todo[1][2]), Tail(todo), "recoveryRequired")
    /\ UNCHANGED <<chain, files, bytes, returned>>

LinkMarker ==
    /\ Doing("linkMarker")
    /\ markers' = Append(markers, todo[1][2])
    /\ Proceed
    /\ UNCHANGED <<durableMarkers, files, bytes, returned>>

SyncMarkers ==
    /\ Doing("syncMarkers")
    /\ durableMarkers' = Len(markers)
    /\ Proceed
    /\ UNCHANGED <<markers, files, bytes, returned>>

(* `write_staging`: the file is created and written, then synced.          *)
CreateStaging ==
    /\ Doing("create")
    /\ Link(todo[1][2], todo[1][3])
    /\ bytes' = [bytes EXCEPT ![todo[1][3]] = "written"]
    /\ Proceed
    /\ UNCHANGED <<chain, returned>>

SyncFile ==
    /\ Doing("syncFile")
    /\ bytes' = [bytes EXCEPT ![todo[1][3]] = "sealed"]
    /\ Proceed
    /\ UNCHANGED <<chain, files, returned>>

(* `promote` and `promote_staged`: a link that never replaces.             *)
Promote ==
    /\ Doing("promote")
    /\ LET name == todo[1][3]
       IN /\ IF LinkFree(name) THEN Link(name, todo[1][4]) ELSE UNCHANGED files
          /\ GoOn(LinkFree(name), Tail(todo), "generationExists")
    /\ UNCHANGED <<chain, bytes, returned>>

SyncRecord ==
    /\ Doing("syncRecord")
    /\ sure' = seen
    /\ maybe' = seen
    /\ Proceed
    /\ UNCHANGED <<chain, seen, bytes, returned>>

(* `relocate`'s link: a rejected name that already holds the same bytes is *)
(* a relocation an earlier run did not finish.                             *)
NeverRelocated(name, rejected) == FALSE
AlreadyRelocated(name, rejected) ==
    Present(rejected) /\ Holders(seen, rejected) = Holders(seen, name)

LinkRejected ==
    /\ Doing("linkRejected")
    /\ LET name == todo[1][2]
           rejected == Rejected(name, todo[1][3])
       IN \E w \in Holders(seen, name) :
             /\ IF Present(rejected) THEN UNCHANGED files ELSE Link(rejected, w)
             /\ GoOn(~Present(rejected) \/ AlreadyRelocated(name, rejected), Tail(todo), "rejectedExists")
    /\ UNCHANGED <<chain, bytes, returned>>

(* The removal at the end of `relocate`, and the drop of the staging name  *)
(* once ACTIVE is recorded, whose failure nobody reports.                  *)
RemoveName ==
    /\ Doing("remove") \/ Doing("drop")
    /\ Unlink(todo[1][2])
    /\ Proceed
    /\ UNCHANGED <<chain, bytes, returned>>

DropFails ==
    /\ Doing("drop")
    /\ faults < MaxFaults
    /\ faults' = faults + 1
    /\ todo' = Tail(todo)
    /\ UNCHANGED <<chain, files, bytes, begun, returned, refusal>>

(* `classify_debris`: a staging file is removed only where its generation  *)
(* holds its bytes, and never the pending candidate.                       *)
Redundant(e) == /\ e[1][1] = "staging"
                /\ <<Generation(e[1][2]), e[2]>> \in seen
                /\ e[2] # Authority.pending.op

ClassifyDebris ==
    /\ Doing("debris")
    /\ LET gone == {e \in seen : Redundant(e)}
       IN seen' = seen \ gone /\ sure' = sure \ gone /\ maybe' = maybe
    /\ Proceed
    /\ UNCHANGED <<chain, bytes, returned>>

Return ==
    /\ Doing("return")
    /\ returned' = todo[1][2]
    /\ Proceed
    /\ UNCHANGED <<chain, files, bytes>>

(***************************************************************************)
(* Faults.                                                                 *)
(***************************************************************************)
Interrupt == /\ faults < MaxFaults
             /\ faults' = faults + 1
             /\ todo' = << >>
             /\ refusal' = "none"
             /\ UNCHANGED <<begun, returned>>

Infallible == {"drop", "return", "syncFile"}

(* A step that fails without effect ends the operation with an error.      *)
StepFails == /\ todo # << >>
             /\ todo[1][1] \notin Infallible
             /\ Interrupt
             /\ UNCHANGED <<chain, files, bytes>>

(* What the page cache keeps of bytes whose writing was interrupted before *)
(* the sync: all of them or a part.                                        *)
Unsynced == {"stranded", "torn"}

(* The write or the sync of the staging file fails: `abandon` removes the  *)
(* file, or fails to.                                                      *)
StagingFails ==
    /\ Doing("syncFile")
    /\ LET w == todo[1][3]
       IN \E left \in Unsynced : bytes' = [bytes EXCEPT ![w] = left]
    /\ Unlink(todo[1][2]) \/ UNCHANGED files
    /\ Interrupt
    /\ UNCHANGED chain

ProcessKilled ==
    /\ todo # << >>
    /\ IF Doing("syncFile")
       THEN LET w == todo[1][3]
            IN \E left \in Unsynced : bytes' = [bytes EXCEPT ![w] = left]
       ELSE UNCHANGED bytes
    /\ Interrupt
    /\ UNCHANGED <<chain, files>>

(* Bytes no sync has forced to the disk, and what a power loss makes of    *)
(* them when the disk has all of the bytes in `kept`.                      *)
Cached == {w \in Writes : bytes[w] \in {"written", "stranded"}}
AfterLoss(w, kept) == IF w \notin Cached THEN bytes[w]
                      ELSE IF w \in kept THEN "sealed"
                      ELSE IF bytes[w] = "written" THEN "torn" ELSE "lost"

PowerLoss ==
    /\ \E lost \in SUBSET (maybe \ sure) :
          /\ OneContentPerName(maybe \ lost)
          /\ seen' = maybe \ lost
          /\ sure' = seen'
          /\ maybe' = seen'
    /\ \E n \in durableMarkers .. Len(markers) :
          /\ markers' = SubSeq(markers, 1, n)
          /\ durableMarkers' = n
    /\ \E kept \in SUBSET Cached : bytes' = [w \in Writes |-> AfterLoss(w, kept)]
    /\ Interrupt

Next == \/ CommitWrite \/ StartupReconcile \/ ReadCommitted
        \/ Reconcile \/ BeginWrite \/ Read \/ Verify
        \/ LinkMarker \/ SyncMarkers
        \/ CreateStaging \/ SyncFile \/ Promote \/ SyncRecord
        \/ LinkRejected \/ RemoveName \/ DropFails
        \/ ClassifyDebris \/ Return
        \/ StepFails \/ StagingFails \/ ProcessKilled \/ PowerLoss

Spec == Init /\ [][Next]_vars
-----------------------------------------------------------------------------
(***************************************************************************)
(* Properties.                                                             *)
(***************************************************************************)
(* Type correctness: no name of the record directory ever holds two        *)
(* contents, neither as programs see it nor on disk, and only the newest   *)
(* marker may still be lost.                                               *)
TypeOK ==
    /\ durableMarkers \in {Len(markers), Len(markers) - 1}
    /\ \A i \in 1 .. Len(markers) :
          /\ markers[i].kind \in {"pending", "active"}
          /\ markers[i].op \in Writes
          /\ markers[i].gen \in Writes
          /\ markers[i].old \in 0 .. MaxWrites
    /\ sure \subseteq seen /\ seen \subseteq maybe
    /\ OneContentPerName(seen)
    /\ \A e \in maybe : e[2] \in 1 .. begun
    /\ bytes \in [Writes -> {"none", "written", "stranded", "sealed", "torn", "lost"}]
    /\ begun \in 0 .. MaxWrites /\ returned \in 0 .. begun
    /\ refusal \in {"none", "recoveryRequired", "generationExists", "rejectedExists"}
    /\ faults \in 0 .. MaxFaults

(* A generation is committed only when it is all there: once a marker that *)
(* says ACTIVE is on disk, so is the directory entry of its generation, and*)
(* the bytes under it were complete when it was committed.  They are never *)
(* an envelope whose writing broke off, though they may still be in the    *)
(* page cache alone, and then a power loss can take them                   *)
(* (docs/native/R15-SECURE-STORAGE-CONTRACT.md section 9.2).               *)
CommittedWhole ==
    LET c == Durable.serving
    IN c = Nothing \/ (/\ <<Generation(c.gen), c.op>> \in sure
                       /\ bytes[c.op] \in {"sealed", "stranded", "lost"})

(* What section 9.2 asks for: a write whose staging file was never synced  *)
(* is not committed, so what is committed is on disk.  The reconciliation  *)
(* adopts a staging file because its bytes open, and they do open from the *)
(* page cache.                                                             *)
CommittedDurable ==
    LET c == Durable.serving
    IN c = Nothing \/ bytes[c.op] = "sealed"

(* Faults never bring the record to RECOVERY_REQUIRED nor block the        *)
(* relocation of rejected bytes, but for the power loss that takes bytes   *)
(* no sync had forced to the disk; otherwise only tampering does.          *)
Lost == \E w \in Writes : bytes[w] = "lost"
NeverStuck == refusal \in {"recoveryRequired", "rejectedExists"} => Lost

(* Bytes that were once durable under some name stay durable under some    *)
(* name: rejected candidates are relocated, superseded ones kept, and only *)
(* a second name of the same bytes is ever removed.                        *)
NeverDeleted ==
    [][\A w \in Writes : (bytes[w] = "sealed" /\ \E e \in sure : e[2] = w)
                             => \E e \in sure' : e[2] = w]_vars

NewestWrite(n) ==
    CHOOSE w \in Writes : /\ \E i \in 1 .. n : markers[i].op = w
                          /\ \A i \in 1 .. n : markers[i].op <= w

(* The protocol implements an atomic register, seen through the durable    *)
(* marker chain: a write commits when its ACTIVE marker is on disk, is in  *)
(* doubt while its PENDING marker is the newest one there, and what a read *)
(* or a success once returned is never undone by a fault.                  *)
Register == INSTANCE AtomicRecord
    WITH value <- Durable.serving.op,
         pending <- Durable.pending.op,
         begun <- IF durableMarkers = 0 THEN 0 ELSE NewestWrite(durableMarkers)

Atomic == Register!Spec
=============================================================================
