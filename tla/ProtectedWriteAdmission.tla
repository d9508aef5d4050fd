----------------------- MODULE ProtectedWriteAdmission -----------------------
(***************************************************************************)
(* The in-process reader/writer lock protectedWriteAdmission.ts falls back *)
(* to where navigator.locks is missing.  withProtectedWriteAdmission takes *)
(* it shared, around key resolution and the transaction of one protected   *)
(* write; withMigrationAdmission takes it exclusive, around one migration  *)
(* batch.  JavaScript runs a synchronous stretch without interruption, so  *)
(* acquireFallback up to its await, and the release closure, are one       *)
(* action each.  The promise a waiter is granted resolves in a microtask   *)
(* of its own: between the grant and Enter other calls may run.            *)
(***************************************************************************)
EXTENDS Naturals, FiniteSets, Sequences

CONSTANTS Writers,    \* callers of withProtectedWriteAdmission
          Migrations  \* callers of withMigrationAdmission

Callers == Writers \cup Migrations

ASSUME CallersOK == /\ Writers \cap Migrations = {}
                    /\ IsFiniteSet(Callers)

VARIABLES
  activeShared,   \* fallbackActiveShared
  exclusiveHeld,  \* fallbackExclusiveHeld
  waiters,        \* fallbackWaiters; a caller stands for its mode and grant
  pc              \* where the call of each caller is

vars == <<activeShared, exclusiveHeld, waiters, pc>>

TypeOK == /\ activeShared \in Nat
          /\ exclusiveHeld \in BOOLEAN
          /\ waiters \in Seq(Callers)
          /\ pc \in [Callers -> {"out", "queued", "granted", "in"}]

Init == /\ activeShared = 0
        /\ exclusiveHeld = FALSE
        /\ waiters = <<>>
        /\ pc = [c \in Callers |-> "out"]

(* fallbackHasQueuedExclusive *)
HasQueuedExclusive == \E i \in DOMAIN waiters : waiters[i] \in Migrations

\* Mutant of CanClaim: an exclusive claim does not look at the shared holders.
CanClaimOverReaders(c) == ~exclusiveHeld /\ (c \in Writers => ~HasQueuedExclusive)

\* Mutant of CanClaim: a shared claim does not look at the waiters.
CanClaimBarging(c) == ~exclusiveHeld /\ (c \in Migrations => activeShared = 0)

(* fallbackTryClaim, its condition: the mode is free for the caller *)
CanClaim(c) ==
  /\ ~exclusiveHeld
  /\ c \in Migrations => activeShared = 0
  /\ c \in Writers => ~HasQueuedExclusive

(* and its effect: the lock is the caller's from here on *)
Claim(c) ==
  /\ activeShared' = IF c \in Writers THEN activeShared + 1 ELSE activeShared
  /\ exclusiveHeld' = (exclusiveHeld \/ c \in Migrations)

(* acquireFallback, up to its await: claim the lock or join the waiters *)
Acquire(c) ==
  /\ pc[c] = "out"
  /\ \/ /\ CanClaim(c)
        /\ Claim(c)
        /\ pc' = [pc EXCEPT ![c] = "granted"]
        /\ UNCHANGED waiters
     \/ /\ ~CanClaim(c)
        /\ waiters' = Append(waiters, c)
        /\ pc' = [pc EXCEPT ![c] = "queued"]
        /\ UNCHANGED <<activeShared, exclusiveHeld>>

(* The continuation of acquireFallback: fn starts *)
Enter(c) ==
  /\ pc[c] = "granted"
  /\ pc' = [pc EXCEPT ![c] = "in"]
  /\ UNCHANGED <<activeShared, exclusiveHeld, waiters>>

\* Mutant of WakeNext: the newest waiter is granted, alone.
WakeNewest(c, shared) ==
  LET n == Len(waiters)
      d == IF n = 0 THEN c ELSE waiters[n]
  IN  /\ exclusiveHeld' = (n > 0 /\ d \in Migrations)
      /\ activeShared' = shared + (IF n > 0 /\ d \in Writers THEN 1 ELSE 0)
      /\ waiters' = SubSeq(waiters, 1, n - 1)
      /\ pc' = [pc EXCEPT ![c] = "out", ![d] = IF n = 0 THEN "out" ELSE "granted"]

(* fallbackWakeNext, after the release of c left no exclusive holder: an   *)
(* exclusive head is granted alone, otherwise every shared waiter ahead of *)
(* the first exclusive one.  The lock is claimed for them here, before     *)
(* their promises resolve.                                                 *)
WakeNext(c, shared) ==
  \E n \in 0..Len(waiters) :
    LET next == {waiters[i] : i \in 1..n}
    IN  /\ \/ /\ n = 1 /\ waiters[1] \in Migrations
              /\ exclusiveHeld' = TRUE
              /\ activeShared' = shared
           \/ /\ next \subseteq Writers
              /\ n < Len(waiters) => n > 0 /\ waiters[n + 1] \in Migrations
              /\ exclusiveHeld' = FALSE
              /\ activeShared' = shared + n
        /\ waiters' = SubSeq(waiters, n + 1, Len(waiters))
        /\ pc' = [d \in Callers |-> IF d = c THEN "out"
                                    ELSE IF d \in next THEN "granted" ELSE pc[d]]

\* Mutant of ReleaseShared: the last shared holder wakes nobody.
ReleaseSharedSilent(c) ==
  /\ pc[c] = "in" /\ c \in Writers
  /\ activeShared' = activeShared - 1
  /\ pc' = [pc EXCEPT ![c] = "out"]
  /\ UNCHANGED <<exclusiveHeld, waiters>>

(* The release closure of a shared holder; fn returned or threw *)
ReleaseShared(c) ==
  /\ pc[c] = "in" /\ c \in Writers
  /\ \/ /\ activeShared - 1 = 0
        /\ WakeNext(c, 0)
     \/ /\ activeShared - 1 # 0
        /\ activeShared' = activeShared - 1
        /\ pc' = [pc EXCEPT ![c] = "out"]
        /\ UNCHANGED <<exclusiveHeld, waiters>>

\* Mutant of ReleaseExclusive: an exclusive holder runs the closure of a shared one.
ReleaseExclusiveAsShared(c) ==
  /\ pc[c] = "in" /\ c \in Migrations
  /\ WakeNext(c, activeShared - 1)

(* The release closure of the exclusive holder *)
ReleaseExclusive(c) ==
  /\ pc[c] = "in" /\ c \in Migrations
  /\ WakeNext(c, activeShared)

Next == \E c \in Callers : \/ Acquire(c)
                           \/ Enter(c)
                           \/ ReleaseShared(c)
                           \/ ReleaseExclusive(c)

Spec == Init /\ [][Next]_vars

(* Microtasks run, and an admitted fn settles: no caller holds the lock    *)
(* across a wait for the user or the network.  No caller has to call.      *)
FairSpec == Spec /\ \A c \in Callers :
                      WF_vars(Enter(c) \/ ReleaseShared(c) \/ ReleaseExclusive(c))

-----------------------------------------------------------------------------
(* Properties *)

(* The callers the lock belongs to: granted, or inside fn *)
Holders == {c \in Callers : pc[c] \in {"granted", "in"}}

(* The two module variables say exactly who owns the lock, also while a    *)
(* granted waiter has not resumed yet, and a migration batch owns it alone *)
(* (doc comments at protectedWriteAdmission.ts:31 and :44).                *)
LockExclusion ==
  /\ activeShared = Cardinality(Holders \cap Writers)
  /\ exclusiveHeld <=> Holders \cap Migrations # {}
  /\ \A c \in Holders \cap Migrations : Holders = {c}

(* No wakeup is lost: someone who will release the lock owns it whenever a *)
(* call waits, and a call waits for a reason: under shared holders only    *)
(* behind an exclusive request, which is then the head.                    *)
NoLostWakeup ==
  waiters # <<>> => /\ Holders # {}
                    /\ ~exclusiveHeld => waiters[1] \in Migrations

(* Neither a stream of writers nor a stream of migration batches starves   *)
(* the other side: every call that waits is admitted.                      *)
EveryWaiterEnters == \A c \in Callers : (pc[c] = "queued") ~> (pc[c] = "in")

(* The lock implements the abstract first-come first-served one *)
Abstract == INSTANCE FairLock WITH holders <- Holders, queue <- waiters

Implements == Abstract!Spec

=============================================================================
