----------------------- MODULE PersistenceCoordinator -----------------------
(***************************************************************************)
(* The queue in front of one persisted resource (app/persistence-          *)
(* Coordinator.ts), as operators on its state: one save runs, the newest   *)
(* one waits, and an uninterrupted run of saves is a chain with one        *)
(* outcome.  A save is the version of the resource it writes.              *)
(***************************************************************************)
EXTENDS Integers, Sequences

CONSTANT RetainedChains     \* outcomes kept for a flush to look back at

ASSUME RetainedAssumption == RetainedChains \in Nat \ {0}

NoSave == [gen |-> 0, version |-> 0]

NewCoordinator ==
    [next |-> 0, active |-> NoSave, queued |-> NoSave,
     waiters |-> {}, chains |-> <<>>]

Idle(c) == c.active = NoSave /\ c.queued = NoSave

EnqueuedOnly(c, who, version) ==
    LET save == [gen |-> c.next + 1, version |-> version]
    IN  [c EXCEPT !.next = save.gen, !.queued = save,
                  !.waiters = @ \cup {[gen |-> save.gen, client |-> who]}]

(* A save joins the queue, in front of which it pushes an older one, or    *)
(* starts a chain.                                                         *)
Enqueued(c, who, version) ==
    LET save == [gen |-> c.next + 1, version |-> version]
        joined == [c EXCEPT !.next = save.gen,
                            !.waiters = @ \cup {[gen |-> save.gen, client |-> who]}]
    IN  IF c.active # NoSave
        THEN [joined EXCEPT !.queued = save]
        ELSE [joined EXCEPT !.active = save, !.chains = Append(@, "open")]

(* Whom the end of the active save answers: nobody if it succeeded and     *)
(* another one takes over.                                                 *)
Answered(c, ok) ==
    IF ok /\ c.queued # NoSave THEN {}
    ELSE {w \in c.waiters : w.gen <= c.active.gen}

Answer(c, w, ok) ==
    CASE ~ok /\ c.queued = NoSave -> "failed"
      [] ok /\ w.gen = c.active.gen -> "saved"
      [] OTHER -> "superseded"

EndedRetrying(c, ok) ==
    IF ~ok /\ c.queued # NoSave
    THEN [c EXCEPT !.active = c.queued, !.queued = c.active]
    ELSE LET answered == [c EXCEPT !.waiters = @ \ Answered(c, ok),
                                   !.active = c.queued, !.queued = NoSave]
         IN  IF c.queued # NoSave THEN answered
             ELSE [answered EXCEPT !.chains[Len(c.chains)] = IF ok THEN "ok" ELSE "failed"]

Ended(c, ok) ==
    LET answered == [c EXCEPT !.waiters = @ \ Answered(c, ok),
                              !.active = c.queued, !.queued = NoSave]
    IN  IF c.queued # NoSave THEN answered
        ELSE [answered EXCEPT !.chains[Len(c.chains)] =
                                  IF ok THEN "ok" ELSE "failed"]

(* What a flush remembers of the chains, and the first one it must see end *)
(* well.  The history keeps only so many.                                  *)
ChainMark(c) == [seq |-> Len(c.chains), activeAtMark |-> c.active # NoSave]

FirstSince(mark) == IF mark.activeAtMark THEN mark.seq ELSE mark.seq + 1

HistoryCovers(c, mark) == FirstSince(mark) > Len(c.chains) - RetainedChains
=============================================================================
