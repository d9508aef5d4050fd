-------------------------- MODULE PriorityTaskQueue --------------------------
(***************************************************************************)
(* taskQueue.ts: four first-in first-out lines, one per priority, bounded  *)
(* together.  A queue is a function from priorities to sequences of tasks; *)
(* the operators say what a method call leaves behind.                     *)
(***************************************************************************)
EXTENDS Naturals, Sequences

CONSTANTS MaxSize,         \* maxSize
          CriticalReserve, \* criticalReserve: places kept for critical tasks
          MaxPreemptions   \* MAX_PREEMPTIONS

ASSUME QueueOK == MaxSize \in Nat /\ CriticalReserve \in Nat /\ MaxPreemptions \in Nat \ {0}

Priorities == 1..4
Critical == 1
Normal   == 3
Low      == 4

EmptyQueue == [p \in Priorities |-> <<>>]

(* totalDepth *)
Depth(q) == Len(q[1]) + Len(q[2]) + Len(q[3]) + Len(q[4])

(* enqueue, its bound: the reserve is for critical tasks only *)
Admits(q, prio) ==
  Depth(q) < IF prio = Critical THEN MaxSize + CriticalReserve ELSE MaxSize

(* effectivePriority; n is requeueCount *)
EffectivePriority(prio, n) ==
  IF prio = Low /\ n >= MaxPreemptions THEN Normal ELSE prio

(* enqueue of an admitted task *)
Pushed(q, t, p) == [q EXCEPT ![p] = Append(@, t)]

Places(q) == {pl \in Priorities \X (1..Depth(q)) : pl[2] \in DOMAIN q[pl[1]]}
At(q, pl) == q[pl[1]][pl[2]]

Before(a, b) == a[1] < b[1] \/ (a[1] = b[1] /\ a[2] < b[2])

(* dequeueFirst looks at the lines by priority, each in order: the places  *)
(* of S none of S is before (one place, or none)                           *)
FirstOf(S) == {pl \in S : \A other \in S : ~Before(other, pl)}

RemovedAt(q, pl) ==
  [q EXCEPT ![pl[1]] = SubSeq(@, 1, pl[2] - 1) \o SubSeq(@, pl[2] + 1, Len(@))]

(* remove: the first occurrence, if there is one *)
Removed(q, t) ==
  LET here == FirstOf({pl \in Places(q) : At(q, pl) = t})
  IN  IF here = {} THEN q ELSE RemovedAt(q, CHOOSE pl \in here : TRUE)

(* filter: the entries of s that belong to S, in their order *)
Only(s, S) ==
  LET f[i \in 0..Len(s)] == IF i = 0 THEN <<>>
                            ELSE IF s[i] \in S THEN Append(f[i - 1], s[i])
                            ELSE f[i - 1]
  IN  f[Len(s)]

(* promoteStarvedTasks, after a dequeue of priority p: every low task was  *)
(* passed over once more, and one passed over often enough becomes normal. *)
(* n is the requeueCount of t.                                             *)
PassedOver(q, p, n, t) ==
  IF p # Critical /\ \E i \in DOMAIN q[Low] : q[Low][i] = t THEN n + 1 ELSE n

Promoted(q, p, n) ==
  LET overdue == {t \in DOMAIN n : n[t] + 1 >= MaxPreemptions}
  IN  IF p = Critical THEN q
      ELSE [q EXCEPT ![Low] = Only(@, DOMAIN n \ overdue),
                     ![Normal] = @ \o Only(q[Low], overdue)]

=============================================================================
