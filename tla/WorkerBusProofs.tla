------------------------- MODULE WorkerBusProofs -------------------------
(***************************************************************************)
(* What holds of the worker bus for any number of tasks, pools, workers,   *)
(* retries and faults: no task is lost or doubled, no worker is shared or  *)
(* leaked, and the pump is never forgotten.                                *)
(*                                                                         *)
(* The inductive invariant `IInv` is stated over plain values, not over    *)
(* the variables, so that what a helper does to a queue or to a set of     *)
(* attempts is a lemma about values and each action only combines them.    *)
(* `TaskSide` relates tasks, queue and attempts: a pending task is in one  *)
(* place (`Placed`), no two attempts have the same task and number, and a  *)
(* task passed over often enough is not among the low ones.  `Owned`,      *)
(* `InTime` and `Bounded` relate pools, attempts and queued error events:  *)
(* a busy worker belongs to exactly one attempt that is in time, and a     *)
(* pool outgrows maxWorkers by at most the error events thrown while one   *)
(* was queued already (`errors`).  `WorkSide` is what the pump owes.       *)
(*                                                                         *)
(* The module goes from lists and the queue over single tasks and the      *)
(* workers of a pool to one lemma per action of `Next`.                    *)
(***************************************************************************)
EXTENDS WorkerBus, SequenceTheorems, FiniteSetTheorems, WellFoundedInduction, TLAPS

-----------------------------------------------------------------------------
(* Lists: an entry of a list, and lists that hold no entry twice.          *)
Injective(s) == \A i, j \in DOMAIN s : s[i] = s[j] => i = j
Holds(s, x) == \E i \in DOMAIN s : s[i] = x

(* A task in a queue, and queues that hold no task twice.                   *)
In(q, t) == \E p \in Priorities : Holds(q[p], t)
Once(q) ==
  /\ \A p \in Priorities : Injective(q[p])
  /\ \A t \in Tasks, p, r \in Priorities : Holds(q[p], t) /\ Holds(q[r], t) => p = r

(* An attempt of t that still counts.                                      *)
Counts(tk, atts, t) == \E a \in atts : a.task = t /\ tk[t].active = a.n /\ ~a.timedOut

(* A pending task waits in the queue, or for its retry timer, or one of    *)
(* its attempts counts; attempts are numbered by the retries.              *)
Placed(tk, q, atts, t) ==
  /\ \A a \in atts : a.task = t => a.n <= tk[t].retry + 1
  /\ In(q, t) \/ tk[t].retryTimer =>
       ~Counts(tk, atts, t) /\ \A a \in atts : a.task = t => a.n <= tk[t].retry
  /\ ~(In(q, t) /\ tk[t].retryTimer)
  /\ In(q, t) \/ tk[t].retryTimer \/ Counts(tk, atts, t)

OneTask(tk, q, atts, t) ==
  /\ tk[t].pending => Placed(tk, q, atts, t)
  /\ ~tk[t].pending => tk[t] = NoTask /\ ~In(q, t)

(* A task that was passed over often enough is not among the low ones.     *)
LowWaits(tk, q) == \A t \in Tasks : Holds(q[Low], t) => tk[t].requeued < MaxPreemptions

KeyOnce(atts) == \A a, b \in atts : a.task = b.task /\ a.n = b.n => a = b

TaskSide(tk, q, atts) ==
  /\ Once(q) /\ KeyOnce(atts) /\ LowWaits(tk, q)
  /\ \A t \in Tasks : OneTask(tk, q, atts, t)

(* A busy worker belongs to exactly one attempt.                           *)
Owned(en, bu, idle, atts) ==
  \A p \in Pools :
    /\ bu[p] \subseteq en[p] \ idle[p] /\ idle[p] \subseteq en[p]
    /\ \A a \in atts : a.pool = p /\ a.worker # None => a.worker \in bu[p]
    /\ \A a, b \in atts : a.pool = p /\ b.pool = p /\ a.worker = b.worker /\ a.worker # None => a = b
    /\ \A w \in bu[p] : \E a \in atts : a.pool = p /\ a.worker = w

(* An attempt that is late, or released, has no worker.                    *)
InTime(atts) == \A a \in atts : a.timedOut \/ a.stage = "accept" => a.worker = None

(* How many workers a pool may have, and what error events name.           *)
Bounded(en, ev, m) ==
  \A p \in Pools :
    /\ \A i \in DOMAIN ev[p] : ev[p][i] \in en[p] \cup {None}
    /\ Len(ev[p]) <= m
    /\ Cardinality(en[p]) + Len(ev[p]) <= MaxWorkers[p] + m

(* Unless the pump is due or under way, nothing queued can run.            *)
WorkSide ==
  running /\ faults = 0 /\ ~pumpScheduled /\ ~pumping =>
    \A t \in Tasks : In(queue, t) => ~Selectable(t)

IInv ==
  /\ TypeOK /\ TaskSide(task, queue, attempts)
  /\ Owned(entries, busy, idleTimer, attempts) /\ InTime(attempts)
  /\ Bounded(entries, errs, errors) /\ dying \subseteq down
  /\ WorkSide

-----------------------------------------------------------------------------
(* Lists.                                                                  *)
Filters(f, s, S, n) ==
  f = [i \in 0..n |-> IF i = 0 THEN <<>>
                      ELSE IF s[i] \in S THEN Append(f[i - 1], s[i])
                      ELSE f[i - 1]]

LEMMA Least ==
  ASSUME NEW T \in SUBSET Nat, T # {}
  PROVE  \E n \in T : \A m \in T : n <= m
<1> DEFINE R == OpToRel(<, Nat)
<1>1. PICK n \in T : \A m \in T : ~ (<<m, n>> \in R)
  <2>1. IsWellFoundedOn(R, Nat)
    BY NatLessThanWellFounded
  <2> HIDE DEF R
  <2> QED BY <2>1, WFMin
<1>2. \A m \in T : ~(m < n)
  BY <1>1 DEF OpToRel
<1> QED BY <1>2

LEMMA FiltersAt ==
  ASSUME NEW f, NEW s, NEW S, NEW n \in Nat, Filters(f, s, S, n)
  PROVE  /\ f[0] = <<>>
         /\ \A i \in 1..n : f[i] = IF s[i] \in S THEN Append(f[i - 1], s[i]) ELSE f[i - 1]
<1> DEFINE g == [i \in 0..n |-> IF i = 0 THEN <<>>
                                ELSE IF s[i] \in S THEN Append(f[i - 1], s[i])
                                ELSE f[i - 1]]
<1>1. f = g
  BY DEF Filters
<1>2. g[0] = <<>> /\ \A i \in 1..n : g[i] = IF s[i] \in S THEN Append(f[i - 1], s[i]) ELSE f[i - 1]
  OBVIOUS
<1> HIDE DEF g
<1> QED BY <1>1, <1>2

LEMMA FilterExists ==
  ASSUME NEW s, NEW S, NEW n \in Nat
  PROVE  \E f : Filters(f, s, S, n)
<1> DEFINE T == {i \in Nat : ~ \E f : Filters(f, s, S, i)}
<1> SUFFICES T = {}
  OBVIOUS
<1> SUFFICES ASSUME T # {} PROVE FALSE
  OBVIOUS
<1>1. PICK i \in T : \A j \in T : i <= j
  <2>1. T \in SUBSET Nat
    OBVIOUS
  <2> HIDE DEF T
  <2> QED BY <2>1, Least
<1>2. CASE i = 0
  <2> DEFINE f == [j \in 0..0 |-> <<>>]
  <2>1. f = [j \in 0..0 |-> IF j = 0 THEN <<>>
                            ELSE IF s[j] \in S THEN Append(f[j - 1], s[j])
                            ELSE f[j - 1]]
    OBVIOUS
  <2>2. Filters(f, s, S, 0)
    BY <2>1 DEF Filters
  <2> QED BY <1>1, <1>2, <2>2
<1>3. CASE i # 0
  <2>1. i - 1 \in Nat /\ i - 1 \notin T
    BY <1>1, <1>3
  <2>2. PICK f : Filters(f, s, S, i - 1)
    BY <2>1
  <2> DEFINE g == [j \in 0..i |-> IF j = i THEN IF s[i] \in S THEN Append(f[i - 1], s[i]) ELSE f[i - 1]
                                  ELSE f[j]]
             h == [j \in 0..i |-> IF j = 0 THEN <<>>
                                  ELSE IF s[j] \in S THEN Append(g[j - 1], s[j])
                                  ELSE g[j - 1]]
  <2>3. /\ f[0] = <<>>
        /\ \A j \in 1..i - 1 : f[j] = IF s[j] \in S THEN Append(f[j - 1], s[j]) ELSE f[j - 1]
    BY <2>1, <2>2, FiltersAt
  <2>4. ASSUME NEW j \in 0..i PROVE g[j] = h[j]
    <3>1. CASE j = 0
      BY <1>3, <2>3, <3>1
    <3>2. CASE j = i
      <4>1. g[j - 1] = f[i - 1]
        BY <1>3, <2>1, <3>2
      <4> QED BY <1>3, <2>1, <3>2, <4>1
    <3>3. CASE j # 0 /\ j # i
      <4>1. j \in 1..i - 1 /\ j - 1 \in 0..i /\ j - 1 # i
        BY <1>1, <2>1, <3>3
      <4>2. g[j] = f[j] /\ g[j - 1] = f[j - 1]
        BY <3>3, <4>1
      <4> QED BY <2>3, <3>3, <4>1, <4>2
    <3> QED BY <3>1, <3>2, <3>3
  <2>5. g = h
    BY <2>4
  <2>6. Filters(g, s, S, i)
    BY <2>5 DEF Filters
  <2> QED BY <1>1, <2>6
<1> QED BY <1>2, <1>3

(* What a filtered list holds.                                             *)
LEMMA OnlyList ==
  ASSUME NEW X, NEW s \in Seq(X), NEW S
  PROVE  /\ Only(s, S) \in Seq(X)
         /\ \A x : Holds(Only(s, S), x) <=> Holds(s, x) /\ x \in S
         /\ Injective(s) => Injective(Only(s, S))
<1>0. Len(s) \in Nat /\ DOMAIN s = 1..Len(s)
  OBVIOUS
<1>1. PICK f : f = CHOOSE g : Filters(g, s, S, Len(s))
  OBVIOUS
<1>2. Filters(f, s, S, Len(s)) /\ Len(s) \in Nat /\ DOMAIN s = 1..Len(s)
  <2>1. \E g : Filters(g, s, S, Len(s))
    BY <1>0, FilterExists
  <2> QED BY <1>0, <1>1, <2>1
<1>3. Only(s, S) = f[Len(s)]
  BY <1>1 DEF Only, Filters
<1>4. /\ f[0] = <<>>
      /\ \A i \in 1..Len(s) : f[i] = IF s[i] \in S THEN Append(f[i - 1], s[i]) ELSE f[i - 1]
  BY <1>2, FiltersAt
<1> DEFINE Good(i) == /\ f[i] \in Seq(X)
                      /\ \A x : Holds(f[i], x) <=> x \in S /\ \E k \in 1..i : s[k] = x
                      /\ Injective(s) => Injective(f[i])
           T == {i \in 0..Len(s) : ~Good(i)}
<1>5. T = {}
  <2> SUFFICES ASSUME T # {} PROVE FALSE
    OBVIOUS
  <2>1. PICK i \in T : \A j \in T : i <= j
    <3>1. T \in SUBSET Nat
      BY <1>2
    <3> HIDE DEF T
    <3> QED BY <3>1, Least
  <2>2. CASE i = 0
    <3>1. f[0] = <<>>
      BY <1>4
    <3>2. <<>> \in Seq(X) /\ DOMAIN <<>> = {}
      OBVIOUS
    <3>3. PICK g : g = f[0]
      OBVIOUS
    <3>4. g \in Seq(X) /\ (\A x : ~Holds(g, x)) /\ Injective(g)
      BY <3>1, <3>2, <3>3 DEF Holds, Injective
    <3>5. \A x : ~ \E k \in 1..0 : s[k] = x
      OBVIOUS
    <3>6. Good(0)
      BY <3>3, <3>4, <3>5
    <3> QED BY <2>1, <2>2, <3>6
  <2>3. CASE i # 0
    <3>0. i \in 0..Len(s) /\ ~Good(i)
      BY <2>1
    <3>1. i \in 1..Len(s) /\ i - 1 \in 0..Len(s) /\ i - 1 \notin T
      <4> HIDE DEF T, Good
      <4>1. i \in 1..Len(s) /\ i - 1 \in 0..Len(s) /\ ~(i <= i - 1)
        BY <1>2, <2>3, <3>0
      <4> QED BY <2>1, <4>1
    <3>2. Good(i - 1)
      <4> HIDE DEF Good
      <4> QED BY <3>1
    <3>3. PICK g, e : g = f[i - 1] /\ e = s[i]
      OBVIOUS
    <3>4. /\ g \in Seq(X) /\ e \in X
          /\ \A x : Holds(g, x) <=> x \in S /\ \E k \in 1..i - 1 : s[k] = x
          /\ Injective(s) => Injective(g)
      BY <1>2, <3>1, <3>2, <3>3, ElementOfSeq
    <3>5. \A x : (\E k \in 1..i : s[k] = x) <=> (\E k \in 1..i - 1 : s[k] = x) \/ e = x
      <4>1. \A k : k \in 1..i <=> k \in 1..i - 1 \/ k = i
        BY <3>1
      <4> QED BY <3>3, <4>1
    <3>6. CASE e \in S
      <4>1. f[i] = Append(g, e)
        BY <1>4, <3>1, <3>3, <3>6
      <4>2. /\ Append(g, e) \in Seq(X) /\ DOMAIN Append(g, e) = 1..Len(g) + 1
            /\ \A j \in 1..Len(g) : Append(g, e)[j] = g[j]
            /\ Append(g, e)[Len(g) + 1] = e
            /\ Len(g) \in Nat /\ DOMAIN g = 1..Len(g)
        BY <3>4, AppendProperties
      <4>3. PICK h : h = Append(g, e)
        OBVIOUS
      <4>4. \A j : j \in DOMAIN h <=> j \in DOMAIN g \/ j = Len(g) + 1
        BY <4>2, <4>3
      <4>5. \A j \in DOMAIN g : h[j] = g[j] /\ j # Len(g) + 1
        BY <4>2, <4>3
      <4>6. \A x : Holds(h, x) <=> Holds(g, x) \/ x = e
        BY <4>2, <4>3, <4>4, <4>5 DEF Holds
      <4>7. Injective(s) => Injective(h)
        <5> SUFFICES ASSUME Injective(s) PROVE Injective(h)
          OBVIOUS
        <5>1. ~Holds(g, e)
          <6> SUFFICES ASSUME Holds(g, e) PROVE FALSE
            OBVIOUS
          <6>1. PICK k \in 1..i - 1 : s[k] = s[i]
            BY <3>3, <3>4
          <6>2. k \in DOMAIN s /\ i \in DOMAIN s /\ k # i
            BY <1>2, <3>1
          <6> QED BY <6>1, <6>2 DEF Injective
        <5>2. Injective(g)
          BY <3>4
        <5> QED BY <4>2, <4>3, <4>4, <4>5, <5>1, <5>2 DEF Injective, Holds
      <4>8. Good(i)
        BY <3>4, <3>5, <3>6, <4>1, <4>2, <4>3, <4>6, <4>7
      <4> QED BY <2>1, <4>8
    <3>7. CASE e \notin S
      <4>1. f[i] = g
        BY <1>4, <3>1, <3>3, <3>7
      <4>2. Good(i)
        BY <3>4, <3>5, <3>7, <4>1
      <4> QED BY <2>1, <4>2
    <3> QED BY <3>6, <3>7
  <2> QED BY <2>2, <2>3
<1>6. Good(Len(s))
  <2> HIDE DEF Good
  <2>1. Len(s) \in 0..Len(s)
    BY <1>2
  <2> QED BY <1>5, <2>1
<1> QED BY <1>2, <1>3, <1>6 DEF Holds

(* A list without its entry k.                                             *)
LEMMA CutList ==
  ASSUME NEW X, NEW s \in Seq(X), NEW k \in DOMAIN s
  PROVE  LET d == SubSeq(s, 1, k - 1) \o SubSeq(s, k + 1, Len(s))
         IN  /\ d \in Seq(X) /\ \A j \in DOMAIN d : d[j] = s[IF j < k THEN j ELSE j + 1]
             /\ DOMAIN d = 1..Len(s) - 1
<1> DEFINE a == SubSeq(s, 1, k - 1)
           b == SubSeq(s, k + 1, Len(s))
<1>1. k \in 1..Len(s) /\ Len(s) \in Nat
  OBVIOUS
<1>2. a \in Seq(X) /\ Len(a) = k - 1 /\ \A j \in 1..k - 1 : a[j] = s[j]
  BY <1>1, SubSeqProperties
<1>3. b \in Seq(X) /\ Len(b) = Len(s) - k /\ \A j \in 1..Len(s) - k : b[j] = s[k + j]
  BY <1>1, SubSeqProperties
<1> HIDE DEF a, b
<1>4. /\ a \o b \in Seq(X) /\ Len(a \o b) = Len(a) + Len(b)
      /\ \A j \in 1..Len(a) + Len(b) : (a \o b)[j] = IF j <= Len(a) THEN a[j] ELSE b[j - Len(a)]
  BY <1>2, <1>3, ConcatProperties
<1>5. DOMAIN (a \o b) = 1..Len(s) - 1
  BY <1>1, <1>2, <1>3, <1>4
<1>6. ASSUME NEW j \in 1..Len(s) - 1
      PROVE  (a \o b)[j] = s[IF j < k THEN j ELSE j + 1]
  <2>1. CASE j < k
    <3>1. j \in 1..k - 1 /\ j <= Len(a) /\ j \in 1..Len(a) + Len(b)
      BY <1>1, <1>2, <1>3, <2>1
    <3> QED BY <1>2, <1>4, <2>1, <3>1
  <2>2. CASE ~(j < k)
    <3>1. j - (k - 1) \in 1..Len(s) - k /\ ~(j <= Len(a)) /\ j \in 1..Len(a) + Len(b)
          /\ k + (j - (k - 1)) = j + 1 /\ j - Len(a) = j - (k - 1)
      BY <1>1, <1>2, <1>3, <2>2
    <3> QED BY <1>3, <1>4, <2>2, <3>1
  <2> QED BY <2>1, <2>2
<1> QED BY <1>4, <1>5, <1>6 DEF a, b

(* A list with one more entry.                                             *)
LEMMA AppendList ==
  ASSUME NEW X, NEW s \in Seq(X), NEW e \in X
  PROVE  /\ Append(s, e) \in Seq(X)
         /\ \A x : Holds(Append(s, e), x) <=> Holds(s, x) \/ x = e
         /\ Injective(s) /\ ~Holds(s, e) => Injective(Append(s, e))
<1>1. /\ Append(s, e) \in Seq(X) /\ DOMAIN Append(s, e) = 1..Len(s) + 1
      /\ \A j \in 1..Len(s) : Append(s, e)[j] = s[j]
      /\ Append(s, e)[Len(s) + 1] = e
      /\ Len(s) \in Nat /\ DOMAIN s = 1..Len(s)
  BY AppendProperties
<1>2. PICK h : h = Append(s, e)
  OBVIOUS
<1>3. \A j : j \in DOMAIN h <=> j \in DOMAIN s \/ j = Len(s) + 1
  BY <1>1, <1>2
<1>4. \A j \in DOMAIN s : h[j] = s[j] /\ j # Len(s) + 1
  BY <1>1, <1>2
<1>5. \A x : Holds(h, x) <=> Holds(s, x) \/ x = e
  BY <1>1, <1>2, <1>3, <1>4 DEF Holds
<1>6. Injective(s) /\ ~Holds(s, e) => Injective(h)
  BY <1>1, <1>2, <1>3, <1>4 DEF Injective, Holds
<1> QED BY <1>1, <1>2, <1>5, <1>6

(* Two lists behind each other.                                            *)
LEMMA JoinList ==
  ASSUME NEW X, NEW s \in Seq(X), NEW r \in Seq(X)
  PROVE  /\ s \o r \in Seq(X)
         /\ \A x : Holds(s \o r, x) <=> Holds(s, x) \/ Holds(r, x)
         /\ Injective(s) /\ Injective(r) /\ (\A x : ~(Holds(s, x) /\ Holds(r, x)))
              => Injective(s \o r)
<1>1. /\ s \o r \in Seq(X) /\ Len(s \o r) = Len(s) + Len(r)
      /\ \A j \in 1..Len(s) + Len(r) : (s \o r)[j] = IF j <= Len(s) THEN s[j] ELSE r[j - Len(s)]
  BY ConcatProperties
<1>2. /\ Len(s) \in Nat /\ DOMAIN s = 1..Len(s) /\ Len(r) \in Nat /\ DOMAIN r = 1..Len(r)
      /\ DOMAIN (s \o r) = 1..Len(s) + Len(r)
  BY <1>1
<1>3. PICK h : h = s \o r
  OBVIOUS
<1>4. \A j \in DOMAIN s : j \in DOMAIN h /\ h[j] = s[j]
  BY <1>1, <1>2, <1>3
<1>5. \A j \in DOMAIN r : Len(s) + j \in DOMAIN h /\ h[Len(s) + j] = r[j]
  <2> SUFFICES ASSUME NEW j \in DOMAIN r PROVE Len(s) + j \in DOMAIN h /\ h[Len(s) + j] = r[j]
    OBVIOUS
  <2>1. Len(s) + j \in 1..Len(s) + Len(r) /\ ~(Len(s) + j <= Len(s)) /\ Len(s) + j - Len(s) = j
    BY <1>2
  <2> QED BY <1>1, <1>2, <1>3, <2>1
<1>6. ASSUME NEW j \in DOMAIN h
      PROVE  \/ j \in DOMAIN s /\ h[j] = s[j]
             \/ j - Len(s) \in DOMAIN r /\ h[j] = r[j - Len(s)] /\ j \notin DOMAIN s
  BY <1>1, <1>2, <1>3
<1>7. \A x : Holds(h, x) <=> Holds(s, x) \/ Holds(r, x)
  BY <1>4, <1>5, <1>6 DEF Holds
<1>8. ASSUME Injective(s), Injective(r), \A x : ~(Holds(s, x) /\ Holds(r, x))
      PROVE  Injective(h)
  <2> SUFFICES ASSUME NEW i \in DOMAIN h, NEW j \in DOMAIN h, h[i] = h[j]
               PROVE  i = j
    BY DEF Injective
  <2>1. CASE i \in DOMAIN s /\ j \in DOMAIN s
    BY <1>4, <1>8, <2>1 DEF Injective
  <2>2. CASE i \in DOMAIN s /\ j \notin DOMAIN s
    BY <1>6, <1>8, <2>2 DEF Holds
  <2>3. CASE i \notin DOMAIN s /\ j \in DOMAIN s
    BY <1>6, <1>8, <2>3 DEF Holds
  <2>4. CASE i \notin DOMAIN s /\ j \notin DOMAIN s
    <3>1. i - Len(s) = j - Len(s)
      BY <1>6, <1>8, <2>4 DEF Injective
    <3>2. i \in Int /\ j \in Int /\ Len(s) \in Int
      BY <1>2, <1>3
    <3> QED BY <3>1, <3>2
  <2> QED BY <2>1, <2>2, <2>3, <2>4
<1> QED BY <1>1, <1>3, <1>7, <1>8

(* A list without its entry k: what it holds.                              *)
LEMMA CutHolds ==
  ASSUME NEW X, NEW s \in Seq(X), NEW k \in DOMAIN s, Injective(s)
  PROVE  LET d == SubSeq(s, 1, k - 1) \o SubSeq(s, k + 1, Len(s))
         IN  d \in Seq(X) /\ Injective(d) /\ \A x : Holds(d, x) <=> Holds(s, x) /\ x # s[k]
<1>1. PICK d : d = SubSeq(s, 1, k - 1) \o SubSeq(s, k + 1, Len(s))
  OBVIOUS
<1>2. /\ d \in Seq(X) /\ \A j \in DOMAIN d : d[j] = s[IF j < k THEN j ELSE j + 1]
      /\ DOMAIN d = 1..Len(s) - 1
  BY <1>1, CutList
<1>3. Len(s) \in Nat /\ DOMAIN s = 1..Len(s) /\ k \in 1..Len(s)
  OBVIOUS
<1>4. PICK g : g = [j \in DOMAIN d |-> IF j < k THEN j ELSE j + 1]
  OBVIOUS
<1>5. \A j \in DOMAIN d : d[j] = s[g[j]]
  BY <1>2, <1>4
<1>6. \A j \in DOMAIN d : g[j] \in DOMAIN s /\ g[j] # k
  BY <1>2, <1>3, <1>4
<1>7. \A i, j \in DOMAIN d : g[i] = g[j] => i = j
  BY <1>2, <1>3, <1>4
<1>8. \A i \in DOMAIN s : i # k => \E j \in DOMAIN d : g[j] = i
  <2> SUFFICES ASSUME NEW i \in DOMAIN s, i # k PROVE \E j \in DOMAIN d : g[j] = i
    OBVIOUS
  <2>1. CASE i < k
    BY <1>2, <1>3, <1>4, <2>1
  <2>2. CASE i > k
    <3>1. i - 1 \in DOMAIN d /\ ~(i - 1 < k) /\ i - 1 + 1 = i
      BY <1>2, <1>3, <2>2
    <3> QED BY <1>4, <3>1
  <2> QED BY <1>3, <2>1, <2>2
<1>9. Injective(d)
  BY <1>5, <1>6, <1>7 DEF Injective
<1>10. \A x : Holds(d, x) <=> Holds(s, x) /\ x # s[k]
  BY <1>3, <1>5, <1>6, <1>8 DEF Injective, Holds
<1> QED BY <1>1, <1>2, <1>9, <1>10

-----------------------------------------------------------------------------
(* Queues.                                                                 *)
Queues == [Priorities -> Seq(Tasks)]

(* d is q without the tasks outside S.                                     *)
Rest(q, d, S) ==
  /\ d \in Queues /\ Once(d)
  /\ \A t \in Tasks : In(d, t) <=> In(q, t) /\ t \in S
  /\ \A t \in Tasks : Holds(d[Low], t) => Holds(q[Low], t)

LEMMA LowPriority == Low \in Priorities /\ Normal \in Priorities /\ Critical \in Priorities
                     /\ Low # Normal /\ Low # Critical
BY DEF Low, Normal, Critical, Priorities

(* Each line gets shorter by filtering or cutting.                         *)
LEMMA ShorterLines ==
  ASSUME NEW q \in Queues, Once(q), NEW d \in Queues, NEW S,
         \A p \in Priorities : Injective(d[p]),
         \A p \in Priorities, t \in Tasks : Holds(d[p], t) <=> Holds(q[p], t) /\ t \in S
  PROVE  Rest(q, d, S)
BY LowPriority DEF Rest, Once, In

(* filter of the four lines.                                               *)
LEMMA FilteredQueue ==
  ASSUME NEW q \in Queues, Once(q), NEW S
  PROVE  Rest(q, [i \in Priorities |-> Only(q[i], S)], S)
<1>1. PICK d : d = [i \in Priorities |-> Only(q[i], S)]
  OBVIOUS
<1>2. ASSUME NEW p \in Priorities
      PROVE  /\ d[p] \in Seq(Tasks) /\ Injective(d[p])
             /\ \A x : Holds(d[p], x) <=> Holds(q[p], x) /\ x \in S
  <2>1. q[p] \in Seq(Tasks) /\ Injective(q[p]) /\ d[p] = Only(q[p], S)
    BY <1>1 DEF Queues, Once
  <2> QED BY <2>1, OnlyList
<1>3. d \in Queues
  BY <1>1, <1>2 DEF Queues
<1>4. Rest(q, d, S)
  BY <1>2, <1>3, ShorterLines
<1> QED BY <1>1, <1>4

(* A place of a queue.                                                     *)
LEMMA PlacesAre ==
  ASSUME NEW q \in Queues
  PROVE  /\ \A pl \in Places(q) : /\ pl[1] \in Priorities /\ pl[2] \in DOMAIN q[pl[1]]
                                  /\ pl = <<pl[1], pl[2]>> /\ At(q, pl) \in Tasks
                                  /\ Holds(q[pl[1]], At(q, pl)) /\ In(q, At(q, pl))
         /\ \A p \in Priorities : \A i \in DOMAIN q[p] : <<p, i>> \in Places(q) /\ At(q, <<p, i>>) = q[p][i]
         /\ \A t : In(q, t) => \E pl \in Places(q) : At(q, pl) = t
<1>1. ASSUME NEW pl \in Places(q)
      PROVE  /\ pl[1] \in Priorities /\ pl[2] \in DOMAIN q[pl[1]] /\ pl = <<pl[1], pl[2]>>
             /\ At(q, pl) \in Tasks /\ Holds(q[pl[1]], At(q, pl)) /\ In(q, At(q, pl))
  <2>1. pl[1] \in Priorities /\ pl[2] \in DOMAIN q[pl[1]] /\ pl = <<pl[1], pl[2]>>
    BY <1>1 DEF Places
  <2>2. q[pl[1]] \in Seq(Tasks)
    BY <2>1 DEF Queues
  <2>3. q[pl[1]][pl[2]] \in Tasks
    BY <2>1, <2>2
  <2> QED BY <2>1, <2>3 DEF At, Holds, In
<1>2. ASSUME NEW p \in Priorities, NEW i \in DOMAIN q[p]
      PROVE  <<p, i>> \in Places(q) /\ At(q, <<p, i>>) = q[p][i]
  <2>1. /\ Len(q[1]) \in Nat /\ Len(q[2]) \in Nat /\ Len(q[3]) \in Nat /\ Len(q[4]) \in Nat
        /\ q[p] \in Seq(Tasks)
    BY DEF Queues, Priorities
  <2>2. i \in 1..Len(q[p])
    BY <2>1
  <2>3. Len(q[p]) <= Depth(q) /\ Depth(q) \in Nat
    <3>1. p = 1 \/ p = 2 \/ p = 3 \/ p = 4
      BY DEF Priorities
    <3>2. PICK a, b, c, d : a = Len(q[1]) /\ b = Len(q[2]) /\ c = Len(q[3]) /\ d = Len(q[4])
      OBVIOUS
    <3>3. a \in Nat /\ b \in Nat /\ c \in Nat /\ d \in Nat
      BY <2>1, <3>2
    <3>4. Depth(q) = a + b + c + d
      BY <3>2 DEF Depth
    <3>5. Len(q[p]) \in {a, b, c, d}
      BY <3>1, <3>2
    <3> QED BY <3>3, <3>4, <3>5
  <2>4. i \in 1..Depth(q)
    BY <2>1, <2>2, <2>3
  <2> QED BY <2>4 DEF Places, At
<1>3. \A t : In(q, t) => \E pl \in Places(q) : At(q, pl) = t
  BY <1>2 DEF In, Holds
<1> QED BY <1>1, <1>2, <1>3

(* The queue without the task at a place.                                  *)
LEMMA RemovedAtPlace ==
  ASSUME NEW q \in Queues, Once(q), NEW pl \in Places(q)
  PROVE  Rest(q, RemovedAt(q, pl), Tasks \ {At(q, pl)})
<1>1. PICK p, k : p = pl[1] /\ k = pl[2]
  OBVIOUS
<1>2. p \in Priorities /\ k \in DOMAIN q[p] /\ At(q, pl) = q[p][k] /\ q[p][k] \in Tasks
  BY <1>1, PlacesAre DEF At
<1>3. PICK e : e = SubSeq(q[p], 1, k - 1) \o SubSeq(q[p], k + 1, Len(q[p]))
  OBVIOUS
<1>4. PICK d : d = [q EXCEPT ![p] = e]
  OBVIOUS
<1>5. RemovedAt(q, pl) = d
  BY <1>1, <1>3, <1>4 DEF RemovedAt
<1>6. q[p] \in Seq(Tasks) /\ Injective(q[p])
  BY <1>2 DEF Queues, Once
<1>7. e \in Seq(Tasks) /\ Injective(e) /\ \A x : Holds(e, x) <=> Holds(q[p], x) /\ x # q[p][k]
  BY <1>2, <1>3, <1>6, CutHolds
<1>8. d \in Queues /\ d[p] = e /\ \A r \in Priorities : r # p => d[r] = q[r]
  BY <1>2, <1>4, <1>7 DEF Queues
<1>9. Holds(q[p], q[p][k])
  BY <1>2 DEF Holds
<1>10. \A r \in Priorities : Injective(d[r])
  BY <1>7, <1>8 DEF Once
<1>11. ASSUME NEW r \in Priorities, NEW t \in Tasks
       PROVE  Holds(d[r], t) <=> Holds(q[r], t) /\ t \in Tasks \ {q[p][k]}
  <2>1. CASE r = p
    BY <1>7, <1>8, <2>1
  <2>2. CASE r # p
    BY <1>2, <1>8, <1>9, <2>2 DEF Once
  <2> QED BY <2>1, <2>2
<1> QED BY <1>2, <1>5, <1>8, <1>10, <1>11, ShorterLines

(* remove: the task is gone.                                               *)
LEMMA RemovedTask ==
  ASSUME NEW q \in Queues, Once(q), NEW t \in Tasks
  PROVE  Rest(q, Removed(q, t), Tasks \ {t})
<1>1. PICK H : H = {pl \in Places(q) : At(q, pl) = t}
  OBVIOUS
<1>2. Removed(q, t) = IF FirstOf(H) = {} THEN q ELSE RemovedAt(q, CHOOSE pl \in FirstOf(H) : TRUE)
  BY <1>1 DEF Removed
<1>3. \A a, b \in H : a = b
  <2> SUFFICES ASSUME NEW a \in H, NEW b \in H PROVE a = b
    OBVIOUS
  <2>1. /\ a[1] \in Priorities /\ a[2] \in DOMAIN q[a[1]] /\ a = <<a[1], a[2]>> /\ Holds(q[a[1]], t)
        /\ b[1] \in Priorities /\ b[2] \in DOMAIN q[b[1]] /\ b = <<b[1], b[2]>> /\ Holds(q[b[1]], t)
        /\ q[a[1]][a[2]] = t /\ q[b[1]][b[2]] = t
    BY <1>1, PlacesAre DEF At
  <2>2. a[1] = b[1]
    BY <2>1 DEF Once
  <2>3. a[2] = b[2]
    BY <2>1, <2>2 DEF Once, Injective
  <2> QED BY <2>1, <2>2, <2>3
<1>4. \A a \in H : ~Before(a, a)
  <2> SUFFICES ASSUME NEW a \in H PROVE ~Before(a, a)
    OBVIOUS
  <2>1. a[1] \in Priorities /\ a[2] \in DOMAIN q[a[1]] /\ q[a[1]] \in Seq(Tasks)
    BY <1>1, PlacesAre DEF Queues
  <2>2. a[1] \in Int /\ a[2] \in Int
    BY <2>1 DEF Priorities
  <2> QED BY <2>2 DEF Before
<1>5. FirstOf(H) = H
  BY <1>3, <1>4 DEF FirstOf
<1>6. CASE H = {}
  <2>1. ~In(q, t)
    BY <1>1, <1>6, PlacesAre
  <2>2. Removed(q, t) = q
    BY <1>2, <1>5, <1>6
  <2> QED BY <2>1, <2>2 DEF Rest
<1>7. CASE H # {}
  <2>1. PICK pl \in H : pl = CHOOSE x \in H : TRUE
    BY <1>7
  <2>2. Removed(q, t) = RemovedAt(q, pl) /\ pl \in Places(q) /\ At(q, pl) = t
    BY <1>1, <1>2, <1>5, <1>7, <2>1
  <2> QED BY <2>2, RemovedAtPlace
<1> QED BY <1>6, <1>7

(* enqueue: the task is in, at its priority.                               *)
LEMMA PushedTask ==
  ASSUME NEW q \in Queues, Once(q), NEW t \in Tasks, NEW p \in Priorities, ~In(q, t)
  PROVE  /\ Pushed(q, t, p) \in Queues /\ Once(Pushed(q, t, p))
         /\ \A u \in Tasks : In(Pushed(q, t, p), u) <=> In(q, u) \/ u = t
         /\ \A u \in Tasks : Holds(Pushed(q, t, p)[Low], u) => Holds(q[Low], u) \/ (p = Low /\ u = t)
<1>1. PICK d, e : d = Pushed(q, t, p) /\ e = Append(q[p], t)
  OBVIOUS
<1>2. q[p] \in Seq(Tasks) /\ Injective(q[p]) /\ ~Holds(q[p], t)
  BY DEF Queues, Once, In
<1>3. e \in Seq(Tasks) /\ Injective(e) /\ \A x : Holds(e, x) <=> Holds(q[p], x) \/ x = t
  BY <1>1, <1>2, AppendList
<1>4. d \in Queues /\ d[p] = e /\ \A r \in Priorities : r # p => d[r] = q[r]
  BY <1>1, <1>3 DEF Pushed, Queues
<1>5. \A r \in Priorities : Injective(d[r])
  BY <1>3, <1>4 DEF Once
<1>6. \A r \in Priorities, u \in Tasks : Holds(d[r], u) <=> Holds(q[r], u) \/ (r = p /\ u = t)
  BY <1>3, <1>4
<1>7. Once(d)
  BY <1>5, <1>6 DEF Once, In
<1>8. \A u \in Tasks : In(d, u) <=> In(q, u) \/ u = t
  BY <1>6 DEF In
<1> QED BY <1>1, <1>4, <1>6, <1>7, <1>8, LowPriority

(* promoteStarvedTasks: the same tasks, the overdue ones no longer low.    *)
LEMMA PromotedQueue ==
  ASSUME NEW q \in Queues, Once(q), NEW p \in Priorities, NEW n, DOMAIN n = Tasks
  PROVE  /\ Promoted(q, p, n) \in Queues /\ Once(Promoted(q, p, n))
         /\ \A u \in Tasks : In(Promoted(q, p, n), u) <=> In(q, u)
         /\ \A u \in Tasks : Holds(Promoted(q, p, n)[Low], u) =>
              Holds(q[Low], u) /\ (p = Critical \/ ~(n[u] + 1 >= MaxPreemptions))
<1>1. PICK d : d = Promoted(q, p, n)
  OBVIOUS
<1>2. CASE p = Critical
  BY <1>2 DEF Promoted
<1>3. CASE p # Critical
  <2>1. PICK O : O = {t \in Tasks : n[t] + 1 >= MaxPreemptions}
    OBVIOUS
  <2>2. PICK stay, go : stay = Only(q[Low], Tasks \ O) /\ go = Only(q[Low], O)
    OBVIOUS
  <2>3. d = [q EXCEPT ![Low] = stay, ![Normal] = q[Normal] \o go]
    BY <1>1, <1>3, <2>1, <2>2, LowPriority DEF Promoted, Queues
  <2>4. /\ q[Low] \in Seq(Tasks) /\ Injective(q[Low]) /\ q[Normal] \in Seq(Tasks) /\ Injective(q[Normal])
    BY LowPriority DEF Queues, Once
  <2>5. /\ stay \in Seq(Tasks) /\ Injective(stay) /\ \A x : Holds(stay, x) <=> Holds(q[Low], x) /\ x \in Tasks \ O
        /\ go \in Seq(Tasks) /\ Injective(go) /\ \A x : Holds(go, x) <=> Holds(q[Low], x) /\ x \in O
    BY <2>2, <2>4, OnlyList
  <2>6. O \subseteq Tasks
    BY <2>1
  <2>7. \A x : ~(Holds(q[Normal], x) /\ Holds(go, x))
    BY <2>5, <2>6, LowPriority DEF Once
  <2>8. PICK join : join = q[Normal] \o go
    OBVIOUS
  <2>9. join \in Seq(Tasks) /\ Injective(join) /\ \A x : Holds(join, x) <=> Holds(q[Normal], x) \/ Holds(go, x)
    BY <2>4, <2>5, <2>7, <2>8, JoinList
  <2>10. /\ d \in Queues /\ d[Low] = stay /\ d[Normal] = join
         /\ \A r \in Priorities : r # Low /\ r # Normal => d[r] = q[r]
    BY <2>3, <2>5, <2>8, <2>9, LowPriority DEF Queues
  <2>11. \A r \in Priorities : Injective(d[r])
    BY <2>5, <2>9, <2>10 DEF Once
  <2>12. ASSUME NEW u \in Tasks, NEW r \in Priorities
         PROVE  Holds(d[r], u) <=> \/ Holds(q[r], u) /\ ~(r = Low /\ u \in O)
                                   \/ r = Normal /\ Holds(q[Low], u) /\ u \in O
    BY <2>5, <2>9, <2>10, LowPriority
  <2>13. ASSUME NEW u \in Tasks, NEW r \in Priorities, NEW s \in Priorities, Holds(d[r], u), Holds(d[s], u)
         PROVE  r = s
    BY <2>12, <2>13, LowPriority DEF Once
  <2>14. Once(d)
    BY <2>11, <2>13 DEF Once
  <2>15. \A u \in Tasks : In(d, u) <=> In(q, u)
    BY <2>12, LowPriority DEF In
  <2>16. \A u \in Tasks : Holds(d[Low], u) => Holds(q[Low], u) /\ ~(n[u] + 1 >= MaxPreemptions)
    BY <2>1, <2>12, LowPriority
  <2> QED BY <1>1, <2>10, <2>14, <2>15, <2>16
<1> QED BY <1>2, <1>3

-----------------------------------------------------------------------------
(* Tasks.                                                                  *)
TaskMap == [Tasks -> Task]

LEMMA NoTaskType == NoTask \in Task /\ MaxPreemptions \in Nat \ {0} /\ MaxRetries \in Nat
BY QueueOK, BusOK DEF NoTask, Task

LEMMA LowIsIn ==
  ASSUME NEW q, NEW t, Holds(q[Low], t)
  PROVE  In(q, t)
BY LowPriority DEF In

(* Everything but t is in its place, and t is not in the queue.            *)
Others(tk, q, atts, t) ==
  /\ Once(q) /\ KeyOnce(atts) /\ LowWaits(tk, q) /\ ~In(q, t)
  /\ \A u \in Tasks \ {t} : OneTask(tk, q, atts, u)

(* The pending task t is nowhere.                                          *)
Loose(tk, q, atts, t) ==
  /\ Others(tk, q, atts, t) /\ tk[t].pending /\ ~Counts(tk, atts, t)
  /\ \A a \in atts : a.task = t => a.n <= tk[t].retry + 1

LEMMA SettledTasks ==
  ASSUME NEW tk \in TaskMap, NEW S
  PROVE  /\ Settled(tk, S) \in TaskMap
         /\ \A t \in Tasks : Settled(tk, S)[t] = IF t \in S THEN NoTask ELSE tk[t]
BY NoTaskType DEF Settled, TaskMap

(* One task keeps its place when nothing about it changes.                 *)
LEMMA SameTask ==
  ASSUME NEW tk, NEW tk2, NEW q, NEW q2, NEW atts, NEW u \in Tasks, OneTask(tk, q, atts, u),
         tk2[u] = tk[u], In(q2, u) <=> In(q, u)
  PROVE  OneTask(tk2, q2, atts, u)
<1>1. Counts(tk, atts, u) <=> Counts(tk2, atts, u)
  BY DEF Counts
<1>2. Placed(tk, q, atts, u) => Placed(tk2, q2, atts, u)
  BY <1>1 DEF Placed
<1> QED BY <1>2 DEF OneTask

(* finalize of a set of tasks that leave the queue.                        *)
LEMMA SettleKeeps ==
  ASSUME NEW tk \in TaskMap, NEW q, NEW q2, NEW atts, NEW S,
         TaskSide(tk, q, atts), Rest(q, q2, Tasks \ S)
  PROVE  TaskSide(Settled(tk, S), q2, atts)
<1>1. PICK tk2 : tk2 = Settled(tk, S)
  OBVIOUS
<1>2. \A t \in Tasks : tk2[t] = IF t \in S THEN NoTask ELSE tk[t]
  BY <1>1, SettledTasks
<1>3. \A t \in Tasks : In(q2, t) <=> In(q, t) /\ t \notin S
  BY DEF Rest
<1>4. ASSUME NEW t \in Tasks PROVE OneTask(tk2, q2, atts, t)
  <2>1. CASE t \in S
    BY <1>2, <1>3, <2>1 DEF OneTask, NoTask
  <2>2. CASE t \notin S
    BY <1>2, <1>3, <2>2, SameTask DEF TaskSide
  <2> QED BY <2>1, <2>2
<1>5. LowWaits(tk2, q2)
  <2> SUFFICES ASSUME NEW t \in Tasks, Holds(q2[Low], t) PROVE tk2[t].requeued < MaxPreemptions
    BY DEF LowWaits
  <2>1. t \notin S /\ Holds(q[Low], t)
    BY <1>3, LowIsIn DEF Rest
  <2> QED BY <1>2, <2>1 DEF TaskSide, LowWaits
<1> QED BY <1>1, <1>4, <1>5 DEF TaskSide, Rest

(* handleAttemptResult: t is retried or given up.                          *)
Failing(tk, q, t, tk2, q2) ==
  \/ /\ tk[t].retry < MaxRetries /\ q2 = q
     /\ tk2 = [tk EXCEPT ![t].retry = @ + 1, ![t].watchdog = FALSE, ![t].retryTimer = TRUE]
  \/ tk2 = Settled(tk, {t}) /\ q2 = Removed(q, t)

LEMMA FailKeeps ==
  ASSUME NEW tk \in TaskMap, NEW q \in Queues, NEW atts \in SUBSET Attempt, NEW t \in Tasks,
         Loose(tk, q, atts, t), NEW tk2, NEW q2, Failing(tk, q, t, tk2, q2)
  PROVE  /\ tk2 \in TaskMap /\ q2 \in Queues /\ TaskSide(tk2, q2, atts)
         /\ \A u \in Tasks : In(q2, u) => In(q, u)
<1>1. /\ Once(q) /\ KeyOnce(atts) /\ LowWaits(tk, q) /\ ~In(q, t)
      /\ \A u \in Tasks \ {t} : OneTask(tk, q, atts, u)
  BY DEF Loose, Others
<1>2. CASE tk2 = Settled(tk, {t}) /\ q2 = Removed(q, t)
  <2>1. Rest(q, q2, Tasks \ {t})
    BY <1>1, <1>2, RemovedTask
  <2>2. tk2 \in TaskMap /\ \A u \in Tasks : tk2[u] = IF u \in {t} THEN NoTask ELSE tk[u]
    BY <1>2, SettledTasks
  <2>3. \A u \in Tasks : In(q2, u) <=> In(q, u) /\ u # t
    BY <2>1 DEF Rest
  <2>4. ASSUME NEW u \in Tasks PROVE OneTask(tk2, q2, atts, u)
    <3>1. CASE u = t
      BY <2>2, <2>3, <3>1 DEF OneTask, NoTask
    <3>2. CASE u # t
      BY <1>1, <2>2, <2>3, <3>2, SameTask
    <3> QED BY <3>1, <3>2
  <2>5. LowWaits(tk2, q2)
    <3> SUFFICES ASSUME NEW u \in Tasks, Holds(q2[Low], u) PROVE tk2[u].requeued < MaxPreemptions
      BY DEF LowWaits
    <3>1. u # t /\ Holds(q[Low], u)
      BY <2>1, <2>3, LowIsIn DEF Rest
    <3> QED BY <1>1, <2>2, <3>1 DEF LowWaits
  <2> QED BY <1>1, <2>1, <2>2, <2>3, <2>4, <2>5 DEF TaskSide, Rest
<1>3. CASE /\ tk[t].retry < MaxRetries /\ q2 = q
           /\ tk2 = [tk EXCEPT ![t].retry = @ + 1, ![t].watchdog = FALSE, ![t].retryTimer = TRUE]
  <2>1. tk[t] \in Task /\ tk[t].retry \in 0..MaxRetries
    BY DEF TaskMap, Task
  <2>2. PICK r : r = [tk[t] EXCEPT !.retry = @ + 1, !.watchdog = FALSE, !.retryTimer = TRUE]
    OBVIOUS
  <2>3. /\ r \in Task /\ r.retry = tk[t].retry + 1 /\ r.retryTimer /\ r.pending = tk[t].pending
        /\ r.active = tk[t].active /\ r.requeued = tk[t].requeued
    <3>1. tk[t].retry + 1 \in 0..MaxRetries
      BY <1>3, <2>1, NoTaskType
    <3> QED BY <2>1, <2>2, <3>1 DEF Task
  <2>4. tk2 = [tk EXCEPT ![t] = r]
    BY <1>3, <2>2 DEF TaskMap
  <2>5. tk2 \in TaskMap /\ tk2[t] = r /\ \A u \in Tasks \ {t} : tk2[u] = tk[u]
    BY <2>3, <2>4 DEF TaskMap
  <2>6. ASSUME NEW u \in Tasks PROVE OneTask(tk2, q2, atts, u)
    <3>1. CASE u = t
      <4>1. ~Counts(tk2, atts, t)
        BY <2>3, <2>5 DEF Loose, Counts
      <4>2. \A a \in atts : a.task = t => a.n <= tk2[t].retry /\ a.n <= tk2[t].retry + 1
        <5> SUFFICES ASSUME NEW a \in atts, a.task = t
                     PROVE  a.n <= tk2[t].retry /\ a.n <= tk2[t].retry + 1
          OBVIOUS
        <5>1. a.n \in Int
          BY DEF Attempt
        <5> QED BY <2>1, <2>3, <2>5, <5>1 DEF Loose
      <4>3. tk2[t].pending /\ tk2[t].retryTimer
        BY <2>3, <2>5 DEF Loose
      <4> QED BY <1>1, <1>3, <3>1, <4>1, <4>2, <4>3 DEF OneTask, Placed
    <3>2. CASE u # t
      <4>1. OneTask(tk, q, atts, u) /\ tk2[u] = tk[u] /\ q2 = q
        BY <1>1, <1>3, <2>5, <3>2
      <4> QED BY <4>1, SameTask
    <3> QED BY <3>1, <3>2
  <2>7. LowWaits(tk2, q2)
    BY <1>1, <1>3, <2>3, <2>5 DEF LowWaits
  <2> QED BY <1>1, <1>3, <2>5, <2>6, <2>7 DEF TaskSide
<1> QED BY <1>2, <1>3 DEF Failing

(* enqueue and requeueRetry: t gets a place.                               *)
LEMMA PushKeeps ==
  ASSUME NEW tk \in TaskMap, NEW q \in Queues, NEW atts \in SUBSET Attempt, NEW t \in Tasks,
         Others(tk, q, atts, t), NEW r \in Task, NEW p \in Priorities,
         r.pending, ~r.retryTimer, p = Low => r.requeued < MaxPreemptions,
         \A a \in atts : a.task = t => a.n <= r.retry /\ (r.active = a.n => a.timedOut)
  PROVE  /\ [tk EXCEPT ![t] = r] \in TaskMap /\ Pushed(q, t, p) \in Queues
         /\ TaskSide([tk EXCEPT ![t] = r], Pushed(q, t, p), atts)
<1>1. /\ Once(q) /\ KeyOnce(atts) /\ LowWaits(tk, q) /\ ~In(q, t)
      /\ \A u \in Tasks \ {t} : OneTask(tk, q, atts, u)
  BY DEF Others
<1>2. PICK tk2, q2 : tk2 = [tk EXCEPT ![t] = r] /\ q2 = Pushed(q, t, p)
  OBVIOUS
<1>3. tk2 \in TaskMap /\ tk2[t] = r /\ \A u \in Tasks \ {t} : tk2[u] = tk[u]
  BY <1>2 DEF TaskMap
<1>4. /\ q2 \in Queues /\ Once(q2) /\ \A u \in Tasks : In(q2, u) <=> In(q, u) \/ u = t
      /\ \A u \in Tasks : Holds(q2[Low], u) => Holds(q[Low], u) \/ (p = Low /\ u = t)
  BY <1>1, <1>2, PushedTask
<1>5. ASSUME NEW u \in Tasks PROVE OneTask(tk2, q2, atts, u)
  <2>1. CASE u = t
    <3>1. ~Counts(tk2, atts, t)
      BY <1>3 DEF Counts
    <3>2. \A a \in atts : a.task = t => a.n <= tk2[t].retry /\ a.n <= tk2[t].retry + 1
      <4> SUFFICES ASSUME NEW a \in atts, a.task = t
                   PROVE  a.n <= tk2[t].retry /\ a.n <= tk2[t].retry + 1
        OBVIOUS
      <4>1. a.n \in Int /\ r.retry \in Int
        BY DEF Attempt, Task
      <4> QED BY <1>3, <4>1
    <3> QED BY <1>3, <1>4, <2>1, <3>1, <3>2 DEF OneTask, Placed
  <2>2. CASE u # t
    BY <1>1, <1>3, <1>4, <2>2, SameTask
  <2> QED BY <2>1, <2>2
<1>6. LowWaits(tk2, q2)
  <2> SUFFICES ASSUME NEW u \in Tasks, Holds(q2[Low], u) PROVE tk2[u].requeued < MaxPreemptions
    BY DEF LowWaits
  <2>1. CASE u = t
    BY <1>1, <1>3, <1>4, <2>1, LowIsIn
  <2>2. CASE u # t
    BY <1>1, <1>3, <1>4, <2>2 DEF LowWaits
  <2> QED BY <2>1, <2>2
<1> QED BY <1>1, <1>2, <1>3, <1>4, <1>5, <1>6 DEF TaskSide

-----------------------------------------------------------------------------
(* Attempts.                                                               *)

(* atts2 makes the same claims as atts: for which tasks, and whether late. *)
Same(atts, atts2) ==
  /\ \A b \in atts2 : \E a \in atts : b.task = a.task /\ b.n = a.n /\ (b.timedOut <=> a.timedOut)
  /\ \A a \in atts : \E b \in atts2 : b.task = a.task /\ b.n = a.n /\ (b.timedOut <=> a.timedOut)
  /\ KeyOnce(atts) => KeyOnce(atts2)

LEMMA ImageSame ==
  ASSUME NEW atts, NEW g, NEW atts2, atts2 = {g[a] : a \in atts},
         \A a \in atts : g[a].task = a.task /\ g[a].n = a.n /\ (g[a].timedOut <=> a.timedOut)
  PROVE  Same(atts, atts2)
<1>1. \A b \in atts2 : \E a \in atts : b = g[a]
  OBVIOUS
<1>2. \A a \in atts : g[a] \in atts2
  OBVIOUS
<1>3. KeyOnce(atts) => KeyOnce(atts2)
  <2> SUFFICES ASSUME KeyOnce(atts), NEW b \in atts2, NEW c \in atts2, b.task = c.task, b.n = c.n
               PROVE  b = c
    BY DEF KeyOnce
  <2>1. PICK x \in atts : b = g[x]
    BY <1>1
  <2>2. PICK y \in atts : c = g[y]
    BY <1>1
  <2>3. x = y
    BY <2>1, <2>2 DEF KeyOnce
  <2> QED BY <2>1, <2>2, <2>3
<1> QED BY <1>1, <1>2, <1>3 DEF Same

LEMMA SameKeeps ==
  ASSUME NEW tk, NEW q, NEW atts, NEW atts2, Same(atts, atts2), TaskSide(tk, q, atts)
  PROVE  TaskSide(tk, q, atts2)
<1>1. \A b \in atts2 : \E a \in atts : b.task = a.task /\ b.n = a.n /\ (b.timedOut <=> a.timedOut)
  BY DEF Same
<1>2. \A a \in atts : \E b \in atts2 : b.task = a.task /\ b.n = a.n /\ (b.timedOut <=> a.timedOut)
  BY DEF Same
<1>3. ASSUME NEW t \in Tasks PROVE OneTask(tk, q, atts2, t)
  <2>1. Counts(tk, atts, t) <=> Counts(tk, atts2, t)
    BY <1>1, <1>2 DEF Counts
  <2>2. OneTask(tk, q, atts, t)
    BY DEF TaskSide
  <2>3. Placed(tk, q, atts, t) => Placed(tk, q, atts2, t)
    BY <1>1, <2>1 DEF Placed
  <2> QED BY <2>2, <2>3 DEF OneTask
<1> QED BY <1>3 DEF TaskSide, Same

(* promoteStarvedTasks after a task has left the queue: the counts.        *)
Recounted(tk, qr, p) == [u \in Tasks |-> [tk[u] EXCEPT !.requeued = PassedOver(qr, p, @, u)]]

LEMMA Dequeued ==
  ASSUME NEW tk \in TaskMap, NEW q \in Queues, NEW atts \in SUBSET Attempt,
         TaskSide(tk, q, atts), NEW pl \in Places(q), NEW t, t = At(q, pl), NEW qr, qr = RemovedAt(q, pl),
         NEW q2, q2 = Promoted(qr, pl[1], [u \in Tasks |-> tk[u].requeued]),
         NEW tk1, tk1 = Recounted(tk, qr, pl[1])
  PROVE  /\ t \in Tasks /\ tk1 \in TaskMap /\ q2 \in Queues /\ Loose(tk1, q2, atts, t)
         /\ \A a \in atts : a.task = t => a.n <= tk[t].retry
         /\ tk1[t].retry = tk[t].retry /\ ~tk1[t].retryTimer
<1>1. /\ t \in Tasks /\ In(q, t) /\ pl[1] \in Priorities /\ Rest(q, qr, Tasks \ {t})
  <2>1. t \in Tasks /\ In(q, t) /\ pl[1] \in Priorities
    BY PlacesAre
  <2> QED BY <2>1, RemovedAtPlace DEF TaskSide
<1>2. PICK p, n : p = pl[1] /\ n = [u \in Tasks |-> tk[u].requeued]
  OBVIOUS
<1>3. qr \in Queues /\ Once(qr) /\ DOMAIN n = Tasks
  BY <1>1, <1>2 DEF Rest
<1>4. /\ q2 \in Queues /\ Once(q2) /\ \A u \in Tasks : In(q2, u) <=> In(qr, u)
      /\ \A u \in Tasks : Holds(q2[Low], u) =>
           Holds(qr[Low], u) /\ (p = Critical \/ ~(n[u] + 1 >= MaxPreemptions))
  BY <1>1, <1>2, <1>3, PromotedQueue
<1>5. \A u \in Tasks : In(q2, u) <=> In(q, u) /\ u # t
  BY <1>1, <1>4 DEF Rest
<1>6. ASSUME NEW u \in Tasks
      PROVE  /\ tk1[u] \in Task /\ tk1[u].pending = tk[u].pending /\ tk1[u].retry = tk[u].retry
             /\ tk1[u].retryTimer = tk[u].retryTimer /\ tk1[u].active = tk[u].active
             /\ ~Holds(qr[Low], u) => tk1[u] = tk[u]
             /\ p = Critical => tk1[u] = tk[u]
             /\ tk1[u].requeued <= tk[u].requeued + 1
  <2>1. PICK r, m : r = tk[u] /\ m = PassedOver(qr, p, tk[u].requeued, u)
    OBVIOUS
  <2>2. r \in Task /\ r.requeued \in 0..MaxPreemptions /\ MaxPreemptions \in Nat
    BY <2>1, NoTaskType DEF TaskMap, Task
  <2>3. tk1[u] = [r EXCEPT !.requeued = m]
    BY <1>2, <2>1 DEF Recounted
  <2>4. m = IF p # Critical /\ Holds(qr[Low], u) THEN r.requeued + 1 ELSE r.requeued
    BY <2>1 DEF PassedOver, Holds
  <2>5. Holds(qr[Low], u) => r.requeued < MaxPreemptions
    BY <1>1, <2>1 DEF Rest, TaskSide, LowWaits
  <2>6. m \in 0..MaxPreemptions /\ m <= r.requeued + 1
    BY <2>2, <2>4, <2>5
  <2>7. m = r.requeued => tk1[u] = r
    BY <2>2, <2>3 DEF Task
  <2>8. /\ tk1[u] \in Task /\ tk1[u].pending = r.pending /\ tk1[u].retry = r.retry
        /\ tk1[u].retryTimer = r.retryTimer /\ tk1[u].active = r.active /\ tk1[u].requeued = m
    BY <2>2, <2>3, <2>6 DEF Task
  <2> QED BY <2>1, <2>4, <2>6, <2>7, <2>8
<1>7. tk1 \in TaskMap
  BY <1>6 DEF TaskMap, Recounted
<1>8. LowWaits(tk1, q2)
  <2> SUFFICES ASSUME NEW u \in Tasks, Holds(q2[Low], u) PROVE tk1[u].requeued < MaxPreemptions
    BY DEF LowWaits
  <2>1. /\ Holds(q[Low], u) /\ (p = Critical \/ ~(tk[u].requeued + 1 >= MaxPreemptions))
    BY <1>1, <1>2, <1>4 DEF Rest
  <2>2. tk[u].requeued < MaxPreemptions
    BY <2>1 DEF TaskSide, LowWaits
  <2>3. tk[u].requeued \in Int /\ MaxPreemptions \in Int /\ tk1[u].requeued \in Int
    BY <1>6, NoTaskType DEF TaskMap, Task
  <2> QED BY <1>6, <2>1, <2>2, <2>3
<1>9. ASSUME NEW u \in Tasks, u # t PROVE OneTask(tk1, q2, atts, u)
  <2>1. OneTask(tk, q, atts, u)
    BY DEF TaskSide
  <2>2. Counts(tk, atts, u) <=> Counts(tk1, atts, u)
    BY <1>6 DEF Counts
  <2>3. In(q2, u) <=> In(q, u)
    BY <1>5, <1>9
  <2>4. CASE tk[u].pending
    <3>1. Placed(tk, q, atts, u)
      BY <2>1, <2>4 DEF OneTask
    <3>2. Placed(tk1, q2, atts, u)
      BY <1>6, <2>2, <2>3, <3>1 DEF Placed
    <3> QED BY <1>6, <2>4, <3>2 DEF OneTask
  <2>5. CASE ~tk[u].pending
    <3>1. tk[u] = NoTask /\ ~In(q, u)
      BY <2>1, <2>5 DEF OneTask
    <3>2. ~Holds(qr[Low], u)
      BY <1>1, <3>1, LowIsIn DEF Rest
    <3> QED BY <1>6, <2>3, <2>5, <3>1, <3>2 DEF OneTask
  <2> QED BY <2>4, <2>5
<1>10. tk[t].pending /\ Placed(tk, q, atts, t)
  BY <1>1 DEF TaskSide, OneTask
<1>11. /\ ~Counts(tk, atts, t) /\ \A a \in atts : a.task = t => a.n <= tk[t].retry
       /\ \A a \in atts : a.task = t => a.n <= tk[t].retry + 1
  BY <1>1, <1>10 DEF Placed
<1>12. ~Counts(tk1, atts, t)
  BY <1>1, <1>6, <1>11 DEF Counts
<1>13. Loose(tk1, q2, atts, t)
  BY <1>1, <1>4, <1>5, <1>6, <1>8, <1>9, <1>10, <1>11, <1>12 DEF Loose, Others, TaskSide
<1>14. ~tk1[t].retryTimer
  <2>1. tk[t].retryTimer => FALSE
    BY <1>1, <1>10 DEF Placed
  <2> QED BY <1>1, <1>6, <2>1
<1> QED BY <1>1, <1>4, <1>6, <1>7, <1>11, <1>13, <1>14

(* startAttempt: the task is with the new attempt.                         *)
LEMMA StartKeeps ==
  ASSUME NEW tk \in TaskMap, NEW q \in Queues, NEW atts \in SUBSET Attempt, NEW t \in Tasks,
         Loose(tk, q, atts, t), ~tk[t].retryTimer, \A a \in atts : a.task = t => a.n <= tk[t].retry,
         NEW new, new.task = t, new.n = tk[t].retry + 1, ~new.timedOut,
         NEW tk2, tk2 = [tk EXCEPT ![t].active = tk[t].retry + 1]
  PROVE  tk2 \in TaskMap /\ TaskSide(tk2, q, atts \cup {new})
<1>1. /\ Once(q) /\ KeyOnce(atts) /\ LowWaits(tk, q) /\ ~In(q, t)
      /\ \A u \in Tasks \ {t} : OneTask(tk, q, atts, u)
  BY DEF Loose, Others
<1>2. PICK r : r = [tk[t] EXCEPT !.active = tk[t].retry + 1]
  OBVIOUS
<1>3. /\ r \in Task /\ r.retry = tk[t].retry /\ r.retryTimer = tk[t].retryTimer /\ r.pending = tk[t].pending
      /\ r.active = tk[t].retry + 1 /\ r.requeued = tk[t].requeued /\ r.retry \in 0..MaxRetries
  <2>1. tk[t] \in Task /\ tk[t].retry \in 0..MaxRetries
    BY DEF TaskMap, Task
  <2>2. tk[t].retry + 1 \in 0..MaxRetries + 1
    BY <2>1, NoTaskType
  <2> QED BY <1>2, <2>1, <2>2 DEF Task
<1>4. tk2 = [tk EXCEPT ![t] = r]
  BY <1>2 DEF TaskMap
<1>5. tk2 \in TaskMap /\ tk2[t] = r /\ \A u \in Tasks \ {t} : tk2[u] = tk[u]
  BY <1>3, <1>4 DEF TaskMap
<1>6. \A a \in atts : a.task = t => a.n # new.n
  <2> SUFFICES ASSUME NEW a \in atts, a.task = t PROVE a.n # new.n
    OBVIOUS
  <2>1. a.n \in Int /\ tk[t].retry \in Int
    BY <1>3 DEF Attempt
  <2> QED BY <2>1
<1>7. KeyOnce(atts \cup {new})
  BY <1>1, <1>6 DEF KeyOnce
<1>8. ASSUME NEW u \in Tasks PROVE OneTask(tk2, q, atts \cup {new}, u)
  <2>1. CASE u = t
    <3>1. Counts(tk2, atts \cup {new}, t)
      BY <1>3, <1>5 DEF Counts
    <3>2. ASSUME NEW a \in atts \cup {new}, a.task = t PROVE a.n <= tk2[t].retry + 1
      <4>1. CASE a = new
        BY <1>3, <1>5, <4>1
      <4>2. CASE a \in atts
        <5>1. a.n \in Int /\ a.n <= tk[t].retry
          BY <3>2, <4>2 DEF Attempt
        <5> QED BY <1>3, <1>5, <5>1
      <4> QED BY <4>1, <4>2
    <3>3. tk2[t].pending /\ ~tk2[t].retryTimer
      BY <1>3, <1>5 DEF Loose
    <3> QED BY <1>1, <2>1, <3>1, <3>2, <3>3 DEF OneTask, Placed
  <2>2. CASE u # t
    <3>1. OneTask(tk, q, atts, u) /\ tk2[u] = tk[u]
      BY <1>1, <1>5, <2>2
    <3>2. Counts(tk, atts, u) <=> Counts(tk2, atts \cup {new}, u)
      BY <2>2, <3>1 DEF Counts
    <3>3. Placed(tk, q, atts, u) => Placed(tk2, q, atts \cup {new}, u)
      BY <2>2, <3>1, <3>2 DEF Placed
    <3> QED BY <3>1, <3>3 DEF OneTask
  <2> QED BY <2>1, <2>2
<1>9. LowWaits(tk2, q)
  BY <1>1, <1>3, <1>5 DEF LowWaits
<1> QED BY <1>1, <1>5, <1>7, <1>8, <1>9 DEF TaskSide

(* finishAttempt: the attempt is gone.                                     *)
Finished(tk, a) == [tk EXCEPT ![a.task].active = IF @ = a.n THEN 0 ELSE @]

LEMMA FinishKeeps ==
  ASSUME NEW tk \in TaskMap, NEW q \in Queues, NEW atts \in SUBSET Attempt, NEW a \in atts,
         TaskSide(tk, q, atts), NEW done, done = Finished(tk, a)
  PROVE  /\ done \in TaskMap
         /\ tk[a.task].pending /\ tk[a.task].active = a.n /\ ~a.timedOut =>
              Loose(done, q, atts \ {a}, a.task)
         /\ ~(tk[a.task].pending /\ tk[a.task].active = a.n /\ ~a.timedOut) =>
              TaskSide(done, q, atts \ {a})
<1>1. PICK t : t = a.task
  OBVIOUS
<1>2. t \in Tasks /\ a.n \in 1..MaxRetries + 1
  BY <1>1 DEF Attempt
<1>3. PICK r : r = [tk[t] EXCEPT !.active = IF tk[t].active = a.n THEN 0 ELSE tk[t].active]
  OBVIOUS
<1>4. done = [tk EXCEPT ![t] = r]
  BY <1>1, <1>2, <1>3 DEF TaskMap, Finished
<1>5. /\ r \in Task /\ r.retry = tk[t].retry /\ r.retryTimer = tk[t].retryTimer /\ r.pending = tk[t].pending
      /\ r.active = (IF tk[t].active = a.n THEN 0 ELSE tk[t].active) /\ r.requeued = tk[t].requeued
  <2>1. tk[t] \in Task
    BY <1>2 DEF TaskMap
  <2>2. (IF tk[t].active = a.n THEN 0 ELSE tk[t].active) \in 0..MaxRetries + 1
    BY <2>1, NoTaskType DEF Task
  <2> QED BY <1>3, <2>1, <2>2 DEF Task
<1>6. done \in TaskMap /\ done[t] = r /\ \A u \in Tasks \ {t} : done[u] = tk[u]
  BY <1>2, <1>4, <1>5 DEF TaskMap
<1>7. PICK atts2 : atts2 = atts \ {a}
  OBVIOUS
<1>8. ASSUME NEW u \in Tasks \ {t} PROVE OneTask(done, q, atts2, u)
  <2>1. OneTask(tk, q, atts, u) /\ done[u] = tk[u]
    BY <1>6 DEF TaskSide
  <2>2. Counts(tk, atts, u) <=> Counts(done, atts2, u)
    BY <1>1, <1>7, <2>1 DEF Counts
  <2>3. Placed(tk, q, atts, u) => Placed(done, q, atts2, u)
    BY <1>7, <2>1, <2>2 DEF Placed
  <2> QED BY <2>1, <2>3 DEF OneTask
<1>9. Once(q) /\ KeyOnce(atts2) /\ LowWaits(done, q)
  BY <1>5, <1>6, <1>7 DEF TaskSide, KeyOnce, LowWaits
<1>10. OneTask(tk, q, atts, t)
  BY <1>2 DEF TaskSide
<1>11. \A b \in atts2 : b.task = t => b.n # a.n
  BY <1>1, <1>7 DEF TaskSide, KeyOnce
<1>12. ASSUME tk[t].pending, tk[t].active = a.n, ~a.timedOut
       PROVE  Loose(done, q, atts2, t)
  <2>1. Counts(tk, atts, t) /\ Placed(tk, q, atts, t)
    BY <1>1, <1>10, <1>12 DEF Counts, OneTask
  <2>2. ~In(q, t) /\ ~tk[t].retryTimer /\ \A b \in atts : b.task = t => b.n <= tk[t].retry + 1
    BY <2>1 DEF Placed
  <2>3. ASSUME NEW b \in atts2, b.task = t PROVE b.n # 0
    BY <1>7, <2>3 DEF Attempt
  <2>4. ~Counts(done, atts2, t)
    BY <1>5, <1>6, <1>12, <2>3 DEF Counts
  <2> QED BY <1>5, <1>6, <1>7, <1>8, <1>9, <1>12, <2>2, <2>4 DEF Loose, Others
<1>13. ASSUME ~(tk[t].pending /\ tk[t].active = a.n /\ ~a.timedOut)
       PROVE  TaskSide(done, q, atts2)
  <2>1. CASE tk[t].pending
    <3>1. Placed(tk, q, atts, t)
      BY <1>10, <2>1 DEF OneTask
    <3>2. Counts(tk, atts, t) <=> Counts(done, atts2, t)
      <4>1. Counts(tk, atts, t) => Counts(done, atts2, t)
        <5> SUFFICES ASSUME Counts(tk, atts, t) PROVE Counts(done, atts2, t)
          OBVIOUS
        <5>1. PICK b \in atts : b.task = t /\ tk[t].active = b.n /\ ~b.timedOut
          BY DEF Counts
        <5>2. b # a /\ b \in atts2
          BY <1>7, <1>13, <2>1, <5>1
        <5>3. done[t].active = b.n
          BY <1>5, <1>6, <1>11, <5>1, <5>2
        <5> QED BY <5>1, <5>2, <5>3 DEF Counts
      <4>2. Counts(done, atts2, t) => Counts(tk, atts, t)
        <5> SUFFICES ASSUME Counts(done, atts2, t) PROVE Counts(tk, atts, t)
          OBVIOUS
        <5>1. PICK b \in atts2 : b.task = t /\ done[t].active = b.n /\ ~b.timedOut
          BY DEF Counts
        <5>2. b \in atts /\ b.n # 0
          BY <1>7, <5>1 DEF Attempt
        <5>3. tk[t].active = b.n
          BY <1>5, <1>6, <5>1, <5>2
        <5> QED BY <5>1, <5>2, <5>3 DEF Counts
      <4> QED BY <4>1, <4>2
    <3>3. Placed(done, q, atts2, t)
      BY <1>5, <1>6, <1>7, <3>1, <3>2 DEF Placed
    <3>4. OneTask(done, q, atts2, t)
      BY <1>5, <1>6, <2>1, <3>3 DEF OneTask
    <3> QED BY <1>8, <1>9, <3>4 DEF TaskSide
  <2>2. CASE ~tk[t].pending
    <3>1. tk[t] = NoTask /\ ~In(q, t)
      BY <1>10, <2>2 DEF OneTask
    <3>2. r = NoTask
      BY <1>3, <3>1 DEF NoTask
    <3>3. OneTask(done, q, atts2, t)
      BY <1>6, <3>1, <3>2 DEF OneTask, NoTask
    <3> QED BY <1>8, <1>9, <3>3 DEF TaskSide
  <2> QED BY <2>1, <2>2
<1> QED BY <1>1, <1>6, <1>7, <1>12, <1>13

(* handleWatchdog: the attempt that counted is late, and the task nowhere. *)
LEMMA ExpireKeeps ==
  ASSUME NEW tk \in TaskMap, NEW q \in Queues, NEW q2, NEW atts \in SUBSET Attempt, NEW t \in Tasks,
         TaskSide(tk, q, atts), tk[t].pending, Rest(q, q2, Tasks \ {t}),
         NEW g, NEW atts2, atts2 = {g[a] : a \in atts},
         \A a \in atts : /\ g[a].task = a.task /\ g[a].n = a.n
                         /\ a.task = t /\ a.n = tk[t].active => g[a].timedOut
                         /\ ~(a.task = t /\ a.n = tk[t].active) => (g[a].timedOut <=> a.timedOut)
  PROVE  Loose(tk, q2, atts2, t)
<1>1. \A b \in atts2 : \E a \in atts : b = g[a]
  OBVIOUS
<1>2. \A a \in atts : g[a] \in atts2
  OBVIOUS
<1>3. KeyOnce(atts2)
  <2> SUFFICES ASSUME NEW b \in atts2, NEW c \in atts2, b.task = c.task, b.n = c.n
               PROVE  b = c
    BY DEF KeyOnce
  <2>1. PICK x \in atts : b = g[x]
    BY <1>1
  <2>2. PICK y \in atts : c = g[y]
    BY <1>1
  <2>3. x = y
    BY <2>1, <2>2 DEF TaskSide, KeyOnce
  <2> QED BY <2>1, <2>2, <2>3
<1>4. \A u \in Tasks : In(q2, u) <=> In(q, u) /\ u # t
  BY DEF Rest
<1>5. LowWaits(tk, q2)
  BY DEF Rest, TaskSide, LowWaits
<1>6. ASSUME NEW u \in Tasks \ {t} PROVE OneTask(tk, q2, atts2, u)
  <2>1. OneTask(tk, q, atts, u)
    BY DEF TaskSide
  <2>2. Counts(tk, atts, u) <=> Counts(tk, atts2, u)
    BY <1>1, <1>2 DEF Counts
  <2>3. Placed(tk, q, atts, u) => Placed(tk, q2, atts2, u)
    BY <1>1, <1>4, <2>2 DEF Placed
  <2> QED BY <1>4, <2>1, <2>3 DEF OneTask
<1>7. ~Counts(tk, atts2, t)
  BY <1>1 DEF Counts
<1>8. Placed(tk, q, atts, t)
  BY DEF TaskSide, OneTask
<1>9. \A b \in atts2 : b.task = t => b.n <= tk[t].retry + 1
  BY <1>1, <1>8 DEF Placed
<1> QED BY <1>3, <1>4, <1>5, <1>6, <1>7, <1>9 DEF Loose, Others, Rest

-----------------------------------------------------------------------------
(* Workers.                                                                *)
Members == [Pools -> SUBSET Workers]
Events  == [Pools -> Seq(Workers \cup {None})]

LEMMA AbortedIs ==
  ASSUME NEW a \in Attempt
  PROVE  /\ Aborted(a) \in Attempt /\ Aborted(a).task = a.task /\ Aborted(a).n = a.n
         /\ Aborted(a).worker = a.worker /\ Aborted(a).pool = a.pool
         /\ Aborted(a).timedOut = a.timedOut
         /\ Aborted(a).stage = "accept" => a.stage = "accept"
<1>1. CASE a.stage = "run"
  <2>1. Aborted(a) = [a EXCEPT !.res = "cancelled", !.stage = "result"]
    BY <1>1 DEF Aborted
  <2> QED BY <2>1 DEF Attempt
<1>2. CASE a.stage # "run"
  BY <1>2 DEF Aborted
<1> QED BY <1>1, <1>2

LEMMA LeftIs ==
  ASSUME NEW a \in Attempt, NEW b, b = [a EXCEPT !.worker = None]
  PROVE  /\ b \in Attempt /\ b.task = a.task /\ b.n = a.n /\ b.worker = None
         /\ b.pool = a.pool /\ b.timedOut = a.timedOut /\ b.stage = a.stage
BY DEF Attempt

(* Attempts that lose their workers, together with the pools.              *)
LEMMA OwnedImage ==
  ASSUME NEW en, NEW bu, NEW idle, NEW atts, Owned(en, bu, idle, atts),
         NEW g, NEW atts2, atts2 = {g[a] : a \in atts},
         \A a \in atts : a.pool \in Pools /\ g[a].pool = a.pool /\ g[a].worker \in {a.worker, None},
         NEW en2, NEW bu2, NEW idle2,
         \A p \in Pools : bu2[p] \subseteq en2[p] \ idle2[p] /\ idle2[p] \subseteq en2[p],
         \A a \in atts : g[a].worker # None => a.worker \in bu2[a.pool],
         \A p \in Pools : \A w \in bu2[p] :
            w \in bu[p] /\ \A a \in atts : a.pool = p /\ a.worker = w => g[a].worker = w
  PROVE  Owned(en2, bu2, idle2, atts2)
<1>1. \A b \in atts2 : \E a \in atts : b = g[a]
  OBVIOUS
<1>2. \A a \in atts : g[a] \in atts2
  OBVIOUS
<1>3. ASSUME NEW p \in Pools
      PROVE  /\ \A b \in atts2 : b.pool = p /\ b.worker # None => b.worker \in bu2[p]
             /\ \A b, c \in atts2 : b.pool = p /\ c.pool = p /\ b.worker = c.worker /\ b.worker # None => b = c
             /\ \A w \in bu2[p] : \E b \in atts2 : b.pool = p /\ b.worker = w
  <2>1. \A b \in atts2 : b.pool = p /\ b.worker # None => b.worker \in bu2[p]
    BY <1>1
  <2>2. ASSUME NEW b \in atts2, NEW c \in atts2, b.pool = p, c.pool = p, b.worker = c.worker, b.worker # None
        PROVE  b = c
    <3>1. PICK x \in atts : b = g[x]
      BY <1>1
    <3>2. PICK y \in atts : c = g[y]
      BY <1>1
    <3>3. x.pool = p /\ y.pool = p /\ x.worker = b.worker /\ y.worker = b.worker
      BY <2>2, <3>1, <3>2
    <3>4. x = y
      BY <2>2, <3>3 DEF Owned
    <3> QED BY <3>1, <3>2, <3>4
  <2>3. ASSUME NEW w \in bu2[p] PROVE \E b \in atts2 : b.pool = p /\ b.worker = w
    <3>1. PICK a \in atts : a.pool = p /\ a.worker = w
      BY DEF Owned
    <3> QED BY <1>2, <3>1
  <2> QED BY <2>1, <2>2, <2>3
<1> QED BY <1>3 DEF Owned

(* A new attempt takes a worker that is not busy.                          *)
LEMMA OwnedStart ==
  ASSUME NEW en \in Members, NEW bu \in Members, NEW idle \in Members, NEW atts \in SUBSET Attempt,
         Owned(en, bu, idle, atts), NEW p \in Pools, NEW w \in Workers, w \notin bu[p],
         NEW new, new.pool = p, new.worker = w
  PROVE  Owned([en EXCEPT ![p] = @ \cup {w}], [bu EXCEPT ![p] = @ \cup {w}],
               [idle EXCEPT ![p] = @ \ {w}], atts \cup {new})
<1>1. PICK en2, bu2, idle2 : /\ en2 = [en EXCEPT ![p] = @ \cup {w}] /\ bu2 = [bu EXCEPT ![p] = @ \cup {w}]
                             /\ idle2 = [idle EXCEPT ![p] = @ \ {w}]
  OBVIOUS
<1>2. /\ en2[p] = en[p] \cup {w} /\ bu2[p] = bu[p] \cup {w} /\ idle2[p] = idle[p] \ {w}
      /\ \A r \in Pools \ {p} : en2[r] = en[r] /\ bu2[r] = bu[r] /\ idle2[r] = idle[r]
  BY <1>1 DEF Members
<1>3. w # None
  BY BusOK
<1>4. \A a \in atts : a.pool = p => a.worker # w
  BY <1>3 DEF Owned
<1>5. ASSUME NEW r \in Pools
      PROVE  /\ bu2[r] \subseteq en2[r] \ idle2[r] /\ idle2[r] \subseteq en2[r]
             /\ \A a \in atts \cup {new} : a.pool = r /\ a.worker # None => a.worker \in bu2[r]
             /\ \A a, b \in atts \cup {new} :
                   a.pool = r /\ b.pool = r /\ a.worker = b.worker /\ a.worker # None => a = b
             /\ \A v \in bu2[r] : \E a \in atts \cup {new} : a.pool = r /\ a.worker = v
  <2>1. CASE r = p
    BY <1>2, <1>4, <2>1 DEF Owned
  <2>2. CASE r # p
    BY <1>2, <2>2 DEF Owned
  <2> QED BY <2>1, <2>2
<1> QED BY <1>1, <1>5 DEF Owned

(* An attempt without a worker comes or goes.                              *)
LEMMA OwnedAlone ==
  ASSUME NEW en, NEW bu, NEW idle, NEW atts, NEW atts2, Owned(en, bu, idle, atts),
         \A a \in (atts \ atts2) \cup (atts2 \ atts) : a.worker = None, None \notin Workers,
         bu \in Members
  PROVE  Owned(en, bu, idle, atts2)
<1>1. ASSUME NEW p \in Pools
      PROVE  /\ \A a \in atts2 : a.pool = p /\ a.worker # None => a.worker \in bu[p]
             /\ \A a, b \in atts2 : a.pool = p /\ b.pool = p /\ a.worker = b.worker /\ a.worker # None => a = b
             /\ \A w \in bu[p] : \E a \in atts2 : a.pool = p /\ a.worker = w
  <2>1. \A a \in atts2 : a.worker # None => a \in atts
    OBVIOUS
  <2>2. \A a \in atts : a.worker # None => a \in atts2
    OBVIOUS
  <2>3. \A w \in bu[p] : w # None
    BY DEF Members
  <2> QED BY <2>1, <2>2, <2>3 DEF Owned
<1> QED BY <1>1 DEF Owned

(* The name of a worker that is spawned.                                   *)
LEMMA FreshIs ==
  ASSUME NEW ws, \E w \in Workers : w \notin ws
  PROVE  Fresh(ws) \in Workers /\ Fresh(ws) \notin ws
BY DEF Fresh

LEMMA Sizes ==
  ASSUME NEW en \in SUBSET Workers
  PROVE  /\ Cardinality(en) \in Nat /\ Cardinality(Workers) \in Nat
         /\ Cardinality(en) < Cardinality(Workers) => \E w \in Workers : w \notin en
         /\ \A w : w \in en => Cardinality(en \ {w}) = Cardinality(en) - 1
         /\ \A w : w \notin en => en \ {w} = en /\ Cardinality(en \cup {w}) = Cardinality(en) + 1
         /\ \A w : Cardinality((en \ {w}) \cup {Fresh(en \ {w})}) <= Cardinality(en \ {w}) + 1
<1>1. IsFiniteSet(Workers)
  BY BusOK
<1>2. IsFiniteSet(en)
  BY <1>1, FS_Subset
<1>3. Cardinality(en) \in Nat /\ Cardinality(Workers) \in Nat
  BY <1>1, <1>2, FS_CardinalityType
<1>4. Cardinality(en) < Cardinality(Workers) => \E w \in Workers : w \notin en
  <2>1. CASE en = Workers
    BY <1>3, <2>1
  <2>2. CASE en # Workers
    BY <2>2
  <2> QED BY <2>1, <2>2
<1>5. \A w : w \in en => Cardinality(en \ {w}) = Cardinality(en) - 1
  BY <1>2, FS_RemoveElement
<1>6. \A w : w \notin en => en \ {w} = en /\ Cardinality(en \cup {w}) = Cardinality(en) + 1
  BY <1>2, FS_AddElement
<1>7. ASSUME NEW w PROVE Cardinality((en \ {w}) \cup {Fresh(en \ {w})}) <= Cardinality(en \ {w}) + 1
  <2>1. PICK c, f : c = en \ {w} /\ f = Fresh(en \ {w})
    OBVIOUS
  <2>2. IsFiniteSet(c) /\ Cardinality(c) \in Nat
    BY <1>2, <2>1, FS_RemoveElement, FS_CardinalityType
  <2>3. Cardinality(c \cup {f}) <= Cardinality(c) + 1
    BY <2>2, FS_AddElement
  <2> QED BY <2>1, <2>3
<1> QED BY <1>3, <1>4, <1>5, <1>6, <1>7

(* Error events of a worker that has left its pool.                        *)
LEMMA OutlivedEvents ==
  ASSUME NEW ev \in Events, NEW p \in Pools, NEW w
  PROVE  /\ Outlived(ev, p, w) \in Events
         /\ Outlived(ev, p, w)[p] = [i \in DOMAIN ev[p] |-> IF ev[p][i] = w THEN None ELSE ev[p][i]]
         /\ Len(Outlived(ev, p, w)[p]) = Len(ev[p]) /\ DOMAIN Outlived(ev, p, w)[p] = DOMAIN ev[p]
         /\ \A r \in Pools \ {p} : Outlived(ev, p, w)[r] = ev[r]
<1>1. PICK s, e : s = ev[p] /\ e = [i \in DOMAIN s |-> IF s[i] = w THEN None ELSE s[i]]
  OBVIOUS
<1>2. s \in Seq(Workers \cup {None}) /\ DOMAIN s = 1..Len(s) /\ Len(s) \in Nat
  BY <1>1 DEF Events
<1>3. \A i \in 1..Len(s) : s[i] \in Workers \cup {None}
  BY <1>2, ElementOfSeq
<1>4. e \in [1..Len(s) -> Workers \cup {None}]
  BY <1>1, <1>2, <1>3
<1>5. e \in Seq(Workers \cup {None}) /\ Len(e) = Len(s) /\ DOMAIN e = DOMAIN s
  BY <1>2, <1>4
<1>6. Outlived(ev, p, w) = [ev EXCEPT ![p] = e]
  BY <1>1 DEF Outlived, Events
<1> QED BY <1>1, <1>5, <1>6 DEF Events

-----------------------------------------------------------------------------
(* The sub-operators of the actions.                                       *)
LEMMA TypesFold ==
  ASSUME IInv
  PROVE  /\ entries \in Members /\ busy \in Members /\ idleTimer \in Members
         /\ errs \in Events /\ queue \in Queues /\ task \in TaskMap
         /\ attempts \in SUBSET Attempt /\ breaker \in [Types -> Breaker]
         /\ faults \in 0..MaxFaults /\ errors \in 0..MaxErrors
         /\ None \notin Workers /\ None \notin Pools
BY BusOK DEF IInv, TypeOK, Members, Events, Queues, TaskMap

(* resolvePool gives a registered pool, or none.                           *)
LEMMA PoolForIs ==
  ASSUME pools \in Seq(Pools), NEW t
  PROVE  /\ PoolFor(t) \in Pools \cup {None}
         /\ PoolFor(t) # None => InPools(PoolFor(t))
<1>1. PICK fit : fit = {i \in DOMAIN pools : t \in Serves[pools[i]]}
  OBVIOUS
<1>2. PoolFor(t) = IF fit = {} THEN None
                   ELSE pools[CHOOSE i \in fit : \A j \in fit : i <= j]
  BY <1>1 DEF PoolFor
<1>3. CASE fit = {}
  BY <1>2, <1>3
<1>4. CASE fit # {}
  <2>1. fit \in SUBSET Nat /\ fit \subseteq DOMAIN pools
    BY <1>1
  <2>2. \E i \in fit : \A j \in fit : i <= j
    BY <1>4, <2>1, Least
  <2>3. PICK i \in fit : PoolFor(t) = pools[i]
    BY <1>2, <1>4, <2>2
  <2>4. i \in DOMAIN pools /\ pools[i] \in Pools
    BY <2>1, <2>3
  <2> QED BY <2>3, <2>4 DEF InPools
<1> QED BY <1>3, <1>4

(* Nothing that waits becomes runnable unless the pump is told.            *)
LEMMA WorkKept ==
  ASSUME IInv, UNCHANGED <<running, pools, pumping>>,
         \A t \in Tasks : In(queue', t) => In(queue, t),
         faults' = 0 => faults = 0, pumpScheduled => pumpScheduled',
         running /\ ~pumpScheduled' /\ faults' = 0 =>
           \A r \in Pools : InPools(r) /\ CanAcquire(r)' => CanAcquire(r)
  PROVE  WorkSide'
<1> SUFFICES ASSUME running, faults' = 0, ~pumpScheduled', ~pumping,
                    NEW t \in Tasks, In(queue', t), Selectable(t)'
             PROVE  FALSE
  BY DEF WorkSide
<1>1. PoolFor(t)' = PoolFor(t)
  BY DEF PoolFor
<1>2. ~Selectable(t)
  BY DEF IInv, WorkSide
<1>3. PoolFor(t) # None
  BY <1>2 DEF Selectable
<1>4. PoolFor(t) \in Pools /\ InPools(PoolFor(t))
  BY <1>3, PoolForIs DEF IInv, TypeOK
<1>5. PICK r \in Pools : r = PoolFor(t)
  BY <1>4
<1>6. CanAcquire(r)'
  BY <1>1, <1>3, <1>5 DEF Selectable
<1>7. CanAcquire(r)
  BY <1>4, <1>5, <1>6
<1> QED BY <1>2, <1>5, <1>7 DEF Selectable

LEMMA ScheduledWork ==
  ASSUME IInv, SchedulePump, running' = running
  PROVE  WorkSide' /\ pumpScheduled' \in BOOLEAN
BY DEF SchedulePump, WorkSide, IInv, TypeOK

LEMMA NotifyIs ==
  ASSUME IInv, NEW p \in Pools, Notify(p)
  PROVE  /\ pumpScheduled' \in BOOLEAN
         /\ pumpScheduled => pumpScheduled'
         /\ running /\ ~pumpScheduled' => ~InPools(p) \/ p \in down
BY DEF Notify, IInv, TypeOK

(* A pool whose workers are as before.                                     *)
LEMMA SamePool ==
  ASSUME NEW r \in Pools, entries'[r] = entries[r], busy'[r] = busy[r], r \in down => r \in down'
  PROVE  CanAcquire(r)' => CanAcquire(r)
BY DEF CanAcquire, Idle

(* restartWorker, for attempts that may have become late.                  *)
LEMMA RestartKeeps ==
  ASSUME IInv, NEW p \in Pools, NEW w, NEW atts \in SUBSET Attempt,
         NEW ev \in Events, Restart(p, w, atts, ev),
         Owned(entries, busy, idleTimer, atts),
         \E v \in Workers : v \notin entries[p] \ {w}
  PROVE  /\ entries' \in Members /\ busy' \in Members /\ idleTimer' \in Members /\ errs' \in Events
         /\ attempts' \in SUBSET Attempt /\ pumpScheduled' \in BOOLEAN /\ faults' \in 0..MaxFaults
         /\ Owned(entries', busy', idleTimer', attempts')
         /\ (\A a \in atts : (a.timedOut \/ a.stage = "accept") => (a.worker = None \/ (a.pool = p /\ a.worker = w)))
              => InTime(attempts')
         /\ Same(atts, attempts')
         /\ faults' = 0 => faults = 0
         /\ pumpScheduled => pumpScheduled'
         /\ down' = down /\ running /\ ~pumpScheduled' /\ faults' = 0 =>
              \A r \in Pools : InPools(r) /\ CanAcquire(r)' => CanAcquire(r)
<1>1. PICK rest, f : rest = entries[p] \ {w} /\ f = Fresh(rest)
  OBVIOUS
<1>2. rest \in SUBSET Workers /\ f \in Workers /\ f \notin rest
  BY <1>1, FreshIs, TypesFold DEF Members
<1>3. /\ attempts' = Left(atts, p, w) /\ errs' = Outlived(ev, p, w)
      /\ busy' = [busy EXCEPT ![p] = @ \ {w}] /\ idleTimer' = [idleTimer EXCEPT ![p] = @ \ {w}]
  BY DEF Restart
<1>4. \/ entries' = [entries EXCEPT ![p] = rest \cup {f}] /\ Notify(p) /\ faults' = faults
      \/ /\ faults < MaxFaults /\ faults' = faults + 1 /\ entries' = [entries EXCEPT ![p] = rest]
         /\ pumpScheduled' = pumpScheduled
  BY <1>1 DEF Restart
<1>5. entries' \in Members /\ busy' \in Members /\ idleTimer' \in Members
  BY <1>2, <1>3, <1>4, TypesFold DEF Members
<1>6. errs' \in Events
  BY <1>3, OutlivedEvents
<1>7. /\ busy'[p] = busy[p] \ {w} /\ idleTimer'[p] = idleTimer[p] \ {w}
      /\ entries'[p] = rest \/ entries'[p] = rest \cup {f}
      /\ \A r \in Pools \ {p} : busy'[r] = busy[r] /\ idleTimer'[r] = idleTimer[r] /\ entries'[r] = entries[r]
  BY <1>3, <1>4, TypesFold DEF Members
<1>8. faults' \in 0..MaxFaults /\ (faults' = 0 => faults = 0)
  <2>1. faults \in 0..MaxFaults /\ MaxFaults \in Nat
    BY TypesFold, BusOK
  <2> QED BY <1>4, <2>1
<1>9. pumpScheduled' \in BOOLEAN /\ (pumpScheduled => pumpScheduled')
  <2>1. CASE Notify(p)
    BY <2>1, NotifyIs
  <2>2. CASE pumpScheduled' = pumpScheduled
    BY <2>2 DEF IInv, TypeOK
  <2> QED BY <1>4, <2>1, <2>2
<1>10. PICK g : g = [a \in atts |-> IF a.pool = p /\ a.worker = w THEN [a EXCEPT !.worker = None] ELSE a]
  OBVIOUS
<1>11. attempts' = {g[a] : a \in atts}
  BY <1>3, <1>10 DEF Left
<1>12. ASSUME NEW a \in atts
       PROVE  /\ g[a] \in Attempt /\ g[a].task = a.task /\ g[a].n = a.n /\ g[a].timedOut = a.timedOut
              /\ g[a].pool = a.pool /\ g[a].stage = a.stage /\ a.pool \in Pools
              /\ a.pool = p /\ a.worker = w => g[a].worker = None
              /\ ~(a.pool = p /\ a.worker = w) => g[a] = a
  <2>1. a \in Attempt /\ a.pool \in Pools
    BY DEF Attempt
  <2>2. CASE a.pool = p /\ a.worker = w
    <3>1. g[a] = [a EXCEPT !.worker = None]
      BY <1>10, <2>2
    <3> QED BY <2>1, <2>2, <3>1, LeftIs
  <2>3. CASE ~(a.pool = p /\ a.worker = w)
    BY <1>10, <2>1, <2>3
  <2> QED BY <2>2, <2>3
<1>13. attempts' \in SUBSET Attempt
  BY <1>11, <1>12
<1>14. Same(atts, attempts')
  <2>1. PICK atts2 : atts2 = attempts'
    OBVIOUS
  <2>2. Same(atts, atts2)
    BY <1>11, <1>12, <2>1, ImageSame
  <2> QED BY <2>1, <2>2
<1>15. ASSUME NEW r \in Pools
       PROVE  busy'[r] \subseteq entries'[r] \ idleTimer'[r] /\ idleTimer'[r] \subseteq entries'[r]
  <2>1. busy[r] \subseteq entries[r] \ idleTimer[r] /\ idleTimer[r] \subseteq entries[r]
    BY DEF Owned
  <2>2. CASE r = p
    BY <1>1, <1>7, <2>1, <2>2
  <2>3. CASE r # p
    BY <1>7, <2>1, <2>3
  <2> QED BY <2>2, <2>3
<1>16. ASSUME NEW a \in atts, g[a].worker # None PROVE a.worker \in busy'[a.pool]
  <2>1. g[a] = a /\ a.worker # None /\ a.pool \in Pools
    BY <1>12, <1>16
  <2>2. a.worker \in busy[a.pool]
    BY <2>1 DEF Owned
  <2>3. ~(a.pool = p /\ a.worker = w)
    BY <1>12, <1>16
  <2> QED BY <1>7, <2>1, <2>2, <2>3
<1>17. ASSUME NEW r \in Pools, NEW v \in busy'[r], NEW a \in atts, a.pool = r, a.worker = v
       PROVE  g[a].worker = v
  <2>1. ~(r = p /\ v = w)
    BY <1>7
  <2> QED BY <1>12, <1>17, <2>1
<1>18. \A r \in Pools : \A v \in busy'[r] : v \in busy[r]
  BY <1>7
<1>19. Owned(entries', busy', idleTimer', attempts')
  <2>1. PICK en2, bu2, idle2, atts2 : en2 = entries' /\ bu2 = busy' /\ idle2 = idleTimer' /\ atts2 = attempts'
    OBVIOUS
  <2>2. PICK en, bu, idle : en = entries /\ bu = busy /\ idle = idleTimer
    OBVIOUS
  <2>3. Owned(en, bu, idle, atts)
    BY <2>2
  <2>4. \A a \in atts : a.pool \in Pools /\ g[a].pool = a.pool /\ g[a].worker \in {a.worker, None}
    BY <1>12
  <2>5. \A r \in Pools : bu2[r] \subseteq en2[r] \ idle2[r] /\ idle2[r] \subseteq en2[r]
    BY <1>15, <2>1
  <2>6. \A a \in atts : g[a].worker # None => a.worker \in bu2[a.pool]
    BY <1>16, <2>1
  <2>7. \A r \in Pools : \A v \in bu2[r] : v \in bu[r] /\ \A a \in atts : a.pool = r /\ a.worker = v => g[a].worker = v
    BY <1>17, <1>18, <2>1, <2>2
  <2>8. atts2 = {g[a] : a \in atts}
    BY <1>11, <2>1
  <2>9. Owned(en2, bu2, idle2, atts2)
    BY <2>3, <2>4, <2>5, <2>6, <2>7, <2>8, OwnedImage
  <2> QED BY <2>1, <2>9
<1>20. ASSUME \A a \in atts : (a.timedOut \/ a.stage = "accept") => (a.worker = None \/ (a.pool = p /\ a.worker = w))
       PROVE  InTime(attempts')
  <2> SUFFICES ASSUME NEW b \in attempts', b.timedOut \/ b.stage = "accept" PROVE b.worker = None
    BY DEF InTime
  <2>1. PICK a \in atts : b = g[a]
    BY <1>11
  <2>2. a.timedOut \/ a.stage = "accept"
    BY <1>12, <2>1
  <2>3. CASE a.pool = p /\ a.worker = w
    BY <1>12, <2>1, <2>3
  <2>4. CASE ~(a.pool = p /\ a.worker = w)
    BY <1>12, <1>20, <2>1, <2>2, <2>4
  <2> QED BY <2>3, <2>4
<1>21. ASSUME down' = down, running, ~pumpScheduled', faults' = 0, NEW r \in Pools, InPools(r), CanAcquire(r)'
       PROVE  CanAcquire(r)
  <2>1. CASE r # p
    BY <1>7, <1>21, <2>1, SamePool
  <2>2. CASE r = p
    <3>1. faults' # faults + 1
      BY <1>21, TypesFold
    <3>2. Notify(p)
      BY <1>4, <3>1
    <3>3. p \in down
      BY <1>21, <2>2, <3>2, NotifyIs
    <3> QED BY <1>21, <2>2, <3>3 DEF CanAcquire
  <2> QED BY <2>1, <2>2
<1> QED BY <1>5, <1>6, <1>8, <1>9, <1>13, <1>14, <1>19, <1>20, <1>21

(* The methods of a breaker give a breaker.                                *)
LEMMA BreakerTypes ==
  ASSUME NEW b \in Breaker
  PROVE  Seen(b) \in Breaker /\ Asked(b) \in Breaker /\ Succeeded(b) \in Breaker
         /\ Failed(b) \subseteq Breaker
<1>1. Threshold \in Nat \ {0}
  BY ThresholdOK
<1>2. Seen(b) \in Breaker
  BY DEF Seen, Breaker
<1>3. Asked(b) \in Breaker
  <2>1. PICK s, v : s = Seen(b) /\ v = (s.testing \/ s.state = "half-open")
    OBVIOUS
  <2>2. s \in Breaker /\ v \in BOOLEAN
    BY <1>2, <2>1 DEF Breaker
  <2>3. Asked(b) = [s EXCEPT !.testing = v]
    BY <2>1 DEF Asked
  <2> QED BY <2>2, <2>3 DEF Breaker
<1>4. Succeeded(b) \in Breaker
  <2>1. PICK c : c = [b EXCEPT !.failures = 0]
    OBVIOUS
  <2>2. 0 \in 0..Threshold
    BY <1>1
  <2>3. c \in Breaker
    BY <2>1, <2>2 DEF Breaker
  <2>4. [c EXCEPT !.state = "closed", !.testing = FALSE] \in Breaker
    BY <2>3 DEF Breaker
  <2>5. [b EXCEPT !.failures = 0, !.state = "closed", !.testing = FALSE]
          = [c EXCEPT !.state = "closed", !.testing = FALSE]
    BY <2>1 DEF Breaker
  <2> QED BY <2>1, <2>3, <2>4, <2>5 DEF Succeeded
<1>5. ASSUME NEW c \in Failed(b) PROVE c \in Breaker
  <2>1. b.failures \in 0..Threshold
    BY DEF Breaker
  <2>2. PICK k \in 1..(IF b.failures = Threshold THEN Threshold ELSE b.failures + 1) :
          c = LET d == [b EXCEPT !.failures = k, !.cooled = FALSE]
              IN  IF k = Threshold \/ b.state = "half-open"
                    THEN [d EXCEPT !.state = "open", !.testing = FALSE]
                    ELSE d
    BY <1>5 DEF Failed
  <2>3. k \in 0..Threshold
    BY <1>1, <2>1, <2>2
  <2>4. PICK d : d = [b EXCEPT !.failures = k, !.cooled = FALSE]
    OBVIOUS
  <2>5. d \in Breaker
    BY <2>3, <2>4 DEF Breaker
  <2>6. c = [d EXCEPT !.state = "open", !.testing = FALSE] \/ c = d
    BY <2>2, <2>4
  <2> QED BY <2>5, <2>6 DEF Breaker
<1> QED BY <1>2, <1>3, <1>4, <1>5

(* Tasks are settled, attempts told, pools emptied.                        *)
LEMMA StopAllKeeps ==
  ASSUME IInv, NEW S \in SUBSET Tasks, NEW P, StopAll(S, P)
  PROVE  /\ entries' \in Members /\ busy' \in Members /\ idleTimer' \in Members /\ errs' \in Events
         /\ queue' \in Queues /\ task' \in TaskMap /\ attempts' \in SUBSET Attempt
         /\ down' = down \cup P
         /\ TaskSide(task', queue', attempts') /\ Owned(entries', busy', idleTimer', attempts')
         /\ InTime(attempts') /\ Bounded(entries', errs', errors)
         /\ \A t \in Tasks : In(queue', t) => In(queue, t)
         /\ \A r \in Pools : CanAcquire(r)' => CanAcquire(r)
<1>1. PICK told : told = {IF a.task \in S /\ Current(a) THEN Aborted(a) ELSE a : a \in attempts}
  OBVIOUS
<1>2. /\ queue' = [i \in Priorities |-> Only(queue[i], Tasks \ S)] /\ task' = Settled(task, S)
      /\ attempts' = {IF a.pool \in P THEN [a EXCEPT !.worker = None] ELSE a : a \in told}
      /\ down' = down \cup P
      /\ entries' = [p \in Pools |-> IF p \in P THEN {} ELSE entries[p]]
      /\ busy' = [p \in Pools |-> IF p \in P THEN {} ELSE busy[p]]
      /\ idleTimer' = [p \in Pools |-> IF p \in P THEN {} ELSE idleTimer[p]]
      /\ errs' = [p \in Pools |-> IF p \in P THEN <<>> ELSE errs[p]]
  BY <1>1 DEF StopAll
<1>3. entries' \in Members /\ busy' \in Members /\ idleTimer' \in Members /\ errs' \in Events
  BY <1>2, TypesFold DEF Members, Events
<1>4. Rest(queue, queue', Tasks \ S)
  <2>1. PICK q : q = queue
    OBVIOUS
  <2>2. q \in Queues /\ Once(q)
    BY <2>1, TypesFold DEF IInv, TaskSide
  <2>3. Rest(q, [i \in Priorities |-> Only(q[i], Tasks \ S)], Tasks \ S)
    BY <2>2, FilteredQueue
  <2> QED BY <1>2, <2>1, <2>3
<1>5. task' \in TaskMap /\ TaskSide(task', queue', attempts)
  <2>1. PICK tk, q, q2, atts : tk = task /\ q = queue /\ q2 = queue' /\ atts = attempts
    OBVIOUS
  <2>2. tk \in TaskMap /\ TaskSide(tk, q, atts) /\ Rest(q, q2, Tasks \ S)
    BY <1>4, <2>1, TypesFold DEF IInv
  <2>3. Settled(tk, S) \in TaskMap /\ TaskSide(Settled(tk, S), q2, atts)
    BY <2>2, SettledTasks, SettleKeeps
  <2> QED BY <1>2, <2>1, <2>3
<1>6. PICK h : h = [a \in attempts |-> IF a.task \in S /\ Current(a) THEN Aborted(a) ELSE a]
  OBVIOUS
<1>7. PICK g : g = [a \in attempts |-> IF h[a].pool \in P THEN [h[a] EXCEPT !.worker = None] ELSE h[a]]
  OBVIOUS
<1>8. told = {h[a] : a \in attempts}
  BY <1>1, <1>6
<1>9. attempts' = {g[a] : a \in attempts}
  BY <1>2, <1>7, <1>8
<1>10. ASSUME NEW a \in attempts
       PROVE  /\ g[a] \in Attempt /\ g[a].task = a.task /\ g[a].n = a.n /\ g[a].timedOut = a.timedOut
              /\ g[a].pool = a.pool /\ a.pool \in Pools
              /\ g[a].stage = "accept" => a.stage = "accept"
              /\ a.pool \in P => g[a].worker = None
              /\ a.pool \notin P => g[a].worker = a.worker
  <2>1. a \in Attempt /\ a.pool \in Pools
    BY TypesFold DEF Attempt
  <2>2. /\ h[a] \in Attempt /\ h[a].task = a.task /\ h[a].n = a.n /\ h[a].timedOut = a.timedOut
        /\ h[a].pool = a.pool /\ h[a].worker = a.worker
        /\ h[a].stage = "accept" => a.stage = "accept"
    <3>1. CASE a.task \in S /\ Current(a)
      <4>1. h[a] = Aborted(a)
        BY <1>6, <3>1
      <4> QED BY <2>1, <4>1, AbortedIs
    <3>2. CASE ~(a.task \in S /\ Current(a))
      BY <1>6, <2>1, <3>2
    <3> QED BY <3>1, <3>2
  <2>3. CASE a.pool \in P
    <3>1. g[a] = [h[a] EXCEPT !.worker = None]
      BY <1>7, <2>2, <2>3
    <3>2. PICK c, b : c = h[a] /\ b = g[a]
      OBVIOUS
    <3>3. c \in Attempt /\ b = [c EXCEPT !.worker = None]
      BY <2>2, <3>1, <3>2
    <3>4. /\ b \in Attempt /\ b.task = c.task /\ b.n = c.n /\ b.worker = None
          /\ b.pool = c.pool /\ b.timedOut = c.timedOut /\ b.stage = c.stage
      BY <3>3, LeftIs
    <3> QED BY <2>1, <2>2, <2>3, <3>2, <3>4
  <2>4. CASE a.pool \notin P
    <3>1. g[a] = h[a]
      BY <1>7, <2>2, <2>4
    <3> QED BY <2>1, <2>2, <2>4, <3>1
  <2> QED BY <2>3, <2>4
<1>11. attempts' \in SUBSET Attempt
  BY <1>9, <1>10
<1>12. TaskSide(task', queue', attempts')
  <2>1. PICK tk, q, atts, atts2 : tk = task' /\ q = queue' /\ atts = attempts /\ atts2 = attempts'
    OBVIOUS
  <2>2. Same(atts, atts2)
    BY <1>9, <1>10, <2>1, ImageSame
  <2>3. TaskSide(tk, q, atts2)
    BY <1>5, <2>1, <2>2, SameKeeps
  <2> QED BY <2>1, <2>3
<1>13. Owned(entries', busy', idleTimer', attempts')
  <2>1. PICK en, bu, idle, atts : en = entries /\ bu = busy /\ idle = idleTimer /\ atts = attempts
    OBVIOUS
  <2>2. PICK en2, bu2, idle2, atts2 : en2 = entries' /\ bu2 = busy' /\ idle2 = idleTimer' /\ atts2 = attempts'
    OBVIOUS
  <2>3. Owned(en, bu, idle, atts)
    BY <2>1 DEF IInv
  <2>4. \A r \in Pools : bu2[r] \subseteq en2[r] \ idle2[r] /\ idle2[r] \subseteq en2[r]
    BY <1>2, <2>1, <2>2, <2>3 DEF Owned
  <2>5. \A a \in atts : a.pool \in Pools /\ g[a].pool = a.pool /\ g[a].worker \in {a.worker, None}
    BY <1>10, <2>1
  <2>6. ASSUME NEW a \in atts, g[a].worker # None PROVE a.worker \in bu2[a.pool]
    <3>1. a.pool \in Pools /\ a.pool \notin P /\ a.worker # None
      BY <1>10, <2>1, <2>6
    <3>2. a.worker \in bu[a.pool]
      BY <2>3, <3>1 DEF Owned
    <3> QED BY <1>2, <2>1, <2>2, <3>1, <3>2
  <2>7. ASSUME NEW r \in Pools, NEW w \in bu2[r]
        PROVE  w \in bu[r] /\ \A a \in atts : a.pool = r /\ a.worker = w => g[a].worker = w
    <3>1. r \notin P /\ w \in bu[r]
      BY <1>2, <2>1, <2>2
    <3> QED BY <1>10, <2>1, <3>1
  <2>8. atts2 = {g[a] : a \in atts}
    BY <1>9, <2>1, <2>2
  <2>9. Owned(en2, bu2, idle2, atts2)
    BY <2>3, <2>4, <2>5, <2>6, <2>7, <2>8, OwnedImage
  <2> QED BY <2>2, <2>9
<1>14. InTime(attempts')
  <2> SUFFICES ASSUME NEW b \in attempts', b.timedOut \/ b.stage = "accept" PROVE b.worker = None
    BY DEF InTime
  <2>1. PICK a \in attempts : b = g[a]
    BY <1>9
  <2>2. a.worker = None
    BY <1>10, <2>1 DEF IInv, InTime
  <2> QED BY <1>10, <2>1, <2>2
<1>15. Bounded(entries', errs', errors)
  <2> SUFFICES ASSUME NEW r \in Pools
               PROVE  /\ \A i \in DOMAIN errs'[r] : errs'[r][i] \in entries'[r] \cup {None}
                      /\ Len(errs'[r]) <= errors
                      /\ Cardinality(entries'[r]) + Len(errs'[r]) <= MaxWorkers[r] + errors
    BY DEF Bounded
  <2>1. CASE r \in P
    <3>1. entries'[r] = {} /\ errs'[r] = <<>>
      BY <1>2, <2>1
    <3>2. Cardinality({}) = 0
      BY FS_EmptySet
    <3>3. errors \in Nat /\ MaxWorkers[r] \in Nat
      BY TypesFold, BusOK
    <3> QED BY <3>1, <3>2, <3>3
  <2>2. CASE r \notin P
    <3>1. entries'[r] = entries[r] /\ errs'[r] = errs[r]
      BY <1>2, <2>2
    <3> QED BY <3>1 DEF IInv, Bounded
  <2> QED BY <2>1, <2>2
<1>16. ASSUME NEW r \in Pools, CanAcquire(r)' PROVE CanAcquire(r)
  <2>1. r \notin P
    BY <1>2, <1>16 DEF CanAcquire
  <2>2. entries'[r] = entries[r] /\ busy'[r] = busy[r] /\ (r \in down => r \in down')
    BY <1>2, <2>1
  <2> QED BY <1>16, <2>2, SamePool
<1>17. queue' \in Queues /\ \A t \in Tasks : In(queue', t) => In(queue, t)
  BY <1>4 DEF Rest
<1> QED BY <1>2, <1>3, <1>5, <1>11, <1>12, <1>13, <1>14, <1>15, <1>16, <1>17

(* A worker leaves its pool; if it was not in it, there is room for one.   *)
LEMMA LostBounds ==
  ASSUME NEW en \in Members, NEW ev \in Events, NEW m \in Nat, Bounded(en, ev, m),
         NEW p \in Pools, NEW w,
         \E v \in Workers : v \notin en[p] \ {w},
         w \in en[p] \/ Cardinality(en[p]) + Len(ev[p]) + 1 <= MaxWorkers[p] + m,
         NEW en2, \/ en2 = [en EXCEPT ![p] = (en[p] \ {w}) \cup {Fresh(en[p] \ {w})}]
                  \/ en2 = [en EXCEPT ![p] = en[p] \ {w}]
  PROVE  Bounded(en2, Outlived(ev, p, w), m)
<1>1. PICK ev2 : ev2 = Outlived(ev, p, w)
  OBVIOUS
<1>2. PICK s, s2 : s = ev[p] /\ s2 = ev2[p]
  OBVIOUS
<1>3. /\ s2 = [i \in DOMAIN s |-> IF s[i] = w THEN None ELSE s[i]]
      /\ Len(s2) = Len(s) /\ DOMAIN s2 = DOMAIN s /\ \A r \in Pools \ {p} : ev2[r] = ev[r]
  BY <1>1, <1>2, OutlivedEvents
<1>4. /\ en2[p] = (en[p] \ {w}) \cup {Fresh(en[p] \ {w})} \/ en2[p] = en[p] \ {w}
      /\ \A r \in Pools \ {p} : en2[r] = en[r]
  BY DEF Members
<1>5. /\ \A i \in DOMAIN s : s[i] \in en[p] \cup {None}
      /\ Len(s) <= m /\ Cardinality(en[p]) + Len(s) <= MaxWorkers[p] + m
  BY <1>2 DEF Bounded
<1>6. \A i \in DOMAIN s2 : s2[i] \in en2[p] \cup {None}
  BY <1>3, <1>4, <1>5
<1>7. Cardinality(en2[p]) + Len(s2) <= MaxWorkers[p] + m
  <2>1. PICK c, d, l, x : /\ c = Cardinality(en[p]) /\ d = Cardinality(en2[p]) /\ l = Len(s)
                          /\ x = Cardinality(en[p] \ {w})
    OBVIOUS
  <2>2. en[p] \in SUBSET Workers
    BY DEF Members
  <2>3. PICK e : e = en[p]
    OBVIOUS
  <2>4. /\ Cardinality(e) \in Nat
        /\ w \in e => Cardinality(e \ {w}) = Cardinality(e) - 1
        /\ w \notin e => e \ {w} = e
        /\ Cardinality((e \ {w}) \cup {Fresh(e \ {w})}) <= Cardinality(e \ {w}) + 1
    BY <2>2, <2>3, Sizes
  <2>5. /\ c \in Nat /\ (w \in en[p] => x = c - 1) /\ (w \notin en[p] => x = c)
    BY <2>1, <2>3, <2>4
  <2>6. d = x \/ d <= x + 1
    BY <1>4, <2>1, <2>3, <2>4
  <2>7. l \in Nat /\ MaxWorkers[p] \in Nat
    BY <1>2, <2>1, BusOK DEF Events
  <2>8. d \in Nat
    <3>1. en2[p] \in SUBSET Workers
      BY <1>4, <2>2, FreshIs
    <3> QED BY <2>1, <3>1, Sizes
  <2>9. w \in en[p] => d <= c
    BY <2>5, <2>6, <2>8
  <2>10. w \notin en[p] => d <= c + 1 /\ c + l + 1 <= MaxWorkers[p] + m
    BY <1>2, <2>1, <2>5, <2>6, <2>8
  <2>11. c + l <= MaxWorkers[p] + m
    BY <1>5, <2>1
  <2>12. d + l <= MaxWorkers[p] + m
    BY <2>5, <2>7, <2>8, <2>9, <2>10, <2>11
  <2> QED BY <1>3, <2>1, <2>12
<1>8. ASSUME NEW r \in Pools \ {p}
      PROVE  /\ \A i \in DOMAIN ev2[r] : ev2[r][i] \in en2[r] \cup {None}
             /\ Len(ev2[r]) <= m /\ Cardinality(en2[r]) + Len(ev2[r]) <= MaxWorkers[r] + m
  BY <1>3, <1>4 DEF Bounded
<1>9. Len(s2) <= m
  BY <1>3, <1>5
<1>10. Bounded(en2, ev2, m)
  BY <1>2, <1>6, <1>7, <1>8, <1>9 DEF Bounded
<1> QED BY <1>1, <1>10

-----------------------------------------------------------------------------
(* The invariant holds at the start, and every action keeps it.            *)
LEMMA InitOK == Init => IInv
<1> SUFFICES ASSUME Init PROVE IInv
  OBVIOUS
<1> USE DEF Init
<1>1. TypeOK
  <2>1. [y \in Types |-> Closed] \in [Types -> Breaker]
    <3>1. Closed \in Breaker
      BY ThresholdOK DEF Closed, Breaker
    <3> QED BY <3>1
  <2>2. [t \in Tasks |-> NoTask] \in [Tasks -> Task]
    BY NoTaskType
  <2>3. EmptyQueue \in [Priorities -> Seq(Tasks)]
    BY DEF EmptyQueue
  <2>4. entries \in [Pools -> SUBSET Workers] /\ busy = entries /\ idleTimer = entries
    OBVIOUS
  <2>5. errs \in [Pools -> Seq(Workers \cup {None})]
    OBVIOUS
  <2>6. pools \in Seq(Pools) /\ closing \in Seq(Pools)
    OBVIOUS
  <2>7. faults \in 0..MaxFaults /\ errors \in 0..MaxErrors
    BY BusOK
  <2>8. {entries, busy, idleTimer} \subseteq [Pools -> SUBSET Workers]
    BY <2>4
  <2>9. /\ running \in BOOLEAN /\ pumpScheduled \in BOOLEAN /\ pumping \in BOOLEAN
        /\ down \subseteq Pools /\ dying \subseteq Pools /\ attempts \subseteq Attempt
    OBVIOUS
  <2>10. queue \in [Priorities -> Seq(Tasks)] /\ breaker \in [Types -> Breaker] /\ task \in [Tasks -> Task]
    BY <2>1, <2>2, <2>3
  <2> HIDE DEF Init
  <2> QED BY <2>5, <2>6, <2>7, <2>8, <2>9, <2>10 DEF TypeOK
<1>2. \A t \in Tasks : ~In(queue, t)
  BY DEF In, Holds, EmptyQueue
<1>3. Once(queue) /\ LowWaits(task, queue)
  BY LowPriority DEF Once, LowWaits, Injective, Holds, EmptyQueue
<1>4. TaskSide(task, queue, attempts)
  BY <1>2, <1>3 DEF TaskSide, KeyOnce, OneTask, NoTask
<1>5. Owned(entries, busy, idleTimer, attempts) /\ InTime(attempts)
  BY DEF Owned, InTime
<1>6. Bounded(entries, errs, errors)
  <2>1. Cardinality({}) = 0
    BY FS_EmptySet
  <2>2. \A p \in Pools : MaxWorkers[p] \in Nat
    BY BusOK
  <2> QED BY <2>1, <2>2 DEF Bounded
<1>7. WorkSide
  BY <1>2 DEF WorkSide
<1> QED BY <1>1, <1>4, <1>5, <1>6, <1>7 DEF IInv

(* What a step does to the pools' side, when it leaves it alone.           *)
LEMMA StoodStill ==
  ASSUME IInv, UNCHANGED <<entries, busy, idleTimer, errs, errors, attempts>>
  PROVE  /\ Owned(entries', busy', idleTimer', attempts') /\ InTime(attempts')
         /\ Bounded(entries', errs', errors')
BY DEF IInv

LEMMA RegisterPoolStep == ASSUME IInv, NEW p \in Pools, RegisterPool(p) PROVE IInv'
<1> USE DEF RegisterPool, cvars, pvars, tvars
<1>1. pools' \in Seq(Pools)
  BY AppendProperties DEF IInv, TypeOK
<1>2. WorkSide' /\ pumpScheduled' \in BOOLEAN
  BY ScheduledWork
<1>3. TypeOK'
  BY <1>1, <1>2 DEF IInv, TypeOK
<1>4. TaskSide(task', queue', attempts')
  BY DEF IInv
<1> QED BY <1>2, <1>3, <1>4, StoodStill DEF IInv

LEMMA EnqueueStep == ASSUME IInv, NEW t \in Tasks, Enqueue(t) PROVE IInv'
<1> USE DEF Enqueue, cvars, pvars
<1>1. breaker' \in [Types -> Breaker]
  <2>1. breaker[TypeOf[t]] \in Breaker /\ TypeOf[t] \in Types
    BY TypesFold, BusOK
  <2>2. Asked(breaker[TypeOf[t]]) \in Breaker
    BY <2>1, BreakerTypes
  <2> QED BY <2>2, TypesFold
<1>2. CASE /\ queue' = Pushed(queue, t, Priority[t])
           /\ task' = [task EXCEPT ![t].pending = TRUE, ![t].watchdog = TRUE]
           /\ SchedulePump
  <2>1. WorkSide' /\ pumpScheduled' \in BOOLEAN
    BY <1>2, ScheduledWork
  <2>2. PICK tk, q, atts : tk = task /\ q = queue /\ atts = attempts
    OBVIOUS
  <2>3. tk \in TaskMap /\ q \in Queues /\ atts \in SUBSET Attempt /\ TaskSide(tk, q, atts)
    BY <2>2, TypesFold DEF IInv
  <2>4. tk[t] = NoTask /\ ~In(q, t)
    BY <2>2, <2>3 DEF TaskSide, OneTask, Pending
  <2>5. Others(tk, q, atts, t)
    BY <2>3, <2>4 DEF Others, TaskSide
  <2>6. PICK r : r = [NoTask EXCEPT !.pending = TRUE, !.watchdog = TRUE]
    OBVIOUS
  <2>7. r \in Task /\ r.pending /\ ~r.retryTimer /\ r.requeued = 0
    BY <2>6, NoTaskType DEF NoTask, Task
  <2>8. task' = [tk EXCEPT ![t] = r]
    BY <1>2, <2>2, <2>3, <2>4, <2>6 DEF TaskMap
  <2>9. \A a \in atts : a.task = t => a.n <= r.retry /\ (r.active = a.n => a.timedOut)
    BY <2>2
  <2>10. Priority[t] \in Priorities /\ r.requeued < MaxPreemptions
    BY <2>7, NoTaskType, BusOK
  <2>11. PICK p \in Priorities : p = Priority[t]
    BY <2>10
  <2>12. /\ [tk EXCEPT ![t] = r] \in TaskMap /\ Pushed(q, t, p) \in Queues
         /\ TaskSide([tk EXCEPT ![t] = r], Pushed(q, t, p), atts)
    BY <2>3, <2>5, <2>7, <2>9, <2>10, PushKeeps
  <2>13. task' \in TaskMap /\ queue' \in Queues /\ TaskSide(task', queue', attempts')
    BY <1>2, <2>2, <2>8, <2>11, <2>12
  <2>14. TypeOK'
    BY <1>1, <2>1, <2>13 DEF IInv, TypeOK, TaskMap, Queues
  <2> QED BY <2>1, <2>13, <2>14, StoodStill DEF IInv
<1>3. CASE UNCHANGED <<queue, task, pumpScheduled>>
  <2>1. TypeOK'
    BY <1>1, <1>3 DEF IInv, TypeOK
  <2>2. TaskSide(task', queue', attempts')
    BY <1>3 DEF IInv
  <2>3. \A r \in Pools : CanAcquire(r)' => CanAcquire(r)
    BY SamePool
  <2>4. WorkSide'
    BY <1>3, <2>3, WorkKept
  <2> QED BY <2>1, <2>2, <2>4, StoodStill DEF IInv
<1> QED BY <1>2, <1>3

LEMMA CancelStep == ASSUME IInv, NEW t \in Tasks, Cancel(t) PROVE IInv'
<1> USE DEF Cancel, cvars, pvars
<1>1. PICK tk, q, q2, atts : tk = task /\ q = queue /\ q2 = queue' /\ atts = attempts
  OBVIOUS
<1>2. tk \in TaskMap /\ q \in Queues /\ atts \in SUBSET Attempt /\ TaskSide(tk, q, atts)
  BY <1>1, TypesFold DEF IInv
<1>3. Rest(q, q2, Tasks \ {t})
  BY <1>1, <1>2, RemovedTask DEF TaskSide
<1>4. Settled(tk, {t}) \in TaskMap /\ TaskSide(Settled(tk, {t}), q2, atts)
  BY <1>2, <1>3, SettledTasks, SettleKeeps
<1>5. PICK g : g = [a \in atts |-> IF a.task = t /\ Current(a) THEN Aborted(a) ELSE a]
  OBVIOUS
<1>6. attempts' = {g[a] : a \in atts}
  BY <1>1, <1>5
<1>7. ASSUME NEW a \in atts
      PROVE  /\ g[a] \in Attempt /\ g[a].task = a.task /\ g[a].n = a.n /\ g[a].timedOut = a.timedOut
             /\ g[a].pool = a.pool /\ g[a].worker = a.worker /\ a.pool \in Pools
             /\ g[a].stage = "accept" => a.stage = "accept"
  <2>1. a \in Attempt /\ a.pool \in Pools
    BY <1>2 DEF Attempt
  <2>2. CASE a.task = t /\ Current(a)
    <3>1. g[a] = Aborted(a)
      BY <1>5, <2>2
    <3> QED BY <2>1, <3>1, AbortedIs
  <2>3. CASE ~(a.task = t /\ Current(a))
    BY <1>5, <2>1, <2>3
  <2> QED BY <2>2, <2>3
<1>8. attempts' \in SUBSET Attempt
  BY <1>6, <1>7
<1>9. PICK atts2 : atts2 = attempts'
  OBVIOUS
<1>10. Same(atts, atts2)
  BY <1>6, <1>7, <1>9, ImageSame
<1>11. TaskSide(Settled(tk, {t}), q2, atts2)
  BY <1>4, <1>10, SameKeeps
<1>12. task' \in TaskMap /\ queue' \in Queues /\ TaskSide(task', queue', attempts')
  BY <1>1, <1>3, <1>4, <1>9, <1>11 DEF Rest
<1>13. PICK en, bu, idle : en = entries /\ bu = busy /\ idle = idleTimer
  OBVIOUS
<1>14. Owned(en, bu, idle, atts)
  BY <1>1, <1>13 DEF IInv
<1>15. Owned(en, bu, idle, atts2)
  <2>1. \A p \in Pools : bu[p] \subseteq en[p] \ idle[p] /\ idle[p] \subseteq en[p]
    BY <1>14 DEF Owned
  <2>2. \A a \in atts : a.pool \in Pools /\ g[a].pool = a.pool /\ g[a].worker \in {a.worker, None}
    BY <1>7
  <2>3. \A a \in atts : g[a].worker # None => a.worker \in bu[a.pool]
    BY <1>7, <1>14 DEF Owned
  <2>4. \A p \in Pools : \A w \in bu[p] : w \in bu[p] /\ \A a \in atts : a.pool = p /\ a.worker = w => g[a].worker = w
    BY <1>7
  <2>5. atts2 = {g[a] : a \in atts}
    BY <1>6, <1>9
  <2> QED BY <1>14, <2>1, <2>2, <2>3, <2>4, <2>5, OwnedImage
<1>16. Owned(entries', busy', idleTimer', attempts')
  BY <1>9, <1>13, <1>15
<1>17. InTime(attempts')
  BY <1>1, <1>6, <1>7 DEF IInv, InTime
<1>18. Bounded(entries', errs', errors')
  BY DEF IInv
<1>19. WorkSide'
  <2>1. \A r \in Pools : CanAcquire(r)' => CanAcquire(r)
    BY SamePool
  <2>2. \A u \in Tasks : In(queue', u) => In(queue, u)
    BY <1>1, <1>3 DEF Rest
  <2> QED BY <2>1, <2>2, WorkKept
<1>20. TypeOK'
  BY <1>8, <1>12 DEF IInv, TypeOK, TaskMap, Queues
<1> QED BY <1>12, <1>16, <1>17, <1>18, <1>19, <1>20 DEF IInv

LEMMA StopAllTypes ==
  ASSUME IInv, NEW S \in SUBSET Tasks, NEW P \in SUBSET Pools, StopAll(S, P),
         running' \in BOOLEAN, pools' \in Seq(Pools), closing' \in Seq(Pools), dying' \subseteq down \cup P,
         UNCHANGED <<breaker, pumpScheduled, pumping, faults, errors>>,
         WorkSide'
  PROVE  IInv'
<1>1. /\ entries' \in Members /\ busy' \in Members /\ idleTimer' \in Members /\ errs' \in Events
      /\ queue' \in Queues /\ task' \in TaskMap /\ attempts' \in SUBSET Attempt
      /\ down' = down \cup P
      /\ TaskSide(task', queue', attempts') /\ Owned(entries', busy', idleTimer', attempts')
      /\ InTime(attempts') /\ Bounded(entries', errs', errors)
  BY StopAllKeeps
<1>2. down' \subseteq Pools /\ dying' \subseteq down'
  BY <1>1 DEF IInv, TypeOK
<1>3. TypeOK'
  BY <1>1, <1>2 DEF IInv, TypeOK, Members, Events, Queues, TaskMap
<1> QED BY <1>1, <1>2, <1>3 DEF IInv

LEMMA TerminatePoolStep == ASSUME IInv, NEW p \in Pools, TerminatePool(p) PROVE IInv'
<1> USE DEF TerminatePool
<1>1. PICK S \in SUBSET Tasks : StopAll(S, {p})
  <2>1. PICK S : S = {t \in Tasks : Pending(t) /\ (PoolFor(t) = p
                        \/ \E a \in attempts : a.task = t /\ Current(a) /\ a.pool = p)}
    OBVIOUS
  <2> QED BY <2>1
<1>2. /\ \A t \in Tasks : In(queue', t) => In(queue, t)
      /\ \A r \in Pools : CanAcquire(r)' => CanAcquire(r)
  BY <1>1, StopAllKeeps
<1>3. WorkSide'
  BY <1>2, WorkKept
<1> QED BY <1>1, <1>3, StopAllTypes DEF IInv, TypeOK

LEMMA TerminatePoolEndStep == ASSUME IInv, NEW p \in Pools, TerminatePoolEnd(p) PROVE IInv'
<1> USE DEF TerminatePoolEnd, pvars, tvars
<1>1. pools' \in Seq(Pools)
  <2>1. PICK s : s = pools
    OBVIOUS
  <2>2. s \in Seq(Pools)
    BY <2>1 DEF IInv, TypeOK
  <2>3. Only(s, Pools \ {p}) \in Seq(Pools)
    BY <2>2, OnlyList
  <2> QED BY <2>1, <2>3
<1>2. WorkSide' /\ pumpScheduled' \in BOOLEAN
  BY ScheduledWork
<1>3. TypeOK'
  BY <1>1, <1>2 DEF IInv, TypeOK
<1>4. TaskSide(task', queue', attempts') /\ dying' \subseteq down'
  BY DEF IInv
<1> QED BY <1>2, <1>3, <1>4, StoodStill DEF IInv

LEMMA FirstPool ==
  ASSUME NEW s \in Seq(Pools)
  PROVE  /\ {s[i] : i \in DOMAIN s \cap {1}} \in SUBSET Pools
         /\ SubSeq(s, 2, Len(s)) \in Seq(Pools)
<1>1. \A i \in DOMAIN s : s[i] \in Pools
  BY ElementOfSeq
<1>2. Len(s) \in Int /\ 2 \in Int /\ \A i \in 2..Len(s) : s[i] \in Pools
  BY <1>1
<1> QED BY <1>1, <1>2, SubSeqProperties

LEMMA ShutdownStep == ASSUME IInv, Shutdown PROVE IInv'
<1> USE DEF Shutdown
<1>1. {pools[i] : i \in DOMAIN pools \cap {1}} \in SUBSET Pools /\ closing' \in Seq(Pools)
  <2>1. PICK s : s = pools
    OBVIOUS
  <2>2. s \in Seq(Pools)
    BY <2>1 DEF IInv, TypeOK
  <2>3. {s[i] : i \in DOMAIN s \cap {1}} \in SUBSET Pools /\ SubSeq(s, 2, Len(s)) \in Seq(Pools)
    BY <2>2, FirstPool
  <2> QED BY <2>1, <2>3
<1>2. PICK P \in SUBSET Pools : P = {pools[i] : i \in DOMAIN pools \cap {1}}
  BY <1>1
<1>3. PICK S \in SUBSET Tasks : S = {t \in Tasks : Pending(t)}
  OBVIOUS
<1>4. StopAll(S, P)
  BY <1>2, <1>3
<1>5. WorkSide'
  BY DEF WorkSide
<1> QED BY <1>1, <1>4, <1>5, StopAllTypes DEF IInv, TypeOK

LEMMA ShutdownNextStep == ASSUME IInv, ShutdownNext PROVE IInv'
<1> USE DEF ShutdownNext
<1>1. {closing[i] : i \in DOMAIN closing \cap {1}} \in SUBSET Pools /\ closing' \in Seq(Pools)
  <2>1. PICK s : s = closing
    OBVIOUS
  <2>2. s \in Seq(Pools)
    BY <2>1 DEF IInv, TypeOK
  <2>3. {s[i] : i \in DOMAIN s \cap {1}} \in SUBSET Pools /\ SubSeq(s, 2, Len(s)) \in Seq(Pools)
    BY <2>2, FirstPool
  <2> QED BY <2>1, <2>3
<1>2. PICK P \in SUBSET Pools : P = {closing[i] : i \in DOMAIN closing \cap {1}}
  BY <1>1
<1>3. StopAll({}, P)
  BY <1>2
<1>4. WorkSide'
  BY DEF WorkSide
<1>5. pools' \in Seq(Pools)
  BY DEF IInv, TypeOK
<1> QED BY <1>1, <1>3, <1>4, <1>5, StopAllTypes DEF IInv, TypeOK

LEMMA WorkerLostStep == ASSUME IInv, NEW p \in Pools, NEW w \in Workers, WorkerLost(p, w) PROVE IInv'
<1> USE DEF WorkerLost, cvars
<1>1. PICK atts, ev : atts = attempts /\ ev = errs
  OBVIOUS
<1>2. /\ atts \in SUBSET Attempt /\ ev \in Events /\ Restart(p, w, atts, ev)
      /\ Owned(entries, busy, idleTimer, atts) /\ w \in entries[p] /\ entries \in Members
  BY <1>1, TypesFold DEF IInv
<1>3. \E v \in Workers : v \notin entries[p] \ {w}
  OBVIOUS
<1>4. /\ entries' \in Members /\ busy' \in Members /\ idleTimer' \in Members /\ errs' \in Events
      /\ attempts' \in SUBSET Attempt /\ pumpScheduled' \in BOOLEAN /\ faults' \in 0..MaxFaults
      /\ Owned(entries', busy', idleTimer', attempts')
      /\ (\A a \in atts : (a.timedOut \/ a.stage = "accept") => (a.worker = None \/ (a.pool = p /\ a.worker = w)))
           => InTime(attempts')
      /\ Same(atts, attempts')
      /\ faults' = 0 => faults = 0
      /\ pumpScheduled => pumpScheduled'
      /\ down' = down /\ running /\ ~pumpScheduled' /\ faults' = 0 =>
           \A r \in Pools : InPools(r) /\ CanAcquire(r)' => CanAcquire(r)
  BY <1>2, <1>3, RestartKeeps
<1>5. InTime(attempts')
  BY <1>1, <1>4 DEF IInv, InTime
<1>6. TaskSide(task', queue', attempts')
  <2>1. PICK tk, q, atts2 : tk = task /\ q = queue /\ atts2 = attempts'
    OBVIOUS
  <2>2. TaskSide(tk, q, atts) /\ Same(atts, atts2)
    BY <1>1, <1>4, <2>1 DEF IInv
  <2>3. TaskSide(tk, q, atts2)
    BY <2>2, SameKeeps
  <2> QED BY <2>1, <2>3
<1>7. Bounded(entries', errs', errors')
  <2>1. errs' = Outlived(ev, p, w) /\ (\/ entries' = [entries EXCEPT ![p] = (entries[p] \ {w}) \cup {Fresh(entries[p] \ {w})}]
                                      \/ entries' = [entries EXCEPT ![p] = entries[p] \ {w}])
    BY <1>2 DEF Restart
  <2>2. PICK en, en2, m : en = entries /\ en2 = entries' /\ m = errors
    OBVIOUS
  <2>3. en \in Members /\ m \in Nat /\ Bounded(en, ev, m)
    BY <1>1, <2>2, TypesFold DEF IInv
  <2>4. Bounded(en2, Outlived(ev, p, w), m)
    BY <1>2, <1>3, <2>1, <2>2, <2>3, LostBounds
  <2> QED BY <2>1, <2>2, <2>4
<1>8. WorkSide'
  BY <1>4, WorkKept
<1>9. TypeOK'
  BY <1>4 DEF IInv, TypeOK, Members, Events
<1> QED BY <1>4, <1>5, <1>6, <1>7, <1>8, <1>9 DEF IInv

LEMMA ErrorEventStep == ASSUME IInv, NEW p \in Pools, ErrorEvent(p) PROVE IInv'
<1> USE DEF ErrorEvent, cvars
<1>1. PICK atts, ev, w : atts = attempts /\ ev = [errs EXCEPT ![p] = Tail(@)] /\ w = Head(errs[p])
  OBVIOUS
<1>2. PICK s, l : s = errs[p] /\ l = Tail(s)
  OBVIOUS
<1>3. s \in Seq(Workers \cup {None}) /\ s # <<>>
  BY <1>2, TypesFold DEF Events
<1>4. /\ l \in Seq(Workers \cup {None}) /\ Len(l) = Len(s) - 1 /\ \A i \in 1..Len(l) : l[i] = s[i + 1]
      /\ w \in Workers \cup {None} /\ w = s[1] /\ Len(s) \in Nat \ {0} /\ DOMAIN s = 1..Len(s)
      /\ DOMAIN l = 1..Len(l)
  BY <1>1, <1>2, <1>3, HeadTailProperties
<1>5. ev \in Events /\ ev[p] = l /\ \A r \in Pools \ {p} : ev[r] = errs[r]
  BY <1>1, <1>2, <1>4, TypesFold DEF Events
<1>6. /\ atts \in SUBSET Attempt /\ Restart(p, w, atts, ev) /\ entries \in Members
      /\ Owned(entries, busy, idleTimer, atts)
  BY <1>1, TypesFold DEF IInv
<1>7. PICK en, m : en = entries /\ m = errors
  OBVIOUS
<1>8. en \in Members /\ m \in 0..MaxErrors /\ Bounded(en, errs, m) /\ MaxErrors \in Nat /\ MaxWorkers[p] \in Nat
  BY <1>7, TypesFold, BusOK DEF IInv
<1>9. /\ Len(s) <= m /\ Cardinality(en[p]) + Len(s) <= MaxWorkers[p] + m
      /\ \A i \in DOMAIN s : s[i] \in en[p] \cup {None}
  BY <1>2, <1>8 DEF Bounded
<1>10. en[p] \in SUBSET Workers /\ Cardinality(en[p]) \in Nat /\ Cardinality(Workers) \in Nat
       /\ (Cardinality(en[p]) < Cardinality(Workers) => \E v \in Workers : v \notin en[p])
  <2>1. en[p] \in SUBSET Workers
    BY <1>8 DEF Members
  <2> QED BY <2>1, Sizes
<1>11. \E v \in Workers : v \notin entries[p] \ {w}
  <2>1. Cardinality(Workers) >= MaxWorkers[p] + MaxErrors
    BY BusOK
  <2>2. Cardinality(en[p]) < Cardinality(Workers)
    BY <1>4, <1>8, <1>9, <1>10, <2>1
  <2> QED BY <1>7, <1>10, <2>2
<1>12. Bounded(en, ev, m)
  <2>1. \A i \in DOMAIN l : l[i] \in en[p] \cup {None}
    BY <1>4, <1>9
  <2>2. Len(l) <= m /\ Cardinality(en[p]) + Len(l) <= MaxWorkers[p] + m
    BY <1>4, <1>8, <1>9, <1>10
  <2> QED BY <1>5, <1>8, <2>1, <2>2 DEF Bounded
<1>13. Cardinality(en[p]) + Len(ev[p]) + 1 <= MaxWorkers[p] + m
  BY <1>4, <1>5, <1>8, <1>9, <1>10
<1>14. /\ entries' \in Members /\ busy' \in Members /\ idleTimer' \in Members /\ errs' \in Events
       /\ attempts' \in SUBSET Attempt /\ pumpScheduled' \in BOOLEAN /\ faults' \in 0..MaxFaults
       /\ Owned(entries', busy', idleTimer', attempts')
       /\ (\A a \in atts : (a.timedOut \/ a.stage = "accept") => (a.worker = None \/ (a.pool = p /\ a.worker = w)))
            => InTime(attempts')
       /\ Same(atts, attempts')
       /\ faults' = 0 => faults = 0
       /\ pumpScheduled => pumpScheduled'
       /\ down' = down /\ running /\ ~pumpScheduled' /\ faults' = 0 =>
            \A r \in Pools : InPools(r) /\ CanAcquire(r)' => CanAcquire(r)
  BY <1>5, <1>6, <1>11, RestartKeeps
<1>15. InTime(attempts')
  BY <1>1, <1>14 DEF IInv, InTime
<1>16. TaskSide(task', queue', attempts')
  <2>1. PICK tk, q, atts2 : tk = task /\ q = queue /\ atts2 = attempts'
    OBVIOUS
  <2>2. TaskSide(tk, q, atts) /\ Same(atts, atts2)
    BY <1>1, <1>14, <2>1 DEF IInv
  <2>3. TaskSide(tk, q, atts2)
    BY <2>2, SameKeeps
  <2> QED BY <2>1, <2>3
<1>17. Bounded(entries', errs', errors')
  <2>1. errs' = Outlived(ev, p, w) /\ (\/ entries' = [entries EXCEPT ![p] = (entries[p] \ {w}) \cup {Fresh(entries[p] \ {w})}]
                                      \/ entries' = [entries EXCEPT ![p] = entries[p] \ {w}])
    BY <1>6 DEF Restart
  <2>2. PICK en2 : en2 = entries'
    OBVIOUS
  <2>3. Bounded(en2, Outlived(ev, p, w), m)
    <3>1. m \in Nat
      BY <1>8
    <3> QED BY <1>5, <1>7, <1>8, <1>11, <1>12, <1>13, <2>1, <2>2, <3>1, LostBounds
  <2> QED BY <1>7, <2>1, <2>2, <2>3
<1>18. WorkSide'
  BY <1>14, WorkKept
<1>19. TypeOK'
  BY <1>14 DEF IInv, TypeOK, Members, Events
<1> QED BY <1>14, <1>15, <1>16, <1>17, <1>18, <1>19 DEF IInv

LEMMA ThrowStep == ASSUME IInv, NEW p \in Pools, NEW w \in Workers, Throw(p, w) PROVE IInv'
<1> USE DEF Throw, cvars, pvars, tvars
<1>1. PICK s, l, m : s = errs[p] /\ l = Append(s, w) /\ m = errors
  OBVIOUS
<1>2. s \in Seq(Workers \cup {None}) /\ m \in 0..MaxErrors /\ MaxErrors \in Nat /\ m < MaxErrors
  BY <1>1, TypesFold, BusOK DEF Events
<1>3. /\ l \in Seq(Workers \cup {None}) /\ Len(l) = Len(s) + 1 /\ Len(s) \in Nat /\ DOMAIN s = 1..Len(s)
      /\ DOMAIN l = 1..Len(l) /\ l[Len(s) + 1] = w /\ \A i \in 1..Len(s) : l[i] = s[i]
  BY <1>1, <1>2, AppendProperties
<1>4. errs' \in Events /\ errs'[p] = l /\ \A r \in Pools \ {p} : errs'[r] = errs[r]
  BY <1>1, <1>3, TypesFold DEF Events
<1>5. errors' = m + 1 /\ errors' \in 0..MaxErrors
  BY <1>1, <1>2
<1>6. ASSUME NEW r \in Pools
      PROVE  /\ \A i \in DOMAIN errs'[r] : errs'[r][i] \in entries[r] \cup {None}
             /\ Len(errs'[r]) <= m + 1 /\ Cardinality(entries[r]) + Len(errs'[r]) <= MaxWorkers[r] + (m + 1)
  <2>1. /\ \A i \in DOMAIN errs[r] : errs[r][i] \in entries[r] \cup {None}
        /\ Len(errs[r]) <= m /\ Cardinality(entries[r]) + Len(errs[r]) <= MaxWorkers[r] + m
    BY <1>1 DEF IInv, Bounded
  <2>2. Len(errs[r]) \in Nat /\ MaxWorkers[r] \in Nat /\ m \in Nat
    BY <1>2, TypesFold, BusOK DEF Events
  <2>3. Cardinality(entries[r]) \in Nat
    <3>1. entries[r] \in SUBSET Workers
      BY TypesFold DEF Members
    <3> QED BY <3>1, Sizes
  <2>4. CASE r = p
    <3>1. \A i \in DOMAIN l : l[i] \in entries[p] \cup {None}
      BY <1>1, <1>3, <2>1, <2>4
    <3> QED BY <1>1, <1>3, <1>4, <2>1, <2>2, <2>3, <2>4, <3>1
  <2>5. CASE r # p
    BY <1>4, <2>1, <2>2, <2>3, <2>5
  <2> QED BY <2>4, <2>5
<1>7. Bounded(entries', errs', errors')
  BY <1>5, <1>6 DEF Bounded
<1>8. Owned(entries', busy', idleTimer', attempts') /\ InTime(attempts') /\ TaskSide(task', queue', attempts')
  BY DEF IInv
<1>9. WorkSide'
  <2>1. \A r \in Pools : CanAcquire(r)' => CanAcquire(r)
    BY SamePool
  <2> QED BY <2>1, WorkKept
<1>10. TypeOK'
  BY <1>4, <1>5 DEF IInv, TypeOK, Events
<1> QED BY <1>7, <1>8, <1>9, <1>10 DEF IInv

LEMMA IdleTimeoutStep == ASSUME IInv, NEW p \in Pools, NEW w \in Workers, IdleTimeout(p, w) PROVE IInv'
<1> USE DEF IdleTimeout, cvars, tvars
<1>1. /\ entries \in Members /\ busy \in Members /\ idleTimer \in Members /\ errs \in Events
      /\ Owned(entries, busy, idleTimer, attempts)
  BY TypesFold DEF IInv
<1>2. w \in idleTimer[p] /\ w \in entries[p] /\ w \notin busy[p]
  BY <1>1 DEF Owned
<1>3. idleTimer' \in Members /\ idleTimer'[p] = idleTimer[p] \ {w} /\ \A r \in Pools \ {p} : idleTimer'[r] = idleTimer[r]
  BY <1>1 DEF Members
<1>4. \/ entries' = [entries EXCEPT ![p] = entries[p] \ {w}] /\ errs' = Outlived(errs, p, w)
      \/ entries' = entries /\ errs' = errs
  OBVIOUS
<1>5. /\ entries' \in Members /\ errs' \in Events /\ entries'[p] \subseteq entries[p]
      /\ entries[p] \ {w} \subseteq entries'[p] /\ \A r \in Pools \ {p} : entries'[r] = entries[r]
  <2>1. PICK ev : ev = errs
    OBVIOUS
  <2>2. Outlived(ev, p, w) \in Events
    BY <1>1, <2>1, OutlivedEvents
  <2> QED BY <1>1, <1>4, <2>1, <2>2 DEF Members
<1>6. Owned(entries', busy', idleTimer', attempts')
  <2>1. ASSUME NEW r \in Pools
        PROVE  busy[r] \subseteq entries'[r] \ idleTimer'[r] /\ idleTimer'[r] \subseteq entries'[r]
    BY <1>1, <1>2, <1>3, <1>5 DEF Owned
  <2> QED BY <1>1, <2>1 DEF Owned
<1>7. Bounded(entries', errs', errors')
  <2>1. PICK en, en2, ev, m : en = entries /\ en2 = entries' /\ ev = errs /\ m = errors
    OBVIOUS
  <2>2. en \in Members /\ ev \in Events /\ m \in Nat /\ Bounded(en, ev, m) /\ w \in en[p]
    BY <1>2, <2>1, TypesFold DEF IInv
  <2>3. CASE en2 = [en EXCEPT ![p] = en[p] \ {w}] /\ errs' = Outlived(ev, p, w)
    <3>1. Bounded(en2, Outlived(ev, p, w), m)
      BY <2>2, <2>3, LostBounds
    <3> QED BY <2>1, <2>3, <3>1
  <2>4. CASE entries' = entries /\ errs' = errs
    BY <2>4 DEF IInv
  <2> QED BY <1>4, <2>1, <2>3, <2>4
<1>8. ASSUME NEW r \in Pools, CanAcquire(r)' PROVE CanAcquire(r)
  <2>1. CASE r = p
    <3>1. Idle(p) # {}
      BY <1>2 DEF Idle
    <3> QED BY <1>8, <2>1, <3>1 DEF CanAcquire
  <2>2. CASE r # p
    BY <1>5, <1>8, <2>2, SamePool
  <2> QED BY <2>1, <2>2
<1>9. WorkSide'
  BY <1>8, WorkKept
<1>10. TypeOK'
  BY <1>3, <1>5 DEF IInv, TypeOK, Members, Events
<1>11. InTime(attempts') /\ TaskSide(task', queue', attempts')
  BY DEF IInv
<1> QED BY <1>6, <1>7, <1>9, <1>10, <1>11 DEF IInv

LEMMA PumpStartStep == ASSUME IInv, PumpStart PROVE IInv'
<1> USE DEF PumpStart, cvars, pvars, tvars
<1>1. TypeOK'
  BY DEF IInv, TypeOK
<1>2. TaskSide(task', queue', attempts')
  BY DEF IInv
<1>3. WorkSide'
  BY DEF WorkSide
<1> QED BY <1>1, <1>2, <1>3, StoodStill DEF IInv

LEMMA PumpEndStep == ASSUME IInv, PumpEnd PROVE IInv'
<1> USE DEF PumpEnd, cvars, pvars, tvars
<1>1. TypeOK'
  BY DEF IInv, TypeOK
<1>2. TaskSide(task', queue', attempts')
  BY DEF IInv
<1>3. ASSUME running, NEW t \in Tasks, In(queue, t) PROVE ~Selectable(t)
  <2>1. PICK q : q = queue
    OBVIOUS
  <2>2. \E pl \in Places(q) : At(q, pl) = t
    <3>1. q \in Queues
      BY <2>1, TypesFold
    <3> QED BY <1>3, <2>1, <3>1, PlacesAre
  <2> QED BY <1>3, <2>1, <2>2
<1>4. \A t \in Tasks : Selectable(t)' <=> Selectable(t)
  BY DEF Selectable, PoolFor, CanAcquire, Idle
<1>5. WorkSide'
  BY <1>3, <1>4 DEF WorkSide
<1> QED BY <1>1, <1>2, <1>5, StoodStill DEF IInv

LEMMA BreakerStep ==
  ASSUME IInv, breaker' \in [Types -> Breaker],
         UNCHANGED <<cvars, pvars, queue, task, attempts, errs, pumpScheduled, pumping, faults, errors>>
  PROVE  IInv'
<1> USE DEF cvars, pvars
<1>1. TypeOK'
  BY DEF IInv, TypeOK
<1>2. TaskSide(task', queue', attempts')
  BY DEF IInv
<1>3. \A r \in Pools : CanAcquire(r)' => CanAcquire(r)
  BY SamePool
<1>4. WorkSide'
  BY <1>3, WorkKept
<1> QED BY <1>1, <1>2, <1>4, StoodStill DEF IInv

LEMMA CoolStep == ASSUME IInv, NEW y \in Types, Cool(y) PROVE IInv'
<1>1. breaker' \in [Types -> Breaker]
  BY TypesFold DEF Cool, Breaker
<1> QED BY <1>1, BreakerStep DEF Cool

LEMMA TelemetryStep == ASSUME IInv, GetTelemetry PROVE IInv'
<1>1. breaker' \in [Types -> Breaker]
  BY TypesFold, BreakerTypes DEF GetTelemetry
<1> QED BY <1>1, BreakerStep DEF GetTelemetry

(* Attempts whose workers stay the same.                                   *)
LEMMA KeptImage ==
  ASSUME NEW en, NEW bu, NEW idle, NEW atts, Owned(en, bu, idle, atts),
         NEW g, NEW atts2, atts2 = {g[a] : a \in atts},
         \A a \in atts : a.pool \in Pools /\ g[a].pool = a.pool /\ g[a].worker = a.worker
  PROVE  Owned(en, bu, idle, atts2)
<1>1. \A p \in Pools : bu[p] \subseteq en[p] \ idle[p] /\ idle[p] \subseteq en[p]
  BY DEF Owned
<1>2. \A a \in atts : a.pool \in Pools /\ g[a].pool = a.pool /\ g[a].worker \in {a.worker, None}
  OBVIOUS
<1>3. \A a \in atts : g[a].worker # None => a.worker \in bu[a.pool]
  BY DEF Owned
<1>4. \A p \in Pools : \A w \in bu[p] :
         w \in bu[p] /\ \A a \in atts : a.pool = p /\ a.worker = w => g[a].worker = w
  OBVIOUS
<1> QED BY <1>1, <1>2, <1>3, <1>4, OwnedImage

(* An attempt ends, and the pump is scheduled.                             *)
LEMMA AcceptRest ==
  ASSUME IInv, NEW a \in attempts, Accept(a), breaker' \in [Types -> Breaker],
         task' \in TaskMap, queue' \in Queues, TaskSide(task', queue', attempts')
  PROVE  IInv'
<1> USE DEF Accept, cvars, pvars
<1>1. WorkSide' /\ pumpScheduled' \in BOOLEAN
  BY ScheduledWork
<1>2. a.worker = None
  BY DEF IInv, InTime
<1>3. Owned(entries', busy', idleTimer', attempts')
  <2>1. PICK en, bu, idle, atts, atts2 : /\ en = entries /\ bu = busy /\ idle = idleTimer
                                         /\ atts = attempts /\ atts2 = attempts'
    OBVIOUS
  <2>2. Owned(en, bu, idle, atts) /\ atts2 = atts \ {a} /\ bu \in Members /\ None \notin Workers
    BY <2>1, TypesFold DEF IInv
  <2>3. Owned(en, bu, idle, atts2)
    BY <1>2, <2>2, OwnedAlone
  <2> QED BY <2>1, <2>3
<1>4. InTime(attempts') /\ Bounded(entries', errs', errors')
  BY DEF IInv, InTime
<1>5. TypeOK'
  BY <1>1 DEF IInv, TypeOK, TaskMap, Queues
<1> QED BY <1>1, <1>3, <1>4, <1>5 DEF IInv

(* handleAttemptResult for a failure, as Failing.                          *)
LEMMA FailAttemptIs ==
  ASSUME IInv, NEW t \in Tasks, NEW rec, NEW tk, NEW q, FailAttempt(t, rec, tk, q)
  PROVE  breaker' \in [Types -> Breaker] /\ Failing(tk, q, t, task', queue')
<1>1. breaker[TypeOf[t]] \in Breaker
  BY TypesFold, BusOK
<1>2. PICK b \in Failed(breaker[TypeOf[t]]) : breaker' = [breaker EXCEPT ![TypeOf[t]] = b]
  BY DEF FailAttempt
<1>3. b \in Breaker
  BY <1>1, <1>2, BreakerTypes
<1>4. breaker' \in [Types -> Breaker]
  BY <1>2, <1>3, TypesFold
<1> QED BY <1>4 DEF FailAttempt, Failing

(* One attempt is replaced by another.                                     *)
LEMMA Replaced ==
  ASSUME NEW atts, NEW a \in atts, NEW b, NEW g, g = [x \in atts |-> IF x = a THEN b ELSE x]
  PROVE  /\ (atts \ {a}) \cup {b} = {g[x] : x \in atts}
         /\ g[a] = b /\ \A x \in atts : x # a => g[x] = x
OBVIOUS

LEMMA WorkerResultStep ==
  ASSUME IInv, NEW a \in attempts, NEW r \in {"ok", "failed"}, WorkerResult(a, r)
  PROVE  IInv'
<1> USE DEF WorkerResult, cvars, pvars
<1>1. PICK b, atts, atts2 : b = [a EXCEPT !.res = r, !.stage = "result"] /\ atts = attempts /\ atts2 = attempts'
  OBVIOUS
<1>2. PICK g : g = [x \in atts |-> IF x = a THEN b ELSE x]
  OBVIOUS
<1>3. atts \in SUBSET Attempt /\ a \in atts
  BY <1>1, TypesFold
<1>4. /\ b \in Attempt /\ b.task = a.task /\ b.n = a.n /\ b.worker = a.worker /\ b.pool = a.pool
      /\ b.timedOut = a.timedOut /\ b.stage = "result"
  <2>1. a \in Attempt
    BY <1>3
  <2> QED BY <1>1, <2>1 DEF Attempt
<1>5. atts2 = {g[x] : x \in atts} /\ g[a] = b /\ \A x \in atts : x # a => g[x] = x
  <2>1. atts2 = (atts \ {a}) \cup {b}
    BY <1>1
  <2> QED BY <1>2, <1>3, <2>1, Replaced
<1>6. ASSUME NEW x \in atts
      PROVE  /\ g[x].task = x.task /\ g[x].n = x.n /\ g[x].timedOut = x.timedOut
             /\ g[x].pool = x.pool /\ g[x].worker = x.worker /\ x.pool \in Pools /\ g[x] \in Attempt
             /\ g[x].stage = "accept" => x.stage = "accept"
  <2>1. x.pool \in Pools /\ x \in Attempt
    BY <1>3 DEF Attempt
  <2>2. CASE x = a
    BY <1>4, <1>5, <2>1, <2>2
  <2>3. CASE x # a
    BY <1>5, <2>1, <2>3
  <2> QED BY <2>2, <2>3
<1>7. Same(atts, atts2)
  BY <1>5, <1>6, ImageSame
<1>8. TaskSide(task', queue', attempts')
  <2>1. PICK tk, q : tk = task /\ q = queue
    OBVIOUS
  <2>2. TaskSide(tk, q, atts)
    BY <1>1, <2>1 DEF IInv
  <2>3. TaskSide(tk, q, atts2)
    BY <1>7, <2>2, SameKeeps
  <2> QED BY <1>1, <2>1, <2>3
<1>9. Owned(entries', busy', idleTimer', attempts')
  <2>1. PICK en, bu, idle : en = entries /\ bu = busy /\ idle = idleTimer
    OBVIOUS
  <2>2. Owned(en, bu, idle, atts)
    BY <1>1, <2>1 DEF IInv
  <2>3. Owned(en, bu, idle, atts2)
    BY <1>5, <1>6, <2>2, KeptImage
  <2> QED BY <1>1, <2>1, <2>3
<1>10. InTime(attempts')
  BY <1>1, <1>5, <1>6 DEF IInv, InTime
<1>11. Bounded(entries', errs', errors')
  BY DEF IInv
<1>12. WorkSide'
  <2>1. \A p \in Pools : CanAcquire(p)' => CanAcquire(p)
    BY SamePool
  <2> QED BY <2>1, WorkKept
<1>13. TypeOK'
  <2>1. attempts' \subseteq Attempt
    BY <1>1, <1>5, <1>6
  <2> QED BY <2>1 DEF IInv, TypeOK
<1> QED BY <1>8, <1>9, <1>10, <1>11, <1>12, <1>13 DEF IInv

LEMMA ReleaseStep == ASSUME IInv, NEW a \in attempts, Release(a) PROVE IInv'
<1> USE DEF Release, cvars
<1>1. PICK b, atts, atts2 : b = [a EXCEPT !.stage = "accept", !.worker = None] /\ atts = attempts /\ atts2 = attempts'
  OBVIOUS
<1>2. PICK g : g = [x \in atts |-> IF x = a THEN b ELSE x]
  OBVIOUS
<1>3. atts \in SUBSET Attempt /\ a \in atts /\ a \in Attempt /\ a.pool \in Pools /\ a.worker \in Workers \cup {None}
  BY <1>1, TypesFold DEF Attempt
<1>4. /\ b \in Attempt /\ b.task = a.task /\ b.n = a.n /\ b.worker = None /\ b.pool = a.pool
      /\ b.timedOut = a.timedOut /\ b.stage = "accept"
  BY <1>1, <1>3 DEF Attempt
<1>5. atts2 = {g[x] : x \in atts} /\ g[a] = b /\ \A x \in atts : x # a => g[x] = x
  <2>1. atts2 = (atts \ {a}) \cup {b}
    BY <1>1
  <2> QED BY <1>2, <1>3, <2>1, Replaced
<1>6. ASSUME NEW x \in atts
      PROVE  /\ g[x].task = x.task /\ g[x].n = x.n /\ g[x].timedOut = x.timedOut
             /\ g[x].pool = x.pool /\ x.pool \in Pools /\ g[x] \in Attempt
  <2>1. x.pool \in Pools /\ x \in Attempt
    BY <1>3 DEF Attempt
  <2>2. CASE x = a
    BY <1>4, <1>5, <2>1, <2>2
  <2>3. CASE x # a
    BY <1>5, <2>1, <2>3
  <2> QED BY <2>2, <2>3
<1>7. Same(atts, atts2)
  BY <1>5, <1>6, ImageSame
<1>8. TaskSide(task', queue', attempts')
  <2>1. PICK tk, q : tk = task /\ q = queue
    OBVIOUS
  <2>2. TaskSide(tk, q, atts)
    BY <1>1, <2>1 DEF IInv
  <2>3. TaskSide(tk, q, atts2)
    BY <1>7, <2>2, SameKeeps
  <2> QED BY <1>1, <2>1, <2>3
<1>9. InTime(attempts')
  BY <1>1, <1>4, <1>5 DEF IInv, InTime
<1>10. Bounded(entries', errs', errors')
  BY DEF IInv
<1>11. attempts' \subseteq Attempt
  BY <1>1, <1>5, <1>6
<1>12. /\ entries \in Members /\ busy \in Members /\ idleTimer \in Members
       /\ Owned(entries, busy, idleTimer, atts)
  BY <1>1, TypesFold DEF IInv
<1>13. \A x \in atts : x.worker # None => x.worker \in busy[x.pool] /\ x.worker \in entries[x.pool]
  <2> SUFFICES ASSUME NEW x \in atts, x.worker # None
               PROVE  x.worker \in busy[x.pool] /\ x.worker \in entries[x.pool]
    OBVIOUS
  <2>1. x.pool \in Pools
    BY <1>6
  <2> QED BY <1>12, <2>1 DEF Owned
<1>14. \A x \in atts : x.worker # None /\ x.worker = a.worker /\ x.pool = a.pool => x = a
  BY <1>3, <1>12 DEF Owned
<1>15. CASE /\ a.worker \in entries[a.pool] /\ Notify(a.pool)
            /\ busy' = [busy EXCEPT ![a.pool] = @ \ {a.worker}]
            /\ idleTimer' = [idleTimer EXCEPT ![a.pool] = @ \cup {a.worker}]
  <2>1. PICK p, w : p = a.pool /\ w = a.worker
    OBVIOUS
  <2>2. w \in entries[p] /\ p \in Pools /\ w \in Workers
    BY <1>3, <1>12, <1>15, <2>1 DEF Members
  <2>3. /\ busy' \in Members /\ idleTimer' \in Members
        /\ busy'[p] = busy[p] \ {w} /\ idleTimer'[p] = idleTimer[p] \cup {w}
        /\ \A r \in Pools \ {p} : busy'[r] = busy[r] /\ idleTimer'[r] = idleTimer[r]
    BY <1>12, <1>15, <2>1, <2>2 DEF Members
  <2>4. Owned(entries', busy', idleTimer', attempts')
    <3>1. PICK en, bu, idle, bu2, idle2 : en = entries /\ bu = busy /\ idle = idleTimer /\ bu2 = busy' /\ idle2 = idleTimer'
      OBVIOUS
    <3>2. Owned(en, bu, idle, atts)
      BY <1>12, <3>1
    <3>3. \A x \in atts : x.pool \in Pools /\ g[x].pool = x.pool /\ g[x].worker \in {x.worker, None}
      BY <1>4, <1>5, <1>6
    <3>4. ASSUME NEW r \in Pools PROVE bu2[r] \subseteq en[r] \ idle2[r] /\ idle2[r] \subseteq en[r]
      <4>1. CASE r = p
        BY <2>2, <2>3, <3>1, <3>2, <4>1 DEF Owned
      <4>2. CASE r # p
        BY <2>3, <3>1, <3>2, <4>2 DEF Owned
      <4> QED BY <4>1, <4>2
    <3>5. ASSUME NEW x \in atts, g[x].worker # None PROVE x.worker \in bu2[x.pool]
      <4>1. x # a /\ x.worker # None /\ x.pool \in Pools
        BY <1>4, <1>5, <1>6, <3>5
      <4>2. x.worker \in busy[x.pool] /\ ~(x.pool = p /\ x.worker = w)
        BY <1>13, <1>14, <2>1, <4>1
      <4> QED BY <2>3, <3>1, <4>1, <4>2
    <3>6. ASSUME NEW r \in Pools, NEW v \in bu2[r]
          PROVE  v \in bu[r] /\ \A x \in atts : x.pool = r /\ x.worker = v => g[x].worker = v
      <4>1. v \in bu[r] /\ ~(r = p /\ v = w)
        BY <2>3, <3>1
      <4> QED BY <1>5, <2>1, <4>1
    <3>7. Owned(en, bu2, idle2, atts2)
      BY <1>5, <3>2, <3>3, <3>4, <3>5, <3>6, OwnedImage
    <3> QED BY <1>1, <3>1, <3>7
  <2>5. pumpScheduled' \in BOOLEAN /\ (pumpScheduled => pumpScheduled')
        /\ (running /\ ~pumpScheduled' => ~InPools(p) \/ p \in down)
    <3>1. Notify(p)
      BY <1>15, <2>1
    <3> QED BY <2>2, <3>1, NotifyIs
  <2>6. ASSUME running, ~pumpScheduled', NEW r \in Pools, InPools(r), CanAcquire(r)' PROVE CanAcquire(r)
    <3>1. CASE r = p
      <4>1. p \in down
        BY <2>5, <2>6, <3>1
      <4> QED BY <2>6, <3>1, <4>1 DEF CanAcquire
    <3>2. CASE r # p
      BY <2>3, <2>6, <3>2, SamePool
    <3> QED BY <3>1, <3>2
  <2>7. WorkSide'
    BY <2>5, <2>6, WorkKept
  <2>8. TypeOK'
    BY <1>11, <2>3, <2>5 DEF IInv, TypeOK, Members
  <2> QED BY <1>8, <1>9, <1>10, <2>4, <2>7, <2>8 DEF IInv
<1>16. CASE (a.timedOut \/ a.worker \notin entries[a.pool]) /\ UNCHANGED <<busy, idleTimer, pumpScheduled>>
  <2>1. a.worker = None
    BY <1>1, <1>3, <1>13, <1>16 DEF IInv, InTime
  <2>2. Owned(entries', busy', idleTimer', attempts')
    <3>1. PICK en, bu, idle : en = entries /\ bu = busy /\ idle = idleTimer
      OBVIOUS
    <3>2. Owned(en, bu, idle, atts)
      BY <1>12, <3>1
    <3>3. ASSUME NEW x \in atts PROVE g[x].worker = x.worker
      BY <1>4, <1>5, <2>1
    <3>4. Owned(en, bu, idle, atts2)
      BY <1>5, <1>6, <3>2, <3>3, KeptImage
    <3> QED BY <1>1, <1>16, <3>1, <3>4
  <2>3. \A p \in Pools : CanAcquire(p)' => CanAcquire(p)
    BY <1>16, SamePool
  <2>4. WorkSide'
    BY <1>16, <2>3, WorkKept
  <2>5. TypeOK'
    BY <1>11, <1>16 DEF IInv, TypeOK
  <2> QED BY <1>8, <1>9, <1>10, <2>2, <2>4, <2>5 DEF IInv
<1> QED BY <1>15, <1>16

LEMMA AcceptStep == ASSUME IInv, NEW a \in attempts, Accept(a) PROVE IInv'
<1> USE DEF Accept, cvars, pvars
<1>1. PICK tk, q, atts, atts2, t : /\ tk = task /\ q = queue /\ atts = attempts /\ atts2 = attempts \ {a}
                                   /\ t = a.task
  OBVIOUS
<1>2. /\ tk \in TaskMap /\ q \in Queues /\ atts \in SUBSET Attempt /\ TaskSide(tk, q, atts) /\ a \in atts
      /\ atts2 \in SUBSET Attempt /\ atts2 = atts \ {a} /\ t \in Tasks
  BY <1>1, TypesFold DEF IInv, Attempt
<1>3. PICK done : done = Finished(tk, a)
  OBVIOUS
<1>4. /\ done \in TaskMap
      /\ tk[t].pending /\ tk[t].active = a.n /\ ~a.timedOut => Loose(done, q, atts2, t)
      /\ ~(tk[t].pending /\ tk[t].active = a.n /\ ~a.timedOut) => TaskSide(done, q, atts2)
  BY <1>1, <1>2, <1>3, FinishKeeps
<1>5. PICK here : here <=> tk[t].pending /\ tk[t].active = a.n /\ ~a.timedOut
  OBVIOUS
<1>6. (Pending(t) /\ Current(a) /\ ~a.timedOut) <=> here
  BY <1>1, <1>5 DEF Pending, Current
<1>7. /\ attempts' = atts2 /\ SchedulePump
      /\ \/ here /\ SucceedAttempt(t, done)
         \/ \E rec : here /\ FailAttempt(t, rec, done, q)
         \/ ~here /\ task' = done /\ UNCHANGED <<breaker, queue>>
  BY <1>1, <1>3, <1>6 DEF Finished
<1>8. CASE here /\ (SucceedAttempt(t, done) \/ \E rec : FailAttempt(t, rec, done, q))
  <2>1. breaker' \in [Types -> Breaker] /\ Failing(done, q, t, task', queue')
    <3>1. CASE SucceedAttempt(t, done)
      <4>1. breaker[TypeOf[t]] \in Breaker
        BY <1>2, TypesFold, BusOK
      <4>2. Succeeded(breaker[TypeOf[t]]) \in Breaker
        BY <4>1, BreakerTypes
      <4> QED BY <1>1, <3>1, <4>2, TypesFold DEF SucceedAttempt, Failing
    <3>2. CASE \E rec : FailAttempt(t, rec, done, q)
      BY <1>2, <3>2, FailAttemptIs
    <3> QED BY <1>8, <3>1, <3>2
  <2>2. PICK tk2, q2 : tk2 = task' /\ q2 = queue'
    OBVIOUS
  <2>3. Failing(done, q, t, tk2, q2) /\ Loose(done, q, atts2, t)
    BY <1>4, <1>5, <1>8, <2>1, <2>2
  <2>4. tk2 \in TaskMap /\ q2 \in Queues /\ TaskSide(tk2, q2, atts2)
    BY <1>2, <1>4, <2>3, FailKeeps
  <2> QED BY <1>7, <2>1, <2>2, <2>4, AcceptRest
<1>9. CASE ~here /\ task' = done /\ UNCHANGED <<breaker, queue>>
  <2>1. breaker' \in [Types -> Breaker] /\ queue' \in Queues
    BY <1>1, <1>2, <1>9, TypesFold
  <2>2. task' \in TaskMap /\ TaskSide(task', queue', attempts')
    BY <1>1, <1>4, <1>5, <1>7, <1>9
  <2> QED BY <2>1, <2>2, AcceptRest
<1> QED BY <1>7, <1>8, <1>9

LEMMA RetryTimerStep == ASSUME IInv, NEW t \in Tasks, RetryTimer(t) PROVE IInv'
<1> USE DEF RetryTimer, cvars, pvars
<1>1. PICK tk, q, atts : tk = task /\ q = queue /\ atts = attempts
  OBVIOUS
<1>2. tk \in TaskMap /\ q \in Queues /\ atts \in SUBSET Attempt /\ TaskSide(tk, q, atts) /\ tk[t] \in Task
  BY <1>1, TypesFold DEF IInv, TaskMap
<1>3. tk[t].retryTimer /\ tk[t].pending /\ Placed(tk, q, atts, t)
  BY <1>1, <1>2 DEF TaskSide, OneTask, NoTask
<1>4. /\ ~In(q, t) /\ ~Counts(tk, atts, t)
      /\ \A a \in atts : a.task = t => a.n <= tk[t].retry
      /\ \A a \in atts : a.task = t => a.n <= tk[t].retry + 1
  BY <1>3 DEF Placed
<1>5. CASE /\ queue' = Pushed(queue, t, EffectivePriority(Priority[t], task[t].requeued))
           /\ task' = [[task EXCEPT ![t].retryTimer = FALSE] EXCEPT ![t].watchdog = TRUE]
           /\ SchedulePump /\ UNCHANGED breaker
  <2>1. PICK r, p : /\ r = [tk[t] EXCEPT !.retryTimer = FALSE, !.watchdog = TRUE]
                    /\ p = EffectivePriority(Priority[t], tk[t].requeued)
    OBVIOUS
  <2>2. /\ r \in Task /\ r.pending /\ ~r.retryTimer /\ r.requeued = tk[t].requeued
        /\ r.retry = tk[t].retry /\ r.active = tk[t].active
    BY <1>2, <1>3, <2>1 DEF Task
  <2>3. task' = [tk EXCEPT ![t] = r]
    BY <1>1, <1>2, <1>5, <2>1 DEF TaskMap
  <2>4. p \in Priorities /\ (p = Low => r.requeued < MaxPreemptions)
    <3>1. Priority[t] \in Priorities /\ tk[t].requeued \in Int /\ MaxPreemptions \in Int
      BY <1>2, NoTaskType, BusOK DEF Task
    <3> QED BY <2>1, <2>2, <3>1, LowPriority DEF EffectivePriority
  <2>5. Others(tk, q, atts, t)
    BY <1>2, <1>4 DEF Others, TaskSide
  <2>6. \A a \in atts : a.task = t => a.n <= r.retry /\ (r.active = a.n => a.timedOut)
    BY <1>4, <2>2 DEF Counts
  <2>7. /\ [tk EXCEPT ![t] = r] \in TaskMap /\ Pushed(q, t, p) \in Queues
        /\ TaskSide([tk EXCEPT ![t] = r], Pushed(q, t, p), atts)
    BY <1>2, <2>2, <2>4, <2>5, <2>6, PushKeeps
  <2>8. task' \in TaskMap /\ queue' \in Queues /\ TaskSide(task', queue', attempts')
    BY <1>1, <1>5, <2>1, <2>3, <2>7
  <2>9. WorkSide' /\ pumpScheduled' \in BOOLEAN
    BY <1>5, ScheduledWork
  <2>10. TypeOK'
    BY <1>5, <2>8, <2>9 DEF IInv, TypeOK, TaskMap, Queues
  <2> QED BY <2>8, <2>9, <2>10, StoodStill DEF IInv
<1>6. CASE FailAttempt(t, FALSE, [task EXCEPT ![t].retryTimer = FALSE], queue) /\ UNCHANGED pumpScheduled
  <2>1. PICK r, tk1 : r = [tk[t] EXCEPT !.retryTimer = FALSE] /\ tk1 = [tk EXCEPT ![t].retryTimer = FALSE]
    OBVIOUS
  <2>2. /\ r \in Task /\ r.pending /\ r.requeued = tk[t].requeued
        /\ r.retry = tk[t].retry /\ r.active = tk[t].active
    BY <1>2, <1>3, <2>1 DEF Task
  <2>3. tk1 = [tk EXCEPT ![t] = r]
    BY <1>2, <2>1 DEF TaskMap
  <2>4. tk1 \in TaskMap /\ tk1[t] = r /\ \A u \in Tasks \ {t} : tk1[u] = tk[u]
    BY <1>2, <2>2, <2>3 DEF TaskMap
  <2>5. breaker' \in [Types -> Breaker] /\ Failing(tk1, q, t, task', queue')
    BY <1>1, <1>6, <2>1, FailAttemptIs
  <2>6. Once(q) /\ KeyOnce(atts)
    BY <1>2 DEF TaskSide
  <2>7. LowWaits(tk1, q)
    BY <1>2, <2>2, <2>4 DEF TaskSide, LowWaits
  <2>8. ASSUME NEW u \in Tasks \ {t} PROVE OneTask(tk1, q, atts, u)
    <3>1. OneTask(tk, q, atts, u) /\ tk1[u] = tk[u]
      BY <1>2, <2>4 DEF TaskSide
    <3> QED BY <3>1, SameTask
  <2>9. ~Counts(tk1, atts, t)
    BY <1>4, <2>2, <2>4 DEF Counts
  <2>10. Loose(tk1, q, atts, t)
    BY <1>4, <2>2, <2>4, <2>6, <2>7, <2>8, <2>9 DEF Loose, Others
  <2>11. PICK tk2, q2 : tk2 = task' /\ q2 = queue'
    OBVIOUS
  <2>12. Failing(tk1, q, t, tk2, q2)
    BY <2>5, <2>11
  <2>13. /\ tk2 \in TaskMap /\ q2 \in Queues /\ TaskSide(tk2, q2, atts)
         /\ \A u \in Tasks : In(q2, u) => In(q, u)
    BY <1>2, <2>4, <2>10, <2>12, FailKeeps
  <2>14. /\ task' \in TaskMap /\ queue' \in Queues /\ TaskSide(task', queue', attempts')
         /\ \A u \in Tasks : In(queue', u) => In(queue, u)
    BY <1>1, <2>11, <2>13
  <2>15. \A p \in Pools : CanAcquire(p)' => CanAcquire(p)
    BY SamePool
  <2>16. WorkSide'
    BY <1>6, <2>14, <2>15, WorkKept
  <2>17. TypeOK'
    BY <1>6, <2>5, <2>14 DEF IInv, TypeOK, TaskMap, Queues
  <2> QED BY <2>14, <2>16, <2>17, StoodStill DEF IInv
<1> QED BY <1>5, <1>6

LEMMA WatchdogStep == ASSUME IInv, NEW t \in Tasks, Watchdog(t) PROVE IInv'
<1> USE DEF Watchdog, cvars
<1>1. PICK tk, q, atts : tk = task /\ q = queue /\ atts = attempts
  OBVIOUS
<1>2. tk \in TaskMap /\ q \in Queues /\ atts \in SUBSET Attempt /\ TaskSide(tk, q, atts)
  BY <1>1, TypesFold DEF IInv
<1>3. tk[t].pending
  BY <1>1, <1>2 DEF TaskSide, OneTask, NoTask
<1>4. PICK q1 : q1 = Removed(q, t)
  OBVIOUS
<1>5. Rest(q, q1, Tasks \ {t})
  BY <1>2, <1>4, RemovedTask DEF TaskSide
<1>6. PICK mine : mine = {a \in atts : a.task = t /\ tk[t].active = a.n}
  OBVIOUS
<1>7. mine = {a \in attempts : a.task = t /\ Current(a)}
  BY <1>1, <1>6 DEF Current
<1>8. PICK late : late = (atts \ mine) \cup {[Aborted(a) EXCEPT !.timedOut = TRUE] : a \in mine}
  OBVIOUS
<1>9. PICK g : g = [a \in atts |-> IF a \in mine THEN [Aborted(a) EXCEPT !.timedOut = TRUE] ELSE a]
  OBVIOUS
<1>10. late = {g[a] : a \in atts}
  BY <1>6, <1>8, <1>9
<1>11. ASSUME NEW a \in atts
       PROVE  /\ g[a] \in Attempt /\ g[a].task = a.task /\ g[a].n = a.n
              /\ g[a].pool = a.pool /\ g[a].worker = a.worker /\ a.pool \in Pools
              /\ a \in mine => g[a].timedOut
              /\ a \notin mine => g[a] = a
  <2>1. a \in Attempt /\ a.pool \in Pools
    BY <1>2 DEF Attempt
  <2>2. CASE a \in mine
    <3>1. PICK b : b = Aborted(a)
      OBVIOUS
    <3>2. /\ b \in Attempt /\ b.task = a.task /\ b.n = a.n /\ b.worker = a.worker /\ b.pool = a.pool
      BY <2>1, <3>1, AbortedIs
    <3>3. g[a] = [b EXCEPT !.timedOut = TRUE]
      BY <1>9, <2>2, <3>1
    <3>4. /\ g[a] \in Attempt /\ g[a].task = b.task /\ g[a].n = b.n /\ g[a].pool = b.pool
          /\ g[a].worker = b.worker /\ g[a].timedOut
      BY <3>2, <3>3 DEF Attempt
    <3> QED BY <2>1, <2>2, <3>2, <3>4
  <2>3. CASE a \notin mine
    BY <1>9, <2>1, <2>3
  <2> QED BY <2>2, <2>3
<1>12. late \in SUBSET Attempt
  BY <1>10, <1>11
<1>13. Loose(tk, q1, late, t)
  <2>1. \A a \in atts : /\ g[a].task = a.task /\ g[a].n = a.n
                        /\ a.task = t /\ a.n = tk[t].active => g[a].timedOut
                        /\ ~(a.task = t /\ a.n = tk[t].active) => (g[a].timedOut <=> a.timedOut)
    BY <1>6, <1>11
  <2> QED BY <1>2, <1>3, <1>5, <1>10, <2>1, ExpireKeeps
<1>14. FailAttempt(t, TRUE, tk, q1)
  BY <1>1, <1>4
<1>15. breaker' \in [Types -> Breaker] /\ Failing(tk, q1, t, task', queue')
  BY <1>14, FailAttemptIs
<1>16. PICK tk2, q2 : tk2 = task' /\ q2 = queue'
  OBVIOUS
<1>17. Failing(tk, q1, t, tk2, q2) /\ q1 \in Queues
  BY <1>5, <1>15, <1>16 DEF Rest
<1>18. /\ tk2 \in TaskMap /\ q2 \in Queues /\ TaskSide(tk2, q2, late)
       /\ \A u \in Tasks : In(q2, u) => In(q1, u)
  BY <1>2, <1>12, <1>13, <1>17, FailKeeps
<1>19. /\ task' \in TaskMap /\ queue' \in Queues
       /\ \A u \in Tasks : In(queue', u) => In(queue, u)
  BY <1>1, <1>5, <1>16, <1>18 DEF Rest
<1>20. Owned(entries, busy, idleTimer, late)
  <2>1. PICK en, bu, idle : en = entries /\ bu = busy /\ idle = idleTimer
    OBVIOUS
  <2>2. Owned(en, bu, idle, atts)
    BY <1>1, <2>1 DEF IInv
  <2>3. Owned(en, bu, idle, late)
    BY <1>10, <1>11, <2>2, KeptImage
  <2> QED BY <2>1, <2>3
<1>21. \/ \E a \in mine : a.worker \in entries[a.pool] /\ Restart(a.pool, a.worker, late, errs)
       \/ /\ \A a \in mine : a.worker \notin entries[a.pool]
          /\ attempts' = late /\ UNCHANGED <<pvars, errs, pumpScheduled, faults>>
  BY <1>1, <1>7, <1>8
<1>22. entries \in Members /\ errs \in Events
  BY TypesFold
<1>23. CASE \E a \in mine : a.worker \in entries[a.pool] /\ Restart(a.pool, a.worker, late, errs)
  <2>1. PICK a \in mine : a.worker \in entries[a.pool] /\ Restart(a.pool, a.worker, late, errs)
    BY <1>23
  <2>2. PICK p, w, ev : p = a.pool /\ w = a.worker /\ ev = errs
    OBVIOUS
  <2>3. a \in atts /\ a.task = t /\ a.n = tk[t].active
    BY <1>6
  <2>4. /\ p \in Pools /\ w \in entries[p] /\ w \in Workers /\ ev \in Events /\ Restart(p, w, late, ev)
    BY <1>11, <1>22, <2>1, <2>2, <2>3 DEF Members
  <2>5. \E v \in Workers : v \notin entries[p] \ {w}
    BY <2>4
  <2>6. /\ entries' \in Members /\ busy' \in Members /\ idleTimer' \in Members /\ errs' \in Events
        /\ attempts' \in SUBSET Attempt /\ pumpScheduled' \in BOOLEAN /\ faults' \in 0..MaxFaults
        /\ Owned(entries', busy', idleTimer', attempts')
        /\ (\A x \in late : (x.timedOut \/ x.stage = "accept") => (x.worker = None \/ (x.pool = p /\ x.worker = w)))
             => InTime(attempts')
        /\ Same(late, attempts')
        /\ faults' = 0 => faults = 0
        /\ pumpScheduled => pumpScheduled'
        /\ down' = down /\ running /\ ~pumpScheduled' /\ faults' = 0 =>
             \A r \in Pools : InPools(r) /\ CanAcquire(r)' => CanAcquire(r)
    BY <1>12, <1>20, <2>4, <2>5, RestartKeeps
  <2>7. ASSUME NEW y \in late, y.timedOut \/ y.stage = "accept"
        PROVE  y.worker = None \/ (y.pool = p /\ y.worker = w)
    <3>1. PICK x \in atts : y = g[x]
      BY <1>10
    <3>2. CASE x \in mine
      <4>1. x = a
        BY <1>2, <1>6, <2>3, <3>2 DEF TaskSide, KeyOnce
      <4> QED BY <1>11, <2>2, <3>1, <4>1
    <3>3. CASE x \notin mine
      <4>1. y = x
        BY <1>11, <3>1, <3>3
      <4> QED BY <1>1, <2>7, <4>1 DEF IInv, InTime
    <3> QED BY <3>2, <3>3
  <2>8. InTime(attempts')
    BY <2>6, <2>7
  <2>9. TaskSide(task', queue', attempts')
    <3>1. PICK atts2 : atts2 = attempts'
      OBVIOUS
    <3>2. Same(late, atts2)
      BY <2>6, <3>1
    <3>3. TaskSide(tk2, q2, atts2)
      BY <1>18, <3>2, SameKeeps
    <3> QED BY <1>16, <3>1, <3>3
  <2>10. Bounded(entries', errs', errors')
    <3>1. errs' = Outlived(ev, p, w) /\ (\/ entries' = [entries EXCEPT ![p] = (entries[p] \ {w}) \cup {Fresh(entries[p] \ {w})}]
                                         \/ entries' = [entries EXCEPT ![p] = entries[p] \ {w}])
      BY <2>4 DEF Restart
    <3>2. PICK en, en2, m : en = entries /\ en2 = entries' /\ m = errors
      OBVIOUS
    <3>3. en \in Members /\ m \in Nat /\ Bounded(en, ev, m)
      BY <2>2, <3>2, TypesFold DEF IInv
    <3>4. Bounded(en2, Outlived(ev, p, w), m)
      BY <2>4, <2>5, <3>1, <3>2, <3>3, LostBounds
    <3> QED BY <3>1, <3>2, <3>4
  <2>11. WorkSide'
    BY <1>19, <2>6, WorkKept
  <2>12. TypeOK'
    BY <1>15, <1>19, <2>6 DEF IInv, TypeOK, Members, Events, TaskMap, Queues
  <2> QED BY <2>6, <2>8, <2>9, <2>10, <2>11, <2>12 DEF IInv
<1>24. CASE /\ \A a \in mine : a.worker \notin entries[a.pool]
            /\ attempts' = late /\ UNCHANGED <<pvars, errs, pumpScheduled, faults>>
  <2> USE DEF pvars
  <2>1. \A a \in mine : a.worker = None
    <3> SUFFICES ASSUME NEW a \in mine, a.worker # None PROVE FALSE
      OBVIOUS
    <3>1. a \in attempts /\ a.pool \in Pools
      BY <1>1, <1>6, <1>11
    <3>2. a.worker \in entries[a.pool]
      BY <3>1 DEF IInv, Owned
    <3> QED BY <1>24, <3>2
  <2>2. InTime(attempts')
    <3> SUFFICES ASSUME NEW y \in late, y.timedOut \/ y.stage = "accept" PROVE y.worker = None
      BY <1>24 DEF InTime
    <3>1. PICK x \in atts : y = g[x]
      BY <1>10
    <3>2. CASE x \in mine
      BY <1>11, <2>1, <3>1, <3>2
    <3>3. CASE x \notin mine
      <4>1. y = x
        BY <1>11, <3>1, <3>3
      <4> QED BY <1>1, <4>1 DEF IInv, InTime
    <3> QED BY <3>2, <3>3
  <2>3. TaskSide(task', queue', attempts')
    BY <1>16, <1>18, <1>24
  <2>4. Owned(entries', busy', idleTimer', attempts')
    BY <1>20, <1>24
  <2>5. Bounded(entries', errs', errors')
    BY <1>24 DEF IInv
  <2>6. \A r \in Pools : CanAcquire(r)' => CanAcquire(r)
    BY <1>24, SamePool
  <2>7. WorkSide'
    BY <1>19, <1>24, <2>6, WorkKept
  <2>8. TypeOK'
    BY <1>12, <1>15, <1>19, <1>24 DEF IInv, TypeOK, TaskMap, Queues
  <2> QED BY <2>2, <2>3, <2>4, <2>5, <2>7, <2>8 DEF IInv
<1> QED BY <1>21, <1>23, <1>24

(* A round of the pump that starts an attempt.                             *)
LEMMA StartStep ==
  ASSUME IInv, Dispatch, NEW t \in Tasks, NEW p \in Pools, NEW w \in Workers,
         NEW tk \in TaskMap, NEW q \in Queues, queue' = q, breaker' = breaker,
         Loose(tk, q, attempts, t), ~tk[t].retryTimer, tk[t].retry = task[t].retry,
         \A a \in attempts : a.task = t => a.n <= tk[t].retry,
         CanAcquire(p), Acquired(p, w), StartAttempt(t, p, w, tk)
  PROVE  IInv'
<1> USE DEF cvars
<1>1. PICK n, atts : n = tk[t].retry + 1 /\ atts = attempts
  OBVIOUS
<1>2. atts \in SUBSET Attempt /\ n \in 1..(MaxRetries + 1) /\ w # None
  <2>1. tk[t].retry \in 0..MaxRetries /\ MaxRetries \in Nat
    BY NoTaskType DEF TaskMap, Task
  <2> QED BY <1>1, <2>1, TypesFold
<1>3. PICK ran, failed :
        /\ ran = [task |-> t, n |-> n, worker |-> w, pool |-> p,
                  timedOut |-> FALSE, res |-> "none", stage |-> "run"]
        /\ failed = [task |-> t, n |-> n, worker |-> None, pool |-> p,
                     timedOut |-> FALSE, res |-> "failed", stage |-> "accept"]
  OBVIOUS
<1>4. ran \in Attempt /\ failed \in Attempt
  BY <1>2, <1>3 DEF Attempt
<1>5. /\ task' = [tk EXCEPT ![t].active = n] /\ entries' = [entries EXCEPT ![p] = @ \cup {w}]
      /\ \/ /\ attempts' = atts \cup {ran}
            /\ busy' = [busy EXCEPT ![p] = @ \cup {w}] /\ idleTimer' = [idleTimer EXCEPT ![p] = @ \ {w}]
            /\ UNCHANGED <<pumpScheduled, faults>>
         \/ /\ faults < MaxFaults /\ faults' = faults + 1
            /\ attempts' = atts \cup {failed}
            /\ idleTimer' = [idleTimer EXCEPT ![p] = @ \cup {w}] /\ Notify(p) /\ busy' = busy
  BY <1>1, <1>3 DEF StartAttempt
<1>6. /\ running' = running /\ pools' = pools /\ down' = down /\ dying' = dying /\ closing' = closing
      /\ errs' = errs /\ pumping' = pumping /\ errors' = errors /\ pumping
  BY DEF Dispatch
<1>7. ASSUME NEW new, new.task = t, new.n = n, ~new.timedOut, attempts' = atts \cup {new}
      PROVE  task' \in TaskMap /\ TaskSide(task', queue', attempts')
  <2>1. PICK tk2 : tk2 = [tk EXCEPT ![t].active = tk[t].retry + 1]
    OBVIOUS
  <2>2. tk2 \in TaskMap /\ TaskSide(tk2, q, atts \cup {new})
    <3>1. Loose(tk, q, atts, t) /\ \A a \in atts : a.task = t => a.n <= tk[t].retry
      BY <1>1
    <3>2. new.n = tk[t].retry + 1
      BY <1>1, <1>7
    <3> QED BY <1>2, <1>7, <2>1, <3>1, <3>2, StartKeeps
  <2> QED BY <1>1, <1>5, <1>7, <2>1, <2>2
<1>8. /\ entries \in Members /\ busy \in Members /\ idleTimer \in Members
      /\ Owned(entries, busy, idleTimer, atts)
  BY <1>1, TypesFold DEF IInv
<1>9. entries' \in Members /\ entries'[p] = entries[p] \cup {w} /\ \A r \in Pools \ {p} : entries'[r] = entries[r]
  BY <1>5, <1>8 DEF Members
<1>10. entries[p] \in SUBSET Workers /\ Cardinality(entries[p]) \in Nat
       /\ (Cardinality(entries[p]) < Cardinality(Workers) => \E v \in Workers : v \notin entries[p])
       /\ Cardinality(Workers) \in Nat
       /\ (w \notin entries[p] => Cardinality(entries[p] \cup {w}) = Cardinality(entries[p]) + 1)
  <2>1. PICK en : en = entries[p]
    OBVIOUS
  <2>2. en \in SUBSET Workers
    BY <1>8, <2>1 DEF Members
  <2>3. Cardinality(en) \in Nat /\ Cardinality(Workers) \in Nat
        /\ (Cardinality(en) < Cardinality(Workers) => \E v \in Workers : v \notin en)
        /\ (w \notin en => Cardinality(en \cup {w}) = Cardinality(en) + 1)
    BY <2>2, Sizes
  <2> QED BY <2>1, <2>2, <2>3
<1>11. /\ w \notin busy[p]
       /\ w \notin entries[p] => Cardinality(entries[p]) < MaxWorkers[p]
  <2>1. CASE w \in Idle(p)
    BY <2>1 DEF Idle
  <2>2. CASE Idle(p) = {} /\ w = Fresh(entries[p])
    <3>1. Cardinality(entries[p]) < MaxWorkers[p]
      BY <2>2 DEF CanAcquire
    <3>2. Cardinality(Workers) >= MaxWorkers[p] + MaxErrors /\ MaxErrors \in Nat /\ MaxWorkers[p] \in Nat
      BY BusOK
    <3>3. \E v \in Workers : v \notin entries[p]
      BY <1>10, <3>1, <3>2
    <3>4. w \notin entries[p]
      BY <2>2, <3>3, FreshIs
    <3>5. busy[p] \subseteq entries[p]
      BY <1>8 DEF Owned
    <3> QED BY <3>1, <3>4, <3>5
  <2> QED BY <2>1, <2>2 DEF Acquired
<1>12. Bounded(entries', errs', errors')
  <2>1. ASSUME NEW r \in Pools
        PROVE  /\ \A i \in DOMAIN errs[r] : errs[r][i] \in entries'[r] \cup {None}
               /\ Len(errs[r]) <= errors /\ Cardinality(entries'[r]) + Len(errs[r]) <= MaxWorkers[r] + errors
    <3>1. /\ \A i \in DOMAIN errs[r] : errs[r][i] \in entries[r] \cup {None}
          /\ Len(errs[r]) <= errors /\ Cardinality(entries[r]) + Len(errs[r]) <= MaxWorkers[r] + errors
      BY DEF IInv, Bounded
    <3>2. CASE r = p /\ w \notin entries[p]
      <4>1. PICK c, l : c = Cardinality(entries[p]) /\ l = Len(errs[p])
        OBVIOUS
      <4>2. c \in Nat /\ l \in Nat /\ MaxWorkers[p] \in Nat /\ errors \in Nat
        BY <1>10, <4>1, TypesFold, BusOK DEF Events
      <4>3. c < MaxWorkers[p] /\ l <= errors /\ Cardinality(entries'[p]) = c + 1
        BY <1>9, <1>10, <1>11, <3>1, <3>2, <4>1
      <4>4. c + 1 + l <= MaxWorkers[p] + errors
        BY <4>2, <4>3
      <4> QED BY <1>9, <3>1, <3>2, <4>1, <4>3, <4>4
    <3>3. CASE r = p /\ w \in entries[p]
      <4>1. entries'[p] = entries[p]
        BY <1>9, <3>3
      <4> QED BY <3>1, <3>3, <4>1
    <3>4. CASE r # p
      BY <1>9, <3>1, <3>4
    <3> QED BY <3>2, <3>3, <3>4
  <2> QED BY <1>6, <2>1 DEF Bounded
<1>13. WorkSide'
  BY <1>6 DEF WorkSide
<1>14. CASE /\ attempts' = atts \cup {ran}
            /\ busy' = [busy EXCEPT ![p] = @ \cup {w}] /\ idleTimer' = [idleTimer EXCEPT ![p] = @ \ {w}]
            /\ UNCHANGED <<pumpScheduled, faults>>
  <2>1. task' \in TaskMap /\ TaskSide(task', queue', attempts')
    <3>1. ran.task = t /\ ran.n = n /\ ~ran.timedOut
      BY <1>3
    <3>2. attempts' = atts \cup {ran}
      BY <1>14
    <3> QED BY <1>7, <3>1, <3>2
  <2>2. Owned(entries', busy', idleTimer', attempts')
    <3>1. PICK en, bu, idle : en = entries /\ bu = busy /\ idle = idleTimer
      OBVIOUS
    <3>2. /\ en \in Members /\ bu \in Members /\ idle \in Members /\ Owned(en, bu, idle, atts) /\ w \notin bu[p]
      BY <1>8, <1>11, <3>1
    <3>3. ran.pool = p /\ ran.worker = w
      BY <1>3
    <3>4. Owned([en EXCEPT ![p] = @ \cup {w}], [bu EXCEPT ![p] = @ \cup {w}], [idle EXCEPT ![p] = @ \ {w}],
                atts \cup {ran})
      BY <1>2, <3>2, <3>3, OwnedStart
    <3> QED BY <1>5, <1>14, <3>1, <3>4
  <2>3. InTime(attempts')
    BY <1>1, <1>3, <1>14 DEF IInv, InTime
  <2>4. busy' \in Members /\ idleTimer' \in Members
    BY <1>8, <1>14 DEF Members
  <2>5. TypeOK'
    BY <1>2, <1>4, <1>6, <1>9, <1>14, <2>1, <2>4 DEF IInv, TypeOK, Members, TaskMap, Queues
  <2> QED BY <1>6, <1>12, <1>13, <2>1, <2>2, <2>3, <2>5 DEF IInv
<1>15. CASE /\ faults < MaxFaults /\ faults' = faults + 1
            /\ attempts' = atts \cup {failed}
            /\ idleTimer' = [idleTimer EXCEPT ![p] = @ \cup {w}] /\ Notify(p) /\ busy' = busy
  <2>1. task' \in TaskMap /\ TaskSide(task', queue', attempts')
    <3>1. failed.task = t /\ failed.n = n /\ ~failed.timedOut
      BY <1>3
    <3>2. attempts' = atts \cup {failed}
      BY <1>15
    <3> QED BY <1>7, <3>1, <3>2
  <2>2. /\ idleTimer' \in Members /\ idleTimer'[p] = idleTimer[p] \cup {w}
        /\ \A r \in Pools \ {p} : idleTimer'[r] = idleTimer[r]
    BY <1>8, <1>15 DEF Members
  <2>3. Owned(entries', busy', idleTimer', atts)
    <3>1. ASSUME NEW r \in Pools
          PROVE  busy[r] \subseteq entries'[r] \ idleTimer'[r] /\ idleTimer'[r] \subseteq entries'[r]
      BY <1>8, <1>9, <1>11, <2>2 DEF Owned
    <3> QED BY <1>8, <1>15, <3>1 DEF Owned
  <2>4. Owned(entries', busy', idleTimer', attempts')
    <3>1. PICK en, bu, idle, atts2 : en = entries' /\ bu = busy' /\ idle = idleTimer' /\ atts2 = attempts'
      OBVIOUS
    <3>2. Owned(en, bu, idle, atts) /\ bu \in Members /\ None \notin Workers
      BY <1>8, <1>15, <2>3, <3>1, BusOK
    <3>3. \A a \in (atts \ atts2) \cup (atts2 \ atts) : a.worker = None
      BY <1>3, <1>15, <3>1
    <3>4. Owned(en, bu, idle, atts2)
      BY <3>2, <3>3, OwnedAlone
    <3> QED BY <3>1, <3>4
  <2>5. InTime(attempts')
    BY <1>1, <1>3, <1>15 DEF IInv, InTime
  <2>6. pumpScheduled' \in BOOLEAN
    BY <1>15, NotifyIs
  <2>7. faults' \in 0..MaxFaults
    BY <1>15, TypesFold, BusOK
  <2>8. TypeOK'
    BY <1>2, <1>4, <1>6, <1>9, <1>15, <2>1, <2>2, <2>6, <2>7 DEF IInv, TypeOK, Members, TaskMap, Queues
  <2> QED BY <1>6, <1>12, <1>13, <2>1, <2>4, <2>5, <2>8 DEF IInv
<1> QED BY <1>5, <1>14, <1>15

LEMMA DispatchStep == ASSUME IInv, Dispatch PROVE IInv'
<1>1. PICK pl \in FirstOf({x \in Places(queue) : Selectable(At(queue, x))}) :
       LET t  == At(queue, pl)
           q  == RemovedAt(queue, pl)
           q2 == Promoted(q, pl[1], [u \in Tasks |-> task[u].requeued])
           tk == [u \in Tasks |-> [task[u] EXCEPT !.requeued = PassedOver(q, pl[1], @, u)]]
           p  == PoolFor(t)
       IN  \/ /\ p = None
              /\ FailAttempt(t, FALSE, tk, q2)
              /\ UNCHANGED <<pvars, attempts, pumpScheduled, faults>>
           \/ /\ p # None
              /\ \E w \in Workers : Acquired(p, w) /\ StartAttempt(t, p, w, tk)
              /\ queue' = q2
              /\ UNCHANGED breaker
           \/ /\ p # None /\ Idle(p) = {} /\ faults < MaxFaults
              /\ faults' = faults + 1
              /\ FailAttempt(t, TRUE, tk, q2)
              /\ UNCHANGED <<pvars, attempts, pumpScheduled>>
  BY DEF Dispatch
<1>2. PICK q0, tk0, atts : q0 = queue /\ tk0 = task /\ atts = attempts
  OBVIOUS
<1>3. tk0 \in TaskMap /\ q0 \in Queues /\ atts \in SUBSET Attempt /\ TaskSide(tk0, q0, atts)
  BY <1>2, TypesFold DEF IInv
<1>4. pl \in Places(q0) /\ Selectable(At(q0, pl))
  BY <1>1, <1>2 DEF FirstOf
<1>5. PICK t, qr, q2, tk, p :
        /\ t = At(q0, pl) /\ qr = RemovedAt(q0, pl)
        /\ q2 = Promoted(qr, pl[1], [u \in Tasks |-> tk0[u].requeued])
        /\ tk = Recounted(tk0, qr, pl[1]) /\ p = PoolFor(t)
  OBVIOUS
<1>6. /\ t \in Tasks /\ tk \in TaskMap /\ q2 \in Queues /\ Loose(tk, q2, atts, t)
      /\ \A a \in atts : a.task = t => a.n <= tk0[t].retry
      /\ tk[t].retry = tk0[t].retry /\ ~tk[t].retryTimer
  BY <1>3, <1>4, <1>5, Dequeued
<1>7. \/ p = None /\ FailAttempt(t, FALSE, tk, q2) /\ UNCHANGED <<pvars, attempts, pumpScheduled, faults>>
      \/ /\ p # None /\ queue' = q2 /\ breaker' = breaker
         /\ \E w \in Workers : Acquired(p, w) /\ StartAttempt(t, p, w, tk)
      \/ /\ p # None /\ Idle(p) = {} /\ faults < MaxFaults /\ faults' = faults + 1
         /\ FailAttempt(t, TRUE, tk, q2) /\ UNCHANGED <<pvars, attempts, pumpScheduled>>
  BY <1>1, <1>2, <1>5 DEF Recounted
<1>8. /\ running' = running /\ pools' = pools /\ down' = down /\ dying' = dying /\ closing' = closing
      /\ errs' = errs /\ pumping' = pumping /\ errors' = errors /\ pumping
  BY DEF Dispatch, cvars
<1>9. WorkSide'
  BY <1>8 DEF WorkSide
<1>10. ASSUME NEW rec, FailAttempt(t, rec, tk, q2), UNCHANGED <<pvars, attempts, pumpScheduled>>,
              faults' \in 0..MaxFaults
       PROVE  IInv'
  <2> USE DEF pvars
  <2>1. breaker' \in [Types -> Breaker] /\ Failing(tk, q2, t, task', queue')
    BY <1>6, <1>10, FailAttemptIs
  <2>2. PICK tk3, q3 : tk3 = task' /\ q3 = queue'
    OBVIOUS
  <2>3. Failing(tk, q2, t, tk3, q3)
    BY <2>1, <2>2
  <2>4. tk3 \in TaskMap /\ q3 \in Queues /\ TaskSide(tk3, q3, atts)
    BY <1>3, <1>6, <2>3, FailKeeps
  <2>5. task' \in TaskMap /\ queue' \in Queues /\ TaskSide(task', queue', attempts')
    BY <1>2, <1>10, <2>2, <2>4
  <2>6. TypeOK'
    BY <1>8, <1>10, <2>1, <2>5 DEF IInv, TypeOK, TaskMap, Queues
  <2> QED BY <1>8, <1>9, <1>10, <2>5, <2>6, StoodStill DEF IInv
<1>11. CASE p = None /\ FailAttempt(t, FALSE, tk, q2) /\ UNCHANGED <<pvars, attempts, pumpScheduled, faults>>
  <2>1. faults' \in 0..MaxFaults
    BY <1>11, TypesFold
  <2> QED BY <1>10, <1>11, <2>1
<1>12. CASE /\ p # None /\ Idle(p) = {} /\ faults < MaxFaults /\ faults' = faults + 1
            /\ FailAttempt(t, TRUE, tk, q2) /\ UNCHANGED <<pvars, attempts, pumpScheduled>>
  <2>1. faults' \in 0..MaxFaults
    BY <1>12, TypesFold, BusOK
  <2> QED BY <1>10, <1>12, <2>1
<1>13. CASE /\ p # None /\ queue' = q2 /\ breaker' = breaker
            /\ \E w \in Workers : Acquired(p, w) /\ StartAttempt(t, p, w, tk)
  <2>1. PICK w \in Workers : Acquired(p, w) /\ StartAttempt(t, p, w, tk)
    BY <1>13
  <2>2. pools \in Seq(Pools)
    BY DEF IInv, TypeOK
  <2>3. p \in Pools
    BY <1>5, <1>13, <2>2, PoolForIs
  <2>4. CanAcquire(p)
    BY <1>4, <1>5, <1>13 DEF Selectable
  <2>5. /\ Loose(tk, q2, attempts, t) /\ tk[t].retry = task[t].retry
        /\ \A a \in attempts : a.task = t => a.n <= tk[t].retry
    BY <1>2, <1>6
  <2> QED BY <1>6, <1>13, <2>1, <2>3, <2>4, <2>5, StartStep
<1> QED BY <1>7, <1>11, <1>12, <1>13

-----------------------------------------------------------------------------
(* The inductive invariant holds in every state.                           *)
THEOREM Invariant == Spec => []IInv
<1>1. ASSUME IInv, [Next]_vars PROVE IInv'
  <2> USE <1>1
  <2>1. CASE Calls
    BY <2>1, RegisterPoolStep, TerminatePoolStep, EnqueueStep, CancelStep, ShutdownStep, TelemetryStep DEF Calls
  <2>2. CASE Micro
    BY <2>2, PumpStartStep, ShutdownNextStep, TerminatePoolEndStep, ReleaseStep, AcceptStep DEF Micro, Settle
  <2>3. CASE Pump
    BY <2>3, DispatchStep, PumpEndStep DEF Pump
  <2>4. CASE Timers
    BY <2>4, WatchdogStep, RetryTimerStep, IdleTimeoutStep, CoolStep DEF Timers
  <2>5. CASE Threads
    BY <2>5, WorkerLostStep, ThrowStep, ErrorEventStep, WorkerResultStep DEF Threads
  <2>6. CASE UNCHANGED vars
    <3> USE <2>6 DEF vars, cvars, pvars, tvars
    <3>1. breaker' \in [Types -> Breaker]
      BY TypesFold
    <3> QED BY <3>1, BreakerStep
  <2> QED BY <2>1, <2>2, <2>3, <2>4, <2>5, <2>6 DEF Next
<1> QED BY <1>1, InitOK, PTL DEF Spec

(* Every variable keeps its type: pools, workers, the queue, the breakers, *)
(* tasks and attempts, for any tasks, pools and bounds.                    *)
THEOREM BusTypes == Spec => []TypeOK
<1>1. IInv => TypeOK
  BY DEF IInv
<1> QED BY <1>1, Invariant, PTL

(* A task is never lost and never doubled: a pending one is in the queue   *)
(* once, or with the one attempt that counts, or waiting for its retry     *)
(* timer; a settled one is nowhere.                                        *)
THEOREM TasksKeepOnePlace == Spec => []OnePlace
<1>1. ASSUME IInv PROVE OnePlace
  <2> SUFFICES ASSUME NEW t \in Tasks
               PROVE  IF Pending(t)
                        THEN Cardinality(InQueue(t)) + (IF Running(t) THEN 1 ELSE 0)
                               + (IF task[t].retryTimer THEN 1 ELSE 0) = 1
                        ELSE InQueue(t) = {} /\ ~task[t].retryTimer /\ ~task[t].watchdog
    BY DEF OnePlace
  <2>1. PICK q : q = queue
    OBVIOUS
  <2>2. q \in Queues /\ Once(q)
    BY <1>1, <2>1, TypesFold DEF IInv, TaskSide
  <2>3. InQueue(t) = {pl \in Places(q) : At(q, pl) = t}
    BY <2>1 DEF InQueue
  <2>4. In(q, t) <=> InQueue(t) # {}
    BY <2>2, <2>3, PlacesAre
  <2>5. \A a, b \in InQueue(t) : a = b
    <3> SUFFICES ASSUME NEW a \in InQueue(t), NEW b \in InQueue(t) PROVE a = b
      OBVIOUS
    <3>1. a \in Places(q) /\ b \in Places(q) /\ At(q, a) = t /\ At(q, b) = t
      BY <2>3
    <3>2. /\ a[1] \in Priorities /\ a[2] \in DOMAIN q[a[1]] /\ a = <<a[1], a[2]>> /\ Holds(q[a[1]], t)
          /\ b[1] \in Priorities /\ b[2] \in DOMAIN q[b[1]] /\ b = <<b[1], b[2]>> /\ Holds(q[b[1]], t)
          /\ q[a[1]][a[2]] = t /\ q[b[1]][b[2]] = t
      BY <2>2, <3>1, PlacesAre DEF At
    <3>3. a[1] = b[1]
      BY <2>2, <3>2 DEF Once
    <3>4. a[2] = b[2]
      BY <2>2, <3>2, <3>3 DEF Once, Injective
    <3> QED BY <3>2, <3>3, <3>4
  <2>6. Cardinality(InQueue(t)) = IF In(q, t) THEN 1 ELSE 0
    <3>1. CASE In(q, t)
      <4>1. PICK pl : InQueue(t) = {pl}
        BY <2>4, <2>5, <3>1
      <4> QED BY <3>1, <4>1, FS_Singleton
    <3>2. CASE ~In(q, t)
      BY <2>4, <3>2, FS_EmptySet
    <3> QED BY <3>1, <3>2
  <2>7. Running(t) <=> Counts(task, attempts, t)
    BY DEF Running, Counts, Current
  <2>8. OneTask(task, q, attempts, t)
    BY <1>1, <2>1 DEF IInv, TaskSide
  <2>9. CASE Pending(t)
    <3>1. Placed(task, q, attempts, t)
      BY <2>8, <2>9 DEF OneTask, Pending
    <3>2. /\ In(q, t) \/ task[t].retryTimer => ~Running(t)
          /\ ~(In(q, t) /\ task[t].retryTimer)
          /\ In(q, t) \/ task[t].retryTimer \/ Running(t)
      BY <2>7, <3>1 DEF Placed
    <3> QED BY <2>6, <2>9, <3>2
  <2>10. CASE ~Pending(t)
    <3>1. task[t] = NoTask /\ ~In(q, t)
      BY <2>8, <2>10 DEF OneTask, Pending
    <3> QED BY <2>4, <2>10, <3>1 DEF NoTask
  <2> QED BY <2>9, <2>10
<1> QED BY <1>1, Invariant, PTL

(* Workers are neither shared nor leaked: a worker of a pool is busy       *)
(* exactly while one attempt in time has not released it.                  *)
THEOREM WorkersAreOwned == Spec => []BusyMeansOwned
<1>1. ASSUME IInv PROVE BusyMeansOwned
  <2>1. ASSUME NEW p \in Pools PROVE busy[p] \subseteq entries[p] \ idleTimer[p]
    BY <1>1 DEF IInv, Owned
  <2>2. ASSUME NEW p \in Pools, NEW w \in entries[p]
        PROVE  Cardinality({a \in attempts : a.pool = p /\ a.worker = w /\ ~a.timedOut})
                 = IF w \in busy[p] THEN 1 ELSE 0
    <3>1. PICK owners : owners = {a \in attempts : a.pool = p /\ a.worker = w /\ ~a.timedOut}
      OBVIOUS
    <3>2. w # None
      <4>1. entries[p] \subseteq Workers
        BY <1>1, TypesFold DEF Members
      <4> QED BY <4>1, BusOK
    <3>3. \A a \in attempts : a.pool = p /\ a.worker = w => ~a.timedOut
      BY <1>1, <3>2 DEF IInv, InTime
    <3>4. CASE w \in busy[p]
      <4>1. PICK a \in attempts : a.pool = p /\ a.worker = w
        BY <1>1, <3>4 DEF IInv, Owned
      <4>2. owners = {a}
        BY <1>1, <3>1, <3>2, <3>3, <4>1 DEF IInv, Owned
      <4> QED BY <3>1, <3>4, <4>2, FS_Singleton
    <3>5. CASE w \notin busy[p]
      <4>1. owners = {}
        BY <1>1, <3>1, <3>2, <3>5 DEF IInv, Owned
      <4> QED BY <3>1, <3>5, <4>1, FS_EmptySet
    <3> QED BY <3>4, <3>5
  <2> QED BY <2>1, <2>2 DEF BusyMeansOwned
<1> QED BY <1>1, Invariant, PTL

(* The pump is never forgotten: between two jobs no queued task could be   *)
(* given to a worker, as long as no call of new Worker has thrown.         *)
THEOREM PumpIsNeverForgotten == Spec => []NothingRunnableWaits
<1>1. ASSUME IInv PROVE NothingRunnableWaits
  <2> SUFFICES ASSUME EventLoop, running, faults = 0, NEW pl \in Places(queue)
               PROVE  ~Selectable(At(queue, pl))
    BY DEF NothingRunnableWaits
  <2>1. ~pumping /\ ~pumpScheduled
    BY DEF EventLoop, MicroDue
  <2>2. PICK q : q = queue
    OBVIOUS
  <2>3. At(q, pl) \in Tasks /\ In(q, At(q, pl))
    <3>1. q \in Queues /\ pl \in Places(q)
      BY <1>1, <2>2, TypesFold
    <3> QED BY <3>1, PlacesAre
  <2> QED BY <1>1, <2>1, <2>2, <2>3 DEF IInv, WorkSide
<1> QED BY <1>1, Invariant, PTL

====
