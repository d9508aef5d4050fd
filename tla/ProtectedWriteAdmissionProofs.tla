-------------------- MODULE ProtectedWriteAdmissionProofs --------------------
(***************************************************************************)
(* Proofs about the fallback admission lock, for any finite set of callers.*)
(* The inductive invariant says that the line of waiters is exactly the    *)
(* set of queued callers, each once, and that the counter and the flag     *)
(* describe the holders; with it every step is a step of FairLock.         *)
(***************************************************************************)
EXTENDS ProtectedWriteAdmission, FiniteSetTheorems, SequenceTheorems, TLAPS

Line == {waiters[i] : i \in DOMAIN waiters}

(* Each queued caller stands once in the line, and nobody else does. *)
LineInv == /\ \A i, j \in DOMAIN waiters : waiters[i] = waiters[j] => i = j
           /\ \A c \in Callers : pc[c] = "queued" <=> c \in Line

Inv == TypeOK /\ LineInv /\ LockExclusion /\ NoLostWakeup

(* The front of a line without repetitions has as many members as places. *)
LEMMA FrontCardinality ==
  ASSUME NEW S, NEW q \in Seq(S), NEW n \in 0..Len(q),
         \A i, j \in DOMAIN q : q[i] = q[j] => i = j,
         NEW T, T = {q[i] : i \in 1..n}
  PROVE  IsFiniteSet(T) /\ Cardinality(T) = n
<1> DEFINE f == [i \in 1..n |-> q[i]]
<1>1. DOMAIN q = 1..Len(q) /\ Len(q) \in Nat /\ n \in Nat /\ 1..n \subseteq DOMAIN q
  OBVIOUS
<1>2. f \in [1..n -> T] /\ \A i \in 1..n : f[i] = q[i]
  OBVIOUS
<1>3. f \in Injection(1..n, T)
  BY <1>1, <1>2 DEF Injection, IsInjective
<1>4. f \in Surjection(1..n, T)
  BY <1>1, <1>2 DEF Surjection
<1>5. ExistsBijection(1..n, T)
  BY <1>3, <1>4 DEF ExistsBijection, Bijection
<1>6. IsFiniteSet(1..n) /\ Cardinality(1..n) = n
  BY <1>1, FS_Interval
<1> QED BY <1>5, <1>6, FS_Bijection

(* The holders are finitely many, so counting them is meaningful. *)
LEMMA HoldersFinite ==
  /\ IsFiniteSet(Holders \cap Writers)
  /\ Cardinality(Holders \cap Writers) \in Nat
<1>1. Holders \cap Writers \subseteq Callers
  BY DEF Holders, Callers
<1> QED BY <1>1, CallersOK, FS_Subset, FS_CardinalityType

LEMMA InitInv == Init => Inv
<1> SUFFICES ASSUME Init PROVE Inv
  OBVIOUS
<1>1. Holders = {} /\ Line = {}
  BY DEF Init, Holders, Line
<1>2. TypeOK
  <2>1. waiters \in Seq(Callers)
    BY DEF Init
  <2>2. pc \in [Callers -> {"out", "queued", "granted", "in"}]
    BY DEF Init
  <2> QED BY <2>1, <2>2 DEF Init, TypeOK
<1> QED BY <1>1, <1>2, FS_EmptySet
        DEF Inv, Init, LineInv, LockExclusion, NoLostWakeup

(* A claim is granted only when nobody waits: the condition the code tests *)
(* (no queued exclusive, no holder in the way) amounts to that.            *)
LEMMA ClaimMeansNobodyWaits ==
  ASSUME Inv, NEW c \in Callers
  PROVE  CanClaim(c) <=> /\ waiters = <<>>
                         /\ Holders \cap Migrations = {}
                         /\ c \in Migrations => Holders = {}
<1> USE CallersOK
<1>1. Holders \cap Writers = {} <=> activeShared = 0
  BY HoldersFinite, FS_EmptySet DEF Inv, LockExclusion
<1>2. Holders \subseteq Writers \cup Migrations
  BY DEF Holders, Callers
<1>3. waiters \in Seq(Callers) /\ (waiters = <<>> <=> DOMAIN waiters = {})
      /\ (waiters # <<>> => 1 \in DOMAIN waiters)
  BY DEF Inv, TypeOK
<1>4. c \in Writers \/ c \in Migrations
  BY DEF Callers
<1> QED BY <1>1, <1>2, <1>3, <1>4
        DEF Inv, LockExclusion, NoLostWakeup, CanClaim, HasQueuedExclusive

LEMMA AcquireStep ==
  ASSUME Inv, NEW c \in Callers, Acquire(c)
  PROVE  /\ Inv'
         /\ Abstract!Request(c)
<1> USE CallersOK
<1>1. c \notin Holders /\ c \notin Line
  BY DEF Acquire, Holders, Inv, LineInv
<1>2. waiters \in Seq(Callers) /\ pc \in [Callers -> {"out", "queued", "granted", "in"}]
      /\ activeShared \in Nat /\ exclusiveHeld \in BOOLEAN
  BY DEF Inv, TypeOK
<1>3. c \in Writers \/ c \in Migrations
  BY DEF Callers
<1>4. Abstract!InLine = Line
  BY DEF Abstract!InLine, Line
<1>5. Holders \subseteq Callers
  BY DEF Holders
<1>6. CASE /\ CanClaim(c) /\ Claim(c)
           /\ pc' = [pc EXCEPT ![c] = "granted"]
           /\ UNCHANGED waiters
  <2>1. waiters = <<>> /\ Holders \cap Migrations = {} /\ (c \in Migrations => Holders = {})
    BY <1>6, ClaimMeansNobodyWaits
  <2>2. Holders' = Holders \cup {c}
    BY <1>2, <1>6 DEF Holders
  <2>3. Holders' \cap Writers = (Holders \cap Writers) \cup (IF c \in Writers THEN {c} ELSE {})
    BY <2>2
  <2>4. activeShared' = Cardinality(Holders' \cap Writers)
    BY <1>1, <1>3, <1>6, <2>3, HoldersFinite, FS_AddElement
    DEF Claim, Inv, LockExclusion
  <2>5. exclusiveHeld' <=> Holders' \cap Migrations # {}
    BY <1>2, <1>3, <1>6, <2>1, <2>2 DEF Claim, Inv, LockExclusion
  <2>6. \A d \in Holders' \cap Migrations : Holders' = {d}
    BY <1>3, <2>1, <2>2
  <2>7. TypeOK'
    <3>1. pc' \in [Callers -> {"out", "queued", "granted", "in"}]
      BY <1>2, <1>6
    <3>2. activeShared' \in Nat /\ exclusiveHeld' \in BOOLEAN
      BY <1>2, <1>6 DEF Claim
    <3> QED BY <1>2, <1>6, <3>1, <3>2 DEF TypeOK
  <2>8. LineInv'
    BY <1>1, <1>2, <1>6 DEF Inv, LineInv, Line
  <2>9. NoLostWakeup'
    BY <1>6, <2>1 DEF NoLostWakeup
  <2>10. Abstract!Request(c)
    <3>1. Abstract!Compatible(Holders \cup {c})
      BY <1>3, <1>5, <2>1 DEF Abstract!Compatible, Callers
    <3> QED BY <1>1, <1>4, <1>6, <2>1, <2>2, <3>1 DEF Abstract!Request
  <2> QED BY <2>4, <2>5, <2>6, <2>7, <2>8, <2>9, <2>10 DEF Inv, LockExclusion
<1>7. CASE /\ ~CanClaim(c)
           /\ waiters' = Append(waiters, c)
           /\ pc' = [pc EXCEPT ![c] = "queued"]
           /\ UNCHANGED <<activeShared, exclusiveHeld>>
  <2>1. Holders' = Holders
    BY <1>1, <1>2, <1>7 DEF Holders
  <2>2. /\ DOMAIN waiters' = 1..(Len(waiters) + 1) /\ DOMAIN waiters = 1..Len(waiters)
        /\ \A i \in DOMAIN waiters : waiters'[i] = waiters[i]
        /\ waiters'[Len(waiters) + 1] = c /\ Len(waiters) \in Nat
        /\ waiters' \in Seq(Callers)
    BY <1>2, <1>7
  <2>3. Line' = Line \cup {c}
    BY <2>2 DEF Line
  <2>4. LineInv'
    <3>1. \A i \in DOMAIN waiters : waiters[i] # c
      BY <1>1 DEF Line
    <3>2. \A i, j \in DOMAIN waiters' : waiters'[i] = waiters'[j] => i = j
      BY <2>2, <3>1 DEF Inv, LineInv
    <3>3. \A d \in Callers : pc'[d] = "queued" <=> d \in Line'
      BY <1>2, <1>7, <2>3 DEF Inv, LineInv
    <3> QED BY <3>2, <3>3 DEF LineInv
  <2>5. TypeOK'
    <3>1. pc' \in [Callers -> {"out", "queued", "granted", "in"}]
      BY <1>2, <1>7
    <3> QED BY <1>2, <1>7, <2>2, <3>1 DEF TypeOK
  <2>6. LockExclusion'
    BY <1>7, <2>1 DEF Inv, LockExclusion
  <2>7. Holders # {}
    BY <1>7, ClaimMeansNobodyWaits DEF Inv, NoLostWakeup
  <2>8. NoLostWakeup'
    <3>1. CASE waiters = <<>>
      <4>1. waiters'[1] = c
        BY <2>2, <3>1
      <4>2. ~exclusiveHeld => c \in Migrations
        BY <1>3, <1>7, <3>1, ClaimMeansNobodyWaits DEF Inv, LockExclusion
      <4> QED BY <1>7, <2>1, <2>7, <4>1, <4>2 DEF NoLostWakeup
    <3>2. CASE waiters # <<>>
      BY <1>2, <1>7, <2>1, <2>2, <2>7, <3>2 DEF Inv, NoLostWakeup
    <3> QED BY <3>1, <3>2
  <2>9. Abstract!Request(c)
    <3>1. ~(waiters = <<>> /\ Abstract!Compatible(Holders \cup {c}))
      <4> SUFFICES ASSUME waiters = <<>>, Abstract!Compatible(Holders \cup {c})
                   PROVE  FALSE
        OBVIOUS
      <4>1. Holders \cap Migrations # {} \/ (c \in Migrations /\ Holders # {})
        BY <1>7, ClaimMeansNobodyWaits
      <4>2. PICK m \in Holders \cup {c} : m \in Migrations
        BY <4>1
      <4>3. ~(Holders \cup {c} \subseteq Writers)
        BY <4>2
      <4>4. PICK d : Holders \cup {c} = {d}
        BY <4>3 DEF Abstract!Compatible
      <4> QED BY <1>1, <2>7, <4>4
    <3> QED BY <1>1, <1>4, <1>7, <2>1, <3>1 DEF Abstract!Request
  <2> QED BY <2>4, <2>5, <2>6, <2>8, <2>9 DEF Inv
<1> QED BY <1>6, <1>7 DEF Acquire

LEMMA EnterStep ==
  ASSUME Inv, NEW c \in Callers, Enter(c)
  PROVE  Inv' /\ UNCHANGED <<Holders, waiters>>
<1>1. pc \in [Callers -> {"out", "queued", "granted", "in"}]
  BY DEF Inv, TypeOK
<1>2. Holders' = Holders
  BY <1>1 DEF Enter, Holders
<1>3. TypeOK'
  BY <1>1 DEF Enter, Inv, TypeOK
<1>4. LineInv'
  BY <1>1 DEF Enter, Inv, LineInv, Line
<1> QED BY <1>2, <1>3, <1>4 DEF Enter, Inv, LockExclusion, NoLostWakeup

(* A shared holder leaves and others remain: nobody is woken, and the head *)
(* of the line, an exclusive request, still does not fit.                  *)
LEMMA LeaveOthersInside ==
  ASSUME Inv, NEW c \in Writers, pc[c] = "in",
         activeShared - 1 # 0, activeShared' = activeShared - 1,
         pc' = [pc EXCEPT ![c] = "out"],
         UNCHANGED <<exclusiveHeld, waiters>>
  PROVE  Inv' /\ Abstract!Leave(c)
<1> USE CallersOK
<1>1. waiters \in Seq(Callers) /\ pc \in [Callers -> {"out", "queued", "granted", "in"}]
      /\ activeShared \in Nat /\ c \in Callers
  BY DEF Inv, TypeOK, Callers
<1>2. Holders' = Holders \ {c} /\ c \in Holders
  BY <1>1 DEF Holders
<1>3. Holders' \cap Writers = (Holders \cap Writers) \ {c}
  BY <1>2
<1>4. /\ activeShared' = Cardinality(Holders' \cap Writers)
      /\ activeShared' \in Nat
  <2>1. /\ IsFiniteSet((Holders \cap Writers) \ {c})
        /\ Cardinality((Holders \cap Writers) \ {c}) = Cardinality(Holders \cap Writers) - 1
    BY <1>2, HoldersFinite, FS_RemoveElement
  <2>2. Cardinality((Holders \cap Writers) \ {c}) \in Nat
    BY <2>1, FS_CardinalityType
  <2>3. activeShared = Cardinality(Holders \cap Writers)
    BY DEF Inv, LockExclusion
  <2> QED BY <1>3, <2>1, <2>2, <2>3
<1>5. Holders' \cap Writers # {}
  BY <1>1, <1>4, FS_EmptySet
<1>6. Holders \cap Migrations = {} /\ ~exclusiveHeld
  BY <1>2 DEF Inv, LockExclusion
<1>7. LockExclusion'
  BY <1>2, <1>4, <1>6 DEF LockExclusion
<1>8. TypeOK'
  <2>1. pc' \in [Callers -> {"out", "queued", "granted", "in"}]
    BY <1>1
  <2> QED BY <1>4, <2>1 DEF Inv, TypeOK
<1>9. LineInv'
  BY <1>1 DEF Inv, LineInv, Line
<1>10. NoLostWakeup'
  BY <1>5 DEF Inv, NoLostWakeup
<1>11. Abstract!Leave(c)
  <2> DEFINE admit(k) == (Holders \ {c}) \cup {waiters[i] : i \in 1..k}
  <2>1. admit(0) = Holders'
    BY <1>2
  <2>2. 0 < Len(waiters) => ~Abstract!Compatible(admit(0 + 1))
    <3> SUFFICES ASSUME 0 < Len(waiters), Abstract!Compatible(admit(1))
                 PROVE  FALSE
      OBVIOUS
    <3>1. waiters[1] \in Migrations /\ waiters[1] \in admit(1)
      BY <1>1, <1>6 DEF Inv, NoLostWakeup
    <3>2. PICK w \in Writers : w \in admit(1)
      BY <1>2, <1>5
    <3> QED BY <3>1, <3>2 DEF Abstract!Compatible
  <2>3. waiters' = SubSeq(waiters, 0 + 1, Len(waiters))
    BY <1>1
  <2>4. 0 \in 0..Len(waiters)
    BY <1>1
  <2> QED BY <1>2, <2>1, <2>2, <2>3, <2>4 DEF Abstract!Leave
<1> QED BY <1>7, <1>8, <1>9, <1>10, <1>11 DEF Inv

(* The last holder leaves: those woken hold the lock from this very step.  *)
LEMMA LeaveAndWake ==
  ASSUME Inv, NEW c \in Callers, Holders = {c}, WakeNext(c, 0)
  PROVE  Inv' /\ Abstract!Leave(c)
<1> USE CallersOK
<1>1. waiters \in Seq(Callers) /\ pc \in [Callers -> {"out", "queued", "granted", "in"}]
  BY DEF Inv, TypeOK
<1>2. PICK n \in 0..Len(waiters) :
        LET next == {waiters[i] : i \in 1..n}
        IN  /\ \/ /\ n = 1 /\ waiters[1] \in Migrations
                  /\ exclusiveHeld' = TRUE
                  /\ activeShared' = 0
               \/ /\ next \subseteq Writers
                  /\ n < Len(waiters) => n > 0 /\ waiters[n + 1] \in Migrations
                  /\ exclusiveHeld' = FALSE
                  /\ activeShared' = 0 + n
            /\ waiters' = SubSeq(waiters, n + 1, Len(waiters))
            /\ pc' = [d \in Callers |-> IF d = c THEN "out"
                                        ELSE IF d \in next THEN "granted" ELSE pc[d]]
  BY DEF WakeNext
<1> DEFINE next == {waiters[i] : i \in 1..n}
<1>3. DOMAIN waiters = 1..Len(waiters) /\ Len(waiters) \in Nat /\ n \in Nat
      /\ 1..n \subseteq DOMAIN waiters
  BY <1>1
<1>4. next \subseteq Line /\ Line \subseteq Callers /\ c \notin Line
  <2>1. pc[c] # "queued"
    BY DEF Holders
  <2> QED BY <1>1, <1>3, <2>1 DEF Line, Inv, LineInv
<1> HIDE DEF next
<1>5. IsFiniteSet(next) /\ Cardinality(next) = n
  <2>1. n \in 0..Len(waiters) /\ \A i, j \in DOMAIN waiters : waiters[i] = waiters[j] => i = j
    BY <1>2 DEF Inv, LineInv
  <2>2. waiters \in Seq(Callers)
    BY <1>1
  <2>3. next = {waiters[i] : i \in 1..n}
    BY DEF next
  <2> QED BY <2>1, <2>2, <2>3, FrontCardinality
<1> USE DEF next
<1>6. Holders' = next
  BY <1>1, <1>2, <1>4 DEF Holders
<1>7. /\ waiters' \in Seq(Callers)
      /\ DOMAIN waiters' = 1..(Len(waiters) - n)
      /\ Len(waiters') = Len(waiters) - n
      /\ \A i \in DOMAIN waiters' : waiters'[i] = waiters[i + n] /\ i + n \in DOMAIN waiters
  <2>1. waiters' = SubSeq(waiters, n + 1, Len(waiters)) /\ n \in 0..Len(waiters)
    BY <1>2
  <2>2. waiters' \in Seq(Callers)
    BY <1>1, <1>3, <2>1
  <2>3. Len(waiters') = Len(waiters) - n /\ DOMAIN waiters' = 1..(Len(waiters) - n)
    <3>1. \A i \in (n + 1)..Len(waiters) : waiters[i] \in Callers
      BY <1>1, <1>3
    <3>2. Len(SubSeq(waiters, n + 1, Len(waiters)))
            = IF n + 1 <= Len(waiters) THEN Len(waiters) - (n + 1) + 1 ELSE 0
      BY <1>3, <3>1, SubSeqProperties
    <3>3. Len(waiters') = Len(waiters) - n
      <4>1. Len(waiters') = Len(SubSeq(waiters, n + 1, Len(waiters)))
        BY <2>1
      <4> DEFINE L == Len(waiters)
      <4>2. L \in Nat /\ n \in Nat /\ n <= L
        BY <1>3
      <4>3. Len(waiters') = IF n + 1 <= L THEN L - (n + 1) + 1 ELSE 0
        BY <3>2, <4>1
      <4> HIDE DEF L
      <4>4. Len(waiters') = L - n
        BY <4>2, <4>3
      <4> QED BY <4>4 DEF L
    <3> QED BY <2>2, <3>3
  <2>4. \A i \in 1..(Len(waiters) - n) : waiters'[i] = waiters[i + n] /\ i + n \in DOMAIN waiters
    BY <1>1, <1>3, <2>1, SubSeqProperties
  <2> QED BY <2>2, <2>3, <2>4
<1>8. Line' = Line \ next
  <2>1. \A d \in Line' : d \in Line \ next
    BY <1>3, <1>7 DEF Line, Inv, LineInv
  <2>2. \A d \in Line \ next : d \in Line'
    <3> SUFFICES ASSUME NEW j \in DOMAIN waiters, waiters[j] \notin next
                 PROVE  waiters[j] \in Line'
      BY DEF Line
    <3>1. j - n \in DOMAIN waiters' /\ (j - n) + n = j
      BY <1>3, <1>7
    <3> QED BY <1>7, <3>1 DEF Line
  <2> QED BY <2>1, <2>2
<1>9. LineInv'
  <2>1. \A i, j \in DOMAIN waiters' : waiters'[i] = waiters'[j] => i = j
    BY <1>3, <1>7 DEF Inv, LineInv
  <2>2. \A d \in Callers : pc'[d] = "queued" <=> d \in Line'
    BY <1>2, <1>4, <1>8 DEF Inv, LineInv
  <2> QED BY <2>1, <2>2 DEF LineInv
<1>10. /\ LockExclusion' /\ NoLostWakeup'
       /\ Abstract!Compatible(next)
       /\ n < Len(waiters) => ~Abstract!Compatible({waiters[i] : i \in 1..(n + 1)})
       /\ activeShared' \in Nat /\ exclusiveHeld' \in BOOLEAN
  <2>1. CASE n = 1 /\ waiters[1] \in Migrations
             /\ exclusiveHeld' = TRUE /\ activeShared' = 0
    <3>1. next = {waiters[1]}
      BY <2>1
    <3>2. Holders' \cap Writers = {}
      BY <1>6, <2>1, <3>1
    <3>3. LockExclusion'
      BY <1>6, <2>1, <3>1, <3>2, FS_EmptySet DEF LockExclusion
    <3>4. NoLostWakeup'
      BY <1>6, <2>1, <3>1 DEF NoLostWakeup
    <3>5. Abstract!Compatible(next)
      BY <2>1, <3>1 DEF Abstract!Compatible
    <3>6. n < Len(waiters) => ~Abstract!Compatible({waiters[i] : i \in 1..(n + 1)})
      <4> SUFFICES ASSUME 1 < Len(waiters), Abstract!Compatible({waiters[i] : i \in 1..2})
                   PROVE  FALSE
        BY <2>1
      <4>1. waiters[1] # waiters[2]
        BY <1>3 DEF Inv, LineInv
      <4> QED BY <2>1, <4>1 DEF Abstract!Compatible
    <3>7. activeShared' \in Nat /\ exclusiveHeld' \in BOOLEAN
      BY <2>1
    <3> QED BY <3>3, <3>4, <3>5, <3>6, <3>7, Zenon
  <2>2. CASE /\ next \subseteq Writers
             /\ n < Len(waiters) => n > 0 /\ waiters[n + 1] \in Migrations
             /\ exclusiveHeld' = FALSE /\ activeShared' = n
    <3>1. Holders' \cap Writers = next /\ Holders' \cap Migrations = {}
      BY <1>6, <2>2
    <3>2. LockExclusion'
      BY <1>5, <2>2, <3>1 DEF LockExclusion
    <3>3. NoLostWakeup'
      <4> SUFFICES ASSUME waiters' # <<>>
                   PROVE  Holders' # {} /\ waiters'[1] \in Migrations
        BY DEF NoLostWakeup
      <4>1. n < Len(waiters) /\ 1 \in DOMAIN waiters'
        BY <1>3, <1>7
      <4>2. waiters'[1] = waiters[n + 1] /\ waiters[1] \in next
        BY <1>3, <1>7, <2>2, <4>1
      <4> QED BY <1>6, <2>2, <4>1, <4>2
    <3>4. Abstract!Compatible(next)
      BY <2>2 DEF Abstract!Compatible
    <3>5. n < Len(waiters) => ~Abstract!Compatible({waiters[i] : i \in 1..(n + 1)})
      <4> SUFFICES ASSUME n < Len(waiters), Abstract!Compatible({waiters[i] : i \in 1..(n + 1)})
                   PROVE  FALSE
        OBVIOUS
      <4>1. waiters[1] \in Writers /\ waiters[n + 1] \in Migrations
        BY <1>3, <2>2
      <4>2. waiters[1] \in {waiters[i] : i \in 1..(n + 1)}
            /\ waiters[n + 1] \in {waiters[i] : i \in 1..(n + 1)}
        BY <1>3
      <4> QED BY <4>1, <4>2 DEF Abstract!Compatible
    <3>6. activeShared' \in Nat /\ exclusiveHeld' \in BOOLEAN
      BY <1>3, <2>2
    <3> HIDE DEF next
    <3> QED BY <3>2, <3>3, <3>4, <3>5, <3>6
  <2>3. \/ /\ n = 1 /\ waiters[1] \in Migrations
           /\ exclusiveHeld' = TRUE /\ activeShared' = 0
        \/ /\ next \subseteq Writers
           /\ n < Len(waiters) => n > 0 /\ waiters[n + 1] \in Migrations
           /\ exclusiveHeld' = FALSE /\ activeShared' = n
    BY <1>2, <1>3
  <2> HIDE DEF next
  <2> QED BY ONLY <2>1, <2>2, <2>3, Zenon
<1>11. TypeOK'
  <2>1. pc' \in [Callers -> {"out", "queued", "granted", "in"}]
    BY <1>1, <1>2
  <2> QED BY <1>7, <1>10, <2>1 DEF TypeOK
<1>12. Abstract!Leave(c)
  <2>1. Holders \ {c} = {}
    OBVIOUS
  <2> QED BY <1>2, <1>6, <1>10, <2>1 DEF Abstract!Leave
<1> QED BY <1>9, <1>10, <1>11, <1>12 DEF Inv

LEMMA ReleaseStep ==
  ASSUME Inv, NEW c \in Callers, ReleaseShared(c) \/ ReleaseExclusive(c)
  PROVE  Inv' /\ Abstract!Leave(c)
<1> USE CallersOK
<1>1. c \in Holders
  BY DEF ReleaseShared, ReleaseExclusive, Holders
<1>2. CASE c \in Writers /\ activeShared - 1 = 0
  <2>1. IsFiniteSet(Holders \cap Writers) /\ Cardinality(Holders \cap Writers) = 1
    BY <1>2, HoldersFinite DEF Inv, TypeOK, LockExclusion
  <2>2. Holders \cap Writers = {c}
    BY <1>1, <1>2, <2>1, FS_Singleton
  <2>3. Holders = {c}
    BY <1>1, <1>2, <2>2 DEF Inv, LockExclusion, Holders, Callers
  <2>4. WakeNext(c, 0)
    BY <1>2 DEF ReleaseShared, ReleaseExclusive
  <2> QED BY <2>3, <2>4, LeaveAndWake
<1>3. CASE c \in Writers /\ activeShared - 1 # 0
  BY <1>3, LeaveOthersInside DEF ReleaseShared, ReleaseExclusive
<1>4. CASE c \in Migrations
  <2>1. Holders = {c} /\ Holders \cap Writers = {}
    BY <1>1, <1>4 DEF Inv, LockExclusion
  <2>2. activeShared = 0
    BY <2>1, FS_EmptySet DEF Inv, LockExclusion
  <2>3. WakeNext(c, 0)
    BY <1>4, <2>2 DEF ReleaseShared, ReleaseExclusive
  <2> QED BY <2>1, <2>3, LeaveAndWake
<1> QED BY <1>2, <1>3, <1>4 DEF Callers

LEMMA NextInv ==
  ASSUME Inv, [Next]_vars
  PROVE  Inv' /\ [Abstract!Next]_<<Holders, waiters>>
<1>1. CASE UNCHANGED vars
  BY <1>1 DEF vars, Inv, TypeOK, LineInv, Line, LockExclusion, NoLostWakeup, Holders
<1>2. CASE Next
  <2>1. PICK c \in Callers :
          Acquire(c) \/ Enter(c) \/ ReleaseShared(c) \/ ReleaseExclusive(c)
    BY <1>2 DEF Next
  <2>2. c \in Abstract!Callers
    BY DEF Callers, Abstract!Callers
  <2>3. CASE Acquire(c)
    BY <2>2, <2>3, AcquireStep DEF Abstract!Next
  <2>4. CASE Enter(c)
    BY <2>4, EnterStep
  <2>5. CASE ReleaseShared(c) \/ ReleaseExclusive(c)
    BY <2>2, <2>5, ReleaseStep DEF Abstract!Next
  <2> QED BY <2>1, <2>3, <2>4, <2>5
<1> QED BY <1>1, <1>2

LEMMA Invariance == Spec => []Inv
BY InitInv, NextInv, PTL DEF Spec

(* The counter, the flag, the line and the calls keep their types.         *)
THEOREM AdmissionTypes == Spec => []TypeOK
BY Invariance, PTL DEF Inv

(* The counter and the flag always say who owns the lock, and a migration  *)
(* batch owns it alone, for any number of writers and migrations.          *)
THEOREM AdmissionExclusion == Spec => []LockExclusion
BY Invariance, PTL DEF Inv

(* No release leaves a waiter behind with nobody left to wake it.          *)
THEOREM AdmissionNoLostWakeup == Spec => []NoLostWakeup
BY Invariance, PTL DEF Inv

(* The counters, the flag and the wakeups implement first-come first-served *)
(* admission: each step is a step of FairLock or leaves its state alone.   *)
THEOREM AdmissionImplementsFairLock == Spec => Implements
<1>1. Init => Abstract!Init
  BY DEF Init, Abstract!Init, Holders
<1>2. Inv /\ [Next]_vars => [Abstract!Next]_<<Holders, waiters>>
  BY NextInv
<1> QED BY <1>1, <1>2, Invariance, PTL DEF Spec, Implements, Abstract!Spec

=============================================================================
