---------------------------- MODULE AtomicRecord ----------------------------
(***************************************************************************)
(* What the commit protocol of one secure record promises its callers: a   *)
(* register whose writes are atomic.  Writes are numbered in the order     *)
(* they begin.  A write that has begun is in doubt until it commits, which *)
(* makes it the record's value, or is rolled back, which it never survives;*)
(* a failed call, a killed process and a power loss leave it in doubt and  *)
(* do nothing else.  While nothing was ever committed there is no value to *)
(* roll back to, and a write in doubt gives way to the next one.  Whatever *)
(* a call returned stays committed.                                        *)
(***************************************************************************)
EXTENDS Naturals

VARIABLES value,    \* the committed write, 0 for none
          pending,  \* the write in doubt, 0 for none
          begun,    \* the newest write that has begun
          returned  \* the newest write a read or a write's success reported

vars == <<value, pending, begun, returned>>

Init == value = 0 /\ pending = 0 /\ begun = 0 /\ returned = 0

Begin == /\ pending = 0 \/ value = 0
         /\ begun' \in Nat
         /\ begun' > begun
         /\ pending' = begun'
         /\ UNCHANGED <<value, returned>>

Commit == /\ pending # 0
          /\ value' = pending
          /\ pending' = 0
          /\ UNCHANGED <<begun, returned>>

RollBack == /\ pending # 0
            /\ pending' = 0
            /\ UNCHANGED <<value, begun, returned>>

Return == /\ returned' = value
          /\ UNCHANGED <<value, pending, begun>>

Next == Begin \/ Commit \/ RollBack \/ Return

Spec == Init /\ [][Next]_vars

Returned == returned \in Nat /\ value \in Nat /\ pending \in Nat /\ begun \in Nat
            /\ returned <= value /\ value <= begun /\ pending <= begun
            /\ (pending # 0 => value < pending)
=============================================================================
