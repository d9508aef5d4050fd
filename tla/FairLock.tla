------------------------------ MODULE FairLock ------------------------------
(***************************************************************************)
(* What a first-come first-served reader/writer lock promises: a set of    *)
(* holders, any number of readers or one writer, and one line of waiting   *)
(* requests.  It has no counters, no flag and no wakeups: the front of the *)
(* line is always blocked by the holders.                                  *)
(***************************************************************************)
EXTENDS Naturals, FiniteSets, Sequences

CONSTANTS Writers,    \* requests for shared admission
          Migrations  \* requests for exclusive admission

VARIABLES holders, queue

Callers == Writers \cup Migrations

InLine == {queue[i] : i \in DOMAIN queue}

(* A set of requests may hold the lock together *)
Compatible(H) == H \subseteq Writers \/ \E c \in Migrations : H = {c}

Init == holders = {} /\ queue = <<>>

(* A request is admitted at once only when nobody waits and it fits *)
Request(c) ==
  /\ c \notin holders \cup InLine
  /\ IF queue = <<>> /\ Compatible(holders \cup {c})
       THEN holders' = holders \cup {c} /\ UNCHANGED queue
       ELSE queue' = Append(queue, c) /\ UNCHANGED holders

(* A holder leaves; the longest front of the line that fits enters *)
Leave(c) ==
  /\ c \in holders
  /\ \E n \in 0..Len(queue) :
       LET admit(k) == (holders \ {c}) \cup {queue[i] : i \in 1..k}
       IN  /\ n = 0 \/ Compatible(admit(n))
           /\ n < Len(queue) => ~Compatible(admit(n + 1))
           /\ holders' = admit(n)
           /\ queue' = SubSeq(queue, n + 1, Len(queue))

Next == \E c \in Callers : Request(c) \/ Leave(c)

Spec == Init /\ [][Next]_<<holders, queue>>

=============================================================================
