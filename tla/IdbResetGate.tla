---------------------------- MODULE IdbResetGate ----------------------------
(***************************************************************************)
(* The gate in front of every IndexedDB connection of a tab (services/     *)
(* storage/idbResetGate.ts), as operators on its state: a flag, a          *)
(* generation counted up by every reset, and the barrier on which a reset  *)
(* waits until the modules that cache a connection have closed it.         *)
(* Generations count from 1; 0 is "none".                                  *)
(***************************************************************************)
EXTENDS Integers

None == 0

NewGate == [inReset |-> FALSE, generation |-> 1, barrier |-> None]

(* What an opener asks before it opens, and again when the open is done.   *)
OpenAdmitted(gate) == ~gate.inReset

OpenStillValidByFlag(gate, generation) == ~gate.inReset

OpenStillValid(gate, generation) ==
    ~gate.inReset /\ gate.generation = generation

(* A reset that finds one draining joins its barrier.                      *)
JoinsBarrierNever(gate) == FALSE

JoinsBarrier(gate) == gate.barrier # None

BarrierOf(gate) ==
    IF JoinsBarrier(gate) THEN gate.barrier ELSE gate.generation + 1

ResetBegunOpen(gate) ==
    [gate EXCEPT !.generation = @ + 1, !.barrier = gate.generation + 1]

ResetBegun(gate) ==
    IF JoinsBarrier(gate) THEN gate
    ELSE [inReset |-> TRUE, generation |-> gate.generation + 1,
          barrier |-> gate.generation + 1]

BarrierLeft(gate, barrier) ==
    IF gate.barrier = barrier THEN [gate EXCEPT !.barrier = None] ELSE gate

ResetEnded(gate) == [gate EXCEPT !.inReset = FALSE]
=============================================================================
