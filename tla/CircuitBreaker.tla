--------------------------- MODULE CircuitBreaker ---------------------------
(***************************************************************************)
(* circuitBreaker.ts: the breaker of one task type, as a record and the    *)
(* operators its methods are.  Time is abstracted to two facts: cooled,    *)
(* the recovery time has passed since the last failure, and how many of    *)
(* the recorded failures are still inside the window.                      *)
(***************************************************************************)
EXTENDS Naturals

CONSTANT Threshold  \* threshold: failures in the window that open it

ASSUME ThresholdOK == Threshold \in Nat \ {0}

Breaker == [state    : {"closed", "open", "half-open"},
            failures : 0..Threshold,  \* more than Threshold count as Threshold
            testing  : BOOLEAN,       \* halfOpenTestPending
            cooled   : BOOLEAN]

Closed == [state |-> "closed", failures |-> 0, testing |-> FALSE, cooled |-> FALSE]

(* getState: reading the state turns an open breaker half-open *)
Seen(b) ==
  IF b.state = "open" /\ b.cooled
    THEN [b EXCEPT !.state = "half-open", !.testing = FALSE, !.cooled = FALSE]
    ELSE b

(* canExecute, its answer *)
CanExecute(b) ==
  \/ Seen(b).state = "closed"
  \/ Seen(b).state = "half-open" /\ ~Seen(b).testing

(* canExecute, the breaker after the call: the test request is taken *)
Asked(b) == [Seen(b) EXCEPT !.testing = (@ \/ Seen(b).state = "half-open")]

(* recordSuccess *)
Succeeded(b) ==
  IF b.state = "half-open"
    THEN [b EXCEPT !.failures = 0, !.state = "closed", !.testing = FALSE]
    ELSE [b EXCEPT !.failures = 0]

(* recordFailure: any of the earlier failures may have left the window *)
Failed(b) ==
  {LET c == [b EXCEPT !.failures = k, !.cooled = FALSE]
   IN  IF k = Threshold \/ b.state = "half-open"
         THEN [c EXCEPT !.state = "open", !.testing = FALSE]
         ELSE c :
   k \in 1..(IF b.failures = Threshold THEN Threshold ELSE b.failures + 1)}

=============================================================================
