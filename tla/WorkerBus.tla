------------------------------ MODULE WorkerBus ------------------------------
(***************************************************************************)
(* The background-task scheduler of the browser app: workerBus.ts with its *)
(* worker pools (workerPool.ts), its bounded priority queue and a circuit  *)
(* breaker per task type.  A task is enqueued, dispatched to a worker,     *)
(* retried after a failure, and settled once: with its result, a failure,  *)
(* a cancellation or the shutdown of the bus.                              *)
(*                                                                         *)
(* JavaScript runs one job at a time.  A job is a task of the event loop   *)
(* (a message, a timer, an error event) or a microtask (a continuation of  *)
(* a promise, the scheduled pump), and the event loop waits until no       *)
(* microtask is left.  Calls of the app (enqueue, cancel, ...) may come    *)
(* from either.  The pump is a loop inside one job: nothing else runs      *)
(* while pumping.                                                          *)
(*                                                                         *)
(* A progress message only sets the watchdog again; the watchdog fires at  *)
(* any time.  Telemetry, the dead-letter list and the payloads are left    *)
(* out.  Every task type is guarded by a breaker (enableCircuitBreaker).   *)
(***************************************************************************)
EXTENDS PriorityTaskQueue, CircuitBreaker, FiniteSets

CONSTANTS Tasks, Types, Pools,
          Workers,    \* names of the workers of a pool, enough to spawn one
          TypeOf,     \* taskType of each task
          Priority,   \* priority of each task
          Serves,     \* Serves[p]: tasks whose capabilities pool p has
          MaxWorkers, \* maxWorkers of each pool
          MinWorkers, \* minWorkers of each pool
          MaxRetries, \* retryPolicy.maxRetries
          None,       \* no pool, no worker
          MaxFaults,  \* bound: calls that throw (new Worker, postMessage)
          MaxErrors   \* bound: error events still queued when handled

ASSUME BusOK ==
  /\ TypeOf \in [Tasks -> Types] /\ Priority \in [Tasks -> Priorities]
  /\ Serves \in [Pools -> SUBSET Tasks] /\ None \notin Pools \cup Workers
  /\ MaxWorkers \in [Pools -> Nat \ {0}] /\ MinWorkers \in [Pools -> Nat]
  /\ MaxRetries \in Nat /\ MaxFaults \in Nat /\ MaxErrors \in Nat
  /\ IsFiniteSet(Workers) /\ \A p \in Pools : Cardinality(Workers) >= MaxWorkers[p] + MaxErrors

VARIABLES
  running,       \* the bus accepts tasks
  pools,         \* registered pools, in the order of the Map
  down,          \* pools whose shutdownFlag is set
  dying,         \* pools inside terminatePool, past its await
  closing,       \* pools shutdown has still to terminate
  entries,       \* entries[p]: workers of the pool
  busy,          \* busy[p]: those in state busy
  idleTimer,     \* idleTimer[p]: those whose idle timer is set
  errs,          \* errs[p]: queued error events, by the worker that threw
  queue,         \* the priority queue
  breaker,       \* circuitBreakers
  task,          \* pendingTasks
  attempts,      \* attempts whose promise chain has not ended
  pumpScheduled, \* pumpScheduled
  pumping,       \* inside pump
  faults, errors \* bound counters

pvars == <<entries, busy, idleTimer>>
cvars == <<running, pools, down, dying, closing>>
tvars == <<queue, breaker, task, attempts>>
vars  == <<cvars, pvars, tvars, errs, pumpScheduled, pumping, faults, errors>>

(* PendingTask with the requeueCount of the queue; active is the number    *)
(* of its attempt, 0 for undefined.  An attempt has the number of the       *)
(* retry it belongs to, plus one.                                           *)
Task == [pending : BOOLEAN, requeued : 0..MaxPreemptions, retry : 0..MaxRetries,
         watchdog : BOOLEAN, retryTimer : BOOLEAN, active : 0..(MaxRetries + 1)]

(* Not in pendingTasks: not enqueued yet, refused, or settled.  The task id *)
(* may come back as another task once no attempt refers to it.              *)
NoTask == [pending |-> FALSE, requeued |-> 0, retry |-> 0,
           watchdog |-> FALSE, retryTimer |-> FALSE, active |-> 0]

(* ActiveAttempt with the promise of runOnPool: run, it waits for the      *)
(* worker; result, its finally block is due; accept, executeAttempt is due. *)
(* A worker that left its pool is called None: entries.find fails for it.  *)
Attempt == [task : Tasks, n : 1..(MaxRetries + 1), worker : Workers \cup {None}, pool : Pools,
            timedOut : BOOLEAN, res : {"none", "ok", "failed", "cancelled"},
            stage : {"run", "result", "accept"}]

Pending(t) == task[t].pending
InPools(p) == \E i \in DOMAIN pools : pools[i] = p
Idle(p)    == entries[p] \ busy[p]

TypeOK ==
  /\ running \in BOOLEAN /\ pools \in Seq(Pools) /\ down \subseteq Pools
  /\ dying \subseteq Pools /\ closing \in Seq(Pools)
  /\ {entries, busy, idleTimer} \subseteq [Pools -> SUBSET Workers]
  /\ errs \in [Pools -> Seq(Workers \cup {None})]
  /\ queue \in [Priorities -> Seq(Tasks)]
  /\ breaker \in [Types -> Breaker]
  /\ task \in [Tasks -> Task] /\ attempts \subseteq Attempt
  /\ pumpScheduled \in BOOLEAN /\ pumping \in BOOLEAN
  /\ faults \in 0..MaxFaults /\ errors \in 0..MaxErrors

Init ==
  /\ running = TRUE /\ pools = <<>> /\ down = {} /\ dying = {} /\ closing = <<>>
  /\ entries = [p \in Pools |-> {}] /\ busy = entries /\ idleTimer = entries
  /\ errs = [p \in Pools |-> <<>>]
  /\ queue = EmptyQueue
  /\ breaker = [y \in Types |-> Closed]
  /\ task = [t \in Tasks |-> NoTask]
  /\ attempts = {} /\ pumpScheduled = FALSE /\ pumping = FALSE
  /\ faults = 0 /\ errors = 0

(* A microtask is due *)
MicroDue ==
  \/ pumpScheduled
  \/ \E a \in attempts : a.stage # "run"
  \/ dying # {}
  \/ ~running /\ pools # <<>>

EventLoop == ~pumping /\ ~MicroDue
App       == ~pumping

(* schedulePump *)
SchedulePump == pumpScheduled' = (pumpScheduled \/ running)

\* Mutant of Notify: the bus does not listen to its pools.
NotifyUnheard(p) == UNCHANGED pumpScheduled

(* notifyAvailable: the listener of the pool, while it is subscribed *)
Notify(p) ==
  pumpScheduled' = (pumpScheduled \/ (running /\ InPools(p) /\ p \notin dying))

(* resolvePool: the first registered pool that has the capabilities *)
PoolFor(t) ==
  LET fit == {i \in DOMAIN pools : t \in Serves[pools[i]]}
  IN  IF fit = {} THEN None
      ELSE pools[CHOOSE i \in fit : \A j \in fit : i <= j]

-----------------------------------------------------------------------------
(* Settling a task *)

(* finalize, for every task of S; tk is pendingTasks.  How a task was      *)
(* settled makes no difference to the scheduler.                           *)
Settled(tk, S) == [t \in Tasks |-> IF t \in S THEN NoTask ELSE tk[t]]

(* handleAttemptResult for a result that is a success *)
SucceedAttempt(t, tk) ==
  /\ breaker' = [breaker EXCEPT ![TypeOf[t]] = Succeeded(@)]
  /\ task' = Settled(tk, {t})
  /\ queue' = Removed(queue, t)

\* Mutant of FailAttempt: one retry too many.
FailAttemptOnceMore(t, recoverable, tk, q) ==
  /\ \E b \in Failed(breaker[TypeOf[t]]) :
       breaker' = [breaker EXCEPT ![TypeOf[t]] = b]
  /\ \/ /\ recoverable /\ tk[t].retry <= MaxRetries
        /\ task' = [tk EXCEPT ![t].retry = @ + 1, ![t].watchdog = FALSE,
                              ![t].retryTimer = TRUE]
        /\ queue' = q
     \/ /\ ~(recoverable /\ tk[t].retry <= MaxRetries)
        /\ task' = Settled(tk, {t})
        /\ queue' = Removed(q, t)

(* handleAttemptResult for a failure, with the queue as q: retry after a   *)
(* back-off, or give up.  A cancelled task never gets here.                *)
FailAttempt(t, recoverable, tk, q) ==
  /\ \E b \in Failed(breaker[TypeOf[t]]) :
       breaker' = [breaker EXCEPT ![TypeOf[t]] = b]
  /\ \/ /\ recoverable /\ tk[t].retry < MaxRetries
        /\ task' = [tk EXCEPT ![t].retry = @ + 1, ![t].watchdog = FALSE,
                              ![t].retryTimer = TRUE]
        /\ queue' = q
     \/ /\ ~(recoverable /\ tk[t].retry < MaxRetries)
        /\ task' = Settled(tk, {t})
        /\ queue' = Removed(q, t)

(* attempt.token.cancel: the abort listener resolves the promise, if the   *)
(* worker has not done so                                                  *)
Aborted(a) == IF a.stage = "run" THEN [a EXCEPT !.res = "cancelled", !.stage = "result"]
              ELSE a

Current(a) == task[a.task].active = a.n

-----------------------------------------------------------------------------
(* Calls of the app *)

(* registerPool; none is registered after shutdown *)
RegisterPool(p) ==
  /\ App /\ running /\ ~InPools(p)
  /\ pools' = Append(pools, p)
  /\ SchedulePump
  /\ UNCHANGED <<running, down, dying, closing, pvars, tvars, errs, pumping, faults, errors>>

(* enqueue.  The breaker is asked, and a half-open one gives its test      *)
(* request away, before the queue is.                                      *)
Enqueue(t) ==
  /\ App /\ running /\ ~Pending(t) /\ \A a \in attempts : a.task # t
  /\ breaker' = [breaker EXCEPT ![TypeOf[t]] = Asked(@)]
  /\ \/ /\ CanExecute(breaker[TypeOf[t]]) /\ Admits(queue, Priority[t])
        /\ queue' = Pushed(queue, t, Priority[t])
        /\ task' = [task EXCEPT ![t].pending = TRUE, ![t].watchdog = TRUE]
        /\ SchedulePump
     \/ /\ ~(CanExecute(breaker[TypeOf[t]]) /\ Admits(queue, Priority[t]))
        /\ UNCHANGED <<queue, task, pumpScheduled>>
  /\ UNCHANGED <<cvars, pvars, attempts, errs, pumping, faults, errors>>

\* Mutant of Cancel: a queued task stays in the queue.
CancelQueued(t) ==
  /\ App /\ Pending(t)
  /\ task' = Settled(task, {t})
  /\ attempts' = {IF a.task = t /\ Current(a) THEN Aborted(a) ELSE a : a \in attempts}
  /\ UNCHANGED <<cvars, pvars, queue, breaker, errs, pumpScheduled, pumping, faults, errors>>

(* cancel *)
Cancel(t) ==
  /\ App /\ Pending(t)
  /\ queue' = Removed(queue, t)
  /\ task' = Settled(task, {t})
  /\ attempts' = {IF a.task = t /\ Current(a) THEN Aborted(a) ELSE a : a \in attempts}
  /\ UNCHANGED <<cvars, pvars, breaker, errs, pumpScheduled, pumping, faults, errors>>

(* Worker w of pool p leaves it: what attempts and queued events know of it *)
Left(atts, p, w) ==
  {IF a.pool = p /\ a.worker = w THEN [a EXCEPT !.worker = None] ELSE a : a \in atts}

Outlived(events, p, w) ==
  [events EXCEPT ![p] = [i \in DOMAIN @ |-> IF @[i] = w THEN None ELSE @[i]]]

(* Every task of S is settled and its attempt told to stop; then           *)
(* terminateAll of the pools of P.  Error events of their workers will     *)
(* find the shutdown flag set and do nothing.                              *)
StopAll(S, P) ==
  LET Gone(f, empty) == [p \in Pools |-> IF p \in P THEN empty ELSE f[p]]
      told == {IF a.task \in S /\ Current(a) THEN Aborted(a) ELSE a : a \in attempts}
  IN  /\ queue' = [i \in Priorities |-> Only(queue[i], Tasks \ S)]
      /\ task' = Settled(task, S)
      /\ attempts' = {IF a.pool \in P THEN [a EXCEPT !.worker = None] ELSE a : a \in told}
      /\ down' = down \cup P
      /\ entries' = Gone(entries, {}) /\ busy' = Gone(busy, {})
      /\ idleTimer' = Gone(idleTimer, {}) /\ errs' = Gone(errs, <<>>)

(* terminatePool, up to its await *)
TerminatePool(p) ==
  /\ App /\ InPools(p) /\ p \notin dying
  /\ LET uses(t) == \E a \in attempts : a.task = t /\ Current(a) /\ a.pool = p
     IN  StopAll({t \in Tasks : Pending(t) /\ (PoolFor(t) = p \/ uses(t))}, {p})
  /\ dying' = dying \cup {p}
  /\ UNCHANGED <<running, pools, closing, breaker, pumpScheduled, pumping,
                 faults, errors>>

(* terminatePool, after its await *)
TerminatePoolEnd(p) ==
  /\ App /\ p \in dying
  /\ pools' = Only(pools, Pools \ {p})
  /\ dying' = dying \ {p}
  /\ down' = down \ {p}
  /\ SchedulePump
  /\ UNCHANGED <<running, closing, pvars, tvars, errs, pumping, faults, errors>>

(* shutdown, up to its first await: everything pending is settled, and the *)
(* first pool is terminated                                                *)
Shutdown ==
  /\ App /\ running
  /\ running' = FALSE
  /\ StopAll({t \in Tasks : Pending(t)}, {pools[i] : i \in DOMAIN pools \cap {1}})
  /\ closing' = SubSeq(pools, 2, Len(pools))
  /\ UNCHANGED <<pools, dying, breaker, pumpScheduled, pumping, faults, errors>>

(* shutdown, after an await: the next pool, or the end *)
ShutdownNext ==
  /\ App /\ ~running /\ pools # <<>>
  /\ StopAll({}, {closing[i] : i \in DOMAIN closing \cap {1}})
  /\ closing' = SubSeq(closing, 2, Len(closing))
  /\ pools' = IF closing = <<>> THEN <<>> ELSE pools
  /\ UNCHANGED <<running, dying, breaker, pumpScheduled, pumping, faults, errors>>

-----------------------------------------------------------------------------
(* Worker threads of a pool *)

(* The name of a worker spawned beside those of ws *)
Fresh(ws) == CHOOSE w \in Workers : w \notin ws

(* restartWorker: the worker goes, its queued events stay, and a           *)
(* replacement is spawned, idle, unless new Worker throws; the error then  *)
(* leaves the caller.                                                      *)
Restart(p, w, atts, events) ==
  LET rest == entries[p] \ {w}
  IN  /\ attempts' = Left(atts, p, w)
      /\ errs' = Outlived(events, p, w)
      /\ busy' = [busy EXCEPT ![p] = @ \ {w}]
      /\ idleTimer' = [idleTimer EXCEPT ![p] = @ \ {w}]
      /\ \/ /\ entries' = [entries EXCEPT ![p] = rest \cup {Fresh(rest)}]
            /\ Notify(p)
            /\ UNCHANGED faults
         \/ /\ faults < MaxFaults
            /\ faults' = faults + 1
            /\ entries' = [entries EXCEPT ![p] = rest]
            /\ UNCHANGED pumpScheduled

(* No pong within WORKER_PONG_TIMEOUT_MS, or an error event handled before *)
(* the thread is terminated or throws again.  The task it ran is not told. *)
WorkerLost(p, w) ==
  /\ EventLoop /\ w \in entries[p]
  /\ Restart(p, w, attempts, errs)
  /\ UNCHANGED <<cvars, queue, breaker, task, pumping, errors>>

(* A thread throws once more than the main thread has seen *)
Throw(p, w) ==
  /\ ~pumping /\ w \in entries[p] /\ errors < MaxErrors
  /\ errs' = [errs EXCEPT ![p] = Append(@, w)]
  /\ errors' = errors + 1
  /\ UNCHANGED <<cvars, pvars, tvars, pumpScheduled, pumping, faults>>

(* The error listener: it restarts the worker, also one that is gone *)
ErrorEvent(p) ==
  /\ EventLoop /\ errs[p] # <<>>
  /\ Restart(p, Head(errs[p]), attempts, [errs EXCEPT ![p] = Tail(@)])
  /\ UNCHANGED <<cvars, queue, breaker, task, pumping, errors>>

(* The idle timer of release *)
IdleTimeout(p, w) ==
  /\ EventLoop /\ w \in idleTimer[p]
  /\ idleTimer' = [idleTimer EXCEPT ![p] = @ \ {w}]
  /\ IF Cardinality(entries[p]) > MinWorkers[p]
       THEN /\ entries' = [entries EXCEPT ![p] = @ \ {w}]
            /\ errs' = Outlived(errs, p, w)
       ELSE UNCHANGED <<entries, errs>>
  /\ UNCHANGED <<cvars, busy, tvars, pumpScheduled, pumping, faults, errors>>

-----------------------------------------------------------------------------
(* The pump *)

(* tryAcquire, whether it has a worker to give *)
CanAcquire(p) ==
  p \notin down /\ (Idle(p) # {} \/ Cardinality(entries[p]) < MaxWorkers[p])

(* selectCandidate: the task leaves the queue, to run or to fail.  (No     *)
(* settled task is in the queue: OnePlace.)                                *)
Selectable(t) == PoolFor(t) = None \/ CanAcquire(PoolFor(t))

PumpStart ==
  /\ App /\ pumpScheduled
  /\ pumpScheduled' = FALSE
  /\ pumping' = TRUE
  /\ UNCHANGED <<cvars, pvars, tvars, errs, faults, errors>>

PumpEnd ==
  /\ pumping
  /\ ~running \/ \A pl \in Places(queue) : ~Selectable(At(queue, pl))
  /\ pumping' = FALSE
  /\ UNCHANGED <<cvars, pvars, tvars, errs, pumpScheduled, faults, errors>>

(* tryAcquire finds w idle, or spawns it *)
Acquired(p, w) == w \in Idle(p) \/ (Idle(p) = {} /\ w = Fresh(entries[p]))

(* startAttempt, up to the first await of runOnPool *)
StartAttempt(t, p, w, tk) ==
  LET n == task[t].retry + 1
      new(v, r, s) == [task |-> t, n |-> n, worker |-> v, pool |-> p,
                       timedOut |-> FALSE, res |-> r, stage |-> s]
  IN  /\ task' = [tk EXCEPT ![t].active = n]
      /\ entries' = [entries EXCEPT ![p] = @ \cup {w}]
      /\ \/ /\ attempts' = attempts \cup {new(w, "none", "run")}
            /\ busy' = [busy EXCEPT ![p] = @ \cup {w}]
            /\ idleTimer' = [idleTimer EXCEPT ![p] = @ \ {w}]
            /\ UNCHANGED <<pumpScheduled, faults>>
         \/ \* postMessage throws, and the finally block releases the worker
            /\ faults < MaxFaults
            /\ faults' = faults + 1
            /\ attempts' = attempts \cup {new(None, "failed", "accept")}
            /\ idleTimer' = [idleTimer EXCEPT ![p] = @ \cup {w}]
            /\ Notify(p)
            /\ UNCHANGED busy

(* One round of the loop in pump: dequeueRunnableTask, dispatchSelection *)
Dispatch ==
  /\ pumping /\ running
  /\ \E pl \in FirstOf({x \in Places(queue) : Selectable(At(queue, x))}) :
       LET t  == At(queue, pl)
           q  == RemovedAt(queue, pl)
           q2 == Promoted(q, pl[1], [u \in Tasks |-> task[u].requeued])
           tk == [u \in Tasks |-> [task[u] EXCEPT !.requeued = PassedOver(q, pl[1], @, u)]]
           p  == PoolFor(t)
       IN  \/ /\ p = None
              /\ FailAttempt(t, FALSE, tk, q2)
              /\ UNCHANGED <<pvars, attempts, pumpScheduled, faults>>
           \/ /\ p # None
              /\ \E w \in Workers : Acquired(p, w) /\ StartAttempt(t, p, w, tk)
              /\ queue' = q2
              /\ UNCHANGED breaker
           \/ \* new Worker throws
              /\ p # None /\ Idle(p) = {} /\ faults < MaxFaults
              /\ faults' = faults + 1
              /\ FailAttempt(t, TRUE, tk, q2)
              /\ UNCHANGED <<pvars, attempts, pumpScheduled>>
  /\ UNCHANGED <<cvars, errs, pumping, errors>>

-----------------------------------------------------------------------------
(* Attempts *)

(* A RESULT message of the task is handled; the thread may have been       *)
(* terminated since it was sent                                            *)
WorkerResult(a, r) ==
  /\ EventLoop /\ a.stage = "run"
  /\ attempts' = (attempts \ {a}) \cup {[a EXCEPT !.res = r, !.stage = "result"]}
  /\ UNCHANGED <<cvars, pvars, queue, breaker, task, errs, pumpScheduled,
                 pumping, faults, errors>>

\* Mutant of Release: no finally block, the worker of a cancelled attempt is
\* not released.
ReleaseAnswered(a) ==
  /\ App /\ a.stage = "result"
  /\ attempts' = (attempts \ {a}) \cup {[a EXCEPT !.stage = "accept", !.worker = None]}
  /\ \/ /\ a.res # "cancelled" /\ a.worker \in entries[a.pool]
        /\ busy' = [busy EXCEPT ![a.pool] = @ \ {a.worker}]
        /\ idleTimer' = [idleTimer EXCEPT ![a.pool] = @ \cup {a.worker}]
        /\ Notify(a.pool)
     \/ /\ a.res = "cancelled" \/ a.worker \notin entries[a.pool]
        /\ UNCHANGED <<busy, idleTimer, pumpScheduled>>
  /\ UNCHANGED <<cvars, entries, queue, breaker, task, errs, pumping,
                 faults, errors>>

(* The finally block of runOnPool, with release of the pool: the worker is *)
(* idle again, unless the attempt timed out or the worker is gone.  What   *)
(* follows never asks for the worker again.                                *)
Release(a) ==
  /\ App /\ a.stage = "result"
  /\ attempts' = (attempts \ {a}) \cup {[a EXCEPT !.stage = "accept", !.worker = None]}
  /\ \/ /\ ~a.timedOut /\ a.worker \in entries[a.pool]
        /\ busy' = [busy EXCEPT ![a.pool] = @ \ {a.worker}]
        /\ idleTimer' = [idleTimer EXCEPT ![a.pool] = @ \cup {a.worker}]
        /\ Notify(a.pool)
     \/ /\ a.timedOut \/ a.worker \notin entries[a.pool]
        /\ UNCHANGED <<busy, idleTimer, pumpScheduled>>
  /\ UNCHANGED <<cvars, entries, queue, breaker, task, errs, pumping,
                 faults, errors>>

(* The rest of executeAttempt: acceptAttemptResult or                      *)
(* handleAttemptException, then finishAttempt.  The result counts while    *)
(* the attempt is the current one of a pending task and in time.           *)
Accept(a) ==
  /\ App /\ a.stage = "accept"
  /\ attempts' = attempts \ {a}
  /\ LET t    == a.task
         here == Pending(t) /\ Current(a) /\ ~a.timedOut
         done == [task EXCEPT ![t].active = IF @ = a.n THEN 0 ELSE @]
     IN  \/ here /\ a.res = "ok" /\ SucceedAttempt(t, done)
         \/ here /\ a.res # "ok" /\ FailAttempt(t, a.res = "failed", done, queue)
         \/ ~here /\ task' = done /\ UNCHANGED <<breaker, queue>>
  /\ SchedulePump
  /\ UNCHANGED <<cvars, pvars, errs, pumping, faults, errors>>

\* Mutant of Watchdog: the attempt is expired, and its end left to it.
WatchdogExpires(t) ==
  /\ EventLoop /\ task[t].watchdog
  /\ task' = [task EXCEPT ![t].watchdog = FALSE]
  /\ queue' = Removed(queue, t)
  /\ LET mine == {a \in attempts : a.task = t /\ Current(a)}
         atts == (attempts \ mine) \cup {[Aborted(a) EXCEPT !.timedOut = TRUE] : a \in mine}
     IN  \/ \E a \in mine : /\ a.worker \in entries[a.pool]
                           /\ Restart(a.pool, a.worker, atts, errs)
         \/ /\ \A a \in mine : a.worker \notin entries[a.pool]
            /\ attempts' = atts
            /\ UNCHANGED <<pvars, errs, pumpScheduled, faults>>
  /\ UNCHANGED <<cvars, breaker, pumping, errors>>

(* handleWatchdog: no progress for timeoutMs, in the queue or in a worker; *)
(* expireAttempt replaces the worker, which may be wedged                  *)
Watchdog(t) ==
  /\ EventLoop /\ task[t].watchdog
  /\ FailAttempt(t, TRUE, task, Removed(queue, t))
  /\ LET mine == {a \in attempts : a.task = t /\ Current(a)}
         atts == (attempts \ mine) \cup {[Aborted(a) EXCEPT !.timedOut = TRUE] : a \in mine}
     IN  \/ \E a \in mine : /\ a.worker \in entries[a.pool]
                           /\ Restart(a.pool, a.worker, atts, errs)
         \/ /\ \A a \in mine : a.worker \notin entries[a.pool]
            /\ attempts' = atts
            /\ UNCHANGED <<pvars, errs, pumpScheduled, faults>>
  /\ UNCHANGED <<cvars, pumping, errors>>

(* requeueRetry: the back-off is over *)
RetryTimer(t) ==
  /\ EventLoop /\ task[t].retryTimer
  /\ LET tk == [task EXCEPT ![t].retryTimer = FALSE]
     IN  \/ /\ Admits(queue, Priority[t])
            /\ queue' = Pushed(queue, t, EffectivePriority(Priority[t], task[t].requeued))
            /\ task' = [tk EXCEPT ![t].watchdog = TRUE]
            /\ SchedulePump
            /\ UNCHANGED breaker
         \/ /\ ~Admits(queue, Priority[t])
            /\ FailAttempt(t, FALSE, tk, queue)
            /\ UNCHANGED pumpScheduled
  /\ UNCHANGED <<cvars, pvars, attempts, errs, pumping, faults, errors>>

(* The recovery time of an open breaker passes *)
Cool(y) ==
  /\ breaker[y].state = "open" /\ ~breaker[y].cooled
  /\ breaker' = [breaker EXCEPT ![y].cooled = TRUE]
  /\ UNCHANGED <<cvars, pvars, queue, task, attempts, errs, pumpScheduled,
                 pumping, faults, errors>>

(* getTelemetry reads the state of every breaker *)
GetTelemetry ==
  /\ App
  /\ breaker' = [y \in Types |-> Seen(breaker[y])]
  /\ UNCHANGED <<cvars, pvars, queue, task, attempts, errs, pumpScheduled,
                 pumping, faults, errors>>

-----------------------------------------------------------------------------
Calls == \/ \E p \in Pools : RegisterPool(p) \/ TerminatePool(p)
         \/ \E t \in Tasks : Enqueue(t) \/ Cancel(t)
         \/ Shutdown \/ GetTelemetry

Settle(t) == \E a \in attempts : a.task = t /\ (Release(a) \/ Accept(a))

Micro == \/ PumpStart \/ ShutdownNext
         \/ \E p \in Pools : TerminatePoolEnd(p)
         \/ \E t \in Tasks : Settle(t)

Pump == Dispatch \/ PumpEnd

Timers == \/ \E t \in Tasks : Watchdog(t) \/ RetryTimer(t)
          \/ \E p \in Pools, w \in Workers : IdleTimeout(p, w)
          \/ \E y \in Types : Cool(y)

Threads == \/ \E p \in Pools, w \in Workers : WorkerLost(p, w) \/ Throw(p, w)
           \/ \E p \in Pools : ErrorEvent(p)
           \/ \E a \in attempts, r \in {"ok", "failed"} : WorkerResult(a, r)

Next == Calls \/ Micro \/ Pump \/ Timers \/ Threads

Spec == Init /\ [][Next]_vars

(* A timer that is due stays in line until the event loop takes it: strong *)
(* fairness, since other jobs may go first.  That microtasks and the rest  *)
(* of a running job have their turns is what []<>EventLoop says.  Workers  *)
(* need not answer and the app need not call; no worker reports progress   *)
(* for ever.                                                               *)
Fairness == \A t \in Tasks : SF_vars(Watchdog(t) \/ RetryTimer(t))

FairSpec == Spec /\ Fairness

-----------------------------------------------------------------------------
(* Properties *)

InQueue(t) == {pl \in Places(queue) : At(queue, pl) = t}
Running(t) == \E a \in attempts : a.task = t /\ Current(a) /\ ~a.timedOut

\* A task is never lost and never doubled: while it is pending it is in the
\* queue once, or in one attempt that still counts, or waiting for its retry
\* timer; a settled one is in none of them and no timer of it is left.
OnePlace ==
  \A t \in Tasks :
    IF Pending(t)
      THEN Cardinality(InQueue(t)) + (IF Running(t) THEN 1 ELSE 0)
             + (IF task[t].retryTimer THEN 1 ELSE 0) = 1
      ELSE InQueue(t) = {} /\ ~task[t].retryTimer /\ ~task[t].watchdog

\* Workers are neither shared nor leaked: a worker of a pool is busy exactly
\* while one attempt in time has not released it, and no idle timer set
\* before can then take it away.
BusyMeansOwned ==
  \A p \in Pools :
    /\ busy[p] \subseteq entries[p] \ idleTimer[p]
    /\ \A w \in entries[p] :
         LET owners == {a \in attempts : a.pool = p /\ a.worker = w /\ ~a.timedOut}
         IN  Cardinality(owners) = IF w \in busy[p] THEN 1 ELSE 0

\* The pump is never forgotten: between two jobs no queued task could be
\* given to a worker now.  (While no call of new Worker throws: a replacement
\* that fails in the error listener leaves a free place unannounced.)
NothingRunnableWaits ==
  EventLoop /\ running /\ faults = 0 => \A pl \in Places(queue) : ~Selectable(At(queue, pl))

\* The test request of a half-open breaker is under way ("half-open: allow
\* exactly one test request", circuitBreaker.ts:40): its answer will close or
\* reopen the breaker.
TestRequestPending ==
  \A y \in Types :
    breaker[y].state = "half-open" /\ breaker[y].testing =>
      \E t \in Tasks : TypeOf[t] = y /\ Pending(t)

\* Every task is settled, though workers die, keep silent or cannot be
\* spawned, as long as the app lets the event loop have its turns.
EveryTaskSettles == []<>EventLoop => \A t \in Tasks : Pending(t) ~> ~Pending(t)

=============================================================================
