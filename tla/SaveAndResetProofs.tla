-------------------------- MODULE SaveAndResetProofs --------------------------
(***************************************************************************)
(* Proofs about saving and resetting, for any autosaves, resets and bounds.*)
(* That connections are current needs no more than the gate's types; that  *)
(* saves land in order and that a flush means what it says follows from    *)
(* how the coordinators order their saves and close their chains.  That a  *)
(* reset leaves nothing needs `Resetting`: from its draining to the reload *)
(* the gate stays closed, unless a failing reset came between (`Clean`),   *)
(* so no connection is opened, and without one no transaction begins.      *)
(* `Barriers` says that only the gate's barrier, the latest one, can still *)
(* have a closer to wait for.  The types come last, since they rest on all *)
(* of this: a save under way has a step, and its version is one of the     *)
(* editor's.                                                               *)
(***************************************************************************)
EXTENDS SaveAndReset, SequenceTheorems, TLAPS

(***************************************************************************)
(* The reset gate.                                                         *)
(***************************************************************************)
Gates == [inReset : BOOLEAN, generation : Nat, barrier : Nat]

GateInv == gate \in Gates /\ NoStaleConnection

LEMMA GateOperators ==
  ASSUME NEW g \in Gates, NEW b
  PROVE  /\ BarrierLeft(g, b) \in Gates
         /\ BarrierLeft(g, b).generation = g.generation
         /\ BarrierLeft(g, b).inReset = g.inReset
         /\ ResetEnded(g) \in Gates
         /\ ResetEnded(g).generation = g.generation
         /\ ResetEnded(g).inReset = FALSE
         /\ ResetBegun(g) \in Gates
         /\ JoinsBarrier(g) => ResetBegun(g) = g
<1>1. /\ BarrierLeft(g, b) \in Gates
      /\ BarrierLeft(g, b).generation = g.generation
      /\ BarrierLeft(g, b).inReset = g.inReset
  <2>1. CASE g.barrier = b
    <3>1. BarrierLeft(g, b) = [g EXCEPT !.barrier = 0]
      BY <2>1 DEF BarrierLeft, None
    <3> QED BY <3>1 DEF Gates
  <2>2. CASE g.barrier # b
    BY <2>2 DEF BarrierLeft
  <2> QED BY <2>1, <2>2
<1>2. /\ ResetEnded(g) \in Gates
      /\ ResetEnded(g).generation = g.generation
      /\ ResetEnded(g).inReset = FALSE
  BY DEF Gates, ResetEnded
<1>3. ResetBegun(g) \in Gates /\ (JoinsBarrier(g) => ResetBegun(g) = g)
  <2>1. [inReset |-> TRUE, generation |-> g.generation + 1, barrier |-> g.generation + 1] \in Gates
    BY DEF Gates
  <2> QED BY <2>1 DEF ResetBegun
<1> QED BY <1>1, <1>2, <1>3

LEMMA GateInit == Init => GateInv
BY DEF Init, GateInv, Gates, NewGate, NoStaleConnection, None

LEMMA GateFrame ==
  ASSUME GateInv, UNCHANGED <<gate, conn, opening>>
  PROVE  GateInv'
BY DEF GateInv, NoStaleConnection, None

LEMMA GateSaves ==
  ASSUME GateInv, NEW r \in Resources, SaveNeedsConnection(r)
  PROVE  GateInv'
<1>1. CASE opening' = gate.generation /\ conn = None /\ OpenAdmitted(gate)
  BY <1>1 DEF GateInv, NoStaleConnection, SaveNeedsConnection, resetVars, None
<1>2. CASE opening' = opening
  BY <1>2, GateFrame DEF SaveNeedsConnection, resetVars
<1> QED BY <1>1, <1>2 DEF SaveNeedsConnection

LEMMA GateOpened ==
  ASSUME GateInv, Opened
  PROVE  GateInv'
<1> DEFINE generation == Head(requests).id
<1>1. gate' = gate
  BY DEF Opened, resetVars
<1>2. opening' = opening \/ opening' = None
  BY DEF Opened
<1>3. conn' = conn \/ (conn' = generation /\ OpenStillValid(gate, generation))
  BY DEF Opened
<1> QED BY <1>1, <1>2, <1>3 DEF GateInv, NoStaleConnection, OpenStillValid

LEMMA GateResets ==
  ASSUME GateInv, NEW x \in Resets, ResetDrained(x) \/ ResetClosed(x) \/ DeletionBlocked(x)
  PROVE  GateInv'
<1> DEFINE left == BarrierLeft(gate, reset[x].barrier)
<1>1. left \in Gates /\ left.generation = gate.generation /\ left.inReset = gate.inReset
  BY GateOperators DEF GateInv
<1> HIDE DEF left
<1>2. CASE ResetDrained(x)
  <2>1. gate' = ResetBegun(gate) /\ gate' \in Gates
    BY <1>2, GateOperators DEF ResetDrained, GateInv
  <2>2. CASE JoinsBarrier(gate)
    BY <1>2, <2>2, GateFrame, GateOperators DEF ResetDrained, GateInv
  <2>3. CASE ~JoinsBarrier(gate)
    BY <1>2, <2>1, <2>3 DEF ResetDrained, GateInv, NoStaleConnection
  <2> QED BY <2>2, <2>3
<1>3. CASE ResetClosed(x) \/ DeletionBlocked(x)
  <2>1. conn' = conn /\ opening' = opening
    BY <1>3 DEF ResetClosed, DeletionBlocked, idbVars
  <2>2. gate' \in {left, ResetEnded(left), ResetEnded(gate)}
    BY <1>3 DEF ResetClosed, DeletionBlocked, ResetFails, left
  <2>3. /\ gate' \in Gates /\ gate'.generation = gate.generation
        /\ gate'.inReset = gate.inReset \/ gate'.inReset = FALSE
    BY <1>1, <2>2, GateOperators DEF GateInv
  <2> QED BY <2>1, <2>3 DEF GateInv, NoStaleConnection
<1> QED BY <1>2, <1>3

LEMMA GateStep == GateInv /\ [Next]_vars => GateInv'
<1> SUFFICES ASSUME GateInv, [Next]_vars PROVE GateInv'
  OBVIOUS
<1>1. CASE UNCHANGED vars
  BY <1>1, GateFrame DEF vars, resetVars, idbVars
<1>2. CASE User
  <2>1. UNCHANGED <<gate, conn, opening>>
    BY <1>2 DEF User, Edit, ManualSave, FlushBegin, ResetBegin, LateCloser, resetVars, idbVars
  <2> QED BY <2>1, GateFrame
<1>3. CASE Continuations
  <2>1. CASE \E a \in Autosaves : ProjectDebounced(a) \/ ProjectSaved(a) \/ IndexProject(a)
    BY <2>1, GateFrame DEF ProjectDebounced, ProjectSaved, IndexProject, resetVars, idbVars
  <2>2. CASE \/ SettingsDebounced \/ FlushAnswered \/ FlushDrained \/ FlushReturned
             \/ \E r \in {"project", "settings"} : FlushVerify(r)
    BY <2>2, GateFrame
       DEF SettingsDebounced, FlushAnswered, FlushDrained, FlushReturned, FlushVerify,
           resetVars, idbVars
  <2>3. CASE \E x \in Resets : ResetDrained(x) \/ ResetClosed(x) \/ Reload(x)
    BY <2>3, GateFrame, GateResets DEF Reload, resetVars, idbVars
  <2>4. CASE \E r \in Resources : SaveNeedsConnection(r)
    BY <2>4, GateSaves
  <2> QED BY <1>3, <2>1, <2>2, <2>3, <2>4 DEF Continuations
<1>4. CASE Database
  <2>1. CASE VersionChange
    BY <2>1 DEF VersionChange, GateInv, NoStaleConnection, resetVars
  <2>2. CASE \/ Deleted
             \/ \E r \in Resources : Commit(r) \/ SaveFails(r)
             \/ \E g \in DOMAIN barriers, ok \in BOOLEAN : CloserSettles(g, ok)
    BY <2>2, GateFrame DEF Deleted, Commit, SaveFails, CloserSettles, resetVars, idbVars
  <2> QED BY <1>4, <2>1, <2>2, GateOpened DEF Database
<1>5. CASE OtherTabCloses
  BY <1>5, GateFrame DEF OtherTabCloses, resetVars
<1>6. CASE \E x \in Resets : DeletionBlocked(x)
  BY <1>6, GateResets
<1> QED BY <1>1, <1>2, <1>3, <1>4, <1>5, <1>6 DEF Next

(* idbResetGate.ts: a connection or an open in flight belongs to the       *)
(* present generation, however many resets overlap, join or fail.          *)
THEOREM ConnectionsAreCurrent == Spec => []NoStaleConnection
<1>1. GateInv => NoStaleConnection
  BY DEF GateInv
<1> QED BY GateInit, GateStep, <1>1, PTL DEF Spec

(***************************************************************************)
(* A coordinator: its versions are in order, and its last chain is open    *)
(* exactly while it saves.                                                 *)
(***************************************************************************)
Saves == [gen : Nat, version : Nat]
Outcomes == {"open", "ok", "failed"}
Coordinators ==
    [next : Nat, active : Saves, queued : Saves,
     waiters : SUBSET [gen : Nat, client : Clients], chains : Seq(Outcomes)]

(* w is what was written last, n the newest version there is.              *)
Ordered(c, w, n) ==
    /\ w <= n
    /\ c.active # NoSave => w <= c.active.version /\ c.active.version <= n
    /\ c.queued # NoSave =>
           /\ c.active # NoSave
           /\ c.active.version <= c.queued.version /\ c.queued.version <= n

ChainsSettled(c) ==
    /\ \A i \in 1 .. Len(c.chains) : i # Len(c.chains) => c.chains[i] # "open"
    /\ c.active # NoSave => Len(c.chains) > 0 /\ c.chains[Len(c.chains)] = "open"
    /\ c.active = NoSave /\ Len(c.chains) > 0 => c.chains[Len(c.chains)] # "open"

Sound(c, w, n) == c \in Coordinators /\ Ordered(c, w, n) /\ ChainsSettled(c)

(* The save that will end the chain. *)
Latest(c) == IF c.queued # NoSave THEN c.queued ELSE c.active

(* What never happens to a chain: it is not reopened, nor forgotten.       *)
Grows(c, d) ==
    /\ Len(c.chains) <= Len(d.chains)
    /\ \A i \in 1 .. Len(c.chains) : c.chains[i] # "open" => d.chains[i] = c.chains[i]

LEMMA NewSound ==
  ASSUME NEW w \in Nat, NEW n \in Nat, w <= n
  PROVE  Sound(NewCoordinator, w, n)
<1>1. NoSave \in Saves
  BY DEF NoSave, Saves
<1>2. << >> \in Seq(Outcomes) /\ Len(<< >>) = 0
  OBVIOUS
<1> QED BY <1>1, <1>2 DEF Sound, Coordinators, Ordered, ChainsSettled, NewCoordinator

LEMMA EnqueuedFields ==
  ASSUME NEW c \in Coordinators, NEW who \in Clients, NEW v \in Nat,
         NEW d, d = Enqueued(c, who, v)
  PROVE  /\ d \in Coordinators
         /\ c.active # NoSave => /\ d.active = c.active /\ d.chains = c.chains
                                 /\ d.queued # NoSave /\ d.queued.version = v
         /\ c.active = NoSave => /\ d.active # NoSave /\ d.active.version = v
                                 /\ d.queued = c.queued
                                 /\ d.chains = Append(c.chains, "open")
<1> DEFINE save == [gen |-> c.next + 1, version |-> v]
           line == c.waiters \cup {[gen |-> save.gen, client |-> who]}
           joined == [c EXCEPT !.next = save.gen, !.waiters = line]
<1>1. c.next \in Nat /\ save \in Saves /\ save.gen \in Nat /\ save.version = v /\ save # NoSave
  BY DEF Coordinators, Saves, NoSave
<1>2. line \in SUBSET [gen : Nat, client : Clients]
  BY <1>1 DEF Coordinators
<1>3. Append(c.chains, "open") \in Seq(Outcomes)
  BY DEF Coordinators, Outcomes
<1>4. d = IF c.active # NoSave THEN [joined EXCEPT !.queued = save]
          ELSE [joined EXCEPT !.active = save, !.chains = Append(c.chains, "open")]
  BY DEF Enqueued, Coordinators
<1> HIDE DEF save, line
<1>5. /\ joined \in Coordinators /\ joined.active = c.active /\ joined.queued = c.queued
      /\ joined.chains = c.chains
  BY <1>1, <1>2 DEF Coordinators
<1> HIDE DEF joined
<1> QED BY <1>1, <1>3, <1>4, <1>5 DEF Coordinators

LEMMA EnqueuedSound ==
  ASSUME NEW c, NEW w \in Nat, NEW n \in Nat, Sound(c, w, n), NEW who \in Clients,
         NEW d, d = Enqueued(c, who, n)
  PROVE  /\ Sound(d, w, n) /\ Grows(c, d)
         /\ d.active # NoSave /\ Latest(d).version = n
<1>1. c \in Coordinators /\ c.chains \in Seq(Outcomes) /\ c.active \in Saves
  BY DEF Sound, Coordinators
<1>2. CASE c.active # NoSave
  <2>1. /\ d \in Coordinators /\ d.active = c.active /\ d.chains = c.chains
        /\ d.queued # NoSave /\ d.queued.version = n
    BY <1>1, <1>2, EnqueuedFields
  <2> QED BY <1>2, <2>1 DEF Sound, Ordered, ChainsSettled, Grows, Latest
<1>3. CASE c.active = NoSave
  <2>1. /\ d \in Coordinators /\ d.active # NoSave /\ d.active.version = n
        /\ d.queued = c.queued /\ d.chains = Append(c.chains, "open")
    BY <1>1, <1>3, EnqueuedFields
  <2>2. c.queued = NoSave /\ w <= n
    BY <1>3 DEF Sound, Ordered
  <2>3. Ordered(d, w, n)
    BY <2>1, <2>2 DEF Ordered
  <2>4. /\ Len(d.chains) = Len(c.chains) + 1 /\ d.chains[Len(c.chains) + 1] = "open"
        /\ \A i \in 1 .. Len(c.chains) : d.chains[i] = c.chains[i]
    BY <1>1, <2>1
  <2>5. \A i \in 1 .. Len(c.chains) : c.chains[i] # "open"
    BY <1>1, <1>3 DEF Sound, ChainsSettled
  <2>6. ChainsSettled(d) /\ Grows(c, d)
    BY <1>1, <2>1, <2>4, <2>5 DEF ChainsSettled, Grows
  <2> QED BY <2>1, <2>2, <2>3, <2>6 DEF Sound, Latest
<1> QED BY <1>2, <1>3

LEMMA EndedFields ==
  ASSUME NEW c \in Coordinators, NEW ok \in BOOLEAN, NEW d, d = Ended(c, ok)
  PROVE  /\ d \in Coordinators /\ d.active = c.queued /\ d.queued = NoSave
         /\ Len(d.chains) = Len(c.chains)
         /\ c.queued # NoSave => d.chains = c.chains
         /\ c.queued = NoSave =>
               \A i \in 1 .. Len(c.chains) :
                   d.chains[i] = IF i = Len(c.chains) THEN (IF ok THEN "ok" ELSE "failed")
                                 ELSE c.chains[i]
<1> DEFINE outcome == IF ok THEN "ok" ELSE "failed"
           line == c.waiters \ Answered(c, ok)
           answered == [c EXCEPT !.waiters = line, !.active = c.queued, !.queued = NoSave]
           closed == [c.chains EXCEPT ![Len(c.chains)] = outcome]
<1>1. c.chains \in Seq(Outcomes) /\ outcome \in Outcomes /\ NoSave \in Saves
  BY DEF Coordinators, Outcomes, NoSave, Saves
<1>2. line \in SUBSET [gen : Nat, client : Clients]
  BY DEF Coordinators
<1>3. /\ closed \in Seq(Outcomes) /\ Len(closed) = Len(c.chains)
      /\ \A i \in 1 .. Len(c.chains) :
             closed[i] = IF i = Len(c.chains) THEN outcome ELSE c.chains[i]
  <2>1. CASE Len(c.chains) \in 1 .. Len(c.chains)
    BY <1>1, <2>1, ExceptSeq
  <2>2. CASE Len(c.chains) \notin 1 .. Len(c.chains)
    <3>1. Len(c.chains) = 0 /\ DOMAIN c.chains = 1 .. 0
      BY <1>1, <2>2
    <3>2. closed = c.chains
      BY <1>1, <3>1
    <3> QED BY <1>1, <3>1, <3>2
  <2> QED BY <2>1, <2>2
<1>4. d = IF c.queued # NoSave THEN answered ELSE [answered EXCEPT !.chains = closed]
  BY DEF Ended, Coordinators
<1> HIDE DEF line, closed, outcome
<1>5. /\ answered \in Coordinators /\ answered.active = c.queued
      /\ answered.queued = NoSave /\ answered.chains = c.chains
  BY <1>1, <1>2 DEF Coordinators
<1> HIDE DEF answered
<1>6. CASE c.queued # NoSave
  BY <1>4, <1>5, <1>6
<1>7. CASE c.queued = NoSave
  <2>1. d = [answered EXCEPT !.chains = closed]
    BY <1>4, <1>7
  <2>2. /\ d \in Coordinators /\ d.active = answered.active /\ d.queued = answered.queued
        /\ d.chains = closed
    BY <1>3, <1>5, <2>1 DEF Coordinators
  <2> QED BY <1>3, <1>5, <1>7, <2>2 DEF outcome
<1> QED BY <1>6, <1>7

(* v is what the end of the save leaves written: its version, if it ended  *)
(* well.                                                                   *)
LEMMA EndedSound ==
  ASSUME NEW c, NEW w \in Nat, NEW n \in Nat, Sound(c, w, n), c.active # NoSave,
         NEW ok \in BOOLEAN, NEW d, d = Ended(c, ok), NEW v \in {w, c.active.version}
  PROVE  /\ Sound(d, v, n) /\ Grows(c, d) /\ v \in Nat /\ w <= v
         /\ d.active = c.queued
         /\ d.active # NoSave => Latest(d) = Latest(c)
         /\ d.active = NoSave => /\ Latest(c) = c.active
                                 /\ d.chains[Len(d.chains)] = IF ok THEN "ok" ELSE "failed"
<1>1. c \in Coordinators /\ c.chains \in Seq(Outcomes) /\ c.active \in Saves /\ c.queued \in Saves
  BY DEF Sound, Coordinators
<1>2. /\ d \in Coordinators /\ d.active = c.queued /\ d.queued = NoSave
      /\ Len(d.chains) = Len(c.chains)
      /\ c.queued # NoSave => d.chains = c.chains
      /\ c.queued = NoSave =>
            \A i \in 1 .. Len(c.chains) :
                d.chains[i] = IF i = Len(c.chains) THEN (IF ok THEN "ok" ELSE "failed")
                              ELSE c.chains[i]
  BY <1>1, EndedFields
<1>3. v \in Nat /\ w <= v /\ Ordered(d, v, n)
  BY <1>1, <1>2 DEF Sound, Ordered, Saves
<1>4. ChainsSettled(d) /\ Grows(c, d)
  <2>1. CASE c.queued # NoSave
    BY <1>1, <1>2, <2>1 DEF Sound, ChainsSettled, Grows
  <2>2. CASE c.queued = NoSave
    <3>1. Len(c.chains) \in Nat /\ Len(c.chains) > 0 /\ c.chains[Len(c.chains)] = "open"
      BY <1>1 DEF Sound, ChainsSettled
    <3>2. \A i \in 1 .. Len(c.chains) : i # Len(c.chains) => c.chains[i] # "open"
      BY DEF Sound, ChainsSettled
    <3> QED BY <1>2, <2>2, <3>1, <3>2 DEF ChainsSettled, Grows
  <2> QED BY <2>1, <2>2
<1>5. d.active # NoSave => Latest(d) = Latest(c)
  BY <1>2 DEF Latest
<1>6. ASSUME d.active = NoSave
      PROVE  /\ Latest(c) = c.active
             /\ d.chains[Len(d.chains)] = IF ok THEN "ok" ELSE "failed"
  <2>1. Len(c.chains) \in 1 .. Len(c.chains) /\ c.queued = NoSave
    BY <1>1, <1>2, <1>6 DEF Sound, ChainsSettled
  <2> QED BY <1>2, <2>1 DEF Latest
<1> QED BY <1>2, <1>3, <1>4, <1>5, <1>6 DEF Sound

(***************************************************************************)
(* The coordinators, what is written and the editor.                       *)
(***************************************************************************)
Newest(r) == IF r = "index" THEN Indexed ELSE edits[r]

OnResources(f) == f = [r \in Resources |-> f[r]]

SaveInv ==
    /\ OnResources(coord) /\ OnResources(step) /\ OnResources(written) /\ OnResources(edits)
    /\ \A r \in Resources :
           /\ written[r] \in Nat /\ edits[r] \in Nat
           /\ Sound(coord[r], written[r], Newest(r))
           /\ step[r] # "none" => coord[r].active # NoSave

(* What a step does to the coordinator of r. *)
Stays(r) ==
    /\ coord'[r] = coord[r] /\ written'[r] = written[r]
    /\ edits'[r] \in Nat /\ edits[r] <= edits'[r]
    /\ step'[r] # "none" => step[r] # "none"

Enqueues(r) ==
    /\ \E who \in Clients : coord'[r] = Enqueued(coord[r], who, Newest(r))
    /\ written'[r] = written[r] /\ edits'[r] = edits[r]

Ends(r) ==
    /\ step[r] # "none"
    /\ \E ok \in BOOLEAN :
           /\ coord'[r] = Recycled(Ended(coord[r], EndsWell(r, ok)))
           /\ written'[r] = IF ok THEN coord[r].active.version ELSE written[r]
    /\ edits'[r] = edits[r]
    /\ step'[r] # "none" => coord[r].queued # NoSave

Renews(r) ==
    /\ flush.pc \in {"ok", "failed"}
    /\ coord'[r] = Recycled(coord[r])
    /\ written'[r] = written[r] /\ edits'[r] = edits[r] /\ step'[r] = step[r]

Moves ==
    /\ OnResources(coord') /\ OnResources(step') /\ OnResources(written') /\ OnResources(edits')
    /\ \A r \in Resources : Stays(r) \/ Enqueues(r) \/ Ends(r) \/ Renews(r)

LEMMA SaveInit == Init => SaveInv
<1> SUFFICES ASSUME Init PROVE SaveInv
  OBVIOUS
<1>1. \A r \in Resources : /\ coord[r] = NewCoordinator /\ written[r] = 1 /\ edits[r] = 1
                           /\ step[r] = "none" /\ Newest(r) = 1
  BY DEF Init, Newest, Indexed
<1>2. Sound(NewCoordinator, 1, 1)
  BY NewSound
<1>3. OnResources(coord) /\ OnResources(step) /\ OnResources(written) /\ OnResources(edits)
  BY DEF Init, OnResources
<1> QED BY <1>1, <1>2, <1>3 DEF SaveInv

LEMMA MovesKeep ==
  ASSUME SaveInv, Moves
  PROVE  SaveInv' /\ \A r \in Resources : written'[r] >= written[r]
<1> SUFFICES ASSUME NEW r \in Resources
             PROVE  /\ written'[r] \in Nat /\ edits'[r] \in Nat
                    /\ Sound(coord'[r], written'[r], Newest(r)')
                    /\ step'[r] # "none" => coord'[r].active # NoSave
                    /\ written'[r] >= written[r]
  BY DEF SaveInv, Moves
<1> DEFINE c == coord[r]
<1>1. /\ written[r] \in Nat /\ edits[r] \in Nat /\ Newest(r) \in Nat
      /\ Sound(c, written[r], Newest(r)) /\ written[r] <= Newest(r)
      /\ step[r] # "none" => c.active # NoSave
  BY DEF SaveInv, Newest, Indexed, Sound, Ordered
<1>2. edits'[r] = edits[r] => Newest(r)' = Newest(r)
  BY DEF Newest
<1>3. CASE Stays(r)
  <2>1. Newest(r)' \in Nat /\ Newest(r) <= Newest(r)'
    BY <1>1, <1>3 DEF Stays, Newest, Indexed
  <2>2. c.active # NoSave => c.active.version \in Nat
    BY <1>1 DEF Sound, Coordinators, Saves
  <2>3. c.queued # NoSave => c.queued.version \in Nat
    BY <1>1 DEF Sound, Coordinators, Saves
  <2>4. Ordered(c, written[r], Newest(r)')
    BY <1>1, <2>1, <2>2, <2>3 DEF Sound, Ordered
  <2> QED BY <1>1, <1>3, <2>4 DEF Stays, Sound
<1>4. CASE Enqueues(r)
  <2>1. PICK who \in Clients : coord'[r] = Enqueued(c, who, Newest(r))
    BY <1>4 DEF Enqueues
  <2> DEFINE d == coord'[r]
             n == Newest(r)
  <2>2. d = Enqueued(c, who, n) /\ n \in Nat /\ written[r] \in Nat /\ Sound(c, written[r], n)
    BY <1>1, <2>1
  <2> HIDE DEF c, d, n
  <2>3. Sound(d, written[r], n) /\ d.active # NoSave
    BY <2>2, EnqueuedSound
  <2> QED BY <1>1, <1>2, <1>4, <2>3 DEF Enqueues, d, n
<1>5. CASE Ends(r)
  <2>1. PICK ok \in BOOLEAN :
            /\ coord'[r] = Recycled(Ended(c, EndsWell(r, ok)))
            /\ written'[r] = IF ok THEN c.active.version ELSE written[r]
    BY <1>5 DEF Ends
  <2> DEFINE d == Ended(c, EndsWell(r, ok))
  <2>2. EndsWell(r, ok) \in BOOLEAN /\ c.active # NoSave
    BY <1>1, <1>5 DEF EndsWell, Ends
  <2>3. written'[r] \in {written[r], c.active.version}
    BY <2>1
  <2>4. /\ Sound(d, written'[r], Newest(r)) /\ written'[r] \in Nat
        /\ written[r] <= written'[r] /\ d.active = c.queued
    BY <1>1, <2>2, <2>3, EndedSound
  <2>5. written'[r] <= Newest(r)
    BY <2>4 DEF Sound, Ordered
  <2> HIDE DEF d
  <2>6. CASE Recycled(d) = d
    BY <1>1, <1>2, <1>5, <2>1, <2>4, <2>6 DEF Ends, d
  <2>7. CASE Recycled(d) = NewCoordinator /\ Idle(d)
    <3>1. Sound(NewCoordinator, written'[r], Newest(r))
      BY <1>1, <2>4, <2>5, NewSound
    <3>2. step'[r] = "none"
      BY <1>5, <2>4, <2>7 DEF Ends, Idle
    <3> QED BY <1>1, <1>2, <1>5, <2>1, <2>4, <2>7, <3>1, <3>2 DEF Ends, d
  <2> QED BY <2>6, <2>7 DEF Recycled
<1>6. CASE Renews(r)
  <2>1. CASE Recycled(c) = c
    BY <1>1, <1>2, <1>6, <2>1 DEF Renews
  <2>2. CASE Recycled(c) = NewCoordinator /\ Idle(c)
    <3>1. Sound(NewCoordinator, written[r], Newest(r)) /\ step[r] = "none"
      BY <1>1, <2>2, NewSound DEF Idle
    <3> QED BY <1>1, <1>2, <1>6, <2>2, <3>1 DEF Renews
  <2> QED BY <2>1, <2>2 DEF Recycled
<1> QED BY <1>3, <1>4, <1>5, <1>6 DEF Moves

LEMMA StayMoves ==
  ASSUME SaveInv, UNCHANGED <<coord, step, written, edits>>
  PROVE  Moves
BY DEF SaveInv, Moves, Stays, OnResources

LEMMA EnqueueMoves ==
  ASSUME SaveInv, NEW q \in Resources, NEW who \in Clients, Enqueue(q, who, Newest(q)),
         UNCHANGED <<written, edits>>
  PROVE  Moves
<1>1. OnResources(coord') /\ OnResources(step') /\ OnResources(written') /\ OnResources(edits')
  BY DEF SaveInv, OnResources, Enqueue
<1>2. ASSUME NEW r \in Resources PROVE Stays(r) \/ Enqueues(r)
  <2>1. CASE r = q
    <3>1. q \in DOMAIN coord
      BY DEF SaveInv, OnResources
    <3>2. coord'[q] = Enqueued(coord[q], who, Newest(q))
      BY <3>1 DEF Enqueue
    <3> QED BY <2>1, <3>2 DEF Enqueues
  <2>2. CASE r # q
    <3>1. DOMAIN coord = Resources /\ DOMAIN step = Resources /\ edits[r] \in Nat
      BY DEF SaveInv, OnResources
    <3>2. coord'[r] = coord[r]
      BY <2>2, <3>1 DEF Enqueue
    <3>3. step'[r] = step[r]
      BY <2>2, <3>1 DEF Enqueue
    <3> QED BY <3>1, <3>2, <3>3 DEF Stays
  <2> QED BY <2>1, <2>2
<1> QED BY <1>1, <1>2 DEF Moves

LEMMA EndMoves ==
  ASSUME SaveInv, NEW S \in SUBSET Resources, \A r \in S : step[r] # "none",
         NEW ok \in BOOLEAN, EndSaves(S, ok), edits' = edits,
         written' = [r \in Resources |-> IF ok /\ r \in S THEN coord[r].active.version
                                         ELSE written[r]]
  PROVE  Moves
<1>1. OnResources(coord') /\ OnResources(step') /\ OnResources(written') /\ OnResources(edits')
  BY DEF SaveInv, OnResources, EndSaves
<1>2. ASSUME NEW r \in Resources PROVE Stays(r) \/ Ends(r)
  <2>1. /\ coord'[r] = IF r \in S THEN Recycled(Ended(coord[r], EndsWell(r, ok))) ELSE coord[r]
        /\ step'[r] = IF r \notin S THEN step[r]
                      ELSE IF coord[r].queued = NoSave THEN "none" ELSE "start"
    BY DEF EndSaves
  <2>2. CASE r \in S
    BY <2>1, <2>2 DEF Ends
  <2>3. CASE r \notin S
    BY <2>1, <2>3 DEF SaveInv, Stays
  <2> QED BY <2>2, <2>3
<1> QED BY <1>1, <1>2 DEF Moves

LEMMA UserMoves ==
  ASSUME SaveInv, User
  PROVE  Moves
<1>1. CASE \E r \in Resources : Edit(r)
  <2>1. PICK q \in Resources : Edit(q)
    BY <1>1
  <2>2. /\ edits' = [edits EXCEPT ![q] = @ + 1]
        /\ coord' = coord /\ step' = step /\ written' = written
    BY <2>1 DEF Edit, idbVars
  <2> QED BY <2>2 DEF SaveInv, Moves, Stays, OnResources
<1>2. CASE ManualSave
  <2>1. "manual" \in Clients /\ "project" \in Resources /\ Newest("project") = edits["project"]
    BY DEF Clients, Resources, Newest
  <2> QED BY <1>2, <2>1, EnqueueMoves DEF ManualSave, idbVars
<1>3. CASE FlushBegin
  <2>1. \A r \in Flushed : r \in Resources /\ r # "index" /\ Ticket(r) \in Clients
    BY DEF Flushed, Resources, Ticket, Clients
  <2>2. /\ coord' = [r \in Resources |-> IF r \in Flushed
                         THEN Enqueued(coord[r], Ticket(r), edits[r]) ELSE coord[r]]
        /\ step' = [r \in Resources |-> IF r \in Flushed /\ Idle(coord[r]) THEN "start" ELSE step[r]]
        /\ edits' = edits /\ written' = written
    BY <1>3 DEF FlushBegin, idbVars
  <2>3. OnResources(coord') /\ OnResources(step') /\ OnResources(written') /\ OnResources(edits')
    BY <2>2 DEF SaveInv, OnResources
  <2>4. ASSUME NEW r \in Resources PROVE Stays(r) \/ Enqueues(r)
    <3>1. CASE r \in Flushed
      BY <2>1, <2>2, <3>1 DEF Enqueues, Newest
    <3>2. CASE r \notin Flushed
      BY <2>2, <3>2 DEF SaveInv, Stays
    <3> QED BY <3>1, <3>2
  <2> QED BY <2>3, <2>4 DEF Moves
<1>4. CASE LateCloser \/ \E x \in Resets : ResetBegin(x)
  BY <1>4, StayMoves DEF LateCloser, ResetBegin, saveVars, idbVars
<1> QED BY <1>1, <1>2, <1>3, <1>4 DEF User

LEMMA SaverMoves ==
  ASSUME SaveInv,
         \/ \E a \in Autosaves : ProjectDebounced(a) \/ ProjectSaved(a) \/ IndexProject(a)
         \/ SettingsDebounced
         \/ \E r \in Resources : SaveNeedsConnection(r)
  PROVE  Moves
<1>1. /\ {"project", "settings", "index"} = Resources
      /\ Autosaves \cup {"index", "settings"} \subseteq Clients
      /\ Newest("index") = Indexed /\ Newest("project") = edits["project"]
      /\ Newest("settings") = edits["settings"]
  BY DEF Resources, Clients, Newest
<1>2. ASSUME NEW a \in Autosaves, ProjectDebounced(a) PROVE Moves
  BY <1>2, StayMoves DEF ProjectDebounced, idbVars
<1>3. ASSUME NEW a \in Autosaves, ProjectSaved(a) PROVE Moves
  <2>1. written' = written /\ edits' = edits
    BY <1>3 DEF ProjectSaved, idbVars
  <2>2. CASE flag
    BY <1>3, <2>1, <2>2, StayMoves DEF ProjectSaved
  <2>3. CASE ~flag
    BY <1>1, <1>3, <2>1, <2>3, EnqueueMoves DEF ProjectSaved
  <2> QED BY <2>2, <2>3
<1>4. ASSUME NEW a \in Autosaves, IndexProject(a) PROVE Moves
  <2>1. written' = written /\ edits' = edits
    BY <1>4 DEF IndexProject, idbVars
  <2>2. CASE flag
    BY <1>4, <2>1, <2>2, StayMoves DEF IndexProject
  <2>3. CASE ~flag
    BY <1>1, <1>4, <2>1, <2>3, EnqueueMoves DEF IndexProject
  <2> QED BY <2>2, <2>3
<1>5. ASSUME SettingsDebounced PROVE Moves
  <2>1. written' = written /\ edits' = edits
    BY <1>5 DEF SettingsDebounced, idbVars
  <2>2. CASE flag
    BY <1>5, <2>1, <2>2, StayMoves DEF SettingsDebounced
  <2>3. CASE ~flag
    BY <1>1, <1>5, <2>1, <2>3, EnqueueMoves DEF SettingsDebounced
  <2> QED BY <2>2, <2>3
<1>6. ASSUME NEW q \in Resources, SaveNeedsConnection(q) PROVE Moves
  <2>1. written' = written /\ edits' = edits /\ step[q] = "start"
    BY <1>6 DEF SaveNeedsConnection
  <2>2. CASE coord' = coord /\ \E s \in {"tx", "opening"} : step' = [step EXCEPT ![q] = s]
    BY <2>1, <2>2 DEF SaveInv, Moves, Stays, OnResources
  <2>3. CASE EndSaves({q}, FALSE)
    <3>1. written' = [r \in Resources |-> written[r]]
      BY <2>1 DEF SaveInv, OnResources
    <3> QED BY <2>1, <2>3, <3>1, EndMoves
  <2>4. \/ coord' = coord /\ \E s \in {"tx", "opening"} : step' = [step EXCEPT ![q] = s]
        \/ EndSaves({q}, FALSE)
    BY <1>6 DEF SaveNeedsConnection
  <2> QED BY <2>2, <2>3, <2>4
<1> QED BY <1>2, <1>3, <1>4, <1>5, <1>6

LEMMA DatabaseMoves ==
  ASSUME SaveInv, Database
  PROVE  Moves
<1>1. CASE Opened
  <2> DEFINE generation == Head(requests).id
             waiting == {r \in Resources : step[r] = "opening" /\ awaited[r] = generation}
  <2>1. written' = written /\ edits' = edits
    BY <1>1 DEF Opened
  <2>2. \/ /\ coord' = coord
           /\ step' = [r \in Resources |-> IF r \in waiting THEN "start" ELSE step[r]]
        \/ EndSaves(waiting, FALSE)
    BY <1>1 DEF Opened
  <2>3. waiting \subseteq Resources /\ \A r \in waiting : step[r] # "none"
    OBVIOUS
  <2> HIDE DEF waiting
  <2>4. CASE EndSaves(waiting, FALSE)
    <3>1. written' = [r \in Resources |-> written[r]]
      BY <2>1 DEF SaveInv, OnResources
    <3> QED BY <2>1, <2>3, <2>4, <3>1, EndMoves
  <2>5. CASE /\ coord' = coord
             /\ step' = [r \in Resources |-> IF r \in waiting THEN "start" ELSE step[r]]
    BY <2>1, <2>3, <2>5 DEF SaveInv, Moves, Stays, OnResources
  <2> QED BY <2>2, <2>4, <2>5
<1>2. CASE \E r \in Resources : Commit(r)
  <2>1. PICK q \in Resources : Commit(q)
    BY <1>2
  <2>2. /\ step[q] = "tx" /\ EndSaves({q}, TRUE) /\ edits' = edits
        /\ written' = [written EXCEPT ![q] = coord[q].active.version]
    BY <2>1 DEF Commit
  <2>3. written' = [r \in Resources |-> IF TRUE /\ r \in {q} THEN coord[r].active.version
                                        ELSE written[r]]
    BY <2>2 DEF SaveInv, OnResources
  <2> QED BY <2>2, <2>3, EndMoves
<1>3. CASE \E r \in Resources : SaveFails(r)
  <2>1. PICK q \in Resources : SaveFails(q)
    BY <1>3
  <2>2. step[q] = "tx" /\ EndSaves({q}, FALSE) /\ edits' = edits /\ written' = written
    BY <2>1 DEF SaveFails, idbVars
  <2>3. written' = [r \in Resources |-> written[r]]
    BY <2>2 DEF SaveInv, OnResources
  <2> QED BY <2>2, <2>3, EndMoves
<1>4. CASE \/ VersionChange \/ Deleted
           \/ \E g \in DOMAIN barriers, ok \in BOOLEAN : CloserSettles(g, ok)
  BY <1>4, StayMoves DEF VersionChange, Deleted, CloserSettles, saveVars, idbVars
<1> QED BY <1>1, <1>2, <1>3, <1>4 DEF Database

LEMMA NextMoves == SaveInv /\ [Next]_vars => Moves
<1> SUFFICES ASSUME SaveInv, [Next]_vars PROVE Moves
  OBVIOUS
<1>1. CASE UNCHANGED vars
  BY <1>1, StayMoves DEF vars, saveVars, idbVars
<1>2. CASE Continuations
  <2>1. CASE FlushAnswered \/ FlushDrained \/ \E r \in {"project", "settings"} : FlushVerify(r)
    BY <2>1, StayMoves DEF FlushAnswered, FlushDrained, FlushVerify, idbVars
  <2>2. CASE \E x \in Resets : ResetDrained(x) \/ ResetClosed(x) \/ Reload(x)
    BY <2>2, StayMoves DEF ResetDrained, ResetClosed, Reload, saveVars, idbVars
  <2>3. CASE FlushReturned
    BY <2>3 DEF FlushReturned, idbVars, SaveInv, Moves, Renews, OnResources
  <2> QED BY <1>2, <2>1, <2>2, <2>3, SaverMoves DEF Continuations
<1>3. CASE OtherTabCloses \/ \E x \in Resets : DeletionBlocked(x)
  BY <1>3, StayMoves DEF OtherTabCloses, DeletionBlocked, saveVars, idbVars
<1> QED BY <1>1, <1>2, <1>3, UserMoves, DatabaseMoves DEF Next

(* persistenceCoordinator.ts: whatever supersedes, overlaps and fails, no  *)
(* save of a resource lands after a newer one.                             *)
THEOREM SavesLandInOrder == Spec => NeverOlder
<1>1. SaveInv /\ [Next]_vars => SaveInv' /\ [\A r \in Resources : written'[r] >= written[r]]_vars
  BY NextMoves, MovesKeep
<1> QED BY SaveInit, <1>1, PTL DEF Spec, NeverOlder

(***************************************************************************)
(* The flush: the chains it watches begin at or before its own saves, so   *)
(* the newest of them ends with a save at least as new as what it captured.*)
(***************************************************************************)
Pairs == {"project", "settings"}

Flushes ==
    [pc : {"none", "results", "drain", "settings", "project", "ok", "failed"},
     pass : Nat, upto : Nat,
     mark : [Pairs -> [seq : Nat, activeAtMark : BOOLEAN]],
     seen : [Pairs -> Nat], captured : [Pairs -> Nat]]

Running == flush.pc \in {"results", "drain", "settings", "project"}

Covers(c, w, mark, version) ==
    /\ FirstSince(mark) \in 1 .. Len(c.chains)
    /\ c.active # NoSave => Latest(c).version >= version
    /\ c.active = NoSave /\ c.chains[Len(c.chains)] = "ok" => w >= version

Covered(r) ==
    /\ flush.captured[r] <= edits[r]
    /\ Covers(coord[r], written[r], flush.mark[r], flush.captured[r])

(* The passes: what a pass has seen is still there, and the settings it    *)
(* verified are verified for good.                                         *)
Passing ==
    /\ flush.pc \in {"settings", "project"} =>
           \A r \in Pairs : flush.seen[r] <= Len(coord[r].chains)
    /\ flush.pc = "settings" => flush.upto = flush.seen["settings"]
    /\ flush.pc = "project" =>
           /\ flush.seen["project"] <= flush.upto
           /\ flush.upto <= Len(coord["project"].chains)
           /\ \A i \in FirstSince(flush.mark["settings"]) .. flush.seen["settings"] :
                  coord["settings"].chains[i] = "ok"

FlushInv ==
    /\ flush \in Flushes
    /\ Running => \A r \in Flushed : Covered(r)
    /\ Passing

LEMMA Constant == /\ Flushed \subseteq Pairs /\ "settings" \in Flushed /\ Pairs \subseteq Resources
                  /\ Pairs = {"project", "settings"}
                  /\ \A r \in Pairs : Newest(r) = edits[r]
BY DEF Flushed, Pairs, Resources, Newest

LEMMA NoFlushTyped == NoFlush \in Flushes /\ NoFlush.pc = "none"
<1>1. [r \in Pairs |-> [seq |-> 0, activeAtMark |-> FALSE]]
          \in [Pairs -> [seq : Nat, activeAtMark : BOOLEAN]]
  OBVIOUS
<1>2. [r \in Pairs |-> 0] \in [Pairs -> Nat]
  OBVIOUS
<1> QED BY <1>1, <1>2 DEF NoFlush, Flushes, Pairs

LEMMA CoordTyped ==
  ASSUME SaveInv, NEW r \in Resources
  PROVE  /\ coord[r] \in Coordinators /\ coord[r].chains \in Seq(Outcomes)
         /\ Len(coord[r].chains) \in Nat
         /\ \A i \in 1 .. Len(coord[r].chains) : coord[r].chains[i] \in Outcomes
BY DEF SaveInv, Sound, Coordinators

LEMMA FlushInit == Init => FlushInv
BY NoFlushTyped DEF Init, FlushInv, Running, Passing

(* While the flush waits, the coordinators only go on.                     *)
LEMMA CoverKept ==
  ASSUME SaveInv, FlushInv, Running, NEW r \in Pairs,
         Stays(r) \/ Enqueues(r) \/ Ends(r) \/ Renews(r)
  PROVE  /\ Grows(coord[r], coord'[r])
         /\ r \in Flushed =>
                (Covers(coord[r], written[r], flush.mark[r], flush.captured[r])
                 /\ flush.captured[r] <= edits[r]
                 => Covers(coord'[r], written'[r], flush.mark[r], flush.captured[r])
                    /\ flush.captured[r] <= edits'[r])
<1> DEFINE c == coord[r]
           d == coord'[r]
           mark == flush.mark[r]
           captured == flush.captured[r]
<1>1. /\ r \in Resources /\ r # "index" /\ Newest(r) = edits[r]
      /\ written[r] \in Nat /\ edits[r] \in Nat /\ captured \in Nat
      /\ Sound(c, written[r], edits[r]) /\ (step[r] # "none" => c.active # NoSave)
  BY Constant DEF SaveInv, Pairs, FlushInv, Flushes
<1>2. c \in Coordinators /\ c.chains \in Seq(Outcomes) /\ Len(c.chains) \in Nat
  BY <1>1, CoordTyped
<1>3. ASSUME Grows(c, d), Len(d.chains) \in Nat, FirstSince(mark) \in 1 .. Len(c.chains)
      PROVE  FirstSince(mark) \in 1 .. Len(d.chains)
  BY <1>2, <1>3 DEF Grows
<1>4. CASE Stays(r)
  BY <1>1, <1>2, <1>4 DEF Stays, Grows
<1>5. CASE Enqueues(r)
  <2>1. PICK who \in Clients : d = Enqueued(c, who, edits[r])
    BY <1>1, <1>5 DEF Enqueues
  <2>2. Sound(d, written[r], edits[r]) /\ Grows(c, d) /\ d.active # NoSave /\ Latest(d).version = edits[r]
    BY <1>1, <2>1, EnqueuedSound
  <2>3. Len(d.chains) \in Nat
    BY <2>2 DEF Sound, Coordinators
  <2> QED BY <1>1, <1>3, <1>5, <2>2, <2>3 DEF Enqueues, Covers
<1>6. CASE Ends(r)
  <2>1. PICK ok \in BOOLEAN :
            /\ d = Recycled(Ended(c, EndsWell(r, ok)))
            /\ written'[r] = IF ok THEN c.active.version ELSE written[r]
    BY <1>6 DEF Ends
  <2>2. EndsWell(r, ok) = ok /\ c.active # NoSave /\ edits'[r] = edits[r]
    BY <1>1, <1>6 DEF EndsWell, Ends
  <2>3. d = Ended(c, ok)
    BY <2>1, <2>2 DEF Recycled, Running
  <2>4. written'[r] \in {written[r], c.active.version}
    BY <2>1
  <2>5. /\ Sound(d, written'[r], edits[r]) /\ Grows(c, d)
        /\ d.active # NoSave => Latest(d) = Latest(c)
        /\ d.active = NoSave => /\ Latest(c) = c.active
                                /\ d.chains[Len(d.chains)] = IF ok THEN "ok" ELSE "failed"
    BY <1>1, <2>2, <2>3, <2>4, EndedSound
  <2>6. Len(d.chains) \in Nat
    BY <2>5 DEF Sound, Coordinators
  <2>7. ASSUME Covers(c, written[r], mark, captured)
        PROVE  Covers(d, written'[r], mark, captured)
    <3>1. Latest(c).version >= captured /\ FirstSince(mark) \in 1 .. Len(d.chains)
      BY <1>3, <2>2, <2>5, <2>6, <2>7 DEF Covers
    <3>2. CASE d.active # NoSave
      BY <2>5, <3>1, <3>2 DEF Covers
    <3>3. CASE d.active = NoSave
      BY <2>1, <2>5, <3>1, <3>3 DEF Covers
    <3> QED BY <3>2, <3>3
  <2> QED BY <1>1, <2>2, <2>5, <2>7
<1>7. CASE Renews(r)
  BY <1>7 DEF Renews, Running
<1> QED BY <1>4, <1>5, <1>6, <1>7

LEMMA FlushWaits ==
  ASSUME SaveInv, FlushInv, Moves, flush' = flush
  PROVE  FlushInv'
<1>1. SaveInv'
  BY MovesKeep
<1>2. CASE ~Running
  BY <1>2 DEF FlushInv, Running, Passing
<1>3. CASE Running
  <2>1. \A r \in Pairs : Stays(r) \/ Enqueues(r) \/ Ends(r) \/ Renews(r)
    BY Constant DEF Moves
  <2>2. \A r \in Pairs : Grows(coord[r], coord'[r])
    BY <1>3, <2>1, CoverKept
  <2>3. \A r \in Pairs : Len(coord[r].chains) \in Nat /\ Len(coord'[r].chains) \in Nat
    BY <1>1, Constant DEF SaveInv, Sound, Coordinators
  <2>4. ASSUME NEW r \in Flushed PROVE Covered(r)'
    <3>1. Covers(coord[r], written[r], flush.mark[r], flush.captured[r])
          /\ flush.captured[r] <= edits[r]
      BY <1>3 DEF FlushInv, Covered
    <3>2. Covers(coord'[r], written'[r], flush.mark[r], flush.captured[r])
          /\ flush.captured[r] <= edits'[r]
      BY <1>3, <2>1, <3>1, CoverKept, Constant
    <3> QED BY <3>2 DEF Covered, Covers
  <2>5. Passing'
    <3>1. ASSUME flush.pc \in {"settings", "project"}, NEW r \in Pairs
          PROVE  flush.seen[r] <= Len(coord'[r].chains)
      <4>1. flush.seen[r] \in Nat /\ flush.seen[r] <= Len(coord[r].chains)
        BY <3>1 DEF FlushInv, Passing, Flushes
      <4> QED BY <4>1, <2>2, <2>3 DEF Grows
    <3>2. ASSUME flush.pc = "project"
          PROVE  /\ flush.upto <= Len(coord'["project"].chains)
                 /\ \A i \in FirstSince(flush.mark["settings"]) .. flush.seen["settings"] :
                        coord'["settings"].chains[i] = "ok"
      <4>1. /\ flush.upto \in Nat /\ flush.upto <= Len(coord["project"].chains)
            /\ flush.seen["settings"] \in Nat
            /\ flush.seen["settings"] <= Len(coord["settings"].chains)
            /\ \A i \in FirstSince(flush.mark["settings"]) .. flush.seen["settings"] :
                   coord["settings"].chains[i] = "ok"
        BY <3>2 DEF FlushInv, Passing, Flushes, Pairs
      <4>2. FirstSince(flush.mark["settings"]) \in Nat \ {0}
        BY <1>3, <2>3, Constant DEF FlushInv, Covered, Covers
      <4>3. flush.upto <= Len(coord'["project"].chains)
        BY <2>2, <2>3, <4>1 DEF Grows, Pairs
      <4>4. ASSUME NEW i \in FirstSince(flush.mark["settings"]) .. flush.seen["settings"]
            PROVE  coord'["settings"].chains[i] = "ok"
        <5>1. i \in 1 .. Len(coord["settings"].chains) /\ coord["settings"].chains[i] = "ok"
          BY <2>3, <4>1, <4>2 DEF Pairs
        <5> QED BY <2>2, <5>1 DEF Grows, Pairs
      <4> QED BY <4>3, <4>4
    <3> QED BY <3>1, <3>2 DEF Passing, FlushInv
  <2> QED BY <2>4, <2>5 DEF FlushInv
<1> QED BY <1>2, <1>3

LEMMA FlushBegins ==
  ASSUME SaveInv, FlushInv, FlushBegin
  PROVE  FlushInv'
<1> DEFINE mark == [r \in Pairs |-> ChainMark(coord[r])]
           captured == [r \in Pairs |-> IF r \in Flushed THEN edits[r] ELSE 0]
<1>1. flush' = [flush EXCEPT !.pc = "results", !.mark = mark, !.captured = captured]
  BY DEF FlushBegin, Pairs
<1>2. /\ mark \in [Pairs -> [seq : Nat, activeAtMark : BOOLEAN]]
      /\ captured \in [Pairs -> Nat]
  BY CoordTyped, Constant DEF ChainMark, SaveInv
<1> HIDE DEF mark, captured
<1>3. /\ flush' \in Flushes /\ flush'.pc = "results"
      /\ flush'.mark = mark /\ flush'.captured = captured
  BY <1>1, <1>2 DEF FlushInv, Flushes
<1>4. ASSUME NEW r \in Flushed PROVE Covered(r)'
  <2> DEFINE c == coord[r]
             d == coord'[r]
  <2>1. r \in Resources /\ r \in Pairs /\ Ticket(r) \in Clients /\ Newest(r) = edits[r]
    BY Constant DEF Pairs, Ticket, Clients
  <2>2. d = Enqueued(c, Ticket(r), edits[r]) /\ edits' = edits /\ written' = written
    BY <2>1 DEF FlushBegin, idbVars
  <2>3. /\ written[r] \in Nat /\ edits[r] \in Nat /\ Sound(c, written[r], edits[r])
        /\ c \in Coordinators /\ c.chains \in Seq(Outcomes) /\ Len(c.chains) \in Nat
    BY <2>1, CoordTyped DEF SaveInv
  <2>4. d.active # NoSave /\ Latest(d).version = edits[r]
    BY <2>1, <2>2, <2>3, EnqueuedSound
  <2>5. mark[r] = [seq |-> Len(c.chains), activeAtMark |-> c.active # NoSave]
        /\ captured[r] = edits[r]
    BY <2>1 DEF mark, captured, ChainMark
  <2>6. FirstSince(mark[r]) = IF c.active # NoSave THEN Len(c.chains) ELSE Len(c.chains) + 1
    <3> HIDE DEF c
    <3>1. mark[r].seq = Len(c.chains)
      BY <2>5
    <3> DEFINE active == c.active # NoSave
    <3>2. mark[r] = [seq |-> Len(c.chains), activeAtMark |-> active]
      BY <2>5
    <3>3. active = (c.active # NoSave) /\ active \in BOOLEAN
      OBVIOUS
    <3> HIDE DEF active
    <3>4. mark[r].activeAtMark = active
      BY <3>2
    <3>5. FirstSince(mark[r]) = IF active THEN Len(c.chains) ELSE Len(c.chains) + 1
      BY <3>1, <3>4 DEF FirstSince
    <3> QED BY <3>3, <3>5
  <2>7. FirstSince(mark[r]) \in 1 .. Len(d.chains)
    <3> HIDE DEF c, d
    <3>1. CASE c.active # NoSave
      <4>1. d.chains = c.chains /\ Len(c.chains) > 0
        BY <2>1, <2>2, <2>3, <3>1, EnqueuedFields DEF Sound, ChainsSettled
      <4> QED BY <2>3, <2>6, <3>1, <4>1
    <3>2. CASE c.active = NoSave
      <4>1. d.chains = Append(c.chains, "open")
        BY <2>1, <2>2, <2>3, <3>2, EnqueuedFields
      <4>2. Len(d.chains) = Len(c.chains) + 1
        BY <2>3, <4>1
      <4> QED BY <2>3, <2>6, <3>2, <4>2
    <3> QED BY <3>1, <3>2
  <2>8. Covers(d, written'[r], mark[r], captured[r]) /\ captured[r] <= edits'[r]
    BY <2>2, <2>3, <2>4, <2>5, <2>7 DEF Covers
  <2> QED BY <1>3, <2>8 DEF Covered, Covers
<1> QED BY <1>3, <1>4 DEF FlushInv, Passing

(* A pass that looks again at the settings, then at the project.           *)
LEMMA PassBegins ==
  ASSUME SaveInv, FlushInv, Running, flush' = NextPass(flush), UNCHANGED <<coord, edits, written>>
  PROVE  FlushInv' /\ flush'.pc # "ok"
<1> DEFINE seen == [r \in Pairs |-> Len(coord[r].chains)]
           looking == [flush EXCEPT !.pass = @ + 1, !.seen = seen]
<1>1. seen \in [Pairs -> Nat] /\ flush.pass + 1 \in Nat /\ flush \in Flushes
      /\ Len(coord["settings"].chains) \in Nat
  BY CoordTyped, Constant DEF FlushInv, Flushes
<1>2. /\ looking \in Flushes /\ looking.seen = seen /\ looking.mark = flush.mark
      /\ looking.captured = flush.captured
  BY <1>1 DEF Flushes
<1>3. flush' = IF flush.pass = MaxPasses THEN [flush EXCEPT !.pc = "failed"]
               ELSE LookAt(looking, "settings")
  BY DEF NextPass, Pairs
<1>4. \/ flush' = [flush EXCEPT !.pc = "failed"]
      \/ flush' = [looking EXCEPT !.pc = "failed"]
      \/ flush' = [looking EXCEPT !.pc = "settings", !.upto = Len(coord["settings"].chains)]
  BY <1>3 DEF LookAt
<1>5. seen["settings"] = Len(coord["settings"].chains)
      /\ \A r \in Pairs : seen[r] = Len(coord[r].chains)
  BY DEF Pairs
<1> HIDE DEF seen, looking
<1>6. CASE flush' = [flush EXCEPT !.pc = "failed"] \/ flush' = [looking EXCEPT !.pc = "failed"]
  <2>1. flush' \in Flushes /\ flush'.pc = "failed"
    BY <1>1, <1>2, <1>6 DEF Flushes
  <2> QED BY <2>1 DEF FlushInv, Running, Passing
<1>7. CASE flush' = [looking EXCEPT !.pc = "settings", !.upto = Len(coord["settings"].chains)]
  <2>1. /\ flush' \in Flushes /\ flush'.pc = "settings" /\ flush'.seen = seen
        /\ flush'.upto = Len(coord["settings"].chains)
        /\ flush'.mark = flush.mark /\ flush'.captured = flush.captured
    BY <1>1, <1>2, <1>7 DEF Flushes
  <2>2. ASSUME NEW r \in Flushed PROVE Covered(r)'
    BY <2>1 DEF FlushInv, Covered, Covers
  <2>3. Passing'
    BY <1>1, <1>5, <2>1, Constant DEF Passing
  <2> QED BY <2>1, <2>2, <2>3 DEF FlushInv
<1> QED BY <1>4, <1>6, <1>7

(* What a flush that ends well has seen.                                   *)
Saved(r) ==
    /\ Idle(coord[r])
    /\ coord[r].chains[Len(coord[r].chains)] = "ok"
    /\ written[r] >= flush.captured[r]

LEMMA VerifiedSaved ==
  ASSUME SaveInv, FlushInv, Running, NEW r \in Flushed,
         coord[r].chains[Len(coord[r].chains)] = "ok"
  PROVE  Saved(r)
<1> DEFINE c == coord[r]
<1>1. r \in Resources /\ Sound(c, written[r], Newest(r))
  BY Constant DEF SaveInv
<1>2. Covers(c, written[r], flush.mark[r], flush.captured[r])
  BY DEF FlushInv, Covered
<1>3. c.active = NoSave
  BY <1>1 DEF Sound, ChainsSettled
<1>4. c.queued = NoSave
  BY <1>1, <1>3 DEF Sound, Ordered
<1> QED BY <1>2, <1>3, <1>4 DEF Saved, Covers, Idle

LEMMA ObservedOk ==
  ASSUME SaveInv, FlushInv, NEW r \in Pairs, flush.pc = r,
         flush.upto <= Len(coord[r].chains), r \in Flushed,
         "open" \notin Observed(r), "failed" \notin Observed(r),
         NEW i \in FirstSince(flush.mark[r]) .. flush.upto
  PROVE  coord[r].chains[i] = "ok"
<1>1. FirstSince(flush.mark[r]) \in 1 .. Len(coord[r].chains)
  BY Constant DEF FlushInv, Running, Pairs, Covered, Covers
<1>2. Len(coord[r].chains) \in Nat /\ flush.upto \in Nat
  BY CoordTyped, Constant DEF FlushInv, Flushes
<1>3. i \in 1 .. Len(coord[r].chains)
  BY <1>1, <1>2
<1>4. coord[r].chains[i] \in Outcomes
  BY <1>3, CoordTyped, Constant
<1>5. coord[r].chains[i] \in Observed(r)
  BY DEF Observed
<1> QED BY <1>4, <1>5 DEF Outcomes

LEMMA VerifyStep ==
  ASSUME SaveInv, FlushInv, NEW q \in Pairs, FlushVerify(q)
  PROVE  FlushInv' /\ (flush'.pc = "ok" => \A r \in Flushed : Saved(r))
<1>1. /\ flush.pc = q /\ Running /\ flush \in Flushes
      /\ coord' = coord /\ edits' = edits /\ written' = written
  BY Constant DEF FlushVerify, idbVars, Running, FlushInv
<1>2. \A r \in Pairs : Len(coord[r].chains) \in Nat /\ coord[r] \in Coordinators
  BY CoordTyped, Constant
<1>3. ASSUME flush' = [flush EXCEPT !.pc = "failed"]
      PROVE  FlushInv' /\ flush'.pc # "ok"
  <2>1. flush' \in Flushes /\ flush'.pc = "failed"
    BY <1>1, <1>3 DEF Flushes
  <2> QED BY <2>1 DEF FlushInv, Running, Passing
<1>4. CASE "failed" \in Observed(q)
  BY <1>3, <1>4 DEF FlushVerify
<1>5. CASE q = "settings" /\ "failed" \notin Observed(q)
  <2>1. flush' = LookAt(flush, "project")
    BY <1>5 DEF FlushVerify
  <2>2. CASE flush' = [flush EXCEPT !.pc = "failed"]
    BY <1>3, <2>2
  <2>3. CASE flush' = [flush EXCEPT !.pc = "project", !.upto = Len(coord["project"].chains)]
    <3>1. /\ flush' \in Flushes /\ flush'.pc = "project"
          /\ flush'.upto = Len(coord["project"].chains)
          /\ flush'.seen = flush.seen /\ flush'.mark = flush.mark
          /\ flush'.captured = flush.captured
      BY <1>1, <1>2, <2>3, Constant DEF Flushes
    <3>2. ASSUME NEW r \in Flushed PROVE Covered(r)'
      BY <1>1, <3>1 DEF FlushInv, Covered, Covers
    <3>3. flush.upto = flush.seen["settings"] /\ \A r \in Pairs : flush.seen[r] <= Len(coord[r].chains)
      BY <1>1, <1>5 DEF FlushInv, Passing
    <3>4. \A i \in FirstSince(flush.mark["settings"]) .. flush.seen["settings"] :
              coord["settings"].chains[i] = "ok"
      BY <1>1, <1>5, <3>3, ObservedOk, Constant DEF FlushVerify
    <3>5. Passing'
      BY <1>1, <1>2, <3>1, <3>3, <3>4, Constant DEF Passing
    <3> QED BY <3>1, <3>2, <3>5 DEF FlushInv
  <2> QED BY <2>1, <2>2, <2>3 DEF LookAt
<1>6. CASE q = "project" /\ "failed" \notin Observed(q)
  <2>1. CASE \A r \in Pairs : flush.seen[r] = Len(coord[r].chains)
    <3>1. flush' = [flush EXCEPT !.pc = "ok"]
      BY <1>6, <2>1, Constant DEF FlushVerify
    <3>2. flush' \in Flushes /\ flush'.pc = "ok"
      BY <1>1, <3>1 DEF Flushes
    <3>3. FlushInv'
      BY <3>2 DEF FlushInv, Running, Passing
    <3>4. /\ flush.upto = Len(coord["project"].chains)
          /\ \A i \in FirstSince(flush.mark["settings"]) .. flush.seen["settings"] :
                 coord["settings"].chains[i] = "ok"
      BY <1>1, <1>2, <1>6, <2>1, Constant DEF FlushInv, Passing, Flushes
    <3>5. ASSUME NEW r \in Flushed PROVE Saved(r)
      <4>1. FirstSince(flush.mark[r]) \in 1 .. Len(coord[r].chains) /\ Len(coord[r].chains) \in Nat
        BY <1>1, <1>2, Constant DEF FlushInv, Covered, Covers
      <4>2. Len(coord[r].chains) \in FirstSince(flush.mark[r]) .. Len(coord[r].chains)
        BY <4>1
      <4>3. CASE r = "settings"
        BY <1>1, <2>1, <3>4, <4>2, <4>3, VerifiedSaved, Constant
      <4>4. CASE r = "project"
        <5>1. flush.upto <= Len(coord[r].chains)
          BY <3>4, <4>1, <4>4
        <5>2. coord[r].chains[Len(coord[r].chains)] = "ok"
          BY <1>1, <1>6, <3>4, <4>2, <4>4, <5>1, ObservedOk, Constant DEF FlushVerify
        <5> QED BY <1>1, <5>2, VerifiedSaved
      <4> QED BY <4>3, <4>4, Constant
    <3> QED BY <3>3, <3>5
  <2>2. CASE ~ \A r \in Pairs : flush.seen[r] = Len(coord[r].chains)
    <3>1. flush' = NextPass(flush)
      BY <1>6, <2>2, Constant DEF FlushVerify
    <3> QED BY <1>1, <3>1, PassBegins
  <2> QED BY <2>1, <2>2
<1> QED BY <1>4, <1>5, <1>6, Constant

LEMMA FlushStep ==
  ASSUME SaveInv, FlushInv, [Next]_vars
  PROVE  FlushInv' /\ (flush.pc # "ok" /\ flush'.pc = "ok" => \A r \in Flushed : Saved(r))
<1>1. ASSUME flush' = flush PROVE FlushInv' /\ (flush.pc # "ok" => flush'.pc # "ok")
  BY <1>1, NextMoves, FlushWaits
<1>2. CASE UNCHANGED vars
  BY <1>1, <1>2 DEF vars, saveVars
<1>3. CASE User
  <2>1. CASE FlushBegin
    <3>1. flush'.pc = "results"
      BY <2>1 DEF FlushBegin, FlushInv, Flushes
    <3> QED BY <2>1, <3>1, FlushBegins
  <2>2. CASE ~FlushBegin
    BY <1>1, <1>3, <2>2 DEF User, Edit, ManualSave, ResetBegin, LateCloser, saveVars
  <2> QED BY <2>1, <2>2
<1>4. CASE Continuations
  <2>1. CASE FlushAnswered
    <3>1. /\ flush.pc = "results" /\ flush' = [flush EXCEPT !.pc = "drain"]
          /\ coord' = coord /\ edits' = edits /\ written' = written
      BY <2>1 DEF FlushAnswered, idbVars
    <3>2. /\ flush' \in Flushes /\ flush'.pc = "drain"
          /\ flush'.mark = flush.mark /\ flush'.captured = flush.captured
      BY <3>1 DEF FlushInv, Flushes
    <3>3. \A r \in Flushed : Covered(r)'
      BY <3>1, <3>2 DEF FlushInv, Running, Covered, Covers
    <3> QED BY <3>2, <3>3 DEF FlushInv, Passing
  <2>2. CASE FlushDrained
    <3>1. /\ flush.pc = "drain" /\ coord' = coord /\ edits' = edits /\ written' = written
          /\ flush' = [flush EXCEPT !.pc = "failed"] \/ flush' = NextPass(flush)
      BY <2>2 DEF FlushDrained, idbVars
    <3>2. CASE flush' = [flush EXCEPT !.pc = "failed"]
      <4>1. flush' \in Flushes /\ flush'.pc = "failed"
        BY <3>2 DEF FlushInv, Flushes
      <4> QED BY <4>1 DEF FlushInv, Running, Passing
    <3>3. CASE flush' = NextPass(flush)
      BY <3>1, <3>3, PassBegins DEF Running
    <3> QED BY <3>1, <3>2, <3>3
  <2>3. CASE FlushReturned
    <3>1. flush' \in Flushes /\ flush'.pc = "none"
      BY <2>3, NoFlushTyped DEF FlushReturned
    <3> QED BY <3>1 DEF FlushInv, Running, Passing
  <2>4. CASE \E r \in {"project", "settings"} : FlushVerify(r)
    BY <2>4, VerifyStep, Constant
  <2>5. CASE \/ \E a \in Autosaves : ProjectDebounced(a) \/ ProjectSaved(a) \/ IndexProject(a)
             \/ SettingsDebounced
             \/ \E x \in Resets : ResetDrained(x) \/ ResetClosed(x) \/ Reload(x)
             \/ \E r \in Resources : SaveNeedsConnection(r)
    <3>1. flush' = flush
      BY <2>5 DEF ProjectDebounced, ProjectSaved, IndexProject, SettingsDebounced, ResetDrained,
                  ResetClosed, Reload, SaveNeedsConnection, saveVars
    <3> QED BY <1>1, <3>1
  <2> QED BY <1>4, <2>1, <2>2, <2>3, <2>4, <2>5 DEF Continuations
<1>5. CASE Database
  <2>1. flush' = flush
    BY <1>5 DEF Database, Opened, VersionChange, Deleted, Commit, SaveFails, CloserSettles, saveVars
  <2> QED BY <1>1, <2>1
<1>6. CASE OtherTabCloses \/ \E x \in Resets : DeletionBlocked(x)
  <2>1. flush' = flush
    BY <1>6 DEF OtherTabCloses, DeletionBlocked, saveVars
  <2> QED BY <1>1, <2>1
<1> QED BY <1>2, <1>3, <1>4, <1>5, <1>6 DEF Next

(* persistedStateFlush.ts: a flush that returns has everything saved that  *)
(* it captured, and the newest save of each resource is the one written    *)
(* last, for any number of autosaves, passes and retained chains.          *)
THEOREM FlushIsSaved == Spec => FlushMeansSaved
<1> DEFINE Good == SaveInv /\ FlushInv
<1>1. Init => Good
  BY SaveInit, FlushInit
<1>2. Good /\ [Next]_vars => Good' /\ [flush.pc # "ok" /\ flush'.pc = "ok" =>
           \A r \in Flushed : /\ Idle(coord[r])
                              /\ coord[r].chains[Len(coord[r].chains)] = "ok"
                              /\ written[r] >= flush.captured[r]]_vars
  <2> SUFFICES ASSUME Good, [Next]_vars
               PROVE  Good' /\ (flush.pc # "ok" /\ flush'.pc = "ok" => \A r \in Flushed : Saved(r))
    BY DEF Saved
  <2> QED BY NextMoves, MovesKeep, FlushStep
<1> QED BY <1>1, <1>2, PTL DEF Spec, FlushMeansSaved

(***************************************************************************)
(* The resets: a barrier that is not the gate's has no closer left, and    *)
(* while no failure came between, the gate stays closed from the draining  *)
(* to the reload.                                                          *)
(***************************************************************************)
ResetStates == {"none", "drain", "close", "deleting", "deleted", "failed"}
ResetRecords == [pc : ResetStates, barrier : Nat]
IsBarrier(r) == DOMAIN r = {"pending", "failed"} /\ r.pending \in Nat

Barriers(bs, g) ==
    /\ bs = [b \in DOMAIN bs |-> bs[b]]
    /\ \A b \in DOMAIN bs : /\ b \in Nat \ {None} /\ b <= g.generation /\ IsBarrier(bs[b])
                            /\ bs[b].pending > 0 => b = g.barrier
    /\ g.barrier # None => g.barrier \in DOMAIN bs /\ g.barrier = g.generation

Closing(rs, b) == \E x \in Resets : rs[x].pc = "close" /\ rs[x].barrier = b

(* A reset whose gate is closed. *)
Shut(rs) == \E x \in Resets : rs[x].pc \in {"close", "deleting", "deleted"}
Gone(rs) == \E x \in Resets : rs[x].pc = "deleted"

Clean(rs, fl) ==
    /\ fl
    /\ \/ \A x \in Resets : rs[x].pc # "failed"
       \/ \E x \in Resets : \A y \in Resets \ {x} : rs[y].pc \in {"none", "failed"}

Resetting(rs, fl, g) ==
    /\ g.barrier # None => Closing(rs, g.barrier)
    /\ ~fl => (\A x \in Resets : rs[x].pc = "none") \/ \E x \in Resets : rs[x].pc = "failed"
    /\ Clean(rs, fl) /\ Shut(rs) => g.inReset

ResetInv ==
    /\ GateInv /\ reset \in [Resets -> ResetRecords] /\ flag \in BOOLEAN
    /\ Barriers(barriers, gate)
    /\ \A x \in Resets : reset[x].pc = "close" => reset[x].barrier \in DOMAIN barriers
    /\ Resetting(reset, flag, gate)
    /\ Clean(reset, flag) /\ Gone(reset) => Empty
    /\ page \in {"live", "reloaded"} /\ (page = "reloaded" => Gone(reset))

(* The steps that move no reset. *)
Calm == UNCHANGED <<reset, flag, gate, barriers, page>>

LEMMA ResetSteps ==
  ASSUME Next
  PROVE  \/ Calm \/ LateCloser \/ Deleted
         \/ \E g \in DOMAIN barriers, ok \in BOOLEAN : CloserSettles(g, ok)
         \/ \E x \in Resets : \/ ResetBegin(x) \/ ResetDrained(x) \/ ResetClosed(x)
                              \/ DeletionBlocked(x) \/ Reload(x)
<1>1. CASE User
  BY <1>1 DEF User, Calm, Edit, ManualSave, FlushBegin, resetVars
<1>2. CASE Continuations
  BY <1>2 DEF Continuations, Calm, ProjectDebounced, ProjectSaved, IndexProject, SettingsDebounced,
              FlushAnswered, FlushDrained, FlushReturned, FlushVerify, SaveNeedsConnection, resetVars
<1>3. CASE Database
  BY <1>3 DEF Database, Calm, Opened, VersionChange, Commit, SaveFails, resetVars
<1>4. CASE OtherTabCloses
  BY <1>4 DEF OtherTabCloses, Calm, resetVars
<1> QED BY <1>1, <1>2, <1>3, <1>4 DEF Next

(* A transaction begins on a connection, and only transactions write.      *)
LEMMA NoNewTransaction ==
  ASSUME SaveInv, Next, Empty, conn = None
  PROVE  Empty'
<1> SUFFICES ASSUME NEW r \in Resources PROVE stored'[r] = 0 /\ step'[r] # "tx"
  BY DEF Empty
<1>1. /\ DOMAIN step = Resources /\ DOMAIN coord = Resources
      /\ stored[r] = 0 /\ \A q \in Resources : step[q] # "tx"
  BY DEF SaveInv, OnResources, Empty
<1>2. ASSUME NEW q \in Resources, NEW who, NEW v, Enqueue(q, who, v) PROVE step'[r] # "tx"
  BY <1>1, <1>2 DEF Enqueue
<1>3. ASSUME NEW S \in SUBSET Resources, NEW ok \in BOOLEAN, EndSaves(S, ok) PROVE step'[r] # "tx"
  BY <1>1, <1>3 DEF EndSaves
<1>4. CASE User
  <2>1. stored' = stored
    BY <1>4 DEF User, Edit, ManualSave, FlushBegin, ResetBegin, LateCloser, idbVars
  <2>2. CASE ManualSave
    <3>1. "project" \in Resources
      BY DEF Resources
    <3> QED BY <1>1, <1>2, <2>1, <2>2, <3>1 DEF ManualSave
  <2>3. CASE FlushBegin
    <3>1. step'[r] = IF r \in Flushed /\ Idle(coord[r]) THEN "start" ELSE step[r]
      BY <2>3 DEF FlushBegin
    <3> QED BY <1>1, <2>1, <3>1
  <2>4. CASE LateCloser \/ (\E q \in Resources : Edit(q)) \/ (\E x \in Resets : ResetBegin(x))
    <3>1. step' = step
      BY <2>4 DEF LateCloser, Edit, ResetBegin, saveVars
    <3> QED BY <1>1, <2>1, <3>1
  <2> QED BY <1>4, <2>2, <2>3, <2>4 DEF User
<1>5. CASE Continuations
  <2>1. stored' = stored
    BY <1>5 DEF Continuations, ProjectDebounced, ProjectSaved, IndexProject, SettingsDebounced,
              FlushAnswered, FlushDrained, FlushReturned, FlushVerify, SaveNeedsConnection,
              ResetDrained, ResetClosed, Reload, idbVars
  <2>2. \/ step' = step
        \/ \E q \in Resources, who \in Clients, v \in Nat : Enqueue(q, who, v)
        \/ \E q \in Resources : SaveNeedsConnection(q)
    <3>1. /\ {"project", "settings", "index"} = Resources
          /\ Autosaves \cup {"index", "settings"} \subseteq Clients
          /\ Indexed \in Nat /\ edits["project"] \in Nat /\ edits["settings"] \in Nat
      BY DEF Resources, Clients, Indexed, SaveInv
    <3>2. CASE \/ FlushAnswered \/ FlushDrained \/ FlushReturned
               \/ \E q \in {"project", "settings"} : FlushVerify(q)
               \/ \E x \in Resets : ResetDrained(x) \/ ResetClosed(x) \/ Reload(x)
      BY <3>2 DEF FlushAnswered, FlushDrained, FlushReturned, FlushVerify, ResetDrained,
                  ResetClosed, Reload, saveVars
    <3>3. CASE \/ \E a \in Autosaves : ProjectDebounced(a) \/ ProjectSaved(a) \/ IndexProject(a)
               \/ SettingsDebounced
      BY <3>1, <3>3 DEF ProjectDebounced, ProjectSaved, IndexProject, SettingsDebounced
    <3> QED BY <1>5, <3>2, <3>3 DEF Continuations
  <2>3. ASSUME NEW q \in Resources, SaveNeedsConnection(q) PROVE step'[r] # "tx"
    <3>1. step' = [step EXCEPT ![q] = "opening"] \/ EndSaves({q}, FALSE)
      BY <2>3 DEF SaveNeedsConnection
    <3> QED BY <1>1, <1>3, <3>1
  <2> QED BY <1>1, <1>2, <2>1, <2>2, <2>3
<1>6. CASE Database
  <2>1. CASE Opened
    <3> DEFINE generation == Head(requests).id
               waiting == {q \in Resources : step[q] = "opening" /\ awaited[q] = generation}
    <3>1. stored' = stored
      BY <2>1 DEF Opened
    <3>2. \/ step' = [q \in Resources |-> IF q \in waiting THEN "start" ELSE step[q]]
          \/ EndSaves(waiting, FALSE)
      BY <2>1 DEF Opened
    <3>3. waiting \in SUBSET Resources
      OBVIOUS
    <3> HIDE DEF waiting
    <3> QED BY <1>1, <1>3, <3>1, <3>2, <3>3
  <2>2. CASE VersionChange \/ \E g \in DOMAIN barriers, ok \in BOOLEAN : CloserSettles(g, ok)
    <3>1. stored' = stored /\ step' = step
      BY <2>2 DEF VersionChange, CloserSettles, saveVars, idbVars
    <3> QED BY <1>1, <3>1
  <2>3. CASE Deleted
    <3>1. stored'[r] = 0 /\ step' = step
      BY <2>3 DEF Deleted, saveVars
    <3> QED BY <1>1, <3>1
  <2> QED BY <1>1, <1>6, <2>1, <2>2, <2>3 DEF Database, Commit, SaveFails
<1>7. CASE OtherTabCloses \/ \E x \in Resets : DeletionBlocked(x)
  <2>1. stored' = stored /\ step' = step
    BY <1>7 DEF OtherTabCloses, DeletionBlocked, saveVars, idbVars
  <2> QED BY <1>1, <2>1
<1> QED BY <1>4, <1>5, <1>6, <1>7 DEF Next

LEMMA SameClass ==
  ASSUME NEW rs, NEW rs2, NEW fl,
         \A x \in Resets : /\ rs2[x].pc = "failed" <=> rs[x].pc = "failed"
                           /\ rs2[x].pc = "none" <=> rs[x].pc = "none"
  PROVE  Clean(rs2, fl) <=> Clean(rs, fl)
BY DEF Clean

(* One reset moves on. *)
LEMMA MovedOn ==
  ASSUME NEW rs \in [Resets -> ResetRecords], NEW x \in Resets, NEW pc \in ResetStates,
         NEW rs2, rs2 = [rs EXCEPT ![x].pc = pc]
  PROVE  /\ rs2 \in [Resets -> ResetRecords]
         /\ rs2[x].pc = pc /\ rs2[x].barrier = rs[x].barrier
         /\ \A y \in Resets \ {x} : rs2[y] = rs[y]
BY DEF ResetRecords

LEMMA ResetInit == Init => ResetInv
<1> SUFFICES ASSUME Init PROVE ResetInv
  OBVIOUS
<1>1. GateInv
  BY GateInit
<1>2. reset \in [Resets -> ResetRecords] /\ \A x \in Resets : reset[x].pc = "none"
  BY DEF Init, ResetRecords, ResetStates, None
<1>3. flag = FALSE /\ page = "live" /\ gate.barrier = None /\ DOMAIN barriers = {}
  BY DEF Init, NewGate
<1>4. Barriers(barriers, gate)
  <2>1. barriers = [b \in DOMAIN barriers |-> barriers[b]]
    BY DEF Init
  <2> QED BY <1>3, <2>1 DEF Barriers
<1> QED BY <1>1, <1>2, <1>3, <1>4 DEF ResetInv, Resetting, Clean, Shut, Gone

LEMMA CalmKeeps ==
  ASSUME ResetInv, SaveInv, Next, Calm, GateInv'
  PROVE  ResetInv'
<1>1. Gone(reset) => Shut(reset)
  BY DEF Gone, Shut
<1>2. ASSUME Clean(reset, flag), Gone(reset) PROVE Empty'
  <2>1. Empty /\ gate.inReset
    BY <1>1, <1>2 DEF ResetInv, Resetting
  <2>2. conn = None
    BY <2>1 DEF ResetInv, GateInv, NoStaleConnection
  <2> QED BY <2>1, <2>2, NoNewTransaction
<1> QED BY <1>2 DEF ResetInv, Calm

(* A reset begins. *)
LEMMA BeginKeeps ==
  ASSUME ResetInv, NEW x \in Resets, ResetBegin(x), GateInv'
  PROVE  ResetInv'
<1>1. /\ reset[x].pc = "none" /\ reset' = [reset EXCEPT ![x].pc = "drain"] /\ flag' = TRUE
      /\ gate' = gate /\ barriers' = barriers /\ page' = page /\ stored' = stored /\ step' = step
  BY DEF ResetBegin, idbVars
<1>2. PICK rs : rs = reset'
  OBVIOUS
<1>3. /\ rs \in [Resets -> ResetRecords] /\ rs[x].pc = "drain"
      /\ \A y \in Resets \ {x} : rs[y] = reset[y]
  <2>1. "drain" \in ResetStates
    BY DEF ResetStates
  <2> QED BY <1>1, <1>2, <2>1, MovedOn DEF ResetInv
<1>4. /\ \A b : Closing(reset, b) <=> Closing(rs, b)
      /\ Shut(rs) <=> Shut(reset)
      /\ Gone(rs) <=> Gone(reset)
  BY <1>1, <1>3 DEF Closing, Shut, Gone
<1>5. Clean(rs, TRUE) /\ Shut(rs) => Clean(reset, flag)
  <2> SUFFICES ASSUME Clean(rs, TRUE), Shut(rs) PROVE Clean(reset, flag)
    OBVIOUS
  <2>1. PICK y \in Resets : reset[y].pc \in {"close", "deleting", "deleted"}
    BY <1>4 DEF Shut
  <2>2. \A z \in Resets : rs[z].pc # "failed"
    BY <1>1, <1>3, <2>1 DEF Clean
  <2>3. \A z \in Resets : reset[z].pc # "failed"
    BY <1>1, <1>3, <2>2
  <2>4. flag
    BY <2>1, <2>3 DEF ResetInv, Resetting
  <2> QED BY <2>3, <2>4 DEF Clean
<1>6. Resetting(rs, TRUE, gate)
  BY <1>4, <1>5 DEF ResetInv, Resetting
<1>7. Gone(rs) => Shut(rs)
  BY DEF Gone, Shut
<1>8. ASSUME Clean(rs, TRUE), Gone(rs) PROVE Empty'
  <2>1. Empty
    BY <1>4, <1>5, <1>7, <1>8 DEF ResetInv
  <2> QED BY <1>1, <2>1 DEF Empty
<1>9. \A y \in Resets : rs[y].pc = "close" => rs[y].barrier \in DOMAIN barriers
  BY <1>3 DEF ResetInv
<1>10. ~(~flag')
  BY <1>1
<1> QED BY <1>1, <1>2, <1>3, <1>4, <1>6, <1>8, <1>9 DEF ResetInv

(* The coordinators are drained: a barrier begins or is joined. *)
LEMMA DrainedKeeps ==
  ASSUME ResetInv, NEW x \in Resets, ResetDrained(x), GateInv'
  PROVE  ResetInv'
<1>1. /\ reset[x].pc = "drain"
      /\ reset' = [reset EXCEPT ![x] = [pc |-> "close", barrier |-> BarrierOf(gate)]]
      /\ gate' = ResetBegun(gate) /\ flag' = flag /\ page' = page
      /\ stored' = stored /\ step' = step
      /\ IF JoinsBarrier(gate)
         THEN barriers' = barriers
         ELSE barriers' = [g \in DOMAIN barriers \cup {BarrierOf(gate)} |->
                              IF g \in DOMAIN barriers THEN barriers[g]
                              ELSE [pending |-> 1, failed |-> FALSE]]
  BY DEF ResetDrained, saveVars
<1>2. PICK rs, g2, bs : rs = reset' /\ g2 = gate' /\ bs = barriers'
  OBVIOUS
<1>3. gate \in Gates /\ g2 \in Gates /\ BarrierOf(gate) \in Nat /\ g2.barrier = BarrierOf(gate)
      /\ g2.barrier # None
  <2>1. gate \in Gates /\ g2 \in Gates
    BY <1>2 DEF ResetInv, GateInv
  <2>2. gate.generation \in Nat /\ gate.barrier \in Nat
    BY <2>1 DEF Gates
  <2> QED BY <1>1, <1>2, <2>1, <2>2 DEF BarrierOf, ResetBegun, JoinsBarrier, None
<1>4. /\ rs \in [Resets -> ResetRecords] /\ rs[x].pc = "close" /\ rs[x].barrier = g2.barrier
      /\ \A y \in Resets \ {x} : rs[y] = reset[y]
  <2>1. [pc |-> "close", barrier |-> BarrierOf(gate)] \in ResetRecords
    BY <1>3 DEF ResetRecords, ResetStates
  <2> QED BY <1>1, <1>2, <1>3, <2>1 DEF ResetInv
<1>5. Barriers(bs, g2) /\ DOMAIN barriers \subseteq DOMAIN bs /\ g2.barrier \in DOMAIN bs
  <2>1. CASE JoinsBarrier(gate)
    <3>1. g2 = gate /\ bs = barriers
      BY <1>1, <1>2, <2>1 DEF ResetBegun
    <3> QED BY <1>3, <3>1 DEF ResetInv, Barriers
  <2>2. CASE ~JoinsBarrier(gate)
    <3> DEFINE n == gate.generation + 1
               new == [pending |-> 1, failed |-> FALSE]
    <3>1. /\ g2.generation = n /\ g2.barrier = n /\ n \in Nat \ {None} /\ gate.generation \in Nat
          /\ bs = [g \in DOMAIN barriers \cup {n} |-> IF g \in DOMAIN barriers THEN barriers[g] ELSE new]
      BY <1>1, <1>2, <1>3, <2>2 DEF ResetBegun, BarrierOf, Gates, None
    <3>2. \A b \in DOMAIN barriers : b # n /\ b \in Nat \ {None} /\ b <= n /\ IsBarrier(barriers[b])
                                     /\ ~(barriers[b].pending > 0)
      BY <2>2, <3>1 DEF ResetInv, Barriers, JoinsBarrier, None
    <3>3. IsBarrier(new) /\ new.pending = 1
      BY DEF IsBarrier
    <3> HIDE DEF n, new
    <3>4. DOMAIN bs = DOMAIN barriers \cup {n} /\ bs[n] = new /\ \A b \in DOMAIN barriers : bs[b] = barriers[b]
      BY <3>1, <3>2
    <3>5. bs = [b \in DOMAIN bs |-> bs[b]]
      BY <3>1
    <3>6. \A b \in DOMAIN bs : /\ b \in Nat \ {None} /\ b <= g2.generation /\ IsBarrier(bs[b])
                               /\ bs[b].pending > 0 => b = g2.barrier
      BY <3>1, <3>2, <3>3, <3>4
    <3>7. g2.barrier \in DOMAIN bs /\ g2.barrier = g2.generation
      BY <3>1, <3>4
    <3> QED BY <3>4, <3>5, <3>6, <3>7 DEF Barriers
  <2> QED BY <2>1, <2>2
<1>6. \A y \in Resets : rs[y].pc = "close" => rs[y].barrier \in DOMAIN bs
  BY <1>4, <1>5 DEF ResetInv
<1>7. Clean(rs, flag) <=> Clean(reset, flag)
  <2>1. \A y \in Resets : /\ rs[y].pc = "failed" <=> reset[y].pc = "failed"
                          /\ rs[y].pc = "none" <=> reset[y].pc = "none"
    BY <1>1, <1>4
  <2> QED BY <2>1, SameClass
<1>8. ASSUME Clean(rs, flag) PROVE g2.inReset
  <2>1. CASE JoinsBarrier(gate)
    <3>1. g2 = gate /\ gate.barrier # None
      BY <1>1, <1>2, <2>1 DEF ResetBegun, JoinsBarrier
    <3>2. Shut(reset)
      BY <3>1 DEF ResetInv, Resetting, Closing, Shut
    <3> QED BY <1>7, <1>8, <3>1, <3>2 DEF ResetInv, Resetting
  <2>2. CASE ~JoinsBarrier(gate)
    BY <1>1, <1>2, <2>2 DEF ResetBegun
  <2> QED BY <2>1, <2>2
<1>9. ~flag => (\A y \in Resets : rs[y].pc = "none") \/ \E y \in Resets : rs[y].pc = "failed"
  BY <1>1, <1>4 DEF ResetInv, Resetting
<1>10. Resetting(rs, flag, g2)
  BY <1>4, <1>8, <1>9 DEF Resetting, Closing
<1>11. Gone(rs) <=> Gone(reset)
  BY <1>1, <1>4 DEF Gone
<1>12. Empty' <=> Empty
  BY <1>1 DEF Empty
<1> QED BY <1>1, <1>2, <1>4, <1>5, <1>6, <1>7, <1>10, <1>11, <1>12 DEF ResetInv

(* A closer settles, or one more joins the barrier. *)
LEMMA CloserKeeps ==
  ASSUME ResetInv, GateInv',
         LateCloser \/ \E g \in DOMAIN barriers, ok \in BOOLEAN : CloserSettles(g, ok)
  PROVE  ResetInv'
<1>1. /\ reset' = reset /\ flag' = flag /\ gate' = gate /\ page' = page
      /\ stored' = stored /\ step' = step
  BY DEF LateCloser, CloserSettles, saveVars, idbVars
<1>2. PICK bs : bs = barriers'
  OBVIOUS
<1>3. DOMAIN bs = DOMAIN barriers /\ Barriers(bs, gate)
  <2>1. /\ \A b \in DOMAIN barriers : IsBarrier(barriers[b])
        /\ barriers = [b \in DOMAIN barriers |-> barriers[b]]
    BY DEF ResetInv, Barriers
  <2>2. ASSUME NEW g \in DOMAIN barriers, NEW now, bs = [barriers EXCEPT ![g] = now],
               IsBarrier(now), now.pending > 0 => g = gate.barrier
        PROVE  DOMAIN bs = DOMAIN barriers /\ Barriers(bs, gate)
    <3>1. /\ DOMAIN bs = DOMAIN barriers /\ bs[g] = now
          /\ \A b \in DOMAIN barriers \ {g} : bs[b] = barriers[b]
          /\ bs = [b \in DOMAIN bs |-> bs[b]]
      BY <2>1, <2>2
    <3> QED BY <2>2, <3>1 DEF ResetInv, Barriers
  <2>3. CASE LateCloser
    <3>1. PICK g : g = gate.barrier
      OBVIOUS
    <3>2. bs = [barriers EXCEPT ![g].pending = @ + 1] /\ g # None
      BY <1>2, <2>3, <3>1 DEF LateCloser, JoinsBarrier
    <3>3. g \in DOMAIN barriers
      BY <3>1, <3>2 DEF ResetInv, Barriers
    <3>4. PICK now : now = [barriers[g] EXCEPT !.pending = @ + 1]
      OBVIOUS
    <3>5. IsBarrier(now)
      BY <2>1, <3>3, <3>4 DEF IsBarrier
    <3>6. bs = [barriers EXCEPT ![g] = now]
      BY <3>2, <3>4
    <3> QED BY <2>2, <3>1, <3>3, <3>5, <3>6
  <2>4. ASSUME NEW g \in DOMAIN barriers, NEW ok \in BOOLEAN, CloserSettles(g, ok)
        PROVE  DOMAIN bs = DOMAIN barriers /\ Barriers(bs, gate)
    <3>1. /\ barriers[g].pending > 0
          /\ bs = [barriers EXCEPT ![g].pending = @ - 1, ![g].failed = @ \/ ~ok]
      BY <1>2, <2>4 DEF CloserSettles
    <3>2. PICK mid : mid = [barriers[g] EXCEPT !.pending = @ - 1]
      OBVIOUS
    <3>3. PICK now : now = [mid EXCEPT !.failed = @ \/ ~ok]
      OBVIOUS
    <3>4. IsBarrier(mid)
      BY <2>1, <3>1, <3>2 DEF IsBarrier
    <3>5. IsBarrier(now)
      BY <3>3, <3>4 DEF IsBarrier
    <3>6. PICK bs1 : bs1 = [barriers EXCEPT ![g].pending = @ - 1]
      OBVIOUS
    <3>7. bs1 = [barriers EXCEPT ![g] = mid] /\ bs1[g] = mid
      BY <3>2, <3>6
    <3>8. bs = [bs1 EXCEPT ![g].failed = @ \/ ~ok]
      BY <3>1, <3>6
    <3>9. bs = [bs1 EXCEPT ![g] = now]
      BY <3>3, <3>7, <3>8
    <3>10. bs = [barriers EXCEPT ![g] = now]
      BY <2>1, <3>7, <3>9
    <3>11. g = gate.barrier
      BY <3>1 DEF ResetInv, Barriers
    <3> QED BY <2>2, <3>5, <3>10, <3>11
  <2> QED BY <2>3, <2>4
<1>4. Empty' <=> Empty
  BY <1>1 DEF Empty
<1> QED BY <1>1, <1>2, <1>3, <1>4 DEF ResetInv

(* A barrier is left by a reset for which no closer is unsettled. *)
LEMMA LeftBarriers ==
  ASSUME ResetInv, NEW x \in Resets, reset[x].pc = "close", barriers[reset[x].barrier].pending = 0,
         NEW left, left = BarrierLeft(gate, reset[x].barrier)
  PROVE  /\ Barriers(barriers, left) /\ left \in Gates /\ left.inReset = gate.inReset
         /\ left.generation = gate.generation
         /\ left.barrier # None => left.barrier = gate.barrier /\ left.barrier # reset[x].barrier
<1> DEFINE b == reset[x].barrier
<1>1. gate \in Gates
  BY DEF ResetInv, GateInv
<1>2. left \in Gates /\ left.inReset = gate.inReset /\ left.generation = gate.generation
  BY <1>1, GateOperators
<1>3. CASE gate.barrier = b
  <2>1. left.barrier = None
    BY <1>1, <1>3 DEF BarrierLeft, Gates
  <2>2. \A c \in DOMAIN barriers : ~(barriers[c].pending > 0)
    BY <1>3 DEF ResetInv, Barriers
  <2> QED BY <1>2, <2>1, <2>2 DEF ResetInv, Barriers
<1>4. CASE gate.barrier # b
  <2>1. left = gate
    BY <1>4 DEF BarrierLeft
  <2> QED BY <1>2, <1>4, <2>1 DEF ResetInv
<1> QED BY <1>3, <1>4

(* A reset fails, at its barrier or for a blocked deletion. *)
LEMMA FailedKeeps ==
  ASSUME ResetInv, NEW x \in Resets, NEW left, ResetFails(x, left), GateInv',
         Barriers(barriers, left), left.barrier # None => Closing(reset, left.barrier),
         left.barrier = reset[x].barrier => reset[x].pc # "close",
         UNCHANGED <<barriers, page, stored, step>>, page = "live"
  PROVE  ResetInv'
<1>1. /\ reset' = [reset EXCEPT ![x].pc = "failed"] /\ flag' = FALSE /\ gate' = ResetEnded(left)
  BY DEF ResetFails
<1>2. PICK rs, g2 : rs = reset' /\ g2 = gate'
  OBVIOUS
<1>3. /\ rs \in [Resets -> ResetRecords] /\ rs[x].pc = "failed"
      /\ \A y \in Resets \ {x} : rs[y] = reset[y]
  <2>1. "failed" \in ResetStates
    BY DEF ResetStates
  <2> QED BY <1>1, <1>2, <2>1, MovedOn DEF ResetInv
<1>4. g2.barrier = left.barrier /\ g2.generation = left.generation
  BY <1>1, <1>2 DEF ResetEnded
<1>5. Barriers(barriers, g2)
  BY <1>4 DEF Barriers
<1>6. g2.barrier # None => Closing(rs, g2.barrier)
  BY <1>3, <1>4 DEF Closing
<1>7. Resetting(rs, FALSE, g2)
  BY <1>3, <1>6 DEF Resetting, Clean
<1>8. \A y \in Resets : rs[y].pc = "close" => rs[y].barrier \in DOMAIN barriers
  BY <1>3 DEF ResetInv
<1>9. ~Clean(rs, FALSE)
  BY DEF Clean
<1> QED BY <1>1, <1>2, <1>3, <1>5, <1>7, <1>8, <1>9 DEF ResetInv

(* A barrier is done: the reset deletes, or fails. *)
LEMMA ClosedKeeps ==
  ASSUME ResetInv, NEW x \in Resets, ResetClosed(x), GateInv', page = "live"
  PROVE  ResetInv'
<1> DEFINE left == BarrierLeft(gate, reset[x].barrier)
<1>1. /\ reset[x].pc = "close" /\ barriers[reset[x].barrier].pending = 0
      /\ barriers' = barriers /\ page' = page /\ stored' = stored /\ step' = step
      /\ \/ ResetFails(x, left)
         \/ reset' = [reset EXCEPT ![x].pc = "deleting"] /\ gate' = left /\ flag' = flag
  BY DEF ResetClosed, saveVars
<1>2. /\ Barriers(barriers, left) /\ left \in Gates /\ left.inReset = gate.inReset
      /\ left.barrier # None => left.barrier = gate.barrier /\ left.barrier # reset[x].barrier
  BY <1>1, LeftBarriers
<1>3. left.barrier # None => \E y \in Resets \ {x} : reset[y].pc = "close" /\ reset[y].barrier = left.barrier
  BY <1>2 DEF ResetInv, Resetting, Closing
<1>4. reset[x].barrier \in DOMAIN barriers /\ reset[x].barrier # None
  BY <1>1 DEF ResetInv, Barriers
<1> HIDE DEF left
<1>5. CASE ResetFails(x, left)
  <2>1. left.barrier = reset[x].barrier => reset[x].pc # "close"
    BY <1>2, <1>4
  <2>2. left.barrier # None => Closing(reset, left.barrier)
    BY <1>3 DEF Closing
  <2> QED BY <1>1, <1>2, <1>5, <2>1, <2>2, FailedKeeps
<1>6. CASE reset' = [reset EXCEPT ![x].pc = "deleting"] /\ gate' = left /\ flag' = flag
  <2>1. PICK rs : rs = reset'
    OBVIOUS
  <2>2. /\ rs \in [Resets -> ResetRecords] /\ rs[x].pc = "deleting"
        /\ \A y \in Resets \ {x} : rs[y] = reset[y]
    <3>1. "deleting" \in ResetStates
      BY DEF ResetStates
    <3> QED BY <1>6, <2>1, <3>1, MovedOn DEF ResetInv
  <2>3. Clean(rs, flag) <=> Clean(reset, flag)
    <3>1. \A y \in Resets : /\ rs[y].pc = "failed" <=> reset[y].pc = "failed"
                            /\ rs[y].pc = "none" <=> reset[y].pc = "none"
      BY <1>1, <2>2
    <3> QED BY <3>1, SameClass
  <2>4. Shut(reset)
    BY <1>1 DEF Shut
  <2>5. ~flag => (\A y \in Resets : rs[y].pc = "none") \/ \E y \in Resets : rs[y].pc = "failed"
    BY <1>1, <2>2 DEF ResetInv, Resetting
  <2>6. left.barrier # None => Closing(rs, left.barrier)
    BY <1>3, <2>2 DEF Closing
  <2>7. Resetting(rs, flag, left)
    BY <1>2, <2>3, <2>4, <2>5, <2>6 DEF ResetInv, Resetting
  <2>8. Gone(rs) => Gone(reset)
    BY <2>2 DEF Gone
  <2>9. Empty' <=> Empty
    BY <1>1 DEF Empty
  <2>10. \A y \in Resets : rs[y].pc = "close" => rs[y].barrier \in DOMAIN barriers
    BY <2>2 DEF ResetInv
  <2> QED BY <1>1, <1>2, <1>6, <2>1, <2>2, <2>3, <2>7, <2>8, <2>9, <2>10 DEF ResetInv
<1> QED BY <1>1, <1>5, <1>6

LEMMA BlockedKeeps ==
  ASSUME ResetInv, NEW x \in Resets, DeletionBlocked(x), GateInv', page = "live"
  PROVE  ResetInv'
<1>1. /\ reset[x].pc = "deleting" /\ ResetFails(x, gate) /\ barriers' = barriers
      /\ page' = page /\ stored' = stored /\ step' = step
  BY DEF DeletionBlocked, saveVars, idbVars
<1>2. Barriers(barriers, gate) /\ (gate.barrier # None => Closing(reset, gate.barrier))
  BY DEF ResetInv, Resetting
<1>3. gate.barrier = reset[x].barrier => reset[x].pc # "close"
  BY <1>1
<1> QED BY <1>1, <1>2, <1>3, FailedKeeps

LEMMA DeletedKeeps ==
  ASSUME ResetInv, Deleted, GateInv', page = "live", HeadIs("delete") => Head(requests).id \in Resets
  PROVE  ResetInv'
<1> DEFINE x == Head(requests).id
<1>1. /\ x \in Resets
      /\ reset' = IF reset[x].pc = "deleting" THEN [reset EXCEPT ![x].pc = "deleted"] ELSE reset
      /\ flag' = flag /\ gate' = gate /\ barriers' = barriers /\ page' = page
  BY DEF Deleted
<1> HIDE DEF x
<1>2. Empty'
  BY DEF Deleted, Empty, saveVars
<1>3. PICK rs : rs = reset'
  OBVIOUS
<1>4. CASE reset[x].pc # "deleting"
  BY <1>1, <1>2, <1>4 DEF ResetInv
<1>5. CASE reset[x].pc = "deleting"
  <2>1. /\ rs \in [Resets -> ResetRecords] /\ rs[x].pc = "deleted"
        /\ \A y \in Resets \ {x} : rs[y] = reset[y]
    <3>1. "deleted" \in ResetStates
      BY DEF ResetStates
    <3> QED BY <1>1, <1>3, <1>5, <3>1, MovedOn DEF ResetInv
  <2>2. Clean(rs, flag) <=> Clean(reset, flag)
    <3>1. \A y \in Resets : /\ rs[y].pc = "failed" <=> reset[y].pc = "failed"
                            /\ rs[y].pc = "none" <=> reset[y].pc = "none"
      BY <1>5, <2>1
    <3> QED BY <3>1, SameClass
  <2>3. Shut(reset)
    BY <1>1, <1>5 DEF Shut
  <2>4. \A b : Closing(reset, b) => Closing(rs, b)
    BY <1>5, <2>1 DEF Closing
  <2>5. ~flag => (\A y \in Resets : rs[y].pc = "none") \/ \E y \in Resets : rs[y].pc = "failed"
    BY <1>1, <1>5, <2>1 DEF ResetInv, Resetting
  <2>6. Resetting(rs, flag, gate)
    BY <2>2, <2>3, <2>4, <2>5 DEF ResetInv, Resetting
  <2>7. \A y \in Resets : rs[y].pc = "close" => rs[y].barrier \in DOMAIN barriers
    BY <2>1 DEF ResetInv
  <2> QED BY <1>1, <1>2, <1>3, <2>1, <2>6, <2>7 DEF ResetInv
<1> QED BY <1>4, <1>5

LEMMA ReloadKeeps ==
  ASSUME ResetInv, NEW x \in Resets, Reload(x), GateInv'
  PROVE  ResetInv'
<1>1. /\ reset[x].pc = "deleted" /\ page' = "reloaded" /\ reset' = reset /\ flag' = flag
      /\ gate' = gate /\ barriers' = barriers /\ stored' = stored /\ step' = step
  BY DEF Reload, saveVars, resetVars, idbVars
<1>2. Empty' <=> Empty
  BY <1>1 DEF Empty
<1>3. Gone(reset)
  BY <1>1 DEF Gone
<1> QED BY <1>1, <1>2, <1>3 DEF ResetInv

(***************************************************************************)
(* IndexedDB's queue: what waits in it is an open or a reset's deletion.   *)
(***************************************************************************)
Requests == [op : {"open"}, id : Nat] \cup [op : {"delete"}, id : Resets]

LEMMA RequestInit == Init => requests \in Seq(Requests)
BY DEF Init

LEMMA RequestStep ==
  ASSUME requests \in Seq(Requests), GateInv, [Next]_vars
  PROVE  requests' \in Seq(Requests)
<1>1. CASE requests' = requests
  BY <1>1
<1>2. CASE requests # <<>> /\ requests' = Tail(requests)
  BY <1>2
<1>3. ASSUME NEW x \in Resets, requests' = Append(requests, [op |-> "delete", id |-> x])
      PROVE  requests' \in Seq(Requests)
  BY <1>3 DEF Requests
<1>4. CASE requests' = Append(requests, [op |-> "open", id |-> gate.generation])
  <2>1. gate.generation \in Nat
    BY DEF GateInv, Gates
  <2> QED BY <1>4, <2>1 DEF Requests
<1>5. CASE User
  BY <1>1, <1>5 DEF User, Edit, ManualSave, FlushBegin, ResetBegin, LateCloser, idbVars
<1>6. CASE Continuations
  <2>1. CASE \/ \E a \in Autosaves : ProjectDebounced(a) \/ ProjectSaved(a) \/ IndexProject(a)
             \/ SettingsDebounced \/ FlushAnswered \/ FlushDrained \/ FlushReturned
             \/ \E r \in {"project", "settings"} : FlushVerify(r)
    BY <1>1, <2>1 DEF ProjectDebounced, ProjectSaved, IndexProject, SettingsDebounced,
              FlushAnswered, FlushDrained, FlushReturned, FlushVerify, idbVars
  <2>2. CASE \E x \in Resets : ResetDrained(x) \/ ResetClosed(x) \/ Reload(x)
    BY <1>1, <1>3, <2>2 DEF ResetDrained, ResetClosed, Reload, idbVars
  <2>3. CASE \E r \in Resources : SaveNeedsConnection(r)
    BY <1>1, <1>4, <2>3 DEF SaveNeedsConnection
  <2> QED BY <1>6, <2>1, <2>2, <2>3 DEF Continuations
<1>7. CASE Database
  BY <1>1, <1>2, <1>7 DEF Database, Opened, HeadIs, VersionChange, Deleted, Commit, SaveFails,
                          CloserSettles, idbVars
<1>8. CASE OtherTabCloses \/ \E x \in Resets : DeletionBlocked(x)
  BY <1>1, <1>8 DEF OtherTabCloses, DeletionBlocked, idbVars
<1>9. CASE UNCHANGED vars
  BY <1>1, <1>9 DEF vars, idbVars
<1> QED BY <1>5, <1>6, <1>7, <1>8, <1>9 DEF Next

WipeInv == SaveInv /\ ResetInv /\ requests \in Seq(Requests)

LEMMA WipeStep == WipeInv /\ [Next]_vars => WipeInv'
<1> SUFFICES ASSUME WipeInv, [Next]_vars PROVE WipeInv'
  OBVIOUS
<1>1. SaveInv' /\ GateInv' /\ requests' \in Seq(Requests)
  BY NextMoves, MovesKeep, GateStep, RequestStep DEF WipeInv, ResetInv
<1>2. ResetInv'
  <2>1. CASE UNCHANGED vars
    BY <1>1, <2>1 DEF WipeInv, ResetInv, Empty, vars, resetVars, saveVars, idbVars
  <2>2. CASE Next
    <3>1. HeadIs("delete") => Head(requests).id \in Resets
      <4> SUFFICES ASSUME HeadIs("delete") PROVE Head(requests).id \in Resets
        OBVIOUS
      <4>1. Head(requests) \in Requests
        BY DEF HeadIs, WipeInv
      <4> QED BY <4>1 DEF HeadIs, Requests
    <3>2. page = "live"
      BY <2>2 DEF Next
    <3> QED BY <1>1, <2>2, <3>1, <3>2, ResetSteps, CalmKeeps, BeginKeeps, DrainedKeeps, CloserKeeps,
               ClosedKeeps, BlockedKeeps, DeletedKeeps, ReloadKeeps DEF WipeInv
  <2> QED BY <2>1, <2>2
<1> QED BY <1>1, <1>2 DEF WipeInv

LEMMA WipeKept == Spec => []WipeInv
<1>1. Init => WipeInv
  BY SaveInit, ResetInit, RequestInit DEF WipeInv
<1> QED BY <1>1, WipeStep, PTL DEF Spec

(* factoryResetService.ts: when a reset reloads the page and no failing    *)
(* one cut across it, the library is empty and nothing is writing, for any *)
(* number of resets, saves under way, closers and other tabs.              *)
THEOREM ResetsLeaveNothing == Spec => []ResetLeavesNothing
<1>1. ASSUME WipeInv PROVE ResetLeavesNothing
  <2> SUFFICES ASSUME page = "reloaded", Undisturbed PROVE Empty
    BY DEF ResetLeavesNothing
  <2>1. Clean(reset, flag)
    BY DEF Undisturbed, Clean
  <2> QED BY <1>1, <2>1 DEF WipeInv, ResetInv
<1> QED BY <1>1, WipeKept, PTL

(* idbResetGate.ts: no reset deletes before every closer of its barrier    *)
(* and of the barriers before it has settled, late ones included.          *)
THEOREM ClosersSettleFirst == Spec => TornDownBeforeDeletion
<1>1. WipeInv /\ [Next]_vars =>
        [\A x \in Resets : reset[x].pc = "close" /\ reset'[x].pc = "deleting" =>
            \A g \in DOMAIN barriers : g <= reset[x].barrier => barriers[g].pending = 0]_vars
  <2> SUFFICES ASSUME WipeInv, Next, NEW x \in Resets, reset[x].pc = "close", reset'[x].pc = "deleting",
                      NEW g \in DOMAIN barriers, g <= reset[x].barrier
               PROVE  barriers[g].pending = 0
    BY DEF vars, resetVars
  <2>1. reset \in [Resets -> ResetRecords]
    BY DEF WipeInv, ResetInv
  <2>2. ResetClosed(x)
    <3>1. ASSUME NEW y \in Resets, NEW pc, reset' = [reset EXCEPT ![y].pc = pc] PROVE x = y /\ pc = "deleting"
      BY <2>1, <3>1 DEF ResetRecords
    <3>2. ~\E y \in Resets : reset' = [reset EXCEPT ![y] = [pc |-> "close", barrier |-> BarrierOf(gate)]]
      BY <2>1
    <3>3. reset' # reset
      OBVIOUS
    <3>4. ~Deleted
      <4>1. ASSUME Deleted, NEW y, y = Head(requests).id, reset[y].pc = "deleting",
                   reset' = [reset EXCEPT ![y].pc = "deleted"]
            PROVE  FALSE
        BY <2>1, <4>1 DEF ResetRecords
      <4> QED BY <3>3, <4>1 DEF Deleted
    <3> QED BY <3>1, <3>2, <3>3, <3>4, ResetSteps
            DEF Calm, LateCloser, CloserSettles, ResetBegin, ResetDrained, ResetClosed, DeletionBlocked,
                ResetFails, Reload, resetVars
  <2>3. barriers[reset[x].barrier].pending = 0 /\ reset[x].barrier \in DOMAIN barriers
    BY <2>2 DEF ResetClosed, WipeInv, ResetInv
  <2>4. /\ \A b \in DOMAIN barriers : /\ b \in Nat /\ b <= gate.generation /\ barriers[b].pending \in Nat
                                      /\ barriers[b].pending > 0 => b = gate.barrier
        /\ gate.barrier # None => gate.barrier = gate.generation
        /\ \A b \in DOMAIN barriers : b # None
    BY DEF WipeInv, ResetInv, Barriers, IsBarrier
  <2>5. gate.generation \in Nat
    BY DEF WipeInv, ResetInv, GateInv, Gates
  <2> QED BY <2>3, <2>4, <2>5
<1> QED BY <1>1, WipeKept, PTL DEF Spec, TornDownBeforeDeletion

(***************************************************************************)
(* The types.  A save under way has a step; the editor's versions are      *)
(* counted by the events.                                                  *)
(***************************************************************************)
ClientStates == {"none", "health", "waiting", "indexing", "saved", "superseded", "failed"}
StepStates == {"none", "start", "opening", "tx"}

Stepping(co, st) ==
    /\ st \in [Resources -> StepStates]
    /\ \A r \in Resources : co[r].active # NoSave => st[r] # "none"

Callers(cl, aw, iw) ==
    /\ cl \in [Clients -> ClientStates]
    /\ aw \in [Resources -> Nat]
    /\ iw \in [Resources -> SUBSET (Resets \cup {"flush"})]

Numbers(ed, ev, st) ==
    /\ ev \in 0 .. MaxEvents
    /\ \A r \in Resources : ed[r] <= ev + 1
    /\ st \in [Resources -> 0 .. MaxEvents + 1]

Types ==
    /\ Stepping(coord, step) /\ Callers(client, awaited, idleWait) /\ Numbers(edits, events, stored)
    /\ armed \subseteq {"project", "settings"} /\ other \in BOOLEAN

LEMMA TypesInit == Init => Types
<1> SUFFICES ASSUME Init PROVE Types
  OBVIOUS
<1>1. MaxEvents \in Nat
  BY BoundsAssumption
<1>2. Stepping(coord, step)
  BY DEF Init, Stepping, StepStates, NewCoordinator
<1>3. Callers(client, awaited, idleWait)
  BY DEF Init, Callers, ClientStates, None
<1>4. Numbers(edits, events, stored)
  BY <1>1 DEF Init, Numbers
<1> QED BY <1>2, <1>3, <1>4 DEF Init, Types

LEMMA EventCounts ==
  ASSUME Numbers(edits, events, stored), Event
  PROVE  events' \in 0 .. MaxEvents /\ events' = events + 1
BY BoundsAssumption DEF Numbers, Event

LEMMA EnqueueTypes ==
  ASSUME SaveInv, Stepping(coord, step), NEW q \in Resources, NEW who, NEW v, Enqueue(q, who, v)
  PROVE  Stepping(coord', step')
<1>1. DOMAIN coord = Resources /\ coord[q].queued # NoSave => coord[q].active # NoSave
  BY DEF SaveInv, OnResources, Sound, Ordered
<1>2. step' = [step EXCEPT ![q] = IF Idle(coord[q]) THEN "start" ELSE @]
      /\ coord' = [coord EXCEPT ![q] = Enqueued(@, who, v)]
  BY DEF Enqueue
<1>3. step'[q] # "none" /\ step' \in [Resources -> StepStates]
  <2>1. CASE Idle(coord[q])
    BY <1>2, <2>1 DEF Stepping, StepStates
  <2>2. CASE ~Idle(coord[q])
    BY <1>1, <1>2, <2>2 DEF Stepping, StepStates, Idle, SaveInv, OnResources, Sound, Ordered
  <2> QED BY <2>1, <2>2
<1>4. \A r \in Resources \ {q} : coord'[r] = coord[r] /\ step'[r] = step[r]
  <2>1. DOMAIN coord = Resources /\ DOMAIN step = Resources
    BY DEF SaveInv, OnResources
  <2> QED BY <1>2, <2>1
<1> QED BY <1>3, <1>4 DEF Stepping

LEMMA EndTypes ==
  ASSUME SaveInv, Stepping(coord, step), Callers(client, awaited, idleWait),
         NEW S \in SUBSET Resources, NEW ok \in BOOLEAN, EndSaves(S, ok)
  PROVE  Stepping(coord', step') /\ Callers(client', awaited', idleWait')
<1>1. step' \in [Resources -> StepStates] /\ awaited' \in [Resources -> Nat]
  BY DEF EndSaves, Stepping, StepStates, Callers, None
<1>2. idleWait' \in [Resources -> SUBSET (Resets \cup {"flush"})]
  <2>1. \A r \in Resources : NotWoken(r) \in SUBSET (Resets \cup {"flush"})
    BY DEF NotWoken, Callers
  <2> QED BY <2>1 DEF EndSaves, Callers
<1>3. client' \in [Clients -> ClientStates]
  <2>1. ASSUME NEW who \in Clients, AnswersTo(who, S, ok) # {}
        PROVE  Continued(who, CHOOSE a \in AnswersTo(who, S, ok) : TRUE) \in ClientStates
    <3>1. PICK a : a = CHOOSE b \in AnswersTo(who, S, ok) : TRUE
      OBVIOUS
    <3>2. a \in AnswersTo(who, S, ok)
      BY <2>1, <3>1
    <3>3. a \in {"failed", "saved", "superseded"}
      BY <3>2 DEF AnswersTo, Answer
    <3> QED BY <3>1, <3>3 DEF Continued, ClientStates
  <2> QED BY <2>1 DEF EndSaves, Callers
<1>4. ASSUME NEW r \in Resources, coord'[r].active # NoSave PROVE step'[r] # "none"
  <2>1. CASE r \in S
    <3>1. PICK d : d = Ended(coord[r], EndsWell(r, ok))
      OBVIOUS
    <3>2. coord'[r] = Recycled(d)
      BY <2>1, <3>1 DEF EndSaves
    <3>3. coord[r] \in Coordinators /\ EndsWell(r, ok) \in BOOLEAN
      BY DEF SaveInv, Sound, EndsWell
    <3>4. d.active = coord[r].queued
      BY <3>1, <3>3, EndedFields
    <3>5. coord[r].queued # NoSave
      BY <1>4, <3>2, <3>4 DEF Recycled, NewCoordinator
    <3> QED BY <2>1, <3>5 DEF EndSaves
  <2>2. CASE r \notin S
    BY <1>4, <2>2 DEF EndSaves, Stepping
  <2> QED BY <2>1, <2>2
<1> QED BY <1>1, <1>2, <1>3, <1>4 DEF Stepping, Callers

LEMMA UserTypes ==
  ASSUME SaveInv, Types, User
  PROVE  Types'
<1>1. /\ Stepping(coord, step) /\ Callers(client, awaited, idleWait)
      /\ Numbers(edits, events, stored)
  BY DEF Types
<1>2. other' = other /\ stored' = stored /\ awaited' = awaited
  BY DEF User, Edit, ManualSave, FlushBegin, ResetBegin, LateCloser, saveVars, idbVars
<1>3. /\ events' \in 0 .. MaxEvents /\ events' = events + 1 /\ events \in Nat
      /\ \A r \in Resources : edits[r] \in Nat
  BY <1>1, EventCounts DEF User, Edit, ManualSave, FlushBegin, ResetBegin, LateCloser, SaveInv, Numbers
<1>4. ASSUME edits' = edits PROVE Numbers(edits', events', stored')
  BY <1>1, <1>2, <1>3, <1>4 DEF Numbers
<1>5. CASE \E r \in Resources : Edit(r)
  <2>1. PICK q \in Resources : Edit(q)
    BY <1>5
  <2>2. /\ armed' = armed \cup {q} /\ q \in {"project", "settings"}
        /\ edits' = [edits EXCEPT ![q] = @ + 1] /\ DOMAIN edits = Resources
        /\ UNCHANGED <<client, coord, step, idleWait>>
    BY <2>1 DEF Edit, Resources, SaveInv, OnResources
  <2>3. \A r \in Resources : edits'[r] = IF r = q THEN edits[r] + 1 ELSE edits[r]
    BY <2>2
  <2>4. \A r \in Resources : edits'[r] <= events' + 1
    BY <1>1, <1>3, <2>3 DEF Numbers
  <2>5. Numbers(edits', events', stored')
    BY <1>1, <1>2, <1>3, <2>4 DEF Numbers
  <2> QED BY <1>1, <1>2, <2>2, <2>5 DEF Types
<1>6. CASE ManualSave
  <2>1. /\ client' = [client EXCEPT !["manual"] = "waiting"] /\ Enqueue("project", "manual", edits["project"])
        /\ UNCHANGED <<edits, armed, idleWait>> /\ "project" \in Resources
    BY <1>6 DEF ManualSave, Resources
  <2>2. Stepping(coord', step')
    BY <1>1, <2>1, EnqueueTypes
  <2>3. Callers(client', awaited', idleWait')
    BY <1>1, <1>2, <2>1 DEF Callers, ClientStates
  <2> QED BY <1>2, <1>4, <2>1, <2>2, <2>3 DEF Types
<1>7. CASE FlushBegin
  <2>1. /\ client' = [c \in Clients |-> IF \E r \in Flushed : c = Ticket(r) THEN "waiting" ELSE client[c]]
        /\ coord' = [r \in Resources |-> IF r \in Flushed
                         THEN Enqueued(coord[r], Ticket(r), edits[r]) ELSE coord[r]]
        /\ step' = [r \in Resources |-> IF r \in Flushed /\ Idle(coord[r]) THEN "start" ELSE step[r]]
        /\ UNCHANGED <<edits, armed, idleWait>>
    BY <1>7 DEF FlushBegin
  <2>2. step' \in [Resources -> StepStates]
    BY <1>1, <2>1 DEF Stepping, StepStates
  <2>3. ASSUME NEW r \in Resources, coord'[r].active # NoSave PROVE step'[r] # "none"
    <3>1. coord[r].queued # NoSave => coord[r].active # NoSave
      BY DEF SaveInv, Sound, Ordered
    <3> QED BY <1>1, <2>1, <2>3, <3>1 DEF Stepping, Idle
  <2>4. Callers(client', awaited', idleWait')
    BY <1>1, <1>2, <2>1 DEF Callers, ClientStates
  <2> QED BY <1>2, <1>4, <2>1, <2>2, <2>3, <2>4 DEF Types, Stepping
<1>8. CASE LateCloser \/ \E x \in Resets : ResetBegin(x)
  <2>1. UNCHANGED <<edits, armed, client, coord, step>>
    BY <1>8 DEF LateCloser, ResetBegin, saveVars
  <2>2. Callers(client', awaited', idleWait')
    <3>1. CASE LateCloser
      BY <1>1, <1>2, <2>1, <3>1 DEF LateCloser, saveVars
    <3>2. ASSUME NEW x \in Resets, ResetBegin(x) PROVE Callers(client', awaited', idleWait')
      <4>1. idleWait' = [r \in Resources |-> IF Idle(coord[r]) THEN idleWait[r] ELSE idleWait[r] \cup {x}]
        BY <3>2 DEF ResetBegin
      <4>2. idleWait' \in [Resources -> SUBSET (Resets \cup {"flush"})]
        BY <1>1, <4>1 DEF Callers
      <4> QED BY <1>1, <1>2, <2>1, <4>2 DEF Callers
    <3> QED BY <1>8, <3>1, <3>2
  <2> QED BY <1>1, <1>2, <1>4, <2>1, <2>2 DEF Types
<1> QED BY <1>5, <1>6, <1>7, <1>8 DEF User

LEMMA ContinuationTypes ==
  ASSUME SaveInv, GateInv, Types, Continuations
  PROVE  Types'
<1>1. /\ Stepping(coord, step) /\ Callers(client, awaited, idleWait)
      /\ Numbers(edits, events, stored)
  BY DEF Types
<1>2. other' = other /\ stored' = stored /\ edits' = edits /\ events' = events
  BY DEF Continuations, ProjectDebounced, ProjectSaved, IndexProject, SettingsDebounced,
         FlushAnswered, FlushDrained, FlushReturned, FlushVerify, SaveNeedsConnection,
         ResetDrained, ResetClosed, Reload, saveVars, idbVars
<1>3. Numbers(edits', events', stored')
  BY <1>1, <1>2
<1>4. \A r \in {"project", "settings", "index"} : r \in Resources
  BY DEF Resources
<1>5. ASSUME NEW a \in Autosaves, ProjectDebounced(a) \/ ProjectSaved(a) \/ IndexProject(a) PROVE Types'
  <2>1. armed' \subseteq armed /\ UNCHANGED <<awaited, idleWait>>
    BY <1>5 DEF ProjectDebounced, ProjectSaved, IndexProject
  <2>2. \/ client' = client
        \/ \E s \in {"health", "none", "waiting"} : client' = [client EXCEPT ![a] = s]
    BY <1>5 DEF ProjectDebounced, ProjectSaved, IndexProject
  <2>3. Callers(client', awaited', idleWait')
    BY <1>1, <2>1, <2>2 DEF Callers, ClientStates
  <2>4. \/ coord' = coord /\ step' = step
        \/ \E r \in Resources : \E who, v : Enqueue(r, who, v)
    BY <1>4, <1>5 DEF ProjectDebounced, ProjectSaved, IndexProject
  <2>5. Stepping(coord', step')
    BY <1>1, <2>4, EnqueueTypes
  <2> QED BY <1>2, <1>3, <2>1, <2>3, <2>5 DEF Types
<1>6. CASE SettingsDebounced
  <2>1. armed' \subseteq armed /\ UNCHANGED <<awaited, idleWait>>
    BY <1>6 DEF SettingsDebounced
  <2>2. client' = client \/ client' = [client EXCEPT !["settings"] = "waiting"]
    BY <1>6 DEF SettingsDebounced
  <2>3. Callers(client', awaited', idleWait')
    BY <1>1, <2>1, <2>2 DEF Callers, ClientStates
  <2>4. \/ coord' = coord /\ step' = step
        \/ \E r \in Resources : \E who, v : Enqueue(r, who, v)
    BY <1>4, <1>6 DEF SettingsDebounced
  <2>5. Stepping(coord', step')
    BY <1>1, <2>4, EnqueueTypes
  <2> QED BY <1>2, <1>3, <2>1, <2>3, <2>5 DEF Types
<1>7. CASE FlushAnswered
  <2>1. /\ idleWait' = [r \in Resources |-> IF r # "index" /\ ~Idle(coord[r])
                                            THEN idleWait[r] \cup {"flush"} ELSE idleWait[r]]
        /\ UNCHANGED <<armed, client, coord, step, awaited>>
    BY <1>7 DEF FlushAnswered
  <2>2. idleWait' \in [Resources -> SUBSET (Resets \cup {"flush"})]
    BY <1>1, <2>1 DEF Callers
  <2> QED BY <1>1, <1>2, <1>3, <2>1, <2>2 DEF Types, Callers
<1>8. CASE FlushDrained
  <2>1. /\ client' = [c \in Clients |-> IF c \in Tickets THEN "none" ELSE client[c]]
        /\ UNCHANGED <<armed, coord, step, awaited, idleWait>>
    BY <1>8 DEF FlushDrained
  <2>2. Callers(client', awaited', idleWait')
    BY <1>1, <2>1 DEF Callers, ClientStates
  <2> QED BY <1>1, <1>2, <1>3, <2>1, <2>2 DEF Types
<1>9. CASE FlushReturned
  <2>1. /\ coord' = [r \in Resources |-> Recycled(coord[r])]
        /\ UNCHANGED <<armed, client, step, awaited, idleWait>>
    BY <1>9 DEF FlushReturned
  <2>2. \A r \in Resources : coord'[r].active # NoSave => coord[r].active # NoSave
    BY <2>1 DEF Recycled, NewCoordinator
  <2>3. Stepping(coord', step')
    BY <1>1, <2>1, <2>2 DEF Stepping
  <2> QED BY <1>1, <1>2, <1>3, <2>1, <2>3 DEF Types
<1>10. CASE \/ \E r \in {"project", "settings"} : FlushVerify(r)
            \/ \E x \in Resets : ResetDrained(x) \/ ResetClosed(x) \/ Reload(x)
  <2>1. UNCHANGED <<armed, client, coord, step, awaited, idleWait>>
    BY <1>10 DEF FlushVerify, ResetDrained, ResetClosed, Reload, saveVars
  <2> QED BY <1>1, <1>2, <1>3, <2>1 DEF Types
<1>11. ASSUME NEW q \in Resources, SaveNeedsConnection(q) PROVE Types'
  <2>1. armed' = armed
    BY <1>11 DEF SaveNeedsConnection
  <2>2. CASE EndSaves({q}, FALSE)
    BY <1>1, <1>2, <1>3, <2>1, <2>2, EndTypes DEF Types
  <2>3. CASE /\ \E s \in {"tx", "opening"} : step' = [step EXCEPT ![q] = s]
             /\ \E n \in Nat : awaited' \in {awaited, [awaited EXCEPT ![q] = n]}
             /\ UNCHANGED <<client, coord, idleWait>>
    <3>1. Stepping(coord', step')
      BY <1>1, <2>3 DEF Stepping, StepStates
    <3>2. Callers(client', awaited', idleWait')
      BY <1>1, <2>3 DEF Callers
    <3> QED BY <1>2, <1>3, <2>1, <3>1, <3>2 DEF Types
  <2>4. opening \in Nat /\ gate.generation \in Nat
    BY DEF GateInv, NoStaleConnection, Gates, None
  <2> QED BY <1>11, <2>2, <2>3, <2>4 DEF SaveNeedsConnection
<1> QED BY <1>5, <1>6, <1>7, <1>8, <1>9, <1>10, <1>11 DEF Continuations

LEMMA DatabaseTypes ==
  ASSUME SaveInv, Types, Database
  PROVE  Types'
<1>1. /\ Stepping(coord, step) /\ Callers(client, awaited, idleWait)
      /\ Numbers(edits, events, stored) /\ MaxEvents \in Nat
  BY BoundsAssumption DEF Types
<1>2. other' = other /\ edits' = edits /\ armed' = armed
  BY DEF Database, Opened, VersionChange, Deleted, Commit, SaveFails, CloserSettles, saveVars, idbVars
<1>3. CASE Opened
  <2> DEFINE generation == Head(requests).id
             waiting == {r \in Resources : step[r] = "opening" /\ awaited[r] = generation}
  <2>1. stored' = stored /\ events' = events
    BY <1>3 DEF Opened
  <2>2. \/ /\ step' = [r \in Resources |-> IF r \in waiting THEN "start" ELSE step[r]]
           /\ awaited' = [r \in Resources |-> IF r \in waiting THEN None ELSE awaited[r]]
           /\ UNCHANGED <<client, coord, idleWait>>
        \/ EndSaves(waiting, FALSE)
    BY <1>3 DEF Opened
  <2>3. waiting \in SUBSET Resources
    OBVIOUS
  <2> HIDE DEF waiting
  <2>4. Stepping(coord', step') /\ Callers(client', awaited', idleWait')
    <3>1. CASE EndSaves(waiting, FALSE)
      BY <1>1, <2>3, <3>1, EndTypes
    <3>2. CASE /\ step' = [r \in Resources |-> IF r \in waiting THEN "start" ELSE step[r]]
               /\ awaited' = [r \in Resources |-> IF r \in waiting THEN None ELSE awaited[r]]
               /\ UNCHANGED <<client, coord, idleWait>>
      BY <1>1, <3>2 DEF Stepping, StepStates, Callers, None
    <3> QED BY <2>2, <3>1, <3>2
  <2> QED BY <1>1, <1>2, <2>1, <2>4 DEF Types
<1>4. ASSUME NEW q \in Resources, Commit(q) PROVE Types'
  <2>1. /\ stored' = [stored EXCEPT ![q] = coord[q].active.version] /\ events' = events
        /\ EndSaves({q}, TRUE) /\ step[q] = "tx"
    BY <1>4 DEF Commit
  <2>2. coord[q].active.version \in 0 .. MaxEvents + 1
    <3>1. coord[q].active # NoSave /\ coord[q].active.version \in Nat
      BY <2>1 DEF SaveInv, Sound, Coordinators, Saves
    <3>2. coord[q].active.version <= Newest(q) /\ Newest(q) \in Nat
      BY <3>1 DEF SaveInv, Sound, Ordered, Newest, Indexed
    <3>3. Newest(q) <= MaxEvents + 1
      BY <1>1 DEF Newest, Indexed, Numbers, SaveInv
    <3> QED BY <1>1, <3>1, <3>2, <3>3
  <2>3. Numbers(edits', events', stored')
    BY <1>1, <1>2, <2>1, <2>2 DEF Numbers
  <2>4. Stepping(coord', step') /\ Callers(client', awaited', idleWait')
    BY <1>1, <2>1, EndTypes
  <2> QED BY <1>2, <2>3, <2>4 DEF Types
<1>5. ASSUME NEW q \in Resources, SaveFails(q) PROVE Types'
  <2>1. stored' = stored /\ EndSaves({q}, FALSE) /\ Event
    BY <1>5 DEF SaveFails, idbVars
  <2>2. events' \in 0 .. MaxEvents /\ events' = events + 1 /\ events \in Nat
    BY <1>1, <2>1, EventCounts DEF Numbers
  <2>3. \A r \in Resources : edits[r] \in Nat
    BY DEF SaveInv
  <2>4. Numbers(edits', events', stored')
    BY <1>1, <1>2, <2>1, <2>2, <2>3 DEF Numbers
  <2>5. Stepping(coord', step') /\ Callers(client', awaited', idleWait')
    BY <1>1, <2>1, EndTypes
  <2> QED BY <1>2, <2>4, <2>5 DEF Types
<1>6. CASE \/ VersionChange \/ Deleted
           \/ \E g \in DOMAIN barriers, ok \in BOOLEAN : CloserSettles(g, ok)
  <2>1. UNCHANGED <<client, coord, step, awaited, idleWait, events>>
    BY <1>6 DEF VersionChange, Deleted, CloserSettles, saveVars
  <2>2. stored' = stored \/ stored' = [r \in Resources |-> 0]
    BY <1>6 DEF VersionChange, Deleted, CloserSettles, idbVars
  <2>3. Numbers(edits', events', stored')
    BY <1>1, <1>2, <2>1, <2>2 DEF Numbers
  <2> QED BY <1>1, <1>2, <2>1, <2>3 DEF Types
<1> QED BY <1>3, <1>4, <1>5, <1>6 DEF Database

LEMMA TypesStep == SaveInv /\ GateInv /\ Types /\ [Next]_vars => Types'
<1> SUFFICES ASSUME SaveInv, GateInv, Types, [Next]_vars PROVE Types'
  OBVIOUS
<1>1. CASE \/ UNCHANGED vars \/ OtherTabCloses \/ \E x \in Resets : DeletionBlocked(x)
  <2>1. /\ UNCHANGED <<edits, armed, client, coord, step, awaited, idleWait, stored, events>>
        /\ other' \in {other, FALSE}
    BY <1>1 DEF vars, OtherTabCloses, DeletionBlocked, saveVars, idbVars
  <2> QED BY <2>1 DEF Types
<1> QED BY <1>1, UserTypes, ContinuationTypes, DatabaseTypes DEF Next

(* Editor, coordinators, flushes, resets, the gate and the database keep   *)
(* their types, for any autosaves, resets and bounds.                      *)
THEOREM SaveTypes == Spec => []TypeOK
<1>1. Init => WipeInv /\ Types
  BY SaveInit, ResetInit, RequestInit, TypesInit DEF WipeInv
<1>2. WipeInv /\ Types /\ [Next]_vars => (WipeInv /\ Types)'
  BY WipeStep, TypesStep DEF WipeInv, ResetInv
<1>3. ASSUME WipeInv, Types PROVE TypeOK
  <2>1. \A r \in Resources : /\ edits[r] \in 0 .. MaxEvents + 1
                             /\ coord[r].queued # NoSave => coord[r].active # NoSave
                             /\ step[r] = "none" <=> coord[r].active = NoSave
    BY <1>3, BoundsAssumption DEF WipeInv, SaveInv, Sound, Ordered, Types, Numbers, Stepping
  <2>2. edits \in [Resources -> 0 .. MaxEvents + 1]
    BY <1>3, <2>1 DEF WipeInv, SaveInv, OnResources
  <2>3. conn \in Nat /\ opening \in Nat /\ gate \in Gates
    BY <1>3 DEF WipeInv, ResetInv, GateInv, NoStaleConnection, Gates, None
  <2>4. reset \in [Resets -> ResetRecords] /\ flag \in BOOLEAN /\ page \in {"live", "reloaded"}
    BY <1>3 DEF WipeInv, ResetInv
  <2> QED BY <1>3, <2>1, <2>2, <2>3, <2>4
          DEF TypeOK, Types, Stepping, StepStates, Callers, ClientStates, Numbers,
              ResetRecords, ResetStates, Gates
<1> QED BY <1>1, <1>2, <1>3, PTL DEF Spec
=============================================================================
