------------------------- MODULE RecordCommitProofs -------------------------
(***************************************************************************)
(* What holds of the commit protocol of one record for any number of       *)
(* writes and faults.                                                      *)
(*                                                                         *)
(* The inductive invariant `IInv` has five parts that always hold: `Chain` *)
(* (every prefix of the marker chain states a legal authority), `Scalars`, *)
(* `Directory` (what the three views of the record directory agree on, and *)
(* that a committed generation is on disk), `Stage` (where in its list of  *)
(* steps an operation stands, and what it knows there) and `Sealed` (what  *)
(* is under a generation's name was complete when it was put there).  The  *)
(* last, `Safe`, holds until a power loss takes bytes no sync had forced   *)
(* to the disk (`Lost`): the names of a write in doubt never disagree in a *)
(* way that would stop the next reconciliation.                            *)
(*                                                                         *)
(* The first half of the module is about data: lists of steps, one step    *)
(* before a rest, and the authority a chain states, marker by marker.      *)
(***************************************************************************)
EXTENDS RecordCommit, SequenceTheorems, WellFoundedInduction, TLAPS

-----------------------------------------------------------------------------
(* Lists of steps, one step before a rest. *)
IsList(s) == \E X : s \in Seq(X)
Then(x, s) == <<x>> \o s

LEMMA ListRest ==
  ASSUME NEW x, NEW s, IsList(s)
  PROVE  /\ IsList(Then(x, s)) /\ Then(x, s) # << >>
         /\ Then(x, s)[1] = x /\ Tail(Then(x, s)) = s
<1>1. PICK X : s \in Seq(X)
  BY DEF IsList
<1> DEFINE Y == X \cup {x}
<1>2. s \in Seq(Y) /\ <<x>> \in Seq(Y)
  BY <1>1
<1>3. Then(x, s) \in Seq(Y) /\ Len(Then(x, s)) = 1 + Len(s) /\ Then(x, s)[1] = x
  BY <1>2 DEF Then
<1>4. Tail(Then(x, s)) = s
  BY <1>2, <1>3 DEF Then
<1> QED BY <1>3, <1>4 DEF IsList

LEMMA ListOf ==
  ASSUME NEW x
  PROVE  IsList(<< >>) /\ IsList(<<x>>) /\ <<x>> = Then(x, << >>)
<1>1. <<x>> \in Seq({x}) /\ << >> \in Seq({x})
  OBVIOUS
<1>2. <<x>> \o << >> = <<x>>
  BY <1>1
<1> QED BY <1>1, <1>2 DEF IsList, Then

LEMMA Lists ==
  /\ \A x, y : <<x, y>> = Then(x, <<y>>)
  /\ \A x, y, z : <<x, y, z>> = Then(x, <<y, z>>)
  /\ \A x, y, z, u : <<x, y, z, u>> = Then(x, <<y, z, u>>)
<1>1. ASSUME NEW x, NEW y PROVE <<x, y>> = Then(x, <<y>>)
  <2> DEFINE S == {x, y}
  <2>1. <<x>> \in Seq(S) /\ <<y>> \in Seq(S) /\ <<x, y>> \in Seq(S)
    OBVIOUS
  <2>2. \A i \in 1 .. 2 : (<<x>> \o <<y>>)[i] = <<x, y>>[i]
    BY <2>1, ConcatProperties
  <2>3. <<x>> \o <<y>> \in Seq(S) /\ Len(<<x>> \o <<y>>) = 2 /\ Len(<<x, y>>) = 2
    BY <2>1, ConcatProperties
  <2> HIDE DEF S
  <2> QED BY <2>1, <2>2, <2>3, SeqEqual DEF Then
<1>2. ASSUME NEW x, NEW y, NEW z PROVE <<x, y, z>> = Then(x, <<y, z>>)
  <2> DEFINE S == {x, y, z}
  <2>1. <<x>> \in Seq(S) /\ <<y, z>> \in Seq(S) /\ <<x, y, z>> \in Seq(S)
    OBVIOUS
  <2>2. \A i \in 1 .. 3 : (<<x>> \o <<y, z>>)[i] = <<x, y, z>>[i]
    BY <2>1, ConcatProperties
  <2>3. <<x>> \o <<y, z>> \in Seq(S) /\ Len(<<x>> \o <<y, z>>) = 3 /\ Len(<<x, y, z>>) = 3
    BY <2>1, ConcatProperties
  <2> HIDE DEF S
  <2> QED BY <2>1, <2>2, <2>3, SeqEqual DEF Then
<1>3. ASSUME NEW x, NEW y, NEW z, NEW u PROVE <<x, y, z, u>> = Then(x, <<y, z, u>>)
  <2> DEFINE S == {x, y, z, u}
  <2>1. <<x>> \in Seq(S) /\ <<y, z, u>> \in Seq(S) /\ <<x, y, z, u>> \in Seq(S)
    OBVIOUS
  <2>2. \A i \in 1 .. 4 : (<<x>> \o <<y, z, u>>)[i] = <<x, y, z, u>>[i]
    BY <2>1, ConcatProperties
  <2>3. <<x>> \o <<y, z, u>> \in Seq(S) /\ Len(<<x>> \o <<y, z, u>>) = 4 /\ Len(<<x, y, z, u>>) = 4
    BY <2>1, ConcatProperties
  <2> HIDE DEF S
  <2> QED BY <2>1, <2>2, <2>3, SeqEqual DEF Then
<1> QED BY <1>1, <1>2, <1>3

-----------------------------------------------------------------------------
(* The authority a chain states, marker by marker.                         *)
IsHistory(f, m, n) ==
    f = [i \in 0 .. n |-> IF i = 0 THEN Absent ELSE Transition(f[i - 1], m[i])]
History(m, n) == CHOOSE f : IsHistory(f, m, n)
States(m, n) == History(m, n)[n]

LEMMA Least ==
  ASSUME NEW T \in SUBSET Nat, T # {}
  PROVE  \E n \in T : \A m \in T : n <= m
<1> DEFINE R == OpToRel(<, Nat)
<1>1. PICK n \in T : \A m \in T : ~ (<<m, n>> \in R)
  <2>1. IsWellFoundedOn(R, Nat)
    BY NatLessThanWellFounded
  <2> HIDE DEF R
  <2> QED BY <2>1, WFMin
<1>2. \A m \in T : ~(m < n)
  BY <1>1 DEF OpToRel
<1> QED BY <1>2

LEMMA HistoryAt ==
  ASSUME NEW f, NEW m, NEW n \in Nat, IsHistory(f, m, n)
  PROVE  /\ DOMAIN f = 0 .. n /\ f[0] = Absent
         /\ \A i \in 1 .. n : f[i] = Transition(f[i - 1], m[i])
<1> DEFINE g == [i \in 0 .. n |-> IF i = 0 THEN Absent ELSE Transition(f[i - 1], m[i])]
<1>1. f = g
  BY DEF IsHistory
<1>2. DOMAIN g = 0 .. n /\ g[0] = Absent /\ \A i \in 1 .. n : g[i] = Transition(f[i - 1], m[i])
  OBVIOUS
<1> HIDE DEF g
<1> QED BY <1>1, <1>2

(* Only the markers read so far matter.                                    *)
LEMMA HistoriesAgree ==
  ASSUME NEW f, NEW g, NEW m, NEW k, NEW n \in Nat, NEW l \in Nat, n <= l,
         IsHistory(f, m, n), IsHistory(g, k, l), \A i \in 1 .. n : m[i] = k[i]
  PROVE  \A i \in 0 .. n : f[i] = g[i]
<1> DEFINE T == {i \in 0 .. n : f[i] # g[i]}
<1> SUFFICES T = {}
  OBVIOUS
<1> SUFFICES ASSUME T # {} PROVE FALSE
  OBVIOUS
<1>1. T \in SUBSET Nat
  OBVIOUS
<1>2. PICK i \in T : \A j \in T : i <= j
  <2> HIDE DEF T
  <2> QED BY <1>1, Least
<1>3. CASE i = 0
  BY <1>3, HistoryAt
<1>4. CASE i # 0
  <2>1. i \in 1 .. n /\ i \in 1 .. l /\ i - 1 \in 0 .. n /\ i - 1 \notin T
    BY <1>2, <1>4
  <2>2. f[i - 1] = g[i - 1] /\ m[i] = k[i]
    BY <2>1
  <2>3. f[i] = Transition(f[i - 1], m[i])
    BY <2>1, HistoryAt
  <2>4. g[i] = Transition(g[i - 1], k[i])
    BY <2>1, HistoryAt
  <2> QED BY <2>2, <2>3, <2>4
<1> QED BY <1>3, <1>4

LEMMA HistoryExists ==
  ASSUME NEW m, NEW n \in Nat
  PROVE  IsHistory(History(m, n), m, n)
<1> DEFINE T == {i \in Nat : ~ \E f : IsHistory(f, m, i)}
<1>1. T = {}
  <2> SUFFICES ASSUME T # {} PROVE FALSE
    OBVIOUS
  <2>1. PICK i \in T : \A j \in T : i <= j
    <3>1. T \in SUBSET Nat
      OBVIOUS
    <3> HIDE DEF T
    <3> QED BY <3>1, Least
  <2>2. CASE i = 0
    <3> DEFINE f == [j \in 0 .. 0 |-> Absent]
    <3>1. f = [j \in 0 .. 0 |-> IF j = 0 THEN Absent ELSE Transition(f[j - 1], m[j])]
      OBVIOUS
    <3>2. IsHistory(f, m, 0)
      BY <3>1 DEF IsHistory
    <3> QED BY <2>1, <2>2, <3>2
  <2>3. CASE i # 0
    <3>1. i - 1 \in Nat /\ i - 1 \notin T
      BY <2>1, <2>3
    <3>2. PICK f : IsHistory(f, m, i - 1)
      BY <3>1
    <3> DEFINE g == [j \in 0 .. i |-> IF j = i THEN Transition(f[i - 1], m[i]) ELSE f[j]]
               h == [j \in 0 .. i |-> IF j = 0 THEN Absent ELSE Transition(g[j - 1], m[j])]
    <3>3. /\ f[0] = Absent /\ \A j \in 1 .. i - 1 : f[j] = Transition(f[j - 1], m[j])
      BY <3>1, <3>2, HistoryAt
    <3>4. ASSUME NEW j \in 0 .. i PROVE g[j] = h[j]
      <4>1. CASE j = 0
        BY <2>3, <3>3, <4>1
      <4>2. CASE j = i
        BY <2>3, <3>1, <4>2
      <4>3. CASE j # 0 /\ j # i
        <5>1. j \in 1 .. i - 1 /\ j - 1 \in 0 .. i /\ j - 1 # i
          BY <2>1, <3>1, <4>3
        <5>2. g[j] = f[j] /\ g[j - 1] = f[j - 1]
          BY <4>3, <5>1
        <5> QED BY <3>3, <4>3, <5>1, <5>2
      <4> QED BY <4>1, <4>2, <4>3
    <3>5. g = h
      BY <3>4
    <3>6. IsHistory(g, m, i)
      BY <3>5 DEF IsHistory
    <3> QED BY <2>1, <3>6
  <2> QED BY <2>2, <2>3
<1> QED BY <1>1 DEF History

LEMMA StatesAt ==
  ASSUME NEW m
  PROVE  /\ States(m, 0) = Absent
         /\ \A n \in Nat : States(m, n + 1) = Transition(States(m, n), m[n + 1])
<1>1. States(m, 0) = Absent
  BY HistoryExists, HistoryAt DEF States
<1>2. ASSUME NEW n \in Nat
      PROVE  States(m, n + 1) = Transition(States(m, n), m[n + 1])
  <2>1. IsHistory(History(m, n), m, n) /\ IsHistory(History(m, n + 1), m, n + 1)
    BY HistoryExists
  <2>2. \A i \in 0 .. n : History(m, n)[i] = History(m, n + 1)[i]
    BY <2>1, HistoriesAgree
  <2>3. History(m, n + 1)[n + 1] = Transition(History(m, n + 1)[(n + 1) - 1], m[n + 1])
    BY <2>1, HistoryAt
  <2> QED BY <2>2, <2>3 DEF States
<1> QED BY <1>1, <1>2

LEMMA StatesAgree ==
  ASSUME NEW m, NEW k, NEW n \in Nat, \A i \in 1 .. n : m[i] = k[i]
  PROVE  States(m, n) = States(k, n)
<1>1. IsHistory(History(m, n), m, n) /\ IsHistory(History(k, n), k, n)
  BY HistoryExists
<1>2. \A i \in 0 .. n : History(m, n)[i] = History(k, n)[i]
  BY <1>1, HistoriesAgree
<1> QED BY <1>2 DEF States

LEMMA AuthorityStates == \A n : AuthorityAt(n) = States(markers, n)
BY DEF AuthorityAt, States, History, IsHistory

-----------------------------------------------------------------------------
(***************************************************************************)
(* The inductive invariant.  First the lists of steps an operation may     *)
(* have left: each is named for the step it starts with.                   *)
(***************************************************************************)
Debris(T) == Then(<<"debris">>, T)

(* Making write p the committed one.                                       *)
Dropping(p, K) == Then(<<"drop", Staging(p.gen, p.op)>>, K)
Recording(p, K) == Then(<<"syncMarkers">>, Dropping(p, K))
Committing(p, K) == Then(<<"linkMarker", Active(p)>>, Recording(p, K))
Syncing(p, K) == Then(<<"syncRecord">>, Committing(p, K))
Promoting(p, K) == Then(<<"promote", Staging(p.gen, p.op), Generation(p.gen), p.op>>, Syncing(p, K))
Sealing(p, K) == Then(<<"syncFile", Staging(p.gen, p.op), p.op>>, Promoting(p, K))
Creating(p, K) == Then(<<"create", Staging(p.gen, p.op), p.op>>, Sealing(p, K))
Announced(p, K) == Then(<<"syncMarkers">>, Creating(p, K))

(* Rolling write p back, to s or to nothing.                               *)
Restored(T) == Then(<<"syncMarkers">>, Debris(T))
Restoring(s, T) == Then(<<"linkMarker", Active(s)>>, Restored(T))
Verifying(s, T) == Then(<<"verify", s>>, Restoring(s, T))
Ending(p, s, T) == IF s = Nothing THEN Debris(T) ELSE Verifying(s, T)

(* Moving a name aside.                                                    *)
Removed(K) == Then(<<"syncRecord">>, K)
Removing(name, K) == Then(<<"remove", name>>, Removed(K))
Copied(name, K) == Then(<<"syncRecord">>, Removing(name, K))
Moving(name, w, K) == Then(<<"linkRejected", name, w>>, Copied(name, K))

Reporting(w) == << <<"return", w>> >>

(***************************************************************************)
(* What holds between the steps.                                           *)
(***************************************************************************)
Bodies == [kind : {"pending", "active"}, old : 0 .. MaxWrites, gen : Writes, op : Writes]

Legal(a) ==
    /\ a.serving = Nothing
          \/ (a.serving.gen \in Writes /\ a.serving.op \in Writes /\ a.serving.gen <= a.serving.op)
    /\ a.serving.op <= begun
    /\ a.serving = [gen |-> a.serving.gen, op |-> a.serving.op]
    /\ \/ a = Absent
       \/ a.state = "active" /\ a.serving # Nothing /\ a.pending = Nothing
       \/ /\ a.state = "pending" /\ a.pending = [gen |-> a.serving.gen + 1, op |-> a.pending.op]
          /\ a.pending.op \in Writes /\ a.pending.op > a.serving.op /\ a.pending.op <= begun

Chain ==
    /\ markers \in Seq(Bodies)
    /\ durableMarkers \in {Len(markers), Len(markers) - 1} /\ durableMarkers \in Nat
    /\ \A i \in 0 .. Len(markers) : Legal(States(markers, i))
    /\ \A i \in 1 .. Len(markers) : markers[i].op <= begun

Scalars ==
    /\ bytes \in [Writes -> {"none", "written", "stranded", "sealed", "torn", "lost"}]
    /\ \A w \in Writes : w > begun => bytes[w] = "none"
    /\ begun \in 0 .. MaxWrites /\ returned \in 0 .. begun
    /\ refusal \in {"none", "recoveryRequired", "generationExists", "rejectedExists"}
    /\ faults \in 0 .. MaxFaults

(* Generations are on disk, but for the one just promoted; a staging name  *)
(* holds its own write.                                                    *)
Entry(e) ==
    /\ e = <<e[1], e[2]>> /\ e[2] \in 1 .. begun
    /\ \/ \E g \in Nat : e[1] = Generation(g)
       \/ \E g \in Nat : e[1] = Staging(g, e[2])
       \/ \E name : \E w \in 0 .. begun : e[1] = Rejected(name, w)

OnDisk(c) == c = Nothing \/ <<Generation(c.gen), c.op>> \in sure
Settled == \A e \in seen : e[1][1] = "generation" => e \in sure

Directory ==
    /\ sure \subseteq seen /\ seen \subseteq maybe /\ OneContentPerName(seen)
    /\ \A e \in maybe : Entry(e)
    /\ \A e \in seen : e[1][1] = "generation" /\ e \notin sure =>
          /\ Authority.state = "pending"
          /\ e = <<Generation(Authority.pending.gen), Authority.pending.op>>
    /\ OnDisk(Authority.serving) /\ OnDisk(Durable.serving)

(***************************************************************************)
(* Where an operation stands.                                              *)
(***************************************************************************)
Does(step, rest) == todo # << >> /\ todo[1] = step /\ Tail(todo) = rest

Synced == durableMarkers = Len(markers)
Gone(name) == \A e \in seen : e[1] # name
InDoubt(p) == Authority.state = "pending" /\ Authority.pending = p

(* What a reconciliation knows of the candidate.                           *)
Whole(w) == bytes[w] \in {"stranded", "sealed"}
Candidate(p) == <<Staging(p.gen, p.op), p.op>> \in seen /\ Whole(p.op)
NoCandidate(p) == ~ Candidate(p)

(* No write is in doubt but one rolled back to nothing.                    *)
Resolved ==
    /\ Settled
    /\ Authority.state = "pending" =>
          Authority.serving = Nothing /\ NoCandidate(Authority.pending)

(* The write an operation is to begin has left no trace yet.               *)
Unused(w) ==
    /\ bytes[w] = "none"
    /\ \A e \in maybe : e[2] # w /\ \A name : e[1] # Rejected(name, w)
Fresh ==
    /\ begun \in Writes
    /\ \A i \in 1 .. Len(markers) : markers[i].op < begun
    /\ Authority.serving.op < begun /\ Authority.pending.op < begun
    /\ Unused(begun)

Queue(T) == T = << >> \/ (T = << <<"begin">> >> /\ Fresh)
Final(p, K) == \/ K = Reporting(p.op) /\ p.op = begun
               \/ \E T : Queue(T) /\ K = Debris(T)

CommittedNow(p) ==
    /\ Authority.state = "active" /\ Authority.serving = p
    /\ <<Generation(p.gen), p.op>> \in sure /\ Settled

Rejects(p) ==
    /\ Synced /\ InDoubt(p) /\ Gone(Generation(p.gen)) /\ NoCandidate(p)

Moves(name, K) ==
    /\ Synced /\ InDoubt(Authority.pending)
    /\ LET p == Authority.pending
           s == Authority.serving
       IN \E T : /\ Queue(T)
                 /\ \/ /\ name = Generation(p.gen) /\ K = Promoting(p, Debris(T)) /\ Candidate(p)
                       /\ <<name, p.op>> \notin seen
                    \/ name = Generation(p.gen) /\ K = Ending(p, s, T) /\ NoCandidate(p)
                    \/ /\ name = Staging(p.gen, p.op) /\ K = Ending(p, s, T)
                       /\ NoCandidate(p) /\ Gone(Generation(p.gen))
                    \/ /\ name = Staging(p.gen, p.op) /\ NoCandidate(p)
                       /\ K = Moving(Generation(p.gen), p.op, Ending(p, s, T))
CopiedIn(dir, name) ==
    \A e \in dir : e[1] = name => <<Rejected(name, Authority.pending.op), e[2]>> \in dir

AtReconcile == Queue(Tail(todo))
AtBegin ==
    /\ Synced /\ Resolved /\ Fresh
AtDebris ==
    /\ Synced /\ Resolved /\ Queue(Tail(todo))

AtVerify ==
    LET s == Authority.serving
    IN /\ Synced /\ todo[1] = <<"verify", s>>
       /\ \/ Tail(todo) = Reporting(s.op)
          \/ Resolved /\ Fresh /\ Tail(todo) = WritePlan(s, begun)
          \/ \E T : /\ Queue(T) /\ Rejects(Authority.pending) /\ s # Nothing
                    /\ Tail(todo) = Restoring(s, T)

AtLinkMarker ==
    \/ LET s == Authority.serving
           p == [gen |-> s.gen + 1, op |-> begun]
       IN /\ Synced /\ Resolved /\ Fresh
          /\ Does(<<"linkMarker", Pending(s.gen, p.gen, p.op)>>, Announced(p, Reporting(begun)))
    \/ \E p, K : /\ Synced /\ InDoubt(p) /\ Final(p, K) /\ Candidate(p)
                 /\ <<Generation(p.gen), p.op>> \in sure /\ Settled
                 /\ Does(<<"linkMarker", Active(p)>>, Recording(p, K))
    \/ \E T : /\ Queue(T) /\ Rejects(Authority.pending) /\ Authority.serving # Nothing
              /\ Does(<<"linkMarker", Active(Authority.serving)>>, Restored(T))

AtSyncMarkers ==
    \/ \E p : /\ InDoubt(p) /\ p.op = begun /\ Unused(begun)
              /\ Tail(todo) = Creating(p, Reporting(begun))
    \/ \E p, K : CommittedNow(p) /\ Final(p, K) /\ Tail(todo) = Dropping(p, K)
    \/ \E T : Queue(T) /\ Authority.state = "active" /\ Settled /\ Tail(todo) = Debris(T)

AtCreate ==
    \E p : /\ Synced /\ InDoubt(p) /\ p.op = begun /\ Unused(begun)
           /\ Does(<<"create", Staging(p.gen, p.op), p.op>>, Sealing(p, Reporting(begun)))
AtSyncFile ==
    \E p : /\ Synced /\ InDoubt(p) /\ p.op = begun /\ bytes[begun] = "written"
           /\ <<Staging(p.gen, p.op), p.op>> \in seen
           /\ \A e \in maybe : /\ e[2] = begun => e[1] = Staging(p.gen, p.op)
                             /\ \A name : e[1] # Rejected(name, begun)
           /\ Does(<<"syncFile", Staging(p.gen, p.op), p.op>>, Promoting(p, Reporting(begun)))
AtPromote ==
    \E p, K : /\ Synced /\ InDoubt(p) /\ Final(p, K) /\ Candidate(p)
              /\ Does(<<"promote", Staging(p.gen, p.op), Generation(p.gen), p.op>>, Syncing(p, K))
AtSyncRecord ==
    \/ \E p, K : /\ Synced /\ InDoubt(p) /\ Final(p, K) /\ Candidate(p)
                 /\ <<Generation(p.gen), p.op>> \in seen
                 /\ Tail(todo) = Committing(p, K)
    \/ \E name, K : Moves(name, K) /\ CopiedIn(seen, name) /\ Tail(todo) = Removing(name, K)
    \/ \E name, K : Moves(name, K) /\ Gone(name) /\ Tail(todo) = K
AtLinkRejected ==
    \E name, K : Moves(name, K) /\ Does(<<"linkRejected", name, Authority.pending.op>>, Copied(name, K))
AtRemove ==
    \E name, K : Moves(name, K) /\ CopiedIn(seen, name) /\ sure = seen /\ maybe = seen
                    /\ Does(<<"remove", name>>, Removed(K))
AtDrop ==
    \E p, K : /\ Synced /\ CommittedNow(p) /\ Final(p, K)
              /\ Does(<<"drop", Staging(p.gen, p.op)>>, K)
AtReturn == Synced /\ todo = Reporting(Authority.serving.op)

Stage ==
    \/ todo = << >>
    \/ Doing("reconcile") /\ AtReconcile
    \/ Doing("begin") /\ AtBegin
    \/ Doing("read")
    \/ Doing("debris") /\ AtDebris
    \/ Doing("verify") /\ AtVerify
    \/ Doing("linkMarker") /\ AtLinkMarker
    \/ Doing("syncMarkers") /\ AtSyncMarkers
    \/ Doing("create") /\ AtCreate
    \/ Doing("syncFile") /\ AtSyncFile
    \/ Doing("promote") /\ AtPromote
    \/ Doing("syncRecord") /\ AtSyncRecord
    \/ Doing("linkRejected") /\ AtLinkRejected
    \/ Doing("remove") /\ AtRemove
    \/ Doing("drop") /\ AtDrop
    \/ Doing("return") /\ AtReturn

(***************************************************************************)
(* Names and bytes.  A name that was removed may come back with a power    *)
(* loss until a sync, so a generation may hold what a rejected write left  *)
(* there.                                                                  *)
(***************************************************************************)
Contents(g) == {w \in Writes : <<Generation(g), w>> \in maybe}

Sealed ==
    /\ \A w \in Writes : bytes[w] = "written" => Doing("syncFile") /\ todo[1][3] = w
    /\ \A e \in maybe : e[1][1] = "generation" => bytes[e[2]] \in {"stranded", "sealed", "lost"}

Rejections ==
    \A e \in maybe : e[1][1] = "rejected" =>
        /\ e \in seen
        /\ \A g, w, v : e[1] = Rejected(Staging(g, v), w) => e[2] = w /\ v = w

(* What holds of the names of the write in doubt: its generation holds its *)
(* own bytes or what one earlier write left there, which a relocation has  *)
(* copied before its name went and never meets other bytes in its place.   *)
Doubtful(p) ==
    /\ \A x, y \in Contents(p.gen) \ {p.op} : x = y
    /\ p.op \in Contents(p.gen) =>
          /\ Candidate(p) \/ Contents(p.gen) = {p.op}
          /\ \A w \in Writes : <<Generation(p.gen), w>> \in seen => w = p.op
    /\ \A r \in Writes : <<Rejected(Generation(p.gen), p.op), r>> \in seen =>
          /\ Contents(p.gen) \subseteq {r}
             \/ /\ <<Staging(p.gen, p.op), p.op>> \in sure /\ Whole(p.op)
                /\ Contents(p.gen) \subseteq {r, p.op}
          /\ Candidate(p) /\ Gone(Generation(p.gen)) => <<Staging(p.gen, p.op), p.op>> \in sure

Names(a) ==
    /\ a.state = "pending" => Doubtful(a.pending)
    /\ a.state # "pending" => \A x, y \in Contents(a.serving.gen + 1) : x = y
    /\ \A g \in Nat : Contents(g) # {} => g <= a.serving.gen + 1

Safe == Rejections /\ Names(Authority) /\ Names(Durable)

IInv == Chain /\ Scalars /\ Directory /\ Stage /\ Sealed /\ (Lost \/ Safe)

-----------------------------------------------------------------------------
(* The chain and its authority.                                            *)
LEMMA Views ==
  /\ Authority = States(markers, Len(markers)) /\ Durable = States(markers, durableMarkers)
  /\ Authority' = States(markers', Len(markers')) /\ Durable' = States(markers', durableMarkers')
BY DEF Authority, Durable, AuthorityAt, States, History, IsHistory

LEMMA Numbers ==
  /\ MaxWrites \in Nat /\ MaxFaults \in Nat /\ \A w \in Writes : w \in Nat /\ w # 0
  /\ Nothing.gen = 0 /\ Nothing.op = 0 /\ Absent.serving = Nothing /\ Absent.pending = Nothing
  /\ Absent.state = "absent"
BY CommitAssumption DEF Writes, Nothing, Absent

LEMMA Names0 ==
  /\ \A g, h, w, v : Generation(g) # Staging(h, w)
  /\ \A g, n, w : Generation(g) # Rejected(n, w)
  /\ \A g, v, n, w : Staging(g, v) # Rejected(n, w)
  /\ \A g, h : Generation(g) = Generation(h) => g = h
  /\ \A g, v, h, w : Staging(g, v) = Staging(h, w) => g = h /\ v = w
  /\ \A n, v, m, w : Rejected(n, v) = Rejected(m, w) => n = m /\ v = w
  /\ \A g, w, n : /\ Generation(g)[1] = "generation" /\ Staging(g, w)[1] = "staging" /\ Rejected(n, w)[1] = "rejected"
                  /\ Generation(g)[2] = g /\ Staging(g, w)[2] = g
BY DEF Generation, Staging, Rejected

LEMMA LegalViews ==
  ASSUME Chain
  PROVE  /\ Legal(Authority) /\ Legal(Durable) /\ Len(markers) \in Nat
         /\ Durable # Authority => durableMarkers + 1 = Len(markers)
<1>1. Len(markers) \in Nat /\ durableMarkers \in 0 .. Len(markers)
  BY DEF Chain
<1>2. durableMarkers # Len(markers) => durableMarkers + 1 = Len(markers)
  BY <1>1 DEF Chain
<1> QED BY <1>1, <1>2, Views DEF Chain

(* A legal authority's parts.                                              *)
LEMMA LegalParts ==
  ASSUME Scalars, NEW a, Legal(a)
  PROVE  /\ a.serving.gen \in Nat /\ a.serving.op \in Nat /\ a.serving.gen <= a.serving.op
         /\ a.serving.op \in 0 .. begun /\ a.pending.op \in 0 .. begun
         /\ a.serving.op = 0 <=> a.serving = Nothing
         /\ a.state \in {"absent", "pending", "active"}
         /\ a.state # "pending" => a.pending = Nothing
         /\ a.state = "absent" => a = Absent
         /\ a.state = "active" => a.serving # Nothing
         /\ a.state = "pending" =>
               /\ a.pending.gen = a.serving.gen + 1 /\ a.pending.op \in Writes
               /\ a.pending.gen \in Writes /\ a.pending.gen <= a.pending.op
               /\ a.serving.op < a.pending.op
               /\ a.pending = [gen |-> a.pending.gen, op |-> a.pending.op]
<1>0. begun \in Nat /\ begun <= MaxWrites
  BY Numbers DEF Scalars
<1>1. /\ a.serving.gen \in Nat /\ a.serving.op \in Nat /\ a.serving.gen <= a.serving.op
      /\ a.serving.op \in 0 .. begun
      /\ a.serving.op = 0 <=> a.serving = Nothing
  BY <1>0, Numbers DEF Legal, Nothing
<1>2. CASE a = Absent
  BY <1>0, <1>1, <1>2, Numbers DEF Absent
<1>3. CASE a.state = "active" /\ a.serving # Nothing /\ a.pending = Nothing
  BY <1>0, <1>1, <1>3, Numbers
<1>4. CASE /\ a.state = "pending" /\ a.pending = [gen |-> a.serving.gen + 1, op |-> a.pending.op]
           /\ a.pending.op \in Writes /\ a.pending.op > a.serving.op /\ a.pending.op <= begun
  <2>1. a.pending.gen = a.serving.gen + 1
    BY <1>4
  <2>2. a.pending.op \in Nat /\ a.pending.gen <= a.pending.op /\ a.pending.gen \in Writes
    BY <1>1, <1>4, <2>1, Numbers DEF Writes
  <2>3. a.pending = [gen |-> a.pending.gen, op |-> a.pending.op]
    BY <1>4, <2>1
  <2> QED BY <1>0, <1>1, <1>4, <2>1, <2>2, <2>3
<1> QED BY <1>2, <1>3, <1>4 DEF Legal

LEMMA ChainSame ==
  ASSUME Chain, UNCHANGED chain, begun \in Nat, begun' \in Nat, begun' >= begun
  PROVE  Chain' /\ Authority' = Authority /\ Durable' = Durable
<1>1. UNCHANGED <<markers, durableMarkers>>
  BY DEF chain
<1>2. Authority' = Authority /\ Durable' = Durable
  BY <1>1, Views
<1>3. ASSUME NEW a, Legal(a) PROVE Legal(a)'
  BY <1>3, Numbers DEF Legal, Nothing
<1>4. \A i \in 1 .. Len(markers) : markers[i].op \in Nat
  <2>1. ASSUME NEW i \in 1 .. Len(markers) PROVE markers[i] \in Bodies
    BY <2>1, ElementOfSeq DEF Chain
  <2> QED BY <2>1, Numbers DEF Bodies
<1> QED BY <1>1, <1>2, <1>3, <1>4 DEF Chain

(* Everything stated is on disk after a load or the sync of the chain.     *)
LEMMA ChainSynced ==
  ASSUME Chain, UNCHANGED <<markers, begun>>, durableMarkers' = Len(markers)
  PROVE  Chain' /\ Authority' = Authority /\ Durable' = Authority /\ Synced'
<1>1. Authority' = Authority /\ Durable' = Authority
  BY Views
<1>2. ASSUME NEW a, Legal(a) PROVE Legal(a)'
  BY <1>2 DEF Legal
<1>3. Len(markers) \in Nat
  BY DEF Chain
<1> QED BY <1>1, <1>2, <1>3 DEF Chain, Synced

LEMMA ChainGrows ==
  ASSUME Chain, Synced, UNCHANGED <<durableMarkers, begun>>, NEW b \in Bodies, b.op <= begun,
         markers' = Append(markers, b), Legal(Transition(Authority, b))
  PROVE  /\ Chain' /\ Authority' = Transition(Authority, b) /\ Durable' = Authority
<1> DEFINE n == Len(markers)
<1>1. /\ n \in Nat /\ markers' \in Seq(Bodies) /\ Len(markers') = n + 1 /\ markers'[n + 1] = b
      /\ \A i \in 1 .. n : markers'[i] = markers[i]
  BY AppendProperties DEF Chain
<1>2. \A i \in 0 .. n : States(markers', i) = States(markers, i)
  <2> SUFFICES ASSUME NEW i \in 0 .. n PROVE States(markers', i) = States(markers, i)
    OBVIOUS
  <2>1. \A j \in 1 .. i : markers'[j] = markers[j]
    BY <1>1
  <2>2. i \in Nat
    BY <1>1
  <2>3. PICK m, k : m = markers' /\ k = markers
    OBVIOUS
  <2>4. States(m, i) = States(k, i)
    BY <2>1, <2>2, <2>3, StatesAgree
  <2> QED BY <2>3, <2>4
<1>3. States(markers', n + 1) = Transition(Authority, b)
  <2>1. PICK m : m = markers'
    OBVIOUS
  <2>2. States(m, n + 1) = Transition(States(m, n), m[n + 1])
    BY <1>1, StatesAt
  <2>3. States(m, n) = Authority
    BY <1>1, <1>2, <2>1, Views
  <2> QED BY <1>1, <2>1, <2>2, <2>3
<1>4. Authority' = Transition(Authority, b) /\ Durable' = Authority
  BY <1>1, <1>2, <1>3, Views DEF Synced
<1>5. ASSUME NEW a, Legal(a) PROVE Legal(a)'
  BY <1>5 DEF Legal
<1>6. \A i \in 0 .. n + 1 : Legal(States(markers', i))
  BY <1>1, <1>2, <1>3 DEF Chain
<1>7. \A i \in 1 .. n + 1 : markers'[i].op <= begun
  BY <1>1 DEF Chain
<1> QED BY <1>1, <1>4, <1>5, <1>6, <1>7 DEF Chain, Synced

(* A power loss leaves a chain that was stated before.                     *)
LEMMA ChainCut ==
  ASSUME Chain, UNCHANGED begun, NEW k \in durableMarkers .. Len(markers),
         markers' = SubSeq(markers, 1, k), durableMarkers' = k
  PROVE  /\ Chain' /\ Durable' = Authority' /\ Authority' \in {Authority, Durable} /\ Synced'
         /\ k = durableMarkers \/ k = Len(markers)
<1>1. /\ Len(markers) \in Nat /\ k \in 0 .. Len(markers) /\ k \in {durableMarkers, Len(markers)}
  BY DEF Chain
<1>2. /\ markers' \in Seq(Bodies) /\ Len(markers') = k
      /\ \A i \in 1 .. k : markers'[i] = markers[i]
  BY <1>1, SubSeqProperties DEF Chain
<1>3. \A i \in 0 .. k : States(markers', i) = States(markers, i)
  <2> SUFFICES ASSUME NEW i \in 0 .. k PROVE States(markers', i) = States(markers, i)
    OBVIOUS
  <2>1. \A j \in 1 .. i : markers'[j] = markers[j]
    BY <1>1, <1>2
  <2>2. i \in Nat
    BY <1>1
  <2>3. PICK m, l : m = markers' /\ l = markers
    OBVIOUS
  <2>4. States(m, i) = States(l, i)
    BY <2>1, <2>2, <2>3, StatesAgree
  <2> QED BY <2>3, <2>4
<1>4. Durable' = Authority' /\ Authority' \in {Authority, Durable}
  BY <1>1, <1>2, <1>3, Views
<1>5. ASSUME NEW a, Legal(a) PROVE Legal(a)'
  BY <1>5 DEF Legal
<1> QED BY <1>1, <1>2, <1>3, <1>4, <1>5 DEF Chain, Synced
-----------------------------------------------------------------------------
(* The plans as lists.                                                     *)
Cat(a, b) == a \o b

LEMMA Joined ==
  ASSUME NEW a, NEW b, NEW c, IsList(a), IsList(b), IsList(c)
  PROVE  Cat(Cat(a, b), c) = Cat(a, Cat(b, c)) /\ IsList(Cat(a, b)) /\ Cat(<< >>, c) = c
<1>1. PICK X, Y, Z : a \in Seq(X) /\ b \in Seq(Y) /\ c \in Seq(Z)
  BY DEF IsList
<1> DEFINE U == X \cup Y \cup Z
<1>2. a \in Seq(U) /\ b \in Seq(U) /\ c \in Seq(U)
  BY <1>1
<1> HIDE DEF U
<1>3. a \o b \in Seq(U)
  BY <1>2, ConcatProperties
<1>4. << >> \o c = c
  BY <1>2
<1> QED BY <1>2, <1>3, <1>4, ConcatAssociative DEF IsList, Cat

LEMMA Longer ==
  ASSUME NEW x, NEW s, NEW r, IsList(s), IsList(r)
  PROVE  Cat(Then(x, s), r) = Then(x, Cat(s, r))
<1>1. PICK y : y = <<x>>
  OBVIOUS
<1>2. IsList(y)
  BY <1>1, ListOf
<1>3. Then(x, s) = Cat(y, s) /\ Then(x, Cat(s, r)) = Cat(y, Cat(s, r))
  BY <1>1 DEF Then, Cat
<1> QED BY <1>2, <1>3, Joined

LEMMA ThenList == ASSUME NEW x, NEW s, IsList(s) PROVE IsList(Then(x, s))
BY ListRest

LEMMA One ==
  ASSUME NEW x, NEW K, IsList(K)
  PROVE  IsList(<<x>>) /\ Cat(<<x>>, K) = Then(x, K)
BY ListOf DEF Cat, Then

LEMMA Two ==
  ASSUME NEW x, NEW y, NEW K, IsList(K)
  PROVE  IsList(<<x, y>>) /\ Cat(<<x, y>>, K) = Then(x, Then(y, K))
<1>1. PICK a, b : a = <<y>> /\ b = <<x, y>>
  OBVIOUS
<1>2. b = Then(x, a)
  BY <1>1, Lists
<1>3. IsList(a) /\ Cat(a, K) = Then(y, K)
  BY <1>1, One
<1>4. IsList(b) /\ Cat(b, K) = Then(x, Cat(a, K))
  BY <1>2, <1>3, ThenList, Longer
<1> QED BY <1>1, <1>3, <1>4

LEMMA Four ==
  ASSUME NEW x, NEW y, NEW z, NEW u, NEW K, IsList(K)
  PROVE  IsList(<<x, y, z, u>>) /\ Cat(<<x, y, z, u>>, K) = Then(x, Then(y, Then(z, Then(u, K))))
<1>1. PICK a, b, c : a = <<z, u>> /\ b = <<y, z, u>> /\ c = <<x, y, z, u>>
  OBVIOUS
<1>2. b = Then(y, a) /\ c = Then(x, b)
  BY <1>1, Lists
<1>3. IsList(a) /\ Cat(a, K) = Then(z, Then(u, K))
  BY <1>1, Two
<1>4. IsList(b) /\ Cat(b, K) = Then(y, Cat(a, K))
  BY <1>2, <1>3, ThenList, Longer
<1>5. IsList(c) /\ Cat(c, K) = Then(x, Cat(b, K))
  BY <1>2, <1>4, ThenList, Longer
<1> QED BY <1>1, <1>3, <1>4, <1>5

LEMMA PlanLists ==
  ASSUME NEW p, NEW s, NEW K, IsList(K)
  PROVE  /\ IsList(Debris(K)) /\ IsList(Dropping(p, K)) /\ IsList(Recording(p, K)) /\ IsList(Committing(p, K))
         /\ IsList(Syncing(p, K)) /\ IsList(Promoting(p, K)) /\ IsList(Sealing(p, K)) /\ IsList(Creating(p, K))
         /\ IsList(Restored(K)) /\ IsList(Restoring(s, K)) /\ IsList(Verifying(s, K))
         /\ IsList(Ending(p, s, K)) /\ IsList(Announced(p, K))
<1>1. IsList(Debris(K)) /\ IsList(Dropping(p, K)) /\ IsList(Recording(p, K)) /\ IsList(Committing(p, K))
  BY ListRest DEF Debris, Dropping, Recording, Committing
<1>2. IsList(Syncing(p, K)) /\ IsList(Promoting(p, K)) /\ IsList(Sealing(p, K)) /\ IsList(Creating(p, K))
  BY <1>1, ListRest DEF Syncing, Promoting, Sealing, Creating
<1>3. IsList(Restored(K)) /\ IsList(Restoring(s, K)) /\ IsList(Verifying(s, K))
  BY <1>1, ListRest DEF Restored, Restoring, Verifying
<1>4. IsList(Announced(p, K))
  BY <1>2, ListRest DEF Announced
<1>5. IsList(Ending(p, s, K))
  BY <1>1, <1>3 DEF Ending
<1> QED BY <1>1, <1>2, <1>3, <1>4, <1>5

LEMMA MovingLists ==
  ASSUME NEW name, NEW w, NEW K, IsList(K)
  PROVE  /\ IsList(Removed(K)) /\ IsList(Removing(name, K)) /\ IsList(Copied(name, K))
         /\ IsList(Moving(name, w, K)) /\ Cat(Relocate(name, w), K) = Moving(name, w, K)
         /\ IsList(Relocate(name, w))
<1>1. IsList(Removed(K)) /\ IsList(Removing(name, K)) /\ IsList(Copied(name, K)) /\ IsList(Moving(name, w, K))
  BY ListRest DEF Removed, Removing, Copied, Moving
<1>2. PICK x, y, z : x = <<"linkRejected", name, w>> /\ y = <<"syncRecord">> /\ z = <<"remove", name>>
  OBVIOUS
<1>3. Relocate(name, w) = <<x, y, z, y>>
  BY <1>2 DEF Relocate
<1>4. Moving(name, w, K) = Then(x, Then(y, Then(z, Then(y, K))))
  BY <1>2 DEF Moving, Copied, Removing, Removed
<1>5. IsList(<<x, y, z, y>>) /\ Cat(<<x, y, z, y>>, K) = Then(x, Then(y, Then(z, Then(y, K))))
  BY Four
<1> QED BY <1>1, <1>3, <1>4, <1>5

LEMMA RelocateList ==
  ASSUME NEW name, NEW w, NEW K, IsList(K)
  PROVE  /\ IsList(RelocateIfPresent(name, w))
         /\ Cat(RelocateIfPresent(name, w), K) = IF Present(name) THEN Moving(name, w, K) ELSE K
<1>1. CASE Present(name)
  <2>1. RelocateIfPresent(name, w) = Relocate(name, w)
    BY <1>1 DEF RelocateIfPresent
  <2> QED BY <1>1, <2>1, MovingLists
<1>2. CASE ~Present(name)
  <2>1. PICK e : e = << >>
    OBVIOUS
  <2>2. RelocateIfPresent(name, w) = e
    BY <1>2, <2>1 DEF RelocateIfPresent
  <2>3. IsList(e) /\ Cat(e, K) = K
    BY <2>1, ListOf, Joined
  <2> QED BY <1>2, <2>2, <2>3
<1> QED BY <1>1, <1>2

LEMMA MarkerList ==
  ASSUME NEW body, NEW K, IsList(K)
  PROVE  /\ IsList(WriteMarker(body))
         /\ Cat(WriteMarker(body), K) = Then(<<"linkMarker", body>>, Then(<<"syncMarkers">>, K))
<1>1. PICK x, y : x = <<"linkMarker", body>> /\ y = <<"syncMarkers">>
  OBVIOUS
<1>2. WriteMarker(body) = <<x, y>>
  BY <1>1 DEF WriteMarker
<1> QED BY <1>1, <1>2, Two

LEMMA PromotionList ==
  ASSUME NEW p, NEW T, IsList(T)
  PROVE  LET K == Syncing(p, T) IN
         /\ IsList(Promotion(p))
         /\ Cat(Promotion(p), K) =
               IF <<Generation(p.gen), p.op>> \in seen THEN K
               ELSE IF Present(Generation(p.gen)) THEN Moving(Generation(p.gen), p.op, Promoting(p, T))
               ELSE Promoting(p, T)
<1> DEFINE K == Syncing(p, T)
           promote == << <<"promote", Staging(p.gen, p.op), Generation(p.gen), p.op>> >>
<1>1. PICK m, again : m = promote /\ again = RelocateIfPresent(Generation(p.gen), p.op)
  OBVIOUS
<1>2. IsList(K) /\ IsList(Promoting(p, T))
  BY PlanLists
<1>3. IsList(m) /\ Cat(m, K) = Promoting(p, T)
  <2>1. PICK x : x = <<"promote", Staging(p.gen, p.op), Generation(p.gen), p.op>>
    OBVIOUS
  <2>2. Promoting(p, T) = Then(x, K)
    BY <2>1 DEF Promoting
  <2>3. m = <<x>>
    BY <1>1, <2>1
  <2>4. IsList(<<x>>) /\ Cat(<<x>>, K) = Then(x, K)
    BY <1>2, One
  <2> QED BY <2>2, <2>3, <2>4
<1>4. IsList(again) /\ Cat(again, Promoting(p, T)) =
          IF Present(Generation(p.gen)) THEN Moving(Generation(p.gen), p.op, Promoting(p, T)) ELSE Promoting(p, T)
  BY <1>1, <1>2, RelocateList
<1>5. CASE <<Generation(p.gen), p.op>> \in seen
  <2>1. PICK e : e = << >>
    OBVIOUS
  <2>2. Promotion(p) = e
    BY <1>5, <2>1 DEF Promotion
  <2>3. IsList(e) /\ Cat(e, K) = K
    BY <1>2, <2>1, ListOf, Joined
  <2> QED BY <1>5, <2>2, <2>3
<1>6. CASE <<Generation(p.gen), p.op>> \notin seen
  <2>1. Promotion(p) = Cat(again, m)
    BY <1>1, <1>6 DEF Promotion, Cat
  <2> HIDE DEF K
  <2>2. Cat(Cat(again, m), K) = Cat(again, Cat(m, K)) /\ IsList(Cat(again, m))
    BY <1>2, <1>3, <1>4, Joined
  <2>3. Cat(Promotion(p), K) = Cat(again, Promoting(p, T)) /\ IsList(Promotion(p))
    BY <1>3, <2>1, <2>2
  <2> QED BY <1>4, <1>6, <2>3 DEF K
<1> QED BY <1>5, <1>6

LEMMA AdoptList ==
  ASSUME NEW p, NEW T, IsList(T)
  PROVE  (AdoptPlan(p) \o << <<"debris">> >>) \o T =
            LET K == Debris(T) IN
            IF <<Generation(p.gen), p.op>> \in seen THEN Syncing(p, K)
            ELSE IF Present(Generation(p.gen)) THEN Moving(Generation(p.gen), p.op, Promoting(p, K))
            ELSE Promoting(p, K)
<1>1. PICK K, d, drop, sync, active, first :
         /\ K = Debris(T) /\ d = << <<"debris">> >> /\ drop = << <<"drop", Staging(p.gen, p.op)>> >>
         /\ sync = << <<"syncRecord">> >> /\ active = WriteMarker(Active(p)) /\ first = Promotion(p)
  OBVIOUS
<1>2. IsList(K) /\ IsList(d) /\ Cat(d, T) = K
  <2>1. PICK x : x = <<"debris">>
    OBVIOUS
  <2>2. d = <<x>> /\ K = Then(x, T)
    BY <1>1, <2>1 DEF Debris
  <2>3. IsList(<<x>>) /\ Cat(<<x>>, T) = Then(x, T) /\ IsList(Then(x, T))
    BY One, ThenList
  <2> QED BY <2>2, <2>3
<1>3. IsList(drop) /\ Cat(drop, K) = Dropping(p, K) /\ IsList(Dropping(p, K))
  <2>1. PICK x : x = <<"drop", Staging(p.gen, p.op)>>
    OBVIOUS
  <2>2. drop = <<x>> /\ Dropping(p, K) = Then(x, K)
    BY <1>1, <2>1 DEF Dropping
  <2>3. IsList(<<x>>) /\ Cat(<<x>>, K) = Then(x, K) /\ IsList(Then(x, K))
    BY <1>2, One, ThenList
  <2> QED BY <2>2, <2>3
<1>4. IsList(active) /\ Cat(active, Dropping(p, K)) = Committing(p, K) /\ IsList(Committing(p, K))
  <2>1. Committing(p, K) = Then(<<"linkMarker", Active(p)>>, Then(<<"syncMarkers">>, Dropping(p, K)))
    BY DEF Committing, Recording
  <2>2. IsList(Committing(p, K))
    BY <1>2, PlanLists
  <2>3. /\ IsList(WriteMarker(Active(p)))
        /\ Cat(WriteMarker(Active(p)), Dropping(p, K))
                = Then(<<"linkMarker", Active(p)>>, Then(<<"syncMarkers">>, Dropping(p, K)))
    BY <1>3, MarkerList
  <2> QED BY <1>1, <2>1, <2>2, <2>3
<1>5. IsList(sync) /\ Cat(sync, Committing(p, K)) = Syncing(p, K) /\ IsList(Syncing(p, K))
  <2>1. PICK x : x = <<"syncRecord">>
    OBVIOUS
  <2>2. sync = <<x>> /\ Syncing(p, K) = Then(x, Committing(p, K))
    BY <1>1, <2>1 DEF Syncing
  <2>3. IsList(<<x>>) /\ Cat(<<x>>, Committing(p, K)) = Then(x, Committing(p, K)) /\ IsList(Then(x, Committing(p, K)))
    BY <1>4, One, ThenList
  <2> QED BY <2>2, <2>3
<1>6. IsList(first) /\ Cat(first, Syncing(p, K)) =
            IF <<Generation(p.gen), p.op>> \in seen THEN Syncing(p, K)
            ELSE IF Present(Generation(p.gen)) THEN Moving(Generation(p.gen), p.op, Promoting(p, K))
            ELSE Promoting(p, K)
  BY <1>1, <1>2, PromotionList
<1>7. (AdoptPlan(p) \o << <<"debris">> >>) \o T = Cat(Cat(Cat(first, Cat(sync, Cat(active, drop))), d), T)
  BY <1>1 DEF AdoptPlan, Cat
<1>8. IsList(Cat(active, drop)) /\ IsList(Cat(sync, Cat(active, drop))) /\ IsList(Cat(first, Cat(sync, Cat(active, drop))))
  BY <1>3, <1>4, <1>5, <1>6, Joined
<1>9. Cat(Cat(Cat(first, Cat(sync, Cat(active, drop))), d), T) = Cat(Cat(first, Cat(sync, Cat(active, drop))), K)
  BY <1>2, <1>8, Joined
<1>10. Cat(Cat(first, Cat(sync, Cat(active, drop))), K) = Cat(first, Cat(Cat(sync, Cat(active, drop)), K))
  BY <1>2, <1>6, <1>8, Joined
<1>11. Cat(Cat(sync, Cat(active, drop)), K) = Cat(sync, Cat(Cat(active, drop), K))
  BY <1>2, <1>5, <1>8, Joined
<1>12. Cat(Cat(active, drop), K) = Cat(active, Cat(drop, K))
  BY <1>2, <1>3, <1>4, <1>8, Joined
<1>13. (AdoptPlan(p) \o << <<"debris">> >>) \o T = Cat(first, Syncing(p, K))
  BY <1>3, <1>4, <1>5, <1>7, <1>9, <1>10, <1>11, <1>12
<1> QED BY <1>1, <1>6, <1>13

LEMMA RejectList ==
  ASSUME NEW p, NEW s, NEW T, IsList(T)
  PROVE  (RejectPlan(p, s) \o << <<"debris">> >>) \o T =
            LET last == Ending(p, s, T)
                name == Generation(p.gen)
                second == IF Present(name) THEN Moving(name, p.op, last) ELSE last
            IN IF Present(Staging(p.gen, p.op)) THEN Moving(Staging(p.gen, p.op), p.op, second) ELSE second
<1>1. PICK K, d, staged, promoted, end, last, second :
         /\ K = Debris(T) /\ d = << <<"debris">> >>
         /\ staged = RelocateIfPresent(Staging(p.gen, p.op), p.op)
         /\ promoted = RelocateIfPresent(Generation(p.gen), p.op)
         /\ end = IF s = Nothing THEN << >> ELSE << <<"verify", s>> >> \o WriteMarker(Active(s))
         /\ last = Ending(p, s, T)
         /\ second = IF Present(Generation(p.gen)) THEN Moving(Generation(p.gen), p.op, last) ELSE last
  OBVIOUS
<1>2. IsList(K) /\ IsList(d) /\ Cat(d, T) = K
  <2>1. PICK x : x = <<"debris">>
    OBVIOUS
  <2>2. d = <<x>> /\ K = Then(x, T)
    BY <1>1, <2>1 DEF Debris
  <2>3. IsList(<<x>>) /\ Cat(<<x>>, T) = Then(x, T) /\ IsList(Then(x, T))
    BY One, ThenList
  <2> QED BY <2>2, <2>3
<1>3. IsList(end) /\ Cat(end, K) = last
  <2>1. CASE s = Nothing
    <3>1. end = << >> /\ last = K
      BY <1>1, <2>1 DEF Ending
    <3>2. IsList(<< >>) /\ Cat(<< >>, K) = K
      <4>1. PICK X : K \in Seq(X)
        BY <1>2 DEF IsList
      <4>2. << >> \in Seq(X) /\ << >> \o K = K
        BY <4>1, ConcatEmptySeq
      <4> QED BY <4>2 DEF Cat, IsList
    <3> QED BY <3>1, <3>2
  <2>2. CASE s # Nothing
    <3>1. PICK x, verify, active : x = <<"verify", s>> /\ verify = <<x>> /\ active = WriteMarker(Active(s))
      OBVIOUS
    <3>2. end = Cat(verify, active) /\ last = Then(x, Restoring(s, T))
      BY <1>1, <2>2, <3>1 DEF Ending, Verifying, Cat
    <3>3. IsList(active) /\ Cat(active, K) = Restoring(s, T)
      BY <1>1, <1>2, <3>1, MarkerList DEF Restoring, Restored
    <3>4. IsList(Restoring(s, T))
      BY PlanLists
    <3>5. IsList(<<x>>) /\ Cat(<<x>>, Restoring(s, T)) = Then(x, Restoring(s, T))
      BY <3>4, One
    <3>6. IsList(Cat(verify, active)) /\ Cat(Cat(verify, active), K) = Cat(verify, Cat(active, K))
      BY <1>2, <3>1, <3>3, <3>5, Joined
    <3> QED BY <3>1, <3>2, <3>3, <3>5, <3>6
  <2> QED BY <2>1, <2>2
<1>4. IsList(last)
  BY <1>1, PlanLists
<1>5. IsList(promoted) /\ Cat(promoted, last) = second
  BY <1>1, <1>4, RelocateList
<1>6. IsList(second)
  BY <1>1, <1>4, MovingLists
<1>7. IsList(staged) /\ Cat(staged, second) =
         IF Present(Staging(p.gen, p.op)) THEN Moving(Staging(p.gen, p.op), p.op, second) ELSE second
  BY <1>1, <1>6, RelocateList
<1>8. (RejectPlan(p, s) \o << <<"debris">> >>) \o T = Cat(Cat(Cat(staged, Cat(promoted, end)), d), T)
  <2>1. CASE s = Nothing
    <3>1. end = << >>
      BY <1>1, <2>1
    <3> QED BY <1>1, <2>1, <3>1 DEF RejectPlan, Cat
  <2>2. CASE s # Nothing
    <3>1. end = << <<"verify", s>> >> \o WriteMarker(Active(s))
      BY <1>1, <2>2
    <3> QED BY <1>1, <2>2, <3>1 DEF RejectPlan, Cat
  <2> QED BY <2>1, <2>2
<1>9. IsList(Cat(promoted, end)) /\ IsList(Cat(staged, Cat(promoted, end)))
  BY <1>3, <1>5, <1>7, Joined
<1>10. Cat(Cat(Cat(staged, Cat(promoted, end)), d), T) = Cat(Cat(staged, Cat(promoted, end)), K)
  BY <1>2, <1>9, Joined
<1>11. Cat(Cat(staged, Cat(promoted, end)), K) = Cat(staged, Cat(Cat(promoted, end), K))
  BY <1>2, <1>7, <1>9, Joined
<1>12. Cat(Cat(promoted, end), K) = Cat(promoted, Cat(end, K))
  BY <1>2, <1>3, <1>5, Joined
<1>13. (RejectPlan(p, s) \o << <<"debris">> >>) \o T = Cat(staged, second)
  BY <1>3, <1>5, <1>8, <1>10, <1>11, <1>12
<1> QED BY <1>1, <1>7, <1>13

LEMMA WriteList ==
  ASSUME NEW s, NEW w, NEW p, p = [gen |-> s.gen + 1, op |-> w]
  PROVE  WritePlan(s, w) = Then(<<"linkMarker", Pending(s.gen, p.gen, p.op)>>, Announced(p, Reporting(w)))
<1>0. p.gen = s.gen + 1 /\ p.op = w
  OBVIOUS
<1>1. PICK K, x, y, z, u, v, body, pending, active, end :
         /\ K = Reporting(w)
         /\ x = <<"create", Staging(p.gen, w), w>> /\ y = <<"syncFile", Staging(p.gen, w), w>>
         /\ z = <<"promote", Staging(p.gen, w), Generation(p.gen), w>> /\ u = <<"syncRecord">>
         /\ v = <<"drop", Staging(p.gen, w)>>
         /\ body = <<x, y, z, u>> /\ pending = WriteMarker(Pending(s.gen, p.gen, w))
         /\ active = WriteMarker(Active(p)) /\ end = <<v, <<"return", w>> >>
  OBVIOUS
<1>2. IsList(K) /\ end = Dropping(p, K) /\ IsList(Dropping(p, K))
  <2>1. PICK r : r = <<"return", w>>
    OBVIOUS
  <2>2. K = <<r>> /\ end = <<v, r>>
    BY <1>1, <2>1 DEF Reporting
  <2>3. IsList(K)
    BY <2>2, ListOf
  <2>4. end = Then(v, K)
    BY <2>2, Lists
  <2> QED BY <1>0, <1>1, <2>3, <2>4, ThenList DEF Dropping
<1>3. IsList(active) /\ Cat(active, end) = Committing(p, K) /\ IsList(Committing(p, K))
  <2>1. Committing(p, K) = Then(<<"linkMarker", Active(p)>>, Then(<<"syncMarkers">>, Dropping(p, K)))
    BY DEF Committing, Recording
  <2>2. IsList(Committing(p, K))
    BY <1>2, PlanLists
  <2>3. /\ IsList(WriteMarker(Active(p)))
        /\ Cat(WriteMarker(Active(p)), Dropping(p, K))
                = Then(<<"linkMarker", Active(p)>>, Then(<<"syncMarkers">>, Dropping(p, K)))
    BY <1>2, MarkerList
  <2> QED BY <1>1, <1>2, <2>1, <2>2, <2>3
<1>4. IsList(body) /\ Cat(body, Committing(p, K)) = Creating(p, K) /\ IsList(Creating(p, K))
  <2>1. Creating(p, K) = Then(x, Then(y, Then(z, Then(u, Committing(p, K)))))
    BY <1>0, <1>1 DEF Creating, Sealing, Promoting, Syncing
  <2>2. IsList(Creating(p, K))
    BY <1>2, PlanLists
  <2>3. IsList(<<x, y, z, u>>) /\ Cat(<<x, y, z, u>>, Committing(p, K)) = Then(x, Then(y, Then(z, Then(u, Committing(p, K)))))
    BY <1>3, Four
  <2> QED BY <1>1, <2>1, <2>2, <2>3
<1>5. IsList(pending) /\ Cat(pending, Creating(p, K)) =
         Then(<<"linkMarker", Pending(s.gen, p.gen, w)>>, Announced(p, K))
  BY <1>1, <1>4, MarkerList DEF Announced
<1>6. WritePlan(s, w) = Cat(pending, Cat(body, Cat(active, end)))
  BY <1>0, <1>1 DEF WritePlan, Cat
<1> QED BY <1>0, <1>1, <1>3, <1>4, <1>5, <1>6

-----------------------------------------------------------------------------
(* Where an operation stands: what the head step tells, and the next one.  *)
LEMMA StageAt ==
  ASSUME Stage
  PROVE  /\ Doing("reconcile") => AtReconcile
         /\ Doing("begin") => AtBegin
         /\ Doing("debris") => AtDebris
         /\ Doing("verify") => AtVerify
         /\ Doing("linkMarker") => AtLinkMarker
         /\ Doing("syncMarkers") => AtSyncMarkers
         /\ Doing("create") => AtCreate
         /\ Doing("syncFile") => AtSyncFile
         /\ Doing("promote") => AtPromote
         /\ Doing("syncRecord") => AtSyncRecord
         /\ Doing("linkRejected") => AtLinkRejected
         /\ Doing("remove") => AtRemove
         /\ Doing("drop") => AtDrop
         /\ Doing("return") => AtReturn
BY DEF Stage, Doing

(* The write an operation creates or syncs the staging file of.            *)
LEMMA WritingAt ==
  ASSUME Stage
  PROVE  /\ Doing("create") => todo[1][3] = begun /\ bytes[begun] = "none"
         /\ Doing("syncFile") => todo[1][3] = begun /\ bytes[begun] = "written"
<1>1. ASSUME Doing("create") PROVE todo[1][3] = begun /\ bytes[begun] = "none"
  <2>1. PICK p, K : /\ p.op = begun /\ Unused(begun)
                    /\ Does(<<"create", Staging(p.gen, p.op), p.op>>, K)
    BY <1>1, StageAt DEF AtCreate
  <2> QED BY <2>1 DEF Does, Unused
<1>2. ASSUME Doing("syncFile") PROVE todo[1][3] = begun /\ bytes[begun] = "written"
  <2>1. PICK p, K : /\ p.op = begun /\ bytes[begun] = "written"
                    /\ Does(<<"syncFile", Staging(p.gen, p.op), p.op>>, K)
    BY <1>2, StageAt DEF AtSyncFile
  <2> QED BY <2>1 DEF Does
<1> QED BY <1>1, <1>2

LEMMA NextStep ==
  ASSUME NEW x, NEW s, IsList(s), todo' = Then(x, s)
  PROVE  /\ Does(x, s)' /\ todo'[1] = x /\ Tail(todo') = s /\ todo' # << >>
         /\ Doing(x[1])'
BY ListRest DEF Does, Doing

LEMMA WaitingLists ==
  /\ \A T : Queue(T) => IsList(T) /\ IsList(Debris(T))
  /\ \A p, K : Final(p, K) => IsList(K)
<1>1. ASSUME NEW T, Queue(T) PROVE IsList(T) /\ IsList(Debris(T))
  <2>1. IsList(T)
    BY <1>1, ListOf DEF Queue
  <2> QED BY <2>1, PlanLists
<1>2. ASSUME NEW p, NEW K, Final(p, K) PROVE IsList(K)
  BY <1>1, <1>2, ListOf DEF Final, Reporting
<1> QED BY <1>1, <1>2

(* What was not begun stays fresh while older writes are resolved.         *)
LEMMA FreshKept ==
  ASSUME Fresh, UNCHANGED <<begun, bytes>>,
         \A i \in 1 .. Len(markers') : (i \in 1 .. Len(markers) /\ markers'[i] = markers[i]) \/ markers'[i].op < begun,
         Authority'.serving.op < begun, Authority'.pending.op < begun,
         \A e \in maybe' : e \in maybe \/ (e[2] < begun /\ \A name : e[1] # Rejected(name, begun))
  PROVE  Fresh'
<1>1. begun \in Nat
  BY Numbers DEF Fresh
<1>2. \A i \in 1 .. Len(markers') : markers'[i].op < begun
  BY DEF Fresh
<1>3. Unused(begun)'
  <2> SUFFICES ASSUME NEW e \in maybe' PROVE e[2] # begun /\ \A name : e[1] # Rejected(name, begun)
    BY DEF Fresh, Unused
  <2>1. CASE e \in maybe
    BY <2>1 DEF Fresh, Unused
  <2>2. CASE e[2] < begun /\ \A name : e[1] # Rejected(name, begun)
    BY <1>1, <2>2
  <2> QED BY <2>1, <2>2
<1>4. begun \in Writes
  BY DEF Fresh
<1> QED BY <1>2, <1>3, <1>4 DEF Fresh, Writes

LEMMA FreshSame ==
  ASSUME Fresh, UNCHANGED <<begun, markers, bytes>>, maybe' \subseteq maybe, Authority' = Authority
  PROVE  Fresh'
BY DEF Fresh, Unused, Writes

LEMMA QueueKept ==
  ASSUME Fresh => Fresh', UNCHANGED begun
  PROVE  /\ \A T : Queue(T) => Queue(T)'
         /\ \A p, K : Final(p, K) => Final(p, K)'
BY DEF Queue, Final

LEMMA Serving ==
  ASSUME Chain, Scalars
  PROVE  /\ Authority.serving.op \in 0 .. begun /\ Authority.pending.op \in 0 .. begun
         /\ Authority.state \in {"absent", "pending", "active"}
         /\ Synced => Durable = Authority
<1>1. Legal(Authority)
  BY LegalViews
<1>2. Synced => Durable = Authority
  BY Views DEF Synced
<1> QED BY <1>1, <1>2, LegalParts

(* A directory nobody touched.                                             *)
LEMMA DirectorySame ==
  ASSUME Directory, UNCHANGED files, begun \in Nat, begun' \in Nat, begun' >= begun,
         Authority' = Authority, Durable' \in {Authority, Durable}
  PROVE  Directory'
<1>1. UNCHANGED <<seen, sure, maybe>>
  BY DEF files
<1>2. \A e \in maybe : Entry(e)'
  <2> SUFFICES ASSUME NEW e \in maybe PROVE Entry(e)'
    OBVIOUS
  <2>1. Entry(e)
    BY DEF Directory
  <2>2. e = <<e[1], e[2]>> /\ e[2] \in 1 .. begun'
    BY <2>1 DEF Entry
  <2>3. \/ \E g \in Nat : e[1] = Generation(g)
        \/ \E g \in Nat : e[1] = Staging(g, e[2])
        \/ \E name : \E w \in 0 .. begun' : e[1] = Rejected(name, w)
    <3>1. CASE \E name : \E w \in 0 .. begun : e[1] = Rejected(name, w)
      <4>1. PICK name, w : w \in 0 .. begun /\ e[1] = Rejected(name, w)
        BY <3>1
      <4>2. w \in 0 .. begun'
        BY <4>1
      <4> QED BY <4>1, <4>2
    <3> QED BY <2>1, <3>1 DEF Entry
  <2> QED BY <2>2, <2>3 DEF Entry
<1>3. OnDisk(Authority.serving)' /\ OnDisk(Durable.serving)'
  BY <1>1 DEF Directory, OnDisk
<1>4. sure \subseteq seen /\ seen \subseteq maybe /\ OneContentPerName(seen)
  BY DEF Directory
<1>5. \A e \in seen : e[1][1] = "generation" /\ e \notin sure =>
          /\ Authority.state = "pending"
          /\ e = <<Generation(Authority.pending.gen), Authority.pending.op>>
  BY DEF Directory
<1>6. OneContentPerName(seen)'
  BY <1>1, <1>4 DEF OneContentPerName
<1> QED BY <1>1, <1>2, <1>3, <1>4, <1>5, <1>6 DEF Directory

LEMMA NameOf ==
  ASSUME Directory
  PROVE  /\ \A e \in seen : e = <<e[1], e[2]>> /\ e[2] \in 1 .. begun
         /\ \A name : Present(name) <=> ~ Gone(name)
         /\ \A name, w : w \in Holders(seen, name) <=> <<name, w>> \in seen
         /\ \A e \in seen : \A g, w : e[1] = Staging(g, w) => e[2] = w
<1>1. \A e \in seen : Entry(e)
  BY DEF Directory
<1>2. \A e \in seen : e = <<e[1], e[2]>> /\ e[2] \in 1 .. begun
  BY <1>1 DEF Entry
<1>3. \A name : Present(name) <=> ~ Gone(name)
  BY DEF Present, Holders, Gone
<1>4. ASSUME NEW name, NEW w PROVE w \in Holders(seen, name) <=> <<name, w>> \in seen
  <2>1. ASSUME w \in Holders(seen, name) PROVE <<name, w>> \in seen
    <3>1. PICK e \in seen : e[1] = name /\ w = e[2]
      BY <2>1 DEF Holders
    <3> QED BY <1>2, <3>1
  <2>2. ASSUME <<name, w>> \in seen PROVE w \in Holders(seen, name)
    <3>1. <<name, w>>[1] = name /\ <<name, w>>[2] = w
      OBVIOUS
    <3> QED BY <2>2, <3>1 DEF Holders
  <2> QED BY <2>1, <2>2
<1>5. ASSUME NEW e \in seen, NEW g, NEW w, e[1] = Staging(g, w) PROVE e[2] = w
  BY <1>1, <1>5, Names0 DEF Entry
<1> QED BY <1>2, <1>3, <1>4, <1>5

-----------------------------------------------------------------------------
(* The invariant without the bytes, action by action.                      *)
Base == Chain /\ Scalars /\ Directory /\ Stage

LEMMA BytesSet ==
  ASSUME Scalars, NEW state \in {"written", "stranded", "sealed", "torn"},
         bytes' = [bytes EXCEPT ![begun] = state], UNCHANGED begun
  PROVE  /\ bytes' \in [Writes -> {"none", "written", "stranded", "sealed", "torn", "lost"}]
         /\ \A w \in Writes : w > begun' => bytes'[w] = "none"
<1>1. bytes' \in [Writes -> {"none", "written", "stranded", "sealed", "torn", "lost"}]
  BY DEF Scalars
<1>2. ASSUME NEW w \in Writes, w > begun PROVE bytes'[w] = "none"
  <2>1. w # begun
    BY <1>2, Numbers DEF Scalars, Writes
  <2> QED BY <1>2, <2>1 DEF Scalars
<1> QED BY <1>1, <1>2

LEMMA ScalarsKept ==
  ASSUME Base, Next
  PROVE  Scalars'
<1> USE DEF Base
<1>1. /\ begun \in Nat /\ MaxWrites \in Nat /\ faults \in Nat /\ MaxFaults \in Nat
      /\ returned \in 0 .. begun
  BY Numbers DEF Scalars
<1>2. CASE CommitWrite \/ StartupReconcile \/ ReadCommitted
  <2>1. /\ UNCHANGED <<bytes, returned, faults>> /\ refusal' = "none"
        /\ begun' \in 0 .. MaxWrites /\ begun' >= begun
    BY <1>1, <1>2 DEF Scalars, CommitWrite, StartupReconcile, ReadCommitted, Start
  <2> QED BY <1>1, <2>1 DEF Scalars, Writes
<1>3. CASE Reconcile \/ BeginWrite \/ Read \/ Verify \/ LinkMarker \/ SyncMarkers
  BY <1>1, <1>3 DEF Scalars, Reconcile, BeginWrite, Read, Verify, LinkMarker, SyncMarkers, Load, GoOn, Proceed
<1>4. CASE Promote \/ SyncRecord \/ LinkRejected \/ RemoveName \/ DropFails \/ ClassifyDebris
  BY <1>1, <1>4 DEF Scalars, Promote, SyncRecord, LinkRejected, RemoveName, DropFails, ClassifyDebris, GoOn, Proceed
<1>5. Doing("create") \/ Doing("syncFile") => todo[1][3] = begun
  BY WritingAt
<1>6. CASE CreateStaging \/ SyncFile
  <2>1. PICK state : /\ state \in {"written", "sealed"} /\ bytes' = [bytes EXCEPT ![begun] = state]
                     /\ UNCHANGED <<begun, returned, faults>> /\ refusal' = "none"
    BY <1>5, <1>6 DEF CreateStaging, SyncFile, GoOn, Proceed
  <2> QED BY <1>1, <2>1, BytesSet DEF Scalars
<1>7. CASE Return
  <2>1. AtReturn
    BY <1>7, StageAt DEF Return
  <2>2. todo[1][2] = Authority.serving.op
    BY <2>1 DEF AtReturn, Reporting
  <2> QED BY <1>1, <1>7, <2>2, Serving DEF Scalars, Return, GoOn, Proceed
<1>8. CASE StepFails
  BY <1>1, <1>8 DEF Scalars, StepFails, Interrupt
<1>9. CASE StagingFails \/ ProcessKilled
  <2>1. bytes' = bytes \/ \E left \in {"stranded", "torn"} : bytes' = [bytes EXCEPT ![begun] = left]
    BY <1>5, <1>9 DEF StagingFails, ProcessKilled, Unsynced
  <2>2. /\ UNCHANGED <<begun, returned>> /\ refusal' = "none" /\ faults' \in 0 .. MaxFaults
    BY <1>1, <1>9 DEF StagingFails, ProcessKilled, Interrupt
  <2> QED BY <1>1, <2>1, <2>2, BytesSet DEF Scalars
<1>10. CASE PowerLoss
  <2>1. PICK kept : bytes' = [w \in Writes |-> AfterLoss(w, kept)]
    BY <1>10 DEF PowerLoss
  <2>2. /\ bytes' \in [Writes -> {"none", "written", "stranded", "sealed", "torn", "lost"}]
        /\ \A w \in Writes : bytes[w] = "none" => bytes'[w] = "none"
    BY <2>1 DEF Scalars, AfterLoss, Cached
  <2> QED BY <1>1, <1>10, <2>2 DEF Scalars, PowerLoss, Interrupt
<1> QED BY <1>2, <1>3, <1>4, <1>6, <1>7, <1>8, <1>9, <1>10 DEF Next

(* The steps that touch neither the chain nor a file.                      *)
LEMMA StillStep ==
  ASSUME Base, UNCHANGED <<chain, files>>, begun' \in Nat, begun' >= begun
  PROVE  Chain' /\ Directory' /\ Authority' = Authority /\ Durable' = Durable
<1> USE DEF Base
<1>1. begun \in Nat
  BY Numbers DEF Scalars
<1>2. Chain' /\ Authority' = Authority /\ Durable' = Durable
  BY <1>1, ChainSame
<1>3. Directory'
  BY <1>1, <1>2, DirectorySame
<1> QED BY <1>2, <1>3

(* The steps that touch no file and make the chain durable.                *)
LEMMA LoadStep ==
  ASSUME Base, UNCHANGED <<markers, begun, files>>, durableMarkers' = Len(markers)
  PROVE  Chain' /\ Directory' /\ Authority' = Authority /\ Durable' = Authority /\ Synced'
<1> USE DEF Base
<1>1. begun \in Nat
  BY Numbers DEF Scalars
<1>2. Chain' /\ Authority' = Authority /\ Durable' = Authority /\ Synced'
  BY ChainSynced
<1>3. Directory'
  BY <1>1, <1>2, DirectorySame
<1> QED BY <1>2, <1>3

(* What a step that changes no file keeps.                                 *)
LEMMA FilesSame ==
  ASSUME UNCHANGED <<files, bytes>>
  PROVE  /\ Settled' <=> Settled
         /\ \A p : Candidate(p) => Candidate(p)'
         /\ \A p : NoCandidate(p) => NoCandidate(p)'
         /\ \A name : Gone(name)' <=> Gone(name)
         /\ \A w : Unused(w)' <=> Unused(w)
<1>1. UNCHANGED <<seen, sure, maybe, bytes>>
  BY DEF files
<1> QED BY <1>1 DEF Settled, Candidate, NoCandidate, Whole, Gone, Unused

LEMMA StartStep ==
  ASSUME Base, CommitWrite \/ StartupReconcile \/ ReadCommitted
  PROVE  Chain' /\ Directory' /\ Stage'
<1> USE DEF Base
<1>0. begun \in Nat /\ MaxWrites \in Nat
  BY Numbers DEF Scalars
<1>1. UNCHANGED <<chain, files>> /\ begun' \in Nat /\ begun' >= begun
  BY <1>0 DEF CommitWrite, StartupReconcile, ReadCommitted, Start
<1>2. Chain' /\ Directory' /\ Authority' = Authority
  BY <1>1, StillStep
<1>3. CASE CommitWrite
  <2>1. begun' = begun + 1 /\ begun < MaxWrites
    BY <1>3 DEF CommitWrite
  <2>2. Fresh'
    <3>1. begun' \in Writes
      BY <1>0, <1>1, <2>1 DEF Writes
    <3>2. markers' = markers /\ \A i \in 1 .. Len(markers) : markers[i].op \in Nat /\ markers[i].op <= begun
      <4>1. \A i \in 1 .. Len(markers) : markers[i] \in Bodies /\ markers[i].op <= begun
        BY ElementOfSeq DEF Chain
      <4> QED BY <1>1, <4>1, Numbers DEF Bodies, chain
    <3>3. Authority'.serving.op < begun' /\ Authority'.pending.op < begun'
      BY <1>0, <1>2, <2>1, Serving
    <3>4. Unused(begun)'
      <4> SUFFICES ASSUME NEW e \in maybe PROVE e[2] # begun' /\ \A name : e[1] # Rejected(name, begun')
        <5>1. bytes'[begun'] = "none"
          BY <1>0, <1>3, <2>1, <3>1 DEF Scalars, CommitWrite, Start
        <5> QED BY <1>1, <5>1 DEF Unused, files
      <4>1. Entry(e)
        BY DEF Directory
      <4>2. e[2] # begun'
        BY <1>0, <2>1, <4>1 DEF Entry
      <4>3. \A name : e[1] # Rejected(name, begun')
        BY <1>0, <2>1, <4>1, Names0 DEF Entry
      <4> QED BY <4>2, <4>3
    <3> QED BY <1>0, <2>1, <3>1, <3>2, <3>3, <3>4 DEF Fresh
  <2>3. PICK t : t = << <<"begin">> >>
    OBVIOUS
  <2>4. todo' = Then(<<"reconcile">>, t)
    BY <1>3, <2>3, Lists DEF CommitWrite, Start
  <2>5. IsList(t)
    BY <2>3, ListOf
  <2>6. Doing("reconcile")' /\ Tail(todo') = t
    <3>1. <<"reconcile">>[1] = "reconcile"
      OBVIOUS
    <3> QED BY <2>4, <2>5, <3>1, NextStep
  <2>7. AtReconcile'
    BY <2>2, <2>3, <2>6 DEF AtReconcile, Queue
  <2> QED BY <1>2, <2>6, <2>7 DEF Stage
<1>4. CASE StartupReconcile
  <2>1. PICK t : t = << >>
    OBVIOUS
  <2>2. todo' = Then(<<"reconcile">>, t) /\ IsList(t)
    BY <1>4, <2>1, ListOf DEF StartupReconcile, Start
  <2>3. Doing("reconcile")' /\ Tail(todo') = t
    <3>1. <<"reconcile">>[1] = "reconcile"
      OBVIOUS
    <3> QED BY <2>2, <3>1, NextStep
  <2>4. AtReconcile'
    BY <2>1, <2>3 DEF AtReconcile, Queue
  <2> QED BY <1>2, <2>3, <2>4 DEF Stage
<1>5. CASE ReadCommitted
  <2>1. Doing("read")'
    BY <1>5 DEF ReadCommitted, Start, Doing
  <2> QED BY <1>2, <2>1 DEF Stage
<1> QED BY <1>3, <1>4, <1>5

(* The end of a rejection, and what follows a relocation.                  *)
LEMMA EndingStage ==
  ASSUME Directory', Rejects(Authority.pending)', NEW T, Queue(T)', IsList(T), NEW p, NEW s,
         p = Authority'.pending, s = Authority'.serving, todo' = Ending(p, s, T)
  PROVE  Stage'
<1>1. CASE s = Nothing
  <2>1. todo' = Then(<<"debris">>, T)
    BY <1>1 DEF Ending, Debris
  <2>2. Tail(todo') = T /\ Doing("debris")'
    <3>1. <<"debris">>[1] = "debris"
      OBVIOUS
    <3> QED BY <2>1, <3>1, NextStep
  <2>3. Settled'
    <3> SUFFICES ASSUME NEW e \in seen', e[1][1] = "generation", e \notin sure' PROVE FALSE
      BY DEF Settled
    <3>1. e = <<Generation(p.gen), p.op>>
      BY DEF Directory
    <3>2. e[1] = Generation(p.gen)
      BY <3>1
    <3> QED BY <3>2 DEF Gone, Rejects
  <2>4. AtDebris'
    BY <1>1, <2>2, <2>3 DEF AtDebris, Resolved, Rejects
  <2> QED BY <2>2, <2>4 DEF Stage
<1>2. CASE s # Nothing
  <2>1. todo' = Then(<<"verify", s>>, Restoring(s, T)) /\ IsList(Restoring(s, T))
    BY <1>2, PlanLists DEF Ending, Verifying
  <2>2. todo'[1] = <<"verify", s>> /\ Tail(todo') = Restoring(s, T) /\ Doing("verify")'
    <3>1. <<"verify", s>>[1] = "verify"
      OBVIOUS
    <3> QED BY <2>1, <3>1, NextStep
  <2>3. AtVerify'
    <3>1. Synced'
      BY DEF Rejects
    <3> QED BY <1>2, <2>2, <3>1 DEF AtVerify
  <2> QED BY <2>2, <2>3 DEF Stage
<1> QED BY <1>1, <1>2

LEMMA MovingStage ==
  ASSUME NEW name, NEW K, NEW w, IsList(K), Moves(name, K)', w = Authority'.pending.op,
         todo' = Moving(name, w, K)
  PROVE  Stage'
<1>1. todo' = Then(<<"linkRejected", name, w>>, Copied(name, K)) /\ IsList(Copied(name, K))
  BY MovingLists DEF Moving
<1>2. Does(<<"linkRejected", name, w>>, Copied(name, K))' /\ Doing("linkRejected")'
  <2>1. <<"linkRejected", name, w>>[1] = "linkRejected"
    OBVIOUS
  <2> QED BY <1>1, <2>1, NextStep
<1>3. AtLinkRejected'
  BY <1>2 DEF AtLinkRejected
<1> QED BY <1>2, <1>3 DEF Stage

LEMMA PromotingStage ==
  ASSUME NEW p, NEW K, IsList(K), Synced', InDoubt(p)', Final(p, K)', Candidate(p)',
         todo' = Promoting(p, K)
  PROVE  Stage'
<1>1. todo' = Then(<<"promote", Staging(p.gen, p.op), Generation(p.gen), p.op>>, Syncing(p, K)) /\ IsList(Syncing(p, K))
  BY PlanLists DEF Promoting
<1>2. /\ Does(<<"promote", Staging(p.gen, p.op), Generation(p.gen), p.op>>, Syncing(p, K))'
      /\ Doing("promote")'
  <2>1. <<"promote", Staging(p.gen, p.op), Generation(p.gen), p.op>>[1] = "promote"
    OBVIOUS
  <2> QED BY <1>1, <2>1, NextStep
<1>3. AtPromote'
  BY <1>2 DEF AtPromote
<1> QED BY <1>2, <1>3 DEF Stage

LEMMA SyncingStage ==
  ASSUME NEW p, NEW K, IsList(K), Synced', InDoubt(p)', Final(p, K)', Candidate(p)',
         <<Generation(p.gen), p.op>> \in seen', todo' = Syncing(p, K)
  PROVE  Stage'
<1>1. todo' = Then(<<"syncRecord">>, Committing(p, K)) /\ IsList(Committing(p, K))
  BY PlanLists DEF Syncing
<1>2. Tail(todo') = Committing(p, K) /\ Doing("syncRecord")'
  <2>1. <<"syncRecord">>[1] = "syncRecord"
    OBVIOUS
  <2> QED BY <1>1, <2>1, NextStep
<1>3. AtSyncRecord'
  BY <1>2 DEF AtSyncRecord
<1> QED BY <1>2, <1>3 DEF Stage

LEMMA MovesList ==
  ASSUME NEW name, NEW K, Moves(name, K)
  PROVE  IsList(K)
<1>1. PICK p, s, T : /\ p = Authority.pending /\ s = Authority.serving /\ Queue(T)
                     /\ \/ K = Promoting(p, Debris(T)) \/ K = Ending(p, s, T)
                        \/ K = Moving(Generation(p.gen), p.op, Ending(p, s, T))
  BY DEF Moves
<1>2. IsList(T) /\ IsList(Debris(T))
  BY <1>1, WaitingLists
<1>3. IsList(Ending(p, s, T)) /\ IsList(Promoting(p, Debris(T)))
  BY <1>2, PlanLists
<1> QED BY <1>1, <1>3, MovingLists

(* Once a name is gone the operation goes on.                              *)
LEMMA ResumeStage ==
  ASSUME Directory', NEW name, NEW K, Moves(name, K)', Gone(name)', todo' = K
  PROVE  Stage'
<1>1. PICK p, s, T : /\ p = Authority'.pending /\ s = Authority'.serving /\ Queue(T)'
                     /\ \/ name = Generation(p.gen) /\ K = Promoting(p, Debris(T)) /\ Candidate(p)'
                        \/ name = Generation(p.gen) /\ K = Ending(p, s, T) /\ NoCandidate(p)'
                        \/ /\ name = Staging(p.gen, p.op) /\ K = Ending(p, s, T)
                           /\ NoCandidate(p)' /\ Gone(Generation(p.gen))'
                        \/ /\ name = Staging(p.gen, p.op) /\ NoCandidate(p)'
                           /\ K = Moving(Generation(p.gen), p.op, Ending(p, s, T))
  BY DEF Moves
<1>2. IsList(T) /\ IsList(Debris(T)) /\ IsList(Ending(p, s, T))
  BY <1>1, ListOf, PlanLists DEF Queue
<1>3. Synced' /\ InDoubt(p)'
  BY <1>1 DEF Moves
<1>4. CASE K = Promoting(p, Debris(T)) /\ Candidate(p)'
  <2>1. Final(p, Debris(T))'
    BY <1>1 DEF Final
  <2> QED BY <1>2, <1>3, <1>4, <2>1, PromotingStage
<1>5. CASE K = Ending(p, s, T) /\ NoCandidate(p)' /\ Gone(Generation(p.gen))'
  <2>1. Rejects(p)'
    BY <1>3, <1>5 DEF Rejects
  <2>2. Rejects(Authority.pending)'
    BY <1>1, <2>1
  <2> QED BY <1>1, <1>2, <1>5, <2>2, EndingStage
<1>6. CASE NoCandidate(p)' /\ K = Moving(Generation(p.gen), p.op, Ending(p, s, T))
  <2>1. Moves(Generation(p.gen), Ending(p, s, T))'
    BY <1>1, <1>3, <1>6 DEF Moves
  <2>2. p.op = Authority'.pending.op
    BY <1>1
  <2> QED BY <1>2, <1>6, <2>1, <2>2, MovingStage
<1> QED BY <1>1, <1>4, <1>5, <1>6

(* A reconciliation finds the candidate or not, as the names say.          *)
LEMMA CandidateFound ==
  ASSUME IInv, Doing("reconcile"), Authority.state = "pending", NEW p, p = Authority.pending
  PROVE  CandidateValid(p) <=> Candidate(p)
<1>1. p.op \in Writes
  BY LegalViews, LegalParts DEF IInv
<1>2. bytes[p.op] # "written"
  BY <1>1 DEF IInv, Sealed, Doing
<1> QED BY <1>2 DEF CandidateValid, Candidate, Readable, Whole

LEMMA ReconcileStep ==
  ASSUME IInv, Reconcile
  PROVE  Chain' /\ Directory' /\ Stage'
<1> USE DEF IInv
<1>1. UNCHANGED <<markers, begun, files, bytes>> /\ durableMarkers' = Len(markers) /\ Doing("reconcile")
  BY DEF Reconcile, GoOn, LoadSyncs
<1>2. Chain' /\ Directory' /\ Authority' = Authority /\ Synced'
  BY <1>1, LoadStep DEF Base
<1>3. PICK T, p, s : T = Tail(todo) /\ p = Authority.pending /\ s = Authority.serving
  OBVIOUS
<1>4. Queue(T) /\ IsList(T) /\ IsList(Debris(T))
  BY <1>1, <1>3, StageAt, WaitingLists DEF AtReconcile
<1>5. Queue(T)'
  <2>1. Fresh => Fresh'
    BY <1>1, <1>2, FreshSame DEF files
  <2> QED BY <1>1, <1>4, <2>1, QueueKept
<1>6. Authority.state # "illegal"
  BY LegalViews, LegalParts
<1>7. todo' = (IF Authority.state = "pending" THEN ResolvePending(p, s) ELSE << >>) \o << <<"debris">> >> \o T
  BY <1>3, <1>6 DEF Reconcile, GoOn
<1>8. CASE Authority.state # "pending"
  <2>1. todo' = Then(<<"debris">>, T)
    <3>1. PICK X : T \in Seq(X)
      BY <1>4 DEF IsList
    <3> QED BY <1>7, <1>8, <3>1 DEF Then
  <2>2. Doing("debris")' /\ Tail(todo') = T
    <3>1. <<"debris">>[1] = "debris"
      OBVIOUS
    <3> QED BY <1>4, <2>1, <3>1, NextStep
  <2>3. Settled'
    <3>1. Settled
      BY <1>8 DEF Directory, Settled
    <3> QED BY <1>1, <3>1, FilesSame
  <2>4. AtDebris'
    BY <1>2, <1>5, <1>8, <2>2, <2>3 DEF AtDebris, Resolved
  <2> QED BY <1>2, <2>2, <2>4 DEF Stage
<1>9. CASE Authority.state = "pending"
  <2>1. InDoubt(p)' /\ p = Authority'.pending /\ s = Authority'.serving
    BY <1>2, <1>3, <1>9 DEF InDoubt
  <2>2. \A name : Present(name) <=> ~ Gone(name)
    BY NameOf
  <2>3. (CandidateValid(p) => Candidate(p)') /\ (~ CandidateValid(p) => NoCandidate(p)')
    <3>1. (CandidateValid(p) => Candidate(p)) /\ (~ CandidateValid(p) => NoCandidate(p))
      BY <1>1, <1>3, <1>9, CandidateFound DEF NoCandidate
    <3> QED BY <1>1, <3>1, FilesSame
  <2>4. CASE CandidateValid(p)
    <3> DEFINE K == Debris(T)
    <3>1. todo' = (AdoptPlan(p) \o << <<"debris">> >>) \o T
      BY <1>7, <1>9, <2>4 DEF ResolvePending
    <3>2. todo' = IF <<Generation(p.gen), p.op>> \in seen THEN Syncing(p, K)
                  ELSE IF Present(Generation(p.gen)) THEN Moving(Generation(p.gen), p.op, Promoting(p, K))
                  ELSE Promoting(p, K)
      BY <1>4, <3>1, AdoptList
    <3>3. Final(p, K)'
      BY <1>5 DEF Final
    <3>4. CASE <<Generation(p.gen), p.op>> \in seen
      <4>1. <<Generation(p.gen), p.op>> \in seen' /\ todo' = Syncing(p, K)
        BY <1>1, <3>2, <3>4 DEF files
      <4> HIDE DEF K
      <4> QED BY <1>2, <1>4, <2>1, <2>3, <2>4, <3>3, <4>1, SyncingStage DEF K
    <3>5. CASE <<Generation(p.gen), p.op>> \notin seen /\ Present(Generation(p.gen))
      <4>1. todo' = Moving(Generation(p.gen), p.op, Promoting(p, K))
        BY <3>2, <3>5
      <4>2. Moves(Generation(p.gen), Promoting(p, K))'
        <5>1. <<Generation(p.gen), p.op>> \notin seen'
          BY <1>1, <3>5 DEF files
        <5> QED BY <1>2, <1>5, <2>1, <2>3, <2>4, <5>1 DEF Moves
      <4>3. IsList(Promoting(p, K))
        BY <1>4, PlanLists
      <4> HIDE DEF K
      <4> QED BY <1>2, <2>1, <4>1, <4>2, <4>3, MovingStage
    <3>6. CASE <<Generation(p.gen), p.op>> \notin seen /\ ~ Present(Generation(p.gen))
      <4>1. todo' = Promoting(p, K)
        BY <3>2, <3>6
      <4> HIDE DEF K
      <4> QED BY <1>2, <1>4, <2>1, <2>3, <2>4, <3>3, <4>1, PromotingStage DEF K
    <3> QED BY <3>4, <3>5, <3>6
  <2>5. CASE ~ CandidateValid(p)
    <3>1. PICK last, second, g, st :
             /\ last = Ending(p, s, T) /\ g = Generation(p.gen) /\ st = Staging(p.gen, p.op)
             /\ second = IF Present(g) THEN Moving(g, p.op, last) ELSE last
      OBVIOUS
    <3>2. todo' = (RejectPlan(p, s) \o << <<"debris">> >>) \o T
      BY <1>7, <1>9, <2>5 DEF ResolvePending
    <3>3. todo' = IF Present(st) THEN Moving(st, p.op, second) ELSE second
      BY <1>4, <3>1, <3>2, RejectList
    <3>4. IsList(last) /\ IsList(second)
      BY <1>4, <3>1, PlanLists, MovingLists
    <3>5. ~ Present(g) => Gone(g)'
      BY <1>1, <2>2, FilesSame
    <3>6. CASE Present(st)
      <4>1. Moves(st, second)'
        BY <1>2, <1>5, <2>1, <2>3, <2>5, <3>1, <3>5 DEF Moves
      <4> QED BY <1>2, <2>1, <3>3, <3>4, <3>6, <4>1, MovingStage
    <3>7. CASE ~ Present(st) /\ Present(g)
      <4>1. Moves(g, last)'
        BY <1>2, <1>5, <2>1, <2>3, <2>5, <3>1 DEF Moves
      <4>2. todo' = Moving(g, p.op, last)
        BY <3>1, <3>3, <3>7
      <4> QED BY <1>2, <2>1, <3>4, <4>1, <4>2, MovingStage
    <3>8. CASE ~ Present(st) /\ ~ Present(g)
      <4>1. Rejects(p)'
        BY <1>2, <2>1, <2>3, <2>5, <3>1, <3>5, <3>8 DEF Rejects
      <4>2. Rejects(Authority.pending)'
        BY <2>1, <4>1
      <4>3. todo' = Ending(p, s, T)
        BY <3>1, <3>3, <3>8
      <4> QED BY <1>2, <1>4, <1>5, <2>1, <4>2, <4>3, EndingStage
    <3> QED BY <3>6, <3>7, <3>8
  <2> QED BY <1>2, <2>4, <2>5
<1> QED BY <1>2, <1>8, <1>9

LEMMA BeginStep ==
  ASSUME Base, BeginWrite
  PROVE  Chain' /\ Directory' /\ Stage'
<1> USE DEF Base
<1>1. UNCHANGED <<markers, begun, files, bytes>> /\ durableMarkers' = Len(markers) /\ Doing("begin")
  BY DEF BeginWrite, Load, GoOn, LoadSyncs
<1>2. Chain' /\ Directory' /\ Authority' = Authority /\ Synced'
  BY <1>1, LoadStep
<1>3. AtBegin
  BY <1>1, StageAt
<1>4. Authority.state # "illegal"
  BY LegalViews, LegalParts
<1>5. PICK s, W, h : s = Authority.serving /\ W = WritePlan(s, begun) /\ h = <<"verify", s>>
  OBVIOUS
<1>6. todo' = << h >> \o W
  BY <1>4, <1>5 DEF BeginWrite, Load, GoOn
<1>7. IsList(W)
  <2>1. PICK p, w : p = [gen |-> s.gen + 1, op |-> w] /\ w = begun
    OBVIOUS
  <2>2. W = Then(<<"linkMarker", Pending(s.gen, p.gen, p.op)>>, Announced(p, Reporting(w)))
    BY <1>5, <2>1, WriteList
  <2>3. IsList(Announced(p, Reporting(w)))
    BY ListOf, PlanLists DEF Reporting
  <2> QED BY <2>2, <2>3, ThenList
<1>8. todo'[1] = h /\ Tail(todo') = W /\ Doing("verify")'
  <2>1. todo' = Then(h, W) /\ h[1] = "verify"
    BY <1>5, <1>6 DEF Then
  <2> QED BY <1>7, <2>1, NextStep
<1>9. Fresh' /\ Resolved'
  <2>1. Fresh'
    BY <1>1, <1>2, <1>3, FreshSame DEF AtBegin, files
  <2>2. Settled' /\ \A p : NoCandidate(p) => NoCandidate(p)'
    BY <1>1, <1>3, FilesSame DEF AtBegin, Resolved
  <2> QED BY <1>1, <1>2, <1>3, <2>1, <2>2 DEF AtBegin, Resolved
<1>10. AtVerify'
  BY <1>1, <1>2, <1>5, <1>8, <1>9 DEF AtVerify
<1> QED BY <1>2, <1>8, <1>10 DEF Stage

LEMMA ReadStep ==
  ASSUME Base, Read
  PROVE  Chain' /\ Directory' /\ Stage'
<1> USE DEF Base
<1>1. UNCHANGED <<markers, begun, files, bytes>> /\ durableMarkers' = Len(markers) /\ Doing("read")
  BY DEF Read, Load, GoOn, LoadSyncs
<1>2. Chain' /\ Directory' /\ Authority' = Authority /\ Synced'
  BY <1>1, LoadStep
<1>3. Authority.state # "illegal"
  BY LegalViews, LegalParts
<1>4. PICK s, W, h : s = Authority.serving /\ W = Reporting(s.op) /\ h = <<"verify", s>>
  OBVIOUS
<1>5. todo' = << h >> \o W /\ IsList(W)
  BY <1>3, <1>4, ListOf DEF Read, Load, GoOn, Reporting
<1>6. todo'[1] = h /\ Tail(todo') = W /\ Doing("verify")'
  <2>1. todo' = Then(h, W) /\ h[1] = "verify"
    BY <1>4, <1>5 DEF Then
  <2> QED BY <1>5, <2>1, NextStep
<1>7. AtVerify'
  BY <1>2, <1>4, <1>6 DEF AtVerify
<1> QED BY <1>2, <1>6, <1>7 DEF Stage

LEMMA VerifyStep ==
  ASSUME Base, Verify
  PROVE  Chain' /\ Directory' /\ Stage'
<1> USE DEF Base
<1>1. UNCHANGED <<chain, begun, files, bytes>> /\ Doing("verify") /\ todo' \in {Tail(todo), << >>}
  BY DEF Verify, GoOn
<1>2. Chain' /\ Directory' /\ Authority' = Authority
  <2>1. begun \in Nat
    BY Numbers DEF Scalars
  <2> QED BY <1>1, <2>1, StillStep
<1>3. CASE todo' = << >>
  BY <1>2, <1>3 DEF Stage
<1>4. CASE todo' = Tail(todo)
  <2>1. AtVerify /\ Synced'
    BY <1>1, StageAt DEF AtVerify, Synced, chain
  <2>2. PICK s : s = Authority.serving
    OBVIOUS
  <2>3. CASE Tail(todo) = Reporting(s.op)
    <3>1. todo' = Reporting(Authority'.serving.op)
      BY <1>2, <1>4, <2>2, <2>3
    <3>2. Doing("return")'
      BY <3>1 DEF Doing, Reporting
    <3> QED BY <1>2, <2>1, <3>1, <3>2 DEF Stage, AtReturn
  <2>4. CASE /\ Resolved /\ Fresh /\ Tail(todo) = WritePlan(s, begun)
    <3>1. PICK p, w : p = [gen |-> s.gen + 1, op |-> w] /\ w = begun
      OBVIOUS
    <3>2. PICK h, W : h = <<"linkMarker", Pending(s.gen, p.gen, p.op)>> /\ W = Announced(p, Reporting(w))
      OBVIOUS
    <3>3. todo' = Then(h, W) /\ h[1] = "linkMarker"
      BY <1>4, <2>4, <3>1, <3>2, WriteList
    <3>4. IsList(W)
      BY <3>2, ListOf, PlanLists DEF Reporting
    <3>5. Does(h, W)' /\ Doing("linkMarker")'
      BY <3>3, <3>4, NextStep
    <3>6. Fresh' /\ Resolved'
      <4>1. Fresh'
        BY <1>1, <1>2, <2>4, FreshSame DEF files, chain
      <4>2. Settled' /\ \A q : NoCandidate(q) => NoCandidate(q)'
        BY <1>1, <2>4, FilesSame DEF Resolved
      <4> QED BY <1>2, <2>4, <4>1, <4>2 DEF Resolved
    <3>7. p.op = begun'
      BY <1>1, <3>1
    <3>8. AtLinkMarker'
      BY <1>1, <1>2, <2>1, <2>2, <2>4, <3>1, <3>2, <3>5, <3>6, <3>7 DEF AtLinkMarker
    <3> QED BY <1>2, <3>5, <3>8 DEF Stage
  <2>5. CASE \E T : /\ Queue(T) /\ Rejects(Authority.pending) /\ s # Nothing
                    /\ Tail(todo) = Restoring(s, T)
    <3>1. PICK T : Queue(T) /\ Rejects(Authority.pending) /\ s # Nothing /\ Tail(todo) = Restoring(s, T)
      BY <2>5
    <3>2. PICK h : h = <<"linkMarker", Active(s)>>
      OBVIOUS
    <3>3. todo' = Then(h, Restored(T)) /\ h[1] = "linkMarker"
      BY <1>4, <3>1, <3>2 DEF Restoring
    <3>4. IsList(Restored(T))
      BY <3>1, WaitingLists, PlanLists
    <3>5. Does(h, Restored(T))' /\ Doing("linkMarker")'
      BY <3>3, <3>4, NextStep
    <3>6. Queue(T)'
      <4>1. Fresh => Fresh'
        BY <1>1, <1>2, FreshSame DEF files, chain
      <4> QED BY <1>1, <3>1, <4>1, QueueKept
    <3>7. Rejects(Authority.pending)'
      <4>1. PICK p : p = Authority.pending
        OBVIOUS
      <4>2. Gone(Generation(p.gen))' /\ NoCandidate(p)'
        BY <1>1, <3>1, <4>1, FilesSame DEF Rejects
      <4>3. Rejects(p)'
        BY <1>2, <2>1, <3>1, <4>1, <4>2 DEF Rejects, InDoubt
      <4> QED BY <1>2, <4>1, <4>3
    <3>8. AtLinkMarker'
      BY <1>2, <2>2, <3>1, <3>2, <3>5, <3>6, <3>7 DEF AtLinkMarker
    <3> QED BY <1>2, <3>5, <3>8 DEF Stage
  <2> QED BY <2>1, <2>2, <2>3, <2>4, <2>5 DEF AtVerify
<1> QED BY <1>1, <1>3, <1>4

(* Recording a state whose serving generation is on disk.                  *)
LEMMA GrowStep ==
  ASSUME Base, Synced, Settled, UNCHANGED <<durableMarkers, begun, files, bytes>>,
         NEW b \in Bodies, b.op <= begun, markers' = Append(markers, b),
         NEW a, a = Transition(Authority, b), Legal(a), OnDisk(a.serving)
  PROVE  Chain' /\ Directory' /\ Authority' = a /\ Durable' = Authority /\ Settled'
<1> USE DEF Base
<1>1. Chain' /\ Authority' = a /\ Durable' = Authority
  BY ChainGrows
<1>2. UNCHANGED <<seen, sure, maybe>>
  BY DEF files
<1>3. Settled'
  BY FilesSame
<1>4. OnDisk(Authority.serving)' /\ OnDisk(Durable.serving)'
  BY <1>1, <1>2 DEF Directory, OnDisk
<1>5. ASSUME NEW e, Entry(e) PROVE Entry(e)'
  BY <1>5 DEF Entry
<1>6. \A e \in maybe' : Entry(e)'
  BY <1>2, <1>5 DEF Directory
<1>7. OneContentPerName(seen)'
  BY <1>2 DEF Directory, OneContentPerName
<1>8. sure' \subseteq seen' /\ seen' \subseteq maybe'
  BY <1>2 DEF Directory
<1>9. \A e \in seen' : e[1][1] = "generation" => e \in sure'
  BY <1>3 DEF Settled
<1> QED BY <1>1, <1>3, <1>4, <1>6, <1>7, <1>8, <1>9 DEF Directory

LEMMA LegalSteps ==
  ASSUME Chain, Scalars
  PROVE  /\ \A w : /\ w \in Writes /\ w = begun /\ Authority.serving.op < w
                   /\ Authority.state = "pending" => Authority.serving = Nothing
                   => LET p == [gen |-> Authority.serving.gen + 1, op |-> w]
                          b == Pending(Authority.serving.gen, p.gen, w)
                          a == [state |-> "pending", serving |-> Authority.serving, pending |-> p]
                      IN b \in Bodies /\ Transition(Authority, b) = a /\ Legal(a)
         /\ \A p : /\ Authority.state = "pending"
                   /\ p = Authority.pending \/ (p = Authority.serving /\ p # Nothing)
                   => LET a == [state |-> "active", serving |-> p, pending |-> Nothing]
                      IN /\ Active(p) \in Bodies /\ Transition(Authority, Active(p)) = a /\ Legal(a)
                         /\ Active(p).op <= begun
<1>0. begun \in Nat /\ MaxWrites \in Nat
  BY Numbers DEF Scalars
<1>1. Legal(Authority)
  BY LegalViews
<1>2. ASSUME NEW w, w \in Writes, w = begun, Authority.serving.op < w,
             Authority.state = "pending" => Authority.serving = Nothing
      PROVE  LET p == [gen |-> Authority.serving.gen + 1, op |-> w]
                 b == Pending(Authority.serving.gen, p.gen, w)
                 a == [state |-> "pending", serving |-> Authority.serving, pending |-> p]
             IN b \in Bodies /\ Transition(Authority, b) = a /\ Legal(a)
  <2>1. PICK s, p, b, a : /\ s = Authority.serving /\ p = [gen |-> s.gen + 1, op |-> w]
                          /\ b = Pending(s.gen, p.gen, w)
                          /\ a = [state |-> "pending", serving |-> s, pending |-> p]
    OBVIOUS
  <2>2. /\ s.gen \in Nat /\ s.op \in Nat /\ s.gen <= s.op /\ s.op \in 0 .. begun
        /\ Authority.state # "illegal"
    BY <1>1, <2>1, LegalParts
  <2>3. /\ b = [kind |-> "pending", old |-> s.gen, gen |-> p.gen, op |-> w]
        /\ p.gen = s.gen + 1 /\ p.op = w
    BY <2>1 DEF Pending
  <2>4. s.gen \in 0 .. MaxWrites /\ p.gen \in Writes
    BY <1>0, <1>2, <2>1, <2>2, <2>3 DEF Writes
  <2>5. b \in Bodies
    BY <1>2, <2>3, <2>4 DEF Bodies
  <2>6. Transition(Authority, b) = a
    BY <1>2, <2>1, <2>2, <2>3 DEF Transition, AfterPending
  <2>7. Legal(a)
    <3>1. /\ s = Nothing \/ (s.gen \in Writes /\ s.op \in Writes /\ s.gen <= s.op)
          /\ s.op <= begun /\ s = [gen |-> s.gen, op |-> s.op]
      BY <1>1, <2>1 DEF Legal
    <3>2. a.serving = s /\ a.pending = p /\ a.state = "pending"
      BY <2>1
    <3>3. a.pending = [gen |-> a.serving.gen + 1, op |-> a.pending.op]
      BY <2>1, <2>3, <3>2
    <3>4. a.pending.op \in Writes /\ a.pending.op > a.serving.op /\ a.pending.op <= begun
      BY <1>0, <1>2, <2>1, <2>2, <2>3, <3>2
    <3> QED BY <3>1, <3>2, <3>3, <3>4 DEF Legal
  <2> QED BY <2>1, <2>5, <2>6, <2>7
<1>3. ASSUME NEW p, Authority.state = "pending", p = Authority.pending \/ (p = Authority.serving /\ p # Nothing)
      PROVE  LET a == [state |-> "active", serving |-> p, pending |-> Nothing]
             IN /\ Active(p) \in Bodies /\ Transition(Authority, Active(p)) = a /\ Legal(a)
                /\ Active(p).op <= begun
  <2>1. PICK s, q, b, a : /\ s = Authority.serving /\ q = Authority.pending /\ b = Active(p)
                          /\ a = [state |-> "active", serving |-> p, pending |-> Nothing]
    OBVIOUS
  <2>2. p = [gen |-> p.gen, op |-> p.op] /\ p.gen \in Writes /\ p.op \in Writes /\ p.gen <= p.op /\ p.op <= begun
    <3>1. CASE p = Authority.pending
      <4>1. p.op \in 0 .. begun
        BY <1>1, <1>3, <3>1, LegalParts
      <4> QED BY <1>0, <1>1, <1>3, <3>1, <4>1, LegalParts
    <3>2. CASE p = Authority.serving /\ p # Nothing
      BY <1>1, <3>2 DEF Legal
    <3> QED BY <1>3, <3>1, <3>2
  <2>3. b = [kind |-> "active", old |-> 0, gen |-> p.gen, op |-> p.op]
    BY <2>1 DEF Active
  <2>4. b \in Bodies
    BY <1>0, <2>2, <2>3 DEF Bodies
  <2>5. Transition(Authority, b) = a
    <3>1. b.kind = "active" /\ b.gen = p.gen /\ b.op = p.op
      BY <2>3
    <3>2. b.gen = q.gen \/ [gen |-> b.gen, op |-> b.op] = s
      BY <1>3, <2>1, <2>2, <3>1
    <3> QED BY <1>3, <2>1, <2>2, <3>1, <3>2 DEF Transition, AfterActive
  <2>6. Legal(a)
    <3>1. p # Nothing
      BY <2>2, Numbers
    <3>2. a.state = "active" /\ a.serving = p /\ a.pending = Nothing
      BY <2>1
    <3>3. a.serving.gen \in Writes /\ a.serving.op \in Writes /\ a.serving.gen <= a.serving.op /\ a.serving.op <= begun
      BY <2>2, <3>2
    <3>4. a.serving = [gen |-> a.serving.gen, op |-> a.serving.op]
      BY <2>2, <3>2
    <3> QED BY <3>1, <3>2, <3>3, <3>4 DEF Legal
  <2>7. b.op <= begun
    BY <2>2, <2>3
  <2> QED BY <2>1, <2>4, <2>5, <2>6, <2>7
<1> QED BY <1>2, <1>3

LEMMA LinkMarkerStep ==
  ASSUME Base, LinkMarker
  PROVE  Chain' /\ Directory' /\ Stage'
<1> USE DEF Base
<1>1. /\ UNCHANGED <<durableMarkers, begun, files, bytes>> /\ Doing("linkMarker")
      /\ markers' = Append(markers, todo[1][2]) /\ todo' = Tail(todo)
  BY DEF LinkMarker, Proceed, GoOn
<1>2. AtLinkMarker
  BY <1>1, StageAt
<1>3. Legal(Authority) /\ begun \in Nat
  BY LegalViews, Numbers DEF Scalars
<1>4. ASSUME NEW b \in Bodies, markers' = Append(markers, b), Fresh,
             b.op < begun, Authority'.serving.op < begun, Authority'.pending.op < begun
      PROVE  Fresh'
  <2>1. /\ Len(markers) \in Nat /\ Len(markers') = Len(markers) + 1 /\ markers'[Len(markers) + 1] = b
        /\ \A i \in 1 .. Len(markers) : markers'[i] = markers[i]
    BY <1>4, AppendProperties DEF Chain
  <2>2. \A i \in 1 .. Len(markers') : (i \in 1 .. Len(markers) /\ markers'[i] = markers[i]) \/ markers'[i].op < begun
    BY <1>4, <2>1
  <2>3. \A e \in maybe' : e \in maybe
    BY <1>1 DEF files
  <2> QED BY <1>1, <1>4, <2>2, <2>3, FreshKept
<1>5. CASE LET s == Authority.serving
               p == [gen |-> s.gen + 1, op |-> begun]
           IN /\ Synced /\ Resolved /\ Fresh
              /\ Does(<<"linkMarker", Pending(s.gen, p.gen, p.op)>>, Announced(p, Reporting(begun)))
  <2>1. PICK s, p, w : s = Authority.serving /\ p = [gen |-> s.gen + 1, op |-> w] /\ w = begun
    OBVIOUS
  <2>2. PICK b, a : b = Pending(s.gen, p.gen, w) /\ a = [state |-> "pending", serving |-> s, pending |-> p]
    OBVIOUS
  <2>3. /\ Synced /\ Resolved /\ Fresh
        /\ todo[1] = <<"linkMarker", b>> /\ Tail(todo) = Announced(p, Reporting(w))
    BY <1>5, <2>1, <2>2 DEF Does
  <2>4. b \in Bodies /\ Transition(Authority, b) = a /\ Legal(a)
    BY <2>1, <2>2, <2>3, LegalSteps DEF Fresh, Resolved
  <2>5. markers' = Append(markers, b) /\ b.op = begun /\ OnDisk(a.serving) /\ Settled
    BY <1>1, <2>1, <2>2, <2>3 DEF Pending, Resolved, Directory
  <2>6. Chain' /\ Directory' /\ Authority' = a
    BY <1>1, <1>3, <2>3, <2>4, <2>5, GrowStep
  <2>7. todo' = Then(<<"syncMarkers">>, Creating(p, Reporting(w))) /\ IsList(Creating(p, Reporting(w)))
    BY <1>1, <2>3, ListOf, PlanLists DEF Announced, Reporting
  <2>8. Tail(todo') = Creating(p, Reporting(w)) /\ Doing("syncMarkers")'
    <3>1. <<"syncMarkers">>[1] = "syncMarkers"
      OBVIOUS
    <3> QED BY <2>7, <3>1, NextStep
  <2>9. InDoubt(p)' /\ p.op = begun' /\ w = begun'
    BY <1>1, <1>3, <2>1, <2>2, <2>3, <2>6 DEF InDoubt, Fresh, Writes
  <2>10. Unused(begun)'
    BY <1>1, <2>3 DEF Fresh, Unused, files
  <2>11. AtSyncMarkers'
    BY <2>8, <2>9, <2>10 DEF AtSyncMarkers
  <2> QED BY <2>6, <2>8, <2>11 DEF Stage
<1>6. CASE \E p, K : /\ Synced /\ InDoubt(p) /\ Final(p, K) /\ Candidate(p)
                     /\ <<Generation(p.gen), p.op>> \in sure /\ Settled
                     /\ Does(<<"linkMarker", Active(p)>>, Recording(p, K))
  <2>1. PICK p, K : /\ Synced /\ InDoubt(p) /\ Final(p, K) /\ Candidate(p)
                    /\ <<Generation(p.gen), p.op>> \in sure /\ Settled
                    /\ Does(<<"linkMarker", Active(p)>>, Recording(p, K))
    BY <1>6
  <2>2. PICK b, a : b = Active(p) /\ a = [state |-> "active", serving |-> p, pending |-> Nothing]
    OBVIOUS
  <2>3. b \in Bodies /\ Transition(Authority, b) = a /\ Legal(a) /\ b.op <= begun
    BY <2>1, <2>2, LegalSteps DEF InDoubt
  <2>4. markers' = Append(markers, b) /\ OnDisk(a.serving)
    BY <1>1, <2>1, <2>2 DEF Does, OnDisk
  <2>5. Chain' /\ Directory' /\ Authority' = a /\ Settled'
    BY <1>1, <1>3, <2>1, <2>2, <2>3, <2>4, GrowStep
  <2>6. todo' = Then(<<"syncMarkers">>, Dropping(p, K)) /\ IsList(Dropping(p, K))
    BY <1>1, <2>1, WaitingLists, PlanLists DEF Recording, Does
  <2>7. Tail(todo') = Dropping(p, K) /\ Doing("syncMarkers")'
    <3>1. <<"syncMarkers">>[1] = "syncMarkers"
      OBVIOUS
    <3> QED BY <2>6, <3>1, NextStep
  <2>8. Final(p, K)'
    <3>1. Fresh => Fresh'
      <4> SUFFICES ASSUME Fresh PROVE Fresh'
        OBVIOUS
      <4>1. p.op < begun /\ b.op = p.op /\ begun > 0
        BY <2>1, <2>2, Numbers DEF Fresh, InDoubt, Active, Writes
      <4>2. Authority'.serving.op < begun /\ Authority'.pending.op < begun
        BY <2>2, <2>5, <4>1, Numbers
      <4> QED BY <1>4, <2>3, <2>4, <4>1, <4>2
    <3> QED BY <1>1, <2>1, <3>1, QueueKept
  <2>9. CommittedNow(p)'
    BY <1>1, <2>1, <2>2, <2>5 DEF CommittedNow, files
  <2>10. AtSyncMarkers'
    BY <2>7, <2>8, <2>9 DEF AtSyncMarkers
  <2> QED BY <2>5, <2>7, <2>10 DEF Stage
<1>7. CASE \E T : /\ Queue(T) /\ Rejects(Authority.pending) /\ Authority.serving # Nothing
                  /\ Does(<<"linkMarker", Active(Authority.serving)>>, Restored(T))
  <2>1. PICK T, s, p : /\ Queue(T) /\ Rejects(p) /\ s # Nothing /\ s = Authority.serving /\ p = Authority.pending
                       /\ Does(<<"linkMarker", Active(s)>>, Restored(T))
    BY <1>7
  <2>2. PICK b, a : b = Active(s) /\ a = [state |-> "active", serving |-> s, pending |-> Nothing]
    OBVIOUS
  <2>3. Authority.state = "pending" /\ Synced /\ Gone(Generation(p.gen))
    BY <2>1 DEF Rejects, InDoubt
  <2>4. b \in Bodies /\ Transition(Authority, b) = a /\ Legal(a) /\ b.op <= begun
    BY <2>1, <2>2, <2>3, LegalSteps
  <2>5. markers' = Append(markers, b) /\ OnDisk(a.serving)
    BY <1>1, <2>1, <2>2 DEF Does, Directory
  <2>6. Settled
    <3> SUFFICES ASSUME NEW e \in seen, e[1][1] = "generation", e \notin sure PROVE FALSE
      BY DEF Settled
    <3>1. e = <<Generation(p.gen), p.op>>
      BY <2>1 DEF Directory
    <3>2. e[1] = Generation(p.gen)
      BY <3>1
    <3> QED BY <2>3, <3>2 DEF Gone
  <2>7. Chain' /\ Directory' /\ Authority' = a /\ Settled'
    BY <1>1, <1>3, <2>3, <2>2, <2>4, <2>5, <2>6, GrowStep
  <2>8. todo' = Then(<<"syncMarkers">>, Debris(T)) /\ IsList(Debris(T))
    BY <1>1, <2>1, WaitingLists DEF Restored, Does
  <2>9. Tail(todo') = Debris(T) /\ Doing("syncMarkers")'
    <3>1. <<"syncMarkers">>[1] = "syncMarkers"
      OBVIOUS
    <3> QED BY <2>8, <3>1, NextStep
  <2>10. Queue(T)'
    <3>1. Fresh => Fresh'
      <4> SUFFICES ASSUME Fresh PROVE Fresh'
        OBVIOUS
      <4>1. s.op < begun /\ b.op = s.op /\ begun > 0
        BY <2>1, <2>2, Numbers DEF Fresh, Active, Writes
      <4>2. Authority'.serving.op < begun /\ Authority'.pending.op < begun
        BY <2>2, <2>7, <4>1, Numbers
      <4> QED BY <1>4, <2>4, <2>5, <4>1, <4>2
    <3> QED BY <1>1, <2>1, <3>1, QueueKept
  <2>11. AtSyncMarkers'
    BY <2>2, <2>7, <2>9, <2>10 DEF AtSyncMarkers
  <2> QED BY <2>7, <2>9, <2>11 DEF Stage
<1> QED BY <1>2, <1>5, <1>6, <1>7 DEF AtLinkMarker

LEMMA AfterDropStage ==
  ASSUME Synced', NEW p, NEW K, CommittedNow(p)', Final(p, K)', todo' = K
  PROVE  Stage'
<1>1. CASE K = Reporting(p.op)
  <2>1. AtReturn'
    BY <1>1 DEF AtReturn, CommittedNow
  <2>2. Doing("return")'
    BY <1>1 DEF Doing, Reporting
  <2> QED BY <2>1, <2>2 DEF Stage
<1>2. CASE \E T : Queue(T)' /\ K = Debris(T)
  <2>1. PICK T : Queue(T)' /\ K = Debris(T)
    BY <1>2
  <2>2. IsList(T)
    BY <2>1, ListOf DEF Queue
  <2>3. Tail(todo') = T /\ Doing("debris")'
    <3>1. <<"debris">>[1] = "debris"
      OBVIOUS
    <3> QED BY <2>1, <2>2, <3>1, NextStep DEF Debris
  <2>4. AtDebris'
    BY <2>1, <2>3 DEF AtDebris, Resolved, CommittedNow
  <2> QED BY <2>3, <2>4 DEF Stage
<1> QED BY <1>1, <1>2 DEF Final

LEMMA SyncMarkersStep ==
  ASSUME Base, SyncMarkers
  PROVE  Chain' /\ Directory' /\ Stage'
<1> USE DEF Base
<1>1. UNCHANGED <<markers, begun, files, bytes>> /\ durableMarkers' = Len(markers) /\ Doing("syncMarkers")
      /\ todo' = Tail(todo)
  BY DEF SyncMarkers, Proceed, GoOn
<1>2. Chain' /\ Directory' /\ Authority' = Authority /\ Synced'
  BY <1>1, LoadStep
<1>3. AtSyncMarkers
  BY <1>1, StageAt
<1>4. Fresh => Fresh'
  BY <1>1, <1>2, FreshSame DEF files
<1>5. (\A T : Queue(T) => Queue(T)') /\ \A p, K : Final(p, K) => Final(p, K)'
  BY <1>1, <1>4, QueueKept
<1>6. CASE \E p : /\ InDoubt(p) /\ p.op = begun /\ Unused(begun)
                  /\ Tail(todo) = Creating(p, Reporting(begun))
  <2>1. PICK p, w : /\ InDoubt(p) /\ p.op = begun /\ Unused(begun)
                    /\ Tail(todo) = Creating(p, Reporting(w)) /\ w = begun
    BY <1>6
  <2>2. PICK h : h = <<"create", Staging(p.gen, p.op), p.op>>
    OBVIOUS
  <2>3. todo' = Then(h, Sealing(p, Reporting(w))) /\ IsList(Sealing(p, Reporting(w))) /\ h[1] = "create"
    BY <1>1, <2>1, <2>2, ListOf, PlanLists DEF Creating, Reporting
  <2>4. Does(h, Sealing(p, Reporting(w)))' /\ Doing("create")'
    BY <2>3, NextStep
  <2>5. Unused(begun)'
    BY <1>1, <2>1 DEF Unused, files
  <2>6. AtCreate'
    BY <1>1, <1>2, <2>1, <2>2, <2>4, <2>5 DEF AtCreate, InDoubt
  <2> QED BY <1>2, <2>4, <2>6 DEF Stage
<1>7. CASE \E p, K : CommittedNow(p) /\ Final(p, K) /\ Tail(todo) = Dropping(p, K)
  <2>1. PICK p, K : CommittedNow(p) /\ Final(p, K) /\ Tail(todo) = Dropping(p, K)
    BY <1>7
  <2>2. PICK h : h = <<"drop", Staging(p.gen, p.op)>>
    OBVIOUS
  <2>3. todo' = Then(h, K) /\ IsList(K) /\ h[1] = "drop"
    BY <1>1, <2>1, <2>2, WaitingLists DEF Dropping
  <2>4. Does(h, K)' /\ Doing("drop")'
    BY <2>3, NextStep
  <2>5. CommittedNow(p)'
    <3>1. Settled'
      BY <1>1, <2>1, FilesSame DEF CommittedNow
    <3> QED BY <1>1, <1>2, <2>1, <3>1 DEF CommittedNow, files
  <2>6. AtDrop'
    BY <1>2, <1>5, <2>1, <2>2, <2>4, <2>5 DEF AtDrop
  <2> QED BY <1>2, <2>4, <2>6 DEF Stage
<1>8. CASE \E T : Queue(T) /\ Authority.state = "active" /\ Settled /\ Tail(todo) = Debris(T)
  <2>1. PICK T : Queue(T) /\ Authority.state = "active" /\ Settled /\ Tail(todo) = Debris(T)
    BY <1>8
  <2>2. IsList(T)
    BY <2>1, WaitingLists
  <2>3. Tail(todo') = T /\ Doing("debris")'
    <3>1. <<"debris">>[1] = "debris"
      OBVIOUS
    <3> QED BY <1>1, <2>1, <2>2, <3>1, NextStep DEF Debris
  <2>4. Settled'
    BY <1>1, <2>1, FilesSame
  <2>5. AtDebris'
    BY <1>2, <1>5, <2>1, <2>3, <2>4 DEF AtDebris, Resolved
  <2> QED BY <1>2, <2>3, <2>5 DEF Stage
<1> QED BY <1>3, <1>6, <1>7, <1>8 DEF AtSyncMarkers

(* The steps on the record directory.                                      *)
LEMMA EntrySame ==
  ASSUME UNCHANGED begun
  PROVE  \A e : Entry(e) => Entry(e)'
BY DEF Entry

(* A new name in the directory.                                            *)
LEMMA LinkDirectory ==
  ASSUME Base, NEW name, NEW w, Link(name, w), ~ Present(name), UNCHANGED <<chain, begun>>,
         Entry(<<name, w>>),
         name[1] = "generation" =>
              Authority.state = "pending" /\ <<name, w>> = <<Generation(Authority.pending.gen), Authority.pending.op>>
  PROVE  /\ Chain' /\ Directory' /\ Authority' = Authority /\ Durable' = Durable
         /\ seen' = seen \cup {<<name, w>>} /\ maybe' = maybe \cup {<<name, w>>} /\ sure' = sure
         /\ \A other : other # name => (Gone(other)' <=> Gone(other))
<1> USE DEF Base
<1>1. seen' = seen \cup {<<name, w>>} /\ maybe' = maybe \cup {<<name, w>>} /\ sure' = sure
  BY DEF Link
<1>2. Chain' /\ Authority' = Authority /\ Durable' = Durable
  <2>1. begun \in Nat
    BY Numbers DEF Scalars
  <2> QED BY <2>1, ChainSame
<1>3. Gone(name)
  BY NameOf
<1>4. PICK x : x = <<name, w>> /\ x[1] = name
  OBVIOUS
<1>5. OneContentPerName(seen)'
  <2> SUFFICES ASSUME NEW e \in seen', NEW f \in seen', e[1] = f[1] PROVE e = f
    BY DEF OneContentPerName
  <2>1. e \in seen /\ f \in seen => e = f
    BY DEF Directory, OneContentPerName
  <2>2. e = x /\ f \in seen => FALSE
    BY <1>3, <1>4 DEF Gone
  <2>3. f = x /\ e \in seen => FALSE
    BY <1>3, <1>4 DEF Gone
  <2> QED BY <1>1, <1>4, <2>1, <2>2, <2>3
<1>6. \A e \in maybe' : Entry(e)'
  BY <1>1, EntrySame DEF Directory
<1>7. sure' \subseteq seen' /\ seen' \subseteq maybe'
  BY <1>1 DEF Directory
<1>8. \A e \in seen' : e[1][1] = "generation" /\ e \notin sure' =>
          /\ Authority'.state = "pending"
          /\ e = <<Generation(Authority'.pending.gen), Authority'.pending.op>>
  <2> SUFFICES ASSUME NEW e \in seen', e[1][1] = "generation", e \notin sure'
               PROVE  /\ Authority.state = "pending"
                      /\ e = <<Generation(Authority.pending.gen), Authority.pending.op>>
    BY <1>2
  <2>1. CASE e \in seen
    BY <1>1, <2>1 DEF Directory
  <2>2. CASE e = x
    BY <1>4, <2>2
  <2> QED BY <1>1, <1>4, <2>1, <2>2
<1>9. OnDisk(Authority.serving)' /\ OnDisk(Durable.serving)'
  BY <1>1, <1>2 DEF Directory, OnDisk
<1>10. ASSUME NEW other, other # name PROVE Gone(other)' <=> Gone(other)
  BY <1>1, <1>4, <1>10 DEF Gone
<1> QED BY <1>1, <1>2, <1>5, <1>6, <1>7, <1>8, <1>9, <1>10 DEF Directory

(* A name that goes, which no committed generation is under.               *)
LEMMA UnlinkDirectory ==
  ASSUME Base, NEW name, Unlink(name), UNCHANGED <<chain, begun>>,
         name # Generation(Authority.serving.gen), name # Generation(Durable.serving.gen)
  PROVE  /\ Chain' /\ Directory' /\ Authority' = Authority /\ Durable' = Durable
         /\ Gone(name)' /\ maybe' = maybe /\ seen' \subseteq seen
         /\ \A e : e[1] # name => (e \in seen => e \in seen') /\ (e \in sure => e \in sure')
         /\ \A other : Gone(other) => Gone(other)'
         /\ Settled => Settled'
<1> USE DEF Base
<1>1. seen' = {e \in seen : e[1] # name} /\ sure' = {e \in sure : e[1] # name} /\ maybe' = maybe
  BY DEF Unlink
<1>2. Chain' /\ Authority' = Authority /\ Durable' = Durable
  <2>1. begun \in Nat
    BY Numbers DEF Scalars
  <2> QED BY <2>1, ChainSame
<1>3. OneContentPerName(seen)'
  BY <1>1 DEF Directory, OneContentPerName
<1>4. \A e \in maybe' : Entry(e)'
  BY <1>1, EntrySame DEF Directory
<1>5. sure' \subseteq seen' /\ seen' \subseteq maybe'
  BY <1>1 DEF Directory
<1>6. \A e \in seen' : e[1][1] = "generation" /\ e \notin sure' =>
          /\ Authority'.state = "pending"
          /\ e = <<Generation(Authority'.pending.gen), Authority'.pending.op>>
  <2> SUFFICES ASSUME NEW e \in seen', e[1][1] = "generation", e \notin sure'
               PROVE  /\ Authority.state = "pending"
                      /\ e = <<Generation(Authority.pending.gen), Authority.pending.op>>
    BY <1>2
  <2>1. e \in seen /\ e \notin sure
    BY <1>1
  <2> QED BY <2>1 DEF Directory
<1>7. ASSUME NEW c, OnDisk(c), name # Generation(c.gen) PROVE OnDisk(c)'
  <2>1. <<Generation(c.gen), c.op>>[1] = Generation(c.gen)
    OBVIOUS
  <2> QED BY <1>1, <1>7, <2>1 DEF OnDisk
<1>8. OnDisk(Authority.serving)' /\ OnDisk(Durable.serving)'
  <2>1. PICK c, d : c = Authority.serving /\ d = Durable.serving
    OBVIOUS
  <2>2. OnDisk(c)' /\ OnDisk(d)'
    BY <1>7, <2>1 DEF Directory
  <2> QED BY <1>2, <2>1, <2>2
<1>9. Gone(name)' /\ (\A other : Gone(other) => Gone(other)') /\ (Settled => Settled')
  BY <1>1 DEF Gone, Settled
<1> QED BY <1>1, <1>2, <1>3, <1>4, <1>5, <1>6, <1>8, <1>9 DEF Directory

LEMMA CreateStep ==
  ASSUME Base, CreateStaging
  PROVE  Chain' /\ Directory' /\ Stage'
<1> USE DEF Base
<1>1. /\ UNCHANGED <<chain, begun>> /\ Doing("create") /\ todo' = Tail(todo)
      /\ Link(todo[1][2], todo[1][3]) /\ bytes' = [bytes EXCEPT ![todo[1][3]] = "written"]
  BY DEF CreateStaging, Proceed, GoOn
<1>2. AtCreate
  BY <1>1, StageAt
<1>3. PICK p, w : /\ Synced /\ InDoubt(p) /\ p.op = w /\ w = begun /\ Unused(begun)
                  /\ Does(<<"create", Staging(p.gen, p.op), p.op>>, Sealing(p, Reporting(w)))
  BY <1>2 DEF AtCreate
<1>4. PICK name : name = Staging(p.gen, w)
  OBVIOUS
<1>5. Link(name, w) /\ todo' = Sealing(p, Reporting(w)) /\ bytes' = [bytes EXCEPT ![w] = "written"]
  BY <1>1, <1>3, <1>4 DEF Does
<1>6. p.gen \in Nat /\ w \in Writes /\ w \in Nat /\ begun \in Nat
  BY <1>3, LegalViews, LegalParts, Numbers DEF InDoubt, Scalars, Writes
<1>7. Entry(<<name, w>>)
  <2>1. <<name, w>>[1] = name /\ <<name, w>>[2] = w /\ w \in 1 .. begun
    BY <1>3, <1>6, Numbers
  <2> QED BY <1>4, <1>6, <2>1 DEF Entry
<1>8. ~ Present(name)
  <2>1. Gone(name)
    <3> SUFFICES ASSUME NEW e \in seen, e[1] = name PROVE FALSE
      BY DEF Gone
    <3>1. e[2] = w
      BY <1>4, NameOf
    <3>2. e \in maybe
      BY DEF Directory
    <3> QED BY <1>3, <3>1, <3>2 DEF Unused
  <2> QED BY <2>1, NameOf
<1>9. name[1] # "generation"
  BY <1>4 DEF Staging
<1>10. /\ Chain' /\ Directory' /\ Authority' = Authority
       /\ seen' = seen \cup {<<name, w>>} /\ maybe' = maybe \cup {<<name, w>>}
  BY <1>1, <1>5, <1>7, <1>8, <1>9, LinkDirectory
<1>11. PICK h : h = <<"syncFile", Staging(p.gen, p.op), p.op>>
  OBVIOUS
<1>12. todo' = Then(h, Promoting(p, Reporting(w))) /\ IsList(Promoting(p, Reporting(w))) /\ h[1] = "syncFile"
  BY <1>5, <1>11, ListOf, PlanLists DEF Sealing, Reporting
<1>13. Does(h, Promoting(p, Reporting(w)))' /\ Doing("syncFile")'
  BY <1>12, NextStep
<1>14. \A e \in maybe' : (e[2] = begun => e[1] = Staging(p.gen, p.op)) /\ \A n : e[1] # Rejected(n, begun)
  <2> SUFFICES ASSUME NEW e \in maybe'
               PROVE  (e[2] = begun => e[1] = Staging(p.gen, p.op)) /\ \A n : e[1] # Rejected(n, begun)
    OBVIOUS
  <2>1. CASE e \in maybe
    BY <1>3, <2>1 DEF Unused
  <2>2. CASE e = <<name, w>>
    <3>1. e[1] = Staging(p.gen, p.op)
      BY <1>3, <1>4, <2>2
    <3> QED BY <3>1, Names0
  <2> QED BY <1>10, <2>1, <2>2
<1>15. bytes'[begun] = "written"
  BY <1>3, <1>5, <1>6 DEF Scalars
<1>16. AtSyncFile'
  <2>1. Synced' /\ InDoubt(p)' /\ p.op = begun' /\ bytes'[begun'] = "written" /\ w = begun'
    BY <1>1, <1>3, <1>10, <1>15 DEF Synced, InDoubt, chain
  <2>2. <<Staging(p.gen, p.op), p.op>> \in seen'
    BY <1>3, <1>4, <1>10
  <2>3. \A e \in maybe' : (e[2] = begun' => e[1] = Staging(p.gen, p.op)) /\ \A n : e[1] # Rejected(n, begun')
    BY <1>1, <1>14
  <2> QED BY <1>11, <1>13, <2>1, <2>2, <2>3 DEF AtSyncFile
<1> QED BY <1>10, <1>13, <1>16 DEF Stage

LEMMA SyncFileStep ==
  ASSUME Base, SyncFile
  PROVE  Chain' /\ Directory' /\ Stage'
<1> USE DEF Base
<1>1. /\ UNCHANGED <<chain, files, begun>> /\ Doing("syncFile") /\ todo' = Tail(todo)
      /\ bytes' = [bytes EXCEPT ![todo[1][3]] = "sealed"]
  BY DEF SyncFile, Proceed, GoOn
<1>2. AtSyncFile
  BY <1>1, StageAt
<1>3. PICK p, w : /\ Synced /\ InDoubt(p) /\ p.op = w /\ w = begun
                  /\ <<Staging(p.gen, p.op), p.op>> \in seen
                  /\ Does(<<"syncFile", Staging(p.gen, p.op), p.op>>, Promoting(p, Reporting(w)))
  BY <1>2 DEF AtSyncFile
<1>4. w \in Writes /\ begun \in Nat
  BY <1>3, LegalViews, LegalParts, Numbers DEF InDoubt, Scalars
<1>5. Chain' /\ Directory' /\ Authority' = Authority
  BY <1>1, <1>4, StillStep
<1>6. bytes'[w] = "sealed" /\ todo' = Promoting(p, Reporting(w))
  BY <1>1, <1>3, <1>4 DEF Does, Scalars
<1>7. Candidate(p)' /\ Final(p, Reporting(w))' /\ IsList(Reporting(w)) /\ Synced' /\ InDoubt(p)'
  BY <1>1, <1>3, <1>5, <1>6, ListOf DEF Candidate, Whole, Final, Reporting, Synced, InDoubt, chain, files
<1>8. Stage'
  BY <1>6, <1>7, PromotingStage
<1> QED BY <1>5, <1>8

LEMMA PromoteStep ==
  ASSUME Base, Promote
  PROVE  Chain' /\ Directory' /\ Stage'
<1> USE DEF Base
<1>1. UNCHANGED <<chain, begun, bytes>> /\ Doing("promote")
  BY DEF Promote, GoOn
<1>2. AtPromote
  BY <1>1, StageAt
<1>3. PICK p, K : /\ Synced /\ InDoubt(p) /\ Final(p, K) /\ Candidate(p)
                  /\ Does(<<"promote", Staging(p.gen, p.op), Generation(p.gen), p.op>>, Syncing(p, K))
  BY <1>2 DEF AtPromote
<1>4. PICK name : name = Generation(p.gen)
  OBVIOUS
<1>5. todo[1][3] = name /\ todo[1][4] = p.op /\ Tail(todo) = Syncing(p, K)
  BY <1>3, <1>4 DEF Does
<1>6. p.gen \in Nat /\ p.op \in Writes /\ begun \in Nat /\ p.op \in 0 .. begun
  <2>1. p.gen \in Writes /\ p.op \in Writes
    BY <1>3, LegalViews, LegalParts DEF InDoubt
  <2>2. p.op \in 0 .. begun
    BY <1>3, Serving DEF InDoubt
  <2> QED BY <2>1, <2>2, Numbers DEF Scalars
<1>7. CASE Present(name)
  <2>1. todo' = << >> /\ UNCHANGED files
    BY <1>5, <1>7 DEF Promote, GoOn, LinkFree
  <2>2. Chain' /\ Directory'
    BY <1>1, <1>6, <2>1, StillStep
  <2> QED BY <2>1, <2>2 DEF Stage
<1>8. CASE ~ Present(name)
  <2>1. todo' = Syncing(p, K) /\ Link(name, p.op)
    BY <1>5, <1>8 DEF Promote, GoOn, LinkFree
  <2>2. Entry(<<name, p.op>>)
    <3>1. <<name, p.op>>[1] = name /\ <<name, p.op>>[2] = p.op /\ p.op \in 1 .. begun
      BY <1>6, Numbers DEF Writes
    <3> QED BY <1>4, <1>6, <3>1 DEF Entry
  <2>3. Authority.state = "pending" /\ <<name, p.op>> = <<Generation(Authority.pending.gen), Authority.pending.op>>
    BY <1>3, <1>4 DEF InDoubt
  <2>4. /\ Chain' /\ Directory' /\ Authority' = Authority
        /\ seen' = seen \cup {<<name, p.op>>} /\ maybe' = maybe \cup {<<name, p.op>>}
    BY <1>1, <1>8, <2>1, <2>2, <2>3, LinkDirectory
  <2>5. Fresh => Fresh'
    <3> SUFFICES ASSUME Fresh PROVE Fresh'
      OBVIOUS
    <3>1. p.op < begun /\ Authority'.serving.op < begun /\ Authority'.pending.op < begun
      BY <1>3, <2>4 DEF Fresh, InDoubt
    <3>2. \A e \in maybe' : e \in maybe \/ (e[2] < begun /\ \A n : e[1] # Rejected(n, begun))
      <4> SUFFICES ASSUME NEW e, e = <<name, p.op>> PROVE e[2] < begun /\ \A n : e[1] # Rejected(n, begun)
        BY <2>4
      <4>1. e[2] = p.op /\ e[1] = Generation(p.gen)
        BY <1>4
      <4> QED BY <3>1, <4>1, Names0
    <3>3. UNCHANGED <<begun, markers, bytes>>
      BY <1>1 DEF chain
    <3> QED BY <3>1, <3>2, <3>3, FreshKept
  <2>6. Final(p, K)' /\ IsList(K)
    BY <1>1, <1>3, <2>5, QueueKept, WaitingLists
  <2>7. Synced' /\ InDoubt(p)' /\ Candidate(p)' /\ <<Generation(p.gen), p.op>> \in seen'
    BY <1>1, <1>3, <1>4, <2>4 DEF Synced, InDoubt, Candidate, Whole, chain
  <2> QED BY <2>1, <2>4, <2>6, <2>7, SyncingStage
<1> QED BY <1>7, <1>8

LEMMA MovesKept ==
  ASSUME NEW name, NEW K, Moves(name, K), UNCHANGED begun, Fresh => Fresh', Synced => Synced',
         Authority' = Authority, \A p : Candidate(p) => Candidate(p)' \/ name # Generation(p.gen),
         \A p : NoCandidate(p) => NoCandidate(p)',
         \A g, w : <<Generation(g), w>> \notin seen => <<Generation(g), w>> \notin seen',
         \A other : other[1] = "generation" /\ Gone(other) => Gone(other)'
  PROVE  Moves(name, K)'
<1>1. \A T : Queue(T) => Queue(T)'
  BY QueueKept
<1>2. \A g : Gone(Generation(g)) => Gone(Generation(g))'
  BY Names0
<1> QED BY <1>1, <1>2 DEF Moves, InDoubt

(* The name being moved is the generation or the staging file in doubt.    *)
LEMMA MovedName ==
  ASSUME Base, NEW name, NEW K, Moves(name, K)
  PROVE  /\ Synced /\ Authority.state = "pending" /\ Durable = Authority
         /\ name = Generation(Authority.pending.gen) \/ name = Staging(Authority.pending.gen, Authority.pending.op)
         /\ name # Generation(Authority.serving.gen)
         /\ name[1] # "rejected" /\ Authority.pending.op \in 0 .. begun /\ begun \in Nat
         /\ \A n, w : name # Rejected(n, w)
         /\ Fresh => Authority.pending.op < begun
<1> USE DEF Base
<1>1. PICK p, s : p = Authority.pending /\ s = Authority.serving
  OBVIOUS
<1>2. Synced /\ Authority.state = "pending"
  BY DEF Moves, InDoubt
<1>3. name = Generation(p.gen) \/ name = Staging(p.gen, p.op)
  BY <1>1 DEF Moves
<1>4. p.gen = s.gen + 1 /\ s.gen \in Nat
  BY <1>1, <1>2, LegalViews, LegalParts
<1>5. name # Generation(s.gen) /\ (\A n, w : name # Rejected(n, w)) /\ name[1] # "rejected"
  BY <1>3, <1>4, Names0
<1>6. Durable = Authority /\ p.op \in 0 .. begun /\ begun \in Nat
  BY <1>1, <1>2, Serving, Numbers DEF Scalars
<1>7. Fresh => p.op < begun
  BY <1>1 DEF Fresh
<1> QED BY <1>1, <1>2, <1>3, <1>5, <1>6, <1>7

LEMMA SyncRecordStep ==
  ASSUME Base, SyncRecord
  PROVE  Chain' /\ Directory' /\ Stage'
<1> USE DEF Base
<1>1. /\ UNCHANGED <<chain, begun, seen, bytes>> /\ Doing("syncRecord") /\ todo' = Tail(todo)
      /\ sure' = seen /\ maybe' = seen
  BY DEF SyncRecord, Proceed, GoOn
<1>2. AtSyncRecord
  BY <1>1, StageAt
<1>3. begun \in Nat /\ maybe' \subseteq maybe /\ sure \subseteq sure'
  BY <1>1, Numbers DEF Scalars, Directory
<1>4. Chain' /\ Authority' = Authority /\ Durable' = Durable
  BY <1>1, <1>3, ChainSame
<1>5. Directory'
  <2>1. \A e \in maybe' : Entry(e)'
    BY <1>1, <1>3, EntrySame DEF Directory
  <2>2. OneContentPerName(seen)'
    BY <1>1 DEF Directory, OneContentPerName
  <2>3. OnDisk(Authority.serving)' /\ OnDisk(Durable.serving)'
    BY <1>3, <1>4 DEF Directory, OnDisk
  <2>4. sure' \subseteq seen' /\ seen' \subseteq maybe' /\ \A e \in seen' : e \in sure'
    BY <1>1
  <2> QED BY <2>1, <2>2, <2>3, <2>4 DEF Directory
<1>6. Fresh => Fresh'
  BY <1>1, <1>3, <1>4, FreshSame DEF chain
<1>7. /\ \A p : Candidate(p) => Candidate(p)'
      /\ \A p : NoCandidate(p) => NoCandidate(p)'
      /\ \A other : Gone(other)' <=> Gone(other)
      /\ Synced => Synced'
  BY <1>1, <1>3 DEF Candidate, NoCandidate, Whole, Gone, Synced, chain
<1>8. CASE \E p, K : /\ Synced /\ InDoubt(p) /\ Final(p, K) /\ Candidate(p)
                     /\ <<Generation(p.gen), p.op>> \in seen
                     /\ Tail(todo) = Committing(p, K)
  <2>1. PICK p, K : /\ Synced /\ InDoubt(p) /\ Final(p, K) /\ Candidate(p)
                    /\ <<Generation(p.gen), p.op>> \in seen
                    /\ Tail(todo) = Committing(p, K)
    BY <1>8
  <2>2. PICK h : h = <<"linkMarker", Active(p)>>
    OBVIOUS
  <2>3. todo' = Then(h, Recording(p, K)) /\ IsList(Recording(p, K)) /\ h[1] = "linkMarker"
    BY <1>1, <2>1, <2>2, WaitingLists, PlanLists DEF Committing
  <2>4. Does(h, Recording(p, K))' /\ Doing("linkMarker")'
    BY <2>3, NextStep
  <2>5. Final(p, K)'
    BY <1>1, <1>6, <2>1, QueueKept
  <2>6. Settled'
    BY <1>1 DEF Settled
  <2>7. AtLinkMarker'
    BY <1>1, <1>4, <1>7, <2>1, <2>2, <2>4, <2>5, <2>6 DEF AtLinkMarker, InDoubt
  <2> QED BY <1>4, <1>5, <2>4, <2>7 DEF Stage
<1>9. CASE \E name, K : Moves(name, K) /\ CopiedIn(seen, name) /\ Tail(todo) = Removing(name, K)
  <2>1. PICK name, K : Moves(name, K) /\ CopiedIn(seen, name) /\ Tail(todo) = Removing(name, K)
    BY <1>9
  <2>2. PICK h : h = <<"remove", name>>
    OBVIOUS
  <2>3. todo' = Then(h, Removed(K)) /\ IsList(Removed(K)) /\ h[1] = "remove"
    BY <1>1, <2>1, <2>2, MovesList, MovingLists DEF Removing
  <2>4. Does(h, Removed(K))' /\ Doing("remove")'
    BY <2>3, NextStep
  <2>5. Moves(name, K)'
    BY <1>1, <1>4, <1>6, <1>7, <2>1, MovesKept
  <2>6. CopiedIn(seen, name)' /\ sure' = seen' /\ maybe' = seen'
    BY <1>1, <1>4, <2>1 DEF CopiedIn
  <2>7. AtRemove'
    BY <2>2, <2>4, <2>5, <2>6 DEF AtRemove
  <2> QED BY <1>4, <1>5, <2>4, <2>7 DEF Stage
<1>10. CASE \E name, K : Moves(name, K) /\ Gone(name) /\ Tail(todo) = K
  <2>1. PICK name, K : Moves(name, K) /\ Gone(name) /\ Tail(todo) = K
    BY <1>10
  <2>2. Moves(name, K)' /\ Gone(name)' /\ todo' = K
    BY <1>1, <1>4, <1>6, <1>7, <2>1, MovesKept
  <2>3. Stage'
    BY <1>5, <2>2, ResumeStage
  <2> QED BY <1>4, <1>5, <2>3
<1> QED BY <1>2, <1>8, <1>9, <1>10 DEF AtSyncRecord

LEMMA LinkRejectedStep ==
  ASSUME Base, LinkRejected
  PROVE  Chain' /\ Directory' /\ Stage'
<1> USE DEF Base
<1>1. UNCHANGED <<chain, begun, bytes>> /\ Doing("linkRejected")
  BY DEF LinkRejected, GoOn
<1>2. AtLinkRejected
  BY <1>1, StageAt
<1>3. PICK name, K, v : /\ Moves(name, K) /\ v = Authority.pending.op
                        /\ Does(<<"linkRejected", name, v>>, Copied(name, K))
  BY <1>2 DEF AtLinkRejected
<1>4. PICK rejected : rejected = Rejected(name, v)
  OBVIOUS
<1>5. /\ Synced /\ Authority.state = "pending" /\ name[1] # "rejected" /\ v \in 0 .. begun /\ begun \in Nat
      /\ \A n, w : name # Rejected(n, w)
      /\ Fresh => v < begun
  BY <1>3, MovedName
<1>6. todo[1][2] = name /\ todo[1][3] = v /\ Tail(todo) = Copied(name, K)
  BY <1>3 DEF Does
<1>7. PICK w \in Holders(seen, name) :
             /\ IF Present(rejected) THEN UNCHANGED files ELSE Link(rejected, w)
             /\ GoOn(~Present(rejected) \/ AlreadyRelocated(name, rejected), Tail(todo), "rejectedExists")
  BY <1>4, <1>6 DEF LinkRejected
<1>8. /\ <<name, w>> \in seen /\ w \in 1 .. begun
  <2>1. <<name, w>> \in seen
    BY NameOf
  <2>2. <<name, w>>[2] = w
    OBVIOUS
  <2> QED BY <2>1, <2>2, NameOf
<1>9. /\ Chain' /\ Directory' /\ Authority' = Authority
      /\ seen' = seen \/ (seen' = seen \cup {<<rejected, w>>} /\ ~ Present(rejected))
      /\ maybe' = maybe \/ maybe' = maybe \cup {<<rejected, w>>}
      /\ \A other : other # rejected => (Gone(other)' <=> Gone(other))
      /\ Present(rejected) => seen' = seen
      /\ ~ Present(rejected) => <<rejected, w>> \in seen'
  <2>1. CASE Present(rejected)
    <3>1. UNCHANGED files
      BY <1>7, <2>1
    <3>2. Chain' /\ Directory' /\ Authority' = Authority
      BY <1>1, <1>5, <3>1, StillStep
    <3> QED BY <2>1, <3>1, <3>2 DEF files, Gone
  <2>2. CASE ~ Present(rejected)
    <3>1. Link(rejected, w)
      BY <1>7, <2>2
    <3>2. Entry(<<rejected, w>>)
      <4>1. <<rejected, w>>[1] = rejected /\ <<rejected, w>>[2] = w
        OBVIOUS
      <4> QED BY <1>4, <1>5, <1>8, <4>1 DEF Entry
    <3>3. rejected[1] # "generation"
      BY <1>4 DEF Rejected
    <3>4. /\ Chain' /\ Directory' /\ Authority' = Authority
          /\ seen' = seen \cup {<<rejected, w>>} /\ maybe' = maybe \cup {<<rejected, w>>}
          /\ \A other : other # rejected => (Gone(other)' <=> Gone(other))
      BY <1>1, <2>2, <3>1, <3>2, <3>3, LinkDirectory
    <3> QED BY <2>2, <3>4
  <2> QED BY <2>1, <2>2
<1>10. CASE ~ (~Present(rejected) \/ AlreadyRelocated(name, rejected))
  <2>1. todo' = << >>
    BY <1>7, <1>10 DEF GoOn
  <2> QED BY <1>9, <2>1 DEF Stage
<1>11. CASE ~Present(rejected) \/ AlreadyRelocated(name, rejected)
  <2>1. todo' = Copied(name, K)
    BY <1>6, <1>7, <1>11 DEF GoOn
  <2>2. PICK h : h = <<"syncRecord">>
    OBVIOUS
  <2>3. todo' = Then(h, Removing(name, K)) /\ IsList(Removing(name, K)) /\ h[1] = "syncRecord"
    BY <1>3, <2>1, <2>2, MovesList, MovingLists DEF Copied
  <2>4. Tail(todo') = Removing(name, K) /\ Doing("syncRecord")'
    BY <2>3, NextStep
  <2>5. \A e : e = <<rejected, w>> => e[1] = rejected /\ e[2] = w
    OBVIOUS
  <2>6. CopiedIn(seen, name)'
    <3> SUFFICES ASSUME NEW e \in seen', e[1] = name PROVE <<rejected, e[2]>> \in seen'
      BY <1>4, <1>3, <1>9 DEF CopiedIn
    <3>1. e \in seen
      BY <1>4, <1>5, <1>9, <2>5
    <3>2. e = <<name, w>> /\ e[2] = w
      <4>1. <<name, w>>[1] = name /\ <<name, w>>[2] = w
        OBVIOUS
      <4> QED BY <1>8, <3>1, <4>1 DEF Directory, OneContentPerName
    <3>3. CASE ~ Present(rejected)
      BY <1>9, <3>2, <3>3
    <3>4. CASE AlreadyRelocated(name, rejected)
      <4>1. w \in Holders(seen, rejected) /\ Present(rejected)
        BY <1>7, <3>4 DEF AlreadyRelocated
      <4>2. <<rejected, w>> \in seen
        BY <4>1, NameOf
      <4> QED BY <1>9, <3>2, <4>1, <4>2
    <3> QED BY <1>11, <3>3, <3>4
  <2>7. Moves(name, K)'
    <3>1. Fresh => Fresh'
      <4> SUFFICES ASSUME Fresh PROVE Fresh'
        OBVIOUS
      <4>1. v < begun
        BY <1>5
      <4>2. PICK S : Directory /\ S = seen
        OBVIOUS
      <4>3. w # begun /\ w \in Nat
        <5>1. <<name, w>> \in maybe /\ <<name, w>>[2] = w
          BY <1>8 DEF Directory
        <5> QED BY <1>8, <5>1 DEF Fresh, Unused
      <4>4. w < begun
        BY <1>5, <1>8, <4>3
      <4>5. \A e \in maybe' : e \in maybe \/ (e[2] < begun /\ \A n : e[1] # Rejected(n, begun))
        <5> SUFFICES ASSUME NEW e, e = <<rejected, w>> PROVE e[2] < begun /\ \A n : e[1] # Rejected(n, begun)
          BY <1>9
        <5>1. e[1] = Rejected(name, v) /\ e[2] = w
          BY <1>4
        <5>2. v # begun
          BY <1>5, <4>1
        <5> QED BY <4>4, <5>1, <5>2, Names0
      <4>6. UNCHANGED <<begun, markers, bytes>>
        BY <1>1 DEF chain
      <4>7. Authority'.serving.op < begun /\ Authority'.pending.op < begun
        BY <1>9 DEF Fresh
      <4> QED BY <4>5, <4>6, <4>7, FreshKept
    <3>2. Synced => Synced'
      BY <1>1 DEF Synced, chain
    <3>3. \A p : Candidate(p) => Candidate(p)'
      BY <1>1, <1>9 DEF Candidate, Whole
    <3>4. \A p : NoCandidate(p) => NoCandidate(p)'
      <4> SUFFICES ASSUME NEW p, NEW x, x = <<Staging(p.gen, p.op), p.op>>, x \in seen'
                   PROVE  x \in seen
        BY <1>1 DEF NoCandidate, Candidate, Whole
      <4>1. x[1] = Staging(p.gen, p.op)
        OBVIOUS
      <4> QED BY <1>4, <1>9, <2>5, <4>1, Names0
    <3>5. \A other : other[1] = "generation" /\ Gone(other) => Gone(other)'
      <4>1. rejected[1] = "rejected"
        BY <1>4, Names0
      <4> QED BY <1>9, <4>1
    <3>6. \A g, x : <<Generation(g), x>> \notin seen => <<Generation(g), x>> \notin seen'
      <4> SUFFICES ASSUME NEW g, NEW x, NEW n, n = Generation(g), <<n, x>> = <<rejected, w>> PROVE FALSE
        BY <1>9
      <4>1. n = rejected
        OBVIOUS
      <4> QED BY <1>4, <4>1, Names0
    <3> QED BY <1>1, <1>3, <1>9, <3>1, <3>2, <3>3, <3>4, <3>5, <3>6, MovesKept
  <2>8. AtSyncRecord'
    BY <2>4, <2>6, <2>7 DEF AtSyncRecord
  <2> QED BY <1>9, <2>4, <2>8 DEF Stage
<1> QED BY <1>10, <1>11

LEMMA RemoveStep ==
  ASSUME Base, RemoveName, Doing("remove")
  PROVE  Chain' /\ Directory' /\ Stage'
<1> USE DEF Base
<1>1. UNCHANGED <<chain, begun, bytes>> /\ todo' = Tail(todo) /\ Unlink(todo[1][2])
  BY DEF RemoveName, Proceed, GoOn
<1>2. AtRemove
  BY <1>1, StageAt
<1>3. PICK name, K : /\ Moves(name, K) /\ Does(<<"remove", name>>, Removed(K))
  BY <1>2 DEF AtRemove
<1>4. /\ Synced /\ Authority.state = "pending" /\ Durable = Authority
      /\ name = Generation(Authority.pending.gen) \/ name = Staging(Authority.pending.gen, Authority.pending.op)
      /\ name # Generation(Authority.serving.gen)
  BY <1>3, MovedName
<1>5. Unlink(name) /\ todo' = Removed(K)
  BY <1>1, <1>3 DEF Does
<1>6. /\ Chain' /\ Directory' /\ Authority' = Authority /\ Gone(name)' /\ maybe' = maybe /\ seen' \subseteq seen
      /\ \A e : e[1] # name => (e \in seen => e \in seen')
      /\ \A other : Gone(other) => Gone(other)'
  BY <1>1, <1>4, <1>5, UnlinkDirectory
<1>7. PICK h : h = <<"syncRecord">>
  OBVIOUS
<1>8. todo' = Then(h, K) /\ IsList(K) /\ h[1] = "syncRecord"
  BY <1>3, <1>5, <1>7, MovesList DEF Removed
<1>9. Tail(todo') = K /\ Doing("syncRecord")'
  BY <1>8, NextStep
<1>10. Moves(name, K)'
  <2>1. Fresh => Fresh'
    BY <1>1, <1>6, FreshSame DEF chain
  <2>2. Synced => Synced'
    BY <1>1 DEF Synced, chain
  <2>3. ASSUME NEW p, Candidate(p), name = Generation(p.gen) PROVE Candidate(p)'
    <3>0. PICK x : x = Staging(p.gen, p.op)
      OBVIOUS
    <3>1. PICK e, y : y = p.op /\ e = <<x, y>>
      OBVIOUS
    <3>2. e \in seen => e \in seen'
      <4>1. e[1] = x
        BY <3>1
      <4> QED BY <1>6, <2>3, <3>0, <4>1, Names0
    <3> QED BY <1>1, <2>3, <3>0, <3>1, <3>2 DEF Candidate, Whole
  <2>4. \A p : NoCandidate(p) => NoCandidate(p)'
    BY <1>1, <1>6 DEF NoCandidate, Candidate, Whole
  <2> QED BY <1>1, <1>3, <1>6, <2>1, <2>2, <2>3, <2>4, MovesKept
<1>11. AtSyncRecord'
  BY <1>6, <1>9, <1>10 DEF AtSyncRecord
<1> QED BY <1>6, <1>9, <1>11 DEF Stage

LEMMA DropStep ==
  ASSUME Base, Doing("drop"), RemoveName \/ DropFails
  PROVE  Chain' /\ Directory' /\ Stage'
<1> USE DEF Base
<1>1. UNCHANGED <<chain, begun, bytes>> /\ todo' = Tail(todo)
  BY DEF RemoveName, DropFails, Proceed, GoOn
<1>2. AtDrop
  BY StageAt
<1>3. PICK p, K : /\ Synced /\ CommittedNow(p) /\ Final(p, K)
                  /\ Does(<<"drop", Staging(p.gen, p.op)>>, K)
  BY <1>2 DEF AtDrop
<1>4. PICK name : name = Staging(p.gen, p.op)
  OBVIOUS
<1>5. todo[1][2] = name /\ todo' = K
  BY <1>1, <1>3, <1>4 DEF Does
<1>6. begun \in Nat
  BY Numbers DEF Scalars
<1>7. /\ Chain' /\ Directory' /\ Authority' = Authority
      /\ <<Generation(p.gen), p.op>> \in sure' /\ Settled' /\ maybe' = maybe
  <2>1. CASE DropFails
    <3>1. UNCHANGED files
      BY <2>1 DEF DropFails
    <3>2. Chain' /\ Directory' /\ Authority' = Authority
      BY <1>1, <1>6, <3>1, StillStep
    <3> QED BY <1>3, <3>1, <3>2 DEF files, CommittedNow, Settled
  <2>2. CASE RemoveName
    <3>1. Unlink(name) /\ \A g : name # Generation(g)
      BY <1>4, <1>5, <2>2, Names0 DEF RemoveName
    <3>2. /\ Chain' /\ Directory' /\ Authority' = Authority /\ maybe' = maybe
          /\ \A e : e[1] # name => (e \in sure => e \in sure')
          /\ Settled => Settled'
      BY <1>1, <3>1, UnlinkDirectory
    <3>3. PICK x : x = Generation(p.gen)
      OBVIOUS
    <3>4. PICK e, y : y = p.op /\ e = <<x, y>>
      OBVIOUS
    <3>5. e[1] = x
      BY <3>4
    <3> QED BY <1>3, <3>1, <3>2, <3>3, <3>4, <3>5 DEF CommittedNow
  <2> QED BY <2>1, <2>2
<1>8. Final(p, K)'
  <2>1. Fresh => Fresh'
    BY <1>1, <1>7, FreshSame DEF chain
  <2> QED BY <1>1, <1>3, <2>1, QueueKept
<1>9. Synced' /\ CommittedNow(p)'
  BY <1>1, <1>3, <1>7 DEF Synced, CommittedNow, chain
<1>10. Stage'
  BY <1>5, <1>8, <1>9, AfterDropStage
<1> QED BY <1>7, <1>10

LEMMA DebrisStep ==
  ASSUME Base, ClassifyDebris
  PROVE  /\ Chain' /\ Directory' /\ Stage' /\ Authority' = Authority /\ Durable' = Durable
         /\ seen' \subseteq seen /\ maybe' = maybe
         /\ \A e \in seen \ seen' : Redundant(e)
         /\ \A e \in sure : e \in seen' => e \in sure'
<1> USE DEF Base
<1>1. UNCHANGED <<chain, begun, bytes>> /\ todo' = Tail(todo) /\ Doing("debris")
  BY DEF ClassifyDebris, Proceed, GoOn
<1>2. AtDebris
  BY <1>1, StageAt
<1>3. PICK gone : gone = {e \in seen : Redundant(e)} /\ seen' = seen \ gone /\ sure' = sure \ gone /\ maybe' = maybe
  BY DEF ClassifyDebris
<1>4. begun \in Nat
  BY Numbers DEF Scalars
<1>5. Chain' /\ Authority' = Authority /\ Durable' = Durable
  BY <1>1, <1>4, ChainSame
<1>6. \A e \in gone : e[1][1] = "staging"
  BY <1>3 DEF Redundant
<1>7. Directory'
  <2>1. OneContentPerName(seen)'
    BY <1>3 DEF Directory, OneContentPerName
  <2>2. \A e \in maybe' : Entry(e)'
    BY <1>1, <1>3, EntrySame DEF Directory
  <2>3. sure' \subseteq seen' /\ seen' \subseteq maybe'
    BY <1>3 DEF Directory
  <2>4. \A e \in seen' : e[1][1] = "generation" /\ e \notin sure' =>
          /\ Authority'.state = "pending"
          /\ e = <<Generation(Authority'.pending.gen), Authority'.pending.op>>
    BY <1>3, <1>5 DEF Directory
  <2>5. ASSUME NEW c, OnDisk(c) PROVE OnDisk(c)'
    <3>1. PICK e : e = <<Generation(c.gen), c.op>>
      OBVIOUS
    <3>2. e[1][1] = "generation"
      BY <3>1 DEF Generation
    <3>3. e \notin gone
      BY <1>6, <3>2
    <3> QED BY <1>3, <2>5, <3>1, <3>3 DEF OnDisk
  <2>6. OnDisk(Authority.serving)' /\ OnDisk(Durable.serving)'
    <3>1. PICK c, d : c = Authority.serving /\ d = Durable.serving
      OBVIOUS
    <3>2. OnDisk(c)' /\ OnDisk(d)'
      BY <2>5, <3>1 DEF Directory
    <3> QED BY <1>5, <3>1, <3>2
  <2> QED BY <2>1, <2>2, <2>3, <2>4, <2>6 DEF Directory
<1>8. Fresh => Fresh'
  BY <1>1, <1>3, <1>5, FreshSame DEF chain
<1>9. CASE todo' = << >>
  BY <1>3, <1>5, <1>7, <1>9 DEF Stage
<1>10. CASE todo' = << <<"begin">> >> /\ Fresh
  <2>1. Doing("begin")'
    BY <1>10 DEF Doing
  <2>2. Settled'
    BY <1>2, <1>3, <1>6 DEF AtDebris, Resolved, Settled
  <2>3. \A p : NoCandidate(p) => NoCandidate(p)'
    BY <1>1, <1>3 DEF NoCandidate, Candidate, Whole
  <2>4. AtBegin'
    BY <1>1, <1>2, <1>5, <1>8, <1>10, <2>2, <2>3 DEF AtBegin, AtDebris, Synced, Resolved, chain
  <2>5. Stage'
    BY <2>1, <2>4 DEF Stage
  <2> QED BY <1>3, <1>5, <1>7, <2>5
<1> QED BY <1>1, <1>2, <1>9, <1>10 DEF AtDebris, Queue

LEMMA ReturnStep ==
  ASSUME Base, Return
  PROVE  Chain' /\ Directory' /\ Stage'
<1> USE DEF Base
<1>1. UNCHANGED <<chain, files, begun>> /\ todo' = Tail(todo) /\ Doing("return")
  BY DEF Return, Proceed, GoOn
<1>2. begun \in Nat
  BY Numbers DEF Scalars
<1>3. Chain' /\ Directory'
  BY <1>1, <1>2, StillStep
<1>4. todo' = << >>
  <2>1. PICK w : todo = << <<"return", w>> >>
    BY <1>1, StageAt DEF AtReturn, Reporting
  <2> QED BY <1>1, <2>1
<1> QED BY <1>3, <1>4 DEF Stage

LEMMA StagingFailsStep ==
  ASSUME Base, StagingFails
  PROVE  Chain' /\ Directory' /\ Stage' /\ Authority' = Authority /\ Durable' = Durable
<1> USE DEF Base
<1>1. /\ UNCHANGED <<chain, begun>> /\ todo' = << >> /\ Doing("syncFile")
      /\ Unlink(todo[1][2]) \/ UNCHANGED files
  BY DEF StagingFails, Interrupt
<1>2. AtSyncFile
  BY <1>1, StageAt
<1>3. PICK p, r : Does(<<"syncFile", Staging(p.gen, p.op), p.op>>, r)
  BY <1>2 DEF AtSyncFile
<1>4. PICK name : name = Staging(p.gen, p.op)
  OBVIOUS
<1>5. todo[1][2] = name /\ \A g : name # Generation(g)
  BY <1>3, <1>4, Names0 DEF Does
<1>6. begun \in Nat
  BY Numbers DEF Scalars
<1>7. Chain' /\ Directory' /\ Authority' = Authority /\ Durable' = Durable
  <2>1. CASE UNCHANGED files
    BY <1>1, <1>6, <2>1, StillStep
  <2>2. CASE Unlink(name)
    BY <1>1, <1>5, <2>2, UnlinkDirectory
  <2> QED BY <1>1, <1>5, <2>1, <2>2
<1> QED BY <1>1, <1>7 DEF Stage

LEMMA FaultStep ==
  ASSUME Base, StepFails \/ ProcessKilled
  PROVE  Chain' /\ Directory' /\ Stage' /\ Authority' = Authority /\ Durable' = Durable
<1> USE DEF Base
<1>1. UNCHANGED <<chain, files, begun>> /\ todo' = << >>
  BY DEF StepFails, ProcessKilled, Interrupt
<1>2. begun \in Nat
  BY Numbers DEF Scalars
<1>3. Chain' /\ Directory' /\ Authority' = Authority /\ Durable' = Durable
  BY <1>1, <1>2, StillStep
<1> QED BY <1>1, <1>3 DEF Stage

LEMMA PowerStep ==
  ASSUME Base, PowerLoss
  PROVE  /\ Chain' /\ Directory' /\ Stage' /\ Synced' /\ Durable' = Authority' /\ Authority' \in {Authority, Durable}
         /\ sure \subseteq seen' /\ seen' \subseteq maybe /\ sure' = seen' /\ maybe' = seen'
<1> USE DEF Base
<1>1. PICK k \in durableMarkers .. Len(markers) : markers' = SubSeq(markers, 1, k) /\ durableMarkers' = k
  BY DEF PowerLoss
<1>2. UNCHANGED <<begun>> /\ todo' = << >>
  BY DEF PowerLoss, Interrupt
<1>3. Chain' /\ Durable' = Authority' /\ Authority' \in {Authority, Durable} /\ Synced'
  BY <1>1, <1>2, ChainCut
<1>4. /\ sure \subseteq seen' /\ seen' \subseteq maybe /\ sure' = seen' /\ maybe' = seen'
      /\ OneContentPerName(seen)'
  BY DEF PowerLoss, Directory, OneContentPerName
<1>5. ASSUME NEW c, OnDisk(c) PROVE OnDisk(c)'
  BY <1>4, <1>5 DEF OnDisk
<1>6. OnDisk(Authority.serving)' /\ OnDisk(Durable.serving)'
  <2>1. PICK c, d, e : c = Authority.serving /\ d = Durable.serving /\ e = Authority'.serving
    OBVIOUS
  <2>2. OnDisk(c)' /\ OnDisk(d)'
    BY <1>5, <2>1 DEF Directory
  <2>3. e = c \/ e = d
    BY <1>3, <2>1
  <2> QED BY <1>3, <2>1, <2>2, <2>3
<1>7. \A e \in maybe' : Entry(e)'
  BY <1>2, <1>4, EntrySame DEF Directory
<1>8. Directory'
  BY <1>4, <1>6, <1>7 DEF Directory
<1>9. Stage'
  BY <1>2 DEF Stage
<1> QED BY <1>3, <1>4, <1>8, <1>9

LEMMA BaseKept ==
  ASSUME IInv, Next
  PROVE  Base'
<1>1. Base
  BY DEF IInv, Base
<1>2. Scalars'
  BY <1>1, ScalarsKept
<1>3. CASE CommitWrite \/ StartupReconcile \/ ReadCommitted
  BY <1>1, <1>2, <1>3, StartStep DEF Base
<1>4. CASE Reconcile \/ BeginWrite \/ Read \/ Verify
  BY <1>1, <1>2, <1>4, ReconcileStep, BeginStep, ReadStep, VerifyStep DEF Base
<1>5. CASE LinkMarker \/ SyncMarkers \/ CreateStaging \/ SyncFile \/ Promote
  BY <1>1, <1>2, <1>5, LinkMarkerStep, SyncMarkersStep, CreateStep, SyncFileStep, PromoteStep DEF Base
<1>6. CASE SyncRecord \/ LinkRejected
  BY <1>1, <1>2, <1>6, SyncRecordStep, LinkRejectedStep DEF Base
<1>7. CASE RemoveName
  <2>1. Doing("remove") \/ Doing("drop")
    BY <1>7 DEF RemoveName
  <2> QED BY <1>1, <1>2, <1>7, <2>1, RemoveStep, DropStep DEF Base
<1>8. CASE DropFails
  <2>1. Doing("drop")
    BY <1>8 DEF DropFails
  <2> QED BY <1>1, <1>2, <1>8, <2>1, DropStep DEF Base
<1>9. CASE ClassifyDebris \/ Return
  BY <1>1, <1>2, <1>9, DebrisStep, ReturnStep DEF Base
<1>10. CASE StepFails \/ StagingFails \/ ProcessKilled \/ PowerLoss
  BY <1>1, <1>2, <1>10, FaultStep, StagingFailsStep, PowerStep DEF Base
<1> QED BY <1>3, <1>4, <1>5, <1>6, <1>7, <1>8, <1>9, <1>10 DEF Next

-----------------------------------------------------------------------------
(* Names and bytes, action by action.                                      *)
LEMMA ContentsAt == \A g, w : w \in Contents(g) <=> w \in Writes /\ <<Generation(g), w>> \in maybe
BY DEF Contents

(* Nothing happened to the names.                                          *)
LEMMA NamesSame ==
  ASSUME UNCHANGED <<files, bytes>>
  PROVE  \A a : Names(a) => Names(a)'
<1>1. UNCHANGED <<seen, sure, maybe, bytes>>
  BY DEF files
<1>2. \A g : Contents(g)' = Contents(g)
  BY <1>1 DEF Contents
<1>3. \A p : (Candidate(p)' <=> Candidate(p)) /\ \A name : (Gone(name)' <=> Gone(name))
  BY <1>1 DEF Candidate, Whole, Gone
<1>4. \A p : Doubtful(p) => Doubtful(p)'
  BY <1>1, <1>2, <1>3 DEF Doubtful, Whole
<1> QED BY <1>1, <1>2, <1>3, <1>4 DEF Names

(* Unless a staging file is being written, no bytes are unsynced.          *)
LEMMA NoneWritten ==
  ASSUME Sealed, ~ Doing("syncFile")
  PROVE  \A w \in Writes : bytes[w] # "written"
BY DEF Sealed

LEMMA SealedKept ==
  ASSUME Sealed, ~ Doing("syncFile"), UNCHANGED bytes,
         \A e \in maybe' : e \in maybe \/ e[1][1] # "generation" \/ Whole(e[2])
  PROVE  Sealed'
BY NoneWritten DEF Sealed, Whole

(* The steps that change no file.                                          *)
LEMMA StillSafe ==
  ASSUME Safe, UNCHANGED <<files, bytes>>,
         Authority' \in {Authority, Durable}, Durable' \in {Authority, Durable}
  PROVE  Safe'
<1>1. UNCHANGED <<seen, sure, maybe>>
  BY DEF files
<1>2. Rejections'
  BY <1>1 DEF Safe, Rejections
<1>3. PICK a, b : a = Authority /\ b = Durable
  OBVIOUS
<1>4. Names(a)' /\ Names(b)'
  BY <1>3, NamesSame DEF Safe
<1>5. Names(Authority)' /\ Names(Durable)'
  <2>1. PICK c, d : c = Authority' /\ d = Durable'
    OBVIOUS
  <2>2. Names(c)' /\ Names(d)'
    BY <1>3, <1>4, <2>1
  <2> QED BY <2>1, <2>2
<1> QED BY <1>2, <1>5 DEF Safe

LEMMA StillSteps ==
  ASSUME Base, Safe,
         \/ CommitWrite \/ StartupReconcile \/ ReadCommitted \/ Reconcile \/ BeginWrite \/ Read
         \/ Verify \/ SyncMarkers \/ Return \/ DropFails \/ StepFails
  PROVE  Safe'
<1> USE DEF Base
<1>0. begun \in Nat
  BY Numbers DEF Scalars
<1>1. UNCHANGED <<files, bytes>>
  <2>1. CASE CommitWrite \/ StartupReconcile \/ ReadCommitted
    BY <2>1 DEF CommitWrite, StartupReconcile, ReadCommitted, Start
  <2>2. CASE Reconcile \/ BeginWrite \/ Read \/ Verify \/ SyncMarkers
    BY <2>2 DEF Reconcile, BeginWrite, Read, Load, Verify, SyncMarkers
  <2>3. CASE Return \/ DropFails \/ StepFails
    BY <2>3 DEF Return, DropFails, StepFails
  <2> QED BY <2>1, <2>2, <2>3
<1>2. Authority' = Authority /\ Durable' \in {Authority, Durable}
  <2>1. CASE CommitWrite \/ StartupReconcile \/ ReadCommitted
    <3>1. UNCHANGED chain /\ begun' \in Nat /\ begun' >= begun
      BY <1>0, <2>1 DEF CommitWrite, StartupReconcile, ReadCommitted, Start
    <3> QED BY <1>1, <3>1, StillStep
  <2>2. CASE Reconcile \/ BeginWrite \/ Read \/ SyncMarkers
    <3>1. UNCHANGED <<markers, begun>> /\ durableMarkers' = Len(markers)
      BY <2>2 DEF Reconcile, BeginWrite, Read, Load, SyncMarkers, GoOn, Proceed, LoadSyncs
    <3> QED BY <1>1, <3>1, LoadStep
  <2>3. CASE Verify \/ Return \/ DropFails \/ StepFails
    <3>1. UNCHANGED <<chain, begun>>
      BY <2>3 DEF Verify, Return, DropFails, StepFails, Interrupt, GoOn, Proceed
    <3> QED BY <1>0, <1>1, <3>1, StillStep
  <2> QED BY <2>1, <2>2, <2>3
<1> QED BY <1>1, <1>2, StillSafe

(* A marker changes what is in doubt.                                      *)
LEMMA LinkMarkerSafe ==
  ASSUME Base, Safe, LinkMarker
  PROVE  Safe'
<1> USE DEF Base
<1>1. /\ UNCHANGED <<durableMarkers, begun, files, bytes>> /\ Doing("linkMarker")
      /\ markers' = Append(markers, todo[1][2])
  BY DEF LinkMarker, Proceed, GoOn
<1>2. AtLinkMarker
  BY <1>1, StageAt
<1>3. Legal(Authority) /\ begun \in Nat
  BY LegalViews, Numbers DEF Scalars
<1>4. UNCHANGED <<seen, sure, maybe>>
  BY <1>1 DEF files
<1>6. Rejections'
  BY <1>4 DEF Safe, Rejections
<1>7. PICK o : o = Authority
  OBVIOUS
<1>8. Names(o)' /\ Names(o)
  BY <1>1, <1>7, NamesSame DEF Safe
<1>9. ASSUME NEW a, Names(a), NEW b \in Bodies, b.op <= begun, Synced, markers' = Append(markers, b),
             a = Transition(Authority, b), Legal(a)
      PROVE  Safe'
  <2>1. Authority' = a /\ Durable' = o
    BY <1>1, <1>7, <1>9, ChainGrows
  <2>2. Names(a)'
    BY <1>1, <1>9, NamesSame
  <2>3. Names(Authority)' /\ Names(Durable)'
    BY <1>8, <2>1, <2>2
  <2> QED BY <1>6, <2>3 DEF Safe
<1>10. CASE LET s == Authority.serving
                p == [gen |-> s.gen + 1, op |-> begun]
            IN /\ Synced /\ Resolved /\ Fresh
               /\ Does(<<"linkMarker", Pending(s.gen, p.gen, p.op)>>, Announced(p, Reporting(begun)))
  <2>1. PICK s, p, w : s = Authority.serving /\ p = [gen |-> s.gen + 1, op |-> w] /\ w = begun
    OBVIOUS
  <2>2. PICK b, a : b = Pending(s.gen, p.gen, w) /\ a = [state |-> "pending", serving |-> s, pending |-> p]
    OBVIOUS
  <2>3. Synced /\ Resolved /\ Fresh /\ todo[1] = <<"linkMarker", b>>
    BY <1>10, <2>1, <2>2 DEF Does
  <2>4. b \in Bodies /\ Transition(Authority, b) = a /\ Legal(a)
    BY <2>1, <2>2, <2>3, LegalSteps DEF Fresh, Resolved
  <2>5. markers' = Append(markers, b) /\ b.op <= begun /\ p.gen = s.gen + 1 /\ p.op = begun
    BY <1>1, <1>3, <2>1, <2>2, <2>3 DEF Pending
  <2>6. Names(a)
    <3>1. /\ a.state = "pending" /\ a.serving = s /\ a.pending = p
      BY <2>2
    <3>2. begun \in Writes /\ Unused(begun)
      BY <1>3, <2>3 DEF Fresh
    <3>3. \A e \in maybe : e[2] # begun /\ \A name : e[1] # Rejected(name, begun)
      BY <3>2 DEF Unused
    <3>4. begun \notin Contents(p.gen)
      <4>1. <<Generation(p.gen), begun>>[2] = begun
        OBVIOUS
      <4> QED BY <3>3, <4>1 DEF Contents
    <3>5. \A x, y \in Contents(p.gen) : x = y
      <4>1. CASE o.state # "pending"
        BY <1>7, <1>8, <2>1, <2>5, <4>1 DEF Names
      <4>2. CASE o.state = "pending"
        <5>1. PICK q : q = o.pending
          OBVIOUS
        <5>2. o.serving = Nothing /\ NoCandidate(q) /\ q.gen = p.gen /\ q.op \in Writes
          BY <1>3, <1>7, <2>1, <2>3, <2>5, <4>2, <5>1, LegalParts DEF Resolved
        <5>3. Doubtful(q) /\ ~ Candidate(q)
          BY <1>8, <4>2, <5>1, <5>2 DEF Names, NoCandidate
        <5>4. \A x, y \in Contents(q.gen) \ {q.op} : x = y
          BY <5>3 DEF Doubtful
        <5>5. q.op \in Contents(q.gen) => Contents(q.gen) = {q.op}
          BY <5>3 DEF Doubtful
        <5> QED BY <5>2, <5>4, <5>5
      <4> QED BY <4>1, <4>2
    <3>6. \A r : <<Rejected(Generation(p.gen), begun), r>> \notin seen
      <4> SUFFICES ASSUME NEW r, NEW n, n = Rejected(Generation(p.gen), begun), <<n, r>> \in seen PROVE FALSE
        OBVIOUS
      <4>1. <<n, r>> \in maybe /\ <<n, r>>[1] = n
        BY DEF Directory
      <4> QED BY <3>3, <4>1
    <3>8. Doubtful(p)
      BY <2>5, <3>4, <3>5, <3>6 DEF Doubtful
    <3>9. \A g \in Nat : Contents(g) # {} => g <= s.gen + 1
      BY <1>7, <1>8, <2>1 DEF Names
    <3> QED BY <2>5, <3>1, <3>2, <3>8, <3>9 DEF Names
  <2> QED BY <1>9, <2>3, <2>4, <2>5, <2>6
<1>11. CASE \E p, K : /\ Synced /\ InDoubt(p) /\ Final(p, K) /\ Candidate(p)
                      /\ <<Generation(p.gen), p.op>> \in sure /\ Settled
                      /\ Does(<<"linkMarker", Active(p)>>, Recording(p, K))
  <2>1. PICK p, K : /\ Synced /\ InDoubt(p)
                    /\ Does(<<"linkMarker", Active(p)>>, Recording(p, K))
    BY <1>11
  <2>2. PICK b, a : b = Active(p) /\ a = [state |-> "active", serving |-> p, pending |-> Nothing]
    OBVIOUS
  <2>3. b \in Bodies /\ Transition(Authority, b) = a /\ Legal(a) /\ b.op <= begun
    BY <2>1, <2>2, LegalSteps DEF InDoubt
  <2>4. markers' = Append(markers, b)
    BY <1>1, <2>1, <2>2 DEF Does
  <2>5. Names(a)
    <3>1. a.state = "active" /\ a.serving = p
      BY <2>2
    <3>2. p.gen \in Nat /\ p.gen = o.serving.gen + 1
      BY <1>3, <1>7, <2>1, LegalParts, Numbers DEF InDoubt
    <3>3. \A g \in Nat : Contents(g) # {} => g <= p.gen
      BY <1>8, <3>2 DEF Names
    <3>4. Contents(p.gen + 1) = {}
      BY <3>2, <3>3
    <3>5. \A g \in Nat : Contents(g) # {} => g <= p.gen + 1
      BY <3>2, <3>3
    <3> QED BY <3>1, <3>4, <3>5 DEF Names
  <2> QED BY <1>9, <2>1, <2>3, <2>4, <2>5
<1>12. CASE \E T : /\ Queue(T) /\ Rejects(Authority.pending) /\ Authority.serving # Nothing
                   /\ Does(<<"linkMarker", Active(Authority.serving)>>, Restored(T))
  <2>1. PICK T, s, p : /\ Rejects(p) /\ s # Nothing /\ s = Authority.serving /\ p = Authority.pending
                       /\ Does(<<"linkMarker", Active(s)>>, Restored(T))
    BY <1>12
  <2>2. PICK b, a : b = Active(s) /\ a = [state |-> "active", serving |-> s, pending |-> Nothing]
    OBVIOUS
  <2>3. Authority.state = "pending" /\ Synced /\ NoCandidate(p)
    BY <2>1 DEF Rejects, InDoubt
  <2>4. b \in Bodies /\ Transition(Authority, b) = a /\ Legal(a) /\ b.op <= begun
    BY <2>1, <2>2, <2>3, LegalSteps
  <2>5. markers' = Append(markers, b)
    BY <1>1, <2>1, <2>2 DEF Does
  <2>6. Names(a)
    <3>1. a.state = "active" /\ a.serving = s
      BY <2>2
    <3>2. p.gen = s.gen + 1 /\ Doubtful(p)
      BY <1>3, <1>7, <1>8, <2>1, <2>3, LegalParts DEF Names
    <3>3. ~ Candidate(p)
      BY <2>3 DEF NoCandidate
    <3>4. \A x, y \in Contents(p.gen) : x = y
      <4>1. \A x, y \in Contents(p.gen) \ {p.op} : x = y
        BY <3>2 DEF Doubtful
      <4>2. p.op \in Contents(p.gen) => Contents(p.gen) = {p.op}
        BY <3>2, <3>3 DEF Doubtful
      <4> QED BY <4>1, <4>2
    <3>5. \A g \in Nat : Contents(g) # {} => g <= s.gen + 1
      BY <1>7, <1>8, <2>1 DEF Names
    <3> QED BY <3>1, <3>2, <3>4, <3>5 DEF Names
  <2> QED BY <1>9, <2>3, <2>4, <2>5, <2>6
<1> QED BY <1>2, <1>10, <1>11, <1>12 DEF AtLinkMarker

LEMMA SyncedSame ==
  ASSUME Base, Synced, UNCHANGED <<chain, begun>>
  PROVE  Authority' = Authority /\ Durable' = Authority /\ Durable = Authority
<1>1. begun \in Nat
  BY Numbers DEF Base, Scalars
<1>2. Authority' = Authority /\ Durable' = Durable
  BY <1>1, ChainSame DEF Base
<1>3. Durable = Authority
  BY Serving DEF Base
<1> QED BY <1>2, <1>3

LEMMA OneAuthority ==
  ASSUME Rejections', NEW a, Authority' = a, Durable' = a, Names(a)'
  PROVE  Safe'
<1>1. Names(Authority)' /\ Names(Durable)'
  OBVIOUS
<1> QED BY <1>1 DEF Safe

(* A new rejected name or one of another kind.                             *)
LEMMA RejectionsKept ==
  ASSUME Rejections, \A e \in seen : e[1][1] = "rejected" => e \in seen',
         \A e \in maybe' : \/ e \in maybe
                           \/ e[1][1] # "rejected"
                           \/ e \in seen' /\ \A g, w, v : e[1] = Rejected(Staging(g, v), w) => e[2] = w /\ v = w
  PROVE  Rejections'
<1> SUFFICES ASSUME NEW e \in maybe', e[1][1] = "rejected"
             PROVE  /\ e \in seen'
                    /\ \A g, w, v : e[1] = Rejected(Staging(g, v), w) => e[2] = w /\ v = w
  BY DEF Rejections
<1>1. CASE e \in maybe
  BY <1>1 DEF Rejections
<1> QED BY <1>1

(* The write being created left no trace but its staging file.             *)
LEMMA UnseenDoubt ==
  ASSUME Directory', NEW p,
         \A e \in maybe' : (e[2] = p.op => \A g : e[1] # Generation(g)) /\ \A name : e[1] # Rejected(name, p.op),
         \A x, y \in Contents(p.gen)' \ {p.op} : x = y
  PROVE  Doubtful(p)'
<1>1. p.op \notin Contents(p.gen)'
  <2>1. PICK n, e, w : n = Generation(p.gen) /\ w = p.op /\ e = <<n, w>>
    OBVIOUS
  <2>2. e[1] = n /\ e[2] = w
    BY <2>1
  <2> QED BY <2>1, <2>2 DEF Contents
<1>2. \A r : <<Rejected(Generation(p.gen), p.op), r>> \notin seen'
  <2> SUFFICES ASSUME NEW r, NEW n, n = Rejected(Generation(p.gen), p.op), <<n, r>> \in seen' PROVE FALSE
    OBVIOUS
  <2>1. <<n, r>> \in maybe' /\ <<n, r>>[1] = n
    BY DEF Directory
  <2> QED BY <2>1
<1> QED BY <1>1, <1>2 DEF Doubtful

LEMMA CreateSealed ==
  ASSUME Base, Sealed, CreateStaging
  PROVE  Sealed'
<1> USE DEF Base
<1>1. /\ UNCHANGED <<chain, begun>> /\ Doing("create") /\ todo' = Tail(todo) /\ ~ Doing("syncFile")
      /\ Link(todo[1][2], todo[1][3]) /\ bytes' = [bytes EXCEPT ![todo[1][3]] = "written"]
  BY DEF CreateStaging, Proceed, GoOn, Doing
<1>2. PICK p, w : /\ Synced /\ InDoubt(p) /\ p.op = w /\ w = begun /\ Unused(begun)
                  /\ Does(<<"create", Staging(p.gen, p.op), p.op>>, Sealing(p, Reporting(w)))
  BY <1>1, StageAt DEF AtCreate
<1>3. PICK name, x : name = Staging(p.gen, w) /\ x = <<name, w>>
  OBVIOUS
<1>4. /\ maybe' = maybe \cup {x} /\ x[1] = name /\ x[2] = w
      /\ bytes' = [bytes EXCEPT ![w] = "written"] /\ todo' = Sealing(p, Reporting(w))
  BY <1>1, <1>2, <1>3 DEF Does, Link
<1>5. w \in Writes
  BY <1>2, LegalViews, LegalParts DEF InDoubt
<1>6. name[1] = "staging"
  BY <1>3, Names0
<1>7. todo'[1] = <<"syncFile", Staging(p.gen, p.op), p.op>> /\ todo' # << >>
  <2>1. IsList(Promoting(p, Reporting(w)))
    BY ListOf, PlanLists DEF Reporting
  <2> QED BY <1>4, <2>1, ListRest DEF Sealing
<1>8. Doing("syncFile")' /\ todo'[1][3] = w
  BY <1>2, <1>7 DEF Doing
<1>9. \A v \in Writes : bytes'[v] = "written" => v = w
  BY <1>1, <1>4, <1>5, NoneWritten DEF Scalars
<1>10. ASSUME NEW e \in maybe', e[1][1] = "generation"
       PROVE  bytes'[e[2]] \in {"stranded", "sealed", "lost"}
  <2>1. e \in maybe
    BY <1>4, <1>6, <1>10
  <2>2. e[2] # w /\ bytes[e[2]] \in {"stranded", "sealed", "lost"}
    BY <1>2, <1>10, <2>1 DEF Unused, Sealed
  <2>3. e[2] \in Writes
    <3>1. e[2] \in 1 .. begun
      BY <2>1 DEF Directory, Entry
    <3> QED BY <1>2, <1>5, <3>1, Numbers DEF Writes
  <2> QED BY <1>4, <1>5, <2>2, <2>3 DEF Scalars
<1> QED BY <1>8, <1>9, <1>10 DEF Sealed

(* The state of the envelope being written changes; no generation has it.  *)
LEMMA WrittenSealed ==
  ASSUME Base, Sealed, Doing("syncFile"), NEW state, state # "written",
         bytes' = [bytes EXCEPT ![todo[1][3]] = state], maybe' = maybe
  PROVE  Sealed'
<1> USE DEF Base
<1>1. PICK p, w : /\ InDoubt(p) /\ p.op = w /\ w = begun
                  /\ \A e \in maybe : e[2] = begun => e[1] = Staging(p.gen, p.op)
                  /\ todo[1] = <<"syncFile", Staging(p.gen, p.op), p.op>>
  BY StageAt DEF AtSyncFile, Does
<1>2. w \in Writes
  BY <1>1, LegalViews, LegalParts DEF InDoubt
<1>3. todo[1][3] = w
  BY <1>1
<1>4. \A v \in Writes : bytes'[v] # "written"
  BY <1>2, <1>3 DEF Sealed, Scalars
<1>5. ASSUME NEW e \in maybe, e[1][1] = "generation"
      PROVE  bytes'[e[2]] \in {"stranded", "sealed", "lost"}
  <2>1. e[2] # w
    BY <1>1, <1>5, Names0
  <2>2. bytes[e[2]] \in {"stranded", "sealed", "lost"}
    BY <1>5 DEF Sealed
  <2>3. e[2] \in Writes
    <3>1. e[2] \in 1 .. begun
      BY DEF Directory, Entry
    <3> QED BY <1>1, <1>2, <3>1, Numbers DEF Writes
  <2> QED BY <1>2, <1>3, <2>1, <2>2, <2>3 DEF Scalars
<1> QED BY <1>4, <1>5 DEF Sealed

LEMMA PowerSealed ==
  ASSUME Base, Sealed, PowerLoss
  PROVE  Sealed'
<1> USE DEF Base
<1>1. maybe' \subseteq maybe
  BY DEF PowerLoss
<1>2. PICK kept : bytes' = [w \in Writes |-> AfterLoss(w, kept)]
  BY DEF PowerLoss
<1>3. \A v \in Writes : bytes'[v] # "written"
  BY <1>2 DEF AfterLoss, Cached
<1>4. ASSUME NEW e \in maybe', e[1][1] = "generation"
      PROVE  bytes'[e[2]] \in {"stranded", "sealed", "lost"}
  <2>1. e \in maybe /\ bytes[e[2]] \in {"stranded", "sealed", "lost"}
    BY <1>1, <1>4 DEF Sealed
  <2>2. e[2] \in Writes
    <3>1. e[2] \in 1 .. begun
      BY <2>1 DEF Directory, Entry
    <3> QED BY <3>1, Numbers DEF Scalars, Writes
  <2> QED BY <1>2, <2>1, <2>2 DEF AfterLoss, Cached
<1> QED BY <1>3, <1>4 DEF Sealed

(* A generation's bytes are whole, or a power loss has taken them.         *)
LEMMA SealedAlways ==
  ASSUME Base, Sealed, Next
  PROVE  Sealed'
<1> USE DEF Base
<1>1. CASE \/ CommitWrite \/ StartupReconcile \/ ReadCommitted \/ Reconcile \/ BeginWrite \/ Read
           \/ Verify \/ LinkMarker \/ SyncMarkers
  <2>1. UNCHANGED <<files, bytes>> /\ ~ Doing("syncFile")
    BY <1>1 DEF CommitWrite, StartupReconcile, ReadCommitted, Start, Reconcile, BeginWrite, Read, Load,
                Verify, LinkMarker, SyncMarkers, Doing
  <2> QED BY <2>1, SealedKept DEF files
<1>2. CASE Return \/ DropFails \/ StepFails
  <2>1. UNCHANGED <<files, bytes>> /\ ~ Doing("syncFile")
    BY <1>2 DEF Return, DropFails, StepFails, Infallible, Doing
  <2> QED BY <2>1, SealedKept DEF files
<1>3. CASE SyncRecord \/ RemoveName \/ ClassifyDebris
  <2>1. UNCHANGED bytes /\ maybe' \subseteq maybe /\ ~ Doing("syncFile")
    BY <1>3 DEF SyncRecord, RemoveName, ClassifyDebris, Unlink, Doing, Directory
  <2> QED BY <2>1, SealedKept
<1>4. CASE LinkRejected
  <2>1. UNCHANGED bytes /\ ~ Doing("syncFile")
    BY <1>4 DEF LinkRejected, Doing
  <2>2. PICK name, w : name = Rejected(todo[1][2], todo[1][3]) /\ (UNCHANGED files \/ Link(name, w))
    BY <1>4 DEF LinkRejected
  <2>3. \A e \in maybe' : e \in maybe \/ e[1] = name
    BY <2>2 DEF files, Link
  <2>4. name[1] # "generation"
    BY <2>2, Names0
  <2> QED BY <2>1, <2>3, <2>4, SealedKept
<1>5. CASE Promote
  <2>1. UNCHANGED bytes /\ ~ Doing("syncFile") /\ Doing("promote")
    BY <1>5 DEF Promote, Doing
  <2>2. PICK p, r : Candidate(p) /\ Does(<<"promote", Staging(p.gen, p.op), Generation(p.gen), p.op>>, r)
    BY <2>1, StageAt DEF AtPromote
  <2>3. todo[1][4] = p.op
    BY <2>2 DEF Does
  <2>4. \A e \in maybe' : e \in maybe \/ e[2] = p.op
    BY <1>5, <2>3 DEF Promote, Link, files
  <2> QED BY <2>1, <2>2, <2>4, SealedKept DEF Candidate
<1>6. CASE SyncFile
  BY <1>6, WrittenSealed DEF SyncFile, files
<1>7. CASE StagingFails
  <2>1. PICK left \in Unsynced : bytes' = [bytes EXCEPT ![todo[1][3]] = left]
    BY <1>7 DEF StagingFails
  <2>2. Doing("syncFile") /\ maybe' = maybe /\ left # "written"
    BY <1>7, <2>1 DEF StagingFails, Unlink, files, Unsynced
  <2> QED BY <2>1, <2>2, WrittenSealed
<1>8. CASE ProcessKilled
  <2>1. maybe' = maybe
    BY <1>8 DEF ProcessKilled, files
  <2>2. CASE Doing("syncFile")
    <3>1. PICK left \in Unsynced : bytes' = [bytes EXCEPT ![todo[1][3]] = left]
      BY <1>8, <2>2 DEF ProcessKilled
    <3>2. left # "written"
      BY DEF Unsynced
    <3> QED BY <2>1, <2>2, <3>1, <3>2, WrittenSealed
  <2>3. CASE ~ Doing("syncFile")
    <3>1. UNCHANGED bytes
      BY <1>8, <2>3 DEF ProcessKilled
    <3> QED BY <2>1, <2>3, <3>1, SealedKept
  <2> QED BY <2>2, <2>3
<1> QED BY <1>1, <1>2, <1>3, <1>4, <1>5, <1>6, <1>7, <1>8, CreateSealed, PowerSealed DEF Next

(* What is lost stays lost.                                                *)
LEMMA LostStays ==
  ASSUME Base, Next, Lost
  PROVE  Lost'
<1> USE DEF Base
<1>1. PICK w \in Writes : bytes[w] = "lost"
  BY DEF Lost
<1>2. CASE UNCHANGED bytes
  BY <1>1, <1>2 DEF Lost
<1>3. CASE CreateStaging \/ SyncFile \/ StagingFails \/ (ProcessKilled /\ Doing("syncFile"))
  <2>1. /\ \E state : bytes' = [bytes EXCEPT ![todo[1][3]] = state]
        /\ Doing("create") \/ Doing("syncFile")
    BY <1>3 DEF CreateStaging, SyncFile, StagingFails, ProcessKilled
  <2>2. todo[1][3] # w
    BY <1>1, <2>1, WritingAt
  <2>3. bytes'[w] = "lost"
    BY <1>1, <2>1, <2>2 DEF Scalars
  <2> QED BY <2>3 DEF Lost
<1>4. CASE PowerLoss
  <2>1. PICK kept : bytes' = [v \in Writes |-> AfterLoss(v, kept)]
    BY <1>4 DEF PowerLoss
  <2> QED BY <1>1, <2>1 DEF Lost, AfterLoss, Cached
<1>5. CASE \/ CommitWrite \/ StartupReconcile \/ ReadCommitted \/ Reconcile \/ BeginWrite \/ Read
           \/ Verify \/ LinkMarker \/ SyncMarkers
  BY <1>2, <1>5 DEF CommitWrite, StartupReconcile, ReadCommitted, Start, Reconcile, BeginWrite, Read, Load,
                    Verify, LinkMarker, SyncMarkers
<1>6. CASE \/ Return \/ DropFails \/ StepFails \/ SyncRecord \/ RemoveName \/ ClassifyDebris
           \/ LinkRejected \/ Promote \/ (ProcessKilled /\ ~ Doing("syncFile"))
  BY <1>2, <1>6 DEF Return, DropFails, StepFails, SyncRecord, RemoveName, ClassifyDebris, LinkRejected, Promote,
                    ProcessKilled
<1> QED BY <1>3, <1>4, <1>5, <1>6 DEF Next

LEMMA CreateSafe ==
  ASSUME Base, Safe, CreateStaging
  PROVE  Safe'
<1> USE DEF Base
<1>1. /\ UNCHANGED <<chain, begun>> /\ Doing("create")
      /\ Link(todo[1][2], todo[1][3]) /\ bytes' = [bytes EXCEPT ![todo[1][3]] = "written"]
  BY DEF CreateStaging, Proceed, GoOn
<1>2. AtCreate
  BY <1>1, StageAt
<1>3. PICK p, w : /\ Synced /\ InDoubt(p) /\ p.op = w /\ w = begun /\ Unused(begun)
                  /\ Does(<<"create", Staging(p.gen, p.op), p.op>>, Sealing(p, Reporting(w)))
  BY <1>2 DEF AtCreate
<1>4. PICK name, x : name = Staging(p.gen, w) /\ x = <<name, w>>
  OBVIOUS
<1>5. /\ seen' = seen \cup {x} /\ maybe' = maybe \cup {x} /\ sure' = sure /\ x[1] = name /\ x[2] = w
      /\ bytes' = [bytes EXCEPT ![w] = "written"]
  BY <1>1, <1>3, <1>4 DEF Does, Link
<1>6. w \in Writes
  BY <1>3, LegalViews, LegalParts DEF InDoubt
<1>7. name[1] = "staging" /\ (\A g : name # Generation(g)) /\ \A n, v : name # Rejected(n, v)
  BY <1>4, Names0
<1>8. \A e \in maybe : e[2] # w /\ \A n : e[1] # Rejected(n, w)
  BY <1>3 DEF Unused
<1>10. Rejections'
  BY <1>5, <1>7, RejectionsKept DEF Safe
<1>11. PICK a : a = Authority
  OBVIOUS
<1>12. Authority' = a /\ Durable' = a /\ Names(a)
  BY <1>1, <1>3, <1>11, SyncedSame DEF Safe
<1>13. \A g : Contents(g)' = Contents(g)
  <2> SUFFICES ASSUME NEW g, NEW v, NEW n, n = Generation(g), <<n, v>> = x PROVE FALSE
    BY <1>5 DEF Contents
  <2>1. n = name
    BY <1>5
  <2> QED BY <1>7, <2>1
<1>14. a.state = "pending" /\ a.pending = p
  BY <1>3, <1>11 DEF InDoubt
<1>15. Doubtful(p)'
  <2>2. \A e \in maybe' : (e[2] = p.op => \A g : e[1] # Generation(g)) /\ \A n : e[1] # Rejected(n, p.op)
    BY <1>3, <1>5, <1>7, <1>8
  <2>3. \A u, v \in Contents(p.gen)' \ {p.op} : u = v
    BY <1>12, <1>13, <1>14 DEF Names, Doubtful
  <2>4. Directory'
    BY <1>1, CreateStep
  <2> QED BY <2>2, <2>3, <2>4, UnseenDoubt
<1>16. Names(a)'
  BY <1>1, <1>3, <1>12, <1>13, <1>14, <1>15 DEF Names
<1> QED BY <1>10, <1>12, <1>16, OneAuthority

LEMMA SyncFileSafe ==
  ASSUME Base, Safe, SyncFile
  PROVE  Safe'
<1> USE DEF Base
<1>1. /\ UNCHANGED <<chain, files, begun>> /\ Doing("syncFile")
      /\ bytes' = [bytes EXCEPT ![todo[1][3]] = "sealed"]
  BY DEF SyncFile, Proceed, GoOn
<1>2. AtSyncFile
  BY <1>1, StageAt
<1>3. PICK p, w : /\ Synced /\ InDoubt(p) /\ p.op = w /\ w = begun
                  /\ <<Staging(p.gen, p.op), p.op>> \in seen
                  /\ \A e \in maybe : /\ e[2] = begun => e[1] = Staging(p.gen, p.op)
                                      /\ \A name : e[1] # Rejected(name, begun)
                  /\ todo[1] = <<"syncFile", Staging(p.gen, p.op), p.op>>
  BY <1>2 DEF AtSyncFile, Does
<1>4. w \in Writes /\ todo[1][3] = w
  <2>1. w \in Writes
    BY <1>3, LegalViews, LegalParts DEF InDoubt
  <2>2. todo[1] = <<"syncFile", Staging(p.gen, p.op), p.op>> /\ p.op = w
    BY <1>3
  <2>3. todo[1][3] = w
    BY <2>2
  <2> QED BY <2>1, <2>3
<1>5. UNCHANGED <<seen, sure, maybe>> /\ bytes' = [bytes EXCEPT ![w] = "sealed"]
  BY <1>1, <1>4 DEF files
<1>7. Rejections'
  BY <1>5 DEF Safe, Rejections
<1>8. PICK a : a = Authority
  OBVIOUS
<1>9. Authority' = a /\ Durable' = a /\ Names(a)
  BY <1>1, <1>3, <1>8, SyncedSame DEF Safe
<1>10. a.state = "pending" /\ a.pending = p
  BY <1>3, <1>8 DEF InDoubt
<1>11. \A g : Contents(g)' = Contents(g)
  BY <1>5 DEF Contents
<1>12. p.op \notin Contents(p.gen)
  <2>1. PICK n, e : n = Generation(p.gen) /\ e = <<n, w>>
    OBVIOUS
  <2>2. e[1] = n /\ e[2] = w
    BY <2>1
  <2>3. n # Staging(p.gen, p.op)
    BY <2>1, Names0
  <2> QED BY <1>3, <2>1, <2>2, <2>3 DEF Contents
<1>13. \A r : <<Rejected(Generation(p.gen), p.op), r>> \notin seen
  <2> SUFFICES ASSUME NEW r, NEW n, n = Rejected(Generation(p.gen), p.op), <<n, r>> \in seen PROVE FALSE
    OBVIOUS
  <2>1. <<n, r>> \in maybe /\ <<n, r>>[1] = n
    BY DEF Directory
  <2> QED BY <1>3, <2>1
<1>14. Candidate(p)'
  BY <1>3, <1>4, <1>5 DEF Candidate, Whole, Scalars
<1>15. Doubtful(p)'
  <2>1. \A u, v \in Contents(p.gen) \ {p.op} : u = v
    BY <1>9, <1>10 DEF Names, Doubtful
  <2> QED BY <1>5, <1>11, <1>12, <1>13, <1>14, <2>1 DEF Doubtful
<1>16. Names(a)'
  BY <1>1, <1>3, <1>9, <1>10, <1>11, <1>15 DEF Names
<1> QED BY <1>7, <1>9, <1>16, OneAuthority

LEMMA PromoteSafe ==
  ASSUME Base, Safe, Promote
  PROVE  Safe'
<1> USE DEF Base
<1>1. UNCHANGED <<chain, begun, bytes>> /\ Doing("promote")
  BY DEF Promote, GoOn
<1>2. AtPromote
  BY <1>1, StageAt
<1>3. PICK p, K, w : /\ Synced /\ InDoubt(p) /\ Candidate(p) /\ w = p.op
                     /\ Does(<<"promote", Staging(p.gen, p.op), Generation(p.gen), p.op>>, Syncing(p, K))
  BY <1>2 DEF AtPromote
<1>4. PICK name, x : name = Generation(p.gen) /\ x = <<name, w>>
  OBVIOUS
<1>5. todo[1][3] = name /\ todo[1][4] = w /\ x[1] = name /\ x[2] = w /\ name[1] = "generation"
  BY <1>3, <1>4, Names0 DEF Does
<1>6. PICK a : a = Authority
  OBVIOUS
<1>7. Authority' = a /\ Durable' = a /\ Names(a) /\ Durable = a
  BY <1>1, <1>3, <1>6, SyncedSame DEF Safe
<1>8. a.state = "pending" /\ a.pending = p
  BY <1>3, <1>6 DEF InDoubt
<1>9. CASE Present(name)
  <2>1. UNCHANGED files
    BY <1>5, <1>9 DEF Promote, LinkFree
  <2> QED BY <1>1, <1>6, <1>7, <2>1, StillSafe
<1>10. CASE ~ Present(name)
  <2>1. seen' = seen \cup {x} /\ maybe' = maybe \cup {x} /\ sure' = sure
    BY <1>4, <1>5, <1>10 DEF Promote, LinkFree, Link
  <2>2. Gone(name)
    BY <1>10, NameOf
  <2>4. Rejections'
    BY <1>5, <2>1, RejectionsKept DEF Safe
  <2>5. w \in Writes /\ a.serving.gen \in Nat /\ p.gen = a.serving.gen + 1
    BY <1>3, <1>6, <1>8, LegalViews, LegalParts
  <2>6. \A g : g # p.gen => Contents(g)' = Contents(g)
    <3> SUFFICES ASSUME NEW g, g # p.gen, NEW v, NEW n, n = Generation(g), <<n, v>> = x PROVE FALSE
      BY <2>1 DEF Contents
    <3>1. n = name
      BY <1>5
    <3> QED BY <1>4, <3>1, Names0
  <2>7. Contents(p.gen)' = Contents(p.gen) \cup {w}
    <3>1. \A v : <<name, v>> = x => v = w
      BY <1>5
    <3> QED BY <1>4, <2>1, <2>5, <3>1 DEF Contents
  <2>8. Doubtful(p)
    BY <1>7, <1>8 DEF Names
  <2>9. Candidate(p)'
    BY <1>1, <1>3, <2>1 DEF Candidate, Whole
  <2>10. Doubtful(p)'
    <3>1. \A u, v \in Contents(p.gen)' \ {p.op} : u = v
      BY <1>3, <2>7, <2>8 DEF Doubtful
    <3>2. \A v \in Writes : <<name, v>> \in seen' => v = p.op
      <4> SUFFICES ASSUME NEW v \in Writes, <<name, v>> \in seen' PROVE v = w
        BY <1>3
      <4>1. <<name, v>>[1] = name /\ <<name, v>>[2] = v
        OBVIOUS
      <4> QED BY <1>5, <2>1, <2>2, <4>1 DEF Gone
    <3>3. ASSUME NEW r \in Writes, <<Rejected(name, p.op), r>> \in seen'
          PROVE  /\ <<Staging(p.gen, p.op), p.op>> \in sure' /\ Whole(p.op)'
                 /\ Contents(p.gen)' \subseteq {r, p.op}
      <4>1. PICK n : n = Rejected(name, p.op)
        OBVIOUS
      <4>2. <<n, r>>[1] = n /\ n # name
        BY <4>1, <1>4, Names0
      <4>3. <<n, r>> \in seen
        BY <1>5, <2>1, <3>3, <4>1, <4>2
      <4>4. <<Staging(p.gen, p.op), p.op>> \in sure /\ Contents(p.gen) \subseteq {r, p.op}
        BY <1>3, <1>4, <2>2, <2>8, <4>1, <4>3 DEF Doubtful
      <4> QED BY <1>1, <1>3, <2>1, <2>7, <4>4 DEF Candidate, Whole
    <3>4. ~ Gone(name)'
      BY <1>5, <2>1 DEF Gone
    <3> QED BY <1>4, <2>9, <3>1, <3>2, <3>3, <3>4 DEF Doubtful
  <2>11. \A g \in Nat : Contents(g)' # {} => g <= a.serving.gen + 1
    BY <1>7, <2>5, <2>6 DEF Names
  <2>12. Names(a)'
    BY <1>1, <1>3, <1>8, <2>10, <2>11 DEF Names
  <2> QED BY <1>7, <2>4, <2>12, OneAuthority
<1> QED BY <1>9, <1>10

LEMMA SyncRecordSafe ==
  ASSUME Base, Safe, SyncRecord
  PROVE  Safe'
<1> USE DEF Base
<1>1. /\ UNCHANGED <<chain, begun, seen, bytes>> /\ Doing("syncRecord")
      /\ sure' = seen /\ maybe' = seen
  BY DEF SyncRecord, Proceed, GoOn
<1>2. AtSyncRecord
  BY <1>1, StageAt
<1>3. Synced /\ maybe' \subseteq maybe /\ sure \subseteq sure'
  BY <1>1, <1>2 DEF AtSyncRecord, Moves, Directory
<1>5. Rejections'
  BY <1>1, <1>3, RejectionsKept DEF Safe
<1>6. PICK a : a = Authority
  OBVIOUS
<1>7. Authority' = a /\ Durable' = a /\ Names(a)
  BY <1>1, <1>3, <1>6, SyncedSame DEF Safe
<1>8. /\ \A g : Contents(g)' \subseteq Contents(g)
      /\ \A g : \A x, y \in Contents(g)' : x = y
      /\ \A g : \A w \in Writes : <<Generation(g), w>> \in seen => w \in Contents(g)'
  <2>1. ASSUME NEW g, NEW x, NEW y, <<Generation(g), x>> \in seen, <<Generation(g), y>> \in seen PROVE x = y
    <3>1. PICK n, e, f : n = Generation(g) /\ e = <<n, x>> /\ f = <<n, y>>
      OBVIOUS
    <3>2. e[1] = f[1] /\ e[2] = x /\ f[2] = y
      BY <3>1
    <3> QED BY <2>1, <3>1, <3>2 DEF Directory, OneContentPerName
  <2> QED BY <1>1, <1>3, <2>1 DEF Contents
<1>9. \A p : Candidate(p)' <=> Candidate(p)
  BY <1>1 DEF Candidate, Whole
<1>10. ASSUME NEW p, Doubtful(p) PROVE Doubtful(p)'
  <2>1. \A x, y \in Contents(p.gen)' \ {p.op} : x = y
    BY <1>8
  <2>2. p.op \in Contents(p.gen)' =>
          /\ Contents(p.gen)' = {p.op}
          /\ \A w \in Writes : <<Generation(p.gen), w>> \in seen' => w = p.op
    BY <1>1, <1>8
  <2>3. ASSUME NEW r \in Writes, <<Rejected(Generation(p.gen), p.op), r>> \in seen'
        PROVE  /\ Contents(p.gen)' \subseteq {r}
                  \/ /\ <<Staging(p.gen, p.op), p.op>> \in sure' /\ Whole(p.op)'
                     /\ Contents(p.gen)' \subseteq {r, p.op}
               /\ Candidate(p)' => <<Staging(p.gen, p.op), p.op>> \in sure'
    <3>1. \/ Contents(p.gen) \subseteq {r}
          \/ /\ <<Staging(p.gen, p.op), p.op>> \in sure /\ Whole(p.op)
             /\ Contents(p.gen) \subseteq {r, p.op}
      BY <1>1, <1>10, <2>3 DEF Doubtful
    <3>2. Candidate(p) => <<Staging(p.gen, p.op), p.op>> \in sure'
      BY <1>1 DEF Candidate
    <3>3. Whole(p.op)' <=> Whole(p.op)
      BY <1>1 DEF Whole
    <3> QED BY <1>1, <1>3, <1>8, <1>9, <3>1, <3>2, <3>3
  <2> QED BY <2>1, <2>2, <2>3 DEF Doubtful
<1>11. Names(a)'
  <2>1. a.state = "pending" => Doubtful(a.pending)'
    <3>1. PICK p : p = a.pending
      OBVIOUS
    <3> QED BY <1>7, <1>10, <3>1 DEF Names
  <2>3. a.state # "pending" => \A x, y \in Contents(a.serving.gen + 1)' : x = y
    BY <1>8
  <2>4. \A g \in Nat : Contents(g)' # {} => g <= a.serving.gen + 1
    BY <1>7, <1>8 DEF Names
  <2> QED BY <2>1, <2>3, <2>4 DEF Names
<1> QED BY <1>5, <1>7, <1>11, OneAuthority

(* A relocated generation holds nothing but what was copied, unless the    *)
(* candidate was promoted in its place.                                    *)
LEMMA MovedContents ==
  ASSUME Base, Safe, NEW p, p = Authority.pending, NEW K,
         Moves(Generation(p.gen), K), NEW w \in Writes, <<Generation(p.gen), w>> \in seen
  PROVE  Contents(p.gen) \subseteq {w}
<1> USE DEF Base
<1>1. Doubtful(p)
  BY DEF Moves, InDoubt, Safe, Names
<1>2. NoCandidate(p) \/ <<Generation(p.gen), p.op>> \notin seen
  <2>1. \/ NoCandidate(p) \/ <<Generation(p.gen), p.op>> \notin seen
    BY DEF Moves
  <2> QED BY <2>1
<1>3. w \in Contents(p.gen)
  BY DEF Contents, Directory
<1>4. CASE w = p.op
  <2>1. ~ Candidate(p)
    BY <1>2, <1>4 DEF NoCandidate
  <2> QED BY <1>1, <1>3, <1>4, <2>1 DEF Doubtful
<1>5. CASE w # p.op
  <2>1. p.op \notin Contents(p.gen)
    BY <1>1, <1>5 DEF Doubtful
  <2>2. \A x, y \in Contents(p.gen) \ {p.op} : x = y
    BY <1>1 DEF Doubtful
  <2> QED BY <1>3, <2>1, <2>2
<1> QED BY <1>4, <1>5

LEMMA LinkRejectedSafe ==
  ASSUME Base, Safe, LinkRejected
  PROVE  Safe'
<1> USE DEF Base
<1>1. UNCHANGED <<chain, begun, bytes>> /\ Doing("linkRejected")
  BY DEF LinkRejected, GoOn
<1>2. AtLinkRejected
  BY <1>1, StageAt
<1>3. PICK name, K, v, p : /\ Moves(name, K) /\ p = Authority.pending /\ v = p.op
                        /\ Does(<<"linkRejected", name, v>>, Copied(name, K))
  BY <1>2 DEF AtLinkRejected
<1>4. PICK rejected : rejected = Rejected(name, v)
  OBVIOUS
<1>5. /\ Synced /\ Authority.state = "pending"
      /\ name = Generation(p.gen) \/ name = Staging(p.gen, p.op)
  BY <1>3, MovedName
<1>6. todo[1][2] = name /\ todo[1][3] = v
  BY <1>3 DEF Does
<1>7. PICK w \in Holders(seen, name) : IF Present(rejected) THEN UNCHANGED files ELSE Link(rejected, w)
  BY <1>4, <1>6 DEF LinkRejected
<1>8. <<name, w>> \in seen /\ w \in Writes
  <2>1. <<name, w>> \in seen
    BY NameOf
  <2>2. <<name, w>>[2] = w
    OBVIOUS
  <2>3. w \in 1 .. begun
    BY <2>1, <2>2, NameOf
  <2> QED BY <2>1, <2>3, Numbers DEF Scalars, Writes
<1>9. PICK a : a = Authority
  OBVIOUS
<1>10. Authority' = a /\ Durable' = a /\ Names(a) /\ Durable = a
  BY <1>1, <1>5, <1>9, SyncedSame DEF Safe
<1>11. CASE Present(rejected)
  <2>1. UNCHANGED files
    BY <1>7, <1>11
  <2> QED BY <1>1, <1>9, <1>10, <2>1, StillSafe
<1>12. CASE ~ Present(rejected)
  <2>1. PICK x : x = <<rejected, w>>
    OBVIOUS
  <2>2. /\ seen' = seen \cup {x} /\ maybe' = maybe \cup {x} /\ sure' = sure /\ x[1] = rejected /\ x[2] = w
        /\ rejected[1] = "rejected" /\ (\A g : Generation(g) # rejected) /\ \A g, u : Staging(g, u) # rejected
    BY <1>4, <1>7, <1>12, <2>1, Names0 DEF Link
  <2>4. Rejections'
    <3>1. ASSUME NEW g, NEW u, NEW z, rejected = Rejected(Staging(g, z), u) PROVE w = u /\ z = u
      <4>1. name = Staging(g, z) /\ v = u
        BY <1>4, <3>1 DEF Rejected
      <4>2. z = p.op
        BY <1>5, <4>1, Names0
      <4>3. PICK e : e = <<name, w>>
        OBVIOUS
      <4>4. e[1] = Staging(g, z) /\ e[2] = w
        BY <4>1, <4>3
      <4>5. w = z
        BY <1>8, <4>3, <4>4, NameOf
      <4> QED BY <1>3, <4>1, <4>2, <4>5
    <3>2. \A e \in maybe' : \/ e \in maybe
                            \/ e \in seen' /\ \A g, u, z : e[1] = Rejected(Staging(g, z), u) => e[2] = u /\ z = u
      BY <2>2, <3>1
    <3> QED BY <2>2, <3>2, RejectionsKept DEF Safe
  <2>5. \A g : Contents(g)' = Contents(g)
    <3> SUFFICES ASSUME NEW g, NEW u, NEW n, n = Generation(g), <<n, u>> = x PROVE FALSE
      BY <2>2 DEF Contents
    <3>1. n = rejected
      BY <2>2
    <3> QED BY <2>2, <3>1
  <2>6. \A g, u : <<Staging(g, u), u>> \in seen' <=> <<Staging(g, u), u>> \in seen
    <3> SUFFICES ASSUME NEW g, NEW u, NEW n, n = Staging(g, u), <<n, u>> = x PROVE FALSE
      BY <2>2
    <3>1. n = rejected
      BY <2>2
    <3> QED BY <2>2, <3>1
  <2>8. \A g, u : <<Generation(g), u>> \in seen' <=> <<Generation(g), u>> \in seen
    <3> SUFFICES ASSUME NEW g, NEW u, NEW n, n = Generation(g), <<n, u>> = x PROVE FALSE
      BY <2>2
    <3>1. n = rejected
      BY <2>2
    <3> QED BY <2>2, <3>1
  <2>9. \A q : Candidate(q)' <=> Candidate(q)
    BY <1>1, <2>6 DEF Candidate, Whole
  <2>10. \A g : Gone(Generation(g))' <=> Gone(Generation(g))
    BY <2>2 DEF Gone
  <2>11. Doubtful(p)
    BY <1>3, <1>5, <1>9, <1>10 DEF Names
  <2>12. Doubtful(p)'
    <3>1. PICK n : n = Rejected(Generation(p.gen), p.op)
      OBVIOUS
    <3>2. ASSUME NEW r \in Writes, <<n, r>> \in seen'
          PROVE  /\ Contents(p.gen) \subseteq {r}
                    \/ /\ <<Staging(p.gen, p.op), p.op>> \in sure /\ Whole(p.op)
                       /\ Contents(p.gen) \subseteq {r, p.op}
                 /\ Candidate(p) /\ Gone(Generation(p.gen)) => <<Staging(p.gen, p.op), p.op>> \in sure
      <4>1. CASE <<n, r>> \in seen
        BY <2>11, <3>1, <4>1 DEF Doubtful
      <4>2. CASE <<n, r>> = x
        <5>1. n = rejected /\ r = w
          BY <2>2, <4>2
        <5>2. name = Generation(p.gen)
          BY <1>4, <3>1, <5>1 DEF Rejected
        <5>3. Contents(p.gen) \subseteq {w}
          BY <1>3, <1>8, <5>2, MovedContents
        <5>4. ~ Gone(Generation(p.gen))
          <6>1. <<name, w>>[1] = name
            OBVIOUS
          <6> QED BY <1>8, <5>2, <6>1 DEF Gone
        <5> QED BY <5>1, <5>3, <5>4
      <4> QED BY <2>2, <3>2, <4>1, <4>2
    <3>3. /\ \A y, z \in Contents(p.gen) \ {p.op} : y = z
          /\ p.op \in Contents(p.gen) =>
                /\ Candidate(p) \/ Contents(p.gen) = {p.op}
                /\ \A u \in Writes : <<Generation(p.gen), u>> \in seen => u = p.op
      BY <2>11 DEF Doubtful
    <3>4. sure' = sure /\ (Whole(p.op)' <=> Whole(p.op))
      BY <1>1, <2>2 DEF Whole
    <3>5. /\ \A y, z \in Contents(p.gen)' \ {p.op} : y = z
          /\ p.op \in Contents(p.gen)' =>
                /\ Candidate(p)' \/ Contents(p.gen)' = {p.op}
                /\ \A u \in Writes : <<Generation(p.gen), u>> \in seen' => u = p.op
      BY <2>5, <2>8, <2>9, <3>3
    <3>6. \A r \in Writes : <<n, r>> \in seen' =>
                 /\ Contents(p.gen)' \subseteq {r}
                    \/ /\ <<Staging(p.gen, p.op), p.op>> \in sure' /\ Whole(p.op)'
                       /\ Contents(p.gen)' \subseteq {r, p.op}
                 /\ Candidate(p)' /\ Gone(Generation(p.gen))' => <<Staging(p.gen, p.op), p.op>> \in sure'
      BY <2>5, <2>9, <2>10, <3>2, <3>4
    <3> QED BY <3>1, <3>5, <3>6 DEF Doubtful
  <2>13. Names(a)'
    <3>1. a.state = "pending" /\ a.pending = p
      BY <1>3, <1>5, <1>9
    <3> QED BY <1>1, <1>10, <2>5, <2>9, <2>12, <3>1 DEF Names
  <2> QED BY <1>10, <2>4, <2>13, OneAuthority
<1> QED BY <1>11, <1>12

(* A step that only hides names of which no generation is one.             *)
LEMMA HiddenNames ==
  ASSUME NEW p, Doubtful(p), seen' \subseteq seen, UNCHANGED <<maybe, bytes>>,
         \/ ~ Candidate(p)
         \/ /\ <<Staging(p.gen, p.op), p.op>> \in seen => <<Staging(p.gen, p.op), p.op>> \in seen'
            /\ <<Staging(p.gen, p.op), p.op>> \in sure => <<Staging(p.gen, p.op), p.op>> \in sure'
            /\ \/ Gone(Generation(p.gen))' => Gone(Generation(p.gen))
               \/ <<Staging(p.gen, p.op), p.op>> \in seen => <<Staging(p.gen, p.op), p.op>> \in sure,
         <<Staging(p.gen, p.op), p.op>> \in sure => <<Staging(p.gen, p.op), p.op>> \in seen
  PROVE  Doubtful(p)' /\ (Candidate(p)' <=> Candidate(p))
<1>1. PICK st : st = <<Staging(p.gen, p.op), p.op>>
  OBVIOUS
<1>2. Contents(p.gen)' = Contents(p.gen)
  BY DEF Contents
<1>3. /\ Candidate(p) <=> st \in seen /\ Whole(p.op)
      /\ Candidate(p)' <=> st \in seen' /\ Whole(p.op)
      /\ Whole(p.op)' <=> Whole(p.op)
  BY <1>1 DEF Candidate, Whole
<1>4. Candidate(p)' <=> Candidate(p)
  BY DEF Candidate, Whole
<1>5. /\ \A x, y \in Contents(p.gen) \ {p.op} : x = y
      /\ p.op \in Contents(p.gen) =>
            /\ Candidate(p) \/ Contents(p.gen) = {p.op}
            /\ \A w \in Writes : <<Generation(p.gen), w>> \in seen => w = p.op
  BY <1>1 DEF Doubtful
<1>6. ASSUME NEW r \in Writes, <<Rejected(Generation(p.gen), p.op), r>> \in seen'
      PROVE  /\ Contents(p.gen)' \subseteq {r}
                \/ (st \in sure' /\ Whole(p.op)' /\ Contents(p.gen)' \subseteq {r, p.op})
             /\ Candidate(p)' /\ Gone(Generation(p.gen))' => st \in sure'
  <2>1. <<Rejected(Generation(p.gen), p.op), r>> \in seen
    BY <1>6
  <2>2. /\ Contents(p.gen) \subseteq {r}
           \/ (st \in sure /\ Whole(p.op) /\ Contents(p.gen) \subseteq {r, p.op})
        /\ Candidate(p) /\ Gone(Generation(p.gen)) => st \in sure
    BY <1>1, <2>1 DEF Doubtful
  <2>3. CASE ~ Candidate(p)
    BY <1>1, <1>2, <1>3, <1>4, <2>2, <2>3
  <2>4. CASE Candidate(p)
    <3>1. (Whole(p.op)' <=> Whole(p.op)) /\ st \in seen /\ st \in seen'
      BY <1>1, <1>3, <2>4 DEF Candidate
    <3>2. st \in sure => st \in sure'
      BY <1>1, <2>4
    <3>3. Gone(Generation(p.gen))' => Gone(Generation(p.gen)) \/ st \in sure
      BY <1>1, <2>4, <3>1
    <3> QED BY <1>2, <1>4, <2>2, <2>4, <3>1, <3>2, <3>3
  <2> QED BY <2>3, <2>4
<1>7. /\ \A x, y \in Contents(p.gen)' \ {p.op} : x = y
      /\ p.op \in Contents(p.gen)' =>
            /\ Candidate(p)' \/ Contents(p.gen)' = {p.op}
            /\ \A w \in Writes : <<Generation(p.gen), w>> \in seen' => w = p.op
  BY <1>2, <1>4, <1>5
<1>8. Doubtful(p)'
  BY <1>1, <1>6, <1>7 DEF Doubtful
<1> QED BY <1>4, <1>8

LEMMA RemoveSafe ==
  ASSUME Base, Safe, RemoveName, Doing("remove")
  PROVE  Safe'
<1> USE DEF Base
<1>1. UNCHANGED <<chain, begun, bytes>> /\ Unlink(todo[1][2])
  BY DEF RemoveName, Proceed, GoOn
<1>2. AtRemove
  BY StageAt
<1>3. PICK name, K, p : /\ Moves(name, K) /\ p = Authority.pending /\ sure = seen
                        /\ Does(<<"remove", name>>, Removed(K))
  BY <1>2 DEF AtRemove
<1>4. /\ Synced /\ Authority.state = "pending" /\ name[1] # "rejected"
      /\ name = Generation(p.gen) \/ name = Staging(p.gen, p.op)
  BY <1>3, MovedName
<1>5. seen' = {e \in seen : e[1] # name} /\ sure' = {e \in sure : e[1] # name} /\ maybe' = maybe
  BY <1>1, <1>3 DEF Does, Unlink
<1>7. Rejections'
  <2>1. \A e \in seen : e[1][1] = "rejected" => e \in seen'
    BY <1>4, <1>5
  <2> QED BY <1>5, <2>1, RejectionsKept DEF Safe
<1>8. PICK a : a = Authority
  OBVIOUS
<1>9. Authority' = a /\ Durable' = a /\ Names(a)
  BY <1>1, <1>4, <1>8, SyncedSame DEF Safe
<1>10. a.state = "pending" /\ a.pending = p /\ Doubtful(p)
  BY <1>3, <1>4, <1>8, <1>9 DEF Names
<1>11. PICK st : st = <<Staging(p.gen, p.op), p.op>>
  OBVIOUS
<1>12. Doubtful(p)' /\ (Candidate(p)' <=> Candidate(p))
  <2>1. CASE name = Generation(p.gen)
    <3>1. st[1] # name
      <4>1. st[1] = Staging(p.gen, p.op)
        BY <1>11
      <4> QED BY <2>1, <4>1, Names0
    <3>2. st \in seen => st \in seen' /\ st \in sure' /\ st \in sure
      BY <1>3, <1>5, <3>1
    <3>3. (st \in sure => st \in sure') /\ (st \in sure => st \in seen)
      BY <1>3, <3>2
    <3> QED BY <1>1, <1>5, <1>10, <1>11, <3>2, <3>3, HiddenNames
  <2>2. CASE name = Staging(p.gen, p.op)
    <3>1. NoCandidate(p)
      BY <1>3, <2>2, Names0 DEF Moves
    <3>2. ~ Candidate(p)
      BY <3>1 DEF NoCandidate
    <3> QED BY <1>1, <1>3, <1>5, <1>10, <1>11, <3>2, HiddenNames
  <2> QED BY <1>4, <2>1, <2>2
<1>13. Names(a)'
  <2>1. \A g : Contents(g)' = Contents(g)
    BY <1>5 DEF Contents
  <2> QED BY <1>1, <1>9, <1>10, <1>12, <2>1 DEF Names
<1> QED BY <1>7, <1>9, <1>13, OneAuthority

LEMMA DropSafe ==
  ASSUME Base, Safe, RemoveName, Doing("drop")
  PROVE  Safe'
<1> USE DEF Base
<1>1. UNCHANGED <<chain, begun, bytes>> /\ Unlink(todo[1][2])
  BY DEF RemoveName, Proceed, GoOn
<1>2. AtDrop
  BY StageAt
<1>3. PICK p, K : /\ Synced /\ CommittedNow(p) /\ Does(<<"drop", Staging(p.gen, p.op)>>, K)
  BY <1>2 DEF AtDrop
<1>4. PICK name : name = Staging(p.gen, p.op) /\ name[1] = "staging"
  BY Names0
<1>5. seen' = {e \in seen : e[1] # name} /\ maybe' = maybe
  BY <1>1, <1>3, <1>4 DEF Does, Unlink
<1>7. Rejections'
  <2>1. \A e \in seen : e[1][1] = "rejected" => e \in seen'
    BY <1>4, <1>5
  <2> QED BY <1>5, <2>1, RejectionsKept DEF Safe
<1>8. PICK a : a = Authority
  OBVIOUS
<1>9. Authority' = a /\ Durable' = a /\ Names(a)
  BY <1>1, <1>3, <1>8, SyncedSame DEF Safe
<1>10. a.state = "active"
  BY <1>3, <1>8 DEF CommittedNow
<1>11. Names(a)'
  <2>1. \A g : Contents(g)' = Contents(g)
    BY <1>5 DEF Contents
  <2> QED BY <1>9, <1>10, <2>1 DEF Names
<1> QED BY <1>7, <1>9, <1>11, OneAuthority

LEMMA DebrisSafe ==
  ASSUME Base, Safe, ClassifyDebris
  PROVE  Safe'
<1> USE DEF Base
<1>1. UNCHANGED <<chain, begun, bytes>> /\ Doing("debris")
  BY DEF ClassifyDebris, Proceed, GoOn
<1>2. Synced
  BY <1>1, StageAt DEF AtDebris
<1>3. PICK gone : gone = {e \in seen : Redundant(e)} /\ seen' = seen \ gone /\ sure' = sure \ gone /\ maybe' = maybe
  BY DEF ClassifyDebris
<1>4. \A e \in gone : e[1][1] = "staging" /\ e[2] # Authority.pending.op
  BY <1>3 DEF Redundant
<1>6. Rejections'
  <2>1. \A e \in seen : e[1][1] = "rejected" => e \in seen'
    BY <1>3, <1>4
  <2> QED BY <1>3, <2>1, RejectionsKept DEF Safe
<1>7. PICK a, p : a = Authority /\ p = a.pending
  OBVIOUS
<1>8. Authority' = a /\ Durable' = a /\ Names(a)
  BY <1>1, <1>2, <1>7, SyncedSame DEF Safe
<1>9. PICK st : st = <<Staging(p.gen, p.op), p.op>>
  OBVIOUS
<1>10. st \notin gone
  <2>1. st[2] = p.op
    BY <1>9
  <2> QED BY <1>4, <1>7, <2>1
<1>11. Gone(Generation(p.gen))' => Gone(Generation(p.gen))
  <2> SUFFICES ASSUME NEW e \in seen, e[1] = Generation(p.gen) PROVE e \in seen'
    BY DEF Gone
  <2>1. e[1][1] = "generation"
    BY Names0
  <2> QED BY <1>3, <1>4, <2>1
<1>12. st \in sure => st \in seen
  BY DEF Directory
<1>13. Doubtful(p) => Doubtful(p)' /\ (Candidate(p)' <=> Candidate(p))
  BY <1>1, <1>3, <1>9, <1>10, <1>11, <1>12, HiddenNames
<1>14. Names(a)'
  <2>1. \A g : Contents(g)' = Contents(g)
    BY <1>3 DEF Contents
  <2> QED BY <1>1, <1>7, <1>8, <1>13, <2>1 DEF Names
<1> QED BY <1>6, <1>8, <1>14, OneAuthority

(* The staging file is whole or torn, and perhaps gone.                    *)
LEMMA TornSafe ==
  ASSUME Base, Safe, Doing("syncFile"), StagingFails \/ ProcessKilled
  PROVE  Safe'
<1> USE DEF Base
<1>1. /\ UNCHANGED <<chain, begun>> /\ todo' = << >>
      /\ Unlink(todo[1][2]) \/ UNCHANGED files
  BY DEF StagingFails, ProcessKilled, Interrupt
<1>2. AtSyncFile
  BY StageAt
<1>3. PICK p, w : /\ Synced /\ InDoubt(p) /\ p.op = w /\ w = begun
                  /\ \A e \in maybe : /\ e[2] = begun => e[1] = Staging(p.gen, p.op)
                                      /\ \A name : e[1] # Rejected(name, begun)
                  /\ todo[1] = <<"syncFile", Staging(p.gen, p.op), p.op>>
  BY <1>2 DEF AtSyncFile, Does
<1>5. PICK name : name = Staging(p.gen, p.op) /\ name[1] = "staging"
  BY Names0
<1>6. /\ seen' = seen \/ seen' = {e \in seen : e[1] # name}
      /\ maybe' = maybe
  <2>1. todo[1][2] = name
    BY <1>3, <1>5
  <2> QED BY <1>1, <2>1 DEF files, Unlink
<1>7. Directory'
  BY StagingFailsStep, FaultStep
<1>9. Rejections'
  <2>1. \A e \in seen : e[1][1] = "rejected" => e \in seen'
    BY <1>5, <1>6
  <2> QED BY <1>6, <2>1, RejectionsKept DEF Safe
<1>10. PICK a : a = Authority
  OBVIOUS
<1>11. Authority' = a /\ Durable' = a /\ Names(a)
  BY <1>1, <1>3, <1>10, SyncedSame DEF Safe
<1>12. a.state = "pending" /\ a.pending = p
  BY <1>3, <1>10 DEF InDoubt
<1>13. \A g : Contents(g)' = Contents(g)
  BY <1>6 DEF Contents
<1>14. Doubtful(p)'
  <2>2. \A e \in maybe' : (e[2] = p.op => \A g : e[1] # Generation(g)) /\ \A n : e[1] # Rejected(n, p.op)
    BY <1>3, <1>6, Names0
  <2>3. \A u, v \in Contents(p.gen)' \ {p.op} : u = v
    BY <1>11, <1>12, <1>13 DEF Names, Doubtful
  <2> QED BY <1>7, <2>2, <2>3, UnseenDoubt
<1>15. Names(a)'
  BY <1>1, <1>3, <1>11, <1>12, <1>13, <1>14 DEF Names
<1> QED BY <1>9, <1>11, <1>15, OneAuthority

LEMMA KilledSafe ==
  ASSUME Base, Safe, ~ Doing("syncFile"), ProcessKilled
  PROVE  Safe'
<1>1. UNCHANGED <<chain, files, bytes>>
  BY DEF ProcessKilled, Interrupt
<1>2. Authority' = Authority /\ Durable' = Durable
  BY FaultStep
<1> QED BY <1>1, <1>2, StillSafe

(* What a power loss leaves of the names.                                  *)
LEMMA PowerSafe ==
  ASSUME Base, Safe, PowerLoss, ~ Lost'
  PROVE  Safe'
<1> USE DEF Base
<1>1. /\ Chain' /\ Directory' /\ Synced' /\ Durable' = Authority' /\ Authority' \in {Authority, Durable}
      /\ sure \subseteq seen' /\ seen' \subseteq maybe /\ sure' = seen' /\ maybe' = seen'
  BY PowerStep
<1>2. begun' = begun
  BY DEF PowerLoss, Interrupt
<1>3. PICK kept : bytes' = [w \in Writes |-> AfterLoss(w, kept)]
  BY DEF PowerLoss
<1>4. ASSUME NEW w \in Writes, Whole(w) PROVE Whole(w)'
  <2>1. bytes'[w] # "lost" /\ bytes'[w] = AfterLoss(w, kept)
    BY <1>3 DEF Lost
  <2> QED BY <1>4, <2>1 DEF Whole, AfterLoss, Cached
<1>6. Rejections'
  BY <1>1 DEF Safe, Rejections
<1>7. PICK a : a = Authority'
  OBVIOUS
<1>8. Names(a) /\ Legal(a) /\ a \in {Authority, Durable}
  <2>1. PICK b, c : b = Authority /\ c = Durable
    OBVIOUS
  <2>2. Names(b) /\ Names(c) /\ Legal(b) /\ Legal(c)
    BY <2>1, LegalViews DEF Safe
  <2>3. a = b \/ a = c
    BY <1>1, <1>7, <2>1
  <2> QED BY <2>1, <2>2, <2>3
<1>9. /\ \A g : Contents(g)' \subseteq Contents(g)
      /\ \A g : \A x, y \in Contents(g)' : x = y
      /\ \A g : \A w \in Writes : <<Generation(g), w>> \in seen' => w \in Contents(g)'
  <2>1. ASSUME NEW g, NEW x, NEW y, <<Generation(g), x>> \in seen', <<Generation(g), y>> \in seen' PROVE x = y
    <3>1. PICK n, e, f : n = Generation(g) /\ e = <<n, x>> /\ f = <<n, y>>
      OBVIOUS
    <3>2. e[1] = f[1] /\ e[2] = x /\ f[2] = y
      BY <3>1
    <3> QED BY <1>1, <2>1, <3>1, <3>2 DEF Directory, OneContentPerName
  <2> QED BY <1>1, <2>1 DEF Contents
<1>10. ASSUME a.state = "pending"
       PROVE  Doubtful(a.pending)'
  <2>1. PICK p, st : p = a.pending /\ st = <<Staging(p.gen, p.op), p.op>>
    OBVIOUS
  <2>2. Doubtful(p) /\ p.op \in Writes
    BY <1>8, <1>10, <2>1, LegalParts DEF Names
  <2>3. \A x, y \in Contents(p.gen)' \ {p.op} : x = y
    BY <1>9
  <2>4. p.op \in Contents(p.gen)' =>
          /\ Contents(p.gen)' = {p.op}
          /\ \A w \in Writes : <<Generation(p.gen), w>> \in seen' => w = p.op
    BY <1>9
  <2>5. ASSUME NEW r \in Writes, <<Rejected(Generation(p.gen), p.op), r>> \in seen'
        PROVE  /\ Contents(p.gen)' \subseteq {r}
                  \/ (st \in sure' /\ Whole(p.op)' /\ Contents(p.gen)' \subseteq {r, p.op})
    <3>1. PICK n, e : n = Rejected(Generation(p.gen), p.op) /\ e = <<n, r>>
      OBVIOUS
    <3>2. e[1] = n /\ n[1] = "rejected" /\ e \in maybe
      BY <1>1, <2>5, <3>1, Names0
    <3>3. e \in seen
      BY <3>2 DEF Safe, Rejections
    <3>4. \/ Contents(p.gen) \subseteq {r}
          \/ st \in sure /\ Whole(p.op) /\ Contents(p.gen) \subseteq {r, p.op}
      BY <2>1, <2>2, <3>1, <3>3 DEF Doubtful
    <3> QED BY <1>1, <1>4, <1>9, <2>2, <3>4
  <2>6. Candidate(p)' => st \in sure'
    BY <1>1, <2>1 DEF Candidate
  <2>7. Doubtful(p)'
    BY <2>1, <2>3, <2>4, <2>5, <2>6 DEF Doubtful
  <2> QED BY <2>1, <2>7
<1>11. Names(a)'
  <2>1. \A g \in Nat : Contents(g)' # {} => g <= a.serving.gen + 1
    BY <1>8, <1>9 DEF Names
  <2> QED BY <1>2, <1>9, <1>10, <2>1 DEF Names
<1> QED BY <1>1, <1>6, <1>7, <1>11, OneAuthority

LEMMA SafeKept ==
  ASSUME Base, Safe, Next
  PROVE  Lost' \/ Safe'
<1>1. CASE \/ CommitWrite \/ StartupReconcile \/ ReadCommitted \/ Reconcile \/ BeginWrite \/ Read
           \/ Verify \/ SyncMarkers \/ Return \/ DropFails \/ StepFails
  BY <1>1, StillSteps
<1>2. CASE LinkMarker \/ CreateStaging \/ SyncFile \/ Promote \/ SyncRecord \/ LinkRejected
  BY <1>2, LinkMarkerSafe, CreateSafe, SyncFileSafe, PromoteSafe, SyncRecordSafe, LinkRejectedSafe
<1>3. CASE RemoveName
  <2>1. Doing("remove") \/ Doing("drop")
    BY <1>3 DEF RemoveName
  <2> QED BY <1>3, <2>1, RemoveSafe, DropSafe
<1>4. CASE ClassifyDebris
  BY <1>4, DebrisSafe
<1>5. CASE StagingFails
  <2>1. Doing("syncFile")
    BY <1>5 DEF StagingFails
  <2> QED BY <1>5, <2>1, TornSafe
<1>6. CASE ProcessKilled
  BY <1>6, TornSafe, KilledSafe
<1>7. CASE PowerLoss
  BY <1>7, PowerSafe
<1> QED BY <1>1, <1>2, <1>3, <1>4, <1>5, <1>6, <1>7 DEF Next

-----------------------------------------------------------------------------
(* Nothing has happened yet.                                               *)
LEMMA FirstState ==
  ASSUME Init
  PROVE  IInv
<1>1. /\ markers = << >> /\ durableMarkers = 0 /\ seen = {} /\ sure = {} /\ maybe = {}
      /\ bytes = [w \in Writes |-> "none"] /\ todo = << >> /\ begun = 0
      /\ returned = 0 /\ refusal = "none" /\ faults = 0
  BY DEF Init
<1>2. Len(markers) = 0 /\ markers \in Seq(Bodies)
  BY <1>1
<1>3. Authority = Absent /\ Durable = Absent /\ States(markers, 0) = Absent
  BY <1>1, <1>2, StatesAt, Views
<1>4. Legal(Absent)
  BY <1>1 DEF Legal, Absent, Nothing
<1>5. Chain
  <2>1. \A i \in 0 .. Len(markers) : i = 0
    BY <1>2
  <2>2. \A i \in 1 .. Len(markers) : FALSE
    BY <1>2
  <2>3. \A i \in 0 .. Len(markers) : Legal(States(markers, i))
    BY <1>3, <1>4, <2>1
  <2> QED BY <1>1, <1>2, <2>2, <2>3 DEF Chain
<1>6. Scalars
  BY <1>1, Numbers DEF Scalars
<1>7. Directory
  <2>1. OnDisk(Absent.serving)
    BY DEF OnDisk, Absent
  <2> QED BY <1>1, <1>3, <2>1 DEF Directory, OneContentPerName
<1>8. Stage
  BY <1>1 DEF Stage
<1>9. Safe
  <2>1. \A g : Contents(g) = {}
    BY <1>1 DEF Contents
  <2>2. Absent.state # "pending"
    BY DEF Absent
  <2>3. Names(Absent)
    BY <2>1, <2>2 DEF Names
  <2>4. Rejections
    BY <1>1 DEF Rejections
  <2> QED BY <1>3, <2>3, <2>4 DEF Safe
<1>10. Sealed
  BY <1>1 DEF Sealed
<1> QED BY <1>5, <1>6, <1>7, <1>8, <1>9, <1>10 DEF IInv

(* Nor does anything happen in a step of the environment.                  *)
LEMMA Unmoved ==
  ASSUME IInv, UNCHANGED vars
  PROVE  IInv'
<1>1. /\ UNCHANGED <<markers, durableMarkers, seen, sure, maybe, bytes, todo, begun,
                     returned, refusal, faults>>
      /\ UNCHANGED files /\ UNCHANGED chain
  BY DEF vars, files, chain
<1>2. begun \in Nat
  BY Numbers DEF IInv, Scalars
<1>3. Chain' /\ Authority' = Authority /\ Durable' = Durable
  BY <1>1, <1>2, ChainSame DEF IInv
<1>4. Scalars'
  BY <1>1 DEF IInv, Scalars
<1>5. Directory'
  BY <1>1, <1>2, <1>3, DirectorySame DEF IInv
<1>6. Stage'
  <2>1. Fresh => Fresh'
    BY <1>1, <1>3, FreshSame
  <2>2. Stage
    BY DEF IInv
  <2>3. /\ \A step : Doing(step) => Doing(step)'
        /\ \A step, rest : Does(step, rest) => Does(step, rest)'
        /\ \A T : Queue(T) => Queue(T)'
        /\ \A p, K : Final(p, K) => Final(p, K)'
        /\ Synced => Synced'
        /\ Settled => Settled'
        /\ \A name : Gone(name) => Gone(name)'
        /\ \A p : InDoubt(p) => InDoubt(p)'
        /\ \A w : Unused(w) => Unused(w)'
        /\ \A p : Candidate(p) => Candidate(p)'
        /\ \A p : NoCandidate(p) => NoCandidate(p)'
    <3>1. \A T : Queue(T) => Queue(T)'
      BY <1>1, <2>1, QueueKept
    <3>2. \A p, K : Final(p, K) => Final(p, K)'
      BY <1>1, <2>1, QueueKept
    <3>3. /\ \A step : Doing(step) => Doing(step)'
          /\ \A step, rest : Does(step, rest) => Does(step, rest)'
          /\ Synced => Synced'
      BY <1>1 DEF Doing, Does, Synced
    <3>4. /\ Settled => Settled'
          /\ \A name : Gone(name) => Gone(name)'
          /\ \A p : InDoubt(p) => InDoubt(p)'
      BY <1>1, <1>3 DEF Settled, Gone, InDoubt
    <3>5. \A w : Unused(w) => Unused(w)'
      BY <1>1 DEF Unused
    <3>6. /\ \A p : Candidate(p) => Candidate(p)'
          /\ \A p : NoCandidate(p) => NoCandidate(p)'
      BY <1>1 DEF Candidate, NoCandidate, Whole
    <3> QED BY <3>1, <3>2, <3>3, <3>4, <3>5, <3>6
  <2>4. Resolved => Resolved'
    BY <1>3, <2>3 DEF Resolved
  <2>5. \A p : CommittedNow(p) => CommittedNow(p)'
    BY <1>1, <1>3, <2>3 DEF CommittedNow
  <2>6. \A p : Rejects(p) => Rejects(p)'
    BY <1>1, <1>3, <2>3 DEF Rejects
  <2>7. \A name, K : Moves(name, K) => Moves(name, K)'
    <3> SUFFICES ASSUME NEW name, NEW K, Moves(name, K) PROVE Moves(name, K)'
      OBVIOUS
    <3>1. \A g, w : <<Generation(g), w>> \notin seen => <<Generation(g), w>> \notin seen'
      BY <1>1
    <3> QED BY <1>1, <1>3, <2>1, <2>3, <3>1, MovesKept
  <2>8. \A name : /\ CopiedIn(seen, name) => CopiedIn(seen, name)'
    BY <1>1, <1>3 DEF CopiedIn
  <2>9. /\ AtReconcile => AtReconcile'
        /\ AtBegin => AtBegin'
        /\ AtDebris => AtDebris'
    BY <1>1, <1>3, <2>1, <2>3, <2>4 DEF AtReconcile, AtBegin, AtDebris
  <2>10. AtVerify => AtVerify'
    <3>1. \A s, w : WritePlan(s, w)' = WritePlan(s, w)
      BY DEF WritePlan, WriteMarker, Pending, Active, Staging, Generation
    <3> QED BY <1>1, <1>3, <2>1, <2>3, <2>4, <2>6 DEF AtVerify
  <2>11. AtLinkMarker => AtLinkMarker'
    BY <1>1, <1>3, <2>1, <2>3, <2>4, <2>6 DEF AtLinkMarker
  <2>12. AtSyncMarkers => AtSyncMarkers'
    BY <1>1, <1>3, <2>1, <2>3, <2>5 DEF AtSyncMarkers
  <2>13. /\ AtCreate => AtCreate'
         /\ AtSyncFile => AtSyncFile'
         /\ AtPromote => AtPromote'
    BY <1>1, <1>3, <2>1, <2>3 DEF AtCreate, AtSyncFile, AtPromote
  <2>14. AtSyncRecord => AtSyncRecord'
    BY <1>1, <1>3, <2>1, <2>3, <2>7, <2>8 DEF AtSyncRecord
  <2>15. /\ AtLinkRejected => AtLinkRejected'
         /\ AtRemove => AtRemove'
    BY <1>1, <1>3, <2>3, <2>7, <2>8 DEF AtLinkRejected, AtRemove
  <2>16. /\ AtDrop => AtDrop'
         /\ AtReturn => AtReturn'
    BY <1>1, <1>3, <2>3, <2>5, <2>6 DEF AtDrop, AtReturn
  <2> QED BY <1>1, <2>2, <2>3, <2>9, <2>10, <2>11, <2>12, <2>13, <2>14, <2>15, <2>16 DEF Stage
<1>7. Sealed'
  BY <1>1 DEF IInv, Sealed, Doing
<1>8. Lost => Lost'
  BY <1>1 DEF Lost
<1>9. Safe => Safe'
  <2>1. \A a : Names(a) => Names(a)'
    BY <1>1, NamesSame
  <2>3. Rejections => Rejections'
    BY <1>1 DEF Rejections
  <2>4. PICK a, b : a = Authority /\ b = Durable
    OBVIOUS
  <2>5. Names(a) => Names(a)'
    BY <2>1
  <2>6. Names(b) => Names(b)'
    BY <2>1
  <2> QED BY <1>3, <2>3, <2>4, <2>5, <2>6 DEF Safe
<1> QED BY <1>3, <1>4, <1>5, <1>6, <1>7, <1>8, <1>9 DEF IInv

(* The inductive invariant holds at every moment: where an operation       *)
(* stands, the chain of markers, the directory and the names agree, after  *)
(* any failed step, kill or power loss.                                    *)
THEOREM Invariant == Spec => []IInv
<1>1. Init => IInv
  BY FirstState
<1>2. ASSUME IInv, [Next]_vars PROVE IInv'
  <2>1. CASE Next
    <3>1. Base' /\ Base
      BY <1>2, <2>1, BaseKept DEF IInv, Base
    <3>2. Sealed'
      BY <1>2, <2>1, <3>1, SealedAlways DEF IInv
    <3>3. Lost' \/ Safe'
      BY <1>2, <2>1, <3>1, LostStays, SafeKept DEF IInv
    <3> QED BY <3>1, <3>2, <3>3 DEF IInv, Base
  <2>2. CASE UNCHANGED vars
    BY <1>2, <2>2, Unmoved
  <2> QED BY <1>2, <2>1, <2>2
<1> QED BY <1>1, <1>2, PTL DEF Spec

(* Type correctness: no name of the record directory ever holds two        *)
(* contents and only the newest marker may still be lost.                  *)
THEOREM RecordTypes == Spec => []TypeOK
<1>1. ASSUME IInv PROVE TypeOK
  <2> USE <1>1 DEF IInv
  <2>1. durableMarkers \in {Len(markers), Len(markers) - 1}
    BY DEF Chain
  <2>2. ASSUME NEW i \in 1 .. Len(markers)
        PROVE  /\ markers[i].kind \in {"pending", "active"}
               /\ markers[i].op \in Writes
               /\ markers[i].gen \in Writes
               /\ markers[i].old \in 0 .. MaxWrites
    <3>1. markers[i] \in Bodies
      BY ElementOfSeq DEF Chain
    <3> QED BY <3>1 DEF Bodies
  <2>3. /\ sure \subseteq seen /\ seen \subseteq maybe
        /\ OneContentPerName(seen)
        /\ \A e \in maybe : e[2] \in 1 .. begun
    BY DEF Directory, Entry
  <2> QED BY <2>1, <2>2, <2>3 DEF TypeOK, Scalars
<1> QED BY <1>1, Invariant, PTL

-----------------------------------------------------------------------------
(* No step removes the last durable name of sealed bytes.                  *)
LEMMA StillNamed ==
  ASSUME Base, Next, NEW e \in sure, bytes[e[2]] = "sealed"
  PROVE  \E f \in sure' : f[2] = e[2]
<1> USE DEF Base
<1>1. CASE sure \subseteq sure'
  BY <1>1
<1>2. CASE \/ CommitWrite \/ StartupReconcile \/ ReadCommitted \/ Reconcile \/ BeginWrite \/ Read \/ Verify
           \/ LinkMarker \/ SyncMarkers \/ SyncFile \/ DropFails \/ Return
           \/ StepFails \/ ProcessKilled
  <2>1. UNCHANGED files
    <3>1. CASE CommitWrite \/ StartupReconcile \/ ReadCommitted \/ Reconcile \/ BeginWrite \/ Read \/ Verify
      BY <3>1 DEF CommitWrite, StartupReconcile, ReadCommitted, Start, Reconcile, BeginWrite, Read, Load, Verify
    <3>2. CASE \/ LinkMarker \/ SyncMarkers \/ SyncFile \/ DropFails \/ Return
               \/ StepFails \/ ProcessKilled
      BY <3>2 DEF LinkMarker, SyncMarkers, SyncFile, DropFails, Return, StepFails, ProcessKilled
    <3> QED BY <1>2, <3>1, <3>2
  <2> QED BY <1>1, <2>1 DEF files
<1>3. CASE CreateStaging \/ Promote \/ LinkRejected
  <2>1. sure' = sure
    BY <1>3 DEF CreateStaging, Promote, LinkRejected, Link, files
  <2> QED BY <1>1, <2>1
<1>4. CASE SyncRecord
  BY <1>1, <1>4 DEF SyncRecord, Directory
<1>5. CASE PowerLoss
  BY <1>1, <1>5, PowerStep
<1>6. CASE RemoveName /\ Doing("remove")
  <2>1. AtRemove /\ Unlink(todo[1][2])
    BY <1>6, StageAt DEF RemoveName
  <2>2. PICK name, K : /\ Moves(name, K) /\ Does(<<"remove", name>>, Removed(K))
                       /\ CopiedIn(seen, name) /\ sure = seen
    BY <2>1 DEF AtRemove
  <2>3. sure' = {f \in sure : f[1] # name}
    BY <2>1, <2>2 DEF Does, Unlink
  <2>4. PICK r, f : r = Rejected(name, Authority.pending.op) /\ f = <<r, e[2]>>
    OBVIOUS
  <2>5. r # name /\ f[1] = r /\ f[2] = e[2]
    BY <2>2, <2>4, MovedName
  <2>6. e[1] = name => f \in sure
    BY <2>2, <2>4 DEF CopiedIn
  <2> QED BY <2>3, <2>5, <2>6
<1>7. CASE RemoveName /\ Doing("drop")
  <2>1. AtDrop /\ Unlink(todo[1][2])
    BY <1>7, StageAt DEF RemoveName
  <2>2. PICK p, K : CommittedNow(p) /\ Does(<<"drop", Staging(p.gen, p.op)>>, K)
    BY <2>1 DEF AtDrop
  <2>3. PICK name, g, f : name = Staging(p.gen, p.op) /\ g = Generation(p.gen) /\ f = <<g, p.op>>
    OBVIOUS
  <2>4. sure' = {x \in sure : x[1] # name}
    BY <2>1, <2>2, <2>3 DEF Does, Unlink
  <2>5. g # name /\ f[1] = g /\ f[2] = p.op /\ f \in sure
    BY <2>2, <2>3, Names0 DEF CommittedNow
  <2>6. e[1] = name => e[2] = p.op
    BY <2>3, NameOf DEF Directory
  <2> QED BY <2>4, <2>5, <2>6
<1>8. CASE ClassifyDebris
  <2>1. /\ \A x \in seen \ seen' : Redundant(x)
        /\ \A x \in sure : x \in seen' => x \in sure'
    BY <1>8, DebrisStep
  <2>2. AtDebris
    BY <1>8, StageAt DEF ClassifyDebris
  <2>3. CASE e \in seen'
    BY <2>1, <2>3
  <2>4. CASE e \notin seen'
    <3>1. Redundant(e)
      BY <2>1, <2>4 DEF Directory
    <3>2. PICK g, f : g = Generation(e[1][2]) /\ f = <<g, e[2]>>
      OBVIOUS
    <3>3. f \in seen /\ f[1] = g /\ f[2] = e[2] /\ g[1] = "generation"
      BY <3>1, <3>2 DEF Redundant, Generation
    <3>4. f \in sure /\ f[1][1] = "generation"
      BY <2>2, <3>3 DEF AtDebris, Resolved, Settled
    <3>5. ~ Redundant(f)
      BY <3>4 DEF Redundant
    <3> QED BY <2>1, <3>3, <3>4, <3>5
  <2> QED BY <2>3, <2>4
<1>9. CASE StagingFails
  <2>1. Doing("syncFile") /\ (Unlink(todo[1][2]) \/ UNCHANGED files)
    BY <1>9 DEF StagingFails
  <2>2. PICK p, K : /\ p.op = begun /\ bytes[begun] = "written"
                    /\ Does(<<"syncFile", Staging(p.gen, p.op), p.op>>, K)
    BY <2>1, StageAt DEF AtSyncFile
  <2>3. PICK name : name = Staging(p.gen, p.op)
    OBVIOUS
  <2>4. todo[1][2] = name
    BY <2>2, <2>3 DEF Does
  <2>5. e[1] # name
    BY <2>2, <2>3, NameOf DEF Directory
  <2> QED BY <1>1, <2>1, <2>4, <2>5 DEF Unlink, files
<1>10. RemoveName => Doing("remove") \/ Doing("drop")
  BY DEF RemoveName
<1> QED BY <1>2, <1>3, <1>4, <1>5, <1>6, <1>7, <1>8, <1>9, <1>10 DEF Next

(* Bytes that were once durable under some name stay durable under some    *)
(* name, whatever fails and whenever the process or the power is lost.     *)
THEOREM BytesKept == Spec => NeverDeleted
<1>1. ASSUME IInv, [Next]_vars
      PROVE  [\A w \in Writes : (bytes[w] = "sealed" /\ \E e \in sure : e[2] = w)
                                   => \E e \in sure' : e[2] = w]_vars
  <2>1. CASE Next
    <3>1. Base
      BY <1>1 DEF IInv, Base
    <3> QED BY <2>1, <3>1, StillNamed
  <2> QED BY <1>1, <2>1
<1> QED BY <1>1, Invariant, PTL DEF Spec, NeverDeleted

(* A generation is committed only when it is all there: the marker that    *)
(* says ACTIVE is durable only after the entry of its generation, and the  *)
(* bytes were complete by then; no write that left its envelope half done  *)
(* is ever committed, whatever fails.                                      *)
THEOREM CommitsAreWhole == Spec => []CommittedWhole
<1>1. ASSUME IInv PROVE CommittedWhole
  <2>1. PICK c : c = Durable.serving
    OBVIOUS
  <2>2. PICK e, n : n = Generation(c.gen) /\ e = <<n, c.op>>
    OBVIOUS
  <2>3. e[1] = n /\ e[2] = c.op /\ n[1] = "generation"
    BY <2>2 DEF Generation
  <2>4. c = Nothing \/ e \in sure
    BY <1>1, <2>1, <2>2 DEF IInv, Directory, OnDisk
  <2>5. c = Nothing \/ bytes[c.op] \in {"stranded", "sealed", "lost"}
    BY <1>1, <2>3, <2>4 DEF IInv, Directory, Sealed
  <2> QED BY <2>1, <2>2, <2>4, <2>5 DEF CommittedWhole
<1> QED BY <1>1, Invariant, PTL

-----------------------------------------------------------------------------
(* A name that was copied before holds the bytes of its copy.              *)
LEMMA NeverOccupied ==
  ASSUME Base, Safe, LinkRejected
  PROVE  LET rejected == Rejected(todo[1][2], todo[1][3])
         IN  ~ Present(rejected) \/ AlreadyRelocated(todo[1][2], rejected)
<1> USE DEF Base
<1>1. Doing("linkRejected")
  BY DEF LinkRejected
<1>2. AtLinkRejected
  BY <1>1, StageAt
<1>3. PICK name, K, v, p : /\ Moves(name, K) /\ p = Authority.pending /\ v = p.op
                        /\ Does(<<"linkRejected", name, v>>, Copied(name, K))
  BY <1>2 DEF AtLinkRejected
<1>4. PICK rejected : rejected = Rejected(name, v)
  OBVIOUS
<1>5. todo[1][2] = name /\ todo[1][3] = v
  BY <1>3 DEF Does
<1>6. /\ Authority.state = "pending"
      /\ name = Generation(p.gen) \/ name = Staging(p.gen, p.op)
  BY <1>3, MovedName
<1>7. PICK w \in Holders(seen, name) : TRUE
  BY <1>5 DEF LinkRejected
<1>8. \A n, x : x \in Holders(seen, n) <=> <<n, x>> \in seen
  BY NameOf
<1>9. \A n, x, y : x \in Holders(seen, n) /\ y \in Holders(seen, n) => x = y
  <2> SUFFICES ASSUME NEW n, NEW x, NEW y, x \in Holders(seen, n), y \in Holders(seen, n) PROVE x = y
    OBVIOUS
  <2>1. PICK d, e : d = <<n, x>> /\ e = <<n, y>>
    OBVIOUS
  <2>2. d[1] = n /\ e[1] = n /\ d[2] = x /\ e[2] = y
    BY <2>1
  <2>3. d \in seen /\ e \in seen
    BY <1>8, <2>1
  <2> QED BY <2>2, <2>3 DEF Directory, OneContentPerName
<1>10. \A n, x : x \in Holders(seen, n) => x \in Writes
  <2> SUFFICES ASSUME NEW n, NEW x, x \in Holders(seen, n) PROVE x \in Writes
    OBVIOUS
  <2>1. PICK e : e = <<n, x>>
    OBVIOUS
  <2>2. e \in seen /\ e[2] = x
    BY <1>8, <2>1
  <2>3. e[2] \in 1 .. begun
    BY <2>2, NameOf
  <2> QED BY <2>2, <2>3, Numbers DEF Scalars, Writes
<1>11. ASSUME NEW r \in Holders(seen, rejected) PROVE r = w
  <2>1. r \in Writes /\ w \in Writes /\ <<rejected, r>> \in seen /\ <<name, w>> \in seen
    BY <1>7, <1>8, <1>10
  <2>2. CASE name = Generation(p.gen)
    <3>1. Doubtful(p)
      BY <1>3, <1>6 DEF Safe, Names
    <3>2. w \in Contents(p.gen)
      BY <2>1, <2>2, ContentsAt DEF Directory
    <3>3. \/ Contents(p.gen) \subseteq {r}
          \/ <<Staging(p.gen, p.op), p.op>> \in sure /\ Whole(p.op) /\ Contents(p.gen) \subseteq {r, p.op}
      BY <1>3, <1>4, <2>1, <2>2, <3>1 DEF Doubtful
    <3>4. CASE Contents(p.gen) \subseteq {r}
      BY <3>2, <3>4
    <3>5. CASE /\ <<Staging(p.gen, p.op), p.op>> \in sure /\ Whole(p.op)
               /\ Contents(p.gen) \subseteq {r, p.op}
      <4>1. ~ NoCandidate(p)
        BY <3>5 DEF NoCandidate, Candidate, Directory
      <4>2. <<name, p.op>> \notin seen \/ NoCandidate(p)
        BY <1>3 DEF Moves
      <4>3. w # p.op
        BY <2>1, <4>1, <4>2
      <4> QED BY <3>2, <3>5, <4>3
    <3> QED BY <3>3, <3>4, <3>5
  <2>3. CASE name = Staging(p.gen, p.op)
    <3>1. PICK d, e : d = <<name, w>> /\ e = <<rejected, r>>
      OBVIOUS
    <3>2. d[1] = name /\ d[2] = w /\ e[1] = rejected /\ e[2] = r /\ rejected[1] = "rejected"
      BY <1>4, <3>1, Names0
    <3>3. w = p.op
      BY <2>1, <2>3, <3>1, <3>2, NameOf
    <3>4. e \in maybe
      BY <2>1, <3>1 DEF Directory
    <3>5. r = p.op
      BY <1>3, <1>4, <2>3, <3>2, <3>4 DEF Safe, Rejections
    <3> QED BY <3>3, <3>5
  <2> QED BY <1>6, <2>2, <2>3
<1>12. CASE Present(rejected)
  <2>1. PICK r \in Holders(seen, rejected) : TRUE
    BY <1>12 DEF Present
  <2>2. Holders(seen, rejected) = {w} /\ Holders(seen, name) = {w}
    BY <1>7, <1>9, <1>11, <2>1
  <2> QED BY <1>4, <1>5, <1>12, <2>2 DEF AlreadyRelocated
<1> QED BY <1>4, <1>5, <1>12

(* What is verified is there.                                              *)
LEMMA NeverMissing ==
  ASSUME Base, Sealed, ~ Lost, Verify
  PROVE  Verified(todo[1][2])
<1> USE DEF Base
<1>1. Doing("verify")
  BY DEF Verify
<1>2. PICK s, n, e : s = Authority.serving /\ n = Generation(s.gen) /\ e = <<n, s.op>>
  OBVIOUS
<1>3. todo[1][2] = s
  <2>1. todo[1] = <<"verify", s>>
    BY <1>1, <1>2, StageAt DEF AtVerify
  <2> QED BY <2>1
<1>4. s = Nothing \/ e \in sure
  BY <1>2 DEF Directory, OnDisk
<1>5. e \in sure => bytes[e[2]] \in {"stranded", "sealed"}
  <2>1. e[1] = n /\ n[1] = "generation"
    BY <1>2, Names0
  <2>2. e \in sure => bytes[e[2]] \in {"stranded", "sealed", "lost"}
    BY <2>1 DEF Directory, Sealed
  <2>3. e \in sure => e[2] \in Writes
    <3>1. e \in sure => e[2] \in 1 .. begun
      BY DEF Directory, Entry
    <3> QED BY <3>1, Numbers DEF Scalars, Writes
  <2> QED BY <2>2, <2>3 DEF Lost
<1>6. e[2] = s.op
  BY <1>2
<1> QED BY <1>2, <1>3, <1>4, <1>5, <1>6 DEF Verified, Readable, Directory

(* Faults alone never bring the record to RECOVERY_REQUIRED nor block the  *)
(* relocation of rejected bytes, but for a power loss that takes bytes the *)
(* record had adopted before any sync.                                     *)
THEOREM FaultsNeverStick == Spec => []NeverStuck
<1>1. ASSUME Init PROVE NeverStuck
  BY <1>1 DEF Init, NeverStuck
<1>2. ASSUME IInv, Next, Lost PROVE NeverStuck'
  BY <1>2, LostStays DEF IInv, Base, NeverStuck
<1>3. ASSUME IInv, Next, NeverStuck, ~ Lost PROVE NeverStuck'
  <2>1. Base /\ Safe /\ Sealed
    BY <1>3 DEF IInv, Base
  <2>2. CASE Reconcile \/ BeginWrite \/ Read
    <3>1. Authority.state # "illegal"
      BY <2>1, Serving DEF Base
    <3> QED BY <2>2, <3>1 DEF Reconcile, BeginWrite, Read, Load, GoOn, NeverStuck
  <2>3. CASE Verify
    BY <1>3, <2>1, <2>3, NeverMissing DEF Verify, GoOn, NeverStuck
  <2>4. CASE Promote
    BY <2>4 DEF Promote, GoOn, NeverStuck
  <2>5. CASE LinkRejected
    <3>1. PICK ok : /\ ok = (~ Present(Rejected(todo[1][2], todo[1][3]))
                              \/ AlreadyRelocated(todo[1][2], Rejected(todo[1][2], todo[1][3])))
                    /\ GoOn(ok, Tail(todo), "rejectedExists")
      BY <2>5 DEF LinkRejected
    <3>2. ok
      BY <2>1, <2>5, <3>1, NeverOccupied
    <3> QED BY <3>1, <3>2 DEF GoOn, NeverStuck
  <2>6. CASE CommitWrite \/ StartupReconcile \/ ReadCommitted
    BY <2>6 DEF CommitWrite, StartupReconcile, ReadCommitted, Start, NeverStuck
  <2>7. CASE LinkMarker \/ SyncMarkers \/ CreateStaging \/ SyncFile \/ SyncRecord
    BY <2>7 DEF LinkMarker, SyncMarkers, CreateStaging, SyncFile, SyncRecord, Proceed, GoOn, NeverStuck
  <2>8. CASE RemoveName \/ ClassifyDebris \/ Return
    BY <2>8 DEF RemoveName, ClassifyDebris, Return, Proceed, GoOn, NeverStuck
  <2>9. CASE StepFails \/ StagingFails \/ ProcessKilled \/ PowerLoss
    BY <2>9 DEF StepFails, StagingFails, ProcessKilled, PowerLoss, Interrupt, NeverStuck
  <2>10. CASE DropFails
    BY <1>3, <2>10 DEF DropFails, NeverStuck
  <2> QED BY <1>3, <2>2, <2>3, <2>4, <2>5, <2>6, <2>7, <2>8, <2>9, <2>10 DEF Next
<1>4. ASSUME NeverStuck, UNCHANGED vars PROVE NeverStuck'
  BY <1>4 DEF NeverStuck, Lost, vars
<1>5. ASSUME IInv, [Next]_vars, NeverStuck PROVE NeverStuck'
  BY <1>2, <1>3, <1>4, <1>5
<1> QED BY <1>1, <1>5, Invariant, PTL DEF Spec

-----------------------------------------------------------------------------
(* The register the protocol implements.                                   *)
Started(m, n) ==
    IF n = 0 THEN 0
    ELSE CHOOSE w \in Writes : (\E i \in 1 .. n : m[i].op = w) /\ \A i \in 1 .. n : m[i].op <= w

(* The newest write a chain names.                                         *)
LEMMA NewestIs ==
  ASSUME NEW m \in Seq(Bodies), NEW n \in 1 .. Len(m)
  PROVE  LET w == Started(m, n)
         IN  w \in Writes /\ (\E i \in 1 .. n : m[i].op = w) /\ \A i \in 1 .. n : m[i].op <= w
<1> DEFINE T == {MaxWrites - m[i].op : i \in 1 .. n}
<1>1. \A i \in 1 .. n : m[i].op \in Writes
  <2>1. ASSUME NEW i \in 1 .. n PROVE m[i] \in Bodies
    <3>1. i \in 1 .. Len(m)
      OBVIOUS
    <3> QED BY <3>1, ElementOfSeq
  <2> QED BY <2>1 DEF Bodies
<1>2. T \in SUBSET Nat /\ T # {}
  <2>1. \A i \in 1 .. n : MaxWrites - m[i].op \in Nat
    BY <1>1, Numbers DEF Writes
  <2>2. MaxWrites - m[1].op \in T
    OBVIOUS
  <2> QED BY <2>1, <2>2
<1>3. PICK d \in T : \A e \in T : d <= e
  <2> HIDE DEF T
  <2> QED BY <1>2, Least
<1>4. PICK j \in 1 .. n : d = MaxWrites - m[j].op
  BY <1>3
<1>5. \A i \in 1 .. n : m[i].op <= m[j].op
  <2> SUFFICES ASSUME NEW i \in 1 .. n PROVE m[i].op <= m[j].op
    OBVIOUS
  <2>1. d <= MaxWrites - m[i].op
    BY <1>3
  <2> QED BY <1>1, <1>4, <2>1, Numbers DEF Writes
<1>6. \E w \in Writes : (\E i \in 1 .. n : m[i].op = w) /\ \A i \in 1 .. n : m[i].op <= w
  BY <1>1, <1>5
<1>7. n # 0
  OBVIOUS
<1> QED BY <1>6, <1>7 DEF Started

LEMMA NewestOnly ==
  ASSUME NEW m \in Seq(Bodies), NEW n \in 1 .. Len(m), NEW w \in Writes,
         \E i \in 1 .. n : m[i].op = w, \A i \in 1 .. n : m[i].op <= w
  PROVE  Started(m, n) = w
<1> DEFINE x == Started(m, n)
<1>1. x \in Writes /\ (\E i \in 1 .. n : m[i].op = x) /\ \A i \in 1 .. n : m[i].op <= x
  BY NewestIs
<1> HIDE DEF x
<1>2. x <= w /\ w <= x
  BY <1>1
<1>3. x = w
  BY <1>1, <1>2, Numbers
<1> QED BY <1>3 DEF x

(* Two chains that begin alike.                                            *)
LEMMA NewestSame ==
  ASSUME NEW m \in Seq(Bodies), NEW k \in Seq(Bodies), NEW n \in Nat, n <= Len(m), n <= Len(k),
         \A i \in 1 .. n : m[i] = k[i]
  PROVE  Started(m, n) = Started(k, n)
<1>1. CASE n = 0
  BY <1>1 DEF Started
<1>2. CASE n # 0
  <2>1. n \in 1 .. Len(m) /\ n \in 1 .. Len(k)
    BY <1>2
  <2>2. PICK w : w = Started(k, n)
    OBVIOUS
  <2>3. w \in Writes /\ (\E i \in 1 .. n : k[i].op = w) /\ \A i \in 1 .. n : k[i].op <= w
    BY <2>1, <2>2, NewestIs
  <2>4. (\E i \in 1 .. n : m[i].op = w) /\ \A i \in 1 .. n : m[i].op <= w
    BY <2>3
  <2> QED BY <2>1, <2>2, <2>3, <2>4, NewestOnly
<1> QED BY <1>1, <1>2

(* A marker that names an earlier write.                                   *)
LEMMA NewestRepeated ==
  ASSUME NEW m \in Seq(Bodies), NEW n \in Nat, n + 1 = Len(m), NEW j \in 1 .. n, m[n + 1].op = m[j].op
  PROVE  Started(m, n + 1) = Started(m, n)
<1>1. n \in 1 .. Len(m) /\ n + 1 \in 1 .. Len(m)
  OBVIOUS
<1>2. PICK w : w = Started(m, n)
  OBVIOUS
<1>3. w \in Writes /\ (\E i \in 1 .. n : m[i].op = w) /\ \A i \in 1 .. n : m[i].op <= w
  BY <1>1, <1>2, NewestIs
<1>4. (\E i \in 1 .. n + 1 : m[i].op = w) /\ \A i \in 1 .. n + 1 : m[i].op <= w
  BY <1>3
<1> QED BY <1>1, <1>2, <1>3, <1>4, NewestOnly

(* The authority speaks of writes the chain names.                         *)
LEMMA Traced ==
  ASSUME Chain, NEW n \in 0 .. Len(markers)
  PROVE  LET a == States(markers, n)
         IN  /\ a.serving.op # 0 => \E i \in 1 .. n : markers[i].op = a.serving.op
             /\ a.pending.op # 0 => \E i \in 1 .. n : markers[i].op = a.pending.op
<1> DEFINE Named(k) == /\ States(markers, k).serving.op # 0 => \E i \in 1 .. k : markers[i].op = States(markers, k).serving.op
                       /\ States(markers, k).pending.op # 0 => \E i \in 1 .. k : markers[i].op = States(markers, k).pending.op
           T == {k \in 0 .. Len(markers) : ~ Named(k)}
<1> SUFFICES T = {}
  OBVIOUS
<1> SUFFICES ASSUME T # {} PROVE FALSE
  OBVIOUS
<1>1. T \in SUBSET Nat /\ Len(markers) \in Nat
  BY DEF Chain
<1>2. PICK k \in T : \A j \in T : k <= j
  <2> HIDE DEF T
  <2> QED BY <1>1, Least
<1>3. CASE k = 0
  <2>1. States(markers, k) = Absent
    BY <1>3, StatesAt
  <2> QED BY <1>2, <2>1, Numbers
<1>4. CASE k # 0
  <2>1. k \in 1 .. Len(markers) /\ k - 1 \in 0 .. Len(markers) /\ k - 1 \notin T /\ k - 1 \in Nat
    BY <1>1, <1>2, <1>4
  <2>2. PICK a, b, m : a = States(markers, k) /\ b = States(markers, k - 1) /\ m = markers[k]
    OBVIOUS
  <2>3. a = Transition(b, m)
    <3>1. States(markers, (k - 1) + 1) = Transition(States(markers, k - 1), markers[(k - 1) + 1])
      BY <2>1, StatesAt
    <3>2. (k - 1) + 1 = k
      BY <2>1
    <3> QED BY <2>2, <3>1, <3>2
  <2>4. Legal(a)
    BY <2>1, <2>2 DEF Chain
  <2>5. a # Illegal
    BY <2>4 DEF Legal, Illegal, Absent
  <2>6. /\ b.serving.op # 0 => \E i \in 1 .. k - 1 : markers[i].op = b.serving.op
        /\ b.pending.op # 0 => \E i \in 1 .. k - 1 : markers[i].op = b.pending.op
    BY <2>1, <2>2
  <2>7. \/ a.serving = b.serving /\ a.pending.op = m.op
        \/ a.serving.op = m.op /\ a.pending = Nothing
    <3>1. CASE m.kind = "pending"
      BY <2>3, <2>5, <3>1 DEF Transition, AfterPending
    <3>2. CASE m.kind # "pending"
      BY <2>3, <2>5, <3>2 DEF Transition, AfterActive
    <3> QED BY <3>1, <3>2
  <2>8. Named(k)
    <3>1. k \in 1 .. k /\ \A i \in 1 .. k - 1 : i \in 1 .. k
      BY <2>1
    <3> QED BY <2>2, <2>6, <2>7, <3>1, Numbers
  <2> QED BY <1>2, <2>8
<1> QED BY <1>3, <1>4

-----------------------------------------------------------------------------
(* What a marker that may still be lost states.                            *)
Announcing ==
    /\ Authority.state = "pending" /\ Authority.serving = Durable.serving
    /\ markers[Len(markers)].op = Authority.pending.op
    /\ \A i \in 1 .. durableMarkers : markers[i].op < Authority.pending.op
    /\ Durable.state = "pending" => Durable.serving = Nothing
Deciding ==
    /\ Authority.state = "active" /\ Durable.state = "pending"
    /\ markers[Len(markers)].op = Authority.serving.op
    /\ \/ Authority.serving = Durable.serving
       \/ Authority.serving = Durable.pending
LastMarker == ~ Synced => Announcing \/ Deciding

LEMMA LinkMarkerLast ==
  ASSUME Base, LinkMarker
  PROVE  LastMarker'
<1> USE DEF Base
<1>1. /\ UNCHANGED <<durableMarkers, begun, files, bytes>> /\ Doing("linkMarker")
      /\ markers' = Append(markers, todo[1][2])
  BY DEF LinkMarker, Proceed, GoOn
<1>2. AtLinkMarker
  BY <1>1, StageAt
<1>3. Legal(Authority) /\ begun \in Nat /\ Len(markers) \in Nat
  BY LegalViews, Numbers DEF Scalars
<1>4. PICK o : o = Authority
  OBVIOUS
<1>5. ASSUME NEW a, NEW b \in Bodies, b.op <= begun, Synced, markers' = Append(markers, b),
             a = Transition(Authority, b), Legal(a)
      PROVE  /\ Authority' = a /\ Durable' = o /\ markers'[Len(markers')] = b /\ durableMarkers' = Len(markers)
             /\ \A i \in 1 .. Len(markers) : markers'[i] = markers[i]
  <2>1. Authority' = a /\ Durable' = o
    BY <1>1, <1>4, <1>5, ChainGrows
  <2>2. /\ markers'[Len(markers')] = b
        /\ \A i \in 1 .. Len(markers) : markers'[i] = markers[i]
    BY <1>3, <1>5, AppendProperties DEF Chain
  <2> QED BY <1>1, <1>5, <2>1, <2>2 DEF Synced
<1>6. CASE LET s == Authority.serving
               p == [gen |-> s.gen + 1, op |-> begun]
           IN /\ Synced /\ Resolved /\ Fresh
              /\ Does(<<"linkMarker", Pending(s.gen, p.gen, p.op)>>, Announced(p, Reporting(begun)))
  <2>1. PICK s, p, w : s = Authority.serving /\ p = [gen |-> s.gen + 1, op |-> w] /\ w = begun
    OBVIOUS
  <2>2. PICK b, a : b = Pending(s.gen, p.gen, w) /\ a = [state |-> "pending", serving |-> s, pending |-> p]
    OBVIOUS
  <2>3. /\ Synced /\ Resolved /\ Fresh /\ (Authority.state = "pending" => s = Nothing)
        /\ todo[1] = <<"linkMarker", b>>
    BY <1>6, <2>1, <2>2 DEF Does, Resolved
  <2>4. b \in Bodies /\ Transition(Authority, b) = a /\ Legal(a)
    BY <2>1, <2>2, <2>3, LegalSteps DEF Fresh, Resolved
  <2>5. markers' = Append(markers, b) /\ b.op <= begun /\ b.op = begun /\ p.op = begun
    BY <1>1, <1>3, <2>1, <2>2, <2>3 DEF Pending
  <2>6. /\ Authority' = a /\ Durable' = o /\ markers'[Len(markers')] = b /\ durableMarkers' = Len(markers)
        /\ \A i \in 1 .. Len(markers) : markers'[i] = markers[i]
    BY <1>5, <2>3, <2>4, <2>5
  <2>7. a.state = "pending" /\ a.serving = s /\ a.pending = p
    BY <2>2
  <2>8. \A i \in 1 .. Len(markers) : markers[i].op < begun
    BY <2>3 DEF Fresh
  <2>9. Announcing'
    BY <1>1, <1>3, <1>4, <2>1, <2>3, <2>5, <2>6, <2>7, <2>8 DEF Announcing
  <2> QED BY <2>9 DEF LastMarker
<1>7. CASE \E p, K : /\ Synced /\ InDoubt(p) /\ Final(p, K) /\ Candidate(p)
                     /\ <<Generation(p.gen), p.op>> \in sure /\ Settled
                     /\ Does(<<"linkMarker", Active(p)>>, Recording(p, K))
  <2>1. PICK p, K : /\ Synced /\ InDoubt(p) /\ Candidate(p)
                    /\ Does(<<"linkMarker", Active(p)>>, Recording(p, K))
    BY <1>7
  <2>2. PICK b, a : b = Active(p) /\ a = [state |-> "active", serving |-> p, pending |-> Nothing]
    OBVIOUS
  <2>3. b \in Bodies /\ Transition(Authority, b) = a /\ Legal(a) /\ b.op <= begun
    BY <2>1, <2>2, LegalSteps DEF InDoubt
  <2>4. markers' = Append(markers, b)
    BY <1>1, <2>1, <2>2 DEF Does
  <2>5. /\ Authority' = a /\ Durable' = o /\ markers'[Len(markers')] = b
    BY <1>5, <2>1, <2>3, <2>4
  <2>6. a.state = "active" /\ a.serving = p /\ b.op = p.op
    BY <2>2 DEF Active
  <2>7. o.state = "pending" /\ o.pending = p
    BY <1>4, <2>1 DEF InDoubt
  <2>8. Deciding'
    BY <1>1, <2>5, <2>6, <2>7 DEF Deciding
  <2> QED BY <2>8 DEF LastMarker
<1>8. CASE \E T : /\ Queue(T) /\ Rejects(Authority.pending) /\ Authority.serving # Nothing
                  /\ Does(<<"linkMarker", Active(Authority.serving)>>, Restored(T))
  <2>1. PICK T, s, p : /\ Rejects(p) /\ s # Nothing /\ s = Authority.serving /\ p = Authority.pending
                       /\ Does(<<"linkMarker", Active(s)>>, Restored(T))
    BY <1>8
  <2>2. PICK b, a : b = Active(s) /\ a = [state |-> "active", serving |-> s, pending |-> Nothing]
    OBVIOUS
  <2>3. Authority.state = "pending" /\ Synced
    BY <2>1 DEF Rejects, InDoubt
  <2>4. b \in Bodies /\ Transition(Authority, b) = a /\ Legal(a) /\ b.op <= begun
    BY <2>1, <2>2, <2>3, LegalSteps
  <2>5. markers' = Append(markers, b)
    BY <1>1, <2>1, <2>2 DEF Does
  <2>6. /\ Authority' = a /\ Durable' = o /\ markers'[Len(markers')] = b
    BY <1>5, <2>3, <2>4, <2>5
  <2>7. a.state = "active" /\ a.serving = s /\ b.op = s.op
    BY <2>2 DEF Active
  <2>8. Deciding'
    BY <1>1, <1>4, <2>1, <2>3, <2>6, <2>7 DEF Deciding
  <2> QED BY <2>8 DEF LastMarker
<1> QED BY <1>2, <1>6, <1>7, <1>8 DEF AtLinkMarker

LEMMA LastKept ==
  ASSUME Base, LastMarker, Next
  PROVE  LastMarker'
<1> USE DEF Base
<1>1. begun \in Nat /\ begun' \in Nat /\ begun' >= begun
  <2>1. begun \in Nat
    BY Numbers DEF Scalars
  <2>2. begun' = begun \/ begun' = begun + 1
    <3>1. CASE CommitWrite \/ StartupReconcile \/ ReadCommitted
      BY <3>1 DEF CommitWrite, StartupReconcile, ReadCommitted
    <3>2. CASE Reconcile \/ BeginWrite \/ Read \/ Verify \/ Promote \/ LinkRejected
      BY <3>2 DEF Reconcile, BeginWrite, Read, Load, Verify, Promote, LinkRejected, GoOn
    <3>3. CASE \/ LinkMarker \/ SyncMarkers \/ CreateStaging \/ SyncFile \/ SyncRecord \/ RemoveName
               \/ ClassifyDebris \/ Return
      BY <3>3 DEF LinkMarker, SyncMarkers, CreateStaging, SyncFile, SyncRecord, RemoveName,
                  ClassifyDebris, Return, Proceed, GoOn
    <3>4. CASE DropFails \/ StepFails \/ StagingFails \/ ProcessKilled \/ PowerLoss
      BY <3>4 DEF DropFails, StepFails, StagingFails, ProcessKilled, PowerLoss, Interrupt
    <3> QED BY <3>1, <3>2, <3>3, <3>4 DEF Next
  <2> QED BY <2>1, <2>2
<1>2. CASE UNCHANGED chain
  <2>1. Authority' = Authority /\ Durable' = Durable
    BY <1>1, <1>2, ChainSame
  <2>2. UNCHANGED <<markers, durableMarkers>>
    BY <1>2 DEF chain
  <2> QED BY <1>2, <2>1, <2>2 DEF LastMarker, Announcing, Deciding, Synced
<1>3. CASE Synced'
  BY <1>3 DEF LastMarker
<1>4. CASE CommitWrite \/ StartupReconcile \/ ReadCommitted \/ Verify \/ Promote \/ LinkRejected \/ DropFails
  <2>1. UNCHANGED chain
    BY <1>4 DEF CommitWrite, StartupReconcile, ReadCommitted, Start, Verify, Promote, LinkRejected, DropFails
  <2> QED BY <1>2, <2>1
<1>5. CASE CreateStaging \/ SyncFile \/ SyncRecord \/ RemoveName \/ ClassifyDebris \/ Return
  <2>1. UNCHANGED chain
    BY <1>5 DEF CreateStaging, SyncFile, SyncRecord, RemoveName, ClassifyDebris, Return
  <2> QED BY <1>2, <2>1
<1>6. CASE StepFails \/ StagingFails \/ ProcessKilled
  <2>1. UNCHANGED chain
    BY <1>6 DEF StepFails, StagingFails, ProcessKilled, Interrupt
  <2> QED BY <1>2, <2>1
<1>7. CASE Reconcile \/ BeginWrite \/ Read \/ SyncMarkers
  <2>1. markers' = markers /\ durableMarkers' = Len(markers)
    BY <1>7 DEF Reconcile, BeginWrite, Read, Load, LoadSyncs, SyncMarkers
  <2> QED BY <1>3, <2>1 DEF Synced
<1>9. CASE PowerLoss
  BY <1>3, <1>9, PowerStep
<1>10. CASE LinkMarker
  BY <1>10, LinkMarkerLast
<1> QED BY <1>4, <1>5, <1>6, <1>7, <1>9, <1>10 DEF Next

-----------------------------------------------------------------------------
(* The register seen through the durable chain.                            *)
LEMMA Mapping ==
  /\ Register!Init <=> /\ Durable.serving.op = 0 /\ Durable.pending.op = 0
                       /\ Started(markers, durableMarkers) = 0 /\ returned = 0
  /\ Register!Begin <=> /\ Durable.pending.op = 0 \/ Durable.serving.op = 0
                        /\ Started(markers', durableMarkers') \in Nat
                        /\ Started(markers', durableMarkers') > Started(markers, durableMarkers)
                        /\ Durable'.pending.op = Started(markers', durableMarkers')
                        /\ Durable'.serving.op = Durable.serving.op /\ returned' = returned
  /\ Register!Commit <=> /\ Durable.pending.op # 0
                         /\ Durable'.serving.op = Durable.pending.op /\ Durable'.pending.op = 0
                         /\ Started(markers', durableMarkers') = Started(markers, durableMarkers)
                         /\ returned' = returned
  /\ Register!RollBack <=> /\ Durable.pending.op # 0 /\ Durable'.pending.op = 0
                           /\ Durable'.serving.op = Durable.serving.op
                           /\ Started(markers', durableMarkers') = Started(markers, durableMarkers)
                           /\ returned' = returned
  /\ Register!Return <=> /\ returned' = Durable.serving.op
                         /\ Durable'.serving.op = Durable.serving.op
                         /\ Durable'.pending.op = Durable.pending.op
                         /\ Started(markers', durableMarkers') = Started(markers, durableMarkers)
  /\ UNCHANGED Register!vars <=> /\ Durable'.serving.op = Durable.serving.op
                                 /\ Durable'.pending.op = Durable.pending.op
                                 /\ Started(markers', durableMarkers') = Started(markers, durableMarkers)
                                 /\ returned' = returned
BY DEF Register!Init, Register!Begin, Register!Commit, Register!RollBack, Register!Return, Register!vars,
       Started, NewestWrite

(* Nothing durable was stated.                                             *)
LEMMA NothingStated ==
  ASSUME Chain, Chain', Durable' = Durable, UNCHANGED <<durableMarkers, returned>>,
         \A i \in 1 .. durableMarkers : markers'[i] = markers[i]
  PROVE  UNCHANGED Register!vars
<1>1. PICK m, k, n : m = markers' /\ k = markers /\ n = durableMarkers
  OBVIOUS
<1>2. /\ m \in Seq(Bodies) /\ k \in Seq(Bodies) /\ n \in Nat /\ n <= Len(m) /\ n <= Len(k)
      /\ \A i \in 1 .. n : m[i] = k[i]
  BY <1>1 DEF Chain
<1>3. Started(m, n) = Started(k, n)
  BY <1>2, NewestSame
<1> QED BY <1>1, <1>3, Mapping

(* The last marker became durable.                                         *)
LEMMA LastStated ==
  ASSUME Base, LastMarker, Chain', Durable' = Authority, durableMarkers' = Len(markers),
         UNCHANGED returned, \A i \in 1 .. Len(markers) : markers'[i] = markers[i]
  PROVE  Register!Next \/ UNCHANGED Register!vars
<1> USE DEF Base
<1>1. CASE Synced
  <2>1. Durable = Authority
    BY <1>1, Serving
  <2> QED BY <1>1, <2>1, NothingStated DEF Synced
<1>2. CASE ~ Synced
  <2>1. PICK m, k, n, a, d : /\ m = markers' /\ k = markers /\ n = durableMarkers
                             /\ a = Authority /\ d = Durable
    OBVIOUS
  <2>2. /\ m \in Seq(Bodies) /\ k \in Seq(Bodies) /\ n \in Nat /\ Len(k) = n + 1 /\ Len(k) <= Len(m)
        /\ \A i \in 1 .. Len(k) : m[i] = k[i]
    BY <1>2, <2>1 DEF Chain, Synced
  <2>3. Started(m, n + 1) = Started(k, n + 1)
    BY <2>2, NewestSame
  <2>4. Legal(a) /\ Legal(d) /\ begun \in Nat
    BY <2>1, LegalViews, Numbers DEF Scalars
  <2>5. /\ Started(markers', durableMarkers') = Started(k, n + 1)
        /\ Started(markers, durableMarkers) = Started(k, n)
        /\ Durable'.pending.op = a.pending.op /\ Durable.pending.op = d.pending.op
        /\ Durable' = a /\ Durable = d /\ returned' = returned
    BY <2>1, <2>2, <2>3
  <2>6. CASE Announcing
    <3>1. PICK w : w = a.pending.op
      OBVIOUS
    <3>2. /\ a.state = "pending" /\ a.serving = d.serving /\ k[n + 1].op = w
          /\ \A i \in 1 .. n : k[i].op < w
          /\ d.state = "pending" => d.serving = Nothing
      BY <2>1, <2>2, <2>6, <3>1 DEF Announcing
    <3>3. w \in Writes /\ w \in Nat /\ w > 0
      <4>1. a.pending.op \in Writes
        BY <2>4, <3>2, LegalParts
      <4> QED BY <3>1, <4>1, Numbers
    <3>4. Started(k, n + 1) = w
      <4>1. n + 1 \in 1 .. Len(k) /\ \E i \in 1 .. n + 1 : k[i].op = w
        BY <2>2, <3>2
      <4>2. \A i \in 1 .. n + 1 : k[i].op <= w
        <5> SUFFICES ASSUME NEW i \in 1 .. n + 1 PROVE k[i].op <= w
          OBVIOUS
        <5>1. CASE i = n + 1
          BY <3>2, <3>3, <5>1
        <5>2. CASE i # n + 1
          <6>1. i \in 1 .. n
            BY <2>2, <5>2
          <6>2. k[i] \in Bodies
            BY <2>2, ElementOfSeq
          <6>3. k[i].op \in Nat
            BY <6>2, Numbers DEF Bodies
          <6> QED BY <3>2, <3>3, <6>1, <6>3
        <5> QED BY <5>1, <5>2
      <4> QED BY <2>2, <3>3, <4>1, <4>2, NewestOnly
    <3>5. Started(k, n) < w
      <4>1. CASE n = 0
        BY <3>3, <4>1 DEF Started
      <4>2. CASE n # 0
        <5>1. n \in 1 .. Len(k)
          BY <2>2, <4>2
        <5>2. \E i \in 1 .. n : k[i].op = Started(k, n)
          BY <2>2, <5>1, NewestIs
        <5> QED BY <3>2, <5>2
      <4> QED BY <4>1, <4>2
    <3>6. d.pending.op = 0 \/ d.serving.op = 0
      <4>1. CASE d.state = "pending"
        BY <3>2, <4>1, Numbers
      <4>2. CASE d.state # "pending"
        <5>1. d.pending = Nothing
          BY <2>4, <4>2, LegalParts
        <5> QED BY <5>1, Numbers
      <4> QED BY <4>1, <4>2
    <3>8. Register!Begin
      BY <2>5, <3>1, <3>2, <3>3, <3>4, <3>5, <3>6, Mapping
    <3> QED BY <3>8 DEF Register!Next
  <2>7. CASE Deciding
    <3>1. /\ a.state = "active" /\ d.state = "pending" /\ k[n + 1].op = a.serving.op
          /\ a.serving = d.serving \/ a.serving = d.pending
      BY <2>1, <2>2, <2>7 DEF Deciding
    <3>2. a.pending = Nothing /\ a.serving.op # 0 /\ d.pending.op \in Writes
      BY <2>4, <3>1, LegalParts
    <3>3. a.pending.op = 0
      BY <3>2, Numbers
    <3>4. Started(k, n + 1) = Started(k, n)
      <4>1. n \in 0 .. Len(markers) /\ d = States(markers, n)
        BY <2>1, <2>2, Views
      <4>2. /\ d.serving.op # 0 => \E i \in 1 .. n : markers[i].op = d.serving.op
            /\ d.pending.op # 0 => \E i \in 1 .. n : markers[i].op = d.pending.op
        BY <4>1, Traced
      <4>3. PICK j \in 1 .. n : k[j].op = a.serving.op
        BY <2>1, <3>1, <3>2, <4>2
      <4> QED BY <2>2, <3>1, <4>3, NewestRepeated
    <3>5. CASE a.serving = d.serving
      <4>1. CASE d.pending.op = 0
        BY <2>5, <3>3, <3>4, <3>5, <4>1, Mapping
      <4>2. CASE d.pending.op # 0
        <5>1. Register!RollBack
          BY <2>5, <3>3, <3>4, <3>5, <4>2, Mapping
        <5> QED BY <5>1 DEF Register!Next
      <4> QED BY <4>1, <4>2
    <3>6. CASE a.serving = d.pending
      <4>1. d.pending.op = d.pending.op /\ d.pending.op # 0
        BY <3>2, <3>6, Numbers
      <4>2. Register!Commit
        BY <2>5, <3>3, <3>4, <3>6, <4>1, Mapping
      <4> QED BY <4>2 DEF Register!Next
    <3> QED BY <3>1, <3>5, <3>6
  <2> QED BY <1>2, <2>6, <2>7 DEF LastMarker
<1> QED BY <1>1, <1>2

(* Every step is a step of the register or invisible to it.                *)
LEMMA RegisterStep ==
  ASSUME Base, Base', LastMarker, Next
  PROVE  Register!Next \/ UNCHANGED Register!vars
<1> USE DEF Base
<1>1. begun \in Nat /\ begun' \in Nat /\ Len(markers) \in Nat /\ durableMarkers \in 0 .. Len(markers)
  BY Numbers DEF Scalars, Chain
<1>2. CASE UNCHANGED <<chain, returned>>
  <2>1. UNCHANGED <<markers, durableMarkers, returned>>
    BY <1>2 DEF chain
  <2>2. Durable' = Durable
    BY <2>1, Views
  <2> QED BY <2>1, <2>2, NothingStated
<1>3. CASE CommitWrite \/ StartupReconcile \/ ReadCommitted \/ Verify \/ Promote \/ LinkRejected \/ DropFails
  <2>1. UNCHANGED <<chain, returned>>
    BY <1>3 DEF CommitWrite, StartupReconcile, ReadCommitted, Start, Verify, Promote, LinkRejected, DropFails
  <2> QED BY <1>2, <2>1
<1>4. CASE CreateStaging \/ SyncFile \/ SyncRecord \/ RemoveName \/ ClassifyDebris
  <2>1. UNCHANGED <<chain, returned>>
    BY <1>4 DEF CreateStaging, SyncFile, SyncRecord, RemoveName, ClassifyDebris
  <2> QED BY <1>2, <2>1
<1>5. CASE StepFails \/ StagingFails \/ ProcessKilled
  <2>1. UNCHANGED <<chain, returned>>
    BY <1>5 DEF StepFails, StagingFails, ProcessKilled, Interrupt
  <2> QED BY <1>2, <2>1
<1>6. CASE Reconcile \/ BeginWrite \/ Read \/ SyncMarkers
  <2>1. UNCHANGED <<markers, returned>> /\ durableMarkers' = Len(markers)
    BY <1>6 DEF Reconcile, BeginWrite, Read, Load, LoadSyncs, SyncMarkers
  <2>2. Durable' = Authority
    BY <2>1, Views
  <2> QED BY <2>1, <2>2, LastStated
<1>7. CASE LinkMarker
  <2>1. UNCHANGED <<durableMarkers, returned>> /\ markers' = Append(markers, todo[1][2])
    BY <1>7 DEF LinkMarker
  <2>2. \A i \in 1 .. durableMarkers : markers'[i] = markers[i]
    <3>1. PICK b : b = todo[1][2]
      OBVIOUS
    <3> QED BY <1>1, <2>1, <3>1, AppendProperties DEF Chain
  <2>3. Durable' = Durable
    <3>1. PICK m, k, n : m = markers' /\ k = markers /\ n = durableMarkers
      OBVIOUS
    <3>2. States(m, n) = States(k, n)
      BY <1>1, <2>2, <3>1, StatesAgree
    <3> QED BY <2>1, <3>1, <3>2, Views
  <2> QED BY <2>1, <2>2, <2>3, NothingStated
<1>8. CASE PowerLoss
  <2>1. PICK n \in durableMarkers .. Len(markers) : markers' = SubSeq(markers, 1, n) /\ durableMarkers' = n
    BY <1>8 DEF PowerLoss
  <2>2. UNCHANGED <<begun, returned>>
    BY <1>8 DEF PowerLoss, Interrupt
  <2>3. n \in {durableMarkers, Len(markers)}
    BY <1>1, <2>1 DEF Chain
  <2>4. n \in 0 .. Len(markers) /\ \A i \in 1 .. n : markers'[i] = markers[i]
    BY <1>1, <2>1, SubSeqProperties DEF Chain
  <2>5. Durable' = States(markers, n)
    <3>1. PICK m, k : m = markers' /\ k = markers
      OBVIOUS
    <3>2. States(m, n) = States(k, n)
      BY <2>4, <3>1, StatesAgree
    <3> QED BY <2>1, <3>1, <3>2, Views
  <2>6. CASE n = durableMarkers
    BY <2>1, <2>2, <2>4, <2>5, <2>6, NothingStated, Views
  <2>7. CASE n = Len(markers)
    BY <2>1, <2>2, <2>4, <2>5, <2>7, LastStated, Views
  <2> QED BY <2>3, <2>6, <2>7
<1>10. CASE Return
  <2>1. UNCHANGED <<markers, durableMarkers>> /\ returned' = todo[1][2]
    BY <1>10 DEF Return, chain
  <2>2. Synced /\ todo = Reporting(Authority.serving.op)
    BY <1>10, StageAt DEF Return, AtReturn
  <2>3. todo[1][2] = Authority.serving.op
    BY <2>2 DEF Reporting
  <2>4. Durable' = Durable /\ Durable = Authority
    BY <2>1, <2>2, Views, Serving
  <2>5. Durable'.pending.op = Durable.pending.op
    BY <2>1, <2>4
  <2>6. Register!Return
    BY <2>1, <2>3, <2>4, <2>5, Mapping
  <2> QED BY <2>6 DEF Register!Next
<1> QED BY <1>3, <1>4, <1>5, <1>6, <1>7, <1>8, <1>10 DEF Next

(* The protocol implements an atomic register: a write commits or is       *)
(* rolled back once and for all, and what a call returned is never undone, *)
(* whatever fails and whenever the process or the power is lost.           *)
THEOREM ImplementsRegister == Spec => Atomic
<1>1. ASSUME Init PROVE Register!Init /\ LastMarker
  <2>1. markers = << >> /\ durableMarkers = 0 /\ returned = 0
    BY <1>1 DEF Init
  <2>2. Durable = Absent
    BY <2>1, StatesAt, Views
  <2>3. Durable.pending.op = 0 /\ Durable.serving.op = 0 /\ Started(markers, durableMarkers) = 0
    BY <2>1, <2>2, Numbers DEF Started
  <2>4. Synced
    BY <2>1 DEF Synced
  <2> QED BY <2>1, <2>3, <2>4, Mapping DEF LastMarker
<1>2. ASSUME IInv, IInv', LastMarker, [Next]_vars
      PROVE  LastMarker' /\ [Register!Next]_(Register!vars)
  <2>1. Base /\ Base'
    BY <1>2 DEF IInv, Base
  <2>2. CASE Next
    BY <1>2, <2>1, <2>2, LastKept, RegisterStep
  <2>3. CASE UNCHANGED vars
    <3>1. UNCHANGED <<markers, durableMarkers, returned>>
      BY <2>3 DEF vars
    <3>2. Authority' = Authority /\ Durable' = Durable
      BY <3>1, Views
    <3>3. UNCHANGED Register!vars
      BY <2>1, <3>1, <3>2, NothingStated DEF Base
    <3>4. LastMarker'
      BY <1>2, <3>1, <3>2 DEF LastMarker, Announcing, Deciding, Synced
    <3> QED BY <3>3, <3>4
  <2> QED BY <1>2, <2>2, <2>3
<1> QED BY <1>1, <1>2, Invariant, PTL DEF Spec, Atomic, Register!Spec
=============================================================================
