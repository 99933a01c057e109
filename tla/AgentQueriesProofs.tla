--------------------------- MODULE AgentQueriesProofs ---------------------------
(***************************************************************************)
(* Theorems about AgentQueries for every number of connections, clients,   *)
(* snapshots and executions, and every limit.                              *)
(*                                                                         *)
(* The inductive invariant relates the steps that the threads still have   *)
(* to take to the records: what a step was decided on (that a query was    *)
(* accepted, that it waits and is claimed, that it is over in the engine)  *)
(* still holds when the step is taken, unless the query is `raced`, that   *)
(* is, it was decided while it was handed to the engine.                   *)
(***************************************************************************)
EXTENDS AgentQueries, SequenceTheorems, FiniteSetTheorems, WellFoundedInduction, TLAPS

HandKinds == {"admit", "submit", "accept"}      \* handing a query to the engine
EngagedKinds == HandKinds \cup {"fail"}
ReleaseKinds == {"unlink", "expire", "sift", "release", "drop"}
\* The steps about an execution.
WorkKinds == StepKinds \ {"pick", "lapse", "revoke", "close"}

Steps(t) == {agenda[t][n] : n \in DOMAIN agenda[t]}
Later(t) == {agenda[t][n] : n \in 2..Len(agenda[t])}

AnyStep == [do : StepKinds, of : Executions \cup Connections \cup Profiles \cup {0}, saw : Work]
Records == [state : (Work \ {"none"}) \cup {"absent"}, by : Connections \cup {Desktop},
            accepted : BOOLEAN, claimed : BOOLEAN, snapshot : Snapshots \cup {NoSnapshot},
            result : BOOLEAN, bytes : Nat, cleanup : BOOLEAN, readers : Nat]

Shape ==
    /\ authenticated \subseteq Connections /\ poisoned \in BOOLEAN
    /\ snapshots \in [Snapshots -> {"free", "reserved", "gone"}]
    /\ query \in [Executions -> Records]
    /\ admitted \in 0..MaxExecutions /\ lastProfile \in Nat
    /\ agenda \in [Threads -> Seq(AnyStep)]
    /\ work \in [Executions -> Work]
    /\ killed \subseteq Executions /\ pages \subseteq Executions /\ raced \subseteq Executions

Holding(e) ==
    LET s == query[e].snapshot
    IN  s # NoSnapshot /\ snapshots[s] = "reserved" /\ SnapshotOf[s] \in authenticated
Pending(e) == query[e].state = "queued" /\ ~query[e].accepted
\* The engine does not work on it, or is about to stop.
Quiet(e) == work[e] \notin ActiveStates \/ e \in killed
Settled(e) == e \in raced \/ (~Pending(e) /\ Quiet(e))
Handed(e) == ~Waiting(e) /\ (e \in raced \/ Pending(e))
Known(e) == query[e].accepted \/ ~Live(e)

\* What a step was decided on still holds.
StepStands(t, s) ==
    LET e == s.of IN
    /\ s.do \in WorkKinds => e \in 1..admitted
    /\ s.do \in {"status", "answer"} => t # Reaper
    /\ s.do \in {"status", "apply", "poll"} => Known(e)
    /\ s.do = "apply" =>
          /\ s.saw # "none"
          /\ s.saw \in TerminalStates => Settled(e)
          /\ s.saw \in {"failed", "cancelled"} => e \in raced \/ e \notin pages
    /\ s.do \in ReleaseKinds \cup {"invalidate"} => ~Holding(e)
    /\ s.do \in ReleaseKinds => Settled(e)
    /\ s.do = "drop" => e \in raced \/ e \notin pages
    /\ s.do \in HandKinds => Handed(e)
    /\ s.do \in {"admit", "submit"} => work[e] = "none"

\* A thread hands over one query at a time, and first of all; the steps that fail
\* a query come later only with the reaper.
InFront(t, s) == s.do \notin HandKinds /\ (s.do = "fail" => t = Reaper)

StepsStand ==
    \A t \in Threads : (\A s \in Steps(t) : StepStands(t, s)) /\ (\A s \in Later(t) : InFront(t, s))

\* No two threads hand over the same query.
OneHand ==
    \A t, u \in Threads : \A s \in Steps(t), r \in Steps(u) :
        s.do \in HandKinds /\ r.do \in HandKinds /\ s.of = r.of => t = u

\* What is true of the record, the work and the pages of an execution.
RecordStands(e) ==
    LET q == query[e] IN
    /\ e > admitted => q = NoQuery /\ e \notin pages \cup killed \cup raced /\ work[e] = "none"
    /\ IF Live(e) THEN q.by \in Connections ELSE q = NoQuery
    /\ q.snapshot # NoSnapshot =>
          /\ Pending(e)
          /\ snapshots[q.snapshot] \in {"reserved", "gone"}
          /\ SnapshotOf[q.snapshot] = q.by
    /\ q.accepted => Live(e)
    /\ q.result => q.accepted /\ Settled(e)
    /\ q.cleanup => Live(e) /\ ~Holding(e) /\ Settled(e)
    /\ e \in killed => work[e] = "running"
    /\ e \in pages => work[e] = "succeeded"
    /\ Waiting(e) => work[e] = "none"
    /\ q.claimed /\ Pending(e) /\ ~poisoned => Handing(e)
    /\ work[e] \in ActiveStates /\ e \notin raced /\ ~poisoned =>
          (q.accepted /\ Outstanding(e)) \/ e \in killed \/ Upcoming(e, {"accept"})
    /\ e \in pages /\ e \notin raced /\ ~poisoned =>
          \/ Live(e) /\ (q.result \/ q.cleanup \/ (q.accepted /\ Outstanding(e)))
          \/ Upcoming(e, {"accept"})

\* A snapshot is of one query, and one that is reserved by a connection that is there
\* is of some query.
SnapshotsAreHeld ==
    /\ \A d, e \in Executions :
          d # e /\ query[d].snapshot = query[e].snapshot => query[e].snapshot = NoSnapshot
    /\ \A s \in Snapshots :
          snapshots[s] = "reserved" /\ SnapshotOf[s] \in authenticated =>
              \E e \in Executions : query[e].snapshot = s

Inv ==
    /\ Shape
    /\ StepsStand
    /\ OneHand
    /\ \A e \in Executions : RecordStands(e)
    /\ SnapshotsAreHeld

LEMMA InitInv == Init => Inv
<1> SUFFICES ASSUME Init PROVE Inv
  OBVIOUS
<1>1. NoQuery \in Records
  BY DEF NoQuery, Records, Work, ActiveStates, TerminalStates
<1>2. agenda \in [Threads -> Seq(AnyStep)]
  <2>1. <<>> \in Seq(AnyStep)
    BY EmptySeq
  <2> QED  BY <2>1 DEF Init
<1>3. Shape
  <2>1. query \in [Executions -> Records] /\ snapshots \in [Snapshots -> {"free", "reserved", "gone"}]
    BY <1>1 DEF Init
  <2>2. work \in [Executions -> Work] /\ admitted \in 0..MaxExecutions /\ lastProfile \in Nat
    BY QueryConstants DEF Init, Work
  <2> QED  BY <1>2, <2>1, <2>2 DEF Init, Shape
<1>4. \A t \in Threads : Steps(t) = {} /\ Later(t) = {}
  BY EmptySeq DEF Init, Steps, Later
<1>5. \A e \in Executions : RecordStands(e)
  BY <1>1 DEF Init, RecordStands, NoQuery, Live, Pending, Settled, Quiet, ActiveStates, Outstanding
<1>6. SnapshotsAreHeld
  BY DEF Init, SnapshotsAreHeld, NoQuery
<1> QED  BY <1>3, <1>4, <1>5, <1>6 DEF Inv, StepsStand, OneHand

--------------------------------------------------------------------------------
(* Agendas.                                                                *)

LEMMA StepTypes ==
    ASSUME NEW do \in StepKinds, NEW e \in Executions \cup Connections \cup Profiles \cup {0}
    PROVE  Step(do, e) \in AnyStep /\ Step(do, e).do = do /\ Step(do, e).of = e /\ Step(do, e).saw = "none"
BY DEF Step, AnyStep, Work

\* What is on an agenda whose first step gives way to others.
LEMMA ReplacedHead ==
    ASSUME NEW a \in Seq(AnyStep), a # <<>>, NEW q \in Seq(AnyStep)
    PROVE  /\ q \o Tail(a) \in Seq(AnyStep)
           /\ \A n \in DOMAIN q : n \in DOMAIN (q \o Tail(a)) /\ (q \o Tail(a))[n] = q[n]
           /\ \A m \in 2..Len(a) : \E n \in DOMAIN (q \o Tail(a)) : (q \o Tail(a))[n] = a[m]
           /\ \A n \in DOMAIN (q \o Tail(a)) :
                 \/ n \in DOMAIN q /\ (q \o Tail(a))[n] = q[n]
                 \/ \E m \in 2..Len(a) : n = Len(q) + m - 1 /\ (q \o Tail(a))[n] = a[m]
           /\ \A m \in DOMAIN a : m \in 2..Len(a) \/ a[m] = Head(a)
           /\ Head(a) \in AnyStep
<1> DEFINE b == q \o Tail(a)
<1>1. /\ Tail(a) \in Seq(AnyStep) /\ Len(Tail(a)) = Len(a) - 1 /\ Head(a) \in AnyStep
      /\ \A i \in 1..Len(Tail(a)) : Tail(a)[i] = a[i + 1]
      /\ Len(a) \in Nat /\ DOMAIN a = 1..Len(a) /\ Len(q) \in Nat /\ DOMAIN q = 1..Len(q)
      /\ Head(a) = a[1]
  BY HeadTailProperties, LenProperties
<1>2. /\ b \in Seq(AnyStep) /\ Len(b) = Len(q) + Len(Tail(a))
      /\ \A i \in 1..(Len(q) + Len(Tail(a))) : b[i] = IF i <= Len(q) THEN q[i] ELSE Tail(a)[i - Len(q)]
  BY <1>1, ConcatProperties
<1>3. DOMAIN b = 1..Len(b)
  BY <1>2, LenProperties
<1> HIDE DEF b
<1>4. \A n \in DOMAIN q : n \in DOMAIN b /\ b[n] = q[n]
  BY <1>1, <1>2, <1>3
<1>5. ASSUME NEW m \in 2..Len(a)
      PROVE  \E n \in DOMAIN b : b[n] = a[m]
  <2> DEFINE n == Len(q) + m - 1
  <2>1. n \in Int /\ n = Len(q) + m - 1 /\ m \in Int /\ 2 <= m /\ m <= Len(a)
    BY <1>1
  <2> HIDE DEF n
  <2>2. n \in DOMAIN b /\ n > Len(q) /\ n - Len(q) \in 1..Len(Tail(a)) /\ n - Len(q) + 1 = m
    BY <1>1, <1>2, <1>3, <2>1
  <2>3. b[n] = Tail(a)[n - Len(q)]
    <3>1. n \in 1..(Len(q) + Len(Tail(a))) /\ ~(n <= Len(q))
      BY <1>1, <1>2, <1>3, <2>1, <2>2
    <3> QED  BY <1>2, <3>1
  <2>4. b[n] = a[m]
    BY <1>1, <2>2, <2>3
  <2> QED  BY <2>2, <2>4
<1>6. ASSUME NEW n \in DOMAIN b, n \notin DOMAIN q
      PROVE  \E m \in 2..Len(a) : n = Len(q) + m - 1 /\ b[n] = a[m]
  <2>1. n - Len(q) + 1 \in 2..Len(a) /\ n - Len(q) \in 1..Len(Tail(a))
    BY <1>1, <1>2, <1>3, <1>6
  <2>2. b[n] = a[n - Len(q) + 1]
    BY <1>1, <1>2, <1>3, <1>6, <2>1
  <2> QED  BY <1>1, <1>3, <2>1, <2>2
<1>7. \A m \in DOMAIN a : m \in 2..Len(a) \/ a[m] = Head(a)
  BY <1>1
<1> QED  BY <1>1, <1>2, <1>4, <1>5, <1>6, <1>7 DEF b

\* The first step of t's agenda gives way to the steps S.
Goes(t, S) ==
    /\ agenda' \in [Threads -> Seq(AnyStep)]
    /\ \A u \in Threads \ {t} : agenda'[u] = agenda[u]
    /\ S \subseteq Steps(t)' /\ Steps(t)' \subseteq S \cup Later(t)
    /\ \A s \in Later(t)' : s \in Later(t) \/ (s \in S /\ InFront(t, s))
    /\ \A s \in Steps(t) : s \in Steps(t)' \/ s = Head(agenda[t]) \/ s.do \notin EngagedKinds

LEMMA GoesOn ==
    ASSUME Shape, NEW t \in Threads, agenda[t] # <<>>, NEW q \in Seq(AnyStep), Then(t, q),
           \A n \in DOMAIN q : n > 1 => InFront(t, q[n])
    PROVE  Goes(t, {q[n] : n \in DOMAIN q})
<1>0. PICK a \in Seq(AnyStep) : a = agenda[t]
  BY DEF Shape
<1> DEFINE b == q \o Tail(a)
           S == {q[n] : n \in DOMAIN q}
<1>1. a # <<>> /\ agenda' = [agenda EXCEPT ![t] = b]
  BY <1>0 DEF Shape, Then
<1>2. /\ b \in Seq(AnyStep)
      /\ \A n \in DOMAIN q : n \in DOMAIN b /\ b[n] = q[n]
      /\ \A m \in 2..Len(a) : \E n \in DOMAIN b : b[n] = a[m]
      /\ \A n \in DOMAIN b : \/ n \in DOMAIN q /\ b[n] = q[n]
                             \/ \E m \in 2..Len(a) : n = Len(q) + m - 1 /\ b[n] = a[m]
      /\ \A m \in DOMAIN a : m \in 2..Len(a) \/ a[m] = Head(a)
  BY <1>0, <1>1, ReplacedHead
<1>3. Len(b) \in Nat /\ DOMAIN b = 1..Len(b)
  BY <1>2, LenProperties
<1> HIDE DEF b
<1>4. agenda' \in [Threads -> Seq(AnyStep)] /\ agenda'[t] = b
      /\ \A u \in Threads \ {t} : agenda'[u] = agenda[u]
  BY <1>0, <1>1, <1>2 DEF Shape
<1>5. S \subseteq Steps(t)' /\ Steps(t)' \subseteq S \cup Later(t)
  <2>1. Steps(t)' = {b[n] : n \in DOMAIN b} /\ Later(t) = {a[m] : m \in 2..Len(a)}
    BY <1>0, <1>4 DEF Steps, Later
  <2> QED  BY <1>2, <2>1
<1>6. \A s \in Later(t)' : s \in Later(t) \/ (s \in S /\ InFront(t, s))
  <2> SUFFICES ASSUME NEW n \in 2..Len(b)
               PROVE b[n] \in Later(t) \/ (b[n] \in S /\ InFront(t, b[n]))
    BY <1>4 DEF Later
  <2>1. n \in DOMAIN b /\ n > 1
    BY <1>3
  <2> QED  BY <1>0, <1>2, <2>1 DEF Later
<1>7. \A s \in Steps(t) : s \in Steps(t)' \/ s = Head(agenda[t])
  <2> SUFFICES ASSUME NEW m \in DOMAIN a PROVE a[m] \in Steps(t)' \/ a[m] = Head(a)
    BY <1>0 DEF Steps
  <2>1. CASE m \in 2..Len(a)
    <3>1. PICK n \in DOMAIN b : b[n] = a[m]
      BY <1>2, <2>1
    <3> QED  BY <1>4, <3>1 DEF Steps
  <2> QED  BY <1>2, <2>1
<1> QED  BY <1>4, <1>5, <1>6, <1>7 DEF Goes

LEMMA GoesNowhere ==
    ASSUME Shape, NEW t \in Threads, agenda[t] # <<>>, Then(t, <<>>)
    PROVE  Goes(t, {})
<1> DEFINE q == <<>>
<1>1. q \in Seq(AnyStep) /\ DOMAIN q = {}
  BY EmptySeq
<1>2. {q[n] : n \in DOMAIN q} = {}
  BY <1>1
<1> QED  BY <1>1, <1>2, GoesOn

LEMMA GoesTo ==
    ASSUME Shape, NEW t \in Threads, agenda[t] # <<>>, NEW s \in AnyStep, Then(t, <<s>>)
    PROVE  Goes(t, {s})
<1> DEFINE q == <<s>>
<1>1. q \in Seq(AnyStep) /\ DOMAIN q = {1} /\ q[1] = s
  OBVIOUS
<1>2. {q[n] : n \in DOMAIN q} = {s}
  BY <1>1
<1> HIDE DEF q
<1>3. Then(t, q)
  BY DEF q
<1> QED  BY <1>1, <1>2, <1>3, GoesOn

\* A new agenda, where nothing that must not be lost is on the old one.
LEMMA GoesFrom ==
    ASSUME Shape, NEW t \in Threads, NEW q \in Seq(AnyStep), Begin(t, q),
           \A s \in Steps(t) : s = Head(agenda[t]) \/ s.do \notin EngagedKinds,
           \A n \in DOMAIN q : n > 1 => InFront(t, q[n])
    PROVE  Goes(t, {q[n] : n \in DOMAIN q})
<1> DEFINE S == {q[n] : n \in DOMAIN q}
<1>1. agenda' \in [Threads -> Seq(AnyStep)] /\ agenda'[t] = q
      /\ \A u \in Threads \ {t} : agenda'[u] = agenda[u]
  BY DEF Shape, Begin
<1>2. Len(q) \in Nat /\ DOMAIN q = 1..Len(q)
  BY LenProperties
<1>3. Steps(t)' = S
  BY <1>1 DEF Steps
<1>4. \A s \in Later(t)' : s \in S /\ InFront(t, s)
  <2> SUFFICES ASSUME NEW n \in 2..Len(q) PROVE q[n] \in S /\ InFront(t, q[n])
    BY <1>1 DEF Later
  <2>1. n \in DOMAIN q /\ n > 1
    BY <1>2
  <2> QED  BY <2>1
<1> QED  BY <1>1, <1>3, <1>4 DEF Goes

\* A thread that is idle begins.
LEMMA BeginsIdle ==
    ASSUME Shape, NEW t \in Threads, Idle(t), NEW q \in Seq(AnyStep), Begin(t, q),
           \A n \in DOMAIN q : n > 1 => InFront(t, q[n])
    PROVE  Goes(t, {q[n] : n \in DOMAIN q})
<1>1. Steps(t) = {}
  BY EmptySeq DEF Idle, Steps
<1> QED  BY <1>1, GoesFrom

LEMMA BeginsOne ==
    ASSUME Shape, NEW t \in Threads, Idle(t), NEW s \in AnyStep, Begin(t, <<s>>)
    PROVE  Goes(t, {s})
<1> DEFINE q == <<s>>
<1>1. q \in Seq(AnyStep) /\ DOMAIN q = {1} /\ q[1] = s
  OBVIOUS
<1>2. {q[n] : n \in DOMAIN q} = {s}
  BY <1>1
<1> HIDE DEF q
<1>3. Begin(t, q)
  BY DEF q
<1> QED  BY <1>1, <1>2, <1>3, BeginsIdle

\* One step for each element of a set.
LEMMA EachIsOfTheSet ==
    ASSUME NEW do \in StepKinds, NEW S, S \subseteq Executions \/ S \subseteq Connections
    PROVE  /\ Each(do, S) \in Seq(AnyStep)
           /\ \A n \in DOMAIN Each(do, S) :
                 Each(do, S)[n].do = do /\ Each(do, S)[n].of \in S /\ Each(do, S)[n].saw = "none"
<1>1. IsFiniteSet(S)
  <2>1. IsFiniteSet(Executions)
    BY QueryConstants, FS_Interval DEF Executions
  <2>2. CASE S \subseteq Executions
    BY <2>1, <2>2, FS_Subset
  <2>3. CASE S \subseteq Connections
    BY <2>3, QueryConstants, FS_Subset
  <2> QED  BY <2>2, <2>3
<1>2. Cardinality(S) \in Nat /\ ExistsBijection(1..Cardinality(S), S)
  BY <1>1, FS_CardinalityType
<1>3. \E f \in [1..Cardinality(S) -> S] : IsInjective(f)
  BY <1>2 DEF ExistsBijection, Bijection, Injection, IsInjective
<1>4. SetToSeq(S) \in [1..Cardinality(S) -> S]
  BY <1>3 DEF SetToSeq
<1> DEFINE q == [n \in 1..Cardinality(S) |-> Step(do, SetToSeq(S)[n])]
<1>5. \A n \in 1..Cardinality(S) : SetToSeq(S)[n] \in S
  BY <1>4
<1>6. \A n \in 1..Cardinality(S) : q[n] \in AnyStep /\ q[n].do = do /\ q[n].of \in S /\ q[n].saw = "none"
  <2> SUFFICES ASSUME NEW n \in 1..Cardinality(S)
               PROVE q[n] \in AnyStep /\ q[n].do = do /\ q[n].of \in S /\ q[n].saw = "none"
    OBVIOUS
  <2>1. PICK e \in S : e = SetToSeq(S)[n]
    BY <1>5
  <2>2. q[n] = Step(do, e)
    BY <2>1
  <2>3. e \in Executions \cup Connections \cup Profiles \cup {0}
    OBVIOUS
  <2> HIDE DEF q
  <2> QED  BY <2>1, <2>2, <2>3, StepTypes
<1>7. q \in Seq(AnyStep)
  BY <1>2, <1>6
<1> QED  BY <1>6, <1>7 DEF Each


--------------------------------------------------------------------------------
(* What a step may do to the executions.                                   *)

Same(d) ==
    /\ query'[d] = query[d] /\ work'[d] = work[d]
    /\ (d \in killed' <=> d \in killed) /\ (d \in pages' <=> d \in pages) /\ (d \in raced' <=> d \in raced)
\* Its snapshot stays or is gone.
SnapshotStays(d) ==
    query[d].snapshot # NoSnapshot =>
        snapshots'[query[d].snapshot] \in {snapshots[query[d].snapshot], "gone"}
Untouched(d) == Same(d) /\ SnapshotStays(d)

\* What a pending step relies on is not undone.
Persists(d) ==
    /\ d \in raced => d \in raced'
    /\ Known(d) => Known(d)'
    /\ Settled(d) => Settled(d)'
    /\ ~Holding(d) => ~Holding(d)'
    /\ Settled(d) /\ (d \in raced \/ d \notin pages) => d \in raced' \/ d \notin pages'

\* If another thread hands it over, that stays so.
HandStays(t, d) == InHand(d, t) => Handed(d)' /\ (work[d] = "none" => work'[d] = "none")

\* Nothing that was there is forgotten or comes back.
Onward == admitted <= admitted' /\ authenticated' \subseteq authenticated /\ (poisoned => poisoned')

LEMMA UntouchedPersists ==
    ASSUME Inv, NEW d \in Executions, Untouched(d), Onward
    PROVE  Persists(d)
BY DEF Untouched, Same, SnapshotStays, Persists, Onward, Known, Settled, Holding, Pending, Quiet, Live

LEMMA UntouchedRecord ==
    ASSUME Inv, Shape', NEW d \in Executions, Untouched(d), Onward,
           Handing(d) => Handing(d)', Upcoming(d, {"accept"}) => Upcoming(d, {"accept"})'
    PROVE  RecordStands(d)'
<1> USE DEF Untouched, Same
<1>1. Persists(d)
  BY UntouchedPersists
<1>2. RecordStands(d)
  BY DEF Inv
<1>3. d > admitted' => d > admitted
  BY DEF Onward, Inv, Shape, Executions
<1>4. Live(d)' = Live(d) /\ Pending(d)' = Pending(d) /\ Outstanding(d)' = Outstanding(d)
  BY DEF Live, Pending, Outstanding
<1>5. query[d].snapshot # NoSnapshot => snapshots'[query[d].snapshot] \in {"reserved", "gone"}
  BY <1>2 DEF RecordStands, SnapshotStays
<1>6. poisoned \in BOOLEAN /\ (poisoned => poisoned')
  BY DEF Onward, Inv, Shape
<1>7. Waiting(d)' = Waiting(d)
  BY DEF Waiting
<1> QED  BY <1>1, <1>2, <1>3, <1>4, <1>5, <1>6, <1>7 DEF RecordStands, Persists

\* The steps that are there, by thread.
LEMMA UpcomingSteps ==
    ASSUME NEW e, NEW kinds
    PROVE  /\ Upcoming(e, kinds) <=> \E t \in Threads : \E s \in Steps(t) : s.of = e /\ s.do \in kinds
           /\ Handing(e) <=> Upcoming(e, EngagedKinds)
           /\ \A t : InHand(e, t) <=> \E u \in Threads \ {t} : \E s \in Steps(u) : s.do \in HandKinds /\ s.of = e
BY DEF Upcoming, Handing, InHand, Steps, EngagedKinds, HandKinds

LEMMA UpcomingStepsNext ==
    ASSUME NEW e, NEW kinds
    PROVE  /\ Upcoming(e, kinds)' <=> \E t \in Threads : \E s \in Steps(t)' : s.of = e /\ s.do \in kinds
           /\ Handing(e)' <=> Upcoming(e, EngagedKinds)'
BY DEF Upcoming, Handing, InHand, Steps, EngagedKinds, HandKinds

\* The step that t does is not what engages anybody with d, or another takes its place.
KeepsEngaged(t, S, d) ==
    agenda[t] # <<>> /\ Head(agenda[t]).of = d /\ Head(agenda[t]).do \in EngagedKinds =>
        Head(agenda[t]).do # "accept" /\ \E s \in S : s.of = d /\ s.do \in EngagedKinds

LEMMA EngagedStays ==
    ASSUME Shape, NEW t \in Threads, NEW S, Goes(t, S), NEW d \in Executions, KeepsEngaged(t, S, d)
    PROVE  /\ Handing(d) => Handing(d)'
           /\ Upcoming(d, {"accept"}) => Upcoming(d, {"accept"})'
<1>1. \A u \in Threads \ {t} : Steps(u)' = Steps(u)
  BY DEF Goes, Steps
<1>2. agenda[t] = <<>> => Steps(t) = {}
  BY EmptySeq DEF Steps
<1>3. ASSUME NEW s \in Steps(t), s.of = d, s.do \in EngagedKinds
      PROVE  \/ s \in Steps(t)'
             \/ s.do # "accept" /\ \E r \in Steps(t)' : r.of = d /\ r.do \in EngagedKinds
  BY <1>2, <1>3 DEF Goes, KeepsEngaged
<1>4. "accept" \in EngagedKinds
  BY DEF EngagedKinds, HandKinds
<1>5. ASSUME NEW kinds, kinds = EngagedKinds \/ kinds = {"accept"}, Upcoming(d, kinds)
      PROVE  Upcoming(d, kinds)'
  <2>1. PICK u \in Threads : \E s \in Steps(u) : s.of = d /\ s.do \in kinds
    BY <1>5, UpcomingSteps
  <2>2. CASE u = t
    <3>1. \E s \in Steps(t)' : s.of = d /\ s.do \in kinds
      BY <1>3, <1>4, <1>5, <2>1, <2>2
    <3> QED  BY <3>1, UpcomingStepsNext
  <2>3. CASE u # t
    BY <1>1, <2>1, <2>3, UpcomingStepsNext
  <2> QED  BY <2>2, <2>3
<1> QED  BY <1>5, UpcomingSteps, UpcomingStepsNext

LEMMA StepPersists ==
    ASSUME Inv, NEW t \in Threads, NEW s \in AnyStep, StepStands(t, s), Onward, admitted' \in Int,
           s.do \in WorkKinds => Persists(s.of),
           s.do \in HandKinds => Handed(s.of)',
           s.do \in {"admit", "submit"} => work'[s.of] = "none"
    PROVE  StepStands(t, s)'
<1>1. /\ ReleaseKinds \cup {"invalidate"} \cup {"status", "apply", "poll"} \subseteq WorkKinds
      /\ "apply" \in WorkKinds /\ "drop" \in ReleaseKinds
  BY DEF ReleaseKinds, WorkKinds, StepKinds
<1>2. s.do \in WorkKinds => s.of \in 1..admitted'
  BY DEF StepStands, Onward, Inv, Shape
<1>3. {"failed", "cancelled"} \subseteq TerminalStates
  BY DEF TerminalStates
<1> QED  BY <1>1, <1>2, <1>3 DEF StepStands, Persists


\* An execution that a step changes.
Touched(t, d) == (d <= admitted => Persists(d)) /\ HandStays(t, d) /\ RecordStands(d)'

\* t hands over what it had in hand before, or what nobody else has.
HandsOn(t, s) ==
    \/ agenda[t] # <<>> /\ Head(agenda[t]).do \in HandKinds /\ Head(agenda[t]).of = s.of
    \/ ~InHand(s.of, t)

LEMMA Moves ==
    ASSUME Inv, Shape', NEW t \in Threads, NEW S, Goes(t, S), Onward,
           \A d \in Executions : (Untouched(d) /\ KeepsEngaged(t, S, d)) \/ Touched(t, d),
           \A s \in S : StepStands(t, s)' /\ (s.do \in HandKinds => HandsOn(t, s)),
           SnapshotsAreHeld'
    PROVE  Inv'
<1>1. \A u \in Threads : \A s \in Steps(u) :
          s \in AnyStep /\ StepStands(u, s) /\ (s.do \in WorkKinds => s.of \in Executions /\ s.of <= admitted)
  <2> SUFFICES ASSUME NEW u \in Threads, NEW s \in Steps(u)
               PROVE s \in AnyStep /\ StepStands(u, s) /\ (s.do \in WorkKinds => s.of \in Executions /\ s.of <= admitted)
    OBVIOUS
  <2>1. agenda[u] \in Seq(AnyStep)
    BY DEF Inv, Shape
  <2>2. s \in AnyStep /\ StepStands(u, s)
    BY <2>1 DEF Steps, Inv, StepsStand
  <2>3. admitted \in 0..MaxExecutions /\ MaxExecutions \in Nat
    BY QueryConstants DEF Inv, Shape
  <2> QED  BY <2>2, <2>3 DEF StepStands, Executions
<1>2. \A u \in Threads \ {t} : Steps(u)' = Steps(u) /\ Later(u)' = Later(u)
  BY DEF Goes, Steps, Later
<1>3. Later(t) \subseteq Steps(t) /\ Later(t)' \subseteq Steps(t)'
  BY LenProperties DEF Later, Steps, Inv, Shape
<1>4. \A s \in Later(t) : InFront(t, s)
  BY DEF Inv, StepsStand
<1>5. \A d \in Executions : d <= admitted => Persists(d)
  BY UntouchedPersists DEF Touched
<1>6. HandKinds \subseteq WorkKinds /\ {"admit", "submit"} \subseteq HandKinds
  BY DEF HandKinds, WorkKinds, StepKinds
<1>7. admitted' \in Int
  BY DEF Shape
<1>8. ASSUME NEW u \in Threads \ {t}, NEW s \in Steps(u) PROVE StepStands(u, s)'
  <2>1. s.do \in WorkKinds => Persists(s.of)
    BY <1>1, <1>5, <1>8
  <2>2. ASSUME s.do \in HandKinds
        PROVE  Handed(s.of)' /\ (s.do \in {"admit", "submit"} => work'[s.of] = "none")
    <3>1. InHand(s.of, t) /\ s.of \in Executions
      BY <1>1, <1>6, <2>2, <1>8, UpcomingSteps
    <3>2. Handed(s.of) /\ (s.do \in {"admit", "submit"} => work[s.of] = "none")
      BY <1>1, <1>8, <2>2 DEF StepStands
    <3>3. CASE Untouched(s.of)
      BY <3>2, <3>3 DEF Untouched, Same, Handed, Pending, Waiting
    <3>4. CASE Touched(t, s.of)
      BY <3>1, <3>2, <3>4 DEF Touched, HandStays
    <3> QED  BY <3>1, <3>3, <3>4
  <2> QED  BY <1>1, <1>6, <1>7, <1>8, <2>1, <2>2, StepPersists
<1>9. ASSUME NEW s \in Steps(t)' PROVE StepStands(t, s)'
  <2>1. CASE s \in S
    BY <2>1
  <2>2. CASE s \in Later(t)
    <3>1. s \in Steps(t) /\ s.do \notin HandKinds
      BY <1>3, <1>4, <2>2 DEF InFront
    <3>2. s.do \in WorkKinds => Persists(s.of)
      BY <1>1, <1>5, <3>1
    <3> QED  BY <1>1, <1>6, <1>7, <3>1, <3>2, StepPersists
  <2> QED  BY <1>9, <2>1, <2>2 DEF Goes
<1>10. StepsStand'
  <2>1. \A s \in Later(t)' : InFront(t, s)
    BY <1>4 DEF Goes
  <2>2. \A u \in Threads \ {t} : \A s \in Later(u)' : InFront(u, s)
    BY <1>2 DEF Inv, StepsStand
  <2>3. \A u \in Threads : \A s \in Steps(u)' : StepStands(u, s)'
    BY <1>2, <1>8, <1>9
  <2> QED  BY <2>1, <2>2, <2>3 DEF StepsStand, InFront
<1>11. OneHand'
  <2>1. ASSUME NEW u \in Threads \ {t}, NEW s \in Steps(t)', NEW r \in Steps(u),
               s.do \in HandKinds, r.do \in HandKinds, s.of = r.of
        PROVE  FALSE
    <3>1. s \in S /\ InHand(s.of, t)
      BY <1>4, <2>1, UpcomingSteps DEF Goes, InFront
    <3>2. agenda[t] # <<>> /\ Head(agenda[t]).do \in HandKinds /\ Head(agenda[t]).of = s.of
      BY <2>1, <3>1 DEF HandsOn
    <3>3. Head(agenda[t]) \in Steps(t)
      BY <3>2, EmptySeq, LenProperties DEF Steps, Inv, Shape
    <3> QED  BY <2>1, <3>2, <3>3 DEF Inv, OneHand
  <2> QED  BY <1>2, <2>1 DEF OneHand, Inv
<1>12. ASSUME NEW d \in Executions PROVE RecordStands(d)'
  <2>1. CASE Untouched(d) /\ KeepsEngaged(t, S, d)
    BY <2>1, EngagedStays, UntouchedRecord DEF Inv
  <2> QED  BY <2>1 DEF Touched
<1> QED  BY <1>10, <1>11, <1>12 DEF Inv

\* The steps of the engine and of snapshots: no agenda changes.
LEMMA Stays ==
    ASSUME Inv, Shape', UNCHANGED <<agenda, admitted>>, Onward,
           \A d \in Executions :
              Untouched(d) \/ (Persists(d) /\ (\A t \in Threads : HandStays(t, d)) /\ RecordStands(d)'),
           SnapshotsAreHeld'
    PROVE  Inv'
<1>1. \A u \in Threads : \A s \in Steps(u) :
          s \in AnyStep /\ StepStands(u, s) /\ (s.do \in WorkKinds => s.of \in Executions)
  <2> SUFFICES ASSUME NEW u \in Threads, NEW s \in Steps(u)
               PROVE s \in AnyStep /\ StepStands(u, s) /\ (s.do \in WorkKinds => s.of \in Executions)
    OBVIOUS
  <2>1. agenda[u] \in Seq(AnyStep)
    BY DEF Inv, Shape
  <2>2. s \in AnyStep /\ StepStands(u, s)
    BY <2>1 DEF Steps, Inv, StepsStand
  <2>3. admitted \in 0..MaxExecutions /\ MaxExecutions \in Nat
    BY QueryConstants DEF Inv, Shape
  <2> QED  BY <2>2, <2>3 DEF StepStands, Executions
<1>2. \A u : Steps(u)' = Steps(u) /\ Later(u)' = Later(u)
  BY DEF Steps, Later
<1>3. \A d \in Executions : Persists(d)
  BY UntouchedPersists
<1>4. HandKinds \subseteq WorkKinds /\ {"admit", "submit"} \subseteq HandKinds
  BY DEF HandKinds, WorkKinds, StepKinds
<1>5. admitted' \in Int
  BY DEF Shape
<1>6. ASSUME NEW u \in Threads, NEW s \in Steps(u) PROVE StepStands(u, s)'
  <2>1. s.do \in WorkKinds => Persists(s.of)
    BY <1>1, <1>3, <1>6
  <2>2. ASSUME s.do \in HandKinds
        PROVE  Handed(s.of)' /\ (s.do \in {"admit", "submit"} => work'[s.of] = "none")
    <3>1. PICK t \in Threads : t # u
      BY QueryConstants DEF Threads
    <3>2. InHand(s.of, t) /\ s.of \in Executions
      BY <1>1, <1>4, <1>6, <2>2, <3>1, UpcomingSteps
    <3>3. Handed(s.of) /\ (s.do \in {"admit", "submit"} => work[s.of] = "none")
      BY <1>1, <1>6, <2>2 DEF StepStands
    <3>4. CASE Untouched(s.of)
      BY <3>3, <3>4 DEF Untouched, Same, Handed, Pending, Waiting
    <3>5. CASE HandStays(t, s.of)
      BY <1>3, <3>2, <3>3, <3>5 DEF HandStays, Persists
    <3> QED  BY <3>2, <3>4, <3>5
  <2> QED  BY <1>1, <1>4, <1>5, <1>6, <2>1, <2>2, StepPersists
<1>7. StepsStand'
  BY <1>2, <1>6 DEF StepsStand, Inv, InFront
<1>8. OneHand'
  BY <1>2 DEF Inv, OneHand
<1>9. ASSUME NEW d \in Executions PROVE RecordStands(d)'
  <2>1. (Handing(d) => Handing(d)') /\ (Upcoming(d, {"accept"}) => Upcoming(d, {"accept"})')
    BY DEF Handing, Upcoming
  <2> QED  BY <2>1, UntouchedRecord
<1> QED  BY <1>7, <1>8, <1>9 DEF Inv

LEMMA SnapshotsFrame ==
    ASSUME Inv, authenticated' \subseteq authenticated,
           \A d \in Executions : query'[d].snapshot = query[d].snapshot,
           \A s \in Snapshots : snapshots'[s] \in {snapshots[s], "gone"}
    PROVE  SnapshotsAreHeld' /\ \A d \in Executions : SnapshotStays(d)
<1>1. \A d \in Executions : query[d].snapshot \in Snapshots \cup {NoSnapshot}
  BY DEF Inv, Shape, Records
<1> QED  BY <1>1 DEF Inv, SnapshotsAreHeld, SnapshotStays

--------------------------------------------------------------------------------
(* Steps that only decide what to do next.                                 *)

\* Nothing changes but an agenda and who may do what.
LEMMA Decisions ==
    ASSUME Inv, NEW t \in Threads, NEW S, Goes(t, S),
           UNCHANGED <<query, work, killed, pages, raced, admitted, poisoned, lastProfile>>,
           authenticated' \subseteq authenticated,
           snapshots' \in [Snapshots -> {"free", "reserved", "gone"}],
           \A s \in Snapshots : snapshots'[s] \in {snapshots[s], "gone"},
           \A s \in S : StepStands(t, s)' /\ (s.do \in HandKinds => HandsOn(t, s)),
           \A d \in Executions : KeepsEngaged(t, S, d)
    PROVE  Inv'
<1>1. SnapshotsAreHeld' /\ \A d \in Executions : SnapshotStays(d)
  BY SnapshotsFrame
<1>2. Onward
  BY DEF Onward, Inv, Shape
<1>3. \A d \in Executions : Untouched(d)
  BY <1>1 DEF Untouched, Same
<1>4. Shape'
  BY DEF Inv, Shape, Goes
<1> QED  BY <1>1, <1>2, <1>3, <1>4, Moves

\* Only an agenda changes.
LEMMA OnlyAgenda ==
    ASSUME Inv, NEW t \in Threads, NEW S, Goes(t, S),
           UNCHANGED <<query, work, killed, pages, raced, admitted, poisoned, lastProfile, authenticated, snapshots>>,
           \A s \in S : StepStands(t, s) /\ (s.do \in HandKinds => HandsOn(t, s)),
           \A d \in Executions : KeepsEngaged(t, S, d)
    PROVE  Inv'
<1>1. \A s \in S : StepStands(t, s)'
  BY DEF StepStands, Known, Live, Settled, Pending, Quiet, Holding, Handed, Waiting
<1>2. snapshots' \in [Snapshots -> {"free", "reserved", "gone"}]
  BY DEF Inv, Shape
<1> QED  BY <1>1, <1>2, Decisions

\* The step a thread does.
LEMMA AtHand ==
    ASSUME Inv, NEW t \in Threads, NEW do, NEW e, Doing(t, do, e)
    PROVE  /\ agenda[t] # <<>> /\ ~poisoned
           /\ Head(agenda[t]) \in AnyStep /\ Head(agenda[t]).do = do /\ Head(agenda[t]).of = e
           /\ Head(agenda[t]) \in Steps(t) /\ StepStands(t, Head(agenda[t]))
<1>1. agenda[t] # <<>> /\ agenda[t] \in Seq(AnyStep)
  BY DEF Doing, Inv, Shape
<1>2. Head(agenda[t]) \in AnyStep /\ Head(agenda[t]) \in Steps(t)
  BY <1>1, HeadTailProperties, LenProperties, EmptySeq DEF Steps
<1> QED  BY <1>1, <1>2 DEF Doing, Inv, StepsStand

\* Who has nothing in hand loses nothing.
LEMMA NothingInHand ==
    ASSUME NEW t, agenda[t] = <<>> \/ Head(agenda[t]).do \notin EngagedKinds
    PROVE  \A S, d : KeepsEngaged(t, S, d)
BY DEF KeepsEngaged

LEMMA Recorded ==
    ASSUME Inv, NEW e \in Executions, Live(e)
    PROVE  e \in 1..admitted /\ query[e].by \in Connections
<1>1. RecordStands(e) /\ admitted \in 0..MaxExecutions
  BY DEF Inv, Shape
<1>2. ~(e > admitted)
  BY <1>1 DEF RecordStands, NoQuery, Live
<1> QED  BY <1>1, <1>2, QueryConstants DEF RecordStands, Executions

\* Steps that may be put on t's agenda, wherever.
Fit(t) == {s \in AnyStep : StepStands(t, s) /\ InFront(t, s)}
FitAll(t, q) == q \in Seq(AnyStep) /\ \A n \in DOMAIN q : q[n] \in Fit(t)

LEMMA FitConcat ==
    ASSUME NEW t, NEW q, NEW r, FitAll(t, q), FitAll(t, r)
    PROVE  FitAll(t, q \o r)
<1>1. /\ q \o r \in Seq(AnyStep) /\ Len(q \o r) = Len(q) + Len(r)
      /\ \A i \in 1..(Len(q) + Len(r)) : (q \o r)[i] = IF i <= Len(q) THEN q[i] ELSE r[i - Len(q)]
  BY ConcatProperties DEF FitAll
<1>2. /\ Len(q) \in Nat /\ DOMAIN q = 1..Len(q) /\ Len(r) \in Nat /\ DOMAIN r = 1..Len(r)
      /\ DOMAIN (q \o r) = 1..(Len(q) + Len(r))
  BY <1>1, LenProperties DEF FitAll
<1>3. ASSUME NEW i \in 1..(Len(q) + Len(r)) PROVE (q \o r)[i] \in Fit(t)
  <2>1. CASE i <= Len(q)
    BY <1>1, <1>2, <2>1 DEF FitAll
  <2>2. CASE ~(i <= Len(q))
    <3>1. i - Len(q) \in DOMAIN r
      BY <1>2, <2>2
    <3> QED  BY <1>1, <2>2, <3>1 DEF FitAll
  <2> QED  BY <2>1, <2>2
<1> QED  BY <1>1, <1>2, <1>3 DEF FitAll

LEMMA FitOne ==
    ASSUME NEW t, NEW s \in Fit(t)
    PROVE  FitAll(t, <<s>>)
BY DEF FitAll, Fit

LEMMA FitNone == ASSUME NEW t PROVE FitAll(t, <<>>)
BY EmptySeq DEF FitAll

\* A thread that is idle begins what may be done.
LEMMA IdleBegins ==
    ASSUME Inv, NEW t \in Threads, Idle(t), NEW q, FitAll(t, q), Begin(t, q),
           UNCHANGED <<query, work, killed, pages, raced, admitted, poisoned, lastProfile, authenticated, snapshots>>
    PROVE  Inv'
<1>1. Goes(t, {q[n] : n \in DOMAIN q})
  BY BeginsIdle DEF FitAll, Fit, Inv
<1>2. \A d \in Executions : KeepsEngaged(t, {q[n] : n \in DOMAIN q}, d)
  BY NothingInHand DEF Idle
<1>3. \A s \in {q[n] : n \in DOMAIN q} : StepStands(t, s) /\ s.do \notin HandKinds
  BY DEF FitAll, Fit, InFront
<1> QED  BY <1>1, <1>2, <1>3, OnlyAgenda


\* Steps that may always be put on an agenda.
LEMMA PlainSteps ==
    ASSUME Inv, NEW t \in Threads
    PROVE  /\ Step("pick", 0) \in Fit(t)
           /\ \A e \in 1..admitted :
                 /\ \A do \in {"view", "mark", "cancel", "overdue", "read"} : Step(do, e) \in Fit(t)
                 /\ t # Reaper => Step("answer", e) \in Fit(t)
                 /\ t # Reaper /\ Known(e) => Step("status", e) \in Fit(t)
                 /\ t = Reaper => Step("fail", e) \in Fit(t)
                 /\ Known(e) => Step("poll", e) \in Fit(t)
                 /\ \A do \in {"unlink", "expire", "sift", "release"} :
                       ~Holding(e) /\ Settled(e) => Step(do, e) \in Fit(t)
<1>1. admitted \in 0..MaxExecutions /\ MaxExecutions \in Nat
  BY QueryConstants DEF Inv, Shape
<1>2. StepKinds \subseteq StepKinds /\ 1..admitted \subseteq Executions
  BY <1>1 DEF Executions
<1>3. ASSUME NEW do \in StepKinds, NEW e \in Executions \cup {0}
      PROVE  Step(do, e) \in AnyStep /\ Step(do, e).do = do /\ Step(do, e).of = e
  BY <1>3, StepTypes
<1>4. Step("pick", 0) \in Fit(t)
  <2>1. "pick" \in StepKinds
    BY DEF StepKinds
  <2>2. Step("pick", 0) \in AnyStep /\ Step("pick", 0).do = "pick"
    BY <1>3, <2>1
  <2> QED  BY <2>2 DEF Fit, StepStands, InFront, HandKinds, ReleaseKinds, WorkKinds
<1>5. ASSUME NEW e \in 1..admitted
      PROVE  /\ \A do \in {"view", "mark", "cancel", "overdue", "read"} : Step(do, e) \in Fit(t)
             /\ t # Reaper => Step("answer", e) \in Fit(t)
             /\ t # Reaper /\ Known(e) => Step("status", e) \in Fit(t)
             /\ t = Reaper => Step("fail", e) \in Fit(t)
             /\ Known(e) => Step("poll", e) \in Fit(t)
             /\ \A do \in {"unlink", "expire", "sift", "release"} :
                   ~Holding(e) /\ Settled(e) => Step(do, e) \in Fit(t)
  <2>1. \A do \in StepKinds : Step(do, e) \in AnyStep /\ Step(do, e).do = do /\ Step(do, e).of = e
    BY <1>2, <1>3, <1>5
  <2>2. {"view", "mark", "cancel", "overdue", "read", "answer", "status", "fail", "poll",
         "unlink", "expire", "sift", "release"} \subseteq StepKinds
    BY DEF StepKinds
  <2>3. ASSUME NEW do \in {"view", "mark", "cancel", "overdue", "read"} PROVE Step(do, e) \in Fit(t)
    BY <2>1, <2>2, <2>3 DEF Fit, StepStands, InFront, HandKinds, ReleaseKinds
  <2>4. t # Reaper => Step("answer", e) \in Fit(t)
    BY <2>1, <2>2 DEF Fit, StepStands, InFront, HandKinds, ReleaseKinds
  <2>5. t # Reaper /\ Known(e) => Step("status", e) \in Fit(t)
    BY <2>1, <2>2 DEF Fit, StepStands, InFront, HandKinds, ReleaseKinds
  <2>6. t = Reaper => Step("fail", e) \in Fit(t)
    BY <2>1, <2>2 DEF Fit, StepStands, InFront, HandKinds, ReleaseKinds
  <2>7. Known(e) => Step("poll", e) \in Fit(t)
    BY <2>1, <2>2 DEF Fit, StepStands, InFront, HandKinds, ReleaseKinds
  <2>8. ASSUME NEW do \in {"unlink", "expire", "sift", "release"}, ~Holding(e), Settled(e)
        PROVE  Step(do, e) \in Fit(t)
    BY <2>1, <2>2, <2>8 DEF Fit, StepStands, InFront, HandKinds, ReleaseKinds
  <2> QED  BY <2>3, <2>4, <2>5, <2>6, <2>7, <2>8
<1> QED  BY <1>4, <1>5

\* One step for each execution of a set.
LEMMA FitEach ==
    ASSUME NEW t, NEW do \in StepKinds, NEW S \in SUBSET Executions, \A e \in S : Step(do, e) \in Fit(t)
    PROVE  FitAll(t, Each(do, S))
<1>1. /\ Each(do, S) \in Seq(AnyStep)
      /\ \A n \in DOMAIN Each(do, S) :
            Each(do, S)[n].do = do /\ Each(do, S)[n].of \in S /\ Each(do, S)[n].saw = "none"
  BY EachIsOfTheSet
<1>2. ASSUME NEW n \in DOMAIN Each(do, S) PROVE Each(do, S)[n] \in Fit(t)
  <2>1. PICK x \in AnyStep : x = Each(do, S)[n]
    BY <1>1, LenProperties
  <2>2. x = Step(do, x.of)
    BY <1>1, <2>1 DEF AnyStep, Step
  <2> QED  BY <1>1, <2>1, <2>2
<1> QED  BY <1>1, <1>2 DEF FitAll

LEMMA ResultsAreSettled ==
    ASSUME Inv, NEW e \in Executions, query[e].result \/ query[e].cleanup
    PROVE  Live(e) /\ ~Holding(e) /\ Settled(e)
<1>1. RecordStands(e) /\ query[e] \in Records
  BY DEF Inv, Shape
<1>2. Live(e)
  BY <1>1 DEF RecordStands
<1> QED  BY <1>1, <1>2 DEF RecordStands, Holding, Pending


--------------------------------------------------------------------------------
(* The requests, and the steps that change only agendas.                   *)

\* The step at hand gives way to steps that engage nobody.
LEMMA GoesHarmlessly ==
    ASSUME Inv, NEW t \in Threads, NEW do, NEW e, Doing(t, do, e), do \notin EngagedKinds,
           Then(t, <<>>) \/ (\E s \in Fit(t) : Then(t, <<s>>)) \/ (\E q : FitAll(t, q) /\ Then(t, q)),
           UNCHANGED <<query, work, killed, pages, raced, admitted, poisoned, lastProfile, authenticated, snapshots>>
    PROVE  Inv'
<1>1. \E q : FitAll(t, q) /\ Then(t, q)
  BY FitNone, FitOne
<1>2. PICK q : FitAll(t, q) /\ Then(t, q)
  BY <1>1
<1>3. agenda[t] # <<>> /\ Head(agenda[t]).do = do
  BY AtHand
<1>4. Goes(t, {q[n] : n \in DOMAIN q})
  BY <1>2, <1>3, GoesOn DEF FitAll, Fit, Inv
<1>5. \A d \in Executions : KeepsEngaged(t, {q[n] : n \in DOMAIN q}, d)
  BY <1>3, NothingInHand
<1>6. \A s \in {q[n] : n \in DOMAIN q} : StepStands(t, s) /\ s.do \notin HandKinds
  BY <1>2 DEF FitAll, Fit, InFront
<1> QED  BY <1>4, <1>5, <1>6, OnlyAgenda

LEMMA StatusAsked ==
    ASSUME Inv, NEW t \in Threads, t # Reaper, NEW e \in 1..admitted
    PROVE  FitAll(t, (IF query[e].accepted THEN <<Step("status", e)>> ELSE <<>>) \o <<Step("pick", 0)>>)
<1>1. FitAll(t, IF query[e].accepted THEN <<Step("status", e)>> ELSE <<>>)
  BY PlainSteps, FitOne, FitNone DEF Known
<1> QED  BY <1>1, PlainSteps, FitOne, FitConcat

LEMMA QueryStatusStep == ASSUME Inv, NEW c \in Connections, NEW e \in Executions, QueryStatus(c, e) PROVE Inv'
<1>1. c \in Threads /\ c # Reaper /\ Live(e)
  BY QueryConstants DEF QueryStatus, Owns, Threads
<1> QED
  BY <1>1, Recorded, StatusAsked, IdleBegins DEF QueryStatus, access, engine

LEMMA AnswerStep == ASSUME Inv, NEW c \in Connections, NEW e \in Executions, Answer(c, e) PROVE Inv'
<1>1. c \in Threads /\ c # Reaper /\ Doing(c, "answer", e) /\ "answer" \notin EngagedKinds
  BY QueryConstants DEF Answer, Threads, EngagedKinds, HandKinds
<1>2. Then(c, <<>>) \/ \E q : FitAll(c, q) /\ Then(c, q)
  BY <1>1, Recorded, StatusAsked DEF Answer, Owns
<1> QED  BY <1>1, <1>2, GoesHarmlessly DEF Answer, access, engine

\* What the engine said of a query, as it is put on an agenda.
LEMMA Reported ==
    ASSUME Inv, NEW t \in Threads, NEW e \in Executions, e <= admitted, Known(e), work[e] # "none"
    PROVE  [Step("apply", e) EXCEPT !.saw = work[e]] \in Fit(t)
<1>1. "apply" \in StepKinds /\ Step("apply", e) = [do |-> "apply", of |-> e, saw |-> "none"]
  BY DEF StepKinds, Step
<1>2. [Step("apply", e) EXCEPT !.saw = work[e]] = [do |-> "apply", of |-> e, saw |-> work[e]]
  BY <1>1
<1>3. RecordStands(e) /\ work[e] \in Work
  BY DEF Inv, Shape
<1>4. work[e] \in TerminalStates => Settled(e)
  BY <1>3 DEF Settled, Known, Pending, Quiet, Live, TerminalStates, ActiveStates
<1>5. work[e] \in {"failed", "cancelled"} => e \notin pages
  BY <1>3 DEF RecordStands
<1>6. e \in 1..admitted
  BY QueryConstants DEF Inv, Shape, Executions
<1> QED
  BY <1>1, <1>2, <1>3, <1>4, <1>5, <1>6
     DEF Fit, StepStands, InFront, AnyStep, HandKinds, ReleaseKinds, EngagedKinds

LEMMA ReadStatusStep == ASSUME Inv, NEW t \in Threads, NEW e \in Executions, ReadStatus(t, e) PROVE Inv'
<1>1. Doing(t, "status", e) /\ "status" \notin EngagedKinds /\ "status" \in WorkKinds
  BY DEF ReadStatus, EngagedKinds, HandKinds, WorkKinds, StepKinds
<1>2. t # Reaper /\ Known(e) /\ e <= admitted
  <2>1. StepStands(t, Head(agenda[t])) /\ Head(agenda[t]).do = "status" /\ Head(agenda[t]).of = e
    BY <1>1, AtHand
  <2> QED  BY <1>1, <2>1 DEF StepStands, Inv, Shape
<1>3. CASE work[e] = "none"
  <2>1. Begin(t, <<>>) /\ <<>> \in Seq(AnyStep) /\ DOMAIN <<>> = {}
    BY <1>3, EmptySeq DEF ReadStatus
  <2>2. \A s \in Steps(t) : s = Head(agenda[t]) \/ s.do \notin EngagedKinds
    <3> SUFFICES ASSUME NEW n \in DOMAIN agenda[t], agenda[t][n] # Head(agenda[t])
                 PROVE  agenda[t][n].do \notin EngagedKinds
      BY DEF Steps
    <3>1. agenda[t] \in Seq(AnyStep) /\ agenda[t] # <<>>
      BY <1>1, AtHand DEF Inv, Shape
    <3>2. n \in 2..Len(agenda[t])
      BY <3>1, LenProperties, HeadTailProperties
    <3>3. InFront(t, agenda[t][n])
      BY <3>2 DEF Inv, StepsStand, Later
    <3> QED  BY <1>2, <3>3 DEF InFront, EngagedKinds
  <2>3. Goes(t, {})
    <3>1. {(<<>>)[n] : n \in DOMAIN <<>>} = {}
      BY <2>1
    <3> QED  BY <2>1, <2>2, <3>1, GoesFrom DEF Inv
  <2>4. \A d \in Executions : KeepsEngaged(t, {}, d)
    BY <1>1, AtHand, NothingInHand
  <2> QED  BY <2>3, <2>4, OnlyAgenda DEF ReadStatus, access, engine
<1>4. CASE work[e] # "none"
  BY <1>1, <1>2, <1>4, Reported, GoesHarmlessly DEF ReadStatus, access, engine
<1> QED  BY <1>3, <1>4

LEMMA PollStep == ASSUME Inv, NEW e \in Executions, Poll(e) PROVE Inv'
<1>1. Doing(Reaper, "poll", e) /\ "poll" \notin EngagedKinds /\ "poll" \in WorkKinds /\ Reaper \in Threads
  BY DEF Poll, EngagedKinds, HandKinds, WorkKinds, StepKinds, Threads
<1>2. Known(e) /\ e <= admitted
  <2>1. StepStands(Reaper, Head(agenda[Reaper])) /\ Head(agenda[Reaper]).do = "poll" /\ Head(agenda[Reaper]).of = e
    BY <1>1, AtHand
  <2> QED  BY <1>1, <2>1 DEF StepStands, Inv, Shape
<1>3. Then(Reaper, <<>>) \/ \E s \in Fit(Reaper) : Then(Reaper, <<s>>)
  BY <1>1, <1>2, Reported DEF Poll
<1> QED  BY <1>1, <1>3, GoesHarmlessly DEF Poll, access, engine

LEMMA CancelQueryStep == ASSUME Inv, NEW c \in Connections, NEW e \in Executions, CancelQuery(c, e) PROVE Inv'
<1>1. c \in Threads /\ c # Reaper /\ e \in 1..admitted
  BY Recorded, QueryConstants DEF CancelQuery, Owns, Threads
<1>2. /\ Step("cancel", e) \in Fit(c) /\ Step("mark", e) \in Fit(c) /\ Step("answer", e) \in Fit(c)
      /\ Step("pick", 0) \in Fit(c)
  BY <1>1, PlainSteps
<1>3. FitAll(c, <<Step("cancel", e), Step("answer", e)>>)
  BY <1>2 DEF FitAll, Fit
<1>4. FitAll(c, <<Step("mark", e), Step("pick", 0), Step("answer", e)>>)
  BY <1>2 DEF FitAll, Fit
<1> QED  BY <1>1, <1>3, <1>4, IdleBegins DEF CancelQuery, access, engine

LEMMA DesktopCancelStep == ASSUME Inv, NEW e \in Executions, DesktopCancel(e) PROVE Inv'
<1>1. Desktop \in Threads /\ e \in 1..admitted
  BY Recorded DEF DesktopCancel, Outstanding, Live, ActiveStates, Threads
<1>2. Step(IF query[e].accepted THEN "cancel" ELSE "mark", e) \in Fit(Desktop)
  BY <1>1, PlainSteps
<1> QED  BY <1>1, <1>2, FitOne, IdleBegins DEF DesktopCancel, access, engine

LEMMA ReleasesStep ==
    ASSUME Inv, NEW t \in Threads, NEW results \in SUBSET Executions,
           \A e \in results : query[e].result, Releases(t, results)
    PROVE  Inv'
<1>1. \A e \in results : Step("unlink", e) \in Fit(t)
  BY ResultsAreSettled, Recorded, PlainSteps
<1>2. "unlink" \in StepKinds
  BY DEF StepKinds
<1>3. FitAll(t, Each("unlink", results))
  BY <1>1, <1>2, FitEach
<1> QED  BY <1>3, IdleBegins DEF Releases, access, engine

LEMMA SiftStep == ASSUME Inv, NEW e \in Executions, Sift(e) PROVE Inv'
<1>1. Doing(Reaper, "sift", e) /\ "sift" \notin EngagedKinds /\ "sift" \in WorkKinds /\ Reaper \in Threads
  BY DEF Sift, EngagedKinds, HandKinds, WorkKinds, StepKinds, Threads
<1>2. e \in 1..admitted /\ ~Holding(e) /\ Settled(e)
  <2>1. StepStands(Reaper, Head(agenda[Reaper])) /\ Head(agenda[Reaper]).do = "sift" /\ Head(agenda[Reaper]).of = e
    BY <1>1, AtHand
  <2> QED  BY <1>1, <2>1 DEF StepStands, ReleaseKinds
<1>3. Step("release", e) \in Fit(Reaper)
  BY <1>1, <1>2, PlainSteps
<1>4. Then(Reaper, <<>>) \/ \E s \in Fit(Reaper) : Then(Reaper, <<s>>)
  BY <1>3 DEF Sift
<1> QED  BY <1>1, <1>4, GoesHarmlessly DEF Sift, access, engine

LEMMA RevokeStep == ASSUME Inv, NEW p \in Profiles, Revoke(p) PROVE Inv'
<1>1. "revoke" \in StepKinds /\ p \in Executions \cup Connections \cup Profiles \cup {0} /\ Desktop \in Threads
  BY DEF StepKinds, Threads
<1>2. Step("revoke", p) \in AnyStep /\ Step("revoke", p).do = "revoke"
  BY <1>1, StepTypes
<1>3. Step("revoke", p) \in Fit(Desktop)
  BY <1>2 DEF Fit, StepStands, InFront, HandKinds, ReleaseKinds, WorkKinds
<1> QED  BY <1>1, <1>3, FitOne, IdleBegins DEF Revoke, engine

LEMMA CloseProjectStep == ASSUME Inv, CloseProject PROVE Inv'
<1>1. Doing(Desktop, "close", 0) /\ "close" \notin EngagedKinds /\ Desktop \in Threads
  BY DEF CloseProject, EngagedKinds, HandKinds, Threads
<1> QED  BY <1>1, GoesHarmlessly DEF CloseProject, engine

LEMMA AdmitStep == ASSUME Inv, NEW t \in Threads, NEW e \in Executions, Admit(t, e) PROVE Inv'
<1>1. /\ Doing(t, "admit", e) /\ agenda[t] # <<>> /\ Head(agenda[t]).do = "admit" /\ Head(agenda[t]).of = e
      /\ StepStands(t, Head(agenda[t]))
  BY AtHand DEF Admit
<1>2. "admit" \in WorkKinds /\ "admit" \in HandKinds /\ {"submit", "fail"} \subseteq StepKinds
      /\ "submit" \notin ReleaseKinds /\ "fail" \notin ReleaseKinds \cup HandKinds
      /\ {"submit", "fail"} \subseteq EngagedKinds
  BY DEF WorkKinds, StepKinds, HandKinds, ReleaseKinds, EngagedKinds
<1>3. e \in 1..admitted /\ Handed(e) /\ work[e] = "none"
  BY <1>1, <1>2 DEF StepStands
<1>4. \A do \in {"submit", "fail"} : Step(do, e) \in AnyStep /\ Step(do, e).do = do /\ Step(do, e).of = e
  BY <1>2, StepTypes
<1>5. \A do \in {"submit", "fail"} : StepStands(t, Step(do, e))
  BY <1>2, <1>3, <1>4 DEF StepStands
<1>6. ASSUME NEW do \in {"submit", "fail"}, Then(t, <<Step(do, e)>>) PROVE Inv'
  <2>1. Goes(t, {Step(do, e)})
    BY <1>1, <1>4, <1>6, GoesTo DEF Inv
  <2>2. \A d \in Executions : KeepsEngaged(t, {Step(do, e)}, d)
    BY <1>1, <1>2, <1>4 DEF KeepsEngaged
  <2>3. HandsOn(t, Step(do, e))
    BY <1>1, <1>2, <1>4 DEF HandsOn
  <2> QED  BY <1>5, <2>1, <2>2, <2>3, OnlyAgenda DEF Admit, access, engine
<1> QED  BY <1>6 DEF Admit, OnRefusal

LEMMA MaintainStep == ASSUME Inv, Maintain PROVE Inv'
<1> DEFINE watched == {e \in Executions : query[e].accepted /\ Outstanding(e)}
           queued == {e \in Executions : ~query[e].accepted /\ query[e].state = "queued"}
           cleanup == {e \in Executions : query[e].cleanup /\ query[e].readers = 0}
<1>1. PICK late \in SUBSET (watched \cup queued), expired \in SUBSET {e \in Executions : query[e].result},
           stale \in SUBSET authenticated :
         Begin(Reaper, Each("poll", watched) \o Each("fail", late \cap queued)
                       \o Each("overdue", late \cap watched) \o <<Step("pick", 0)>>
                       \o Each("lapse", stale)
                       \o Each("expire", expired) \o Each("sift", cleanup \cup expired))
  BY DEF Maintain
<1>2. Reaper \in Threads /\ {"poll", "fail", "overdue", "lapse", "expire", "sift"} \subseteq StepKinds
  BY DEF Threads, StepKinds
<1>3. \A e \in Executions : Live(e) => e \in 1..admitted
  BY Recorded
<1>4. /\ \A e \in watched : Live(e) /\ Known(e)
      /\ \A e \in queued : Live(e)
      /\ \A e \in cleanup \cup expired : Live(e) /\ ~Holding(e) /\ Settled(e)
  BY ResultsAreSettled DEF Outstanding, Live, ActiveStates, Known
<1>5. FitAll(Reaper, Each("poll", watched))
  <2>1. \A e \in watched : Step("poll", e) \in Fit(Reaper)
    BY <1>2, <1>3, <1>4, PlainSteps
  <2> QED  BY <1>2, <2>1, FitEach
<1>6. FitAll(Reaper, Each("fail", late \cap queued))
  <2>1. \A e \in late \cap queued : Step("fail", e) \in Fit(Reaper)
    BY <1>2, <1>3, <1>4, PlainSteps
  <2> QED  BY <1>2, <2>1, FitEach
<1>7. FitAll(Reaper, Each("overdue", late \cap watched))
  <2>1. \A e \in late \cap watched : Step("overdue", e) \in Fit(Reaper)
    BY <1>2, <1>3, <1>4, PlainSteps
  <2> QED  BY <1>2, <2>1, FitEach
<1>8. FitAll(Reaper, <<Step("pick", 0)>>)
  BY <1>2, PlainSteps, FitOne
<1>9. FitAll(Reaper, Each("lapse", stale))
  <2>1. stale \subseteq Connections
    BY DEF Inv, Shape
  <2>2. /\ Each("lapse", stale) \in Seq(AnyStep)
        /\ \A n \in DOMAIN Each("lapse", stale) : Each("lapse", stale)[n].do = "lapse"
    BY <1>2, <2>1, EachIsOfTheSet
  <2>3. \A s \in AnyStep : s.do = "lapse" => s \in Fit(Reaper)
    BY DEF Fit, StepStands, InFront, HandKinds, ReleaseKinds, WorkKinds
  <2>4. \A n \in DOMAIN Each("lapse", stale) : Each("lapse", stale)[n] \in AnyStep
    BY <2>2, LenProperties
  <2> QED  BY <2>2, <2>3, <2>4 DEF FitAll
<1>10. FitAll(Reaper, Each("expire", expired))
  <2>1. \A e \in expired : Step("expire", e) \in Fit(Reaper)
    BY <1>2, <1>3, <1>4, PlainSteps
  <2> QED  BY <1>2, <2>1, FitEach
<1>11. FitAll(Reaper, Each("sift", cleanup \cup expired))
  <2>1. \A e \in cleanup \cup expired : Step("sift", e) \in Fit(Reaper)
    BY <1>2, <1>3, <1>4, PlainSteps
  <2> QED  BY <1>2, <2>1, FitEach
<1> HIDE DEF watched, queued, cleanup
<1>12. FitAll(Reaper, Each("poll", watched) \o Each("fail", late \cap queued))
  BY <1>5, <1>6, FitConcat
<1>13. FitAll(Reaper, Each("poll", watched) \o Each("fail", late \cap queued) \o Each("overdue", late \cap watched))
  BY <1>7, <1>12, FitConcat
<1>14. FitAll(Reaper, Each("poll", watched) \o Each("fail", late \cap queued)
                      \o Each("overdue", late \cap watched) \o <<Step("pick", 0)>>)
  BY <1>8, <1>13, FitConcat
<1>15. FitAll(Reaper, Each("poll", watched) \o Each("fail", late \cap queued)
                      \o Each("overdue", late \cap watched) \o <<Step("pick", 0)>> \o Each("lapse", stale))
  BY <1>9, <1>14, FitConcat
<1>16. FitAll(Reaper, Each("poll", watched) \o Each("fail", late \cap queued)
                      \o Each("overdue", late \cap watched) \o <<Step("pick", 0)>> \o Each("lapse", stale)
                      \o Each("expire", expired))
  BY <1>10, <1>15, FitConcat
<1>17. FitAll(Reaper, Each("poll", watched) \o Each("fail", late \cap queued)
                      \o Each("overdue", late \cap watched) \o <<Step("pick", 0)>> \o Each("lapse", stale)
                      \o Each("expire", expired) \o Each("sift", cleanup \cup expired))
  BY <1>11, <1>16, FitConcat
<1> QED  BY <1>1, <1>2, <1>17, IdleBegins DEF Maintain, access, engine

LEMMA Appended ==
    ASSUME NEW q \in Seq(AnyStep), NEW s \in AnyStep
    PROVE  Append(q, s) \in Seq(AnyStep) /\ \A n \in DOMAIN Append(q, s) : Append(q, s)[n] = s \/ \E m \in DOMAIN q : Append(q, s)[n] = q[m]
<1>1. /\ Append(q, s) \in Seq(AnyStep) /\ Len(Append(q, s)) = Len(q) + 1
      /\ \A i \in 1..Len(q) : Append(q, s)[i] = q[i]
      /\ Append(q, s)[Len(q) + 1] = s
  BY AppendProperties
<1>2. DOMAIN q = 1..Len(q) /\ DOMAIN Append(q, s) = 1..(Len(q) + 1) /\ Len(q) \in Nat
  BY <1>1, LenProperties
<1> QED  BY <1>1, <1>2

\* The desktop invalidates queries of which none can hold a snapshot any more.
LEMMA Invalidates ==
    ASSUME Inv, NEW S \in SUBSET Executions, NEW q,
           q = Invalidate(S) \/ q = Append(Invalidate(S), Step("close", 0)),
           (Idle(Desktop) /\ Begin(Desktop, q)) \/ (\E p : Doing(Desktop, "revoke", p) /\ Then(Desktop, q)),
           UNCHANGED <<query, work, killed, pages, raced, admitted, poisoned, lastProfile>>,
           authenticated' \subseteq authenticated,
           snapshots' \in [Snapshots -> {"free", "reserved", "gone"}],
           \A s \in Snapshots : snapshots'[s] \in {snapshots[s], "gone"},
           \A e \in S : Live(e) /\ ~Holding(e)'
    PROVE  Inv'
<1>1. {"invalidate", "close"} \subseteq StepKinds /\ Desktop \in Threads /\ Desktop # Reaper
      /\ "invalidate" \notin ReleaseKinds \cup EngagedKinds /\ "close" \notin WorkKinds \cup EngagedKinds
      /\ HandKinds \subseteq EngagedKinds /\ "fail" \in EngagedKinds
  BY QueryConstants DEF StepKinds, Threads, ReleaseKinds, EngagedKinds, HandKinds, WorkKinds
<1>2. /\ Invalidate(S) \in Seq(AnyStep)
      /\ \A n \in DOMAIN Invalidate(S) : Invalidate(S)[n].do = "invalidate" /\ Invalidate(S)[n].of \in S
  BY <1>1, EachIsOfTheSet DEF Invalidate
<1>3. Step("close", 0) \in AnyStep /\ Step("close", 0).do = "close"
  BY <1>1, StepTypes
<1>4. /\ q \in Seq(AnyStep)
      /\ \A n \in DOMAIN q : (q[n].do = "invalidate" /\ q[n].of \in S) \/ q[n].do = "close"
  <2> DEFINE r == Invalidate(S)
             s == Step("close", 0)
  <2>1. r \in Seq(AnyStep) /\ s \in AnyStep /\ s.do = "close"
        /\ \A n \in DOMAIN r : r[n].do = "invalidate" /\ r[n].of \in S
    BY <1>2, <1>3
  <2>2. q = r \/ q = Append(r, s)
    OBVIOUS
  <2> HIDE DEF r, s
  <2>3. CASE q = r
    BY <2>1, <2>3
  <2>4. CASE q = Append(r, s)
    <3>1. /\ Append(r, s) \in Seq(AnyStep)
          /\ \A n \in DOMAIN Append(r, s) : Append(r, s)[n] = s \/ \E m \in DOMAIN r : Append(r, s)[n] = r[m]
      BY <2>1, Appended
    <3> QED  BY <2>1, <2>4, <3>1
  <2> QED  BY <2>2, <2>3, <2>4
<1>5. \A n \in DOMAIN q : InFront(Desktop, q[n]) /\ q[n].do \notin HandKinds
  BY <1>1, <1>4 DEF InFront
<1>6. \A n \in DOMAIN q : StepStands(Desktop, q[n])'
  <2> SUFFICES ASSUME NEW n \in DOMAIN q PROVE StepStands(Desktop, q[n])'
    OBVIOUS
  <2>1. CASE q[n].do = "invalidate" /\ q[n].of \in S
    <3>1. q[n].of \in 1..admitted' /\ ~Holding(q[n].of)'
      BY <2>1, Recorded
    <3>2. q[n].do = "invalidate"
      BY <2>1
    <3> QED  BY <1>1, <3>1, <3>2 DEF StepStands, EngagedKinds
  <2>2. CASE q[n].do = "close"
    BY <1>1, <2>2 DEF StepStands, EngagedKinds, ReleaseKinds
  <2> QED  BY <1>4, <2>1, <2>2
<1> DEFINE T == {q[n] : n \in DOMAIN q}
<1>7. Goes(Desktop, T) /\ \A d \in Executions : KeepsEngaged(Desktop, T, d)
  <2>1. CASE Idle(Desktop) /\ Begin(Desktop, q)
    <3>1. agenda[Desktop] = <<>>
      BY <2>1 DEF Idle
    <3>2. Goes(Desktop, T)
      BY <1>1, <1>4, <1>5, <2>1, BeginsIdle DEF Inv
    <3> QED  BY <3>1, <3>2, NothingInHand
  <2>2. CASE \E p : Doing(Desktop, "revoke", p) /\ Then(Desktop, q)
    <3>1. agenda[Desktop] # <<>> /\ Head(agenda[Desktop]).do \notin EngagedKinds
      BY <2>2 DEF Doing, EngagedKinds, HandKinds
    <3>2. Goes(Desktop, T)
      BY <1>1, <1>4, <1>5, <2>2, <3>1, GoesOn DEF Inv
    <3> QED  BY <3>1, <3>2, NothingInHand
  <2> QED  BY <2>1, <2>2
<1> QED  BY <1>1, <1>5, <1>6, <1>7, Decisions

LEMMA RevokeConnectionsStep == ASSUME Inv, NEW p \in Profiles, RevokeConnections(p) PROVE Inv'
<1>1. authenticated' = {c \in authenticated : ProfileOf[c] # p} /\ snapshots' = snapshots /\ query' = query
  BY DEF RevokeConnections
<1>2. ASSUME NEW e \in OfProfile(p) PROVE Live(e) /\ ~Holding(e)'
  <2>1. e \in Executions /\ RecordStands(e) /\ Live(e) /\ ProfileOf[query[e].by] = p
    BY DEF OfProfile, Client, Inv
  <2> QED  BY <1>1, <2>1 DEF RecordStands, Holding
<1>3. OfProfile(p) \in SUBSET Executions
  BY DEF OfProfile
<1>4. Doing(Desktop, "revoke", p) /\ Then(Desktop, Invalidate(OfProfile(p)))
  BY DEF RevokeConnections
<1> QED  BY <1>1, <1>2, <1>3, <1>4, Invalidates DEF RevokeConnections, engine, Inv, Shape

\* After all snapshots are gone.
LEMMA NoneHeld ==
    ASSUME Inv, snapshots' = SnapshotsOf(Connections), query' = query
    PROVE  /\ snapshots' \in [Snapshots -> {"free", "reserved", "gone"}]
           /\ \A s \in Snapshots : snapshots'[s] \in {snapshots[s], "gone"}
           /\ \A e \in Executions : ~Holding(e)'
<1>1. \A s \in Snapshots : snapshots'[s] = "gone"
  BY QueryConstants DEF SnapshotsOf
<1>2. \A e \in Executions : query[e].snapshot \in Snapshots \cup {NoSnapshot}
  BY DEF Inv, Shape, Records
<1>3. snapshots' \in [Snapshots -> {"free", "reserved", "gone"}]
  BY DEF Inv, Shape, SnapshotsOf
<1> QED  BY <1>1, <1>2, <1>3 DEF Holding

LEMMA InvalidateProjectStep == ASSUME Inv, InvalidateProject PROVE Inv'
<1> DEFINE S == {e \in Executions : Live(e)}
<1>1. /\ snapshots' \in [Snapshots -> {"free", "reserved", "gone"}]
      /\ \A s \in Snapshots : snapshots'[s] \in {snapshots[s], "gone"}
      /\ \A e \in S : Live(e) /\ ~Holding(e)'
  BY NoneHeld DEF InvalidateProject
<1>2. Idle(Desktop) /\ Begin(Desktop, Append(Invalidate(S), Step("close", 0)))
  BY DEF InvalidateProject
<1>3. S \in SUBSET Executions
  OBVIOUS
<1> HIDE DEF S
<1> QED  BY <1>1, <1>2, <1>3, Invalidates DEF InvalidateProject, access, engine

LEMMA DisableStep == ASSUME Inv, Disable PROVE Inv'
<1> DEFINE S == {e \in Executions : Live(e)}
<1>1. /\ snapshots' \in [Snapshots -> {"free", "reserved", "gone"}]
      /\ \A s \in Snapshots : snapshots'[s] \in {snapshots[s], "gone"}
      /\ \A e \in S : Live(e) /\ ~Holding(e)'
  BY NoneHeld DEF Disable
<1>2. Idle(Desktop) /\ Begin(Desktop, Invalidate(S)) /\ authenticated' = {}
  BY DEF Disable, Threads
<1>3. S \in SUBSET Executions
  OBVIOUS
<1> HIDE DEF S
<1> QED  BY <1>1, <1>2, <1>3, Invalidates DEF Disable, engine

--------------------------------------------------------------------------------
(* The engine, and snapshots.                                              *)

LEMMA ClassifyStep ==
    ASSUME Inv, NEW c \in Connections, NEW s \in Snapshots, Classify(c, s) PROVE Inv'
<1>1. /\ snapshots' = [snapshots EXCEPT ![s] = "free"]
      /\ \A e \in Executions : query[e].snapshot # s
      /\ UNCHANGED <<authenticated, query, admitted, lastProfile, agenda, work, killed, pages, poisoned, raced>>
  BY DEF Classify, access, engine
<1>2. Shape' /\ Onward
  BY <1>1 DEF Inv, Shape, Onward
<1>3. \A e \in Executions : query[e].snapshot \in Snapshots \cup {NoSnapshot}
  BY DEF Inv, Shape, Records
<1>4. \A d \in Executions : Untouched(d)
  BY <1>1, <1>3 DEF Untouched, Same, SnapshotStays, Inv, Shape
<1>5. SnapshotsAreHeld'
  <2>1. SnapshotsAreHeld /\ snapshots \in [Snapshots -> {"free", "reserved", "gone"}]
    BY DEF Inv, Shape
  <2> QED  BY <1>1, <2>1 DEF SnapshotsAreHeld
<1> QED  BY <1>1, <1>2, <1>4, <1>5, Stays

LEMMA PruneSnapshotStep == ASSUME Inv, NEW s \in Snapshots, PruneSnapshot(s) PROVE Inv'
<1>1. /\ snapshots' = [snapshots EXCEPT ![s] = "gone"]
      /\ UNCHANGED <<authenticated, query, admitted, lastProfile, agenda, work, killed, pages, poisoned, raced>>
  BY DEF PruneSnapshot, access, engine
<1>2. Shape' /\ Onward
  BY <1>1 DEF Inv, Shape, Onward
<1>3. \A x \in Snapshots : snapshots'[x] \in {snapshots[x], "gone"}
  BY <1>1 DEF Inv, Shape
<1>4. SnapshotsAreHeld' /\ \A d \in Executions : SnapshotStays(d)
  BY <1>1, <1>3, SnapshotsFrame
<1>5. \A d \in Executions : Untouched(d)
  BY <1>1, <1>4 DEF Untouched, Same
<1> QED  BY <1>1, <1>2, <1>4, <1>5, Stays

LEMMA RefuseStep == ASSUME Inv, Refuse PROVE Inv'
<1>1. UNCHANGED <<authenticated, snapshots, query, admitted, lastProfile, agenda, work, killed, pages, poisoned, raced>>
  BY DEF Refuse, vars, access, engine
<1>2. Shape' /\ Onward /\ \A s \in Snapshots : snapshots'[s] \in {snapshots[s], "gone"}
  BY <1>1 DEF Inv, Shape, Onward
<1>3. SnapshotsAreHeld' /\ \A d \in Executions : SnapshotStays(d)
  BY <1>1, <1>2, SnapshotsFrame
<1>4. \A d \in Executions : Untouched(d)
  BY <1>1, <1>3 DEF Untouched, Same
<1> QED  BY <1>1, <1>2, <1>3, <1>4, Stays

\* What the engine does leaves everything else as it was.
LEMMA EngineFrame ==
    ASSUME Inv, UNCHANGED <<authenticated, snapshots, query, admitted, lastProfile, agenda, poisoned, raced>>
    PROVE  /\ Onward /\ SnapshotsAreHeld'
           /\ \A d : Handing(d)' = Handing(d) /\ Upcoming(d, {"accept"})' = Upcoming(d, {"accept"})
           /\ \A d : Live(d)' = Live(d) /\ Pending(d)' = Pending(d) /\ Outstanding(d)' = Outstanding(d)
                     /\ Holding(d)' = Holding(d) /\ Known(d)' = Known(d) /\ Handed(d)' = Handed(d)
<1>1. Onward /\ SnapshotsAreHeld'
  BY DEF Inv, Shape, Onward, SnapshotsAreHeld
<1>2. \A d : Handing(d)' = Handing(d) /\ Upcoming(d, {"accept"})' = Upcoming(d, {"accept"})
  BY DEF Handing, Upcoming
<1>3. \A d : Live(d)' = Live(d) /\ Pending(d)' = Pending(d) /\ Outstanding(d)' = Outstanding(d)
            /\ Known(d)' = Known(d)
  BY DEF Live, Pending, Outstanding, Known
<1>4. \A d : Holding(d)' = Holding(d) /\ Handed(d)' = Handed(d)
  BY DEF Holding, Handed, Pending, Waiting
<1> QED  BY <1>1, <1>2, <1>3, <1>4

\* Nobody hands over what is neither raced nor claimed and waiting.
LEMMA HandsAreHanded ==
    ASSUME Inv, NEW t \in Threads, NEW d, InHand(d, t)
    PROVE  Handed(d) /\ d \in 1..admitted
<1>1. PICK u \in Threads \ {t} : \E s \in Steps(u) : s.do \in HandKinds /\ s.of = d
  BY UpcomingSteps
<1>2. HandKinds \subseteq WorkKinds
  BY DEF HandKinds, WorkKinds, StepKinds
<1> QED  BY <1>1, <1>2 DEF Inv, StepsStand, StepStands

LEMMA EngineRunsStep == ASSUME Inv, NEW e \in Executions, EngineRuns(e) PROVE Inv'
<1>1. /\ work[e] = "queued" /\ work' = [work EXCEPT ![e] = "running"]
      /\ UNCHANGED <<authenticated, snapshots, query, admitted, lastProfile, agenda, killed, pages, poisoned, raced>>
  BY DEF EngineRuns, access, engine
<1>2. Shape'
  BY <1>1 DEF Inv, Shape, Work, ActiveStates
<1>3. work'[e] = "running" /\ \A d \in Executions : d # e => work'[d] = work[d]
  BY <1>1 DEF Inv, Shape
<1>4. \A d \in Executions : d # e => Untouched(d)
  BY <1>1, <1>3 DEF Untouched, Same, SnapshotStays, Inv, Shape, Records
<1>5. RecordStands(e) /\ e \notin killed /\ e \notin pages
  BY <1>1 DEF Inv, RecordStands
<1>6. Persists(e)
  BY <1>1, <1>3, <1>5, EngineFrame DEF Persists, Settled, Quiet, ActiveStates
<1>7. \A t \in Threads : HandStays(t, e)
  BY <1>1, EngineFrame, HandsAreHanded DEF HandStays
<1>8. RecordStands(e)'
  <2>1. Settled(e) => e \in raced
    BY <1>1, <1>5 DEF Settled, Quiet, ActiveStates
  <2>2. Settled(e) => Settled(e)'
    BY <1>6 DEF Persists
  <2>3. ~Waiting(e) /\ ~Waiting(e)'
    BY <1>1, <1>5 DEF RecordStands, Waiting
  <2> QED  BY <1>1, <1>3, <1>5, <2>2, <2>3, EngineFrame DEF RecordStands, ActiveStates
<1> QED  BY <1>1, <1>2, <1>4, <1>6, <1>7, <1>8, EngineFrame, Stays

LEMMA EngineEndsStep == ASSUME Inv, NEW e \in Executions, EngineEnds(e) PROVE Inv'
<1>1. /\ work[e] = "running" /\ killed' = killed \ {e}
      /\ UNCHANGED <<authenticated, snapshots, query, admitted, lastProfile, agenda, poisoned, raced>>
      /\ \/ e \notin killed /\ work' = [work EXCEPT ![e] = "succeeded"] /\ pages' = pages \cup {e}
         \/ work' = [work EXCEPT ![e] = IF e \in killed THEN "cancelled" ELSE "failed"] /\ pages' = pages
  BY DEF EngineEnds, access, engine
<1>2. Shape'
  BY <1>1 DEF Inv, Shape, Work, TerminalStates
<1>3. /\ work'[e] \in {"succeeded", "failed", "cancelled"} /\ \A d \in Executions : d # e => work'[d] = work[d]
      /\ e \in pages' => e \in pages \/ (e \notin killed /\ work'[e] = "succeeded")
  BY <1>1 DEF Inv, Shape
<1>4. \A d \in Executions : d # e => Untouched(d)
  BY <1>1, <1>3 DEF Untouched, Same, SnapshotStays, Inv, Shape, Records
<1>5. RecordStands(e) /\ e \notin pages
  BY <1>1 DEF Inv, RecordStands
<1>6. Persists(e)
  <2>1. Settled(e) => Settled(e)'
    BY <1>1, <1>3, EngineFrame DEF Settled, Quiet, ActiveStates
  <2>2. Settled(e) => e \in raced' \/ e \notin pages'
    BY <1>1, <1>3, <1>5 DEF Settled, Quiet, ActiveStates
  <2> QED  BY <1>1, <2>1, <2>2, EngineFrame DEF Persists
<1>7. \A t \in Threads : HandStays(t, e)
  BY <1>1, EngineFrame, HandsAreHanded DEF HandStays
<1>8. RecordStands(e)'
  <2>1. Settled(e) => Settled(e)'
    BY <1>6 DEF Persists
  <2>2. work'[e] \notin ActiveStates /\ work'[e] # "none" /\ work[e] \in ActiveStates /\ e \notin killed'
    BY <1>1, <1>3 DEF ActiveStates
  <2>3. ~Waiting(e) /\ ~Waiting(e)'
    BY <1>1, <1>5 DEF RecordStands, Waiting
  <2>4. e \in pages' /\ e \notin raced /\ ~poisoned =>
           (query[e].accepted /\ Outstanding(e)) \/ Upcoming(e, {"accept"})
    BY <1>3, <1>5, <2>2 DEF RecordStands
  <2>5. query[e].accepted => Live(e)
    BY <1>5 DEF RecordStands
  <2> QED  BY <1>1, <1>3, <1>5, <2>1, <2>2, <2>3, <2>4, <2>5, EngineFrame DEF RecordStands
<1> QED  BY <1>1, <1>2, <1>4, <1>6, <1>7, <1>8, EngineFrame, Stays

LEMMA EngineLostStep == ASSUME Inv, EngineLost PROVE Inv'
<1>1. /\ work' = [e \in Executions |-> "none"] /\ killed' = {} /\ pages' = {}
      /\ UNCHANGED <<authenticated, snapshots, query, admitted, lastProfile, agenda, poisoned, raced>>
  BY DEF EngineLost, access
<1>2. Shape'
  BY <1>1 DEF Inv, Shape, Work
<1>3. ASSUME NEW e \in Executions
      PROVE  Persists(e) /\ (\A t \in Threads : HandStays(t, e)) /\ RecordStands(e)'
  <2>1. work'[e] = "none" /\ e \notin pages' /\ e \notin killed'
    BY <1>1
  <2>2. Settled(e) => Settled(e)'
    BY <1>1, <2>1, EngineFrame DEF Settled, Quiet, ActiveStates
  <2>3. Persists(e)
    BY <1>1, <2>1, <2>2, EngineFrame DEF Persists
  <2>4. \A t \in Threads : HandStays(t, e)
    BY <1>1, <2>1, EngineFrame, HandsAreHanded DEF HandStays
  <2>5. RecordStands(e)
    BY DEF Inv
  <2>6. RecordStands(e)'
    BY <1>1, <2>1, <2>2, <2>5, EngineFrame DEF RecordStands, ActiveStates
  <2> QED  BY <2>3, <2>4, <2>6
<1> QED  BY <1>1, <1>2, <1>3, EngineFrame, Stays

--------------------------------------------------------------------------------
(* Steps that change what a record says of its result.                     *)

\* A record r in place of that of e, where nothing is decided about its submission.
LEMMA RecordMoves ==
    ASSUME Inv, NEW t \in Threads, NEW S, Goes(t, S), NEW e \in Executions, NEW r \in Records, Live(e),
           query' = [query EXCEPT ![e] = r],
           UNCHANGED <<work, killed, pages, raced, admitted, poisoned, lastProfile, authenticated, snapshots>>,
           r.by = query[e].by, r.accepted = query[e].accepted, r.claimed = query[e].claimed,
           r.snapshot = query[e].snapshot,
           r.state = query[e].state \/ (query[e].accepted /\ r.state # "absent"),
           r.result => query[e].accepted /\ Settled(e),
           r.cleanup => ~Holding(e) /\ Settled(e),
           query[e].result \/ query[e].cleanup => r.result \/ r.cleanup,
           query[e].accepted /\ Outstanding(e) =>
               \/ r.state \in ActiveStates
               \/ e \in raced
               \/ Quiet(e) /\ (e \notin pages \/ r.result \/ r.cleanup),
           \A d \in Executions : KeepsEngaged(t, S, d),
           \A s \in S : s \in AnyStep /\ StepStands(t, s) /\ s.do \notin HandKinds
    PROVE  Inv'
<1>1. query'[e] = r /\ \A d \in Executions : d # e => query'[d] = query[d]
  BY DEF Inv, Shape
<1>2. Shape' /\ Onward
  <2>1. query' \in [Executions -> Records]
    BY DEF Inv, Shape
  <2> QED  BY <2>1 DEF Inv, Shape, Onward, Goes
<1>3. \A d \in Executions : query'[d].snapshot = query[d].snapshot
  BY <1>1
<1>4. SnapshotsAreHeld' /\ \A d \in Executions : SnapshotStays(d)
  <2>1. \A s \in Snapshots : snapshots'[s] \in {snapshots[s], "gone"}
    OBVIOUS
  <2> QED  BY <1>3, <2>1, SnapshotsFrame
<1>5. \A d \in Executions : d # e => Untouched(d)
  BY <1>1, <1>4 DEF Untouched, Same
<1>6. RecordStands(e) /\ query[e] \in Records
  BY DEF Inv, Shape
<1>7. /\ Live(e)' /\ Pending(e)' = Pending(e) /\ Holding(e)' = Holding(e) /\ Known(e)' = Known(e)
      /\ Quiet(e)' = Quiet(e) /\ Settled(e)' = Settled(e) /\ Handed(e)' = Handed(e)
  <2>1. Live(e)'
    BY <1>1 DEF Live
  <2>2. Pending(e)' = Pending(e)
    BY <1>1, <1>6 DEF Pending
  <2>3. Holding(e)' = Holding(e) /\ Known(e)' = Known(e)
    BY <1>1, <2>1 DEF Holding, Known
  <2>4. Quiet(e)' = Quiet(e)
    BY DEF Quiet
  <2>5. Settled(e)' = Settled(e) /\ Handed(e)' = Handed(e)
    BY <1>1, <1>6, <2>2, <2>4 DEF Settled, Handed, Waiting, RecordStands, Pending
  <2> QED  BY <2>1, <2>2, <2>3, <2>4, <2>5
<1>8. Persists(e)
  BY <1>7 DEF Persists
<1>9. HandStays(t, e)
  BY <1>7, HandsAreHanded DEF HandStays
<1>10. RecordStands(e)'
  <2>1. (Handing(e) => Handing(e)') /\ (Upcoming(e, {"accept"}) => Upcoming(e, {"accept"})')
    BY EngagedStays DEF Inv
  <2>2. Outstanding(e)' <=> r.state \in ActiveStates
    BY <1>1 DEF Outstanding
  <2>3. ~(e > admitted)
    BY <1>6, Recorded DEF Inv, Shape
  <2>4. (query[e].accepted /\ Outstanding(e)) \/ e \in killed \/ Upcoming(e, {"accept"}) =>
           (r.accepted /\ r.state \in ActiveStates) \/ e \in killed \/ Upcoming(e, {"accept"})
           \/ e \in raced \/ Quiet(e)
    OBVIOUS
  <2>5. work'[e] \in ActiveStates /\ e \notin raced' /\ ~poisoned' =>
           (r.accepted /\ r.state \in ActiveStates) \/ e \in killed' \/ Upcoming(e, {"accept"})'
    BY <1>6, <2>1, <2>4 DEF RecordStands, Quiet
  <2>6. e \in pages' /\ e \notin raced' /\ ~poisoned' =>
           r.result \/ r.cleanup \/ (r.accepted /\ r.state \in ActiveStates) \/ Upcoming(e, {"accept"})'
    BY <1>6, <2>1 DEF RecordStands
  <2>7. r.snapshot # NoSnapshot => Pending(e)' /\ snapshots'[r.snapshot] \in {"reserved", "gone"}
                                   /\ SnapshotOf[r.snapshot] = r.by
    BY <1>6, <1>7 DEF RecordStands
  <2>8. Waiting(e)' => work'[e] = "none"
    BY <1>1, <1>6 DEF RecordStands, Waiting
  <2>9. r.claimed /\ Pending(e)' /\ ~poisoned' => Handing(e)'
    BY <1>6, <1>7, <2>1 DEF RecordStands
  <2>10. (r.result => r.accepted /\ Settled(e)') /\ (r.cleanup => Live(e)' /\ ~Holding(e)' /\ Settled(e)')
    BY <1>7
  <2>11. r.by \in Connections /\ (e \in killed' => work'[e] = "running") /\ (e \in pages' => work'[e] = "succeeded")
    BY <1>6 DEF RecordStands
  <2> QED  BY <1>1, <1>7, <2>2, <2>3, <2>5, <2>6, <2>7, <2>8, <2>9, <2>10, <2>11 DEF RecordStands
<1>11. Touched(t, e)
  BY <1>8, <1>9, <1>10 DEF Touched
<1>12. \A d \in Executions : (Untouched(d) /\ KeepsEngaged(t, S, d)) \/ Touched(t, d)
  BY <1>5, <1>11
<1>13. ASSUME NEW s \in S PROVE StepStands(t, s)'
  <2>1. s.do \in WorkKinds => s.of \in Executions
    BY QueryConstants DEF StepStands, Executions, Inv, Shape
  <2>2. s.do \in WorkKinds => Persists(s.of)
    BY <1>2, <1>5, <1>8, <2>1, UntouchedPersists
  <2>3. {"admit", "submit"} \subseteq HandKinds /\ admitted' \in Int
    BY <1>2 DEF HandKinds, Shape
  <2> QED  BY <1>2, <2>2, <2>3, StepPersists
<1> QED  BY <1>2, <1>4, <1>12, <1>13, Moves

\* The step at hand is done, and nothing else.
LEMMA HandDone ==
    ASSUME Inv, NEW t \in Threads, NEW do, NEW e, Doing(t, do, e), do \notin EngagedKinds, Then(t, <<>>)
    PROVE  \E S : /\ Goes(t, S)
                  /\ \A d \in Executions : KeepsEngaged(t, S, d)
                  /\ \A s \in S : s \in AnyStep /\ StepStands(t, s) /\ StepStands(t, s)' /\ s.do \notin HandKinds
<1>1. agenda[t] # <<>> /\ Head(agenda[t]).do = do
  BY AtHand
<1>2. Goes(t, {})
  BY <1>1, GoesNowhere DEF Inv
<1>3. \A d \in Executions : KeepsEngaged(t, {}, d)
  BY <1>1, NothingInHand
<1> QED  BY <1>2, <1>3

LEMMA ReadPageStep == ASSUME Inv, NEW c \in Connections, NEW e \in Executions, ReadPage(c, e) PROVE Inv'
<1>1. c \in Threads /\ Live(e) /\ e \in 1..admitted
  BY Recorded DEF ReadPage, Owns, Threads
<1>2. Step("read", e) \in Fit(c)
  BY <1>1, PlainSteps
<1>3. Goes(c, {Step("read", e)}) /\ \A d \in Executions : KeepsEngaged(c, {Step("read", e)}, d)
  <2>1. Goes(c, {Step("read", e)})
    BY <1>1, <1>2, BeginsOne DEF ReadPage, Fit, Inv
  <2> QED  BY <2>1, NothingInHand DEF ReadPage, Idle
<1> DEFINE r == [query[e] EXCEPT !.readers = @ + 1]
<1>4. query[e] \in Records /\ RecordStands(e)
  BY DEF Inv, Shape
<1>5. r \in Records /\ r.by = query[e].by /\ r.accepted = query[e].accepted /\ r.claimed = query[e].claimed
      /\ r.snapshot = query[e].snapshot /\ r.state = query[e].state /\ r.result = query[e].result
      /\ r.cleanup = query[e].cleanup
  BY <1>4 DEF Records
<1>6. query' = [query EXCEPT ![e] = r]
  BY DEF ReadPage
<1>7. /\ r.result => query[e].accepted /\ Settled(e)
      /\ r.cleanup => ~Holding(e) /\ Settled(e)
      /\ query[e].result \/ query[e].cleanup => r.result \/ r.cleanup
      /\ query[e].accepted /\ Outstanding(e) => r.state \in ActiveStates
  BY <1>4, <1>5 DEF RecordStands, Outstanding
<1>8. Step("read", e) \in AnyStep /\ StepStands(c, Step("read", e)) /\ Step("read", e).do \notin HandKinds
  BY <1>2 DEF Fit, InFront
<1>9. PICK S : /\ Goes(c, S)
               /\ \A d \in Executions : KeepsEngaged(c, S, d)
               /\ \A s \in S : s \in AnyStep /\ StepStands(c, s) /\ s.do \notin HandKinds
  BY <1>3, <1>8
<1> HIDE DEF r
<1> QED  BY <1>1, <1>5, <1>6, <1>7, <1>9, RecordMoves DEF ReadPage, access, engine

LEMMA PageReadStep == ASSUME Inv, NEW c \in Connections, NEW e \in Executions, PageRead(c, e) PROVE Inv'
<1>1. c \in Threads /\ Doing(c, "read", e) /\ "read" \notin EngagedKinds /\ Then(c, <<>>)
  BY DEF PageRead, Threads, EngagedKinds, HandKinds
<1>2. PICK S : /\ Goes(c, S)
               /\ \A d \in Executions : KeepsEngaged(c, S, d)
               /\ \A s \in S : s \in AnyStep /\ StepStands(c, s) /\ StepStands(c, s)' /\ s.do \notin HandKinds
  BY <1>1, HandDone
<1> DEFINE r == [query[e] EXCEPT !.readers = OneLess(@)]
<1>3. query[e] \in Records /\ RecordStands(e)
  BY DEF Inv, Shape
<1>4. r \in Records /\ r.by = query[e].by /\ r.accepted = query[e].accepted /\ r.claimed = query[e].claimed
      /\ r.snapshot = query[e].snapshot /\ r.state = query[e].state /\ r.result = query[e].result
      /\ r.cleanup = query[e].cleanup /\ r.bytes = query[e].bytes /\ r.readers = OneLess(query[e].readers)
  BY <1>3 DEF Records, OneLess
<1>5. query' = [query EXCEPT ![e] = r]
  BY DEF PageRead
<1>6. /\ r.result => query[e].accepted /\ Settled(e)
      /\ r.cleanup => ~Holding(e) /\ Settled(e)
      /\ query[e].result \/ query[e].cleanup => r.result \/ r.cleanup
      /\ query[e].accepted /\ Outstanding(e) => r.state \in ActiveStates
  BY <1>3, <1>4 DEF RecordStands, Outstanding
<1>7. CASE Live(e)
  <2> HIDE DEF r
  <2> QED  BY <1>1, <1>2, <1>4, <1>5, <1>6, <1>7, RecordMoves DEF PageRead, access, engine
<1>8. CASE ~Live(e)
  <2>1. query[e] = NoQuery
    BY <1>3, <1>8 DEF RecordStands
  <2>2. r = query[e]
    <3>1. OneLess(query[e].readers) = query[e].readers
      BY <2>1 DEF NoQuery, OneLess
    <3>2. r = [query[e] EXCEPT !.readers = query[e].readers]
      BY <3>1
    <3> QED  BY <1>3, <3>2 DEF Records
  <2>3. query' = query
    BY <1>5, <2>2 DEF Inv, Shape
  <2> HIDE DEF r
  <2> QED  BY <1>1, <1>2, <2>3, OnlyAgenda DEF PageRead, access, engine
<1> QED  BY <1>7, <1>8

\* A result that nobody can read any more.
Unlinked(q) == [q EXCEPT !.result = FALSE, !.cleanup = TRUE]

LEMMA Unlinks ==
    ASSUME Inv, NEW t \in Threads, NEW S, NEW e \in Executions, Goes(t, S),
           Live(e), ~Holding(e), Settled(e),
           query' = [query EXCEPT ![e] = Unlinked(query[e])],
           UNCHANGED <<work, killed, pages, raced, admitted, poisoned, lastProfile, authenticated, snapshots>>,
           \A d \in Executions : KeepsEngaged(t, S, d),
           \A s \in S : s \in AnyStep /\ StepStands(t, s) /\ s.do \notin HandKinds
    PROVE  Inv'
<1> DEFINE r == Unlinked(query[e])
<1>1. query[e] \in Records
  BY DEF Inv, Shape
<1>2. r \in Records /\ r.by = query[e].by /\ r.accepted = query[e].accepted /\ r.claimed = query[e].claimed
      /\ r.snapshot = query[e].snapshot /\ r.state = query[e].state /\ r.result = FALSE /\ r.cleanup = TRUE
  BY <1>1 DEF Records, Unlinked
<1>3. query[e].accepted /\ Outstanding(e) => r.state \in ActiveStates
  BY <1>2 DEF Outstanding
<1>4. query' = [query EXCEPT ![e] = r]
  OBVIOUS
<1> HIDE DEF r
<1> QED  BY <1>2, <1>3, <1>4, RecordMoves

LEMMA UnlinkStep == ASSUME Inv, NEW t \in Threads, NEW e \in Executions, Unlink(t, e) PROVE Inv'
<1>1. /\ Doing(t, "unlink", e) /\ "unlink" \notin EngagedKinds /\ agenda[t] # <<>>
      /\ Head(agenda[t]).do = "unlink"
      /\ e \in 1..admitted /\ ~Holding(e) /\ Settled(e)
  <2>1. Doing(t, "unlink", e) /\ "unlink" \notin EngagedKinds /\ "unlink" \in WorkKinds \cap ReleaseKinds
    BY DEF Unlink, EngagedKinds, HandKinds, WorkKinds, StepKinds, ReleaseKinds
  <2>2. StepStands(t, Head(agenda[t])) /\ Head(agenda[t]).do = "unlink" /\ Head(agenda[t]).of = e /\ agenda[t] # <<>>
    BY <2>1, AtHand
  <2> QED  BY <2>1, <2>2 DEF StepStands
<1>2. Step("release", e) \in Fit(t)
  BY <1>1, PlainSteps
<1>3. CASE ~Live(e)
  <2>1. query' = query /\ Then(t, <<>>)
    BY <1>3 DEF Unlink, Inv, Shape
  <2> QED  BY <1>1, <2>1, GoesHarmlessly DEF Unlink, access, engine
<1>4. CASE Live(e)
  <2>1. PICK S : /\ Goes(t, S)
                 /\ \A s \in S : s \in AnyStep /\ StepStands(t, s) /\ s.do \notin HandKinds
    <3>1. CASE NoReaders(e)
      <4>1. Then(t, <<Step("release", e)>>)
        BY <1>4, <3>1 DEF Unlink
      <4>2. Goes(t, {Step("release", e)})
        BY <1>1, <1>2, <4>1, GoesTo DEF Inv, Fit
      <4> QED  BY <1>2, <4>2 DEF Fit, InFront
    <3>2. CASE ~NoReaders(e)
      <4>1. Then(t, <<>>)
        BY <3>2 DEF Unlink
      <4> QED  BY <1>1, <4>1, HandDone
    <3> QED  BY <3>1, <3>2
  <2>2. \A d \in Executions : KeepsEngaged(t, S, d)
    BY <1>1, NothingInHand
  <2>3. query' = [query EXCEPT ![e] = Unlinked(query[e])]
    BY <1>4 DEF Unlink, Unlinked
  <2> QED  BY <1>1, <1>4, <2>1, <2>2, <2>3, Unlinks DEF Unlink, access, engine
<1> QED  BY <1>3, <1>4

LEMMA ExpireResultStep == ASSUME Inv, NEW e \in Executions, ExpireResult(e) PROVE Inv'
<1>1. /\ Doing(Reaper, "expire", e) /\ Then(Reaper, <<>>) /\ "expire" \notin EngagedKinds /\ Reaper \in Threads
      /\ ~Holding(e) /\ Settled(e)
  <2>1. /\ Doing(Reaper, "expire", e) /\ Then(Reaper, <<>>) /\ Reaper \in Threads
        /\ "expire" \notin EngagedKinds /\ "expire" \in ReleaseKinds
    BY DEF ExpireResult, EngagedKinds, HandKinds, ReleaseKinds, Threads
  <2>2. StepStands(Reaper, Head(agenda[Reaper])) /\ Head(agenda[Reaper]).do = "expire" /\ Head(agenda[Reaper]).of = e
    BY <2>1, AtHand
  <2> QED  BY <2>1, <2>2 DEF StepStands
<1>2. PICK S : /\ Goes(Reaper, S)
               /\ \A d \in Executions : KeepsEngaged(Reaper, S, d)
               /\ \A s \in S : s \in AnyStep /\ StepStands(Reaper, s) /\ StepStands(Reaper, s)' /\ s.do \notin HandKinds
  BY <1>1, HandDone
<1>3. CASE ~Live(e)
  <2>1. query' = query
    BY <1>3 DEF ExpireResult, Inv, Shape
  <2> QED  BY <1>1, <1>2, <2>1, OnlyAgenda DEF ExpireResult, access, engine
<1>4. CASE Live(e)
  <2>1. query' = [query EXCEPT ![e] = Unlinked(query[e])]
    BY <1>4 DEF ExpireResult, Unlinked
  <2> QED  BY <1>1, <1>2, <1>4, <2>1, Unlinks DEF ExpireResult, access, engine
<1> QED  BY <1>3, <1>4

LEMMA ApplyStep == ASSUME Inv, NEW t \in Threads, NEW e \in Executions, Apply(t, e) PROVE Inv'
<1> DEFINE saw == Head(agenda[t]).saw
           r == Applied(query[e], saw)
<1>1. /\ Doing(t, "apply", e) /\ Then(t, <<>>) /\ "apply" \notin EngagedKinds
      /\ Known(e) /\ saw \in Work \ {"none"}
      /\ saw \in TerminalStates => Settled(e)
      /\ saw \in {"failed", "cancelled"} => e \in raced \/ e \notin pages
  <2>1. Doing(t, "apply", e) /\ Then(t, <<>>) /\ "apply" \notin EngagedKinds
    BY DEF Apply, EngagedKinds, HandKinds
  <2>2. /\ StepStands(t, Head(agenda[t])) /\ Head(agenda[t]).do = "apply" /\ Head(agenda[t]).of = e
        /\ Head(agenda[t]) \in AnyStep
    BY <2>1, AtHand
  <2> QED  BY <2>1, <2>2 DEF StepStands, AnyStep
<1>2. PICK S : /\ Goes(t, S)
               /\ \A d \in Executions : KeepsEngaged(t, S, d)
               /\ \A s \in S : s \in AnyStep /\ StepStands(t, s) /\ StepStands(t, s)' /\ s.do \notin HandKinds
  BY <1>1, HandDone
<1>3. CASE ~Live(e)
  <2>1. query' = query
    BY <1>3 DEF Apply, Inv, Shape
  <2> QED  BY <1>1, <1>2, <2>1, OnlyAgenda DEF Apply, access, engine
<1>4. CASE Live(e)
  <2>1. query' = [query EXCEPT ![e] = r]
    BY <1>4 DEF Apply
  <2>2. query[e].accepted /\ query[e] \in Records /\ RecordStands(e)
    BY <1>1, <1>4 DEF Known, Inv, Shape
  <2>3. /\ r \in Records /\ r.by = query[e].by /\ r.accepted = query[e].accepted /\ r.claimed = query[e].claimed
        /\ r.snapshot = query[e].snapshot /\ r.state = saw /\ r.cleanup = query[e].cleanup
        /\ r.result = (query[e].result \/ saw = "succeeded")
    BY <1>1, <2>2 DEF Records, Applied
  <2> HIDE DEF r, saw
  <2>4. /\ r.result => Settled(e)
        /\ r.cleanup => ~Holding(e) /\ Settled(e)
        /\ query[e].result \/ query[e].cleanup => r.result \/ r.cleanup
    BY <1>1, <2>2, <2>3 DEF RecordStands, TerminalStates
  <2>5. r.state \in ActiveStates \/ e \in raced \/ (Quiet(e) /\ (e \notin pages \/ r.result \/ r.cleanup))
    BY <1>1, <2>3 DEF Work, TerminalStates, Settled
  <2>6. r.state # "absent"
    BY <1>1, <2>3 DEF Work, ActiveStates, TerminalStates
  <2> QED  BY <1>1, <1>2, <1>4, <2>1, <2>2, <2>3, <2>4, <2>5, <2>6, RecordMoves DEF Apply, access, engine
<1> QED  BY <1>3, <1>4

LEMMA ViewStep == ASSUME Inv, NEW t \in Threads, NEW e \in Executions, View(t, e) PROVE Inv'
<1>1. Doing(t, "view", e) /\ Then(t, <<>>) /\ "view" \notin EngagedKinds /\ ~poisoned
  BY AtHand DEF View, EngagedKinds, HandKinds
<1>2. PICK S : /\ Goes(t, S)
               /\ \A d \in Executions : KeepsEngaged(t, S, d)
               /\ \A s \in S : s \in AnyStep /\ StepStands(t, s) /\ StepStands(t, s)' /\ s.do \notin HandKinds
  BY <1>1, HandDone
<1>3. Shape' /\ Onward /\ UNCHANGED <<query, work, killed, pages, raced, authenticated, snapshots>>
  BY <1>1, <1>2 DEF View, access, engine, Inv, Shape, Onward, Goes
<1>4. SnapshotsAreHeld' /\ \A d \in Executions : SnapshotStays(d)
  BY <1>3, SnapshotsFrame
<1>5. \A d \in Executions : Untouched(d)
  BY <1>3, <1>4 DEF Untouched, Same
<1> QED  BY <1>2, <1>3, <1>4, <1>5, Moves

--------------------------------------------------------------------------------
(* Cancellation in the engine, and the release of pages.                   *)

LEMMA EngineCancelled ==
    ASSUME Inv, NEW t \in Threads, NEW S, Goes(t, S), NEW e \in Executions, e <= admitted,
           EngineCancels(e), raced' = raced \/ raced' = raced \cup {e},
           UNCHANGED <<authenticated, snapshots, query, admitted, lastProfile, pages, poisoned>>,
           \A d \in Executions : KeepsEngaged(t, S, d),
           \A s \in S : s \in AnyStep /\ StepStands(t, s)' /\ s.do \notin HandKinds
    PROVE  Inv'
<1>1. /\ work' = [work EXCEPT ![e] = IF @ = "queued" THEN "cancelled" ELSE @]
      /\ killed' = IF work[e] = "running" THEN killed \cup {e} ELSE killed
  BY DEF EngineCancels
<1>2. /\ work'[e] = IF work[e] = "queued" THEN "cancelled" ELSE work[e]
      /\ \A d \in Executions : d # e => work'[d] = work[d]
  BY <1>1 DEF Inv, Shape
<1>3. Shape' /\ Onward
  <2>1. work' \in [Executions -> Work] /\ killed' \subseteq Executions /\ raced' \subseteq Executions
    BY <1>1 DEF Inv, Shape, Work, TerminalStates
  <2> QED  BY <2>1 DEF Inv, Shape, Goes, Onward
<1>4. \A d \in Executions : d # e => Untouched(d)
  BY <1>1, <1>2 DEF Untouched, Same, SnapshotStays, Inv, Shape, Records
<1>5. SnapshotsAreHeld'
  BY DEF Inv, SnapshotsAreHeld
<1>6. RecordStands(e)
  BY DEF Inv
<1>7. Quiet(e)' /\ (work[e] = "none" => work'[e] = "none")
  BY <1>1, <1>2 DEF Quiet, ActiveStates
<1>8. /\ Live(e)' = Live(e) /\ Pending(e)' = Pending(e) /\ Outstanding(e)' = Outstanding(e) /\ Waiting(e)' = Waiting(e)
      /\ Holding(e)' = Holding(e) /\ Known(e)' = Known(e)
  BY DEF Live, Pending, Outstanding, Waiting, Holding, Known
<1>9. (Settled(e) => Settled(e)') /\ (Handed(e) => Handed(e)')
  BY <1>7, <1>8 DEF Settled, Handed
<1>10. Persists(e) /\ HandStays(t, e)
  BY <1>7, <1>8, <1>9, HandsAreHanded DEF Persists, HandStays
<1>11. RecordStands(e)'
  <2>1. (Handing(e) => Handing(e)') /\ (Upcoming(e, {"accept"}) => Upcoming(e, {"accept"})')
    BY EngagedStays DEF Inv
  <2>2. ~(e > admitted')
    BY DEF Inv, Shape, Executions
  <2>3. (e \in killed' => work'[e] = "running") /\ (e \in pages' => work'[e] = "succeeded")
    BY <1>1, <1>2, <1>6 DEF RecordStands
  <2>4. work'[e] \in ActiveStates => e \in killed'
    BY <1>7 DEF Quiet
  <2> QED  BY <1>6, <1>7, <1>8, <1>9, <2>1, <2>2, <2>3, <2>4 DEF RecordStands
<1>12. \A d \in Executions : (Untouched(d) /\ KeepsEngaged(t, S, d)) \/ Touched(t, d)
  BY <1>4, <1>10, <1>11 DEF Touched
<1> QED  BY <1>3, <1>5, <1>12, Moves

LEMMA OverdueStep == ASSUME Inv, NEW e \in Executions, Overdue(e) PROVE Inv'
<1>1. /\ Doing(Reaper, "overdue", e) /\ Then(Reaper, <<>>) /\ Reaper \in Threads
      /\ "overdue" \notin EngagedKinds /\ "overdue" \in WorkKinds
  BY DEF Overdue, EngagedKinds, HandKinds, WorkKinds, StepKinds, Threads
<1>2. PICK S : /\ Goes(Reaper, S)
               /\ \A d \in Executions : KeepsEngaged(Reaper, S, d)
               /\ \A s \in S : s \in AnyStep /\ StepStands(Reaper, s) /\ StepStands(Reaper, s)' /\ s.do \notin HandKinds
  BY <1>1, HandDone
<1>3. e <= admitted
  <2>1. StepStands(Reaper, Head(agenda[Reaper])) /\ Head(agenda[Reaper]).do = "overdue" /\ Head(agenda[Reaper]).of = e
    BY <1>1, AtHand
  <2> QED  BY <1>1, <2>1 DEF StepStands, Inv, Shape
<1> QED  BY <1>1, <1>2, <1>3, EngineCancelled DEF Overdue, access

LEMMA CancelStep == ASSUME Inv, NEW t \in Threads, NEW e \in Executions, Cancel(t, e) PROVE Inv'
<1>1. PICK do \in {"cancel", "invalidate"} : Doing(t, do, e) /\ (do = "invalidate" <=> Doing(t, "invalidate", e))
  BY DEF Cancel, Doing
<1>2. /\ agenda[t] # <<>> /\ Head(agenda[t]).do = do /\ do \notin EngagedKinds
      /\ e \in 1..admitted /\ e <= admitted /\ (do = "invalidate" => ~Holding(e))
      /\ agenda[t] \in Seq(AnyStep)
  <2>1. /\ agenda[t] # <<>> /\ Head(agenda[t]).do = do /\ Head(agenda[t]).of = e /\ StepStands(t, Head(agenda[t]))
        /\ agenda[t] \in Seq(AnyStep)
    BY <1>1, AtHand DEF Inv, Shape
  <2>2. do \in WorkKinds /\ do \notin EngagedKinds
    BY DEF WorkKinds, StepKinds, EngagedKinds, HandKinds
  <2> QED  BY <2>1, <2>2 DEF StepStands, Inv, Shape
<1>3. /\ EngineCancels(e) /\ raced' = (IF Pending(e) THEN raced \cup {e} ELSE raced)
      /\ UNCHANGED <<authenticated, snapshots, query, admitted, lastProfile, pages, poisoned>>
  BY DEF Cancel, Pending, access
<1>4. Settled(e)' /\ (Holding(e)' <=> Holding(e)) /\ admitted' = admitted
  <2>1. work'[e] = (IF work[e] = "queued" THEN "cancelled" ELSE work[e]) /\ (work[e] = "running" => e \in killed')
    BY <1>3 DEF EngineCancels, Inv, Shape
  <2>2. Pending(e)' = Pending(e)
    BY <1>3 DEF Pending
  <2> QED  BY <1>3, <2>1, <2>2 DEF Settled, Quiet, ActiveStates, Holding
<1>5. /\ Step("unlink", e) \in AnyStep /\ Step("unlink", e).do = "unlink" /\ Step("unlink", e).of = e
      /\ "unlink" \in ReleaseKinds /\ "unlink" \notin EngagedKinds
  <2>1. "unlink" \in StepKinds
    BY DEF StepKinds
  <2> QED  BY <2>1, StepTypes DEF ReleaseKinds, EngagedKinds, HandKinds
<1>6. PICK S : Goes(t, S) /\ \A s \in S : s \in AnyStep /\ StepStands(t, s)' /\ s.do \notin HandKinds
  <2>1. CASE Then(t, <<>>)
    BY <1>1, <1>2, <2>1, HandDone
  <2>2. CASE do = "invalidate" /\ Then(t, <<Step("unlink", e)>>)
    <3>1. Goes(t, {Step("unlink", e)})
      BY <1>2, <1>5, <2>2, GoesTo DEF Inv
    <3>2. StepStands(t, Step("unlink", e))'
      BY <1>2, <1>4, <1>5, <2>2 DEF StepStands, EngagedKinds
    <3> QED  BY <1>5, <3>1, <3>2 DEF EngagedKinds
  <2>3. CASE Begin(t, <<>>) /\ \E n \in DOMAIN agenda[t] : agenda[t][n].do = "answer"
    <3>1. t # Reaper
      <4>1. PICK n \in DOMAIN agenda[t] : agenda[t][n].do = "answer"
        BY <2>3
      <4>2. agenda[t][n] \in Steps(t)
        BY DEF Steps
      <4> QED  BY <4>1, <4>2 DEF Inv, StepsStand, StepStands
    <3>2. \A s \in Steps(t) : s = Head(agenda[t]) \/ s.do \notin EngagedKinds
      <4> SUFFICES ASSUME NEW n \in DOMAIN agenda[t], agenda[t][n] # Head(agenda[t])
                   PROVE  agenda[t][n].do \notin EngagedKinds
        BY DEF Steps
      <4>1. n \in 2..Len(agenda[t])
        BY <1>2, LenProperties, HeadTailProperties
      <4>2. InFront(t, agenda[t][n])
        BY <4>1 DEF Inv, StepsStand, Later
      <4> QED  BY <3>1, <4>2 DEF InFront, EngagedKinds
    <3>3. <<>> \in Seq(AnyStep) /\ DOMAIN <<>> = {} /\ {(<<>>)[n] : n \in DOMAIN <<>>} = {}
      BY EmptySeq
    <3>4. Goes(t, {})
      BY <2>3, <3>2, <3>3, GoesFrom DEF Inv
    <3> QED  BY <3>4
  <2>4. \/ Then(t, <<>>)
        \/ do = "invalidate" /\ Then(t, <<Step("unlink", e)>>)
        \/ Begin(t, <<>>) /\ \E n \in DOMAIN agenda[t] : agenda[t][n].do = "answer"
    BY <1>1 DEF Cancel
  <2> QED  BY <2>1, <2>2, <2>3, <2>4
<1>7. \A d \in Executions : KeepsEngaged(t, S, d)
  BY <1>2, NothingInHand
<1> QED  BY <1>2, <1>3, <1>6, <1>7, EngineCancelled

LEMMA ReleaseStep == ASSUME Inv, NEW t \in Threads, NEW e \in Executions, Release(t, e) PROVE Inv'
<1>1. /\ Doing(t, "release", e) /\ agenda[t] # <<>> /\ Head(agenda[t]).do = "release"
      /\ "release" \notin EngagedKinds /\ e \in 1..admitted /\ e <= admitted /\ ~Holding(e) /\ Settled(e)
  <2>1. Doing(t, "release", e) /\ "release" \notin EngagedKinds /\ "release" \in WorkKinds \cap ReleaseKinds
    BY DEF Release, EngagedKinds, HandKinds, WorkKinds, StepKinds, ReleaseKinds
  <2>2. StepStands(t, Head(agenda[t])) /\ Head(agenda[t]).do = "release" /\ Head(agenda[t]).of = e /\ agenda[t] # <<>>
    BY <2>1, AtHand
  <2> QED  BY <2>1, <2>2 DEF StepStands, Inv, Shape
<1>2. CASE pages' = pages
  <2>1. CASE Then(t, <<>>)
    BY <1>1, <1>2, <2>1, GoesHarmlessly DEF Release, access
  <2>2. CASE Then(t, <<Step("drop", e)>>) /\ pages' = pages \ {e}
    <3>1. Step("drop", e) \in Fit(t)
      <4>1. "drop" \in StepKinds
        BY DEF StepKinds
      <4>2. Step("drop", e) \in AnyStep /\ Step("drop", e).do = "drop" /\ Step("drop", e).of = e
        BY <4>1, StepTypes
      <4> QED  BY <1>1, <1>2, <2>2, <4>2 DEF Fit, StepStands, InFront, HandKinds, ReleaseKinds
    <3> QED  BY <1>1, <1>2, <2>2, <3>1, GoesHarmlessly DEF Release, access
  <2> QED  BY <2>1, <2>2 DEF Release
<1>3. CASE pages' # pages
  <2>1. /\ pages' = pages \ {e} /\ Then(t, <<Step("drop", e)>>)
        /\ UNCHANGED <<authenticated, snapshots, query, admitted, lastProfile, work, killed, poisoned, raced>>
    BY <1>3 DEF Release, access
  <2>2. /\ Step("drop", e) \in AnyStep /\ Step("drop", e).do = "drop" /\ Step("drop", e).of = e
        /\ "drop" \in ReleaseKinds /\ "drop" \notin EngagedKinds
    <3>1. "drop" \in StepKinds
      BY DEF StepKinds
    <3> QED  BY <3>1, StepTypes DEF ReleaseKinds, EngagedKinds, HandKinds
  <2>3. Goes(t, {Step("drop", e)}) /\ \A d \in Executions : KeepsEngaged(t, {Step("drop", e)}, d)
    <3>1. Goes(t, {Step("drop", e)})
      BY <1>1, <2>1, <2>2, GoesTo DEF Inv
    <3> QED  BY <1>1, <3>1, NothingInHand
  <2>4. Shape' /\ Onward /\ SnapshotsAreHeld'
    BY <2>1, <2>3 DEF Inv, Shape, Goes, Onward, SnapshotsAreHeld
  <2>5. \A d \in Executions : d # e => Untouched(d)
    BY <2>1 DEF Untouched, Same, SnapshotStays, Inv, Shape, Records
  <2>6. /\ Live(e)' = Live(e) /\ Pending(e)' = Pending(e) /\ Outstanding(e)' = Outstanding(e) /\ Waiting(e)' = Waiting(e)
        /\ Holding(e)' = Holding(e) /\ Known(e)' = Known(e) /\ Quiet(e)' = Quiet(e)
    BY <2>1 DEF Live, Pending, Outstanding, Waiting, Holding, Known, Quiet
  <2>7. Settled(e)' = Settled(e) /\ Handed(e)' = Handed(e)
    BY <2>1, <2>6 DEF Settled, Handed
  <2>8. Persists(e) /\ HandStays(t, e)
    BY <2>1, <2>6, <2>7, HandsAreHanded DEF Persists, HandStays
  <2>9. RecordStands(e)'
    <3>1. (Handing(e) => Handing(e)') /\ (Upcoming(e, {"accept"}) => Upcoming(e, {"accept"})')
      BY <2>3, EngagedStays DEF Inv
    <3>2. RecordStands(e)
      BY DEF Inv
    <3> QED  BY <2>1, <2>6, <2>7, <3>1, <3>2 DEF RecordStands
  <2>10. StepStands(t, Step("drop", e))' /\ Step("drop", e).do \notin HandKinds
    BY <1>1, <2>1, <2>2, <2>6, <2>7 DEF StepStands, EngagedKinds
  <2>11. \A d \in Executions : (Untouched(d) /\ KeepsEngaged(t, {Step("drop", e)}, d)) \/ Touched(t, d)
    BY <2>3, <2>5, <2>8, <2>9 DEF Touched
  <2> QED  BY <2>3, <2>4, <2>10, <2>11, Moves
<1> QED  BY <1>2, <1>3

--------------------------------------------------------------------------------
(* Records that are decided or dropped.                                    *)

\* A query that t does not have in hand is handed over by another thread if at all.
LEMMA AcceptedByAnother ==
    ASSUME Inv, NEW t \in Threads, NEW e, Upcoming(e, {"accept"}),
           agenda[t] = <<>> \/ Head(agenda[t]).do # "accept"
    PROVE  InHand(e, t)
<1>1. PICK u \in Threads : \E s \in Steps(u) : s.of = e /\ s.do = "accept"
  BY UpcomingSteps
<1>2. PICK s \in Steps(u) : s.of = e /\ s.do = "accept"
  BY <1>1
<1>3. "accept" \in HandKinds
  BY DEF HandKinds
<1>4. u # t
  <2> SUFFICES ASSUME u = t PROVE FALSE
    OBVIOUS
  <2>1. PICK n \in DOMAIN agenda[t] : agenda[t][n] = s
    BY DEF Steps
  <2>2. agenda[t] \in Seq(AnyStep) /\ agenda[t] # <<>>
    BY <2>1, EmptySeq DEF Inv, Shape
  <2>3. n \in 2..Len(agenda[t])
    BY <1>2, <2>1, <2>2, LenProperties, HeadTailProperties
  <2>4. InFront(t, s)
    BY <2>1, <2>3 DEF Inv, StepsStand, Later
  <2> QED  BY <1>2, <1>3, <2>4 DEF InFront
<1> QED  BY <1>2, <1>3, <1>4, UpcomingSteps

\* A record that was decided while its query had not been handed over, or raced with
\* that, and that holds no snapshot any more.
Decided(t, e) ==
    /\ query'[e].state \in TerminalStates /\ query'[e].snapshot = NoSnapshot
    /\ query'[e].by = query[e].by /\ query'[e].accepted = query[e].accepted
    /\ query'[e].result = query[e].result /\ query'[e].cleanup = query[e].cleanup
    /\ IF HandedOver(e, t) THEN e \in raced' ELSE (e \in raced' <=> e \in raced)
    /\ work'[e] = work[e] /\ (e \in killed' <=> e \in killed) /\ (e \in pages' <=> e \in pages)

LEMMA DecidedIsTouched ==
    ASSUME Inv, NEW t \in Threads, NEW e \in Executions, Live(e), Decided(t, e), Onward,
           poisoned' = poisoned, admitted' = admitted,
           agenda[t] = <<>> \/ Head(agenda[t]).do # "accept"
    PROVE  Touched(t, e)
<1> USE DEF Decided
<1>1. RecordStands(e) /\ query[e] \in Records /\ ~(e > admitted)
  BY Recorded DEF Inv, Shape
<1>2. Live(e)' /\ ~Pending(e)' /\ ~Holding(e)' /\ ~Waiting(e)' /\ Quiet(e)' = Quiet(e)
  BY DEF Live, Pending, Holding, Waiting, Quiet, TerminalStates
<1>3. e \in raced => e \in raced'
  OBVIOUS
<1>4. (Known(e) => Known(e)') /\ (Settled(e) => Settled(e)')
  BY <1>2, <1>3 DEF Known, Settled
<1>5. Persists(e)
  BY <1>2, <1>3, <1>4 DEF Persists
<1>6. HandStays(t, e)
  BY <1>2, HandsAreHanded DEF HandStays, Handed, HandedOver
<1>7. e \notin raced' => ~query[e].accepted /\ ~Upcoming(e, {"accept"})
  BY AcceptedByAnother DEF HandedOver
<1>8. query'[e].result => query'[e].accepted /\ Settled(e)'
  BY <1>1, <1>4 DEF RecordStands
<1>9. query'[e].cleanup => Live(e)' /\ ~Holding(e)' /\ Settled(e)'
  BY <1>1, <1>2, <1>4 DEF RecordStands
<1>10. work'[e] \in ActiveStates /\ e \notin raced' /\ ~poisoned' => e \in killed'
  BY <1>1, <1>3, <1>7 DEF RecordStands
<1>11. e \in pages' /\ e \notin raced' /\ ~poisoned' => query'[e].result \/ query'[e].cleanup
  BY <1>1, <1>3, <1>7 DEF RecordStands
<1>12. RecordStands(e)'
  BY <1>1, <1>2, <1>8, <1>9, <1>10, <1>11 DEF RecordStands
<1> QED  BY <1>5, <1>6, <1>12 DEF Touched

\* fail_queued_query and cancel_query: whatever else the record says.
LEMMA DecidesOne ==
    ASSUME Inv, NEW t \in Threads, NEW S, Goes(t, S), NEW e \in Executions, Live(e), NEW r \in Records,
           query' = [query EXCEPT ![e] = r], snapshots' = FreedSnapshot(e), Decides(e, t),
           r.state \in TerminalStates, r.snapshot = NoSnapshot,
           r.by = query[e].by, r.accepted = query[e].accepted, r.result = query[e].result, r.cleanup = query[e].cleanup,
           UNCHANGED <<authenticated, work, killed, pages, admitted, poisoned, lastProfile>>,
           agenda[t] = <<>> \/ Head(agenda[t]).do # "accept",
           \A d \in Executions : d # e => KeepsEngaged(t, S, d),
           \A s \in S : StepStands(t, s)' /\ s.do \notin HandKinds
    PROVE  Inv'
<1>1. query'[e] = r /\ \A d \in Executions : d # e => query'[d] = query[d]
  BY DEF Inv, Shape
<1>2. raced' = (IF HandedOver(e, t) THEN raced \cup {e} ELSE raced)
  BY DEF Decides
<1>3. snapshots \in [Snapshots -> {"free", "reserved", "gone"}] /\ snapshots' \in [Snapshots -> {"free", "reserved", "gone"}]
  BY DEF Inv, Shape, FreedSnapshot
<1>4. Shape' /\ Onward
  <2>1. query' \in [Executions -> Records] /\ raced' \subseteq Executions
    BY <1>2 DEF Inv, Shape
  <2> QED  BY <1>3, <2>1 DEF Inv, Shape, Goes, Onward
<1>5. \A d \in Executions : query[d].snapshot \in Snapshots \cup {NoSnapshot}
  BY DEF Inv, Shape, Records
<1>6. \A s \in Snapshots : s # query[e].snapshot => snapshots'[s] = snapshots[s]
  BY <1>3 DEF FreedSnapshot
<1>7. \A d \in Executions : d # e => SnapshotStays(d)
  BY <1>5, <1>6 DEF SnapshotStays, Inv, SnapshotsAreHeld
<1>8. \A d \in Executions : d # e => Untouched(d)
  BY <1>1, <1>2, <1>7 DEF Untouched, Same
<1>9. SnapshotsAreHeld'
  <2>1. \A d, x \in Executions :
           d # x /\ query'[d].snapshot = query'[x].snapshot => query'[x].snapshot = NoSnapshot
    BY <1>1 DEF Inv, SnapshotsAreHeld
  <2>2. ASSUME NEW s \in Snapshots, snapshots'[s] = "reserved", SnapshotOf[s] \in authenticated'
        PROVE  \E d \in Executions : query'[d].snapshot = s
    <3>1. s # query[e].snapshot
      BY <1>3, <2>2, QueryConstants DEF FreedSnapshot
    <3>2. PICK d \in Executions : query[d].snapshot = s
      BY <1>6, <2>2, <3>1 DEF Inv, SnapshotsAreHeld
    <3> QED  BY <1>1, <3>1, <3>2
  <2> QED  BY <2>1, <2>2 DEF SnapshotsAreHeld
<1>10. Decided(t, e)
  BY <1>1, <1>2 DEF Decided
<1>11. Touched(t, e)
  BY <1>4, <1>10, DecidedIsTouched
<1>12. \A d \in Executions : (Untouched(d) /\ KeepsEngaged(t, S, d)) \/ Touched(t, d)
  BY <1>8, <1>11
<1> QED  BY <1>4, <1>9, <1>12, Moves

LEMMA MarkCancelledStep == ASSUME Inv, NEW t \in Threads, NEW e \in Executions, MarkCancelled(t, e) PROVE Inv'
<1>1. /\ Doing(t, "mark", e) /\ Then(t, <<>>) /\ "mark" \notin EngagedKinds
      /\ Head(agenda[t]).do = "mark"
  BY AtHand DEF MarkCancelled, EngagedKinds, HandKinds
<1>2. PICK S : /\ Goes(t, S)
               /\ \A d \in Executions : KeepsEngaged(t, S, d)
               /\ \A s \in S : s \in AnyStep /\ StepStands(t, s) /\ StepStands(t, s)' /\ s.do \notin HandKinds
  BY <1>1, HandDone
<1>3. CASE ~Live(e)
  BY <1>1, <1>3, GoesHarmlessly DEF MarkCancelled, access, engine
<1>4. CASE Live(e)
  <2> DEFINE r == [query[e] EXCEPT !.state = "cancelled", !.snapshot = NoSnapshot]
  <2>1. query[e] \in Records
    BY DEF Inv, Shape
  <2>2. /\ r \in Records /\ r.state = "cancelled" /\ r.snapshot = NoSnapshot /\ r.by = query[e].by
        /\ r.accepted = query[e].accepted /\ r.result = query[e].result /\ r.cleanup = query[e].cleanup
    BY <2>1 DEF Records, Work, TerminalStates
  <2>3. query' = [query EXCEPT ![e] = r]
    BY <1>4, <2>1 DEF MarkCancelled, Inv, Shape
  <2>4. "cancelled" \in TerminalStates
    BY DEF TerminalStates
  <2> HIDE DEF r
  <2> QED  BY <1>1, <1>2, <1>4, <2>2, <2>3, <2>4, DecidesOne DEF MarkCancelled, access, engine
<1> QED  BY <1>3, <1>4

LEMMA FailQueuedStep == ASSUME Inv, NEW t \in Threads, NEW e \in Executions, FailQueued(t, e) PROVE Inv'
<1>1. /\ Doing(t, "fail", e) /\ Then(t, <<>>) /\ agenda[t] # <<>> /\ Head(agenda[t]).do = "fail"
      /\ Head(agenda[t]).of = e /\ e \in 1..admitted
  <2>1. "fail" \in WorkKinds
    BY DEF WorkKinds, StepKinds
  <2>2. /\ Doing(t, "fail", e) /\ Then(t, <<>>) /\ agenda[t] # <<>> /\ Head(agenda[t]).do = "fail"
        /\ Head(agenda[t]).of = e /\ StepStands(t, Head(agenda[t]))
    BY AtHand DEF FailQueued
  <2> QED  BY <2>1, <2>2 DEF StepStands
<1>2. PICK S : /\ Goes(t, S)
               /\ \A d \in Executions : d # e => KeepsEngaged(t, S, d)
               /\ \A s \in S : s \in AnyStep /\ StepStands(t, s) /\ StepStands(t, s)' /\ s.do \notin HandKinds
  <2>1. Goes(t, {})
    BY <1>1, GoesNowhere DEF Inv
  <2>2. \A d \in Executions : d # e => KeepsEngaged(t, {}, d)
    BY <1>1 DEF KeepsEngaged
  <2> QED  BY <2>1, <2>2
<1>3. CASE ~Live(e)
  <2>1. UNCHANGED <<query, work, killed, pages, raced, admitted, poisoned, lastProfile, authenticated, snapshots>>
    BY <1>3 DEF FailQueued, access, engine
  <2>2. Shape' /\ Onward /\ \A s \in Snapshots : snapshots'[s] \in {snapshots[s], "gone"}
    BY <1>2, <2>1 DEF Inv, Shape, Goes, Onward
  <2>3. SnapshotsAreHeld' /\ \A d \in Executions : SnapshotStays(d)
    BY <2>1, <2>2, SnapshotsFrame
  <2>4. \A d \in Executions : Untouched(d)
    BY <2>1, <2>3 DEF Untouched, Same
  <2>5. query[e] = NoQuery /\ RecordStands(e)
    BY <1>3 DEF Inv, RecordStands
  <2>6. Persists(e)
    BY <2>2, <2>4, UntouchedPersists
  <2>7. HandStays(t, e)
    BY <2>1, HandsAreHanded DEF HandStays, Handed, Waiting, Pending
  <2>8. Upcoming(e, {"accept"}) => e \in raced
    <3>1. Upcoming(e, {"accept"}) => Handed(e)
      BY <1>1, AcceptedByAnother, HandsAreHanded
    <3> QED  BY <2>5, <3>1 DEF Handed, Pending, NoQuery
  <2>9. RecordStands(e)'
    <3>1. ~Waiting(e)' /\ ~Pending(e)' /\ ~Live(e)' /\ (e > admitted' => e > admitted)
      BY <2>1, <2>5 DEF Waiting, Pending, Live, NoQuery
    <3>2. query'[e] = NoQuery /\ (Settled(e) => Settled(e)') /\ (~Holding(e) => ~Holding(e)')
      BY <2>1, <2>5, <2>6 DEF Persists
    <3>3. work[e] \in ActiveStates /\ e \notin raced /\ ~poisoned => e \in killed
      BY <2>5, <2>8 DEF RecordStands, NoQuery
    <3>4. e \in pages /\ e \notin raced /\ ~poisoned => FALSE
      BY <1>3, <2>5, <2>8 DEF RecordStands
    <3> QED  BY <2>1, <2>5, <3>1, <3>2, <3>3, <3>4 DEF RecordStands, NoQuery
  <2>10. \A d \in Executions : (Untouched(d) /\ KeepsEngaged(t, S, d)) \/ Touched(t, d)
    BY <1>2, <2>4, <2>6, <2>7, <2>9 DEF Touched
  <2> QED  BY <1>2, <2>2, <2>3, <2>10, Moves
<1>4. CASE Live(e)
  <2> DEFINE r == [query[e] EXCEPT !.state = "failed", !.claimed = FALSE, !.snapshot = NoSnapshot]
  <2>1. query[e] \in Records
    BY DEF Inv, Shape
  <2>2. /\ r \in Records /\ r.state = "failed" /\ r.snapshot = NoSnapshot /\ r.by = query[e].by
        /\ r.accepted = query[e].accepted /\ r.result = query[e].result /\ r.cleanup = query[e].cleanup
    BY <2>1 DEF Records, Work, TerminalStates
  <2>3. query' = [query EXCEPT ![e] = r]
    BY <1>4, <2>1 DEF FailQueued, Inv, Shape
  <2>4. "failed" \in TerminalStates
    BY DEF TerminalStates
  <2> HIDE DEF r
  <2> QED  BY <1>1, <1>2, <1>4, <2>2, <2>3, <2>4, DecidesOne DEF FailQueued, access, engine
<1> QED  BY <1>3, <1>4

LEMMA DropStep == ASSUME Inv, NEW t \in Threads, NEW e \in Executions, Drop(t, e) PROVE Inv'
<1>1. /\ Doing(t, "drop", e) /\ Then(t, <<>>) /\ agenda[t] # <<>> /\ Head(agenda[t]).do = "drop"
      /\ e \in 1..admitted /\ ~Holding(e) /\ Settled(e) /\ (e \in raced \/ e \notin pages)
      /\ "drop" \notin EngagedKinds
  <2>1. "drop" \in WorkKinds \cap ReleaseKinds /\ "drop" \notin EngagedKinds
    BY DEF WorkKinds, StepKinds, ReleaseKinds, EngagedKinds, HandKinds
  <2>2. /\ Doing(t, "drop", e) /\ Then(t, <<>>) /\ agenda[t] # <<>> /\ Head(agenda[t]).do = "drop"
        /\ Head(agenda[t]).of = e /\ StepStands(t, Head(agenda[t]))
    BY AtHand DEF Drop
  <2> QED  BY <2>1, <2>2 DEF StepStands
<1>2. PICK S : /\ Goes(t, S)
               /\ \A d \in Executions : KeepsEngaged(t, S, d)
               /\ \A s \in S : s \in AnyStep /\ StepStands(t, s) /\ StepStands(t, s)' /\ s.do \notin HandKinds
  BY <1>1, HandDone
<1>3. /\ UNCHANGED <<authenticated, snapshots, admitted, lastProfile, work, killed, pages, poisoned, raced>>
      /\ query' = [query EXCEPT ![e] = NoQuery]
  BY DEF Drop, access, engine
<1>4. query'[e] = NoQuery /\ \A d \in Executions : d # e => query'[d] = query[d]
  BY <1>3 DEF Inv, Shape
<1>5. Shape' /\ Onward
  <2>1. NoQuery \in Records
    BY DEF NoQuery, Records, Work, ActiveStates, TerminalStates
  <2>2. query' \in [Executions -> Records]
    BY <1>3, <2>1 DEF Inv, Shape
  <2> QED  BY <1>2, <1>3, <2>2 DEF Inv, Shape, Goes, Onward
<1>6. \A d \in Executions : d # e => Untouched(d)
  BY <1>3, <1>4 DEF Untouched, Same, SnapshotStays, Inv, Shape, Records
<1>7. SnapshotsAreHeld'
  <2>1. NoQuery.snapshot = NoSnapshot
    BY DEF NoQuery
  <2>2. \A d, x \in Executions :
           d # x /\ query'[d].snapshot = query'[x].snapshot => query'[x].snapshot = NoSnapshot
    BY <1>4, <2>1 DEF Inv, SnapshotsAreHeld
  <2>3. ASSUME NEW s \in Snapshots, snapshots[s] = "reserved", SnapshotOf[s] \in authenticated
        PROVE  \E d \in Executions : query'[d].snapshot = s
    <3>1. PICK d \in Executions : query[d].snapshot = s
      BY <2>3 DEF Inv, SnapshotsAreHeld
    <3>2. d # e
      BY <1>1, <2>3, <3>1, QueryConstants DEF Holding
    <3> QED  BY <1>4, <3>1, <3>2
  <2> QED  BY <1>3, <2>2, <2>3 DEF SnapshotsAreHeld
<1>8. RecordStands(e) /\ ~(e > admitted)
  BY <1>1 DEF Inv, Shape
<1>9. ~Live(e)' /\ ~Pending(e)' /\ ~Holding(e)' /\ ~Waiting(e)' /\ Quiet(e)' = Quiet(e)
  BY <1>3, <1>4 DEF NoQuery, Live, Pending, Holding, Waiting, Quiet
<1>10. Persists(e)
  BY <1>1, <1>3, <1>9 DEF Persists, Known, Settled
<1>11. HandStays(t, e)
  BY <1>1, <1>3, <1>9, HandsAreHanded DEF HandStays, Handed, Settled
<1>12. RecordStands(e)'
  <2>1. /\ ~query'[e].accepted /\ ~query'[e].result /\ ~query'[e].cleanup /\ query'[e].snapshot = NoSnapshot
    BY <1>4 DEF NoQuery
  <2>2. work[e] \in ActiveStates /\ e \notin raced => e \in killed
    BY <1>1 DEF Settled, Quiet
  <2> QED  BY <1>1, <1>3, <1>4, <1>8, <1>9, <2>1, <2>2 DEF RecordStands
<1>13. \A d \in Executions : (Untouched(d) /\ KeepsEngaged(t, S, d)) \/ Touched(t, d)
  BY <1>2, <1>6, <1>10, <1>11, <1>12 DEF Touched
<1> QED  BY <1>2, <1>5, <1>7, <1>13, Moves

LEMMA DisconnectKeeps ==
    ASSUME Inv, NEW t \in Threads, NEW c \in Connections, DisconnectBy(t, c),
           (t = c /\ Idle(c)) \/ (t = Reaper /\ Doing(Reaper, "lapse", c))
    PROVE  Inv'
<1> DEFINE mine == {e \in Executions : query[e].by = c /\ Outstanding(e)}
           waiting == {e \in mine : ~query[e].accepted}
<1>1. /\ authenticated' = authenticated \ {c} /\ snapshots' = SnapshotsOf({c})
      /\ query' = [e \in Executions |->
            IF e \in waiting THEN [query[e] EXCEPT !.state = "cancelled", !.snapshot = NoSnapshot] ELSE query[e]]
      /\ raced' = raced \cup {e \in waiting : HandedOver(e, t)}
      /\ agenda' = [agenda EXCEPT ![t] = Each("cancel", mine \ waiting) \o (IF t = c THEN <<>> ELSE Tail(@))]
      /\ UNCHANGED <<admitted, lastProfile, work, killed, pages, poisoned>>
  BY DEF DisconnectBy, engine
<1>2. /\ waiting \subseteq Executions /\ mine \ waiting \in SUBSET Executions
      /\ \A e \in mine : Live(e) /\ query[e].by = c
      /\ \A e \in waiting : ~query[e].accepted
  BY DEF Outstanding, Live, ActiveStates
<1> DEFINE q == Each("cancel", mine \ waiting)
<1>3. FitAll(t, q)
  <2>1. "cancel" \in StepKinds
    BY DEF StepKinds
  <2>2. \A e \in mine \ waiting : Step("cancel", e) \in Fit(t)
    BY <1>2, Recorded, PlainSteps
  <2> QED  BY <1>2, <2>1, <2>2, FitEach
<1> HIDE DEF mine, waiting, q
<1>4. PICK S : /\ Goes(t, S)
               /\ \A d \in Executions : KeepsEngaged(t, S, d)
               /\ \A s \in S : s \in Fit(t) /\ s.do = "cancel"
  <2>1. \A n \in DOMAIN q : q[n].do = "cancel"
    <3>1. "cancel" \in StepKinds
      BY DEF StepKinds
    <3> QED  BY <1>2, <3>1, EachIsOfTheSet DEF q
  <2> DEFINE S == {q[n] : n \in DOMAIN q}
  <2>2. \A s \in S : s \in Fit(t) /\ s.do = "cancel"
    BY <1>3, <2>1 DEF FitAll
  <2>3. \A n \in DOMAIN q : InFront(t, q[n])
    BY <1>3 DEF FitAll, Fit
  <2>4. CASE t = c /\ Idle(c)
    <3>1. q \o <<>> = q
      BY <1>3 DEF FitAll
    <3>2. Begin(t, q)
      BY <1>1, <2>4, <3>1 DEF Begin, q
    <3>3. Goes(t, S)
      BY <1>3, <2>3, <2>4, <3>2, BeginsIdle DEF FitAll, Inv
    <3>4. \A d \in Executions : KeepsEngaged(t, S, d)
      BY <2>4, NothingInHand DEF Idle
    <3> QED  BY <2>2, <3>3, <3>4
  <2>5. CASE t = Reaper /\ Doing(Reaper, "lapse", c)
    <3>1. t # c /\ Then(t, q)
      BY <1>1, <2>5, QueryConstants DEF Then, q
    <3>2. agenda[t] # <<>> /\ Head(agenda[t]).do \notin EngagedKinds
      BY <2>5 DEF Doing, EngagedKinds, HandKinds
    <3>3. Goes(t, S)
      BY <1>3, <2>3, <3>1, <3>2, GoesOn DEF FitAll, Inv
    <3>4. \A d \in Executions : KeepsEngaged(t, S, d)
      BY <3>2, NothingInHand
    <3> QED  BY <2>2, <3>3, <3>4
  <2> QED  BY <2>4, <2>5
<1>5. agenda[t] = <<>> \/ Head(agenda[t]).do # "accept"
  BY DEF Idle, Doing
<1>6. /\ \A e \in waiting : query'[e] = [query[e] EXCEPT !.state = "cancelled", !.snapshot = NoSnapshot]
      /\ \A e \in Executions \ waiting : query'[e] = query[e]
      /\ \A e \in Executions : query[e] \in Records
  BY <1>1, <1>2 DEF Inv, Shape
<1>7. \A e \in waiting : /\ query'[e] \in Records /\ query'[e].state = "cancelled" /\ query'[e].snapshot = NoSnapshot
                         /\ query'[e].by = query[e].by /\ query'[e].accepted = query[e].accepted
                         /\ query'[e].result = query[e].result /\ query'[e].cleanup = query[e].cleanup
  <2> SUFFICES ASSUME NEW e \in waiting
               PROVE  /\ query'[e] \in Records /\ query'[e].state = "cancelled" /\ query'[e].snapshot = NoSnapshot
                      /\ query'[e].by = query[e].by /\ query'[e].accepted = query[e].accepted
                      /\ query'[e].result = query[e].result /\ query'[e].cleanup = query[e].cleanup
    OBVIOUS
  <2>1. PICK r \in Records : r = query[e]
    BY <1>2, <1>6
  <2>2. query'[e] = [r EXCEPT !.state = "cancelled", !.snapshot = NoSnapshot]
    BY <1>6, <2>1
  <2> QED  BY <2>1, <2>2 DEF Records, Work, TerminalStates
<1>8. /\ \A s \in Snapshots : snapshots'[s] = IF SnapshotOf[s] = c THEN "gone" ELSE snapshots[s]
      /\ snapshots' \in [Snapshots -> {"free", "reserved", "gone"}]
  BY <1>1 DEF SnapshotsOf, Inv, Shape
<1>9. Shape' /\ Onward
  <2>1. query' \in [Executions -> Records]
    BY <1>1, <1>2, <1>6, <1>7
  <2>2. raced' \subseteq Executions /\ authenticated' \subseteq authenticated
    BY <1>1, <1>2 DEF Inv, Shape
  <2>3. agenda' \in [Threads -> Seq(AnyStep)]
    BY <1>4 DEF Goes
  <2>4. UNCHANGED <<admitted, lastProfile, work, killed, pages, poisoned>>
    BY <1>1
  <2>5. Shape'
    BY <1>8, <2>1, <2>2, <2>3, <2>4 DEF Inv, Shape
  <2>6. admitted <= admitted' /\ (poisoned => poisoned')
    BY <2>4 DEF Inv, Shape, Executions
  <2> QED  BY <2>2, <2>5, <2>6 DEF Onward
<1>10. \A d \in Executions \ waiting : Untouched(d)
  <2>1. \A d \in Executions \ waiting : SnapshotStays(d)
    BY <1>6, <1>8 DEF SnapshotStays, Records
  <2> QED  BY <1>1, <1>6, <2>1 DEF Untouched, Same
<1>11. SnapshotsAreHeld'
  <2>1. \A d, x \in Executions :
           d # x /\ query'[d].snapshot = query'[x].snapshot => query'[x].snapshot = NoSnapshot
    <3> SUFFICES ASSUME NEW d \in Executions, NEW x \in Executions, d # x, query'[x].snapshot # NoSnapshot
                 PROVE  query'[d].snapshot # query'[x].snapshot
      OBVIOUS
    <3>1. query'[x].snapshot = query[x].snapshot
      BY <1>6, <1>7
    <3>2. query'[d].snapshot \in {query[d].snapshot, NoSnapshot}
      BY <1>6, <1>7
    <3> QED  BY <3>1, <3>2 DEF Inv, SnapshotsAreHeld
  <2>2. ASSUME NEW s \in Snapshots, snapshots'[s] = "reserved", SnapshotOf[s] \in authenticated'
        PROVE  \E d \in Executions : query'[d].snapshot = s
    <3>1. snapshots[s] = "reserved" /\ SnapshotOf[s] # c /\ SnapshotOf[s] \in authenticated
      BY <1>1, <1>8, <2>2
    <3>2. PICK d \in Executions : query[d].snapshot = s
      BY <3>1 DEF Inv, SnapshotsAreHeld
    <3>3. SnapshotOf[s] = query[d].by
      BY <3>2, QueryConstants DEF Inv, RecordStands
    <3>4. d \notin waiting
      BY <1>2, <3>1, <3>3 DEF waiting
    <3> QED  BY <1>6, <3>2, <3>4
  <2> QED  BY <2>1, <2>2 DEF SnapshotsAreHeld
<1>12. ASSUME NEW e \in waiting PROVE Touched(t, e)
  <2>1. e \in Executions /\ Live(e)
    BY <1>2 DEF waiting
  <2>2. e \in raced' <=> e \in raced \/ HandedOver(e, t)
    BY <1>1
  <2>3. Decided(t, e)
    BY <1>1, <1>7, <2>1, <2>2 DEF Decided, TerminalStates
  <2> QED  BY <1>1, <1>5, <1>9, <2>1, <2>3, DecidedIsTouched
<1>13. \A s \in S : StepStands(t, s)' /\ s.do \notin HandKinds
  <2> SUFFICES ASSUME NEW s \in S PROVE StepStands(t, s)' /\ s.do \notin HandKinds
    OBVIOUS
  <2>1. s.do = "cancel" /\ StepStands(t, s) /\ "cancel" \in WorkKinds /\ "cancel" \notin ReleaseKinds \cup HandKinds
    BY <1>4 DEF Fit, WorkKinds, StepKinds, ReleaseKinds, HandKinds
  <2> QED  BY <1>1, <2>1 DEF StepStands
<1>14. \A d \in Executions : (Untouched(d) /\ KeepsEngaged(t, S, d)) \/ Touched(t, d)
  BY <1>4, <1>10, <1>12
<1> QED  BY <1>4, <1>9, <1>11, <1>13, <1>14, Moves

LEMMA DisconnectStep == ASSUME Inv, NEW c \in Connections, Disconnect(c) PROVE Inv'
BY DisconnectKeeps DEF Disconnect, Threads

LEMMA LapseLeaseStep == ASSUME Inv, NEW c \in Connections, LapseLease(c) PROVE Inv'
BY DisconnectKeeps DEF LapseLease, Threads

--------------------------------------------------------------------------------
(* Submission.                                                             *)

\* What a thread has in hand no other thread has.
LEMMA InOneHand ==
    ASSUME Inv, NEW t \in Threads, NEW do \in HandKinds, NEW e, Doing(t, do, e)
    PROVE  ~InHand(e, t) /\ Handed(e) /\ e \in 1..admitted /\ e <= admitted
<1>1. Head(agenda[t]) \in Steps(t) /\ Head(agenda[t]).do = do /\ Head(agenda[t]).of = e
      /\ StepStands(t, Head(agenda[t]))
  BY AtHand
<1>2. do \in WorkKinds
  BY DEF HandKinds, WorkKinds, StepKinds
<1>3. Handed(e) /\ e \in 1..admitted /\ e <= admitted
  BY <1>1, <1>2 DEF StepStands, Inv, Shape
<1>4. ~InHand(e, t)
  BY <1>1, UpcomingSteps DEF Inv, OneHand
<1> QED  BY <1>3, <1>4

LEMMA SubmitStep == ASSUME Inv, NEW t \in Threads, NEW e \in Executions, Submit(t, e) PROVE Inv'
<1>1. /\ Doing(t, "submit", e) /\ agenda[t] # <<>> /\ Head(agenda[t]).do = "submit" /\ Head(agenda[t]).of = e
      /\ StepStands(t, Head(agenda[t])) /\ "submit" \in HandKinds
  BY AtHand DEF Submit, HandKinds
<1>2. ~InHand(e, t) /\ Handed(e) /\ e \in 1..admitted /\ e <= admitted /\ work[e] = "none"
  BY <1>1, InOneHand DEF StepStands
<1>3. \A do \in {"accept", "fail"} : /\ Step(do, e) \in AnyStep /\ Step(do, e).do = do /\ Step(do, e).of = e
                                     /\ do \in EngagedKinds
  <2>1. {"accept", "fail"} \subseteq StepKinds
    BY DEF StepKinds
  <2> QED  BY <2>1, StepTypes DEF EngagedKinds, HandKinds
<1>4. ASSUME NEW do \in {"accept", "fail"}, Then(t, <<Step(do, e)>>)
      PROVE  Goes(t, {Step(do, e)}) /\ \A d \in Executions : KeepsEngaged(t, {Step(do, e)}, d)
  <2>1. Goes(t, {Step(do, e)})
    BY <1>1, <1>3, <1>4, GoesTo DEF Inv
  <2>2. \A d \in Executions : KeepsEngaged(t, {Step(do, e)}, d)
    BY <1>1, <1>3 DEF KeepsEngaged
  <2> QED  BY <2>1, <2>2
<1>5. CASE Then(t, OnRefusal(e)) /\ work' = work
  <2>1. Goes(t, {Step("fail", e)}) /\ \A d \in Executions : KeepsEngaged(t, {Step("fail", e)}, d)
    BY <1>4, <1>5 DEF OnRefusal
  <2>2. StepStands(t, Step("fail", e)) /\ Step("fail", e).do \notin HandKinds
    BY <1>2, <1>3 DEF StepStands, HandKinds, ReleaseKinds
  <2> QED  BY <1>5, <2>1, <2>2, OnlyAgenda DEF Submit, access
<1>6. CASE work' = [work EXCEPT ![e] = "queued"] /\ Then(t, <<Step("accept", e)>>)
  <2> DEFINE s == Step("accept", e)
  <2>1. Goes(t, {s}) /\ \A d \in Executions : KeepsEngaged(t, {s}, d)
    BY <1>4, <1>6
  <2>2. UNCHANGED <<authenticated, snapshots, query, admitted, lastProfile, killed, pages, poisoned, raced>>
    BY DEF Submit, access
  <2>3. s \in AnyStep /\ s.do = "accept" /\ s.of = e
    BY <1>3
  <2> HIDE DEF s
  <2>4. work'[e] = "queued" /\ \A d \in Executions : d # e => work'[d] = work[d]
    BY <1>6 DEF Inv, Shape
  <2>5. Shape' /\ Onward
    <3>1. work' \in [Executions -> Work]
      BY <1>6 DEF Inv, Shape, Work, ActiveStates
    <3> QED  BY <2>1, <2>2, <3>1 DEF Inv, Shape, Goes, Onward
  <2>6. SnapshotsAreHeld'
    BY <2>2 DEF Inv, SnapshotsAreHeld
  <2>7. \A d \in Executions : d # e => Untouched(d)
    BY <2>2, <2>4 DEF Untouched, Same, SnapshotStays, Inv, Shape, Records
  <2>8. RecordStands(e) /\ e \notin killed /\ e \notin pages
    BY <1>2 DEF Inv, RecordStands
  <2>9. /\ Live(e)' = Live(e) /\ Pending(e)' = Pending(e) /\ Outstanding(e)' = Outstanding(e) /\ Waiting(e)' = Waiting(e)
        /\ Holding(e)' = Holding(e) /\ Known(e)' = Known(e) /\ Handed(e)' = Handed(e)
    BY <2>2 DEF Live, Pending, Outstanding, Waiting, Holding, Known, Handed
  <2>10. Settled(e) => Settled(e)'
    BY <1>2, <2>2 DEF Settled, Handed
  <2>11. Persists(e) /\ HandStays(t, e)
    BY <1>2, <2>2, <2>9, <2>10 DEF Persists, HandStays
  <2>12. RecordStands(e)'
    <3>1. Handing(e) => Handing(e)'
      BY <2>1, EngagedStays DEF Inv
    <3>2. Upcoming(e, {"accept"})'
      BY <2>1, <2>3, UpcomingStepsNext DEF Goes
    <3>3. ~Waiting(e)' /\ ~(e > admitted') /\ e \notin killed' /\ e \notin pages'
      BY <1>2, <2>2, <2>8, <2>9 DEF Handed, Inv, Shape, Executions
    <3> QED  BY <2>2, <2>8, <2>9, <2>10, <3>1, <3>2, <3>3 DEF RecordStands
  <2>13. StepStands(t, s)' /\ HandsOn(t, s)
    <3>1. Handed(e)' /\ e \in 1..admitted'
      BY <1>2, <2>2, <2>9
    <3>2. HandsOn(t, s)
      BY <1>1, <2>3 DEF HandsOn
    <3> QED  BY <2>3, <3>1, <3>2 DEF StepStands, ReleaseKinds
  <2>14. \A d \in Executions : (Untouched(d) /\ KeepsEngaged(t, {s}, d)) \/ Touched(t, d)
    BY <2>1, <2>7, <2>11, <2>12 DEF Touched
  <2> QED  BY <2>1, <2>5, <2>6, <2>13, <2>14, Moves
<1> QED  BY <1>5, <1>6 DEF Submit

LEMMA AcceptStep == ASSUME Inv, NEW t \in Threads, NEW e \in Executions, Accept(t, e) PROVE Inv'
<1>1. /\ Doing(t, "accept", e) /\ agenda[t] # <<>> /\ Head(agenda[t]).do = "accept" /\ Head(agenda[t]).of = e
      /\ "accept" \in HandKinds /\ Then(t, <<>>)
  BY AtHand DEF Accept, HandKinds
<1>2. ~InHand(e, t) /\ Handed(e) /\ e \in 1..admitted /\ e <= admitted
  BY <1>1, InOneHand
<1>3. PICK S : /\ Goes(t, S) /\ S = {}
               /\ \A d \in Executions : d # e => KeepsEngaged(t, S, d)
  <2>1. Goes(t, {})
    BY <1>1, GoesNowhere DEF Inv
  <2>2. \A d \in Executions : d # e => KeepsEngaged(t, {}, d)
    BY <1>1 DEF KeepsEngaged
  <2> QED  BY <2>1, <2>2
<1>4. UNCHANGED <<authenticated, admitted, lastProfile, work, killed, pages, poisoned, raced>>
  BY DEF Accept, access, engine
<1>5. RecordStands(e) /\ query[e] \in Records /\ ~(e > admitted)
  BY <1>2 DEF Inv, Shape, Executions
<1>6. CASE ~Live(e)
  <2>1. UNCHANGED <<query, snapshots>>
    BY <1>6 DEF Accept
  <2>2. Shape' /\ Onward /\ \A s \in Snapshots : snapshots'[s] \in {snapshots[s], "gone"}
    BY <1>3, <1>4, <2>1 DEF Inv, Shape, Goes, Onward
  <2>3. SnapshotsAreHeld' /\ \A d \in Executions : SnapshotStays(d)
    BY <1>4, <2>1, <2>2, SnapshotsFrame
  <2>4. \A d \in Executions : Untouched(d)
    BY <1>4, <2>1, <2>3 DEF Untouched, Same
  <2>5. Persists(e) /\ HandStays(t, e)
    BY <1>2, <2>2, <2>4, UntouchedPersists DEF HandStays
  <2>6. query[e] = NoQuery /\ e \in raced /\ ~Waiting(e)
    BY <1>2, <1>5, <1>6 DEF RecordStands, Handed, Pending, Waiting, NoQuery
  <2>7. RecordStands(e)'
    <3>1. ~Waiting(e)' /\ ~Pending(e)' /\ ~Live(e)' /\ ~(e > admitted') /\ e \in raced' /\ query'[e] = NoQuery
      BY <1>4, <1>5, <2>1, <2>6 DEF Waiting, Pending, Live, NoQuery
    <3> QED  BY <1>4, <1>5, <3>1 DEF RecordStands, NoQuery
  <2>8. \A d \in Executions : (Untouched(d) /\ KeepsEngaged(t, S, d)) \/ Touched(t, d)
    BY <1>3, <2>4, <2>5, <2>7 DEF Touched
  <2> QED  BY <1>3, <2>2, <2>3, <2>8, Moves
<1>7. CASE Live(e)
  <2> DEFINE r == [query[e] EXCEPT !.accepted = TRUE, !.claimed = FALSE, !.snapshot = NoSnapshot]
  <2>1. query' = [query EXCEPT ![e] = r] /\ snapshots' = ConsumedSnapshot(e)
    BY <1>5, <1>7 DEF Accept, Inv, Shape
  <2>2. /\ r \in Records /\ r.state = query[e].state /\ r.snapshot = NoSnapshot /\ r.by = query[e].by
        /\ r.accepted = TRUE /\ r.claimed = FALSE /\ r.result = query[e].result /\ r.cleanup = query[e].cleanup
    BY <1>5 DEF Records
  <2> HIDE DEF r
  <2>3. query'[e] = r /\ \A d \in Executions : d # e => query'[d] = query[d]
    BY <2>1 DEF Inv, Shape
  <2>4. /\ snapshots' \in [Snapshots -> {"free", "reserved", "gone"}]
        /\ \A s \in Snapshots : snapshots'[s] = IF s = query[e].snapshot THEN "gone" ELSE snapshots[s]
    BY <2>1, QueryConstants DEF ConsumedSnapshot, Inv, Shape
  <2>5. Shape' /\ Onward
    <3>1. query' \in [Executions -> Records]
      BY <2>1, <2>2 DEF Inv, Shape
    <3> QED  BY <1>3, <1>4, <2>4, <3>1 DEF Inv, Shape, Goes, Onward
  <2>6. \A d \in Executions : d # e => Untouched(d)
    <3>1. \A d \in Executions : SnapshotStays(d)
      BY <2>4 DEF SnapshotStays, Inv, Shape, Records
    <3> QED  BY <1>4, <2>3, <3>1 DEF Untouched, Same
  <2>7. SnapshotsAreHeld'
    <3>1. \A d, x \in Executions :
             d # x /\ query'[d].snapshot = query'[x].snapshot => query'[x].snapshot = NoSnapshot
      BY <2>2, <2>3 DEF Inv, SnapshotsAreHeld
    <3>2. ASSUME NEW s \in Snapshots, snapshots'[s] = "reserved", SnapshotOf[s] \in authenticated'
          PROVE  \E d \in Executions : query'[d].snapshot = s
      <4>1. s # query[e].snapshot /\ snapshots[s] = "reserved"
        BY <2>4, <3>2
      <4>2. PICK d \in Executions : query[d].snapshot = s
        BY <1>4, <3>2, <4>1 DEF Inv, SnapshotsAreHeld
      <4> QED  BY <2>3, <4>1, <4>2
    <3> QED  BY <3>1, <3>2 DEF SnapshotsAreHeld
  <2>8. Live(e)' /\ ~Pending(e)' /\ ~Holding(e)' /\ ~Waiting(e)' /\ Quiet(e)' = Quiet(e) /\ Known(e)'
    BY <1>4, <1>7, <2>2, <2>3 DEF Live, Pending, Holding, Waiting, Quiet, Known
  <2>9. Settled(e) => Settled(e)'
    BY <1>4, <2>8 DEF Settled
  <2>10. Persists(e) /\ HandStays(t, e)
    BY <1>2, <1>4, <2>8, <2>9 DEF Persists, HandStays
  <2>11. RecordStands(e)'
    <3>1. e \notin raced => query'[e].state = "queued"
      BY <1>2, <2>2, <2>3 DEF Handed, Pending
    <3>2. e \notin raced' => query'[e].accepted /\ Outstanding(e)'
      BY <1>4, <2>2, <2>3, <3>1 DEF Outstanding, ActiveStates
    <3>3. query'[e].result => query'[e].accepted /\ Settled(e)'
      BY <1>5, <2>2, <2>3, <2>9 DEF RecordStands
    <3>4. query'[e].cleanup => Live(e)' /\ ~Holding(e)' /\ Settled(e)'
      BY <1>5, <2>2, <2>3, <2>8, <2>9 DEF RecordStands
    <3>5. /\ ~(e > admitted') /\ query'[e].by \in Connections /\ query'[e].snapshot = NoSnapshot /\ ~query'[e].claimed
          /\ (e \in killed' => work'[e] = "running") /\ (e \in pages' => work'[e] = "succeeded")
      BY <1>4, <1>5, <1>7, <2>2, <2>3 DEF RecordStands
    <3> QED  BY <2>8, <3>2, <3>3, <3>4, <3>5 DEF RecordStands
  <2>12. \A d \in Executions : (Untouched(d) /\ KeepsEngaged(t, S, d)) \/ Touched(t, d)
    BY <1>3, <2>6, <2>10, <2>11 DEF Touched
  <2> QED  BY <1>3, <2>5, <2>7, <2>12, Moves
<1> QED  BY <1>6, <1>7

LEMMA StartQueryStep ==
    ASSUME Inv, NEW c \in Connections, NEW s \in Snapshots, StartQuery(c, s) PROVE Inv'
<1> DEFINE r == [NoQuery EXCEPT !.state = "queued", !.by = c, !.snapshot = s]
           p == Step("pick", 0)
<1>1. PICK e \in Executions : e = admitted + 1
  BY QueryConstants DEF StartQuery, Executions, Inv, Shape
<1>2. /\ Idle(c) /\ SnapshotOf[s] = c /\ snapshots[s] = "free"
      /\ snapshots' = [snapshots EXCEPT ![s] = "reserved"] /\ admitted' = e
      /\ query' = [query EXCEPT ![e] = r] /\ Begin(c, <<p, Step("view", e)>>)
      /\ UNCHANGED <<authenticated, lastProfile, work, killed, pages, poisoned, raced>>
  BY <1>1 DEF StartQuery, access, engine
<1>3. /\ r \in Records /\ r.state = "queued" /\ r.by = c /\ r.snapshot = s
      /\ ~r.accepted /\ ~r.claimed /\ ~r.result /\ ~r.cleanup
  BY DEF NoQuery, Records, Work, ActiveStates
<1> DEFINE v == Step("view", e)
<1>4. /\ p \in AnyStep /\ p.do = "pick" /\ v \in AnyStep /\ v.do = "view" /\ v.of = e
      /\ "pick" \notin WorkKinds \cup ReleaseKinds \cup EngagedKinds /\ "view" \notin ReleaseKinds \cup EngagedKinds
  <2>1. {"pick", "view"} \subseteq StepKinds
    BY DEF StepKinds
  <2> QED  BY <2>1, StepTypes DEF WorkKinds, ReleaseKinds, EngagedKinds, HandKinds
<1> HIDE DEF r, p, v
<1>5. PICK S : /\ Goes(c, S)
               /\ \A d \in Executions : KeepsEngaged(c, S, d)
               /\ \A x \in S : x = p \/ x = v
  <2> DEFINE q == <<p, v>>
  <2>1. q \in Seq(AnyStep) /\ DOMAIN q = {1, 2} /\ q[1] = p /\ q[2] = v /\ Begin(c, q)
    BY <1>2, <1>4 DEF v
  <2> HIDE DEF q
  <2>2. \A n \in DOMAIN q : n > 1 => InFront(c, q[n])
    BY <1>4, <2>1 DEF InFront, EngagedKinds
  <2>3. Goes(c, {q[n] : n \in DOMAIN q})
    BY <1>2, <2>1, <2>2, BeginsIdle DEF Inv, Threads
  <2>4. \A d \in Executions : KeepsEngaged(c, {q[n] : n \in DOMAIN q}, d)
    BY <1>2, NothingInHand DEF Idle
  <2>5. \A x \in {q[n] : n \in DOMAIN q} : x = p \/ x = v
    BY <2>1
  <2> QED  BY <2>3, <2>4, <2>5
<1>6. /\ query'[e] = r /\ \A d \in Executions : d # e => query'[d] = query[d]
      /\ snapshots'[s] = "reserved" /\ \A x \in Snapshots : x # s => snapshots'[x] = snapshots[x]
  BY <1>2 DEF Inv, Shape
<1>7. Shape' /\ Onward
  <2>1. query' \in [Executions -> Records] /\ snapshots' \in [Snapshots -> {"free", "reserved", "gone"}]
    BY <1>2, <1>3 DEF Inv, Shape
  <2>2. admitted' \in 0..MaxExecutions /\ admitted <= admitted'
    BY <1>1, <1>2, QueryConstants DEF Executions, Inv, Shape
  <2> QED  BY <1>2, <1>5, <2>1, <2>2 DEF Inv, Shape, Goes, Onward
<1>8. ASSUME NEW d \in Executions PROVE query[d].snapshot \in (Snapshots \ {s}) \cup {NoSnapshot}
  BY <1>2 DEF Inv, Shape, Records, RecordStands
<1>9. \A d \in Executions : d # e => Untouched(d)
  <2>1. \A d \in Executions : SnapshotStays(d)
    BY <1>6, <1>8 DEF SnapshotStays
  <2> QED  BY <1>2, <1>6, <2>1 DEF Untouched, Same
<1>10. RecordStands(e) /\ e > admitted /\ ~(e > admitted') /\ ~(e <= admitted) /\ e \notin 1..admitted
  BY <1>1, <1>2 DEF Inv, Shape
<1>11. SnapshotsAreHeld'
  <2>1. ASSUME NEW d \in Executions, NEW x \in Executions, d # x, query'[x].snapshot # NoSnapshot
        PROVE  query'[d].snapshot # query'[x].snapshot
    <3>1. s # NoSnapshot
      BY QueryConstants
    <3>2. CASE d = e
      BY <1>3, <1>6, <1>8, <2>1, <3>1, <3>2
    <3>3. CASE x = e
      BY <1>3, <1>6, <1>8, <2>1, <3>1, <3>3
    <3>4. CASE d # e /\ x # e
      BY <1>6, <2>1, <3>4 DEF Inv, SnapshotsAreHeld
    <3> QED  BY <3>2, <3>3, <3>4
  <2>2. ASSUME NEW x \in Snapshots, snapshots'[x] = "reserved", SnapshotOf[x] \in authenticated'
        PROVE  \E d \in Executions : query'[d].snapshot = x
    <3>1. CASE x = s
      BY <1>3, <1>6, <3>1
    <3>2. CASE x # s
      <4>1. PICK d \in Executions : query[d].snapshot = x
        BY <1>2, <1>6, <2>2, <3>2 DEF Inv, SnapshotsAreHeld
      <4>2. d # e
        BY <1>10, <4>1, QueryConstants DEF RecordStands, NoQuery
      <4> QED  BY <1>6, <4>1, <4>2
    <3> QED  BY <3>1, <3>2
  <2> QED  BY <2>1, <2>2 DEF SnapshotsAreHeld
<1>12. ~InHand(e, c)
  BY <1>10, HandsAreHanded DEF Threads
<1>13. RecordStands(e)'
  <2>1. /\ e \notin pages' /\ e \notin killed' /\ work'[e] = "none"
    BY <1>2, <1>10 DEF RecordStands
  <2>2. Live(e)' /\ Pending(e)' /\ snapshots'[query'[e].snapshot] = "reserved"
    BY <1>3, <1>6 DEF Live, Pending
  <2> QED  BY <1>2, <1>3, <1>6, <1>10, <2>1, <2>2 DEF RecordStands, ActiveStates
<1>14. Touched(c, e)
  BY <1>10, <1>12, <1>13 DEF Touched, HandStays
<1>15. \A x \in S : StepStands(c, x)' /\ x.do \notin HandKinds
  <2>1. e \in 1..admitted'
    BY <1>1, <1>2 DEF Inv, Shape
  <2>2. StepStands(c, p)' /\ p.do \notin HandKinds
    BY <1>4 DEF StepStands, EngagedKinds
  <2>3. StepStands(c, v)' /\ v.do \notin HandKinds
    BY <1>4, <2>1 DEF StepStands, EngagedKinds
  <2> QED  BY <1>5, <2>2, <2>3
<1>16. \A d \in Executions : (Untouched(d) /\ KeepsEngaged(c, S, d)) \/ Touched(c, d)
  BY <1>5, <1>9, <1>14
<1>17. c \in Threads
  BY DEF Threads
<1> QED  BY <1>5, <1>7, <1>11, <1>15, <1>16, <1>17, Moves

\* The least of numbers.
LEMMA LeastExists ==
    ASSUME NEW S \in SUBSET Nat, S # {}
    PROVE  \E m \in S : \A x \in S : m =< x
<1> DEFINE R == OpToRel(<, Nat)
<1>1. IsWellFoundedOn(R, Nat)
  BY NatLessThanWellFounded
<1>2. \A x, y \in Nat : x < y => <<x, y>> \in R
  BY DEF OpToRel
<1> HIDE DEF R
<1>3. PICK m \in S : \A x \in S : ~ (<<x, m>> \in R)
  BY <1>1, WFMin
<1>4. ASSUME NEW x \in S PROVE m =< x
  <2>1. x \in Nat /\ m \in Nat /\ ~(x < m)
    BY <1>2, <1>3
  <2> QED  BY <2>1
<1> QED  BY <1>4

\* Somebody is next, with an oldest query.
LEMMA NextIsWaiting ==
    ASSUME Inv, NEW W \in SUBSET Executions, W # {}, \A d \in W : Waiting(d)
    PROVE  LET p == NextInTurn(W, lastProfile)
           IN  p \in Nat /\ (CHOOSE d \in W : Client(d) = p /\ \A x \in W : Client(x) = p => d =< x) \in W
<1> DEFINE P == {Client(e) : e \in W}
           after == {p \in P : p > lastProfile}
           from == IF after = {} THEN P ELSE after
           p == NextInTurn(W, lastProfile)
<1>1. P \in SUBSET Nat /\ P # {}
  <2>1. ASSUME NEW d \in W PROVE Client(d) \in Nat
    <3>1. query[d].by \in Connections
      BY <2>1, Recorded DEF Waiting, Live
    <3> QED  BY <3>1, QueryConstants DEF Client
  <2> QED  BY <2>1
<1>2. from \in SUBSET Nat /\ from # {} /\ from \subseteq P
  BY <1>1
<1>3. \E m \in from : \A x \in from : m =< x
  BY <1>2, LeastExists
<1>4. p \in from
  BY <1>3 DEF NextInTurn
<1> HIDE DEF from, p
<1> DEFINE O == {d \in W : Client(d) = p}
<1>5. O \in SUBSET Nat /\ O # {}
  <2>1. W \subseteq Nat
    BY QueryConstants DEF Executions
  <2> QED  BY <1>2, <1>4, <2>1
<1>6. PICK m \in O : \A x \in O : m =< x
  BY <1>5, LeastExists
<1>7. \E d \in W : Client(d) = p /\ \A x \in W : Client(x) = p => d =< x
  BY <1>6
<1>8. (CHOOSE d \in W : Client(d) = p /\ \A x \in W : Client(x) = p => d =< x) \in W
  BY <1>7
<1> QED  BY <1>2, <1>4, <1>8 DEF p

LEMMA PickStep == ASSUME Inv, NEW t \in Threads, Pick(t) PROVE Inv'
<1> DEFINE W == {e \in Executions : Waiting(e)}
           p == NextInTurn(W, lastProfile)
<1>1. /\ Doing(t, "pick", 0) /\ "pick" \notin EngagedKinds /\ agenda[t] # <<>> /\ Head(agenda[t]).do = "pick"
      /\ UNCHANGED <<authenticated, snapshots, admitted, work, killed, pages, poisoned, raced>>
  BY AtHand DEF Pick, EngagedKinds, HandKinds, access, engine
<1>2. CASE LaneBusy \/ W = {}
  BY <1>1, <1>2, GoesHarmlessly DEF Pick
<1>3. CASE ~(LaneBusy \/ W = {})
  <2>1. PICK e : e = CHOOSE d \in W : Client(d) = p /\ \A x \in W : Client(x) = p => d =< x
    OBVIOUS
  <2>2. e \in W /\ p \in Nat
    <3>1. W \in SUBSET Executions /\ W # {} /\ \A d \in W : Waiting(d)
      BY <1>3
    <3> HIDE DEF W
    <3> QED  BY <2>1, <3>1, NextIsWaiting
  <2>3. /\ query' = [query EXCEPT ![e].claimed = TRUE] /\ lastProfile' = p
        /\ Then(t, <<Step("admit", e)>>)
    BY <1>3, <2>1 DEF Pick
  <2> HIDE DEF p
  <2>4. e \in Executions /\ Waiting(e) /\ RecordStands(e) /\ query[e] \in Records
    BY <2>2 DEF Inv, Shape
  <2> DEFINE r == [query[e] EXCEPT !.claimed = TRUE]
             s == Step("admit", e)
  <2>5. /\ r \in Records /\ r.state = query[e].state /\ r.by = query[e].by /\ r.accepted = query[e].accepted
        /\ r.claimed = TRUE /\ r.snapshot = query[e].snapshot /\ r.result = query[e].result
        /\ r.cleanup = query[e].cleanup
    BY <2>4 DEF Records
  <2>6. s \in AnyStep /\ s.do = "admit" /\ s.of = e /\ "admit" \in HandKinds
    <3>1. "admit" \in StepKinds
      BY DEF StepKinds
    <3> QED  BY <2>4, <3>1, StepTypes DEF HandKinds
  <2>7. query' = [query EXCEPT ![e] = r]
    BY <2>3, <2>4 DEF Inv, Shape
  <2> HIDE DEF r
  <2>8. Goes(t, {s}) /\ \A d \in Executions : KeepsEngaged(t, {s}, d)
    <3>1. Goes(t, {s})
      BY <1>1, <2>3, <2>6, GoesTo DEF Inv
    <3> QED  BY <1>1, <3>1, NothingInHand
  <2> HIDE DEF s
  <2>9. query'[e] = r /\ \A d \in Executions : d # e => query'[d] = query[d]
    BY <2>4, <2>7 DEF Inv, Shape
  <2>10. Shape' /\ Onward
    <3>1. query' \in [Executions -> Records]
      BY <2>5, <2>7 DEF Inv, Shape
    <3> QED  BY <1>1, <2>2, <2>3, <2>8, <3>1 DEF Inv, Shape, Goes, Onward
  <2>11. \A d \in Executions : query'[d].snapshot = query[d].snapshot
    BY <2>5, <2>9
  <2>12. SnapshotsAreHeld' /\ \A d \in Executions : SnapshotStays(d)
    <3>1. \A x \in Snapshots : snapshots'[x] \in {snapshots[x], "gone"}
      BY <1>1
    <3> QED  BY <1>1, <2>11, <3>1, SnapshotsFrame
  <2>13. \A d \in Executions : d # e => Untouched(d)
    BY <1>1, <2>9, <2>12 DEF Untouched, Same
  <2>14. /\ Live(e)' = Live(e) /\ Pending(e)' = Pending(e) /\ Outstanding(e)' = Outstanding(e) /\ ~Waiting(e)'
         /\ Holding(e)' = Holding(e) /\ Known(e)' = Known(e) /\ Quiet(e)' = Quiet(e)
    BY <1>1, <2>5, <2>9 DEF Live, Pending, Outstanding, Waiting, Holding, Known, Quiet
  <2>15. Settled(e)' = Settled(e) /\ Pending(e)
    BY <1>1, <2>4, <2>14 DEF Settled, Waiting, Pending
  <2>16. e \in 1..admitted /\ work[e] = "none" /\ ~InHand(e, t) /\ ~(e > admitted)
    <3>1. e \in 1..admitted /\ ~(e > admitted)
      BY <2>4, Recorded DEF Waiting, Live, Inv, Shape, Executions
    <3>2. ~InHand(e, t)
      BY <2>4, HandsAreHanded DEF Handed
    <3> QED  BY <2>4, <3>1, <3>2 DEF RecordStands
  <2>17. Persists(e) /\ HandStays(t, e)
    BY <1>1, <2>14, <2>15, <2>16 DEF Persists, HandStays
  <2>18. Handing(e)'
    <3>1. s \in Steps(t)' /\ "admit" \in EngagedKinds
      BY <2>6, <2>8 DEF Goes, EngagedKinds
    <3> QED  BY <2>6, <3>1, UpcomingStepsNext
  <2>19. RecordStands(e)'
    <3>1. Upcoming(e, {"accept"}) => Upcoming(e, {"accept"})'
      BY <2>4, <2>8, EngagedStays DEF Inv
    <3>2. /\ ~(e > admitted') /\ query'[e].by \in Connections
          /\ e \in killed' => work'[e] = "running"
          /\ e \in pages' => work'[e] = "succeeded"
      BY <1>1, <2>4, <2>5, <2>9, <2>16 DEF RecordStands, Waiting, Live
    <3>3. query'[e].snapshot # NoSnapshot =>
             /\ Pending(e)' /\ snapshots'[query'[e].snapshot] \in {"reserved", "gone"}
             /\ SnapshotOf[query'[e].snapshot] = query'[e].by
      BY <1>1, <2>4, <2>5, <2>9, <2>14 DEF RecordStands
    <3>4. /\ query'[e].result => query'[e].accepted /\ Settled(e)'
          /\ query'[e].cleanup => Live(e)' /\ ~Holding(e)' /\ Settled(e)'
          /\ query'[e].accepted => Live(e)'
      BY <2>4, <2>5, <2>9, <2>14, <2>15 DEF RecordStands
    <3>5. work'[e] \notin ActiveStates /\ e \notin pages'
      BY <1>1, <2>4, <2>16 DEF RecordStands, ActiveStates
    <3>6. Live(e)'
      BY <2>4, <2>14 DEF Waiting, Live
    <3> QED  BY <2>14, <2>18, <3>2, <3>3, <3>4, <3>5, <3>6 DEF RecordStands
  <2>20. StepStands(t, s)' /\ HandsOn(t, s)
    <3>1. Handed(e)' /\ e \in 1..admitted' /\ work'[e] = "none"
      BY <1>1, <2>14, <2>15, <2>16 DEF Handed
    <3> QED  BY <2>6, <2>16, <3>1 DEF StepStands, HandsOn, ReleaseKinds
  <2>21. \A d \in Executions : (Untouched(d) /\ KeepsEngaged(t, {s}, d)) \/ Touched(t, d)
    BY <2>8, <2>13, <2>17, <2>19 DEF Touched
  <2> QED  BY <2>8, <2>10, <2>12, <2>20, <2>21, Moves
<1> QED  BY <1>2, <1>3

--------------------------------------------------------------------------------
(* The theorems.                                                           *)

LEMMA NextKeeps == Inv /\ [Next]_vars => Inv'
<1> SUFFICES ASSUME Inv, [Next]_vars PROVE Inv'
  OBVIOUS
<1>1. CASE UNCHANGED vars
  <2>1. UNCHANGED <<authenticated, snapshots, query, admitted, lastProfile, agenda, work, killed, pages, poisoned, raced>>
    BY <1>1 DEF vars, access, engine
  <2>2. Shape' /\ Onward /\ \A s \in Snapshots : snapshots'[s] \in {snapshots[s], "gone"}
    BY <2>1 DEF Inv, Shape, Onward
  <2>3. SnapshotsAreHeld' /\ \A d \in Executions : SnapshotStays(d)
    BY <2>1, <2>2, SnapshotsFrame
  <2>4. \A d \in Executions : Untouched(d)
    BY <2>1, <2>3 DEF Untouched, Same
  <2> QED  BY <2>1, <2>2, <2>3, <2>4, Stays
<1>2. ASSUME NEW c \in Connections,
             \/ \E s \in Snapshots : Classify(c, s) \/ StartQuery(c, s)
             \/ \E e \in Executions : QueryStatus(c, e) \/ CancelQuery(c, e) \/ ReadPage(c, e)
                                      \/ PageRead(c, e) \/ Answer(c, e)
             \/ Disconnect(c) \/ LapseLease(c)
      PROVE  Inv'
  BY <1>2, ClassifyStep, StartQueryStep, QueryStatusStep, CancelQueryStep, ReadPageStep, PageReadStep,
     AnswerStep, DisconnectStep, LapseLeaseStep
<1>3. ASSUME NEW t \in Threads,
             \/ Pick(t)
             \/ \E e \in Executions :
                   Admit(t, e) \/ Submit(t, e) \/ Accept(t, e) \/ FailQueued(t, e) \/ View(t, e)
                   \/ ReadStatus(t, e) \/ Apply(t, e) \/ MarkCancelled(t, e) \/ Cancel(t, e)
                   \/ Unlink(t, e) \/ Release(t, e) \/ Drop(t, e)
      PROVE  Inv'
  BY <1>3, PickStep, AdmitStep, SubmitStep, AcceptStep, FailQueuedStep, ViewStep, ReadStatusStep, ApplyStep,
     MarkCancelledStep, CancelStep, UnlinkStep, ReleaseStep, DropStep
<1>4. ASSUME NEW e \in Executions, DesktopReleaseResult(e) PROVE Inv'
  <2>1. {e} \in SUBSET Executions /\ (\A d \in {e} : query[d].result) /\ Releases(Desktop, {e}) /\ Desktop \in Threads
    BY <1>4 DEF DesktopReleaseResult, Threads
  <2> QED  BY <2>1, ReleasesStep
<1>5. ASSUME NEW e \in Executions, NEW c \in Connections, ReleaseResult(c, e) PROVE Inv'
  <2>1. {e} \in SUBSET Executions /\ (\A d \in {e} : query[d].result) /\ Releases(c, {e}) /\ c \in Threads
    BY <1>5 DEF ReleaseResult, Threads
  <2> QED  BY <2>1, ReleasesStep
<1>6. ASSUME NEW p \in Profiles, NEW c, ReleaseAllResults(p, c) PROVE Inv'
  <2> DEFINE S == {e \in Executions : Live(e) /\ query[e].result /\ Client(e) = p /\ (c = query[e].by \/ c = Desktop)}
  <2>1. S \in SUBSET Executions /\ (\A d \in S : query[d].result) /\ Releases(Desktop, S) /\ Desktop \in Threads
    BY <1>6 DEF ReleaseAllResults, Threads
  <2> HIDE DEF S
  <2> QED  BY <2>1, ReleasesStep
<1>7. ASSUME NEW e \in Executions,
             DesktopCancel(e) \/ Poll(e) \/ Overdue(e) \/ ExpireResult(e) \/ Sift(e) \/ EngineRuns(e) \/ EngineEnds(e)
      PROVE  Inv'
  BY <1>7, DesktopCancelStep, PollStep, OverdueStep, ExpireResultStep, SiftStep, EngineRunsStep, EngineEndsStep
<1>8. ASSUME Maintain \/ (\E s \in Snapshots : PruneSnapshot(s))
             \/ (\E p \in Profiles : Revoke(p) \/ RevokeConnections(p))
             \/ InvalidateProject \/ CloseProject \/ Disable \/ EngineLost \/ Refuse
      PROVE  Inv'
  BY <1>8, MaintainStep, PruneSnapshotStep, RevokeStep, RevokeConnectionsStep, InvalidateProjectStep,
     CloseProjectStep, DisableStep, EngineLostStep, RefuseStep
<1> QED  BY <1>1, <1>2, <1>3, <1>4, <1>5, <1>6, <1>7, <1>8 DEF Next

LEMMA InductiveInvariant == Spec => []Inv
BY InitInv, NextKeeps, PTL DEF Spec

\* A snapshot that is reserved by a connection that is there belongs to a query that
\* still waits for the engine: whichever of a failure, a cancellation, a disconnect or
\* an acceptance ends the wait also decides the snapshot, in one lock section.
THEOREM ReservedSnapshotsReturn == Spec => []SnapshotsReturn
<1>1. Inv => SnapshotsReturn
  <2> SUFFICES ASSUME Inv, NEW s \in Snapshots, snapshots[s] = "reserved", SnapshotOf[s] \in authenticated
               PROVE  \E e \in Executions : query[e].snapshot = s /\ query[e].state = "queued" /\ ~query[e].accepted
    BY DEF SnapshotsReturn
  <2>1. PICK e \in Executions : query[e].snapshot = s
    BY DEF Inv, SnapshotsAreHeld
  <2>2. RecordStands(e) /\ s # NoSnapshot
    BY QueryConstants DEF Inv
  <2> QED  BY <2>1, <2>2 DEF RecordStands, Pending
<1> QED  BY <1>1, InductiveInvariant, PTL

\* No query stays claimed with nobody to submit or fail it: the scheduler passes over
\* claimed queries, so one without a thread would wait for ever.
THEOREM ClaimedQueriesHaveAScheduler == Spec => []ClaimHasScheduler
<1>1. Inv => ClaimHasScheduler
  BY DEF Inv, ClaimHasScheduler, RecordStands, Pending
<1> QED  BY <1>1, InductiveInvariant, PTL

\* What the engine works on is accepted and on the reaper's list, about to stop, or in
\* the hands of the thread that submitted it, unless it was decided while it was being
\* handed over.
THEOREM EngineWorkIsWatched == Spec => []Watched
<1>1. Inv => Watched
  <2> SUFFICES ASSUME Inv, NEW e \in Executions, work[e] \in ActiveStates, e \notin raced, ~poisoned
               PROVE  \/ query[e].accepted /\ Outstanding(e)
                      \/ e \in killed
                      \/ Upcoming(e, {"accept", "cancel", "invalidate"})
    BY DEF Watched
  <2>1. (query[e].accepted /\ Outstanding(e)) \/ e \in killed \/ Upcoming(e, {"accept"})
    BY DEF Inv, RecordStands
  <2>2. Upcoming(e, {"accept"}) => Upcoming(e, {"accept", "cancel", "invalidate"})
    BY DEF Upcoming
  <2> QED  BY <2>1, <2>2
<1> QED  BY <1>1, InductiveInvariant, PTL

\* Pages in the engine belong to a record that can still be released, or that the
\* thread that submitted the query is about to mark accepted.
THEOREM EnginePagesHaveAnOwner == Spec => []PagesHaveOwner
<1>1. Inv => PagesHaveOwner
  <2> SUFFICES ASSUME Inv, NEW e \in pages \ raced
               PROVE  \/ Live(e) /\ (query[e].result \/ query[e].cleanup \/ (query[e].accepted /\ Outstanding(e)))
                      \/ Upcoming(e, {"accept", "drop"}) \/ poisoned
    BY DEF PagesHaveOwner
  <2>1. e \in Executions /\ RecordStands(e)
    BY DEF Inv, Shape
  <2>2. \/ Live(e) /\ (query[e].result \/ query[e].cleanup \/ (query[e].accepted /\ Outstanding(e)))
        \/ Upcoming(e, {"accept"}) \/ poisoned
    BY <2>1 DEF RecordStands, Inv, Shape
  <2>3. Upcoming(e, {"accept"}) => Upcoming(e, {"accept", "drop"})
    BY DEF Upcoming
  <2> QED  BY <2>2, <2>3
<1> QED  BY <1>1, InductiveInvariant, PTL

================================================================================
