--------------------------- MODULE EngineJobsProofs ---------------------------
(***************************************************************************)
(* Theorems about EngineJobs for every set of executions and sessions,     *)
(* every history limit and every length of SQL snapshot.                   *)
(*                                                                         *)
(* The inductive invariant adds to the properties what makes them          *)
(* inductive: the history list is always empty (so a terminal record is    *)
(* never dropped), a thread's name is an admitted execution, and a thread  *)
(* past its claim holds the execution its session's `running` names.       *)
(***************************************************************************)
EXTENDS EngineJobs, TLAPS

--------------------------------------------------------------------------------
(* What the operations on a session's waiting line return.                 *)

\* push_back of a new identifier keeps the line free of duplicates.
LEMMA AppendToLine ==
    ASSUME NEW S, NEW q \in Seq(S), NEW e \in S, Distinct(q), e \notin Waiting(q)
    PROVE  /\ Append(q, e) \in Seq(S)
           /\ Distinct(Append(q, e))
           /\ Waiting(Append(q, e)) = Waiting(q) \cup {e}
BY DEF Distinct, Waiting

\* pop_front takes the head out of the line and nothing else.
LEMMA TailOfLine ==
    ASSUME NEW S, NEW q \in Seq(S), Distinct(q), q # <<>>
    PROVE  /\ Tail(q) \in Seq(S)
           /\ Head(q) \in S
           /\ Head(q) \in Waiting(q)
           /\ Distinct(Tail(q))
           /\ Waiting(Tail(q)) = Waiting(q) \ {Head(q)}
<1>1. Tail(q) \in Seq(S) /\ Len(Tail(q)) = Len(q) - 1 /\ Len(q) > 0
  OBVIOUS
<1>2. \A i \in 1..Len(Tail(q)) : Tail(q)[i] = q[i + 1] /\ i + 1 \in 1..Len(q)
  OBVIOUS
<1>3. Head(q) = q[1] /\ 1 \in 1..Len(q) /\ Head(q) \in S
  OBVIOUS
<1>4. Distinct(Tail(q))
  BY <1>1, <1>2 DEF Distinct
<1>5. \A i \in 1..Len(q) : i # 1 => i - 1 \in 1..Len(Tail(q)) /\ q[i] = Tail(q)[i - 1]
  BY <1>1
<1>6. Waiting(Tail(q)) = Waiting(q) \ {Head(q)}
  <2>1. ASSUME NEW i \in 1..Len(Tail(q))
        PROVE  Tail(q)[i] \in Waiting(q) \ {Head(q)}
    BY <1>1, <1>2, <1>3 DEF Distinct, Waiting
  <2>2. ASSUME NEW i \in 1..Len(q), q[i] # Head(q)
        PROVE  q[i] \in Waiting(Tail(q))
    BY <1>3, <1>5, <2>2 DEF Waiting
  <2> QED  BY <2>1, <2>2 DEF Waiting
<1> QED  BY <1>1, <1>3, <1>4, <1>6 DEF Waiting

\* retain removes exactly the identifier it is given.
LEMMA WithoutFromLine ==
    ASSUME NEW S, NEW q \in Seq(S), NEW e, Distinct(q)
    PROVE  /\ Without(q, e) \in Seq(S)
           /\ Distinct(Without(q, e))
           /\ Waiting(Without(q, e)) = Waiting(q) \ {e}
<1>1. CASE e \notin Waiting(q)
  BY <1>1 DEF Without
<1>2. CASE e \in Waiting(q)
  <2> DEFINE at == CHOOSE i \in 1..Len(q) : q[i] = e
             w  == [i \in 1..(Len(q) - 1) |-> IF i < at THEN q[i] ELSE q[i + 1]]
  <2>1. at \in 1..Len(q) /\ q[at] = e
    BY <1>2 DEF Waiting
  <2>2. Without(q, e) = w
    BY <1>2 DEF Without
  <2> HIDE DEF at
  <2>3. w \in Seq(S) /\ Len(w) = Len(q) - 1
    BY <2>1
  <2>4. \A i \in 1..(Len(q) - 1) : w[i] = IF i < at THEN q[i] ELSE q[i + 1]
    OBVIOUS
  <2> HIDE DEF w
  <2>5. Distinct(w)
    BY <2>1, <2>3, <2>4 DEF Distinct
  <2>6. Waiting(w) \subseteq Waiting(q) \ {e}
    <3>1. ASSUME NEW i \in 1..Len(w)
          PROVE  \E k \in 1..Len(q) : k # at /\ w[i] = q[k]
      <4>1. CASE i < at
        <5>1. i \in 1..Len(q) /\ i # at /\ w[i] = q[i]
          BY <2>1, <2>3, <2>4, <4>1
        <5> QED  BY <5>1
      <4>2. CASE i >= at
        <5>1. i + 1 \in 1..Len(q) /\ i + 1 # at /\ w[i] = q[i + 1]
          BY <2>1, <2>3, <2>4, <4>2
        <5> QED  BY <5>1
      <4> QED  BY <2>1, <2>3, <4>1, <4>2
    <3>2. \A k \in 1..Len(q) : k # at => q[k] # e
      BY <2>1 DEF Distinct
    <3> QED  BY <3>1, <3>2 DEF Waiting
  <2>7. ASSUME NEW k \in 1..Len(q), k # at
        PROVE  q[k] \in Waiting(w)
    <3>1. CASE k < at
      BY <2>1, <2>3, <2>4, <2>7, <3>1 DEF Waiting
    <3>2. CASE k > at
      <4>1. k - 1 \in 1..Len(w) /\ w[k - 1] = q[k]
        BY <2>1, <2>3, <2>4, <3>2
      <4> QED  BY <4>1 DEF Waiting
    <3> QED  BY <2>1, <2>7, <3>1, <3>2
  <2>8. Waiting(q) \ {e} \subseteq Waiting(w)
    BY <2>1, <2>7 DEF Waiting
  <2> QED  BY <2>2, <2>3, <2>5, <2>6, <2>8
<1> QED  BY <1>1, <1>2

--------------------------------------------------------------------------------
(* The jobs.                                                               *)

\* The unconditional pop empties the history again after every push.
HistoryEmpty == terminalOrder = <<>>

\* Every admitted execution has an owner, and only those name a thread.
Admitted == \A j \in Jobs :
    /\ state[j] # "absent" => owner[j] \in Sessions
    /\ state[j] = "absent" => pc[j] = "none"

\* Live threads serve distinct sessions, each marked alive.
ThreadsServe ==
    /\ \A t \in Jobs : Live(t) => home[t] \in alive
    /\ \A t, u \in Jobs : Live(t) /\ Live(u) /\ home[t] = home[u] => t = u

\* A thread past its claim holds its session's running execution.
Holding(t) ==
    /\ claim[t] \in Jobs
    /\ state[claim[t]] = "running"
    /\ owner[claim[t]] = home[t]
    /\ running[home[t]] = claim[t]

Claimed(t) == pc[t] \notin {"none", "loop"}

ClaimsHold ==
    /\ \A t \in Jobs : Claimed(t) => Holding(t)
    /\ \A t \in Jobs : pc[t] = "loop" => running[home[t]] = NoJob
    /\ \A t \in Jobs : pc[t] \in {"discard", "mark"} => verdict[t] \in TerminalStates
    /\ \A t \in Jobs : pc[t] = "streaming" => ran[t] < MaxStatements
    /\ \A j \in Jobs : state[j] = "running" => running[owner[j]] = j
    /\ \A s \in Sessions : running[s] # NoJob =>
          \E t \in Jobs : Claimed(t) /\ home[t] = s /\ claim[t] = running[s]

IInv ==
    /\ TypeOK
    /\ HistoryEmpty
    /\ Admitted
    /\ QueuesMatchStates
    /\ ThreadsServe
    /\ ClaimsHold

\* With an empty history a settled execution changes only its own state.
LEMMA SettleEffect ==
    ASSUME TypeOK, HistoryEmpty, NEW j \in Jobs, NEW newState, Settle(j, newState)
    PROVE  /\ state' = [state EXCEPT ![j] = newState]
           /\ HistoryEmpty'
<1> DEFINE order == AfterPop(Append(terminalOrder, j))
<1>1. order = <<>>
  BY DEF AfterPop, HistoryEmpty
<1>2. Excess(order) = 0
  BY <1>1, BoundsAssumption DEF Excess
<1>3. PrunedJobs(j) = {}
  BY <1>1, <1>2 DEF PrunedJobs
<1>4. PrunedOrder(j) = <<>>
  BY <1>1, <1>2 DEF PrunedOrder
<1>5. state' = [k \in Jobs |-> IF k = j THEN newState ELSE state[k]]
  BY <1>3 DEF Settle
<1>6. state' = [state EXCEPT ![j] = newState]
  BY <1>5 DEF TypeOK
<1> QED  BY <1>4, <1>6 DEF Settle, HistoryEmpty

LEMMA InitIInv == Init => IInv
<1> SUFFICES ASSUME Init PROVE IInv
  OBVIOUS
<1>1. TypeOK /\ HistoryEmpty /\ Admitted
  BY BoundsAssumption DEF Init, TypeOK, HistoryEmpty, Admitted, JobStates, Points
<1>2. QueuesMatchStates
  BY DEF Init, QueuesMatchStates, Distinct, Waiting
<1>3. ThreadsServe /\ ClaimsHold
  BY DEF Init, ThreadsServe, ClaimsHold, Live, Claimed
<1> QED  BY <1>1, <1>2, <1>3 DEF IInv

\* An execution can be put in or taken out of a line only by the queue's own
\* operations; a step that keeps queue, states and owners keeps the match.
LEMMA QueueFrame ==
    ASSUME QueuesMatchStates, UNCHANGED <<pending, state, owner>>
    PROVE  QueuesMatchStates'
BY DEF QueuesMatchStates

--------------------------------------------------------------------------------
(* The requests of the dispatch thread.                                    *)

LEMMA ExecuteStep ==
    ASSUME IInv, NEW j \in Jobs, NEW s \in Sessions, Execute(j, s)
    PROVE  IInv'
<1> USE DEF IInv
<1>1. state[j] = "absent" /\ pc[j] = "none"
  BY DEF Execute, Admitted
<1>2. TypeOK'
  <2>1. pending' \in [Sessions -> Seq(Jobs)]
    BY DEF Execute, Enqueued, TypeOK
  <2>2. state' \in [Jobs -> JobStates]
    <3>1. state \in [Jobs -> JobStates] /\ "queued" \in JobStates
      BY DEF TypeOK, JobStates, ActiveStates
    <3> QED  BY <3>1 DEF Execute
  <2>6. owner' \in [Jobs -> Sessions \cup {NoSession}]
    <3>1. owner \in [Jobs -> Sessions \cup {NoSession}] /\ s \in Sessions
      BY DEF TypeOK
    <3> QED  BY <3>1 DEF Execute
  <2>3. pc' \in [Jobs -> Points] /\ home' \in [Jobs -> Sessions \cup {NoSession}]
    <3>1. pc \in [Jobs -> Points] /\ "loop" \in Points
          /\ home \in [Jobs -> Sessions \cup {NoSession}]
      BY DEF TypeOK, Points
    <3> QED  BY <3>1 DEF Execute
  <2>4. UNCHANGED <<open, terminalOrder, results, running, tmp, final, claim, ran,
                    produced, verdict, closing, toCancel>>
    BY DEF Execute, disk, dispatcher
  <2>5. cancelled' \subseteq Jobs /\ armed' \subseteq Jobs /\ fired' \subseteq Jobs
        /\ alive' \subseteq Sessions
    BY DEF Execute, TypeOK
  <2> QED  BY <2>1, <2>2, <2>3, <2>4, <2>5, <2>6 DEF TypeOK
<1>3. HistoryEmpty' /\ Admitted'
  BY <1>1 DEF Execute, HistoryEmpty, Admitted, TypeOK
<1>4. QueuesMatchStates'
  <2> SUFFICES ASSUME NEW r \in Sessions
               PROVE  /\ Distinct(pending'[r])
                      /\ Waiting(pending'[r]) = {k \in Jobs : state'[k] = "queued" /\ owner'[k] = r}
    BY DEF QueuesMatchStates
  <2>1. state' = [state EXCEPT ![j] = "queued"] /\ owner' = [owner EXCEPT ![j] = s]
        /\ pending' = [pending EXCEPT ![s] = Append(@, j)]
    BY DEF Execute, Enqueued
  <2>2. j \notin Waiting(pending[r])
    BY <1>1 DEF QueuesMatchStates
  <2>3. CASE r = s
    <3>1. /\ Distinct(Append(pending[s], j))
          /\ Waiting(Append(pending[s], j)) = Waiting(pending[s]) \cup {j}
      BY <2>2, <2>3, AppendToLine DEF TypeOK, QueuesMatchStates
    <3> QED  BY <2>1, <2>3, <3>1 DEF TypeOK, QueuesMatchStates
  <2>4. CASE r # s
    BY <1>1, <2>1, <2>4 DEF TypeOK, QueuesMatchStates
  <2> QED  BY <2>3, <2>4
<1>5. ThreadsServe'
  <2>1. CASE UNCHANGED <<pc, home>>
    BY <2>1 DEF Execute, ThreadsServe, Live
  <2>2. CASE /\ s \notin alive
             /\ pc' = [pc EXCEPT ![j] = "loop"]
             /\ home' = [home EXCEPT ![j] = s]
    <3>1. \A t \in Jobs : Live(t) => home[t] # s
      BY <2>2 DEF ThreadsServe
    <3>2. alive' = alive \cup {s}
      BY DEF Execute
    <3> QED  BY <1>1, <2>2, <3>1, <3>2 DEF ThreadsServe, Live, TypeOK
  <2> QED  BY <2>1, <2>2 DEF Execute, SpawnsWorker
<1>6. ClaimsHold'
  <2>1. running' = running /\ claim' = claim /\ verdict' = verdict /\ ran' = ran
        /\ state' = [state EXCEPT ![j] = "queued"] /\ owner' = [owner EXCEPT ![j] = s]
    BY DEF Execute
  <2>2. CASE UNCHANGED <<pc, home>>
    BY <1>1, <2>1, <2>2 DEF ClaimsHold, Claimed, Holding, TypeOK
  <2>3. CASE /\ s \notin alive
             /\ pc' = [pc EXCEPT ![j] = "loop"]
             /\ home' = [home EXCEPT ![j] = s]
    <3>1. \A t \in Jobs : Live(t) => home[t] # s
      BY <2>3 DEF ThreadsServe
    <3>2. running[s] = NoJob
      BY <3>1 DEF ClaimsHold, Claimed, Live
    <3> QED  BY <1>1, <2>1, <2>3, <3>2 DEF ClaimsHold, Claimed, Holding, TypeOK
  <2> QED  BY <2>2, <2>3 DEF Execute, SpawnsWorker
<1> QED  BY <1>2, <1>3, <1>4, <1>5, <1>6

\* The body of `cancel`, shared by query.cancel and session.close.
LEMMA CancelStep ==
    ASSUME IInv, NEW j \in Jobs, CancelJob(j),
           UNCHANGED <<open, owner, armed, results, running, alive, disk, threads>>,
           closing' \in Sessions \cup {NoSession}, toCancel' \subseteq Jobs
    PROVE  IInv'
<1> USE DEF IInv, disk, threads
<1>1. CASE state[j] = "queued"
  <2>1. Settle(j, "cancelled") /\ pending' = [pending EXCEPT ![owner[j]] = Without(@, j)]
        /\ UNCHANGED <<cancelled, fired>>
    BY <1>1 DEF CancelJob, Active, ActiveStates
  <2>2. state' = [state EXCEPT ![j] = "cancelled"] /\ HistoryEmpty'
    BY <2>1, SettleEffect
  <2>3. owner[j] \in Sessions
    BY <1>1 DEF Admitted
  <2>4. \A s \in Sessions :
          /\ Without(pending[s], j) \in Seq(Jobs)
          /\ Distinct(Without(pending[s], j))
          /\ Waiting(Without(pending[s], j)) = Waiting(pending[s]) \ {j}
    BY WithoutFromLine DEF TypeOK, QueuesMatchStates
  <2>5. TypeOK'
    BY <2>1, <2>2, <2>3, <2>4 DEF TypeOK, HistoryEmpty, JobStates, TerminalStates
  <2>6. Admitted'
    BY <1>1, <2>2 DEF Admitted, TypeOK
  <2>7. QueuesMatchStates'
    BY <1>1, <2>1, <2>2, <2>3, <2>4 DEF QueuesMatchStates, TypeOK
  <2>8. ThreadsServe'
    BY DEF ThreadsServe, Live
  <2>9. ClaimsHold'
    BY <1>1, <2>2 DEF ClaimsHold, Claimed, Holding, TypeOK
  <2> QED  BY <2>2, <2>5, <2>6, <2>7, <2>8, <2>9
<1>2. CASE state[j] # "queued"
  <2>1. UNCHANGED <<state, terminalOrder, pending>>
    BY <1>2 DEF CancelJob, CancelRunning
  <2>2. cancelled' \subseteq Jobs /\ fired' \subseteq Jobs
    BY <1>2 DEF CancelJob, CancelRunning, TypeOK
  <2>3. TypeOK'
    BY <2>1, <2>2 DEF TypeOK
  <2>4. HistoryEmpty' /\ Admitted' /\ QueuesMatchStates' /\ ThreadsServe' /\ ClaimsHold'
    BY <2>1, QueueFrame DEF HistoryEmpty, Admitted, ThreadsServe, Live, ClaimsHold, Claimed, Holding
  <2> QED  BY <2>3, <2>4
<1> QED  BY <1>1, <1>2

\* A step that leaves queues, states, owners and threads alone keeps the rest.
LEMMA CoreFrame ==
    ASSUME IInv, TypeOK',
           UNCHANGED <<state, owner, terminalOrder, queues, pc, home, claim, ran, verdict>>
    PROVE  IInv'
BY QueueFrame DEF IInv, HistoryEmpty, Admitted, ThreadsServe, ClaimsHold, Live, Claimed,
                  Holding, queues

LEMMA OtherRequests ==
    ASSUME IInv,
           \/ \E s \in Sessions : OpenSession(s) \/ CloseBegin(s) \/ CloseEnd(s)
           \/ \E j \in Jobs : Release(j)
           \/ ReleaseAll
    PROVE  IInv'
<1> USE DEF IInv, registry, queues, disk, threads, dispatcher
<1>1. ASSUME NEW s \in Sessions, OpenSession(s) PROVE IInv'
  BY <1>1, CoreFrame DEF OpenSession, TypeOK
<1>2. ASSUME NEW s \in Sessions, CloseBegin(s) PROVE IInv'
  BY <1>2, CoreFrame DEF CloseBegin, SessionJobs, TypeOK
<1>3. ASSUME NEW s \in Sessions, CloseEnd(s) PROVE IInv'
  BY <1>3, CoreFrame DEF CloseEnd, TypeOK
<1>4. ASSUME NEW j \in Jobs, Release(j) PROVE IInv'
  BY <1>4, CoreFrame DEF Release, TypeOK
<1>5. ASSUME ReleaseAll PROVE IInv'
  BY <1>5, CoreFrame DEF ReleaseAll, TypeOK
<1> QED  BY <1>1, <1>2, <1>3, <1>4, <1>5

--------------------------------------------------------------------------------
(* The worker threads.                                                     *)

\* A thread that moves between two points past its claim disturbs nothing else.
MovesTo(t, point) ==
    /\ TypeOK'
    /\ Claimed(t)
    /\ pc' = [pc EXCEPT ![t] = point] /\ point \notin {"none", "loop"}
    /\ UNCHANGED <<state, owner, terminalOrder, pending, running, alive, home, claim>>
    /\ \A u \in Jobs \ {t} : verdict'[u] = verdict[u] /\ ran'[u] = ran[u]
    /\ point \in {"discard", "mark"} => verdict'[t] \in TerminalStates
    /\ point = "streaming" => ran'[t] < MaxStatements

LEMMA ThreadMoves ==
    ASSUME IInv, NEW t \in Jobs, NEW point, MovesTo(t, point)
    PROVE  IInv'
<1> USE DEF IInv, MovesTo
<1>1. HistoryEmpty' /\ QueuesMatchStates'
  BY QueueFrame DEF HistoryEmpty
<1>2. Admitted'
  BY DEF Admitted, TypeOK, Claimed
<1>3. ThreadsServe'
  BY DEF ThreadsServe, Live, TypeOK, Claimed
<1>4. ClaimsHold'
  <2>1. \A u \in Jobs : Claimed(u)' <=> Claimed(u)
    BY DEF Claimed, TypeOK
  <2>2. \A u \in Jobs : Claimed(u)' => Holding(u)'
    BY <2>1 DEF ClaimsHold, Holding
  <2>3. \A u \in Jobs : pc'[u] = "loop" => running'[home'[u]] = NoJob
    BY DEF ClaimsHold, TypeOK
  <2>4. \A u \in Jobs : pc'[u] \in {"discard", "mark"} => verdict'[u] \in TerminalStates
    BY DEF ClaimsHold, TypeOK
  <2>5. \A u \in Jobs : pc'[u] = "streaming" => ran'[u] < MaxStatements
    BY DEF ClaimsHold, TypeOK
  <2> QED  BY <2>1, <2>2, <2>3, <2>4, <2>5 DEF ClaimsHold
<1> QED  BY <1>1, <1>2, <1>3, <1>4

LEMMA ClaimStep ==
    ASSUME IInv, NEW t \in Jobs, Claim(t)
    PROVE  IInv'
<1> USE DEF IInv
<1> DEFINE s == home[t]
           j == Head(pending[s])
<1>1. /\ pc[t] = "loop" /\ pending[s] # <<>>
      /\ pending' = [pending EXCEPT ![s] = Tail(@)]
      /\ running' = [running EXCEPT ![s] = j]
      /\ state' = [state EXCEPT ![j] = "running"]
      /\ claim' = [claim EXCEPT ![t] = j]
      /\ pc' = [pc EXCEPT ![t] = "clone"]
      /\ verdict' = [verdict EXCEPT ![t] = NoVerdict]
      /\ UNCHANGED <<owner, home, alive, terminalOrder>>
  BY DEF Claim
<1>2. s \in Sessions /\ s \in alive
  BY <1>1 DEF ThreadsServe, Live, TypeOK
<1>3. /\ Tail(pending[s]) \in Seq(Jobs)
      /\ j \in Jobs
      /\ j \in Waiting(pending[s])
      /\ Distinct(Tail(pending[s]))
      /\ Waiting(Tail(pending[s])) = Waiting(pending[s]) \ {j}
  BY <1>1, <1>2, TailOfLine DEF TypeOK, QueuesMatchStates
<1>4. state[j] = "queued" /\ owner[j] = s
  BY <1>2, <1>3 DEF QueuesMatchStates
<1>5. running[s] = NoJob
  BY <1>1 DEF ClaimsHold
<1> HIDE DEF j, s
<1>6. TypeOK'
  <2>1. pending' \in [Sessions -> Seq(Jobs)] /\ running' \in [Sessions -> Jobs \cup {NoJob}]
    BY <1>1, <1>2, <1>3 DEF TypeOK
  <2>2. state' \in [Jobs -> JobStates]
    <3>1. state \in [Jobs -> JobStates] /\ "running" \in JobStates
      BY DEF TypeOK, JobStates, ActiveStates
    <3> QED  BY <1>1, <3>1
  <2>3. pc' \in [Jobs -> Points] /\ claim' \in [Jobs -> Jobs \cup {NoJob}]
        /\ verdict' \in [Jobs -> TerminalStates \cup {NoVerdict}]
    <3>1. "clone" \in Points
      BY DEF Points
    <3> QED  BY <1>1, <1>3, <3>1 DEF TypeOK
  <2>4. ran' \in [Jobs -> 0..MaxStatements] /\ produced' \subseteq Jobs
    BY BoundsAssumption DEF Claim, TypeOK
  <2> QED  BY <1>1, <2>1, <2>2, <2>3, <2>4 DEF Claim, TypeOK, disk, dispatcher
<1>7. HistoryEmpty' /\ Admitted'
  BY <1>1, <1>3, <1>4 DEF HistoryEmpty, Admitted, TypeOK
<1>8. QueuesMatchStates'
  BY <1>1, <1>2, <1>3, <1>4 DEF QueuesMatchStates, TypeOK
<1>9. ThreadsServe'
  BY <1>1 DEF ThreadsServe, Live, TypeOK
<1>10. ClaimsHold'
  <2>1. \A u \in Jobs : u # t /\ Live(u) => home[u] # s
    BY <1>1 DEF ThreadsServe, Live, s
  <2>2. Holding(t)'
    BY <1>1, <1>2, <1>3, <1>4 DEF Holding, TypeOK, s
  <2>3. \A u \in Jobs \ {t} : (Claimed(u)' <=> Claimed(u)) /\ (Claimed(u) => Holding(u)')
    BY <1>1, <1>3, <1>4, <2>1 DEF ClaimsHold, Claimed, Live, Holding, TypeOK
  <2>4. \A u \in Jobs : pc'[u] = "loop" => running'[home'[u]] = NoJob
    BY <1>1, <2>1 DEF ClaimsHold, Live, TypeOK
  <2>5. \A k \in Jobs : state'[k] = "running" => running'[owner'[k]] = k
    BY <1>1, <1>2, <1>3, <1>4, <1>5, JobsAssumption DEF ClaimsHold, TypeOK
  <2>6. \A r \in Sessions : running'[r] # NoJob =>
          \E u \in Jobs : Claimed(u)' /\ home'[u] = r /\ claim'[u] = running'[r]
    <3> SUFFICES ASSUME NEW r \in Sessions, running'[r] # NoJob
                 PROVE \E u \in Jobs : Claimed(u)' /\ home'[u] = r /\ claim'[u] = running'[r]
      OBVIOUS
    <3>1. CASE r = s
      BY <1>1, <1>2, <3>1 DEF Claimed, TypeOK, s
    <3>2. CASE r # s
      BY <1>1, <2>3, <3>2 DEF ClaimsHold, Claimed, TypeOK, s
    <3> QED  BY <3>1, <3>2
  <2>7. \A u \in Jobs : pc'[u] \in {"discard", "mark"} => verdict'[u] \in TerminalStates
    BY <1>1 DEF ClaimsHold, TypeOK
  <2>8. \A u \in Jobs : pc'[u] = "streaming" => ran'[u] < MaxStatements
    BY <1>1 DEF Claim, ClaimsHold, TypeOK
  <2> QED  BY <2>2, <2>3, <2>4, <2>5, <2>6, <2>7, <2>8 DEF ClaimsHold
<1> QED  BY <1>6, <1>7, <1>8, <1>9, <1>10

LEMMA RetireStep ==
    ASSUME IInv, NEW t \in Jobs, Retire(t)
    PROVE  IInv'
<1> USE DEF IInv
<1>1. /\ pc[t] = "loop" /\ pc' = [pc EXCEPT ![t] = "none"] /\ alive' = alive \ {home[t]}
      /\ UNCHANGED <<state, owner, terminalOrder, pending, running, home, claim, ran,
                  verdict>>
  BY DEF Retire, NoLongerAlive, registry
<1>2. TypeOK'
  <2>1. pc' \in [Jobs -> Points] /\ alive' \subseteq Sessions
    BY <1>1 DEF TypeOK, Points
  <2> QED  BY <2>1 DEF Retire, TypeOK, registry, disk, dispatcher
<1>3. HistoryEmpty' /\ Admitted' /\ QueuesMatchStates'
  BY <1>1, QueueFrame DEF HistoryEmpty, Admitted, TypeOK
<1>4. ThreadsServe'
  BY <1>1 DEF ThreadsServe, Live, TypeOK
<1>5. ClaimsHold'
  BY <1>1 DEF ClaimsHold, Claimed, Holding, TypeOK
<1> QED  BY <1>2, <1>3, <1>4, <1>5

\* mark_terminal by the thread that holds the execution.
LEMMA MarkTerminalStep ==
    ASSUME IInv, NEW t \in Jobs, Claimed(t), NEW newState \in TerminalStates,
           NEW published \in SUBSET Jobs, MarkTerminal(t, newState, published)
    PROVE  IInv'
<1> USE DEF IInv
<1> DEFINE j == claim[t]
           s == home[t]
<1>1. Holding(t) /\ j \in Jobs
  BY DEF ClaimsHold, Holding
<1>2. /\ state[j] = "running" /\ owner[j] = s /\ running[s] = j /\ s \in Sessions
  BY <1>1 DEF Holding, Admitted
<1>3. state' = [state EXCEPT ![j] = newState] /\ HistoryEmpty'
  BY <1>1, SettleEffect DEF MarkTerminal
<1>4. /\ running' = [running EXCEPT ![s] = NoJob]
      /\ pc' = [pc EXCEPT ![t] = "loop"]
      /\ claim' = [claim EXCEPT ![t] = NoJob]
      /\ UNCHANGED <<owner, pending, alive, home, verdict>>
  BY <1>2 DEF MarkTerminal
<1> HIDE DEF j, s
<1>5. TypeOK'
  <2>1. state' \in [Jobs -> JobStates]
    <3>1. state \in [Jobs -> JobStates] /\ newState \in JobStates
      BY DEF TypeOK, JobStates
    <3> QED  BY <1>3, <3>1
  <2>2. running' \in [Sessions -> Jobs \cup {NoJob}] /\ claim' \in [Jobs -> Jobs \cup {NoJob}]
    BY <1>4 DEF TypeOK
  <2>3. pc' \in [Jobs -> Points]
    BY <1>4 DEF TypeOK, Points
  <2>4. terminalOrder' \in Seq(Jobs) /\ results' \subseteq Jobs
    BY <1>3 DEF MarkTerminal, TypeOK, HistoryEmpty
  <2> QED  BY <2>1, <2>2, <2>3, <2>4 DEF MarkTerminal, TypeOK, disk, dispatcher
<1>6. Admitted'
  BY <1>2, <1>3, <1>4 DEF Admitted, TypeOK, Claimed, TerminalStates
<1>7. QueuesMatchStates'
  BY <1>2, <1>3, <1>4 DEF QueuesMatchStates, TypeOK, TerminalStates
<1>8. ThreadsServe'
  BY <1>4 DEF ThreadsServe, Live, TypeOK, Claimed
<1>9. ClaimsHold'
  <2>1. \A u \in Jobs : u # t /\ Live(u) => home[u] # s
    BY DEF ThreadsServe, Live, Claimed, s
  <2>2. \A u \in Jobs \ {t} : (Claimed(u)' <=> Claimed(u)) /\ (Claimed(u) => Holding(u)')
    <3> SUFFICES ASSUME NEW u \in Jobs \ {t}
                 PROVE (Claimed(u)' <=> Claimed(u)) /\ (Claimed(u) => Holding(u)')
      OBVIOUS
    <3>1. Claimed(u)' <=> Claimed(u)
      BY <1>4 DEF Claimed, TypeOK
    <3>2. ASSUME Claimed(u) PROVE Holding(u)'
      <4>1. Holding(u) /\ home[u] # s
        BY <2>1, <3>2 DEF ClaimsHold, Claimed, Live
      <4>2. claim[u] # j
        BY <1>2, <4>1 DEF Holding
      <4> QED  BY <1>3, <1>4, <4>1, <4>2 DEF Holding, TypeOK
    <3> QED  BY <3>1, <3>2
  <2>3. ~Claimed(t)'
    BY <1>4 DEF Claimed, TypeOK
  <2>4. \A u \in Jobs : pc'[u] = "loop" => running'[home'[u]] = NoJob
    <3>1. CASE TRUE
      BY <1>2, <1>4, <2>1 DEF ClaimsHold, Live, TypeOK, s
    <3> QED  BY <3>1
  <2>5. \A u \in Jobs : pc'[u] \in {"discard", "mark"} => verdict'[u] \in TerminalStates
    BY <1>4 DEF ClaimsHold, TypeOK
  <2>6. \A k \in Jobs : state'[k] = "running" => running'[owner'[k]] = k
    BY <1>2, <1>3, <1>4 DEF ClaimsHold, TypeOK, TerminalStates
  <2>7. \A r \in Sessions : running'[r] # NoJob =>
          \E u \in Jobs : Claimed(u)' /\ home'[u] = r /\ claim'[u] = running'[r]
    <3> SUFFICES ASSUME NEW r \in Sessions, running'[r] # NoJob
                 PROVE \E u \in Jobs : Claimed(u)' /\ home'[u] = r /\ claim'[u] = running'[r]
      OBVIOUS
    <3>1. r # s /\ running'[r] = running[r]
      BY <1>2, <1>4 DEF TypeOK
    <3>2. PICK u \in Jobs : Claimed(u) /\ home[u] = r /\ claim[u] = running[r]
      BY <3>1 DEF ClaimsHold
    <3>3. u # t
      BY <3>1, <3>2 DEF s
    <3> QED  BY <1>4, <2>2, <3>1, <3>2, <3>3 DEF TypeOK
  <2>8. \A u \in Jobs : pc'[u] = "streaming" => ran'[u] < MaxStatements
    BY <1>4 DEF MarkTerminal, ClaimsHold, TypeOK
  <2> QED  BY <2>2, <2>3, <2>4, <2>5, <2>6, <2>7, <2>8 DEF ClaimsHold
<1> QED  BY <1>3, <1>5, <1>6, <1>7, <1>8, <1>9

LEMMA WorkerStepKeeps ==
    ASSUME IInv, NEW t \in Jobs, WorkerStep(t)
    PROVE  IInv'
<1> USE DEF registry, queues, disk, threads, dispatcher
<1>0. TypeOK /\ ClaimsHold
  BY DEF IInv
<1>1. Claimed(t) => claim[t] \in Jobs /\ claim[t] \in Jobs \cup {NoJob}
  BY <1>0 DEF ClaimsHold, Holding
<1>2. CASE Claim(t)
  BY <1>2, ClaimStep
<1>3. CASE Retire(t)
  BY <1>3, RetireStep
<1>4. CASE CloneConnection(t)
  <2>1. Claimed(t) /\ pc' = [pc EXCEPT ![t] = "arm"]
    BY <1>4 DEF CloneConnection, Claimed
  <2>2. pc' \in [Jobs -> Points]
    BY <1>0, <2>1 DEF TypeOK, Points
  <2>3. TypeOK'
    <3>1. UNCHANGED <<open, state, owner, cancelled, armed, fired, terminalOrder,
                      results, pending, running, alive, tmp, final, home, claim,
                      ran, produced, verdict, closing, toCancel>>
      BY <1>4 DEF CloneConnection
    <3> QED  BY <1>0, <2>2, <3>1 DEF TypeOK
  <2>4. /\ UNCHANGED <<state, owner, terminalOrder, pending, running, alive, home, claim>>
        /\ UNCHANGED <<verdict, ran>>
    BY <1>4 DEF CloneConnection
  <2>5. MovesTo(t, "arm")
    BY <2>1, <2>3, <2>4 DEF MovesTo
  <2> QED  BY <2>5, ThreadMoves
<1>5. CASE CloneFails(t)
  <2>1. verdict' \in [Jobs -> TerminalStates \cup {NoVerdict}] /\ verdict'[t] \in TerminalStates
        /\ \A u \in Jobs \ {t} : verdict'[u] = verdict[u]
    BY <1>0, <1>5 DEF CloneFails, TypeOK, TerminalStates
  <2>2. Claimed(t) /\ pc' = [pc EXCEPT ![t] = "mark"] /\ TypeOK'
    BY <1>0, <1>5, <2>1 DEF CloneFails, Claimed, TypeOK, Points
  <2>3. MovesTo(t, "mark")
    BY <1>5, <2>1, <2>2 DEF MovesTo, CloneFails
  <2> QED  BY <2>3, ThreadMoves
<1>6. CASE SetInterrupt(t)
  <2>1. Claimed(t) /\ pc' = [pc EXCEPT ![t] = "between"]
    BY <1>6 DEF SetInterrupt, Claimed
  <2>2. pc' \in [Jobs -> Points]
    BY <1>0, <2>1 DEF TypeOK, Points
  <2>3. TypeOK'
    <3>1. UNCHANGED <<open, state, owner, cancelled, terminalOrder, results,
                      pending, running, alive, tmp, final, home, claim, ran,
                      produced, verdict, closing, toCancel>>
      BY <1>6 DEF SetInterrupt
    <3>2. armed' \subseteq Jobs /\ fired' \subseteq Jobs
      BY <1>0, <1>1, <1>6, <2>1, <2>2 DEF SetInterrupt, Delivered, TypeOK
    <3> QED  BY <1>0, <2>2, <3>1, <3>2 DEF TypeOK
  <2>4. /\ UNCHANGED <<state, owner, terminalOrder, pending, running, alive, home, claim>>
        /\ UNCHANGED <<verdict, ran>>
    BY <1>6 DEF SetInterrupt
  <2>5. MovesTo(t, "between")
    BY <2>1, <2>3, <2>4 DEF MovesTo
  <2> QED  BY <2>5, ThreadMoves
<1>7. CASE StartRows(t)
  <2>1. Claimed(t) /\ pc' = [pc EXCEPT ![t] = "streaming"]
    BY <1>7 DEF StartRows, Claimed
  <2>2. pc' \in [Jobs -> Points]
    BY <1>0, <2>1 DEF TypeOK, Points
  <2>3. TypeOK'
    <3>1. UNCHANGED <<open, state, owner, cancelled, armed, fired, terminalOrder,
                      results, pending, running, alive, home, claim, ran,
                      verdict, closing, toCancel>>
      BY <1>7 DEF StartRows
    <3>2. tmp' \subseteq Jobs /\ final' \subseteq Jobs /\ produced' \subseteq Jobs
      BY <1>0, <1>1, <1>7, <2>1, <2>2 DEF StartRows, TypeOK
    <3> QED  BY <1>0, <2>2, <3>1, <3>2 DEF TypeOK
  <2>4. /\ UNCHANGED <<state, owner, terminalOrder, pending, running, alive, home, claim>>
        /\ UNCHANGED <<verdict, ran>> /\ ran[t] < MaxStatements
    BY <1>7 DEF StartRows
  <2>5. MovesTo(t, "streaming")
    BY <2>1, <2>3, <2>4 DEF MovesTo
  <2> QED  BY <2>5, ThreadMoves
<1>8. CASE RunCount(t)
  <2>1. ran' \in [Jobs -> 0..MaxStatements]
    BY <1>0, <1>8, BoundsAssumption DEF RunCount, TypeOK
  <2>2. TypeOK'
    BY <1>0, <1>8, <2>1 DEF RunCount, TypeOK
  <2>3. Claimed(t) /\ pc' = [pc EXCEPT ![t] = "between"]
        /\ \A u \in Jobs \ {t} : ran'[u] = ran[u]
    BY <1>0, <1>8 DEF RunCount, Claimed, TypeOK
  <2>4. MovesTo(t, "between")
    BY <1>8, <2>2, <2>3 DEF MovesTo, RunCount
  <2> QED  BY <2>4, ThreadMoves
<1>9. CASE StatementFails(t)
  <2>1. PICK how \in {"failed", "panicked"} : pc' = [pc EXCEPT ![t] = how]
    BY <1>9 DEF StatementFails
  <2>2. Claimed(t) /\ TypeOK'
    BY <1>0, <1>9, <2>1 DEF StatementFails, Claimed, TypeOK, Points
  <2>3. MovesTo(t, how)
    BY <1>9, <2>1, <2>2 DEF MovesTo, StatementFails
  <2> QED  BY <2>3, ThreadMoves
<1>10. CASE Judge(t)
  <2>1. PICK point \in {"discard", "mark"} : pc' = [pc EXCEPT ![t] = point]
    BY <1>10 DEF Judge
  <2>2. verdict' \in [Jobs -> TerminalStates \cup {NoVerdict}] /\ verdict'[t] \in TerminalStates
        /\ \A u \in Jobs \ {t} : verdict'[u] = verdict[u]
    BY <1>0, <1>10 DEF Judge, TypeOK, TerminalStates
  <2>3. Claimed(t) /\ TypeOK'
    BY <1>0, <1>10, <2>1, <2>2 DEF Judge, Claimed, TypeOK, Points
  <2>4. MovesTo(t, point)
    BY <1>10, <2>1, <2>2, <2>3 DEF MovesTo, Judge
  <2> QED  BY <2>4, ThreadMoves
<1>11. CASE Succeed(t)
  <2>1. Claimed(t) /\ "succeeded" \in TerminalStates
    BY <1>11 DEF Succeed, Claimed, TerminalStates
  <2>2. (IF t \in produced THEN {claim[t]} ELSE {}) \in SUBSET Jobs
    BY <1>1, <2>1
  <2> QED  BY <1>11, <2>1, <2>2, MarkTerminalStep DEF Succeed
<1>12. CASE Fail(t)
  <2>1. Claimed(t) /\ verdict[t] \in TerminalStates
    BY <1>0, <1>12 DEF Fail, Claimed, ClaimsHold
  <2> QED  BY <1>12, <2>1, MarkTerminalStep DEF Fail
<1>13. CASE CleanupTmp(t)
  <2>1. PICK point \in {"judge", "mark"} :
          pc' = [pc EXCEPT ![t] = point] /\ (point = "mark" => pc[t] = "discard")
    BY <1>13 DEF CleanupTmp
  <2>2. point = "mark" => verdict[t] \in TerminalStates
    BY <1>0, <2>1 DEF ClaimsHold
  <2>3. Claimed(t) /\ TypeOK'
    BY <1>0, <1>13, <2>1 DEF CleanupTmp, TmpDiscarded, Claimed, TypeOK, Points
  <2>4. MovesTo(t, point)
    BY <1>13, <2>1, <2>2, <2>3 DEF MovesTo, CleanupTmp
  <2> QED  BY <2>4, ThreadMoves
<1>14. CASE Publish(t)
  <2>1. ran' \in [Jobs -> 0..MaxStatements] /\ \A u \in Jobs \ {t} : ran'[u] = ran[u]
    BY <1>0, <1>14, BoundsAssumption DEF Publish, ClaimsHold, TypeOK
  <2>2. Claimed(t) /\ pc' = [pc EXCEPT ![t] = "between"]
    BY <1>14 DEF Publish, Claimed
  <2>3. TypeOK'
    BY <1>0, <1>1, <1>14, <2>1, <2>2 DEF Publish, TypeOK, Points
  <2>4. MovesTo(t, "between")
    BY <1>14, <2>1, <2>2, <2>3 DEF MovesTo, Publish
  <2> QED  BY <2>4, ThreadMoves
<1> QED  BY <1>2, <1>3, <1>4, <1>5, <1>6, <1>7, <1>8, <1>9, <1>10, <1>11, <1>12, <1>13, <1>14
         DEF WorkerStep

\* The invariant is inductive.
LEMMA NextKeeps == IInv /\ [Next]_vars => IInv'
<1> SUFFICES ASSUME IInv, [Next]_vars PROVE IInv'
  OBVIOUS
<1>1. CASE UNCHANGED vars
  <2>1. TypeOK'
    BY <1>1 DEF IInv, TypeOK, vars, registry, queues, disk, threads, dispatcher
  <2> QED  BY <1>1, <2>1, CoreFrame DEF vars, registry, queues, threads
<1>2. ASSUME NEW j \in Jobs, NEW s \in Sessions, Execute(j, s) PROVE IInv'
  BY <1>2, ExecuteStep
<1>3. ASSUME NEW j \in Jobs, Cancel(j) PROVE IInv'
  BY <1>3, CancelStep DEF Cancel, IInv, TypeOK, dispatcher
<1>4. ASSUME NEW j \in Jobs, CloseCancelOne(j) PROVE IInv'
  BY <1>4, CancelStep DEF CloseCancelOne, IInv, TypeOK
<1>5. ASSUME NEW t \in Jobs, WorkerStep(t) PROVE IInv'
  BY <1>5, WorkerStepKeeps
<1> QED  BY <1>1, <1>2, <1>3, <1>4, <1>5, OtherRequests DEF Next, Request

--------------------------------------------------------------------------------
(* Theorems.                                                               *)

\* The inductive invariant holds in every reachable state.
THEOREM InductiveInvariant == Spec => []IInv
BY InitIInv, NextKeeps, PTL DEF Spec

\* Every variable keeps its type, whatever the executions, sessions and bounds.
THEOREM TypeCorrect == Spec => []TypeOK
<1>1. IInv => TypeOK
  BY DEF IInv
<1> QED  BY <1>1, InductiveInvariant, PTL

\* No admitted execution is lost from its session's line or waits twice in it.
THEOREM QueuesAreExact == Spec => []QueuesMatchStates
<1>1. IInv => QueuesMatchStates
  BY DEF IInv
<1> QED  BY <1>1, InductiveInvariant, PTL

\* `worker_alive` never lets a second worker of a session start.
THEOREM WorkersAreUnique == Spec => []OneWorkerPerSession
<1>1. IInv => OneWorkerPerSession
  BY DEF IInv, ThreadsServe, OneWorkerPerSession
<1> QED  BY <1>1, InductiveInvariant, PTL

\* The statements of one session never run concurrently.
THEOREM SessionsAreSerial == Spec => []SerialPerSession
<1>1. IInv => SerialPerSession
  <2> SUFFICES ASSUME IInv PROVE SerialPerSession
    OBVIOUS
  <2>1. \A t, j \in Jobs : Holds(t, j) <=> Claimed(t) /\ claim[t] = j
    BY DEF Holds, Claimed
  <2>2. \A s \in Sessions : running[s] # NoJob =>
          /\ state[running[s]] = "running"
          /\ owner[running[s]] = s
          /\ \E t \in Jobs : Holds(t, running[s]) /\ home[t] = s
    BY <2>1 DEF IInv, ClaimsHold, Holding, Holds, TypeOK
  <2>3. \A t, u, j \in Jobs : Holds(t, j) /\ Holds(u, j) => t = u
    BY <2>1 DEF IInv, ClaimsHold, Holding, ThreadsServe, Live, Claimed
  <2> QED  BY <2>2, <2>3 DEF IInv, ClaimsHold, SerialPerSession
<1> QED  BY <1>1, InductiveInvariant, PTL

\* A step settles an execution only if it was queued, or running and held by the
\* thread that takes the step.
LEMMA SettlesOnlyActive ==
    ASSUME IInv, Next, NEW j \in Jobs, Terminal(j)
    PROVE  state'[j] = state[j]
<1> USE DEF IInv, registry, queues, disk, threads, dispatcher, Terminal, TerminalStates
<1>1. ASSUME NEW k \in Jobs, CancelJob(k) PROVE state'[j] = state[j]
  <2>1. CASE state[k] = "queued"
    <3>1. state' = [state EXCEPT ![k] = "cancelled"]
      BY <1>1, <2>1, SettleEffect DEF CancelJob, Active, ActiveStates
    <3> QED  BY <2>1, <3>1 DEF TypeOK
  <2>2. CASE state[k] # "queued"
    BY <1>1, <2>2 DEF CancelJob, CancelRunning
  <2> QED  BY <2>1, <2>2
<1>2. ASSUME NEW t \in Jobs, Claimed(t), NEW v, NEW r, MarkTerminal(t, v, r)
      PROVE state'[j] = state[j]
  <2>1. claim[t] \in Jobs /\ state[claim[t]] = "running"
    BY <1>2 DEF ClaimsHold, Holding
  <2>2. state' = [state EXCEPT ![claim[t]] = v]
    BY <1>2, <2>1, SettleEffect DEF MarkTerminal
  <2> QED  BY <2>1, <2>2 DEF TypeOK
<1>3. ASSUME NEW t \in Jobs, Claim(t) PROVE state'[j] = state[j]
  <2>1. home[t] \in Sessions /\ pending[home[t]] # <<>>
        /\ state' = [state EXCEPT ![Head(pending[home[t]])] = "running"]
    BY <1>3 DEF Claim, ThreadsServe, Live, TypeOK
  <2>2. Head(pending[home[t]]) \in Waiting(pending[home[t]])
    BY <2>1, TailOfLine DEF TypeOK, QueuesMatchStates
  <2>3. state[Head(pending[home[t]])] = "queued"
    BY <2>1, <2>2 DEF QueuesMatchStates
  <2> QED  BY <2>1, <2>3 DEF TypeOK
<1>4. ASSUME NEW t \in Jobs, WorkerStep(t) PROVE state'[j] = state[j]
  <2>1. CASE Succeed(t) \/ Fail(t)
    BY <1>2, <2>1 DEF Succeed, Fail, Claimed
  <2>2. CASE Claim(t)
    BY <1>3, <2>2
  <2>3. CASE ~(Succeed(t) \/ Fail(t) \/ Claim(t))
    <3>1. state' = state
      BY <1>4, <2>3 DEF WorkerStep, Retire, CloneConnection, CloneFails, SetInterrupt,
           StartRows, Publish, RunCount, StatementFails, Judge, CleanupTmp
    <3> QED  BY <3>1
  <2> QED  BY <2>1, <2>2, <2>3
<1>5. ASSUME NEW k \in Jobs, NEW s \in Sessions, Execute(k, s) PROVE state'[j] = state[j]
  BY <1>5 DEF Execute, TypeOK
<1>6. ASSUME Request PROVE state'[j] = state[j]
  BY <1>1, <1>5, <1>6 DEF Request, OpenSession, CloseBegin, CloseEnd, Cancel,
       CloseCancelOne, Release, ReleaseAll
<1> QED  BY <1>4, <1>6 DEF Next

\* Whatever raced for it, an execution keeps the terminal state it reached.
THEOREM TerminalStatesAreFinal == Spec => TerminalIsFinal
<1>1. IInv /\ [Next]_vars => [\A j \in Jobs : Terminal(j) => state'[j] = state[j]]_vars
  BY SettlesOnlyActive
<1> QED  BY <1>1, InductiveInvariant, PTL DEF Spec, TerminalIsFinal

--------------------------------------------------------------------------------
(* What `result.get_page` may serve.                                       *)

\* A thread that holds a published result in `outcome` finds its pages on disk.
ResultsInv ==
    /\ ResultsAreReadable
    /\ \A t \in Jobs : Claimed(t) /\ t \in produced => claim[t] \in final

\* No two threads hold the same execution.
LEMMA ClaimsDiffer ==
    ASSUME IInv, NEW t \in Jobs, NEW u \in Jobs, Claimed(t), Claimed(u), claim[t] = claim[u]
    PROVE  t = u
BY DEF IInv, ClaimsHold, Holding, ThreadsServe, Claimed, Live

\* Requests only take results away, with their pages, and touch no execution that runs.
LEMMA RequestKeepsResults ==
    ASSUME IInv, ResultsInv, Request
    PROVE  ResultsInv'
<1> USE DEF IInv, ResultsInv, registry, queues, disk, threads, dispatcher
<1>1. ASSUME NEW s \in Sessions, OpenSession(s) \/ CloseBegin(s) \/ CloseEnd(s)
      PROVE  ResultsInv'
  BY <1>1 DEF OpenSession, CloseBegin, CloseEnd, ResultsAreReadable, Claimed
<1>2. ASSUME NEW j \in Jobs, NEW s \in Sessions, Execute(j, s) PROVE ResultsInv'
  <2>1. j \notin results /\ state' = [state EXCEPT ![j] = "queued"]
    BY <1>2 DEF Execute, ResultsAreReadable
  <2>2. \A t \in Jobs : Claimed(t)' => Claimed(t)
    BY <1>2 DEF Execute, Claimed, TypeOK
  <2> QED  BY <1>2, <2>1, <2>2 DEF Execute, ResultsAreReadable, TypeOK
<1>3. ASSUME NEW j \in Jobs, Cancel(j) \/ CloseCancelOne(j) PROVE ResultsInv'
  <2>1. CancelJob(j) /\ UNCHANGED <<results, final, produced, pc, claim>>
    BY <1>3 DEF Cancel, CloseCancelOne
  <2>2. CASE state[j] = "queued"
    <3>1. state' = [state EXCEPT ![j] = "cancelled"]
      BY <2>1, <2>2, SettleEffect DEF CancelJob, Active, ActiveStates
    <3> QED  BY <2>1, <2>2, <3>1 DEF ResultsAreReadable, Claimed, TypeOK
  <2>3. CASE state[j] # "queued"
    BY <2>1, <2>3 DEF CancelJob, CancelRunning, ResultsAreReadable, Claimed
  <2> QED  BY <2>2, <2>3
<1>4. ASSUME \/ ReleaseAll
             \/ \E j \in Jobs : Release(j)
      PROVE  ResultsInv'
  <2>1. \A t \in Jobs : Claimed(t) => claim[t] \notin results
    BY DEF ClaimsHold, Holding, ResultsAreReadable
  <2> QED  BY <1>4, <2>1 DEF Release, ReleaseAll, ResultsAreReadable, Claimed
<1> QED  BY <1>1, <1>2, <1>3, <1>4 DEF Request

\* A worker enters a result only for the execution it succeeds with, and its next
\* statement discards only what it published itself.
LEMMA WorkerKeepsResults ==
    ASSUME IInv, ResultsInv, NEW t \in Jobs, WorkerStep(t)
    PROVE  ResultsInv'
<1> USE DEF IInv, ResultsInv, registry, queues, disk, threads, dispatcher
<1>1. CASE Claim(t)
  <2>1. home[t] \in Sessions /\ pending[home[t]] # <<>>
    BY <1>1 DEF Claim, ThreadsServe, Live, TypeOK
  <2>2. PICK j \in Jobs : /\ state[j] = "queued"
                          /\ state' = [state EXCEPT ![j] = "running"]
                          /\ claim' = [claim EXCEPT ![t] = j]
    BY <1>1, <2>1, TailOfLine DEF Claim, TypeOK, QueuesMatchStates
  <2>3. pc' = [pc EXCEPT ![t] = "clone"] /\ produced' = produced \ {t} /\ UNCHANGED <<results, final>>
    BY <1>1 DEF Claim
  <2> QED  BY <2>2, <2>3 DEF ResultsAreReadable, Claimed, TypeOK
<1>2. CASE Succeed(t) \/ Fail(t)
  <2>1. PICK v, published : /\ MarkTerminal(t, v, published)
                            /\ published # {} => v = "succeeded" /\ claim[t] \in final
                            /\ published \subseteq {claim[t]}
                            /\ Claimed(t)
    BY <1>2 DEF Succeed, Fail, Claimed
  <2>2. claim[t] \in Jobs /\ state[claim[t]] = "running"
    BY <2>1 DEF ClaimsHold, Holding
  <2>3. state' = [state EXCEPT ![claim[t]] = v]
    BY <2>1, <2>2, SettleEffect DEF MarkTerminal
  <2>4. /\ results' = results \cup published /\ final' = final /\ produced' = produced
        /\ pc' = [pc EXCEPT ![t] = "loop"] /\ claim' = [claim EXCEPT ![t] = NoJob]
    BY <2>1 DEF MarkTerminal
  <2>5. ResultsAreReadable'
    BY <2>1, <2>2, <2>3, <2>4 DEF ResultsAreReadable, TypeOK
  <2>6. \A u \in Jobs : Claimed(u)' => Claimed(u) /\ claim'[u] = claim[u]
    BY <2>4 DEF Claimed, TypeOK
  <2> QED  BY <2>4, <2>5, <2>6
<1>3. CASE StartRows(t)
  <2>1. /\ final' = (IF t \in produced THEN final \ {claim[t]} ELSE final)
        /\ produced' = produced \ {t} /\ Claimed(t) /\ pc' = [pc EXCEPT ![t] = "streaming"]
        /\ UNCHANGED <<state, results, claim>>
    BY <1>3 DEF StartRows, Claimed
  <2>2. claim[t] \notin results
    BY <2>1 DEF ClaimsHold, Holding, ResultsAreReadable
  <2>3. \A u \in Jobs : Claimed(u)' <=> Claimed(u)
    BY <2>1 DEF Claimed, TypeOK
  <2>4. \A u \in Jobs \ {t} : Claimed(u) => claim[u] # claim[t]
    BY <2>1, ClaimsDiffer
  <2> QED  BY <2>1, <2>2, <2>3, <2>4 DEF ResultsAreReadable
<1>4. CASE Publish(t)
  <2>1. /\ final' = final \cup {claim[t]} /\ produced' = produced \cup {t}
        /\ Claimed(t) /\ pc' = [pc EXCEPT ![t] = "between"]
        /\ UNCHANGED <<state, results, claim>>
    BY <1>4 DEF Publish, Claimed
  <2>2. \A u \in Jobs : Claimed(u)' <=> Claimed(u)
    BY <2>1 DEF Claimed, TypeOK
  <2> QED  BY <2>1, <2>2 DEF ResultsAreReadable
<1>5. CASE ~(Claim(t) \/ Succeed(t) \/ Fail(t) \/ StartRows(t) \/ Publish(t))
  <2>1. UNCHANGED <<state, results, claim, produced, final>>
    BY <1>5 DEF WorkerStep, Retire, CloneConnection, CloneFails, SetInterrupt, RunCount,
       StatementFails, Judge, CleanupTmp
  <2>2. \A u \in Jobs : Claimed(u)' => Claimed(u)
    BY <1>5 DEF WorkerStep, Retire, CloneConnection, CloneFails, SetInterrupt, RunCount,
       StatementFails, Judge, CleanupTmp, Claimed, TypeOK
  <2> QED  BY <2>1, <2>2 DEF ResultsAreReadable
<1> QED  BY <1>1, <1>2, <1>3, <1>4, <1>5

LEMMA NextKeepsResults == IInv /\ ResultsInv /\ [Next]_vars => ResultsInv'
<1>1. IInv /\ ResultsInv /\ UNCHANGED vars => ResultsInv'
  BY DEF ResultsInv, ResultsAreReadable, Claimed, vars, registry, disk, threads
<1> QED  BY <1>1, RequestKeepsResults, WorkerKeepsResults DEF Next

\* Whatever is released, cancelled or run again meanwhile, a result that can be asked
\* for is one of a succeeded execution whose pages are on disk (jobs.rs, result.rs).
THEOREM ServedResultsAreReadable == Spec => []ResultsAreReadable
<1>1. Init => ResultsInv
  BY DEF Init, ResultsInv, ResultsAreReadable, Claimed
<1>2. ResultsInv => ResultsAreReadable
  BY DEF ResultsInv
<1> QED  BY <1>1, <1>2, NextKeepsResults, InductiveInvariant, PTL DEF Spec

--------------------------------------------------------------------------------
(* The queue implements the serial execution service.                      *)

LEMMA InitServes == Init => Service!Init
BY DEF Init, Service!Init

\* Cancelling is a withdrawal when the execution is queued and a stutter otherwise.
LEMMA CancelServes ==
    ASSUME IInv, NEW j \in Jobs, CancelJob(j), UNCHANGED running
    PROVE  [Service!Next]_Service!vars
<1> USE DEF IInv
<1>1. CASE state[j] = "queued"
  <2>1. Settle(j, "cancelled") /\ pending' = [pending EXCEPT ![owner[j]] = Without(@, j)]
    BY <1>1 DEF CancelJob, Active, ActiveStates
  <2>2. state' = [state EXCEPT ![j] = "cancelled"]
    BY <2>1, SettleEffect
  <2>3. owner[j] \in Sessions /\ j \in Waiting(pending[owner[j]])
    BY <1>1 DEF Admitted, QueuesMatchStates
  <2>4. Service!Withdraw(j, owner[j])
    BY <1>1, <2>1, <2>2, <2>3
       DEF Service!Withdraw, Service!Without, Service!Waiting, Without, Waiting
  <2> QED  BY <2>3, <2>4 DEF Service!Next
<1>2. CASE state[j] # "queued"
  BY <1>2 DEF CancelJob, CancelRunning, Service!vars
<1> QED  BY <1>1, <1>2

LEMMA MarkTerminalServes ==
    ASSUME IInv, NEW t \in Jobs, Claimed(t), NEW v \in TerminalStates, NEW r,
           MarkTerminal(t, v, r)
    PROVE  Service!Next
<1> USE DEF IInv
<1>1. /\ claim[t] \in Jobs /\ running[home[t]] = claim[t] /\ owner[claim[t]] = home[t]
      /\ state[claim[t]] = "running"
  BY DEF ClaimsHold, Holding
<1>2. home[t] \in Sessions
  BY <1>1 DEF Admitted
<1>3. state' = [state EXCEPT ![claim[t]] = v]
  BY <1>1, SettleEffect DEF MarkTerminal
<1>4. running' = [running EXCEPT ![home[t]] = NoJob] /\ pending' = pending
  BY <1>1 DEF MarkTerminal
<1>5. Service!Finish(home[t], v)
  BY <1>1, <1>3, <1>4, JobsAssumption DEF Service!Finish
<1> QED  BY <1>2, <1>5 DEF Service!Next, Service!Outcomes, TerminalStates

LEMMA ClaimServes ==
    ASSUME IInv, NEW t \in Jobs, Claim(t)
    PROVE  Service!Next
<1>1. home[t] \in Sessions /\ running[home[t]] = NoJob
  BY DEF IInv, Claim, ThreadsServe, ClaimsHold, Live, TypeOK
<1>2. Service!Start(home[t])
  BY <1>1 DEF Claim, Service!Start
<1> QED  BY <1>1, <1>2 DEF Service!Next

LEMMA StepServes ==
    ASSUME IInv, [Next]_vars
    PROVE  [Service!Next]_Service!vars
<1> USE DEF registry, queues, threads, dispatcher
<1>1. CASE UNCHANGED vars
  BY <1>1 DEF vars, Service!vars
<1>2. ASSUME NEW j \in Jobs, NEW s \in Sessions, Execute(j, s)
      PROVE  [Service!Next]_Service!vars
  <2>1. Service!Submit(j, s)
    BY <1>2 DEF Execute, Enqueued, Service!Submit
  <2> QED  BY <2>1 DEF Service!Next
<1>3. ASSUME NEW j \in Jobs, Cancel(j) \/ CloseCancelOne(j)
      PROVE  [Service!Next]_Service!vars
  BY <1>3, CancelServes DEF Cancel, CloseCancelOne
<1>4. ASSUME NEW t \in Jobs, WorkerStep(t)
      PROVE  [Service!Next]_Service!vars
  <2>1. CASE Claim(t)
    BY <2>1, ClaimServes
  <2>2. CASE Succeed(t)
    BY <2>2, MarkTerminalServes DEF Succeed, Claimed, TerminalStates
  <2>3. CASE Fail(t)
    <3>1. Claimed(t) /\ verdict[t] \in TerminalStates
      BY <2>3 DEF Fail, Claimed, IInv, ClaimsHold
    <3> QED  BY <2>3, <3>1, MarkTerminalServes DEF Fail
  <2>4. CASE ~(Claim(t) \/ Succeed(t) \/ Fail(t))
    <3>1. UNCHANGED <<state, pending, running>>
      BY <1>4, <2>4 DEF WorkerStep, Retire, CloneConnection, CloneFails, SetInterrupt,
           StartRows, Publish, RunCount, StatementFails, Judge, CleanupTmp
    <3> QED  BY <3>1 DEF Service!vars
  <2> QED  BY <2>1, <2>2, <2>3, <2>4
<1>5. CASE \/ \E s \in Sessions : OpenSession(s) \/ CloseBegin(s) \/ CloseEnd(s)
           \/ \E j \in Jobs : Release(j)
           \/ ReleaseAll
  BY <1>5 DEF OpenSession, CloseBegin, CloseEnd, Release, ReleaseAll, Service!vars
<1> QED  BY <1>1, <1>2, <1>3, <1>4, <1>5 DEF Next, Request

\* jobs.rs, for every number of executions and sessions, is a FIFO service that
\* runs one execution per session and never changes an outcome.
THEOREM JobsImplementService == Spec => ImplementsService
<1>1. Init => Service!Init
  BY InitServes
<1>2. IInv /\ [Next]_vars => [Service!Next]_Service!vars
  BY StepServes
<1> QED  BY <1>1, <1>2, InductiveInvariant, PTL DEF Spec, ImplementsService, Service!Spec
================================================================================
