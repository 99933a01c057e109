------------------------------ MODULE EngineProofs ------------------------------
(***************************************************************************)
(* Theorems about the other jobs of the DuckDB sidecar, for every set of   *)
(* exports, imports, profiles and sessions, every budget and every limit:  *)
(* the imports and profiles of EngineWork, which implement the sharing     *)
(* rule of SessionSharing, and the exports of EngineExports.               *)
(***************************************************************************)
EXTENDS MCEngine, EngineJobsProofs

--------------------------------------------------------------------------------
(* Imports and profiles.                                                   *)

\* What the dispatch loop and the threads know of a work's record, its thread and the
\* outcome it is about to record.
WorkTypes ==
    /\ workState \in [Work!Works -> {"absent"} \cup Work!ActiveStates \cup Work!TerminalStates]
    /\ workOwner \in [Work!Works -> WorkSessions \cup {NoSession}]
    /\ workPc \in [Work!Threads -> Work!Points]
    /\ workVerdict \in [Work!Threads -> Work!TerminalStates \cup {Work!NoVerdict}]
    /\ order \in [{Imports, Profiles} -> Seq(Work!Threads)]
    /\ tables \subseteq Imports

\* A work that was submitted and is over: it never becomes active again.
Over(w) == workOwner[w] # NoSession /\ ~Work!Active(w)

\* Only what is over is listed as finished, or about to be.
ListedAreOver ==
    /\ \A k \in {Imports, Profiles} : \A n \in DOMAIN order[k] : Over(order[k][n])
    /\ \A w \in toRemember : w \in Work!Threads /\ Over(w)
    /\ \A w \in Work!Threads : workPc[w] = "remember" => Over(w)

\* Before the transaction, in it, and between it and the record.
Before == {"claim", "check", "create", "count", "commit", "rollback", "judge"}
PastClaim == (Before \ {"claim"}) \cup {"mark"}

\* An import's record, its thread, what its thread is about to record, and the
\* database.
ImportKnows(i) ==
    /\ workState[i] = "queued" => workPc[i] = "claim"
    /\ workPc[i] \in PastClaim => workState[i] \in {"running", "absent"}
    /\ workPc[i] \in Before => i \notin tables
    /\ workPc[i] = "mark" /\ workVerdict[i] = "succeeded" => i \in tables
    /\ workPc[i] = "mark" /\ workVerdict[i] \in {"failed", "cancelled"} => i \notin tables
    /\ workState[i] = "succeeded" => i \in tables
    /\ workState[i] \in {"failed", "cancelled"} => i \notin tables
    /\ workOwner[i] = NoSession => i \notin tables

\* What a thread is about to record is an outcome.
MarksOutcome == \A w \in Work!Threads :
    workPc[w] = "mark" => workVerdict[w] \in Work!TerminalStates

Unsubmitted(w) ==
    workOwner[w] = NoSession =>
        workState[w] = "absent" /\ (w \in Work!Threads => workPc[w] = "none")

WorkInv ==
    /\ WorkTypes
    /\ \A w \in Work!Works : Unsubmitted(w)
    /\ ListedAreOver
    /\ MarksOutcome
    /\ \A i \in Imports : ImportKnows(i)

\* The work admitted to a session and not yet over, as SessionSharing sees it.
At == [s \in WorkSessions |-> {w \in Work!Works : workOwner[w] = s /\ Work!Active(w)}]

\* A step that moves no work in or out of a session, moves one in, or moves one out.
Entered(s, w) ==
    /\ w \in Work!Works
    /\ w \in Work!Threads => At[s] = {}
    /\ At[s] \cap Work!Threads = {}
    /\ At' = [At EXCEPT ![s] = @ \cup {w}]
Left(s, w) == w \in At[s] /\ At' = [At EXCEPT ![s] = @ \ {w}]
Shares ==
    \/ At' = At
    \/ \E s \in WorkSessions, w \in Work!Works : Entered(s, w) \/ Left(s, w)

LEMMA SharesIsSharing == Shares => [Work!Sharing!Next]_At
<1> SUFFICES ASSUME Shares, At' # At PROVE Work!Sharing!Next
  OBVIOUS
<1>1. PICK s \in WorkSessions, w \in Work!Works : Entered(s, w) \/ Left(s, w)
  BY DEF Shares
<1>2. At \in [WorkSessions -> SUBSET Work!Works]
  BY DEF At
<1>3. CASE Entered(s, w)
  <2>1. Work!Sharing!Enter(s, w)
    BY <1>3 DEF Work!Sharing!Enter, Entered, At
  <2>2. w \in At'[s] \ At[s]
    BY <1>2, <1>3 DEF Entered
  <2>3. w \in Work!Threads \cup Others
    BY DEF Work!Works
  <2> QED  BY <2>1, <2>2, <2>3 DEF Work!Sharing!Next, At
<1>4. CASE Left(s, w)
  <2>1. Work!Sharing!Leave(s, w)
    BY <1>4 DEF Work!Sharing!Leave, Left, At
  <2>2. w \in At[s] \ At'[s]
    BY <1>2, <1>4 DEF Left
  <2> QED  BY <2>1, <2>2 DEF Work!Sharing!Next, At
<1> QED  BY <1>1, <1>3, <1>4

LEMMA WorkSets ==
    /\ Imports \subseteq Work!Threads /\ Profiles \subseteq Work!Threads
    /\ Work!Threads \subseteq Work!Works /\ Others \subseteq Work!Works
    /\ Work!Works = Imports \cup Profiles \cup Others
    /\ NoSession \notin WorkSessions
    /\ Others \cap Work!Threads = {} /\ Imports \cap Profiles = {}
BY WorkConstants DEF Work!Threads, Work!Works

LEMMA WorkInitInv == Work!Init => WorkInv /\ Work!Sharing!Init
<1> SUFFICES ASSUME Work!Init PROVE WorkInv /\ Work!Sharing!Init
  OBVIOUS
<1>1. WorkTypes
  BY WorkSets DEF Work!Init, WorkTypes, Work!Points, Work!NoVerdict
<1>2. WorkInv
  BY <1>1, WorkSets DEF Work!Init, WorkInv, Unsubmitted, ListedAreOver, MarksOutcome, ImportKnows, PastClaim, Before
<1>3. Work!Sharing!Init
  BY WorkSets DEF Work!Init, Work!Sharing!Init, Work!Active, Work!ActiveStates
<1> QED  BY <1>2, <1>3

\* A step that leaves records, threads, the database and the history alone.
LEMMA WorkFrame ==
    ASSUME WorkInv, UNCHANGED <<workState, workOwner, workPc, workVerdict, tables, order, toRemember>>
    PROVE  WorkInv' /\ Shares
<1>1. WorkInv'
  BY DEF WorkInv, WorkTypes, Unsubmitted, ListedAreOver, MarksOutcome, ImportKnows, Over, Work!Active
<1>2. At' = At
  BY DEF At, Work!Active
<1> QED  BY <1>1, <1>2 DEF Shares

\* A step of one submitted work: its record, its thread and its table.
LEMMA WorkSteps ==
    ASSUME WorkInv, WorkTypes', NEW w \in Work!Works, workOwner[w] # NoSession,
           \A v \in Work!Works \ {w} : workState'[v] = workState[v],
           \A v \in Work!Threads \ {w} : workPc'[v] = workPc[v] /\ workVerdict'[v] = workVerdict[v],
           \A v \in Imports \ {w} : v \in tables' <=> v \in tables,
           UNCHANGED <<workOwner, order>>,
           Work!Active(w)' => Work!Active(w),
           toRemember' \subseteq toRemember \cup {w},
           w \in toRemember' => w \in Work!Threads /\ ~Work!Active(w)',
           w \in Work!Threads /\ workPc'[w] = "remember" => ~Work!Active(w)',
           w \in Work!Threads /\ workPc'[w] = "mark" => workVerdict'[w] \in Work!TerminalStates,
           w \in Imports => ImportKnows(w)'
    PROVE  WorkInv' /\ Shares
<1> USE DEF WorkInv
<1>1. \A v \in Work!Works : Over(v) => Over(v)'
  BY DEF Over, Work!Active
<1>2. \A v \in Work!Works : Unsubmitted(v)'
  BY DEF Unsubmitted
<1>3. ListedAreOver'
  <2>1. \A k \in {Imports, Profiles} : \A n \in DOMAIN order[k] : order[k][n] \in Work!Threads
    BY DEF WorkTypes
  <2>2. \A k \in {Imports, Profiles} : \A n \in DOMAIN order[k] : Over(order[k][n])'
    BY <1>1, <2>1, WorkSets DEF ListedAreOver
  <2>3. \A v \in toRemember' : v \in Work!Threads /\ Over(v)'
    BY <1>1, WorkSets DEF ListedAreOver, Over
  <2>4. \A v \in Work!Threads : workPc'[v] = "remember" => Over(v)'
    BY <1>1, WorkSets DEF ListedAreOver, Over
  <2> QED  BY <2>2, <2>3, <2>4 DEF ListedAreOver, Over, Work!Active
<1>4. \A i \in Imports : ImportKnows(i)'
  <2> SUFFICES ASSUME NEW i \in Imports, i # w PROVE ImportKnows(i)'
    OBVIOUS
  <2>1. ImportKnows(i)
    OBVIOUS
  <2> QED  BY <2>1, WorkSets DEF ImportKnows
<1>5. Shares
  <2>1. workOwner[w] \in WorkSessions
    BY DEF WorkTypes
  <2>2. CASE Work!Active(w) <=> Work!Active(w)'
    <3>1. At' = At
      BY <2>2 DEF At, Work!Active
    <3> QED  BY <3>1 DEF Shares
  <2>3. CASE Work!Active(w) /\ ~Work!Active(w)'
    <3>1. Left(workOwner[w], w)
      BY <2>1, <2>3 DEF At, Left, Work!Active
    <3> QED  BY <2>1, <3>1 DEF Shares
  <2> QED  BY <2>2, <2>3
<1>6. MarksOutcome'
  BY DEF MarksOutcome
<1> QED  BY <1>2, <1>3, <1>4, <1>5, <1>6

\* What a thread or an active record stands for was submitted.
LEMMA WorkSubmitted ==
    ASSUME WorkInv, NEW w \in Work!Works
    PROVE  /\ w \in Work!Threads /\ workPc[w] # "none" => workOwner[w] # NoSession
           /\ workState[w] # "absent" => workOwner[w] # NoSession
BY DEF WorkInv, Unsubmitted

\* A submission: the gates leave an import or a profile alone in its session, and a
\* query or an export with none of them.
LEMMA WorkAdmitted ==
    ASSUME WorkInv, NEW w \in Work!Works, NEW s \in WorkSessions, Work!Admit(w, s),
           w \in Work!Threads => Work!Unshared(s),
           Work!MayShare(s),
           IF w \in Work!Threads THEN workPc' = [workPc EXCEPT ![w] = "claim"] ELSE workPc' = workPc,
           UNCHANGED <<workVerdict, tables, order, toRemember>>
    PROVE  WorkInv' /\ Shares
<1> USE DEF WorkInv
<1>1. /\ workOwner[w] = NoSession /\ workOwner' = [workOwner EXCEPT ![w] = s]
      /\ workState' = [workState EXCEPT ![w] = "queued"]
      /\ w \in Work!Threads => workPc[w] = "none"
      /\ workState[w] = "absent"
  BY DEF Work!Admit, Unsubmitted
<1>2. WorkTypes'
  BY <1>1 DEF WorkTypes, Work!ActiveStates, Work!Points
<1>3. \A v \in Work!Works : Unsubmitted(v)'
  BY <1>1, WorkSets DEF Unsubmitted, WorkTypes
<1>4. \A v \in Work!Works : v # w => workState'[v] = workState[v] /\ workOwner'[v] = workOwner[v]
  BY <1>1 DEF WorkTypes
<1>5. ListedAreOver'
  <2>1. \A k \in {Imports, Profiles} : \A n \in DOMAIN order[k] : order[k][n] \in Work!Threads
    BY DEF WorkTypes
  <2>2. \A v \in Work!Works : Over(v) => v # w
    BY <1>1 DEF Over
  <2>3. \A v \in Work!Works : Over(v) => Over(v)'
    BY <1>4, <2>2 DEF Over, Work!Active
  <2>4. \A k \in {Imports, Profiles} : \A n \in DOMAIN order[k] : Over(order[k][n])'
    BY <2>1, <2>3, WorkSets DEF ListedAreOver
  <2>5. \A v \in toRemember : v \in Work!Threads /\ Over(v)'
    BY <2>3, WorkSets DEF ListedAreOver
  <2>6. \A v \in Work!Threads : workPc'[v] = "remember" => Over(v)'
    BY <2>3, WorkSets DEF ListedAreOver, WorkTypes
  <2> QED  BY <2>4, <2>5, <2>6 DEF ListedAreOver, Over, Work!Active
<1>6. \A i \in Imports : ImportKnows(i)'
  <2> SUFFICES ASSUME NEW i \in Imports PROVE ImportKnows(i)'
    OBVIOUS
  <2>1. i \in Work!Threads /\ i \in Work!Works
    BY WorkSets
  <2>2. CASE i = w
    BY <1>1, <2>1, <2>2 DEF ImportKnows, WorkTypes, PastClaim, Before
  <2>3. CASE i # w
    BY <1>1, <1>4, <2>1, <2>3 DEF ImportKnows, WorkTypes
  <2> QED  BY <2>2, <2>3
<1>7. Entered(s, w)
  <2>1. At[s] \cap Work!Threads = {}
    BY WorkSets DEF At, Work!MayShare, Work!NoImport, Work!ActiveIn, Work!Threads
  <2>2. w \in Work!Threads => At[s] = {}
    BY WorkSets DEF At, Work!Unshared, Work!NoImport, Work!ActiveIn
  <2>3. \A r \in WorkSessions : {v \in Work!Works : workOwner'[v] = r /\ Work!Active(v)'} =
            IF r = s THEN At[s] \cup {w} ELSE At[r]
    BY <1>1, <1>4, WorkSets DEF At, Work!Active, Work!ActiveStates, WorkTypes
  <2>4. At' = [At EXCEPT ![s] = @ \cup {w}]
    BY <2>3 DEF At
  <2> QED  BY <2>1, <2>2, <2>4 DEF Entered
<1>8. MarksOutcome'
  BY DEF MarksOutcome, WorkTypes
<1> QED  BY <1>2, <1>3, <1>5, <1>6, <1>7, <1>8 DEF Shares

\* remember_terminal drops only records that are over.
LEMMA WorkRemembers ==
    ASSUME WorkInv, NEW w \in Work!Threads, Over(w), Work!Remember(w),
           \/ UNCHANGED <<workPc, workVerdict>>
           \/ \E p \in {"leave", "none"} : /\ workPc' = [workPc EXCEPT ![w] = p]
                                           /\ workVerdict' = [workVerdict EXCEPT ![w] = Work!NoVerdict],
           toRemember' \subseteq toRemember, UNCHANGED <<workOwner, tables>>
    PROVE  WorkInv' /\ Shares
<1> USE DEF WorkInv
<1> DEFINE k == Work!Kind(w)
           line == IF \E n \in DOMAIN order[k] : order[k][n] = w THEN order[k] ELSE Append(order[k], w)
           cut == Work!Beyond(line)
           left == SubSeq(line, cut + 1, Len(line))
<1>1. k \in {Imports, Profiles}
  BY DEF Work!Kind
<1>2. order[k] \in Seq(Work!Threads) /\ \A n \in DOMAIN order[k] : Over(order[k][n])
  BY <1>1 DEF WorkTypes, ListedAreOver
<1>3. line \in Seq(Work!Threads) /\ \A n \in 1..Len(line) : Over(line[n])
  BY <1>2
<1>4. order' = [order EXCEPT ![k] = left]
      /\ workState' = [v \in Work!Works |-> IF \E n \in 1..cut : line[n] = v THEN "absent" ELSE workState[v]]
  BY DEF Work!Remember
<1> HIDE DEF line
<1>5. cut \in Nat /\ cut <= Len(line)
  BY <1>3, WorkConstants DEF Work!Beyond
<1> HIDE DEF cut, k
<1>6. left \in Seq(Work!Threads) /\ \A n \in 1..Len(left) : \E m \in 1..Len(line) : left[n] = line[m]
  BY <1>3, <1>5
<1> HIDE DEF left
<1>7. \A v \in Work!Works : /\ workState'[v] = workState[v] \/ (workState'[v] = "absent" /\ Over(v))
                            /\ Over(v) => Over(v)'
  <2> SUFFICES ASSUME NEW v \in Work!Works
               PROVE  /\ workState'[v] = workState[v] \/ (workState'[v] = "absent" /\ Over(v))
                      /\ Over(v) => Over(v)'
    OBVIOUS
  <2>1. workState'[v] = workState[v] \/ (workState'[v] = "absent" /\ Over(v))
    BY <1>3, <1>4, <1>5
  <2> QED  BY <2>1 DEF Over, Work!Active, Work!ActiveStates
<1>8. WorkTypes'
  <2>1. workState' \in [Work!Works -> {"absent"} \cup Work!ActiveStates \cup Work!TerminalStates]
    BY <1>4 DEF WorkTypes
  <2>2. order' \in [{Imports, Profiles} -> Seq(Work!Threads)]
    BY <1>1, <1>4, <1>6 DEF WorkTypes
  <2>3. workPc' \in [Work!Threads -> Work!Points] /\ workVerdict' \in [Work!Threads -> Work!TerminalStates \cup {Work!NoVerdict}]
    BY DEF WorkTypes, Work!Points
  <2> QED  BY <2>1, <2>2, <2>3 DEF WorkTypes
<1>9. \A v \in Work!Works : Unsubmitted(v)'
  BY <1>7 DEF Unsubmitted, Over, WorkTypes
<1>10. ListedAreOver'
  <2>1. \A l \in {Imports, Profiles} : order'[l] = IF l = k THEN left ELSE order[l]
    BY <1>4 DEF WorkTypes
  <2>2. \A l \in {Imports, Profiles} : \A n \in DOMAIN order'[l] :
            order'[l][n] \in Work!Works /\ workOwner'[order'[l][n]] # NoSession
            /\ workState'[order'[l][n]] \notin Work!ActiveStates
    <3> SUFFICES ASSUME NEW l \in {Imports, Profiles}, NEW n \in DOMAIN order'[l], NEW v, v = order'[l][n]
                 PROVE  v \in Work!Works /\ workOwner'[v] # NoSession /\ workState'[v] \notin Work!ActiveStates
      OBVIOUS
    <3>1. v \in Work!Threads /\ Over(v)
      <4>1. CASE l = k
        BY <1>3, <1>6, <2>1, <4>1
      <4>2. CASE l # k
        BY <2>1, <4>2 DEF WorkTypes, ListedAreOver
      <4> QED  BY <4>1, <4>2
    <3> QED  BY <1>7, <3>1, WorkSets DEF Over, Work!Active
  <2>3. \A v \in Work!Threads : workPc'[v] = "remember" => workPc[v] = "remember"
    BY DEF WorkTypes
  <2>4. \A v \in toRemember' : v \in Work!Threads /\ Over(v)'
    BY <1>7, WorkSets DEF ListedAreOver
  <2>5. \A v \in Work!Threads : workPc'[v] = "remember" => Over(v)'
    BY <1>7, <2>3, WorkSets DEF ListedAreOver
  <2> QED  BY <2>2, <2>4, <2>5 DEF ListedAreOver, Over, Work!Active
<1>11. \A i \in Imports : ImportKnows(i)'
  <2> SUFFICES ASSUME NEW i \in Imports PROVE ImportKnows(i)'
    OBVIOUS
  <2>1. /\ i \in Work!Threads /\ i \in Work!Works /\ ImportKnows(i)
        /\ workState'[i] = workState[i] \/ workState'[i] = "absent"
    BY <1>7, WorkSets
  <2>2. CASE i # w
    <3>1. workPc'[i] = workPc[i] /\ workVerdict'[i] = workVerdict[i]
      BY <2>1, <2>2 DEF WorkTypes
    <3> QED  BY <2>1, <3>1 DEF ImportKnows
  <2>3. CASE i = w
    <3>1. \/ workPc'[i] = workPc[i] /\ workVerdict'[i] = workVerdict[i]
          \/ workPc'[i] \in {"leave", "none"}
      BY <2>1, <2>3 DEF WorkTypes
    <3>2. workState'[i] # "queued"
      BY <1>7, <2>1, <2>3 DEF Over, Work!Active, Work!ActiveStates
    <3> QED  BY <2>1, <3>1, <3>2 DEF ImportKnows, PastClaim, Before, Work!NoVerdict
  <2> QED  BY <2>2, <2>3
<1>12. At' = At
  <2>1. \A v \in Work!Works : Work!Active(v)' <=> Work!Active(v)
    BY <1>7 DEF Over, Work!Active, Work!ActiveStates
  <2> QED  BY <2>1 DEF At
<1>13. MarksOutcome'
  BY DEF MarksOutcome, WorkTypes
<1> QED  BY <1>8, <1>9, <1>10, <1>11, <1>12, <1>13 DEF Shares


\* The cancellation of one work, by the dispatch loop.
LEMMA WorkCancels ==
    ASSUME WorkInv, NEW w \in Work!Works, Work!CancelWork(w), toRemember = {} \/ ~Work!Active(w),
           UNCHANGED <<workOwner, order, workPc, workVerdict, tables>>
    PROVE  WorkInv' /\ Shares
<1> USE DEF WorkInv
<1>1. CASE workState[w] = "queued" /\ workState' = [workState EXCEPT ![w] = "cancelled"]
           /\ ((toRemember' = {w} /\ w \in Work!Threads) \/ toRemember' = toRemember)
  <2>1. workOwner[w] # NoSession /\ Work!Active(w) /\ toRemember = {}
    BY <1>1, WorkSubmitted DEF Work!Active, Work!ActiveStates
  <2>2. WorkTypes' /\ ~Work!Active(w)'
    BY <1>1 DEF WorkTypes, Work!TerminalStates, Work!Active, Work!ActiveStates
  <2>4. ASSUME w \in Imports PROVE ImportKnows(w)'
    BY <1>1, <2>4, WorkSets DEF ImportKnows, PastClaim, Before, WorkTypes
  <2>5. toRemember' \subseteq toRemember \cup {w} /\ (w \in toRemember' => w \in Work!Threads)
    BY <1>1, <2>1
  <2>6. \A v \in Work!Works \ {w} : workState'[v] = workState[v]
    BY <1>1 DEF WorkTypes
  <2>7. w \in Work!Threads => workPc[w] # "remember" /\ (workPc[w] = "mark" => workVerdict[w] \in Work!TerminalStates)
    BY <2>1 DEF ListedAreOver, MarksOutcome, Over
  <2> QED  BY <2>1, <2>2, <2>4, <2>5, <2>6, <2>7, WorkSteps
<1>2. CASE UNCHANGED <<workState, toRemember>>
  BY <1>2, WorkFrame
<1>3. CASE w \in Others /\ workState' = [workState EXCEPT ![w] = IF @ = "queued" THEN "cancelled" ELSE @]
           /\ UNCHANGED toRemember
  <2>1. CASE workState[w] = "queued"
    BY <1>1, <1>3, <2>1
  <2>2. CASE workState[w] # "queued"
    BY <1>2, <1>3, <2>2 DEF WorkTypes
  <2> QED  BY <2>1, <2>2
<1> QED  BY <1>1, <1>2, <1>3, WorkSets DEF Work!CancelWork, Work!CancelImport, Work!CancelProfile, Work!CancelOther

LEMMA WorkRequests ==
    ASSUME WorkInv, Work!Request
    PROVE  WorkInv' /\ Shares
<1> USE DEF WorkInv
<1>1. ASSUME NEW s \in WorkSessions, Work!OpenSession(s) \/ Work!Configure(s) \/ Work!CloseBegin(s)
      PROVE  WorkInv' /\ Shares
  BY <1>1, WorkFrame DEF Work!OpenSession, Work!Configure, Work!CloseBegin, Work!records, Work!threads,
     Work!database, Work!dispatcher
<1>2. ASSUME NEW s \in WorkSessions, NEW i \in Imports, Work!ExecuteImport(i, s)
      PROVE  WorkInv' /\ Shares
  BY <1>2, WorkAdmitted, WorkSets
     DEF Work!ExecuteImport, Work!Spawned, Work!database, Work!dispatcher, Work!Unshared, Work!MayShare
<1>3. ASSUME NEW s \in WorkSessions, NEW p \in Profiles, Work!ExecuteProfile(p, s)
      PROVE  WorkInv' /\ Shares
  BY <1>3, WorkAdmitted, WorkSets
     DEF Work!ExecuteProfile, Work!ProfileMayStart, Work!Spawned, Work!database, Work!dispatcher, Work!Unshared,
         Work!MayShare
<1>4. ASSUME NEW s \in WorkSessions, NEW o \in Others, Work!ExecuteOther(o, s)
      PROVE  WorkInv' /\ Shares
  <2>1. o \in Work!Works /\ o \notin Work!Threads
    BY WorkSets
  <2> QED
    BY <1>4, <2>1, WorkAdmitted DEF Work!ExecuteOther, Work!threads, Work!database, Work!dispatcher
<1>5. ASSUME NEW w \in Work!Threads, Work!Cancel(w)
      PROVE  WorkInv' /\ Shares
  BY <1>5, WorkCancels, WorkSets DEF Work!Cancel, Work!DispatchIdle, Work!threads, Work!database
<1> QED  BY <1>1, <1>2, <1>3, <1>4, <1>5 DEF Work!Request

LEMMA WorkDispatches ==
    ASSUME WorkInv, Work!DispatchStep
    PROVE  WorkInv' /\ Shares
<1>1. ASSUME NEW s \in WorkSessions, Work!CloseRefused(s) \/ Work!ClosePasses(s) \/ Work!CloseEnds(s)
      PROVE  WorkInv' /\ Shares
  BY <1>1, WorkFrame DEF Work!CloseRefused, Work!ClosePasses, Work!CloseEnds, Work!records, Work!threads,
     Work!database
<1>2. ASSUME NEW w \in Work!Works, Work!CloseCancelOne(w)
      PROVE  WorkInv' /\ Shares
  BY <1>2, WorkCancels DEF Work!CloseCancelOne, Work!threads, Work!database
<1>3. ASSUME NEW w \in Work!Threads, Work!RememberCancelled(w)
      PROVE  WorkInv' /\ Shares
  <2>1. Over(w)
    BY <1>3 DEF WorkInv, ListedAreOver, Work!RememberCancelled
  <2> QED  BY <1>3, <2>1, WorkRemembers DEF Work!RememberCancelled, Work!threads, Work!database
<1> QED  BY <1>1, <1>2, <1>3 DEF Work!DispatchStep

\* The two points of an import's thread that touch the database, or its record.
LEMMA ImportThreads ==
    ASSUME WorkInv, NEW i \in Imports, Work!ImportThread(i)
    PROVE  WorkInv' /\ Shares
<1> USE DEF WorkInv
<1>0. i \in Work!Threads /\ i \in Work!Works /\ ImportKnows(i)
  BY WorkSets
<1>1. ASSUME NEW from \in {"check", "create", "count"}, NEW to \in {"create", "count", "commit", "rollback", "judge"},
             Work!ImportStep(i, from, to), UNCHANGED tables
      PROVE  WorkInv' /\ Shares
  <2>1. /\ workPc[i] = from /\ workPc' = [workPc EXCEPT ![i] = to]
        /\ UNCHANGED <<workState, workOwner, order, workVerdict, tables, toRemember>>
    BY <1>1 DEF Work!ImportStep, Work!Goto, Work!records, Work!dispatcher
  <2>2. WorkTypes'
    BY <1>0, <2>1 DEF WorkTypes, Work!Points, Work!ImportPoints
  <2>3. ImportKnows(i)'
    BY <1>0, <2>1 DEF ImportKnows, PastClaim, Before, WorkTypes
  <2>4. workOwner[i] # NoSession /\ workPc'[i] # "remember"
    BY <1>0, <2>1, WorkSubmitted DEF WorkTypes
  <2>5. \A v \in Work!Threads \ {i} : workPc'[v] = workPc[v]
    BY <2>1 DEF WorkTypes
  <2>6. i \in toRemember => ~Work!Active(i)'
    BY <2>1 DEF ListedAreOver, Over, Work!Active
  <2>7. Work!Active(i)' => Work!Active(i)
    BY <2>1 DEF Work!Active
  <2> QED  BY <1>0, <2>1, <2>2, <2>3, <2>4, <2>5, <2>6, <2>7, WorkSteps
<1>2. CASE Work!CheckSource(i) \/ Work!CreateTable(i) \/ Work!CountRows(i) \/ Work!Panics(i)
  BY <1>1, <1>2 DEF Work!CheckSource, Work!CreateTable, Work!CountRows, Work!Panics, Work!database
<1>3. CASE Work!Commit(i) \/ Work!Rollback(i)
  <2>1. /\ workPc[i] \in {"commit", "rollback"}
        /\ \E to \in {"mark", "judge"} : workPc' = [workPc EXCEPT ![i] = to]
        /\ workVerdict' = workVerdict
           \/ \E v \in {"succeeded", "recovery_required"} : workVerdict' = [workVerdict EXCEPT ![i] = v]
        /\ tables' \in {tables, tables \cup {i}}
        /\ workPc'[i] = "mark" => /\ workVerdict'[i] \in {"succeeded", "recovery_required"}
                                  /\ workVerdict'[i] = "succeeded" => i \in tables'
        /\ workPc'[i] = "judge" => tables' = tables
        /\ UNCHANGED <<workState, workOwner, order, toRemember>>
    BY <1>0, <1>3 DEF Work!Commit, Work!Rollback, Work!Decides, Work!Goto, Work!OnCommitError, Work!records,
       Work!dispatcher, WorkTypes
  <2>2. WorkTypes'
    BY <1>0, <2>1 DEF WorkTypes, Work!Points, Work!TerminalStates
  <2>3. workOwner[i] # NoSession /\ workPc'[i] \in {"mark", "judge"}
    BY <1>0, <2>1, WorkSubmitted DEF WorkTypes
  <2>4. ImportKnows(i)'
    BY <1>0, <2>1, <2>3 DEF ImportKnows, PastClaim, Before
  <2>5. /\ \A v \in Work!Threads \ {i} : workPc'[v] = workPc[v] /\ workVerdict'[v] = workVerdict[v]
        /\ \A v \in Imports \ {i} : v \in tables' <=> v \in tables
    BY <2>1 DEF WorkTypes
  <2>6. i \in toRemember => ~Work!Active(i)'
    BY <2>1 DEF ListedAreOver, Over, Work!Active
  <2>7. Work!Active(i)' => Work!Active(i)
    BY <2>1 DEF Work!Active
  <2>8. workPc'[i] = "mark" => workVerdict'[i] \in Work!TerminalStates
    BY <2>1 DEF Work!TerminalStates
  <2>9. UNCHANGED <<workState, workOwner, order, toRemember>>
    BY <2>1
  <2> QED  BY <1>0, <2>1, <2>2, <2>3, <2>4, <2>5, <2>6, <2>7, <2>8, <2>9, WorkSteps
<1>4. CASE Work!MarkImport(i)
  <2>1. /\ workPc[i] = "mark"
        /\ \/ /\ Work!Active(i) /\ workState' = [workState EXCEPT ![i] = workVerdict[i]]
              /\ workPc' = [workPc EXCEPT ![i] = "remember"]
           \/ /\ ~Work!Active(i) /\ workState' = workState
              /\ workPc' = [workPc EXCEPT ![i] = "leave"]
        /\ UNCHANGED <<workOwner, order, workVerdict, tables, toRemember>>
    BY <1>4 DEF Work!MarkImport, Work!Goto, Work!database, Work!dispatcher
  <2>2. workVerdict[i] \in Work!TerminalStates
    BY <1>0, <2>1 DEF MarksOutcome
  <2>3. WorkTypes'
    BY <1>0, <2>1, <2>2 DEF WorkTypes, Work!Points
  <2>4. workOwner[i] # NoSession /\ workPc'[i] \in {"remember", "leave"}
    BY <1>0, <2>1, WorkSubmitted DEF WorkTypes
  <2>5. ~Work!Active(i)'
    BY <1>0, <2>1, <2>2 DEF WorkTypes, Work!Active, Work!ActiveStates, Work!TerminalStates
  <2>6. ImportKnows(i)'
    BY <1>0, <2>1, <2>2, <2>4, <2>5 DEF ImportKnows, PastClaim, Before, WorkTypes, Work!Active, Work!ActiveStates
  <2>7. /\ \A v \in Work!Threads \ {i} : workPc'[v] = workPc[v]
        /\ \A v \in Work!Works \ {i} : workState'[v] = workState[v]
    BY <2>1 DEF WorkTypes
  <2> QED  BY <1>0, <2>1, <2>3, <2>4, <2>5, <2>6, <2>7, WorkSteps
<1> QED  BY <1>2, <1>3, <1>4 DEF Work!ImportThread

\* What imports and profiles have in common, and the thread of a profile.
LEMMA OtherThreads ==
    ASSUME WorkInv, NEW w \in Work!Works,
           \/ w \in Work!Threads /\ (Work!Claim(w) \/ Work!Judge(w) \/ Work!Leave(w))
           \/ w \in Profiles /\ (Work!Profile(w) \/ Work!MarkProfile(w))
    PROVE  WorkInv' /\ Shares
<1> USE DEF WorkInv
<1>0. w \in Imports => ImportKnows(w)
  OBVIOUS
<1>1. CASE w \in Work!Threads /\ Work!Claim(w)
  <2>1. /\ workPc[w] = "claim"
        /\ \/ /\ workState[w] = "queued" /\ workState' = [workState EXCEPT ![w] = "running"]
              /\ workPc' = [workPc EXCEPT ![w] = IF w \in Imports THEN "check" ELSE "inspect"]
           \/ workState[w] # "queued" /\ workState' = workState /\ workPc' = [workPc EXCEPT ![w] = "none"]
        /\ UNCHANGED <<workOwner, order, workVerdict, tables, toRemember>>
    BY <1>1 DEF Work!Claim, Work!StillQueued, Work!Goto, Work!database, Work!dispatcher
  <2>2. WorkTypes'
    BY <1>1, <2>1 DEF WorkTypes, Work!Points, Work!ImportPoints, Work!ProfilePoints, Work!ActiveStates
  <2>3. workOwner[w] # NoSession /\ workPc'[w] \in {"check", "inspect", "none"}
    BY <1>1, <2>1, WorkSubmitted DEF WorkTypes
  <2>4. /\ w \in Imports => ImportKnows(w)'
        /\ Work!Active(w)' => Work!Active(w)
    BY <1>0, <1>1, <2>1, <2>3 DEF ImportKnows, PastClaim, Before, WorkTypes, Work!Active, Work!ActiveStates
  <2>5. w \in toRemember => ~Work!Active(w)'
    BY <2>4 DEF ListedAreOver, Over
  <2>6. /\ \A v \in Work!Threads \ {w} : workPc'[v] = workPc[v]
        /\ \A v \in Work!Works \ {w} : workState'[v] = workState[v]
    BY <2>1 DEF WorkTypes
  <2> QED  BY <1>1, <2>1, <2>2, <2>3, <2>4, <2>5, <2>6, WorkSteps
<1>2. CASE (w \in Work!Threads /\ (Work!Judge(w) \/ Work!Leave(w))) \/ (w \in Profiles /\ Work!Profile(w))
  <2>0. w \in Work!Threads /\ (w \in Imports => w \notin Profiles)
    BY <1>2, WorkSets
  <2>1. /\ \/ /\ workPc[w] = "judge" /\ workPc' = [workPc EXCEPT ![w] = "mark"]
              /\ \E v \in {"cancelled", "failed"} : workVerdict' = [workVerdict EXCEPT ![w] = v]
           \/ /\ workPc[w] = "leave" /\ workPc' = [workPc EXCEPT ![w] = "none"]
              /\ workVerdict' = [workVerdict EXCEPT ![w] = Work!NoVerdict]
           \/ /\ w \notin Imports /\ workPc[w] \in {"inspect", "measure", "confirm"}
              /\ \/ /\ \E to \in {"measure", "confirm", "judge"} : workPc' = [workPc EXCEPT ![w] = to]
                    /\ workVerdict' = workVerdict
                 \/ /\ workPc' = [workPc EXCEPT ![w] = "mark"]
                    /\ workVerdict' = [workVerdict EXCEPT ![w] = "succeeded"]
        /\ UNCHANGED <<workState, workOwner, order, tables, toRemember>>
    BY <1>2, <2>0 DEF Work!Judge, Work!Outcome, Work!Leave, Work!Profile, Work!Goto, Work!Decides, Work!records,
       Work!database, Work!dispatcher
  <2>2. WorkTypes'
    BY <2>0, <2>1 DEF WorkTypes, Work!Points, Work!ProfilePoints, Work!TerminalStates
  <2>3. workOwner[w] # NoSession
    BY <2>0, <2>1, WorkSubmitted, WorkSets
  <2>4. /\ workPc'[w] # "remember"
        /\ workPc'[w] = "mark" => workVerdict'[w] \in Work!TerminalStates
        /\ w \in Imports => ImportKnows(w)'
    BY <1>0, <2>0, <2>1 DEF ImportKnows, PastClaim, Before, WorkTypes, Work!TerminalStates
  <2>5. /\ w \in toRemember => ~Work!Active(w)'
        /\ Work!Active(w)' => Work!Active(w)
    BY <2>1 DEF ListedAreOver, Over, Work!Active
  <2>6. \A v \in Work!Threads \ {w} : workPc'[v] = workPc[v] /\ workVerdict'[v] = workVerdict[v]
    BY <2>1 DEF WorkTypes
  <2> QED  BY <2>0, <2>1, <2>2, <2>3, <2>4, <2>5, <2>6, WorkSteps
<1>3. CASE w \in Profiles /\ Work!MarkProfile(w)
  <2>0. w \in Work!Threads /\ w \notin Imports
    BY <1>3, WorkSets
  <2>1. /\ workPc[w] = "mark"
        /\ \/ /\ Work!Active(w) /\ workState' = [workState EXCEPT ![w] = workVerdict[w]]
              /\ workPc' = [workPc EXCEPT ![w] = "remember"]
           \/ /\ ~Work!Active(w) /\ workState' = workState
              /\ \E to \in {"leave", "remember"} : workPc' = [workPc EXCEPT ![w] = to]
        /\ UNCHANGED <<workOwner, order, workVerdict, tables, toRemember>>
    BY <1>3 DEF Work!MarkProfile, Work!Goto, Work!database, Work!dispatcher
  <2>2. workVerdict[w] \in Work!TerminalStates
    BY <2>0, <2>1 DEF MarksOutcome
  <2>3. WorkTypes'
    BY <2>0, <2>1, <2>2 DEF WorkTypes, Work!Points
  <2>4. workOwner[w] # NoSession /\ workPc'[w] # "mark"
    BY <2>0, <2>1, WorkSubmitted DEF WorkTypes
  <2>5. ~Work!Active(w)'
    BY <2>0, <2>1, <2>2 DEF WorkTypes, Work!Active, Work!ActiveStates, Work!TerminalStates
  <2>6. /\ \A v \in Work!Threads \ {w} : workPc'[v] = workPc[v]
        /\ \A v \in Work!Works \ {w} : workState'[v] = workState[v]
    BY <2>1 DEF WorkTypes
  <2> QED  BY <2>0, <2>1, <2>3, <2>4, <2>5, <2>6, WorkSteps
<1> QED  BY <1>1, <1>2, <1>3

\* The workers of queries and exports.
LEMMA SharedEnds ==
    ASSUME WorkInv, NEW o \in Others, Work!OtherRuns(o) \/ Work!OtherEnds(o)
    PROVE  WorkInv' /\ Shares
<1>0. /\ o \in Work!Works /\ o \notin Work!Threads /\ o \notin Imports /\ o \notin toRemember
      /\ WorkTypes
  BY WorkSets DEF WorkInv, ListedAreOver
<1>1. /\ workState[o] \in {"queued", "running"}
      /\ \E v \in {"running", "succeeded", "cancelled"} : workState' = [workState EXCEPT ![o] = v]
      /\ UNCHANGED <<workOwner, order, workPc, workVerdict, tables, toRemember>>
  BY DEF Work!OtherRuns, Work!OtherEnds, Work!threads, Work!database, Work!dispatcher
<1>2. WorkTypes'
  BY <1>0, <1>1 DEF WorkTypes, Work!ActiveStates, Work!TerminalStates
<1>3. workOwner[o] # NoSession /\ Work!Active(o)
  BY <1>0, <1>1, WorkSubmitted DEF Work!Active, Work!ActiveStates
<1>4. \A v \in Work!Works \ {o} : workState'[v] = workState[v]
  BY <1>0, <1>1 DEF WorkTypes
<1> QED  BY <1>0, <1>1, <1>2, <1>3, <1>4, WorkSteps

LEMMA WorkStepKeeps ==
    ASSUME WorkInv, Work!Next
    PROVE  WorkInv' /\ Shares
<1>1. ASSUME NEW w \in Work!Threads, Work!RememberEnded(w)
      PROVE  WorkInv' /\ Shares
  <2>1. Over(w)
    BY <1>1 DEF WorkInv, ListedAreOver, Work!RememberEnded
  <2> QED
    BY <1>1, <2>1, WorkRemembers DEF Work!RememberEnded, Work!Goto, Work!Decides, Work!database, Work!dispatcher
<1>2. ASSUME NEW w \in Work!Threads, Work!ThreadStep(w)
      PROVE  WorkInv' /\ Shares
  BY <1>1, <1>2, ImportThreads, OtherThreads, WorkSets DEF Work!ThreadStep
<1>3. ASSUME NEW o \in Others, Work!OtherRuns(o) \/ Work!OtherEnds(o)
      PROVE  WorkInv' /\ Shares
  BY <1>3, SharedEnds, WorkSets
<1> QED  BY <1>2, <1>3, WorkRequests, WorkDispatches DEF Work!Next
--------------------------------------------------------------------------------
(* Exports.                                                                *)

ExportTypes ==
    /\ xState \in [Exports -> Output!States]
    /\ xOwner \in [Exports -> ExportSessions \cup {NoSession}]
    /\ xPending \in [ExportSessions -> Seq(Exports)]
    /\ xPc \in [Exports -> Output!Points]
    /\ xHome \in [Exports -> ExportSessions \cup {NoSession}]
    /\ xClaim \in [Exports -> Exports \cup {NoExport}]
    /\ xVerdict \in [Exports -> Output!TerminalStates \cup {"none"}]
    /\ rows \in [Exports -> Nat] /\ completed \in [Exports -> Nat] /\ files \in [Exports -> Nat]
    /\ published \in [Exports -> Nat] /\ parts \in [Exports -> Nat]
    /\ inPart \in [Exports -> Nat]

\* What waits in a session's line is queued, was submitted there, and waits once.
LinesAreQueued == \A s \in ExportSessions :
    /\ Distinct(xPending[s])
    /\ \A e \in Waiting(xPending[s]) : xState[e] = "queued" /\ xOwner[e] = s

\* The worker's points between its claim and the record of the outcome.
Working(t) == xPc[t] \notin {"none", "loop", "remember"}

\* A working thread holds a running export of its own.
Claims ==
    /\ \A t \in Exports : xPc[t] # "none" => xHome[t] \in ExportSessions
    /\ \A t \in Exports : Working(t) => xClaim[t] \in Exports /\ xState[xClaim[t]] = "running"
    /\ \A t, u \in Exports : Working(t) /\ Working(u) /\ xClaim[t] = xClaim[u] => t = u

\* The counters of an export that is not running are what is published.
Settled(e) ==
    /\ xState[e] # "running" =>
          rows[e] = completed[e] /\ completed[e] = published[e] /\ files[e] = parts[e]
    /\ xOwner[e] = NoSession => xState[e] = "absent"

\* The counters while thread t works: rows counts the part being written as well, and
\* a part is visible before it is counted as completed.
Counts(t) ==
    LET e == xClaim[t]
    IN  Working(t) =>
        /\ rows[e] = completed[e] + inPart[t]
        /\ IF xPc[t] = "summary"
           THEN published[e] = completed[e] + inPart[t] /\ parts[e] = files[e] + 1
           ELSE published[e] = completed[e] /\ parts[e] = files[e]
        /\ xPc[t] = "finish" \/ (xPc[t] = "mark" /\ xVerdict[t] = "succeeded") => inPart[t] = 0
        /\ xVerdict[t] = "succeeded" => xPc[t] = "mark"
        /\ xPc[t] = "mark" => xVerdict[t] \in Output!TerminalStates

WithinBudgets == \A e \in Exports : published[e] + Footer * parts[e] <= Budget

ExportInv ==
    /\ ExportTypes
    /\ LinesAreQueued
    /\ Claims
    /\ \A e \in Exports : Settled(e)
    /\ \A t \in Exports : Counts(t)
    /\ WithinBudgets

LEMMA ExportInitInv == Output!Init => ExportInv
<1> SUFFICES ASSUME Output!Init PROVE ExportInv
  OBVIOUS
<1>1. ExportTypes
  BY DEF Output!Init, ExportTypes, Output!States, Output!Points
<1>2. LinesAreQueued
  BY DEF Output!Init, LinesAreQueued, Distinct, Waiting
<1>3. Claims
  BY DEF Output!Init, Claims, Working
<1>4. \A e \in Exports : Settled(e) /\ Counts(e)
  BY DEF Output!Init, Settled, Counts, Working
<1>5. WithinBudgets
  BY ExportConstants DEF Output!Init, WithinBudgets
<1> QED  BY <1>1, <1>2, <1>3, <1>4, <1>5 DEF ExportInv

\* A step of a working thread, or of one in its loop, that keeps its claim or gives it
\* back: it touches only the counters of its own export.
LEMMA WorkerSteps ==
    ASSUME ExportInv, ExportTypes', NEW t \in Exports, Working(t), NEW e, e = xClaim[t],
           \A u \in Exports \ {t} : /\ xPc'[u] = xPc[u] /\ xClaim'[u] = xClaim[u]
                                    /\ xVerdict'[u] = xVerdict[u] /\ inPart'[u] = inPart[u],
           \A f \in Exports \ {e} : /\ rows'[f] = rows[f] /\ completed'[f] = completed[f] /\ files'[f] = files[f]
                                    /\ published'[f] = published[f] /\ parts'[f] = parts[f],
           UNCHANGED <<xState, xOwner, xPending, xHome>>,
           Working(t)', xClaim'[t] = e, Counts(t)',
           published'[e] + Footer * parts'[e] <= Budget
    PROVE  ExportInv'
<1> USE DEF ExportInv
<1>1. e \in Exports /\ xState[e] = "running"
  BY DEF Claims
<1>2. LinesAreQueued'
  BY DEF LinesAreQueued
<1>3. Claims'
  BY DEF Claims, Working
<1>4. \A f \in Exports : Settled(f)'
  BY <1>1 DEF Settled
<1>5. \A u \in Exports : Counts(u)'
  <2> SUFFICES ASSUME NEW u \in Exports \ {t}, Working(u) PROVE Counts(u)'
    BY DEF Counts, Working
  <2>1. xClaim[u] \in Exports \ {e}
    BY DEF Claims
  <2> QED  BY <2>1 DEF Counts, Working
<1>6. WithinBudgets'
  BY <1>1 DEF WithinBudgets
<1> QED  BY <1>2, <1>3, <1>4, <1>5, <1>6

\* The points of a working thread.
LEMMA WorkersKeep ==
    ASSUME ExportInv, NEW t \in Exports,
           \/ Output!SetInterrupt(t) \/ Output!DrainPrior(t) \/ Output!Cancelled(t) \/ Output!PassCheck(t)
           \/ Output!NextSlice(t) \/ Output!StreamEnds(t) \/ Output!WriteSlice(t) \/ Output!SliceOverBudget(t)
           \/ Output!PublishPart(t) \/ Output!PublishOverBudget(t) \/ Output!PartCompleted(t)
           \/ Output!WriterFails(t) \/ Output!DropWriter(t) \/ Output!Judge(t) \/ Output!Finish(t)
    PROVE  ExportInv'
<1> USE DEF ExportInv
<1> DEFINE e == xClaim[t]
<1>0. /\ xPc \in [Exports -> Output!Points] /\ xClaim \in [Exports -> Exports \cup {NoExport}]
      /\ xVerdict \in [Exports -> Output!TerminalStates \cup {"none"}]
      /\ rows \in [Exports -> Nat] /\ completed \in [Exports -> Nat] /\ files \in [Exports -> Nat]
      /\ published \in [Exports -> Nat] /\ parts \in [Exports -> Nat] /\ inPart \in [Exports -> Nat]
  BY DEF ExportTypes
<1>1. ASSUME NEW from \in {"arm", "prior", "batch", "slice", "check", "publish", "finish", "drop", "judge"},
             NEW to \in {"prior", "batch", "slice", "check", "publish", "finish", "drop", "judge", "mark"},
             xPc[t] = from, xPc' = [xPc EXCEPT ![t] = to],
             to = "finish" => inPart[t] = 0,
             \/ xVerdict' = xVerdict /\ to # "mark"
             \/ xVerdict' = [xVerdict EXCEPT ![t] = "cancelled"] \/ xVerdict' = [xVerdict EXCEPT ![t] = "failed"]
             \/ xVerdict' = [xVerdict EXCEPT ![t] = "succeeded"] /\ from = "finish" /\ to = "mark",
             UNCHANGED <<xState, xOwner, xPending, xHome, xClaim, inPart, rows, completed, files, published, parts>>
      PROVE  ExportInv'
  <2>1. Working(t) /\ Working(t)' /\ e \in Exports
    BY <1>0, <1>1 DEF Working, Claims
  <2>2. Counts(t)
    OBVIOUS
  <2> HIDE DEF e
  <2>3. xVerdict[t] # "succeeded" /\ (from = "finish" => inPart[t] = 0)
    BY <1>1, <2>1, <2>2 DEF Counts
  <2>4. xVerdict'[t] = "succeeded" => from = "finish" /\ to = "mark"
    BY <1>0, <1>1, <2>3
  <2>a. to = "mark" => xVerdict'[t] \in Output!TerminalStates
    BY <1>0, <1>1 DEF Output!TerminalStates
  <2>5. Counts(t)'
    BY <1>0, <1>1, <2>1, <2>2, <2>3, <2>4, <2>a DEF Counts
  <2>6. ExportTypes'
    BY <1>1 DEF ExportTypes, Output!Points, Output!TerminalStates
  <2>7. published'[e] + Footer * parts'[e] <= Budget
    BY <1>1, <2>1 DEF WithinBudgets
  <2>8. \A u \in Exports \ {t} : xPc'[u] = xPc[u] /\ xVerdict'[u] = xVerdict[u]
    BY <1>0, <1>1
  <2>9. xClaim[t] = e
    BY DEF e
  <2> QED  BY <1>1, <2>1, <2>5, <2>6, <2>7, <2>8, <2>9, WorkerSteps
<1>2. CASE \/ Output!SetInterrupt(t) \/ Output!DrainPrior(t) \/ Output!Cancelled(t) \/ Output!PassCheck(t)
           \/ Output!NextSlice(t) \/ Output!StreamEnds(t) \/ Output!SliceOverBudget(t)
           \/ Output!PublishOverBudget(t) \/ Output!WriterFails(t) \/ Output!DropWriter(t) \/ Output!Judge(t)
           \/ Output!Finish(t)
  <2>1. PICK from \in {"arm", "prior", "batch", "slice", "check", "publish", "finish", "drop", "judge"},
             to \in {"prior", "batch", "slice", "check", "publish", "finish", "drop", "judge", "mark"} :
             /\ xPc[t] = from /\ xPc' = [xPc EXCEPT ![t] = to]
             /\ to = "finish" => inPart[t] = 0
             /\ \/ xVerdict' = xVerdict /\ to # "mark"
                \/ xVerdict' = [xVerdict EXCEPT ![t] = "cancelled"] \/ xVerdict' = [xVerdict EXCEPT ![t] = "failed"]
                \/ xVerdict' = [xVerdict EXCEPT ![t] = "succeeded"] /\ from = "finish" /\ to = "mark"
    <3> USE DEF Output!Goto
    <3>1. CASE Output!SetInterrupt(t) \/ Output!DrainPrior(t) \/ Output!NextSlice(t) \/ Output!StreamEnds(t)
      BY <3>1 DEF Output!SetInterrupt, Output!DrainPrior, Output!NextSlice, Output!StreamEnds, Output!writer
    <3>2. CASE Output!Cancelled(t) \/ Output!PassCheck(t)
      <4>1. inPart[t] > 0 \/ inPart[t] = 0
        BY <1>0
      <4> QED  BY <3>2, <4>1 DEF Output!Cancelled, Output!PassCheck
    <3>3. CASE Output!SliceOverBudget(t) \/ Output!PublishOverBudget(t) \/ Output!WriterFails(t) \/ Output!DropWriter(t)
      BY <3>3 DEF Output!SliceOverBudget, Output!PublishOverBudget, Output!WriterFails, Output!DropWriter, Output!writer
    <3>4. CASE Output!Judge(t) \/ Output!Finish(t)
      BY <3>4 DEF Output!Judge, Output!Judged, Output!Finish
    <3> QED  BY <1>2, <3>1, <3>2, <3>3, <3>4
  <2>2. UNCHANGED <<xState, xOwner, xPending, xHome, xClaim, inPart, rows, completed, files, published, parts>>
    BY <1>2 DEF Output!SetInterrupt, Output!DrainPrior, Output!Cancelled, Output!PassCheck, Output!NextSlice,
       Output!StreamEnds, Output!SliceOverBudget, Output!PublishOverBudget, Output!WriterFails, Output!DropWriter,
       Output!Judge, Output!Finish, Output!Goto, Output!records, Output!progress, Output!queues, Output!writer,
       Output!disk
  <2> QED  BY <1>1, <2>1, <2>2
<1>3. CASE Output!WriteSlice(t)
  <2>1. /\ xPc[t] = "slice" /\ (xPc' = [xPc EXCEPT ![t] = "publish"] \/ xPc' = [xPc EXCEPT ![t] = "batch"])
        /\ inPart' = [inPart EXCEPT ![t] = @ + 1] /\ rows' = [rows EXCEPT ![e] = @ + 1]
        /\ UNCHANGED <<xState, xOwner, xPending, xHome, xClaim, xVerdict, completed, files, published, parts>>
    BY <1>3 DEF Output!WriteSlice, Output!records, Output!queues
  <2>2. Working(t) /\ Working(t)' /\ e \in Exports /\ xPc'[t] \in {"publish", "batch"}
    BY <1>0, <2>1 DEF Working, Claims
  <2>3. Counts(t)
    OBVIOUS
  <2> HIDE DEF e
  <2>4. xClaim[t] = e
    BY DEF e
  <2>5. Counts(t)'
    BY <1>0, <2>1, <2>2, <2>3, <2>4 DEF Counts
  <2>6. ExportTypes'
    <3>1. rows' \in [Exports -> Nat] /\ inPart' \in [Exports -> Nat]
      BY <1>0, <2>1, <2>2
    <3> QED  BY <2>1, <2>2, <3>1 DEF ExportTypes, Output!Points
  <2>7. published'[e] + Footer * parts'[e] <= Budget
    BY <2>1, <2>2 DEF WithinBudgets
  <2>8. /\ \A u \in Exports \ {t} : xPc'[u] = xPc[u] /\ inPart'[u] = inPart[u]
        /\ \A f \in Exports \ {e} : rows'[f] = rows[f]
    BY <1>0, <2>1
  <2> QED  BY <2>1, <2>2, <2>4, <2>5, <2>6, <2>7, <2>8, WorkerSteps
<1>4. CASE Output!PublishPart(t)
  <2>1. /\ xPc[t] = "publish" /\ xPc' = [xPc EXCEPT ![t] = "summary"]
        /\ completed[e] + Footer * files[e] + (inPart[t] + Footer) <= Budget
        /\ published' = [published EXCEPT ![e] = @ + inPart[t]] /\ parts' = [parts EXCEPT ![e] = @ + 1]
        /\ UNCHANGED <<xState, xOwner, xPending, xHome, xClaim, xVerdict, inPart, rows, completed, files>>
    BY <1>4 DEF Output!PublishPart, Output!MayPublish, Output!WithinBudget, Output!Bytes, Output!records,
       Output!queues, Output!writer, Output!progress
  <2>2. Working(t) /\ Working(t)' /\ e \in Exports /\ xPc'[t] = "summary"
    BY <1>0, <2>1 DEF Working, Claims
  <2>3. Counts(t)
    OBVIOUS
  <2> HIDE DEF e
  <2>4. xClaim[t] = e
    BY DEF e
  <2>5. /\ published[e] = completed[e] /\ parts[e] = files[e] /\ xVerdict[t] # "succeeded"
        /\ rows[e] = completed[e] + inPart[t]
    BY <2>1, <2>2, <2>3, <2>4 DEF Counts
  <2>6. published'[e] = completed[e] + inPart[t] /\ parts'[e] = files[e] + 1
    BY <1>0, <2>1, <2>2, <2>5
  <2>7. Counts(t)'
    BY <2>1, <2>2, <2>4, <2>5, <2>6 DEF Counts
  <2>8. ExportTypes'
    <3>1. published' \in [Exports -> Nat] /\ parts' \in [Exports -> Nat]
      BY <1>0, <2>1, <2>2
    <3> QED  BY <2>1, <2>2, <3>1 DEF ExportTypes, Output!Points
  <2>9. published'[e] + Footer * parts'[e] <= Budget
    <3> DEFINE c == completed[e]
               n == inPart[t]
               k == files[e]
    <3>1. c \in Nat /\ n \in Nat /\ k \in Nat
      BY <1>0, <2>2
    <3>2. c + Footer * k + (n + Footer) <= Budget
      BY <2>1
    <3>3. (c + n) + Footer * (k + 1) = c + Footer * k + (n + Footer)
      <4> HIDE DEF c, n, k
      <4> QED  BY <3>1, ExportConstants
    <3> QED  BY <2>6, <3>2, <3>3
  <2>10. /\ \A u \in Exports \ {t} : xPc'[u] = xPc[u]
         /\ \A f \in Exports \ {e} : published'[f] = published[f] /\ parts'[f] = parts[f]
    BY <1>0, <2>1
  <2> QED  BY <2>1, <2>2, <2>4, <2>7, <2>8, <2>9, <2>10, WorkerSteps
<1>5. CASE Output!PartCompleted(t)
  <2>1. /\ xPc[t] = "summary" /\ (xPc' = [xPc EXCEPT ![t] = "finish"] \/ xPc' = [xPc EXCEPT ![t] = "batch"])
        /\ completed' = [completed EXCEPT ![e] = @ + inPart[t]] /\ files' = [files EXCEPT ![e] = @ + 1]
        /\ inPart' = [inPart EXCEPT ![t] = 0]
        /\ UNCHANGED <<xState, xOwner, xPending, xHome, xClaim, xVerdict, rows, published, parts>>
    BY <1>5 DEF Output!PartCompleted, Output!NewPart, Output!records, Output!queues, Output!disk
  <2>2. Working(t) /\ Working(t)' /\ e \in Exports /\ xPc'[t] \in {"finish", "batch"}
    BY <1>0, <2>1 DEF Working, Claims
  <2>3. Counts(t)
    OBVIOUS
  <2> HIDE DEF e
  <2>4. xClaim[t] = e
    BY DEF e
  <2>5. Counts(t)'
    BY <1>0, <2>1, <2>2, <2>3, <2>4 DEF Counts
  <2>6. ExportTypes'
    <3>1. completed' \in [Exports -> Nat] /\ files' \in [Exports -> Nat] /\ inPart' \in [Exports -> Nat]
      BY <1>0, <2>1, <2>2
    <3> QED  BY <2>1, <2>2, <3>1 DEF ExportTypes, Output!Points
  <2>7. published'[e] + Footer * parts'[e] <= Budget
    BY <2>1, <2>2 DEF WithinBudgets
  <2>8. /\ \A u \in Exports \ {t} : xPc'[u] = xPc[u] /\ inPart'[u] = inPart[u]
        /\ \A f \in Exports \ {e} : completed'[f] = completed[f] /\ files'[f] = files[f]
    BY <1>0, <2>1
  <2> QED  BY <2>1, <2>2, <2>4, <2>5, <2>6, <2>7, <2>8, WorkerSteps
<1> QED  BY <1>2, <1>3, <1>4, <1>5


\* A step that leaves the records, the lines and the workers alone.
LEMMA ExportFrame ==
    ASSUME ExportInv, UNCHANGED <<xState, xOwner, xPending, xPc, xHome, xClaim, xVerdict, inPart, rows, completed,
                                  files, published, parts>>
    PROVE  ExportInv'
BY DEF ExportInv, ExportTypes, LinesAreQueued, Claims, Settled, Counts, WithinBudgets, Working

\* A thread retires or goes on to its next export.
LEMMA WorkersLeave ==
    ASSUME ExportInv, NEW t \in Exports, Output!Retire(t) \/ Output!RememberFinished(t)
    PROVE  ExportInv'
<1> USE DEF ExportInv
<1>1. /\ xPc[t] \in {"loop", "remember"} /\ (xPc' = [xPc EXCEPT ![t] = "none"] \/ xPc' = [xPc EXCEPT ![t] = "loop"])
      /\ xClaim' = xClaim \/ xClaim' = [xClaim EXCEPT ![t] = NoExport]
      /\ UNCHANGED <<xState, xOwner, xPending, xHome, xVerdict, inPart, rows, completed, files, published, parts>>
  BY DEF Output!Retire, Output!RememberFinished, Output!records, Output!progress, Output!queues, Output!writer,
     Output!disk
<1>2. ~Working(t) /\ ~Working(t)' /\ xPc[t] # "none"
  BY <1>1 DEF Working, ExportTypes
<1>3. \A u \in Exports \ {t} : xPc'[u] = xPc[u] /\ xClaim'[u] = xClaim[u]
  BY <1>1 DEF ExportTypes
<1>4. ExportTypes'
  BY <1>1 DEF ExportTypes, Output!Points
<1>5. Claims'
  BY <1>1, <1>2, <1>3 DEF Claims, Working
<1>6. \A u \in Exports : Counts(u)'
  BY <1>1, <1>2, <1>3 DEF Counts, Working
<1> QED  BY <1>1, <1>4, <1>5, <1>6 DEF LinesAreQueued, Settled, WithinBudgets

\* A submission adds a queued export, of which nothing is written, to a line.
LEMMA ExportSubmitted ==
    ASSUME ExportInv, NEW e \in Exports, NEW s \in ExportSessions, Output!Execute(e, s)
    PROVE  ExportInv'
<1> USE DEF ExportInv
<1>1. /\ xOwner[e] = NoSession
      /\ xState' = [xState EXCEPT ![e] = "queued"] /\ xOwner' = [xOwner EXCEPT ![e] = s]
      /\ xPending' = [xPending EXCEPT ![s] = Append(@, e)]
      /\ \/ xPc' = [xPc EXCEPT ![e] = "loop"] /\ xHome' = [xHome EXCEPT ![e] = s]
         \/ UNCHANGED <<xPc, xHome>>
      /\ UNCHANGED <<xClaim, xVerdict, inPart, rows, completed, files, published, parts>>
  BY DEF Output!Execute, Output!Enqueued, Output!progress, Output!writer, Output!disk
<1>2. xState[e] = "absent" /\ NoSession \notin ExportSessions
  BY <1>1, ExportConstants DEF Settled
<1>3. \A r \in ExportSessions : xPending[r] \in Seq(Exports) /\ Distinct(xPending[r]) /\ e \notin Waiting(xPending[r])
  BY <1>2 DEF LinesAreQueued, ExportTypes
<1>4. \A r \in ExportSessions :
          /\ Append(xPending[r], e) \in Seq(Exports) /\ Distinct(Append(xPending[r], e))
          /\ Waiting(Append(xPending[r], e)) = Waiting(xPending[r]) \cup {e}
  BY <1>3, AppendToLine
<1>5. /\ \A r \in ExportSessions : xPending'[r] = IF r = s THEN Append(xPending[r], e) ELSE xPending[r]
      /\ \A f \in Exports \ {e} : xState'[f] = xState[f] /\ xOwner'[f] = xOwner[f]
      /\ xState'[e] = "queued" /\ xOwner'[e] = s
  BY <1>1 DEF ExportTypes
<1>6. ExportTypes'
  <2>1. xPending' \in [ExportSessions -> Seq(Exports)]
    BY <1>1, <1>4 DEF ExportTypes
  <2>2. xPc' \in [Exports -> Output!Points] /\ xHome' \in [Exports -> ExportSessions \cup {NoSession}]
    <3>1. xPc \in [Exports -> Output!Points] /\ xHome \in [Exports -> ExportSessions \cup {NoSession}]
      BY DEF ExportTypes
    <3>2. "loop" \in Output!Points
      BY DEF Output!Points
    <3> QED  BY <1>1, <3>1, <3>2
  <2>3. xState' \in [Exports -> Output!States] /\ xOwner' \in [Exports -> ExportSessions \cup {NoSession}]
    BY <1>1 DEF ExportTypes, Output!States
  <2> QED  BY <1>1, <2>1, <2>2, <2>3 DEF ExportTypes
<1>7. LinesAreQueued'
  <2> SUFFICES ASSUME NEW r \in ExportSessions
               PROVE  /\ Distinct(xPending'[r])
                      /\ \A f \in Waiting(xPending'[r]) : xState'[f] = "queued" /\ xOwner'[f] = r
    BY DEF LinesAreQueued, Distinct, Waiting
  <2>1. Waiting(xPending[r]) \subseteq Exports
    BY <1>3 DEF Waiting
  <2>2. CASE r = s
    BY <1>3, <1>4, <1>5, <2>1, <2>2 DEF LinesAreQueued
  <2>3. CASE r # s
    BY <1>3, <1>5, <2>1, <2>3 DEF LinesAreQueued
  <2> QED  BY <2>2, <2>3
<1>8. \A u \in Exports : (Working(u)' <=> Working(u)) \/ (u = e /\ ~Working(u)')
  BY <1>1 DEF Working, ExportTypes
<1>9. Claims'
  BY <1>1, <1>2, <1>8 DEF Claims, ExportTypes
<1>10. \A f \in Exports : Settled(f)'
  BY <1>1, <1>2, <1>5 DEF Settled
<1>11. \A u \in Exports : Counts(u)'
  <2> SUFFICES ASSUME NEW u \in Exports, Working(u)' PROVE Counts(u)'
    BY DEF Counts
  <2>1. Working(u) /\ xPc'[u] = xPc[u]
    BY <1>1, <1>8 DEF Working, ExportTypes
  <2> QED  BY <1>1, <2>1 DEF Counts
<1> QED  BY <1>1, <1>6, <1>7, <1>9, <1>10, <1>11 DEF WithinBudgets

\* A cancellation takes a queued export out of its line, or only leaves a request.
LEMMA ExportCancelled ==
    ASSUME ExportInv, NEW e \in Exports, Output!CancelExport(e),
           UNCHANGED <<xOwner, xPc, xHome, xClaim, xVerdict, inPart, rows, completed, files, published, parts>>
    PROVE  ExportInv'
<1> USE DEF ExportInv
<1>1. CASE UNCHANGED <<xState, xPending>>
  BY <1>1, ExportFrame
<1>2. CASE /\ xState[e] = "queued" /\ xState' = [xState EXCEPT ![e] = "cancelled"]
           /\ xPending' = [xPending EXCEPT ![xOwner[e]] = Without(@, e)]
  <2> DEFINE s == xOwner[e]
  <2>1. s \in ExportSessions
    BY <1>2 DEF Settled, ExportTypes
  <2> HIDE DEF s
  <2>2. /\ Without(xPending[s], e) \in Seq(Exports) /\ Distinct(Without(xPending[s], e))
        /\ Waiting(Without(xPending[s], e)) = Waiting(xPending[s]) \ {e}
    BY <2>1, WithoutFromLine DEF LinesAreQueued, ExportTypes
  <2>3. ExportTypes'
    BY <1>2, <2>1, <2>2 DEF ExportTypes, Output!States, Output!TerminalStates, s
  <2>4. \A r \in ExportSessions : xPending'[r] = IF r = s THEN Without(xPending[s], e) ELSE xPending[r]
    BY <1>2 DEF ExportTypes, s
  <2>5. \A f \in Exports \ {e} : xState'[f] = xState[f]
    BY <1>2 DEF ExportTypes
  <2>6. LinesAreQueued'
    <3> SUFFICES ASSUME NEW r \in ExportSessions
                 PROVE  /\ Distinct(xPending'[r])
                        /\ \A f \in Waiting(xPending'[r]) : xState'[f] = "queued" /\ xOwner'[f] = r
      BY DEF LinesAreQueued, Distinct, Waiting
    <3>1. Waiting(xPending[r]) \subseteq Exports
      BY DEF Waiting, ExportTypes
    <3>2. CASE r = s
      BY <2>2, <2>4, <2>5, <3>1, <3>2 DEF LinesAreQueued
    <3>3. CASE r # s
      BY <2>4, <2>5, <3>1, <3>3 DEF LinesAreQueued, s
    <3> QED  BY <3>2, <3>3
  <2>7. Claims'
    BY <1>2, <2>5 DEF Claims, Working
  <2>8. \A f \in Exports : Settled(f)'
    BY <1>2, <2>1, <2>5 DEF Settled, s
  <2>9. (\A u \in Exports : Counts(u)') /\ WithinBudgets'
    BY DEF Counts, Working, WithinBudgets
  <2> QED  BY <2>3, <2>6, <2>7, <2>8, <2>9
<1>3. Output!Without(xPending[xOwner[e]], e) = Without(xPending[xOwner[e]], e)
  BY DEF Output!Without, Without, Output!Waiting, Waiting
<1> QED  BY <1>1, <1>2, <1>3 DEF Output!CancelExport, Output!CancelQueued

\* A worker claims the head of its line: nobody else works for that export.
LEMMA ExportClaimed ==
    ASSUME ExportInv, NEW t \in Exports, Output!Claim(t)
    PROVE  ExportInv'
<1> USE DEF ExportInv
<1> DEFINE s == xHome[t]
           e == Head(xPending[s])
<1>1. /\ xPc[t] = "loop" /\ xPending[s] # <<>>
      /\ xPending' = [xPending EXCEPT ![s] = Tail(@)]
      /\ xState' = [xState EXCEPT ![e] = "running"] /\ xClaim' = [xClaim EXCEPT ![t] = e]
      /\ xPc' = [xPc EXCEPT ![t] = "arm"] /\ inPart' = [inPart EXCEPT ![t] = 0]
      /\ xVerdict' = [xVerdict EXCEPT ![t] = "none"]
      /\ UNCHANGED <<xOwner, xHome, rows, completed, files, published, parts>>
  BY DEF Output!Claim, Output!progress, Output!disk
<1>2. s \in ExportSessions /\ xPending[s] \in Seq(Exports)
  BY <1>1 DEF Claims, ExportTypes
<1> HIDE DEF s
<1>3. /\ e \in Exports /\ e \in Waiting(xPending[s])
      /\ Tail(xPending[s]) \in Seq(Exports) /\ Distinct(Tail(xPending[s]))
      /\ Waiting(Tail(xPending[s])) = Waiting(xPending[s]) \ {e}
  BY <1>1, <1>2, TailOfLine DEF LinesAreQueued
<1> HIDE DEF e
<1>4. xState[e] = "queued" /\ xOwner[e] = s
  BY <1>2, <1>3 DEF LinesAreQueued
<1>5. /\ \A r \in ExportSessions : xPending'[r] = IF r = s THEN Tail(xPending[s]) ELSE xPending[r]
      /\ \A f \in Exports \ {e} : xState'[f] = xState[f]
      /\ xState'[e] = "running"
      /\ \A u \in Exports \ {t} : /\ xPc'[u] = xPc[u] /\ xClaim'[u] = xClaim[u]
                                  /\ xVerdict'[u] = xVerdict[u] /\ inPart'[u] = inPart[u]
      /\ xPc'[t] = "arm" /\ xClaim'[t] = e /\ xVerdict'[t] = "none" /\ inPart'[t] = 0
  BY <1>1, <1>3 DEF ExportTypes
<1>6. ExportTypes'
  BY <1>1, <1>2, <1>3 DEF ExportTypes, Output!States, Output!Points
<1>7. LinesAreQueued'
  <2> SUFFICES ASSUME NEW r \in ExportSessions
               PROVE  /\ Distinct(xPending'[r])
                      /\ \A f \in Waiting(xPending'[r]) : xState'[f] = "queued" /\ xOwner'[f] = r
    BY DEF LinesAreQueued, Distinct, Waiting
  <2>1. Waiting(xPending[r]) \subseteq Exports
    BY DEF Waiting, ExportTypes
  <2>2. CASE r = s
    BY <1>1, <1>3, <1>5, <2>1, <2>2 DEF LinesAreQueued
  <2>3. CASE r # s
    BY <1>1, <1>4, <1>5, <2>1, <2>3 DEF LinesAreQueued
  <2> QED  BY <2>2, <2>3
<1>8. \A u \in Exports : Working(u) => xClaim[u] # e
  BY <1>4 DEF Claims
<1>9. /\ \A u \in Exports \ {t} : Working(u)' <=> Working(u)
      /\ ~Working(t) /\ xPc[t] # "none"
  BY <1>1, <1>5 DEF Working
<1>10. Claims'
  BY <1>1, <1>3, <1>5, <1>8, <1>9 DEF Claims
<1>11. \A f \in Exports : Settled(f)'
  BY <1>1, <1>2, <1>4, <1>5, ExportConstants DEF Settled
<1>12. \A u \in Exports : Counts(u)'
  <2> SUFFICES ASSUME NEW u \in Exports, Working(u)' PROVE Counts(u)'
    BY DEF Counts
  <2>1. CASE u # t
    BY <1>1, <1>5, <1>9, <2>1 DEF Counts
  <2>2. CASE u = t
    <3>1. rows[e] = completed[e] /\ completed[e] = published[e] /\ files[e] = parts[e] /\ completed[e] \in Nat
      BY <1>3, <1>4 DEF Settled, ExportTypes
    <3> QED  BY <1>1, <1>5, <2>2, <3>1 DEF Counts
  <2> QED  BY <2>1, <2>2
<1> QED  BY <1>1, <1>6, <1>7, <1>10, <1>11, <1>12 DEF WithinBudgets

\* mark_terminal takes the rows of an unpublished part back.
LEMMA ExportMarked ==
    ASSUME ExportInv, NEW t \in Exports, Output!MarkTerminal(t)
    PROVE  ExportInv'
<1> USE DEF ExportInv
<1> DEFINE e == xClaim[t]
<1>1. /\ xPc[t] = "mark" /\ xPc' = [xPc EXCEPT ![t] = "remember"]
      /\ xState' = [xState EXCEPT ![e] = xVerdict[t]]
      /\ rows' = [rows EXCEPT ![e] = IF xVerdict[t] = "succeeded" THEN rows[e] ELSE completed[e]]
      /\ UNCHANGED <<xOwner, xPending, xHome, xClaim, xVerdict, inPart, completed, files, published, parts>>
  BY DEF Output!MarkTerminal, Output!ReportedRows, Output!writer, Output!disk
<1>2. Working(t) /\ e \in Exports /\ xState[e] = "running"
  BY <1>1 DEF Working, Claims
<1>3. Counts(t)
  OBVIOUS
<1> HIDE DEF e
<1>4. /\ rows'[e] = completed[e] /\ published[e] = completed[e] /\ files[e] = parts[e]
  BY <1>1, <1>2, <1>3 DEF Counts, ExportTypes, e
<1>5. /\ \A f \in Exports \ {e} : xState'[f] = xState[f] /\ rows'[f] = rows[f]
      /\ \A u \in Exports \ {t} : xPc'[u] = xPc[u]
      /\ xPc'[t] = "remember"
  BY <1>1 DEF ExportTypes
<1>6. ExportTypes'
  <2>1. rows' \in [Exports -> Nat]
    BY <1>1, <1>2 DEF ExportTypes
  <2>2. xVerdict[t] \in Output!States
    BY <1>1, <1>2, <1>3 DEF Counts, ExportTypes, Output!States
  <2> QED  BY <1>1, <2>1, <2>2 DEF ExportTypes, Output!Points
<1>7. LinesAreQueued'
  <2> SUFFICES ASSUME NEW r \in ExportSessions
               PROVE  /\ Distinct(xPending[r])
                      /\ \A f \in Waiting(xPending[r]) : xState'[f] = "queued" /\ xOwner[f] = r
    BY <1>1 DEF LinesAreQueued, Distinct, Waiting
  <2>1. Waiting(xPending[r]) \subseteq Exports
    BY DEF Waiting, ExportTypes
  <2> QED  BY <1>2, <1>5, <2>1 DEF LinesAreQueued
<1>8. ~Working(t)' /\ \A u \in Exports \ {t} : (Working(u)' <=> Working(u)) /\ (Working(u) => xClaim[u] # e)
  BY <1>2, <1>5 DEF Working, Claims, e
<1>9. Claims'
  BY <1>1, <1>5, <1>8 DEF Claims
<1>10. \A f \in Exports : Settled(f)'
  BY <1>1, <1>2, <1>4, <1>5 DEF Settled
<1>11. \A u \in Exports : Counts(u)'
  <2> SUFFICES ASSUME NEW u \in Exports, Working(u)' PROVE Counts(u)'
    BY DEF Counts
  <2>1. u # t /\ Working(u) /\ xClaim[u] \in Exports \ {e}
    BY <1>8 DEF Claims
  <2> QED  BY <1>1, <1>5, <2>1 DEF Counts
<1> QED  BY <1>1, <1>6, <1>7, <1>9, <1>10, <1>11 DEF WithinBudgets


LEMMA ExportStepKeeps == ExportInv /\ Output!Next => ExportInv'
<1> SUFFICES ASSUME ExportInv, Output!Next PROVE ExportInv'
  OBVIOUS
<1>1. ASSUME NEW s \in ExportSessions, Output!OpenSession(s) \/ Output!CloseBegin(s) \/ Output!CloseEnd(s)
      PROVE  ExportInv'
  BY <1>1, ExportFrame DEF Output!OpenSession, Output!CloseBegin, Output!CloseEnd, Output!records, Output!progress,
     Output!queues, Output!writer, Output!disk
<1>2. ASSUME NEW e \in Exports, Output!Cancel(e) \/ Output!CloseCancelOne(e)
      PROVE  ExportInv'
  BY <1>2, ExportCancelled DEF Output!Cancel, Output!CloseCancelOne, Output!progress, Output!writer, Output!disk
<1>3. CASE Output!RememberCancelled
  BY <1>3, ExportFrame DEF Output!RememberCancelled, Output!progress, Output!queues, Output!writer, Output!disk
<1>4. ASSUME NEW t \in Exports, Output!WorkerStep(t)
      PROVE  ExportInv'
  BY <1>4, WorkersKeep, WorkersLeave, ExportClaimed, ExportMarked DEF Output!WorkerStep
<1> QED
  BY <1>1, <1>2, <1>3, <1>4, ExportSubmitted DEF Output!Next, Output!Request, Output!DispatchStep

--------------------------------------------------------------------------------
(* The theorems.                                                           *)

EngineInv == WorkInv /\ ExportInv

LEMMA EngineStep ==
    EngineInv /\ [EngineNext]_<<focus, vars, exportVars, workVars>> => EngineInv' /\ Shares
<1> SUFFICES ASSUME EngineInv, [EngineNext]_<<focus, vars, exportVars, workVars>>
             PROVE  EngineInv' /\ Shares
  OBVIOUS
<1>1. ASSUME UNCHANGED exportVars PROVE ExportInv'
  BY <1>1, ExportFrame DEF exportVars, EngineInv
<1>2. ASSUME UNCHANGED workVars PROVE WorkInv' /\ Shares
  BY <1>2, WorkFrame DEF workVars, EngineInv
<1>3. ASSUME Output!Next PROVE ExportInv'
  BY <1>3, ExportStepKeeps DEF EngineInv
<1>4. ASSUME Work!Next PROVE WorkInv' /\ Shares
  BY <1>4, WorkStepKeeps DEF EngineInv
<1>5. \/ UNCHANGED exportVars /\ UNCHANGED workVars
      \/ Output!Next /\ UNCHANGED workVars
      \/ Work!Next /\ UNCHANGED exportVars
  BY DEF EngineNext
<1> QED  BY <1>1, <1>2, <1>3, <1>4, <1>5 DEF EngineInv

LEMMA EngineInvariant == EngineSpec => []EngineInv
<1>1. EngineInit => EngineInv
  BY WorkInitInv, ExportInitInv DEF EngineInit, EngineInv
<1> QED  BY <1>1, EngineStep, PTL DEF EngineSpec

\* What an import reports is what happened to the database: a succeeded import's table
\* is there, a failed or cancelled one's is not, for any number of imports, profiles and
\* cancellations and any history limit (import_jobs.rs, sources.rs).
THEOREM ImportsTellTheDatabase == EngineSpec => []ImportOutcomeIsDatabase
<1>1. EngineInv => ImportOutcomeIsDatabase
  BY DEF EngineInv, WorkInv, ImportKnows, ImportOutcomeIsDatabase, Work!ImportOutcomeIsDatabase, PastClaim, Before
<1> QED  BY <1>1, EngineInvariant, PTL

\* The gates of the dispatch loop, the registries and the threads together implement
\* the readers-writers rule of SessionSharing: imports and profiles have a session to
\* themselves (main.rs).
THEOREM GatesImplementSharing == EngineSpec => ImplementsSharing
<1>1. EngineInit => Work!Sharing!Init
  BY WorkInitInv DEF EngineInit
<1>2. EngineInv /\ [EngineNext]_<<focus, vars, exportVars, workVars>> => [Work!Sharing!Next]_At
  BY EngineStep, SharesIsSharing
<1> QED  BY <1>1, <1>2, EngineInvariant, PTL DEF EngineSpec, ImplementsSharing, Work!ImplementsSharing, Work!Sharing!Spec, At

\* What a terminal export record tells is what is visible under its names, also when
\* it failed or was cancelled half-way through a part (mark_terminal and
\* part_completed in export_jobs.rs).
THEOREM ReportsArePublished == EngineSpec => []ReportedRowsArePublished
<1>1. EngineInv => ReportedRowsArePublished
  BY DEF EngineInv, ExportInv, Settled, ReportedRowsArePublished, Output!ReportedRowsArePublished, Output!Terminal,
     Output!TerminalStates
<1> QED  BY <1>1, EngineInvariant, PTL

\* What an export with a byte budget has made visible never exceeds it, the bytes a
\* part grows by when its writer closes included (publish in export.rs).
THEOREM BudgetsHold == EngineSpec => []BudgetHolds
<1>1. EngineInv => BudgetHolds
  BY DEF EngineInv, ExportInv, WithinBudgets, BudgetHolds, Output!BudgetHolds, Output!Bytes
<1> QED  BY <1>1, EngineInvariant, PTL

================================================================================
