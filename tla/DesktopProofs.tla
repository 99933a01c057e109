----------------------------- MODULE DesktopProofs -----------------------------
(***************************************************************************)
(* Theorems about the parts of the desktop that MCDesktop puts side by     *)
(* side, for every set of projects, paths, threads, settings, executions   *)
(* and clicks and for every bound: projects, the engine's sessions and     *)
(* editor tabs.  What the desktop keeps up for agents has its theorems in  *)
(* DesktopAgentsProofs.                                                    *)
(***************************************************************************)
EXTENDS MCDesktop, Sequences, FiniteSetTheorems, SequenceTheorems, TLAPS

--------------------------------------------------------------------------------
(* Projects: the engine's session is the active project's.                 *)

\* A path as the commands put it together from a folder and a name.
AnyPath == (Folders \cup {None}) \X (Names \cup {None})
Deeds == {"open", "open new", "record", "record new", "close", "check", "move", "update", "stage",
          "forget", "forget staged", "delete"}
Steps == [do : Deeds, id : Ids \cup {None}, path : AnyPath, to : AnyPath]
Recording == {"record", "record new"}

ProjectShape ==
    /\ agenda \in [Callers -> Seq(Steps)]
    /\ lock \in Callers \cup {None}
    /\ record \in [Ids -> [there : BOOLEAN, path : AnyPath, managed : BOOLEAN]]

\* Who is between opening the session and recording the project holds the lock: no other
\* project is active meanwhile and the session is of the path that will be recorded.
RecorderHoldsLock ==
    /\ \A t \in Callers : \A n \in 1..Len(agenda[t]) :
          agenda[t][n].do \in Recording => n = 1 /\ lock = t
    /\ \A t \in Callers : lock = t =>
          /\ agenda[t] # <<>> /\ agenda[t][1].do \in Recording
          /\ active = Project!NoProject /\ session = agenda[t][1].path

ProjectInv ==
    /\ ProjectShape
    /\ RecorderHoldsLock
    /\ active # Project!NoProject /\ session # Project!Nowhere => session = active.path

LEMMA ProjectStart == Project!ProjectInit => ProjectInv
<1> SUFFICES ASSUME Project!ProjectInit PROVE ProjectInv
  OBVIOUS
<1>1. active = Project!NoProject /\ lock = None /\ agenda = [t \in Callers |-> <<>>]
  BY DEF Project!ProjectInit
<1>2. record \in [Ids -> [there : BOOLEAN, path : AnyPath, managed : BOOLEAN]]
  <2>1. Project!NoRecord \in [there : BOOLEAN, path : AnyPath, managed : BOOLEAN]
    BY DEF Project!NoRecord, AnyPath, Project!Nowhere
  <2>2. Project!Paths \subseteq AnyPath
    BY DEF Project!Paths, AnyPath
  <2> HIDE DEF AnyPath, Project!NoRecord, Project!Paths
  <2> QED  BY <2>1, <2>2 DEF Project!ProjectInit
<1>3. ProjectShape
  BY <1>1, <1>2 DEF ProjectShape
<1>4. RecorderHoldsLock
  BY <1>1, ProjectConstants DEF RecorderHoldsLock
<1> QED  BY <1>1, <1>3, <1>4 DEF ProjectInv

\* A thread that is not recording goes on with steps that record nothing.
Harmless(s) == s \in Seq(Steps) /\ \A n \in 1..Len(s) : s[n].do \notin Recording
NotRecording(t) == agenda[t] = <<>> \/ agenda[t][1].do \notin Recording

LEMMA HarmlessTurn ==
  ASSUME ProjectInv, NEW t \in Callers, NEW s, Harmless(s), NotRecording(t),
         agenda' = [agenda EXCEPT ![t] = s], lock' = lock,
         record' \in [Ids -> [there : BOOLEAN, path : AnyPath, managed : BOOLEAN]],
         UNCHANGED <<active, session>> \/ (lock = None /\ session' = Project!Nowhere)
  PROVE  ProjectInv'
<1> USE DEF ProjectInv, ProjectShape
<1>1. ProjectShape'
  BY DEF Harmless
<1>2. /\ agenda'[t] = s
      /\ \A u \in Callers : u # t => agenda'[u] = agenda[u]
  OBVIOUS
<1>3. lock # t
  BY DEF RecorderHoldsLock, NotRecording
<1>4. ASSUME NEW u \in Callers, NEW n \in 1..Len(agenda'[u]), agenda'[u][n].do \in Recording
      PROVE  n = 1 /\ lock' = u
  BY <1>2, <1>4 DEF RecorderHoldsLock, Harmless
<1>5. ASSUME NEW u \in Callers, lock' = u
      PROVE  /\ agenda'[u] # <<>> /\ agenda'[u][1].do \in Recording
             /\ active' = Project!NoProject /\ session' = agenda'[u][1].path
  BY <1>2, <1>3, <1>5, ProjectConstants DEF RecorderHoldsLock
<1>6. RecorderHoldsLock'
  BY <1>4, <1>5 DEF RecorderHoldsLock
<1> QED  BY <1>1, <1>6

LEMMA HarmlessRest ==
  ASSUME ProjectInv, NEW t \in Callers, agenda[t] # <<>>, NEW s, Harmless(s)
  PROVE  Harmless(s \o Tail(agenda[t]))
<1> DEFINE a == agenda[t]
<1>1. a \in Seq(Steps) /\ \A n \in 2..Len(a) : a[n].do \notin Recording
  BY DEF ProjectInv, ProjectShape, RecorderHoldsLock
<1>2. Tail(a) \in Seq(Steps) /\ Len(Tail(a)) = Len(a) - 1 /\ \A n \in 1..Len(Tail(a)) : Tail(a)[n] = a[n + 1]
  BY <1>1
<1>3. Harmless(Tail(a))
  BY <1>1, <1>2 DEF Harmless
<1>4. PICK b : b = Tail(a)
  OBVIOUS
<1>5. s \in Seq(Steps) /\ b \in Seq(Steps)
  BY <1>3, <1>4 DEF Harmless
<1>6. s \o b \in Seq(Steps) /\ Len(s \o b) = Len(s) + Len(b)
  BY <1>5
<1>7. ASSUME NEW n \in 1..Len(s \o b) PROVE (s \o b)[n].do \notin Recording
  <2>1. CASE n <= Len(s)
    <3>1. n \in 1..Len(s) /\ (s \o b)[n] = s[n]
      BY <1>5, <1>6, <2>1
    <3> QED  BY <3>1 DEF Harmless
  <2>2. CASE n > Len(s)
    <3>1. n - Len(s) \in 1..Len(b) /\ (s \o b)[n] = b[n - Len(s)]
      BY <1>5, <1>6, <2>2
    <3> QED  BY <3>1, <1>3, <1>4 DEF Harmless
  <2> QED  BY <1>5, <1>6, <2>1, <2>2
<1> QED  BY <1>4, <1>6, <1>7 DEF Harmless

Records == [there : BOOLEAN, path : AnyPath, managed : BOOLEAN]

\* What Idle and Doing say of an agenda; single steps are harmless.
LEMMA Standing ==
  ASSUME ProjectInv, NEW t \in Callers
  PROVE  /\ Project!Idle(t) <=> agenda[t] = <<>>
         /\ \A do : Project!Doing(t, do) <=> agenda[t] # <<>> /\ agenda[t][1].do = do
         /\ agenda[t] # <<>> => Project!Now(t) = agenda[t][1] /\ agenda[t][1] \in Steps
<1>1. agenda[t] \in Seq(Steps)
  BY DEF ProjectInv, ProjectShape
<1>2. agenda[t] # <<>> => Head(agenda[t]) = agenda[t][1] /\ agenda[t][1] \in Steps
  BY <1>1
<1> QED  BY <1>1, <1>2 DEF Project!Idle, Project!Doing, Project!Now

LEMMA HarmlessSteps ==
    /\ Harmless(<<>>)
    /\ \A x \in Steps : x.do \notin Recording => Harmless(<<x>>)
    /\ \A x, y \in Steps : x.do \notin Recording /\ y.do \notin Recording => Harmless(<<x, y>>)
BY DEF Harmless

LEMMA PathTypes ==
    /\ Project!Nowhere \in AnyPath /\ Project!Paths \subseteq AnyPath
    /\ \A q \in AnyPath : \A n \in Names : <<q[1], n>> \in AnyPath
BY DEF AnyPath, Project!Nowhere, Project!Paths

\* Commands begin with steps that record nothing.
LEMMA CommandsBegin ==
  ASSUME ProjectInv, NEW t \in Callers,
         \/ \E f \in Folders : Project!Create(t, f)
         \/ \E i \in Ids : Project!Reopen(t, i) \/ Project!Rename(t, i) \/ Project!Remove(t, i)
         \/ Project!CloseProject(t)
  PROVE  ProjectInv'
<1>1. UNCHANGED <<record, lock, active, session>> /\ Project!Idle(t)
  BY DEF Project!Create, Project!Reopen, Project!Rename, Project!Remove, Project!CloseProject,
         Project!CommandOn, Project!Command, Project!stored, Project!engine
<1>2. NotRecording(t) /\ record \in [Ids -> Records]
  BY <1>1, Standing DEF NotRecording, ProjectInv, ProjectShape, Records
<1>3. \A i \in Ids : record[i].path \in AnyPath
  BY <1>2 DEF Records
<1> SUFFICES \E s : Harmless(s) /\ agenda' = [agenda EXCEPT ![t] = s]
  <2>1. PICK s : Harmless(s) /\ agenda' = [agenda EXCEPT ![t] = s]
    OBVIOUS
  <2> QED  BY <2>1, <1>1, <1>2, HarmlessTurn DEF Records
<1>4. ASSUME NEW f \in Folders, Project!Create(t, f)
      PROVE  \E s : Harmless(s) /\ agenda' = [agenda EXCEPT ![t] = s]
  <2>1. PICK n \in Names : agenda' = [agenda EXCEPT ![t] = <<Project!Step("open new", None, <<f, n>>)>>]
    BY <1>4 DEF Project!Create, Project!Begin
  <2>2. <<f, n>> \in AnyPath
    BY DEF AnyPath
  <2>3. Project!Step("open new", None, <<f, n>>) \in Steps /\ Project!Step("open new", None, <<f, n>>).do = "open new"
    BY <2>2, PathTypes DEF Deeds, Steps, Project!Step
  <2>4. Harmless(<<Project!Step("open new", None, <<f, n>>)>>)
    BY <2>3, HarmlessSteps DEF Recording
  <2> QED  BY <2>1, <2>4
<1>5. ASSUME NEW i \in Ids, Project!Reopen(t, i)
      PROVE  \E s : Harmless(s) /\ agenda' = [agenda EXCEPT ![t] = s]
  <2>1. agenda' = [agenda EXCEPT ![t] = <<Project!Step("open", i, record[i].path)>>]
    BY <1>5 DEF Project!Reopen, Project!Begin
  <2>2. Project!Step("open", i, record[i].path) \in Steps /\ Project!Step("open", i, record[i].path).do = "open"
    BY <1>3, PathTypes DEF Deeds, Steps, Project!Step
  <2>3. Harmless(<<Project!Step("open", i, record[i].path)>>)
    BY <2>2, HarmlessSteps DEF Recording
  <2> QED  BY <2>1, <2>3
<1>6. ASSUME NEW i \in Ids, Project!Rename(t, i)
      PROVE  \E s : Harmless(s) /\ agenda' = [agenda EXCEPT ![t] = s]
  <2>1. PICK q \in AnyPath, do \in {"move", "update"} :
          agenda' = [agenda EXCEPT ![t] = <<Project!Step("check", i, record[i].path), Project!To(do, i, record[i].path, q)>>]
    <3>1. CASE record[i].managed
      BY <3>1, <1>6, <1>3, PathTypes DEF Project!Rename, Project!Begin
    <3>2. CASE ~record[i].managed
      BY <3>2, <1>6, <1>3 DEF Project!Rename, Project!Begin
    <3> QED  BY <3>1, <3>2
  <2>2. /\ Project!Step("check", i, record[i].path) \in Steps /\ Project!Step("check", i, record[i].path).do = "check"
        /\ Project!To(do, i, record[i].path, q) \in Steps /\ Project!To(do, i, record[i].path, q).do = do
    BY <1>3, PathTypes DEF Deeds, Steps, Project!Step, Project!To
  <2>3. Harmless(<<Project!Step("check", i, record[i].path), Project!To(do, i, record[i].path, q)>>)
    BY <2>2, HarmlessSteps DEF Recording
  <2> QED  BY <2>1, <2>3
<1>7. ASSUME NEW i \in Ids, Project!Remove(t, i)
      PROVE  \E s : Harmless(s) /\ agenda' = [agenda EXCEPT ![t] = s]
  <2>1. PICK do \in {"stage", "forget"} :
          agenda' = [agenda EXCEPT ![t] = <<Project!Step("check", i, record[i].path), Project!Step(do, i, record[i].path)>>]
    BY <1>7 DEF Project!Remove, Project!Begin
  <2>2. /\ Project!Step("check", i, record[i].path) \in Steps /\ Project!Step("check", i, record[i].path).do = "check"
        /\ Project!Step(do, i, record[i].path) \in Steps /\ Project!Step(do, i, record[i].path).do = do
    BY <1>3, PathTypes DEF Deeds, Steps, Project!Step, Project!To
  <2>3. Harmless(<<Project!Step("check", i, record[i].path), Project!Step(do, i, record[i].path)>>)
    BY <2>2, HarmlessSteps DEF Recording
  <2> QED  BY <2>1, <2>3
<1>8. ASSUME Project!CloseProject(t)
      PROVE  \E s : Harmless(s) /\ agenda' = [agenda EXCEPT ![t] = s]
  <2>1. agenda' = [agenda EXCEPT ![t] = <<Project!Step("close", None, Project!Nowhere)>>]
    BY <1>8 DEF Project!CloseProject, Project!Begin
  <2>2. Project!Step("close", None, Project!Nowhere) \in Steps /\ Project!Step("close", None, Project!Nowhere).do = "close"
    BY PathTypes DEF Deeds, Steps, Project!Step
  <2>3. Harmless(<<Project!Step("close", None, Project!Nowhere)>>)
    BY <2>2, HarmlessSteps DEF Recording
  <2> QED  BY <2>1, <2>3
<1> QED  BY <1>4, <1>5, <1>6, <1>7, <1>8

\* The steps of a command that neither open a session nor record a project.
LEMMA TurnsAreHarmless ==
  ASSUME ProjectInv, NEW t \in Callers,
         \/ Project!Close(t) \/ Project!CheckActive(t) \/ Project!Move(t) \/ Project!Update(t)
         \/ Project!Stage(t) \/ Project!Forget(t) \/ Project!DeleteStaged(t)
  PROVE  ProjectInv'
<1> DEFINE Goes == \E s : Harmless(s) /\ agenda' = [agenda EXCEPT ![t] = s]
           Here(do) == agenda[t] # <<>> /\ agenda[t][1].do = do
<1>1. ASSUME Goes, NEW do \in Deeds \ Recording, Here(do), lock' = lock, record' \in [Ids -> Records],
             UNCHANGED <<active, session>> \/ (lock = None /\ session' = Project!Nowhere)
      PROVE  ProjectInv'
  <2>1. NotRecording(t)
    BY <1>1 DEF NotRecording
  <2> QED  BY <2>1, <1>1, HarmlessTurn DEF Records
<1>2. /\ record \in [Ids -> Records]
      /\ agenda[t] # <<>> => Project!Now(t) = agenda[t][1] /\ agenda[t][1] \in Steps
      /\ \A do : Project!Doing(t, do) => Here(do)
  BY Standing DEF ProjectInv, ProjectShape, Records
<1>3. Project!Ends(t) => Goes
  BY HarmlessSteps DEF Project!Ends
<1>4. agenda[t] # <<>> /\ Project!Then(t, <<>>) => Goes
  BY HarmlessSteps, HarmlessRest DEF Project!Then
<1>5. \A x \in Steps : agenda[t] # <<>> /\ x.do \notin Recording /\ Project!Then(t, <<x>>) => Goes
  <2> SUFFICES ASSUME NEW x \in Steps, agenda[t] # <<>>, x.do \notin Recording, Project!Then(t, <<x>>) PROVE Goes
    OBVIOUS
  <2>1. Harmless(<<x>>)
    BY HarmlessSteps
  <2>2. Harmless(<<x>> \o Tail(agenda[t]))
    BY <2>1, HarmlessRest
  <2> QED  BY <2>2 DEF Project!Then
<1> HIDE DEF Goes, Here
<1>6. CASE Project!Close(t)
  <2>1. Here("close") /\ lock = None /\ UNCHANGED <<record, lock>>
    BY <1>6, <1>2 DEF Project!Close, Project!stored
  <2>2. UNCHANGED <<active, session>> \/ session' = Project!Nowhere
    BY <1>6 DEF Project!Close, Project!engine
  <2>3. Goes
    BY <1>6, <2>1, <1>3, <1>4 DEF Project!Close, Here
  <2> QED  BY <2>1, <2>2, <2>3, <1>1, <1>2 DEF Deeds, Recording
<1>7. CASE Project!CheckActive(t)
  <2>1. Here("check") /\ UNCHANGED <<record, lock, active, session>>
    BY <1>7, <1>2 DEF Project!CheckActive, Project!stored, Project!engine
  <2>2. Project!Step("close", Project!Now(t).id, Project!Nowhere) \in Steps
        /\ Project!Step("close", Project!Now(t).id, Project!Nowhere).do = "close"
    BY <2>1, <1>2, PathTypes DEF Here, Steps, Deeds, Project!Step
  <2>3. Goes
    BY <1>7, <2>1, <2>2, <1>4, <1>5 DEF Project!CheckActive, Here, Recording
  <2> QED  BY <2>1, <2>3, <1>1, <1>2 DEF Deeds, Recording
<1>8. CASE Project!Move(t)
  <2>1. Here("move") /\ UNCHANGED <<record, lock, active, session>>
    BY <1>8, <1>2 DEF Project!Move, Project!engine
  <2>2. [Project!Now(t) EXCEPT !.do = "update"] \in Steps /\ [Project!Now(t) EXCEPT !.do = "update"].do = "update"
    BY <2>1, <1>2 DEF Here, Steps, Deeds
  <2>3. Project!Ends(t) \/ Project!Then(t, <<[Project!Now(t) EXCEPT !.do = "update"]>>)
    BY <1>8 DEF Project!Move
  <2>4. Goes
    BY <2>1, <2>2, <2>3, <1>3, <1>5 DEF Here, Recording
  <2> QED  BY <2>1, <2>4, <1>1, <1>2 DEF Deeds, Recording
<1>9. CASE Project!Update(t)
  <2>1. Here("update") /\ UNCHANGED <<lock, active, session>> /\ Goes
    BY <1>9, <1>2, <1>3 DEF Project!Update, Project!engine
  <2>2. Project!Now(t).to \in AnyPath
    BY <2>1, <1>2 DEF Here, Steps
  <2>3. \/ UNCHANGED record
        \/ record' = [record EXCEPT ![Project!Now(t).id].path = Project!Now(t).to]
    BY <1>9 DEF Project!Update
  <2>4. record' \in [Ids -> Records]
    BY <2>2, <2>3, <1>2 DEF Records
  <2> QED  BY <2>1, <2>4, <1>1 DEF Deeds, Recording
<1>10. CASE Project!Stage(t)
  <2>1. Here("stage") /\ UNCHANGED <<record, lock, active, session>>
    BY <1>10, <1>2 DEF Project!Stage, Project!engine
  <2>2. Project!Step("forget staged", Project!Now(t).id, Project!Now(t).path) \in Steps
        /\ Project!Step("forget staged", Project!Now(t).id, Project!Now(t).path).do = "forget staged"
    BY <2>1, <1>2, PathTypes DEF Here, Steps, Deeds, Project!Step
  <2>3. Goes
    BY <1>10, <2>1, <2>2, <1>3, <1>5 DEF Project!Stage, Here, Recording
  <2> QED  BY <2>1, <2>3, <1>1, <1>2 DEF Deeds, Recording
<1>11. CASE Project!Forget(t)
  <2>1. PICK do \in {"forget", "forget staged"} : Here(do)
    BY <1>11, <1>2 DEF Project!Forget
  <2>2. Project!Step("delete", Project!Now(t).id, Project!Now(t).path) \in Steps
        /\ Project!Step("delete", Project!Now(t).id, Project!Now(t).path).do = "delete"
    BY <2>1, <1>2, PathTypes DEF Here, Steps, Deeds, Project!Step
  <2>3. Goes
    BY <1>11, <2>1, <2>2, <1>3, <1>4, <1>5 DEF Project!Forget, Here, Recording
  <2>4. UNCHANGED record \/ record' = [record EXCEPT ![Project!Now(t).id] = Project!NoRecord]
    BY <1>11 DEF Project!Forget
  <2>5. record' \in [Ids -> Records]
    <3>1. Project!NoRecord \in Records
      BY PathTypes DEF Records, Project!NoRecord
    <3> QED  BY <2>4, <3>1, <1>2
  <2>6. UNCHANGED <<lock, active, session>>
    BY <1>11 DEF Project!Forget, Project!engine
  <2> QED  BY <2>1, <2>3, <2>5, <2>6, <1>1 DEF Deeds, Recording
<1>12. CASE Project!DeleteStaged(t)
  <2>1. Here("delete") /\ UNCHANGED <<record, lock, active, session>> /\ Goes
    BY <1>12, <1>2, <1>3 DEF Project!DeleteStaged, Project!engine
  <2> QED  BY <2>1, <1>1, <1>2 DEF Deeds, Recording
<1> QED  BY <1>6, <1>7, <1>8, <1>9, <1>10, <1>11, <1>12

\* Opening takes the lock together with the session.
LEMMA OpenTakesTheLock ==
  ASSUME ProjectInv, NEW t \in Callers, Project!Open(t)
  PROVE  ProjectInv'
<1>1. /\ agenda[t] # <<>> /\ agenda[t] \in Seq(Steps) /\ agenda[t][1] \in Steps
      /\ agenda[t][1].do \in {"open", "open new"} /\ Project!Now(t) = agenda[t][1]
  BY Standing DEF Project!Open, Project!Opens, ProjectInv, ProjectShape
<1>2. lock = None /\ UNCHANGED record
  BY DEF Project!Open
<1>3. CASE Project!Ends(t) /\ UNCHANGED <<active, session, lock>>
  <2>1. NotRecording(t) /\ record' \in [Ids -> Records]
    BY <1>1, <1>2 DEF NotRecording, Recording, ProjectInv, ProjectShape, Records
  <2>2. agenda' = [agenda EXCEPT ![t] = <<>>]
    BY <1>3 DEF Project!Ends
  <2> QED  BY <1>3, <2>1, <2>2, HarmlessSteps, HarmlessTurn DEF Records
<1>4. CASE /\ active = Project!NoProject /\ UNCHANGED active
           /\ session' = agenda[t][1].path /\ lock' = t
           /\ agenda' = [agenda EXCEPT ![t][1].do = IF @ = "open" THEN "record" ELSE "record new"]
  <2>1. PICK x \in Steps : /\ x.do \in Recording /\ x.path = agenda[t][1].path
                           /\ x = [agenda[t][1] EXCEPT !.do = IF agenda[t][1].do = "open" THEN "record" ELSE "record new"]
    <3>1. [agenda[t][1] EXCEPT !.do = IF agenda[t][1].do = "open" THEN "record" ELSE "record new"] \in Steps
      BY <1>1 DEF Steps, Deeds
    <3> QED  BY <3>1, <1>1 DEF Recording, Steps
  <2>2. PICK a : a = agenda[t]
    OBVIOUS
  <2>3. agenda' = [agenda EXCEPT ![t] = [a EXCEPT ![1] = x]]
    BY <1>4, <2>1, <2>2 DEF ProjectInv, ProjectShape
  <2>4. PICK b : b = [a EXCEPT ![1] = x]
    OBVIOUS
  <2>5. /\ b \in Seq(Steps) /\ Len(b) = Len(a) /\ Len(a) \in Nat \ {0}
        /\ b[1] = x /\ \A n \in 2..Len(a) : b[n] = a[n]
    <3>1. a \in Seq(Steps) /\ Len(a) \in Nat \ {0} /\ 1 \in 1..Len(a)
      <4>1. a \in Seq(Steps) /\ a # <<>>
        BY <1>1, <2>2
      <4>2. Len(a) \in Nat \ {0}
        BY ONLY <4>1, EmptySeq
      <4> QED  BY <4>1, <4>2
    <3>2. /\ b \in Seq(Steps) /\ Len(b) = Len(a)
          /\ \A n \in 1..Len(a) : b[n] = IF n = 1 THEN x ELSE a[n]
      <4>1. x \in Steps
        BY <2>1
      <4> QED  BY ONLY <3>1, <4>1, <2>4, ExceptSeq
    <3> QED  BY <3>1, <3>2
  <2>6. agenda'[t] = b /\ \A u \in Callers : u # t => agenda'[u] = agenda[u]
    BY <2>3, <2>4 DEF ProjectInv, ProjectShape
  <2>7. ProjectShape'
    BY <2>3, <2>4, <2>5, <1>2, <1>4 DEF ProjectInv, ProjectShape
  <2>8. ASSUME NEW u \in Callers, NEW n \in 1..Len(agenda'[u]), agenda'[u][n].do \in Recording
        PROVE  n = 1 /\ lock' = u
    <3>1. CASE u # t
      <4>1. agenda[u][n].do \in Recording /\ n \in 1..Len(agenda[u])
        BY <2>6, <2>8, <3>1
      <4>2. lock = u
        BY <4>1 DEF ProjectInv, RecorderHoldsLock
      <4> QED  BY <4>2, <1>2, ProjectConstants
    <3>2. CASE u = t
      <4>1. Len(a) \in Nat /\ n \in 1..Len(a)
        BY <2>5, <2>6, <2>8, <3>2
      <4>2. n # 1 => agenda[t][n].do \in Recording
        BY <2>2, <2>5, <2>6, <2>8, <3>2, <4>1
      <4>3. n = 1
        BY <4>1, <4>2, <2>2 DEF ProjectInv, RecorderHoldsLock
      <4> QED  BY <4>3, <3>2, <1>4
    <3> QED  BY <3>1, <3>2
  <2>9. b # <<>> /\ b[1] = x
    BY <2>5
  <2>10. ASSUME NEW u \in Callers, lock' = u
         PROVE  /\ agenda'[u] # <<>> /\ agenda'[u][1].do \in Recording
                /\ active' = Project!NoProject /\ session' = agenda'[u][1].path
    BY <2>1, <2>6, <2>9, <2>10, <1>4
  <2>11. RecorderHoldsLock'
    BY <2>8, <2>10 DEF RecorderHoldsLock
  <2> QED  BY <2>7, <2>11, <1>4 DEF ProjectInv
<1>5. \/ Project!Ends(t) /\ UNCHANGED <<active, session, lock>>
      \/ /\ active = Project!NoProject /\ UNCHANGED active
         /\ session' = agenda[t][1].path /\ lock' = t
         /\ agenda' = [agenda EXCEPT ![t][1].do = IF @ = "open" THEN "record" ELSE "record new"]
  <2>1. CASE Project!AlreadyOpen
    BY <2>1 DEF Project!Open, Project!engine
  <2>2. CASE ~Project!AlreadyOpen
    BY <2>2, <1>1 DEF Project!Open, Project!engine, Project!AlreadyOpen
  <2> QED  BY <2>1, <2>2
<1> QED  BY <1>3, <1>4, <1>5

\* Recording makes the project of the session's path the active one, or none.
LEMMA RecordReleasesTheLock ==
  ASSUME ProjectInv, NEW t \in Callers, Project!Record(t)
  PROVE  ProjectInv'
<1>1. agenda[t] # <<>> /\ agenda[t][1] \in Steps /\ Project!Now(t) = agenda[t][1]
      /\ agenda[t][1].do \in Recording
  BY Standing DEF Project!Record, Recording
<1>2. lock = t /\ session = agenda[t][1].path /\ active = Project!NoProject
  <2>1. 1 \in 1..Len(agenda[t])
    BY <1>1 DEF ProjectInv, ProjectShape
  <2> QED  BY <1>1, <2>1 DEF ProjectInv, RecorderHoldsLock
<1>3. lock' = None /\ agenda' = [agenda EXCEPT ![t] = <<>>] /\ UNCHANGED session
  BY DEF Project!Record, Project!Ends, Project!engine
<1>4. \/ UNCHANGED <<record, active>>
      \/ \E i \in Project!Upsert(agenda[t][1].path), new \in BOOLEAN :
            /\ Project!Recorded(i, agenda[t][1].path, new)
            /\ active' = active \/ active'.path = agenda[t][1].path
  <2> DEFINE new == Project!Doing(t, "record new")
  <2>1. \/ UNCHANGED <<record, active>>
        \/ \E i \in Project!Upsert(agenda[t][1].path) :
            /\ Project!Recorded(i, agenda[t][1].path, new)
            /\ active' = [id |-> i, path |-> agenda[t][1].path] \/ UNCHANGED active
    BY <1>1 DEF Project!Record
  <2>2. new \in BOOLEAN
    BY DEF Project!Doing
  <2> HIDE DEF new
  <2> QED  BY <2>1, <2>2
<1>5. record' \in [Ids -> Records]
  <2>1. record \in [Ids -> Records] /\ agenda[t][1].path \in AnyPath
    BY <1>1 DEF ProjectInv, ProjectShape, Records, Steps
  <2>2. \/ UNCHANGED record
        \/ \E i \in Ids, new \in BOOLEAN : Project!Recorded(i, agenda[t][1].path, new)
    BY <1>4 DEF Project!Upsert, Project!Known
  <2>3. ASSUME NEW i \in Ids, NEW new \in BOOLEAN, Project!Recorded(i, agenda[t][1].path, new)
        PROVE  record' \in [Ids -> Records]
    BY <2>1, <2>3 DEF Project!Recorded, Records
  <2> QED  BY <2>1, <2>2, <2>3
<1>6. ProjectShape'
  BY <1>3, <1>5 DEF ProjectInv, ProjectShape, Records
<1>7. agenda'[t] = <<>> /\ \A u \in Callers : u # t => agenda'[u] = agenda[u]
  BY <1>3 DEF ProjectInv, ProjectShape
<1>8. RecorderHoldsLock'
  BY <1>2, <1>3, <1>7, ProjectConstants DEF ProjectInv, RecorderHoldsLock
<1> QED  BY <1>2, <1>3, <1>4, <1>6, <1>8 DEF ProjectInv

LEMMA ProjectStep == ProjectInv /\ Project!ProjectNext => ProjectInv'
<1> SUFFICES ASSUME ProjectInv, Project!ProjectNext PROVE ProjectInv'
  OBVIOUS
<1>1. ASSUME UNCHANGED <<record, agenda, lock, active, session>> PROVE ProjectInv'
  BY <1>1 DEF ProjectInv, ProjectShape, RecorderHoldsLock
<1>2. CASE Project!Reconnect
  BY <1>1, <1>2 DEF Project!Reconnect
<1>3. CASE Project!EngineDies
  BY <1>1, <1>3 DEF Project!EngineDies, Project!stored
<1>4. CASE Project!Restart
  <2>1. /\ active' = Project!NoProject /\ lock' = None /\ agenda' = [t \in Callers |-> <<>>] /\ UNCHANGED record
    BY <1>4 DEF Project!Restart, Project!stored
  <2>2. ProjectShape'
    BY <2>1 DEF ProjectInv, ProjectShape
  <2>3. RecorderHoldsLock'
    BY <2>1, ProjectConstants DEF RecorderHoldsLock
  <2> QED  BY <2>1, <2>2, <2>3 DEF ProjectInv
<1> QED  BY <1>2, <1>3, <1>4, CommandsBegin, TurnsAreHarmless, OpenTakesTheLock, RecordReleasesTheLock
         DEF Project!ProjectNext

--------------------------------------------------------------------------------
(* Projects: the data of a project is where its record says.               *)

\* A thread's command is about its last step; closing the project may come before it.
Busy(t) == agenda[t] # <<>>
Last(t) == agenda[t][Len(agenda[t])]
After(s) == s.do \in {"move", "update", "stage", "forget"} /\ (s.do = "update" => s.to = s.path)
Before(r) == r.do \in {"check", "close"}
InForm(a) ==
    \/ a = <<>>
    \/ \E s \in Steps : a = <<s>> /\ s.do # "check"
    \/ \E r, s \in Steps : a = <<r, s>> /\ Before(r) /\ After(s) /\ r.id = s.id

OnOwn == {"open", "record", "move", "update", "stage", "forget", "forget staged"}
OnNew == {"open new", "record new"}
\* What a thread may be about: a record it found, no other thread being about it, or a new
\* folder that no record and no other thread has.
Fine(t, s) ==
    /\ s.id # None => \A u \in Callers : u # t /\ Busy(u) => Last(u).id # s.id
    /\ s.do \in OnOwn =>
          /\ s.id \in Ids /\ record[s.id].there /\ record[s.id].path = s.path
          /\ s.do \in {"move", "update"} => s.to \in Project!Paths /\ s.to[1] = s.path[1]
    /\ s.do \in OnNew =>
          /\ s.path \in Project!Paths /\ s.id = None
          /\ \A i \in Ids : record[i].there => record[i].path[1] # s.path[1]
          /\ \A u \in Callers : u # t /\ Busy(u) /\ Last(u).do \in OnNew => Last(u).path[1] # s.path[1]
ThreadsFine ==
    /\ \A t \in Callers : InForm(agenda[t])
    /\ \A t \in Callers : Busy(t) => Fine(t, Last(t))
\* Every project has a folder of its own.
Apart ==
    /\ \A i \in Ids : record[i].there => record[i].path \in Project!Paths
    /\ \A i, j \in Ids : record[i].there /\ record[j].there /\ i # j => record[i].path[1] # record[j].path[1]

\* The data of a project is where its record says, under its new name while it is renamed,
\* and set aside while it is removed.
Holding == {"update", "forget staged"}
Holds(t, i) == Busy(t) /\ Last(t).id = i /\ Last(t).do \in Holding
DataOf(i) ==
    /\ \A t \in Callers : Holds(t, i) /\ Last(t).do = "update" => file[Last(t).to] = i
    /\ \A t \in Callers : Holds(t, i) /\ Last(t).do = "forget staged" => staged[i][Last(t).path[2]] = i
    /\ (\A t \in Callers : ~Holds(t, i)) => file[record[i].path] = i
DataThere == \A i \in born : record[i].there => DataOf(i)
FilesShape ==
    /\ DOMAIN file = Project!Paths /\ DOMAIN staged = Ids /\ born \subseteq Ids
FilesInv == FilesShape /\ ThreadsFine /\ Apart /\ DataThere
Tidy == ~overlapped /\ ~accident
TidyInv == Tidy => FilesInv

LEMMA OneStep == ASSUME NEW s PROVE Len(<<s>>) = 1 /\ <<s>> # <<>> /\ <<s>>[1] = s /\ Head(<<s>>) = s /\ Tail(<<s>>) = <<>>
OBVIOUS
LEMMA TwoMore == ASSUME NEW r, NEW s
                 PROVE  /\ Len(<<r, s>>) = 2 /\ <<r, s>> # <<>> /\ <<r, s>>[1] = r /\ <<r, s>>[2] = s
                        /\ Head(<<r, s>>) = r /\ Tail(<<r, s>>) = <<s>>
OBVIOUS
LEMMA OneBefore == ASSUME NEW r, NEW s
                   PROVE  /\ <<r>> \o <<>> = <<r>> /\ <<>> \o <<s>> = <<s>> /\ <<>> \o <<>> = <<>>
                          /\ <<r>> \o <<s>> = <<r, s>>
<1>1. <<r>> \o <<>> = <<r>> /\ <<>> \o <<s>> = <<s>> /\ <<>> \o <<>> = <<>>
  OBVIOUS
<1>2. <<r>> \o <<s>> = <<r, s>>
  <2> DEFINE u == <<r>> \o <<s>>
  <2>1. Len(u) = 2 /\ u[1] = r /\ u[2] = s /\ u \in Seq({r, s})
    OBVIOUS
  <2>2. Len(<<r, s>>) = 2 /\ <<r, s>> \in Seq({r, s})
    OBVIOUS
  <2>3. \A i \in 1..2 : u[i] = <<r, s>>[i]
    BY <2>1
  <2> QED  BY <2>1, <2>2, <2>3, SeqEqual
<1> QED  BY <1>1, <1>2

\* The first step of an agenda is of the same project as the last.
LEMMA Turning ==
    ASSUME ThreadsFine, NEW t \in Callers, Busy(t)
    PROVE  /\ Project!Now(t) \in Steps /\ Project!Now(t).id = Last(t).id /\ Last(t) \in Steps
           /\ \/ agenda[t] = <<Last(t)>> /\ Project!Now(t) = Last(t) /\ Tail(agenda[t]) = <<>> /\ Last(t).do # "check"
              \/ /\ agenda[t] = <<Project!Now(t), Last(t)>> /\ Before(Project!Now(t)) /\ After(Last(t))
                 /\ Tail(agenda[t]) = <<Last(t)>>
<1>1. CASE \E s \in Steps : agenda[t] = <<s>> /\ s.do # "check"
  <2>1. PICK s \in Steps : agenda[t] = <<s>> /\ s.do # "check"
    BY <1>1
  <2>2. Last(t) = s /\ Project!Now(t) = s /\ Tail(agenda[t]) = <<>>
    BY <2>1, OneStep DEF Last, Project!Now
  <2> QED  BY <2>1, <2>2
<1>2. CASE \E r, s \in Steps : agenda[t] = <<r, s>> /\ Before(r) /\ After(s) /\ r.id = s.id
  <2>1. PICK r, s \in Steps : agenda[t] = <<r, s>> /\ Before(r) /\ After(s) /\ r.id = s.id
    BY <1>2
  <2>2. Last(t) = s /\ Project!Now(t) = r /\ Tail(agenda[t]) = <<s>>
    BY <2>1, TwoMore DEF Last, Project!Now
  <2> QED  BY <2>1, <2>2
<1> QED  BY <1>1, <1>2 DEF ThreadsFine, InForm, Busy

LEMMA Becomes ==
    ASSUME NEW t \in Callers, DOMAIN agenda = Callers, NEW a, agenda' = [agenda EXCEPT ![t] = a]
    PROVE  /\ \A u \in Callers : u # t => agenda'[u] = agenda[u] /\ (Busy(u)' <=> Busy(u)) /\ Last(u)' = Last(u)
           /\ agenda'[t] = a /\ (Busy(t)' <=> a # <<>>) /\ Last(t)' = a[Len(a)]
           /\ \A s : a = <<s>> => Busy(t)' /\ Last(t)' = s
           /\ \A r, s : a = <<r, s>> => Busy(t)' /\ Last(t)' = s
BY OneStep, TwoMore DEF Busy, Last

LEMMA ThreadsTurn ==
    ASSUME ThreadsFine, NEW t \in Callers, DOMAIN agenda = Callers, NEW a, agenda' = [agenda EXCEPT ![t] = a],
           InForm(a), a # <<>> => Fine(t, a[Len(a)]), record' = record
    PROVE  ThreadsFine'
<1>0. /\ \A u \in Callers : u # t => agenda'[u] = agenda[u] /\ (Busy(u)' <=> Busy(u)) /\ Last(u)' = Last(u)
      /\ agenda'[t] = a /\ (Busy(t)' <=> a # <<>>) /\ Last(t)' = a[Len(a)]
  BY Becomes
<1>1. \A u \in Callers : InForm(agenda'[u])
  BY <1>0 DEF ThreadsFine
<1>2. ASSUME NEW u \in Callers, Busy(u)' PROVE Fine(u, Last(u))'
  <2>1. CASE u = t
    <3> DEFINE s == a[Len(a)]
    <3>1. Last(u)' = s /\ Fine(t, s) /\ u = t
      BY <1>0, <1>2, <2>1
    <3> HIDE DEF s
    <3>2. /\ s.id # None => \A v \in Callers : v # t /\ Busy(v)' => Last(v)'.id # s.id
          /\ s.do \in OnNew => \A v \in Callers : v # t /\ Busy(v)' /\ Last(v)'.do \in OnNew =>
                                        Last(v)'.path[1] # s.path[1]
      BY <1>0, <3>1 DEF Fine
    <3> QED  BY <3>1, <3>2 DEF Fine
  <2>2. CASE u # t
    <3>1. Busy(u) /\ Last(u)' = Last(u) /\ Fine(u, Last(u))
      BY <1>0, <1>2, <2>2 DEF ThreadsFine
    <3>2. /\ Last(u).id # None => \A v \in Callers : v # u /\ Busy(v)' => Last(v)'.id # Last(u).id
          /\ Last(u).do \in OnNew => \A v \in Callers : v # u /\ Busy(v)' /\ Last(v)'.do \in OnNew =>
                                        Last(v)'.path[1] # Last(u).path[1]
      <4>1. ASSUME NEW v \in Callers, v # u, Busy(v)'
            PROVE  /\ Last(u).id # None => Last(v)'.id # Last(u).id
                   /\ Last(u).do \in OnNew /\ Last(v)'.do \in OnNew => Last(v)'.path[1] # Last(u).path[1]
        <5>1. CASE v = t
          <6>1. Last(v)' = a[Len(a)] /\ Fine(t, a[Len(a)])
            BY <1>0, <4>1, <5>1
          <6> QED  BY <2>2, <3>1, <6>1 DEF Fine
        <5>2. CASE v # t
          <6>1. Busy(v) /\ Last(v)' = Last(v)
            BY <1>0, <4>1, <5>2
          <6> QED  BY <3>1, <4>1, <6>1 DEF Fine
        <5> QED  BY <5>1, <5>2
      <4> QED  BY <4>1
    <3> QED  BY <3>1, <3>2 DEF Fine
  <2> QED  BY <2>1, <2>2
<1> QED  BY <1>1, <1>2 DEF ThreadsFine, InForm

\* What a thread does to other projects than the one it works on.
LEMMA DataElsewhere ==
    ASSUME FilesInv, NEW t \in Callers, \A u \in Callers : u # t => agenda'[u] = agenda[u],
           NEW i \in born, record[i].there, record'[i].path = record[i].path,
           staged'[i] = staged[i] \/ \A u \in Callers : ~Holds(u, i),
           ~Holds(t, i), ~Holds(t, i)',
           \A p \in Project!Paths : p[1] = record[i].path[1] /\ file[p] = i => file'[p] = i
    PROVE  DataOf(i)'
<1>1. /\ i \in Ids /\ DataOf(i) /\ record[i].path \in Project!Paths
      /\ \A u \in Callers : u # t => (Holds(u, i)' <=> Holds(u, i)) /\ Last(u)' = Last(u)
  BY DEF FilesInv, FilesShape, DataThere, Apart, Holds, Busy, Last
<1>2. ASSUME NEW u \in Callers, Holds(u, i), Last(u).do = "update"
      PROVE  Last(u).to \in Project!Paths /\ Last(u).to[1] = record[i].path[1]
  BY <1>2 DEF FilesInv, ThreadsFine, Fine, Holds, OnOwn
<1>3. \A u \in Callers : Holds(u, i)' /\ Last(u)'.do = "update" => file'[Last(u)'.to] = i
  BY <1>1, <1>2 DEF DataOf
<1>4. ASSUME NEW u \in Callers, Holds(u, i)', Last(u)'.do = "forget staged"
      PROVE  staged'[i][Last(u)'.path[2]] = i
  <2>1. u # t /\ Holds(u, i) /\ Last(u)' = Last(u) /\ staged'[i] = staged[i]
    BY <1>1, <1>4
  <2>2. Last(u).do = "forget staged"
    BY <1>4, <2>1
  <2>3. staged[i][Last(u).path[2]] = i
    BY <1>1, <2>1, <2>2 DEF DataOf
  <2> QED  BY <2>1, <2>3
<1>5. (\A u \in Callers : ~Holds(u, i)') => file'[record'[i].path] = i
  BY <1>1 DEF DataOf
<1> QED  BY <1>3, <1>4, <1>5 DEF DataOf

\* A thread ends, or has only the folder it set aside to delete; the records the others
\* are about stay.
LEMMA ThreadsLeave ==
    ASSUME ThreadsFine, NEW t \in Callers, Busy(t), DOMAIN agenda = Callers,
           NEW a, agenda' = [agenda EXCEPT ![t] = a],
           a = <<>> \/ \E s \in Steps : a = <<s>> /\ s.do = "delete" /\ s.id = Last(t).id,
           \A u \in Callers : u # t /\ Busy(u) /\ Last(u).do \in OnOwn /\ Last(u).id \in Ids =>
                   /\ record'[Last(u).id].there = record[Last(u).id].there
                   /\ record'[Last(u).id].path = record[Last(u).id].path,
           \A u \in Callers : u # t /\ Busy(u) /\ Last(u).do \in OnNew =>
               \A i \in Ids : record'[i].there => record'[i].path[1] # Last(u).path[1]
    PROVE  ThreadsFine'
<1>0. /\ \A u \in Callers : u # t => agenda'[u] = agenda[u] /\ (Busy(u)' <=> Busy(u)) /\ Last(u)' = Last(u)
      /\ agenda'[t] = a /\ (Busy(t)' <=> a # <<>>)
      /\ \A s : a = <<s>> => Last(t)' = s
  BY Becomes
<1>1. InForm(a) /\ (Busy(t)' => Last(t)'.do = "delete" /\ Last(t)'.id = Last(t).id)
  BY <1>0 DEF InForm
<1>2. \A u \in Callers : InForm(agenda'[u])
  BY <1>0, <1>1 DEF ThreadsFine
<1>3. Fine(t, Last(t))
  BY DEF ThreadsFine
<1>4. ASSUME NEW u \in Callers, Busy(u)' PROVE Fine(u, Last(u))'
  <2>1. CASE u = t
    <3>1. \A v \in Callers : v # t /\ Busy(v)' /\ Last(t).id # None => Last(v)'.id # Last(t).id
      BY <1>0, <1>3 DEF Fine
    <3>2. Last(t)'.do \notin OnOwn /\ Last(t)'.do \notin OnNew /\ Last(t)'.id = Last(t).id
      BY <1>1, <1>4, <2>1 DEF OnOwn, OnNew
    <3> QED  BY <2>1, <3>1, <3>2 DEF Fine
  <2>2. CASE u # t
    <3>1. Busy(u) /\ Last(u)' = Last(u) /\ Fine(u, Last(u))
      BY <1>0, <1>4, <2>2 DEF ThreadsFine
    <3>2. ASSUME NEW v \in Callers, v # u, Busy(v)'
          PROVE  /\ Last(u).id # None => Last(v)'.id # Last(u).id
                 /\ Last(u).do \in OnNew /\ Last(v)'.do \in OnNew => Last(v)'.path[1] # Last(u).path[1]
      <4>1. CASE v = t
        <5>1. Last(v)'.do \notin OnNew /\ Last(v)'.id = Last(t).id
          BY <1>1, <3>2, <4>1 DEF OnNew
        <5> QED  BY <2>2, <3>1, <4>1, <5>1 DEF Fine
      <4>2. CASE v # t
        <5>1. Busy(v) /\ Last(v)' = Last(v)
          BY <1>0, <3>2, <4>2
        <5> QED  BY <3>1, <3>2, <5>1 DEF Fine
      <4> QED  BY <4>1, <4>2
    <3>3. Last(u).do \in OnOwn => /\ Last(u).id \in Ids /\ record'[Last(u).id].there
                                  /\ record'[Last(u).id].path = Last(u).path
      BY <2>2, <3>1 DEF Fine
    <3>4. Last(u).do \in OnNew => \A i \in Ids : record'[i].there => record'[i].path[1] # Last(u).path[1]
      BY <2>2, <3>1
    <3> QED  BY <3>1, <3>2, <3>3, <3>4 DEF Fine
  <2> QED  BY <2>1, <2>2
<1> QED  BY <1>2, <1>4 DEF ThreadsFine, InForm

LEMMA Ours ==
    ASSUME FilesInv, ProjectShape
    PROVE  /\ ThreadsFine /\ Apart /\ DOMAIN agenda = Callers /\ DOMAIN file = Project!Paths
           /\ \A i \in born : i \in Ids /\ i # None
           /\ \A i \in Ids : record[i].path \in AnyPath
           /\ \A t \in Callers : Busy(t) => Last(t) \in Steps /\ Fine(t, Last(t))
BY ProjectConstants, Turning DEF FilesInv, FilesShape, ProjectShape, ThreadsFine

\* A command on a known project that no other command is about.
LEMMA OwnBegins ==
    ASSUME FilesInv, ProjectShape, NEW t \in Callers, NEW i \in Ids, ~Busy(t), record[i].there,
           \A u \in Callers : Busy(u) => Last(u).id # i,
           NEW a, agenda' = [agenda EXCEPT ![t] = a], NEW s \in Steps,
           (a = <<s>> /\ s.do # "check") \/ \E r \in Steps : a = <<r, s>> /\ Before(r) /\ After(s) /\ r.id = s.id,
           s.id = i, s.path = record[i].path, s.do \in {"open", "move", "update", "stage", "forget"},
           s.do \in {"move", "update"} => s.to \in Project!Paths /\ s.to[1] = s.path[1],
           s.do = "update" => s.to = s.path,
           UNCHANGED <<record, file, staged, born>>
    PROVE  FilesInv'
<1>1. InForm(a) /\ a # <<>> /\ a[Len(a)] = s
  <2>1. CASE a = <<s>> /\ s.do # "check"
    BY <2>1, OneStep DEF InForm
  <2>2. CASE \E r \in Steps : a = <<r, s>> /\ Before(r) /\ After(s) /\ r.id = s.id
    <3>1. PICK r \in Steps : a = <<r, s>> /\ Before(r) /\ After(s) /\ r.id = s.id
      BY <2>2
    <3> QED  BY <3>1, TwoMore DEF InForm
  <2> QED  BY <2>1, <2>2
<1>2. Fine(t, s)
  BY DEF Fine, OnOwn, OnNew
<1>3. ThreadsFine'
  BY <1>1, <1>2, Ours, ThreadsTurn
<1>4. /\ \A u \in Callers : u # t => agenda'[u] = agenda[u] /\ (Busy(u)' <=> Busy(u)) /\ Last(u)' = Last(u)
      /\ Busy(t)' /\ Last(t)' = s
  <2>1. /\ \A u \in Callers : u # t => agenda'[u] = agenda[u] /\ (Busy(u)' <=> Busy(u)) /\ Last(u)' = Last(u)
        /\ (Busy(t)' <=> a # <<>>) /\ Last(t)' = a[Len(a)]
    BY Ours, Becomes
  <2> QED  BY <1>1, <2>1
<1>5. ASSUME NEW j \in born', record'[j].there PROVE DataOf(j)'
  <2>1. CASE j # i
    BY <1>4, <1>5, <2>1, DataElsewhere DEF Holds
  <2>2. CASE j = i
    <3>1. \A u \in Callers : ~Holds(u, i)
      BY DEF Holds
    <3>2. file[record[i].path] = i
      BY <1>5, <2>2, <3>1 DEF FilesInv, DataThere, DataOf
    <3>3. \A u \in Callers : Holds(u, i)' => u = t
      BY <1>4 DEF Holds
    <3> QED  BY <1>4, <2>2, <3>2, <3>3 DEF DataOf
  <2> QED  BY <2>1, <2>2
<1> QED  BY <1>3, <1>5 DEF FilesInv, FilesShape, Apart, DataThere

\* A thread is done, and what it was holding is where the record says.
LEMMA Done ==
    ASSUME FilesInv, ProjectShape, NEW t \in Callers, Busy(t), agenda' = [agenda EXCEPT ![t] = <<>>],
           UNCHANGED <<record, born>>, DOMAIN file' = Project!Paths, DOMAIN staged' = Ids,
           \A i \in born : record[i].there =>
               /\ Holds(t, i) => file'[record[i].path] = i
               /\ ~Holds(t, i) =>
                     /\ staged'[i] = staged[i] \/ Last(t).id = i
                     /\ \A p \in Project!Paths : p[1] = record[i].path[1] /\ file[p] = i => file'[p] = i
    PROVE  FilesInv'
<1>1. ThreadsFine'
  BY Ours, ThreadsTurn DEF InForm
<1>2. /\ \A u \in Callers : u # t => agenda'[u] = agenda[u] /\ (Busy(u)' <=> Busy(u)) /\ Last(u)' = Last(u)
      /\ ~Busy(t)'
  BY Ours, Becomes
<1>3. ASSUME NEW j \in born', record'[j].there PROVE DataOf(j)'
  <2>1. CASE ~Holds(t, j)
    <3>1. Last(t).id = j => \A u \in Callers : ~Holds(u, j)
      BY <1>3, <2>1, Ours DEF Holds, Fine
    <3> QED  BY <1>2, <1>3, <2>1, <3>1, DataElsewhere DEF Holds
  <2>2. CASE Holds(t, j)
    <3>1. \A u \in Callers : ~Holds(u, j)'
      <4>1. ASSUME NEW u \in Callers, Holds(u, j)' PROVE FALSE
        <5>1. u # t /\ Busy(u) /\ Last(u).id = j
          BY <1>2, <4>1 DEF Holds
        <5> QED  BY <1>3, <2>2, <5>1, Ours DEF Holds, Fine
      <4> QED  BY <4>1
    <3> QED  BY <1>3, <2>2, <3>1 DEF DataOf
  <2> QED  BY <2>1, <2>2
<1> QED  BY <1>1, <1>3 DEF FilesInv, FilesShape, Apart, DataThere

\* Threads go on about what they were.
LEMMA SameAims ==
    ASSUME FilesInv, ProjectShape, NEW t \in Callers, Busy(t), NEW a, agenda' = [agenda EXCEPT ![t] = a],
           \/ a = <<Last(t)>> /\ Last(t).do # "check"
           \/ \E r \in Steps : a = <<r, Last(t)>> /\ Before(r) /\ After(Last(t)) /\ r.id = Last(t).id,
           UNCHANGED <<record, file, staged, born>>
    PROVE  FilesInv'
<1>1. Last(t) \in Steps /\ Fine(t, Last(t))
  BY Ours
<1>2. InForm(a) /\ a # <<>> /\ a[Len(a)] = Last(t)
  BY <1>1, OneStep, TwoMore DEF InForm
<1>3. ThreadsFine'
  BY <1>1, <1>2, Ours, ThreadsTurn
<1>4. \A u \in Callers : (Busy(u)' <=> Busy(u)) /\ Last(u)' = Last(u)
  BY <1>2, Ours, Becomes
<1>5. DataThere'
  <2>1. ASSUME NEW j \in born', record'[j].there PROVE DataOf(j)'
    <3>1. DataOf(j) /\ \A u \in Callers : Holds(u, j)' <=> Holds(u, j)
      BY <1>4, <2>1 DEF FilesInv, DataThere, Holds
    <3>2. ASSUME NEW u \in Callers, Holds(u, j)', Last(u)'.do = "forget staged" PROVE staged'[j][Last(u)'.path[2]] = j
      <4>1. Last(u)' = Last(u) /\ Holds(u, j) /\ Last(u).do = "forget staged"
        BY <1>4, <3>1, <3>2
      <4>2. staged[j][Last(u).path[2]] = j
        BY <3>1, <4>1 DEF DataOf
      <4> QED  BY <4>1, <4>2
    <3> QED  BY <1>4, <3>1, <3>2 DEF DataOf
  <2> QED  BY <2>1 DEF DataThere
<1> QED  BY <1>3, <1>5 DEF FilesInv, FilesShape, Apart

\* Files that appear take nobody's data.
LEMMA FilesAppear ==
    ASSUME FilesInv, ProjectShape, UNCHANGED <<record, staged, born, agenda>>, NEW q, file' = Project!Opened(q)
    PROVE  FilesInv'
<1>1. DOMAIN file' = Project!Paths /\ \A p \in Project!Paths : file[p] # None => file'[p] = file[p]
  BY Ours DEF Project!Opened
<1>2. ThreadsFine' /\ Apart'
  BY DEF FilesInv, ThreadsFine, InForm, Fine, Busy, Last, Apart
<1>3. ASSUME NEW j \in born', record'[j].there PROVE DataOf(j)'
  <2>1. j \in Ids /\ j # None /\ record[j].path \in Project!Paths /\ DataOf(j)
    BY <1>3, Ours DEF FilesInv, DataThere, Apart
  <2>2. ASSUME NEW u \in Callers, Holds(u, j), Last(u).do = "update" PROVE Last(u).to \in Project!Paths
    BY <2>2, Ours DEF Fine, OnOwn, Holds
  <2> QED  BY <1>1, <2>1, <2>2 DEF DataOf, Holds, Busy, Last
<1> QED  BY <1>1, <1>2, <1>3 DEF FilesInv, FilesShape, DataThere

LEMMA FilesCommand ==
    ASSUME FilesInv, ProjectShape, NEW t \in Callers, NEW i \in Ids, ~overlapped', Project!CommandOn(t, i)
    PROVE  ~Busy(t) /\ record[i].there /\ \A u \in Callers : Busy(u) => Last(u).id # i
BY Ours, Turning DEF Project!CommandOn, Project!Command, Project!Idle, Busy

LEMMA FilesByReopen ==
    ASSUME FilesInv, ProjectShape, NEW t \in Callers, NEW i \in Ids, ~overlapped', Project!Reopen(t, i)
    PROVE  FilesInv'
<1> DEFINE s == Project!Step("open", i, record[i].path)
<1>1. /\ s \in Steps /\ s.do = "open" /\ s.id = i /\ s.path = record[i].path
      /\ agenda' = [agenda EXCEPT ![t] = <<s>>] /\ UNCHANGED <<record, file, staged, born>>
  BY Ours, PathTypes DEF Project!Reopen, Project!Begin, Project!Step, Project!stored, Steps, Deeds
<1>2. ~Busy(t) /\ record[i].there /\ \A u \in Callers : Busy(u) => Last(u).id # i
  BY FilesCommand DEF Project!Reopen
<1> HIDE DEF s
<1> QED  BY <1>1, <1>2, OwnBegins

LEMMA FilesByRename ==
    ASSUME FilesInv, ProjectShape, NEW t \in Callers, NEW i \in Ids, ~overlapped', Project!Rename(t, i)
    PROVE  FilesInv'
<1>1. ~Busy(t) /\ record[i].there /\ \A u \in Callers : Busy(u) => Last(u).id # i
  BY FilesCommand DEF Project!Rename
<1> DEFINE p == record[i].path
           r == Project!Step("check", i, p)
<1>2. /\ p \in Project!Paths /\ p \in AnyPath /\ r \in Steps /\ Before(r) /\ r.id = i
      /\ UNCHANGED <<record, file, staged, born>>
  BY <1>1, Ours, PathTypes DEF Apart, Project!Rename, Project!Step, Project!stored, Steps, Deeds, Before
<1>3. ASSUME NEW n \in Names, agenda' = [agenda EXCEPT ![t] = <<r, Project!To("move", i, p, <<p[1], n>>)>>]
      PROVE  FilesInv'
  <2> DEFINE s == Project!To("move", i, p, <<p[1], n>>)
  <2>1. <<p[1], n>> \in Project!Paths /\ <<p[1], n>> \in AnyPath
    BY <1>2, PathTypes DEF Project!Paths
  <2>2. /\ s \in Steps /\ s.do = "move" /\ s.id = i /\ s.path = p /\ s.to = <<p[1], n>> /\ After(s)
    BY <1>2, <2>1 DEF Project!To, Steps, Deeds, After
  <2>3. s.to \in Project!Paths /\ s.to[1] = s.path[1] /\ agenda' = [agenda EXCEPT ![t] = <<r, s>>]
    BY <1>3, <2>1, <2>2
  <2> HIDE DEF s, r
  <2> QED  BY <1>1, <1>2, <2>2, <2>3, OwnBegins
<1>4. ASSUME agenda' = [agenda EXCEPT ![t] = <<r, Project!To("update", i, p, p)>>]
      PROVE  FilesInv'
  <2> DEFINE s == Project!To("update", i, p, p)
  <2>1. /\ s \in Steps /\ s.do = "update" /\ s.id = i /\ s.path = p /\ s.to = p /\ After(s)
    BY <1>2 DEF Project!To, Steps, Deeds, After
  <2>2. agenda' = [agenda EXCEPT ![t] = <<r, s>>]
    BY <1>4
  <2> HIDE DEF s, r
  <2> QED  BY <1>1, <1>2, <2>1, <2>2, OwnBegins
<1> QED  BY <1>3, <1>4 DEF Project!Rename, Project!Begin

LEMMA FilesByRemove ==
    ASSUME FilesInv, ProjectShape, NEW t \in Callers, NEW i \in Ids, ~overlapped', Project!Remove(t, i)
    PROVE  FilesInv'
<1>1. ~Busy(t) /\ record[i].there /\ \A u \in Callers : Busy(u) => Last(u).id # i
  BY FilesCommand DEF Project!Remove
<1> DEFINE p == record[i].path
           r == Project!Step("check", i, p)
<1>2. /\ p \in AnyPath /\ r \in Steps /\ Before(r) /\ r.id = i
      /\ UNCHANGED <<record, file, staged, born>>
  BY Ours, PathTypes DEF Project!Remove, Project!Step, Project!stored, Steps, Deeds, Before
<1>3. ASSUME NEW do \in {"stage", "forget"}, agenda' = [agenda EXCEPT ![t] = <<r, Project!Step(do, i, p)>>]
      PROVE  FilesInv'
  <2> DEFINE s == Project!Step(do, i, p)
  <2>1. /\ s \in Steps /\ s.do = do /\ s.id = i /\ s.path = p /\ After(s)
    BY <1>2, PathTypes DEF Project!Step, Steps, Deeds, After
  <2>2. agenda' = [agenda EXCEPT ![t] = <<r, s>>]
    BY <1>3
  <2> HIDE DEF s, r
  <2> QED  BY <1>1, <1>2, <2>1, <2>2, OwnBegins
<1> QED  BY <1>3 DEF Project!Remove, Project!Begin

\* A new thread's aim, of a folder nobody has.
LEMMA FilesByCreate ==
    ASSUME FilesInv, ProjectShape, NEW t \in Callers, NEW f \in Folders, Project!Create(t, f)
    PROVE  FilesInv'
<1>1. PICK n \in Names : agenda' = [agenda EXCEPT ![t] = <<Project!Step("open new", None, <<f, n>>)>>]
  BY DEF Project!Create, Project!Begin
<1> DEFINE s == Project!Step("open new", None, <<f, n>>)
<1>2. /\ ~Busy(t) /\ UNCHANGED <<record, file, staged, born>>
      /\ \A i \in Ids : record[i].path[1] # f
  BY DEF Project!Create, Project!Command, Project!Idle, Busy, Project!stored
<1>3. ASSUME NEW u \in Callers, Busy(u), Last(u).do \in OnNew PROVE Last(u).path[1] # f
  <2>1. Project!Now(u).path[1] # f
    BY <1>3 DEF Project!Create, Project!Idle, Busy
  <2>2. Project!Now(u) = Last(u)
    BY <1>3, Ours, Turning DEF After, OnNew
  <2> QED  BY <2>1, <2>2
<1>4. <<f, n>> \in Project!Paths /\ <<f, n>> \in AnyPath
  BY DEF Project!Paths, AnyPath
<1>5. s \in Steps /\ s.do = "open new" /\ s.id = None /\ s.path = <<f, n>> /\ s.path[1] = f
  BY <1>4, PathTypes DEF Project!Step, Steps, Deeds
<1>6. agenda' = [agenda EXCEPT ![t] = <<s>>]
  BY <1>1
<1> HIDE DEF s
<1>7. Fine(t, s)
  BY <1>2, <1>3, <1>4, <1>5 DEF Fine, OnOwn, OnNew
<1>8. ThreadsFine'
  <2>1. InForm(<<s>>) /\ <<s>> # <<>> /\ <<s>>[Len(<<s>>)] = s
    BY <1>5, OneStep DEF InForm
  <2> QED  BY <1>2, <1>6, <1>7, <2>1, Ours, ThreadsTurn
<1>9. /\ \A u \in Callers : u # t => agenda'[u] = agenda[u]
      /\ Busy(t)' /\ Last(t)' = s
  BY <1>6, Ours, Becomes
<1>10. ASSUME NEW j \in born', record'[j].there PROVE DataOf(j)'
  BY <1>2, <1>5, <1>9, <1>10, DataElsewhere DEF Holds, Holding
<1> QED  BY <1>2, <1>8, <1>10 DEF FilesInv, FilesShape, Apart, DataThere

\* What one thread is about, in a folder of its own.
LEMMA OwnFolder ==
    ASSUME FilesInv, ProjectShape, NEW t \in Callers, Busy(t), Last(t).do \in OnOwn
    PROVE  /\ Last(t).id \in Ids /\ record[Last(t).id].there /\ record[Last(t).id].path = Last(t).path
           /\ Last(t).path \in Project!Paths
           /\ \A u \in Callers : u # t /\ Busy(u) => Last(u).id # Last(t).id
           /\ \A j \in Ids : record[j].there /\ j # Last(t).id => record[j].path[1] # Last(t).path[1]
BY ProjectConstants, Ours DEF Fine, Apart

LEMMA NewFolder ==
    ASSUME FilesInv, ProjectShape, NEW t \in Callers, Busy(t), Last(t).do \in OnNew
    PROVE  /\ Last(t).id = None /\ Last(t).path \in Project!Paths
           /\ \A j \in Ids : record[j].there => record[j].path[1] # Last(t).path[1]
BY Ours DEF Fine

LEMMA FilesByCloseProject ==
    ASSUME FilesInv, ProjectShape, NEW t \in Callers, Project!CloseProject(t)
    PROVE  FilesInv'
<1> DEFINE s == Project!Step("close", None, Project!Nowhere)
<1>1. /\ ~Busy(t) /\ agenda' = [agenda EXCEPT ![t] = <<s>>] /\ UNCHANGED <<record, file, staged, born>>
  BY DEF Project!CloseProject, Project!Command, Project!Idle, Busy, Project!stored, Project!Begin
<1>2. s \in Steps /\ s.do = "close" /\ s.id = None
  BY PathTypes DEF Project!Step, Steps, Deeds
<1> HIDE DEF s
<1>3. Fine(t, s) /\ InForm(<<s>>) /\ <<s>>[Len(<<s>>)] = s
  BY <1>2, OneStep DEF Fine, OnOwn, OnNew, InForm
<1>4. ThreadsFine'
  BY <1>1, <1>3, Ours, ThreadsTurn
<1>5. /\ \A u \in Callers : u # t => agenda'[u] = agenda[u]
      /\ Busy(t)' /\ Last(t)' = s
  BY <1>1, Ours, Becomes
<1>6. ASSUME NEW j \in born', record'[j].there PROVE DataOf(j)'
  BY <1>1, <1>2, <1>5, <1>6, DataElsewhere DEF Holds, Holding
<1> QED  BY <1>1, <1>4, <1>6 DEF FilesInv, FilesShape, Apart, DataThere

\* Closing and looking come before a command, or are all of it.
LEMMA FilesByFirst ==
    ASSUME FilesInv, ProjectShape, NEW t \in Callers, Busy(t), Before(Project!Now(t)),
           UNCHANGED <<record, file, staged, born>>,
           \/ agenda' = [agenda EXCEPT ![t] = <<>>]
           \/ agenda' = [agenda EXCEPT ![t] = Tail(agenda[t])]
           \/ /\ Project!Now(t).do = "check"
              /\ agenda' = [agenda EXCEPT
                     ![t] = <<Project!Step("close", Project!Now(t).id, Project!Nowhere)>> \o Tail(agenda[t])]
    PROVE  FilesInv'
<1>1. /\ Project!Now(t) \in Steps /\ Project!Now(t).id = Last(t).id /\ Last(t) \in Steps
      /\ \/ Tail(agenda[t]) = <<>> /\ Last(t) = Project!Now(t) /\ Last(t).do # "check"
         \/ Tail(agenda[t]) = <<Last(t)>> /\ After(Last(t))
  BY Ours, Turning
<1>2. CASE agenda' = [agenda EXCEPT ![t] = <<>>]
  <2>1. ASSUME NEW i \in born, record[i].there, Holds(t, i) PROVE file[record[i].path] = i
    <3>1. /\ Last(t).do \in Holding /\ Last(t).id = i /\ DataOf(i)
      BY <2>1 DEF Holds, FilesInv, DataThere
    <3>2. After(Last(t))
      BY <1>1, <3>1 DEF Before, Holding
    <3>3. Last(t).do = "update" /\ Last(t).to = Last(t).path
      BY <3>1, <3>2 DEF After, Holding
    <3>4. record[i].path = Last(t).path
      BY <3>1, <3>3, OwnFolder DEF OnOwn
    <3> QED  BY <2>1, <3>1, <3>3, <3>4 DEF DataOf
  <2> QED  BY <1>2, <2>1, Done DEF FilesInv, FilesShape
<1>3. CASE agenda' = [agenda EXCEPT ![t] = Tail(agenda[t])] /\ Tail(agenda[t]) # <<>>
  <2>1. Tail(agenda[t]) = <<Last(t)>> /\ Last(t).do # "check"
    BY <1>1, <1>3 DEF After
  <2> QED  BY <1>3, <2>1, SameAims
<1>4. CASE /\ Project!Now(t).do = "check"
           /\ agenda' = [agenda EXCEPT
                  ![t] = <<Project!Step("close", Project!Now(t).id, Project!Nowhere)>> \o Tail(agenda[t])]
  <2> DEFINE r == Project!Step("close", Project!Now(t).id, Project!Nowhere)
  <2>1. Tail(agenda[t]) = <<Last(t)>> /\ After(Last(t))
    BY <1>1, <1>4
  <2>2. r \in Steps /\ r.do = "close" /\ r.id = Last(t).id /\ Before(r)
    BY <1>1, PathTypes DEF Project!Step, Steps, Deeds, Before
  <2>3. agenda' = [agenda EXCEPT ![t] = <<r>> \o Tail(agenda[t])]
    BY <1>4
  <2> HIDE DEF r
  <2>4. <<r>> \o Tail(agenda[t]) = <<r, Last(t)>>
    BY <2>1, OneBefore
  <2>5. agenda' = [agenda EXCEPT ![t] = <<r, Last(t)>>]
    BY <2>3, <2>4
  <2> QED  BY <2>1, <2>2, <2>5, SameAims
<1> QED  BY <1>2, <1>3, <1>4

LEMMA FilesByClose ==
    ASSUME FilesInv, ProjectShape, NEW t \in Callers, Project!Close(t)
    PROVE  FilesInv'
<1>1. Busy(t) /\ Project!Now(t).do = "close" /\ UNCHANGED <<record, file, staged, born>>
  BY DEF Project!Close, Project!Doing, Project!Idle, Busy, Project!stored
<1>2. <<>> \o Tail(agenda[t]) = Tail(agenda[t])
  BY <1>1, Ours, Turning, OneBefore
<1>3. \/ agenda' = [agenda EXCEPT ![t] = <<>>]
      \/ agenda' = [agenda EXCEPT ![t] = Tail(agenda[t])]
  BY <1>2 DEF Project!Close, Project!Then, Project!Ends
<1> QED  BY <1>1, <1>3, FilesByFirst DEF Before

LEMMA FilesByCheckActive ==
    ASSUME FilesInv, ProjectShape, NEW t \in Callers, Project!CheckActive(t)
    PROVE  FilesInv'
<1>1. Busy(t) /\ Project!Now(t).do = "check" /\ UNCHANGED <<record, file, staged, born>>
  BY DEF Project!CheckActive, Project!Doing, Project!Idle, Busy, Project!stored
<1>2. <<>> \o Tail(agenda[t]) = Tail(agenda[t])
  BY <1>1, Ours, Turning, OneBefore
<1>3. \/ agenda' = [agenda EXCEPT ![t] = Tail(agenda[t])]
      \/ agenda' = [agenda EXCEPT
             ![t] = <<Project!Step("close", Project!Now(t).id, Project!Nowhere)>> \o Tail(agenda[t])]
  BY <1>2 DEF Project!CheckActive, Project!Then
<1> QED  BY <1>1, <1>3, FilesByFirst DEF Before

LEMMA Single == ASSUME NEW s, NEW d PROVE [<<s>> EXCEPT ![1].do = d] = <<[s EXCEPT !.do = d]>>
OBVIOUS

AimKept(t, s) ==
    \A i \in born : record[i].there =>
        /\ s.id = i /\ s.do = "update" => file'[s.to] = i
        /\ s.id = i /\ s.do = "forget staged" => staged'[i][s.path[2]] = i
        /\ s.id = i /\ s.do \notin Holding => file'[record[i].path] = i
        /\ s.id # i => /\ ~Holds(t, i) /\ staged'[i] = staged[i]
                       /\ \A p \in Project!Paths : p[1] = record[i].path[1] /\ file[p] = i => file'[p] = i
\* A thread's aim, in its record or its new folder, becomes another.
LEMMA AimTurns ==
    ASSUME FilesInv, ProjectShape, NEW t \in Callers, Busy(t), NEW s \in Steps,
           agenda' = [agenda EXCEPT ![t] = <<s>>], s.do # "check", Fine(t, s),
           UNCHANGED <<record, born>>, DOMAIN file' = Project!Paths, DOMAIN staged' = Ids,
           AimKept(t, s)
    PROVE  FilesInv'
<1>1. InForm(<<s>>) /\ <<s>> # <<>> /\ <<s>>[Len(<<s>>)] = s
  BY OneStep DEF InForm
<1>2. ThreadsFine'
  BY <1>1, Ours, ThreadsTurn
<1>3. /\ \A u \in Callers : u # t => agenda'[u] = agenda[u] /\ (Busy(u)' <=> Busy(u)) /\ Last(u)' = Last(u)
      /\ Busy(t)' /\ Last(t)' = s
  BY Ours, Becomes
<1>4. ASSUME NEW j \in born', record'[j].there PROVE DataOf(j)'
  <2>0. j \in born /\ record[j].there /\ record' = record /\ j # None
    BY <1>4, Ours
  <2>1. CASE s.id # j
    <3>1. /\ ~Holds(t, j) /\ ~Holds(t, j)' /\ staged'[j] = staged[j]
          /\ \A p \in Project!Paths : p[1] = record[j].path[1] /\ file[p] = j => file'[p] = j
      BY <1>3, <2>0, <2>1 DEF Holds, AimKept
    <3> QED  BY <1>3, <2>0, <3>1, DataElsewhere
  <2>2. CASE s.id = j
    <3>1. \A u \in Callers : Holds(u, j)' => u = t /\ s.do \in Holding
      <4>1. ASSUME NEW u \in Callers, Holds(u, j)', u # t PROVE FALSE
        <5>1. Busy(u) /\ Last(u).id = j
          BY <1>3, <4>1 DEF Holds
        <5> QED  BY <2>0, <2>2, <4>1, <5>1 DEF Fine
      <4> QED  BY <1>3, <4>1 DEF Holds
    <3>2. s.do \in Holding => Holds(t, j)'
      BY <1>3, <2>2 DEF Holds
    <3>3. /\ s.do = "update" => file'[s.to] = j
          /\ s.do = "forget staged" => staged'[j][s.path[2]] = j
          /\ s.do \notin Holding => file'[record'[j].path] = j
      BY <2>0, <2>2 DEF AimKept
    <3>4. ASSUME NEW u \in Callers, Holds(u, j)'
          PROVE  /\ Last(u)'.do = "update" => file'[Last(u)'.to] = j
                 /\ Last(u)'.do = "forget staged" => staged'[j][Last(u)'.path[2]] = j
      <4>1. Last(u)' = s
        BY <1>3, <3>1, <3>4
      <4> QED  BY <3>3, <4>1
    <3>5. (\A u \in Callers : ~Holds(u, j)') => file'[record'[j].path] = j
      BY <3>2, <3>3
    <3> QED  BY <3>4, <3>5 DEF DataOf
  <2> QED  BY <2>1, <2>2
<1> QED  BY <1>2, <1>4 DEF FilesInv, FilesShape, Apart, DataThere

\* What a thread that is not at the first of two steps is at.
LEMMA OnlyStep ==
    ASSUME FilesInv, ProjectShape, NEW t \in Callers, NEW d, Project!Doing(t, d), d \notin {"check", "close"}
    PROVE  /\ Busy(t) /\ Project!Now(t) = Last(t) /\ agenda[t] = <<Last(t)>> /\ Tail(agenda[t]) = <<>>
           /\ Last(t) \in Steps /\ Last(t).do = d /\ Fine(t, Last(t))
BY Ours, Turning DEF Project!Doing, Project!Idle, Busy, Before

\* A new folder's failure, or a failure that leaves the files.
LEMMA FolderLeft ==
    ASSUME FilesInv, ProjectShape, NEW t \in Callers, Busy(t), Last(t).do \notin Holding,
           agenda' = [agenda EXCEPT ![t] = <<>>], UNCHANGED <<record, staged, born>>,
           file' = file \/ (Last(t).do \in OnNew /\ file' = Project!FolderGone(Last(t).path[1]))
    PROVE  FilesInv'
<1>1. DOMAIN file' = Project!Paths /\ DOMAIN staged' = Ids
  BY Ours DEF Project!FolderGone, FilesInv, FilesShape
<1>2. ASSUME NEW i \in born, record[i].there, NEW p \in Project!Paths, p[1] = record[i].path[1], file[p] = i
      PROVE  file'[p] = i
  BY <1>2, Ours, NewFolder DEF Project!FolderGone
<1> QED  BY <1>1, <1>2, Done DEF Holds

LEMMA FilesByOpen ==
    ASSUME FilesInv, ProjectShape, NEW t \in Callers, Project!Open(t)
    PROVE  FilesInv'
<1> DEFINE o == Last(t)
<1>1. /\ Busy(t) /\ Project!Now(t) = o /\ agenda[t] = <<o>> /\ o \in Steps /\ Fine(t, o)
      /\ o.do \in {"open", "open new"} /\ (Project!Doing(t, "open new") <=> o.do = "open new")
      /\ UNCHANGED <<record, staged, born>>
  <2>1. UNCHANGED <<record, staged, born>> /\ (Project!Doing(t, "open") \/ Project!Doing(t, "open new"))
    BY DEF Project!Open, Project!Opens
  <2> QED  BY <2>1, OnlyStep DEF Project!Doing, Project!Idle, Busy
<1>2. CASE Project!Ends(t) /\ Project!Undone(t)
  <2>1. o.do \notin Holding /\ agenda' = [agenda EXCEPT ![t] = <<>>]
    BY <1>1, <1>2 DEF Holding, Project!Ends
  <2>2. file' = file \/ (o.do \in OnNew /\ file' = Project!FolderGone(o.path[1]))
    <3>1. CASE Project!Doing(t, "open new")
      <4>1. file' = Project!FolderGone(o.path[1])
        BY <1>1, <1>2, <3>1 DEF Project!Undone
      <4> QED  BY <1>1, <3>1, <4>1 DEF OnNew
    <3>2. CASE ~Project!Doing(t, "open new")
      BY <1>2, <3>2 DEF Project!Undone, Project!Doing
    <3> QED  BY <3>1, <3>2
  <2>3. Busy(t) /\ UNCHANGED <<record, staged, born>>
    BY <1>1
  <2> QED  BY <2>1, <2>2, <2>3, FolderLeft
<1>3. CASE /\ file' = Project!Opened(Project!Now(t).path)
           /\ agenda' = [agenda EXCEPT ![t][1].do = IF @ = "open" THEN "record" ELSE "record new"]
  <2> DEFINE d == IF o.do = "open" THEN "record" ELSE "record new"
             s == [o EXCEPT !.do = d]
  <2>1. /\ s \in Steps /\ s.id = o.id /\ s.path = o.path
        /\ \/ o.do = "open" /\ s.do = "record"
           \/ o.do = "open new" /\ s.do = "record new"
    BY <1>1 DEF Steps, Deeds
  <2>2. agenda' = [agenda EXCEPT ![t] = <<s>>]
    <3>1. agenda' = [agenda EXCEPT ![t] = [agenda[t] EXCEPT ![1].do = IF agenda[t][1].do = "open" THEN "record" ELSE "record new"]]
      BY <1>3
    <3>2. agenda[t][1] = o
      BY <1>1, OneStep
    <3>3. agenda[t] = <<o>>
      BY <1>1
    <3> HIDE DEF o
    <3>4. agenda' = [agenda EXCEPT ![t] = [<<o>> EXCEPT ![1].do = d]]
      BY <3>1, <3>2, <3>3
    <3> QED  BY <3>4, Single
  <2> HIDE DEF s, d
  <2>3. Fine(t, s) /\ s.do # "check"
    BY <1>1, <2>1 DEF Fine, OnOwn, OnNew
  <2>4. DOMAIN file' = Project!Paths /\ \A p \in Project!Paths : file[p] # None => file'[p] = file[p]
    BY <1>3, Ours DEF Project!Opened
  <2>5. DOMAIN staged' = Ids
    BY <1>1 DEF FilesInv, FilesShape
  <2>6. ASSUME NEW i \in born, record[i].there
        PROVE  /\ s.do # "update" /\ s.do # "forget staged"
               /\ s.id = i /\ s.do \notin Holding => file'[record[i].path] = i
               /\ s.id # i => /\ ~Holds(t, i) /\ staged'[i] = staged[i]
                              /\ \A p \in Project!Paths : p[1] = record[i].path[1] /\ file[p] = i => file'[p] = i
    <3>1. ASSUME s.id = i PROVE file'[record[i].path] = i
      <4>1. \A u \in Callers : ~Holds(u, i)
        BY <1>1, <2>1, <2>6, <3>1, Ours DEF Holds, Fine, Holding
      <4>2. file[record[i].path] = i /\ record[i].path \in Project!Paths
        BY <2>6, <4>1 DEF FilesInv, DataThere, DataOf, Apart, FilesShape
      <4> QED  BY <2>4, <2>6, <4>2, Ours
    <3>2. s.do # "update" /\ s.do # "forget staged"
      BY <2>1
    <3>3. ~Holds(t, i) /\ staged'[i] = staged[i]
      BY <1>1 DEF Holds, Holding
    <3>4. i # None
      BY <2>6, Ours
    <3> QED  BY <2>4, <3>1, <3>2, <3>3, <3>4
  <2>7. UNCHANGED <<record, born>> /\ Busy(t)
    BY <1>1
  <2>8. AimKept(t, s)
    BY <2>6 DEF AimKept
  <2> QED  BY <2>1, <2>2, <2>7, <2>8, <2>3, <2>4, <2>5, AimTurns
<1> QED  BY <1>2, <1>3 DEF Project!Open

LEMMA FilesByMove ==
    ASSUME FilesInv, ProjectShape, NEW t \in Callers, Project!Move(t)
    PROVE  FilesInv'
<1> DEFINE o == Last(t)
<1>1. /\ Busy(t) /\ Project!Now(t) = o /\ Tail(agenda[t]) = <<>> /\ o \in Steps /\ o.do = "move" /\ Fine(t, o)
      /\ UNCHANGED <<record, staged, born>>
  BY OnlyStep DEF Project!Move
<1>2. /\ o.id \in Ids /\ record[o.id].path = o.path /\ o.path \in Project!Paths
      /\ o.to \in Project!Paths /\ o.to[1] = o.path[1]
      /\ \A j \in Ids : record[j].there /\ j # o.id => record[j].path[1] # o.path[1]
  BY <1>1, OwnFolder DEF OnOwn, Fine
<1>3. CASE Project!Ends(t) /\ file' = file
  <2>1. o.do \notin Holding /\ agenda' = [agenda EXCEPT ![t] = <<>>]
    BY <1>1, <1>3 DEF Holding, Project!Ends
  <2>2. Busy(t) /\ UNCHANGED <<record, staged, born>> /\ file' = file
    BY <1>1, <1>3
  <2> QED  BY <2>1, <2>2, FolderLeft
<1>4. CASE /\ Project!Then(t, <<[Project!Now(t) EXCEPT !.do = "update"]>>)
           /\ \/ o.path # o.to /\ file' = Project!Moved(o.path, o.to)
              \/ o.path = o.to /\ file' = file
  <2> DEFINE s == [o EXCEPT !.do = "update"]
  <2>1. s \in Steps /\ s.do = "update" /\ s.id = o.id /\ s.path = o.path /\ s.to = o.to
    BY <1>1 DEF Steps, Deeds
  <2>2. agenda' = [agenda EXCEPT ![t] = <<s>> \o Tail(agenda[t])]
    BY <1>1, <1>4 DEF Project!Then
  <2>3. agenda' = [agenda EXCEPT ![t] = <<s>>]
    BY <1>1, <2>2, OneBefore
  <2>4. Fine(t, s)
    BY <1>1, <2>1 DEF Fine, OnOwn, OnNew
  <2>5. /\ DOMAIN file' = Project!Paths /\ file'[o.to] = file[o.path]
        /\ \A p \in Project!Paths : p[1] # o.path[1] => file'[p] = file[p]
    BY <1>2, <1>4, Ours DEF Project!Moved
  <2>6. DOMAIN staged' = Ids
    BY <1>1 DEF FilesInv, FilesShape
  <2>7. ASSUME NEW i \in born, record[i].there
        PROVE  /\ s.id = i => file'[s.to] = i
               /\ s.id # i => /\ ~Holds(t, i) /\ staged'[i] = staged[i]
                              /\ \A p \in Project!Paths : p[1] = record[i].path[1] /\ file[p] = i => file'[p] = i
    <3>1. ASSUME s.id = i PROVE file'[s.to] = i
      <4>1. \A u \in Callers : ~Holds(u, i)
        BY <1>1, <2>1, <2>7, <3>1, Ours DEF Holds, Fine, Holding
      <4>2. file[record[i].path] = i
        BY <2>7, <4>1 DEF FilesInv, DataThere, DataOf
      <4> QED  BY <1>2, <2>1, <2>5, <3>1, <4>2
    <3>2. ASSUME s.id # i
          PROVE  /\ ~Holds(t, i) /\ staged'[i] = staged[i]
                 /\ \A p \in Project!Paths : p[1] = record[i].path[1] /\ file[p] = i => file'[p] = i
      BY <1>1, <1>2, <2>1, <2>5, <2>7, <3>2, Ours DEF Holds
    <3> QED  BY <3>1, <3>2
  <2>8. UNCHANGED <<record, born>> /\ Busy(t)
    BY <1>1
  <2> HIDE DEF s
  <2>9. AimKept(t, s)
    BY <2>1, <2>7 DEF AimKept, Holding
  <2>10. s \in Steps /\ s.do # "check" /\ DOMAIN file' = Project!Paths /\ DOMAIN staged' = Ids
    BY <2>1, <2>5, <2>6
  <2> QED  BY <2>10, <2>3, <2>4, <2>8, <2>9, AimTurns
<1> QED  BY <1>1, <1>3, <1>4 DEF Project!Move

\* What a thread's own folder does is nothing to the others.
LEMMA OthersKept ==
    ASSUME FilesInv, ProjectShape, NEW t \in Callers, Busy(t), Last(t).do \in OnOwn,
           \A p \in Project!Paths : p[1] # Last(t).path[1] => file'[p] = file[p],
           NEW i \in born, record[i].there, i # Last(t).id
    PROVE  /\ ~Holds(t, i)
           /\ \A p \in Project!Paths : p[1] = record[i].path[1] /\ file[p] = i => file'[p] = i
BY Ours, OwnFolder DEF Holds

LEMMA FilesByUpdate ==
    ASSUME FilesInv, ProjectShape, NEW t \in Callers, Project!Update(t), ~accident'
    PROVE  FilesInv'
<1> DEFINE o == Last(t)
<1>1. /\ Busy(t) /\ Project!Now(t) = o /\ o \in Steps /\ o.do = "update" /\ Fine(t, o)
      /\ agenda' = [agenda EXCEPT ![t] = <<>>] /\ UNCHANGED <<staged, born>>
  BY OnlyStep DEF Project!Update, Project!Ends
<1>2. /\ o.id \in Ids /\ record[o.id].there /\ record[o.id].path = o.path /\ o.path \in Project!Paths
      /\ o.to \in Project!Paths /\ o.to[1] = o.path[1]
      /\ \A u \in Callers : u # t /\ Busy(u) => Last(u).id # o.id
      /\ \A j \in Ids : record[j].there /\ j # o.id => record[j].path[1] # o.path[1]
  BY <1>1, OwnFolder DEF OnOwn, Fine
<1>3. o.id \in born => file[o.to] = o.id
  <2>1. Holds(t, o.id)
    BY <1>1 DEF Holds, Holding
  <2>2. o.id \in born => DataOf(o.id)
    BY <1>2 DEF FilesInv, DataThere
  <2> QED  BY <1>1, <2>1, <2>2 DEF DataOf
<1>4. /\ DOMAIN staged' = Ids /\ born' \subseteq Ids
  BY <1>1 DEF FilesInv, FilesShape
<1>5. CASE UNCHANGED record /\ file' = Project!MovedBack(o.path, o.to)
  <2>1. /\ DOMAIN file' = Project!Paths /\ file'[o.path] = file[o.to]
        /\ \A p \in Project!Paths : p[1] # o.path[1] => file'[p] = file[p]
    BY <1>2, <1>5, Ours DEF Project!MovedBack, Project!Moved
  <2>2. ASSUME NEW i \in born, record[i].there
        PROVE  /\ Holds(t, i) => file'[record[i].path] = i
               /\ ~Holds(t, i) =>
                     /\ staged'[i] = staged[i]
                     /\ \A p \in Project!Paths : p[1] = record[i].path[1] /\ file[p] = i => file'[p] = i
    <3>1. CASE i = o.id
      BY <1>1, <1>2, <1>3, <2>1, <2>2, <3>1 DEF Holds, Holding
    <3>2. CASE i # o.id
      BY <1>1, <2>1, <2>2, <3>2, OthersKept DEF Holds, OnOwn
    <3> QED  BY <3>1, <3>2
  <2> QED  BY <1>1, <1>4, <1>5, <2>1, <2>2, Done
<1>6. CASE record' = [record EXCEPT ![o.id].path = o.to] /\ file' = file
  <2>1. /\ record'[o.id].there /\ record'[o.id].path = o.to
        /\ \A j \in Ids : j # o.id => record'[j] = record[j]
        /\ \A j \in Ids : record'[j].there = record[j].there /\ record'[j].path[1] = record[j].path[1]
    BY <1>2, <1>6 DEF ProjectShape
  <2>2. ThreadsFine'
    <3>1. ASSUME NEW u \in Callers, u # t, Busy(u)
          PROVE  /\ Last(u).do \in OnOwn /\ Last(u).id \in Ids =>
                        /\ record'[Last(u).id].there = record[Last(u).id].there
                        /\ record'[Last(u).id].path = record[Last(u).id].path
                 /\ Last(u).do \in OnNew => \A i \in Ids : record'[i].there => record'[i].path[1] # Last(u).path[1]
      BY <1>2, <2>1, <3>1, Ours DEF Fine
    <3> QED  BY <1>1, <3>1, Ours, ThreadsLeave
  <2>3. Apart'
    <3>1. \A j \in Ids : record'[j].there => record'[j].path \in Project!Paths
      BY <1>2, <2>1, Ours DEF Apart
    <3>2. \A i, j \in Ids : record'[i].there /\ record'[j].there /\ i # j => record'[i].path[1] # record'[j].path[1]
      BY <2>1, Ours DEF Apart
    <3> QED  BY <3>1, <3>2 DEF Apart
  <2>4. /\ \A u \in Callers : u # t => agenda'[u] = agenda[u] /\ (Busy(u)' <=> Busy(u)) /\ Last(u)' = Last(u)
        /\ ~Busy(t)'
    BY <1>1, Ours, Becomes
  <2>5. ASSUME NEW j \in born', record'[j].there PROVE DataOf(j)'
    <3>1. CASE j = o.id
      <4>1. \A u \in Callers : ~Holds(u, j)'
        BY <1>2, <2>4, <3>1 DEF Holds
      <4> QED  BY <1>1, <1>3, <1>6, <2>1, <2>5, <3>1, <4>1 DEF DataOf
    <3>2. CASE j # o.id
      <4>1. j \in born /\ record[j].there /\ record'[j].path = record[j].path
        BY <1>1, <2>1, <2>5, <3>2, Ours
      <4>2. ~Holds(t, j) /\ ~Holds(t, j)'
        BY <2>4, <3>2 DEF Holds
      <4> QED  BY <1>1, <1>6, <2>4, <4>1, <4>2, DataElsewhere
    <3> QED  BY <3>1, <3>2
  <2> QED  BY <1>4, <1>6, <2>2, <2>3, <2>5 DEF FilesInv, FilesShape, DataThere
<1> QED
  <2>1. \/ record' = [record EXCEPT ![o.id].path = o.to] /\ file' = file
        \/ UNCHANGED record /\ file' = Project!MovedBack(o.path, o.to)
    BY <1>1, <1>2 DEF Project!Update
  <2> QED  BY <1>5, <1>6, <2>1

LEMMA FilesByStage ==
    ASSUME FilesInv, ProjectShape, NEW t \in Callers, Project!Stage(t)
    PROVE  FilesInv'
<1> DEFINE o == Last(t)
           f == o.path[1]
<1>1. /\ Busy(t) /\ Project!Now(t) = o /\ Tail(agenda[t]) = <<>> /\ o \in Steps /\ o.do = "stage" /\ Fine(t, o)
      /\ UNCHANGED <<record, born>>
  BY OnlyStep DEF Project!Stage
<1>2. /\ o.id \in Ids /\ record[o.id].there /\ record[o.id].path = o.path /\ o.path \in Project!Paths
      /\ \A j \in Ids : record[j].there /\ j # o.id => record[j].path[1] # o.path[1]
  BY <1>1, OwnFolder DEF OnOwn
<1>3. CASE Project!Ends(t) /\ UNCHANGED <<staged, file>>
  <2>1. o.do \notin Holding /\ agenda' = [agenda EXCEPT ![t] = <<>>]
    BY <1>1, <1>3 DEF Holding, Project!Ends
  <2>2. Busy(t) /\ UNCHANGED <<record, staged, born>> /\ file' = file
    BY <1>1, <1>3
  <2> QED  BY <2>1, <2>2, FolderLeft
<1>4. CASE /\ staged' = [staged EXCEPT ![o.id] = Project!InFolder(f)] /\ file' = Project!FolderGone(f)
           /\ Project!Then(t, <<Project!Step("forget staged", o.id, o.path)>>)
  <2> DEFINE s == Project!Step("forget staged", o.id, o.path)
  <2>1. s \in Steps /\ s.do = "forget staged" /\ s.id = o.id /\ s.path = o.path
    BY <1>1, PathTypes DEF Project!Step, Steps, Deeds
  <2>2. agenda' = [agenda EXCEPT ![t] = <<s>> \o Tail(agenda[t])]
    BY <1>1, <1>4 DEF Project!Then
  <2>3. agenda' = [agenda EXCEPT ![t] = <<s>>]
    BY <1>1, <2>2, OneBefore
  <2>4. Fine(t, s)
    BY <1>1, <2>1 DEF Fine, OnOwn, OnNew
  <2>5. /\ DOMAIN file' = Project!Paths
        /\ \A p \in Project!Paths : p[1] # o.path[1] => file'[p] = file[p]
    BY <1>4 DEF Project!FolderGone
  <2>6. /\ DOMAIN staged' = Ids /\ \A i \in Ids : i # o.id => staged'[i] = staged[i]
        /\ staged'[o.id] = Project!InFolder(f)
    BY <1>2, <1>4 DEF FilesInv, FilesShape
  <2>7. Project!InFolder(f)[o.path[2]] = file[o.path]
    BY <1>2 DEF Project!InFolder, Project!Paths
  <2>8. ASSUME NEW i \in born, record[i].there
        PROVE  /\ s.id = i => staged'[i][s.path[2]] = i
               /\ s.id # i => /\ ~Holds(t, i) /\ staged'[i] = staged[i]
                              /\ \A p \in Project!Paths : p[1] = record[i].path[1] /\ file[p] = i => file'[p] = i
    <3>1. ASSUME s.id = i PROVE staged'[i][s.path[2]] = i
      <4>1. \A u \in Callers : ~Holds(u, i)
        BY <1>1, <2>1, <2>8, <3>1, Ours DEF Holds, Fine, Holding
      <4>2. file[record[i].path] = i
        BY <2>8, <4>1 DEF FilesInv, DataThere, DataOf
      <4> QED  BY <1>2, <2>1, <2>6, <2>7, <3>1, <4>2
    <3>2. ASSUME s.id # i
          PROVE  /\ ~Holds(t, i) /\ staged'[i] = staged[i]
                 /\ \A p \in Project!Paths : p[1] = record[i].path[1] /\ file[p] = i => file'[p] = i
      BY <1>2, <2>1, <2>5, <2>6, <2>8, <3>2, Ours DEF Holds
    <3> QED  BY <3>1, <3>2
  <2>9. UNCHANGED <<record, born>> /\ Busy(t)
    BY <1>1
  <2>10. s \in Steps /\ s.do # "check" /\ DOMAIN file' = Project!Paths /\ DOMAIN staged' = Ids
    BY <2>1, <2>5, <2>6
  <2> HIDE DEF s
  <2>11. AimKept(t, s)
    BY <2>1, <2>8 DEF AimKept, Holding
  <2> QED  BY <2>10, <2>3, <2>4, <2>9, <2>11, AimTurns
<1> QED  BY <1>1, <1>3, <1>4 DEF Project!Stage

\* A record goes, or a folder that was set aside comes back.
LEMMA FilesByForget ==
    ASSUME FilesInv, ProjectShape, NEW t \in Callers, Project!Forget(t), ~accident'
    PROVE  FilesInv'
<1> DEFINE o == Last(t)
           f == o.path[1]
<1>1. /\ Busy(t) /\ Project!Now(t) = o /\ Tail(agenda[t]) = <<>> /\ o \in Steps /\ Fine(t, o)
      /\ o.do \in {"forget", "forget staged"} /\ UNCHANGED born
  <2>1. UNCHANGED born /\ (Project!Doing(t, "forget") \/ Project!Doing(t, "forget staged"))
    BY DEF Project!Forget
  <2> QED  BY <2>1, OnlyStep
<1>2. /\ o.id \in Ids /\ record[o.id].there /\ record[o.id].path = o.path /\ o.path \in Project!Paths
      /\ \A u \in Callers : u # t /\ Busy(u) => Last(u).id # o.id
      /\ \A j \in Ids : record[j].there /\ j # o.id => record[j].path[1] # o.path[1]
  BY <1>1, OwnFolder DEF OnOwn
<1>3. CASE /\ record' = [record EXCEPT ![o.id] = Project!NoRecord] /\ UNCHANGED <<file, staged>>
           /\ Project!Then(t, IF Project!Doing(t, "forget staged")
                              THEN <<Project!Step("delete", o.id, o.path)>> ELSE <<>>)
  <2> DEFINE s == Project!Step("delete", o.id, o.path)
  <2>1. s \in Steps /\ s.do = "delete" /\ s.id = o.id
    BY <1>1, PathTypes DEF Project!Step, Steps, Deeds
  <2>2. <<s>> \o Tail(agenda[t]) = <<s>> /\ <<>> \o Tail(agenda[t]) = <<>>
    <3> HIDE DEF s
    <3>1. Tail(agenda[t]) = <<>>
      BY <1>1
    <3> QED  BY <3>1, OneBefore
  <2>3. agenda' = [agenda EXCEPT ![t] = <<s>>] \/ agenda' = [agenda EXCEPT ![t] = <<>>]
    BY <1>3, <2>2 DEF Project!Then
  <2> HIDE DEF s
  <2>4. PICK a : agenda' = [agenda EXCEPT ![t] = a] /\ (a = <<>> \/ a = <<s>>)
    BY <2>3
  <2>5. /\ ~record'[o.id].there /\ \A j \in Ids : j # o.id => record'[j] = record[j]
    BY <1>2, <1>3 DEF Project!NoRecord, ProjectShape
  <2>6. ThreadsFine'
    <3>1. ASSUME NEW u \in Callers, u # t, Busy(u)
          PROVE  /\ Last(u).do \in OnOwn /\ Last(u).id \in Ids =>
                        /\ record'[Last(u).id].there = record[Last(u).id].there
                        /\ record'[Last(u).id].path = record[Last(u).id].path
                 /\ Last(u).do \in OnNew => \A i \in Ids : record'[i].there => record'[i].path[1] # Last(u).path[1]
      BY <1>2, <2>5, <3>1, Ours DEF Fine
    <3> QED  BY <1>1, <2>1, <2>4, <3>1, Ours, ThreadsLeave
  <2>7. Apart'
    BY <2>5, Ours DEF Apart
  <2>8. /\ \A u \in Callers : u # t => agenda'[u] = agenda[u]
        /\ \A i : ~Holds(t, i)'
    <3>1. /\ \A u \in Callers : u # t => agenda'[u] = agenda[u]
          /\ Busy(t)' <=> a # <<>>
          /\ a = <<s>> => Last(t)' = s
      BY <2>4, Ours, Becomes
    <3> QED  BY <2>1, <2>4, <3>1 DEF Holds, Holding
  <2>9. ASSUME NEW j \in born', record'[j].there PROVE DataOf(j)'
    <3>1. j \in born /\ j # o.id /\ record'[j] = record[j] /\ record[j].there
      BY <1>1, <2>5, <2>9, Ours
    <3>2. ~Holds(t, j)
      BY <3>1 DEF Holds
    <3> QED  BY <1>3, <2>8, <3>1, <3>2, DataElsewhere
  <2> QED  BY <1>1, <1>3, <2>6, <2>7, <2>9 DEF FilesInv, FilesShape, DataThere
<1>4. CASE o.do = "forget" /\ Project!Ends(t) /\ UNCHANGED <<record, file, staged>>
  <2>1. o.do \notin Holding /\ agenda' = [agenda EXCEPT ![t] = <<>>]
    BY <1>4 DEF Holding, Project!Ends
  <2>2. Busy(t) /\ UNCHANGED <<record, staged, born>> /\ file' = file
    BY <1>1, <1>4
  <2> QED  BY <2>1, <2>2, FolderLeft
<1>5. CASE /\ o.do = "forget staged" /\ Project!Ends(t) /\ UNCHANGED record
           /\ file' = Project!PutBack(o.id, f) /\ staged' = [staged EXCEPT ![o.id] = None]
  <2>1. o.id \in born => staged[o.id][o.path[2]] = o.id
    <3>1. Holds(t, o.id)
      BY <1>1, <1>5 DEF Holds, Holding
    <3>2. o.id \in born => DataOf(o.id)
      BY <1>2 DEF FilesInv, DataThere
    <3> QED  BY <1>5, <3>1, <3>2 DEF DataOf
  <2>2. /\ DOMAIN file' = Project!Paths /\ file'[o.path] = staged[o.id][o.path[2]]
        /\ \A p \in Project!Paths : p[1] # o.path[1] => file'[p] = file[p]
    BY <1>2, <1>5 DEF Project!PutBack
  <2>3. /\ DOMAIN staged' = Ids /\ \A i \in Ids : i # o.id => staged'[i] = staged[i]
    BY <1>2, <1>5 DEF FilesInv, FilesShape
  <2>4. ASSUME NEW i \in born, record[i].there
        PROVE  /\ Holds(t, i) => file'[record[i].path] = i
               /\ ~Holds(t, i) =>
                     /\ staged'[i] = staged[i] \/ o.id = i
                     /\ \A p \in Project!Paths : p[1] = record[i].path[1] /\ file[p] = i => file'[p] = i
    <3>1. CASE i = o.id
      BY <1>1, <1>2, <1>5, <2>1, <2>2, <2>4, <3>1 DEF Holds, Holding
    <3>2. CASE i # o.id
      <4>1. o.do \in OnOwn /\ Busy(t) /\ staged'[i] = staged[i]
        BY <1>1, <2>3, <2>4, <3>2, Ours DEF OnOwn
      <4> QED  BY <2>2, <2>4, <3>2, <4>1, OthersKept
    <3> QED  BY <3>1, <3>2
  <2>5. agenda' = [agenda EXCEPT ![t] = <<>>] /\ UNCHANGED <<record, born>>
    BY <1>1, <1>5 DEF Project!Ends
  <2> QED  BY <1>1, <2>2, <2>3, <2>4, <2>5, Done
<1> QED
  <2>1. \/ /\ record' = [record EXCEPT ![o.id] = Project!NoRecord] /\ UNCHANGED <<file, staged>>
           /\ Project!Then(t, IF Project!Doing(t, "forget staged")
                              THEN <<Project!Step("delete", o.id, o.path)>> ELSE <<>>)
        \/ /\ Project!Ends(t) /\ UNCHANGED record
           /\ IF Project!Doing(t, "forget") THEN UNCHANGED <<file, staged>>
              ELSE file' = Project!PutBack(o.id, f) /\ staged' = [staged EXCEPT ![o.id] = None]
    BY <1>1 DEF Project!Forget
  <2>2. (o.do = "forget" => Project!Doing(t, "forget")) /\ (o.do = "forget staged" => ~Project!Doing(t, "forget"))
    BY <1>1 DEF Project!Doing, Project!Idle, Busy
  <2> QED  BY <1>1, <1>3, <1>4, <1>5, <2>1, <2>2

LEMMA FilesByDeleteStaged ==
    ASSUME FilesInv, ProjectShape, NEW t \in Callers, Project!DeleteStaged(t)
    PROVE  FilesInv'
<1>1. /\ Busy(t) /\ Project!Now(t) = Last(t) /\ Last(t).do = "delete"
      /\ agenda' = [agenda EXCEPT ![t] = <<>>] /\ UNCHANGED <<record, file, born>>
      /\ staged' = staged \/ staged' = [staged EXCEPT ![Last(t).id] = None]
  BY OnlyStep DEF Project!DeleteStaged, Project!Ends
<1>2. /\ DOMAIN file' = Project!Paths /\ DOMAIN staged' = Ids
      /\ \A i \in Ids : staged'[i] = staged[i] \/ Last(t).id = i
  BY <1>1 DEF FilesInv, FilesShape
<1>3. ASSUME NEW i \in born, record[i].there
      PROVE  /\ ~Holds(t, i) /\ (staged'[i] = staged[i] \/ Last(t).id = i)
             /\ \A p \in Project!Paths : p[1] = record[i].path[1] /\ file[p] = i => file'[p] = i
  BY <1>1, <1>2, Ours DEF Holds, Holding
<1>4. Busy(t) /\ UNCHANGED <<record, born>>
  BY <1>1
<1> QED  BY <1>1, <1>2, <1>3, <1>4, Done

LEMMA FilesByTheEngine ==
    ASSUME FilesInv, ProjectShape, Project!Reconnect \/ Project!EngineDies
    PROVE  FilesInv'
<1>1. CASE Project!Reconnect
  BY <1>1, FilesAppear DEF Project!Reconnect
<1>2. CASE Project!EngineDies
  <2>1. UNCHANGED <<record, file, staged, born, agenda>>
    BY <1>2 DEF Project!EngineDies, Project!stored
  <2>2. \A i : DataOf(i)' <=> DataOf(i)
    BY <2>1 DEF DataOf, Holds, Busy, Last
  <2>3. ThreadsFine' <=> ThreadsFine
    BY <2>1 DEF ThreadsFine, InForm, Fine, Busy, Last
  <2> QED  BY <2>1, <2>2, <2>3 DEF FilesInv, FilesShape, Apart, DataThere
<1> QED  BY <1>1, <1>2

LEMMA FilesByRestart ==
    ASSUME FilesInv, ProjectShape, Project!Restart, ~accident'
    PROVE  FilesInv'
<1>1. /\ \A t \in Callers : ~Busy(t) /\ ~Busy(t)' /\ agenda'[t] = <<>>
      /\ UNCHANGED <<record, file, staged, born>>
  BY DEF Project!Restart, Project!Idle, Busy, Project!stored
<1>2. ThreadsFine'
  BY <1>1 DEF ThreadsFine, InForm
<1>3. \A i \in born : record[i].there => DataOf(i)'
  BY <1>1 DEF FilesInv, DataThere, DataOf, Holds
<1> QED  BY <1>1, <1>2, <1>3 DEF FilesInv, FilesShape, Apart, DataThere

\* A project opened again keeps its record, and gets its data with its first file.
LEMMA FilesByOwnRecord ==
    ASSUME FilesInv, ProjectShape, NEW t \in Callers, Project!Record(t), Project!Doing(t, "record")
    PROVE  FilesInv'
<1> DEFINE o == Last(t)
<1>0. PICK i, p : i = o.id /\ p = o.path
  OBVIOUS
<1>1. /\ Busy(t) /\ Project!Now(t) = o /\ o \in Steps /\ Fine(t, o) /\ o.do = "record"
      /\ agenda' = [agenda EXCEPT ![t] = <<>>] /\ UNCHANGED staged
  BY OnlyStep DEF Project!Record, Project!Ends
<1>2. /\ i \in Ids /\ record[i].there /\ record[i].path = p /\ p \in Project!Paths
      /\ \A u \in Callers : u # t /\ Busy(u) => Last(u).id # i
      /\ \A j \in Ids : record[j].there /\ j # i => record[j].path[1] # p[1]
  BY <1>0, <1>1, OwnFolder DEF OnOwn
<1>3. ~Project!Doing(t, "record new") /\ Project!Known(p) = {i}
  BY <1>1, <1>2 DEF Project!Doing, Project!Known
<1>4. Project!Upsert(p) = {i}
  BY <1>3 DEF Project!Upsert
<1>5. /\ \/ record' = record
         \/ \E m : record' = [record EXCEPT ![i] = [there |-> TRUE, path |-> p, managed |-> m]]
      /\ \/ /\ born' = (IF file[p] = "empty" THEN born \cup {i} ELSE born)
            /\ file' = [file EXCEPT ![p] = IF @ = "empty" /\ i \notin born THEN i ELSE @]
         \/ file' = file /\ born' = born
  <2>0. ~Project!Doing(t, "record new")
    BY <1>3
  <2>1. \/ \E j \in Project!Upsert(o.path) :
              /\ \E m : record' = [record EXCEPT ![j] = [there |-> TRUE, path |-> o.path, managed |-> m]]
              /\ \/ /\ born' = (IF file[o.path] = "empty" THEN born \cup {j} ELSE born)
                    /\ file' = [file EXCEPT ![o.path] = IF @ = "empty" /\ j \notin born THEN j ELSE @]
                 \/ file' = file /\ born' = born
        \/ file' = file /\ UNCHANGED <<record, born>>
    BY <1>1, <2>0 DEF Project!Record, Project!Recorded
  <2>2. o.path = p /\ \A j \in Project!Upsert(o.path) : j = i
    BY <1>0, <1>4
  <2> HIDE DEF o
  <2> QED  BY <2>1, <2>2
<1>6. \A j \in Ids : record'[j].there = record[j].there /\ record'[j].path = record[j].path
  <2>1. CASE \E m : record' = [record EXCEPT ![i] = [there |-> TRUE, path |-> p, managed |-> m]]
    <3>1. PICK m : record' = [record EXCEPT ![i] = [there |-> TRUE, path |-> p, managed |-> m]]
      BY <2>1
    <3>2. record'[i] = [there |-> TRUE, path |-> p, managed |-> m] /\ \A j \in Ids : j # i => record'[j] = record[j]
      BY <1>2, <3>1 DEF ProjectShape
    <3>3. record'[i].there /\ record'[i].path = p /\ record[i].there \in BOOLEAN
      BY <1>2, <3>2 DEF ProjectShape
    <3> QED  BY <1>2, <3>2, <3>3
  <2> QED  BY <1>5, <2>1
<1>7. /\ DOMAIN file' = Project!Paths /\ \A q \in Project!Paths : q # p => file'[q] = file[q]
      /\ i \in born => file'[p] = file[p]
      /\ \A j \in born' : j \in born \/ (j = i /\ file'[p] = i)
      /\ born' \subseteq Ids
  BY <1>2, <1>5, Ours DEF FilesInv, FilesShape
<1>8. ThreadsFine'
  <2>1. ASSUME NEW u \in Callers, u # t, Busy(u)
        PROVE  /\ Last(u).do \in OnOwn /\ Last(u).id \in Ids =>
                      /\ record'[Last(u).id].there = record[Last(u).id].there
                      /\ record'[Last(u).id].path = record[Last(u).id].path
               /\ Last(u).do \in OnNew => \A j \in Ids : record'[j].there => record'[j].path[1] # Last(u).path[1]
    BY <1>6, <2>1, Ours DEF Fine
  <2> QED  BY <1>1, <2>1, Ours, ThreadsLeave
<1>9. Apart'
  BY <1>6, Ours DEF Apart
<1>10. /\ \A u \in Callers : u # t => agenda'[u] = agenda[u] /\ (Busy(u)' <=> Busy(u)) /\ Last(u)' = Last(u)
       /\ ~Busy(t)'
  BY <1>1, Ours, Becomes
<1>11. ASSUME NEW j \in born', record'[j].there PROVE DataOf(j)'
  <2>1. CASE j # i
    <3>1. /\ j \in born /\ record[j].there /\ record'[j].path = record[j].path
          /\ record[j].path[1] # p[1]
      BY <1>2, <1>6, <1>7, <1>11, <2>1, Ours
    <3>2. ~Holds(t, j) /\ ~Holds(t, j)' /\ staged'[j] = staged[j]
      BY <1>0, <1>1, <1>10, <2>1 DEF Holds
    <3>3. \A q \in Project!Paths : q[1] = record[j].path[1] /\ file[q] = j => file'[q] = j
      BY <1>7, <3>1
    <3> QED  BY <1>10, <3>1, <3>2, <3>3, DataElsewhere
  <2>2. CASE j = i
    <3>1. \A u \in Callers : ~Holds(u, i) /\ ~Holds(u, i)'
      <4>1. ~Holds(t, i) /\ ~Holds(t, i)'
        BY <1>1, <1>10 DEF Holds, Holding
      <4>2. \A u \in Callers : u # t => ~Holds(u, i) /\ ~Holds(u, i)'
        BY <1>2, <1>10 DEF Holds
      <4> QED  BY <4>1, <4>2
    <3>2. i \in born => file[p] = i
      BY <1>2, <3>1 DEF FilesInv, DataThere, DataOf
    <3>3. file'[p] = i
      BY <1>7, <1>11, <2>2, <3>2
    <3>4. file'[record'[i].path] = i
      BY <1>2, <1>6, <3>3
    <3>5. DataOf(i)'
      BY <3>1, <3>4 DEF DataOf
    <3> QED  BY <2>2, <3>5
  <2> QED  BY <2>1, <2>2
<1> QED  BY <1>1, <1>7, <1>8, <1>9, <1>11 DEF FilesInv, FilesShape, DataThere

\* A new project gets a record nobody had, or its folder goes.
LEMMA FilesByNewRecord ==
    ASSUME FilesInv, ProjectShape, NEW t \in Callers, Project!Record(t), Project!Doing(t, "record new")
    PROVE  FilesInv'
<1> DEFINE o == Last(t)
           p == o.path
<1>1. /\ Busy(t) /\ Project!Now(t) = o /\ o \in Steps /\ Fine(t, o) /\ o.do = "record new"
      /\ agenda' = [agenda EXCEPT ![t] = <<>>] /\ UNCHANGED staged
  BY OnlyStep DEF Project!Record, Project!Ends
<1>2. /\ p \in Project!Paths
      /\ \A u \in Callers : u # t /\ Busy(u) /\ Last(u).do \in OnNew => Last(u).path[1] # p[1]
      /\ \A j \in Ids : record[j].there => record[j].path[1] # p[1]
  BY <1>1 DEF Fine, OnNew
<1>3. Project!Known(p) = {}
  BY <1>2 DEF Project!Known
<1>4. CASE file' = Project!FolderGone(p[1]) /\ UNCHANGED <<record, born>>
  <2>1. o.do \notin Holding /\ o.do \in OnNew
    BY <1>1 DEF Holding, OnNew
  <2>2. Busy(t) /\ UNCHANGED <<record, staged, born>> /\ agenda' = [agenda EXCEPT ![t] = <<>>]
    BY <1>1, <1>4
  <2> QED  BY <1>4, <2>1, <2>2, FolderLeft
<1>5. ASSUME NEW i \in Ids, ~record[i].there, i \notin born, Project!Recorded(i, p, TRUE),
             \/ /\ born' = (IF file[p] = "empty" THEN born \cup {i} ELSE born)
                /\ file' = [file EXCEPT ![p] = IF @ = "empty" /\ i \notin born THEN i ELSE @]
             \/ file' = Project!FolderGone(p[1]) /\ born' = born
      PROVE  FilesInv'
  <2>1. /\ record'[i].there /\ record'[i].path = p
        /\ \A j \in Ids : j # i => record'[j] = record[j]
    BY <1>5 DEF Project!Recorded, ProjectShape
  <2>2. /\ DOMAIN file' = Project!Paths /\ \A q \in Project!Paths : q[1] # p[1] => file'[q] = file[q]
        /\ \A j \in born' : j \in born \/ (j = i /\ file'[p] = i)
        /\ born' \subseteq Ids
    BY <1>2, <1>5, Ours DEF FilesInv, FilesShape, Project!FolderGone
  <2>3. \A u \in Callers : u # t /\ Busy(u) /\ Last(u).do \in OnOwn => Last(u).id # i
    BY <1>5, Ours DEF Fine
  <2>4. ThreadsFine'
    <3>1. ASSUME NEW u \in Callers, u # t, Busy(u)
          PROVE  /\ Last(u).do \in OnOwn /\ Last(u).id \in Ids =>
                        /\ record'[Last(u).id].there = record[Last(u).id].there
                        /\ record'[Last(u).id].path = record[Last(u).id].path
                 /\ Last(u).do \in OnNew => \A j \in Ids : record'[j].there => record'[j].path[1] # Last(u).path[1]
      <4>1. Fine(u, Last(u))
        BY <3>1, Ours
      <4>2. Last(u).do \in OnOwn => record'[Last(u).id] = record[Last(u).id]
        BY <2>1, <2>3, <3>1, <4>1 DEF Fine
      <4>3. ASSUME Last(u).do \in OnNew, NEW j \in Ids, record'[j].there PROVE record'[j].path[1] # Last(u).path[1]
        <5>1. CASE j = i
          BY <1>2, <2>1, <3>1, <4>3, <5>1
        <5>2. CASE j # i
          BY <2>1, <4>1, <4>3, <5>2 DEF Fine
        <5> QED  BY <5>1, <5>2
      <4> QED  BY <4>2, <4>3
    <3> QED  BY <1>1, <3>1, Ours, ThreadsLeave
  <2>5. Apart'
    <3>1. \A j \in Ids : record'[j].there => record'[j].path \in Project!Paths
      BY <1>2, <2>1, Ours DEF Apart
    <3>2. \A j, k \in Ids : record'[j].there /\ record'[k].there /\ j # k => record'[j].path[1] # record'[k].path[1]
      <4>1. ASSUME NEW j \in Ids, NEW k \in Ids, record'[j].there, record'[k].there, j # k
            PROVE  record'[j].path[1] # record'[k].path[1]
        <5>1. CASE j = i
          BY <1>2, <2>1, <4>1, <5>1
        <5>2. CASE k = i
          BY <1>2, <2>1, <4>1, <5>2
        <5>3. CASE j # i /\ k # i
          <6>1. record'[j] = record[j] /\ record'[k] = record[k] /\ Apart
            BY <2>1, <5>3, Ours
          <6> QED  BY <4>1, <6>1 DEF Apart
        <5> QED  BY <5>1, <5>2, <5>3
      <4> QED  BY <4>1
    <3> QED  BY <3>1, <3>2 DEF Apart
  <2>6. /\ \A u \in Callers : u # t => agenda'[u] = agenda[u] /\ (Busy(u)' <=> Busy(u)) /\ Last(u)' = Last(u)
        /\ ~Busy(t)'
    BY <1>1, Ours, Becomes
  <2>7. ASSUME NEW j \in born', record'[j].there PROVE DataOf(j)'
    <3>1. CASE j # i
      <4>1. /\ j \in born /\ record[j].there /\ record'[j].path = record[j].path
            /\ record[j].path[1] # p[1]
        BY <1>2, <2>1, <2>2, <2>7, <3>1, Ours
      <4>2. ~Holds(t, j) /\ ~Holds(t, j)' /\ staged'[j] = staged[j]
        BY <1>1, <2>6 DEF Holds, Holding
      <4>3. \A q \in Project!Paths : q[1] = record[j].path[1] /\ file[q] = j => file'[q] = j
        BY <2>2, <4>1
      <4> QED  BY <2>6, <4>1, <4>2, <4>3, DataElsewhere
    <3>2. CASE j = i
      <4>1. \A u \in Callers : ~Holds(u, i)'
        BY <2>3, <2>6 DEF Holds, Holding, OnOwn
      <4>2. file'[p] = i
        BY <1>5, <2>2, <2>7, <3>2
      <4> QED  BY <2>1, <3>2, <4>1, <4>2 DEF DataOf
    <3> QED  BY <3>1, <3>2
  <2> QED  BY <1>1, <2>2, <2>4, <2>5, <2>7 DEF FilesInv, FilesShape, DataThere
<1> QED
  <2>1. Project!Upsert(p) = {i \in Ids : ~record[i].there /\ i \notin born}
    BY <1>3 DEF Project!Upsert
  <2>2. \/ file' = Project!FolderGone(p[1]) /\ UNCHANGED <<record, born>>
        \/ \E i \in Project!Upsert(p) :
              /\ Project!Recorded(i, p, TRUE)
              /\ \/ /\ born' = (IF file[p] = "empty" THEN born \cup {i} ELSE born)
                    /\ file' = [file EXCEPT ![p] = IF @ = "empty" /\ i \notin born THEN i ELSE @]
                 \/ file' = Project!FolderGone(p[1]) /\ born' = born
    BY <1>1 DEF Project!Record
  <2> QED  BY <1>4, <1>5, <2>1, <2>2

\* Unless commands on one project overlapped, a restart cut one short or undoing one failed,
\* the data of every project is where its record or its command has it.
LEMMA TidyStart == ASSUME Project!ProjectInit PROVE TidyInv
<1>1. PICK i \in Ids, p \in Project!Paths, managed \in BOOLEAN :
          /\ file = [q \in Project!Paths |-> IF q = p THEN i ELSE None] /\ born = {i} /\ staged = [j \in Ids |-> None]
          /\ agenda = [t \in Callers |-> <<>>]
          /\ \A j \in Ids : IF j = i THEN record[j].there /\ record[j].path = p ELSE ~record[j].there
  BY DEF Project!ProjectInit, Project!NoRecord
<1>2. \A t \in Callers : agenda[t] = <<>> /\ ~Busy(t)
  BY <1>1 DEF Busy
<1>3. ThreadsFine
  BY <1>2 DEF ThreadsFine, InForm
<1>4. /\ record[i].there /\ record[i].path = p /\ \A j \in Ids : j # i => ~record[j].there
      /\ file[p] = i
  BY <1>1
<1>5. Apart /\ FilesShape
  BY <1>1, <1>4 DEF Apart, FilesShape
<1>6. DataThere
  BY <1>1, <1>2, <1>4 DEF DataThere, DataOf, Holds
<1> QED  BY <1>3, <1>5, <1>6 DEF TidyInv, FilesInv

LEMMA TidyStep == ASSUME TidyInv, ProjectShape, Project!ProjectNext PROVE TidyInv'
<1> SUFFICES ASSUME Tidy' PROVE FilesInv'
  BY DEF TidyInv
<1>1. ~overlapped' /\ ~accident'
  BY DEF Tidy
<1>2. Tidy
  <2>1. ~overlapped
    BY <1>1 DEF Project!ProjectNext, Project!Create, Project!Reopen, Project!Rename, Project!Remove, Project!CommandOn,
                Project!CloseProject, Project!Open, Project!Record, Project!Close, Project!CheckActive, Project!Move,
                Project!Update, Project!Stage, Project!Forget, Project!DeleteStaged, Project!Reconnect,
                Project!EngineDies, Project!Restart
  <2>2. ~accident
    BY <1>1 DEF Project!ProjectNext, Project!Create, Project!Reopen, Project!Rename, Project!Remove,
                Project!CloseProject, Project!Open, Project!Record, Project!Close, Project!CheckActive, Project!Move,
                Project!Update, Project!Stage, Project!Forget, Project!DeleteStaged, Project!Reconnect,
                Project!EngineDies, Project!Restart
  <2> QED  BY <2>1, <2>2 DEF Tidy
<1>3. FilesInv
  BY <1>2 DEF TidyInv
<1>4. ASSUME NEW t \in Callers, NEW f \in Folders, Project!Create(t, f) PROVE FilesInv'
  BY <1>3, <1>4, FilesByCreate
<1>5. ASSUME NEW t \in Callers, NEW i \in Ids, Project!Reopen(t, i) \/ Project!Rename(t, i) \/ Project!Remove(t, i)
      PROVE  FilesInv'
  BY <1>1, <1>3, <1>5, FilesByReopen, FilesByRename, FilesByRemove
<1>6. ASSUME NEW t \in Callers, Project!CloseProject(t) \/ Project!Open(t) \/ Project!Close(t) \/ Project!CheckActive(t)
      PROVE  FilesInv'
  BY <1>3, <1>6, FilesByCloseProject, FilesByOpen, FilesByClose, FilesByCheckActive
<1>7. ASSUME NEW t \in Callers, Project!Record(t) PROVE FilesInv'
  BY <1>3, <1>7, FilesByOwnRecord, FilesByNewRecord DEF Project!Record
<1>8. ASSUME NEW t \in Callers, Project!Move(t) \/ Project!Update(t) \/ Project!Stage(t) \/ Project!Forget(t)
                                \/ Project!DeleteStaged(t)
      PROVE  FilesInv'
  BY <1>1, <1>3, <1>8, FilesByMove, FilesByUpdate, FilesByStage, FilesByForget, FilesByDeleteStaged
<1>9. CASE Project!Reconnect \/ Project!EngineDies \/ Project!Restart
  BY <1>1, <1>3, <1>9, FilesByTheEngine, FilesByRestart
<1> QED  BY <1>4, <1>5, <1>6, <1>7, <1>8, <1>9 DEF Project!ProjectNext

LEMMA TidyFinds == ASSUME TidyInv PROVE Project!RecordFindsData
BY DEF TidyInv, Tidy, FilesInv, DataThere, DataOf, Holds, Busy, Project!RecordFindsData, Project!Idle

LEMMA TidyRest == ASSUME TidyInv, UNCHANGED <<record, file, staged, agenda, born, overlapped, accident>> PROVE TidyInv'
<1>1. \A i : DataOf(i)' <=> DataOf(i)
  BY DEF DataOf, Holds, Busy, Last
<1>2. ThreadsFine' <=> ThreadsFine
  BY DEF ThreadsFine, InForm, Fine, Busy, Last
<1> QED  BY <1>1, <1>2 DEF TidyInv, Tidy, FilesInv, FilesShape, Apart, DataThere

--------------------------------------------------------------------------------
(* The engine's process, its sessions, and the settings they run with.     *)

AnyLevel == Levels \cup {None, "mixed"}
ApplySteps == {"none", "configure", "want", "note", "store", "finish", "restore", "note back"}
Sessions == [id : Nat, path : LinkPaths, level : AnyLevel]

LinkShape ==
    /\ process \in [number : Nat, alive : BOOLEAN] /\ opened \in Nat
    /\ held \subseteq Sessions /\ \A s \in held : s.id <= opened
    /\ current \in [id : Nat, path : LinkPaths, process : Nat] \cup {None}
    /\ {wanted, effective, requested, stored} \subseteq AnyLevel
    /\ {inProject, blurred} \subseteq BOOLEAN
    /\ opening \in [at : {"none", "open", "record"}, path : LinkPaths \cup {None}, level : AnyLevel]
    /\ opening.at # "none" => opening.path \in LinkPaths /\ ~inProject
    /\ applying \in [at : ApplySteps, level : AnyLevel, previous : AnyLevel, connected : BOOLEAN]

\* A process that is gone has no session, and a session noted is of no later process.
ProcessKnown ==
    /\ ~process.alive => held = {}
    /\ current # None => current.process <= process.number

SessionsInv == LinkShape /\ ProcessKnown /\ Link!NoSessionLeaks

\* The session the manager uses has these settings, and they are told to be in effect.
Has(level) == \A s \in Link!Of(current.id) : s.level = level
Runs(level) == effective = level /\ Has(level)

\* Applying settings: what each of its steps finds of the settings wanted, of those
\* requested and stored before, and of the way it took.
ApplyKnows ==
    /\ applying.at = "none" => wanted = requested /\ requested = stored
    /\ applying.at \in {"configure", "want", "note"} => wanted = applying.previous
    /\ applying.at \in {"store", "finish"} => wanted = applying.level
    /\ applying.at \notin {"none", "finish"} =>
          requested = applying.previous /\ stored = applying.previous
    /\ applying.at = "finish" => stored = applying.level
    /\ applying.at \in {"configure", "note", "restore", "note back"} => applying.connected
    /\ applying.at = "want" => ~applying.connected

\* The session of the active project: no settings are applied to it without a connection,
\* and it runs with what is wanted but between its configuration and the note of it.
ProjectRuns ==
    inProject /\ Link!Connected =>
        /\ applying.at # "none" => applying.connected
        /\ applying.at \in {"none", "configure", "store", "finish"} => Runs(wanted)
        /\ applying.at \in {"note", "note back"} => Has(Link!Target)

\* The session of a project being opened runs with the settings the opening read, unless
\* settings were applied meanwhile; and then with what is wanted, if that is the same.
OpeningRuns ==
    opening.at = "record" /\ Link!Connected =>
        /\ applying.at \in {"none", "store", "finish"} /\ wanted = opening.level => Runs(wanted)
        /\ applying.at # "none" /\ (~applying.connected \/ applying.at = "configure") => Runs(opening.level)
        /\ applying.at \in {"note", "note back"} /\ Link!Target = opening.level => Has(Link!Target)

SettingsInv == SessionsInv /\ (~blurred => ApplyKnows /\ ProjectRuns /\ OpeningRuns)

LEMMA LinkStart == Link!LinkInit => SettingsInv
<1> SUFFICES ASSUME Link!LinkInit PROVE SettingsInv
  OBVIOUS
<1>1. LinkShape
  BY DEF Link!LinkInit, LinkShape, AnyLevel, Link!NotOpening, Link!NotApplying, ApplySteps
<1>2. ProcessKnown /\ Link!NoSessionLeaks
  BY DEF Link!LinkInit, ProcessKnown, Link!NoSessionLeaks
<1>3. ApplyKnows /\ ProjectRuns /\ OpeningRuns
  BY DEF Link!LinkInit, ApplyKnows, ProjectRuns, OpeningRuns, Link!NotOpening, Link!NotApplying
<1> QED  BY <1>1, <1>2, <1>3 DEF SettingsInv, SessionsInv

\* A step that opens and closes no session.
LEMMA SessionsFrame ==
  ASSUME SessionsInv, UNCHANGED <<process, held, current, opened>>, refused \subseteq refused', LinkShape'
  PROVE  SessionsInv' /\ Link!Connected' = Link!Connected /\ \A l : Has(l)' <=> Has(l)
BY DEF SessionsInv, ProcessKnown, Link!NoSessionLeaks, Link!Connected, Has, Link!Of

\* Opening a session: the new one alone has the next id.
LEMMA OpenedRuns ==
  ASSUME SessionsInv, NEW others \in SUBSET held, NEW path \in LinkPaths, NEW level \in AnyLevel,
         Link!Opens(others, path, level), UNCHANGED <<process, refused>>,
         \A s \in others : s.id \in refused
  PROVE  /\ opened' = opened + 1 /\ effective' = level
         /\ held' \subseteq Sessions /\ \A s \in held' : s.id <= opened'
         /\ current' \in [id : Nat, path : LinkPaths, process : Nat]
         /\ ProcessKnown' /\ Link!NoSessionLeaks'
         /\ Runs(level)'
<1>1. PICK new \in Sessions : /\ new = [id |-> opened + 1, path |-> path, level |-> level]
                              /\ new.id = opened + 1 /\ new.level = level
  <2>1. [id |-> opened + 1, path |-> path, level |-> level] \in Sessions
    BY DEF SessionsInv, LinkShape, Sessions
  <2> QED  BY <2>1
<1>2. opened' = opened + 1 /\ held' = others \cup {new} /\ effective' = level /\ process.alive
  BY <1>1 DEF Link!Opens
<1>3. PICK now \in [id : Nat, path : LinkPaths, process : Nat] :
        now = current' /\ now.id = opened + 1 /\ now.process = process.number
  <2>1. current' = [id |-> opened + 1, path |-> path, process |-> process.number]
    BY <1>2 DEF Link!Opens
  <2>2. current' \in [id : Nat, path : LinkPaths, process : Nat]
    BY <2>1 DEF SessionsInv, LinkShape
  <2> QED  BY <2>1, <2>2
<1>4. now # None /\ opened \in Nat /\ process.number \in Nat
  BY LinkConstants DEF SessionsInv, LinkShape
<1>5. ProcessKnown'
  BY <1>2, <1>3, <1>4 DEF ProcessKnown
<1>6. Link!NoSessionLeaks'
  BY <1>1, <1>2, <1>3, <1>4 DEF Link!NoSessionLeaks, Link!Connected
<1>7. \A s \in held' : s.id <= opened'
  <2>1. \A s \in others : s.id \in Nat /\ s.id <= opened
    BY DEF SessionsInv, LinkShape, Sessions
  <2> QED  BY <2>1, <1>1, <1>2, <1>4
<1>8. Has(level)'
  <2>1. \A s \in others : s.id # opened + 1
    BY <1>4 DEF SessionsInv, LinkShape, Sessions
  <2> QED  BY <2>1, <1>1, <1>2, <1>3 DEF Has, Link!Of
<1>9. held' \subseteq Sessions
  BY <1>1, <1>2 DEF SessionsInv, LinkShape
<1> QED  BY <1>2, <1>3, <1>5, <1>6, <1>7, <1>8, <1>9 DEF Runs

\* Of a session no longer connected nothing is known.
LEMMA Disconnected ==
  ASSUME SettingsInv, ~Link!Connected', SessionsInv', ~blurred' => ApplyKnows' PROVE SettingsInv'
BY DEF SettingsInv, ProjectRuns, OpeningRuns

\* The process, its imports, and a restart of the application.
LEMMA ProcessSteps ==
  ASSUME SettingsInv, \/ Link!StartProcess \/ Link!EngineDies \/ Link!StartImport
                      \/ (\E id \in importing : Link!EndImport(id)) \/ Link!Restart
  PROVE  SettingsInv'
<1>1. CASE Link!StartProcess
  <2>1. /\ ~process.alive /\ process' = [number |-> process.number + 1, alive |-> TRUE]
        /\ UNCHANGED <<held, current, opened, refused, blurred, applying, opening, inProject, wanted, effective, requested, stored>>
    BY <1>1 DEF Link!StartProcess, Link!settings
  <2>2. LinkShape'
    BY <2>1 DEF SettingsInv, SessionsInv, LinkShape
  <2>3. ~Link!Connected'
    BY <2>1 DEF Link!Connected, SettingsInv, SessionsInv, LinkShape, ProcessKnown
  <2>4. held' = {} /\ (current' # None => current'.process <= process'.number)
    BY <2>1 DEF SettingsInv, SessionsInv, LinkShape, ProcessKnown
  <2>5. SessionsInv'
    BY <2>2, <2>4 DEF SessionsInv, ProcessKnown, Link!NoSessionLeaks
  <2>6. ~blurred' => ApplyKnows'
    BY <2>1 DEF SettingsInv, ApplyKnows
  <2> QED  BY <2>3, <2>5, <2>6, Disconnected
<1>2. CASE Link!EngineDies
  <2>1. /\ process' = [process EXCEPT !.alive = FALSE] /\ held' = {}
        /\ UNCHANGED <<current, opened, refused, blurred, applying, opening, inProject, wanted, effective, requested, stored>>
    BY <1>2 DEF Link!EngineDies, Link!settings
  <2>2. LinkShape' /\ process'.number = process.number /\ ~process'.alive
    BY <2>1 DEF SettingsInv, SessionsInv, LinkShape
  <2>3. ~Link!Connected'
    BY <2>2 DEF Link!Connected
  <2>5. SessionsInv'
    BY <2>1, <2>2 DEF SettingsInv, SessionsInv, ProcessKnown, Link!NoSessionLeaks
  <2>6. ~blurred' => ApplyKnows'
    BY <2>1 DEF SettingsInv, ApplyKnows
  <2> QED  BY <2>3, <2>5, <2>6, Disconnected
<1>3. CASE UNCHANGED <<process, held, current, opened, refused, blurred, applying, opening, inProject, wanted, effective, requested, stored>>
  <2>1. LinkShape'
    BY <1>3 DEF SettingsInv, SessionsInv, LinkShape
  <2>2. SessionsInv' /\ Link!Connected' = Link!Connected
    BY <1>3, <2>1, SessionsFrame DEF SettingsInv
  <2>3. ASSUME ~blurred' PROVE ApplyKnows' /\ ProjectRuns' /\ OpeningRuns'
    <3>1. ApplyKnows /\ ProjectRuns /\ OpeningRuns
      BY <1>3, <2>3 DEF SettingsInv
    <3>2. ApplyKnows'
      BY <1>3, <3>1 DEF ApplyKnows
    <3>3. ProjectRuns'
      BY <1>3, <2>2, <3>1 DEF ProjectRuns, Runs, Has, Link!Of, Link!Target, Link!At
    <3>4. OpeningRuns'
      BY <1>3, <2>2, <3>1 DEF OpeningRuns, Runs, Has, Link!Of, Link!Target, Link!At
    <3> QED  BY <3>2, <3>3, <3>4
  <2> QED  BY <2>2, <2>3 DEF SettingsInv
<1>4. CASE Link!StartImport \/ \E id \in importing : Link!EndImport(id)
  BY <1>3, <1>4 DEF Link!StartImport, Link!EndImport, Link!settings
<1>5. CASE Link!Restart
  <2>1. /\ process' = [process EXCEPT !.alive = FALSE] /\ held' = {} /\ current' = None /\ effective' = None
        /\ wanted' = stored /\ requested' = stored /\ stored' = stored /\ opened' = opened
        /\ inProject' = FALSE /\ opening' = Link!NotOpening /\ applying' = Link!NotApplying /\ blurred' = FALSE
    BY <1>5 DEF Link!Restart
  <2>2. LinkShape' /\ ~process'.alive
    BY <2>1 DEF SettingsInv, SessionsInv, LinkShape, AnyLevel, Link!NotOpening, Link!NotApplying, ApplySteps
  <2>3. ~Link!Connected'
    BY <2>2 DEF Link!Connected
  <2>5. SessionsInv'
    BY <2>1, <2>2 DEF SessionsInv, ProcessKnown, Link!NoSessionLeaks
  <2>6. ApplyKnows'
    BY <2>1 DEF ApplyKnows, Link!NotApplying
  <2> QED  BY <2>3, <2>5, <2>6, Disconnected
<1> QED  BY <1>1, <1>2, <1>4, <1>5

\* A session lost with its process is opened again with what is wanted.
LEMMA ReopenRuns ==
  ASSUME SettingsInv, Link!Reopen PROVE SettingsInv'
<1>1. /\ current # None /\ current.process # process.number
      /\ Link!Opens(held, current.path, wanted)
      /\ blurred' = (blurred \/ applying.at # "none")
      /\ UNCHANGED <<process, refused, applying, opening, inProject, wanted, requested, stored>>
  BY DEF Link!Reopen, Link!ReopenLevel
<1>2. /\ current.path \in LinkPaths /\ wanted \in AnyLevel
      /\ \A s \in held : s.id \in refused
  BY <1>1 DEF SettingsInv, SessionsInv, LinkShape, Link!NoSessionLeaks, Link!Connected
<1>3. /\ opened' = opened + 1 /\ effective' = wanted
      /\ held' \subseteq Sessions /\ \A s \in held' : s.id <= opened'
      /\ current' \in [id : Nat, path : LinkPaths, process : Nat]
      /\ ProcessKnown' /\ Link!NoSessionLeaks'
      /\ Runs(wanted)'
  BY <1>1, <1>2, OpenedRuns DEF SettingsInv, Runs, Has
<1>4. SessionsInv'
  BY <1>1, <1>3 DEF SettingsInv, SessionsInv, LinkShape
<1>5. ASSUME ~blurred' PROVE ApplyKnows' /\ ProjectRuns' /\ OpeningRuns'
  <2>1. ~blurred /\ applying.at = "none" /\ applying'.at = "none"
    BY <1>1, <1>5 DEF SettingsInv, SessionsInv, LinkShape
  <2>2. ApplyKnows'
    BY <2>1, <1>1 DEF SettingsInv, ApplyKnows
  <2> QED  BY <2>1, <2>2, <1>1, <1>3 DEF ProjectRuns, OpeningRuns
<1> QED  BY <1>4, <1>5 DEF SettingsInv

\* Opening and closing projects.
LEMMA ProjectSessions ==
  ASSUME SettingsInv, \/ (\E p \in LinkPaths : Link!Open(p)) \/ Link!OpenSession
                      \/ Link!RecordProject \/ Link!CloseSession
  PROVE  SettingsInv'
<1>1. ASSUME NEW p \in LinkPaths, Link!Open(p) PROVE SettingsInv'
  <2>1. /\ opening.at = "none" /\ ~inProject /\ opening' = [at |-> "open", path |-> p, level |-> wanted]
        /\ UNCHANGED <<process, held, current, opened, refused, blurred, applying, inProject, wanted, effective, requested, stored>>
    BY <1>1 DEF Link!Open, Link!sessions, Link!settings
  <2>2. LinkShape' /\ opening'.at = "open"
    BY <2>1 DEF SettingsInv, SessionsInv, LinkShape
  <2>3. SessionsInv' /\ Link!Connected' = Link!Connected
    BY <2>1, <2>2, SessionsFrame DEF SettingsInv
  <2>4. ~blurred' => ApplyKnows' /\ ProjectRuns' /\ OpeningRuns'
    BY <2>1, <2>2 DEF SettingsInv, ApplyKnows, ProjectRuns, OpeningRuns
  <2> QED  BY <2>3, <2>4 DEF SettingsInv
<1>2. ASSUME Link!OpenSession PROVE SettingsInv'
  <2> DEFINE others == {s \in held : s.id \notin Link!Before}
  <2>1. /\ opening.at = "open" /\ ~inProject /\ opening.path \in LinkPaths /\ opening.level \in AnyLevel
        /\ UNCHANGED <<process, refused, blurred, applying, inProject, wanted, requested, stored>>
    BY <1>2 DEF Link!OpenSession, SettingsInv, SessionsInv, LinkShape
  <2>2. others \in SUBSET held /\ \A s \in others : s.id \in refused
    BY DEF SettingsInv, SessionsInv, Link!NoSessionLeaks, Link!Before
  <2>3. CASE Link!Opens(others, opening.path, opening.level) /\ opening' = [opening EXCEPT !.at = "record"]
    <3> HIDE DEF others
    <3>1. /\ opened' = opened + 1 /\ effective' = opening.level
          /\ held' \subseteq Sessions /\ \A s \in held' : s.id <= opened'
          /\ current' \in [id : Nat, path : LinkPaths, process : Nat]
          /\ ProcessKnown' /\ Link!NoSessionLeaks'
          /\ \A s \in Link!Of(current.id)' : s.level = opening.level
      BY <2>1, <2>2, <2>3, OpenedRuns DEF SettingsInv, Runs, Has
    <3>2. opening'.at = "record" /\ opening'.level = opening.level
      BY <2>3 DEF SettingsInv, SessionsInv, LinkShape
    <3>3. SessionsInv'
      BY <2>1, <2>3, <3>1 DEF SettingsInv, SessionsInv, LinkShape
    <3>4. ~blurred' => ApplyKnows' /\ ProjectRuns'
      BY <2>1 DEF SettingsInv, ApplyKnows, ProjectRuns
    <3>5. OpeningRuns'
      BY <2>1, <3>1, <3>2 DEF OpeningRuns, Runs, Has, Link!Target, Link!At
    <3> QED  BY <3>3, <3>4, <3>5 DEF SettingsInv
  <2>4. CASE /\ opening' = Link!NotOpening /\ UNCHANGED <<current, opened, effective>>
             /\ held' = others \/ held' = held
    <3>1. opening'.at = "none" /\ LinkShape'
      BY <2>1, <2>4 DEF SettingsInv, SessionsInv, LinkShape, Link!NotOpening, AnyLevel
    <3>2. SessionsInv'
      BY <2>1, <2>2, <2>4, <3>1 DEF SettingsInv, SessionsInv, ProcessKnown, Link!NoSessionLeaks, Link!Connected
    <3>3. ~blurred' => ApplyKnows' /\ ProjectRuns'
      BY <2>1 DEF SettingsInv, ApplyKnows, ProjectRuns
    <3> QED  BY <3>1, <3>2, <3>3 DEF SettingsInv, OpeningRuns
  <2> QED  BY <1>2, <2>3, <2>4 DEF Link!OpenSession
<1>3. ASSUME Link!RecordProject PROVE SettingsInv'
  <2>1. /\ opening.at = "record" /\ ~inProject /\ opening' = Link!NotOpening /\ inProject' \in {TRUE, inProject}
        /\ blurred' = (blurred \/ wanted # opening.level \/ applying.at # "none")
        /\ UNCHANGED <<process, held, current, opened, refused, applying, wanted, effective, requested, stored>>
    BY <1>3 DEF Link!RecordProject, Link!sessions, Link!settings, SettingsInv, SessionsInv, LinkShape
  <2>2. LinkShape' /\ opening'.at = "none"
    BY <2>1 DEF SettingsInv, SessionsInv, LinkShape, Link!NotOpening, AnyLevel
  <2>3. SessionsInv' /\ Link!Connected' = Link!Connected
    BY <2>1, <2>2, SessionsFrame DEF SettingsInv
  <2>4. ASSUME ~blurred' PROVE ApplyKnows' /\ ProjectRuns' /\ OpeningRuns'
    <3>1. ~blurred /\ wanted = opening.level /\ applying.at = "none"
      BY <2>1, <2>4
    <3>2. Link!Connected => Runs(wanted)
      BY <2>1, <3>1 DEF SettingsInv, OpeningRuns
    <3> QED  BY <2>1, <2>2, <2>3, <3>1, <3>2 DEF SettingsInv, ApplyKnows, ProjectRuns, OpeningRuns, Runs, Has, Link!Of
  <2> QED  BY <2>3, <2>4 DEF SettingsInv
<1>4. ASSUME Link!CloseSession PROVE SettingsInv'
  <2>1. /\ opening.at = "none" /\ inProject /\ current' = None /\ effective' = None
        /\ UNCHANGED <<process, opened, opening, blurred, applying, wanted, requested, stored>>
        /\ refused \subseteq refused' /\ inProject' \in BOOLEAN
    BY <1>4 DEF Link!CloseSession
  <2>2. held' \subseteq held /\ \A s \in held' : s.id \in refused'
    <3>1. CASE Link!Connected /\ ~Link!Closes
      BY <1>4, <3>1 DEF Link!CloseSession, SettingsInv, SessionsInv, Link!NoSessionLeaks
    <3>2. CASE ~(Link!Connected /\ ~Link!Closes)
      <4>1. held' = (IF Link!Connected THEN held \ Link!Of(current.id) ELSE held) /\ refused' = refused
        BY <1>4, <3>2 DEF Link!CloseSession
      <4>2. \A s \in held : s.id \in refused \/ (Link!Connected /\ s.id = current.id)
        BY DEF SettingsInv, SessionsInv, Link!NoSessionLeaks
      <4>3. CASE Link!Connected
        BY <4>1, <4>2, <4>3 DEF Link!Of
      <4>4. CASE ~Link!Connected
        BY <4>1, <4>2, <4>4
      <4> QED  BY <4>3, <4>4
    <3> QED  BY <3>1, <3>2
  <2>3. LinkShape'
    BY <2>1, <2>2 DEF SettingsInv, SessionsInv, LinkShape, AnyLevel
  <2>4. SessionsInv' /\ ~Link!Connected'
    BY <2>1, <2>2, <2>3 DEF SettingsInv, SessionsInv, ProcessKnown, Link!NoSessionLeaks, Link!Connected
  <2>5. ~blurred' => ApplyKnows'
    BY <2>1 DEF SettingsInv, ApplyKnows
  <2> QED  BY <2>4, <2>5, Disconnected
<1> QED  BY <1>1, <1>2, <1>3, <1>4

\* Configuring the session: the others keep what they have.
LEMMA ConfiguredHas ==
  ASSUME SessionsInv, NEW level \in AnyLevel, held' = Link!Set(current.id, level),
         UNCHANGED <<process, current, opened, refused>>
  PROVE  /\ held' \subseteq Sessions /\ \A s \in held' : s.id <= opened'
         /\ ProcessKnown' /\ Link!NoSessionLeaks' /\ Link!Connected' = Link!Connected
         /\ \A s \in Link!Of(current.id)' : s.level = level
<1>1. \A s \in held : /\ [s EXCEPT !.level = level] \in Sessions
                      /\ [s EXCEPT !.level = level].id = s.id /\ [s EXCEPT !.level = level].level = level
  BY DEF SessionsInv, LinkShape, Sessions
<1>2. \A s \in held' : \E old \in held : s.id = old.id /\ s \in Sessions /\ (s.id = current.id => s.level = level)
  <2> SUFFICES ASSUME NEW s \in held'
               PROVE  \E old \in held : s.id = old.id /\ s \in Sessions /\ (s.id = current.id => s.level = level)
    OBVIOUS
  <2>1. PICK old \in held : s = IF old.id = current.id THEN [old EXCEPT !.level = level] ELSE old
    BY DEF Link!Set
  <2>2. old \in Sessions
    BY DEF SessionsInv, LinkShape
  <2>3. CASE old.id = current.id
    BY <1>1, <2>1, <2>3
  <2>4. CASE old.id # current.id
    BY <2>1, <2>2, <2>4
  <2> QED  BY <2>3, <2>4
<1>3. held = {} => held' = {}
  BY <1>2
<1>4. Link!Connected' = Link!Connected
  BY DEF Link!Connected
<1>5. \A s \in held' : s.id <= opened'
  BY <1>2 DEF SessionsInv, LinkShape
<1>6. ProcessKnown' /\ Link!NoSessionLeaks'
  BY <1>2, <1>3, <1>4 DEF SessionsInv, ProcessKnown, Link!NoSessionLeaks
<1> QED  BY <1>2, <1>4, <1>5, <1>6 DEF Link!Of

\* The steps of applying settings.
LEMMA ApplySettings ==
  ASSUME SettingsInv, (\E l \in Levels : Link!Apply(l)) \/ Link!Configure \/ Link!Note \/ Link!Want
                      \/ Link!Store \/ Link!Finish
  PROVE  SettingsInv'
<1>0. /\ applying \in [at : ApplySteps, level : AnyLevel, previous : AnyLevel, connected : BOOLEAN]
      /\ Link!Target \in AnyLevel
  BY DEF SettingsInv, SessionsInv, LinkShape, Link!Target
<1>1. ASSUME NEW l \in Levels, Link!Apply(l) PROVE SettingsInv'
  <2>1. PICK a \in [at : {"configure", "want"}, level : AnyLevel, previous : AnyLevel, connected : BOOLEAN] :
          /\ applying' = a /\ a.previous = requested
          /\ a.at = (IF inProject /\ Link!Connected THEN "configure" ELSE "want")
          /\ a.connected = (inProject /\ Link!Connected)
    <3>1. [at |-> IF inProject /\ Link!Connected THEN "configure" ELSE "want", level |-> l,
           previous |-> requested, connected |-> inProject /\ Link!Connected]
          \in [at : {"configure", "want"}, level : AnyLevel, previous : AnyLevel, connected : BOOLEAN]
      BY DEF SettingsInv, SessionsInv, LinkShape, AnyLevel, Link!Connected
    <3> QED  BY <1>1, <3>1 DEF Link!Apply
  <2>2. /\ applying.at = "none" /\ blurred' = (blurred \/ opening.at # "none")
        /\ UNCHANGED <<process, held, current, opened, refused, opening, inProject, wanted, effective, requested, stored>>
    BY <1>1 DEF Link!Apply, Link!sessions, Link!settings
  <2>3. LinkShape'
    BY <2>1, <2>2 DEF SettingsInv, SessionsInv, LinkShape, ApplySteps
  <2>4. SessionsInv' /\ Link!Connected' = Link!Connected
    BY <2>2, <2>3, SessionsFrame DEF SettingsInv
  <2>5. ASSUME ~blurred' PROVE ApplyKnows' /\ ProjectRuns' /\ OpeningRuns'
    <3>1. ~blurred /\ opening'.at = "none" /\ ApplyKnows /\ ProjectRuns
      BY <2>2, <2>5 DEF SettingsInv, SessionsInv, LinkShape
    <3>2. ApplyKnows'
      BY <2>1, <2>2, <3>1 DEF ApplyKnows
    <3>3. ProjectRuns'
      BY <2>1, <2>2, <2>4, <3>1 DEF ProjectRuns, Runs, Has, Link!Of
    <3> QED  BY <3>1, <3>2, <3>3 DEF OpeningRuns
  <2> QED  BY <2>4, <2>5 DEF SettingsInv
<1>2. ASSUME Link!Configure PROVE SettingsInv'
  <2>1. /\ applying.at \in {"configure", "restore"}
        /\ UNCHANGED <<process, current, opened, refused, opening, inProject, wanted, effective, requested, stored>>
    BY <1>2 DEF Link!Configure, Link!At, Link!settings
  <2>2. CASE /\ held' = Link!Set(current.id, Link!Target) /\ UNCHANGED blurred
             /\ applying' = [applying EXCEPT !.at = IF applying.at = "configure" THEN "note" ELSE "note back"]
    <3>1. /\ applying'.at = (IF applying.at = "configure" THEN "note" ELSE "note back")
          /\ applying'.level = applying.level /\ applying'.previous = applying.previous
          /\ applying'.connected = applying.connected
          /\ applying' \in [at : ApplySteps, level : AnyLevel, previous : AnyLevel, connected : BOOLEAN]
      BY <1>0, <2>2 DEF ApplySteps
    <3>2. Link!Target' = Link!Target
      BY <2>1, <3>1 DEF Link!Target, Link!At
    <3>3. /\ held' \subseteq Sessions /\ \A s \in held' : s.id <= opened'
          /\ ProcessKnown' /\ Link!NoSessionLeaks' /\ Link!Connected' = Link!Connected
          /\ \A s \in Link!Of(current.id)' : s.level = Link!Target
      BY <1>0, <2>1, <2>2, ConfiguredHas DEF SettingsInv
    <3>4. SessionsInv'
      BY <2>1, <2>2, <3>1, <3>3 DEF SettingsInv, SessionsInv, LinkShape
    <3>5. ASSUME ~blurred' PROVE ApplyKnows' /\ ProjectRuns' /\ OpeningRuns'
      <4>1. ApplyKnows /\ ProjectRuns /\ OpeningRuns
        BY <2>2, <3>5 DEF SettingsInv
      <4>2. ApplyKnows'
        BY <2>1, <3>1, <4>1 DEF ApplyKnows
      <4>3. \A s \in Link!Of(current.id)' : s.level = Link!Target'
        BY <3>2, <3>3
      <4>4. ProjectRuns'
        BY <2>1, <3>1, <3>3, <4>1, <4>3 DEF ProjectRuns, Has
      <4>5. OpeningRuns'
        BY <2>1, <3>1, <3>3, <4>1, <4>2, <4>3 DEF OpeningRuns, Has, ApplyKnows
      <4> QED  BY <4>2, <4>4, <4>5
    <3> QED  BY <3>4, <3>5 DEF SettingsInv
  <2>3. CASE applying' = Link!NotApplying /\ held' = held /\ blurred' = (blurred \/ Link!At("restore"))
    <3>1. applying'.at = "none" /\ LinkShape'
      BY <2>1, <2>3 DEF SettingsInv, SessionsInv, LinkShape, Link!NotApplying, ApplySteps, AnyLevel, Link!At
    <3>2. SessionsInv' /\ Link!Connected' = Link!Connected
      BY <2>1, <2>3, <3>1, SessionsFrame DEF SettingsInv
    <3>3. ASSUME ~blurred' PROVE ApplyKnows' /\ ProjectRuns' /\ OpeningRuns'
      <4>1. applying.at = "configure" /\ ApplyKnows /\ ProjectRuns /\ OpeningRuns
        BY <2>1, <2>3, <3>3 DEF SettingsInv, Link!At
      <4>2. ApplyKnows'
        BY <2>1, <3>1, <4>1 DEF ApplyKnows
      <4>3. ProjectRuns'
        BY <2>1, <2>3, <3>1, <3>2, <4>1 DEF ProjectRuns, Runs, Has, Link!Of
      <4>4. OpeningRuns'
        BY <2>1, <2>3, <3>1, <3>2, <4>1 DEF OpeningRuns, Runs, Has, Link!Of
      <4> QED  BY <4>2, <4>3, <4>4
    <3> QED  BY <3>2, <3>3 DEF SettingsInv
  <2>4. CASE applying' = Link!NotApplying /\ held' = Link!Set(current.id, "mixed") /\ blurred' = TRUE
    <3>1. "mixed" \in AnyLevel
      BY DEF AnyLevel
    <3>2. /\ held' \subseteq Sessions /\ \A s \in held' : s.id <= opened'
          /\ ProcessKnown' /\ Link!NoSessionLeaks'
      BY <2>1, <2>4, <3>1, ConfiguredHas DEF SettingsInv
    <3>3. SessionsInv'
      BY <2>1, <2>4, <3>2 DEF SettingsInv, SessionsInv, LinkShape, Link!NotApplying, ApplySteps, AnyLevel
    <3> QED  BY <2>4, <3>3 DEF SettingsInv
  <2> QED  BY <1>2, <2>1, <2>2, <2>3, <2>4 DEF Link!Configure, Link!Goes, Link!At
<1>3. ASSUME Link!Note \/ Link!Want \/ Link!Store \/ Link!Finish PROVE SettingsInv'
  <2> DEFINE Applyings == [at : ApplySteps, level : AnyLevel, previous : AnyLevel, connected : BOOLEAN]
             NextAt(step) == /\ applying' \in Applyings /\ applying'.at = step
                             /\ applying'.level = applying.level /\ applying'.previous = applying.previous
                             /\ applying'.connected = applying.connected
             Ended == applying' \in Applyings /\ applying'.at = "none"
             NoteStep == /\ wanted' = Link!Target /\ effective' = Link!Target /\ UNCHANGED <<requested, stored>>
                         /\ (applying.at = "note" /\ NextAt("store")) \/ (applying.at = "note back" /\ Ended)
             WantStep == /\ wanted' = applying.level /\ UNCHANGED <<requested, stored, effective>>
                         /\ applying.at = "want" /\ NextAt("store")
             StoreStep == /\ applying.at = "store" /\ UNCHANGED <<requested, effective>>
                          /\ \/ stored' = applying.level /\ wanted' = wanted /\ NextAt("finish")
                             \/ applying.connected /\ stored' = stored /\ wanted' = wanted /\ NextAt("restore")
                             \/ ~applying.connected /\ stored' = stored /\ wanted' = applying.previous /\ Ended
             FinishStep == /\ applying.at = "finish" /\ UNCHANGED <<wanted, stored, effective>>
                           /\ requested' = applying.level /\ Ended
  <2>1. /\ UNCHANGED <<process, held, current, opened, refused, opening, inProject, blurred>>
        /\ NoteStep \/ WantStep \/ StoreStep \/ FinishStep
    <3>1. ASSUME NEW step \in ApplySteps, Link!Goes(step) PROVE NextAt(step)
      BY <1>0, <3>1 DEF Link!Goes
    <3>2. applying' = Link!NotApplying => Ended
      BY DEF Link!NotApplying, ApplySteps, AnyLevel
    <3> HIDE DEF NextAt, Ended, Applyings
    <3>3. CASE Link!Note
      <4>1. NoteStep
        BY <3>1, <3>2, <3>3 DEF Link!Note, Link!At, ApplySteps
      <4> QED  BY <3>3, <4>1 DEF Link!Note, Link!sessions
    <3>4. CASE Link!Want
      <4>1. WantStep
        BY <3>1, <3>2, <3>4 DEF Link!Want, Link!At, ApplySteps
      <4> QED  BY <3>4, <4>1 DEF Link!Want, Link!sessions
    <3>5. CASE Link!Store
      <4>1. StoreStep
        BY <3>1, <3>2, <3>5 DEF Link!Store, Link!TakenBack, Link!At, ApplySteps
      <4> QED  BY <3>5, <4>1 DEF Link!Store, Link!sessions
    <3>6. CASE Link!Finish
      <4>1. FinishStep
        BY <3>1, <3>2, <3>6 DEF Link!Finish, Link!At, ApplySteps
      <4> QED  BY <3>6, <4>1 DEF Link!Finish, Link!sessions
    <3> QED  BY <1>3, <3>3, <3>4, <3>5, <3>6
  <2>2. /\ applying' \in Applyings /\ {wanted', effective', requested', stored'} \subseteq AnyLevel
        /\ {wanted, effective, requested, stored} \subseteq AnyLevel
    BY <1>0, <2>1 DEF SettingsInv, SessionsInv, LinkShape
  <2>3. LinkShape'
    BY <2>1, <2>2 DEF SettingsInv, SessionsInv, LinkShape
  <2>4. SessionsInv' /\ Link!Connected' = Link!Connected
    BY <2>1, <2>3, SessionsFrame DEF SettingsInv
  <2>5. Link!Of(current.id)' = Link!Of(current.id)
    BY <2>1 DEF Link!Of
  <2>6. ASSUME ~blurred, ApplyKnows, ProjectRuns, OpeningRuns PROVE ApplyKnows' /\ ProjectRuns' /\ OpeningRuns'
    <3>1. ApplyKnows'
      BY <2>1, <2>6 DEF ApplyKnows, Link!Target, Link!At
    <3>2. CASE NoteStep
      <4>1. ProjectRuns'
        BY <2>1, <2>4, <2>5, <2>6, <3>2 DEF ProjectRuns, ApplyKnows, Runs, Has
      <4>2. OpeningRuns'
        BY <2>1, <2>4, <2>5, <2>6, <3>2 DEF OpeningRuns, ApplyKnows, Runs, Has
      <4> QED  BY <3>1, <4>1, <4>2
    <3>3. CASE WantStep
      <4>1. ProjectRuns'
        BY <2>1, <2>4, <2>5, <2>6, <3>3 DEF ProjectRuns, ApplyKnows
      <4>2. OpeningRuns'
        BY <2>1, <2>4, <2>5, <2>6, <3>3 DEF OpeningRuns, ApplyKnows, Runs, Has
      <4> QED  BY <3>1, <4>1, <4>2
    <3>4. CASE StoreStep
      <4>1. ProjectRuns'
        BY <2>1, <2>4, <2>5, <2>6, <3>4 DEF ProjectRuns, ApplyKnows, Runs, Has
      <4>2. OpeningRuns'
        BY <2>1, <2>4, <2>5, <2>6, <3>4 DEF OpeningRuns, ApplyKnows, Runs, Has
      <4> QED  BY <3>1, <4>1, <4>2
    <3>5. CASE FinishStep
      <4>1. ProjectRuns'
        BY <2>1, <2>4, <2>5, <2>6, <3>5 DEF ProjectRuns, ApplyKnows, Runs, Has
      <4>2. OpeningRuns'
        BY <2>1, <2>4, <2>5, <2>6, <3>5 DEF OpeningRuns, ApplyKnows, Runs, Has
      <4> QED  BY <3>1, <4>1, <4>2
    <3> QED  BY <2>1, <3>2, <3>3, <3>4, <3>5
  <2> QED  BY <2>1, <2>4, <2>6 DEF SettingsInv
<1> QED  BY <1>1, <1>2, <1>3

LEMMA LinkStep == SettingsInv /\ Link!LinkNext => SettingsInv'
BY ProcessSteps, ReopenRuns, ProjectSessions, ApplySettings DEF Link!LinkNext

--------------------------------------------------------------------------------
(* What an editor tab shows.                                               *)

JobStates == {"none", "active", "succeeded", "failed", "gone"}
\* What the coordinator tells of an execution it has.
Told == {"active", "succeeded", "failed"}
TabViews == [id : Executions, state : Told, result : BOOLEAN]
RunSteps == {"none", "paint", "submit", "answered"}
LoopSteps == {"none", "waiting", "asked", "error"} \cup Told
There(e) == job[e] \in Told

CallRecords == [at : RunSteps, previous : TabViews \cup {Nobody}, id : Executions \cup {Nobody},
                state : Told \cup {"none"}]

TabShape ==
    /\ job \in [Executions -> JobStates] /\ latest \in Executions \cup {Nobody} /\ released \subseteq Executions
    /\ tab \in {"open", "closing", "closed"} /\ stopped \in BOOLEAN /\ shown \in TabViews \cup {Nobody}
    /\ call \in [Clicks -> CallRecords]
    /\ restore \in [at : {"none", "due", "asked", "answered"}, view : TabViews \cup {Nobody}]
    /\ cancelling \in [at : {"none", "asked", "answered"}, current : TabViews \cup {Nobody}, state : Told \cup {"none"}]
    /\ loop \in [Tab!Loops -> LoopSteps] /\ timer \in Tab!Loops \cup {Nobody}
    /\ refreshed \subseteq Executions

\* Calls of a tab that do not overlap: each has the hook for itself, but for the loop a
\* cancellation goes on beside.
Restoring == restore.at \in {"asked", "answered"}
Cancelling == cancelling.at # "none"
OneAtATime ==
    /\ \A c, d \in Clicks : call[c].at # "none" /\ call[d].at # "none" => c = d
    /\ \A c \in Clicks : call[c].at # "none" =>
          ~Restoring /\ ~Cancelling /\ Tab!Alive = {} /\ tab = "open" /\ (stopped \/ ~Tab!Active)
    /\ Restoring => ~Cancelling /\ Tab!Alive = {} /\ tab = "open" /\ shown = Nobody
    /\ \A l, m \in Tab!Alive : l = m
    /\ tab # "open" => Tab!Alive = {} /\ shown = Nobody /\ ~Cancelling
    /\ \A e \in Executions : job[e] = "gone" => tab = "closed"

\* What the answers a tab is waiting for, or has just got, say of the coordinator.
CallsKnow ==
    \A c \in Clicks :
        /\ call[c].at = "paint" => call[c].previous = shown
        /\ call[c].at = "answered" =>
              /\ latest = call[c].id /\ latest \in Executions /\ There(call[c].id) /\ call[c].id \notin released \cup refreshed
              /\ call[c].state \in {"active", "failed"} /\ (call[c].state = "failed" => job[call[c].id] = "failed")
RestoreKnows ==
    restore.at = "answered" /\ restore.view # Nobody =>
        /\ restore.view.id = latest /\ There(latest)
        /\ restore.view = Tab!View(latest, restore.view.state)
        /\ Tab!Terminal(restore.view.state) => restore.view.state = job[latest]
CancelKnows ==
    Cancelling =>
        /\ cancelling.current # Nobody /\ cancelling.current.state = "active" /\ ~cancelling.current.result
        /\ There(cancelling.current.id)
        /\ cancelling.at = "answered" => cancelling.state \in Told
        /\ ~stopped => Tab!Alive # {} /\ shown # Nobody /\ shown.id = cancelling.current.id
\* A loop is of an execution the coordinator has, and of the one shown.
LoopsKnow ==
    \A l \in Tab!Alive :
        /\ There(l[1]) /\ l[1] \notin released \cup refreshed
        /\ Tab!Terminal(loop[l]) => job[l[1]] = loop[l]
        /\ ~stopped => shown # Nobody /\ shown.id = l[1] /\ (loop[l] = "waiting" => timer = l)

\* What is shown is of the latest execution; it is final once nothing polls it.
LatestShown ==
    /\ \A e \in released \cup refreshed : job[e] # "none"
    /\ \A e \in refreshed : job[e] \in {"succeeded", "gone"}
    /\ tab = "open" /\ released \cup refreshed # {} => shown # Nobody
    /\ latest # Nobody => job[latest] # "none"
    /\ tab = "open" /\ latest # Nobody => There(latest)
    /\ ~twice
    /\ Tab!Active => ~shown.result
    /\ shown # Nobody => There(shown.id)
    /\ shown # Nobody /\ ~stopped =>
          /\ (\A c \in Clicks : call[c].at # "answered") => shown.id = latest
          /\ Tab!Alive = {} => Tab!Terminal(job[shown.id]) /\ shown = Tab!View(shown.id, job[shown.id])
          /\ shown.result /\ shown.id \in released => unsubmitted \/ \E c \in Clicks : call[c].at \in {"submit", "answered"}
TabCalm == TabShape /\ OneAtATime /\ CallsKnow /\ RestoreKnows /\ CancelKnows /\ LoopsKnow /\ LatestShown
TabInv == overlapped \in BOOLEAN /\ (~overlapped => TabCalm)

LEMMA ViewsAreViews ==
  /\ \A e \in Executions, s \in Told : Tab!View(e, s) \in TabViews
  /\ \A e, s : Tab!View(e, s).id = e /\ Tab!View(e, s).state = s /\ (Tab!View(e, s).result <=> s = "succeeded")
  /\ Nobody \notin TabViews /\ Nobody \notin Tab!Loops /\ Nobody \notin Executions
BY TabConstants DEF Tab!View, TabViews, Told, Tab!Loops

LEMMA TabStart == Tab!TabInit => TabInv
<1> SUFFICES ASSUME Tab!TabInit PROVE TabInv
  OBVIOUS
<1>1. PICK e \in Executions, state \in {"none", "active", "succeeded", "failed"} :
         /\ job = [f \in Executions |-> IF f = e THEN state ELSE "none"]
         /\ latest = (IF state = "none" THEN Nobody ELSE e)
  BY DEF Tab!TabInit
<1>2. TabShape
  BY <1>1 DEF Tab!TabInit, TabShape, CallRecords, JobStates, Tab!NoCall, Tab!NotRestoring, Tab!NotCancelling, RunSteps, LoopSteps
<1>3. Tab!Alive = {}
  BY DEF Tab!TabInit, Tab!Alive
<1>4. OneAtATime /\ CallsKnow /\ RestoreKnows /\ CancelKnows /\ LoopsKnow
  BY <1>1, <1>3 DEF Tab!TabInit, OneAtATime, CallsKnow, RestoreKnows, CancelKnows, LoopsKnow, Tab!NoCall,
     Tab!NotRestoring, Tab!NotCancelling, Restoring, Cancelling
<1>5. LatestShown
  <2>1. /\ released = {} /\ refreshed = {} /\ shown = Nobody /\ ~twice /\ ~Tab!Active
    BY DEF Tab!TabInit, Tab!Active
  <2>2. latest # Nobody => job[latest] # "none" /\ There(latest)
    BY <1>1 DEF There, Told
  <2> QED  BY <2>1, <2>2 DEF LatestShown, There
<1> QED  BY <1>2, <1>4, <1>5 DEF TabInv, TabCalm, Tab!TabInit

LEMMA ClickStep ==
  ASSUME TabCalm, NEW c \in Clicks, Tab!Click(c), ~overlapped, ~overlapped'
  PROVE  TabCalm'
<1>1. /\ tab = "open" /\ ~stopped /\ call[c].at = "none" /\ ~Tab!Active
      /\ \A d \in Clicks : call[d].at = "none"
      /\ ~Restoring /\ ~Cancelling /\ Tab!Alive = {}
      /\ UNCHANGED <<job, latest, released, tab, stopped, shown, restore, cancelling, loop, timer, refreshed, twice, unsubmitted>>
  BY DEF Tab!Click, Tab!Overlaps, Tab!Running, Restoring, Cancelling, Tab!coordinatorVars, Tab!historyVars
<1>2. PICK r : /\ r \in CallRecords /\ r.at = "paint" /\ r.previous = shown
               /\ call' = [call EXCEPT ![c] = r]
  <2> DEFINE r == [Tab!NoCall EXCEPT !.at = "paint", !.previous = shown]
  <2>1. r \in CallRecords /\ r.at = "paint" /\ r.previous = shown
    BY DEF Tab!NoCall, CallRecords, TabCalm, TabShape, RunSteps
  <2>2. call' = [call EXCEPT ![c] = r]
    BY Zenon DEF Tab!Click
  <2> QED  BY <2>1, <2>2
<1>3. TabShape'
  BY <1>1, <1>2 DEF TabCalm, TabShape
<1>4. /\ call'[c].at = "paint" /\ call'[c].previous = shown
      /\ \A d \in Clicks : d # c => call'[d] = call[d]
  BY <1>2 DEF TabCalm, TabShape
<1>5. Tab!Alive' = {} /\ (Tab!Active' <=> Tab!Active)
  BY <1>1 DEF Tab!Alive, Tab!Active
<1>6. OneAtATime'
  BY <1>1, <1>4, <1>5 DEF TabCalm, OneAtATime, Restoring, Cancelling
<1>7. CallsKnow'
  BY <1>1, <1>4 DEF TabCalm, CallsKnow, There
<1>8. RestoreKnows' /\ CancelKnows' /\ LoopsKnow'
  BY <1>1, <1>5 DEF TabCalm, RestoreKnows, CancelKnows, LoopsKnow, Restoring, Cancelling
<1>9. LatestShown'
  BY <1>1, <1>4, <1>5 DEF TabCalm, LatestShown, There
<1> QED  BY <1>3, <1>6, <1>7, <1>8, <1>9 DEF TabCalm

\* What one call of `run` does to its own record leaves the others' alone.
LEMMA ReleaseSupersededStep ==
  ASSUME TabCalm, NEW c \in Clicks, Tab!ReleaseSuperseded(c), ~overlapped, ~overlapped'
  PROVE  TabCalm'
<1>1. /\ call[c].at = "paint" /\ call' = [call EXCEPT ![c].at = "submit"]
      /\ \/ released' = released
         \/ call[c].previous # Nobody /\ released' = released \cup {call[c].previous.id}
      /\ UNCHANGED <<job, latest, tab, stopped, shown, restore, cancelling, loop, timer, refreshed, twice, unsubmitted>>
  BY DEF Tab!ReleaseSuperseded
<1>2. call'[c] = [call[c] EXCEPT !.at = "submit"] /\ \A d \in Clicks : d # c => call'[d] = call[d]
  BY <1>1 DEF TabCalm, TabShape
<1>3. /\ ~Restoring /\ ~Cancelling /\ Tab!Alive = {} /\ tab = "open"
      /\ \A d \in Clicks : call[d].at # "none" => d = c
      /\ released' = released \/ (shown # Nobody /\ shown \in TabViews /\ released' = released \cup {shown.id})
  BY <1>1 DEF TabCalm, OneAtATime, CallsKnow, TabShape
<1>4. TabShape'
  BY <1>1, <1>3 DEF TabCalm, TabShape, CallRecords, RunSteps, TabViews
<1>5. Tab!Alive' = {} /\ (Tab!Active' <=> Tab!Active) /\ call[c] \in CallRecords
  BY <1>1, <1>3 DEF Tab!Alive, Tab!Active, TabCalm, TabShape
<1>6. call'[c].at = "submit"
  BY <1>2, <1>5 DEF CallRecords
<1>7. OneAtATime'
  BY <1>1, <1>2, <1>3, <1>5, <1>6 DEF TabCalm, OneAtATime, Restoring, Cancelling
<1>8. CallsKnow'
  BY <1>1, <1>2, <1>3, <1>6 DEF TabCalm, CallsKnow, There
<1>9. RestoreKnows' /\ CancelKnows' /\ LoopsKnow'
  BY <1>1, <1>3, <1>5 DEF TabCalm, RestoreKnows, CancelKnows, LoopsKnow, Restoring, Cancelling
<1>11. shown # Nobody => shown.id \in Executions /\ job[shown.id] # "none"
  BY DEF TabCalm, LatestShown, TabShape, TabViews, There, Told
<1>12. LatestShown'
  BY <1>1, <1>2, <1>3, <1>5, <1>6, <1>11 DEF TabCalm, LatestShown, There
<1> QED  BY <1>4, <1>7, <1>8, <1>9, <1>12 DEF TabCalm

LEMMA SubmitStep ==
  ASSUME TabCalm, NEW c \in Clicks, Tab!Submit(c), ~overlapped, ~overlapped'
  PROVE  TabCalm'
<1>1. PICK e \in Executions, state \in {"active", "failed"} :
         /\ call[c].at = "submit" /\ job[e] = "none"
         /\ job' = [job EXCEPT ![e] = state] /\ latest' = e
         /\ call' = [call EXCEPT ![c].at = "answered", ![c].id = e, ![c].state = state]
         /\ UNCHANGED <<released, tab, stopped, shown, restore, cancelling, loop, timer, refreshed, twice, unsubmitted>>
  BY DEF Tab!Submit, Tab!historyVars
<1>2. call'[c] = [call[c] EXCEPT !.at = "answered", !.id = e, !.state = state]
      /\ \A d \in Clicks : d # c => call'[d] = call[d]
  BY <1>1 DEF TabCalm, TabShape
<1>3. /\ ~Restoring /\ ~Cancelling /\ Tab!Alive = {} /\ tab = "open"
      /\ \A d \in Clicks : call[d].at # "none" => d = c
  BY <1>1 DEF TabCalm, OneAtATime
<1>5. Tab!Alive' = {} /\ (Tab!Active' <=> Tab!Active) /\ call[c] \in CallRecords
  BY <1>1, <1>3 DEF Tab!Alive, Tab!Active, TabCalm, TabShape
<1>4. TabShape'
  <2>1. call'[c] \in CallRecords
    BY <1>2, <1>5 DEF CallRecords, RunSteps, Told
  <2>2. call' \in [Clicks -> CallRecords]
    BY <1>1, <1>2, <2>1 DEF TabCalm, TabShape
  <2>3. job' \in [Executions -> JobStates]
    BY <1>1 DEF TabCalm, TabShape, JobStates
  <2> QED  BY <1>1, <2>2, <2>3 DEF TabCalm, TabShape
<1>6. call'[c].at = "answered" /\ call'[c].id = e /\ call'[c].state = state
  BY <1>2, <1>5 DEF CallRecords
<1>7. job'[e] = state /\ (\A f \in Executions : f # e => job'[f] = job[f]) /\ e \notin released \cup refreshed
  <2>1. job \in [Executions -> JobStates]
    BY DEF TabCalm, TabShape
  <2>2. \A f \in released \cup refreshed : job[f] # "none"
    BY DEF TabCalm, LatestShown
  <2>3. e \notin released \cup refreshed
    BY <1>1, <2>2
  <2>4. job'[e] = state /\ \A f \in Executions : f # e => job'[f] = job[f]
    BY <1>1, <2>1
  <2> QED  BY <2>3, <2>4
<1>8. OneAtATime'
  <2>1. \A f \in Executions : job'[f] = "gone" => job[f] = "gone"
    BY <1>1, <1>7
  <2>2. UNCHANGED <<tab, stopped, shown, restore, cancelling>> /\ call[c].at # "none"
    BY <1>1
  <2> QED  BY <1>2, <1>3, <1>5, <1>6, <2>1, <2>2 DEF TabCalm, OneAtATime, Restoring, Cancelling
<1>9. CallsKnow'
  BY <1>1, <1>2, <1>3, <1>6, <1>7 DEF TabCalm, CallsKnow, There, Told
<1>10. RestoreKnows' /\ CancelKnows' /\ LoopsKnow'
  BY <1>1, <1>3, <1>5 DEF TabCalm, RestoreKnows, CancelKnows, LoopsKnow, Restoring, Cancelling
<1>11. shown # Nobody => shown.id \in Executions /\ shown.id # e
  <2>1. shown # Nobody => job[shown.id] \in Told
    BY DEF TabCalm, LatestShown, There
  <2> QED  BY <1>1, <2>1 DEF TabCalm, TabShape, TabViews, Told
<1>12. LatestShown'
  BY <1>1, <1>2, <1>3, <1>5, <1>6, <1>7, <1>11 DEF TabCalm, LatestShown, There, Told, TabShape
<1> QED  BY <1>4, <1>8, <1>9, <1>10, <1>12 DEF TabCalm

LEMMA NotSubmittedStep ==
  ASSUME TabCalm, NEW c \in Clicks, Tab!NotSubmitted(c), ~overlapped, ~overlapped'
  PROVE  TabCalm'
<1>1. /\ call[c].at = "submit" /\ call' = [call EXCEPT ![c] = Tab!NoCall] /\ unsubmitted' = TRUE
      /\ UNCHANGED <<job, latest, released, tab, stopped, shown, restore, cancelling, loop, timer, refreshed, twice>>
  BY DEF Tab!NotSubmitted, Tab!coordinatorVars
<1>2. call'[c].at = "none" /\ \A d \in Clicks : d # c => call'[d] = call[d]
  BY <1>1 DEF TabCalm, TabShape, Tab!NoCall
<1>3. /\ ~Restoring /\ ~Cancelling /\ Tab!Alive = {} /\ tab = "open"
      /\ \A d \in Clicks : call[d].at # "none" => d = c
  BY <1>1 DEF TabCalm, OneAtATime
<1>4. TabShape'
  BY <1>1 DEF TabCalm, TabShape, CallRecords, RunSteps, Tab!NoCall
<1>5. Tab!Alive' = {} /\ (Tab!Active' <=> Tab!Active)
  BY <1>1, <1>3 DEF Tab!Alive, Tab!Active
<1>6. OneAtATime' /\ CallsKnow'
  BY <1>1, <1>2, <1>3, <1>5 DEF TabCalm, OneAtATime, CallsKnow, There, Restoring, Cancelling
<1>7. RestoreKnows' /\ CancelKnows' /\ LoopsKnow'
  BY <1>1, <1>3, <1>5 DEF TabCalm, RestoreKnows, CancelKnows, LoopsKnow, Restoring, Cancelling
<1>8. LatestShown'
  BY <1>1, <1>2, <1>3, <1>5 DEF TabCalm, LatestShown, There
<1> QED  BY <1>4, <1>6, <1>7, <1>8 DEF TabCalm

LEMMA SubmittedStep ==
  ASSUME TabCalm, NEW c \in Clicks, Tab!Submitted(c), ~overlapped, ~overlapped'
  PROVE  TabCalm'
<1> DEFINE id == call[c].id  state == call[c].state  view == Tab!View(id, state)  l == <<id, "run">>
<1>1. /\ call[c].at = "answered" /\ call' = [call EXCEPT ![c] = Tab!NoCall]
      /\ \/ stopped /\ UNCHANGED <<shown, loop, timer>>
         \/ ~stopped /\ shown' = view /\ loop' = [loop EXCEPT ![l] = "waiting"] /\ timer' = l
      /\ UNCHANGED <<job, latest, released, tab, stopped, restore, cancelling, refreshed, twice, unsubmitted>>
  BY DEF Tab!Submitted, Tab!coordinatorVars, Tab!historyVars, Tab!Shows, Tab!Sets
<1>2. call'[c].at = "none" /\ \A d \in Clicks : d # c => call'[d] = call[d]
  BY <1>1 DEF TabCalm, TabShape, Tab!NoCall
<1>3. /\ ~Restoring /\ ~Cancelling /\ Tab!Alive = {} /\ tab = "open"
      /\ \A d \in Clicks : call[d].at # "none" => d = c
      /\ latest = id /\ There(id) /\ id \notin released \cup refreshed
      /\ state \in {"active", "failed"}
  BY <1>1 DEF TabCalm, OneAtATime, CallsKnow
<1>4. id \in Executions /\ l \in Tab!Loops
  BY <1>1 DEF TabCalm, CallsKnow, Tab!Loops
<1>5. view \in TabViews /\ view.id = id /\ view.state = state /\ ~view.result /\ view # Nobody
  BY <1>3, <1>4, ViewsAreViews DEF Told
<1>6. TabShape'
  <2>1. call' \in [Clicks -> CallRecords]
    BY <1>1 DEF TabCalm, TabShape, CallRecords, RunSteps, Tab!NoCall
  <2>2. loop' \in [Tab!Loops -> LoopSteps] /\ timer' \in Tab!Loops \cup {Nobody} /\ shown' \in TabViews \cup {Nobody}
    BY <1>1, <1>4, <1>5 DEF TabCalm, TabShape, LoopSteps
  <2> QED  BY <1>1, <2>1, <2>2 DEF TabCalm, TabShape
<1>7. CASE stopped
  <2>1. Tab!Alive' = {}
    BY <1>1, <1>3, <1>7 DEF Tab!Alive
  <2>2. OneAtATime' /\ CallsKnow' /\ RestoreKnows' /\ CancelKnows' /\ LoopsKnow'
    BY <1>1, <1>2, <1>3, <1>7, <2>1
       DEF TabCalm, OneAtATime, CallsKnow, RestoreKnows, CancelKnows, LoopsKnow, Restoring, Cancelling, There
  <2>3. LatestShown'
    BY <1>1, <1>7, <2>1 DEF TabCalm, LatestShown, There, Tab!Active
  <2> QED  BY <1>6, <2>2, <2>3 DEF TabCalm
<1>8. CASE ~stopped
  <2>1. Tab!Alive' = {l} /\ loop'[l] = "waiting" /\ timer' = l /\ shown' = view
    BY <1>1, <1>3, <1>4, <1>8 DEF Tab!Alive, TabCalm, TabShape
  <2>2. OneAtATime'
    BY <1>1, <1>2, <1>3, <1>8, <2>1 DEF TabCalm, OneAtATime, Restoring, Cancelling
  <2>3. CallsKnow' /\ RestoreKnows' /\ CancelKnows'
    BY <1>1, <1>2, <1>3, <1>8 DEF TabCalm, CallsKnow, RestoreKnows, CancelKnows, Restoring, Cancelling, There
  <2>4. LoopsKnow'
    BY <1>1, <1>3, <1>4, <1>5, <1>8, <2>1 DEF LoopsKnow, There, Tab!Terminal
  <2>5. LatestShown'
    BY <1>1, <1>2, <1>3, <1>4, <1>5, <1>8, <2>1 DEF TabCalm, LatestShown, There, Tab!Active
  <2> QED  BY <1>6, <2>2, <2>3, <2>4, <2>5 DEF TabCalm
<1> QED  BY <1>7, <1>8 DEF TabCalm, TabShape

LEMMA AskLatestStep ==
  ASSUME TabCalm, Tab!AskLatest, ~overlapped, ~overlapped'
  PROVE  TabCalm'
<1>1. /\ restore.at = "due" /\ tab = "open" /\ ~stopped /\ shown = Nobody
      /\ restore' = [restore EXCEPT !.at = "asked"] /\ Tab!Running = {}
      /\ UNCHANGED <<job, latest, released, tab, stopped, shown, call, cancelling, loop, timer, refreshed, twice, unsubmitted>>
  BY DEF Tab!AskLatest, Tab!Overlaps, Tab!coordinatorVars, Tab!historyVars
<1>2. restore'.at = "asked" /\ \A c \in Clicks : call[c].at = "none"
  BY <1>1 DEF TabCalm, TabShape, Tab!Running
<1>3. TabShape'
  BY <1>1 DEF TabCalm, TabShape
<1>4. Tab!Alive = {} /\ Tab!Alive' = {} /\ ~Cancelling /\ (Tab!Active' <=> Tab!Active)
  BY <1>1 DEF TabCalm, LoopsKnow, CancelKnows, Tab!Alive, Tab!Active
<1>5. OneAtATime'
  BY <1>1, <1>2, <1>4 DEF TabCalm, OneAtATime, Restoring, Cancelling
<1>6. CallsKnow' /\ RestoreKnows' /\ CancelKnows' /\ LoopsKnow'
  BY <1>1, <1>2, <1>4 DEF TabCalm, CallsKnow, RestoreKnows, CancelKnows, LoopsKnow, Cancelling, There
<1>7. LatestShown'
  BY <1>1, <1>4 DEF TabCalm, LatestShown, There
<1> QED  BY <1>3, <1>5, <1>6, <1>7 DEF TabCalm

LEMMA TellLatestStep ==
  ASSUME TabCalm, Tab!TellLatest, ~overlapped, ~overlapped'
  PROVE  TabCalm'
<1>1. /\ restore.at = "asked"
      /\ \/ restore' = [at |-> "answered", view |-> IF latest = Nobody THEN Nobody ELSE Tab!View(latest, job[latest])]
         \/ restore' = [at |-> "none", view |-> Nobody]
      /\ UNCHANGED <<job, latest, released, tab, stopped, shown, call, cancelling, loop, timer, refreshed, twice, unsubmitted>>
  BY DEF Tab!TellLatest, Tab!coordinatorVars, Tab!NotRestoring
<1>2. shown = Nobody /\ Restoring /\ tab = "open" /\ ~Cancelling /\ Tab!Alive = {} /\ \A c \in Clicks : call[c].at = "none"
  BY <1>1 DEF TabCalm, OneAtATime, Restoring
<1>3. latest # Nobody => latest \in Executions /\ job[latest] \in Told /\ Tab!View(latest, job[latest]) \in TabViews
  BY <1>2, ViewsAreViews DEF TabCalm, LatestShown, TabShape, There
<1>4. TabShape'
  BY <1>1, <1>3 DEF TabCalm, TabShape
<1>5. Tab!Alive' = {} /\ (Tab!Active' <=> Tab!Active)
  BY <1>1, <1>2 DEF Tab!Alive, Tab!Active
<1>6. OneAtATime' /\ CallsKnow' /\ CancelKnows' /\ LoopsKnow'
  BY <1>1, <1>2, <1>5 DEF TabCalm, OneAtATime, CallsKnow, CancelKnows, LoopsKnow, Restoring, Cancelling, There
<1>7. RestoreKnows'
  <2>1. CASE restore'.at = "answered" /\ restore'.view # Nobody
    <3>1. restore'.view = Tab!View(latest, job[latest]) /\ latest # Nobody
      BY <1>1, <2>1
    <3>2. restore'.view.id = latest /\ restore'.view.state = job[latest]
      BY <3>1, ViewsAreViews
    <3> QED  BY <1>1, <1>3, <3>1, <3>2 DEF RestoreKnows, There
  <2> QED  BY <2>1 DEF RestoreKnows
<1>8. LatestShown'
  BY <1>1, <1>2, <1>5 DEF TabCalm, LatestShown, There
<1> QED  BY <1>4, <1>6, <1>7, <1>8 DEF TabCalm

LEMMA RestoredStep ==
  ASSUME TabCalm, Tab!Restored, ~overlapped, ~overlapped'
  PROVE  TabCalm'
<1> DEFINE view == restore.view  l == <<view.id, "restore">>
<1>1. /\ restore.at = "answered" /\ restore' = [at |-> "none", view |-> Nobody]
      /\ \/ stopped \/ view = Nobody \/ shown # Nobody
         \/ ~stopped /\ view # Nobody /\ shown = Nobody
      /\ stopped \/ view = Nobody \/ shown # Nobody => UNCHANGED <<shown, loop, timer>>
      /\ ~stopped /\ view # Nobody /\ shown = Nobody =>
            /\ shown' = view
            /\ IF Tab!Terminal(view.state) THEN UNCHANGED <<loop, timer>>
               ELSE loop' = [loop EXCEPT ![l] = "waiting"] /\ timer' = l
      /\ UNCHANGED <<job, latest, released, tab, stopped, call, cancelling, refreshed, twice, unsubmitted>>
  BY DEF Tab!Restored, Tab!coordinatorVars, Tab!historyVars, Tab!NotRestoring, Tab!Shows, Tab!Sets
<1>2. /\ tab = "open" /\ ~Cancelling /\ Tab!Alive = {} /\ shown = Nobody
      /\ \A c \in Clicks : call[c].at = "none"
  BY <1>1 DEF TabCalm, OneAtATime, Restoring
<1>3. released = {} /\ refreshed = {}
  BY <1>2 DEF TabCalm, LatestShown
<1>4. restore'.at = "none"
  BY <1>1
<1>5. CASE stopped \/ view = Nobody
  <2>1. Tab!Alive' = {} /\ (Tab!Active' <=> Tab!Active) /\ UNCHANGED <<shown, loop, timer>>
    BY <1>1, <1>2, <1>5 DEF Tab!Alive, Tab!Active
  <2>2. TabShape'
    BY <1>1, <2>1 DEF TabCalm, TabShape
  <2>3. OneAtATime' /\ CallsKnow' /\ RestoreKnows' /\ CancelKnows' /\ LoopsKnow'
    BY <1>1, <1>2, <1>4, <2>1
       DEF TabCalm, OneAtATime, CallsKnow, RestoreKnows, CancelKnows, LoopsKnow, Restoring, Cancelling, There
  <2>4. LatestShown'
    BY <1>1, <1>2, <2>1 DEF TabCalm, LatestShown, There
  <2> QED  BY <2>2, <2>3, <2>4 DEF TabCalm
<1>6. CASE ~stopped /\ view # Nobody
  <2>1. /\ view \in TabViews /\ view.id = latest /\ latest \in Executions /\ job[latest] \in Told
        /\ view = Tab!View(latest, view.state) /\ view.state \in Told
        /\ Tab!Terminal(view.state) => view.state = job[latest]
        /\ view.result <=> view.state = "succeeded"
    <3>1. view \in TabViews /\ view.id = latest /\ view = Tab!View(latest, view.state) /\ job[latest] \in Told
          /\ (Tab!Terminal(view.state) => view.state = job[latest])
      BY <1>1, <1>6 DEF TabCalm, TabShape, RestoreKnows, There
    <3>2. view.id \in Executions /\ view.state \in Told
      BY <3>1 DEF TabViews
    <3>3. Tab!View(latest, view.state).result <=> view.state = "succeeded"
      BY ViewsAreViews
    <3> QED  BY <3>1, <3>2, <3>3
  <2>2. shown' = view /\ l \in Tab!Loops /\ view # Nobody
    BY <1>1, <1>2, <1>6, <2>1 DEF Tab!Loops
  <2>3. \/ /\ Tab!Terminal(view.state) /\ UNCHANGED <<loop, timer>> /\ Tab!Alive' = {}
        \/ /\ view.state = "active" /\ loop' = [loop EXCEPT ![l] = "waiting"] /\ timer' = l
           /\ Tab!Alive' = {l} /\ loop'[l] = "waiting"
    <3>1. CASE Tab!Terminal(view.state)
      BY <1>1, <1>2, <1>6, <3>1 DEF Tab!Alive
    <3>2. CASE ~Tab!Terminal(view.state)
      <4>1. loop' = [loop EXCEPT ![l] = "waiting"] /\ timer' = l
        BY <1>1, <1>2, <1>6, <3>2
      <4>2. view.state = "active"
        BY <2>1, <3>2 DEF Tab!Terminal, Told
      <4> QED  BY <1>2, <2>2, <4>1, <4>2 DEF Tab!Alive, TabCalm, TabShape
    <3> QED  BY <3>1, <3>2
  <2>4. TabShape'
    BY <1>1, <2>1, <2>2, <2>3 DEF TabCalm, TabShape, LoopSteps
  <2>5. OneAtATime'
    BY <1>1, <1>2, <1>4, <2>3 DEF TabCalm, OneAtATime, Restoring, Cancelling
  <2>6. CallsKnow' /\ RestoreKnows' /\ CancelKnows'
    BY <1>1, <1>2, <1>4 DEF TabCalm, CallsKnow, RestoreKnows, CancelKnows, Cancelling, There
  <2>7. LoopsKnow'
    BY <1>1, <1>3, <2>1, <2>2, <2>3 DEF LoopsKnow, There, Tab!Terminal
  <2>8. LatestShown'
    BY <1>1, <1>2, <1>3, <2>1, <2>2, <2>3 DEF TabCalm, LatestShown, There, Tab!Active, Tab!Terminal
  <2> QED  BY <2>4, <2>5, <2>6, <2>7, <2>8 DEF TabCalm
<1> QED  BY <1>5, <1>6

\* A loop that asks, waits or fails goes on as the same loop.
LEMMA LoopGoesOn ==
  ASSUME TabCalm, NEW l \in Tab!Loops, NEW step \in LoopSteps \ {"none"}, l \in Tab!Alive,
         loop' = [loop EXCEPT ![l] = step], timer' = timer \/ timer' = l, step = "waiting" => timer' = l,
         Tab!Terminal(step) => job[l[1]] = step,
         UNCHANGED <<job, latest, released, tab, stopped, shown, call, restore, cancelling, refreshed, twice, unsubmitted>>
  PROVE  TabCalm'
<1>1. loop'[l] = step /\ \A m \in Tab!Loops : m # l => loop'[m] = loop[m]
  BY DEF TabCalm, TabShape
<1>2. Tab!Alive = {l} /\ Tab!Alive' = {l}
  BY <1>1 DEF TabCalm, OneAtATime, Tab!Alive
<1>3. TabShape'
  BY DEF TabCalm, TabShape
<1>4. Tab!Active' <=> Tab!Active
  BY DEF Tab!Active
<1>5. OneAtATime'
  BY <1>2, <1>4 DEF TabCalm, OneAtATime, Restoring, Cancelling
<1>6. CallsKnow' /\ RestoreKnows' /\ CancelKnows'
  BY <1>2 DEF TabCalm, CallsKnow, RestoreKnows, CancelKnows, Cancelling, There
<1>7. LoopsKnow'
  BY <1>1, <1>2 DEF TabCalm, LoopsKnow, There
<1>8. LatestShown'
  BY <1>2, <1>4 DEF TabCalm, LatestShown, There
<1> QED  BY <1>3, <1>5, <1>6, <1>7, <1>8 DEF TabCalm

\* A loop that ends while the hook is stopped shows nothing.
LEMMA LoopEnds ==
  ASSUME TabCalm, stopped, loop' \in [Tab!Loops -> LoopSteps], Tab!Alive' \subseteq Tab!Alive,
         \A l \in Tab!Alive' : loop'[l] = loop[l],
         UNCHANGED <<job, latest, released, tab, shown, call, restore, cancelling, refreshed, twice, unsubmitted>>,
         stopped', timer' \in Tab!Loops \cup {Nobody}
  PROVE  TabCalm'
<1>1. TabShape'
  BY DEF TabCalm, TabShape
<1>2. Tab!Active' <=> Tab!Active
  BY DEF Tab!Active
<1>3. OneAtATime'
  BY <1>2 DEF TabCalm, OneAtATime, Restoring, Cancelling
<1>4. CallsKnow' /\ RestoreKnows' /\ CancelKnows'
  BY DEF TabCalm, CallsKnow, RestoreKnows, CancelKnows, Cancelling, There
<1>5. LoopsKnow'
  BY DEF TabCalm, LoopsKnow, There
<1>6. LatestShown'
  BY <1>2 DEF TabCalm, LatestShown, There
<1> QED  BY <1>1, <1>3, <1>4, <1>5, <1>6 DEF TabCalm

LEMMA TickStep ==
  ASSUME TabCalm, NEW l \in Tab!Loops, Tab!Tick(l), ~overlapped, ~overlapped'
  PROVE  TabCalm'
<1>1. /\ loop[l] = "waiting" /\ loop' = [loop EXCEPT ![l] = IF stopped THEN "none" ELSE "asked"]
      /\ UNCHANGED <<job, latest, released, tab, stopped, shown, call, restore, cancelling, timer, refreshed, twice, unsubmitted>>
  BY DEF Tab!Tick, Tab!coordinatorVars, Tab!commandVars, Tab!historyVars
<1>2. loop \in [Tab!Loops -> LoopSteps] /\ timer \in Tab!Loops \cup {Nobody} /\ stopped \in BOOLEAN
  BY DEF TabCalm, TabShape
<1>3. CASE stopped
  <2>1. loop' \in [Tab!Loops -> LoopSteps] /\ Tab!Alive' \subseteq Tab!Alive /\ \A m \in Tab!Alive' : loop'[m] = loop[m]
    BY <1>1, <1>2, <1>3 DEF Tab!Alive, LoopSteps
  <2> QED  BY <1>1, <1>2, <1>3, <2>1, LoopEnds
<1>4. CASE ~stopped
  BY <1>1, <1>2, <1>4, LoopGoesOn DEF Tab!Alive, LoopSteps, Tab!Terminal
<1> QED  BY <1>3, <1>4

LEMMA TellStatusStep ==
  ASSUME TabCalm, NEW l \in Tab!Loops, Tab!TellStatus(l), ~overlapped, ~overlapped'
  PROVE  TabCalm'
<1>1. /\ loop[l] = "asked"
      /\ loop' = [loop EXCEPT ![l] = job[l[1]]] \/ loop' = [loop EXCEPT ![l] = "error"]
      /\ UNCHANGED <<job, latest, released, tab, stopped, shown, call, restore, cancelling, timer, refreshed, twice, unsubmitted>>
  BY DEF Tab!TellStatus, Tab!coordinatorVars, Tab!commandVars
<1>2. l \in Tab!Alive
  BY <1>1 DEF Tab!Alive
<1>3. job[l[1]] \in Told
  BY <1>2 DEF TabCalm, LoopsKnow, There
<1>4. CASE loop' = [loop EXCEPT ![l] = job[l[1]]]
  <2>1. job[l[1]] \in LoopSteps \ {"none"} /\ job[l[1]] # "waiting"
    BY <1>3 DEF LoopSteps, Told
  <2> QED  BY <1>1, <1>2, <1>4, <2>1, LoopGoesOn
<1>5. CASE loop' = [loop EXCEPT ![l] = "error"]
  <2>1. "error" \in LoopSteps \ {"none"} /\ ~Tab!Terminal("error")
    BY DEF LoopSteps, Tab!Terminal
  <2> QED  BY <1>1, <1>2, <1>5, <2>1, LoopGoesOn
<1> QED  BY <1>1, <1>4, <1>5

LEMMA TicksOnStep ==
  ASSUME TabCalm, NEW l \in Tab!Loops, Tab!TicksOn(l), ~overlapped, ~overlapped'
  PROVE  TabCalm'
<1>1. /\ loop[l] # "none" /\ loop' = [loop EXCEPT ![l] = "waiting"] /\ timer' = l
      /\ UNCHANGED <<job, latest, released, tab, stopped, shown, call, restore, cancelling, refreshed, twice, unsubmitted>>
  BY DEF Tab!TicksOn, Tab!Sets, Tab!coordinatorVars, Tab!commandVars, Tab!historyVars
<1>2. l \in Tab!Alive /\ "waiting" \in LoopSteps \ {"none"} /\ ~Tab!Terminal("waiting")
  BY <1>1 DEF Tab!Alive, LoopSteps, Tab!Terminal
<1> QED  BY <1>1, <1>2, LoopGoesOn

LEMMA TickedTooLateStep ==
  ASSUME TabCalm, NEW l \in Tab!Loops, Tab!TickedTooLate(l), ~overlapped, ~overlapped'
  PROVE  TabCalm'
<1>1. /\ stopped /\ loop' = [loop EXCEPT ![l] = "none"]
      /\ UNCHANGED <<job, latest, released, tab, stopped, shown, call, restore, cancelling, timer, refreshed, twice, unsubmitted>>
  BY DEF Tab!TickedTooLate, Tab!coordinatorVars, Tab!commandVars, Tab!historyVars
<1>2. loop \in [Tab!Loops -> LoopSteps] /\ timer \in Tab!Loops \cup {Nobody}
  BY DEF TabCalm, TabShape
<1>3. loop' \in [Tab!Loops -> LoopSteps] /\ Tab!Alive' \subseteq Tab!Alive /\ \A m \in Tab!Alive' : loop'[m] = loop[m]
  BY <1>1, <1>2 DEF Tab!Alive, LoopSteps
<1> QED  BY <1>1, <1>2, <1>3, LoopEnds

LEMMA TickedStep ==
  ASSUME TabCalm, NEW l \in Tab!Loops, Tab!Ticked(l), ~overlapped, ~overlapped'
  PROVE  TabCalm'
<1> DEFINE state == loop[l]  view == Tab!View(l[1], state)
<1>1. /\ state \in {"active", "succeeded", "failed"} /\ ~stopped /\ shown' = view
      /\ IF Tab!Terminal(state) THEN loop' = [loop EXCEPT ![l] = "none"] /\ timer' = Nobody
         ELSE loop' = [loop EXCEPT ![l] = "waiting"] /\ timer' = l
      /\ Tab!Terminal(state) => cancelling.at = "none"
      /\ IF state = "succeeded" THEN refreshed' = refreshed \cup {l[1]} /\ twice' = (twice \/ l[1] \in refreshed)
         ELSE UNCHANGED <<refreshed, twice>>
      /\ UNCHANGED <<job, latest, released, tab, stopped, call, restore, cancelling, unsubmitted>>
  BY DEF Tab!Ticked, Tab!Shows, Tab!Sets, Tab!Overlaps, Tab!coordinatorVars, Tab!commandVars
<1>2. /\ loop \in [Tab!Loops -> LoopSteps] /\ l[1] \in Executions /\ view \in TabViews /\ view # Nobody
      /\ view.id = l[1] /\ view.state = state /\ (view.result <=> state = "succeeded")
  BY <1>1, ViewsAreViews DEF TabCalm, TabShape, Tab!Loops, Told
<1>3. Tab!Alive = {l}
  BY <1>1 DEF TabCalm, OneAtATime, Tab!Alive
<1>4. /\ There(l[1]) /\ l[1] \notin released \cup refreshed /\ shown # Nobody /\ shown.id = l[1]
      /\ Tab!Terminal(state) => job[l[1]] = state
  BY <1>1, <1>3 DEF TabCalm, LoopsKnow
<1>5. /\ tab = "open" /\ ~Restoring /\ \A c \in Clicks : call[c].at = "none"
  BY <1>3 DEF TabCalm, OneAtATime, TabShape
<1>6. TabShape'
  BY <1>1, <1>2 DEF TabCalm, TabShape, LoopSteps
<1>7. CASE Tab!Terminal(state)
  <2>1. Tab!Alive' = {} /\ ~Cancelling
    BY <1>1, <1>2, <1>3, <1>7 DEF Tab!Alive, Cancelling
  <2>2. OneAtATime' /\ CallsKnow' /\ RestoreKnows' /\ CancelKnows' /\ LoopsKnow'
    BY <1>1, <1>5, <2>1
       DEF TabCalm, OneAtATime, CallsKnow, RestoreKnows, CancelKnows, LoopsKnow, Restoring, Cancelling, There
  <2>3. ~twice' /\ refreshed' \subseteq refreshed \cup {l[1]} /\ (l[1] \in refreshed' => job[l[1]] = "succeeded")
    BY <1>1, <1>4, <1>7 DEF TabCalm, LatestShown
  <2>4. view = Tab!View(l[1], job[l[1]])
    BY <1>4, <1>7
  <2>5. LatestShown'
    BY <1>1, <1>2, <1>4, <1>5, <1>7, <2>1, <2>3, <2>4 DEF TabCalm, LatestShown, There, Told, Tab!Active, Tab!Terminal
  <2> QED  BY <1>6, <2>2, <2>5 DEF TabCalm
<1>8. CASE ~Tab!Terminal(state)
  <2>1. Tab!Alive' = {l} /\ loop'[l] = "waiting" /\ timer' = l /\ UNCHANGED <<refreshed, twice>> /\ state = "active"
    BY <1>1, <1>2, <1>3, <1>8 DEF Tab!Alive, Tab!Terminal
  <2>2. OneAtATime' /\ CallsKnow' /\ RestoreKnows' /\ CancelKnows' /\ LoopsKnow'
    BY <1>1, <1>2, <1>3, <1>4, <1>5, <2>1
       DEF TabCalm, OneAtATime, CallsKnow, RestoreKnows, CancelKnows, LoopsKnow, Restoring, Cancelling, There, Tab!Terminal
  <2>3. LatestShown'
    BY <1>1, <1>2, <1>3, <1>4, <1>5, <2>1 DEF TabCalm, LatestShown, There, Told, Tab!Active, Tab!Terminal
  <2> QED  BY <1>6, <2>2, <2>3 DEF TabCalm
<1> QED  BY <1>7, <1>8

LEMMA CancelStep ==
  ASSUME TabCalm, Tab!Cancel, ~overlapped, ~overlapped'
  PROVE  TabCalm'
<1>1. /\ ~Cancelling /\ tab = "open" /\ ~stopped /\ Tab!Active
      /\ cancelling' = [at |-> "asked", current |-> shown, state |-> "none"]
      /\ UNCHANGED <<job, latest, released, tab, stopped, shown, call, restore, loop, timer, refreshed, twice, unsubmitted>>
  BY DEF Tab!Cancel, Cancelling, Tab!coordinatorVars, Tab!historyVars
<1>2. /\ shown # Nobody /\ shown.state = "active" /\ ~shown.result /\ There(shown.id) /\ shown \in TabViews
  BY <1>1 DEF TabCalm, TabShape, LatestShown, Tab!Active
<1>3. Tab!Alive # {} /\ Tab!Alive' = Tab!Alive /\ (Tab!Active' <=> Tab!Active)
  <2>1. Tab!Alive # {}
    <3>1. SUFFICES ASSUME Tab!Alive = {} PROVE FALSE
      OBVIOUS
    <3>2. shown = Tab!View(shown.id, job[shown.id]) /\ Tab!Terminal(job[shown.id])
      BY <1>1, <1>2, <3>1 DEF TabCalm, LatestShown
    <3>3. shown.state = job[shown.id]
      BY <3>2, ViewsAreViews
    <3> QED  BY <1>2, <3>2, <3>3 DEF Tab!Terminal
  <2> QED  BY <1>1, <2>1 DEF Tab!Alive, Tab!Active
<1>4. (\A c \in Clicks : call[c].at = "none") /\ ~Restoring
  BY <1>3 DEF TabCalm, OneAtATime
<1>5. TabShape'
  BY <1>1, <1>2 DEF TabCalm, TabShape
<1>6. OneAtATime' /\ CallsKnow' /\ RestoreKnows' /\ LoopsKnow'
  BY <1>1, <1>3, <1>4 DEF TabCalm, OneAtATime, CallsKnow, RestoreKnows, LoopsKnow, Restoring, Cancelling, There
<1>7. CancelKnows'
  BY <1>1, <1>2, <1>3 DEF CancelKnows, There, Cancelling
<1>8. LatestShown'
  BY <1>1, <1>3 DEF TabCalm, LatestShown, There
<1> QED  BY <1>5, <1>6, <1>7, <1>8 DEF TabCalm

LEMMA TellCancelledStep ==
  ASSUME TabCalm, Tab!TellCancelled, ~overlapped, ~overlapped'
  PROVE  TabCalm'
<1>1. /\ cancelling.at = "asked"
      /\ \/ cancelling' = [cancelling EXCEPT !.at = "answered", !.state = job[cancelling.current.id]]
         \/ cancelling' = [at |-> "none", current |-> Nobody, state |-> "none"]
      /\ UNCHANGED <<job, latest, released, tab, stopped, shown, call, restore, loop, timer, refreshed, twice, unsubmitted>>
  BY DEF Tab!TellCancelled, Tab!coordinatorVars, Tab!NotCancelling
<1>2. /\ Cancelling /\ cancelling.current # Nobody /\ There(cancelling.current.id)
      /\ ~Restoring /\ tab = "open" /\ \A c \in Clicks : call[c].at = "none"
  BY <1>1 DEF TabCalm, TabShape, OneAtATime, CancelKnows, Cancelling
<1>3. \/ /\ cancelling'.at = "answered" /\ cancelling'.current = cancelling.current
         /\ cancelling'.state = job[cancelling.current.id]
         /\ cancelling' \in [at : {"none", "asked", "answered"}, current : TabViews \cup {Nobody}, state : Told \cup {"none"}]
      \/ /\ cancelling'.at = "none"
         /\ cancelling' \in [at : {"none", "asked", "answered"}, current : TabViews \cup {Nobody}, state : Told \cup {"none"}]
  <2>1. job[cancelling.current.id] \in Told
    BY <1>2 DEF There
  <2>2. CASE cancelling' = [cancelling EXCEPT !.at = "answered", !.state = job[cancelling.current.id]]
    <3>1. cancelling \in [at : {"none", "asked", "answered"}, current : TabViews \cup {Nobody}, state : Told \cup {"none"}]
      BY DEF TabCalm, TabShape
    <3> QED  BY <2>1, <2>2, <3>1
  <2>3. CASE cancelling' = [at |-> "none", current |-> Nobody, state |-> "none"]
    BY <2>3
  <2> QED  BY <1>1, <2>2, <2>3
<1>4. TabShape'
  BY <1>1, <1>3 DEF TabCalm, TabShape
<1>5. Tab!Alive' = Tab!Alive /\ (Tab!Active' <=> Tab!Active)
  BY <1>1 DEF Tab!Alive, Tab!Active
<1>6. OneAtATime' /\ CallsKnow' /\ RestoreKnows' /\ LoopsKnow'
  BY <1>1, <1>2, <1>5 DEF TabCalm, OneAtATime, CallsKnow, RestoreKnows, LoopsKnow, Restoring, Cancelling, There
<1>7. CancelKnows'
  BY <1>1, <1>2, <1>3, <1>5 DEF TabCalm, CancelKnows, There, Cancelling
<1>8. LatestShown'
  BY <1>1, <1>5 DEF TabCalm, LatestShown, There
<1> QED  BY <1>4, <1>6, <1>7, <1>8 DEF TabCalm

LEMMA CancelledStep ==
  ASSUME TabCalm, Tab!Cancelled, ~overlapped, ~overlapped'
  PROVE  TabCalm'
<1> DEFINE view == [cancelling.current EXCEPT !.state = cancelling.state]
<1>1. /\ cancelling.at = "answered" /\ cancelling' = [at |-> "none", current |-> Nobody, state |-> "none"]
      /\ shown' = IF stopped THEN shown ELSE view
      /\ UNCHANGED <<job, latest, released, tab, stopped, call, restore, loop, timer, refreshed, twice, unsubmitted>>
  BY DEF Tab!Cancelled, Tab!coordinatorVars, Tab!historyVars, Tab!NotCancelling, Tab!Shows
<1>2. /\ Cancelling /\ ~Restoring /\ tab = "open" /\ \A c \in Clicks : call[c].at = "none"
      /\ cancelling'.at = "none" /\ stopped \in BOOLEAN
  BY <1>1 DEF TabCalm, TabShape, OneAtATime, Cancelling
<1>3. Tab!Alive' = Tab!Alive
  BY <1>1 DEF Tab!Alive
<1>4. ~stopped => /\ view \in TabViews /\ view # Nobody /\ view.id = shown.id /\ ~view.result /\ shown # Nobody
                  /\ Tab!Alive # {}
  <2>1. SUFFICES ASSUME ~stopped
                 PROVE  /\ view \in TabViews /\ view # Nobody /\ view.id = shown.id /\ ~view.result /\ shown # Nobody
                        /\ Tab!Alive # {}
    OBVIOUS
  <2>2. /\ cancelling.current # Nobody /\ ~cancelling.current.result /\ cancelling.state \in Told
        /\ Tab!Alive # {} /\ shown # Nobody /\ shown.id = cancelling.current.id
    BY <1>1, <1>2, <2>1 DEF TabCalm, CancelKnows
  <2>3. cancelling.current \in TabViews
    BY <2>2 DEF TabCalm, TabShape
  <2>4. view \in TabViews /\ view.id = cancelling.current.id /\ view.result = cancelling.current.result
    BY <2>2, <2>3 DEF TabViews
  <2> QED  BY <2>2, <2>4, ViewsAreViews
<1>5. TabShape'
  BY <1>1, <1>4 DEF TabCalm, TabShape
<1>6. OneAtATime' /\ CallsKnow' /\ RestoreKnows' /\ CancelKnows'
  BY <1>1, <1>2, <1>3 DEF TabCalm, OneAtATime, CallsKnow, RestoreKnows, CancelKnows, Restoring, Cancelling, There
<1>7. LoopsKnow'
  BY <1>1, <1>3, <1>4 DEF TabCalm, LoopsKnow, There
<1>8. CASE stopped
  <2>1. Tab!Active' <=> Tab!Active
    BY <1>1, <1>8 DEF Tab!Active
  <2>2. LatestShown'
    BY <1>1, <1>8, <2>1 DEF TabCalm, LatestShown, There
  <2> QED  BY <1>5, <1>6, <1>7, <2>2 DEF TabCalm
<1>9. CASE ~stopped
  <2>1. shown' = view
    BY <1>1, <1>9
  <2>2. LatestShown'
    BY <1>1, <1>2, <1>3, <1>4, <1>9, <2>1 DEF TabCalm, LatestShown, There
  <2> QED  BY <1>5, <1>6, <1>7, <2>2 DEF TabCalm
<1> QED  BY <1>2, <1>8, <1>9

LEMMA ClearedEnds ==
  ASSUME TabCalm
  PROVE  /\ Tab!Cleared \in [Tab!Loops -> LoopSteps]
         /\ \A l \in Tab!Loops : Tab!Cleared[l] = loop[l] \/ (Tab!Cleared[l] = "none" /\ timer = l)
         /\ ~stopped /\ (\A l \in Tab!Alive : loop[l] = "waiting") => \A l \in Tab!Loops : Tab!Cleared[l] = "none"
<1>1. loop \in [Tab!Loops -> LoopSteps] /\ timer \in Tab!Loops \cup {Nobody}
  BY DEF TabCalm, TabShape
<1>2. ~stopped => \A l \in Tab!Alive : loop[l] = "waiting" => timer = l
  BY DEF TabCalm, LoopsKnow
<1>3. "none" \in LoopSteps /\ Nobody \notin Tab!Loops
  BY ViewsAreViews DEF LoopSteps
<1>4. CASE timer # Nobody /\ loop[timer] = "waiting"
  <2>1. Tab!Cleared = [loop EXCEPT ![timer] = "none"]
    BY <1>4 DEF Tab!Cleared
  <2> QED  BY <1>1, <1>2, <1>3, <1>4, <2>1 DEF Tab!Alive
<1>5. CASE ~(timer # Nobody /\ loop[timer] = "waiting")
  <2>1. Tab!Cleared = loop
    BY <1>5 DEF Tab!Cleared
  <2> QED  BY <1>1, <1>2, <1>3, <1>5, <2>1 DEF Tab!Alive
<1> QED  BY <1>4, <1>5

LEMMA ForgetStep ==
  ASSUME TabCalm, Tab!Forget, ~overlapped, ~overlapped'
  PROVE  TabCalm'
<1>1. /\ tab = "open" /\ ~stopped /\ tab' = "closing" /\ loop' = Tab!Cleared /\ timer' = Nobody /\ shown' = Nobody
      /\ (\A c \in Clicks : call[c].at = "none") /\ ~Restoring /\ ~Cancelling
      /\ \A l \in Tab!Alive : loop[l] = "waiting"
      /\ UNCHANGED <<job, latest, released, stopped, call, restore, cancelling, refreshed, twice, unsubmitted>>
  BY DEF Tab!Forget, Tab!Overlaps, Tab!Running, Restoring, Cancelling, Tab!coordinatorVars, Tab!commandVars, Tab!historyVars
<1>2. loop' \in [Tab!Loops -> LoopSteps] /\ Tab!Alive' = {}
  BY <1>1, ClearedEnds DEF Tab!Alive
<1>3. TabShape' /\ ~Tab!Active'
  BY <1>1, <1>2 DEF TabCalm, TabShape, Tab!Active
<1>4. OneAtATime' /\ CallsKnow' /\ RestoreKnows' /\ CancelKnows' /\ LoopsKnow'
  BY <1>1, <1>2, <1>3
     DEF TabCalm, OneAtATime, CallsKnow, RestoreKnows, CancelKnows, LoopsKnow, Restoring, Cancelling, There
<1>5. LatestShown'
  BY <1>1, <1>3 DEF TabCalm, LatestShown
<1> QED  BY <1>3, <1>4, <1>5 DEF TabCalm

LEMMA ForgottenStep ==
  ASSUME TabCalm, Tab!Forgotten, ~overlapped, ~overlapped'
  PROVE  TabCalm'
<1>1. /\ tab = "closing" /\ tab' = "closed"
      /\ \/ /\ job' = [e \in Executions |-> IF job[e] = "none" THEN "none" ELSE "gone"]
            /\ latest' = Nobody
         \/ UNCHANGED <<job, latest>>
      /\ UNCHANGED <<released, stopped, shown, call, restore, cancelling, loop, timer, refreshed, twice, unsubmitted>>
  BY DEF Tab!Forgotten, Tab!commandVars
<1>2. /\ Tab!Alive = {} /\ shown = Nobody /\ ~Cancelling /\ ~Restoring /\ \A c \in Clicks : call[c].at = "none"
  BY <1>1 DEF TabCalm, OneAtATime
<1>3. TabShape'
  BY <1>1 DEF TabCalm, TabShape, JobStates
<1>4. Tab!Alive' = {} /\ ~Tab!Active'
  BY <1>1, <1>2 DEF Tab!Alive, Tab!Active
<1>5. OneAtATime' /\ CallsKnow' /\ RestoreKnows' /\ CancelKnows' /\ LoopsKnow'
  BY <1>1, <1>2, <1>4
     DEF TabCalm, OneAtATime, CallsKnow, RestoreKnows, CancelKnows, LoopsKnow, Restoring, Cancelling, There
<1>6. \A e \in Executions : /\ job[e] # "none" => job'[e] # "none"
                            /\ job[e] \in {"succeeded", "gone"} => job'[e] \in {"succeeded", "gone"}
  BY <1>1
<1>7. LatestShown'
  BY <1>1, <1>2, <1>4, <1>6 DEF TabCalm, LatestShown, TabShape
<1> QED  BY <1>3, <1>5, <1>7 DEF TabCalm

LEMMA UnmountStep ==
  ASSUME TabCalm, Tab!Unmount, ~overlapped, ~overlapped'
  PROVE  TabCalm'
<1>1. /\ ~stopped /\ stopped' = TRUE /\ loop' = Tab!Cleared /\ timer' = Nobody
      /\ UNCHANGED <<job, latest, released, tab, shown, call, restore, cancelling, refreshed, twice, unsubmitted>>
  BY DEF Tab!Unmount, Tab!coordinatorVars, Tab!commandVars, Tab!historyVars
<1>2. /\ loop' \in [Tab!Loops -> LoopSteps] /\ Tab!Alive' \subseteq Tab!Alive
      /\ \A l \in Tab!Alive' : loop'[l] = loop[l]
  BY <1>1, ClearedEnds DEF Tab!Alive
<1>3. TabShape' /\ (Tab!Active' <=> Tab!Active)
  BY <1>1, <1>2 DEF TabCalm, TabShape, Tab!Active
<1>4. OneAtATime' /\ CallsKnow' /\ RestoreKnows' /\ CancelKnows' /\ LoopsKnow'
  BY <1>1, <1>2, <1>3
     DEF TabCalm, OneAtATime, CallsKnow, RestoreKnows, CancelKnows, LoopsKnow, Restoring, Cancelling, There
<1>5. LatestShown'
  BY <1>1, <1>3 DEF TabCalm, LatestShown, There
<1> QED  BY <1>3, <1>4, <1>5 DEF TabCalm

LEMMA EndsStep ==
  ASSUME TabCalm, NEW e \in Executions, Tab!Ends(e), ~overlapped, ~overlapped'
  PROVE  TabCalm'
<1>1. PICK state \in {"succeeded", "failed"} : job[e] = "active" /\ job' = [job EXCEPT ![e] = state]
  BY DEF Tab!Ends
<1>2. UNCHANGED <<latest, released, tab, stopped, shown, call, restore, cancelling, loop, timer, refreshed, twice, unsubmitted>>
  BY DEF Tab!Ends, Tab!commandVars, Tab!historyVars
<1>3. TabShape'
  BY <1>1, <1>2 DEF TabCalm, TabShape, JobStates
<1>4. \A f \in Executions : /\ job[f] \in Told => job'[f] \in Told
                            /\ job'[f] = "gone" => job[f] = "gone"
                            /\ job[f] # "none" => job'[f] # "none"
                            /\ job[f] # "active" => job'[f] = job[f]
  <2>1. job \in [Executions -> JobStates]
    BY DEF TabCalm, TabShape
  <2> QED  BY <1>1, <2>1 DEF Told
<1>5. Tab!Alive' = Tab!Alive /\ (Tab!Active' <=> Tab!Active)
  BY <1>2 DEF Tab!Alive, Tab!Active
<1>6. OneAtATime'
  BY <1>2, <1>4, <1>5 DEF TabCalm, OneAtATime, Restoring, Cancelling
<1>7. CallsKnow'
  <2>1. \A c \in Clicks : call[c].at = "answered" => call[c].id \in Executions
    BY DEF TabCalm, CallsKnow
  <2> QED  BY <1>2, <1>4, <2>1 DEF TabCalm, CallsKnow, There
<1>8. RestoreKnows'
  <2>1. CASE restore.at = "answered" /\ restore.view # Nobody
    <3>1. latest \in Executions
      BY <2>1 DEF TabCalm, RestoreKnows, TabShape, TabViews
    <3> QED  BY <1>2, <1>4, <2>1, <3>1 DEF TabCalm, RestoreKnows, There, Tab!Terminal
  <2> QED  BY <1>2, <2>1 DEF RestoreKnows
<1>9. CancelKnows'
  <2>1. Cancelling => cancelling.current.id \in Executions
    BY DEF TabCalm, TabShape, CancelKnows, TabViews
  <2> QED  BY <1>2, <1>4, <1>5, <2>1 DEF TabCalm, CancelKnows, There, Cancelling
<1>10. LoopsKnow'
  <2>1. \A l \in Tab!Alive : l[1] \in Executions
    BY DEF Tab!Alive, Tab!Loops
  <2> QED  BY <1>2, <1>4, <1>5, <2>1 DEF TabCalm, LoopsKnow, There, Tab!Terminal
<1>11. LatestShown'
  <2>1. shown # Nobody => shown.id \in Executions
    BY DEF TabCalm, TabShape, TabViews
  <2>2. latest # Nobody => latest \in Executions
    BY DEF TabCalm, TabShape
  <2>3. \A f \in released \cup refreshed : f \in Executions
    BY DEF TabCalm, TabShape
  <2> QED  BY <1>2, <1>4, <1>5, <2>1, <2>2, <2>3 DEF TabCalm, LatestShown, There, Tab!Terminal
<1> QED  BY <1>3, <1>6, <1>7, <1>8, <1>9, <1>10, <1>11 DEF TabCalm

LEMMA TabStep == TabInv /\ Tab!TabNext => TabInv'
<1> SUFFICES ASSUME TabInv, Tab!TabNext PROVE TabInv'
  OBVIOUS
<1>0. overlapped \in BOOLEAN
  BY DEF TabInv
<1>1. ~overlapped /\ TabCalm
  BY DEF TabInv, Tab!TabNext
<1>2. overlapped' \in BOOLEAN
  <2>1. ASSUME NEW c \in Clicks, Tab!Click(c) \/ Tab!ReleaseSuperseded(c) \/ Tab!Submit(c) \/ Tab!NotSubmitted(c) \/ Tab!Submitted(c)
        PROVE  overlapped' \in BOOLEAN
    <3>1. CASE Tab!Click(c)
      BY <1>1, <3>1 DEF Tab!Click, Tab!Overlaps
    <3>2. CASE ~Tab!Click(c)
      BY <1>0, <2>1, <3>2 DEF Tab!ReleaseSuperseded, Tab!Submit, Tab!NotSubmitted, Tab!Submitted
    <3> QED  BY <3>1, <3>2
  <2>2. ASSUME Tab!AskLatest \/ Tab!Forget PROVE overlapped' \in BOOLEAN
    BY <1>1, <2>2 DEF Tab!AskLatest, Tab!Forget, Tab!Overlaps
  <2>3. ASSUME Tab!TellLatest \/ Tab!Restored \/ Tab!Cancel \/ Tab!TellCancelled \/ Tab!Cancelled
        PROVE  overlapped' \in BOOLEAN
    BY <1>0, <2>3 DEF Tab!TellLatest, Tab!Restored, Tab!Cancel, Tab!TellCancelled, Tab!Cancelled
  <2>4. ASSUME NEW l \in Tab!Loops, Tab!Ticked(l) PROVE overlapped' \in BOOLEAN
    BY <1>1, <2>4 DEF Tab!Ticked, Tab!Overlaps
  <2>5. ASSUME NEW l \in Tab!Loops, Tab!Tick(l) \/ Tab!TellStatus(l) \/ Tab!TicksOn(l) \/ Tab!TickedTooLate(l)
        PROVE  overlapped' \in BOOLEAN
    BY <1>0, <2>5 DEF Tab!Tick, Tab!TellStatus, Tab!TicksOn, Tab!TickedTooLate
  <2>6. ASSUME Tab!Forgotten \/ Tab!Unmount \/ \E e \in Executions : Tab!Ends(e) PROVE overlapped' \in BOOLEAN
    BY <1>0, <2>6 DEF Tab!Forgotten, Tab!Unmount, Tab!Ends
  <2> QED  BY <2>1, <2>2, <2>3, <2>4, <2>5, <2>6 DEF Tab!TabNext
<1>3. ASSUME ~overlapped' PROVE TabCalm'
  BY <1>1, <1>3, ClickStep, ReleaseSupersededStep, SubmitStep, NotSubmittedStep, SubmittedStep, AskLatestStep,
     TellLatestStep, RestoredStep, TickStep, TellStatusStep, TickedStep, TicksOnStep, TickedTooLateStep, CancelStep,
     TellCancelledStep, CancelledStep, ForgetStep, ForgottenStep, UnmountStep, EndsStep DEF Tab!TabNext
<1> QED  BY <1>2, <1>3 DEF TabInv

LEMMA LoopCounts == \A S : Tab!Cardinality(S) = Cardinality(S)
BY DEF Tab!Cardinality, Cardinality

LEMMA TabShows == TabInv => Tab!TabShowsLatest
<1> SUFFICES ASSUME TabInv, ~overlapped PROVE Tab!TabShowsLatest
  BY DEF Tab!TabShowsLatest
<1>1. TabCalm
  BY DEF TabInv
<1>2. \A l \in Tab!Alive : stopped \/ (shown # Nobody /\ l[1] = shown.id)
  BY <1>1 DEF TabCalm, LoopsKnow
<1>3. Tab!Cardinality(Tab!Alive) <= 1
  <2>1. CASE Tab!Alive = {}
    BY <2>1, FS_EmptySet, LoopCounts
  <2>2. CASE Tab!Alive # {}
    <3>1. PICK l \in Tab!Alive : TRUE
      BY <2>2
    <3>2. \A m \in Tab!Alive : m = l
      BY <1>1, <3>1 DEF TabCalm, OneAtATime
    <3>3. Tab!Alive = {l}
      BY <3>1, <3>2
    <3>4. Cardinality({l}) = 1
      BY FS_Singleton
    <3>5. Tab!Cardinality(Tab!Alive) = 1
      BY <3>3, <3>4, LoopCounts
    <3> QED  BY <3>5
  <2> QED  BY <2>1, <2>2
<1>4. ~twice /\ (tab # "open" => Tab!Alive = {} /\ shown = Nobody)
  BY <1>1 DEF TabCalm, LatestShown, OneAtATime
<1>5. Tab!Active /\ ~stopped => Tab!Alive # {}
  <2>1. SUFFICES ASSUME Tab!Active, ~stopped, Tab!Alive = {} PROVE FALSE
    OBVIOUS
  <2>2. shown # Nobody /\ shown = Tab!View(shown.id, job[shown.id]) /\ Tab!Terminal(job[shown.id]) /\ shown.state = "active"
    BY <1>1, <2>1 DEF TabCalm, LatestShown, Tab!Active
  <2>3. shown.state = job[shown.id]
    BY <2>2, ViewsAreViews
  <2> QED  BY <2>2, <2>3 DEF Tab!Terminal
<1>6. ASSUME shown # Nobody, Tab!Quiet, ~stopped
      PROVE  /\ shown.id = latest
             /\ Tab!Alive = {} => shown = Tab!View(latest, job[latest])
             /\ shown.result /\ ~unsubmitted => shown.id \notin released
  <2>1. \A c \in Clicks : call[c].at = "none"
    BY <1>6 DEF Tab!Quiet, Tab!Running
  <2> QED  BY <1>1, <1>6, <2>1 DEF TabCalm, LatestShown
<1> QED  BY <1>2, <1>3, <1>4, <1>5, <1>6 DEF Tab!TabShowsLatest

--------------------------------------------------------------------------------
(* The parts side by side.                                                 *)

DesktopInv ==
    /\ focus = "project" => ProjectInv /\ TidyInv
    /\ focus = "link" => SettingsInv
    /\ focus = "tab" => TabInv

LEMMA ProjectStutters == ProjectInv /\ UNCHANGED projectVars /\ UNCHANGED record => ProjectInv'
BY DEF ProjectInv, ProjectShape, RecorderHoldsLock, projectVars

LEMMA ProjectKeeps == ProjectInv /\ TidyInv /\ Project!ProjectNext => TidyInv'
BY TidyStep DEF ProjectInv

LEMMA ProjectRests == TidyInv /\ UNCHANGED projectVars /\ UNCHANGED <<record, overlapped>> => TidyInv'
BY TidyRest DEF projectVars

LEMMA LinkStutters == SettingsInv /\ UNCHANGED linkVars => SettingsInv'
<1> SUFFICES ASSUME SettingsInv, UNCHANGED linkVars PROVE SettingsInv'
  OBVIOUS
<1>1. LinkShape'
  BY DEF SettingsInv, SessionsInv, LinkShape, linkVars
<1>2. SessionsInv' /\ Link!Connected' = Link!Connected
  BY <1>1, SessionsFrame DEF SettingsInv, linkVars
<1>3. ApplyKnows' <=> ApplyKnows
  BY DEF ApplyKnows, linkVars
<1>4. ProjectRuns' <=> ProjectRuns
  BY <1>2 DEF ProjectRuns, Runs, Has, Link!Of, Link!Target, Link!At, linkVars
<1>5. OpeningRuns' <=> OpeningRuns
  BY <1>2 DEF OpeningRuns, Runs, Has, Link!Of, Link!Target, Link!At, linkVars
<1> QED  BY <1>2, <1>3, <1>4, <1>5 DEF SettingsInv, linkVars

LEMMA TabStutters == TabInv /\ UNCHANGED tabVars /\ UNCHANGED overlapped => TabInv'
<1> SUFFICES ASSUME TabInv, UNCHANGED tabVars, UNCHANGED overlapped PROVE TabInv'
  OBVIOUS
<1>1. Tab!Alive' = Tab!Alive /\ (Tab!Active' <=> Tab!Active)
  BY DEF Tab!Alive, Tab!Active, tabVars
<1>2. TabShape' <=> TabShape
  BY DEF TabShape, tabVars
<1>3. OneAtATime' <=> OneAtATime
  BY <1>1 DEF OneAtATime, Restoring, Cancelling, tabVars
<1>4. (CallsKnow' <=> CallsKnow) /\ (RestoreKnows' <=> RestoreKnows)
  BY DEF CallsKnow, RestoreKnows, There, tabVars
<1>5. (CancelKnows' <=> CancelKnows) /\ (LoopsKnow' <=> LoopsKnow)
  BY <1>1 DEF CancelKnows, LoopsKnow, There, Cancelling, tabVars
<1>6. LatestShown' <=> LatestShown
  BY <1>1 DEF LatestShown, There, tabVars
<1> QED  BY <1>2, <1>3, <1>4, <1>5, <1>6 DEF TabInv, TabCalm

LEMMA DesktopInvariant == DesktopSpec => []DesktopInv
<1>1. DesktopInit => DesktopInv
  BY ProjectStart, TidyStart, LinkStart, TabStart DEF DesktopInit, DesktopInv
<1>2. DesktopInv /\ [DesktopNext]_vars => DesktopInv'
  <2> SUFFICES ASSUME DesktopInv, [DesktopNext]_vars PROVE DesktopInv'
    OBVIOUS
  <2>1. CASE DesktopNext
    <3>1. UNCHANGED focus
      BY <2>1 DEF DesktopNext
    <3>2. focus = "project" => Project!ProjectNext
      BY <2>1 DEF DesktopNext
    <3>3. focus = "link" => Link!LinkNext
      BY <2>1 DEF DesktopNext
    <3>4. focus = "tab" => Tab!TabNext
      BY <2>1 DEF DesktopNext
    <3> QED  BY <3>1, <3>2, <3>3, <3>4, ProjectStep, ProjectKeeps, LinkStep, TabStep DEF DesktopInv
  <2>2. CASE UNCHANGED vars
    <3>1. /\ UNCHANGED <<focus, record, overlapped>> /\ UNCHANGED projectVars /\ UNCHANGED linkVars
          /\ UNCHANGED tabVars
      BY <2>2 DEF vars
    <3> QED  BY <3>1, ProjectStutters, ProjectRests, LinkStutters, TabStutters DEF DesktopInv
  <2> QED  BY <2>1, <2>2
<1> QED  BY <1>1, <1>2, PTL DEF DesktopSpec

\* With no project being opened, the engine's session, if it has one, is of the file of
\* the project that is active, for any number of projects, files and overlapping commands,
\* and whatever fails (projects/mod.rs, open_path and close).
THEOREM SessionIsOfTheActiveProject == DesktopSpec => []SessionIsActives
<1>1. DesktopInv => SessionIsActives
  BY DEF DesktopInv, ProjectInv, SessionIsActives, Project!SessionIsActives
<1> QED  BY <1>1, DesktopInvariant, PTL

\* With no command under way, the record of every project that is still known names the
\* file with its data, unless two commands on one project overlapped, a restart cut one
\* short or undoing one failed; for any number of projects, folders and threads, and
\* whatever else fails (projects/mod.rs).
THEOREM RecordsFindTheirData == DesktopSpec => []RecordFindsData
<1>1. DesktopInv => RecordFindsData
  BY TidyFinds DEF DesktopInv, RecordFindsData
<1> QED  BY <1>1, DesktopInvariant, PTL

\* Every session the engine has is the one the manager uses, or one it refused to close
\* for an import, for any number of projects, crashes and restarts (engine_manager.rs).
THEOREM NoSessionIsLeftBehind == DesktopSpec => []NoSessionLeaks
<1>1. DesktopInv => NoSessionLeaks
  BY DEF DesktopInv, SettingsInv, SessionsInv, NoSessionLeaks
<1> QED  BY <1>1, DesktopInvariant, PTL

\* When no settings are being applied and no project opened, the settings wanted, requested
\* and stored are the same, and a connected project's session runs with them, unless the
\* two overlapped or undoing an application failed (engine_resources.rs, apply).
THEOREM SettingsAreThoseRequested == DesktopSpec => []RunsAsRequested
<1>1. DesktopInv => RunsAsRequested
  <2> SUFFICES ASSUME DesktopInv, focus = "link", applying.at = "none", ~blurred
               PROVE  /\ wanted = requested /\ requested = stored
                      /\ inProject /\ Link!Connected /\ current # None =>
                            effective = requested /\ \A s \in Link!Of(current.id) : s.level = requested
    BY DEF RunsAsRequested, Link!RunsAsRequested
  <2> QED  BY DEF DesktopInv, SettingsInv, ApplyKnows, ProjectRuns, Runs, Has
<1> QED  BY <1>1, DesktopInvariant, PTL

\* While the calls on a tab do not overlap, an execution is polled by one loop, that of the
\* execution shown; what is shown with nothing waited for is the latest execution as the
\* coordinator has it, with a result that was not released; a closed tab has nothing left,
\* and a success is announced once.  For any number of submissions and executions, whatever
\* fails, and in any order of the answers (useQueryExecution.ts).
THEOREM TabsShowTheirLatest == DesktopSpec => []TabShowsLatest
<1>1. DesktopInv => TabShowsLatest
  BY TabShows DEF DesktopInv, TabShowsLatest
<1> QED  BY <1>1, DesktopInvariant, PTL

================================================================================
