--------------------------- MODULE ExportPartsProofs ---------------------------
(***************************************************************************)
(* Theorems about ExportParts for every set of exports, every number of    *)
(* parts and every number of crashes.                                      *)
(*                                                                         *)
(* The inductive invariant says what the writer's point tells about the    *)
(* files it left (Point), that only one export writes at a time, that      *)
(* nothing is written while the application is down or cleaning up, and    *)
(* that the backup about to be renamed back is there.                      *)
(***************************************************************************)
EXTENDS MCArtifacts, TLAPS

\* A session serves one export at a time.
OneWriter == \A e, f \in Exports : pc[e] \in Working /\ pc[f] \in Working => e = f

NoBackups(e) == \A p \in Parts : ~HasBackup(e, p)

\* What is true of an export's files and part at each point of its writer.
Point(e) ==
    /\ pc[e] \in {"staged", "linked", "aside", "placed", "rollback"} => part[e] \in Parts
    /\ pc[e] \in {"unknown", "queued", "ready", "staged", "linked", "aside", "placed", "rollback"}
          => sweep[e] = {}
    /\ pc[e] \in {"unknown", "queued", "ready", "staged", "linked", "sweeping", "drop",
                  "succeeded", "failed"} => NoBackups(e)
    /\ pc[e] \in {"aside", "placed", "rollback"} =>
          /\ policy[e] = "replace"
          /\ \A p \in Parts : HasBackup(e, p) => p = part[e]
    /\ pc[e] = "placed" => canon[part[e]] # None
    /\ pc[e] = "rollback" => HasBackup(e, part[e])
    /\ sweep[e] # {} => policy[e] = "replace"
    /\ \A p \in Parts : HasBackup(e, p) => policy[e] = "replace"

AllPoints == \A e \in Exports : Point(e)

\* The sidecar goes with the application, and exports start after the clean-up.
QuietWhileDown == app # "up" => \A e \in Exports : pc[e] \in {"unknown", "lost"}

\* The backup about to be renamed back is there, and its manifest too.
RestoringBackup ==
    \A e \in Exports, p \in Parts :
        restoring = <<e, p>> => app = "cleaning" /\ HasBackup(e, p) /\ e \in manifest

IInv ==
    /\ TypeOK
    /\ OneWriter
    /\ AllPoints
    /\ QuietWhileDown
    /\ RestoringBackup
    /\ NoFileIsLost

LEMMA InitIInv == Init => IInv
<1> SUFFICES ASSUME Init PROVE IInv
  OBVIOUS
<1>1. TypeOK
  BY ExportPartsBounds DEF Init, TypeOK, Parts, Content, Points
<1>2. OneWriter /\ QuietWhileDown
  BY DEF Init, OneWriter, QuietWhileDown, Working
<1>3. AllPoints
  BY DEF Init, AllPoints, Point, NoBackups, HasBackup
<1>4. RestoringBackup
  BY ContentAssumption DEF Init, RestoringBackup
<1>5. NoFileIsLost
  BY DEF Init, NoFileIsLost
<1> QED  BY <1>1, <1>2, <1>3, <1>4, <1>5 DEF IInv

--------------------------------------------------------------------------------
(* The part writer.                                                        *)

\* Where the files, parts and manifests stay, only the writers' points matter.
LEMMA FilesFrame ==
    ASSUME IInv, UNCHANGED <<canon, stage, backup, policy, part, sweep, desktop, owed>>,
           pc' \in [Exports -> Points], OneWriter', AllPoints', QuietWhileDown'
    PROVE  IInv'
BY DEF IInv, TypeOK, RestoringBackup, NoFileIsLost, HasBackup, desktop

\* The steps of a writer that change only where it is.
LEMMA GotoSteps ==
    ASSUME IInv, NEW e \in Exports,
           \/ Begin(e) \/ GiveUp(e) \/ PlaceFails(e) \/ RollbackFails(e) \/ Succeed(e)
           \/ Submit(e) \/ CancelQueued(e)
    PROVE  IInv'
<1> USE DEF IInv
<1>1. PICK point \in Points : pc' = [pc EXCEPT ![e] = point]
  BY DEF Begin, GiveUp, PlaceFails, RollbackFails, Succeed, Submit, CancelQueued, Goto, Points
<1>2. UNCHANGED <<canon, stage, backup, policy, part, sweep, desktop, owed>>
  BY DEF Begin, GiveUp, PlaceFails, RollbackFails, Succeed, Submit, CancelQueued, Goto
<1>3. pc' \in [Exports -> Points]
  BY <1>1 DEF TypeOK
<1>4. OneWriter'
  <2>1. pc'[e] \in Working => pc[e] \in Working \/ \A f \in Exports : pc[f] \notin Working
    BY DEF Begin, GiveUp, PlaceFails, RollbackFails, Succeed, Submit, CancelQueued, Goto,
           TypeOK, Working
  <2> QED  BY <1>1, <2>1 DEF OneWriter, TypeOK
<1>5. QuietWhileDown'
  <2>1. app = "up" \/ pc[e] \notin {"unknown", "lost"}
    BY DEF Begin, GiveUp, PlaceFails, RollbackFails, Succeed, Submit, CancelQueued
  <2> QED  BY <1>2, <2>1 DEF QuietWhileDown, desktop
<1>6. AllPoints'
  <2>1. \A f \in Exports \ {e} : Point(f)'
    BY <1>1, <1>2 DEF AllPoints, Point, NoBackups, HasBackup, TypeOK
  <2>2. Point(e)'
    <3>1. \A p \in Parts : HasBackup(e, p)' <=> HasBackup(e, p)
      BY <1>2 DEF HasBackup
    <3> QED
      BY <1>2, <3>1 DEF AllPoints, Point, NoBackups, TypeOK, Begin, GiveUp, PlaceFails,
         RollbackFails, Succeed, Submit, CancelQueued, Goto
  <2> QED  BY <2>1, <2>2 DEF AllPoints
<1> QED  BY <1>2, <1>3, <1>4, <1>5, <1>6, FilesFrame

\* While a writer is at work no other is, the application is up, and nothing is
\* being restored.
LEMMA AloneAtWork ==
    ASSUME IInv, NEW e \in Exports, pc[e] \in Working
    PROVE  /\ \A f \in Exports \ {e} : pc[f] \notin Working
           /\ app = "up"
           /\ \A f \in Exports, p \in Parts : restoring # <<f, p>>
BY DEF IInv, OneWriter, QuietWhileDown, RestoringBackup, Working

\* A writer at work that goes on to another point of its work.
WriterMoves(e, point) ==
    /\ pc[e] \in Working /\ pc' = [pc EXCEPT ![e] = point] /\ point \in Points
    /\ UNCHANGED <<policy, desktop>>

\* ... and changes the files, the part and the sweep of no other export.
OnlyOwn(e) ==
    /\ canon' \in [Parts -> Content \cup {None}]
    /\ backup' \in [Exports -> [Parts -> Content \cup {None}]]
    /\ part' \in [Exports -> 1..(MaxParts + 1)]
    /\ sweep' \in [Exports -> SUBSET Parts]
    /\ stage' \subseteq Exports /\ owed' \subseteq Parts
    /\ \A p \in sweep'[e] : p >= part'[e]
    /\ \A f \in Exports \ {e} : backup'[f] = backup[f] /\ part'[f] = part[f] /\ sweep'[f] = sweep[f]

LEMMA WriterFrame ==
    ASSUME IInv, NEW e \in Exports, NEW point, WriterMoves(e, point), OnlyOwn(e),
           Point(e)', NoFileIsLost'
    PROVE  IInv'
<1> USE DEF IInv, WriterMoves, OnlyOwn
<1>1. /\ \A f \in Exports \ {e} : pc[f] \notin Working
      /\ app = "up"
      /\ \A f \in Exports, p \in Parts : restoring # <<f, p>>
  BY AloneAtWork
<1>2. TypeOK'
  BY DEF TypeOK, desktop
<1>3. OneWriter'
  BY <1>1 DEF OneWriter, TypeOK
<1>4. AllPoints'
  <2> SUFFICES ASSUME NEW f \in Exports \ {e} PROVE Point(f)'
    BY DEF AllPoints
  <2>1. pc'[f] = pc[f] /\ pc[f] \notin {"placed", "rollback", "aside"}
    BY <1>1 DEF TypeOK, Working
  <2>2. \A p \in Parts : HasBackup(f, p)' <=> HasBackup(f, p)
    BY DEF HasBackup
  <2> QED  BY <2>1, <2>2 DEF AllPoints, Point, NoBackups
<1>5. QuietWhileDown' /\ RestoringBackup'
  BY <1>1 DEF QuietWhileDown, RestoringBackup, desktop
<1> QED  BY <1>2, <1>3, <1>4, <1>5

\* The steps of a writer that touch no canonical name.
LEMMA StageSteps ==
    ASSUME IInv, NEW e \in Exports, CreateStage(e) \/ Unlink(e) \/ Finish(e) \/ Drop(e)
    PROVE  IInv'
<1> USE DEF IInv
<1>1. PICK point \in Points : WriterMoves(e, point)
  BY DEF CreateStage, Unlink, Finish, Drop, WriterMoves, Points, Working, TypeOK
<1>2. UNCHANGED <<canon, backup, owed>> /\ stage' \subseteq Exports
  BY DEF CreateStage, Unlink, Finish, Drop, TypeOK
<1>3. NoFileIsLost' /\ \A p \in Parts : HasBackup(e, p)' <=> HasBackup(e, p)
  BY <1>2 DEF NoFileIsLost, HasBackup
<1>4. CASE CreateStage(e)
  <2>1. Point(e)'
    BY <1>3, <1>4 DEF CreateStage, AllPoints, Point, NoBackups, TypeOK, Parts
  <2>2. OnlyOwn(e)
    BY <1>2, <1>4 DEF CreateStage, OnlyOwn, TypeOK
  <2> QED  BY <1>1, <1>3, <2>1, <2>2, WriterFrame
<1>5. CASE Unlink(e)
  <2>1. part[e] \in Parts /\ sweep[e] = {}
    BY <1>5 DEF Unlink, AllPoints, Point
  <2>2. Point(e)'
    BY <1>3, <1>5, <2>1 DEF Unlink, AllPoints, Point, NoBackups, TypeOK
  <2>3. OnlyOwn(e)
    BY <1>2, <1>5, <2>1, ExportPartsBounds DEF Unlink, NextPart, OnlyOwn, TypeOK, Parts
  <2> QED  BY <1>1, <1>3, <2>2, <2>3, WriterFrame
<1>6. CASE Finish(e)
  <2> DEFINE S == IF policy[e] = "replace" THEN Stale(e) ELSE {}
  <2>1. /\ sweep' = [sweep EXCEPT ![e] = S]
        /\ S \subseteq Parts /\ \A p \in S : p >= part[e]
        /\ S # {} => policy[e] = "replace"
    BY <1>6 DEF Finish, Stale
  <2> HIDE DEF S
  <2>2. /\ pc[e] = "ready" /\ pc' = [pc EXCEPT ![e] = "sweeping"]
        /\ UNCHANGED <<canon, stage, backup, policy, part, owed>>
    BY <1>6 DEF Finish
  <2>3. OnlyOwn(e)
    BY <2>1, <2>2 DEF OnlyOwn, TypeOK
  <2>4. Point(e)'
    BY <1>3, <2>1, <2>2 DEF AllPoints, Point, NoBackups, TypeOK
  <2> QED  BY <1>1, <1>3, <2>3, <2>4, WriterFrame
<1>7. CASE Drop(e)
  <2>1. Point(e)'
    BY <1>3, <1>7 DEF Drop, AllPoints, Point, NoBackups, TypeOK
  <2>2. OnlyOwn(e)
    BY <1>2, <1>7 DEF Drop, OnlyOwn, TypeOK
  <2> QED  BY <1>1, <1>3, <2>1, <2>2, WriterFrame
<1> QED  BY <1>4, <1>5, <1>6, <1>7

\* publish under fail_if_exists.
LEMMA LinkStep ==
    ASSUME IInv, NEW e \in Exports, Link(e)
    PROVE  IInv'
<1> USE DEF IInv
<1>1. WriterMoves(e, "linked")
  BY DEF Link, WriterMoves, Points, Working
<1>2. part[e] \in Parts /\ canon' = [canon EXCEPT ![part[e]] = e] /\ e \in Content
  BY DEF Link, LinkNew, AllPoints, Point, Content
<1>3. Point(e)'
  BY <1>2 DEF Link, AllPoints, Point, NoBackups, HasBackup, TypeOK
<1>4. NoFileIsLost'
  BY <1>2, ContentAssumption DEF Link, NoFileIsLost, HasBackup, TypeOK
<1>5. OnlyOwn(e)
  BY <1>2 DEF Link, OnlyOwn, TypeOK
<1> QED  BY <1>1, <1>3, <1>4, <1>5, WriterFrame

\* publish under replace: the existing file is set aside before it is replaced.
LEMMA SetAsideStep ==
    ASSUME IInv, NEW e \in Exports, SetAside(e)
    PROVE  IInv'
<1> USE DEF IInv
<1> DEFINE q == part[e]
<1>1. WriterMoves(e, "aside")
  BY DEF SetAside, WriterMoves, Points, Working
<1>2. /\ q \in Parts /\ NoBackups(e) /\ canon[q] \in Content \cup {None}
      /\ canon' = [canon EXCEPT ![q] = None]
      /\ backup' = [backup EXCEPT ![e][q] = canon[q]]
      /\ UNCHANGED <<stage, policy, part, sweep, owed>>
  BY DEF SetAside, AllPoints, Point, TypeOK
<1>3. backup'[e][q] = canon[q] /\ \A f \in Exports, p \in Parts :
          f # e \/ p # q => backup'[f][p] = backup[f][p]
  BY <1>2 DEF TypeOK
<1>4. Point(e)'
  BY <1>2, <1>3 DEF SetAside, AllPoints, Point, NoBackups, HasBackup, TypeOK
<1>5. NoFileIsLost'
  <2> SUFFICES ASSUME NEW p \in owed'
               PROVE canon'[p] # None \/ \E f \in Exports : HasBackup(f, p)'
    BY DEF NoFileIsLost
  <2>1. p \in Parts /\ p \in owed
    BY <1>2 DEF TypeOK
  <2>2. CASE canon[p] # None
    BY <1>2, <1>3, <2>1, <2>2 DEF HasBackup, TypeOK
  <2>3. CASE canon[p] = None
    <3>1. PICK f \in Exports : HasBackup(f, p)
      BY <2>1, <2>3 DEF NoFileIsLost
    <3>2. f # e
      BY <1>2, <2>1, <3>1 DEF NoBackups
    <3> QED  BY <1>3, <2>1, <3>1, <3>2 DEF HasBackup
  <2> QED  BY <2>2, <2>3
<1>6. OnlyOwn(e)
  BY <1>2, <1>3 DEF OnlyOwn, TypeOK
<1> QED  BY <1>1, <1>4, <1>5, <1>6, WriterFrame

\* The new part takes the canonical name.
LEMMA PlaceStep ==
    ASSUME IInv, NEW e \in Exports, Place(e)
    PROVE  IInv'
<1> USE DEF IInv
<1>1. WriterMoves(e, "placed")
  BY DEF Place, WriterMoves, Points, Working
<1>2. /\ part[e] \in Parts /\ canon' = [canon EXCEPT ![part[e]] = e] /\ e \in Content
      /\ e # None /\ UNCHANGED <<backup, policy, part, sweep>>
  BY ContentAssumption DEF Place, AllPoints, Point, Content
<1>3. Point(e)'
  BY <1>2 DEF Place, AllPoints, Point, NoBackups, HasBackup, TypeOK
<1>4. NoFileIsLost'
  BY <1>2 DEF Place, NoFileIsLost, HasBackup, TypeOK
<1>5. OnlyOwn(e)
  BY <1>2 DEF Place, OnlyOwn, TypeOK
<1> QED  BY <1>1, <1>3, <1>4, <1>5, WriterFrame

\* Its backup goes while the canonical file is there.
LEMMA DropBackupStep ==
    ASSUME IInv, NEW e \in Exports, DropBackup(e)
    PROVE  IInv'
<1> USE DEF IInv
<1> DEFINE q == part[e]
<1>1. WriterMoves(e, "ready")
  BY DEF DropBackup, WriterMoves, Points, Working
<1>2. /\ q \in Parts /\ canon[q] # None /\ sweep[e] = {}
      /\ backup' = [backup EXCEPT ![e][q] = None]
      /\ part' = [part EXCEPT ![e] = @ + 1]
      /\ UNCHANGED <<canon, stage, policy, sweep, owed>>
  BY DEF DropBackup, NextPart, AllPoints, Point
<1>3. backup'[e][q] = None /\ \A f \in Exports, p \in Parts :
          f # e \/ p # q => backup'[f][p] = backup[f][p]
  BY <1>2 DEF TypeOK
<1>4. Point(e)'
  BY <1>2, <1>3 DEF DropBackup, AllPoints, Point, NoBackups, HasBackup, TypeOK
<1>5. NoFileIsLost'
  BY <1>2, <1>3 DEF NoFileIsLost, HasBackup, TypeOK
<1>6. OnlyOwn(e)
  BY <1>2, <1>3, ExportPartsBounds DEF OnlyOwn, TypeOK, Parts
<1> QED  BY <1>1, <1>4, <1>5, <1>6, WriterFrame

\* A failed rename is undone.
LEMMA RollbackStep ==
    ASSUME IInv, NEW e \in Exports, Rollback(e)
    PROVE  IInv'
<1> USE DEF IInv
<1> DEFINE q == part[e]
<1>1. WriterMoves(e, "drop")
  BY DEF Rollback, WriterMoves, Points, Working
<1>2. /\ q \in Parts /\ backup[e][q] # None /\ backup[e][q] \in Content \cup {None}
      /\ canon' = [canon EXCEPT ![q] = backup[e][q]]
      /\ backup' = [backup EXCEPT ![e][q] = None]
      /\ UNCHANGED <<stage, policy, part, sweep, owed>>
  BY DEF Rollback, PutBack, AllPoints, Point, HasBackup, TypeOK
<1>3. backup'[e][q] = None /\ \A f \in Exports, p \in Parts :
          f # e \/ p # q => backup'[f][p] = backup[f][p]
  BY <1>2 DEF TypeOK
<1>4. Point(e)'
  BY <1>2, <1>3 DEF Rollback, AllPoints, Point, NoBackups, HasBackup, TypeOK
<1>5. NoFileIsLost'
  BY <1>2, <1>3 DEF NoFileIsLost, HasBackup, TypeOK
<1>6. OnlyOwn(e)
  BY <1>2, <1>3 DEF OnlyOwn, TypeOK
<1> QED  BY <1>1, <1>4, <1>5, <1>6, WriterFrame

\* A stale part is removed because the user asked for it.
LEMMA RemoveStaleStep ==
    ASSUME IInv, NEW e \in Exports, NEW p \in Parts, RemoveStale(e, p)
    PROVE  IInv'
<1> USE DEF IInv
<1>1. WriterMoves(e, "sweeping")
  BY DEF RemoveStale, WriterMoves, Points, Working, TypeOK
<1>2. /\ canon' = [canon EXCEPT ![p] = None]
      /\ sweep' = [sweep EXCEPT ![e] = @ \ {p}]
      /\ owed' = owed \ {p}
      /\ UNCHANGED <<stage, backup, policy, part, pc>>
  BY DEF RemoveStale
<1>3. Point(e)'
  BY <1>2 DEF RemoveStale, AllPoints, Point, NoBackups, HasBackup, TypeOK
<1>4. NoFileIsLost'
  BY <1>2 DEF NoFileIsLost, HasBackup, TypeOK
<1>5. OnlyOwn(e)
  BY <1>2 DEF OnlyOwn, TypeOK
<1> QED  BY <1>1, <1>3, <1>4, <1>5, WriterFrame

LEMMA WriterStepKeeps ==
    ASSUME IInv, NEW e \in Exports, WriterStep(e)
    PROVE  IInv'
BY GotoSteps, StageSteps, LinkStep, SetAsideStep, PlaceStep, DropBackupStep, RollbackStep,
   RemoveStaleStep DEF WriterStep

--------------------------------------------------------------------------------
(* The desktop, crashes and the clean-up.                                  *)

\* What leaves the files alone loses none.
LEMMA NoFileFrame ==
    ASSUME NoFileIsLost, UNCHANGED <<canon, backup, owed>>
    PROVE  NoFileIsLost'
BY DEF NoFileIsLost, HasBackup

LEMMA PointsFrame ==
    ASSUME AllPoints, UNCHANGED <<canon, backup, writer>>
    PROVE  AllPoints'
BY DEF AllPoints, Point, NoBackups, HasBackup, writer

LEMMA DesktopSteps ==
    ASSUME IInv, NEW e \in Exports, Register(e) \/ Learn(e)
    PROVE  IInv'
<1> USE DEF IInv
<1>1. CASE Register(e)
  <2>1. UNCHANGED <<canon, backup, writer, owed, app, restoring>>
    BY <1>1 DEF Register
  <2>2. TypeOK' /\ OneWriter' /\ QuietWhileDown' /\ RestoringBackup'
    BY <1>1 DEF Register, WithManifest, TypeOK, OneWriter, QuietWhileDown, RestoringBackup,
       HasBackup, writer
  <2> QED  BY <2>1, <2>2, NoFileFrame, PointsFrame
<1>2. CASE Learn(e)
  <2>1. /\ UNCHANGED <<canon, stage, backup, policy, part, sweep, app, restoring, crashes, owed>>
        /\ pc' = [pc EXCEPT ![e] = IF @ = "unknown" THEN "failed" ELSE @]
        /\ app = "up" /\ pc[e] \notin Working
        /\ manifest' \subseteq Exports /\ desk' = [desk EXCEPT ![e] = "over"]
    BY <1>2 DEF Learn, Forgets, Working, TypeOK
  <2>2. TypeOK'
    BY <2>1 DEF TypeOK, Points
  <2>3. OneWriter' /\ QuietWhileDown' /\ RestoringBackup'
    BY <2>1 DEF OneWriter, QuietWhileDown, RestoringBackup, Working, TypeOK
  <2>4. AllPoints'
    <3> SUFFICES ASSUME NEW f \in Exports PROVE Point(f)'
      BY DEF AllPoints
    <3>1. \A p \in Parts : HasBackup(f, p)' <=> HasBackup(f, p)
      BY <2>1 DEF HasBackup
    <3> QED  BY <2>1, <3>1 DEF AllPoints, Point, NoBackups, TypeOK
  <2> QED  BY <2>1, <2>2, <2>3, <2>4, NoFileFrame
<1> QED  BY <1>1, <1>2

\* Whoever dies, no file does: the writers stop where they are.
LEMMA CrashSteps ==
    ASSUME IInv, EngineDies \/ AppDies
    PROVE  IInv'
<1> USE DEF IInv
<1>1. /\ UNCHANGED <<canon, stage, backup, policy, part, sweep, manifest, owed>>
      /\ \A e \in Exports : pc'[e] \in {"unknown", "lost"}
                            /\ (pc'[e] = "unknown" => pc[e] = "unknown")
      /\ crashes < MaxCrashes /\ crashes' = crashes + 1
  BY DEF EngineDies, AppDies, Dead
<1>2. TypeOK'
  <2>1. crashes' \in 0..MaxCrashes
    BY <1>1, ExportPartsBounds DEF TypeOK
  <2>2. pc' \in [Exports -> Points]
    BY DEF EngineDies, AppDies, Dead, Points
  <2>3. desk' \in [Exports -> {"new", "active", "over"}] /\ app' \in {"up", "cleaning", "down"}
        /\ restoring' \in (Exports \X Parts) \cup {None}
    BY DEF EngineDies, AppDies, TypeOK
  <2> QED  BY <1>1, <2>1, <2>2, <2>3 DEF TypeOK
<1>3. OneWriter' /\ QuietWhileDown'
  BY <1>1 DEF OneWriter, QuietWhileDown, Working
<1>4. AllPoints'
  <2> SUFFICES ASSUME NEW f \in Exports PROVE Point(f)'
    BY DEF AllPoints
  <2>1. \A p \in Parts : HasBackup(f, p)' <=> HasBackup(f, p)
    BY <1>1 DEF HasBackup
  <2> QED  BY <1>1, <2>1 DEF AllPoints, Point, NoBackups
<1>5. RestoringBackup'
  BY <1>1, ContentAssumption DEF EngineDies, AppDies, RestoringBackup, HasBackup
<1> QED  BY <1>1, <1>2, <1>3, <1>4, <1>5, NoFileFrame

\* During the clean-up every writer is unknown or lost, so the points say only
\* which policy a backup or a sweep belongs to.
LEMMA CleaningPoints ==
    ASSUME IInv, app # "up", app' # "up", UNCHANGED writer,
           \A e \in Exports, p \in Parts : HasBackup(e, p)' => HasBackup(e, p)
    PROVE  AllPoints' /\ OneWriter' /\ QuietWhileDown'
<1>1. \A e \in Exports : pc[e] \in {"unknown", "lost"}
  BY DEF IInv, QuietWhileDown
<1>2. OneWriter' /\ QuietWhileDown'
  BY <1>1 DEF OneWriter, QuietWhileDown, writer, Working
<1>3. AllPoints'
  BY <1>1 DEF IInv, AllPoints, Point, NoBackups, writer
<1> QED  BY <1>2, <1>3

\* Steps of the clean-up that touch no part file.
LEMMA QuietCleanupSteps ==
    ASSUME IInv,
           \/ Restart \/ Ready
           \/ \E e \in Exports : RemoveStage(e) \/ DropManifest(e) \/ DropUnreadable(e)
           \/ \E e \in Exports, p \in Parts : FoundMissing(e, p)
    PROVE  IInv'
<1> USE DEF IInv
<1>1. UNCHANGED <<canon, backup, writer, owed>>
  BY DEF Restart, Ready, RemoveStage, DropManifest, DropUnreadable, FoundMissing, desktop
<1>2. NoFileIsLost' /\ AllPoints'
  BY <1>1, NoFileFrame, PointsFrame
<1>3. TypeOK'
  BY DEF TypeOK, Restart, Ready, RemoveStage, DropManifest, DropUnreadable, FoundMissing, writer, desktop
<1>4. OneWriter'
  BY <1>1 DEF OneWriter, writer
<1>5. QuietWhileDown'
  BY <1>1 DEF QuietWhileDown, Restart, Ready, RemoveStage, DropManifest, DropUnreadable,
     FoundMissing, writer, desktop
<1>6. RestoringBackup'
  BY <1>1, ContentAssumption DEF RestoringBackup, HasBackup, Restart, Ready, RemoveStage,
     DropManifest, DropUnreadable, FoundMissing, desktop
<1> QED  BY <1>2, <1>3, <1>4, <1>5, <1>6

\* A backup is removed only where the canonical file stands.
LEMMA RemoveBackupStep ==
    ASSUME IInv, NEW e \in Exports, NEW p \in Parts, RemoveBackup(e, p)
    PROVE  IInv'
<1> USE DEF IInv
<1>1. /\ app = "cleaning" /\ restoring = None /\ canon[p] # None
      /\ backup' = [backup EXCEPT ![e][p] = None]
      /\ UNCHANGED <<canon, stage, writer, desktop, owed>>
  BY DEF RemoveBackup, Redundant
<1>2. backup'[e][p] = None /\ \A f \in Exports, r \in Parts :
          f # e \/ r # p => backup'[f][r] = backup[f][r]
  BY <1>1 DEF TypeOK
<1>3. backup' \in [Exports -> [Parts -> Content \cup {None}]]
  BY <1>1 DEF TypeOK
<1>4. TypeOK'
  BY <1>1, <1>3 DEF TypeOK, writer, desktop
<1>5. AllPoints' /\ OneWriter' /\ QuietWhileDown'
  <2>1. \A f \in Exports, r \in Parts : HasBackup(f, r)' => HasBackup(f, r)
    BY <1>2 DEF HasBackup
  <2>2. app # "up" /\ app' # "up" /\ UNCHANGED writer
    BY <1>1 DEF desktop
  <2> QED  BY <2>1, <2>2, CleaningPoints
<1>6. RestoringBackup'
  BY <1>1, ContentAssumption DEF RestoringBackup, desktop
<1>7. NoFileIsLost'
  BY <1>1, <1>2 DEF NoFileIsLost, HasBackup, TypeOK
<1> QED  BY <1>4, <1>5, <1>6, <1>7

\* A backup goes back under its canonical name.
LEMMA RestoreStep ==
    ASSUME IInv, NEW e \in Exports, NEW p \in Parts, Restore(e, p)
    PROVE  IInv'
<1> USE DEF IInv
<1>1. /\ app = "cleaning" /\ backup[e][p] # None
      /\ canon' = [canon EXCEPT ![p] = backup[e][p]]
      /\ backup' = [backup EXCEPT ![e][p] = None]
      /\ restoring' = None
      /\ UNCHANGED <<stage, writer, manifest, desk, app, crashes, owed>>
  BY DEF Restore, RestoringBackup, HasBackup
<1>2. backup'[e][p] = None /\ \A f \in Exports, r \in Parts :
          f # e \/ r # p => backup'[f][r] = backup[f][r]
  BY <1>1 DEF TypeOK
<1>3. /\ backup' \in [Exports -> [Parts -> Content \cup {None}]]
      /\ canon' \in [Parts -> Content \cup {None}]
  BY <1>1 DEF TypeOK
<1>4. TypeOK'
  BY <1>1, <1>3 DEF TypeOK, writer
<1>5. AllPoints' /\ OneWriter' /\ QuietWhileDown'
  <2>1. \A f \in Exports, r \in Parts : HasBackup(f, r)' => HasBackup(f, r)
    BY <1>2 DEF HasBackup
  <2> QED  BY <1>1, <2>1, CleaningPoints
<1>6. RestoringBackup'
  BY <1>1, ContentAssumption DEF RestoringBackup
<1>7. NoFileIsLost'
  BY <1>1, <1>2 DEF NoFileIsLost, HasBackup, TypeOK
<1> QED  BY <1>4, <1>5, <1>6, <1>7

\* Another program's file is one more file to keep.
LEMMA ForeignStep ==
    ASSUME IInv, NEW p \in Parts, Foreign(p)
    PROVE  IInv'
<1> USE DEF IInv
<1>1. /\ canon' = [canon EXCEPT ![p] = User] /\ owed' = owed \cup {p}
      /\ UNCHANGED <<stage, backup, writer, desktop>>
  BY DEF Foreign
<1>2. TypeOK'
  BY <1>1 DEF TypeOK, Content, writer, desktop
<1>3. OneWriter' /\ QuietWhileDown' /\ RestoringBackup'
  BY <1>1 DEF OneWriter, QuietWhileDown, RestoringBackup, HasBackup, writer, desktop
<1>4. AllPoints'
  <2> SUFFICES ASSUME NEW f \in Exports PROVE Point(f)'
    BY DEF AllPoints
  <2>1. \A r \in Parts : HasBackup(f, r)' <=> HasBackup(f, r)
    BY <1>1 DEF HasBackup
  <2>2. pc[f] = "placed" => canon'[part[f]] # None
    BY <1>1, ContentAssumption DEF AllPoints, Point, TypeOK
  <2> QED  BY <1>1, <2>1, <2>2 DEF AllPoints, Point, NoBackups, writer
<1>5. NoFileIsLost'
  BY <1>1, ContentAssumption DEF NoFileIsLost, HasBackup, TypeOK
<1> QED  BY <1>2, <1>3, <1>4, <1>5

\* The invariant is inductive.
LEMMA NextKeeps == IInv /\ [Next]_vars => IInv'
<1> SUFFICES ASSUME IInv, [Next]_vars PROVE IInv'
  OBVIOUS
<1>1. CASE UNCHANGED vars
  BY <1>1, PointsFrame, NoFileFrame
     DEF IInv, TypeOK, OneWriter, QuietWhileDown, RestoringBackup, HasBackup, vars, writer, desktop
<1>2. CASE Next
  BY <1>2, WriterStepKeeps, GotoSteps, DesktopSteps, CrashSteps, QuietCleanupSteps,
     RemoveBackupStep, RestoreStep, ForeignStep DEF Next, CleanupStep
<1> QED  BY <1>1, <1>2

--------------------------------------------------------------------------------
(* Theorems.                                                               *)

\* The inductive invariant holds in every reachable state.
THEOREM InductiveInvariant == Spec => []IInv
BY InitIInv, NextKeeps, PTL DEF Spec

\* Every variable keeps its type, whatever the exports, parts and crashes
\* (export.rs, storage/mod.rs).
THEOREM TypeCorrect == Spec => []TypeOK
<1>1. IInv => TypeOK
  BY DEF IInv
<1> QED  BY <1>1, InductiveInvariant, PTL

\* publish_part, the rollback and reconcile_manifest never lose a file, wherever a
\* crash, a failing rename or another program comes between their steps.
THEOREM FilesAreKept == Spec => []NoFileIsLost
<1>1. IInv => NoFileIsLost
  BY DEF IInv
<1> QED  BY <1>1, InductiveInvariant, PTL

\* A step that changes or removes a file that stands is a step of a replacing export
\* or puts back what one set aside.
LEMMA OverwritesOnlyToReplace ==
    ASSUME IInv, Next, NEW p \in Parts, canon[p] # None, canon'[p] # canon[p]
    PROVE  \E e \in Exports : policy[e] = "replace" /\ (pc[e] \in Working \/ HasBackup(e, p))
<1> USE DEF IInv
<1>1. ASSUME NEW e \in Exports, Link(e) PROVE FALSE
  BY <1>1 DEF Link, LinkNew, AllPoints, Point, TypeOK
<1>2. ASSUME NEW e \in Exports, SetAside(e) \/ Place(e) \/ Rollback(e)
      PROVE policy[e] = "replace" /\ pc[e] \in Working
  BY <1>2 DEF SetAside, Place, Rollback, AllPoints, Point, Working
<1>3. ASSUME NEW e \in Exports, NEW r \in Parts, RemoveStale(e, r)
      PROVE policy[e] = "replace" /\ pc[e] \in Working
  BY <1>3 DEF RemoveStale, AllPoints, Point, Working
<1>4. ASSUME NEW e \in Exports, NEW r \in Parts, Restore(e, r)
      PROVE policy[e] = "replace" /\ HasBackup(e, p)
  <2>1. HasBackup(e, r) /\ canon' = [canon EXCEPT ![r] = backup[e][r]]
    BY <1>4 DEF Restore, RestoringBackup
  <2>2. r = p
    BY <2>1 DEF TypeOK
  <2> QED  BY <2>1, <2>2 DEF AllPoints, Point
<1>5. ASSUME NEW r \in Parts, Foreign(r) PROVE FALSE
  BY <1>5 DEF Foreign, TypeOK
<1>6. ASSUME NEW e \in Exports,
             \/ Begin(e) \/ CreateStage(e) \/ GiveUp(e) \/ Unlink(e) \/ DropBackup(e)
             \/ PlaceFails(e) \/ RollbackFails(e) \/ Finish(e) \/ Succeed(e) \/ Drop(e)
             \/ Register(e) \/ Submit(e) \/ Learn(e) \/ CancelQueued(e)
             \/ RemoveStage(e) \/ DropManifest(e) \/ DropUnreadable(e)
      PROVE FALSE
  BY <1>6 DEF Begin, CreateStage, GiveUp, Unlink, DropBackup, PlaceFails, RollbackFails,
     Finish, Succeed, Drop, Register, Submit, Learn, CancelQueued, RemoveStage, DropManifest,
     DropUnreadable, Goto
<1>7. ASSUME NEW e \in Exports, NEW r \in Parts, RemoveBackup(e, r) \/ FoundMissing(e, r) PROVE FALSE
  BY <1>7 DEF RemoveBackup, FoundMissing
<1>8. ASSUME EngineDies \/ AppDies \/ Restart \/ Ready PROVE FALSE
  BY <1>8 DEF EngineDies, AppDies, Restart, Ready
<1> QED
  BY <1>1, <1>2, <1>3, <1>4, <1>5, <1>6, <1>7, <1>8 DEF Next, WriterStep, CleanupStep

\* Under `fail_if_exists` no existing file is ever changed, and under `replace` only
\* by the export that was told to, or by putting back what it set aside.
THEOREM OverwritesAreAsked == Spec => OnlyReplaceOverwrites
<1>1. IInv /\ [Next]_vars =>
        [\A p \in Parts : canon[p] # None /\ canon'[p] # canon[p] =>
          \E e \in Exports : policy[e] = "replace" /\ (pc[e] \in Working \/ HasBackup(e, p))]_vars
  BY OverwritesOnlyToReplace
<1> QED  BY <1>1, InductiveInvariant, PTL DEF Spec, OnlyReplaceOverwrites

--------------------------------------------------------------------------------
(* Hidden files, where the engine dies only with the application and the    *)
(* next start can finish its clean-up.                                      *)

\* Whoever may have hidden files has a manifest, since the desktop made it before
\* the engine heard of the export and keeps it until it learns the outcome.
Accounted(e) ==
    /\ Hidden(e) => e \in manifest
    /\ desk[e] = "active" => e \in manifest
    /\ pc[e] \in Working \cup {"queued"} => desk[e] = "active"
    /\ app # "up" => desk[e] # "active"
    /\ pc[e] = "lost" => desk[e] = "over"
    /\ pc[e] # "unknown" => desk[e] # "new"
    /\ pc[e] \in {"unknown", "queued", "ready", "placed", "sweeping", "succeeded", "failed", "recovery"}
          => e \notin stage

AllAccounted == \A e \in Exports : Accounted(e)

\* A writer's step is of an export the desktop still follows.
LEMMA WriterAccounted ==
    ASSUME IInv, AllAccounted, NEW e \in Exports, WriterStep(e)
    PROVE  AllAccounted'
<1> USE DEF IInv
<1>1. pc[e] \in Working \cup {"queued"} /\ UNCHANGED desktop
  BY DEF WriterStep, Begin, CreateStage, GiveUp, Link, Unlink, SetAside, Place, DropBackup,
     PlaceFails, Rollback, RollbackFails, Finish, RemoveStale, Succeed, Drop, Goto, Working
<1>2. \A f \in Exports \ {e} : /\ pc'[f] = pc[f] /\ backup'[f] = backup[f]
                               /\ f \in stage' <=> f \in stage
  BY DEF TypeOK, WriterStep, Begin, CreateStage, GiveUp, Link, Unlink, SetAside, Place, DropBackup,
     PlaceFails, Rollback, RollbackFails, Finish, RemoveStale, Succeed, Drop, Goto
<1>3. \A f \in Exports \ {e} : Accounted(f)'
  BY <1>1, <1>2 DEF AllAccounted, Accounted, Hidden, HasBackup, desktop
<1>4. desk'[e] = "active" /\ e \in manifest'
  BY <1>1 DEF AllAccounted, Accounted, desktop
<1>5. pc'[e] \notin {"lost", "unknown"}
  BY DEF TypeOK, WriterStep, Begin, CreateStage, GiveUp, Link, Unlink, SetAside, Place, DropBackup,
     PlaceFails, Rollback, RollbackFails, Finish, RemoveStale, Succeed, Drop, Goto
<1>6. pc'[e] \in {"queued", "ready", "placed", "sweeping", "succeeded", "failed", "recovery"}
          => e \notin stage'
  BY DEF AllAccounted, Accounted, TypeOK, WriterStep, Begin, CreateStage, GiveUp, Link, Unlink,
     SetAside, Place, DropBackup, PlaceFails, Rollback, RollbackFails, Finish, RemoveStale, Succeed, Drop, Goto
<1>7. app' # "up" => desk'[e] # "active"
  BY <1>1 DEF AllAccounted, Accounted, desktop
<1>8. Accounted(e)'
  BY <1>4, <1>5, <1>6, <1>7 DEF Accounted
<1> QED  BY <1>3, <1>8 DEF AllAccounted

\* The desktop's own steps: a manifest goes only with an outcome that left nothing.
LEMMA DesktopAccounted ==
    ASSUME IInv, AllAccounted, NEW e \in Exports,
           Register(e) \/ Submit(e) \/ Learn(e) \/ CancelQueued(e)
    PROVE  AllAccounted'
<1> USE DEF IInv
<1>1. /\ UNCHANGED <<stage, backup>> /\ app = "up" /\ app' = "up"
      /\ \A f \in Exports \ {e} :
            pc'[f] = pc[f] /\ desk'[f] = desk[f] /\ (f \in manifest' <=> f \in manifest)
  BY DEF Register, WithManifest, Submit, Learn, Forgets, CancelQueued, Goto, desktop, writer, TypeOK
<1>2. \A f \in Exports \ {e} : Accounted(f)'
  BY <1>1 DEF AllAccounted, Accounted, Hidden, HasBackup
<1> SUFFICES Accounted(e)'
  BY <1>2 DEF AllAccounted
<1>3. Hidden(e)' <=> Hidden(e)
  BY <1>1 DEF Hidden, HasBackup
<1>4. CASE Register(e)
  BY <1>1, <1>3, <1>4 DEF Register, WithManifest, AllAccounted, Accounted, Working, writer, TypeOK
<1>5. CASE Submit(e) \/ CancelQueued(e)
  BY <1>1, <1>3, <1>5 DEF Submit, CancelQueued, Goto, AllAccounted, Accounted, Working, desktop, TypeOK
<1>6. CASE Learn(e)
  <2>1. pc[e] \in {"unknown", "succeeded", "failed"} => ~Hidden(e)
    BY DEF AllPoints, Point, NoBackups, AllAccounted, Accounted, Hidden
  <2>2. pc[e] # "lost"
    BY <1>6 DEF Learn, AllAccounted, Accounted
  <2> QED
    BY <1>1, <1>3, <1>6, <2>1, <2>2 DEF Learn, Forgets, AllAccounted, Accounted, Working, TypeOK
<1> QED  BY <1>4, <1>5, <1>6

\* The application takes the engine with it; its manifests stay on disk.
LEMMA AppDiesAccounted ==
    ASSUME IInv, AllAccounted, AppDies
    PROVE  AllAccounted'
<1> SUFFICES ASSUME NEW e \in Exports PROVE Accounted(e)'
  BY DEF AllAccounted
<1>1. Hidden(e)' <=> Hidden(e)
  BY DEF AppDies, Hidden, HasBackup
<1> QED  BY <1>1 DEF AppDies, Dead, AllAccounted, Accounted, Working, IInv, TypeOK

\* The clean-up removes a manifest only when nothing hidden is left of the export.
LEMMA CleanupAccounted ==
    ASSUME IInv, AllAccounted, CleanupStep,
           \A e \in Exports : DropManifest(e) \/ DropUnreadable(e) => ~Hidden(e)
    PROVE  AllAccounted'
<1> USE DEF IInv
<1>1. ASSUME Restart \/ Ready PROVE AllAccounted'
  BY <1>1 DEF Restart, Ready, AllAccounted, Accounted, Hidden, HasBackup, writer
<1>2. ASSUME NEW e \in Exports,
             \/ RemoveStage(e) \/ DropManifest(e) \/ DropUnreadable(e)
             \/ \E p \in Parts : RemoveBackup(e, p) \/ FoundMissing(e, p) \/ Restore(e, p)
      PROVE AllAccounted'
  <2> SUFFICES ASSUME NEW f \in Exports PROVE Accounted(f)'
    BY DEF AllAccounted
  <2>1. UNCHANGED <<pc, desk, app>> /\ (f \in stage' => f \in stage)
    BY <1>2 DEF RemoveStage, DropManifest, DropUnreadable, RemoveBackup, FoundMissing, Restore, writer, desktop
  <2>2. \A p \in Parts : HasBackup(f, p)' => HasBackup(f, p)
    BY <1>2 DEF RemoveStage, DropManifest, DropUnreadable, RemoveBackup, FoundMissing, Restore, HasBackup, TypeOK
  <2>3. (f \in manifest' <=> f \in manifest) \/ (~Hidden(f) /\ desk[f] # "active")
    <3>1. ASSUME DropManifest(f) \/ DropUnreadable(f) PROVE desk[f] # "active"
      BY <3>1 DEF DropManifest, DropUnreadable, AllAccounted, Accounted
    <3> QED
      BY <1>2, <3>1 DEF RemoveStage, DropManifest, DropUnreadable, RemoveBackup, FoundMissing, Restore, desktop
  <2> QED  BY <2>1, <2>2, <2>3 DEF AllAccounted, Accounted, Hidden
<1> QED  BY <1>1, <1>2 DEF CleanupStep

LEMMA NextAccounted ==
    ASSUME IInv, AllAccounted, [Next]_vars, ~EngineDies,
           \A e \in Exports : DropManifest(e) \/ DropUnreadable(e) => ~Hidden(e)
    PROVE  AllAccounted'
<1>1. CASE UNCHANGED vars
  BY <1>1 DEF AllAccounted, Accounted, Hidden, HasBackup, vars, writer, desktop
<1>2. ASSUME NEW p \in Parts, Foreign(p) PROVE AllAccounted'
  BY <1>2 DEF Foreign, AllAccounted, Accounted, Hidden, HasBackup, writer, desktop
<1> QED
  BY <1>1, <1>2, WriterAccounted, DesktopAccounted, AppDiesAccounted, CleanupAccounted DEF Next

LEMMA InitAccounted == Init => AllAccounted
BY ContentAssumption DEF Init, AllAccounted, Accounted, Hidden, HasBackup, Working

\* E10-DESIGN-GRAPH.md:116, where the engine does not die alone and the next start
\* can rename and read: every hidden file belongs to a writer at work or is in the
\* manifest that the next start reconciles, whichever step the application dies at.
THEOREM HiddenFilesAreAccountedFor ==
    ASSUME ~EngineDiesAlone, ~RestoreMayFail
    PROVE  Spec => []HiddenIsAccountedFor
<1>1. IInv /\ AllAccounted /\ [Next]_vars => AllAccounted'
  <2> SUFFICES ASSUME IInv, AllAccounted, [Next]_vars PROVE AllAccounted'
    OBVIOUS
  <2>1. ~EngineDies
    BY DEF EngineDies
  <2>2. \A e \in Exports : DropManifest(e) \/ DropUnreadable(e) => ~Hidden(e)
    BY DEF DropManifest, DropUnreadable, Reconciled, Hidden
  <2> QED  BY <2>1, <2>2, NextAccounted
<1>2. AllAccounted => HiddenIsAccountedFor
  BY DEF AllAccounted, Accounted, HiddenIsAccountedFor
<1> QED  BY <1>1, <1>2, InitAccounted, InductiveInvariant, PTL DEF Spec

--------------------------------------------------------------------------------
(* The calm behaviours of the artifacts.                                    *)

\* A calm step is a step: the two constants are only looked at when the engine dies and
\* when a manifest goes.
LEMMA CalmWriterStep == \A e \in Exports : Calm!WriterStep(e) => WriterStep(e)
<1> SUFFICES ASSUME NEW e \in Exports PROVE Calm!WriterStep(e) => WriterStep(e)
  OBVIOUS
<1> USE DEF Calm!Goto, Goto, Calm!desktop, desktop, Calm!Parts, Parts, Calm!HasBackup, HasBackup
<1>1. /\ Calm!Begin(e) <=> Begin(e)
      /\ Calm!CreateStage(e) <=> CreateStage(e)
      /\ Calm!GiveUp(e) <=> GiveUp(e)
      /\ Calm!Succeed(e) <=> Succeed(e)
      /\ Calm!Drop(e) <=> Drop(e)
  BY DEF Calm!Begin, Begin, Calm!Working, Working, Calm!CreateStage, CreateStage,
     Calm!GiveUp, GiveUp, Calm!Succeed, Succeed, Calm!Drop, Drop
<1>2. /\ Calm!Link(e) <=> Link(e)
      /\ Calm!Unlink(e) <=> Unlink(e)
      /\ Calm!SetAside(e) <=> SetAside(e)
      /\ Calm!Place(e) <=> Place(e)
      /\ Calm!DropBackup(e) <=> DropBackup(e)
  BY DEF Calm!Link, Link, Calm!LinkNew, LinkNew, Calm!Unlink, Unlink, Calm!NextPart, NextPart,
     Calm!SetAside, SetAside, Calm!Place, Place, Calm!DropBackup, DropBackup
<1>3. /\ Calm!PlaceFails(e) <=> PlaceFails(e)
      /\ Calm!Rollback(e) <=> Rollback(e)
      /\ Calm!RollbackFails(e) <=> RollbackFails(e)
  BY DEF Calm!PlaceFails, PlaceFails, Calm!Rollback, Rollback, Calm!PutBack, PutBack,
     Calm!RollbackFails, RollbackFails
<1>4. /\ Calm!Finish(e) <=> Finish(e)
      /\ \A p \in Parts : Calm!RemoveStale(e, p) <=> RemoveStale(e, p)
  BY DEF Calm!Finish, Finish, Calm!Stale, Stale, Calm!RemoveStale, RemoveStale
<1> QED  BY <1>1, <1>2, <1>3, <1>4 DEF Calm!WriterStep, WriterStep

LEMMA CalmDesktopStep ==
    \A e \in Exports :
        /\ Calm!Register(e) <=> Register(e)
        /\ Calm!Submit(e) <=> Submit(e)
        /\ Calm!Learn(e) <=> Learn(e)
        /\ Calm!CancelQueued(e) <=> CancelQueued(e)
BY DEF Calm!Register, Register, Calm!WithManifest, WithManifest, Calm!Submit, Submit,
   Calm!Learn, Learn, Calm!Forgets, Forgets, Calm!CancelQueued, CancelQueued, Calm!Goto, Goto,
   Calm!writer, writer, Calm!desktop, desktop

LEMMA CalmCleanupStep ==
    /\ Calm!Restart <=> Restart
    /\ Calm!Ready <=> Ready
    /\ \A e \in Exports :
          /\ Calm!RemoveStage(e) <=> RemoveStage(e)
          /\ Calm!DropManifest(e) => DropManifest(e) /\ ~Hidden(e)
          /\ ~Calm!DropUnreadable(e)
          /\ \A p \in Parts :
                /\ Calm!RemoveBackup(e, p) <=> RemoveBackup(e, p)
                /\ Calm!FoundMissing(e, p) <=> FoundMissing(e, p)
                /\ Calm!Restore(e, p) <=> Restore(e, p)
<1> USE DEF Calm!writer, writer, Calm!desktop, desktop, Calm!Parts, Parts, Calm!HasBackup, HasBackup,
            Calm!Redundant, Redundant
<1>1. (Calm!Restart <=> Restart) /\ (Calm!Ready <=> Ready)
  BY DEF Calm!Restart, Restart, Calm!Ready, Ready
<1> SUFFICES ASSUME NEW e \in Exports
             PROVE  /\ Calm!RemoveStage(e) <=> RemoveStage(e)
                    /\ Calm!DropManifest(e) => DropManifest(e) /\ ~Hidden(e)
                    /\ ~Calm!DropUnreadable(e)
                    /\ \A p \in Parts :
                          /\ Calm!RemoveBackup(e, p) <=> RemoveBackup(e, p)
                          /\ Calm!FoundMissing(e, p) <=> FoundMissing(e, p)
                          /\ Calm!Restore(e, p) <=> Restore(e, p)
  BY <1>1
<1>2. Calm!RemoveStage(e) <=> RemoveStage(e)
  BY DEF Calm!RemoveStage, RemoveStage
<1>3. (Calm!DropManifest(e) => DropManifest(e) /\ ~Hidden(e)) /\ ~Calm!DropUnreadable(e)
  BY DEF Calm!DropManifest, DropManifest, Calm!Reconciled, Reconciled, Hidden, Calm!DropUnreadable
<1>4. \A p \in Parts :
          /\ Calm!RemoveBackup(e, p) <=> RemoveBackup(e, p)
          /\ Calm!FoundMissing(e, p) <=> FoundMissing(e, p)
          /\ Calm!Restore(e, p) <=> Restore(e, p)
  BY DEF Calm!RemoveBackup, RemoveBackup, Calm!FoundMissing, FoundMissing, Calm!Restore, Restore
<1> QED  BY <1>2, <1>3, <1>4

LEMMA CalmNext ==
    ASSUME IInv, Calm!Next
    PROVE  /\ Next /\ ~EngineDies
           /\ \A e \in Exports : DropManifest(e) \/ DropUnreadable(e) => ~Hidden(e)
<1> DEFINE Other == \/ \E e \in Exports : \/ WriterStep(e) \/ Register(e) \/ Submit(e)
                                          \/ Learn(e) \/ CancelQueued(e) \/ RemoveStage(e)
                    \/ AppDies \/ Restart \/ Ready
                    \/ \E e \in Exports, p \in Parts :
                          RemoveBackup(e, p) \/ FoundMissing(e, p) \/ Restore(e, p)
                    \/ \E p \in Parts : Foreign(p)
<1>1. Other \/ \E e \in Exports : Calm!DropManifest(e)
  <2>1. ~Calm!EngineDies /\ (Calm!AppDies <=> AppDies)
    BY DEF Calm!EngineDies, Calm!AppDies, AppDies, Calm!Dead, Dead
  <2>2. \A p \in Parts : Calm!Foreign(p) <=> Foreign(p)
    BY DEF Calm!Foreign, Foreign, Calm!writer, writer, Calm!desktop, desktop
  <2>3. Calm!CleanupStep => Other \/ \E e \in Exports : Calm!DropManifest(e)
    BY CalmCleanupStep DEF Calm!CleanupStep, Calm!Parts, Parts
  <2> QED
    BY <2>1, <2>2, <2>3, CalmWriterStep, CalmDesktopStep DEF Calm!Next, Calm!Parts, Parts
<1>2. ASSUME NEW e \in Exports, WriterStep(e) PROVE UNCHANGED desktop
  BY <1>2 DEF WriterStep, Begin, CreateStage, GiveUp, Link, Unlink, SetAside, Place, DropBackup,
     PlaceFails, Rollback, RollbackFails, Finish, RemoveStale, Succeed, Drop, Goto
<1>3. Other => Next
  BY DEF Next, CleanupStep
<1>4. CASE Other
  <2>1. manifest \subseteq manifest' \/ app = "up"
    BY <1>2, <1>4 DEF Register, WithManifest, Submit, Learn, CancelQueued, RemoveStage, AppDies,
       Restart, Ready, RemoveBackup, FoundMissing, Restore, Foreign, Goto, writer, desktop
  <2>2. crashes' = crashes \/ app' = "down"
    BY <1>2, <1>4 DEF Register, WithManifest, Submit, Learn, CancelQueued, RemoveStage, AppDies,
       Restart, Ready, RemoveBackup, FoundMissing, Restore, Foreign, Goto, writer, desktop
  <2> QED
    BY <1>3, <1>4, <2>1, <2>2, ExportPartsBounds
       DEF IInv, TypeOK, DropManifest, DropUnreadable, EngineDies
<1>5. ASSUME NEW e \in Exports, Calm!DropManifest(e)
      PROVE  /\ Next /\ ~EngineDies
             /\ \A f \in Exports : DropManifest(f) \/ DropUnreadable(f) => ~Hidden(f)
  <2>1. DropManifest(e) /\ ~Hidden(e)
    BY <1>5, CalmCleanupStep
  <2> QED
    BY <2>1 DEF Next, CleanupStep, DropManifest, DropUnreadable, EngineDies
<1> QED  BY <1>1, <1>4, <1>5

ArtifactsInv == IInv /\ (calm => AllAccounted)

LEMMA ArtifactsInvariant == ArtifactsSpec => []ArtifactsInv
<1> DEFINE all == <<focus, calm, vars, pageVars, cacheVars, planVars>>
<1>1. ArtifactsInit => ArtifactsInv
  BY InitIInv, InitAccounted DEF ArtifactsInit, ArtifactsInv
<1>2. ArtifactsInv /\ [ArtifactsNext]_all => ArtifactsInv'
  <2> SUFFICES ASSUME ArtifactsInv, [ArtifactsNext]_all PROVE ArtifactsInv'
    OBVIOUS
  <2>1. calm' = calm
    BY DEF ArtifactsNext
  <2>2. CASE UNCHANGED vars
    <3>1. IInv'
      BY <2>2, NextKeeps DEF ArtifactsInv
    <3>2. AllAccounted => AllAccounted'
      BY <2>2 DEF AllAccounted, Accounted, Hidden, HasBackup, vars, writer, desktop
    <3> QED  BY <2>1, <3>1, <3>2 DEF ArtifactsInv
  <2>3. CASE ~calm /\ Next
    BY <2>1, <2>3, NextKeeps DEF ArtifactsInv
  <2>4. CASE calm /\ Calm!Next
    BY <2>1, <2>4, CalmNext, NextKeeps, NextAccounted DEF ArtifactsInv
  <2> QED  BY <2>2, <2>3, <2>4 DEF ArtifactsNext
<1> QED  BY <1>1, <1>2, PTL DEF ArtifactsSpec

\* E10-DESIGN-GRAPH.md:116 of the calm behaviours: a hidden file that a killed application
\* left is in a manifest of the next start, whichever of its steps the kill interrupts.
THEOREM CalmHiddenFilesAreAccountedFor == ArtifactsSpec => []CalmHiddenIsAccountedFor
<1>1. ArtifactsInv => CalmHiddenIsAccountedFor
  BY DEF ArtifactsInv, CalmHiddenIsAccountedFor, HiddenIsAccountedFor, AllAccounted, Accounted
<1> QED  BY <1>1, ArtifactsInvariant, PTL
================================================================================
