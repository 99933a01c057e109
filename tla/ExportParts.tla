------------------------------ MODULE ExportParts ------------------------------
(***************************************************************************)
(* The files of an export and what survives a crash: the part writer of    *)
(* engines/duckdb/src/export.rs, the desktop's recovery manifests          *)
(* (src-tauri/src/storage/mod.rs) and the life of an export in             *)
(* src-tauri/src/export/mod.rs, all over one output directory.             *)
(*                                                                         *)
(* Every rename, link and removal is one action, because a crash may come  *)
(* between any two of them, and because other programs write to the        *)
(* directory too.                                                          *)
(***************************************************************************)
EXTENDS Naturals, FiniteSets

CONSTANTS
    Exports,          \* export ids
    MaxParts,         \* bound: parts of an export
    User,             \* content some other program wrote
    None,             \* no file
    MaxCrashes,       \* bound: crashes of the application or of the engine
    EngineDiesAlone,  \* whether the sidecar may die while the application lives
    RenameMayFail,    \* whether a rename may fail while a part is published
    RestoreMayFail    \* whether a rename may fail, or the directory be away, at the next start

ASSUME ExportPartsBounds ==
    /\ MaxParts \in Nat \ {0} /\ MaxCrashes \in Nat
    /\ {EngineDiesAlone, RenameMayFail, RestoreMayFail} \subseteq BOOLEAN

Parts == 1..MaxParts
ASSUME ContentAssumption ==
    User \notin Exports /\ None \notin Exports /\ User # None /\ None \notin Exports \X Parts
Content == Exports \cup {User}
Policies == {"fail_if_exists", "replace"}
\* Where the engine is with an export.  "lost": the engine that knew it is dead.
Points == {"unknown", "queued", "ready", "staged", "linked", "aside", "placed",
           "rollback", "sweeping", "drop", "dropRecovery",
           "succeeded", "failed", "recovery", "lost"}
Working == {"ready", "staged", "linked", "aside", "placed", "rollback",
            "sweeping", "drop", "dropRecovery"}

VARIABLES
    canon,      \* the file under each canonical part name
    stage,      \* exports with a hidden stage file
    backup,     \* the hidden backup an export made of each part's file
    policy,     \* overwrite policy of each export
    part,       \* the part each export is at (`next_part`)
    sweep,      \* stale parts a finished export still has to remove
    pc,         \* where the engine is with each export
    manifest,   \* exports with a recovery manifest on disk
    desk,       \* the desktop's record: "new", "active" or "over"
    app,        \* "up", "cleaning" (startup clean-up runs) or "down"
    restoring,  \* the backup <<e, p>> about to be renamed back, or None
    crashes,
    owed        \* part names whose file nobody asked to remove (history)

writer == <<policy, part, sweep, pc>>
desktop == <<manifest, desk, app, restoring, crashes>>
vars == <<canon, stage, backup, writer, desktop, owed>>

TypeOK ==
    /\ canon \in [Parts -> Content \cup {None}]
    /\ stage \subseteq Exports
    /\ backup \in [Exports -> [Parts -> Content \cup {None}]]
    /\ policy \in [Exports -> Policies]
    /\ part \in [Exports -> 1..(MaxParts + 1)]
    /\ sweep \in [Exports -> SUBSET Parts]
    /\ \A e \in Exports : \A p \in sweep[e] : p >= part[e]  \* never a part it wrote
    /\ pc \in [Exports -> Points]
    /\ manifest \subseteq Exports
    /\ desk \in [Exports -> {"new", "active", "over"}]
    /\ app \in {"up", "cleaning", "down"}
    /\ restoring \in (Exports \X Parts) \cup {None}
    /\ crashes \in 0..MaxCrashes
    /\ owed \subseteq Parts

\* The directory may already hold files under the part names.
Init ==
    /\ canon \in [Parts -> {User, None}]
    /\ stage = {}
    /\ backup = [e \in Exports |-> [p \in Parts |-> None]]
    /\ policy \in [Exports -> Policies]
    /\ part = [e \in Exports |-> 1]
    /\ sweep = [e \in Exports |-> {}]
    /\ pc = [e \in Exports |-> "unknown"]
    /\ manifest = {}
    /\ desk = [e \in Exports |-> "new"]
    /\ app = "up"
    /\ restoring = None
    /\ crashes = 0
    /\ owed = {p \in Parts : canon[p] # None}

HasBackup(e, p) == backup[e][p] # None
Hidden(e) == e \in stage \/ \E p \in Parts : HasBackup(e, p)

--------------------------------------------------------------------------------
(* The part writer, for one export at a time (a session serves serially).  *)

\* A step of the writer that changes only where it is.
Goto(e, point) ==
    /\ pc' = [pc EXCEPT ![e] = point]
    /\ UNCHANGED <<canon, stage, backup, policy, part, sweep, desktop, owed>>

Begin(e) ==
    /\ pc[e] = "queued"
    /\ \A f \in Exports : pc[f] \notin Working
    /\ Goto(e, "ready")

\* create: fail_if_exists refuses a name that is taken, before any file is made.
CreateStage(e) ==
    /\ pc[e] = "ready"
    /\ part[e] <= MaxParts
    /\ policy[e] = "fail_if_exists" => canon[part[e]] = None
    /\ stage' = stage \cup {e}
    /\ pc' = [pc EXCEPT ![e] = "staged"]
    /\ UNCHANGED <<canon, backup, policy, part, sweep, desktop, owed>>

\* A collision, a write error, a cancellation or a panic ends the export.
GiveUp(e) ==
    /\ pc[e] \in {"ready", "staged", "sweeping"}
    /\ Goto(e, "drop")

\* publish under fail_if_exists: the hard link fails if the name was taken since.
RenameOver(e) ==                               \* mutant: rename instead of hard_link
    canon' = [canon EXCEPT ![part[e]] = e]
LinkNew(e) ==
    /\ canon[part[e]] = None
    /\ canon' = [canon EXCEPT ![part[e]] = e]

Link(e) ==
    /\ pc[e] = "staged" /\ policy[e] = "fail_if_exists"
    /\ LinkNew(e)
    /\ owed' = owed \cup {part[e]}
    /\ pc' = [pc EXCEPT ![e] = "linked"]
    /\ UNCHANGED <<stage, backup, policy, part, sweep, desktop>>

\* ... after which the stage's own name goes, and the next part is due.
NextPart(e) == [part EXCEPT ![e] = @ + 1]

Unlink(e) ==
    /\ pc[e] = "linked"
    /\ stage' = stage \ {e}
    /\ part' = NextPart(e)
    /\ pc' = [pc EXCEPT ![e] = "ready"]
    /\ UNCHANGED <<canon, backup, policy, sweep, desktop, owed>>

\* publish under replace: an existing file is renamed to the backup name.
SetAside(e) ==
    /\ pc[e] = "staged" /\ policy[e] = "replace"
    /\ backup' = [backup EXCEPT ![e][part[e]] = canon[part[e]]]
    /\ canon' = [canon EXCEPT ![part[e]] = None]
    /\ pc' = [pc EXCEPT ![e] = "aside"]
    /\ UNCHANGED <<stage, policy, part, sweep, desktop, owed>>

\* The stage is renamed to the canonical name, over whatever is there by now.
Place(e) ==
    /\ pc[e] = "aside"
    /\ canon' = [canon EXCEPT ![part[e]] = e]
    /\ stage' = stage \ {e}
    /\ owed' = owed \cup {part[e]}
    /\ pc' = [pc EXCEPT ![e] = "placed"]
    /\ UNCHANGED <<backup, policy, part, sweep, desktop>>

\* Then the backup is not needed any more.
DropBackup(e) ==
    /\ pc[e] = "placed"
    /\ backup' = [backup EXCEPT ![e][part[e]] = None]
    /\ part' = NextPart(e)
    /\ pc' = [pc EXCEPT ![e] = "ready"]
    /\ UNCHANGED <<canon, stage, policy, sweep, desktop, owed>>

PlaceFails(e) ==
    /\ RenameMayFail
    /\ pc[e] = "aside"
    /\ Goto(e, IF HasBackup(e, part[e]) THEN "rollback" ELSE "drop")

\* The previous file is renamed back ...
PutBack(e) == [canon EXCEPT ![part[e]] = backup[e][part[e]]]

Rollback(e) ==
    /\ pc[e] = "rollback"
    /\ canon' = PutBack(e)
    /\ backup' = [backup EXCEPT ![e][part[e]] = None]
    /\ pc' = [pc EXCEPT ![e] = "drop"]
    /\ UNCHANGED <<stage, policy, part, sweep, desktop, owed>>

\* ... or that fails too: ExportRecoveryRequired.
RollbackFails(e) ==
    /\ pc[e] = "rollback"
    /\ Goto(e, "dropRecovery")

\* The parts an earlier export left: what is there from `first_stale_part` on.
Stale(e) == {p \in Parts : p >= part[e] /\ canon[p] # None}

\* Every part is complete.  A replacing export removes the stale parts it lists now.
Finish(e) ==
    /\ pc[e] = "ready"
    /\ sweep' = [sweep EXCEPT ![e] = IF policy[e] = "replace" THEN Stale(e) ELSE {}]
    /\ pc' = [pc EXCEPT ![e] = "sweeping"]
    /\ UNCHANGED <<canon, stage, backup, policy, part, desktop, owed>>

RemoveStale(e, p) ==
    /\ pc[e] = "sweeping" /\ p \in sweep[e]
    /\ canon' = [canon EXCEPT ![p] = None]
    /\ owed' = owed \ {p}
    /\ sweep' = [sweep EXCEPT ![e] = @ \ {p}]
    /\ UNCHANGED <<stage, backup, policy, part, pc, desktop>>

Succeed(e) ==
    /\ pc[e] = "sweeping" /\ sweep[e] = {}
    /\ Goto(e, "succeeded")

\* Dropping the part writer removes its stage; the export is then terminal.
Drop(e) ==
    /\ pc[e] \in {"drop", "dropRecovery"}
    /\ stage' = stage \ {e}
    /\ pc' = [pc EXCEPT ![e] = IF @ = "drop" THEN "failed" ELSE "recovery"]
    /\ UNCHANGED <<canon, backup, policy, part, sweep, desktop, owed>>

WriterStep(e) ==
    \/ Begin(e) \/ CreateStage(e) \/ GiveUp(e)
    \/ Link(e) \/ Unlink(e)
    \/ SetAside(e) \/ Place(e) \/ DropBackup(e)
    \/ PlaceFails(e) \/ Rollback(e) \/ RollbackFails(e)
    \/ Finish(e) \/ (\E p \in Parts : RemoveStale(e, p)) \/ Succeed(e) \/ Drop(e)

--------------------------------------------------------------------------------
(* The desktop.                                                            *)

\* register_export: the manifest is on disk before the engine hears of the export.
NoManifest(e) == manifest                      \* mutant: register_export is not called
WithManifest(e) == manifest \cup {e}

Register(e) ==
    /\ app = "up" /\ desk[e] = "new"
    /\ manifest' = WithManifest(e)
    /\ desk' = [desk EXCEPT ![e] = "active"]
    /\ UNCHANGED <<canon, stage, backup, writer, app, restoring, crashes, owed>>

\* The engine accepts the submission.
Submit(e) ==
    /\ app = "up" /\ desk[e] = "active" /\ pc[e] = "unknown"
    /\ pc' = [pc EXCEPT ![e] = "queued"]
    /\ UNCHANGED <<canon, stage, backup, policy, part, sweep, desktop, owed>>

\* mark_terminal: the manifest goes, unless a backup could not be put back.
AlwaysForgets(e) == manifest \ {e}             \* mutant: recovery_required is not looked at
Forgets(e) == IF pc[e] = "recovery" THEN manifest ELSE manifest \ {e}

\* The coordinator learns what the engine made of the export: a terminal state, a
\* rejected submission, or that the engine does not know it any more.
Learn(e) ==
    /\ app = "up" /\ desk[e] = "active"
    /\ pc[e] \in {"unknown", "succeeded", "failed", "recovery", "lost"}
    /\ desk' = [desk EXCEPT ![e] = "over"]
    /\ manifest' = Forgets(e)
    /\ pc' = [pc EXCEPT ![e] = IF @ = "unknown" THEN "failed" ELSE @]
    /\ UNCHANGED <<canon, stage, backup, policy, part, sweep, app, restoring, crashes, owed>>

\* export.cancel of a queued export.
CancelQueued(e) ==
    /\ app = "up" /\ pc[e] = "queued"
    /\ Goto(e, "failed")

--------------------------------------------------------------------------------
(* Crashes, and the clean-up of the next startup.                          *)

Dead == [e \in Exports |-> IF pc[e] = "unknown" THEN "unknown" ELSE "lost"]

EngineDies ==
    /\ EngineDiesAlone
    /\ app = "up" /\ crashes < MaxCrashes
    /\ pc' = Dead
    /\ crashes' = crashes + 1
    /\ UNCHANGED <<canon, stage, backup, policy, part, sweep, manifest, desk, app,
                   restoring, owed>>

\* The sidecar's standard input closes with the application and it exits.
AppDies ==
    /\ app # "down" /\ crashes < MaxCrashes
    /\ app' = "down"
    /\ pc' = Dead
    /\ desk' = [e \in Exports |-> IF desk[e] = "active" THEN "over" ELSE desk[e]]
    /\ restoring' = None
    /\ crashes' = crashes + 1
    /\ UNCHANGED <<canon, stage, backup, policy, part, sweep, manifest, owed>>

\* The next start cleans up in the background; the interface opens no project,
\* and so starts no export, before that is done.
Restart ==
    /\ app = "down"
    /\ app' = "cleaning"
    /\ UNCHANGED <<canon, stage, backup, writer, manifest, desk, restoring, crashes, owed>>

\* reconcile_manifest, one directory entry at a time: a stage is removed;
RemoveStage(e) ==
    /\ app = "cleaning" /\ e \in manifest /\ e \in stage
    /\ restoring = None
    /\ stage' = stage \ {e}
    /\ UNCHANGED <<canon, backup, writer, desktop, owed>>

\* a backup is redundant if its canonical file is there,
AlwaysRedundant(p) == TRUE                     \* mutant: the canonical file is not looked for
Redundant(p) == canon[p] # None

RemoveBackup(e, p) ==
    /\ app = "cleaning" /\ e \in manifest /\ HasBackup(e, p)
    /\ restoring = None
    /\ Redundant(p)
    /\ backup' = [backup EXCEPT ![e][p] = None]
    /\ UNCHANGED <<canon, stage, writer, desktop, owed>>

\* and is otherwise renamed back, over whatever has been written there since.
FoundMissing(e, p) ==
    /\ app = "cleaning" /\ e \in manifest /\ HasBackup(e, p)
    /\ restoring = None
    /\ ~Redundant(p)
    /\ restoring' = <<e, p>>
    /\ UNCHANGED <<canon, stage, backup, writer, manifest, desk, app, crashes, owed>>

Restore(e, p) ==
    /\ restoring = <<e, p>>
    /\ canon' = [canon EXCEPT ![p] = backup[e][p]]
    /\ backup' = [backup EXCEPT ![e][p] = None]
    /\ restoring' = None
    /\ UNCHANGED <<stage, writer, manifest, desk, app, crashes, owed>>

\* The manifest is removed last, even if a backup could not be renamed back.
Reconciled(e) ==
    /\ e \notin stage
    /\ \A p \in Parts : HasBackup(e, p) => RestoreMayFail /\ ~Redundant(p)

DropManifest(e) ==
    /\ app = "cleaning" /\ e \in manifest
    /\ restoring = None
    /\ Reconciled(e)
    /\ manifest' = manifest \ {e}
    /\ UNCHANGED <<canon, stage, backup, writer, desk, app, restoring, crashes, owed>>

\* read_manifest: so is one whose directory cannot be found, with nothing looked at.
DropUnreadable(e) ==
    /\ RestoreMayFail
    /\ app = "cleaning" /\ e \in manifest /\ restoring = None
    /\ manifest' = manifest \ {e}
    /\ UNCHANGED <<canon, stage, backup, writer, desk, app, restoring, crashes, owed>>

\* StartupStatus.ready
Ready ==
    /\ app = "cleaning" /\ manifest = {}
    /\ app' = "up"
    /\ UNCHANGED <<canon, stage, backup, writer, manifest, desk, restoring, crashes, owed>>

CleanupStep ==
    \/ Restart \/ Ready
    \/ \E e \in Exports : \/ RemoveStage(e) \/ DropManifest(e) \/ DropUnreadable(e)
                          \/ \E p \in Parts : \/ RemoveBackup(e, p)
                                              \/ FoundMissing(e, p) \/ Restore(e, p)

\* Another program writes a file of its own under a part name.
Foreign(p) ==
    /\ canon[p] = None
    /\ canon' = [canon EXCEPT ![p] = User]
    /\ owed' = owed \cup {p}
    /\ UNCHANGED <<stage, backup, writer, desktop>>

Next ==
    \/ \E e \in Exports : \/ WriterStep(e) \/ Register(e) \/ Submit(e)
                          \/ Learn(e) \/ CancelQueued(e)
    \/ EngineDies \/ AppDies \/ CleanupStep
    \/ \E p \in Parts : Foreign(p)

Spec == Init /\ [][Next]_vars

\* The writer's thread runs and its system calls return; a crashed application is
\* started again, and its clean-up thread runs.
Fairness == /\ \A e \in Exports : WF_vars(WriterStep(e))
            /\ WF_vars(CleanupStep)
FairSpec == Spec /\ Fairness

--------------------------------------------------------------------------------
(* Safety.                                                                 *)

\* A file that stood under a part name, and that no successful replacing export
\* removed as stale, still stands there or is held by a backup: no crash, failed
\* rename or clean-up loses both.
NoFileIsLost ==
    \A p \in owed : canon[p] # None \/ \E e \in Exports : HasBackup(e, p)

\* E10-DESIGN-GRAPH.md:116: a hidden file belongs to an export whose writer is at
\* work or whose manifest lets the next startup reconcile it.
HiddenIsAccountedFor ==
    \A e \in Exports : Hidden(e) => pc[e] \in Working \/ e \in manifest

(* Action properties.                                                      *)

\* E9: `fail_if_exists` never changes an existing destination: a file disappears
\* or changes only for an export that was told to replace, whatever other
\* programs do between its checks.
OnlyReplaceOverwrites ==
    [][\A p \in Parts : canon[p] # None /\ canon'[p] # canon[p] =>
          \E e \in Exports : policy[e] = "replace" /\ (pc[e] \in Working \/ HasBackup(e, p))]_vars

(* Liveness, when the sidecar dies only with the application and the next   *)
(* start can rename backups.                                               *)

\* A file that was set aside is put back or replaced, whichever step a crash
\* interrupts, unless the user was told that recovery is required.
MissingFileReturns ==
    \A p \in Parts :
        (p \in owed /\ canon[p] = None)
            ~> \/ canon[p] # None \/ p \notin owed
               \/ \E e \in Exports : pc[e] = "recovery" /\ HasBackup(e, p)
================================================================================
