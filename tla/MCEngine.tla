-------------------------------- MODULE MCEngine --------------------------------
(***************************************************************************)
(* Instances of EngineJobs, EngineExports and EngineWork for TLC, side by  *)
(* side: `focus` says which of them a behaviour is of; the variables of    *)
(* the others stand still.  Executions, whose ids also name the worker     *)
(* threads, are interchangeable; so are exports, imports and the sessions  *)
(* of executions.                                                          *)
(***************************************************************************)
EXTENDS EngineJobs, TLC

CONSTANTS
    ExportSessions, Exports, NoExport, ExportLimit, RowsPerPart, Footer, Budget, MaxRows,
    WorkSessions, Imports, Profiles, Others, WorkLimit, Levels

\* Ids are fresh for every submission, whatever is submitted; sizes are numbers.
ASSUME ExportConstants ==
    /\ NoSession \notin ExportSessions /\ NoExport \notin Exports
    /\ Footer \in Nat /\ Budget \in Nat
ASSUME WorkConstants ==
    /\ NoSession \notin WorkSessions /\ WorkLimit \in Nat
    /\ Imports \cap Profiles = {} /\ Others \cap (Imports \cup Profiles) = {}

VARIABLES
    focus,
    xOpen, xState, kept, xOwner, conn, xCancelled, xArmed, xFired, xTerminal, rows, completed, files,
    xPending, xRunning, xAlive, xPc, xHome, xClaim, inPart, ended, xVerdict, staged, published, parts,
    xClosing, xToCancel, remembering,
    workOpen, settings, workState, workOwner, requested, order, workPc, workVerdict, txn, tables,
    workClosing, passed, workToCancel, toRemember

Output == INSTANCE EngineExports
    WITH Sessions <- ExportSessions, open <- xOpen, state <- xState, owner <- xOwner, cancelled <- xCancelled,
         armed <- xArmed, fired <- xFired, terminalOrder <- xTerminal, pending <- xPending, running <- xRunning,
         alive <- xAlive, pc <- xPc, home <- xHome, claim <- xClaim, verdict <- xVerdict, closing <- xClosing,
         toCancel <- xToCancel

Work == INSTANCE EngineWork
    WITH Sessions <- WorkSessions, open <- workOpen, state <- workState, owner <- workOwner, pc <- workPc,
         verdict <- workVerdict, closing <- workClosing, toCancel <- workToCancel

exportVars == <<xOpen, xState, kept, xOwner, conn, xCancelled, xArmed, xFired, xTerminal, rows, completed, files,
                xPending, xRunning, xAlive, xPc, xHome, xClaim, inPart, ended, xVerdict, staged, published, parts,
                xClosing, xToCancel, remembering>>
workVars == <<workOpen, settings, workState, workOwner, requested, order, workPc, workVerdict, txn, tables,
              workClosing, passed, workToCancel, toRemember>>

EngineInit ==
    /\ Init /\ Output!Init /\ Work!Init
    /\ focus \in {"jobs", "exports", "work"}
    /\ focus # "work" => \A s \in WorkSessions : settings[s] = CHOOSE l \in Levels : TRUE

EngineNext ==
    /\ UNCHANGED focus
    /\ \/ focus = "jobs" /\ Next /\ UNCHANGED <<exportVars, workVars>>
       \/ focus = "exports" /\ Output!Next /\ UNCHANGED <<vars, workVars>>
       \/ focus = "work" /\ Work!Next /\ UNCHANGED <<vars, exportVars>>

EngineSpec == EngineInit /\ [][EngineNext]_<<focus, vars, exportVars, workVars>>

\* Executions, exports and imports have the same model values in the configuration.
Symmetry == Permutations(Jobs) \cup Permutations(Sessions)

--------------------------------------------------------------------------------
(* The properties of EngineExports and EngineWork, under their own names.  *)

\* A terminal record tells the rows and files that are published (export_jobs.rs).
ReportedRowsArePublished == Output!ReportedRowsArePublished

\* What is published stays within the byte budget (export_jobs.rs).
BudgetHolds == Output!BudgetHolds

\* What an import reports is what happened to the database (import_jobs.rs, sources.rs).
ImportOutcomeIsDatabase == Work!ImportOutcomeIsDatabase

\* Queries and exports share a session, imports and profiles do not (main.rs).
ImplementsSharing == Work!ImplementsSharing

================================================================================
