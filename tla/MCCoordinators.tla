----------------------------- MODULE MCCoordinators -----------------------------
(***************************************************************************)
(* Instances of DesktopShutdown, with the query coordinator in it, and of  *)
(* ExportCoordinator for TLC, side by side: `focus` says which of them a   *)
(* behaviour is of.  Variables that have one name in both are shared, the  *)
(* rest stands still.                                                      *)
(***************************************************************************)
EXTENDS DesktopShutdown, TLC

CONSTANTS Exports, MaxActive, MaxTerminal, MaxCancels, WithRelease
VARIABLES focus, used, unlisting, order, evicting, cancels

Export == INSTANCE ExportCoordinator

queryOnly == <<tab, result, latest, up, shutdownVars>>
exportOnly == <<used, unlisting, order, evicting, cancels>>
shared == <<state, written, at, snap, failures, history, eng, crashes>>
coordinatorVars == <<focus, queryOnly, exportOnly, shared>>

NoQueries ==
    /\ tab = 0 /\ result = 0 /\ latest = 0 /\ up = FALSE
    /\ guard = "Idle" /\ phase = "none" /\ toCancel = {} /\ warned = FALSE
NoExports == used = 0 /\ unlisting = 0 /\ order = 0 /\ evicting = 0 /\ cancels = 0

CoordinatorsInit ==
    \/ focus = "queries" /\ Init /\ NoExports
    \/ focus = "exports" /\ Export!Init /\ NoQueries

CoordinatorsNext ==
    /\ UNCHANGED focus
    /\ \/ focus = "queries" /\ Next /\ UNCHANGED exportOnly
       \/ focus = "exports" /\ Export!Next /\ UNCHANGED queryOnly

CoordinatorsSpec == CoordinatorsInit /\ [][CoordinatorsNext]_coordinatorVars

\* Exports and executions have the same model values in the configuration.
Symmetry == Permutations(Executions)

--------------------------------------------------------------------------------
(* The properties of the instances, under their own names.                 *)

\* The history of a query is its outcome (query/mod.rs).
QueryHistoryIsTheOutcome == focus = "queries" => HistoryIsTheOutcome

\* The history of an export is its outcome (export/mod.rs).
ExportHistoryIsTheOutcome == focus = "exports" => Export!HistoryIsTheOutcome

================================================================================
