------------------------------- MODULE MCArtifacts -------------------------------
(***************************************************************************)
(* Instances of ExportParts, ResultPages, ResultCache and QueryPlans for   *)
(* TLC, side by side: `focus` says which of them a behaviour is of; the    *)
(* variables of the others stand still.                                    *)
(*                                                                         *)
(* `calm` says of a behaviour of ExportParts that the engine dies only     *)
(* with the application and that the next start's renames succeed: what    *)
(* only holds then is checked of the calm behaviours, the rest of all.     *)
(***************************************************************************)
EXTENDS ExportParts

CONSTANTS
    PageRows, PageBytes, BatchRows, LongSize, BrowseLimit, ByteQuota,
    Results, Offsets, Readers, MaxTotalPages, EngineUpsets, Startup, ArtifactBytes, CacheBudget,
    PlanSize

VARIABLES
    focus, calm,
    pageStage, sizes, cut, skipped, perPage, buffered, pages, bytes,
    writing, disk, found, mixed, overfull,
    kept, gone, released, entries, order, reader, overlapped, upsets,
    planStage, native, path, query, steps, flows, surplus

Calm == INSTANCE ExportParts WITH EngineDiesAlone <- FALSE, RestoreMayFail <- FALSE
Paged == INSTANCE ResultPages WITH stage <- pageStage
\* Pages that are read and released; and, with none read, directories that are cleaned up.
Cache == INSTANCE ResultCache WITH Earlier <- Results, Clearers <- {}, MayRestart <- FALSE
OneReader == {CHOOSE r \in Readers : TRUE}
Store == INSTANCE ResultCache WITH Earlier <- {}, Clearers <- OneReader, Readers <- OneReader, Offsets <- {}, MayRestart <- TRUE
Plan == INSTANCE QueryPlans WITH stage <- planStage

pageVars == <<pageStage, sizes, cut, skipped, perPage, buffered, pages, bytes>>
cacheVars == <<writing, disk, found, mixed, overfull, kept, gone, released, entries, order, reader, overlapped, upsets>>
planVars == <<planStage, native, path, query, steps, flows, surplus>>

ArtifactsInit ==
    /\ focus \in {"parts", "pages", "cache", "store", "plan"} /\ calm \in BOOLEAN
    /\ Init /\ Paged!PagesInit /\ (IF focus = "store" THEN Store!CacheInit ELSE Cache!CacheInit) /\ Plan!PlanInit
    \* one initial state where nothing depends on it
    /\ focus # "parts" => ~calm /\ owed = {} /\ \A e \in Exports : policy[e] = "replace"

ArtifactsNext ==
    /\ UNCHANGED <<focus, calm>>
    /\ \/ focus = "parts" /\ calm /\ Calm!Next /\ UNCHANGED <<pageVars, cacheVars, planVars>>
       \/ focus = "parts" /\ ~calm /\ Next /\ UNCHANGED <<pageVars, cacheVars, planVars>>
       \/ focus = "pages" /\ Paged!PagesNext /\ UNCHANGED <<vars, cacheVars, planVars>>
       \/ focus = "cache" /\ Cache!CacheNext /\ UNCHANGED <<vars, pageVars, planVars>>
       \/ focus = "store" /\ Store!CacheNext /\ UNCHANGED <<vars, pageVars, planVars>>
       \/ focus = "plan" /\ Plan!PlanNext /\ UNCHANGED <<vars, pageVars, cacheVars>>

\* Fairness is of the parts' steps; of the rest only what never happens is asked.
ArtifactsSpec ==
    ArtifactsInit /\ [][ArtifactsNext]_<<focus, calm, vars, pageVars, cacheVars, planVars>> /\ Calm!Fairness

--------------------------------------------------------------------------------
(* The properties of the calm behaviours, under their own names.           *)

\* A hidden file left in the output directory has somebody who will deal with it
\* (export.rs, storage/mod.rs).
CalmHiddenIsAccountedFor == calm => HiddenIsAccountedFor

\* A file moved aside for an export comes back (storage/mod.rs `cleanup_temp`).
CalmMissingFileReturns == calm => Calm!MissingFileReturns

(* The properties of the other instances, under their own names.           *)

\* Any window of a published result has its rows (pages.rs).
WindowIsExact == focus = "pages" => Paged!WindowIsExact

\* The cache of pages is what its order says, and forgets what is released (results/mod.rs).
CacheIsExact == focus \in {"cache", "store"} => Cache!CacheIsExact

\* The graph a plan is told as is one flow of the native operators (plan/mod.rs).
PlanIsOneFlow == focus = "plan" => Plan!PlanIsOneFlow

================================================================================
