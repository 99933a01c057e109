------------------------------- MODULE MCDesktop -------------------------------
(***************************************************************************)
(* Instances of QualityChecks, QualityRuns, Projects, AgentSetup,          *)
(* AgentBridge, EngineLink, AgentDestinations and QueryTabs for TLC, side  *)
(* by side: `focus` says which a behaviour is of, and the variables of the *)
(* others stand still.  Variables that have one name in two of the modules *)
(* are shared.                                                             *)
(***************************************************************************)
EXTENDS Naturals, FiniteSets, TLC

CONSTANTS
    RowLimit, Today,
    Checks, RunIds, HistoryLimit, RecordLimit, PreviewLimit, RevisionLimit, RunUpsets,
    PlanLimit, BackupLimit, EventLimit,
    Ids, Callers, Folders, Names, None, ProjectCommands, ProjectUpsets,
    Instances, Streams, Profiles, NoInstance, NoStream, NoProfile, ConnectionLimit, Numbers,
    BridgeCommands, BridgeUpsets,
    LinkPaths, Levels, ProcessLimit, SessionLimit, LinkCommands, LinkUpsets,
    Client, Destinations, Proposals, OwnerLimit, FolderCommands, FolderUpsets,
    Executions, Clicks, Nobody, FailureLimit

VARIABLES
    focus,
    draft, table,
    revisions, runRecord, poller, runRows, runOrder, count, preview, tracked, dropped,
    package, holds, receipt, plans, doing, todo, late, disturbed, was, backups, said, events,
    file, staged, active, session, connected, lock, agenda, born, accident,
    up, enabled, runtime, stopping, listener, ready, descriptor, thread, server, lease, named,
    request, answers, closed, bridge, fresh, point, goal, asked, pending, saved, authenticated,
    process, held, importing, opened, current, wanted, effective, requested, stored, inProject,
    opening, applying, refused, blurred,
    activeProject, granted, tree, obstacle, delegated, proposal, startedIn, picked,
    job, latest, released, tab, stopped, shown, call, restore, cancelling, loop, timer,
    refreshed, twice, unsubmitted, failures,
    desk, record, overlapped, commands, upsets

\* `None` is no thread and no id, and no session.
ASSUME ProjectConstants == None \notin Callers \cup Ids
ASSUME LinkConstants == None \notin [id : Nat, path : LinkPaths, process : Nat]
\* `NoInstance` and `NoStream` are none of what they stand in for.
ASSUME BridgeConstants == NoInstance \notin Instances /\ NoStream \notin Streams
\* There are finitely many delegations; `None` is none of them, no directory and no record.
ASSUME FolderConstants ==
    /\ IsFiniteSet(Destinations) /\ OwnerLimit \in Nat /\ None \notin Names \cup Destinations
    /\ None \notin [owner : {Client} \X Profiles, place : Folders, dir : Names, enabled : BOOLEAN, revision : Nat]
\* `Nobody` is no execution, no loop of one, and nothing a tab shows.
ASSUME TabConstants ==
    /\ Nobody \notin Executions \cup (Executions \X {"run", "restore"})
    /\ Nobody \notin [id : Executions, state : {"active", "succeeded", "failed"}, result : BOOLEAN]

Check == INSTANCE QualityChecks WITH Now <- Today
Run == INSTANCE QualityRuns WITH Runs <- RunIds, UpsetLimit <- RunUpsets
\* One change at a time of any host, and several outstanding changes of one list.
Setup == INSTANCE AgentSetup WITH SetupHosts <- {"desktop", "cli", "skill"}, PlanLimit <- 1
Lists == INSTANCE AgentSetup WITH SetupHosts <- {"cli"}
Project == INSTANCE Projects WITH CommandLimit <- ProjectCommands, UpsetLimit <- ProjectUpsets
Bridge == INSTANCE AgentBridge WITH CommandLimit <- BridgeCommands, UpsetLimit <- BridgeUpsets
Link == INSTANCE EngineLink WITH Paths <- LinkPaths, CommandLimit <- LinkCommands, UpsetLimit <- LinkUpsets
Folder == INSTANCE AgentDestinations WITH
    Owners <- {Client} \X Profiles, Projects <- Profiles, Places <- Folders, Dirs <- Names, Nothing <- None,
    CommandLimit <- FolderCommands, UpsetLimit <- FolderUpsets
Tab == INSTANCE QueryTabs

checkVars == <<draft, table>>
runVars == <<revisions, runRecord, poller, runRows, runOrder, count, preview, tracked, dropped>>
setupVars == <<package, holds, receipt, plans, doing, todo, late, disturbed, was, backups, said, events>>
projectVars == <<file, staged, active, session, connected, lock, agenda, born, accident>>
bridgeVars == <<up, enabled, runtime, stopping, listener, ready, descriptor, thread, server, lease, named,
                request, answers, closed, bridge, fresh, point, goal, asked, pending, saved, authenticated>>
linkVars == <<process, held, importing, opened, current, wanted, effective, requested, stored, inProject,
              opening, applying, refused, blurred>>
folderVars == <<activeProject, granted, tree, obstacle, delegated, proposal, startedIn, picked>>
tabVars == <<job, latest, released, tab, stopped, shown, call, restore, cancelling, loop, timer,
             refreshed, twice, unsubmitted, failures>>
vars == <<focus, checkVars, runVars, setupVars, projectVars, bridgeVars, linkVars, folderVars, tabVars, desk, record, overlapped, commands, upsets>>

NoCheck ==
    /\ draft = 0 /\ table = 0
NoRun ==
    /\ revisions = 0 /\ runRecord = 0 /\ poller = 0 /\ runRows = 0 /\ runOrder = 0 /\ count = 0
    /\ preview = 0 /\ tracked = 0 /\ dropped = 0
NoSetup ==
    /\ package = 0 /\ holds = 0 /\ receipt = 0 /\ plans = 0 /\ doing = 0 /\ todo = 0
    /\ late = 0 /\ disturbed = 0 /\ was = 0 /\ backups = 0 /\ said = 0 /\ events = 0
NoProject ==
    /\ file = 0 /\ staged = 0 /\ active = 0 /\ session = 0 /\ connected = 0 /\ lock = 0
    /\ agenda = 0 /\ born = 0 /\ accident = 0
NoBridge ==
    /\ up = 0 /\ enabled = 0 /\ runtime = 0 /\ stopping = 0 /\ listener = 0
    /\ ready = 0 /\ descriptor = 0 /\ thread = 0 /\ server = 0 /\ lease = 0 /\ named = 0
    /\ request = 0 /\ answers = 0 /\ closed = 0 /\ bridge = 0 /\ fresh = 0 /\ point = 0
    /\ goal = 0 /\ asked = 0 /\ pending = 0 /\ saved = 0 /\ authenticated = 0
NoLink ==
    /\ process = 0 /\ held = 0 /\ importing = 0 /\ opened = 0 /\ current = 0 /\ wanted = 0
    /\ effective = 0 /\ requested = 0 /\ stored = 0 /\ inProject = 0 /\ opening = 0
    /\ applying = 0 /\ refused = 0 /\ blurred = 0

NoFolder ==
    /\ activeProject = 0 /\ granted = 0 /\ tree = 0 /\ obstacle = 0 /\ delegated = 0 /\ proposal = 0
    /\ startedIn = 0 /\ picked = 0
NoTab ==
    /\ job = 0 /\ latest = 0 /\ released = 0 /\ tab = 0 /\ stopped = 0 /\ shown = 0 /\ call = 0
    /\ restore = 0 /\ cancelling = 0 /\ loop = 0 /\ timer = 0 /\ refreshed = 0 /\ twice = 0
    /\ unsubmitted = 0 /\ failures = 0

DesktopInit ==
    /\ focus \in {"check", "run", "setup", "list", "project", "bridge", "link", "folder", "tab"}
    /\ \/ focus = "check" /\ Check!QualityCheckInit
       \/ focus # "check" /\ NoCheck
    /\ \/ focus = "run" /\ Run!QualityRunInit
       \/ focus # "run" /\ NoRun
    /\ \/ focus = "setup" /\ Setup!SetupInit
       \/ focus = "list" /\ Lists!SetupInit
       \/ focus \notin {"setup", "list"} /\ NoSetup
    /\ \/ focus = "project" /\ Project!ProjectInit
       \/ focus # "project" /\ NoProject
    /\ \/ focus = "bridge" /\ Bridge!BridgeInit
       \/ focus # "bridge" /\ NoBridge
    /\ \/ focus = "link" /\ Link!LinkInit
       \/ focus # "link" /\ NoLink
    /\ \/ focus = "folder" /\ Folder!DestinationInit
       \/ focus # "folder" /\ NoFolder
    /\ \/ focus = "tab" /\ Tab!TabInit
       \/ focus # "tab" /\ NoTab
    /\ focus \notin {"bridge", "folder"} => desk = 0
    /\ focus \notin {"project", "bridge"} => record = 0
    /\ focus \notin {"project", "tab"} => overlapped = 0
    /\ focus \notin {"project", "bridge", "link", "folder"} => commands = 0
    /\ focus \notin {"run", "project", "bridge", "link", "folder"} => upsets = 0

DesktopNext ==
    /\ UNCHANGED focus
    /\ \/ focus = "check" /\ Check!QualityCheckNext
             /\ UNCHANGED <<runVars, setupVars, projectVars, bridgeVars, linkVars,
                           folderVars, tabVars, desk, record, overlapped, commands,
                           upsets>>
       \/ focus = "run" /\ Run!QualityRunNext
             /\ UNCHANGED <<checkVars, setupVars, projectVars, bridgeVars, linkVars,
                           folderVars, tabVars, desk, record, overlapped, commands>>
       \/ /\ \/ focus = "setup" /\ Setup!SetupNext
             \/ focus = "list" /\ Lists!SetupNext
          /\ UNCHANGED <<checkVars, runVars, projectVars, bridgeVars, linkVars,
                        folderVars, tabVars, desk, record, overlapped, commands,
                        upsets>>
       \/ focus = "project" /\ Project!ProjectNext
             /\ UNCHANGED <<checkVars, runVars, setupVars, bridgeVars, linkVars,
                           folderVars, tabVars, desk>>
       \/ focus = "bridge" /\ Bridge!BridgeNext
             /\ UNCHANGED <<checkVars, runVars, setupVars, projectVars, linkVars,
                           folderVars, tabVars, overlapped>>
       \/ focus = "link" /\ Link!LinkNext
             /\ UNCHANGED <<checkVars, runVars, setupVars, projectVars, bridgeVars,
                           folderVars, tabVars, desk, record, overlapped>>
       \/ focus = "folder" /\ Folder!DestinationNext
             /\ UNCHANGED <<checkVars, runVars, setupVars, projectVars, bridgeVars,
                           linkVars, tabVars, record, overlapped>>
       \/ focus = "tab" /\ Tab!TabNext
             /\ UNCHANGED <<checkVars, runVars, setupVars, projectVars, bridgeVars,
                           linkVars, folderVars, desk, record, commands, upsets>>

DesktopSpec == DesktopInit /\ [][DesktopNext]_vars

\* The configuration gives sets of different modules the same model values, so that
\* there are no more permutations than the module with most of them needs.
Symmetry ==
    Permutations(Ids) \cup Permutations(Callers) \cup Permutations(Folders) \cup Permutations(Names)

--------------------------------------------------------------------------------
(* The properties of the instances, under their own names.                 *)

\* What a valid check promises is what the SQL compiled from it (quality.rs) tells.
OutcomeIsThePromise == focus = "check" => Check!OutcomeIsThePromise

\* A quality run told to be over is in the history and gone from the engine (quality.rs).
ToldRunsAreSettled == focus = "run" => Run!ToldRunsAreSettled

\* What applying a setup reported is what the host holds (agent_setup.rs).
ReportsAreTrue == (focus = "setup" => Setup!ReportsAreTrue) /\ (focus = "list" => Lists!ReportsAreTrue)

\* No setup step changes an entry that is not Tarik's (agent_setup.rs).
ForeignIsKept ==
    [][(focus = "setup" => Setup!KeepsForeign) /\ (focus = "list" => Lists!KeepsForeign)]_setupVars

\* The engine's session is the active project's (projects/mod.rs).
SessionIsActives == focus = "project" => Project!SessionIsActives

\* The record of a project names its file (projects/mod.rs).
RecordFindsData == focus = "project" => Project!RecordFindsData

\* A frame on the client's connection answers what it waits for (tarik-mcp bridge.rs).
AnswersAreAsked == focus = "bridge" => Bridge!AnswersAreAsked

\* A stopped bridge leaves nothing behind (agent_bridge.rs).
StoppedIsQuiet == focus = "bridge" => Bridge!StoppedIsQuiet

\* The engine's sessions are those the manager knows of (engine_manager.rs).
NoSessionLeaks == focus = "link" => Link!NoSessionLeaks

\* The settings in effect are those applied last (engine_resources.rs).
RunsAsRequested == focus = "link" => Link!RunsAsRequested

\* An agent's export starts in the very folder the user delegated (agent_destinations.rs).
StartsWherePicked == focus = "folder" => Folder!StartsWherePicked

\* A tab shows its latest execution and polls no other (useQueryExecution.ts).
TabShowsLatest == focus = "tab" => Tab!TabShowsLatest

================================================================================
