------------------------------- MODULE EngineLink -------------------------------
(***************************************************************************)
(* How the desktop holds on to the engine: the process behind a pipe       *)
(* (engine-client/src/process.rs), the one session of the engine manager   *)
(* (src-tauri/src/engine_manager.rs) with the sessions the engine really   *)
(* has (engines/duckdb/src/session.rs), and the resource settings that are *)
(* requested, in effect and stored (engine_resources.rs).  A request holds *)
(* the lock of the process.  What with_process and session_request do      *)
(* first, start a process and open the session again, is an action each,   *)
(* for that is also all that is left of a request that is then refused;    *)
(* one whose process is lost in the middle leaves what EngineDies leaves.  *)
(* Applying settings takes several requests, and opening a project reads   *)
(* what is wanted before it takes the lock.                                *)
(***************************************************************************)
EXTENDS Naturals, FiniteSets

CONSTANTS
    Paths,          \* of project databases
    Levels,         \* resource settings
    None,
    ProcessLimit,   \* bound: engine processes of a behaviour
    SessionLimit,   \* bound: sessions of a behaviour
    CommandLimit,   \* bound: settings applied, projects opened or closed
    UpsetLimit      \* bound: failures, crashes and restarts

VARIABLES
    process,    \* [number, alive]: the engine process, the last one if it is gone
    held,       \* the sessions it has: records [id, path, level]
    importing,  \* ids of those with an active import
    opened,     \* session ids given out so far
    current,    \* `session`: [id, path, process], or None
    wanted,     \* `requested_resources` of the engine manager
    effective,  \* `effective_resources`, or None
    requested,  \* `requested` of the resource manager
    stored,     \* the settings in the metadata database
    inProject,  \* a project is active
    opening,    \* open_path: its step, path and the settings it read
    applying,   \* apply: its step, the settings, the previous ones, and whether connected
    commands, upsets,
    refused,    \* history: sessions the engine would not close, for their import
    blurred     \* history: settings and an opening overlapped, or could not be undone

settings == <<wanted, effective, requested, stored>>
sessions == <<process, held, importing, opened, current>>
linkVars == <<sessions, settings, inProject, opening, applying, commands, upsets, refused, blurred>>

NotOpening == [at |-> "none", path |-> None, level |-> None]
NotApplying == [at |-> "none", level |-> None, previous |-> None, connected |-> FALSE]
Upset == upsets < UpsetLimit /\ upsets' = upsets + 1
Calm == UNCHANGED upsets
Command == commands < CommandLimit /\ commands' = commands + 1
Of(id) == {s \in held : s.id = id}
Set(id, level) == {IF s.id = id THEN [s EXCEPT !.level = level] ELSE s : s \in held}
\* status(): "connected".
Connected == process.alive /\ current # None /\ current.process = process.number

LinkTypeOK ==
    /\ process \in [number : 0..ProcessLimit, alive : BOOLEAN]
    /\ held \subseteq [id : 1..SessionLimit, path : Paths, level : Levels \cup {"mixed"}]
    /\ importing \subseteq {s.id : s \in held} /\ opened \in 0..SessionLimit
    /\ current \in [id : 1..SessionLimit, path : Paths, process : 1..ProcessLimit] \cup {None}
    /\ {wanted, requested, stored} \subseteq Levels /\ effective \in Levels \cup {None}
    /\ {inProject, blurred} \subseteq BOOLEAN /\ refused \subseteq 1..SessionLimit

LinkInit ==
    /\ process = [number |-> 0, alive |-> FALSE] /\ held = {} /\ importing = {} /\ opened = 0
    /\ current = None /\ effective = None
    /\ stored \in Levels /\ requested = stored /\ wanted = stored
    /\ inProject = FALSE /\ opening = NotOpening /\ applying = NotApplying
    /\ commands = 0 /\ upsets = 0 /\ refused = {} /\ blurred = FALSE

--------------------------------------------------------------------------------
(* The process and its sessions.                                           *)

\* with_process: a lost process is replaced; the new one has no session.
StartProcess ==
    /\ ~process.alive /\ process.number < ProcessLimit
    /\ process' = [number |-> process.number + 1, alive |-> TRUE]
    /\ UNCHANGED <<held, importing, opened, current, settings, inProject, opening, applying, commands, upsets, refused, blurred>>

\* It exits, or closes its pipe: whatever waits for an answer fails, and it is dropped.
EngineDies ==
    /\ process.alive /\ Upset
    /\ process' = [process EXCEPT !.alive = FALSE] /\ held' = {} /\ importing' = {}
    /\ UNCHANGED <<opened, current, settings, inProject, opening, applying, commands, refused, blurred>>

\* session.open, and what the manager notes of it.
Opens(others, path, level) ==
    /\ process.alive /\ opened < SessionLimit /\ opened' = opened + 1
    /\ held' = others \cup {[id |-> opened', path |-> path, level |-> level]}
    /\ current' = [id |-> opened', path |-> path, process |-> process.number]
    /\ effective' = level

\* session_request: a session of another process is opened again; if the engine cannot,
\* the request fails and a later one tries again.
ReopenLevel == wanted
Reopen ==
    /\ current # None /\ current.process # process.number
    /\ Opens(held, current.path, ReopenLevel)
    /\ blurred' = (blurred \/ applying.at # "none")
    /\ UNCHANGED <<process, importing, wanted, requested, stored, inProject, opening, applying, commands, upsets, refused>>

\* open_path, under the projects' lock: open_session reads the settings ...
Open(path) ==
    /\ Command /\ opening.at = "none" /\ ~inProject
    /\ opening' = [at |-> "open", path |-> path, level |-> wanted]
    /\ UNCHANGED <<sessions, settings, inProject, applying, upsets, refused, blurred>>

\* ... and closes the session it has in this process before it opens one.  When opening
\* then fails, `current` stays what it was, a session the engine does not have any more.
NothingBefore == {}                            \* mutant: opened beside the one before
Before == IF Connected THEN {current.id} ELSE {}
Closes == \A id \in Before : Of(id) # {} /\ id \notin importing
OpenSession ==
    /\ opening.at = "open"
    /\ \/ /\ Closes /\ Calm
          /\ Opens({s \in held : s.id \notin Before}, opening.path, opening.level)
          /\ opening' = [opening EXCEPT !.at = "record"]
       \/ /\ Closes /\ process.alive /\ Upset
          /\ held' = {s \in held : s.id \notin Before}
          /\ opening' = NotOpening /\ UNCHANGED <<opened, current, effective>>
       \/ /\ IF Closes /\ process.alive THEN Upset ELSE Calm
          /\ opening' = NotOpening /\ UNCHANGED <<held, opened, current, effective>>
    /\ UNCHANGED <<process, importing, wanted, requested, stored, inProject, applying, commands, refused, blurred>>

\* The project becomes active, or its record fails and the session stays open.
RecordProject ==
    /\ opening.at = "record" /\ opening' = NotOpening
    /\ \/ inProject' = TRUE /\ Calm
       \/ Upset /\ UNCHANGED inProject
    /\ blurred' = (blurred \/ wanted # opening.level \/ applying.at # "none")
    /\ UNCHANGED <<sessions, settings, applying, commands, refused>>

\* close_session forgets the session before it asks the engine, which refuses while an
\* import is active; the project stays active then.
CloseSession ==
    /\ Command /\ opening.at = "none" /\ inProject
    /\ current' = None /\ effective' = None
    /\ IF Connected /\ ~Closes
       THEN refused' = refused \cup {current.id} /\ UNCHANGED <<held, inProject>>
       ELSE /\ held' = (IF Connected THEN held \ Of(current.id) ELSE held)
            /\ inProject' = FALSE /\ UNCHANGED refused
    /\ UNCHANGED <<process, importing, opened, wanted, requested, stored, opening, applying, upsets, blurred>>

\* import.execute; an import ends by itself.
StartImport ==
    /\ Connected /\ Of(current.id) # {} /\ current.id \notin importing
    /\ importing' = importing \cup {current.id}
    /\ UNCHANGED <<process, held, opened, current, settings, inProject, opening, applying, commands, upsets, refused, blurred>>
EndImport(id) ==
    /\ id \in importing /\ importing' = importing \ {id}
    /\ UNCHANGED <<process, held, opened, current, settings, inProject, opening, applying, commands, upsets, refused, blurred>>

--------------------------------------------------------------------------------
(* Applying settings, by one thread at a time.                             *)

\* set_engine_resources, with nothing active in the coordinators.
Apply(level) ==
    /\ Command /\ applying.at = "none"
    /\ applying' = [at |-> IF inProject /\ Connected THEN "configure" ELSE "want", level |-> level,
                    previous |-> requested, connected |-> inProject /\ Connected]
    /\ blurred' = (blurred \/ opening.at # "none")
    /\ UNCHANGED <<sessions, settings, inProject, opening, upsets, refused>>

At(step) == applying.at = step
Goes(step) == applying' = [applying EXCEPT !.at = step]
Target == IF At("restore") \/ At("note back") THEN applying.previous ELSE applying.level

\* session.configure sets the connection, which reads back what it was set to; an error
\* puts the previous settings back.  On an error, apply ends.
Configure ==
    /\ At("configure") \/ At("restore")
    /\ \/ /\ Connected /\ Closes
          /\ held' = Set(current.id, Target)
          /\ Goes(IF At("configure") THEN "note" ELSE "note back")
          /\ Calm /\ UNCHANGED blurred
       \/ /\ IF Connected /\ Closes THEN Upset ELSE Calm
          /\ applying' = NotApplying
          /\ blurred' = (blurred \/ At("restore"))
          /\ UNCHANGED held
       \/ /\ upsets + 2 <= UpsetLimit /\ upsets' = upsets + 2 /\ Connected /\ Closes
          /\ held' = Set(current.id, "mixed")
          /\ applying' = NotApplying /\ blurred' = TRUE
    /\ UNCHANGED <<process, importing, opened, current, settings, inProject, opening, commands, refused>>

\* ... and, the process unlocked, the manager notes what is wanted and in effect.
Note ==
    /\ At("note") \/ At("note back")
    /\ wanted' = Target /\ effective' = Target
    /\ IF At("note") THEN Goes("store") ELSE applying' = NotApplying
    /\ UNCHANGED <<sessions, requested, stored, inProject, opening, commands, upsets, refused, blurred>>

\* set_requested_resources, without a session.
Want ==
    /\ At("want")
    /\ wanted' = applying.level /\ Goes("store")
    /\ UNCHANGED <<sessions, effective, requested, stored, inProject, opening, commands, upsets, refused, blurred>>

\* Settings that could not be stored are taken back.
NotTakenBack == /\ applying' = NotApplying /\ UNCHANGED wanted    \* mutant: only the error is told
TakenBack ==
    IF applying.connected THEN Goes("restore") /\ UNCHANGED wanted
    ELSE wanted' = applying.previous /\ applying' = NotApplying
Store ==
    /\ At("store")
    /\ \/ stored' = applying.level /\ Goes("finish") /\ Calm /\ UNCHANGED wanted
       \/ Upset /\ TakenBack /\ UNCHANGED stored
    /\ UNCHANGED <<sessions, effective, requested, inProject, opening, commands, refused, blurred>>

Finish ==
    /\ At("finish")
    /\ requested' = applying.level /\ applying' = NotApplying
    /\ UNCHANGED <<sessions, wanted, effective, stored, inProject, opening, commands, upsets, refused, blurred>>

\* The application is closed or killed, and started again.
Restart ==
    /\ Upset
    /\ process' = [process EXCEPT !.alive = FALSE] /\ held' = {} /\ importing' = {}
    /\ current' = None /\ effective' = None
    /\ wanted' = stored /\ requested' = stored
    /\ inProject' = FALSE /\ opening' = NotOpening /\ applying' = NotApplying /\ blurred' = FALSE
    /\ UNCHANGED <<opened, stored, commands, refused>>

LinkNext ==
    \/ StartProcess \/ EngineDies \/ Reopen
    \/ \E p \in Paths : Open(p)
    \/ OpenSession \/ RecordProject \/ CloseSession
    \/ StartImport \/ \E id \in importing : EndImport(id)
    \/ \E l \in Levels : Apply(l)
    \/ Configure \/ Note \/ Want \/ Store \/ Finish
    \/ Restart

LinkSpec == LinkInit /\ [][LinkNext]_linkVars

--------------------------------------------------------------------------------
(* Properties.                                                             *)

\* A session the engine has is the one the manager uses, or one the engine would not
\* close for its import: sessions, each with a DuckDB connection and a locked file, are
\* not left behind by projects that are opened, closed and opened again after a crash.
NoSessionLeaks ==
    \A s \in held : s.id \in refused \/ (Connected /\ s.id = current.id)

\* With nothing under way, the settings a project's session runs with are the ones the
\* user last applied, those that were stored and those told to be in effect, also after
\* a lost process, a failed apply or a restart.
RunsAsRequested ==
    applying.at = "none" /\ opening.at = "none" /\ ~blurred =>
        /\ wanted = requested /\ requested = stored
        /\ inProject /\ Connected /\ current # None =>
              effective = requested /\ \A s \in Of(current.id) : s.level = requested
================================================================================
