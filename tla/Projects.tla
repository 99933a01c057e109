-------------------------------- MODULE Projects --------------------------------
(***************************************************************************)
(* Projects of the desktop, projects/mod.rs: the recent projects in the    *)
(* metadata database, the files they name, the active project and the      *)
(* session of the engine manager.  The commands run on a thread pool, so   *)
(* two of them overlap: `agenda` holds the steps a thread has yet to take, *)
(* `lock` is the lock of the active project, held while a project is       *)
(* opened or closed.  A managed project lives in a folder of its own under *)
(* one of two file names; an external one is a file the user chose.        *)
(***************************************************************************)
EXTENDS Naturals, Sequences, FiniteSets

CONSTANTS
    Ids,            \* of records
    Callers,        \* threads that run a command
    Folders, Names, \* of managed projects; a path is a folder and a name
    None,
    CommandLimit,   \* bound: commands of a behaviour
    UpsetLimit      \* bound: failures, engine deaths and restarts of a behaviour

Paths == Folders \X Names
Nowhere == <<None, None>>
Contents == Ids \cup {None, "empty"}            \* whose data a file holds

VARIABLES
    record,     \* `projects`: of each id its path, whether managed, and whether there
    file,       \* of each path: the data there, None if there is no file
    staged,     \* of each id: the files in `.deleting/<id>`, by name, or None
    active,     \* the active project: id and path
    session,    \* `session`: the path the engine is asked to have open, or Nowhere
    connected,  \* the engine process runs and has the session
    lock,       \* the thread that holds the lock of `active`, or None
    agenda,     \* of each thread
    commands, upsets,
    overlapped, \* a command on a project began during another one on it
    born,       \* ids whose data was there once
    accident    \* a restart or a failed rollback left files and records apart

stored == <<record, file, staged>>
engine == <<session, connected>>
counts == <<commands, upsets>>
projectVars == <<stored, active, engine, lock, agenda, counts, overlapped, born, accident>>

NoRecord == [there |-> FALSE, path |-> Nowhere, managed |-> FALSE]
NoProject == [id |-> None, path |-> Nowhere]
Step(do, id, path) == [do |-> do, id |-> id, path |-> path, to |-> Nowhere]
To(do, id, path, to) == [do |-> do, id |-> id, path |-> path, to |-> to]
Idle(t) == agenda[t] = <<>>
Now(t) == Head(agenda[t])
Doing(t, do) == ~Idle(t) /\ Now(t).do = do
Then(t, steps) == agenda' = [agenda EXCEPT ![t] = steps \o Tail(@)]
Begin(t, steps) == agenda' = [agenda EXCEPT ![t] = steps]
Ends(t) == agenda' = [agenda EXCEPT ![t] = <<>>]
Upset == upsets < UpsetLimit /\ upsets' = upsets + 1
Calm == UNCHANGED upsets
Command(t) == Idle(t) /\ commands < CommandLimit /\ commands' = commands + 1
CommandOn(t, i) ==
    /\ Command(t) /\ record[i].there
    /\ overlapped' = (overlapped \/ \E c \in Callers : ~Idle(c) /\ Now(c).id = i)

ProjectTypeOK ==
    /\ \A i \in Ids : record[i].there \in BOOLEAN /\ record[i].path \in Paths \cup {Nowhere}
    /\ file \in [Paths -> Contents] /\ active.id \in Ids \cup {None} /\ active.path \in Paths \cup {Nowhere}
    /\ session \in Paths \cup {Nowhere} /\ connected \in BOOLEAN /\ lock \in Callers \cup {None}
    /\ {overlapped, accident} \subseteq BOOLEAN

\* One project is known, with its data; the other folder is for a new one.
ProjectInit ==
    \E i \in Ids, p \in Paths, managed \in BOOLEAN :
        /\ record = [j \in Ids |-> IF j = i THEN [there |-> TRUE, path |-> p, managed |-> managed] ELSE NoRecord]
        /\ file = [q \in Paths |-> IF q = p THEN i ELSE None]
        /\ staged = [j \in Ids |-> None]
        /\ active = NoProject /\ session = Nowhere /\ connected = FALSE
        /\ lock = None /\ agenda = [t \in Callers |-> <<>>]
        /\ commands = 0 /\ upsets = 0 /\ overlapped = FALSE /\ born = {i} /\ accident = FALSE

Known(p) == {i \in Ids : record[i].there /\ record[i].path = p}
\* DuckDB creates the file it is asked to open.
Opened(p) == [file EXCEPT ![p] = IF @ = None THEN "empty" ELSE @]
FolderGone(f) == [p \in Paths |-> IF p[1] = f THEN None ELSE file[p]]
InFolder(f) == [n \in Names |-> file[<<f, n>>]]

--------------------------------------------------------------------------------
(* Opening and closing.                                                    *)

\* create, in a folder nobody used; reopen, and open, of a path found in its record.
Create(t, f) ==
    /\ Command(t) /\ \A n \in Names : file[<<f, n>>] = None
    /\ \A i \in Ids : record[i].path[1] # f /\ staged[i] = None
    /\ f \notin {Now(c).path[1] : c \in {d \in Callers : ~Idle(d)}}
    /\ \E n \in Names : Begin(t, <<Step("open new", None, <<f, n>>)>>)
    /\ UNCHANGED <<stored, active, engine, lock, upsets, overlapped, born, accident>>
Reopen(t, i) ==
    /\ CommandOn(t, i)
    /\ Begin(t, <<Step("open", i, record[i].path)>>)
    /\ UNCHANGED <<stored, active, engine, lock, upsets, born, accident>>

Opens(t) == Doing(t, "open") \/ Doing(t, "open new")
Undone(t) == file' = IF Doing(t, "open new") THEN FolderGone(Now(t).path[1]) ELSE file

NeverOpen == FALSE                              \* mutant: opened over an active project
AlreadyOpen == active # NoProject
\* open_path: the lock, then the session; open_session closes the one before.
Open(t) ==
    /\ Opens(t) /\ lock = None
    /\ IF AlreadyOpen
       THEN Ends(t) /\ Undone(t) /\ Calm /\ UNCHANGED <<engine, lock>>
       ELSE \/ /\ session' = Now(t).path /\ connected' = TRUE /\ file' = Opened(Now(t).path)
               /\ lock' = t /\ agenda' = [agenda EXCEPT ![t][1].do = IF @ = "open" THEN "record" ELSE "record new"]
               /\ Calm
            \/ Upset /\ Undone(t) /\ Ends(t) /\ UNCHANGED <<engine, lock>>
    /\ UNCHANGED <<record, staged, active, commands, overlapped, born, accident>>

\* ... then the record of that path, the health of its sources, and the active project.
\* An error leaves the session open and, after the record, the record.
Upsert(p) == IF Known(p) # {} THEN Known(p) ELSE {i \in Ids : ~record[i].there /\ i \notin born}
Recorded(i, p, new) ==
    record' = [record EXCEPT ![i] = [there |-> TRUE, path |-> p, managed |-> new \/ @.managed]]
Record(t) ==
    /\ Doing(t, "record") \/ Doing(t, "record new")
    /\ LET new == Doing(t, "record new")
           p == Now(t).path
           emptied == IF new THEN FolderGone(p[1]) ELSE file
       IN  \/ \E i \in Upsert(p) :
                /\ Recorded(i, p, new)
                /\ \/ /\ active' = [id |-> i, path |-> p] /\ Calm
                      /\ born' = (IF file[p] = "empty" THEN born \cup {i} ELSE born)
                      /\ file' = [file EXCEPT ![p] = IF @ = "empty" /\ i \notin born THEN i ELSE @]
                   \/ Upset /\ file' = emptied /\ UNCHANGED <<active, born>>
           \/ Upset /\ file' = emptied /\ UNCHANGED <<record, active, born>>
    /\ lock' = None /\ Ends(t)
    /\ UNCHANGED <<staged, engine, commands, overlapped, accident>>

\* close: an error of the engine has taken the session, the project stays active.
CloseProject(t) == Command(t) /\ Begin(t, <<Step("close", None, Nowhere)>>)
                   /\ UNCHANGED <<stored, active, engine, lock, upsets, overlapped, born, accident>>
Close(t) ==
    /\ Doing(t, "close") /\ lock = None
    /\ IF active = NoProject THEN Then(t, <<>>) /\ Calm /\ UNCHANGED <<active, engine>>
       ELSE \/ session' = Nowhere /\ connected' = FALSE /\ active' = NoProject /\ Then(t, <<>>) /\ Calm
            \/ Upset /\ session' = Nowhere /\ connected' = FALSE /\ Ends(t) /\ UNCHANGED active
    /\ UNCHANGED <<stored, lock, commands, overlapped, born, accident>>

\* close_if_active looks, and closes whatever is active by then.
CheckActive(t) ==
    /\ Doing(t, "check") /\ lock = None
    /\ Then(t, IF active.id = Now(t).id THEN <<Step("close", Now(t).id, Nowhere)>> ELSE <<>>)
    /\ UNCHANGED <<stored, active, engine, lock, counts, overlapped, born, accident>>

--------------------------------------------------------------------------------
(* Rename: the file, then the record; an error of the record undoes both.  *)

Rename(t, i) ==
    /\ CommandOn(t, i)
    /\ LET p == record[i].path
       IN  IF record[i].managed
           THEN \E n \in Names : Begin(t, <<Step("check", i, p), To("move", i, p, <<p[1], n>>)>>)
           ELSE Begin(t, <<Step("check", i, p), To("update", i, p, p)>>)
    /\ UNCHANGED <<stored, active, engine, lock, upsets, born, accident>>

Moved(p, q) == [file EXCEPT ![q] = file[p], ![p] = None]
Move(t) ==
    /\ Doing(t, "move")
    /\ LET p == Now(t).path
           q == Now(t).to
       IN  \/ p # q /\ file[q] = None /\ file[p] # None /\ file' = Moved(p, q)
              /\ Then(t, <<[Now(t) EXCEPT !.do = "update"]>>) /\ Calm
           \/ p = q /\ Then(t, <<[Now(t) EXCEPT !.do = "update"]>>) /\ Calm /\ UNCHANGED file
           \/ p # q /\ (file[q] # None \/ file[p] = None) /\ Ends(t) /\ Calm /\ UNCHANGED file
           \/ p # q /\ Upset /\ Ends(t) /\ UNCHANGED file
    /\ UNCHANGED <<record, staged, active, engine, lock, commands, overlapped, born, accident>>

LeftMoved(p, q) == file                         \* mutant: the file keeps its new name
MovedBack(p, q) == IF p = q THEN file ELSE Moved(q, p)
Update(t) ==
    /\ Doing(t, "update")
    /\ LET i == Now(t).id
           p == Now(t).path
           q == Now(t).to
       IN  \/ /\ Known(q) \subseteq {i} /\ Calm
              /\ record' = (IF record[i].there THEN [record EXCEPT ![i].path = q] ELSE record)
              /\ UNCHANGED <<file, accident>>
           \/ /\ IF Known(q) \subseteq {i} THEN Upset ELSE Calm
              /\ UNCHANGED record
              /\ IF file[q] # None THEN file' = MovedBack(p, q) /\ UNCHANGED accident
                 ELSE accident' = TRUE /\ UNCHANGED file
           \/ upsets + 2 <= UpsetLimit /\ upsets' = upsets + 2 /\ p # q
              /\ accident' = TRUE /\ UNCHANGED <<record, file>>
    /\ Ends(t)
    /\ UNCHANGED <<staged, active, engine, lock, commands, overlapped, born>>

--------------------------------------------------------------------------------
(* Remove: the folder is set aside, the record deleted, then the folder.   *)

Remove(t, i) ==
    /\ CommandOn(t, i)
    /\ LET p == record[i].path
       IN  Begin(t, IF record[i].managed THEN <<Step("check", i, p), Step("stage", i, p)>>
                    ELSE <<Step("check", i, p), Step("forget", i, p)>>)
    /\ UNCHANGED <<stored, active, engine, lock, upsets, born, accident>>

HasFolder(f) == \E n \in Names : file[<<f, n>>] # None
Stage(t) ==
    /\ Doing(t, "stage")
    /\ LET i == Now(t).id
           f == Now(t).path[1]
       IN  \/ /\ staged[i] = None /\ HasFolder(f) /\ Calm
              /\ staged' = [staged EXCEPT ![i] = InFolder(f)] /\ file' = FolderGone(f)
              /\ Then(t, <<Step("forget staged", i, Now(t).path)>>)
           \/ /\ IF staged[i] # None \/ ~HasFolder(f) THEN Calm ELSE Upset
              /\ Ends(t) /\ UNCHANGED <<staged, file>>
    /\ UNCHANGED <<record, active, engine, lock, commands, overlapped, born, accident>>

PutBack(i, f) == [p \in Paths |-> IF p[1] = f THEN staged[i][p[2]] ELSE file[p]]
Forget(t) ==
    /\ Doing(t, "forget") \/ Doing(t, "forget staged")
    /\ LET i == Now(t).id
           f == Now(t).path[1]
       IN  \/ /\ record' = [record EXCEPT ![i] = NoRecord] /\ Calm
              /\ Then(t, IF Doing(t, "forget staged") THEN <<Step("delete", i, Now(t).path)>> ELSE <<>>)
              /\ UNCHANGED <<file, staged, accident>>
           \/ /\ Upset /\ Ends(t) /\ UNCHANGED record
              /\ IF Doing(t, "forget") THEN UNCHANGED <<file, staged, accident>>
                 ELSE IF HasFolder(f) THEN accident' = TRUE /\ UNCHANGED <<file, staged>>
                 ELSE file' = PutBack(i, f) /\ staged' = [staged EXCEPT ![i] = None] /\ UNCHANGED accident
    /\ UNCHANGED <<active, engine, lock, commands, overlapped, born>>

DeleteStaged(t) ==
    /\ Doing(t, "delete") /\ Ends(t)
    /\ \/ staged' = [staged EXCEPT ![Now(t).id] = None] /\ Calm
       \/ Upset /\ UNCHANGED staged
    /\ UNCHANGED <<record, file, active, engine, lock, commands, overlapped, born, accident>>

--------------------------------------------------------------------------------
(* The engine, and a restart.                                              *)

\* session_request opens the session again in the process that took over.
Reconnect ==
    /\ session # Nowhere /\ ~connected /\ connected' = TRUE /\ file' = Opened(session)
    /\ UNCHANGED <<record, staged, active, session, lock, agenda, counts, overlapped, born, accident>>

EngineDies ==
    /\ connected /\ Upset /\ connected' = FALSE
    /\ UNCHANGED <<stored, active, session, lock, agenda, commands, overlapped, born, accident>>

Restart ==
    /\ Upset /\ accident' = (accident \/ \E t \in Callers : ~Idle(t))
    /\ active' = NoProject /\ session' = Nowhere /\ connected' = FALSE /\ lock' = None
    /\ agenda' = [t \in Callers |-> <<>>]
    /\ UNCHANGED <<stored, commands, overlapped, born>>

ProjectNext ==
    \/ \E t \in Callers, f \in Folders : Create(t, f)
    \/ \E t \in Callers, i \in Ids : Reopen(t, i) \/ Rename(t, i) \/ Remove(t, i)
    \/ \E t \in Callers : CloseProject(t) \/ Open(t) \/ Record(t) \/ Close(t) \/ CheckActive(t)
                          \/ Move(t) \/ Update(t) \/ Stage(t) \/ Forget(t) \/ DeleteStaged(t)
    \/ Reconnect \/ EngineDies \/ Restart

ProjectSpec == ProjectInit /\ [][ProjectNext]_projectVars

--------------------------------------------------------------------------------
(* Properties.                                                             *)

\* With the lock free, the engine works on the file of the active project or on none,
\* whatever commands overlapped and whatever failed.
SessionIsActives ==
    lock = None /\ active # NoProject /\ session # Nowhere => session = active.path

\* The data of a project that is still known is somewhere, across failures, restarts and
\* commands on other projects; two commands that overlap on one project can lose it.
DataKept ==
    ~overlapped => \A i \in born : record[i].there =>
                  \/ \E p \in Paths : file[p] = i
                  \/ \E j \in Ids : staged[j] # None /\ \E n \in Names : staged[j][n] = i

\* With no command under way the record names the file with the data, unless two commands
\* on one project overlapped, a restart cut one short or undoing one failed.
RecordFindsData ==
    ~overlapped /\ ~accident /\ (\A t \in Callers : Idle(t)) =>
        \A i \in born : record[i].there => file[record[i].path] = i
================================================================================
