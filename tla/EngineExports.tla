----------------------------- MODULE EngineExports -----------------------------
(***************************************************************************)
(* The export jobs of the DuckDB sidecar: engines/duckdb/src/              *)
(* export_jobs.rs driving the part writer of export.rs, with the export    *)
(* and session arms of the dispatch loop in main.rs.                       *)
(*                                                                         *)
(* As in EngineJobs a worker thread is named after the export whose        *)
(* submission spawned it, and each lock section or visible file-system     *)
(* effect is one action.  How one part replaces a file is ExportParts;     *)
(* here a part is a number of rows that becomes visible at once.           *)
(***************************************************************************)
EXTENDS WaitingLine, FiniteSets

CONSTANTS
    Exports,        \* export ids (fresh UUIDs); also the names of the workers
    Sessions,       \* session ids
    NoExport,       \* "no export" in a queue, a thread or the dispatcher
    NoSession,      \* owner of an id that was never submitted
    ExportLimit,    \* TERMINAL_EXPORT_LIMIT
    RowsPerPart,    \* `rows_per_part`
    Footer,         \* bytes a part grows by when its writer closes
    Budget,         \* `maximum_total_bytes`, a row being one byte
    MaxRows         \* bound: rows of an exported statement

VARIABLES
    open,           \* sessions that hold a connection
    state,          \* `exports[id].state`; a pruned record keeps its last value
    kept,           \* ids with a record in `exports`
    owner,          \* `exports[id].session_id`
    conn,           \* ids whose record holds its connection and options
    cancelled,      \* ids with `cancel_requested`
    armed,          \* ids with an interrupt handle installed
    fired,          \* ids whose handle was interrupted
    terminalOrder,  \* `terminal_order`
    rows,           \* `exports[id].rows_written`
    completed,      \* `exports[id].completed_rows`
    files,          \* `exports[id].files_written`
    pending,        \* `queues[s].pending`
    running,        \* `queues[s].running`
    alive,          \* sessions with `queues[s].worker_alive`
    pc,             \* where each worker thread is
    home,           \* the session a worker thread serves
    claim,          \* the export a worker thread holds
    inPart,         \* rows in the part being written (`current_rows`)
    ended,          \* threads whose record-batch stream is exhausted
    verdict,        \* the terminal state about to be recorded
    staged,         \* ids with a hidden stage file on disk
    published,      \* rows of each export visible under canonical names
    parts,          \* files of each export visible under canonical names
    closing,        \* the session `session.close` is working on, or NoSession
    toCancel,       \* ids `cancel_session` still has to cancel
    remembering     \* id the dispatch thread is about to push, or NoExport

records == <<state, kept, owner, conn, cancelled, armed, fired>>
progress == <<rows, completed, files>>
queues == <<pending, running, alive>>
writer == <<inPart, ended, verdict>>
disk == <<staged, published, parts>>
dispatcher == <<closing, toCancel, remembering>>
vars == <<open, records, terminalOrder, progress, queues, pc, home, claim,
          writer, disk, dispatcher>>

TerminalStates == {"succeeded", "failed", "cancelled"}
States == {"absent", "queued", "running"} \cup TerminalStates
Points == {"none", "loop", "arm", "prior", "batch", "slice", "publish", "summary",
           "check", "finish", "drop", "judge", "mark", "remember"}

Terminal(e) == state[e] \in TerminalStates
Active(e) == state[e] \in {"queued", "running"}
DispatchIdle == closing = NoSession /\ remembering = NoExport
Bytes(r, n) == r + Footer * n

TypeOK ==
    /\ open \subseteq Sessions
    /\ state \in [Exports -> States]
    /\ kept \subseteq Exports /\ conn \subseteq Exports
    /\ owner \in [Exports -> Sessions \cup {NoSession}]
    /\ cancelled \subseteq Exports /\ armed \subseteq Exports /\ fired \subseteq Exports
    /\ terminalOrder \in Seq(Exports)
    /\ rows \in [Exports -> 0..MaxRows] /\ completed \in [Exports -> 0..MaxRows]
    /\ files \in [Exports -> 0..MaxRows]
    /\ pending \in [Sessions -> Seq(Exports)]
    /\ running \in [Sessions -> Exports \cup {NoExport}]
    /\ alive \subseteq Sessions
    /\ pc \in [Exports -> Points]
    /\ home \in [Exports -> Sessions \cup {NoSession}]
    /\ claim \in [Exports -> Exports \cup {NoExport}]
    /\ inPart \in [Exports -> 0..RowsPerPart]
    /\ ended \subseteq Exports
    /\ verdict \in [Exports -> TerminalStates \cup {"none"}]
    /\ staged \subseteq Exports
    /\ published \in [Exports -> 0..MaxRows] /\ parts \in [Exports -> 0..MaxRows]
    /\ closing \in Sessions \cup {NoSession}
    /\ toCancel \subseteq Exports
    /\ remembering \in Exports \cup {NoExport}

Init ==
    /\ open = {} /\ kept = {} /\ conn = {} /\ cancelled = {} /\ armed = {} /\ fired = {}
    /\ state = [e \in Exports |-> "absent"]
    /\ owner = [e \in Exports |-> NoSession]
    /\ terminalOrder = <<>>
    /\ rows = [e \in Exports |-> 0] /\ completed = rows /\ files = rows
    /\ pending = [s \in Sessions |-> <<>>]
    /\ running = [s \in Sessions |-> NoExport]
    /\ alive = {}
    /\ pc = [t \in Exports |-> "none"]
    /\ home = [t \in Exports |-> NoSession]
    /\ claim = [t \in Exports |-> NoExport]
    /\ inPart = [t \in Exports |-> 0]
    /\ ended = {}
    /\ verdict = [t \in Exports |-> "none"]
    /\ staged = {} /\ published = rows /\ parts = rows
    /\ closing = NoSession /\ toCancel = {} /\ remembering = NoExport

--------------------------------------------------------------------------------
(* Requests, served by the single dispatch thread.                         *)

\* session.open: replaces a session of the same id; a failed open leaves none.
OpenSession(s) ==
    /\ DispatchIdle
    /\ open' \in {open \cup {s}, open \ {s}}
    /\ UNCHANGED <<records, terminalOrder, progress, queues, pc, home, claim,
                   writer, disk, dispatcher>>

\* `!queue.worker_alive`
SpawnsWorker(s) == s \notin alive

\* The new export joins the back of its session's line.
EnqueuedInFront(line, e) == <<e>> \o line      \* mutant: push_front
Enqueued(line, e) == Append(line, e)

\* export.execute: the session's connection is cloned at admission.  When the
\* worker cannot be spawned everything is rolled back, so nothing has changed.
Execute(e, s) ==
    /\ DispatchIdle
    /\ s \in open
    /\ owner[e] = NoSession
    /\ state' = [state EXCEPT ![e] = "queued"]
    /\ kept' = kept \cup {e}
    /\ owner' = [owner EXCEPT ![e] = s]
    /\ conn' = conn \cup {e}
    /\ pending' = [pending EXCEPT ![s] = Enqueued(@, e)]
    /\ alive' = alive \cup {s}
    /\ \/ /\ SpawnsWorker(s)
          /\ pc' = [pc EXCEPT ![e] = "loop"]
          /\ home' = [home EXCEPT ![e] = s]
       \/ ~SpawnsWorker(s) /\ UNCHANGED <<pc, home>>
    /\ UNCHANGED <<open, cancelled, armed, fired, terminalOrder, progress, running,
                   claim, writer, disk, dispatcher>>

\* A queued export: its connection is dropped with its place in the line.
CancelQueued(e) ==
    /\ cancelled' = cancelled \cup {e}
    /\ state' = [state EXCEPT ![e] = "cancelled"]
    /\ conn' = conn \ {e}
    /\ pending' = [pending EXCEPT ![owner[e]] = Without(@, e)]

\* The first lock section of `cancel`; a queued export is pushed to the history
\* in a second one.
CancelExport(e) ==
    \/ /\ e \in kept /\ state[e] = "queued"
       /\ CancelQueued(e)
       /\ remembering' = e
       /\ UNCHANGED fired
    \/ /\ e \in kept /\ state[e] = "running"
       /\ cancelled' = cancelled \cup {e}
       /\ fired' = IF e \in armed THEN fired \cup {e} ELSE fired
       /\ UNCHANGED <<state, conn, pending, remembering>>
    \/ /\ e \notin kept \/ Terminal(e)
       /\ UNCHANGED <<state, conn, pending, cancelled, fired, remembering>>

\* export.cancel
Cancel(e) ==
    /\ DispatchIdle
    /\ CancelExport(e)
    /\ UNCHANGED <<open, kept, owner, armed, terminalOrder, progress, running, alive,
                   pc, home, claim, writer, disk, closing, toCancel>>

\* The exports `cancel_session` collects.
SessionExports(s) == {e \in kept : owner[e] = s}

\* session.close collects the session's exports, cancels them one by one, and
\* drops the session's connection.
CloseBegin(s) ==
    /\ DispatchIdle
    /\ closing' = s
    /\ toCancel' = SessionExports(s)
    /\ UNCHANGED <<open, records, terminalOrder, progress, queues, pc, home, claim,
                   writer, disk, remembering>>

CloseCancelOne(e) ==
    /\ e \in toCancel
    /\ remembering = NoExport
    /\ toCancel' = toCancel \ {e}
    /\ CancelExport(e)
    /\ UNCHANGED <<open, kept, owner, armed, terminalOrder, progress, running, alive,
                   pc, home, claim, writer, disk, closing>>

CloseEnd(s) ==
    /\ closing = s
    /\ toCancel = {} /\ remembering = NoExport
    /\ open' = open \ {s}
    /\ closing' = NoSession
    /\ UNCHANGED <<records, terminalOrder, progress, queues, pc, home, claim,
                   writer, disk, toCancel, remembering>>

\* remember_terminal: push, then drop the oldest records beyond the limit.
Excess(order) == IF Len(order) > ExportLimit THEN Len(order) - ExportLimit ELSE 0

Remember(e) ==
    LET order == IF e \in Waiting(terminalOrder)
                 THEN terminalOrder ELSE Append(terminalOrder, e)
        n == Excess(order)
    IN  /\ terminalOrder' = SubSeq(order, n + 1, Len(order))
        /\ kept' = kept \ {order[i] : i \in 1..n}

\* The second lock section of `cancel`.
RememberCancelled ==
    /\ remembering # NoExport
    /\ Remember(remembering)
    /\ remembering' = NoExport
    /\ UNCHANGED <<open, state, owner, conn, cancelled, armed, fired, progress, queues,
                   pc, home, claim, writer, disk, closing, toCancel>>

--------------------------------------------------------------------------------
(* Worker threads: `worker_loop`, `run_claimed_export`.                    *)

\* The worker claims the oldest queued export and takes its connection and
\* options; what waits in a line is always queued, not cancelled, and holds them.
Claim(t) ==
    LET s == home[t]
        e == Head(pending[s])
    IN  /\ pc[t] = "loop"
        /\ pending[s] # <<>>
        /\ pending' = [pending EXCEPT ![s] = Tail(@)]
        /\ running' = [running EXCEPT ![s] = e]
        /\ state' = [state EXCEPT ![e] = "running"]
        /\ conn' = conn \ {e}
        /\ claim' = [claim EXCEPT ![t] = e]
        /\ pc' = [pc EXCEPT ![t] = "arm"]
        /\ inPart' = [inPart EXCEPT ![t] = 0]
        /\ ended' = ended \ {t}
        /\ verdict' = [verdict EXCEPT ![t] = "none"]
        /\ UNCHANGED <<open, kept, owner, cancelled, armed, fired, terminalOrder,
                       progress, alive, home, disk, dispatcher>>

StillAlive(s) == alive                         \* mutant: the flag is not reset
NoLongerAlive(s) == alive \ {s}

\* An empty line ends the thread in the lock section that found it empty.
Retire(t) ==
    /\ pc[t] = "loop"
    /\ pending[home[t]] = <<>>
    /\ alive' = NoLongerAlive(home[t])
    /\ pc' = [pc EXCEPT ![t] = "none"]
    /\ UNCHANGED <<open, records, terminalOrder, progress, pending, running, home,
                   claim, writer, disk, dispatcher>>

\* A cancellation that came before the handle is delivered when it is installed.
Delivered(e) == IF e \in cancelled THEN fired \cup {e} ELSE fired

\* set_interrupt
SetInterrupt(t) ==
    /\ pc[t] = "arm"
    /\ armed' = armed \cup {claim[t]}
    /\ fired' = Delivered(claim[t])
    /\ pc' = [pc EXCEPT ![t] = "prior"]
    /\ UNCHANGED <<open, state, kept, owner, conn, cancelled, terminalOrder, progress,
                   queues, home, claim, writer, disk, dispatcher>>

\* A step of the worker that touches nothing but where it is.
Goto(t, point) ==
    /\ pc' = [pc EXCEPT ![t] = point]
    /\ UNCHANGED <<open, records, terminalOrder, progress, queues, home, claim,
                   inPart, disk, dispatcher>>

\* The statements before the last are drained, and the last one is prepared.
DrainPrior(t) ==
    /\ pc[t] = "prior"
    /\ Goto(t, "batch")
    /\ UNCHANGED <<ended, verdict>>

\* check_cancelled answers ExportCancelled: before a slice, while an earlier
\* statement is drained, or once more when the stream is exhausted.
Cancelled(t) ==
    /\ pc[t] \in {"prior", "slice", "check"}
    /\ claim[t] \in cancelled
    /\ verdict' = [verdict EXCEPT ![t] = "cancelled"]
    /\ Goto(t, "drop")
    /\ UNCHANGED ended

\* ... and lets the worker go on otherwise.
PassCheck(t) ==
    /\ pc[t] = "check"
    /\ claim[t] \notin cancelled
    /\ Goto(t, IF inPart[t] > 0 THEN "publish" ELSE "finish")
    /\ UNCHANGED <<ended, verdict>>

\* The stream yields more rows, or is exhausted.
NextSlice(t) ==
    /\ pc[t] = "batch"
    /\ rows[claim[t]] < MaxRows
    /\ Goto(t, "slice")
    /\ UNCHANGED <<ended, verdict>>

StreamEnds(t) ==
    /\ pc[t] = "batch"
    /\ ended' = ended \cup {t}
    /\ Goto(t, "check")
    /\ UNCHANGED verdict

\* The byte budget: what is completed plus the current part.
WithinBudget(e, partBytes) == Bytes(completed[e], files[e]) + partBytes <= Budget

\* A slice goes to the hidden stage, which the first slice of a part creates,
\* and is counted; a full part is published next.
WriteSlice(t) ==
    LET e == claim[t]
    IN  /\ pc[t] = "slice"
        /\ e \notin cancelled
        /\ WithinBudget(e, inPart[t] + 1)
        /\ staged' = staged \cup {e}
        /\ inPart' = [inPart EXCEPT ![t] = @ + 1]
        /\ rows' = [rows EXCEPT ![e] = @ + 1]
        /\ pc' = [pc EXCEPT ![t] = IF inPart'[t] = RowsPerPart THEN "publish" ELSE "batch"]
        /\ UNCHANGED <<open, records, terminalOrder, completed, files, queues, home,
                       claim, ended, verdict, published, parts, dispatcher>>

\* The slice was staged but exceeds the budget: the stage exists, nothing is counted.
SliceOverBudget(t) ==
    LET e == claim[t]
    IN  /\ pc[t] = "slice"
        /\ e \notin cancelled
        /\ ~WithinBudget(e, inPart[t] + 1)
        /\ staged' = staged \cup {e}
        /\ pc' = [pc EXCEPT ![t] = "drop"]
        /\ UNCHANGED <<open, records, terminalOrder, progress, queues, home, claim,
                       writer, published, parts, dispatcher>>

\* publish: the writer is closed, and the budget is checked on the closed size.
StageSizeOnly(e, n) == WithinBudget(e, n)      \* mutant: the size before closing
MayPublish(e, n) == WithinBudget(e, n + Footer)

PublishPart(t) ==
    LET e == claim[t]
    IN  /\ pc[t] = "publish"
        /\ MayPublish(e, inPart[t])
        /\ published' = [published EXCEPT ![e] = @ + inPart[t]]
        /\ parts' = [parts EXCEPT ![e] = @ + 1]
        /\ staged' = staged \ {e}
        /\ pc' = [pc EXCEPT ![t] = "summary"]
        /\ UNCHANGED <<open, records, terminalOrder, progress, queues, home, claim,
                       writer, dispatcher>>

PublishOverBudget(t) ==
    /\ pc[t] = "publish"
    /\ ~MayPublish(claim[t], inPart[t])
    /\ Goto(t, "drop")
    /\ UNCHANGED <<ended, verdict>>

\* `current_rows = 0`.
NewPart(t) == [inPart EXCEPT ![t] = 0]

\* part_completed, and the writer starts over with an empty part.
PartCompleted(t) ==
    LET e == claim[t]
    IN  /\ pc[t] = "summary"
        /\ completed' = [completed EXCEPT ![e] = @ + inPart[t]]
        /\ files' = [files EXCEPT ![e] = @ + 1]
        /\ inPart' = NewPart(t)
        /\ pc' = [pc EXCEPT ![t] = IF t \in ended THEN "finish" ELSE "batch"]
        /\ UNCHANGED <<open, records, terminalOrder, rows, queues, home, claim,
                       ended, verdict, disk, dispatcher>>

\* SQL error or interrupt, I/O error, collision, a stale part that cannot be
\* removed; or a panic, which unwinds through the same drop.
WriterFails(t) ==
    /\ pc[t] \in {"prior", "batch", "slice", "publish", "finish"}
    /\ Goto(t, "drop")
    /\ UNCHANGED <<ended, verdict>>

\* Dropping the part writer removes its stage.
StageDropped(e) == staged \ {e}

DropWriter(t) ==
    /\ pc[t] = "drop"
    /\ staged' = StageDropped(claim[t])
    /\ pc' = [pc EXCEPT ![t] = "judge"]
    /\ UNCHANGED <<open, records, terminalOrder, progress, queues, home, claim,
                   writer, published, parts, dispatcher>>

\* is_cancel_requested, or an error that already says so, decides the outcome.
Judged(t) ==
    [verdict EXCEPT
        ![t] = IF @ = "cancelled" \/ claim[t] \in cancelled THEN "cancelled" ELSE "failed"]

Judge(t) ==
    /\ pc[t] = "judge"
    /\ verdict' = Judged(t)
    /\ Goto(t, "mark")
    /\ UNCHANGED ended

\* Every part is published and stale parts are gone: the outcome is success.
Finish(t) ==
    /\ pc[t] = "finish"
    /\ verdict' = [verdict EXCEPT ![t] = "succeeded"]
    /\ Goto(t, "mark")
    /\ UNCHANGED ended

\* What a terminal record reports as written.
AllRows(e, newState) == rows[e]                \* mutant: the counter is not taken back
ReportedRows(e, newState) == IF newState = "succeeded" THEN rows[e] ELSE completed[e]

\* The first lock section of mark_terminal.
MarkTerminal(t) ==
    LET e == claim[t]
        s == owner[e]
    IN  /\ pc[t] = "mark"
        /\ state' = [state EXCEPT ![e] = verdict[t]]
        /\ rows' = [rows EXCEPT ![e] = ReportedRows(e, verdict[t])]
        /\ armed' = armed \ {e}
        /\ running' = [running EXCEPT ![s] = IF @ = e THEN NoExport ELSE @]
        /\ pc' = [pc EXCEPT ![t] = "remember"]
        /\ UNCHANGED <<open, kept, owner, conn, cancelled, fired, terminalOrder,
                       completed, files, pending, alive, home, claim, writer, disk,
                       dispatcher>>

\* Its second lock section.
RememberFinished(t) ==
    /\ pc[t] = "remember"
    /\ Remember(claim[t])
    /\ claim' = [claim EXCEPT ![t] = NoExport]
    /\ pc' = [pc EXCEPT ![t] = "loop"]
    /\ UNCHANGED <<open, state, owner, conn, cancelled, armed, fired, progress, queues,
                   home, writer, disk, dispatcher>>

WorkerStep(t) ==
    \/ Claim(t) \/ Retire(t) \/ SetInterrupt(t)
    \/ DrainPrior(t) \/ Cancelled(t) \/ PassCheck(t) \/ NextSlice(t) \/ StreamEnds(t)
    \/ WriteSlice(t) \/ SliceOverBudget(t)
    \/ PublishPart(t) \/ PublishOverBudget(t) \/ PartCompleted(t)
    \/ WriterFails(t) \/ DropWriter(t) \/ Judge(t) \/ Finish(t)
    \/ MarkTerminal(t) \/ RememberFinished(t)

DispatchStep ==
    \/ RememberCancelled
    \/ \E e \in Exports : CloseCancelOne(e)
    \/ \E s \in Sessions : CloseEnd(s)

Request ==
    \/ \E s \in Sessions : OpenSession(s) \/ CloseBegin(s)
    \/ \E e \in Exports, s \in Sessions : Execute(e, s)
    \/ \E e \in Exports : Cancel(e)

Next == Request \/ DispatchStep \/ \E t \in Exports : WorkerStep(t)

Spec == Init /\ [][Next]_vars

\* Workers keep being scheduled, DuckDB and the file system answer, and the
\* dispatch thread finishes the request it began.
Fairness == /\ \A t \in Exports : WF_vars(WorkerStep(t))
            /\ WF_vars(DispatchStep)
FairSpec == Spec /\ Fairness

--------------------------------------------------------------------------------
(* Safety.                                                                 *)

\* A session's pending line holds exactly its queued exports, each once, and
\* only they still hold a cloned connection: what is claimed can be run, and a
\* cancelled or pruned export keeps no DuckDB connection open.
QueuesMatchStates ==
    /\ \A s \in Sessions :
          /\ Distinct(pending[s])
          /\ Waiting(pending[s]) = {e \in kept : state[e] = "queued" /\ owner[e] = s}
    /\ conn = {e \in kept : state[e] = "queued"}

\* The history holds exactly the terminal records, except those a thread is
\* between its two lock sections with, and never more than the limit: no record
\* is dropped while it is active and none is kept forever.
HistoryIsExact ==
    LET between == {e \in Exports : e = remembering \/
                       \E t \in Exports : pc[t] = "remember" /\ claim[t] = e}
    IN  /\ Distinct(terminalOrder)
        /\ Len(terminalOrder) <= ExportLimit
        /\ Waiting(terminalOrder) = {e \in kept : Terminal(e)} \ between
        /\ \A e \in Exports : Active(e) => e \in kept

\* export_jobs.rs:292: the counters of a terminal export describe exactly the
\* rows and files it left visible, however it ended.
ReportedRowsArePublished ==
    \A e \in Exports : Terminal(e) => rows[e] = published[e] /\ files[e] = parts[e]

\* What a budgeted export has made visible never exceeds its byte budget.
BudgetHolds == \A e \in Exports : Bytes(published[e], parts[e]) <= Budget

\* An export in a terminal state has left no hidden stage file.
TerminalLeavesNoStage == \A e \in Exports : Terminal(e) => e \notin staged

\* A running export whose cancellation was requested gets its interrupt, in
\* whichever order the request and the installation of the handle come.
CancelReachesInterrupt ==
    \A e \in Exports : state[e] = "running" /\ e \in cancelled /\ e \in armed => e \in fired

(* Action properties.                                                      *)

\* When `session.close` drops the connection, no export of the session is still
\* queued and every running one has its cancellation requested.
CloseStrandsNothing ==
    [][\A s \in Sessions : CloseEnd(s) =>
          \A e \in Exports : owner[e] = s /\ Active(e) =>
              state[e] = "running" /\ e \in cancelled]_vars

(* Liveness.                                                               *)

\* Every admitted export reaches a terminal state and the worker then forgets it.
AdmittedFinishes ==
    \A e \in Exports : Active(e) ~> Terminal(e) /\ \A t \in Exports : claim[t] # e

--------------------------------------------------------------------------------
(* Exports are a serial execution service too.                             *)

Service == INSTANCE SerialExecution
               WITH Jobs <- Exports, NoJob <- NoExport,
                    phase <- state, line <- pending, serving <- running
ImplementsService == Service!Spec
================================================================================
