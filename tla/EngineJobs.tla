------------------------------- MODULE EngineJobs -------------------------------
(***************************************************************************)
(* The query jobs of the DuckDB sidecar: engines/duckdb/src/jobs.rs with   *)
(* the session map of session.rs and the query, result and session arms of *)
(* the dispatch loop in main.rs.                                           *)
(*                                                                         *)
(* The dispatch loop is one thread: a request is one action, except        *)
(* `session.close`, whose cancel loop takes the registry lock once per job *)
(* and so interleaves with the workers.  A worker thread is named after    *)
(* the execution whose submission spawned it (`tarik-job-{id}`); each of   *)
(* its lock sections and each of its visible file-system effects is one    *)
(* action.                                                                 *)
(***************************************************************************)
EXTENDS WaitingLine, FiniteSets

CONSTANTS
    Jobs,           \* execution ids; also the names of the worker threads
    Sessions,       \* session ids
    NoJob,          \* "no execution" in a queue or a thread
    NoSession,      \* owner of an id that was never submitted
    HistoryLimit,   \* TERMINAL_HISTORY_LIMIT
    MaxStatements,  \* bound: statements in one SQL snapshot
    SpawnMayFail    \* whether the OS may refuse a worker thread

ASSUME JobsAssumption == NoJob \notin Jobs /\ NoSession \notin Sessions
ASSUME BoundsAssumption ==
    /\ HistoryLimit \in Nat
    /\ MaxStatements \in Nat \ {0}
    /\ SpawnMayFail \in BOOLEAN

VARIABLES
    open,           \* sessions that hold a connection (SessionManager)
    state,          \* `jobs[id].state`, "absent" when the map has no entry
    owner,          \* `jobs[id].session_id`
    cancelled,      \* ids with `cancel_requested`
    armed,          \* ids with an interrupt handle installed
    fired,          \* ids whose handle was interrupted
    terminalOrder,  \* `terminal_order`
    results,        \* ids with an entry in `results`
    pending,        \* `queues[s].pending`
    running,        \* `queues[s].running`
    alive,          \* sessions with `queues[s].worker_alive`
    tmp,            \* ids with a `{id}.tmp` page directory on disk
    final,          \* ids with a published `{id}` page directory on disk
    pc,             \* where each worker thread is
    home,           \* the session a worker thread serves
    claim,          \* the execution a worker thread holds
    ran,            \* statements of the claimed snapshot already executed
    produced,       \* threads whose `outcome` holds a published result
    verdict,        \* terminal state a failed execution is about to take
    closing,        \* the session `session.close` is working on, or NoSession
    toCancel        \* ids `cancel_session` still has to cancel

registry == <<state, owner, cancelled, armed, fired, terminalOrder, results>>
queues == <<pending, running, alive>>
disk == <<tmp, final>>
threads == <<pc, home, claim, ran, produced, verdict>>
dispatcher == <<closing, toCancel>>
vars == <<open, registry, queues, disk, threads, dispatcher>>

TerminalStates == {"succeeded", "failed", "cancelled"}
ActiveStates == {"queued", "running"}
JobStates == {"absent"} \cup ActiveStates \cup TerminalStates
Points == {"none", "loop", "clone", "arm", "between", "streaming",
           "failed", "panicked", "discard", "judge", "mark"}
NoVerdict == "none"

Terminal(j) == state[j] \in TerminalStates
Active(j) == state[j] \in ActiveStates
Live(t) == pc[t] # "none"
\* The worker that holds execution j past its claim.
Holds(t, j) == pc[t] \notin {"none", "loop"} /\ claim[t] = j
DispatchIdle == closing = NoSession

TypeOK ==
    /\ open \subseteq Sessions
    /\ state \in [Jobs -> JobStates]
    /\ owner \in [Jobs -> Sessions \cup {NoSession}]
    /\ cancelled \subseteq Jobs
    /\ armed \subseteq Jobs
    /\ fired \subseteq Jobs
    /\ terminalOrder \in Seq(Jobs)
    /\ results \subseteq Jobs
    /\ pending \in [Sessions -> Seq(Jobs)]
    /\ running \in [Sessions -> Jobs \cup {NoJob}]
    /\ alive \subseteq Sessions
    /\ tmp \subseteq Jobs
    /\ final \subseteq Jobs
    /\ pc \in [Jobs -> Points]
    /\ home \in [Jobs -> Sessions \cup {NoSession}]
    /\ claim \in [Jobs -> Jobs \cup {NoJob}]
    /\ ran \in [Jobs -> 0..MaxStatements]
    /\ produced \subseteq Jobs
    /\ verdict \in [Jobs -> TerminalStates \cup {NoVerdict}]
    /\ closing \in Sessions \cup {NoSession}
    /\ toCancel \subseteq Jobs

Init ==
    /\ open = {}
    /\ state = [j \in Jobs |-> "absent"]
    /\ owner = [j \in Jobs |-> NoSession]
    /\ cancelled = {} /\ armed = {} /\ fired = {}
    /\ terminalOrder = <<>>
    /\ results = {}
    /\ pending = [s \in Sessions |-> <<>>]
    /\ running = [s \in Sessions |-> NoJob]
    /\ alive = {}
    /\ tmp = {} /\ final = {}
    /\ pc = [t \in Jobs |-> "none"]
    /\ home = [t \in Jobs |-> NoSession]
    /\ claim = [t \in Jobs |-> NoJob]
    /\ ran = [t \in Jobs |-> 0]
    /\ produced = {}
    /\ verdict = [t \in Jobs |-> NoVerdict]
    /\ closing = NoSession
    /\ toCancel = {}

--------------------------------------------------------------------------------
(* Terminal bookkeeping.  `prune_terminal` runs after every push and first *)
(* pops unconditionally; only then does it compare with the limit.         *)

AfterPop(order) == IF order = <<>> THEN <<>> ELSE Tail(order)
Excess(order) == IF Len(order) > HistoryLimit THEN Len(order) - HistoryLimit ELSE 0

\* `terminal_order` after a push of j and `prune_terminal`.
PrunedOrder(j) ==
    LET order == AfterPop(Append(terminalOrder, j))
    IN  SubSeq(order, Excess(order) + 1, Len(order))

\* The ids whose records the same call drops from `jobs`.
PrunedJobs(j) ==
    LET order == AfterPop(Append(terminalOrder, j))
    IN  {order[i] : i \in 1..Excess(order)}

\* Record j terminal in `newState`, push it, and prune.
Settle(j, newState) ==
    /\ state' = [k \in Jobs |-> IF k \in PrunedJobs(j) THEN "absent"
                                ELSE IF k = j THEN newState ELSE state[k]]
    /\ terminalOrder' = PrunedOrder(j)

--------------------------------------------------------------------------------
(* Requests, served by the single dispatch thread.                         *)

\* A new execution joins the back of its session's line.
EnqueuedInFront(line, j) == <<j>> \o line      \* mutant: push_front
Enqueued(line, j) == Append(line, j)

\* Whether a submission spawns a worker: only if the session has none.
SpawnsWorker(s) == s \notin alive

\* session.open: a session of the same id is replaced; a failed open leaves none.
OpenSession(s) ==
    /\ DispatchIdle
    /\ open' \in {open \cup {s}, open \ {s}}
    /\ UNCHANGED <<registry, queues, disk, threads, dispatcher>>

\* query.execute: the record and the queue entry are made first; a worker is
\* spawned only if the session has none, after `worker_alive` was set.
Execute(j, s) ==
    /\ DispatchIdle
    /\ state[j] = "absent"
    /\ state' = [state EXCEPT ![j] = "queued"]
    /\ owner' = [owner EXCEPT ![j] = s]
    /\ cancelled' = cancelled \ {j}
    /\ armed' = armed \ {j}
    /\ fired' = fired \ {j}
    /\ pending' = [pending EXCEPT ![s] = Enqueued(@, j)]
    /\ alive' = alive \cup {s}
    /\ \/ /\ SpawnsWorker(s)
          /\ pc' = [pc EXCEPT ![j] = "loop"]
          /\ home' = [home EXCEPT ![j] = s]
       \/ ~SpawnsWorker(s) /\ UNCHANGED <<pc, home>>
       \/ SpawnsWorker(s) /\ SpawnMayFail /\ UNCHANGED <<pc, home>>
    /\ UNCHANGED <<open, terminalOrder, results, running, disk,
                   claim, ran, produced, verdict, dispatcher>>

\* A running execution is flagged, and interrupted if its handle is installed.
CancelRunningNow(j) ==                         \* mutant: terminal before the worker is done
    /\ Settle(j, "cancelled")
    /\ UNCHANGED <<cancelled, fired>>
CancelRunning(j) ==
    /\ cancelled' = cancelled \cup {j}
    /\ fired' = IF j \in armed THEN fired \cup {j} ELSE fired
    /\ UNCHANGED <<state, terminalOrder>>

\* The body of `cancel`: a queued job becomes cancelled and leaves its queue;
\* a terminal one is left as it is.
CancelJob(j) ==
    \/ /\ state[j] = "queued"
       /\ Settle(j, "cancelled")
       /\ pending' = [pending EXCEPT ![owner[j]] = Without(@, j)]
       /\ UNCHANGED <<cancelled, fired>>
    \/ /\ state[j] = "running"
       /\ CancelRunning(j)
       /\ UNCHANGED pending
    \/ /\ ~Active(j)
       /\ UNCHANGED <<state, terminalOrder, pending, cancelled, fired>>

\* query.cancel
Cancel(j) ==
    /\ DispatchIdle
    /\ CancelJob(j)
    /\ UNCHANGED <<open, owner, armed, results, running, alive, disk, threads, dispatcher>>

ReleaseKeepsEntry(j) ==                        \* mutant: the entry outlives its pages
    /\ DispatchIdle
    /\ j \in results
    /\ final' = final \ {j}
    /\ UNCHANGED <<open, registry, queues, tmp, threads, dispatcher>>

\* result.release: the directory goes first, then the entry; when the directory
\* cannot be removed the entry stays (no step).
Release(j) ==
    /\ DispatchIdle
    /\ j \in results
    /\ final' = final \ {j}
    /\ results' = results \ {j}
    /\ UNCHANGED <<open, state, owner, cancelled, armed, fired, terminalOrder,
                   queues, tmp, threads, dispatcher>>

\* result.release_all: entries are drained, then their directories discarded.
ReleaseAll ==
    /\ DispatchIdle
    /\ results # {}
    /\ results' = {}
    /\ final' = final \ results
    /\ UNCHANGED <<open, state, owner, cancelled, armed, fired, terminalOrder,
                   queues, tmp, threads, dispatcher>>

\* The executions `cancel_session` collects.
SessionJobs(s) == {j \in Jobs : state[j] # "absent" /\ owner[j] = s}

\* session.close begins: `cancel_session` collects the session's executions.
CloseBegin(s) ==
    /\ DispatchIdle
    /\ closing' = s
    /\ toCancel' = SessionJobs(s)
    /\ UNCHANGED <<open, registry, queues, disk, threads>>

\* ... cancels them one lock section at a time ...
CloseCancelOne(j) ==
    /\ j \in toCancel
    /\ toCancel' = toCancel \ {j}
    /\ CancelJob(j)
    /\ UNCHANGED <<open, owner, armed, results, running, alive, disk, threads, closing>>

\* ... and then drops the session's connection.
CloseEnd(s) ==
    /\ closing = s
    /\ toCancel = {}
    /\ open' = open \ {s}
    /\ closing' = NoSession
    /\ UNCHANGED <<registry, queues, disk, threads, toCancel>>

--------------------------------------------------------------------------------
(* Worker threads: `worker_loop`, `run_job`, `execute_snapshot`.           *)

\* Claim the oldest queued execution; its record always exists (QueuesMatchStates).
Claim(t) ==
    LET s == home[t]
        j == Head(pending[s])
    IN  /\ pc[t] = "loop"
        /\ pending[s] # <<>>
        /\ pending' = [pending EXCEPT ![s] = Tail(@)]
        /\ running' = [running EXCEPT ![s] = j]
        /\ state' = [state EXCEPT ![j] = "running"]
        /\ claim' = [claim EXCEPT ![t] = j]
        /\ pc' = [pc EXCEPT ![t] = "clone"]
        /\ ran' = [ran EXCEPT ![t] = 0]
        /\ produced' = produced \ {t}
        /\ verdict' = [verdict EXCEPT ![t] = NoVerdict]
        /\ UNCHANGED <<open, owner, cancelled, armed, fired, terminalOrder, results,
                       alive, disk, home, dispatcher>>

\* `worker_alive = false`.
StillAlive(s) == alive                         \* mutant: the flag is not reset
NoLongerAlive(s) == alive \ {s}

\* An empty queue ends the thread in the same lock section that found it empty.
Retire(t) ==
    /\ pc[t] = "loop"
    /\ pending[home[t]] = <<>>
    /\ alive' = NoLongerAlive(home[t])
    /\ pc' = [pc EXCEPT ![t] = "none"]
    /\ UNCHANGED <<open, registry, pending, running, disk, home, claim,
                   ran, produced, verdict, dispatcher>>

\* Clone the session's current connection.
CloneConnection(t) ==
    /\ pc[t] = "clone"
    /\ home[t] \in open
    /\ pc' = [pc EXCEPT ![t] = "arm"]
    /\ UNCHANGED <<open, registry, queues, disk, home, claim, ran, produced,
                   verdict, dispatcher>>

\* The session is gone, or DuckDB refuses another connection: the job fails,
\* whether or not its cancellation was requested.
CloneFails(t) ==
    /\ pc[t] = "clone"
    /\ pc' = [pc EXCEPT ![t] = "mark"]
    /\ verdict' = [verdict EXCEPT ![t] = "failed"]
    /\ UNCHANGED <<open, registry, queues, disk, home, claim, ran, produced, dispatcher>>

\* A cancellation that came before the handle is delivered when it is installed.
Delivered(j) == IF j \in cancelled THEN fired \cup {j} ELSE fired

\* set_interrupt
SetInterrupt(t) ==
    /\ pc[t] = "arm"
    /\ armed' = armed \cup {claim[t]}
    /\ fired' = Delivered(claim[t])
    /\ pc' = [pc EXCEPT ![t] = "between"]
    /\ UNCHANGED <<open, state, owner, cancelled, terminalOrder, results, queues, disk,
                   home, claim, ran, produced, verdict, dispatcher>>

\* A statement that returns rows starts: what an earlier statement published is
\* discarded and a temporary page directory is made.
StartRows(t) ==
    /\ pc[t] = "between"
    /\ ran[t] < MaxStatements
    /\ final' = IF t \in produced THEN final \ {claim[t]} ELSE final
    /\ tmp' = tmp \cup {claim[t]}
    /\ produced' = produced \ {t}
    /\ pc' = [pc EXCEPT ![t] = "streaming"]
    /\ UNCHANGED <<open, registry, queues, home, claim, ran, verdict, dispatcher>>

\* Its pages are complete: the directory is renamed to its final name.
Publish(t) ==
    /\ pc[t] = "streaming"
    /\ tmp' = tmp \ {claim[t]}
    /\ final' = final \cup {claim[t]}
    /\ produced' = produced \cup {t}
    /\ ran' = [ran EXCEPT ![t] = @ + 1]
    /\ pc' = [pc EXCEPT ![t] = "between"]
    /\ UNCHANGED <<open, registry, queues, home, claim, verdict, dispatcher>>

\* A statement that only counts rows (DML, or no result root) runs to its end.
RunCount(t) ==
    /\ pc[t] = "between"
    /\ ran[t] < MaxStatements
    /\ ran' = [ran EXCEPT ![t] = @ + 1]
    /\ UNCHANGED <<open, registry, queues, disk, pc, home, claim, produced,
                   verdict, dispatcher>>

\* A statement fails (SQL error, interrupt, quota, disk) or the Arrow fetch panics.
StatementFails(t) ==
    /\ \/ pc[t] = "between" /\ ran[t] < MaxStatements
       \/ pc[t] = "streaming"
    /\ \E how \in {"failed", "panicked"} : pc' = [pc EXCEPT ![t] = how]
    /\ UNCHANGED <<open, registry, queues, disk, home, claim, ran, produced,
                   verdict, dispatcher>>

\* is_cancel_requested decides between cancelled and failed: first thing after
\* an error, but after the clean-up when the fetch panicked.
Judge(t) ==
    /\ pc[t] \in {"failed", "judge"}
    /\ verdict' = [verdict EXCEPT
                      ![t] = IF claim[t] \in cancelled THEN "cancelled" ELSE "failed"]
    /\ pc' = [pc EXCEPT ![t] = IF pc[t] = "failed" THEN "discard" ELSE "mark"]
    /\ UNCHANGED <<open, registry, queues, disk, home, claim, ran, produced, dispatcher>>

\* cleanup_tmp removes the temporary directory, and nothing that was published.
TmpDiscarded(j) == tmp \ {j}

\* A failed or panicked execution cleans up.
CleanupTmp(t) ==
    /\ pc[t] \in {"discard", "panicked"}
    /\ tmp' = TmpDiscarded(claim[t])
    /\ pc' = [pc EXCEPT ![t] = IF pc[t] = "panicked" THEN "judge" ELSE "mark"]
    /\ UNCHANGED <<open, registry, queues, final, home, claim, ran, produced,
                   verdict, dispatcher>>

\* mark_terminal: state, result entry, history and `running`, in one lock section.
MarkTerminal(t, newState, published) ==
    LET j == claim[t]
        s == owner[j]
    IN  /\ Settle(j, newState)
        /\ results' = results \cup published
        /\ running' = [running EXCEPT ![s] = IF @ = j THEN NoJob ELSE @]
        /\ pc' = [pc EXCEPT ![t] = "loop"]
        /\ claim' = [claim EXCEPT ![t] = NoJob]
        /\ UNCHANGED <<open, owner, cancelled, armed, fired, pending, alive, disk,
                       home, ran, produced, verdict, dispatcher>>

\* Every statement ran: the job succeeds, even if its cancellation was requested.
Succeed(t) ==
    /\ pc[t] = "between"
    /\ ran[t] > 0
    /\ MarkTerminal(t, "succeeded", IF t \in produced THEN {claim[t]} ELSE {})

\* A failed execution takes the terminal state decided for it.
Fail(t) ==
    /\ pc[t] = "mark"
    /\ MarkTerminal(t, verdict[t], {})

WorkerStep(t) ==
    \/ Claim(t) \/ Retire(t)
    \/ CloneConnection(t) \/ CloneFails(t) \/ SetInterrupt(t)
    \/ StartRows(t) \/ Publish(t) \/ RunCount(t) \/ StatementFails(t)
    \/ Judge(t) \/ CleanupTmp(t)
    \/ Succeed(t) \/ Fail(t)

Request ==
    \/ \E s \in Sessions : OpenSession(s) \/ CloseBegin(s) \/ CloseEnd(s)
    \/ \E j \in Jobs, s \in Sessions : Execute(j, s)
    \/ \E j \in Jobs : Cancel(j) \/ CloseCancelOne(j) \/ Release(j)
    \/ ReleaseAll

Next == Request \/ \E t \in Jobs : WorkerStep(t)

Spec == Init /\ [][Next]_vars

\* A worker thread keeps being scheduled and DuckDB finishes every statement;
\* the dispatch loop finishes the close it began.  Requests are the client's.
CloseStep == \/ \E j \in Jobs : CloseCancelOne(j)
             \/ \E s \in Sessions : CloseEnd(s)
Fairness == /\ \A t \in Jobs : WF_vars(WorkerStep(t))
            /\ WF_vars(CloseStep)
FairSpec == Spec /\ Fairness

--------------------------------------------------------------------------------
(* Safety.                                                                 *)

\* A session's pending line holds exactly its queued executions, each once: no
\* admitted execution is lost and none can be claimed twice.
QueuesMatchStates ==
    \A s \in Sessions :
        /\ Distinct(pending[s])
        /\ Waiting(pending[s]) = {j \in Jobs : state[j] = "queued" /\ owner[j] = s}

\* `worker_alive` is right about the threads: a session never has two workers,
\* and a thread that still runs is accounted for.
OneWorkerPerSession ==
    /\ \A t, u \in Jobs : Live(t) /\ Live(u) /\ home[t] = home[u] => t = u
    /\ \A t \in Jobs : Live(t) => home[t] \in alive

\* The statements of one session run serially: `running` names the session's one
\* running execution and exactly one worker, the session's own, holds it.
SerialPerSession ==
    /\ \A j \in Jobs : state[j] = "running" => running[owner[j]] = j
    /\ \A s \in Sessions : running[s] # NoJob =>
          /\ state[running[s]] = "running"
          /\ owner[running[s]] = s
          /\ \E t \in Jobs : Holds(t, running[s]) /\ home[t] = s
    /\ \A t, u, j \in Jobs : Holds(t, j) /\ Holds(u, j) => t = u

\* A result that `result.get_page` would serve belongs to a succeeded execution
\* and its page directory is on disk.
ResultsAreReadable ==
    \A j \in results : state[j] = "succeeded" /\ j \in final

\* A running execution whose cancellation was requested gets its interrupt, in
\* whichever order the request and the installation of the handle come.
CancelReachesInterrupt ==
    \A j \in Jobs : state[j] = "running" /\ j \in cancelled /\ j \in armed => j \in fired

\* An execution in a terminal state has left no temporary page directory.
TerminalLeavesNoTmp == \A j \in Jobs : Terminal(j) => j \notin tmp

(* Action properties.                                                      *)

\* An execution that reached a terminal state keeps it.
TerminalIsFinal ==
    [][\A j \in Jobs : Terminal(j) => state'[j] = state[j]]_vars

\* When `session.close` drops the connection, no execution of the session is
\* still queued and every running one has its cancellation requested.
CloseStrandsNothing ==
    [][\A s \in Sessions : CloseEnd(s) =>
          \A j \in Jobs : owner[j] = s /\ Active(j) =>
              state[j] = "running" /\ j \in cancelled]_vars

(* Liveness.                                                               *)

\* Where the OS grants every worker thread, every admitted execution reaches a
\* terminal state, however its statements end and whoever cancels it.
AdmittedFinishes == \A j \in Jobs : Active(j) ~> Terminal(j)

(* What a comment says, and the code does not do.                          *)

\* jobs.rs:27: "Terminal job snapshots kept for `query.status` before pruning."
TerminalHistoryBounded == Cardinality({j \in Jobs : Terminal(j)}) <= HistoryLimit

--------------------------------------------------------------------------------
(* The queue is a serial execution service.                                *)

Service == INSTANCE SerialExecution
               WITH phase <- state, line <- pending, serving <- running
ImplementsService == Service!Spec
================================================================================
