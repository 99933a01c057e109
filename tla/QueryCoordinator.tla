---------------------------- MODULE QueryCoordinator ----------------------------
(***************************************************************************)
(* The desktop's query coordinator: src-tauri/src/query/mod.rs, over the   *)
(* engine process that src-tauri/src/engine_manager.rs starts on demand.   *)
(*                                                                         *)
(* One execution belongs to one editor tab.  Its submitter and its poller  *)
(* share the record through short lock sections; closing the tab drops the *)
(* record at any time.  Unlike an export's, its state turns terminal only  *)
(* in mark_terminal, and a cancellation leaves the outcome to the poller.  *)
(***************************************************************************)
EXTENDS Naturals, Sequences, FiniteSets

CONSTANTS
    Executions,     \* execution ids, fresh for every submission
    Tabs,           \* editor tabs
    None,           \* no tab, no execution
    MaxFailures,    \* MAX_POLL_FAILURES
    MaxCrashes      \* bound: deaths of the engine process

ASSUME NoneAssumption == None \notin Executions /\ None \notin Tabs
ASSUME QueryBounds == MaxFailures \in Nat \ {0} /\ MaxCrashes \in Nat

ActiveStates == {"queued", "running"}
TerminalStates == {"succeeded", "failed", "cancelled"}
EngineStates == {"unknown"} \cup ActiveStates \cup TerminalStates
Threads == {"submit", "poll"} \X Executions
Steps == {"idle", "track", "submit", "ask", "apply", "take", "mark", "persist"}

VARIABLES
    state,      \* `executions[id].state`, "absent" without a record
    tab,        \* the tab it was submitted for, None before that
    result,     \* records that carry result metadata
    written,    \* records with `history_written`
    latest,     \* `latest_by_tab`
    at,         \* where each thread is
    snap,       \* the engine status it holds
    failures,   \* consecutive failed polls of each poller
    history,    \* the history rows written for each execution, oldest first
    eng,        \* what the engine would answer, "unknown" if nothing
    up,         \* whether the engine process runs
    crashes

records == <<state, tab, result, written, latest>>
threads == <<at, snap, failures>>
engine == <<eng, up, crashes>>
queryVars == <<records, threads, history, engine>>

Present(x) == state[x] # "absent"
Active(x) == state[x] \in ActiveStates

QueryTypeOK ==
    /\ state \in [Executions -> {"absent"} \cup ActiveStates \cup TerminalStates]
    /\ tab \in [Executions -> Tabs \cup {None}]
    /\ result \subseteq Executions /\ written \subseteq Executions
    /\ latest \in [Tabs -> Executions \cup {None}]
    /\ at \in [Threads -> Steps]
    /\ snap \in [Threads -> EngineStates]
    /\ failures \in [Executions -> 0..MaxFailures]
    /\ history \in [Executions -> Seq(TerminalStates)]
    /\ eng \in [Executions -> EngineStates]
    /\ up \in BOOLEAN
    /\ crashes \in 0..MaxCrashes

QueryInit ==
    /\ state = [x \in Executions |-> "absent"]
    /\ tab = [x \in Executions |-> None]
    /\ result = {} /\ written = {}
    /\ latest = [t \in Tabs |-> None]
    /\ at = [th \in Threads |-> "idle"]
    /\ snap = [th \in Threads |-> "unknown"]
    /\ failures = [x \in Executions |-> 0]
    /\ history = [x \in Executions |-> <<>>]
    /\ eng = [x \in Executions |-> "unknown"]
    /\ up = FALSE
    /\ crashes = 0

Goes(th, step) == at' = [at EXCEPT ![th] = step]
Holds(th, s) == snap' = [snap EXCEPT ![th] = s]

--------------------------------------------------------------------------------
(* Submission.                                                             *)

\* execute: the record, and in a second lock section the tab's latest execution.
Execute(x, t) ==
    /\ tab[x] = None
    /\ state' = [state EXCEPT ![x] = "queued"]
    /\ tab' = [tab EXCEPT ![x] = t]
    /\ Goes(<<"submit", x>>, "track")
    /\ UNCHANGED <<result, written, latest, snap, failures, history, engine>>

Track(x) ==
    /\ at[<<"submit", x>>] = "track"
    /\ latest' = [latest EXCEPT ![tab[x]] = x]
    /\ Goes(<<"submit", x>>, "submit")
    /\ UNCHANGED <<state, tab, result, written, snap, failures, history, engine>>

\* The engine, started if need be, accepts the snapshot; a poller is spawned.
Accepted(x) ==
    /\ at[<<"submit", x>>] = "submit"
    /\ eng' = [eng EXCEPT ![x] = "queued"]
    /\ up' = TRUE
    /\ at' = [at EXCEPT ![<<"submit", x>>] = "idle", ![<<"poll", x>>] = "ask"]
    /\ UNCHANGED <<records, snap, failures, history, crashes>>

\* A refused submission, or one whose poller cannot be spawned, is marked failed
\* by the submitter; nothing polls it.
NotPolled(x) ==
    /\ at[<<"submit", x>>] = "submit"
    /\ \/ UNCHANGED <<eng, up>>
       \/ eng' = [eng EXCEPT ![x] = "queued"] /\ up' = TRUE
    /\ Holds(<<"submit", x>>, "failed")
    /\ Goes(<<"submit", x>>, "mark")
    /\ UNCHANGED <<records, failures, history, crashes>>

--------------------------------------------------------------------------------
(* Commands.                                                               *)

\* The engine cancels a queued execution at once; a running one is interrupted,
\* and ends later, cancelled or not.
CancelledStatus(x) == IF eng[x] = "queued" THEN "cancelled" ELSE eng[x]

\* cancel only tells the engine; the poller observes the outcome.
Cancel(x) ==
    /\ eng[x] = "queued"
    /\ eng' = [eng EXCEPT ![x] = CancelledStatus(x)]
    /\ UNCHANGED <<records, threads, history, up, crashes>>

\* forget: the tab was closed; its records go, whatever state they are in.
Forgotten(t) == {x \in Executions : tab[x] = t}

Forget(t) ==
    /\ state' = [x \in Executions |-> IF x \in Forgotten(t) THEN "absent" ELSE state[x]]
    /\ latest' = [latest EXCEPT ![t] = None]
    /\ UNCHANGED <<tab, result, written, threads, history, engine>>

--------------------------------------------------------------------------------
(* The poller.                                                             *)

\* What the poller does next with a status: it applies a state that is not
\* terminal, takes a success' result metadata, and marks any other outcome.
Treats(s) == CASE s \in ActiveStates -> "apply" [] s = "succeeded" -> "take" [] OTHER -> "mark"

\* A status request starts an engine if none runs; an engine that does not know
\* the execution has lost it.
Ask(x) ==
    LET th == <<"poll", x>>
        s == IF eng[x] = "unknown" THEN "failed" ELSE eng[x]
    IN  /\ at[th] = "ask"
        /\ up' = TRUE
        /\ Holds(th, s)
        /\ Goes(th, Treats(s))
        /\ failures' = [failures EXCEPT ![x] = 0]
        /\ UNCHANGED <<records, history, eng, crashes>>

\* A failed poll is retried, until the limit of consecutive failures.
Counted(x) == [failures EXCEPT ![x] = @ + 1]
GivesUpAt(n) == n >= MaxFailures
GivesUp(x) == "mark"

AskFails(x) ==
    LET th == <<"poll", x>>
    IN  /\ at[th] = "ask"
        /\ failures' = Counted(x)
        /\ IF GivesUpAt(failures'[x])
           THEN Goes(th, GivesUp(x)) /\ Holds(th, "failed")
           ELSE UNCHANGED <<at, snap>>
        /\ UNCHANGED <<records, history, engine>>

\* A late queued or running status does not roll a finished execution back.
Apply(x) ==
    LET th == <<"poll", x>>
    IN  /\ at[th] = "apply"
        /\ state' = [state EXCEPT ![x] =
                        IF Present(x) /\ x \notin written THEN snap[th] ELSE @]
        /\ Goes(th, IF snap[th] \in ActiveStates THEN "ask" ELSE "mark")
        /\ UNCHANGED <<tab, result, written, latest, snap, failures, history, engine>>

\* The result metadata of a success, in a lock section of its own.
WithMetadata(x) == IF Present(x) THEN result \cup {x} ELSE result

TakeResult(x) ==
    /\ at[<<"poll", x>>] = "take"
    /\ result' = WithMetadata(x)
    /\ Goes(<<"poll", x>>, "mark")
    /\ UNCHANGED <<state, tab, written, latest, snap, failures, history, engine>>

--------------------------------------------------------------------------------
(* mark_terminal.                                                          *)

\* The first terminal transition owns the history row; a forgotten execution has
\* no record to take it from.
OwnsHistory(x) == Present(x) /\ x \notin written
KeepsView(th) == state                         \* mutant: record.state is not assigned
Decided(th) == [state EXCEPT ![th[2]] = snap[th]]

MarkTerminal(th) ==
    LET x == th[2]
    IN  /\ at[th] = "mark"
        /\ IF OwnsHistory(x)
           THEN /\ state' = Decided(th)
                /\ written' = written \cup {x}
                /\ Goes(th, "persist")
           ELSE Goes(th, "idle") /\ UNCHANGED <<state, written>>
        /\ UNCHANGED <<tab, result, latest, snap, failures, history, engine>>

\* The row is written outside the lock.
Persist(th) ==
    /\ at[th] = "persist"
    /\ history' = [history EXCEPT ![th[2]] = Append(@, snap[th])]
    /\ Goes(th, "idle")
    /\ UNCHANGED <<records, snap, failures, engine>>

--------------------------------------------------------------------------------
(* The engine.                                                             *)

EngineAdvances(x) ==
    /\ up
    /\ \/ eng[x] = "queued" /\ eng' = [eng EXCEPT ![x] = "running"]
       \/ eng[x] = "running" /\ \E s \in TerminalStates : eng' = [eng EXCEPT ![x] = s]
    /\ UNCHANGED <<records, threads, history, up, crashes>>

NoEngine == up' = FALSE /\ eng' = [x \in Executions |-> "unknown"]

EngineDies ==
    /\ up /\ crashes < MaxCrashes
    /\ NoEngine
    /\ crashes' = crashes + 1
    /\ UNCHANGED <<records, threads, history>>

ExecutionStep(x) ==
    \/ \E t \in Tabs : Execute(x, t)
    \/ Track(x) \/ Accepted(x) \/ NotPolled(x) \/ Cancel(x)
    \/ Ask(x) \/ AskFails(x) \/ Apply(x) \/ TakeResult(x)
    \/ EngineAdvances(x)

QueryNext ==
    \/ \E x \in Executions : ExecutionStep(x)
    \/ \E th \in Threads : MarkTerminal(th) \/ Persist(th)
    \/ \E t \in Tabs : Forget(t)
    \/ EngineDies

--------------------------------------------------------------------------------
(* Safety.                                                                 *)

\* An execution has at most one history row, and from then on its view shows the
\* outcome that row records, whatever statuses still arrive.
HistoryIsTheOutcome ==
    \A x \in Executions :
        /\ Len(history[x]) <= 1
        /\ history[x] # <<>> /\ Present(x) => state[x] = history[x][1]

\* An execution whose record has no history yet is in the hands of its submitter,
\* its poller, or a thread about to write the row: none is forgotten half-way.
OutcomeHasOwner ==
    \A x \in Executions :
        /\ Present(x) /\ x \notin written => \E r \in {"submit", "poll"} : at[<<r, x>>] # "idle"
        /\ x \in written /\ history[x] = <<>> => \E th \in Threads : th[2] = x /\ at[th] = "persist"

\* A view that shows success carries the result it can be read from.
SuccessHasResult == \A x \in Executions : state[x] = "succeeded" => x \in result

\* Once no execution counts as active, each has its outcome: `has_active`, which
\* shutdown waits on, does not turn false before mark_terminal.
QuietMeansDecided ==
    \A x \in Executions : Present(x) /\ ~Active(x) => x \in written

(* What a comment says, and the code does not do.                          *)

\* query/mod.rs:5: "writes exactly one durable history entry per terminal state":
\* an execution that ended in the engine and that nobody handles any more has its
\* history row.
EndedHaveHistory ==
    \A x \in Executions :
        eng[x] \in TerminalStates /\ (\A th \in Threads : th[2] = x => at[th] = "idle")
            => history[x] # <<>>
================================================================================
