--------------------------- MODULE ExportCoordinator ---------------------------
(***************************************************************************)
(* The desktop's export coordinator: src-tauri/src/export/mod.rs.  The     *)
(* engine behind it is reduced to the statuses it answers                  *)
(* (EngineExports), and may die at any time.                               *)
(*                                                                         *)
(* Three kinds of thread work on one export: the command that submitted    *)
(* it, its poller, and any command that cancels it.  They share the record *)
(* only through short lock sections, so an engine status is read in one    *)
(* step and applied in a later one.                                        *)
(***************************************************************************)
EXTENDS Naturals, Sequences, FiniteSets

CONSTANTS
    Exports,        \* export ids, fresh for every submission
    MaxActive,      \* MAX_ACTIVE_EXPORTS
    MaxTerminal,    \* MAX_TERMINAL_EXPORTS
    MaxFailures,    \* MAX_POLL_FAILURES
    MaxCrashes,     \* bound: deaths of the engine
    MaxCancels,     \* bound: cancellations
    WithRelease     \* whether finished exports are released (agent exports are)

TerminalStates == {"succeeded", "failed", "cancelled"}
ActiveStates == {"queued", "running"}
Roles == {"submit", "poll", "cancel"}
Threads == Roles \X Exports
Steps == {"idle", "submit", "ask", "apply", "mark", "persist", "push", "evict"}

VARIABLES
    state,      \* `exports[id].state`, "absent" without a record
    written,    \* records with `history_written`
    used,       \* ids that were ever submitted
    order,      \* `terminal_order`
    unlisting,  \* released ids still in `terminal_order`
    at,         \* where each thread is
    snap,       \* the engine status it holds
    failures,   \* consecutive failed polls of each poller
    evicting,   \* ids a thread took off `terminal_order` to drop
    history,    \* the history rows written for each export, oldest first
    eng,        \* what the engine would answer, "unknown" if nothing
    crashes,
    cancels

records == <<state, written, used>>
threads == <<at, snap, failures, evicting>>
engine == <<eng, crashes, cancels>>
vars == <<records, order, unlisting, threads, history, engine>>

Present(e) == state[e] # "absent"
Active(e) == state[e] \in ActiveStates
Terminal(s) == s \in TerminalStates
NoStatus == "unknown"
EngineStates == {"unknown"} \cup ActiveStates \cup TerminalStates

TypeOK ==
    /\ state \in [Exports -> {"absent"} \cup ActiveStates \cup TerminalStates]
    /\ written \subseteq Exports /\ used \subseteq Exports /\ unlisting \subseteq Exports
    /\ order \in Seq(Exports)
    /\ at \in [Threads -> Steps]
    /\ snap \in [Threads -> EngineStates]
    /\ failures \in [Exports -> 0..MaxFailures]
    /\ evicting \in [Threads -> SUBSET Exports]
    /\ history \in [Exports -> Seq(TerminalStates)]
    /\ eng \in [Exports -> EngineStates]
    /\ crashes \in 0..MaxCrashes /\ cancels \in 0..MaxCancels

Init ==
    /\ state = [e \in Exports |-> "absent"]
    /\ written = {} /\ used = {} /\ unlisting = {}
    /\ order = <<>>
    /\ at = [th \in Threads |-> "idle"]
    /\ snap = [th \in Threads |-> NoStatus]
    /\ failures = [e \in Exports |-> 0]
    /\ evicting = [th \in Threads |-> {}]
    /\ history = [e \in Exports |-> <<>>]
    /\ eng = [e \in Exports |-> "unknown"]
    /\ crashes = 0 /\ cancels = 0

--------------------------------------------------------------------------------
(* Commands.                                                               *)

\* execute: admission under the lock; the recovery manifest (ExportParts) is on
\* disk before the record exists.  A refused export leaves no trace.
Execute(e) ==
    /\ e \notin used
    /\ Cardinality({f \in Exports : Active(f)}) < MaxActive
    /\ used' = used \cup {e}
    /\ state' = [state EXCEPT ![e] = "queued"]
    /\ at' = [at EXCEPT ![<<"submit", e>>] = "submit"]
    /\ UNCHANGED <<written, order, unlisting, snap, failures, evicting,
                   history, engine>>

\* The engine accepts the submission and the export gets its poller.
Accepted(e) ==
    /\ at[<<"submit", e>>] = "submit"
    /\ eng' = [eng EXCEPT ![e] = "queued"]
    /\ at' = [at EXCEPT ![<<"submit", e>>] = "idle", ![<<"poll", e>>] = "ask"]
    /\ UNCHANGED <<records, order, unlisting, snap, failures, evicting, history,
                   crashes, cancels>>

\* A refused submission, or an accepted one whose poller cannot be spawned, is
\* marked failed by the submitting thread; nothing polls it.
NotPolled(e) ==
    /\ at[<<"submit", e>>] = "submit"
    /\ eng' \in {eng, [eng EXCEPT ![e] = "queued"]}
    /\ at' = [at EXCEPT ![<<"submit", e>>] = "mark"]
    /\ snap' = [snap EXCEPT ![<<"submit", e>>] = "failed"]
    /\ UNCHANGED <<records, order, unlisting, failures, evicting, history,
                   crashes, cancels>>

\* cancel asks the engine, whose reply is the status after the cancellation:
\* a queued export is cancelled at once, a running one later.
CancelledStatus(e) == IF eng[e] = "queued" THEN "cancelled" ELSE eng[e]

Cancel(e) ==
    /\ at[<<"cancel", e>>] = "idle"
    /\ cancels < MaxCancels /\ cancels' = cancels + 1
    /\ eng[e] # "unknown"
    /\ eng' = [eng EXCEPT ![e] = CancelledStatus(e)]
    /\ snap' = [snap EXCEPT ![<<"cancel", e>>] =
                    CancelledStatus(e)]
    /\ at' = [at EXCEPT ![<<"cancel", e>>] = "apply"]
    /\ UNCHANGED <<records, order, unlisting, failures, evicting, history,
                   crashes>>

\* release removes the record of a finished export, and in a second lock section
\* its place in the order.
Release(e) ==
    /\ WithRelease
    /\ Terminal(state[e])
    /\ state' = [state EXCEPT ![e] = "absent"]
    /\ unlisting' = unlisting \cup {e}
    /\ UNCHANGED <<written, used, order, threads, history, engine>>

Unlist(e) ==
    /\ e \in unlisting
    /\ unlisting' = unlisting \ {e}
    /\ order' = SelectSeq(order, LAMBDA id : id # e)
    /\ UNCHANGED <<records, threads, history, engine>>

--------------------------------------------------------------------------------
(* The poller.                                                             *)

\* A status poll reads the engine's answer; unknown means the export is lost.
Ask(e) ==
    LET th == <<"poll", e>>
    IN  /\ at[th] = "ask"
        /\ failures' = [failures EXCEPT ![e] = IF eng[e] = "unknown" THEN @ ELSE 0]
        /\ snap' = [snap EXCEPT ![th] =
               IF eng[e] = "unknown" THEN "failed"
               ELSE eng[e]]
        /\ at' = [at EXCEPT ![th] = IF eng[e] = "unknown" THEN "mark" ELSE "apply"]
        /\ UNCHANGED <<records, order, unlisting, evicting, history, engine>>

\* A failed poll is retried, until the limit of consecutive failures.
GivesUpAt(n) == n >= MaxFailures
Counted(e) == [failures EXCEPT ![e] = @ + 1]

AskFails(e) ==
    LET th == <<"poll", e>>
    IN  /\ at[th] = "ask"
        /\ failures' = Counted(e)
        /\ IF GivesUpAt(failures'[e])
           THEN /\ at' = [at EXCEPT ![th] = "mark"]
                /\ snap' = [snap EXCEPT ![th] = "failed"]
           ELSE UNCHANGED <<at, snap>>
        /\ UNCHANGED <<records, order, unlisting, evicting, history, engine>>

--------------------------------------------------------------------------------
(* What every thread does with a status.                                   *)

\* Where a thread goes when it is done with this status.
Continues(th) == IF th[1] = "poll" THEN "ask" ELSE "idle"
DoneWith(th) == [snap EXCEPT ![th] = NoStatus]

\* apply_status: the record takes over the status, unless its history is written.
Applies(e) == Present(e) /\ e \notin written

Apply(th) ==
    LET e == th[2]
    IN  /\ at[th] = "apply"
        /\ state' = [state EXCEPT ![e] = IF Applies(e) THEN snap[th] ELSE @]
        /\ IF Terminal(snap[th])
           THEN at' = [at EXCEPT ![th] = "mark"] /\ UNCHANGED snap
           ELSE at' = [at EXCEPT ![th] = Continues(th)] /\ snap' = DoneWith(th)
        /\ UNCHANGED <<written, used, order, unlisting, failures, evicting,
                       history, engine>>

\* mark_terminal: the first terminal transition owns the history row.
EveryoneOwns(e) == Present(e)                  \* mutant: every transition writes history
OwnsHistory(e) == Present(e) /\ e \notin written

MarkTerminal(th) ==
    LET e == th[2]
    IN  /\ at[th] = "mark"
        /\ IF OwnsHistory(e)
           THEN /\ state' = [state EXCEPT ![e] = snap[th]]
                /\ written' = written \cup {e}
                /\ at' = [at EXCEPT ![th] = "persist"] /\ UNCHANGED snap
           ELSE /\ at' = [at EXCEPT ![th] = "idle"] /\ snap' = DoneWith(th)
                /\ UNCHANGED <<state, written>>
        /\ UNCHANGED <<used, order, unlisting, failures, evicting,
                       history, engine>>

\* The history row is written outside the lock, and the manifest goes.
Persist(th) ==
    /\ at[th] = "persist"
    /\ history' = [history EXCEPT ![th[2]] = Append(@, snap[th])]
    /\ at' = [at EXCEPT ![th] = "push"]
    /\ snap' = DoneWith(th)
    /\ UNCHANGED <<records, order, unlisting, failures, evicting, engine>>

\* remember_terminal: push, take the oldest off beyond the limit, and in a second
\* lock section drop their records.
Overflow(o) == IF Len(o) > MaxTerminal THEN Len(o) - MaxTerminal ELSE 0

Push(th) ==
    LET e == th[2]
        o == Append(SelectSeq(order, LAMBDA id : id # e), e)
        n == Overflow(o)
    IN  /\ at[th] = "push"
        /\ order' = SubSeq(o, n + 1, Len(o))
        /\ evicting' = [evicting EXCEPT ![th] = {o[i] : i \in 1..n}]
        /\ at' = [at EXCEPT ![th] = IF n = 0 THEN "idle" ELSE "evict"]
        /\ UNCHANGED <<records, unlisting, snap, failures, history, engine>>

WithoutEvicted(th) == [e \in Exports |-> IF e \in evicting[th] THEN "absent" ELSE state[e]]

Evict(th) ==
    /\ at[th] = "evict"
    /\ state' = WithoutEvicted(th)
    /\ evicting' = [evicting EXCEPT ![th] = {}]
    /\ at' = [at EXCEPT ![th] = "idle"]
    /\ UNCHANGED <<written, used, order, unlisting, snap, failures, history, engine>>

--------------------------------------------------------------------------------
(* The engine, as the coordinator sees it.                                 *)

EngineAdvances(e) ==
    /\ \/ eng[e] = "queued" /\ eng' = [eng EXCEPT ![e] = "running"]
       \/ eng[e] = "running" /\ \E s \in TerminalStates : eng' = [eng EXCEPT ![e] = s]
    /\ UNCHANGED <<records, order, unlisting, threads, history,
                   crashes, cancels>>

\* A request of anyone finds the engine dead and starts another.
EngineDies ==
    /\ crashes < MaxCrashes
    /\ crashes' = crashes + 1
    /\ eng' = [e \in Exports |-> "unknown"]
    /\ UNCHANGED <<records, order, unlisting, threads, history, cancels>>

ThreadStep(th) == Apply(th) \/ MarkTerminal(th) \/ Persist(th) \/ Push(th) \/ Evict(th)
Submission(e) == Accepted(e) \/ NotPolled(e)
Poll(e) == Ask(e) \/ AskFails(e)

Next ==
    \/ \E e \in Exports : \/ Execute(e) \/ Cancel(e) \/ Release(e) \/ Unlist(e)
                          \/ Submission(e) \/ Poll(e)
                          \/ EngineAdvances(e)
    \/ \E th \in Threads : ThreadStep(th)
    \/ EngineDies

Spec == Init /\ [][Next]_vars

--------------------------------------------------------------------------------
(* Safety.                                                                 *)

\* An export has at most one history row, and from then on its view shows the
\* outcome that row records, whatever statuses still arrive.
HistoryIsTheOutcome ==
    \A e \in Exports :
        /\ Len(history[e]) <= 1
        /\ history[e] # <<>> /\ Present(e) => state[e] = history[e][1]

\* Finished records are bounded: each is in the order, whose length is limited,
\* or a thread is about to push or to drop it.
FinishedAreBounded ==
    /\ Len(order) <= MaxTerminal
    /\ \A e \in Exports : Present(e) /\ e \in written =>
          \/ \E i \in 1..Len(order) : order[i] = e
          \/ \E th \in Threads : \/ th[2] = e /\ at[th] \in {"persist", "push"}
                                 \/ e \in evicting[th]

\* An export whose record has no history yet is in the hands of its submitter,
\* its poller, or a thread about to write the row: none is forgotten half-way.
OutcomeHasOwner ==
    \A e \in Exports :
        /\ Present(e) /\ e \notin written => \E r \in {"submit", "poll"} : at[<<r, e>>] # "idle"
        /\ e \in written /\ history[e] = <<>> => \E r \in Roles : at[<<r, e>>] = "persist"

(* What a comment says, and the code does not do.                          *)

\* export/mod.rs:4: "persists one terminal export record": an export whose record
\* is gone has its history row.
ReleasedHaveHistory == \A e \in used : ~Present(e) => history[e] # <<>>
================================================================================
