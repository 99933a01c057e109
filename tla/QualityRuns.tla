------------------------------- MODULE QualityRuns -------------------------------
(***************************************************************************)
(* Quality runs: the coordinator of quality.rs between the check           *)
(* definitions and run history of metadata/quality.rs and the query jobs   *)
(* of the engine, with a poller per run.                                   *)
(*                                                                         *)
(* Commands run one at a time on the main thread; pollers interleave with  *)
(* them and with each other.  The metadata database is one connection      *)
(* behind a lock, so a repository call is one step.                        *)
(***************************************************************************)
EXTENDS Naturals, Sequences, FiniteSets

CONSTANTS
    Checks, Runs,
    HistoryLimit,   \* MAX_RUNS_PER_CHECK
    RecordLimit,    \* MAX_TERMINAL_EXECUTIONS
    PreviewLimit,   \* MAX_TRACKED_PREVIEWS
    RevisionLimit,  \* bound: revisions of a check
    UpsetLimit      \* bound: of what Upset counts

Ended == {"passed", "failed", "error", "cancelled"}
EngineStates == {"none", "queued", "running", "succeeded", "failed", "cancelled"}

VARIABLES
    revisions,      \* number of revisions of each check; 0: not there
    runRecord,      \* `executions`: check, revision, state, history_written
    poller,         \* where the poller of a run is: off, poll, page, or a step with its outcome
    runRows,        \* quality_check_runs, oldest first
    runOrder,       \* `terminal_order`
    count,          \* the engine's job for a run, with its result until it is released
    preview,        \* the engine's job for the failures of a run
    tracked,        \* `previews`
    dropped,        \* runs whose row was cleared or pruned
    upsets          \* counts towards UpsetLimit

runStore == <<revisions, runRows, dropped>>
runRegistry == <<runRecord, runOrder>>
runEngine == <<count, preview>>
qualityRunVars == <<runStore, runRegistry, poller, runEngine, tracked, upsets>>

NoRun == [check |-> CHOOSE c \in Checks : TRUE, revision |-> 0, state |-> "none", written |-> FALSE]
Upset == upsets < UpsetLimit /\ upsets' = upsets + 1
ActiveRun(r) == runRecord[r].state \in {"queued", "running"}
RowIds == {runRows[i].run : i \in DOMAIN runRows}
At(r, step, outcome) == poller[r] = <<step, outcome>>
Goto(r, step, outcome) == poller' = [poller EXCEPT ![r] = <<step, outcome>>]
Off == <<"off", "none">>

QualityTypeOK ==
    /\ revisions \in [Checks -> 0..RevisionLimit]
    /\ runRecord \in [Runs -> [check : Checks, revision : 0..RevisionLimit,
                               state : Ended \cup {"none", "queued", "running"}, written : BOOLEAN]]
    /\ count \in [Runs -> EngineStates] /\ preview \in [Runs -> EngineStates]
    /\ tracked \subseteq Runs /\ dropped \subseteq Runs
    /\ \A i \in DOMAIN runRows : runRows[i].run \in Runs /\ runRows[i].outcome \in Ended

QualityRunInit ==
    /\ revisions = [c \in Checks |-> 0] /\ runRows = <<>> /\ dropped = {}
    /\ runRecord = [r \in Runs |-> NoRun] /\ runOrder = <<>>
    /\ poller = [r \in Runs |-> Off]
    /\ count = [r \in Runs |-> "none"] /\ preview = [r \in Runs |-> "none"]
    /\ tracked = {} /\ upsets = 0

--------------------------------------------------------------------------------
(* Definitions.                                                            *)

CreateCheck(c) ==
    /\ revisions[c] = 0 /\ \A r \in Runs : runRecord[r].check = c => runRecord[r].state = "none"
    /\ revisions' = [revisions EXCEPT ![c] = 1]
    /\ UNCHANGED <<runRows, dropped, runRegistry, poller, runEngine, tracked, upsets>>

\* An edit adds a revision; the earlier ones stay.
UpdateCheck(c) ==
    /\ revisions[c] \in 1..(RevisionLimit - 1)
    /\ revisions' = [revisions EXCEPT ![c] = @ + 1]
    /\ UNCHANGED <<runRows, dropped, runRegistry, poller, runEngine, tracked, upsets>>

\* delete_quality_check: refused while a run of the check is active, or has a row.
WithoutHistory(c) == \A i \in DOMAIN runRows : runRows[i].check # c

DeleteCheck(c) ==
    /\ revisions[c] > 0
    /\ ~\E r \in Runs : runRecord[r].check = c /\ ActiveRun(r)
    /\ WithoutHistory(c)
    /\ revisions' = [revisions EXCEPT ![c] = 0]
    /\ UNCHANGED <<runRows, dropped, runRegistry, poller, runEngine, tracked, upsets>>

ClearHistory(c) ==
    /\ \E i \in DOMAIN runRows : runRows[i].check = c
    /\ runRows' = SelectSeq(runRows, LAMBDA x : x.check # c)
    /\ dropped' = dropped \cup {runRows[i].run : i \in {n \in DOMAIN runRows : runRows[n].check = c}}
    /\ UNCHANGED <<revisions, runRegistry, poller, runEngine, tracked, upsets>>

--------------------------------------------------------------------------------
(* The end of a run.                                                       *)

\* add_run: the row refers to a revision that is there; the oldest rows of the check go.
OwnsRevision(r) == runRecord[r].revision \in 1..revisions[runRecord[r].check]

Stored(r, c, n, outcome) ==
    LET all == Append(runRows, [run |-> r, check |-> c, revision |-> n, outcome |-> outcome])
        mine == {i \in DOMAIN all : all[i].check = c}
        old == {all[i].run : i \in {k \in mine : Cardinality({j \in mine : j > k}) >= HistoryLimit}}
    IN  /\ runRows' = SelectSeq(all, LAMBDA x : x.run \notin old)
        /\ dropped' = dropped \cup old

\* remember_terminal
RunsRemembered(r) == Append(SelectSeq(runOrder, LAMBDA x : x # r), r)
RunsEvicted(r) == IF Len(RunsRemembered(r)) > RecordLimit THEN {Head(RunsRemembered(r))} ELSE {}
RememberRun(r, records) ==
    /\ runOrder' = IF RunsEvicted(r) = {} THEN RunsRemembered(r) ELSE Tail(RunsRemembered(r))
    /\ runRecord' = [x \in Runs |-> IF x \in RunsEvicted(r) /\ records[x].state \in Ended THEN NoRun ELSE records[x]]

\* mark_terminal, in the lock: one outcome for a run ...
Marked(r, s) == IF runRecord[r].written \/ runRecord[r].state = "none" THEN runRecord
                ELSE [runRecord EXCEPT ![r].state = s, ![r].written = TRUE]

MarkTerminal(r, s) ==
    /\ At(r, "mark", s)
    /\ runRecord' = Marked(r, s)
    /\ IF runRecord' # runRecord THEN Goto(r, "row", s) ELSE poller' = [poller EXCEPT ![r] = Off]
    /\ UNCHANGED <<runStore, runOrder, runEngine, tracked, upsets>>

\* ... and the row outside it: without a row the run is an error that may be told again.
KeptOutcome(r) == runRecord                    \* mutant: the outcome stands without its row
Unstored(r) == [runRecord EXCEPT ![r].state = "error", ![r].written = FALSE]


AddRun(r, s) ==
    /\ At(r, "row", s)
    /\ poller' = [poller EXCEPT ![r] = Off]
    /\ \/ /\ OwnsRevision(r) /\ Stored(r, runRecord[r].check, runRecord[r].revision, s) /\ RememberRun(r, runRecord) /\ UNCHANGED upsets
       \/ /\ ~OwnsRevision(r)
          /\ runRecord' = Unstored(r) /\ UNCHANGED <<runRows, dropped, runOrder, upsets>>
       \/ /\ Upset
          /\ runRecord' = Unstored(r) /\ UNCHANGED <<runRows, dropped, runOrder>>
    /\ UNCHANGED <<revisions, runEngine, tracked>>

--------------------------------------------------------------------------------
(* Starting a run.                                                         *)

Fresh(r) == runRecord[r].state = "none" /\ r \notin RowIds \cup dropped /\ count[r] = "none"
Queued(r, c, n) == [runRecord EXCEPT ![r] = [check |-> c, revision |-> n, state |-> "queued", written |-> FALSE]]

\* submit: the engine takes the query, and a poller follows it.
Submitted(r, c, n) ==
    /\ runRecord' = Queued(r, c, n)
    /\ count' = [count EXCEPT ![r] = "queued"]
    /\ Goto(r, "poll", "none")
    /\ UNCHANGED <<runStore, runOrder, preview, tracked, upsets>>

\* A definition that is invalid, a query the engine refuses, and one that got no poller end
\* in an error, whose row the command writes.
NotFollowed(r, c, n) ==
    LET ended == [Queued(r, c, n) EXCEPT ![r].state = "error", ![r].written = TRUE]
    IN  /\ Upset
        /\ count' \in {count, [count EXCEPT ![r] = "queued"]}
        /\ \/ Stored(r, c, n, "error") /\ RememberRun(r, ended)
           \/ runRecord' = [ended EXCEPT ![r].written = FALSE] /\ UNCHANGED <<runRows, dropped, runOrder>>
        /\ UNCHANGED <<revisions, poller, preview, tracked>>

\* run_check, and each enabled check of run_suite in turn: the latest revision.
RunCheck(r, c) ==
    /\ Fresh(r) /\ revisions[c] > 0
    /\ Submitted(r, c, revisions[c]) \/ NotFollowed(r, c, revisions[c])

\* run_revision: what an earlier run was.
RunRevision(r, i) ==
    /\ Fresh(r) /\ i \in DOMAIN runRows
    /\ Submitted(r, runRows[i].check, runRows[i].revision) \/ NotFollowed(r, runRows[i].check, runRows[i].revision)

--------------------------------------------------------------------------------
(* poll_until_terminal.                                                    *)

\* A tick sees the engine's job, or, the third time it cannot, gives up.
Poll(r) ==
    /\ At(r, "poll", "none")
    /\ \/ /\ count[r] \in {"queued", "running"}
          /\ runRecord' = IF runRecord[r].state = "none" THEN runRecord
                          ELSE [runRecord EXCEPT ![r].state = count[r]]
          /\ UNCHANGED <<poller, upsets>>
       \/ count[r] = "succeeded" /\ Goto(r, "page", "none") /\ UNCHANGED <<runRecord, upsets>>
       \/ count[r] = "failed" /\ Goto(r, "release", "error") /\ UNCHANGED <<runRecord, upsets>>
       \/ count[r] = "cancelled" /\ Goto(r, "release", "cancelled") /\ UNCHANGED <<runRecord, upsets>>
       \/ count[r] = "none" /\ Goto(r, "mark", "error") /\ UNCHANGED <<runRecord, upsets>>
       \/ Upset /\ Goto(r, "mark", "error") /\ UNCHANGED runRecord
    /\ UNCHANGED <<runStore, runOrder, runEngine, tracked>>

\* finish_success: the count of failing rows is on the first page, if it can be read.
ReadCount(r) ==
    /\ At(r, "page", "none")
    /\ \E s \in (IF count[r] = "succeeded" THEN {"passed", "failed", "error"} ELSE {"error"}) : Goto(r, "release", s)
    /\ UNCHANGED <<runStore, runRegistry, runEngine, tracked, upsets>>

ReleaseCount(r, s) ==
    /\ At(r, "release", s)
    /\ count' = [count EXCEPT ![r] = "none"]
    /\ Goto(r, "mark", s)
    /\ UNCHANGED <<runStore, runRegistry, preview, tracked, upsets>>

--------------------------------------------------------------------------------
(* Cancellation, previews and the engine.                                  *)

Stop(state) == IF state \in {"queued", "running"} THEN "cancelled" ELSE state

\* cancel asks the engine; the poller sees the rest.
CancelRun(r) ==
    /\ ActiveRun(r) /\ count[r] \in {"queued", "running"}
    /\ count' = [count EXCEPT ![r] = Stop(@)]
    /\ UNCHANGED <<runStore, runRegistry, poller, preview, tracked, upsets>>

\* start_failure_preview of a failed run.
StartPreview(r) ==
    /\ \E i \in DOMAIN runRows : runRows[i].run = r /\ runRows[i].outcome = "failed"
    /\ Cardinality(tracked) < PreviewLimit /\ preview[r] = "none"
    /\ preview' = [preview EXCEPT ![r] = "queued"]
    /\ tracked' = tracked \cup {r}
    /\ UNCHANGED <<runStore, runRegistry, poller, count, upsets>>

CancelPreview(r) ==
    /\ preview[r] \in {"queued", "running"}
    /\ preview' = [preview EXCEPT ![r] = Stop(@)]
    /\ UNCHANGED <<runStore, runRegistry, poller, count, tracked, upsets>>

\* release_preview: the engine refuses one that runs, and then it stays tracked.
ReleasePreview(r) ==
    /\ r \in tracked /\ preview[r] \notin {"queued", "running"}
    /\ preview' = [preview EXCEPT ![r] = "none"]
    /\ tracked' = tracked \ {r}
    /\ UNCHANGED <<runStore, runRegistry, poller, count, upsets>>

NextJobState(s) ==
    CASE s = "queued" -> {"running"} [] s = "running" -> {"succeeded", "failed"} [] OTHER -> {}

EngineMoves(r) ==
    /\ \/ /\ \E s \in NextJobState(count[r]) : count' = [count EXCEPT ![r] = s]
          /\ UNCHANGED preview
       \/ /\ \E s \in NextJobState(preview[r]) : preview' = [preview EXCEPT ![r] = s]
          /\ UNCHANGED count
    /\ UNCHANGED <<runStore, runRegistry, poller, tracked, upsets>>

\* A new engine process knows nothing of what the lost one did.
EngineIsLost ==
    /\ Upset
    /\ count' = [r \in Runs |-> "none"] /\ preview' = [r \in Runs |-> "none"]
    /\ UNCHANGED <<runStore, runRegistry, poller, tracked>>

--------------------------------------------------------------------------------
QualityRunNext ==
    \/ \E c \in Checks : CreateCheck(c) \/ UpdateCheck(c) \/ DeleteCheck(c) \/ ClearHistory(c)
    \/ \E r \in Runs, c \in Checks : RunCheck(r, c)
    \/ \E r \in Runs, i \in DOMAIN runRows : RunRevision(r, i)
    \/ \E r \in Runs : \/ Poll(r) \/ ReadCount(r) \/ CancelRun(r) \/ StartPreview(r) \/ CancelPreview(r)
                       \/ ReleasePreview(r) \/ EngineMoves(r)
    \/ \E r \in Runs, s \in Ended : ReleaseCount(r, s) \/ MarkTerminal(r, s) \/ AddRun(r, s)
    \/ EngineIsLost

QualityRunSpec == QualityRunInit /\ [][QualityRunNext]_qualityRunVars

--------------------------------------------------------------------------------
(* Properties.                                                             *)

\* A run that is told to have passed, failed or been cancelled is settled once its poller
\* is done: the history says the same, unless the user cleared it or newer runs pushed it
\* out, and the engine keeps nothing of it, whatever was edited, deleted, lost or
\* cancelled while the poller was between its steps.
ToldRunsAreSettled ==
    \A r \in Runs : (runRecord[r].state \in Ended \ {"error"} /\ poller[r] = Off) =>
        /\ count[r] = "none"
        /\ \/ r \in dropped
           \/ \E i \in DOMAIN runRows : runRows[i].run = r /\ runRows[i].outcome = runRecord[r].state

\* Every row of the history is evidence for a revision that is there, once per run and
\* within the limit of its check, though a check may be deleted between the end of its
\* run and the row.
HistoryHasItsRevision ==
    /\ \A i \in DOMAIN runRows : runRows[i].revision \in 1..revisions[runRows[i].check]
    /\ \A i, j \in DOMAIN runRows : runRows[i].run = runRows[j].run => i = j
    /\ \A c \in Checks : Cardinality({i \in DOMAIN runRows : runRows[i].check = c}) <= HistoryLimit

================================================================================
