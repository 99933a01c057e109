------------------------------- MODULE EngineWork -------------------------------
(***************************************************************************)
(* Imports and profiles of the DuckDB sidecar, import_jobs.rs and          *)
(* profile.rs, with the gates of main.rs that keep the kinds of work of    *)
(* one session apart, and the transaction of sources.rs.                   *)
(*                                                                         *)
(* The dispatch loop is one thread; each import and each profile has a     *)
(* thread of its own.  A registry's lock section, a DuckDB statement and   *)
(* the end of a thread are one action each.  Queries and exports, modelled *)
(* by EngineJobs and EngineExports, appear here as work that is queued,    *)
(* runs and ends.                                                          *)
(***************************************************************************)
EXTENDS Naturals, Sequences, FiniteSets

CONSTANTS
    Sessions,
    Imports, Profiles, Others,  \* ids of imports, profiles, queries and exports
    NoSession,
    WorkLimit,      \* TERMINAL_IMPORT_LIMIT, TERMINAL_PROFILE_LIMIT
    Levels          \* resource settings

Threads == Imports \cup Profiles
Works == Threads \cup Others
Kind(w) == IF w \in Imports THEN Imports ELSE Profiles
ActiveStates == {"queued", "running"}
TerminalStates == {"succeeded", "failed", "cancelled", "recovery_required"}
ImportPoints == {"check", "create", "count", "commit", "rollback"}
ProfilePoints == {"inspect", "measure", "confirm"}
Points == {"none", "claim", "judge", "mark", "remember", "leave"} \cup ImportPoints \cup ProfilePoints
NoVerdict == "none"

VARIABLES
    open,           \* sessions that hold a connection
    settings,       \* `effective_resources` of each session
    state,          \* state of a record, "absent" without one
    owner,          \* the session it was submitted to, NoSession before that
    requested,      \* running records with `cancel_requested`; nobody reads another's
    order,          \* `terminal_order` of either registry
    pc, verdict,    \* where each thread is, the state it is about to record
    txn,            \* imports whose connection has an open transaction
    tables,         \* imports whose table is in the database
    closing,        \* the session `session.close` works on, or NoSession
    passed,         \* its imports are over, the rest is being cancelled
    toCancel,       \* ids its `cancel_session` still has to cancel
    toRemember      \* id a cancellation still has to remember, as a set

records == <<state, owner, requested>>
threads == <<pc, verdict>>
database == <<txn, tables>>
dispatcher == <<closing, passed, toCancel, toRemember>>
vars == <<open, settings, records, order, threads, database, dispatcher>>

Active(w) == state[w] \in ActiveStates
Terminal(w) == state[w] \in TerminalStates
ActiveIn(s, kind) == \E w \in kind : owner[w] = s /\ Active(w)
DispatchIdle == closing = NoSession /\ toRemember = {}
Goto(w, p) == pc' = [pc EXCEPT ![w] = p]
Decides(w, v) == verdict' = [verdict EXCEPT ![w] = v]

TypeOK ==
    /\ open \subseteq Sessions
    /\ settings \in [Sessions -> Levels]
    /\ state \in [Works -> {"absent"} \cup ActiveStates \cup TerminalStates]
    /\ owner \in [Works -> Sessions \cup {NoSession}]
    /\ requested \subseteq Threads
    /\ order \in [{Imports, Profiles} -> Seq(Threads)]
    /\ pc \in [Threads -> Points]
    /\ verdict \in [Threads -> TerminalStates \cup {NoVerdict}]
    /\ txn \subseteq Imports /\ tables \subseteq Imports
    /\ closing \in Sessions \cup {NoSession} /\ passed \in BOOLEAN
    /\ toCancel \subseteq Works /\ toRemember \subseteq Threads

Init ==
    /\ open = {}
    /\ settings \in [Sessions -> Levels]
    /\ state = [w \in Works |-> "absent"]
    /\ owner = [w \in Works |-> NoSession]
    /\ requested = {}
    /\ order = [k \in {Imports, Profiles} |-> <<>>]
    /\ pc = [w \in Threads |-> "none"]
    /\ verdict = [w \in Threads |-> NoVerdict]
    /\ txn = {} /\ tables = {}
    /\ closing = NoSession /\ passed = FALSE /\ toCancel = {} /\ toRemember = {}

--------------------------------------------------------------------------------
(* The gates of the dispatch loop.                                         *)

\* Whatever names a session is refused while an import is active there.
NoImport(s) == ~ActiveIn(s, Imports)
\* Imports, mutations and settings tolerate no other work, profiles included ...
IgnoresProfiles(s) == NoImport(s) /\ ~ActiveIn(s, Others)    \* mutant: one registry forgotten
Unshared(s) == NoImport(s) /\ ~ActiveIn(s, Others) /\ ~ActiveIn(s, Profiles)
\* ... nor do profiles; queries and exports only look for profiles.
ProfileMayStart(s) == NoImport(s) /\ ~ActiveIn(s, Others) /\ ~ActiveIn(s, Profiles)
MayShare(s) == NoImport(s) /\ ~ActiveIn(s, Profiles)

\* session.open replaces a session of the same id; a failed open leaves none.
OpenSession(s) ==
    /\ DispatchIdle /\ NoImport(s)
    /\ open' \in {open \cup {s}, open \ {s}}
    /\ \E l \in Levels : settings' = [settings EXCEPT ![s] = l]
    /\ UNCHANGED <<records, order, threads, database, dispatcher>>

\* session.configure applies new settings, or restores the previous ones.
Configure(s) ==
    /\ DispatchIdle /\ s \in open /\ Unshared(s)
    /\ \E l \in Levels : settings' = [settings EXCEPT ![s] = l]
    /\ UNCHANGED <<open, records, order, threads, database, dispatcher>>

\* The thread that is spawned with a record.
Spawned(w) == [pc EXCEPT ![w] = "claim"]

\* A new record, and its thread; without the thread there is no record either.
Admit(w, s) ==
    /\ DispatchIdle /\ s \in open
    /\ owner[w] = NoSession
    /\ state' = [state EXCEPT ![w] = "queued"]
    /\ owner' = [owner EXCEPT ![w] = s]

ExecuteImport(i, s) ==
    /\ Admit(i, s) /\ Unshared(s)
    /\ pc' = Spawned(i)
    /\ UNCHANGED <<open, settings, requested, order, verdict, database, dispatcher>>

ExecuteProfile(p, s) ==
    /\ Admit(p, s) /\ ProfileMayStart(s)
    /\ pc' = Spawned(p)
    /\ UNCHANGED <<open, settings, requested, order, verdict,
                   database, dispatcher>>

\* query.execute, export.execute
ExecuteOther(o, s) ==
    /\ Admit(o, s) /\ MayShare(s)
    /\ UNCHANGED <<open, settings, requested, order, threads,
                   database, dispatcher>>

--------------------------------------------------------------------------------
(* Cancellation, by the dispatch loop.                                     *)

\* A queued import becomes cancelled and is remembered in a second lock section;
\* a running one is flagged and its connection interrupted.
CancelImport(i) ==
    \/ /\ state[i] = "queued"
       /\ state' = [state EXCEPT ![i] = "cancelled"]
       /\ toRemember' = {i}
       /\ UNCHANGED requested
    \/ /\ state[i] = "running"
       /\ requested' = requested \cup {i}
       /\ UNCHANGED <<state, toRemember>>
    \/ ~Active(i) /\ UNCHANGED <<state, requested, toRemember>>

\* Likewise for a profile.
CancelProfile(p) ==
    \/ /\ state[p] = "queued"
       /\ state' = [state EXCEPT ![p] = "cancelled"]
       /\ toRemember' = {p}
       /\ UNCHANGED requested
    \/ /\ state[p] = "running"
       /\ requested' = requested \cup {p}
       /\ UNCHANGED <<state, toRemember>>
    \/ ~Active(p) /\ UNCHANGED <<state, requested, toRemember>>

\* A queued query or export is cancelled; a running one ends when its worker does.
CancelOther(o) ==
    /\ state' = [state EXCEPT ![o] = IF @ = "queued" THEN "cancelled" ELSE @]
    /\ UNCHANGED <<requested, toRemember>>

CancelWork(w) ==
    \/ w \in Imports /\ CancelImport(w)
    \/ w \in Profiles /\ CancelProfile(w)
    \/ w \in Others /\ CancelOther(w)

\* import.cancel, profile.cancel
Cancel(w) ==
    /\ DispatchIdle /\ Active(w)
    /\ CancelWork(w)
    /\ UNCHANGED <<open, settings, owner, order, threads, database,
                   closing, passed, toCancel>>

\* remember_terminal: push once, drop the oldest beyond the limit.
Beyond(line) == IF Len(line) > WorkLimit THEN Len(line) - WorkLimit ELSE 0

Remember(w) ==
    LET k == Kind(w)
        known == \E n \in DOMAIN order[k] : order[k][n] = w
        line == IF known THEN order[k] ELSE Append(order[k], w)
        cut == Beyond(line)
    IN  /\ order' = [order EXCEPT ![k] = SubSeq(line, cut + 1, Len(line))]
        /\ state' = [v \in Works |->
                        IF \E n \in 1..cut : line[n] = v THEN "absent" ELSE state[v]]

RememberCancelled(w) ==
    /\ w \in toRemember
    /\ Remember(w)
    /\ toRemember' = {}
    /\ UNCHANGED <<open, settings, owner, requested, threads, database,
                   closing, passed, toCancel>>

\* session.close cancels the session's imports first ...
OfSession(s, kind) == {w \in kind : owner[w] = s /\ state[w] # "absent"}

CloseBegin(s) ==
    /\ DispatchIdle /\ s \in open
    /\ closing' = s
    /\ toCancel' = OfSession(s, Imports)
    /\ UNCHANGED <<open, settings, records, order, threads, database, passed, toRemember>>

CloseCancelOne(w) ==
    /\ w \in toCancel /\ toRemember = {}
    /\ toCancel' = toCancel \ {w}
    /\ CancelWork(w)
    /\ UNCHANGED <<open, settings, owner, order, threads, database, closing, passed>>

\* ... and refuses while one is still active; nothing else has been cancelled then.
MayClose(s) == NoImport(s)

CloseRefused(s) ==
    /\ closing = s /\ ~passed /\ toCancel = {} /\ toRemember = {}
    /\ ~MayClose(s)
    /\ closing' = NoSession
    /\ UNCHANGED <<open, settings, records, order, threads, database, passed, toCancel, toRemember>>

\* Otherwise it cancels everything else ...
ClosePasses(s) ==
    /\ closing = s /\ ~passed /\ toCancel = {} /\ toRemember = {}
    /\ MayClose(s)
    /\ passed' = TRUE
    /\ toCancel' = OfSession(s, Profiles \cup Others)
    /\ UNCHANGED <<open, settings, records, order, threads, database, closing, toRemember>>

\* ... and drops the connection.
CloseEnds(s) ==
    /\ closing = s /\ passed /\ toCancel = {} /\ toRemember = {}
    /\ open' = open \ {s}
    /\ closing' = NoSession /\ passed' = FALSE
    /\ UNCHANGED <<settings, records, order, threads, database, toCancel, toRemember>>

--------------------------------------------------------------------------------
(* The thread of an import: `run_import` and `import_table_checked`.       *)

\* Claim: a record that is no longer queued, or gone, ends the thread.
StillQueued(w) == state[w] = "queued"

Claim(w) ==
    /\ pc[w] = "claim"
    /\ IF StillQueued(w)
       THEN /\ state' = [state EXCEPT ![w] = "running"]
            /\ Goto(w, IF w \in Imports THEN "check" ELSE "inspect")
       ELSE Goto(w, "none") /\ UNCHANGED state
    /\ UNCHANGED <<open, settings, owner, requested, order, verdict,
                   database, dispatcher>>

\* A point that can fail: an error goes one way, a panic ends in its own judgement.
ImportStep(i, from, to) ==
    /\ pc[i] = from
    /\ Goto(i, to)
    /\ UNCHANGED <<open, settings, records, order, verdict, dispatcher>>

\* Options, format, size and projection are checked before the transaction.
CheckSource(i) ==
    /\ \/ ImportStep(i, "check", "create")
       \/ ImportStep(i, "check", "judge")
    /\ UNCHANGED database

\* CREATE TABLE ... AS SELECT, in a transaction.
CreateTable(i) ==
    /\ ImportStep(i, "create", "count") \/ ImportStep(i, "create", "rollback")
    /\ txn' = txn \cup {i}
    /\ UNCHANGED tables

CountRows(i) ==
    /\ ImportStep(i, "count", "commit") \/ ImportStep(i, "count", "rollback")
    /\ UNCHANGED database

\* A panic in either leaves the transaction open until the thread ends.
Panics(i) ==
    /\ ImportStep(i, "create", "judge") \/ ImportStep(i, "count", "judge")
    /\ txn' = txn \cup {i}
    /\ UNCHANGED tables

\* COMMIT: after an error nobody knows whether the table is there.
FailsOnCommit == "failed"                      \* mutant: a commit error is an ordinary error
OnCommitError == "recovery_required"

Commit(i) ==
    /\ pc[i] = "commit"
    /\ \/ tables' = tables \cup {i} /\ Decides(i, "succeeded")
       \/ tables' \in {tables, tables \cup {i}} /\ Decides(i, OnCommitError)
    /\ txn' = txn \ {i}
    /\ Goto(i, "mark")
    /\ UNCHANGED <<open, settings, records, order, dispatcher>>

\* ROLLBACK: an error there asks for recovery as well.
Rollback(i) ==
    /\ pc[i] = "rollback"
    /\ \/ txn' = txn \ {i} /\ Goto(i, "judge") /\ UNCHANGED verdict
       \/ Goto(i, "mark") /\ Decides(i, "recovery_required") /\ UNCHANGED txn
    /\ UNCHANGED <<open, settings, records, order, tables, dispatcher>>

--------------------------------------------------------------------------------
(* The thread of a profile: `run_profile` and `execute_profile`.           *)

\* The catalog is inspected, the columns are measured, the catalog is inspected
\* again; any of it may fail, the catalog having changed or the deadline passed.
Profile(p) ==
    /\ \/ pc[p] = "inspect" /\ pc' \in {[pc EXCEPT ![p] = q] : q \in {"measure", "judge"}} /\ UNCHANGED verdict
       \/ pc[p] = "measure" /\ pc' \in {[pc EXCEPT ![p] = q] : q \in {"confirm", "judge"}} /\ UNCHANGED verdict
       \/ pc[p] = "confirm" /\ Goto(p, "judge") /\ UNCHANGED verdict
       \/ pc[p] = "confirm" /\ Goto(p, "mark") /\ Decides(p, "succeeded")
    /\ UNCHANGED <<open, settings, records, order, database, dispatcher>>

--------------------------------------------------------------------------------
(* The end of a thread.                                                    *)

\* An error or a panic is a cancellation if one was asked for.
Outcome(w) == IF w \in requested THEN "cancelled" ELSE "failed"

Judge(w) ==
    /\ pc[w] = "judge"
    /\ Decides(w, Outcome(w))
    /\ Goto(w, "mark")
    /\ UNCHANGED <<open, settings, records, order, database, dispatcher>>

\* mark_terminal: a terminal record keeps its state, and is not remembered again.
MarkImport(i) ==
    /\ i \in Imports /\ pc[i] = "mark"
    /\ IF Active(i)
       THEN state' = [state EXCEPT ![i] = verdict[i]] /\ Goto(i, "remember")
       ELSE Goto(i, "leave") /\ UNCHANGED state
    /\ requested' = requested \ {i}
    /\ UNCHANGED <<open, settings, owner, order, verdict,
                   database, dispatcher>>

\* `terminal`, likewise, except that a profile without a record is remembered too.
MarkProfile(p) ==
    /\ p \in Profiles /\ pc[p] = "mark"
    /\ IF Active(p)
       THEN state' = [state EXCEPT ![p] = verdict[p]] /\ Goto(p, "remember")
       ELSE Goto(p, IF Terminal(p) THEN "leave" ELSE "remember") /\ UNCHANGED state
    /\ requested' = requested \ {p}
    /\ UNCHANGED <<open, settings, owner, order, verdict,
                   database, dispatcher>>

RememberEnded(w) ==
    /\ pc[w] = "remember"
    /\ Remember(w)
    /\ Goto(w, IF w \in txn THEN "leave" ELSE "none") /\ Decides(w, NoVerdict)
    /\ UNCHANGED <<open, settings, owner, requested, database, dispatcher>>

\* The thread's connection is dropped, and with it a transaction still open (a step
\* of its own only for those).
Leave(w) ==
    /\ pc[w] = "leave"
    /\ Goto(w, "none") /\ Decides(w, NoVerdict)
    /\ txn' = txn \ {w}
    /\ UNCHANGED <<open, settings, records, order, tables, dispatcher>>

\* Queries and exports start and end by their session's worker.
OtherRuns(o) ==
    /\ state[o] = "queued"
    /\ state' = [state EXCEPT ![o] = "running"]
    /\ UNCHANGED <<open, settings, owner, requested, order, threads,
                   database, dispatcher>>

OtherEnds(o) ==
    /\ state[o] = "running"
    /\ state' \in {[state EXCEPT ![o] = v] : v \in {"succeeded", "cancelled"}}
    /\ UNCHANGED <<open, settings, owner, requested, order, threads,
                   database, dispatcher>>

--------------------------------------------------------------------------------
Request ==
    \/ \E s \in Sessions :
        \/ OpenSession(s) \/ Configure(s) \/ CloseBegin(s)
        \/ \E i \in Imports : ExecuteImport(i, s)
        \/ \E p \in Profiles : ExecuteProfile(p, s)
        \/ \E o \in Others : ExecuteOther(o, s)
    \/ \E w \in Threads : Cancel(w)

DispatchStep ==
    \/ \E s \in Sessions : CloseRefused(s) \/ ClosePasses(s) \/ CloseEnds(s)
    \/ \E w \in Works : CloseCancelOne(w)
    \/ \E w \in Threads : RememberCancelled(w)

ImportThread(i) ==
    \/ CheckSource(i) \/ CreateTable(i) \/ CountRows(i) \/ Panics(i) \/ Commit(i) \/ Rollback(i)
    \/ MarkImport(i)

ThreadStep(w) ==
    \/ Claim(w) \/ Judge(w) \/ RememberEnded(w) \/ Leave(w)
    \/ w \in Imports /\ ImportThread(w)
    \/ w \in Profiles /\ (Profile(w) \/ MarkProfile(w))

Next ==
    \/ Request \/ DispatchStep
    \/ \E w \in Threads : ThreadStep(w)
    \/ \E o \in Others : OtherRuns(o) \/ OtherEnds(o)

Spec == Init /\ [][Next]_vars

--------------------------------------------------------------------------------
(* Safety.                                                                 *)

\* The registry tells what happened to the database: a succeeded import's table is
\* there, a failed or cancelled one's is not and never will be, also when the
\* cancellation or the failure fell into the transaction.
ImportOutcomeIsDatabase ==
    \A i \in Imports :
        /\ state[i] = "succeeded" => i \in tables
        /\ state[i] \in {"failed", "cancelled"} => i \notin tables /\ pc[i] # "commit"

\* While an import is active its session stays open, with the settings it had: what
\* the import reports as effective is what it ran under: no close, re-open or configure slips between.
ImportKeepsSession ==
    [][\A i \in Imports : Active(i) =>
            owner[i] \in open' /\ settings'[owner[i]] = settings[owner[i]]]_vars

\* `terminal_order` lists exactly the finished records, each once, within the limit,
\* but for those whose second lock section is still to come: what is dropped is
\* finished, what is kept can be dropped later.
HistoryIsExact ==
    \A k \in {Imports, Profiles} :
        LET listed == {order[k][n] : n \in DOMAIN order[k]}
        IN  /\ Cardinality(listed) = Len(order[k]) /\ Len(order[k]) <= WorkLimit
            /\ \A w \in k : w \in listed => Terminal(w)
            /\ \A w \in k : Terminal(w) /\ pc[w] # "remember" /\ w \notin toRemember
                                => w \in listed

\* An active record has a thread that will end it, and a thread past its claim an
\* active record: no refused spawn, cancellation or close strands the session.
ActiveHasThread ==
    \A w \in Threads :
        /\ Active(w) => pc[w] # "none"
        /\ pc[w] \in ImportPoints \cup ProfilePoints \cup {"judge", "mark"} => state[w] = "running"

\* A record that reached an outcome keeps it until it is dropped, although the
\* dispatch loop and the record's thread both end it.
OutcomeIsFinal ==
    [][\A w \in Threads : Terminal(w) => state'[w] \in {state[w], "absent"}]_vars

\* The kinds of work of one session exclude each other as the abstract rule says,
\* whatever requests arrive in whatever order.
Sharing == INSTANCE SessionSharing
    WITH Exclusives <- Threads, Shared <- Others,
         at <- [s \in Sessions |-> {w \in Works : owner[w] = s /\ Active(w)}]
ImplementsSharing == Sharing!Spec
================================================================================
