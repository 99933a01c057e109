------------------------------ MODULE AgentQueries ------------------------------
(***************************************************************************)
(* The SafeRead lane of agent_access.rs: queries that paired agents submit *)
(* from classified SQL snapshots, their one-at-a-time admission to the     *)
(* engine, status, cancellation, page reads, release, deadlines and the    *)
(* cleanup after a disconnect, a revocation or a project close.            *)
(*                                                                         *)
(* Threads: one per agent connection, the bridge's reaper, and the         *)
(* desktop's main thread.  A request is a lock section and then a sequence *)
(* of steps, `agenda`, each one lock section or one engine call: what a    *)
(* thread decided in one step may be stale in the next.  All queries are   *)
(* of one project.  Executions are numbered in the order of admission.     *)
(***************************************************************************)
EXTENDS Naturals, Sequences, FiniteSets, SequencesExt

CONSTANTS
    Connections, Reaper, Desktop,   \* the threads
    Profiles,                       \* paired clients, numbers in the order of their ids
    ProfileOf,                      \* the client a connection authenticated as
    Snapshots, SnapshotOf,          \* classified SQL, and the connection that classified it
    NoSnapshot,
    MaxExecutions,                  \* bound: queries submitted in a behaviour
    OutstandingLimit, ResultLimit,  \* limits of a profile
    ResultBytes, CacheBytes,        \* most a result takes, and all results of a profile
    MaxBusy,                        \* bound: threads in the middle of a request
    MaxEvents                       \* bound: of what Event counts, in a behaviour

ASSUME QueryConstants ==
    /\ Reaper # Desktop /\ Reaper \notin Connections /\ Desktop \notin Connections
    /\ IsFiniteSet(Connections) /\ Profiles \subseteq Nat \ {0} /\ ProfileOf \in [Connections -> Profiles]
    /\ SnapshotOf \in [Snapshots -> Connections] /\ NoSnapshot \notin Snapshots
    /\ MaxExecutions \in Nat

Executions == 1..MaxExecutions
Threads == Connections \cup {Reaper, Desktop}
ActiveStates == {"queued", "running"}
TerminalStates == {"succeeded", "failed", "cancelled"}
Work == {"none"} \cup ActiveStates \cup TerminalStates
NoQuery == [state |-> "absent", by |-> Desktop, accepted |-> FALSE, claimed |-> FALSE,
            snapshot |-> NoSnapshot, result |-> FALSE, bytes |-> 0, cleanup |-> FALSE, readers |-> 0]

VARIABLES
    authenticated,  \* connections that hold a lease
    granted,        \* clients paired and granted Analyze for the project
    projectOpen,
    snapshots,      \* Snapshots -> "free", "reserved", "gone"
    query,          \* `agent_queries`
    admitted,       \* executions submitted so far
    lastProfile,    \* `last_scheduled_profile`, 0 before the first
    agenda,         \* the steps each thread still has to take
    work, killed,   \* the engine's jobs, those with a cancellation
    pages,          \* results the engine holds
    events,         \* counts towards MaxEvents
    poisoned,       \* a thread panicked with the lock held
    raced           \* history: decided or dropped while they were handed to the engine

access == <<authenticated, granted, projectOpen>>
engine == <<work, killed, pages>>
vars == <<access, snapshots, query, admitted, lastProfile, agenda, engine, events, poisoned, raced>>

Client(e) == ProfileOf[query[e].by]
Live(e) == query[e].state # "absent"
Outstanding(e) == query[e].state \in ActiveStates
Step(do, e) == [do |-> do, of |-> e, saw |-> "none"]
StepKinds == {"pick", "admit", "submit", "accept", "fail", "status", "apply", "view", "answer",
              "mark", "cancel", "invalidate", "read", "unlink", "release", "drop", "poll", "overdue",
              "lapse", "expire", "sift", "revoke", "close"}
Idle(t) ==
    /\ agenda[t] = <<>> /\ ~poisoned
    /\ Cardinality({u \in Threads : agenda[u] # <<>>}) < MaxBusy
Doing(t, do, e) == ~poisoned /\ agenda[t] # <<>> /\ Head(agenda[t]).do = do /\ Head(agenda[t]).of = e
Then(t, steps) == agenda' = [agenda EXCEPT ![t] = steps \o Tail(@)]
Begin(t, steps) == agenda' = [agenda EXCEPT ![t] = steps]
\* One step for each element; a HashMap's order is any, one is taken here.
Each(do, S) == [n \in 1..Cardinality(S) |-> Step(do, SetToSeq(S)[n])]

\* A thread other than t is handing e to the engine, or has done so.
InHand(e, t) == \E u \in Threads \ {t} : \E n \in DOMAIN agenda[u] :
    agenda[u][n].do \in {"admit", "submit", "accept"} /\ agenda[u][n].of = e
HandedOver(e, t) == query[e].accepted \/ InHand(e, t)
Decides(e, t) == raced' = IF HandedOver(e, t) THEN raced \cup {e} ELSE raced

\* Requests and whatever disturbs them are counted; the reaper and the engine go on.
Event(n) == events + n =< MaxEvents /\ events' = events + n

TypeOK ==
    /\ authenticated \subseteq Connections /\ granted \subseteq Profiles
    /\ projectOpen \in BOOLEAN /\ poisoned \in BOOLEAN
    /\ snapshots \in [Snapshots -> {"free", "reserved", "gone"}]
    /\ query \in [Executions ->
          [state : (Work \ {"none"}) \cup {"absent"}, by : Connections \cup {Desktop},
           accepted : BOOLEAN, claimed : BOOLEAN, snapshot : Snapshots \cup {NoSnapshot},
           result : BOOLEAN, bytes : 0..ResultBytes, cleanup : BOOLEAN,
           readers : 0..Cardinality(Connections)]]
    /\ admitted \in 0..MaxExecutions /\ lastProfile \in Profiles \cup {0}
    /\ \A t \in Threads : \A n \in DOMAIN agenda[t] :
          /\ agenda[t][n].do \in StepKinds
          /\ agenda[t][n].of \in Executions \cup Connections \cup Profiles \cup {0}
          /\ agenda[t][n].saw \in Work
    /\ work \in [Executions -> Work]
    /\ killed \subseteq Executions /\ pages \subseteq Executions /\ raced \subseteq Executions
    /\ events \in 0..MaxEvents

\* The first client had the last turn; what it ran then is released.
Init ==
    /\ authenticated = Connections /\ granted = Profiles /\ projectOpen = TRUE
    /\ snapshots = [s \in Snapshots |-> "gone"]
    /\ query = [e \in Executions |-> NoQuery]
    /\ admitted = 0 /\ lastProfile = 1
    /\ agenda = [t \in Threads |-> <<>>]
    /\ work = [e \in Executions |-> "none"] /\ killed = {} /\ pages = {} /\ events = 0
    /\ poisoned = FALSE /\ raced = {}

--------------------------------------------------------------------------------
(* Who may do what.                                                        *)

\* require_capability for Analyze: lease, pairing, grant, open project.
Capable(c) == c \in authenticated /\ ProfileOf[c] \in granted /\ projectOpen

\* query_owner: the connection is authenticated as the client of the record.
Owns(c, e) == Live(e) /\ c \in authenticated /\ Client(e) = ProfileOf[c]

\* classify_sql: a SafeRead becomes a snapshot of the connection; an id that nothing
\* refers to any more stands for a fresh one, and one that no execution is left for
\* (MaxExecutions) is left out.
Classify(c, s) ==
    /\ Idle(c) /\ Capable(c) /\ admitted < MaxExecutions
    /\ SnapshotOf[s] = c /\ snapshots[s] = "gone"
    /\ \A e \in Executions : query[e].snapshot # s
    /\ snapshots' = [snapshots EXCEPT ![s] = "free"]
    /\ UNCHANGED <<access, query, admitted, lastProfile, agenda, engine, poisoned, events, raced>>

\* prune, in most requests: a snapshot is dropped by its age, reserved or not.
PruneSnapshot(s) ==
    /\ Event(1)
    /\ ~poisoned /\ snapshots[s] \in {"free", "reserved"}
    /\ snapshots' = [snapshots EXCEPT ![s] = "gone"]
    /\ UNCHANGED <<access, query, admitted, lastProfile, agenda, engine, poisoned, raced>>

--------------------------------------------------------------------------------
(* Submission.                                                             *)

\* query_charged_bytes: the published size, or the most it may become.
Charged(e) == IF query[e].bytes > 0 THEN query[e].bytes
              ELSE IF Outstanding(e) \/ query[e].cleanup THEN ResultBytes ELSE 0

OfProfile(p) == {e \in Executions : Live(e) /\ Client(e) = p}
ChargedTo(p) == FoldLeft(+, 0, [e \in Executions |-> IF e \in OfProfile(p) THEN Charged(e) ELSE 0])
Retained(p) == {e \in OfProfile(p) : query[e].result}

WithinLimits(p) ==
    /\ ChargedTo(p) + ResultBytes =< CacheBytes
    /\ Cardinality(Retained(p)) < ResultLimit
    /\ Cardinality({e \in OfProfile(p) : Outstanding(e)}) < OutstandingLimit

\* start_query: reserve the snapshot and the quota, then schedule.
StartQuery(c, s) ==
    LET e == admitted + 1
    IN  /\ Idle(c) /\ c \in authenticated /\ admitted < MaxExecutions
        /\ Event(1)
        /\ WithinLimits(ProfileOf[c])
        /\ SnapshotOf[s] = c /\ snapshots[s] = "free"
        /\ snapshots' = [snapshots EXCEPT ![s] = "reserved"]
        /\ admitted' = e
        /\ query' = [query EXCEPT ![e] = [NoQuery EXCEPT !.state = "queued", !.by = c, !.snapshot = s]]
        /\ Begin(c, <<Step("pick", 0), Step("view", e)>>)
        /\ UNCHANGED <<access, lastProfile, engine, poisoned, raced>>

\* schedule_next_query, first section: nothing while an accepted query is active,
\* else the oldest query of the next client in turn.
Waiting(e) == query[e].state = "queued" /\ ~query[e].accepted /\ ~query[e].claimed
NextInTurn(W, last) ==
    LET P == {Client(e) : e \in W}
        after == {p \in P : p > last}
        from == IF after = {} THEN P ELSE after
    IN  CHOOSE p \in from : \A r \in from : p =< r

LaneBusy == \E e \in Executions : query[e].accepted /\ Outstanding(e)

Pick(t) ==
    LET W == {e \in Executions : Waiting(e)}
        p == NextInTurn(W, lastProfile)
        e == CHOOSE d \in W : Client(d) = p /\ \A x \in W : Client(x) = p => d =< x
    IN  /\ Doing(t, "pick", 0)
        /\ IF LaneBusy \/ W = {}
           THEN Then(t, <<>>) /\ UNCHANGED <<query, lastProfile>>
           ELSE /\ query' = [query EXCEPT ![e].claimed = TRUE]
                /\ lastProfile' = p
                /\ Then(t, <<Step("admit", e)>>)
        /\ UNCHANGED <<access, snapshots, admitted, engine, poisoned, events, raced>>

GivesUp(e) == <<>>                             \* mutant: a refused query stays claimed
OnRefusal(e) == <<Step("fail", e)>>

\* Authority and the catalog's revision are checked again ...
Admit(t, e) ==
    /\ Doing(t, "admit", e)
    /\ \/ Capable(query[e].by) /\ Then(t, <<Step("submit", e)>>)
       \/ Then(t, OnRefusal(e))
    /\ UNCHANGED <<access, snapshots, query, admitted, lastProfile, engine, poisoned, events, raced>>

\* ... and the engine is asked, in a call of its own.
Submit(t, e) ==
    /\ Doing(t, "submit", e)
    /\ \/ /\ work' = [work EXCEPT ![e] = "queued"]
          /\ Then(t, <<Step("accept", e)>>)
       \/ Then(t, OnRefusal(e)) /\ UNCHANGED work
    /\ UNCHANGED <<access, snapshots, query, admitted, lastProfile, killed, pages, poisoned, events, raced>>

\* The snapshot a record still holds is consumed by the acceptance.
ConsumedSnapshot(e) == IF query[e].snapshot = NoSnapshot THEN snapshots
                       ELSE [snapshots EXCEPT ![query[e].snapshot] = "gone"]

Accept(t, e) ==
    /\ Doing(t, "accept", e)
    /\ IF Live(e)
       THEN /\ query' = [query EXCEPT ![e].accepted = TRUE, ![e].claimed = FALSE,
                                      ![e].snapshot = NoSnapshot]
            /\ snapshots' = ConsumedSnapshot(e)
       ELSE UNCHANGED <<query, snapshots>>
    /\ Then(t, <<>>)
    /\ UNCHANGED <<access, admitted, lastProfile, engine, poisoned, events, raced>>

\* Otherwise the snapshot is available again.
KeptReserved(e) == snapshots                   \* mutant: nobody gives the snapshot back
FreedSnapshot(e) == IF query[e].snapshot # NoSnapshot /\ snapshots[query[e].snapshot] = "reserved"
                    THEN [snapshots EXCEPT ![query[e].snapshot] = "free"] ELSE snapshots

\* fail_queued_query: whatever the record says by now, it failed.
FailQueued(t, e) ==
    /\ Doing(t, "fail", e)
    /\ IF Live(e)
       THEN /\ query' = [query EXCEPT ![e].state = "failed", ![e].claimed = FALSE,
                                      ![e].snapshot = NoSnapshot]
            /\ snapshots' = FreedSnapshot(e)
            /\ Decides(e, t)
       ELSE UNCHANGED <<query, snapshots, events, raced>>
    /\ Then(t, <<>>)
    /\ UNCHANGED <<access, admitted, lastProfile, engine, poisoned, events>>

\* start_query ends by reading the record it inserted, and expects it.
View(t, e) ==
    /\ Doing(t, "view", e)
    /\ poisoned' = ~Live(e)
    /\ Then(t, <<>>)
    /\ UNCHANGED <<access, snapshots, query, admitted, lastProfile, engine, events, raced>>

--------------------------------------------------------------------------------
(* Status and cancellation.                                                *)

\* query_status: the engine is asked only about an accepted query.
QueryStatus(c, e) ==
    /\ Event(1) /\ Idle(c) /\ Owns(c, e) /\ Capable(c)
    /\ Begin(c, (IF query[e].accepted THEN <<Step("status", e)>> ELSE <<>>) \o <<Step("pick", 0)>>)
    /\ UNCHANGED <<access, snapshots, query, admitted, lastProfile, engine, poisoned, raced>>

\* The engine's answer; an execution it does not know ends the request.
ReadStatus(t, e) ==
    /\ Doing(t, "status", e)
    /\ IF work[e] = "none" THEN Begin(t, <<>>)
       ELSE Then(t, <<[Step("apply", e) EXCEPT !.saw = work[e]]>>)
    /\ UNCHANGED <<access, snapshots, query, admitted, lastProfile, engine, poisoned, events, raced>>

\* apply_engine_status: the record becomes what the engine said.
StateOnly(q, saw) == [q EXCEPT !.state = saw]  \* mutant: the result is not noted
Applied(q, saw) ==
    [q EXCEPT !.state = saw, !.result = @ \/ saw = "succeeded",
              !.bytes = IF saw = "succeeded" THEN 1 ELSE @]

Apply(t, e) ==
    /\ Doing(t, "apply", e)
    /\ query' = [query EXCEPT ![e] = IF Live(e) THEN Applied(@, Head(agenda[t]).saw) ELSE @]
    /\ Then(t, <<>>)
    /\ UNCHANGED <<access, snapshots, admitted, lastProfile, engine, poisoned, events, raced>>

\* cancel_query, desktop_cancel_query: a copy of the record decides what happens.
CancelQuery(c, e) ==
    /\ Event(1)
    /\ Idle(c) /\ Owns(c, e) /\ Capable(c)
    /\ Begin(c, IF query[e].accepted THEN <<Step("cancel", e), Step("answer", e)>>
                ELSE <<Step("mark", e), Step("pick", 0), Step("answer", e)>>)
    /\ UNCHANGED <<access, snapshots, query, admitted, lastProfile, engine, poisoned, raced>>

DesktopCancel(e) ==
    /\ Event(1)
    /\ Idle(Desktop) /\ Outstanding(e)
    /\ Begin(Desktop, <<Step(IF query[e].accepted THEN "cancel" ELSE "mark", e)>>)
    /\ UNCHANGED <<access, snapshots, query, admitted, lastProfile, engine, poisoned, raced>>

\* Not accepted, as far as that copy knew: cancelled, and the snapshot is free.
MarkCancelled(t, e) ==
    /\ Doing(t, "mark", e)
    /\ IF Live(e)
       THEN /\ query' = [query EXCEPT ![e].state = "cancelled", ![e].snapshot = NoSnapshot]
            /\ snapshots' = FreedSnapshot(e)
            /\ Decides(e, t)
       ELSE UNCHANGED <<query, snapshots, events, raced>>
    /\ Then(t, <<>>)
    /\ UNCHANGED <<access, admitted, lastProfile, engine, poisoned, events>>

\* query.cancel: queued work is cancelled, running work interrupted.
NotSent(e) == UNCHANGED <<work, killed>>       \* mutant: the engine is not told
EngineCancels(e) ==
    /\ work' = [work EXCEPT ![e] = IF @ = "queued" THEN "cancelled" ELSE @]
    /\ killed' = IF work[e] = "running" THEN killed \cup {e} ELSE killed

Cancel(t, e) ==
    /\ Doing(t, "cancel", e) \/ Doing(t, "invalidate", e)
    /\ EngineCancels(e)
    /\ raced' = IF query[e].state = "queued" /\ ~query[e].accepted THEN raced \cup {e} ELSE raced
    /\ IF work[e] = "none" /\ \E n \in DOMAIN agenda[t] : agenda[t][n].do = "answer" THEN Begin(t, <<>>)
       ELSE Then(t, IF Doing(t, "invalidate", e) THEN <<Step("unlink", e)>> ELSE <<>>)
    /\ UNCHANGED <<access, snapshots, query, admitted, lastProfile, pages, poisoned, events>>

\* A cancellation is answered by the status that is current then.
Answer(c, e) ==
    /\ Doing(c, "answer", e)
    /\ IF Owns(c, e) /\ Capable(c)
       THEN Then(c, (IF query[e].accepted THEN <<Step("status", e)>> ELSE <<>>) \o <<Step("pick", 0)>>)
       ELSE Then(c, <<>>)
    /\ UNCHANGED <<access, snapshots, query, admitted, lastProfile, engine, poisoned, events, raced>>

--------------------------------------------------------------------------------
(* Results.                                                                *)

OneLess(n) == IF n > 0 THEN n - 1 ELSE 0

\* result_page: the lease of a reader, around the engine's page.
ReadPage(c, e) ==
    /\ Event(1)
    /\ Idle(c) /\ Owns(c, e) /\ Capable(c) /\ query[e].result
    /\ query' = [query EXCEPT ![e].readers = @ + 1]
    /\ Begin(c, <<Step("read", e)>>)
    /\ UNCHANGED <<access, snapshots, admitted, lastProfile, engine, poisoned, raced>>

PageRead(c, e) ==
    /\ Doing(c, "read", e)
    /\ query' = [query EXCEPT ![e].readers = OneLess(@)]
    /\ Then(c, <<>>)
    /\ UNCHANGED <<access, snapshots, admitted, lastProfile, engine, poisoned, events, raced>>

\* release_result, by the agent,
Releases(t, results) ==
    /\ Event(1)
    /\ Idle(t) /\ results # {}
    /\ Begin(t, Each("unlink", results))
    /\ UNCHANGED <<access, snapshots, query, admitted, lastProfile, engine, poisoned, raced>>
ReleaseResult(c, e) ==
    /\ query[e].result /\ Owns(c, e) /\ Capable(c)
    /\ Releases(c, {e})
\* or the user in Activity: of one query, or of a client or a connection, listed at once
\* and released one by one.
DesktopReleaseResult(e) ==
    /\ query[e].result
    /\ Releases(Desktop, {e})
ReleaseAllResults(p, c) ==
    LET Scope(e) == query[e].result /\ Client(e) = p /\ (c = query[e].by \/ c = Desktop)
    IN  Releases(Desktop, {e \in Executions : Live(e) /\ Scope(e)})

\* remove_result_authority: the result cannot be read any more; readers finish first.
NoReaders(e) == query[e].readers = 0

Unlink(t, e) ==
    /\ Doing(t, "unlink", e)
    /\ query' = [query EXCEPT ![e] = IF Live(e) THEN [@ EXCEPT !.result = FALSE, !.cleanup = TRUE] ELSE @]
    /\ Then(t, IF Live(e) /\ NoReaders(e) THEN <<Step("release", e)>> ELSE <<>>)
    /\ UNCHANGED <<access, snapshots, admitted, lastProfile, engine, poisoned, events, raced>>

\* The engine removes the pages; a file that is open elsewhere defers it to the reaper.
Release(t, e) ==
    /\ Doing(t, "release", e)
    /\ \/ pages' = pages \ {e} /\ Then(t, <<Step("drop", e)>>)
       \/ e \in pages /\ Then(t, <<>>) /\ UNCHANGED pages
    /\ UNCHANGED <<access, snapshots, query, admitted, lastProfile, work, killed, poisoned, events, raced>>

Drop(t, e) ==
    /\ Doing(t, "drop", e)
    /\ query' = [query EXCEPT ![e] = NoQuery]
    /\ Then(t, <<>>)
    /\ UNCHANGED <<access, snapshots, admitted, lastProfile, engine, poisoned, events, raced>>

--------------------------------------------------------------------------------
(* The reaper.                                                             *)

\* maintain: what is due is listed in one section and worked off in later ones.
Maintain ==
    LET watched == {e \in Executions : query[e].accepted /\ Outstanding(e)}
        queued == {e \in Executions : ~query[e].accepted /\ query[e].state = "queued"}
        cleanup == {e \in Executions : query[e].cleanup /\ query[e].readers = 0}
    IN  /\ Idle(Reaper)
        /\ \E late \in SUBSET (watched \cup queued),
              expired \in SUBSET {e \in Executions : query[e].result},
              stale \in SUBSET authenticated :
              /\ Event(Cardinality(late) + Cardinality(expired) + Cardinality(stale))
              /\ Begin(Reaper,
                    Each("poll", watched) \o Each("fail", late \cap queued)
                    \o Each("overdue", late \cap watched) \o <<Step("pick", 0)>>
                    \o Each("lapse", stale)
                    \o Each("expire", expired) \o Each("sift", cleanup \cup expired))
        /\ UNCHANGED <<access, snapshots, query, admitted, lastProfile, engine, poisoned, raced>>

\* A poll that finds nothing changes nothing.
Poll(e) ==
    /\ Doing(Reaper, "poll", e)
    /\ Then(Reaper, IF work[e] = "none" THEN <<>>
                    ELSE <<[Step("apply", e) EXCEPT !.saw = work[e]]>>)
    /\ UNCHANGED <<access, snapshots, query, admitted, lastProfile, engine, poisoned, events, raced>>

Overdue(e) ==
    /\ Doing(Reaper, "overdue", e)
    /\ EngineCancels(e)
    /\ Then(Reaper, <<>>)
    /\ UNCHANGED <<access, snapshots, query, admitted, lastProfile, pages, poisoned, events, raced>>

ExpireResult(e) ==
    /\ Doing(Reaper, "expire", e)
    /\ query' = [query EXCEPT ![e] = IF Live(e) THEN [@ EXCEPT !.result = FALSE, !.cleanup = TRUE] ELSE @]
    /\ Then(Reaper, <<>>)
    /\ UNCHANGED <<access, snapshots, admitted, lastProfile, engine, poisoned, events, raced>>

\* Those that nobody reads are released.
Sift(e) ==
    /\ Doing(Reaper, "sift", e)
    /\ Then(Reaper, IF Live(e) /\ NoReaders(e) THEN <<Step("release", e)>> ELSE <<>>)
    /\ UNCHANGED <<access, snapshots, query, admitted, lastProfile, engine, poisoned, events, raced>>

--------------------------------------------------------------------------------
(* Loss of authority.                                                      *)

SnapshotsOf(C) == [s \in Snapshots |-> IF SnapshotOf[s] \in C THEN "gone" ELSE snapshots[s]]

\* disconnect, on the connection's own thread or for a lease that ran out: what the
\* engine has is cancelled there, the rest here; results stay with the client.
DisconnectBy(t, c) ==
    LET mine == {e \in Executions : query[e].by = c /\ Outstanding(e)}
        waiting == {e \in mine : ~query[e].accepted}
    IN  /\ authenticated' = authenticated \ {c}
        /\ snapshots' = SnapshotsOf({c})
        /\ query' = [e \in Executions |->
              IF e \in waiting THEN [query[e] EXCEPT !.state = "cancelled", !.snapshot = NoSnapshot]
              ELSE query[e]]
        /\ raced' = raced \cup {e \in waiting : HandedOver(e, t)}
        /\ agenda' = [agenda EXCEPT ![t] = Each("cancel", mine \ waiting) \o (IF t = c THEN <<>> ELSE Tail(@))]
        /\ UNCHANGED <<granted, projectOpen, admitted, lastProfile, engine, poisoned>>

Disconnect(c) == Event(1) /\ Idle(c) /\ c \in authenticated /\ DisconnectBy(c, c)
LapseLease(c) == Doing(Reaper, "lapse", c) /\ DisconnectBy(Reaper, c) /\ UNCHANGED events

\* invalidate_queries: cancel, unlink and release, one query after the other.
Invalidate(S) == Each("invalidate", S)

\* revoke_client: the pairing goes first, then the connections, then the queries.
Revoke(p) ==
    /\ Event(1) /\ Idle(Desktop) /\ p \in granted
    /\ granted' = granted \ {p}
    /\ Begin(Desktop, <<Step("revoke", p)>>)
    /\ UNCHANGED <<authenticated, projectOpen, snapshots, query, admitted, lastProfile, engine, poisoned, raced>>

RevokeConnections(p) ==
    /\ Doing(Desktop, "revoke", p)
    /\ authenticated' = {c \in authenticated : ProfileOf[c] # p}
    /\ Then(Desktop, Invalidate(OfProfile(p)))
    /\ UNCHANGED <<granted, projectOpen, snapshots, query, admitted, lastProfile, engine, poisoned, events, raced>>

\* invalidate_project, before the project is closed.
InvalidateProject ==
    /\ Event(1)
    /\ Idle(Desktop) /\ projectOpen
    /\ snapshots' = SnapshotsOf(Connections)
    /\ Begin(Desktop, Append(Invalidate({e \in Executions : Live(e)}), Step("close", 0)))
    /\ UNCHANGED <<access, query, admitted, lastProfile, engine, poisoned, raced>>

CloseProject ==
    /\ Doing(Desktop, "close", 0)
    /\ projectOpen' = FALSE
    /\ Then(Desktop, <<>>)
    /\ UNCHANGED <<authenticated, granted, snapshots, query, admitted, lastProfile, engine, poisoned, events, raced>>

\* set_enabled(FALSE): the bridge has joined the other threads by then.
Disable ==
    /\ Event(1)
    /\ \A t \in Threads : Idle(t)
    /\ authenticated # {}
    /\ authenticated' = {}
    /\ snapshots' = SnapshotsOf(Connections)
    /\ Begin(Desktop, Invalidate({e \in Executions : Live(e)}))
    /\ UNCHANGED <<granted, projectOpen, query, admitted, lastProfile, engine, poisoned, raced>>

--------------------------------------------------------------------------------
(* The engine: one query at a time; its results live as long as the process. *)

EngineRuns(e) ==
    /\ work[e] = "queued" /\ \A d \in Executions : work[d] # "running"
    /\ work' = [work EXCEPT ![e] = "running"]
    /\ UNCHANGED <<access, snapshots, query, admitted, lastProfile, agenda, killed, pages, poisoned, events, raced>>

EngineEnds(e) ==
    /\ work[e] = "running"
    /\ \/ e \notin killed /\ work' = [work EXCEPT ![e] = "succeeded"] /\ pages' = pages \cup {e}
       \/ work' = [work EXCEPT ![e] = IF e \in killed THEN "cancelled" ELSE "failed"] /\ UNCHANGED pages
    /\ killed' = killed \ {e}
    /\ UNCHANGED <<access, snapshots, query, admitted, lastProfile, agenda, poisoned, events, raced>>

EngineLost ==
    /\ Event(1)
    /\ work' = [e \in Executions |-> "none"] /\ killed' = {} /\ pages' = {}
    /\ UNCHANGED <<access, snapshots, query, admitted, lastProfile, agenda, poisoned, raced>>

\* After a panic every request is answered with an error.
Refuse == poisoned /\ UNCHANGED vars

--------------------------------------------------------------------------------
Next ==
    \/ \E c \in Connections :
          \/ \E s \in Snapshots : Classify(c, s) \/ StartQuery(c, s)
          \/ \E e \in Executions : QueryStatus(c, e) \/ CancelQuery(c, e) \/ ReadPage(c, e)
                                   \/ PageRead(c, e) \/ Answer(c, e)
          \/ Disconnect(c) \/ LapseLease(c)
    \/ \E t \in Threads :
          \/ Pick(t)
          \/ \E e \in Executions :
                Admit(t, e) \/ Submit(t, e) \/ Accept(t, e) \/ FailQueued(t, e) \/ View(t, e)
                \/ ReadStatus(t, e) \/ Apply(t, e) \/ MarkCancelled(t, e) \/ Cancel(t, e)
                \/ Unlink(t, e) \/ Release(t, e) \/ Drop(t, e)
    \/ \E e \in Executions : DesktopReleaseResult(e) \/ \E c \in Connections : ReleaseResult(c, e)
    \/ \E p \in Profiles : ReleaseAllResults(p, Desktop) \/ \E c \in Connections : ReleaseAllResults(p, c)
    \/ \E e \in Executions :
          DesktopCancel(e) \/ Poll(e) \/ Overdue(e) \/ ExpireResult(e) \/ Sift(e)
          \/ EngineRuns(e) \/ EngineEnds(e)
    \/ Maintain
    \/ \E s \in Snapshots : PruneSnapshot(s)
    \/ \E p \in Profiles : Revoke(p) \/ RevokeConnections(p)
    \/ InvalidateProject \/ CloseProject \/ Disable \/ EngineLost \/ Refuse

Spec == Init /\ [][Next]_vars

--------------------------------------------------------------------------------
(* Safety.                                                                 *)

Handing(e) == \E t \in Threads : \E n \in DOMAIN agenda[t] :
                 agenda[t][n].of = e /\ agenda[t][n].do \in {"admit", "submit", "accept", "fail"}
Upcoming(e, kinds) == \E t \in Threads : \E n \in DOMAIN agenda[t] :
                         agenda[t][n].of = e /\ agenda[t][n].do \in kinds

\* A snapshot that is reserved is held by a query that still waits for the
\* engine: every failure, cancellation and disconnect makes it available again
\* to its connection (start_query, fail_queued_query, cancel_query, disconnect).
SnapshotsReturn ==
    \A s \in Snapshots :
        snapshots[s] = "reserved" /\ SnapshotOf[s] \in authenticated =>
            \E e \in Executions : query[e].snapshot = s /\ query[e].state = "queued" /\ ~query[e].accepted

\* A claimed query is in the hands of a thread that will submit or fail it, so
\* that no query is left where the scheduler never looks again.
ClaimHasScheduler ==
    \A e \in Executions :
        query[e].claimed /\ query[e].state = "queued" /\ ~query[e].accepted /\ ~poisoned => Handing(e)

\* Work of the engine is on the reaper's list, so that its deadline needs no
\* agent to poll, or its cancellation is under way; only a query that was decided
\* while another thread handed it to the engine escapes.
Watched ==
    \A e \in Executions :
        work[e] \in ActiveStates /\ e \notin raced /\ ~poisoned =>
            \/ query[e].accepted /\ Outstanding(e)
            \/ e \in killed
            \/ Upcoming(e, {"accept", "cancel", "invalidate"})

\* Pages in the engine belong to a record that can still be released.
PagesHaveOwner ==
    \A e \in pages \ raced :
        \/ Live(e) /\ (query[e].result \/ query[e].cleanup \/ (query[e].accepted /\ Outstanding(e)))
        \/ Upcoming(e, {"accept", "drop"}) \/ poisoned

\* The pages a client's results take in the engine's cache, with the most that its
\* queries there or on their way can add, stay within the limit that start_query
\* checks once, against what the records are charged.
Takes(e) == IF e \in pages THEN 1
            ELSE IF work[e] \in ActiveStates \/ (Outstanding(e) /\ ~query[e].accepted)
                 THEN ResultBytes ELSE 0
BudgetHolds ==
    \A p \in Profiles :
        FoldLeft(+, 0, [e \in Executions |-> IF e \in OfProfile(p) \ raced THEN Takes(e) ELSE 0]) =< CacheBytes

\* The scheduler takes a client again only if no other client has a query waiting.
TurnsAlternate ==
    [][\A e \in Executions :
          query'[e].claimed /\ ~query[e].claimed /\ Client(e) = lastProfile =>
              \A d \in Executions : Waiting(d) => Client(d) = lastProfile]_vars

\* A result that was released or expired never becomes readable again while its
\* cleanup is outstanding (docs/user/MCP-AGENT-SETUP.md); query_status undoes it.
ReleasedStaysUnreadable ==
    [][\A e \in Executions : Live(e) /\ query[e].cleanup => ~query'[e].result]_vars

\* The loss of the engine is terminal for the query it ran (E16, execute_with_watchdog);
\* the reaper's poll of an execution the engine no longer knows changes nothing.
LossIsTerminal ==
    [][\A e \in Executions : Poll(e) /\ work[e] = "none" => query'[e].state \in TerminalStates]_vars

================================================================================
