------------------------------ MODULE AgentExports ------------------------------
(***************************************************************************)
(* Guarded exports of agents, agent_exports.rs, between the approvals of   *)
(* agent_access.rs, the delegated folders of agent_destinations.rs and the *)
(* export coordinator.                                                     *)
(*                                                                         *)
(* Threads: one per agent connection, a watcher per export that awaits its *)
(* approval, a poller per export that runs, and a cleaner, which takes     *)
(* authority away and then cleans up what relied on it.  `agenda` holds    *)
(* the steps a thread has yet to take; `lane` is start_lane.  There is one *)
(* client, project and folder.                                             *)
(***************************************************************************)
EXTENDS Naturals, Sequences, FiniteSets, SequencesExt

CONSTANTS
    Exports, Connections,
    OwnerOf,        \* the connection that proposes an export
    Nobody,
    TerminalLimit,  \* MAX_TERMINAL_AGENT_EXPORTS
    TurnLimit       \* bound: of what Happens counts, in a behaviour; a second proposal is two

Agent(c) == <<"agent", c>>
Watcher(e) == <<"watcher", e>>
Poller(e) == <<"poller", e>>
Cleaner == <<"cleaner", Nobody>>
Threads == {Agent(c) : c \in Connections} \cup {Watcher(e) : e \in Exports}
           \cup {Poller(e) : e \in Exports} \cup {Cleaner}
Undecided == {"awaiting", "queued", "running"}
Finished == {"succeeded", "failed", "cancelled", "recovery"}
JobStates == {"none", "running", "succeeded", "failed", "cancelled"}
Decisions == {"delegated", "approval", "critical"}

VARIABLES
    leased,         \* connections with a lease of a client that may analyze
    open,           \* the project is open
    revision, ready, within,    \* of the folder: revision, usable, policy covers the intents
    collision,      \* a file is in the way
    turns,          \* counts towards TurnLimit
    export,         \* `records`: state, proposed revision, snapshot still there, submitted, audited
    decision,       \* of each export
    proposed,       \* bound: an export is proposed once
    approval,       \* of each export: none, pending, approved, denied, expired, used
    order,          \* `terminal_order`
    rows,           \* audit rows of each export
    job, overwrite, \* the coordinator's export, and whether it replaces files
    killed, forgotten,          \* jobs to be cancelled; jobs the coordinator no longer tracks
    alive,          \* watchers and pollers that were spawned and have not ended
    agenda, lane

authority == <<leased, open>>
folder == <<revision, ready, within, collision>>
records == <<export, decision, proposed, order>>
jobs == <<job, overwrite, killed, forgotten>>
threads == <<alive, agenda, lane>>
exportVars == <<authority, folder, turns, records, approval, rows, jobs, threads>>

NoRecord == [state |-> "none", revision |-> 0, snapshot |-> FALSE, submitted |-> FALSE, audited |-> FALSE]
Active(e) == export[e].state \in Undecided
Terminal(e) == export[e].state \in Finished
Exists(e) == export[e].state # "none"
Set(e, s) == export' = [export EXCEPT ![e].state = s]

Step(do, e) == [do |-> do, of |-> e, saw |-> "none"]
Idle(t) == agenda[t] = <<>>
Doing(t, do, e) == agenda[t] # <<>> /\ Head(agenda[t]).do = do /\ Head(agenda[t]).of = e
Then(t, steps) == agenda' = [agenda EXCEPT ![t] = steps \o Tail(@)]
Begin(t, steps) == agenda' = [agenda EXCEPT ![t] = steps]
Happens == turns < TurnLimit /\ turns' = turns + 1

ExportTypeOK ==
    /\ leased \subseteq Connections /\ open \in BOOLEAN
    /\ revision \in 0..TurnLimit /\ {ready, within, collision} \subseteq BOOLEAN
    /\ export \in [Exports -> [state : Undecided \cup Finished \cup {"none"}, revision : 0..TurnLimit,
                               snapshot : BOOLEAN, submitted : BOOLEAN, audited : BOOLEAN]]
    /\ decision \in [Exports -> Decisions] /\ proposed \in [Exports -> BOOLEAN]
    /\ approval \in [Exports -> {"none", "pending", "approved", "denied", "expired", "used"}]
    /\ rows \in [Exports -> 0..2] /\ job \in [Exports -> JobStates]
    /\ overwrite \subseteq Exports /\ killed \subseteq Exports /\ forgotten \subseteq Exports
    /\ alive \subseteq Threads /\ lane \in Threads \cup {Nobody}
    /\ \A n \in DOMAIN order : order[n] \in Exports
    /\ \A t \in Threads : \A n \in DOMAIN agenda[t] :
          agenda[t][n].of \in Exports \cup Connections \cup {Nobody} /\ agenda[t][n].saw \in JobStates

ExportInit ==
    /\ leased = Connections /\ open = TRUE
    /\ revision = 0 /\ ready = TRUE /\ within \in BOOLEAN /\ collision \in BOOLEAN /\ turns = 0
    /\ export = [e \in Exports |-> NoRecord] /\ decision = [e \in Exports |-> "delegated"] /\ proposed = [e \in Exports |-> FALSE]
    /\ approval = [e \in Exports |-> "none"] /\ order = <<>> /\ rows = [e \in Exports |-> 0]
    /\ job = [e \in Exports |-> "none"] /\ overwrite = {} /\ killed = {} /\ forgotten = {}
    /\ alive = {} /\ agenda = [t \in Threads |-> <<>>] /\ lane = Nobody

--------------------------------------------------------------------------------
(* Proposal.                                                               *)

\* decide: a canonical part in the folder needs a typed confirmation, a policy that
\* does not cover the intent an approval.
Decided == IF collision THEN "critical" ELSE IF within THEN "delegated" ELSE "approval"
Authorized(c) == c \in leased /\ open
Status(e) == <<Step("look", e), Step("read", e)>>

\* propose, in the proposal lane: capacity, snapshot, folder, decision, approval ...
Propose(e) ==
    LET c == OwnerOf[e]
    IN  /\ Idle(Agent(c)) /\ ~Exists(e) /\ ~proposed[e]
        /\ \A x \in Exports : OwnerOf[x] = c => ~Active(x)
        /\ Authorized(c) /\ ready
        /\ turns' = (IF \E x \in Exports : proposed[x] THEN turns + 2 ELSE turns) /\ turns' <= TurnLimit
        /\ proposed' = [proposed EXCEPT ![e] = TRUE]
        /\ decision' = [decision EXCEPT ![e] = Decided]
        /\ approval' = [approval EXCEPT ![e] = IF Decided = "delegated" THEN "none" ELSE "pending"]
        /\ export' = [export EXCEPT ![e].revision = revision]
        /\ Begin(Agent(c), <<Step("insert", e)>>)
        /\ UNCHANGED <<authority, folder, order, rows, jobs, alive, lane>>

\* ... then the record, and a start, or a watcher for its approval.
Insert(t, e) ==
    /\ Doing(t, "insert", e)
    /\ export' = [export EXCEPT ![e].state = IF decision[e] = "delegated" THEN "queued" ELSE "awaiting",
                                ![e].snapshot = TRUE]
    /\ IF decision[e] = "delegated"
       THEN /\ Then(t, <<Step("enter", e), Step("take", e), Step("leave", Nobody)>> \o Status(e))
            /\ UNCHANGED <<alive, turns>>
       ELSE \/ alive' = alive \cup {Watcher(e)} /\ Then(t, Status(e)) /\ UNCHANGED turns
            \/ Happens /\ Then(t, <<Step("fail", e)>> \o Status(e)) /\ UNCHANGED alive
    /\ UNCHANGED <<authority, folder, decision, proposed, order, approval, rows, jobs, lane>>

\* The user answers in time, or the approval expires.
DecideApproval(e) ==
    /\ Happens
    /\ \/ approval[e] = "pending" /\ approval' \in {[approval EXCEPT ![e] = s] : s \in {"approved", "denied"}}
       \/ approval[e] \in {"pending", "approved"} /\ approval' = [approval EXCEPT ![e] = "expired"]
    /\ UNCHANGED <<authority, folder, records, rows, jobs, threads>>

--------------------------------------------------------------------------------
(* Start, with the start lane.                                             *)

Enter(t, e) ==
    /\ Doing(t, "enter", e) /\ lane = Nobody
    /\ lane' = t /\ Then(t, <<>>)
    /\ UNCHANGED <<authority, folder, turns, records, approval, rows, jobs, alive>>

LeaveLane(t) ==
    /\ Doing(t, "leave", Nobody)
    /\ lane' = Nobody /\ Then(t, <<>>)
    /\ UNCHANGED <<authority, folder, turns, records, approval, rows, jobs, alive>>

\* maybe_start_approved: an approval is claimed by the thread that starts the export.
\* An error ends a request; a watcher fails the export instead, outside the lane.
Claimed(e) == [approval EXCEPT ![e] = "used"]

OnLookError(t, e) == Begin(t, IF t = Watcher(e) THEN <<Step("fail", e)>> ELSE <<>>)

Look(t, e) ==
    /\ Doing(t, "look", e) /\ lane = Nobody
    /\ \/ ~Exists(e) /\ OnLookError(t, e) /\ UNCHANGED <<approval, lane>>
       \/ export[e].state \notin {"none", "awaiting"} /\ Then(t, <<>>) /\ UNCHANGED <<approval, lane>>
       \/ /\ export[e].state = "awaiting" /\ OwnerOf[e] \notin leased
          /\ OnLookError(t, e) /\ UNCHANGED <<approval, lane>>
       \/ /\ export[e].state = "awaiting" /\ OwnerOf[e] \in leased
          /\ \/ /\ approval[e] = "approved" /\ approval' = Claimed(e)
                /\ lane' = t /\ Then(t, <<Step("take", e), Step("leave", Nobody)>>)
             \/ /\ approval[e] \in {"denied", "expired"} /\ UNCHANGED approval
                /\ lane' = t /\ Then(t, <<Step("fail", e), Step("leave", Nobody)>>)
             \/ approval[e] \in {"pending", "used"} /\ Then(t, <<>>) /\ UNCHANGED <<approval, lane>>
    /\ UNCHANGED <<authority, folder, turns, records, rows, jobs, alive>>

\* A start that fails is failed in the lane if it was approved, after it if delegated.
NotStarted(t, e) ==
    IF decision[e] = "delegated" THEN Begin(t, <<Step("leave", Nobody), Step("fail", e)>> \o Status(e))
    ELSE Then(t, <<Step("fail", e)>>)

\* start_locked: the snapshot is used once ...
Take(t, e) ==
    /\ Doing(t, "take", e)
    /\ IF export[e].state \in {"queued", "awaiting"} /\ export[e].snapshot
       THEN export' = [export EXCEPT ![e].snapshot = FALSE] /\ Then(t, <<Step("check", e)>>)
       ELSE NotStarted(t, e) /\ UNCHANGED export
    /\ UNCHANGED <<authority, folder, turns, decision, proposed, order, approval, rows, jobs, alive, lane>>

\* ... authority, folder and decision must be what they were ...
AnyDecision(e) == TRUE                         \* mutant: the decision is not compared
SameDecision(e) == Decided = decision[e]

Check(t, e) ==
    /\ Doing(t, "check", e)
    /\ IF Authorized(OwnerOf[e]) /\ ready /\ export[e].revision = revision /\ SameDecision(e)
       THEN Then(t, <<Step(IF collision THEN "replace" ELSE "submit", e)>>)
       ELSE NotStarted(t, e)
    /\ UNCHANGED <<authority, folder, turns, records, approval, rows, jobs, alive, lane>>

\* ... the coordinator takes the export, which fails there if the engine refuses it,
\* as it does without the project's session, or has no room ...
Submit(t, e) ==
    /\ Doing(t, "submit", e) \/ Doing(t, "replace", e)
    /\ \/ /\ job' = [job EXCEPT ![e] = IF open THEN "running" ELSE "failed"] /\ UNCHANGED turns
          /\ overwrite' = IF Doing(t, "replace", e) THEN overwrite \cup {e} ELSE overwrite
          /\ Then(t, <<Step("register", e)>>)
       \/ Happens /\ NotStarted(t, e) /\ UNCHANGED <<job, overwrite>>
    /\ UNCHANGED <<authority, folder, records, approval, rows, killed, forgotten, alive, lane>>

\* ... and a poller follows it; without one it is cancelled.  (A record that is gone by now
\* would leave its export alone.)
Register(t, e) ==
    /\ Doing(t, "register", e)
    /\ IF Exists(e)
       THEN /\ export' = [export EXCEPT ![e].submitted = TRUE, ![e].state = "queued"]
            /\ \/ alive' = alive \cup {Poller(e)} /\ Then(t, <<>>) /\ UNCHANGED <<killed, turns>>
               \/ /\ Happens /\ NotStarted(t, e) /\ UNCHANGED alive
                  /\ killed' = IF job[e] = "running" THEN killed \cup {e} ELSE killed
       ELSE NotStarted(t, e) /\ UNCHANGED <<export, alive, killed, turns>>
    /\ UNCHANGED <<authority, folder, decision, proposed, order, approval, rows, job, overwrite, forgotten, lane>>

--------------------------------------------------------------------------------
(* Outcome.                                                                *)

\* The coordinator's export ends (one the engine refused has failed at once) ...
JobEnds(e) ==
    /\ job[e] = "running"
    /\ job' \in {[job EXCEPT ![e] = s] : s \in {"succeeded", "failed"} \cup
                    (IF e \in killed THEN {"cancelled"} ELSE {})}
    /\ UNCHANGED <<authority, folder, turns, records, approval, rows, overwrite, killed, forgotten, threads>>

\* ... and the desktop releases it, or the coordinator trims it.
Forget(e) ==
    /\ job[e] \notin {"none", "running"} /\ e \notin forgotten /\ Happens
    /\ forgotten' = forgotten \cup {e}
    /\ UNCHANGED <<authority, folder, records, approval, rows, job, overwrite, killed, threads>>

\* fail_before_start, whatever the record says by now.
Fail(t, e) ==
    /\ Doing(t, "fail", e)
    /\ IF Exists(e) THEN Set(e, "failed") ELSE UNCHANGED export
    /\ Then(t, <<Step("finish", e)>>)
    /\ UNCHANGED <<authority, folder, turns, decision, proposed, order, approval, rows, jobs, alive, lane>>

\* finish_terminal: the flag decides who writes the row, in a call of its own.
Unflagged(e) == export                         \* mutant: the flag is not set
Flagged(e) == [export EXCEPT ![e].audited = TRUE]

Finish(t, e) ==
    /\ Doing(t, "finish", e)
    /\ IF Exists(e) /\ ~export[e].audited
       THEN export' = Flagged(e) /\ Then(t, <<Step("row", e)>>)
       ELSE UNCHANGED export /\ Then(t, <<>>)
    /\ UNCHANGED <<authority, folder, turns, decision, proposed, order, approval, rows, jobs, alive, lane>>

\* remember_terminal: the oldest terminal record makes room.  An export is in the order at
\* most once, so leaving it out is leaving out one element.
Without(e) ==
    IF \E n \in DOMAIN order : order[n] = e THEN RemoveAt(order, CHOOSE n \in DOMAIN order : order[n] = e) ELSE order
Remembered(e) == Append(Without(e), e)
Evicted(e) == IF Len(Remembered(e)) > TerminalLimit THEN {Head(Remembered(e))} ELSE {}
RememberTerminal(e, marked) ==
    /\ export' = [x \in Exports |-> IF x \in Evicted(e) THEN NoRecord ELSE marked[x]]
    /\ order' = IF Evicted(e) = {} THEN Remembered(e) ELSE Tail(Remembered(e))
    /\ forgotten' = forgotten \cup {x \in Evicted(e) : job[x] \notin {"none", "running"}}

\* A row that cannot be written leaves the export to the user.
WriteRow(t, e) ==
    /\ Doing(t, "row", e)
    /\ \/ rows' = [rows EXCEPT ![e] = @ + 1] /\ RememberTerminal(e, export) /\ UNCHANGED turns
       \/ /\ Happens /\ UNCHANGED rows
          /\ RememberTerminal(e, IF Exists(e) THEN [export EXCEPT ![e].state = "recovery"] ELSE export)
    /\ Then(t, <<>>)
    /\ UNCHANGED <<authority, folder, decision, proposed, approval, job, overwrite, killed, alive, lane>>

\* sync: the coordinator's status is read ...
Read(t, e) ==
    /\ Doing(t, "read", e)
    /\ Then(t, IF ~Exists(e) \/ ~export[e].submitted THEN <<>>
               ELSE IF e \in forgotten THEN <<Step("fail", e)>>
               ELSE <<[Step("apply", e) EXCEPT !.saw = job[e]]>>)
    /\ UNCHANGED <<authority, folder, turns, records, approval, rows, jobs, alive, lane>>

\* ... and written into the record; what ends it there is audited.  (A failure that needs
\* recovery counts as a failure here.)
Apply(t, e) ==
    LET saw == Head(agenda[t]).saw
    IN  /\ Doing(t, "apply", e)
        /\ IF Exists(e)
           THEN Set(e, saw)
           ELSE UNCHANGED export
        /\ Then(t, IF Exists(e) /\ saw # "running" /\ ~export[e].audited THEN <<Step("finish", e)>> ELSE <<>>)
        /\ UNCHANGED <<authority, folder, turns, decision, proposed, order, approval, rows, jobs, alive, lane>>

\* spawn_approval_watcher and poll_until_terminal: a tick, unless it is time to end.
Watch(e) ==
    LET t == Watcher(e)
    IN  /\ t \in alive /\ Idle(t)
        /\ IF export[e].state = "awaiting" THEN Begin(t, <<Step("look", e)>>) /\ UNCHANGED alive
           ELSE alive' = alive \ {t} /\ UNCHANGED agenda
        /\ UNCHANGED <<authority, folder, turns, records, approval, rows, jobs, lane>>

Poll(e) ==
    LET t == Poller(e)
    IN  /\ t \in alive /\ Idle(t)
        /\ IF Active(e) THEN Begin(t, <<Step("read", e)>>) /\ UNCHANGED alive
           ELSE alive' = alive \ {t} /\ UNCHANGED agenda
        /\ UNCHANGED <<authority, folder, turns, records, approval, rows, jobs, lane>>

--------------------------------------------------------------------------------
(* Requests of the agent.                                                  *)

Owned(e) == Exists(e) /\ OwnerOf[e] \in leased /\ Idle(Agent(OwnerOf[e]))

AskStatus(e) ==
    /\ Owned(e) /\ Happens
    /\ Begin(Agent(OwnerOf[e]), Status(e))
    /\ UNCHANGED <<authority, folder, records, approval, rows, jobs, alive, lane>>

\* cancel_export_approval
Withdrawn(S) == [e \in Exports |-> IF e \in S /\ approval[e] \in {"pending", "approved"} THEN "denied" ELSE approval[e]]

\* cancel
CancelExport(e) ==
    LET t == Agent(OwnerOf[e])
    IN  /\ Owned(e) /\ lane = Nobody /\ Happens
        /\ lane' = t
        /\ IF export[e].state = "awaiting"
           THEN Set(e, "cancelled") /\ approval' = Withdrawn({e})
           ELSE UNCHANGED <<export, approval>>
        /\ Begin(t, <<Step(IF Active(e) /\ export[e].submitted THEN "kill" ELSE "finish", e), Step("leave", Nobody)>>
                    \o Status(e))
        /\ UNCHANGED <<authority, folder, decision, proposed, order, rows, jobs, alive>>

\* The coordinator is told, and its status read; a request for an export the coordinator
\* no longer tracks ends there.
Kill(t, e) ==
    /\ Doing(t, "kill", e)
    /\ killed' = IF job[e] = "running" THEN killed \cup {e} ELSE killed
    /\ IF e \in forgotten /\ t # Cleaner THEN Begin(t, <<Step("leave", Nobody)>>) ELSE Then(t, <<Step("read", e)>>)
    /\ UNCHANGED <<authority, folder, turns, records, approval, rows, job, overwrite, forgotten, alive, lane>>

\* release: a terminal record goes, with the coordinator's.
Release(e) ==
    /\ Owned(e) /\ Terminal(e)
    /\ export' = [export EXCEPT ![e] = NoRecord]
    /\ order' = Without(e)
    /\ forgotten' = IF job[e] \in JobStates \ {"none", "running"} THEN forgotten \cup {e} ELSE forgotten
    /\ UNCHANGED <<authority, folder, turns, decision, proposed, approval, rows, job, overwrite, killed, threads>>

--------------------------------------------------------------------------------
(* Authority goes, and what relied on it is cleaned up.                    *)

\* A lost transport or lease, a revocation, a grant without Analyze, Agent Access off.
LoseLease(c) ==
    /\ Idle(Cleaner) /\ c \in leased /\ Happens
    /\ leased' = leased \ {c}
    /\ approval' = [e \in Exports |-> IF OwnerOf[e] = c /\ approval[e] = "pending" THEN "denied" ELSE approval[e]]
    /\ Begin(Cleaner, <<Step("clean", c)>>)
    /\ UNCHANGED <<open, folder, records, rows, jobs, alive, lane>>

\* update, repair, enable or revoke of the delegated folder.
ChangeFolder ==
    /\ Idle(Cleaner) /\ Happens
    /\ revision' = revision + 1 /\ ready' \in BOOLEAN /\ within' \in BOOLEAN
    /\ Begin(Cleaner, <<Step("clean", Nobody)>>)
    /\ UNCHANGED <<authority, collision, records, approval, rows, jobs, alive, lane>>

\* Somebody puts a part there, or removes it.
ChangeContents ==
    /\ Happens /\ collision' = ~collision
    /\ UNCHANGED <<authority, revision, ready, within, records, approval, rows, jobs, threads>>

\* The project closes after the clean-up: the engine cancels the exports of its session.
CloseProject ==
    /\ Idle(Cleaner) /\ open /\ Happens
    /\ Begin(Cleaner, <<Step("clean", Nobody), Step("close", Nobody)>>)
    /\ UNCHANGED <<authority, folder, records, approval, rows, jobs, alive, lane>>

Close ==
    /\ Doing(Cleaner, "close", Nobody)
    /\ open' = FALSE
    /\ killed' = killed \cup {e \in Exports : job[e] = "running"}
    /\ Then(Cleaner, <<>>)
    /\ UNCHANGED <<leased, folder, turns, records, approval, rows, job, overwrite, forgotten, alive, lane>>

\* cleanup_matching: what waits is cancelled in one lock section, what runs afterwards, in
\* any order of the map's.
Concerned(c) == {e \in Exports : (c = Nobody \/ OwnerOf[e] = c) /\ Active(e)}

ToEnd(S) == {e \in S : export[e].submitted \/ export[e].state = "awaiting"}

RunsOn(q) ==                                   \* mutant: what runs is left to its poller
    [n \in DOMAIN q |-> Step(IF export[q[n]].submitted THEN "read" ELSE "finish", q[n])]
CleanUp(q) ==
    [n \in DOMAIN q |-> Step(IF export[q[n]].submitted THEN "kill" ELSE "finish", q[n])]

Clean(c) ==
    LET S == Concerned(c)
    IN  /\ Doing(Cleaner, "clean", c) /\ lane = Nobody
        /\ lane' = Cleaner
        /\ approval' = Withdrawn(S)
        /\ export' = [e \in Exports |-> IF e \in S /\ export[e].state = "awaiting"
                                        THEN [export[e] EXCEPT !.state = "cancelled"] ELSE export[e]]
        /\ \E q \in SetToSeqs(ToEnd(S)) : Then(Cleaner, CleanUp(q) \o <<Step("leave", Nobody)>>)
        /\ UNCHANGED <<authority, folder, turns, decision, proposed, order, rows, jobs, alive>>

--------------------------------------------------------------------------------
\* A thread with an agenda takes the first step of it.
ExportNext ==
    \/ \E e \in Exports :
          \/ Propose(e) \/ DecideApproval(e) \/ JobEnds(e) \/ Forget(e) \/ Watch(e) \/ Poll(e)
          \/ AskStatus(e) \/ CancelExport(e) \/ Release(e)
    \/ \E t \in {x \in Threads : ~Idle(x)} : \E e \in Exports \cap {Head(agenda[t]).of} :
          \/ Insert(t, e) \/ Enter(t, e) \/ Look(t, e) \/ Take(t, e) \/ Check(t, e)
          \/ Submit(t, e) \/ Register(t, e) \/ Fail(t, e) \/ Finish(t, e) \/ WriteRow(t, e)
          \/ Read(t, e) \/ Apply(t, e) \/ Kill(t, e)
    \/ \E t \in Threads : LeaveLane(t)
    \/ \E c \in Connections : LoseLease(c)
    \/ \E c \in Connections \cup {Nobody} : Clean(c)
    \/ ChangeFolder \/ ChangeContents \/ CloseProject \/ Close

ExportSpec == ExportInit /\ [][ExportNext]_exportVars

--------------------------------------------------------------------------------
(* Properties.                                                             *)

\* An export that runs on after its connection, its project or the version of the folder
\* it was decided on is gone has been told to stop once the clean-up is over: no start
\* slips in between the loss and the clean-up, in any order of the threads.
NoOrphanExport ==
    (Idle(Cleaner) /\ lane = Nobody) =>
        \A e \in Exports : (job[e] = "running" /\ e \notin killed) =>
            Authorized(OwnerOf[e]) /\ export[e].revision = revision /\ Active(e)

\* What was started is what was decided: without an approval used for it only a delegated
\* export runs, and files are replaced only after a typed confirmation, however the
\* contents of the folder change between the decision, the approval and the start.
StartedAsDecided ==
    \A e \in Exports : job[e] # "none" =>
        /\ decision[e] = "delegated" \/ approval[e] = "used"
        /\ e \in overwrite <=> decision[e] = "critical"

\* An export gets one audit row, though its watcher, its poller, a status request, a
\* cancellation and the clean-up may all find it at its end, and none is forgotten: an
\* export at its end is audited, or a thread is about to.
AuditedOnce ==
    \A e \in Exports :
        /\ rows[e] <= 1
        /\ Terminal(e) => \/ export[e].audited
                          \/ \E t \in Threads : \E n \in DOMAIN agenda[t] : agenda[t][n] = Step("finish", e)

\* review/E15-1-CONNECTION-EXPORT.md: a failure to audit ends in recovery_required, "no
\* false success".  The next status of the coordinator overwrites it.
SuccessIsAudited ==
    \A e \in Exports : (export[e].state = "succeeded" /\ \A t \in Threads : Idle(t)) => rows[e] = 1

================================================================================
