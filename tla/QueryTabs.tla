-------------------------------- MODULE QueryTabs --------------------------------
(***************************************************************************)
(* What an editor tab shows of its executions                              *)
(* (src/features/results/useQueryExecution.ts): one tab, whose commands    *)
(* wait for answers of the desktop coordinator, and whose executions are   *)
(* polled by loops of one timer each.  Whatever is waited for, the rest of *)
(* the hook runs meanwhile; answers come in any order.                     *)
(*                                                                         *)
(* The coordinator is that of module QueryCoordinator, as far as the hook  *)
(* can tell.                                                               *)
(***************************************************************************)
EXTENDS Naturals, FiniteSets

CONSTANTS
    Executions,     \* ids, fresh for every submission
    Clicks,         \* calls of `run`
    Nobody,         \* no execution, no loop
    FailureLimit    \* bound: requests that fail

VARIABLES
    job,        \* of each execution at the coordinator: "none", "active", "succeeded", "failed", or "gone"
    latest,     \* the execution the coordinator remembers for the tab
    released,   \* executions whose result was released
    tab,        \* "open", "closing" (to be forgotten by the coordinator), or "closed"
    stopped,    \* the hook is unmounted
    shown,      \* executions[tab]: [id, state, result], Nobody if there is none
    call,       \* of each call of `run`: [at, previous, id, state]
    restore,    \* the call of `restore`: [at, view]
    cancelling, \* the call of `cancel`: [at, current, state]
    loop,       \* of each loop: "none", "waiting", "asked", "error", or the state it was answered
    timer,      \* timers[tab]: the loop whose timer was set last
    refreshed,  \* onSucceeded was called for them; ...
    twice,      \* ... more than once (history)
    overlapped, \* calls on the tab overlapped, see the property (history)
    unsubmitted,\* a submission failed (history)
    failures

tabVars == <<job, latest, released, tab, stopped, shown, call, restore, cancelling, loop, timer,
             refreshed, twice, overlapped, unsubmitted, failures>>
coordinatorVars == <<job, latest, released>>
commandVars == <<call, restore, cancelling>>
historyVars == <<refreshed, twice, unsubmitted, failures>>

Terminal(state) == state \in {"succeeded", "failed"}        \* isTerminal
\* A loop belongs to an execution, and to the call that began it.
Loops == Executions \X {"run", "restore"}
Alive == {l \in Loops : loop[l] # "none"}
View(e, state) == [id |-> e, state |-> state, result |-> state = "succeeded"]
NoCall == [at |-> "none", previous |-> Nobody, id |-> Nobody, state |-> "none"]
NotRestoring == [at |-> "none", view |-> Nobody]
NotCancelling == [at |-> "none", current |-> Nobody, state |-> "none"]
Running == {c \in Clicks : call[c].at # "none"}
Shows(view) == shown' = view                                 \* patch

\* The tab may have an execution from before the window was loaded.
TabInit ==
    /\ \E e \in Executions, state \in {"none", "active", "succeeded", "failed"} :
          /\ job = [f \in Executions |-> IF f = e THEN state ELSE "none"]
          /\ latest = (IF state = "none" THEN Nobody ELSE e)
    /\ released = {} /\ tab = "open" /\ stopped = FALSE /\ shown = Nobody
    /\ call = [c \in Clicks |-> NoCall] /\ restore = [NotRestoring EXCEPT !.at = "due"] /\ cancelling = NotCancelling
    /\ loop = [l \in Loops |-> "none"] /\ timer = Nobody
    /\ refreshed = {} /\ twice = FALSE /\ overlapped = FALSE /\ unsubmitted = FALSE /\ failures = 0

FailsOnce == failures < FailureLimit /\ failures' = failures + 1

--------------------------------------------------------------------------------
(* run                                                                     *)

Active == shown # Nobody /\ shown.state = "active"
Overlaps(condition) == overlapped' = (overlapped \/ condition)

Click(c) ==
    /\ tab = "open" /\ ~stopped /\ call[c].at = "none" /\ ~Active
    /\ call' = [call EXCEPT ![c] = [NoCall EXCEPT !.at = "paint", !.previous = shown]]
    /\ Overlaps(Running # {} \/ restore.at \in {"asked", "answered"} \/ cancelling.at # "none" \/ Alive # {})
    /\ UNCHANGED <<coordinatorVars, tab, stopped, shown, restore, cancelling, loop, timer, historyVars>>

\* After a paint the superseded result is released, or not: either way it goes on.
ReleaseSuperseded(c) ==
    LET previous == call[c].previous IN
    /\ call[c].at = "paint"
    /\ call' = [call EXCEPT ![c].at = "submit"]
    /\ IF previous # Nobody /\ previous.result
       THEN \/ released' = released \cup {previous.id} /\ UNCHANGED failures
            \/ FailsOnce /\ UNCHANGED released
       ELSE UNCHANGED <<released, failures>>
    /\ UNCHANGED <<job, latest, tab, stopped, shown, restore, cancelling, loop, timer,
                   refreshed, twice, overlapped, unsubmitted>>

\* The coordinator has an execution from now on, even one that the engine rejects.
Submit(c) ==
    /\ call[c].at = "submit"
    /\ \E e \in Executions, state \in {"active", "failed"} :
          /\ job[e] = "none"
          /\ job' = [job EXCEPT ![e] = state] /\ latest' = e
          /\ call' = [call EXCEPT ![c].at = "answered", ![c].id = e, ![c].state = state]
    /\ UNCHANGED <<released, tab, stopped, shown, restore, cancelling, loop, timer, overlapped, historyVars>>
NotSubmitted(c) ==
    /\ call[c].at = "submit" /\ FailsOnce
    /\ call' = [call EXCEPT ![c] = NoCall] /\ unsubmitted' = TRUE
    /\ UNCHANGED <<coordinatorVars, tab, stopped, shown, restore, cancelling, loop, timer, refreshed, twice, overlapped>>

\* A loop's timer is set, and is the tab's from then on.
Sets(l) == loop' = [loop EXCEPT ![l] = "waiting"] /\ timer' = l

Submitted(c) ==
    /\ call[c].at = "answered"
    /\ call' = [call EXCEPT ![c] = NoCall]
    /\ IF stopped THEN UNCHANGED <<shown, loop, timer>>
       ELSE Shows(View(call[c].id, call[c].state)) /\ Sets(<<call[c].id, "run">>)
    /\ UNCHANGED <<coordinatorVars, tab, stopped, restore, cancelling, overlapped, historyVars>>

--------------------------------------------------------------------------------
(* restore, at most once                                                   *)

AskLatest ==
    /\ restore.at = "due" /\ tab = "open" /\ ~stopped /\ shown = Nobody
    /\ restore' = [restore EXCEPT !.at = "asked"]
    /\ Overlaps(Running # {})
    /\ UNCHANGED <<coordinatorVars, tab, stopped, shown, call, cancelling, loop, timer, historyVars>>
TellLatest ==
    /\ restore.at = "asked"
    /\ \/ restore' = [at |-> "answered", view |-> IF latest = Nobody THEN Nobody ELSE View(latest, job[latest])]
          /\ UNCHANGED failures
       \/ FailsOnce /\ restore' = NotRestoring
    /\ UNCHANGED <<coordinatorVars, tab, stopped, shown, call, cancelling, loop, timer,
                   refreshed, twice, overlapped, unsubmitted>>
Restored ==
    LET view == restore.view IN
    /\ restore.at = "answered" /\ restore' = NotRestoring
    /\ IF stopped \/ view = Nobody \/ shown # Nobody THEN UNCHANGED <<shown, loop, timer>>
       ELSE /\ Shows(view)
            /\ IF Terminal(view.state) THEN UNCHANGED <<loop, timer>> ELSE Sets(<<view.id, "restore">>)
    /\ UNCHANGED <<coordinatorVars, tab, stopped, call, cancelling, overlapped, historyVars>>

--------------------------------------------------------------------------------
(* poll                                                                    *)

Tick(l) ==
    /\ loop[l] = "waiting"
    /\ loop' = [loop EXCEPT ![l] = IF stopped THEN "none" ELSE "asked"]
    /\ UNCHANGED <<coordinatorVars, tab, stopped, shown, commandVars, timer, overlapped, historyVars>>
\* `get_query_status`; the coordinator has forgotten those of closed tabs.
TellStatus(l) ==
    /\ loop[l] = "asked"
    /\ \/ loop' = [loop EXCEPT ![l] = job[l[1]]] /\ UNCHANGED failures
       \/ loop' = [loop EXCEPT ![l] = "error"] /\ FailsOnce
    /\ UNCHANGED <<coordinatorVars, tab, stopped, shown, commandVars, timer, refreshed, twice, overlapped, unsubmitted>>

\* What the tick was told is shown; a terminal state ends the loop, and a success is
\* announced.
Ticked(l) ==
    LET state == loop[l] IN
    /\ state \in {"active", "succeeded", "failed"} /\ ~stopped
    /\ Shows(View(l[1], state))
    /\ IF Terminal(state) THEN loop' = [loop EXCEPT ![l] = "none"] /\ timer' = Nobody ELSE Sets(l)
    /\ Overlaps(Terminal(state) /\ cancelling.at # "none")
    /\ IF state = "succeeded"
       THEN refreshed' = refreshed \cup {l[1]} /\ twice' = (twice \/ l[1] \in refreshed)
       ELSE UNCHANGED <<refreshed, twice>>
    /\ UNCHANGED <<coordinatorVars, tab, stopped, commandVars, unsubmitted, failures>>
\* Nothing, or an error: it keeps trying.
TicksOn(l) ==
    /\ loop[l] = "error" \/ (loop[l] = "gone" /\ ~stopped)
    /\ Sets(l)
    /\ UNCHANGED <<coordinatorVars, tab, stopped, shown, commandVars, overlapped, historyVars>>
TickedTooLate(l) ==
    /\ loop[l] \in {"active", "succeeded", "failed", "gone"} /\ stopped
    /\ loop' = [loop EXCEPT ![l] = "none"]
    /\ UNCHANGED <<coordinatorVars, tab, stopped, shown, commandVars, timer, overlapped, historyVars>>

--------------------------------------------------------------------------------
(* cancel: one at a time; the answer is put over what was shown at the     *)
(* click.                                                                  *)

Cancel ==
    /\ cancelling.at = "none" /\ tab = "open" /\ ~stopped /\ Active
    /\ cancelling' = [at |-> "asked", current |-> shown, state |-> "none"]
    /\ UNCHANGED <<coordinatorVars, tab, stopped, shown, call, restore, loop, timer, overlapped, historyVars>>
\* An execution the coordinator has forgotten is an error.
TellCancelled ==
    /\ cancelling.at = "asked"
    /\ \/ /\ job[cancelling.current.id] # "gone"
          /\ cancelling' = [cancelling EXCEPT !.at = "answered", !.state = job[cancelling.current.id]]
          /\ UNCHANGED failures
       \/ cancelling' = NotCancelling /\ IF job[cancelling.current.id] = "gone" THEN UNCHANGED failures ELSE FailsOnce
    /\ UNCHANGED <<coordinatorVars, tab, stopped, shown, call, restore, loop, timer,
                   refreshed, twice, overlapped, unsubmitted>>
Cancelled ==
    /\ cancelling.at = "answered" /\ cancelling' = NotCancelling
    /\ IF stopped THEN UNCHANGED shown ELSE Shows([cancelling.current EXCEPT !.state = cancelling.state])
    /\ UNCHANGED <<coordinatorVars, tab, stopped, call, restore, loop, timer, overlapped, historyVars>>

--------------------------------------------------------------------------------
(* forget, when the tab is closed; the hook's end                          *)

Runs == loop                                    \* mutant: the timer goes on
Cleared ==
    IF timer # Nobody /\ loop[timer] = "waiting" THEN [loop EXCEPT ![timer] = "none"] ELSE loop
Forget ==
    /\ tab = "open" /\ ~stopped
    /\ tab' = "closing" /\ loop' = Cleared /\ timer' = Nobody /\ shown' = Nobody
    /\ Overlaps(Running # {} \/ restore.at \in {"asked", "answered"} \/ cancelling.at # "none"
                \/ \E l \in Alive : loop[l] # "waiting")
    /\ UNCHANGED <<coordinatorVars, stopped, commandVars, historyVars>>
\* The coordinator drops what it tracks for the tab.
Forgotten ==
    /\ tab = "closing" /\ tab' = "closed"
    /\ \/ /\ job' = [e \in Executions |-> IF job[e] = "none" THEN "none" ELSE "gone"]
          /\ latest' = Nobody /\ UNCHANGED failures
       \/ FailsOnce /\ UNCHANGED <<job, latest>>
    /\ UNCHANGED <<released, stopped, shown, commandVars, loop, timer, refreshed, twice, overlapped, unsubmitted>>

Unmount ==
    /\ ~stopped /\ stopped' = TRUE
    /\ loop' = Cleared /\ timer' = Nobody
    /\ UNCHANGED <<coordinatorVars, tab, shown, commandVars, overlapped, historyVars>>

\* The engine's work ends.
Ends(e) ==
    /\ job[e] = "active"
    /\ \E state \in {"succeeded", "failed"} : job' = [job EXCEPT ![e] = state]
    /\ UNCHANGED <<latest, released, tab, stopped, shown, commandVars, loop, timer, overlapped, historyVars>>

\* Bound: a behaviour is followed up to its first overlap.
TabNext ==
    /\ ~overlapped
    /\ \/ \E c \in Clicks : Click(c) \/ ReleaseSuperseded(c) \/ Submit(c) \/ NotSubmitted(c) \/ Submitted(c)
       \/ AskLatest \/ TellLatest \/ Restored
       \/ \E l \in Loops : Tick(l) \/ TellStatus(l) \/ Ticked(l) \/ TicksOn(l) \/ TickedTooLate(l)
       \/ Cancel \/ TellCancelled \/ Cancelled
       \/ Forget \/ Forgotten \/ Unmount
       \/ \E e \in Executions : Ends(e)

TabSpec == TabInit /\ [][TabNext]_tabVars

--------------------------------------------------------------------------------
(* The property.                                                           *)

\* Nothing of the tab is waited for.
Quiet == Running = {} /\ restore.at \notin {"asked", "answered"} /\ cancelling.at = "none"

\* As long as the calls on a tab do not overlap (no run while another call or a loop is on
\* its way, no restore beside a run, no tick that ends while a cancellation is waited for,
\* no tab closed in the middle of a call): an execution is polled by one loop, that of the
\* execution shown, and one shown to be active is polled; what is shown otherwise is the
\* latest execution as the coordinator has it, with its result, which was not released
\* unless the next submission failed; a closed tab has nothing left; and a success is
\* announced once (useQueryExecution.ts).
TabShowsLatest ==
    ~overlapped =>
        /\ \A l \in Alive : stopped \/ (shown # Nobody /\ l[1] = shown.id)
        /\ Cardinality(Alive) <= 1 /\ ~twice
        /\ Active /\ ~stopped => Alive # {}
        /\ tab # "open" => Alive = {} /\ shown = Nobody
        /\ shown # Nobody /\ Quiet /\ ~stopped =>
              /\ shown.id = latest
              /\ Alive = {} => shown = View(latest, job[latest])
              /\ shown.result /\ ~unsubmitted => shown.id \notin released
================================================================================
