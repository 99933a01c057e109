---------------------------- MODULE DesktopShutdown ----------------------------
(***************************************************************************)
(* Graceful shutdown (src-tauri/src/shutdown.rs) over the query            *)
(* coordinator: cancel what is active, wait for it for a bounded time,     *)
(* release results, stop the engine, checkpoint the history database.      *)
(* Commands, pollers and the engine go on meanwhile.                       *)
(***************************************************************************)
EXTENDS QueryCoordinator

VARIABLES
    guard,      \* `ShutdownCoordinator.state`
    phase,      \* where run_shutdown is
    toCancel,   \* executions cancel_all has listed and not yet cancelled
    warned      \* the report warns of active jobs

shutdownVars == <<guard, phase, toCancel, warned>>
vars == <<queryVars, shutdownVars>>

TypeOK ==
    /\ QueryTypeOK
    /\ guard \in {"Idle", "WaitingForDraft", "Running", "Complete"}
    /\ phase \in {"none", "cancel", "wait", "release", "stop", "checkpoint", "exit"}
    /\ toCancel \subseteq Executions
    /\ warned \in BOOLEAN

Init ==
    /\ QueryInit
    /\ guard = "Idle" /\ phase = "none"
    /\ toCancel = {} /\ warned = FALSE

\* The interface has installed its close handler.
FrontendReady ==
    /\ guard = "Idle"
    /\ guard' = "WaitingForDraft"
    /\ UNCHANGED <<queryVars, phase, toCancel, warned>>

\* complete_shutdown: the first call runs the shutdown, further ones change
\* nothing; quitting without the draft is allowed before the interface is ready.
Begin ==
    /\ guard \in {"Idle", "WaitingForDraft"}
    /\ guard' = "Running"
    /\ phase' = "cancel"
    /\ toCancel' = {x \in Executions : Active(x)}
    /\ UNCHANGED <<queryVars, warned>>

\* cancel_all asks the engine about each execution in turn.
CancelNext(x) ==
    /\ phase = "cancel" /\ x \in toCancel
    /\ toCancel' = toCancel \ {x}
    /\ eng' = [eng EXCEPT ![x] = CancelledStatus(x)]
    /\ up' = TRUE
    /\ UNCHANGED <<records, threads, history, crashes, guard, phase, warned>>

Cancelled ==
    /\ phase = "cancel" /\ toCancel = {}
    /\ phase' = "wait"
    /\ UNCHANGED <<queryVars, guard, toCancel, warned>>

\* The wait ends when nothing is active, or at the deadline with a warning.
NeverWarns == FALSE                            \* mutant: active jobs are not looked for again
Warns == \E x \in Executions : Active(x)

EndWait ==
    /\ phase = "wait"
    /\ warned' = Warns
    /\ phase' = "release"
    /\ UNCHANGED <<queryVars, guard, toCancel>>

\* Results are released and the project's session is closed, which cancels its
\* queued executions in the engine.
ReleaseAndClose ==
    /\ phase = "release"
    /\ phase' = "stop"
    /\ eng' = [x \in Executions |-> CancelledStatus(x)]
    /\ UNCHANGED <<records, threads, history, up, crashes, guard, toCancel, warned>>

\* engine.shutdown takes the process out and ends it.
StopEngine ==
    /\ phase = "stop"
    /\ NoEngine
    /\ phase' = "checkpoint"
    /\ UNCHANGED <<records, threads, history, crashes, guard, toCancel, warned>>

\* The history database is checkpointed and the window destroyed.
Checkpoint ==
    /\ phase = "checkpoint"
    /\ guard' = "Complete" /\ phase' = "exit"
    /\ UNCHANGED <<queryVars, toCancel, warned>>

ShutdownStep ==
    \/ FrontendReady \/ Begin
    \/ (\E x \in Executions : CancelNext(x)) \/ Cancelled
    \/ EndWait \/ ReleaseAndClose \/ StopEngine \/ Checkpoint

\* With the window the process ends, and every thread with it.
Next ==
    \/ phase # "exit" /\ QueryNext /\ UNCHANGED shutdownVars
    \/ ShutdownStep

Spec == Init /\ [][Next]_vars

--------------------------------------------------------------------------------
(* Safety.                                                                 *)

\* A shutdown that ends its wait without a warning leaves no execution undecided:
\* what it releases, closes and stops is not the work of anyone.
QuietShutdownDecides ==
    [][EndWait /\ ~warned' => \A x \in Executions : Present(x) => x \in written]_vars
================================================================================
