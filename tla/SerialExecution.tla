---------------------------- MODULE SerialExecution ----------------------------
(***************************************************************************)
(* What a per-session execution queue promises its callers, without        *)
(* threads, locks, interrupts or files.  An execution belongs to one       *)
(* session; a session serves its executions one at a time in submission    *)
(* order; a waiting execution can be withdrawn; an execution that reached  *)
(* an outcome keeps it.                                                    *)
(*                                                                         *)
(* The engine's query jobs (EngineJobs) and its exports (EngineExports)    *)
(* both implement this module.                                             *)
(***************************************************************************)
EXTENDS WaitingLine

CONSTANTS
    Jobs,       \* execution identifiers
    Sessions,   \* session identifiers
    NoJob       \* a session that serves nothing

VARIABLES
    phase,      \* where each execution stands
    line,       \* the executions waiting in each session, oldest first
    serving     \* the execution each session serves, or NoJob

vars == <<phase, line, serving>>

Outcomes == {"succeeded", "failed", "cancelled"}
Phases == {"absent", "queued", "running"} \cup Outcomes

TypeOK ==
    /\ phase \in [Jobs -> Phases]
    /\ line \in [Sessions -> Seq(Jobs)]
    /\ serving \in [Sessions -> Jobs \cup {NoJob}]

Init ==
    /\ phase = [j \in Jobs |-> "absent"]
    /\ line = [s \in Sessions |-> <<>>]
    /\ serving = [s \in Sessions |-> NoJob]

\* A caller submits a new execution to a session.
Submit(j, s) ==
    /\ phase[j] = "absent"
    /\ phase' = [phase EXCEPT ![j] = "queued"]
    /\ line' = [line EXCEPT ![s] = Append(@, j)]
    /\ UNCHANGED serving

\* A session that serves nothing takes the execution that has waited longest.
Start(s) ==
    /\ serving[s] = NoJob
    /\ line[s] # <<>>
    /\ serving' = [serving EXCEPT ![s] = Head(line[s])]
    /\ line' = [line EXCEPT ![s] = Tail(@)]
    /\ phase' = [phase EXCEPT ![Head(line[s])] = "running"]

\* A waiting execution is withdrawn before it was served.
Withdraw(j, s) ==
    /\ phase[j] = "queued"
    /\ j \in Waiting(line[s])
    /\ phase' = [phase EXCEPT ![j] = "cancelled"]
    /\ line' = [line EXCEPT ![s] = Without(@, j)]
    /\ UNCHANGED serving

\* The execution a session serves reaches an outcome.
Finish(s, outcome) ==
    /\ serving[s] # NoJob
    /\ phase' = [phase EXCEPT ![serving[s]] = outcome]
    /\ serving' = [serving EXCEPT ![s] = NoJob]
    /\ UNCHANGED line

Next ==
    \/ \E j \in Jobs, s \in Sessions : Submit(j, s) \/ Withdraw(j, s)
    \/ \E s \in Sessions : Start(s) \/ \E o \in Outcomes : Finish(s, o)

Spec == Init /\ [][Next]_vars
================================================================================
