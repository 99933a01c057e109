------------------------------- MODULE MCAgents -------------------------------
(***************************************************************************)
(* Instances of AgentAccess and AgentExports for TLC, side by side:        *)
(* `focus` says which of them a behaviour is of; the variables of the      *)
(* other stand still.                                                      *)
(***************************************************************************)
EXTENDS Naturals, FiniteSets, TLC

CONSTANTS
    Clients, Connections, Approvals, NoClient, NoConnection, NoApproval,
    ConnectionLimit, PendingLimit, RevisionLimit, EventLimit,
    Exports, Owner, Nobody, TerminalLimit, TurnLimit

VARIABLES
    focus,
    client, mayModify, pairing, lease, identity, point, subject, desktop, approval, proposer, base, lane,
    critical, projectOpen, catalog, applied, audited, told, lost, happened,
    leased, open, revision, ready, within, collision, turns, export, decision, proposed, exportApproval,
    order, rows, job, overwrite, killed, forgotten, alive, agenda, exportLane

Access == INSTANCE AgentAccess
Output == INSTANCE AgentExports WITH
    Connections <- {Owner}, OwnerOf <- [e \in Exports |-> Owner], approval <- exportApproval, lane <- exportLane

\* The values that stand for "none" are no ids.
ASSUME AccessConstants ==
    /\ NoClient \notin Clients /\ NoConnection \notin Connections /\ NoApproval \notin Approvals
    /\ RevisionLimit \in Nat

\* A table holds finitely many exports; the value that stands for no thread is none.
ASSUME ExportConstants == IsFiniteSet(Exports) /\ Nobody \notin Output!Threads

accessVars == <<client, mayModify, pairing, lease, identity, point, subject, desktop, approval, proposer, base, lane,
                critical, projectOpen, catalog, applied, audited, told, lost, happened>>
exportVars == <<leased, open, revision, ready, within, collision, turns, export, decision, proposed, exportApproval,
                order, rows, job, overwrite, killed, forgotten, alive, agenda, exportLane>>
vars == <<focus, accessVars, exportVars>>

AgentsInit ==
    /\ Access!AccessInit /\ Output!ExportInit
    /\ \/ focus = "access" /\ ~within /\ ~collision
       \/ focus = "exports" /\ mayModify = {} /\ \A p \in Clients : client[p] = "none"

AgentsNext ==
    /\ UNCHANGED focus
    /\ \/ focus = "access" /\ Access!AccessNext /\ UNCHANGED exportVars
       \/ focus = "exports" /\ Output!ExportNext /\ UNCHANGED accessVars

AgentsSpec == AgentsInit /\ [][AgentsNext]_vars

\* Exports and approvals, and so on, have the same model values in the configuration.
Symmetry == Permutations(Connections) \cup Permutations(Approvals)

--------------------------------------------------------------------------------
(* The properties of the instances, under their own names.                 *)

\* What an approved statement did is told and audited (agent_access.rs).
AppliedIsAccounted == Access!AppliedIsAccounted

\* An approval stands for one application of its statement (agent_access.rs).
ImplementsOneUse == Access!ImplementsOneUse

\* No export runs on without the authority it was started on (agent_exports.rs).
NoOrphanExport == Output!NoOrphanExport

\* What was started is what was decided (agent_exports.rs).
StartedAsDecided == Output!StartedAsDecided

\* An export gets exactly one audit row (agent_exports.rs).
AuditedOnce == Output!AuditedOnce

================================================================================
