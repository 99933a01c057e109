------------------------------- MODULE AgentAccess -------------------------------
(***************************************************************************)
(* Who an agent is and what it may change: pairing, authentication, leases,*)
(* grants, revocation and approved mutations of agent_access.rs, with the  *)
(* client table of metadata/agent.rs.                                      *)
(*                                                                         *)
(* Each connection has a thread of the bridge, the user's commands run one *)
(* after the other on the desktop's thread.  The manager's lock, a call of *)
(* the metadata repository and a call of the engine are one step each;     *)
(* approved mutations hold the mutation lane for all of theirs.            *)
(***************************************************************************)
EXTENDS Naturals, FiniteSets

CONSTANTS
    Clients, Connections, Approvals,    \* ids, each used for one record only
    NoClient, NoConnection, NoApproval,
    ConnectionLimit,    \* MAX_CONNECTIONS
    PendingLimit,       \* MAX_PENDING_APPROVALS_PER_CLIENT
    RevisionLimit,      \* bound: changes of the catalog
    EventLimit          \* bound: commands of the user, losses, expiries

ApprovalStates == {"none", "pending", "approved", "denied", "expired", "used", "failed"}
Points == {"idle", "found", "proved", "marked", "claimed", "allowed", "checked", "applied", "errored", "broken"}

VARIABLES
    client,         \* `agent_clients`: none, paired, revoked
    mayModify,      \* clients with Modify data for the project
    pairing,        \* pending pairings: the connection each was requested on
    lease,          \* `connections`: none, challenged, authenticated, gone
    identity,       \* the client a connection names
    point, subject, \* where each connection's thread is, the approval it executes
    desktop,        \* what the desktop's thread still has to do, <<kind, client, connection>>
    approval, proposer, base,   \* `approvals`: state, connection, catalog revision
    lane,           \* holder of `mutation_lane`
    critical,       \* the project is in `critical_projects`
    projectOpen,
    catalog,        \* the engine's catalog revision
    applied,        \* how often the engine applied each approved statement
    audited, told,  \* audit rows, and what the agent was answered
    lost,           \* history: applied, but the engine's answer is an error
    happened        \* counts towards EventLimit

clients == <<client, mayModify>>
leases == <<pairing, lease, identity>>
threads == <<point, subject, desktop, lane>>
approvals == <<approval, proposer, base>>
effects == <<critical, catalog, applied, audited, told, lost>>
accessVars == <<clients, leases, threads, approvals, projectOpen, effects, happened>>

NoWork == <<"none", NoClient, NoConnection>>
Known(c) == lease[c] \in {"challenged", "authenticated"}
Goto(c, p) == point' = [point EXCEPT ![c] = p]
Happens == happened < EventLimit /\ happened' = happened + 1
InFlight(a) == \E c \in Connections : subject[c] = a

InMutation(c) == point[c] \in {"claimed", "allowed", "checked", "applied", "errored", "broken"}

AccessTypeOK ==
    /\ client \in [Clients -> {"none", "paired", "revoked"}] /\ mayModify \subseteq Clients
    /\ pairing \in [Clients -> Connections \cup {NoConnection}]
    /\ lease \in [Connections -> {"none", "challenged", "authenticated", "gone"}]
    /\ identity \in [Connections -> Clients \cup {NoClient}]
    /\ point \in [Connections -> Points] /\ subject \in [Connections -> Approvals \cup {NoApproval}]
    /\ desktop \in {"none", "pair", "revoke"} \X (Clients \cup {NoClient}) \X (Connections \cup {NoConnection})
    /\ approval \in [Approvals -> ApprovalStates] /\ base \in [Approvals -> 0..RevisionLimit]
    /\ proposer \in [Approvals -> Connections \cup {NoConnection}]
    /\ lane \in Connections \cup {NoConnection}
    /\ \A c \in Connections : InMutation(c) <=> lane = c
    /\ critical \in BOOLEAN /\ projectOpen \in BOOLEAN
    /\ catalog \in 0..RevisionLimit /\ happened \in 0..EventLimit
    /\ applied \in [Approvals -> 0..2] /\ audited \subseteq Approvals /\ lost \subseteq Approvals
    /\ told \in [Approvals -> {"none", "succeeded", "failed", "critical"}]

\* Clients that were paired, and grants, are kept in the metadata database.
AccessInit ==
    /\ client \in [Clients -> {"none", "paired"}]
    /\ mayModify \in SUBSET {p \in Clients : client[p] = "paired"}
    /\ pairing = [p \in Clients |-> NoConnection]
    /\ lease = [c \in Connections |-> "none"] /\ identity = [c \in Connections |-> NoClient]
    /\ point = [c \in Connections |-> "idle"] /\ subject = [c \in Connections |-> NoApproval]
    /\ desktop = NoWork /\ lane = NoConnection
    /\ approval = [a \in Approvals |-> "none"] /\ proposer = [a \in Approvals |-> NoConnection]
    /\ base = [a \in Approvals |-> 0]
    /\ critical = FALSE /\ projectOpen = TRUE /\ catalog = 0
    /\ applied = [a \in Approvals |-> 0] /\ audited = {} /\ lost = {} /\ told = [a \in Approvals |-> "none"]
    /\ happened = 0

--------------------------------------------------------------------------------
(* Pairing and authentication.                                             *)

\* hello: a new client asks to be paired, or repeats that on another connection;
\* a paired one gets a challenge.
Hello(c, p) ==
    /\ lease[c] = "none" /\ Cardinality({d \in Connections : Known(d)}) < ConnectionLimit
    /\ \/ client[p] = "none" /\ desktop[2] # p /\ pairing' = [pairing EXCEPT ![p] = c]
       \/ client[p] = "paired" /\ pairing[p] = NoConnection /\ UNCHANGED pairing
    /\ lease' = [lease EXCEPT ![c] = "challenged"]
    /\ identity' = [identity EXCEPT ![c] = p]
    /\ UNCHANGED <<clients, threads, approvals, projectOpen, effects, happened>>

\* approve_pairing takes the request out, then writes the client.
ApprovePairing(p) ==
    /\ desktop = NoWork /\ Happens /\ pairing[p] # NoConnection
    /\ desktop' = <<"pair", p, pairing[p]>>
    /\ pairing' = [pairing EXCEPT ![p] = NoConnection]
    /\ UNCHANGED <<clients, lease, identity, point, subject, lane, approvals, projectOpen, effects>>

Pair(p) ==
    /\ desktop[1] = "pair" /\ desktop[2] = p
    /\ \/ client' = [client EXCEPT ![p] = "paired"] /\ UNCHANGED lease
       \/ lease' = [lease EXCEPT ![desktop[3]] = IF Known(desktop[3]) THEN "gone" ELSE @] /\ UNCHANGED client
    /\ desktop' = NoWork
    /\ UNCHANGED <<mayModify, pairing, identity, point, subject, lane, approvals, projectOpen, effects, happened>>

\* deny_pairing
DenyPairing(p) ==
    /\ desktop = NoWork /\ Happens /\ pairing[p] # NoConnection
    /\ pairing' = [pairing EXCEPT ![p] = NoConnection]
    /\ lease' = [lease EXCEPT ![pairing[p]] = IF Known(pairing[p]) THEN "gone" ELSE @]
    /\ UNCHANGED <<clients, identity, threads, approvals, projectOpen, effects>>

\* authenticate: the client is looked up, ...
FindClient(c) ==
    /\ point[c] = "idle" /\ Known(c) /\ client[identity[c]] = "paired"
    /\ Goto(c, "found")
    /\ UNCHANGED <<clients, leases, subject, desktop, lane, approvals, projectOpen, effects, happened>>

\* ... its proof is checked, ...
Prove(c) ==
    /\ point[c] = "found"
    /\ \/ Known(c) /\ Goto(c, "proved") /\ UNCHANGED lease
       \/ Known(c) /\ Goto(c, "idle") /\ lease' = [lease EXCEPT ![c] = "gone"]
       \/ ~Known(c) /\ Goto(c, "idle") /\ UNCHANGED lease
    /\ UNCHANGED <<clients, pairing, identity, subject, desktop, lane, approvals, projectOpen, effects, happened>>

\* ... the table is asked whether it is still paired, ...
MarkConnected(c) ==
    /\ point[c] = "proved"
    /\ IF client[identity[c]] = "paired"
       THEN Goto(c, "marked") /\ UNCHANGED lease
       ELSE Goto(c, "idle") /\ lease' = [lease EXCEPT ![c] = "gone"]
    /\ UNCHANGED <<clients, pairing, identity, subject, desktop, lane, approvals, projectOpen, effects, happened>>

\* ... and the connection, if it is still there, holds a lease.
Authenticate(c) ==
    /\ point[c] = "marked"
    /\ lease' = [lease EXCEPT ![c] = IF Known(c) THEN "authenticated" ELSE @]
    /\ Goto(c, "idle")
    /\ UNCHANGED <<clients, pairing, identity, subject, desktop, lane, approvals, projectOpen, effects, happened>>

\* prune, at the start of most requests: by age, everything that waits for somebody.
Prune ==
    /\ Happens
    /\ \/ /\ \E c \in Connections : lease[c] = "challenged" /\ lease' = [lease EXCEPT ![c] = "gone"]
          /\ UNCHANGED <<pairing, approval>>
       \/ /\ \E p \in Clients : pairing[p] # NoConnection /\ pairing' = [pairing EXCEPT ![p] = NoConnection]
          /\ UNCHANGED <<lease, approval>>
       \/ /\ \E a \in Approvals : approval[a] \in {"pending", "approved"} /\ approval' = [approval EXCEPT ![a] = "expired"]
          /\ UNCHANGED <<lease, pairing>>
    /\ UNCHANGED <<clients, identity, threads, proposer, base, projectOpen, effects>>

--------------------------------------------------------------------------------
(* Losing a connection, a grant, the pairing, the project.                 *)

Denied(S) == [a \in Approvals |-> IF a \in S /\ approval[a] = "pending" THEN "denied" ELSE approval[a]]

\* disconnect, when the transport ends or the lease ran out.
Disconnect(c) ==
    /\ Happens
    /\ Known(c)
    /\ lease' = [lease EXCEPT ![c] = "gone"]
    /\ approval' = Denied({a \in Approvals : proposer[a] = c})
    /\ UNCHANGED <<clients, pairing, identity, threads, proposer, base, projectOpen, effects>>

\* set_project_grant for the project that is open.
SetGrant(p) ==
    /\ desktop = NoWork /\ Happens /\ projectOpen /\ client[p] = "paired"
    /\ mayModify' \in {mayModify \cup {p}, mayModify \ {p}} \ {mayModify}
    /\ UNCHANGED <<client, leases, threads, approvals, projectOpen, effects>>

\* revoke_client: the table first, ...
RevokeClient(p) ==
    /\ desktop = NoWork /\ Happens /\ client[p] = "paired"
    /\ client' = [client EXCEPT ![p] = "revoked"] /\ mayModify' = mayModify \ {p}
    /\ desktop' = <<"revoke", p, NoConnection>>
    /\ UNCHANGED <<leases, point, subject, lane, approvals, projectOpen, effects>>

\* ... then every connection that names the client, authenticated or not.
NamedBy(p) == {c \in Connections : identity[c] = p /\ Known(c)}

DropConnections(p) ==
    /\ desktop[1] = "revoke" /\ desktop[2] = p
    /\ lease' = [c \in Connections |-> IF c \in NamedBy(p) THEN "gone" ELSE lease[c]]
    /\ approval' = Denied({a \in Approvals : proposer[a] \in {c \in Connections : identity[c] = p}})
    /\ desktop' = NoWork
    /\ UNCHANGED <<clients, pairing, identity, point, subject, lane, proposer, base, projectOpen, effects, happened>>

\* invalidate_project and the close that follows; the project may be opened again.
CloseProject ==
    /\ desktop = NoWork /\ Happens /\ projectOpen
    /\ approval' = [a \in Approvals |-> IF approval[a] \in {"pending", "approved"} THEN "denied" ELSE approval[a]]
    /\ critical' = FALSE /\ projectOpen' = FALSE
    /\ UNCHANGED <<clients, leases, threads, proposer, base, catalog, applied, audited, told, lost>>

OpenProject ==
    /\ ~projectOpen /\ desktop = NoWork
    /\ projectOpen' = TRUE
    /\ UNCHANGED <<clients, leases, threads, approvals, effects, happened>>

\* set_enabled(FALSE): the bridge has joined every connection's thread by then.
Disable ==
    /\ desktop = NoWork /\ Happens
    /\ \A c \in Connections : point[c] = "idle"
    /\ \E c \in Connections : Known(c)
    /\ pairing' = [p \in Clients |-> NoConnection]
    /\ lease' = [c \in Connections |-> IF Known(c) THEN "gone" ELSE lease[c]]
    /\ approval' = Denied(Approvals)
    /\ UNCHANGED <<clients, identity, threads, proposer, base, projectOpen, effects>>

--------------------------------------------------------------------------------
(* Approved mutations.                                                     *)

\* propose_sql consumes a classified snapshot of the connection.
Propose(c, a) ==
    /\ point[c] = "idle" /\ lease[c] = "authenticated" /\ approval[a] = "none"
    /\ Cardinality({b \in Approvals : approval[b] = "pending" /\ identity[proposer[b]] = identity[c]}) < PendingLimit
    /\ approval' = [approval EXCEPT ![a] = "pending"]
    /\ proposer' = [proposer EXCEPT ![a] = c]
    /\ base' = [base EXCEPT ![a] = catalog]
    /\ UNCHANGED <<clients, leases, threads, projectOpen, effects, happened>>

\* decide_approval: a decision that comes too late expires whatever is there.
DecideApproval(a) ==
    /\ desktop = NoWork /\ Happens /\ approval[a] # "none"
    /\ approval' \in {[approval EXCEPT ![a] = s] :
                        s \in IF approval[a] = "pending" THEN {"approved", "denied", "expired"} ELSE {"expired"}}
    /\ UNCHANGED <<clients, leases, threads, proposer, base, projectOpen, effects>>

\* execute_approved, in the mutation lane: the approval is used up first ...
LaneFree == lane = NoConnection
KeptApproved == "approved"                     \* mutant: checked but not used up
UsedUp == "used"

ClaimApproval(c, a) ==
    /\ point[c] = "idle" /\ LaneFree
    /\ lease[c] = "authenticated" /\ proposer[a] = c /\ approval[a] = "approved"
    /\ approval' = [approval EXCEPT ![a] = UsedUp]
    /\ lane' = c /\ subject' = [subject EXCEPT ![c] = a]
    /\ Goto(c, "claimed")
    /\ UNCHANGED <<clients, leases, desktop, proposer, base, projectOpen, effects, happened>>

Fails(a) == [approval EXCEPT ![a] = "failed"]
Leave(c) ==
    /\ Goto(c, "idle") /\ subject' = [subject EXCEPT ![c] = NoApproval]
    /\ lane' = IF lane = c THEN NoConnection ELSE lane

\* ... then the project must not be critical, and the client allowed to modify it, ...
CheckAuthority(c) ==
    LET allowed == ~critical /\ lease[c] = "authenticated" /\ identity[c] \in mayModify /\ projectOpen
    IN  /\ point[c] = "claimed"
        /\ IF allowed THEN Goto(c, "allowed") /\ UNCHANGED <<subject, lane, approval, told>>
           ELSE Leave(c) /\ approval' = Fails(subject[c]) /\ told' = [told EXCEPT ![subject[c]] = "failed"]
        /\ UNCHANGED <<clients, leases, desktop, proposer, base, projectOpen, critical, catalog, applied, audited, lost, happened>>

\* ... and the catalog be the one that was classified; if the engine cannot say, the
\* approval stays used.
CheckRevision(c) ==
    LET a == subject[c]
    IN  /\ point[c] = "allowed"
        /\ \/ base[a] = catalog /\ Goto(c, "checked") /\ UNCHANGED <<subject, lane, approval, audited, told>>
           \/ /\ base[a] # catalog /\ Leave(c)
              /\ approval' = Fails(a) /\ audited' \in {audited, audited \cup {a}}
              /\ told' = [told EXCEPT ![a] = "failed"]
           \/ Leave(c) /\ told' = [told EXCEPT ![a] = "failed"] /\ UNCHANGED <<approval, audited>>
        /\ UNCHANGED <<clients, leases, desktop, proposer, base, projectOpen, critical, catalog, applied, lost, happened>>

\* The engine compares the revision again, in the transaction of the statement; it may
\* commit and then fail to say so, in the inspection that follows or because it is lost.
Apply(c) ==
    LET a == subject[c]
    IN  /\ point[c] = "checked"
        /\ \/ /\ base[a] = catalog /\ catalog < RevisionLimit
              /\ applied' = [applied EXCEPT ![a] = @ + 1] /\ catalog' \in {catalog, catalog + 1}
              /\ \/ Goto(c, "applied") /\ UNCHANGED lost
                 \/ Goto(c, "errored") /\ lost' = lost \cup {a}
           \/ Goto(c, "errored") /\ UNCHANGED <<applied, catalog, lost>>
           \/ base[a] = catalog /\ Goto(c, "broken") /\ UNCHANGED <<applied, catalog, lost>>
        /\ UNCHANGED <<clients, leases, subject, desktop, lane, approvals, projectOpen, critical, audited, told, happened>>

\* The outcome is audited; a commit without its audit row is a critical error.
Swallowed(a) == "succeeded"                    \* mutant: the audit's error is logged only
OnAuditError(a) == "critical"

Record(c) ==
    LET a == subject[c]
        Rows == {audited, audited \cup {a}}
    IN  /\ \/ /\ point[c] = "applied"
              /\ \/ audited' = audited \cup {a} /\ told' = [told EXCEPT ![a] = "succeeded"] /\ UNCHANGED approval
                 \/ approval' = Fails(a) /\ told' = [told EXCEPT ![a] = OnAuditError(a)] /\ UNCHANGED audited
              /\ UNCHANGED critical
           \/ /\ point[c] = "errored"
              /\ approval' = Fails(a) /\ audited' \in Rows /\ told' = [told EXCEPT ![a] = "failed"]
              /\ UNCHANGED critical
           \/ /\ point[c] = "broken"
              /\ approval' = Fails(a) /\ audited' \in Rows /\ told' = [told EXCEPT ![a] = "critical"]
              /\ critical' = TRUE
        /\ Leave(c)
        /\ UNCHANGED <<clients, leases, desktop, proposer, base, projectOpen, catalog, applied, lost, happened>>

\* An import, or another change of the user.
ChangeCatalog ==
    /\ Happens
    /\ catalog < RevisionLimit /\ catalog' = catalog + 1
    /\ UNCHANGED <<clients, leases, threads, approvals, projectOpen, critical, applied, audited, told, lost>>

--------------------------------------------------------------------------------
AccessNext ==
    \/ \E c \in Connections, p \in Clients : Hello(c, p)
    \/ \E p \in Clients :
          ApprovePairing(p) \/ Pair(p) \/ DenyPairing(p) \/ SetGrant(p) \/ RevokeClient(p) \/ DropConnections(p)
    \/ \E c \in Connections :
          FindClient(c) \/ Prove(c) \/ MarkConnected(c) \/ Authenticate(c) \/ Disconnect(c)
          \/ CheckAuthority(c) \/ CheckRevision(c) \/ Apply(c) \/ Record(c)
    \/ \E c \in Connections, a \in Approvals : Propose(c, a) \/ ClaimApproval(c, a)
    \/ \E a \in Approvals : DecideApproval(a)
    \/ CloseProject \/ OpenProject \/ Disable \/ Prune \/ ChangeCatalog

AccessSpec == AccessInit /\ [][AccessNext]_accessVars

--------------------------------------------------------------------------------
(* Safety.                                                                 *)

\* Only paired clients hold a lease, except while revoke_client is between the table
\* and the connections; an authentication under way at that moment does not survive it.
LeaseIsPaired ==
    \A c \in Connections :
        lease[c] = "authenticated" =>
            client[identity[c]] = "paired" \/ desktop = <<"revoke", identity[c], NoConnection>>

\* An approved statement whose application the engine confirmed has an audit row, or its
\* agent is told that the audit is missing (execute_approved, write_audit).
AppliedIsAccounted ==
    \A a \in Approvals \ lost :
        applied[a] > 0 /\ ~InFlight(a) => a \in audited \/ told[a] = "critical"

\* An agent that is told its statement failed can rely on the rollback: the loss of the
\* process and an ambiguous commit are critical (E15-DESIGN-GRAPH.md, M19).
FailedIsRolledBack ==
    \A a \in Approvals : told[a] = "failed" => applied[a] = 0

\* No mutation is applied to a project whose last one could not be rolled back,
\* until the project is closed (critical_projects, mutation_lane).
CriticalStopsMutations ==
    [][applied' # applied => ~critical]_accessVars

\* An approval is used for one application of its statement, after the user's decision,
\* on the catalog it was proposed for, whatever expires or is revoked meanwhile.
Stage(a) ==
    IF applied[a] = 1 THEN "spent"
    ELSE IF applied[a] > 1 THEN "twice"
    ELSE IF approval[a] = "none" THEN "none"
    ELSE IF approval[a] = "pending" THEN "proposed"
    ELSE IF approval[a] = "approved" \/ InFlight(a) THEN "approved" ELSE "closed"
Promise == INSTANCE OneUseApproval
    WITH stage <- [a \in Approvals |-> Stage(a)], proposedAt <- base, revision <- catalog
ImplementsOneUse == Promise!OneUseSpec
================================================================================
