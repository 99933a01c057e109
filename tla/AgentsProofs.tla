----------------------------- MODULE AgentsProofs -----------------------------
(***************************************************************************)
(* What approved mutations and guarded exports of agents keep, for all     *)
(* sets of clients, connections and approvals and all bounds.              *)
(*                                                                         *)
(* Mutations: the mutation lane has at most one connection past the claim  *)
(* of its approval, the claim used the approval up, and until the engine   *)
(* answered its statement was not applied.                                 *)
(*                                                                         *)
(* Exports: ExportInv is about the audit and the authority a start is made *)
(* with; OwnerInv, on top of it, is about who still holds that authority:  *)
(* what each thread's agenda relies on, the lane, and the cleaner.         *)
(***************************************************************************)
EXTENDS MCAgents, SequenceTheorems, FiniteSetTheorems, TLAPS

InLane == {"claimed", "allowed", "checked", "applied", "errored", "broken"}

AccessTypes ==
    /\ client \in [Clients -> {"none", "paired", "revoked"}]
    /\ pairing \in [Clients -> Connections \cup {NoConnection}]
    /\ lease \in [Connections -> {"none", "challenged", "authenticated", "gone"}]
    /\ identity \in [Connections -> Clients \cup {NoClient}]
    /\ point \in [Connections -> Access!Points]
    /\ subject \in [Connections -> Approvals \cup {NoApproval}]
    /\ desktop \in {"none", "pair", "revoke"} \X (Clients \cup {NoClient}) \X (Connections \cup {NoConnection})
    /\ approval \in [Approvals -> Access!ApprovalStates]
    /\ base \in [Approvals -> Nat] /\ catalog \in Nat
    /\ applied \in [Approvals -> Nat] /\ audited \subseteq Approvals /\ lost \subseteq Approvals
    /\ told \in [Approvals -> {"none", "succeeded", "failed", "critical"}]

\* One connection at a time is in the lane, with an approval it has used up.
LaneIsExclusive ==
    \A c \in Connections :
        IF point[c] \in InLane
        THEN lane = c /\ subject[c] \in Approvals /\ approval[subject[c]] \in {"used", "expired"}
        ELSE subject[c] = NoApproval

\* How often a statement was applied, by where its approval stands.
AppliedByPoint ==
    /\ \A a \in Approvals :
          /\ applied[a] \in {0, 1}
          /\ approval[a] \in {"none", "pending", "approved"} => applied[a] = 0
    /\ \A c \in Connections :
          /\ point[c] \in {"claimed", "allowed", "checked", "broken"} => applied[subject[c]] = 0
          /\ point[c] = "errored" => applied[subject[c]] = 0 \/ subject[c] \in lost

\* Nobody is past the check of the project while it is critical.
PastCheckIsCalm ==
    \A c \in Connections : point[c] \in InLane \ {"claimed"} => ~critical

\* An authentication that the table has confirmed, and a lease, are of a paired client
\* until its revocation has dropped the connection.
ConfirmedIsPaired ==
    \A c \in Connections :
        /\ lease[c] \in {"challenged", "authenticated"} => identity[c] \in Clients
        /\ point[c] \in {"found", "proved", "marked"} => lease[c] # "none"
        /\ lease[c] = "authenticated" \/ (point[c] = "marked" /\ lease[c] = "challenged")
              => client[identity[c]] = "paired" \/ desktop = <<"revoke", identity[c], NoConnection>>

MutationInv == LaneIsExclusive /\ AppliedByPoint /\ PastCheckIsCalm /\ AppliedIsAccounted
AccessInv == AccessTypes /\ MutationInv /\ ConfirmedIsPaired

--------------------------------------------------------------------------------
(* Types.                                                                  *)

ThreadStep(c) ==
    \/ Access!FindClient(c) \/ Access!Prove(c) \/ Access!MarkConnected(c) \/ Access!Authenticate(c)
    \/ Access!Disconnect(c) \/ Access!CheckAuthority(c) \/ Access!CheckRevision(c) \/ Access!Apply(c)
    \/ Access!Record(c)
DeskStep ==
    \/ \E c \in Connections, p \in Clients : Access!Hello(c, p)
    \/ \E p \in Clients :
          \/ Access!ApprovePairing(p) \/ Access!Pair(p) \/ Access!DenyPairing(p)
          \/ Access!SetGrant(p) \/ Access!RevokeClient(p) \/ Access!DropConnections(p)
    \/ \E c \in Connections, a \in Approvals : Access!Propose(c, a) \/ Access!ClaimApproval(c, a)
    \/ \E a \in Approvals : Access!DecideApproval(a)
ProjectStep ==
    Access!CloseProject \/ Access!OpenProject \/ Access!Disable \/ Access!Prune \/ Access!ChangeCatalog

LEMMA AccessSteps ==
  ASSUME Access!AccessNext
  PROVE  (\E c \in Connections : ThreadStep(c)) \/ DeskStep \/ ProjectStep
BY Zenon DEF Access!AccessNext, ThreadStep, DeskStep, ProjectStep

\* The access variables start with their types and the invariant.
LEMMA AccessInitInv ==
  ASSUME Access!AccessInit
  PROVE  AccessInv
BY AccessConstants
   DEF AccessInv, AccessTypes, MutationInv, LaneIsExclusive, AppliedByPoint, PastCheckIsCalm, ConfirmedIsPaired,
       AppliedIsAccounted, Access!AppliedIsAccounted, Access!InFlight, Access!AccessInit, Access!NoWork,
       Access!Points, Access!ApprovalStates, InLane

\* Each step of a connection's thread keeps the types.
LEMMA ThreadTypes ==
  ASSUME AccessTypes, NEW c \in Connections, LaneIsExclusive, ThreadStep(c)
  PROVE  AccessTypes'
<1> USE DEF Access!clients, Access!leases, Access!threads, Access!approvals, Access!effects, Access!Known,
            Access!Goto, Access!Happens, Access!Points, Access!ApprovalStates
<1>1. CASE Access!FindClient(c)
  BY <1>1 DEF AccessTypes, Access!FindClient
<1>2. CASE Access!Prove(c)
  BY <1>2 DEF AccessTypes, Access!Prove
<1>3. CASE Access!MarkConnected(c)
  BY <1>3 DEF AccessTypes, Access!MarkConnected
<1>4. CASE Access!Authenticate(c)
  BY <1>4 DEF AccessTypes, Access!Authenticate
<1>5. CASE Access!Disconnect(c)
  BY <1>5 DEF AccessTypes, Access!Disconnect, Access!Denied
<1>6. CASE Access!CheckAuthority(c)
  BY <1>6 DEF AccessTypes, Access!CheckAuthority, Access!Leave, Access!Fails, InLane, LaneIsExclusive
<1>7. CASE Access!CheckRevision(c)
  BY <1>7 DEF AccessTypes, Access!CheckRevision, Access!Leave, Access!Fails, InLane, LaneIsExclusive
<1>8. CASE Access!Apply(c)
  BY <1>8 DEF AccessTypes, Access!Apply, InLane, LaneIsExclusive
<1>9. CASE Access!Record(c)
  BY <1>9 DEF AccessTypes, Access!Record, Access!Leave, Access!Fails, Access!OnAuditError, InLane, LaneIsExclusive
<1> QED  BY <1>1, <1>2, <1>3, <1>4, <1>5, <1>6, <1>7, <1>8, <1>9 DEF ThreadStep

\* Every other step of access keeps them, too.
LEMMA DeskTypes ==
  ASSUME AccessTypes, DeskStep
  PROVE  AccessTypes'
<1> USE DEF Access!clients, Access!leases, Access!threads, Access!approvals, Access!effects, Access!Known,
            Access!Goto, Access!Happens, Access!Points, Access!ApprovalStates
<1>1. ASSUME NEW c \in Connections, NEW p \in Clients, Access!Hello(c, p)
      PROVE  AccessTypes'
  BY <1>1 DEF AccessTypes, Access!Hello, Access!NoWork
<1>2. ASSUME NEW p \in Clients, Access!ApprovePairing(p)
      PROVE  AccessTypes'
  BY <1>2 DEF AccessTypes, Access!ApprovePairing, Access!NoWork
<1>3. ASSUME NEW p \in Clients, Access!Pair(p)
      PROVE  AccessTypes'
  BY <1>3 DEF AccessTypes, Access!Pair, Access!NoWork
<1>4. ASSUME NEW p \in Clients, Access!DenyPairing(p)
      PROVE  AccessTypes'
  BY <1>4 DEF AccessTypes, Access!DenyPairing, Access!NoWork
<1>5. ASSUME NEW p \in Clients, Access!SetGrant(p)
      PROVE  AccessTypes'
  BY <1>5 DEF AccessTypes, Access!SetGrant, Access!NoWork
<1>6. ASSUME NEW p \in Clients, Access!RevokeClient(p)
      PROVE  AccessTypes'
  BY <1>6 DEF AccessTypes, Access!RevokeClient, Access!NoWork
<1>7. ASSUME NEW p \in Clients, Access!DropConnections(p)
      PROVE  AccessTypes'
  BY <1>7 DEF AccessTypes, Access!DropConnections, Access!Denied, Access!NamedBy, Access!NoWork
<1>8. ASSUME NEW c \in Connections, NEW a \in Approvals, Access!Propose(c, a)
      PROVE  AccessTypes'
  BY <1>8 DEF AccessTypes, Access!Propose, Access!NoWork
<1>9. ASSUME NEW c \in Connections, NEW a \in Approvals, Access!ClaimApproval(c, a)
      PROVE  AccessTypes'
  BY <1>9 DEF AccessTypes, Access!ClaimApproval, Access!UsedUp, Access!NoWork
<1>10. ASSUME NEW a \in Approvals, Access!DecideApproval(a)
      PROVE  AccessTypes'
  BY <1>10 DEF AccessTypes, Access!DecideApproval, Access!NoWork
<1> QED  BY <1>1, <1>2, <1>3, <1>4, <1>5, <1>6, <1>7, <1>8, <1>9, <1>10 DEF DeskStep

LEMMA ProjectTypes ==
  ASSUME AccessTypes, ProjectStep
  PROVE  AccessTypes'
<1> USE DEF Access!clients, Access!leases, Access!threads, Access!approvals, Access!effects, Access!Known,
            Access!Goto, Access!Happens, Access!Points, Access!ApprovalStates
<1>1. CASE Access!CloseProject
  BY <1>1 DEF AccessTypes, Access!CloseProject, Access!NoWork
<1>2. CASE Access!OpenProject
  BY <1>2 DEF AccessTypes, Access!OpenProject, Access!NoWork
<1>3. CASE Access!Disable
  BY <1>3 DEF AccessTypes, Access!Disable, Access!Denied, Access!NoWork
<1>4. CASE Access!Prune
  BY <1>4 DEF AccessTypes, Access!Prune, Access!NoWork
<1>5. CASE Access!ChangeCatalog
  BY <1>5 DEF AccessTypes, Access!ChangeCatalog, Access!NoWork
<1> QED  BY <1>1, <1>2, <1>3, <1>4, <1>5 DEF ProjectStep

--------------------------------------------------------------------------------
(* The mutation lane.                                                      *)

LaneInv == LaneIsExclusive /\ AppliedByPoint /\ PastCheckIsCalm

LEMMA ThreadLane ==
  ASSUME AccessTypes, LaneInv, NEW c \in Connections, ThreadStep(c)
  PROVE  LaneInv'
<1> USE AccessConstants DEF AccessTypes, LaneInv, LaneIsExclusive, AppliedByPoint, PastCheckIsCalm, InLane
<1> USE DEF Access!clients, Access!leases, Access!threads, Access!approvals, Access!effects, Access!Known,
            Access!Goto, Access!Happens, Access!Points, Access!ApprovalStates
<1>1. CASE Access!FindClient(c)
  BY <1>1 DEF Access!FindClient
<1>2. CASE Access!Prove(c)
  BY <1>2 DEF Access!Prove
<1>3. CASE Access!MarkConnected(c)
  BY <1>3 DEF Access!MarkConnected
<1>4. CASE Access!Authenticate(c)
  BY <1>4 DEF Access!Authenticate
<1>5. CASE Access!Disconnect(c)
  BY <1>5 DEF Access!Disconnect, Access!Denied
<1>6. CASE Access!CheckAuthority(c)
  BY <1>6 DEF Access!CheckAuthority, Access!Leave, Access!Fails
<1>7. CASE Access!CheckRevision(c)
  BY <1>7 DEF Access!CheckRevision, Access!Leave, Access!Fails
<1>8. CASE Access!Apply(c)
  BY <1>8 DEF Access!Apply
<1>9. CASE Access!Record(c)
  BY <1>9 DEF Access!Record, Access!Leave, Access!Fails, Access!OnAuditError
<1> QED  BY <1>1, <1>2, <1>3, <1>4, <1>5, <1>6, <1>7, <1>8, <1>9 DEF ThreadStep

LEMMA DeskLane ==
  ASSUME AccessTypes, LaneInv, DeskStep
  PROVE  LaneInv'
<1> USE AccessConstants DEF AccessTypes, LaneInv, LaneIsExclusive, AppliedByPoint, PastCheckIsCalm, InLane
<1> USE DEF Access!clients, Access!leases, Access!threads, Access!approvals, Access!effects, Access!Known,
            Access!Goto, Access!Happens, Access!Points, Access!ApprovalStates
<1>1. ASSUME NEW c \in Connections, NEW p \in Clients, Access!Hello(c, p)
      PROVE  LaneInv'
  BY <1>1 DEF Access!Hello
<1>2. ASSUME NEW p \in Clients, Access!ApprovePairing(p)
      PROVE  LaneInv'
  BY <1>2 DEF Access!ApprovePairing
<1>3. ASSUME NEW p \in Clients, Access!Pair(p)
      PROVE  LaneInv'
  BY <1>3 DEF Access!Pair
<1>4. ASSUME NEW p \in Clients, Access!DenyPairing(p)
      PROVE  LaneInv'
  BY <1>4 DEF Access!DenyPairing
<1>5. ASSUME NEW p \in Clients, Access!SetGrant(p)
      PROVE  LaneInv'
  BY <1>5 DEF Access!SetGrant
<1>6. ASSUME NEW p \in Clients, Access!RevokeClient(p)
      PROVE  LaneInv'
  BY <1>6 DEF Access!RevokeClient
<1>7. ASSUME NEW p \in Clients, Access!DropConnections(p)
      PROVE  LaneInv'
  BY <1>7 DEF Access!DropConnections, Access!Denied, Access!NamedBy
<1>8. ASSUME NEW c \in Connections, NEW a \in Approvals, Access!Propose(c, a)
      PROVE  LaneInv'
  BY <1>8 DEF Access!Propose
<1>9. ASSUME NEW c \in Connections, NEW a \in Approvals, Access!ClaimApproval(c, a)
      PROVE  LaneInv'
  BY <1>9 DEF Access!ClaimApproval, Access!UsedUp, Access!LaneFree
<1>10. ASSUME NEW a \in Approvals, Access!DecideApproval(a)
      PROVE  LaneInv'
  BY <1>10 DEF Access!DecideApproval
<1> QED  BY <1>1, <1>2, <1>3, <1>4, <1>5, <1>6, <1>7, <1>8, <1>9, <1>10 DEF DeskStep

LEMMA ProjectLane ==
  ASSUME AccessTypes, LaneInv, ProjectStep
  PROVE  LaneInv'
<1> USE AccessConstants DEF AccessTypes, LaneInv, LaneIsExclusive, AppliedByPoint, PastCheckIsCalm, InLane
<1> USE DEF Access!clients, Access!leases, Access!threads, Access!approvals, Access!effects, Access!Known,
            Access!Goto, Access!Happens, Access!Points, Access!ApprovalStates
<1>1. CASE Access!CloseProject
  BY <1>1 DEF Access!CloseProject
<1>2. CASE Access!OpenProject
  BY <1>2 DEF Access!OpenProject
<1>3. CASE Access!Disable
  BY <1>3 DEF Access!Disable, Access!Denied
<1>4. CASE Access!Prune
  BY <1>4 DEF Access!Prune
<1>5. CASE Access!ChangeCatalog
  BY <1>5 DEF Access!ChangeCatalog
<1> QED  BY <1>1, <1>2, <1>3, <1>4, <1>5 DEF ProjectStep

--------------------------------------------------------------------------------
(* What was applied is accounted for.                                      *)

LEMMA ThreadAccounts ==
  ASSUME AccessTypes, LaneInv, AppliedIsAccounted, NEW c \in Connections, ThreadStep(c)
  PROVE  AppliedIsAccounted'
<1> USE AccessConstants DEF AccessTypes, LaneInv, LaneIsExclusive, AppliedByPoint, InLane, AppliedIsAccounted, Access!AppliedIsAccounted, Access!InFlight
<1> USE DEF Access!clients, Access!leases, Access!threads, Access!approvals, Access!effects, Access!Known,
            Access!Goto, Access!Happens, Access!Points, Access!ApprovalStates
<1>1. CASE Access!FindClient(c)
  BY <1>1 DEF Access!FindClient
<1>2. CASE Access!Prove(c)
  BY <1>2 DEF Access!Prove
<1>3. CASE Access!MarkConnected(c)
  BY <1>3 DEF Access!MarkConnected
<1>4. CASE Access!Authenticate(c)
  BY <1>4 DEF Access!Authenticate
<1>5. CASE Access!Disconnect(c)
  BY <1>5 DEF Access!Disconnect, Access!Denied
<1>6. CASE Access!CheckAuthority(c)
  BY <1>6 DEF Access!CheckAuthority, Access!Leave, Access!Fails
<1>7. CASE Access!CheckRevision(c)
  BY <1>7 DEF Access!CheckRevision, Access!Leave, Access!Fails
<1>8. CASE Access!Apply(c)
  BY <1>8 DEF Access!Apply
<1>9. CASE Access!Record(c)
  BY <1>9 DEF Access!Record, Access!Leave, Access!Fails, Access!OnAuditError
<1> QED  BY <1>1, <1>2, <1>3, <1>4, <1>5, <1>6, <1>7, <1>8, <1>9 DEF ThreadStep

LEMMA DeskAccounts ==
  ASSUME AccessTypes, LaneInv, AppliedIsAccounted, DeskStep
  PROVE  AppliedIsAccounted'
<1> USE AccessConstants DEF AccessTypes, LaneInv, LaneIsExclusive, AppliedByPoint, InLane, AppliedIsAccounted, Access!AppliedIsAccounted, Access!InFlight
<1> USE DEF Access!clients, Access!leases, Access!threads, Access!approvals, Access!effects, Access!Known,
            Access!Goto, Access!Happens, Access!Points, Access!ApprovalStates
<1>1. ASSUME NEW c \in Connections, NEW p \in Clients, Access!Hello(c, p)
      PROVE  AppliedIsAccounted'
  BY <1>1 DEF Access!Hello
<1>2. ASSUME NEW p \in Clients, Access!ApprovePairing(p)
      PROVE  AppliedIsAccounted'
  BY <1>2 DEF Access!ApprovePairing
<1>3. ASSUME NEW p \in Clients, Access!Pair(p)
      PROVE  AppliedIsAccounted'
  BY <1>3 DEF Access!Pair
<1>4. ASSUME NEW p \in Clients, Access!DenyPairing(p)
      PROVE  AppliedIsAccounted'
  BY <1>4 DEF Access!DenyPairing
<1>5. ASSUME NEW p \in Clients, Access!SetGrant(p)
      PROVE  AppliedIsAccounted'
  BY <1>5 DEF Access!SetGrant
<1>6. ASSUME NEW p \in Clients, Access!RevokeClient(p)
      PROVE  AppliedIsAccounted'
  BY <1>6 DEF Access!RevokeClient
<1>7. ASSUME NEW p \in Clients, Access!DropConnections(p)
      PROVE  AppliedIsAccounted'
  BY <1>7 DEF Access!DropConnections, Access!Denied, Access!NamedBy
<1>8. ASSUME NEW c \in Connections, NEW a \in Approvals, Access!Propose(c, a)
      PROVE  AppliedIsAccounted'
  BY <1>8 DEF Access!Propose
<1>9. ASSUME NEW c \in Connections, NEW a \in Approvals, Access!ClaimApproval(c, a)
      PROVE  AppliedIsAccounted'
  BY <1>9 DEF Access!ClaimApproval, Access!UsedUp, Access!LaneFree
<1>10. ASSUME NEW a \in Approvals, Access!DecideApproval(a)
      PROVE  AppliedIsAccounted'
  BY <1>10 DEF Access!DecideApproval
<1> QED  BY <1>1, <1>2, <1>3, <1>4, <1>5, <1>6, <1>7, <1>8, <1>9, <1>10 DEF DeskStep

LEMMA ProjectAccounts ==
  ASSUME AccessTypes, LaneInv, AppliedIsAccounted, ProjectStep
  PROVE  AppliedIsAccounted'
<1> USE AccessConstants DEF AccessTypes, LaneInv, LaneIsExclusive, AppliedByPoint, InLane, AppliedIsAccounted, Access!AppliedIsAccounted, Access!InFlight
<1> USE DEF Access!clients, Access!leases, Access!threads, Access!approvals, Access!effects, Access!Known,
            Access!Goto, Access!Happens, Access!Points, Access!ApprovalStates
<1>1. CASE Access!CloseProject
  BY <1>1 DEF Access!CloseProject
<1>2. CASE Access!OpenProject
  BY <1>2 DEF Access!OpenProject
<1>3. CASE Access!Disable
  BY <1>3 DEF Access!Disable, Access!Denied
<1>4. CASE Access!Prune
  BY <1>4 DEF Access!Prune
<1>5. CASE Access!ChangeCatalog
  BY <1>5 DEF Access!ChangeCatalog
<1> QED  BY <1>1, <1>2, <1>3, <1>4, <1>5 DEF ProjectStep

--------------------------------------------------------------------------------
(* Leases.                                                                 *)

LEMMA ThreadLeases ==
  ASSUME AccessTypes, ConfirmedIsPaired, NEW c \in Connections, ThreadStep(c)
  PROVE  ConfirmedIsPaired'
<1> USE AccessConstants DEF AccessTypes, ConfirmedIsPaired
<1> USE DEF Access!clients, Access!leases, Access!threads, Access!approvals, Access!effects, Access!Known,
            Access!Goto, Access!Happens, Access!Points, Access!ApprovalStates
<1>1. CASE Access!FindClient(c)
  BY <1>1 DEF Access!FindClient
<1>2. CASE Access!Prove(c)
  BY <1>2 DEF Access!Prove
<1>3. CASE Access!MarkConnected(c)
  BY <1>3 DEF Access!MarkConnected
<1>4. CASE Access!Authenticate(c)
  BY <1>4 DEF Access!Authenticate
<1>5. CASE Access!Disconnect(c)
  BY <1>5 DEF Access!Disconnect, Access!Denied
<1>6. CASE Access!CheckAuthority(c)
  BY <1>6 DEF Access!CheckAuthority, Access!Leave, Access!Fails
<1>7. CASE Access!CheckRevision(c)
  BY <1>7 DEF Access!CheckRevision, Access!Leave, Access!Fails
<1>8. CASE Access!Apply(c)
  BY <1>8 DEF Access!Apply
<1>9. CASE Access!Record(c)
  BY <1>9 DEF Access!Record, Access!Leave, Access!Fails, Access!OnAuditError
<1> QED  BY <1>1, <1>2, <1>3, <1>4, <1>5, <1>6, <1>7, <1>8, <1>9 DEF ThreadStep

LEMMA DeskLeases ==
  ASSUME AccessTypes, ConfirmedIsPaired, DeskStep
  PROVE  ConfirmedIsPaired'
<1> USE AccessConstants DEF AccessTypes, ConfirmedIsPaired
<1> USE DEF Access!clients, Access!leases, Access!threads, Access!approvals, Access!effects, Access!Known,
            Access!Goto, Access!Happens, Access!Points, Access!ApprovalStates
<1>1. ASSUME NEW c \in Connections, NEW p \in Clients, Access!Hello(c, p)
      PROVE  ConfirmedIsPaired'
  BY <1>1 DEF Access!Hello, Access!NoWork
<1>2. ASSUME NEW p \in Clients, Access!ApprovePairing(p)
      PROVE  ConfirmedIsPaired'
  BY <1>2 DEF Access!ApprovePairing, Access!NoWork
<1>3. ASSUME NEW p \in Clients, Access!Pair(p)
      PROVE  ConfirmedIsPaired'
  BY <1>3 DEF Access!Pair, Access!NoWork
<1>4. ASSUME NEW p \in Clients, Access!DenyPairing(p)
      PROVE  ConfirmedIsPaired'
  BY <1>4 DEF Access!DenyPairing, Access!NoWork
<1>5. ASSUME NEW p \in Clients, Access!SetGrant(p)
      PROVE  ConfirmedIsPaired'
  BY <1>5 DEF Access!SetGrant, Access!NoWork
<1>6. ASSUME NEW p \in Clients, Access!RevokeClient(p)
      PROVE  ConfirmedIsPaired'
  BY <1>6 DEF Access!RevokeClient, Access!NoWork
<1>7. ASSUME NEW p \in Clients, Access!DropConnections(p)
      PROVE  ConfirmedIsPaired'
  BY <1>7 DEF Access!DropConnections, Access!Denied, Access!NamedBy, Access!NoWork
<1>8. ASSUME NEW c \in Connections, NEW a \in Approvals, Access!Propose(c, a)
      PROVE  ConfirmedIsPaired'
  BY <1>8 DEF Access!Propose, Access!NoWork
<1>9. ASSUME NEW c \in Connections, NEW a \in Approvals, Access!ClaimApproval(c, a)
      PROVE  ConfirmedIsPaired'
  BY <1>9 DEF Access!ClaimApproval, Access!UsedUp, Access!LaneFree, Access!NoWork
<1>10. ASSUME NEW a \in Approvals, Access!DecideApproval(a)
      PROVE  ConfirmedIsPaired'
  BY <1>10 DEF Access!DecideApproval, Access!NoWork
<1> QED  BY <1>1, <1>2, <1>3, <1>4, <1>5, <1>6, <1>7, <1>8, <1>9, <1>10 DEF DeskStep

LEMMA ProjectLeases ==
  ASSUME AccessTypes, ConfirmedIsPaired, ProjectStep
  PROVE  ConfirmedIsPaired'
<1> USE AccessConstants DEF AccessTypes, ConfirmedIsPaired
<1> USE DEF Access!clients, Access!leases, Access!threads, Access!approvals, Access!effects, Access!Known,
            Access!Goto, Access!Happens, Access!Points, Access!ApprovalStates
<1>1. CASE Access!CloseProject
  BY <1>1 DEF Access!CloseProject, Access!NoWork
<1>2. CASE Access!OpenProject
  BY <1>2 DEF Access!OpenProject, Access!NoWork
<1>3. CASE Access!Disable
  BY <1>3 DEF Access!Disable, Access!Denied, Access!NoWork
<1>4. CASE Access!Prune
  BY <1>4 DEF Access!Prune, Access!NoWork
<1>5. CASE Access!ChangeCatalog
  BY <1>5 DEF Access!ChangeCatalog, Access!NoWork
<1> QED  BY <1>1, <1>2, <1>3, <1>4, <1>5 DEF ProjectStep

--------------------------------------------------------------------------------
(* An approval stands for one application of its statement.                *)

Stages == [a \in Approvals |-> Access!Stage(a)]

\* What may happen to approvals while the catalog stands still: they close.
OnlyCloses ==
    /\ base' = base /\ catalog' = catalog
    /\ \A a \in Approvals :
          Access!Stage(a)' # Access!Stage(a) => Access!Stage(a) \in {"proposed", "approved"} /\ Access!Stage(a)' = "closed"

LEMMA ClosingIsPromised ==
  ASSUME OnlyCloses
  PROVE  Access!Promise!OneUseNext
<1>1. Access!Promise!Close
  BY DEF OnlyCloses, Access!Promise!Close
<1> QED  BY <1>1 DEF Access!Promise!OneUseNext

\* The steps that do no more to approvals than to close them.
EndingStep(c) ==
    \/ Access!FindClient(c) \/ Access!Prove(c) \/ Access!MarkConnected(c) \/ Access!Authenticate(c)
    \/ Access!Disconnect(c) \/ Access!CheckAuthority(c) \/ Access!CheckRevision(c) \/ Access!Record(c)
GateStep ==
    \/ \E c \in Connections, p \in Clients : Access!Hello(c, p)
    \/ \E p \in Clients :
          \/ Access!ApprovePairing(p) \/ Access!Pair(p) \/ Access!DenyPairing(p)
          \/ Access!SetGrant(p) \/ Access!RevokeClient(p) \/ Access!DropConnections(p)
    \/ \E c \in Connections, a \in Approvals : Access!ClaimApproval(c, a)
ClosingStep ==
    Access!CloseProject \/ Access!OpenProject \/ Access!Disable \/ Access!Prune

LEMMA ThreadCloses ==
  ASSUME AccessTypes, LaneInv, NEW c \in Connections, EndingStep(c)
  PROVE  OnlyCloses
<1> USE AccessConstants DEF AccessTypes, LaneInv, LaneIsExclusive, AppliedByPoint, InLane, Access!Stage, Access!InFlight, OnlyCloses
<1> USE DEF Access!clients, Access!leases, Access!threads, Access!approvals, Access!effects, Access!Known,
            Access!Goto, Access!Happens, Access!Points, Access!ApprovalStates
<1>1. CASE Access!FindClient(c)
  BY <1>1 DEF Access!FindClient
<1>2. CASE Access!Prove(c)
  BY <1>2 DEF Access!Prove
<1>3. CASE Access!MarkConnected(c)
  BY <1>3 DEF Access!MarkConnected
<1>4. CASE Access!Authenticate(c)
  BY <1>4 DEF Access!Authenticate
<1>5. CASE Access!Disconnect(c)
  BY <1>5 DEF Access!Disconnect, Access!Denied
<1>6. CASE Access!CheckAuthority(c)
  BY <1>6 DEF Access!CheckAuthority, Access!Leave, Access!Fails
<1>7. CASE Access!CheckRevision(c)
  BY <1>7 DEF Access!CheckRevision, Access!Leave, Access!Fails
<1>8. CASE Access!Record(c)
  BY <1>8 DEF Access!Record, Access!Leave, Access!Fails, Access!OnAuditError
<1> QED  BY <1>1, <1>2, <1>3, <1>4, <1>5, <1>6, <1>7, <1>8 DEF EndingStep

LEMMA DeskCloses ==
  ASSUME AccessTypes, LaneInv, GateStep
  PROVE  OnlyCloses
<1> USE AccessConstants DEF AccessTypes, LaneInv, LaneIsExclusive, AppliedByPoint, InLane, Access!Stage, Access!InFlight, OnlyCloses
<1> USE DEF Access!clients, Access!leases, Access!threads, Access!approvals, Access!effects, Access!Known,
            Access!Goto, Access!Happens, Access!Points, Access!ApprovalStates
<1>1. ASSUME NEW c \in Connections, NEW p \in Clients, Access!Hello(c, p)
      PROVE  OnlyCloses
  BY <1>1 DEF Access!Hello
<1>2. ASSUME NEW p \in Clients, Access!ApprovePairing(p)
      PROVE  OnlyCloses
  BY <1>2 DEF Access!ApprovePairing
<1>3. ASSUME NEW p \in Clients, Access!Pair(p)
      PROVE  OnlyCloses
  BY <1>3 DEF Access!Pair
<1>4. ASSUME NEW p \in Clients, Access!DenyPairing(p)
      PROVE  OnlyCloses
  BY <1>4 DEF Access!DenyPairing
<1>5. ASSUME NEW p \in Clients, Access!SetGrant(p)
      PROVE  OnlyCloses
  BY <1>5 DEF Access!SetGrant
<1>6. ASSUME NEW p \in Clients, Access!RevokeClient(p)
      PROVE  OnlyCloses
  BY <1>6 DEF Access!RevokeClient
<1>7. ASSUME NEW p \in Clients, Access!DropConnections(p)
      PROVE  OnlyCloses
  BY <1>7 DEF Access!DropConnections, Access!Denied, Access!NamedBy
<1>8. ASSUME NEW c \in Connections, NEW a \in Approvals, Access!ClaimApproval(c, a)
      PROVE  OnlyCloses
  BY <1>8 DEF Access!ClaimApproval, Access!UsedUp, Access!LaneFree
<1> QED  BY <1>1, <1>2, <1>3, <1>4, <1>5, <1>6, <1>7, <1>8 DEF GateStep

LEMMA ProjectCloses ==
  ASSUME AccessTypes, LaneInv, ClosingStep
  PROVE  OnlyCloses
<1> USE AccessConstants DEF AccessTypes, LaneInv, LaneIsExclusive, AppliedByPoint, InLane, Access!Stage, Access!InFlight, OnlyCloses
<1> USE DEF Access!clients, Access!leases, Access!threads, Access!approvals, Access!effects, Access!Known,
            Access!Goto, Access!Happens, Access!Points, Access!ApprovalStates
<1>1. CASE Access!CloseProject
  BY <1>1 DEF Access!CloseProject
<1>2. CASE Access!OpenProject
  BY <1>2 DEF Access!OpenProject
<1>3. CASE Access!Disable
  BY <1>3 DEF Access!Disable, Access!Denied
<1>4. CASE Access!Prune
  BY <1>4 DEF Access!Prune
<1> QED  BY <1>1, <1>2, <1>3, <1>4 DEF ClosingStep

\* When one approval changes its stage, the stages change at that approval.
LEMMA StagesChange ==
  ASSUME NEW a \in Approvals, NEW s, Access!Stage(a)' = s,
         \A b \in Approvals : b # a => Access!Stage(b)' = Access!Stage(b)
  PROVE  Stages' = [Stages EXCEPT ![a] = s]
<1>1. /\ Stages = [b \in Approvals |-> Stages[b]] /\ Stages' = [b \in Approvals |-> Stages'[b]]
      /\ \A b \in Approvals : b # a => Stages'[b] = Stages[b]
      /\ Stages'[a] = s
  BY DEF Stages
<1> HIDE DEF Stages
<1> QED  BY <1>1

LEMMA ProposalIsPromised ==
  ASSUME AccessTypes, LaneInv, NEW c \in Connections, NEW a \in Approvals, Access!Propose(c, a)
  PROVE  Access!Promise!OneUseNext
<1> USE AccessConstants DEF AccessTypes, LaneInv, LaneIsExclusive, AppliedByPoint, InLane, Access!Stage, Access!InFlight
<1>1. /\ Access!Stage(a) = "none" /\ Access!Stage(a)' = "proposed"
      /\ \A b \in Approvals : b # a => Access!Stage(b)' = Access!Stage(b)
      /\ base' = [base EXCEPT ![a] = catalog] /\ catalog' = catalog
  BY DEF Access!Propose, Access!effects, Access!threads, Access!ApprovalStates
<1>2. Stages' = [Stages EXCEPT ![a] = "proposed"]
  BY <1>1, StagesChange
<1> HIDE DEF Access!Stage
<1>3. Access!Promise!Propose(a)
  BY <1>1, <1>2 DEF Access!Promise!Propose, Stages
<1> QED  BY <1>3 DEF Access!Promise!OneUseNext

LEMMA DecisionIsPromised ==
  ASSUME AccessTypes, LaneInv, NEW a \in Approvals, Access!DecideApproval(a)
  PROVE  Access!Promise!OneUseNext
<1> USE AccessConstants DEF AccessTypes, LaneInv, LaneIsExclusive, AppliedByPoint, InLane, Access!Stage, Access!InFlight
<1>1. UNCHANGED <<base, catalog, applied, subject>>
  BY DEF Access!DecideApproval, Access!effects, Access!threads
<1>2. PICK s \in {"approved", "denied", "expired"} :
         /\ approval' = [approval EXCEPT ![a] = s] /\ approval[a] # "none"
         /\ s # "expired" => approval[a] = "pending"
  BY DEF Access!DecideApproval
<1>3. \A b \in Approvals : b # a => Access!Stage(b)' = Access!Stage(b)
  BY <1>1, <1>2
<1>4. CASE s = "approved"
  <2>1. Access!Stage(a) = "proposed" /\ Access!Stage(a)' = "approved"
    BY <1>1, <1>2, <1>4
  <2>2. Stages' = [Stages EXCEPT ![a] = "approved"]
    BY <1>3, <2>1, StagesChange
  <2> HIDE DEF Access!Stage
  <2>3. Access!Promise!Approve(a)
    BY <1>1, <2>1, <2>2 DEF Access!Promise!Approve, Stages
  <2> QED  BY <2>3 DEF Access!Promise!OneUseNext
<1>5. CASE s # "approved"
  <2>1. Access!Stage(a)' = Access!Stage(a)
        \/ (Access!Stage(a) \in {"proposed", "approved"} /\ Access!Stage(a)' = "closed")
    BY <1>1, <1>2, <1>5
  <2>2. OnlyCloses
    BY <1>1, <1>3, <2>1 DEF OnlyCloses
  <2> QED  BY <2>2, ClosingIsPromised
<1> QED  BY <1>4, <1>5

\* The engine applies a statement on the catalog it was proposed for.
LEMMA ApplicationIsPromised ==
  ASSUME AccessTypes, LaneInv, NEW c \in Connections, Access!Apply(c)
  PROVE  Access!Promise!OneUseNext \/ UNCHANGED <<Stages, base, catalog>>
<1> USE AccessConstants DEF AccessTypes, LaneInv, LaneIsExclusive, AppliedByPoint, InLane, Access!Stage, Access!InFlight
<1>1. PICK a \in Approvals :
         /\ a = subject[c] /\ point[c] = "checked" /\ applied[a] = 0 /\ approval[a] \in {"used", "expired"}
         /\ UNCHANGED <<base, subject, approval>>
  BY DEF Access!Apply, Access!approvals
<1>2. CASE applied' = [applied EXCEPT ![a] = @ + 1] /\ base[a] = catalog /\ catalog' \in {catalog, catalog + 1}
  <2>1. Access!Stage(a) = "approved" /\ Access!Stage(a)' = "spent"
    BY <1>1, <1>2
  <2>2. \A b \in Approvals : b # a => Access!Stage(b)' = Access!Stage(b)
    BY <1>1, <1>2
  <2>3. Stages' = [Stages EXCEPT ![a] = "spent"]
    BY <2>1, <2>2, StagesChange
  <2> HIDE DEF Access!Stage
  <2>4. Access!Promise!Apply(a)
    BY <1>1, <1>2, <2>1, <2>3 DEF Access!Promise!Apply, Stages
  <2> QED  BY <2>4 DEF Access!Promise!OneUseNext
<1>3. CASE UNCHANGED <<applied, catalog>>
  BY <1>1, <1>3 DEF Stages
<1> QED  BY <1>1, <1>2, <1>3 DEF Access!Apply

LEMMA ChangeIsPromised ==
  ASSUME AccessTypes, Access!ChangeCatalog
  PROVE  Access!Promise!OneUseNext
<1>1. catalog' = catalog + 1 /\ UNCHANGED <<base, approval, applied, subject>>
  BY DEF Access!ChangeCatalog, Access!approvals, Access!threads
<1>2. Access!Promise!ChangeCatalog
  BY <1>1 DEF Access!Promise!ChangeCatalog, Access!Stage, Access!InFlight
<1> QED  BY <1>2 DEF Access!Promise!OneUseNext

--------------------------------------------------------------------------------
(* The theorems about approved mutations.                                  *)

LEMMA AccessStep ==
  ASSUME AccessInv, Access!AccessNext
  PROVE  AccessInv'
<1>1. AccessTypes /\ LaneInv /\ AppliedIsAccounted /\ ConfirmedIsPaired
  BY DEF AccessInv, MutationInv, LaneInv
<1>2. LaneIsExclusive
  BY <1>1 DEF LaneInv
<1>3. AccessTypes'
  BY <1>1, <1>2, AccessSteps, ThreadTypes, DeskTypes, ProjectTypes
<1>4. LaneInv'
  BY <1>1, AccessSteps, ThreadLane, DeskLane, ProjectLane
<1>5. AppliedIsAccounted'
  BY <1>1, AccessSteps, ThreadAccounts, DeskAccounts, ProjectAccounts
<1>6. ConfirmedIsPaired'
  BY <1>1, AccessSteps, ThreadLeases, DeskLeases, ProjectLeases
<1> QED  BY <1>3, <1>4, <1>5, <1>6 DEF AccessInv, MutationInv, LaneInv

LEMMA AccessStutter ==
  ASSUME AccessInv, UNCHANGED accessVars
  PROVE  AccessInv'
BY DEF AccessInv, AccessTypes, MutationInv, LaneIsExclusive, AppliedByPoint, PastCheckIsCalm, ConfirmedIsPaired,
       AppliedIsAccounted, Access!AppliedIsAccounted, Access!InFlight, accessVars

\* AccessInv holds throughout: it is inductive.
LEMMA AccessInvariant == AgentsSpec => []AccessInv
<1>1. AgentsInit => AccessInv
  BY AccessInitInv DEF AgentsInit
<1>2. AccessInv /\ [AgentsNext]_vars => AccessInv'
  <2> SUFFICES ASSUME AccessInv, [AgentsNext]_vars  PROVE AccessInv'
    OBVIOUS
  <2>1. CASE Access!AccessNext
    BY <2>1, AccessStep
  <2>2. CASE UNCHANGED accessVars
    BY <2>2, AccessStutter
  <2> QED  BY <2>1, <2>2 DEF AgentsNext, vars
<1> QED  BY <1>1, <1>2, PTL DEF AgentsSpec

\* A statement whose application the engine confirmed has an audit row, or its agent was
\* told that the row is missing, as soon as its thread has left the lane.
THEOREM ApplicationsAreAccountedFor == AgentsSpec => []AppliedIsAccounted
<1>1. AccessInv => AppliedIsAccounted
  BY DEF AccessInv, MutationInv
<1> QED  BY <1>1, AccessInvariant, PTL

\* Only connections of paired clients hold a lease, except while a revocation is between
\* the table and the connections: an authentication under way does not survive it.
THEOREM LeasesArePaired == AgentsSpec => []Access!LeaseIsPaired
<1>1. AccessInv => Access!LeaseIsPaired
  BY DEF AccessInv, ConfirmedIsPaired, Access!LeaseIsPaired
<1> QED  BY <1>1, AccessInvariant, PTL

\* Nothing is applied to a critical project.
LEMMA ApplicationIsCalm ==
  ASSUME AccessInv, Access!AccessNext, applied' # applied
  PROVE  ~critical
<1>1. PICK c \in Connections : Access!Apply(c)
  BY DEF Access!AccessNext, Access!effects, Access!Hello, Access!ApprovePairing, Access!Pair, Access!DenyPairing,
         Access!SetGrant, Access!RevokeClient, Access!DropConnections, Access!FindClient, Access!Prove,
         Access!MarkConnected, Access!Authenticate, Access!Disconnect, Access!CheckAuthority, Access!CheckRevision,
         Access!Record, Access!Propose, Access!ClaimApproval, Access!DecideApproval, Access!CloseProject,
         Access!OpenProject, Access!Disable, Access!Prune, Access!ChangeCatalog
<1> QED  BY <1>1 DEF Access!Apply, AccessInv, MutationInv, PastCheckIsCalm, InLane

\* No mutation is applied to a project whose last one could not be rolled back, until the
\* project is closed: the lane is held from the check of the project to the answer.
THEOREM CriticalProjectsStandStill == AgentsSpec => Access!CriticalStopsMutations
<1>1. AccessInv /\ [AgentsNext]_vars => [applied' # applied => ~critical]_(Access!accessVars)
  <2> SUFFICES ASSUME AccessInv, [AgentsNext]_vars, applied' # applied
               PROVE  ~critical
    OBVIOUS
  <2>1. Access!AccessNext
    BY DEF AgentsNext, vars, accessVars
  <2> QED  BY <2>1, ApplicationIsCalm
<1> QED  BY <1>1, AccessInvariant, PTL DEF AgentsSpec, Access!CriticalStopsMutations

LEMMA AccessIsPromised ==
  ASSUME AccessInv, Access!AccessNext
  PROVE  Access!Promise!OneUseNext \/ UNCHANGED <<Stages, base, catalog>>
<1>1. AccessTypes /\ LaneInv
  BY DEF AccessInv, MutationInv, LaneInv
<1>2. ASSUME NEW c \in Connections, ThreadStep(c)
      PROVE  Access!Promise!OneUseNext \/ UNCHANGED <<Stages, base, catalog>>
  <2>1. CASE Access!Apply(c)
    BY <1>1, <2>1, ApplicationIsPromised
  <2>2. CASE EndingStep(c)
    BY <1>1, <2>2, ThreadCloses, ClosingIsPromised
  <2> QED  BY <1>2, <2>1, <2>2 DEF ThreadStep, EndingStep
<1>3. CASE DeskStep
  <2>1. CASE GateStep
    BY <1>1, <2>1, DeskCloses, ClosingIsPromised
  <2>2. ASSUME NEW c \in Connections, NEW a \in Approvals, Access!Propose(c, a)
        PROVE  Access!Promise!OneUseNext
    BY <1>1, <2>2, ProposalIsPromised
  <2>3. ASSUME NEW a \in Approvals, Access!DecideApproval(a)
        PROVE  Access!Promise!OneUseNext
    BY <1>1, <2>3, DecisionIsPromised
  <2> QED  BY <1>3, <2>1, <2>2, <2>3 DEF DeskStep, GateStep
<1>4. CASE ProjectStep
  <2>1. CASE ClosingStep
    BY <1>1, <2>1, ProjectCloses, ClosingIsPromised
  <2>2. CASE Access!ChangeCatalog
    BY <1>1, <2>2, ChangeIsPromised
  <2> QED  BY <1>4, <2>1, <2>2 DEF ProjectStep, ClosingStep
<1> QED  BY <1>2, <1>3, <1>4, AccessSteps

\* An approval stands for one application of its statement, after the user's decision, on
\* the catalog it was proposed for: every step is one of OneUseApproval or a stutter.
THEOREM ApprovalsAreUsedOnce == AgentsSpec => ImplementsOneUse
<1>1. AgentsInit => Access!Promise!OneUseInit
  BY DEF AgentsInit, Access!AccessInit, Access!Promise!OneUseInit, Access!Stage
<1>2. AccessInv /\ [AgentsNext]_vars => [Access!Promise!OneUseNext]_<<Stages, base, catalog>>
  <2> SUFFICES ASSUME AccessInv, [AgentsNext]_vars
               PROVE  Access!Promise!OneUseNext \/ UNCHANGED <<Stages, base, catalog>>
    OBVIOUS
  <2>1. CASE Access!AccessNext
    BY <2>1, AccessIsPromised
  <2>2. CASE UNCHANGED accessVars
    BY <2>2 DEF accessVars, Stages, Access!Stage, Access!InFlight
  <2> QED  BY <2>1, <2>2 DEF AgentsNext, vars
<1> QED  BY <1>1, <1>2, AccessInvariant, PTL
         DEF AgentsSpec, ImplementsOneUse, Access!ImplementsOneUse, Access!Promise!OneUseSpec, Stages

--------------------------------------------------------------------------------
(* Guarded exports.  What a thread has yet to do is looked at as a set of  *)
(* steps: the one at hand, and those for later.                            *)

Doings == {"insert", "enter", "look", "take", "check", "submit", "replace", "register", "read", "apply", "kill",
           "fail", "finish", "row", "leave", "clean", "close"}
Steps == [do : Doings, of : Exports \cup {Owner, Nobody}, saw : Output!JobStates]

Of(p) == {p[n] : n \in 1..Len(p)}
Rest(p) == {p[n] : n \in 2..Len(p)}
All(t) == Of(agenda[t])
Later(t) == Rest(agenda[t])

ExportStates == Output!Undecided \cup Output!Finished \cup {"none"}
ExportTypes ==
    /\ export \in [Exports -> [state : ExportStates, revision : Nat, snapshot : BOOLEAN,
                               submitted : BOOLEAN, audited : BOOLEAN]]
    /\ decision \in [Exports -> Output!Decisions] /\ proposed \in [Exports -> BOOLEAN]
    /\ exportApproval \in [Exports -> {"none", "pending", "approved", "denied", "expired", "used"}]
    /\ rows \in [Exports -> Nat] /\ job \in [Exports -> Output!JobStates] /\ overwrite \subseteq Exports
    /\ agenda \in [Output!Threads -> Seq(Steps)]
    /\ revision \in Nat /\ {ready, within, collision} \subseteq BOOLEAN

\* What is for later is no first half of something, and only the cleaner has to finish
\* an export later; it starts none.
AgendasAreInOrder ==
    /\ \A t \in Output!Threads : \A s \in Later(t) :
          /\ s.do \notin {"row", "insert"}
          /\ t # Output!Cleaner => s.do \in {"take", "leave", "look", "read", "fail"}
    /\ \A s \in All(Output!Cleaner) :
          s.do \in {"clean", "close", "kill", "finish", "read", "fail", "apply", "row", "leave"}
    /\ \A t \in Output!Threads : \A s \in All(t) : s.do = "insert" => t = Output!Agent(Owner)

\* An export is entitled to start when its decision delegated it or its approval was used.
Entitled(e) == decision[e] = "delegated" \/ exportApproval[e] = "used"

Legit(s) ==
    /\ s.do \in {"insert", "enter", "take", "check", "submit", "replace", "register"}
          => s.of \in Exports /\ proposed[s.of]
    /\ s.do \in {"take", "check", "submit", "replace"} => Entitled(s.of)
    /\ s.do = "submit" => decision[s.of] # "critical"
    /\ s.do = "replace" => decision[s.of] = "critical"

StepsAreLegit == \A t \in Output!Threads : \A s \in All(t) : Legit(s)

RecordsAreProposed ==
    \A e \in Exports :
        /\ Output!Exists(e) => proposed[e]
        /\ ~proposed[e] => job[e] = "none" /\ rows[e] = 0
        /\ e \in overwrite => decision[e] = "critical" /\ proposed[e]

\* Who writes an export's row, and when: the flag is set, or the record is gone for good.
Inserting(e) == \E t \in Output!Threads : Output!Doing(t, "insert", e)
Flagged(e) == (export[e].audited \/ ~Output!Exists(e)) /\ ~Inserting(e) /\ proposed[e]

RowsAreFlagged ==
    \A e \in Exports :
        /\ rows[e] \in {0, 1} /\ (rows[e] = 1 => Flagged(e))
        /\ Inserting(e) => ~Output!Exists(e)
        /\ \A t \in Output!Threads :
              Output!Doing(t, "row", e) =>
                 /\ rows[e] = 0 /\ Flagged(e)
                 /\ \A u \in Output!Threads : Output!Doing(u, "row", e) => u = t

\* An export that awaits its approval, or its record, was never handed to the coordinator.
WaitingIsUnsubmitted ==
    \A e \in Exports :
        /\ export[e].submitted => proposed[e]
        /\ export[e].state = "awaiting" \/ Inserting(e) => ~export[e].submitted

ExportInv ==
    /\ ExportTypes /\ AgendasAreInOrder /\ StepsAreLegit /\ RecordsAreProposed /\ WaitingIsUnsubmitted
    /\ StartedAsDecided /\ RowsAreFlagged /\ AuditedOnce

--------------------------------------------------------------------------------
(* Agendas.                                                                *)

LEMMA Appended ==
  ASSUME NEW S, NEW p \in Seq(S), NEW r \in Seq(S), r # <<>>
  PROVE  /\ p \o Tail(r) \in Seq(S)
         /\ p = <<>> => /\ Of(p \o Tail(r)) \subseteq Rest(r) /\ Rest(r) \subseteq Of(p \o Tail(r))
                        /\ Rest(p \o Tail(r)) \subseteq Rest(r)
         /\ p # <<>> => /\ Of(p \o Tail(r)) \subseteq Of(p) \cup Rest(r)
                        /\ Of(p) \cup Rest(r) \subseteq Of(p \o Tail(r))
                        /\ Rest(p \o Tail(r)) \subseteq Rest(p) \cup Rest(r)
                        /\ p \o Tail(r) # <<>> /\ Head(p \o Tail(r)) = p[1]
<1> DEFINE q == p \o Tail(r)
<1>1. /\ q \in Seq(S) /\ Len(q) = Len(p) + Len(r) - 1
      /\ \A n \in 1..Len(p) : q[n] = p[n]
      /\ \A n \in 2..Len(r) : q[n + Len(p) - 1] = r[n]
      /\ Len(p) \in Nat /\ Len(r) \in Nat \ {0}
      /\ \A n \in 1..Len(q) : n > Len(p) => q[n] = r[n - Len(p) + 1]
  OBVIOUS
<1> HIDE DEF q
<1>2. CASE p = <<>>
  <2>1. Len(p) = 0
    BY <1>2
  <2>2. Of(q) \subseteq Rest(r) /\ Rest(q) \subseteq Rest(r)
    <3>1. ASSUME NEW n \in 1..Len(q)  PROVE q[n] \in Rest(r)
      <4>1. q[n] = r[n + 1] /\ n + 1 \in 2..Len(r)
        BY <1>1, <2>1
      <4> QED  BY <4>1 DEF Rest
    <3>2. \A n \in 2..Len(q) : n \in 1..Len(q)
      BY <1>1
    <3>3. Of(q) \subseteq Rest(r)
      BY <3>1 DEF Of
    <3>4. Rest(q) \subseteq Rest(r)
      <4> SUFFICES ASSUME NEW n \in 2..Len(q)  PROVE q[n] \in Rest(r)
        BY DEF Rest
      <4> QED  BY <3>1, <3>2
    <3> QED  BY <3>3, <3>4
  <2>3. Rest(r) \subseteq Of(q)
    <3> SUFFICES ASSUME NEW n \in 2..Len(r)  PROVE r[n] \in Of(q)
      BY DEF Rest
    <3>1. q[n - 1] = r[n] /\ n - 1 \in 1..Len(q)
      BY <1>1, <2>1
    <3> QED  BY <3>1 DEF Of
  <2> QED  BY <1>1, <1>2, <2>2, <2>3 DEF q
<1>3. CASE p # <<>>
  <2>1. Len(p) > 0
    BY <1>3
  <2>2. Of(q) \subseteq Of(p) \cup Rest(r) /\ Rest(q) \subseteq Rest(p) \cup Rest(r)
    <3>1. ASSUME NEW n \in 1..Len(q), n <= Len(p)
          PROVE  q[n] \in Of(p) /\ (n > 1 => q[n] \in Rest(p))
      BY <1>1, <2>1, <3>1 DEF Of, Rest
    <3>2. ASSUME NEW n \in 1..Len(q), n > Len(p)
          PROVE  q[n] \in Rest(r)
      <4>1. q[n] = r[n - Len(p) + 1] /\ n - Len(p) + 1 \in 2..Len(r)
        BY <1>1, <2>1, <3>2
      <4> QED  BY <4>1 DEF Rest
    <3>3. \A n \in 2..Len(q) : n \in 1..Len(q) /\ n > 1
      BY <1>1
    <3>4. \A n \in 1..Len(q) : n <= Len(p) \/ n > Len(p)
      BY <1>1
    <3>5. Of(q) \subseteq Of(p) \cup Rest(r)
      BY <3>1, <3>2, <3>4 DEF Of
    <3>6. Rest(q) \subseteq Rest(p) \cup Rest(r)
      <4> SUFFICES ASSUME NEW n \in 2..Len(q)  PROVE q[n] \in Rest(p) \cup Rest(r)
        BY DEF Rest
      <4> QED  BY <3>1, <3>2, <3>3, <3>4
    <3> QED  BY <3>5, <3>6
  <2>3. Of(p) \cup Rest(r) \subseteq Of(q)
    <3>1. ASSUME NEW n \in 1..Len(p)  PROVE p[n] \in Of(q)
      <4>1. q[n] = p[n] /\ n \in 1..Len(q)
        BY <1>1
      <4> QED  BY <4>1 DEF Of
    <3>2. ASSUME NEW n \in 2..Len(r)  PROVE r[n] \in Of(q)
      <4>1. q[n + Len(p) - 1] = r[n] /\ n + Len(p) - 1 \in 1..Len(q)
        BY <1>1
      <4> QED  BY <4>1 DEF Of
    <3> QED  BY <3>1, <3>2 DEF Of, Rest
  <2>4. q # <<>> /\ Head(q) = p[1]
    BY <1>1, <2>1
  <2> QED  BY <1>1, <1>3, <2>2, <2>3, <2>4 DEF q
<1> QED  BY <1>2, <1>3

\* What an agenda of one to five steps consists of.
LEMMA LiteralOne ==
  ASSUME NEW a
  PROVE  Of(<<a>>) = {a} /\ Rest(<<a>>) = {}
BY DEF Of, Rest

LEMMA LiteralTwo ==
  ASSUME NEW a, NEW b
  PROVE  Of(<<a, b>>) = {a, b} /\ Rest(<<a, b>>) = {b}
<1>1. 1..2 = {1, 2} /\ 2..2 = {2}
  OBVIOUS
<1> QED  BY <1>1 DEF Of, Rest

LEMMA LiteralThree ==
  ASSUME NEW a, NEW b, NEW c
  PROVE  Of(<<a, b, c>>) = {a, b, c} /\ Rest(<<a, b, c>>) = {b, c}
<1>1. 1..3 = {1, 2, 3} /\ 2..3 = {2, 3}
  OBVIOUS
<1> QED  BY <1>1 DEF Of, Rest

LEMMA LiteralFour ==
  ASSUME NEW a, NEW b, NEW c, NEW d
  PROVE  Of(<<a, b, c, d>>) = {a, b, c, d} /\ Rest(<<a, b, c, d>>) = {b, c, d}
<1>1. 1..4 = {1, 2, 3, 4} /\ 2..4 = {2, 3, 4}
  OBVIOUS
<1> QED  BY <1>1 DEF Of, Rest

LEMMA LiteralFive ==
  ASSUME NEW a, NEW b, NEW c, NEW d, NEW e
  PROVE  Of(<<a, b, c, d, e>>) = {a, b, c, d, e} /\ Rest(<<a, b, c, d, e>>) = {b, c, d, e}
<1>1. 1..5 = {1, 2, 3, 4, 5} /\ 2..5 = {2, 3, 4, 5}
  OBVIOUS
<1> QED  BY <1>1 DEF Of, Rest

\* A thread's agenda goes on: F is what comes first now, if it is new, L what was put
\* behind it.
Moves(t, F, L) ==
    /\ agenda' \in [Output!Threads -> Seq(Steps)]
    /\ \A u \in Output!Threads : u # t => agenda'[u] = agenda[u]
    /\ All(t)' \subseteq F \cup L \cup Later(t) /\ Later(t)' \subseteq L \cup Later(t)
    /\ agenda'[t] # <<>> => Head(agenda'[t]) \in F \cup Later(t)

LEMMA ThenNothing ==
  ASSUME ExportTypes, NEW t \in Output!Threads, agenda[t] # <<>>, Output!Then(t, <<>>)
  PROVE  Moves(t, {}, {}) /\ Later(t) \subseteq All(t)'
<1>1. agenda \in [Output!Threads -> Seq(Steps)] /\ agenda' = [agenda EXCEPT ![t] = <<>> \o Tail(agenda[t])]
  BY DEF ExportTypes, Output!Then
<1>2. /\ <<>> \o Tail(agenda[t]) \in Seq(Steps)
      /\ Of(<<>> \o Tail(agenda[t])) \subseteq Later(t) /\ Later(t) \subseteq Of(<<>> \o Tail(agenda[t]))
      /\ Rest(<<>> \o Tail(agenda[t])) \subseteq Later(t)
  <2>1. <<>> \in Seq(Steps) /\ agenda[t] \in Seq(Steps)
    BY <1>1
  <2>2. <<>> = <<>>
    OBVIOUS
  <2> HIDE <1>1
  <2> QED  BY <2>1, <2>2, Appended DEF Later
<1>3. agenda'[t] = <<>> \o Tail(agenda[t]) /\ \A u \in Output!Threads : u # t => agenda'[u] = agenda[u]
  BY <1>1
<1>4. agenda'[t] # <<>> => Head(agenda'[t]) \in Of(agenda'[t])
  <2> SUFFICES ASSUME NEW s \in Seq(Steps), s # <<>>  PROVE Head(s) \in Of(s)
    BY <1>2, <1>3
  <2>1. 1 \in 1..Len(s) /\ Head(s) = s[1]
    OBVIOUS
  <2> QED  BY <2>1 DEF Of
<1> QED  BY <1>1, <1>2, <1>3, <1>4 DEF Moves, All, Later

LEMMA ThenSteps ==
  ASSUME ExportTypes, NEW t \in Output!Threads, agenda[t] # <<>>,
         NEW p \in Seq(Steps), p # <<>>, Output!Then(t, p)
  PROVE  /\ Moves(t, {p[1]}, Rest(p)) /\ Of(p) \cup Later(t) \subseteq All(t)'
         /\ agenda'[t] # <<>> /\ Head(agenda'[t]) = p[1]
<1>1. agenda \in [Output!Threads -> Seq(Steps)] /\ agenda' = [agenda EXCEPT ![t] = p \o Tail(agenda[t])]
  BY DEF ExportTypes, Output!Then
<1>2. /\ p \o Tail(agenda[t]) \in Seq(Steps)
      /\ Of(p \o Tail(agenda[t])) \subseteq Of(p) \cup Later(t) /\ Of(p) \cup Later(t) \subseteq Of(p \o Tail(agenda[t]))
      /\ Rest(p \o Tail(agenda[t])) \subseteq Rest(p) \cup Later(t)
      /\ p \o Tail(agenda[t]) # <<>> /\ Head(p \o Tail(agenda[t])) = p[1]
  BY <1>1, Appended DEF Later
<1>3. agenda'[t] = p \o Tail(agenda[t]) /\ \A u \in Output!Threads : u # t => agenda'[u] = agenda[u]
  BY <1>1
<1>4. agenda' \in [Output!Threads -> Seq(Steps)]
  BY <1>1, <1>2
<1>5. Of(p) \subseteq {p[1]} \cup Rest(p)
  BY DEF Of, Rest
<1> QED  BY <1>2, <1>3, <1>4, <1>5 DEF Moves, All, Later

LEMMA BeginNothing ==
  ASSUME ExportTypes, NEW t \in Output!Threads, Output!Begin(t, <<>>)
  PROVE  Moves(t, {}, {})
BY DEF ExportTypes, Output!Begin, Moves, All, Later, Of, Rest

LEMMA BeginSteps ==
  ASSUME ExportTypes, NEW t \in Output!Threads, NEW p \in Seq(Steps), p # <<>>, Output!Begin(t, p)
  PROVE  /\ Moves(t, {p[1]}, Rest(p)) /\ Of(p) \subseteq All(t)'
         /\ agenda'[t] # <<>> /\ Head(agenda'[t]) = p[1]
<1>1. agenda' \in [Output!Threads -> Seq(Steps)] /\ agenda'[t] = p /\ \A u \in Output!Threads : u # t => agenda'[u] = agenda[u]
  BY DEF ExportTypes, Output!Begin
<1>2. Of(p) \subseteq {p[1]} \cup Rest(p) /\ Head(p) = p[1]
  BY DEF Of, Rest
<1> QED  BY <1>1, <1>2 DEF Moves, All, Later

LEMMA TheThreads ==
  /\ Output!Cleaner \in Output!Threads /\ Output!Agent(Owner) \in Output!Threads
  /\ Output!Agent(Owner) # Output!Cleaner
  /\ \A e \in Exports : /\ Output!Watcher(e) \in Output!Threads /\ Output!Watcher(e) # Output!Cleaner
                       /\ Output!Poller(e) \in Output!Threads /\ Output!Poller(e) # Output!Cleaner
BY DEF Output!Threads, Output!Cleaner, Output!Agent, Output!Watcher, Output!Poller

LEMMA TheStepAtHand ==
  ASSUME ExportTypes, NEW t \in Output!Threads, agenda[t] # <<>>
  PROVE  /\ agenda[t] \in Seq(Steps) /\ Head(agenda[t]) \in Steps /\ Head(agenda[t]) \in All(t)
         /\ All(t) = {Head(agenda[t])} \cup Later(t)
<1>1. agenda[t] \in Seq(Steps)
  BY DEF ExportTypes
<1> SUFFICES ASSUME NEW s \in Seq(Steps), s # <<>>
             PROVE  Head(s) \in Steps /\ Head(s) \in Of(s) /\ Of(s) = {Head(s)} \cup Rest(s)
  BY <1>1 DEF All, Later
<1>2. 1 \in 1..Len(s) /\ Head(s) = s[1] /\ s[1] \in Steps /\ 1..Len(s) = {1} \cup (2..Len(s))
  OBVIOUS
<1> QED  BY <1>2 DEF Of, Rest

\* What other steps rely on: decisions, and approvals that were used, stay.
Stable ==
    \A e \in Exports : proposed[e] =>
        proposed'[e] /\ decision'[e] = decision[e] /\ (exportApproval[e] = "used" => exportApproval'[e] = "used")

\* A record keeps its flag; one that comes to its end is flagged, or will be.
RecordsGoOn(t) ==
    \A e \in Exports :
        \/ export'[e].state = "none" /\ (export'[e].submitted => export[e].submitted)
        \/ /\ export'[e].audited = export[e].audited /\ Output!Exists(e)
           /\ export'[e].state = "awaiting" =>
                 export[e].state = "awaiting" /\ export'[e].submitted = export[e].submitted
           /\ Output!Terminal(e)' =>
                 Output!Terminal(e) \/ export'[e].audited \/ Output!Step("finish", e) \in All(t)'

\* No agenda gets a row to write or a record to insert, none loses an export to finish.
AgendasGoOn ==
    /\ AgendasAreInOrder' /\ StepsAreLegit'
    /\ \A u \in Output!Threads, e \in Exports :
          /\ Output!Doing(u, "row", e)' => Output!Doing(u, "row", e)
          /\ Output!Doing(u, "insert", e)' => Output!Doing(u, "insert", e)
          /\ Output!Step("finish", e) \in All(u) => Output!Step("finish", e) \in All(u)'

LEMMA RowsCarried ==
  ASSUME ExportInv, NEW t \in Output!Threads, AgendasGoOn, Stable, RecordsGoOn(t), rows' = rows
  PROVE  RowsAreFlagged'
<1>1. ASSUME NEW e \in Exports  PROVE (Inserting(e)' => Inserting(e)) /\ (Flagged(e) => Flagged(e)')
  <2>1. Inserting(e)' => Inserting(e)
    BY DEF AgendasGoOn, Inserting
  <2>2. Flagged(e) => (export'[e].audited \/ export'[e].state = "none") /\ proposed'[e]
    BY DEF Flagged, RecordsGoOn, Output!Exists, Stable
  <2> QED  BY <2>1, <2>2 DEF Flagged, Output!Exists
<1>2. RowsAreFlagged'
  <2> SUFFICES ASSUME NEW e \in Exports
               PROVE  /\ rows'[e] \in {0, 1} /\ (rows'[e] = 1 => Flagged(e)')
                      /\ Inserting(e)' => ~Output!Exists(e)'
                      /\ \A u \in Output!Threads :
                            Output!Doing(u, "row", e)' =>
                               /\ rows'[e] = 0 /\ Flagged(e)'
                               /\ \A v \in Output!Threads : Output!Doing(v, "row", e)' => v = u
    BY DEF RowsAreFlagged
  <2>1. rows'[e] \in {0, 1} /\ (rows'[e] = 1 => Flagged(e)')
    BY <1>1 DEF ExportInv, RowsAreFlagged
  <2>2. Inserting(e)' => ~Output!Exists(e)'
    BY <1>1 DEF ExportInv, RowsAreFlagged, RecordsGoOn, Output!Exists
  <2>3. \A u \in Output!Threads : Output!Doing(u, "row", e)' => Output!Doing(u, "row", e)
    BY DEF AgendasGoOn
  <2> HIDE DEF Inserting, Flagged
  <2> QED  BY <1>1, <2>1, <2>2, <2>3 DEF ExportInv, RowsAreFlagged
<1> QED  BY <1>2

\* What AuditedOnce says, of agendas as sets.
LEMMA AuditsStand ==
  ASSUME ExportInv, NEW e \in Exports, Output!Terminal(e)
  PROVE  export[e].audited \/ \E u \in Output!Threads : Output!Step("finish", e) \in All(u)
<1>1. agenda \in [Output!Threads -> Seq(Steps)]
  BY DEF ExportInv, ExportTypes
<1> QED  BY <1>1 DEF ExportInv, AuditedOnce, Output!AuditedOnce, All, Of

LEMMA AuditsFollow ==
  ASSUME agenda' \in [Output!Threads -> Seq(Steps)], RowsAreFlagged',
         \A e \in Exports : Output!Terminal(e)' =>
            export'[e].audited \/ \E u \in Output!Threads : Output!Step("finish", e) \in All(u)'
  PROVE  AuditedOnce'
<1> SUFFICES ASSUME NEW e \in Exports
             PROVE  /\ rows'[e] <= 1
                    /\ Output!Terminal(e)' => \/ export'[e].audited
                                             \/ \E u \in Output!Threads : Output!Step("finish", e) \in All(u)'
  BY DEF AuditedOnce, Output!AuditedOnce, All, Of
<1>1. rows'[e] <= 1
  BY DEF RowsAreFlagged
<1> QED  BY <1>1

LEMMA Carried ==
  ASSUME ExportInv, ExportTypes', NEW t \in Output!Threads, AgendasGoOn, Stable, RecordsGoOn(t), RowsAreFlagged',
         RecordsAreProposed', StartedAsDecided'
  PROVE  ExportInv'
<1>1. WaitingIsUnsubmitted'
  <2> SUFFICES ASSUME NEW e \in Exports
               PROVE  /\ export'[e].submitted => proposed'[e]
                      /\ export'[e].state = "awaiting" \/ Inserting(e)' => ~export'[e].submitted
    BY DEF WaitingIsUnsubmitted
  <2>1. Inserting(e)' => Inserting(e)
    BY DEF AgendasGoOn, Inserting
  <2>2. CASE export'[e].state = "none" /\ (export'[e].submitted => export[e].submitted)
    <3> HIDE DEF Inserting
    <3> QED  BY <2>1, <2>2 DEF ExportInv, WaitingIsUnsubmitted, Stable
  <2>3. CASE /\ Output!Exists(e)
             /\ export'[e].state = "awaiting" =>
                   export[e].state = "awaiting" /\ export'[e].submitted = export[e].submitted
    <3>1. proposed[e] /\ ~Inserting(e)
      BY <2>3 DEF ExportInv, RecordsAreProposed, RowsAreFlagged
    <3> HIDE DEF Inserting
    <3> QED  BY <2>1, <2>3, <3>1 DEF ExportInv, WaitingIsUnsubmitted, Stable
  <2> QED  BY <2>2, <2>3 DEF RecordsGoOn
<1>2. ASSUME NEW e \in Exports, Output!Terminal(e)'
      PROVE  export'[e].audited \/ \E u \in Output!Threads : Output!Step("finish", e) \in All(u)'
  <2>1. export'[e].state # "none"
    BY <1>2 DEF Output!Terminal, Output!Finished
  <2> QED  BY <1>2, <2>1, AuditsStand DEF RecordsGoOn, AgendasGoOn
<1>3. AuditedOnce'
  BY <1>2, AuditsFollow DEF ExportTypes
<1> QED  BY <1>1, <1>3 DEF ExportInv, AgendasGoOn

\* No job starts.
JobsGoOn == overwrite' = overwrite /\ \A e \in Exports : job'[e] # "none" => job[e] # "none"

LEMMA CarriedOn ==
  ASSUME ExportInv, ExportTypes', NEW t \in Output!Threads, AgendasGoOn, Stable, RecordsGoOn(t), rows' = rows, JobsGoOn
  PROVE  ExportInv'
<1>1. RecordsAreProposed'
  BY DEF ExportInv, RecordsAreProposed, RecordsGoOn, Stable, JobsGoOn, ExportTypes, Output!Exists
<1>2. StartedAsDecided'
  BY DEF ExportInv, StartedAsDecided, Output!StartedAsDecided, Stable, JobsGoOn, RecordsAreProposed, ExportTypes
<1> QED  BY <1>1, <1>2, Carried, RowsCarried

CleanersDo == {"clean", "close", "kill", "finish", "read", "fail", "apply", "row", "leave"}
Postponed == {"take", "leave", "look", "read", "fail"}

LEMMA LegitStays ==
  ASSUME Stable, NEW s, Legit(s)
  PROVE  Legit(s)'
BY DEF Stable, Legit, Entitled

\* A thread that goes on with steps that are in order.
LEMMA MovesInOrder ==
  ASSUME ExportInv, NEW t \in Output!Threads, NEW F, NEW L, Moves(t, F, L), Stable,
         \A s \in F \cup L : Legit(s)', \A s \in L : s.do \notin {"row", "insert"},
         \A s \in F : s.do = "insert" => t = Output!Agent(Owner),
         t # Output!Cleaner => \A s \in L : s.do \in Postponed,
         t = Output!Cleaner => \A s \in F \cup L : s.do \in CleanersDo
  PROVE  AgendasAreInOrder' /\ StepsAreLegit'
<1>1. /\ agenda \in [Output!Threads -> Seq(Steps)] /\ agenda' \in [Output!Threads -> Seq(Steps)]
      /\ AgendasAreInOrder /\ StepsAreLegit
  BY DEF ExportInv, ExportTypes, Moves
<1>2. \A u \in Output!Threads : u # t => agenda'[u] = agenda[u] /\ All(u)' = All(u) /\ Later(u)' = Later(u)
  BY DEF Moves, All, Later
<1>3. All(t)' \subseteq F \cup L \cup Later(t) /\ Later(t)' \subseteq L \cup Later(t)
  BY DEF Moves
<1>4. Later(t) \subseteq All(t)
  BY DEF All, Later, Of, Rest
<1>5. AgendasAreInOrder'
  <2>1. ASSUME NEW u \in Output!Threads, NEW s \in Later(u)'
        PROVE  s.do \notin {"row", "insert"} /\ (u # Output!Cleaner => s.do \in Postponed)
    BY <1>1, <1>2, <1>3, <2>1 DEF AgendasAreInOrder, Postponed
  <2>2. ASSUME NEW s \in All(Output!Cleaner)'
        PROVE  s.do \in CleanersDo
    BY <1>1, <1>2, <1>3, <1>4, <2>2, TheThreads DEF AgendasAreInOrder, CleanersDo
  <2>3. ASSUME NEW u \in Output!Threads, NEW s \in All(u)', s.do = "insert"
        PROVE  u = Output!Agent(Owner)
    BY <1>1, <1>2, <1>3, <1>4, <2>3 DEF AgendasAreInOrder
  <2> QED  BY <2>1, <2>2, <2>3 DEF AgendasAreInOrder, Postponed, CleanersDo
<1>6. StepsAreLegit'
  <2> SUFFICES ASSUME NEW u \in Output!Threads, NEW s \in All(u)'  PROVE Legit(s)'
    BY DEF StepsAreLegit
  <2>1. CASE s \in F \cup L
    BY <2>1
  <2>2. CASE s \in All(u)
    <3>1. Legit(s)
      BY <1>1, <2>2 DEF StepsAreLegit
    <3> QED  BY <3>1, LegitStays
  <2> QED  BY <1>2, <1>3, <1>4, <2>1, <2>2
<1> QED  BY <1>5, <1>6

\* A row or a record is the step at hand only if it came first.
LEMMA MovesTo ==
  ASSUME ExportInv, NEW t \in Output!Threads, NEW F, NEW L, Moves(t, F, L),
         NEW u \in Output!Threads, NEW e, NEW do \in {"row", "insert"}, Output!Doing(u, do, e)'
  PROVE  \/ u # t /\ Output!Doing(u, do, e)
         \/ u = t /\ \E s \in F : s.do = do /\ s.of = e
<1>1. CASE u # t
  BY <1>1 DEF Output!Doing, Moves
<1>2. CASE u = t
  <2>1. agenda'[t] # <<>> /\ Head(agenda'[t]).do = do /\ Head(agenda'[t]).of = e
    BY <1>2 DEF Output!Doing
  <2>2. Head(agenda'[t]) \notin Later(t)
    BY <2>1 DEF ExportInv, AgendasAreInOrder
  <2> QED  BY <1>2, <2>1, <2>2 DEF Moves
<1> QED  BY <1>1, <1>2

\* An export to finish stays on the agenda, unless it is the step that is taken.
LEMMA FinishStays ==
  ASSUME ExportInv, NEW t \in Output!Threads, NEW F, NEW L, Moves(t, F, L),
         t = Output!Cleaner => Later(t) \subseteq All(t)',
         NEW u \in Output!Threads, NEW e \in Exports, Output!Step("finish", e) \in All(u)
  PROVE  \/ Output!Step("finish", e) \in All(u)'
         \/ u = t /\ agenda[t] # <<>> /\ Head(agenda[t]) = Output!Step("finish", e)
<1>1. CASE u # t
  BY <1>1 DEF Moves, All
<1>2. CASE u = t /\ Head(agenda[t]) # Output!Step("finish", e)
  <2>1. agenda[t] # <<>>
    BY <1>2 DEF All, Of
  <2>2. Output!Step("finish", e) \in Later(t)
    BY <1>2, <2>1, TheStepAtHand DEF ExportInv
  <2>3. t = Output!Cleaner
    BY <2>2 DEF ExportInv, AgendasAreInOrder, Output!Step
  <2> QED  BY <1>2, <2>2, <2>3
<1>3. u = t => agenda[t] # <<>>
  BY DEF All, Of
<1> QED  BY <1>1, <1>2, <1>3

\* A thread that goes on with steps that are in order, neither a row nor a record.
LEMMA MovesGoOn ==
  ASSUME ExportInv, NEW t \in Output!Threads, NEW F, NEW L, Moves(t, F, L), Stable,
         \A s \in F \cup L : Legit(s)' /\ s.do \notin {"row", "insert"},
         t # Output!Cleaner => \A s \in L : s.do \in Postponed,
         t = Output!Cleaner => (\A s \in F \cup L : s.do \in CleanersDo) /\ Later(t) \subseteq All(t)',
         agenda[t] # <<>> => Head(agenda[t]).do # "finish"
  PROVE  AgendasGoOn
<1>1. AgendasAreInOrder' /\ StepsAreLegit'
  BY MovesInOrder
<1>2. ASSUME NEW u \in Output!Threads, NEW e \in Exports
      PROVE  /\ Output!Doing(u, "row", e)' => Output!Doing(u, "row", e)
             /\ Output!Doing(u, "insert", e)' => Output!Doing(u, "insert", e)
  BY MovesTo
<1>3. ASSUME NEW u \in Output!Threads, NEW e \in Exports, Output!Step("finish", e) \in All(u)
      PROVE  Output!Step("finish", e) \in All(u)'
  <2>1. agenda[t] # <<>> => Head(agenda[t]) # Output!Step("finish", e)
    BY DEF Output!Step
  <2> QED  BY <1>3, <2>1, FinishStays
<1> QED  BY <1>1, <1>2, <1>3 DEF AgendasGoOn

\* No thread moves.
LEMMA StandingGoesOn ==
  ASSUME ExportInv, Stable, agenda' = agenda
  PROVE  AgendasGoOn
<1>1. \A u : All(u)' = All(u) /\ Later(u)' = Later(u)
  BY DEF All, Later
<1>2. AgendasAreInOrder'
  BY <1>1 DEF ExportInv, AgendasAreInOrder
<1>3. StepsAreLegit'
  BY <1>1, LegitStays DEF ExportInv, StepsAreLegit
<1> QED  BY <1>1, <1>2, <1>3 DEF AgendasGoOn, Output!Doing

Goes == AgendasGoOn /\ agenda' \in [Output!Threads -> Seq(Steps)]

LEMMA StandingGoes ==
  ASSUME ExportInv, Stable, agenda' = agenda
  PROVE  Goes
BY StandingGoesOn DEF Goes, ExportInv, ExportTypes

LEMMA ThenNothingGoes ==
  ASSUME ExportInv, Stable, NEW t \in Output!Threads, agenda[t] # <<>>, Head(agenda[t]).do # "finish",
         Output!Then(t, <<>>)
  PROVE  Goes
<1>1. ExportTypes
  BY DEF ExportInv
<1>2. Moves(t, {}, {}) /\ Later(t) \subseteq All(t)'
  BY <1>1, ThenNothing
<1>3. AgendasGoOn
  BY <1>2, MovesGoOn
<1> QED  BY <1>2, <1>3 DEF Goes, Moves

\* Steps that may be put on t's agenda.
InOrder(t, p) ==
    /\ p \in Seq(Steps) /\ p # <<>>
    /\ \A s \in Of(p) : s.do \notin {"row", "insert"}
    /\ t # Output!Cleaner => \A s \in Rest(p) : s.do \in Postponed
    /\ t = Output!Cleaner => \A s \in Of(p) : s.do \in CleanersDo

LEMMA FirstAndRest ==
  ASSUME NEW p \in Seq(Steps), p # <<>>
  PROVE  Of(p) = {p[1]} \cup Rest(p)
<1>1. 1 \in 1..Len(p) /\ 1..Len(p) = {1} \cup (2..Len(p))
  OBVIOUS
<1> QED  BY <1>1 DEF Of, Rest

LEMMA ThenGoes ==
  ASSUME ExportInv, Stable, NEW t \in Output!Threads, agenda[t] # <<>>, Head(agenda[t]).do # "finish",
         NEW p, InOrder(t, p), \A s \in Of(p) : Legit(s)', Output!Then(t, p)
  PROVE  Goes /\ Of(p) \subseteq All(t)'
<1>1. ExportTypes
  BY DEF ExportInv
<1>2. p \in Seq(Steps) /\ p # <<>>
  BY DEF InOrder
<1>3. Moves(t, {p[1]}, Rest(p)) /\ Of(p) \cup Later(t) \subseteq All(t)'
  BY <1>1, <1>2, ThenSteps
<1>4. Of(p) = {p[1]} \cup Rest(p)
  BY <1>2, FirstAndRest
<1>5. AgendasGoOn
  BY <1>3, <1>4, MovesGoOn DEF InOrder
<1> QED  BY <1>3, <1>5 DEF Goes, Moves

LEMMA BeginGoes ==
  ASSUME ExportInv, Stable, NEW t \in Output!Threads,
         t = Output!Cleaner => agenda[t] = <<>>, agenda[t] # <<>> => Head(agenda[t]).do # "finish",
         NEW p, InOrder(t, p), \A s \in Of(p) : Legit(s)', Output!Begin(t, p)
  PROVE  Goes /\ Of(p) \subseteq All(t)'
<1>1. ExportTypes
  BY DEF ExportInv
<1>2. p \in Seq(Steps) /\ p # <<>>
  BY DEF InOrder
<1>3. Moves(t, {p[1]}, Rest(p)) /\ Of(p) \subseteq All(t)'
  BY <1>1, <1>2, BeginSteps
<1>4. Of(p) = {p[1]} \cup Rest(p)
  BY <1>2, FirstAndRest
<1>5. t = Output!Cleaner => Later(t) = {}
  BY DEF Later, Rest
<1>6. AgendasGoOn
  BY <1>3, <1>4, <1>5, MovesGoOn DEF InOrder
<1> QED  BY <1>3, <1>6 DEF Goes, Moves

LEMMA BeginNothingGoes ==
  ASSUME ExportInv, Stable, NEW t \in Output!Threads, t # Output!Cleaner,
         agenda[t] # <<>> => Head(agenda[t]).do # "finish", Output!Begin(t, <<>>)
  PROVE  Goes
<1>1. ExportTypes
  BY DEF ExportInv
<1>2. Moves(t, {}, {})
  BY <1>1, BeginNothing
<1>3. AgendasGoOn
  BY <1>2, MovesGoOn
<1> QED  BY <1>2, <1>3 DEF Goes, Moves

\* A thread at a step, with what it is at.
LEMMA AtStep ==
  ASSUME ExportInv, NEW t \in Output!Threads, NEW do, NEW e, Output!Doing(t, do, e)
  PROVE  /\ agenda[t] # <<>> /\ Head(agenda[t]) \in Steps /\ Head(agenda[t]).do = do /\ Head(agenda[t]).of = e
         /\ Legit(Head(agenda[t]))
         /\ do \notin CleanersDo => t # Output!Cleaner
<1>1. agenda[t] # <<>> /\ Head(agenda[t]).do = do /\ Head(agenda[t]).of = e
  BY DEF Output!Doing
<1>2. Head(agenda[t]) \in Steps /\ Head(agenda[t]) \in All(t)
  BY <1>1, TheStepAtHand DEF ExportInv
<1> QED  BY <1>1, <1>2 DEF ExportInv, StepsAreLegit, AgendasAreInOrder, CleanersDo

\* The records stand still, whatever happens to approvals and the folder.
LEMMA RecordsStand ==
  ASSUME ExportInv, Goes, Stable,
         UNCHANGED <<export, decision, proposed, rows, job, overwrite>>,
         exportApproval' \in [Exports -> {"none", "pending", "approved", "denied", "expired", "used"}],
         revision' \in Nat, {ready', within', collision'} \subseteq BOOLEAN
  PROVE  ExportInv'
<1>1. ExportTypes'
  BY DEF ExportInv, ExportTypes, Goes
<1>2. RecordsGoOn(Output!Cleaner) /\ JobsGoOn
  BY DEF RecordsGoOn, JobsGoOn, Output!Exists, Output!Terminal
<1> QED  BY <1>1, <1>2, TheThreads, CarriedOn DEF Goes

LEMMA TheStep ==
  ASSUME NEW do \in Doings, NEW e \in Exports \cup {Owner, Nobody}
  PROVE  Output!Step(do, e) \in Steps /\ Output!Step(do, e).do = do /\ Output!Step(do, e).of = e
BY DEF Output!Step, Steps, Doings, Output!JobStates

LEMMA InOrderOne ==
  ASSUME NEW t, NEW a \in Steps, a.do \notin {"row", "insert"}, t = Output!Cleaner => a.do \in CleanersDo
  PROVE  InOrder(t, <<a>>) /\ Of(<<a>>) = {a}
<1>1. Of(<<a>>) = {a} /\ Rest(<<a>>) = {}
  BY LiteralOne
<1>2. <<a>> \in Seq(Steps) /\ <<a>> # <<>>
  OBVIOUS
<1> QED  BY <1>1, <1>2 DEF InOrder

LEMMA InOrderTwo ==
  ASSUME NEW t, t # Output!Cleaner, NEW a \in Steps, a.do \notin {"row", "insert"},
         NEW b \in Steps,
         b.do \in Postponed
  PROVE  InOrder(t, <<a, b>>) /\ Of(<<a, b>>) = {a, b}
<1>1. Of(<<a, b>>) = {a, b} /\ Rest(<<a, b>>) = {b}
  BY LiteralTwo
<1>2. <<a, b>> \in Seq(Steps) /\ <<a, b>> # <<>>
  OBVIOUS
<1>3. \A s \in {a, b} : s.do \notin {"row", "insert"}
  BY DEF Postponed
<1> QED  BY <1>1, <1>2, <1>3 DEF InOrder

LEMMA InOrderThree ==
  ASSUME NEW t, t # Output!Cleaner, NEW a \in Steps, a.do \notin {"row", "insert"},
         NEW b \in Steps, NEW c \in Steps,
         b.do \in Postponed, c.do \in Postponed
  PROVE  InOrder(t, <<a, b, c>>) /\ Of(<<a, b, c>>) = {a, b, c}
<1>1. Of(<<a, b, c>>) = {a, b, c} /\ Rest(<<a, b, c>>) = {b, c}
  BY LiteralThree
<1>2. <<a, b, c>> \in Seq(Steps) /\ <<a, b, c>> # <<>>
  OBVIOUS
<1>3. \A s \in {a, b, c} : s.do \notin {"row", "insert"}
  BY DEF Postponed
<1> QED  BY <1>1, <1>2, <1>3 DEF InOrder

LEMMA InOrderFour ==
  ASSUME NEW t, t # Output!Cleaner, NEW a \in Steps, a.do \notin {"row", "insert"},
         NEW b \in Steps, NEW c \in Steps, NEW d \in Steps,
         b.do \in Postponed, c.do \in Postponed, d.do \in Postponed
  PROVE  InOrder(t, <<a, b, c, d>>) /\ Of(<<a, b, c, d>>) = {a, b, c, d}
<1>1. Of(<<a, b, c, d>>) = {a, b, c, d} /\ Rest(<<a, b, c, d>>) = {b, c, d}
  BY LiteralFour
<1>2. <<a, b, c, d>> \in Seq(Steps) /\ <<a, b, c, d>> # <<>>
  OBVIOUS
<1>3. \A s \in {a, b, c, d} : s.do \notin {"row", "insert"}
  BY DEF Postponed
<1> QED  BY <1>1, <1>2, <1>3 DEF InOrder

LEMMA InOrderFive ==
  ASSUME NEW t, t # Output!Cleaner, NEW a \in Steps, a.do \notin {"row", "insert"},
         NEW b \in Steps, NEW c \in Steps, NEW d \in Steps, NEW e \in Steps,
         b.do \in Postponed, c.do \in Postponed, d.do \in Postponed, e.do \in Postponed
  PROVE  InOrder(t, <<a, b, c, d, e>>) /\ Of(<<a, b, c, d, e>>) = {a, b, c, d, e}
<1>1. Of(<<a, b, c, d, e>>) = {a, b, c, d, e} /\ Rest(<<a, b, c, d, e>>) = {b, c, d, e}
  BY LiteralFive
<1>2. <<a, b, c, d, e>> \in Seq(Steps) /\ <<a, b, c, d, e>> # <<>>
  OBVIOUS
<1>3. \A s \in {a, b, c, d, e} : s.do \notin {"row", "insert"}
  BY DEF Postponed
<1> QED  BY <1>1, <1>2, <1>3 DEF InOrder

LEMMA OneAndTwo ==
  ASSUME NEW a, NEW x, NEW y
  PROVE  <<a>> \o <<x, y>> = <<a, x, y>>
<1> DEFINE S == {a, x, y}
           p == <<a>> \o <<x, y>>
           q == <<a, x, y>>
<1>1. p \in Seq(S) /\ q \in Seq(S)
  OBVIOUS
<1>2. Len(p) = 3 /\ Len(q) = 3 /\ 1..3 = {1, 2, 3}
  OBVIOUS
<1>3. p[1] = a /\ p[2] = x /\ p[3] = y
  OBVIOUS
<1>4. q[1] = a /\ q[2] = x /\ q[3] = y
  OBVIOUS
<1> HIDE DEF p, q, S
<1>5. \A n \in 1..Len(p) : p[n] = q[n]
  BY <1>2, <1>3, <1>4
<1>6. p = q
  BY <1>1, <1>2, <1>5, SeqEqual
<1> QED  BY <1>6 DEF p, q

LEMMA TwoAndTwo ==
  ASSUME NEW a, NEW b, NEW x, NEW y
  PROVE  <<a, b>> \o <<x, y>> = <<a, b, x, y>>
<1> DEFINE S == {a, b, x, y}
           p == <<a, b>> \o <<x, y>>
           q == <<a, b, x, y>>
<1>1. p \in Seq(S) /\ q \in Seq(S)
  OBVIOUS
<1>2. Len(p) = 4 /\ Len(q) = 4 /\ 1..4 = {1, 2, 3, 4}
  OBVIOUS
<1>3. p[1] = a /\ p[2] = b /\ p[3] = x /\ p[4] = y
  OBVIOUS
<1>4. q[1] = a /\ q[2] = b /\ q[3] = x /\ q[4] = y
  OBVIOUS
<1> HIDE DEF p, q, S
<1>5. \A n \in 1..Len(p) : p[n] = q[n]
  BY <1>2, <1>3, <1>4
<1>6. p = q
  BY <1>1, <1>2, <1>5, SeqEqual
<1> QED  BY <1>6 DEF p, q

LEMMA ThreeAndTwo ==
  ASSUME NEW a, NEW b, NEW c, NEW x, NEW y
  PROVE  <<a, b, c>> \o <<x, y>> = <<a, b, c, x, y>>
<1> DEFINE S == {a, b, c, x, y}
           p == <<a, b, c>> \o <<x, y>>
           q == <<a, b, c, x, y>>
<1>1. p \in Seq(S) /\ q \in Seq(S)
  OBVIOUS
<1>2. Len(p) = 5 /\ Len(q) = 5 /\ 1..5 = {1, 2, 3, 4, 5}
  OBVIOUS
<1>3. p[1] = a /\ p[2] = b /\ p[3] = c /\ p[4] = x /\ p[5] = y
  OBVIOUS
<1>4. q[1] = a /\ q[2] = b /\ q[3] = c /\ q[4] = x /\ q[5] = y
  OBVIOUS
<1> HIDE DEF p, q, S
<1>5. \A n \in 1..Len(p) : p[n] = q[n]
  BY <1>2, <1>3, <1>4
<1>6. p = q
  BY <1>1, <1>2, <1>5, SeqEqual
<1> QED  BY <1>6 DEF p, q

\* A status request follows what a thread does for e; it is legitimate at any time.
LEMMA WithStatus ==
  ASSUME NEW e \in Exports, NEW t \in Output!Threads, t # Output!Cleaner,
         NEW a \in Steps, a.do \notin {"row", "insert"},
         NEW b \in Steps, b.do \in Postponed
  PROVE  /\ InOrder(t, Output!Status(e)) /\ Of(Output!Status(e)) = {Output!Step("look", e), Output!Step("read", e)}
         /\ InOrder(t, <<a>> \o Output!Status(e))
         /\ Of(<<a>> \o Output!Status(e)) = {a, Output!Step("look", e), Output!Step("read", e)}
         /\ InOrder(t, <<a, b>> \o Output!Status(e))
         /\ Of(<<a, b>> \o Output!Status(e)) = {a, b, Output!Step("look", e), Output!Step("read", e)}
<1> DEFINE k == Output!Step("look", e)
           r == Output!Step("read", e)
<1>1. k \in Steps /\ r \in Steps /\ k.do \in Postponed /\ r.do \in Postponed /\ k.do \notin {"row", "insert"}
  BY TheStep DEF Postponed, Doings
<1>2. Output!Status(e) = <<k, r>>
  BY DEF Output!Status
<1> HIDE DEF k, r
<1>3. <<a>> \o <<k, r>> = <<a, k, r>> /\ <<a, b>> \o <<k, r>> = <<a, b, k, r>>
  BY OneAndTwo, TwoAndTwo
<1>4. InOrder(t, <<k, r>>) /\ Of(<<k, r>>) = {k, r}
  BY <1>1, InOrderTwo
<1>5. InOrder(t, <<a, k, r>>) /\ Of(<<a, k, r>>) = {a, k, r}
  BY <1>1, InOrderThree
<1>6. InOrder(t, <<a, b, k, r>>) /\ Of(<<a, b, k, r>>) = {a, b, k, r}
  BY <1>1, InOrderFour
<1> QED  BY <1>2, <1>3, <1>4, <1>5, <1>6 DEF k, r

\* An approved or delegated start, and the status request that began it.
LEMMA StartWithStatus ==
  ASSUME NEW e \in Exports, NEW t \in Output!Threads, t # Output!Cleaner,
         NEW a \in Steps, a.do \notin {"row", "insert"},
         NEW b \in Steps, b.do \in Postponed, NEW c \in Steps, c.do \in Postponed
  PROVE  /\ InOrder(t, <<a, b, c>> \o Output!Status(e))
         /\ Of(<<a, b, c>> \o Output!Status(e)) = {a, b, c, Output!Step("look", e), Output!Step("read", e)}
<1> DEFINE k == Output!Step("look", e)
           r == Output!Step("read", e)
<1>1. k \in Steps /\ r \in Steps /\ k.do \in Postponed /\ r.do \in Postponed
  BY TheStep DEF Postponed, Doings
<1>2. Output!Status(e) = <<k, r>>
  BY DEF Output!Status
<1> HIDE DEF k, r
<1>3. <<a, b, c>> \o <<k, r>> = <<a, b, c, k, r>>
  BY ThreeAndTwo
<1>4. InOrder(t, <<a, b, c, k, r>>) /\ Of(<<a, b, c, k, r>>) = {a, b, c, k, r}
  BY <1>1, InOrderFive, SMTT(60)
<1> QED  BY <1>2, <1>3, <1>4 DEF k, r

--------------------------------------------------------------------------------
(* Steps that leave the records alone.                                     *)

RecordVars == <<export, decision, proposed, rows, job, overwrite>>
FolderVars == <<revision, ready, within, collision>>
ApprovalStates == {"none", "pending", "approved", "denied", "expired", "used"}

LEMMA StandingRecords ==
  ASSUME ExportInv, Goes, Stable, UNCHANGED RecordVars, UNCHANGED FolderVars, exportApproval' \in [Exports -> ApprovalStates]
  PROVE  ExportInv'
BY RecordsStand DEF RecordVars, FolderVars, ApprovalStates, ExportInv, ExportTypes

LEMMA EnterStep ==
  ASSUME ExportInv, NEW t \in Output!Threads, NEW e \in Exports, Output!Enter(t, e)
  PROVE  ExportInv'
<1>1. agenda[t] # <<>> /\ Head(agenda[t]).do = "enter"
  BY AtStep DEF Output!Enter
<1>2. Output!Then(t, <<>>) /\ UNCHANGED RecordVars /\ UNCHANGED FolderVars /\ UNCHANGED exportApproval
  BY DEF Output!Enter, RecordVars, FolderVars, Output!authority, Output!folder, Output!records, Output!jobs, Output!threads
<1>3. Stable
  BY <1>2 DEF Stable, RecordVars
<1>4. Goes
  BY <1>1, <1>2, <1>3, ThenNothingGoes
<1> QED  BY <1>2, <1>3, <1>4, StandingRecords DEF ExportInv, ExportTypes, ApprovalStates

LEMMA LeaveLaneStep ==
  ASSUME ExportInv, NEW t \in Output!Threads, Output!LeaveLane(t)
  PROVE  ExportInv'
<1>1. agenda[t] # <<>> /\ Head(agenda[t]).do = "leave"
  BY AtStep DEF Output!LeaveLane
<1>2. Output!Then(t, <<>>) /\ UNCHANGED RecordVars /\ UNCHANGED FolderVars /\ UNCHANGED exportApproval
  BY DEF Output!LeaveLane, RecordVars, FolderVars, Output!authority, Output!folder, Output!records, Output!jobs, Output!threads
<1>3. Stable
  BY <1>2 DEF Stable, RecordVars
<1>4. Goes
  BY <1>1, <1>2, <1>3, ThenNothingGoes
<1> QED  BY <1>2, <1>3, <1>4, StandingRecords DEF ExportInv, ExportTypes, ApprovalStates

LEMMA LookStep ==
  ASSUME ExportInv, NEW t \in Output!Threads, NEW e \in Exports, Output!Look(t, e)
  PROVE  ExportInv'
<1>1. /\ agenda[t] # <<>> /\ Head(agenda[t]).do = "look" /\ t # Output!Cleaner
  BY AtStep DEF Output!Look, CleanersDo
<1>2. UNCHANGED RecordVars /\ UNCHANGED FolderVars
  BY DEF Output!Look, RecordVars, FolderVars, Output!authority, Output!folder, Output!records, Output!jobs, Output!threads
<1>3. /\ exportApproval' = exportApproval \/ (exportApproval' = [exportApproval EXCEPT ![e] = "used"])
  BY DEF Output!Look, Output!Claimed
<1>4. exportApproval' \in [Exports -> ApprovalStates] /\ Stable
  BY <1>2, <1>3 DEF Stable, RecordVars, ExportInv, ExportTypes, ApprovalStates
<1>5. CASE Output!Then(t, <<>>)
  BY <1>1, <1>4, <1>5, ThenNothingGoes, <1>2, StandingRecords
<1>6. CASE Output!OnLookError(t, e)
  <2>1. CASE t = Output!Watcher(e)
    <3>1. Output!Begin(t, <<Output!Step("fail", e)>>)
      BY <1>6, <2>1 DEF Output!OnLookError
    <3>2. InOrder(t, <<Output!Step("fail", e)>>) /\ Of(<<Output!Step("fail", e)>>) = {Output!Step("fail", e)}
      BY <1>1, TheStep, InOrderOne DEF Doings
    <3>3. Legit(Output!Step("fail", e))'
      BY DEF Legit, Output!Step
    <3>4. Goes
      BY <1>1, <1>4, <3>1, <3>2, <3>3, BeginGoes
    <3> QED  BY <1>2, <1>4, <3>4, StandingRecords
  <2>2. CASE t # Output!Watcher(e)
    <3>1. Output!Begin(t, <<>>)
      BY <1>6, <2>2 DEF Output!OnLookError
    <3>2. Goes
      BY <1>1, <1>4, <3>1, BeginNothingGoes
    <3> QED  BY <1>2, <1>4, <3>2, StandingRecords
  <2> QED  BY <2>1, <2>2
<1>7. ASSUME NEW do \in {"take", "fail"}, do = "take" => exportApproval'[e] = "used" /\ proposed'[e],
             Output!Then(t, <<Output!Step(do, e), Output!Step("leave", Nobody)>>)
      PROVE  ExportInv'
  <2> DEFINE p == <<Output!Step(do, e), Output!Step("leave", Nobody)>>
  <2>4. /\ Output!Step(do, e) \in Steps /\ Output!Step(do, e).do \notin {"row", "insert"}
        /\ Output!Step("leave", Nobody) \in Steps /\ Output!Step("leave", Nobody).do \in Postponed
    <3>1. do \in Doings /\ "leave" \in Doings
      BY DEF Doings
    <3> QED  BY <3>1, TheStep DEF Postponed
  <2>1. InOrder(t, p) /\ Of(p) = {Output!Step(do, e), Output!Step("leave", Nobody)}
    BY <1>1, <2>4, InOrderTwo
  <2>2. \A s \in Of(p) : Legit(s)'
    BY <1>7, <2>1 DEF Legit, Output!Step, Entitled
  <2> HIDE DEF p
  <2>3. Goes
    BY <1>1, <1>4, <1>7, <2>1, <2>2, ThenGoes DEF p
  <2> QED  BY <1>2, <1>4, <2>3, StandingRecords
<1>8. \/ Output!Then(t, <<>>) \/ Output!OnLookError(t, e)
      \/ /\ Output!Exists(e) /\ exportApproval' = [exportApproval EXCEPT ![e] = "used"]
         /\ Output!Then(t, <<Output!Step("take", e), Output!Step("leave", Nobody)>>)
      \/ Output!Then(t, <<Output!Step("fail", e), Output!Step("leave", Nobody)>>)
  BY DEF Output!Look, Output!Claimed, Output!Exists
<1>9. Output!Exists(e) => proposed'[e]
  BY <1>2 DEF RecordVars, ExportInv, RecordsAreProposed
<1>10. exportApproval' = [exportApproval EXCEPT ![e] = "used"] => exportApproval'[e] = "used"
  BY DEF ExportInv, ExportTypes
<1> QED  BY <1>5, <1>6, <1>7, <1>8, <1>9, <1>10

\* A start that fails.
LEMMA NotStartedGoes ==
  ASSUME ExportInv, Stable, NEW t \in Output!Threads, NEW e \in Exports, t # Output!Cleaner,
         agenda[t] # <<>>, Head(agenda[t]).do # "finish", Output!NotStarted(t, e)
  PROVE  Goes
<1>1. CASE decision[e] = "delegated"
  <2> DEFINE p == <<Output!Step("leave", Nobody), Output!Step("fail", e)>> \o Output!Status(e)
  <2>1. Output!Begin(t, p)
    BY <1>1 DEF Output!NotStarted
  <2>4. /\ Output!Step("leave", Nobody) \in Steps /\ Output!Step("leave", Nobody).do \notin {"row", "insert"}
        /\ Output!Step("fail", e) \in Steps /\ Output!Step("fail", e).do \in Postponed
    BY TheStep DEF Doings, Postponed
  <2>2. InOrder(t, p) /\ Of(p) = {Output!Step("leave", Nobody), Output!Step("fail", e), Output!Step("look", e), Output!Step("read", e)}
    BY <2>4, WithStatus
  <2>3. \A s \in Of(p) : Legit(s)'
    BY <2>2 DEF Legit, Output!Step
  <2> HIDE DEF p
  <2> QED  BY <2>1, <2>2, <2>3, BeginGoes
<1>2. CASE decision[e] # "delegated"
  <2>1. Output!Then(t, <<Output!Step("fail", e)>>)
    BY <1>2 DEF Output!NotStarted
  <2>4. Output!Step("fail", e) \in Steps /\ Output!Step("fail", e).do \notin {"row", "insert"}
    BY TheStep DEF Doings
  <2>2. InOrder(t, <<Output!Step("fail", e)>>) /\ Of(<<Output!Step("fail", e)>>) = {Output!Step("fail", e)}
    BY <2>4, InOrderOne
  <2>3. Legit(Output!Step("fail", e))'
    BY DEF Legit, Output!Step
  <2> QED  BY <2>1, <2>2, <2>3, ThenGoes
<1> QED  BY <1>1, <1>2

LEMMA CheckStep ==
  ASSUME ExportInv, NEW t \in Output!Threads, NEW e \in Exports, Output!Check(t, e)
  PROVE  ExportInv'
<1>1. /\ agenda[t] # <<>> /\ Head(agenda[t]).do = "check" /\ Head(agenda[t]).of = e /\ t # Output!Cleaner
      /\ Legit(Head(agenda[t]))
  BY AtStep DEF Output!Check, CleanersDo
<1>2. UNCHANGED RecordVars /\ UNCHANGED FolderVars /\ UNCHANGED exportApproval
  BY DEF Output!Check, RecordVars, FolderVars, Output!authority, Output!folder, Output!records, Output!jobs, Output!threads
<1>3. exportApproval' \in [Exports -> ApprovalStates] /\ Stable
  BY <1>2 DEF Stable, RecordVars, ExportInv, ExportTypes, ApprovalStates
<1>4. CASE Output!NotStarted(t, e)
  BY <1>1, <1>2, <1>3, <1>4, NotStartedGoes, StandingRecords
<1>5. ASSUME NEW do \in {"replace", "submit"}, do = "replace" <=> decision[e] = "critical",
             Output!Then(t, <<Output!Step(do, e)>>)
      PROVE  ExportInv'
  <2>4. Output!Step(do, e) \in Steps /\ Output!Step(do, e).do \notin {"row", "insert"}
    <3>1. do \in Doings
      BY DEF Doings
    <3> QED  BY <3>1, TheStep
  <2>1. InOrder(t, <<Output!Step(do, e)>>) /\ Of(<<Output!Step(do, e)>>) = {Output!Step(do, e)}
    BY <1>1, <2>4, InOrderOne
  <2>2. Legit(Output!Step(do, e))'
    BY <1>1, <1>2, <1>5 DEF Legit, Output!Step, Entitled, RecordVars
  <2>3. Goes
    BY <1>1, <1>3, <1>5, <2>1, <2>2, ThenGoes
  <2> QED  BY <1>2, <1>3, <2>3, StandingRecords
<1>6. \/ Output!NotStarted(t, e)
      \/ /\ decision[e] = Output!Decided
         /\ Output!Then(t, <<Output!Step(IF collision THEN "replace" ELSE "submit", e)>>)
  BY DEF Output!Check, Output!SameDecision
<1>7. Output!Decided = "critical" <=> collision
  BY DEF Output!Decided, ExportInv, ExportTypes
<1>8. CASE collision
  BY <1>4, <1>5, <1>6, <1>7, <1>8
<1>9. CASE ~collision
  BY <1>4, <1>5, <1>6, <1>7, <1>9
<1> QED  BY <1>8, <1>9

LEMMA ReadStep ==
  ASSUME ExportInv, NEW t \in Output!Threads, NEW e \in Exports, Output!Read(t, e)
  PROVE  ExportInv'
<1>1. agenda[t] # <<>> /\ Head(agenda[t]).do = "read"
  BY AtStep DEF Output!Read
<1>2. UNCHANGED RecordVars /\ UNCHANGED FolderVars /\ UNCHANGED exportApproval
  BY DEF Output!Read, RecordVars, FolderVars, Output!authority, Output!folder, Output!records, Output!jobs, Output!threads
<1>3. exportApproval' \in [Exports -> ApprovalStates] /\ Stable
  BY <1>2 DEF Stable, RecordVars, ExportInv, ExportTypes, ApprovalStates
<1>4. CASE Output!Then(t, <<>>)
  BY <1>1, <1>2, <1>3, <1>4, ThenNothingGoes, StandingRecords
<1>5. ASSUME NEW s \in Steps, s.do \in {"fail", "apply"}, Output!Then(t, <<s>>)
      PROVE  ExportInv'
  <2>1. InOrder(t, <<s>>) /\ Of(<<s>>) = {s}
    BY <1>5, InOrderOne DEF CleanersDo
  <2>2. Legit(s)'
    BY <1>5 DEF Legit
  <2>3. Goes
    BY <1>1, <1>3, <1>5, <2>1, <2>2, ThenGoes
  <2> QED  BY <1>2, <1>3, <2>3, StandingRecords
<1>6. Output!Step("fail", e) \in Steps /\ Output!Step("fail", e).do = "fail"
  BY TheStep DEF Doings
<1>7. [Output!Step("apply", e) EXCEPT !.saw = job[e]] \in Steps /\ [Output!Step("apply", e) EXCEPT !.saw = job[e]].do = "apply"
  BY DEF Output!Step, Steps, Doings, ExportInv, ExportTypes
<1>8. \/ Output!Then(t, <<>>) \/ Output!Then(t, <<Output!Step("fail", e)>>)
      \/ Output!Then(t, <<[Output!Step("apply", e) EXCEPT !.saw = job[e]]>>)
  BY DEF Output!Read
<1> QED  BY <1>4, <1>5, <1>6, <1>7, <1>8

LEMMA KillStep ==
  ASSUME ExportInv, NEW t \in Output!Threads, NEW e \in Exports, Output!Kill(t, e)
  PROVE  ExportInv'
<1>1. agenda[t] # <<>> /\ Head(agenda[t]).do = "kill"
  BY AtStep DEF Output!Kill
<1>2. UNCHANGED RecordVars /\ UNCHANGED FolderVars /\ UNCHANGED exportApproval
  BY DEF Output!Kill, RecordVars, FolderVars, Output!authority, Output!folder, Output!records, Output!jobs, Output!threads
<1>3. exportApproval' \in [Exports -> ApprovalStates] /\ Stable
  BY <1>2 DEF Stable, RecordVars, ExportInv, ExportTypes, ApprovalStates
<1>4. CASE Output!Then(t, <<Output!Step("read", e)>>)
  <2>1. InOrder(t, <<Output!Step("read", e)>>) /\ Of(<<Output!Step("read", e)>>) = {Output!Step("read", e)}
    BY TheStep, InOrderOne DEF Doings, CleanersDo
  <2>2. Legit(Output!Step("read", e))'
    BY DEF Legit, Output!Step
  <2>3. Goes
    BY <1>1, <1>3, <1>4, <2>1, <2>2, ThenGoes
  <2> QED  BY <1>2, <1>3, <2>3, StandingRecords
<1>5. CASE t # Output!Cleaner /\ Output!Begin(t, <<Output!Step("leave", Nobody)>>)
  <2>1. InOrder(t, <<Output!Step("leave", Nobody)>>) /\ Of(<<Output!Step("leave", Nobody)>>) = {Output!Step("leave", Nobody)}
    BY TheStep, InOrderOne DEF Doings, CleanersDo
  <2>2. Legit(Output!Step("leave", Nobody))'
    BY DEF Legit, Output!Step
  <2>3. Goes
    BY <1>1, <1>3, <1>5, <2>1, <2>2, BeginGoes
  <2> QED  BY <1>2, <1>3, <2>3, StandingRecords
<1> QED  BY <1>4, <1>5 DEF Output!Kill

LEMMA WatchStep ==
  ASSUME ExportInv, NEW e \in Exports, Output!Watch(e)
  PROVE  ExportInv'
<1> DEFINE t == Output!Watcher(e)
<1>1. t \in Output!Threads /\ t # Output!Cleaner /\ agenda[t] = <<>>
  BY TheThreads DEF Output!Watch, Output!Idle
<1>2. UNCHANGED RecordVars /\ UNCHANGED FolderVars /\ UNCHANGED exportApproval
  BY DEF Output!Watch, RecordVars, FolderVars, Output!authority, Output!folder, Output!records, Output!jobs, Output!threads
<1>3. exportApproval' \in [Exports -> ApprovalStates] /\ Stable
  BY <1>2 DEF Stable, RecordVars, ExportInv, ExportTypes, ApprovalStates
<1>4. CASE agenda' = agenda
  BY <1>2, <1>3, <1>4, StandingGoes, StandingRecords
<1>5. CASE Output!Begin(t, <<Output!Step("look", e)>>)
  <2>4. Output!Step("look", e) \in Steps /\ Output!Step("look", e).do \notin {"row", "insert"}
    BY TheStep DEF Doings
  <2>1. InOrder(t, <<Output!Step("look", e)>>) /\ Of(<<Output!Step("look", e)>>) = {Output!Step("look", e)}
    <3> HIDE DEF t
    <3> QED  BY <1>1, <2>4, InOrderOne
  <2>2. Legit(Output!Step("look", e))'
    BY DEF Legit, Output!Step
  <2>3. Goes
    BY <1>1, <1>3, <1>5, <2>1, <2>2, BeginGoes
  <2> QED  BY <1>2, <1>3, <2>3, StandingRecords
<1> QED  BY <1>4, <1>5 DEF Output!Watch

LEMMA PollStep ==
  ASSUME ExportInv, NEW e \in Exports, Output!Poll(e)
  PROVE  ExportInv'
<1> DEFINE t == Output!Poller(e)
<1>1. t \in Output!Threads /\ t # Output!Cleaner /\ agenda[t] = <<>>
  BY TheThreads DEF Output!Poll, Output!Idle
<1>2. UNCHANGED RecordVars /\ UNCHANGED FolderVars /\ UNCHANGED exportApproval
  BY DEF Output!Poll, RecordVars, FolderVars, Output!authority, Output!folder, Output!records, Output!jobs, Output!threads
<1>3. exportApproval' \in [Exports -> ApprovalStates] /\ Stable
  BY <1>2 DEF Stable, RecordVars, ExportInv, ExportTypes, ApprovalStates
<1>4. CASE agenda' = agenda
  BY <1>2, <1>3, <1>4, StandingGoes, StandingRecords
<1>5. CASE Output!Begin(t, <<Output!Step("read", e)>>)
  <2>1. InOrder(t, <<Output!Step("read", e)>>) /\ Of(<<Output!Step("read", e)>>) = {Output!Step("read", e)}
    BY <1>1, TheStep, InOrderOne DEF Doings, CleanersDo
  <2>2. Legit(Output!Step("read", e))'
    BY DEF Legit, Output!Step
  <2>3. Goes
    BY <1>1, <1>3, <1>5, <2>1, <2>2, BeginGoes
  <2> QED  BY <1>2, <1>3, <2>3, StandingRecords
<1> QED  BY <1>4, <1>5 DEF Output!Poll

LEMMA AskStatusStep ==
  ASSUME ExportInv, NEW e \in Exports, Output!AskStatus(e)
  PROVE  ExportInv'
<1> DEFINE t == Output!Agent(Owner)
<1>1. /\ t \in Output!Threads /\ t # Output!Cleaner /\ agenda[t] = <<>> /\ Output!Begin(t, Output!Status(e))
  BY TheThreads DEF Output!AskStatus, Output!Idle, Output!Owned
<1>2. UNCHANGED RecordVars /\ UNCHANGED FolderVars /\ UNCHANGED exportApproval
  BY DEF Output!AskStatus, RecordVars, FolderVars, Output!authority, Output!folder, Output!records, Output!jobs, Output!threads
<1>3. exportApproval' \in [Exports -> ApprovalStates] /\ Stable
  BY <1>2 DEF Stable, RecordVars, ExportInv, ExportTypes, ApprovalStates
<1>4. InOrder(t, Output!Status(e)) /\ Of(Output!Status(e)) = {Output!Step("look", e), Output!Step("read", e)}
  <2>1. Output!Step("read", e) \in Steps /\ Output!Step("read", e).do = "read"
    BY TheStep DEF Doings
  <2> QED  BY <1>1, <2>1, WithStatus DEF Postponed
<1>5. \A s \in Of(Output!Status(e)) : Legit(s)'
  BY <1>4 DEF Legit, Output!Step
<1>6. Goes
  BY <1>1, <1>3, <1>4, <1>5, BeginGoes
<1> QED  BY <1>2, <1>3, <1>6, StandingRecords

LEMMA LoseLeaseStep ==
  ASSUME ExportInv, Output!LoseLease(Owner)
  PROVE  ExportInv'
<1> DEFINE t == Output!Cleaner
<1>1. t \in Output!Threads /\ agenda[t] = <<>> /\ Output!Begin(t, <<Output!Step("clean", Owner)>>)
  BY TheThreads DEF Output!LoseLease, Output!Idle
<1>2. UNCHANGED RecordVars
  BY DEF Output!LoseLease, RecordVars, Output!authority, Output!folder, Output!records, Output!jobs, Output!threads
<1>3. exportApproval' \in [Exports -> ApprovalStates] /\ Stable
  BY <1>2 DEF Output!LoseLease, Stable, RecordVars, ExportInv, ExportTypes, ApprovalStates
<1>4. InOrder(t, <<Output!Step("clean", Owner)>>) /\ Of(<<Output!Step("clean", Owner)>>) = {Output!Step("clean", Owner)}
  BY TheStep, InOrderOne DEF Doings, CleanersDo
<1>5. Legit(Output!Step("clean", Owner))'
  BY DEF Legit, Output!Step
<1>6. Goes
  BY <1>1, <1>3, <1>4, <1>5, BeginGoes
<1>7. revision' \in Nat /\ {ready', within', collision'} \subseteq BOOLEAN
  BY DEF Output!LoseLease, ExportInv, ExportTypes, Output!authority, Output!folder, Output!records, Output!jobs, Output!threads
<1> QED  BY <1>2, <1>3, <1>6, <1>7, RecordsStand DEF RecordVars, ApprovalStates

LEMMA ChangeFolderStep ==
  ASSUME ExportInv, Output!ChangeFolder
  PROVE  ExportInv'
<1> DEFINE t == Output!Cleaner
<1>1. t \in Output!Threads /\ agenda[t] = <<>> /\ Output!Begin(t, <<Output!Step("clean", Nobody)>>)
  BY TheThreads DEF Output!ChangeFolder, Output!Idle
<1>2. UNCHANGED RecordVars
  BY DEF Output!ChangeFolder, RecordVars, Output!authority, Output!folder, Output!records, Output!jobs, Output!threads
<1>3. exportApproval' \in [Exports -> ApprovalStates] /\ Stable
  BY <1>2 DEF Output!ChangeFolder, Stable, RecordVars, ExportInv, ExportTypes, ApprovalStates
<1>4. InOrder(t, <<Output!Step("clean", Nobody)>>) /\ Of(<<Output!Step("clean", Nobody)>>) = {Output!Step("clean", Nobody)}
  BY TheStep, InOrderOne DEF Doings, CleanersDo
<1>5. Legit(Output!Step("clean", Nobody))'
  BY DEF Legit, Output!Step
<1>6. Goes
  BY <1>1, <1>3, <1>4, <1>5, BeginGoes
<1>7. revision' \in Nat /\ {ready', within', collision'} \subseteq BOOLEAN
  BY DEF Output!ChangeFolder, ExportInv, ExportTypes, Output!authority, Output!folder, Output!records, Output!jobs, Output!threads
<1> QED  BY <1>2, <1>3, <1>6, <1>7, RecordsStand DEF RecordVars, ApprovalStates

LEMMA CloseProjectStep ==
  ASSUME ExportInv, Output!CloseProject
  PROVE  ExportInv'
<1> DEFINE t == Output!Cleaner
           p == <<Output!Step("clean", Nobody), Output!Step("close", Nobody)>>
<1>1. t \in Output!Threads /\ agenda[t] = <<>> /\ Output!Begin(t, p)
  BY TheThreads DEF Output!CloseProject, Output!Idle
<1>2. UNCHANGED RecordVars /\ UNCHANGED FolderVars /\ UNCHANGED exportApproval
  BY DEF Output!CloseProject, RecordVars, FolderVars, Output!authority, Output!folder, Output!records, Output!jobs, Output!threads
<1>3. exportApproval' \in [Exports -> ApprovalStates] /\ Stable
  BY <1>2 DEF Stable, RecordVars, ExportInv, ExportTypes, ApprovalStates
<1>4. Of(p) = {Output!Step("clean", Nobody), Output!Step("close", Nobody)} /\ Rest(p) = {Output!Step("close", Nobody)}
  BY LiteralTwo
<1>5. p \in Seq(Steps) /\ p # <<>>
  <2>1. Output!Step("clean", Nobody) \in Steps /\ Output!Step("close", Nobody) \in Steps
    BY TheStep DEF Doings
  <2> QED  BY <2>1
<1>6. InOrder(t, p) /\ \A s \in Of(p) : Legit(s)'
  BY <1>4, <1>5 DEF InOrder, CleanersDo, Legit, Output!Step
<1> HIDE DEF p
<1>7. Goes
  BY <1>1, <1>3, <1>6, BeginGoes
<1> QED  BY <1>2, <1>3, <1>7, StandingRecords

LEMMA CloseStep ==
  ASSUME ExportInv, Output!Close
  PROVE  ExportInv'
<1> DEFINE t == Output!Cleaner
<1>1. t \in Output!Threads /\ agenda[t] # <<>> /\ Head(agenda[t]).do = "close" /\ Output!Then(t, <<>>)
  BY TheThreads DEF Output!Close, Output!Doing
<1>2. UNCHANGED RecordVars /\ UNCHANGED FolderVars /\ UNCHANGED exportApproval
  BY DEF Output!Close, RecordVars, FolderVars, Output!authority, Output!folder, Output!records, Output!jobs, Output!threads
<1>3. exportApproval' \in [Exports -> ApprovalStates] /\ Stable
  BY <1>2 DEF Stable, RecordVars, ExportInv, ExportTypes, ApprovalStates
<1>4. Goes
  BY <1>1, <1>3, ThenNothingGoes
<1> QED  BY <1>2, <1>3, <1>4, StandingRecords

LEMMA OutsideStep ==
  ASSUME ExportInv,
         (\E e \in Exports : Output!DecideApproval(e) \/ Output!Forget(e)) \/ Output!ChangeContents
  PROVE  ExportInv'
<1>1. UNCHANGED RecordVars /\ agenda' = agenda
  BY DEF Output!DecideApproval, Output!Forget, Output!ChangeContents, RecordVars, Output!authority, Output!folder, Output!records, Output!jobs, Output!threads
<1>2. exportApproval' \in [Exports -> ApprovalStates] /\ Stable
  BY <1>1 DEF Output!DecideApproval, Output!Forget, Output!ChangeContents, Stable, RecordVars, ExportInv, ExportTypes,
              ApprovalStates
<1>3. revision' \in Nat /\ {ready', within', collision'} \subseteq BOOLEAN
  BY DEF Output!DecideApproval, Output!Forget, Output!ChangeContents, ExportInv, ExportTypes, Output!authority, Output!folder, Output!records, Output!jobs, Output!threads
<1> QED  BY <1>1, <1>2, <1>3, StandingGoes, RecordsStand DEF RecordVars, ApprovalStates

--------------------------------------------------------------------------------
(* Steps that change a record.                                             *)

ExportRecords == [state : ExportStates, revision : Nat, snapshot : BOOLEAN, submitted : BOOLEAN, audited : BOOLEAN]

LEMMA RecordsChange ==
  ASSUME ExportInv, NEW t \in Output!Threads, Goes, Stable, RecordsGoOn(t), export' \in [Exports -> ExportRecords],
         UNCHANGED <<decision, proposed, rows, job, overwrite>>, UNCHANGED FolderVars,
         exportApproval' \in [Exports -> ApprovalStates]
  PROVE  ExportInv'
<1>1. ExportTypes'
  BY DEF ExportInv, ExportTypes, Goes, ExportRecords, FolderVars, ApprovalStates
<1>2. JobsGoOn
  BY DEF JobsGoOn
<1> QED  BY <1>1, <1>2, CarriedOn DEF Goes

LEMMA SameRecords ==
  ASSUME ExportInv, NEW t, export' = export
  PROVE  RecordsGoOn(t) /\ export' \in [Exports -> ExportRecords]
BY DEF RecordsGoOn, Output!Exists, Output!Terminal, ExportInv, ExportTypes, ExportRecords

\* A record changes; what that may do.
LEMMA OneRecord ==
  ASSUME ExportInv, NEW t, NEW e \in Exports, NEW r \in ExportRecords, export' = [export EXCEPT ![e] = r],
         \/ r.state = "none" /\ (r.submitted => export[e].submitted)
         \/ /\ r.audited = export[e].audited /\ Output!Exists(e)
            /\ r.state = "awaiting" => export[e].state = "awaiting" /\ r.submitted = export[e].submitted
            /\ r.state \in Output!Finished =>
                  Output!Terminal(e) \/ r.audited \/ Output!Step("finish", e) \in All(t)'
  PROVE  RecordsGoOn(t) /\ export' \in [Exports -> ExportRecords]
<1>1. export \in [Exports -> ExportRecords]
  BY DEF ExportInv, ExportTypes, ExportRecords
<1>2. export' \in [Exports -> ExportRecords] /\ export'[e] = r /\ \A x \in Exports : x # e => export'[x] = export[x]
  <2> HIDE DEF ExportRecords
  <2> QED  BY <1>1
<1>3. ASSUME NEW x \in Exports, x # e
      PROVE  \/ export'[x].state = "none" /\ (export'[x].submitted => export[x].submitted)
             \/ /\ export'[x].audited = export[x].audited /\ Output!Exists(x)
                /\ export'[x].state = "awaiting" =>
                      export[x].state = "awaiting" /\ export'[x].submitted = export[x].submitted
                /\ Output!Terminal(x)' =>
                      Output!Terminal(x) \/ export'[x].audited \/ Output!Step("finish", x) \in All(t)'
  BY <1>2, <1>3 DEF Output!Exists, Output!Terminal
<1>4. Output!Terminal(e)' => r.state \in Output!Finished
  BY <1>2 DEF Output!Terminal
<1> HIDE DEF ExportRecords
<1> QED  BY <1>2, <1>3, <1>4 DEF RecordsGoOn

\* Set, from the code's writes of a record's state.
LEMMA StateSet ==
  ASSUME ExportInv, NEW t, NEW e \in Exports, NEW state \in ExportStates,
         export' = [export EXCEPT ![e].state = state], Output!Exists(e),
         state = "awaiting" => export[e].state = "awaiting",
         state \in Output!Finished => \/ Output!Terminal(e) \/ export[e].audited
                                     \/ Output!Step("finish", e) \in All(t)'
  PROVE  RecordsGoOn(t) /\ export' \in [Exports -> ExportRecords]
<1>1. export \in [Exports -> ExportRecords]
  BY DEF ExportInv, ExportTypes, ExportRecords
<1>2. PICK r \in ExportRecords : r = [export[e] EXCEPT !.state = state]
  BY <1>1 DEF ExportRecords
<1>3. r.state = state /\ r.audited = export[e].audited /\ r.submitted = export[e].submitted
  BY <1>1, <1>2 DEF ExportRecords
<1>4. export' = [export EXCEPT ![e] = r]
  BY <1>2
<1> QED  BY <1>3, <1>4, OneRecord

LEMMA TakeStep ==
  ASSUME ExportInv, NEW t \in Output!Threads, NEW e \in Exports, Output!Take(t, e)
  PROVE  ExportInv'
<1>1. /\ agenda[t] # <<>> /\ Head(agenda[t]).do = "take" /\ Head(agenda[t]).of = e /\ t # Output!Cleaner
      /\ Legit(Head(agenda[t]))
  BY AtStep DEF Output!Take, CleanersDo
<1>2. UNCHANGED <<decision, proposed, rows, job, overwrite>> /\ UNCHANGED FolderVars /\ UNCHANGED exportApproval
  BY DEF Output!Take, FolderVars, Output!authority, Output!folder, Output!records, Output!jobs, Output!threads
<1>3. exportApproval' \in [Exports -> ApprovalStates] /\ Stable
  BY <1>2 DEF Stable, ExportInv, ExportTypes, ApprovalStates
<1>4. CASE Output!NotStarted(t, e) /\ UNCHANGED export
  <2>1. Goes
    BY <1>1, <1>3, <1>4, NotStartedGoes
  <2> QED  BY <1>2, <1>3, <1>4, <2>1, StandingRecords DEF RecordVars
<1>5. CASE /\ Output!Exists(e) /\ export' = [export EXCEPT ![e].snapshot = FALSE]
           /\ Output!Then(t, <<Output!Step("check", e)>>)
  <2>1. Output!Step("check", e) \in Steps /\ Output!Step("check", e).do \notin {"row", "insert"}
    BY TheStep DEF Doings
  <2>2. InOrder(t, <<Output!Step("check", e)>>) /\ Of(<<Output!Step("check", e)>>) = {Output!Step("check", e)}
    BY <1>1, <2>1, InOrderOne
  <2>3. Legit(Output!Step("check", e))'
    BY <1>1, <1>2 DEF Legit, Output!Step, Entitled
  <2>4. Goes
    BY <1>1, <1>3, <1>5, <2>2, <2>3, ThenGoes
  <2>5. export \in [Exports -> ExportRecords]
    BY DEF ExportInv, ExportTypes, ExportRecords
  <2>6. PICK r \in ExportRecords : r = [export[e] EXCEPT !.snapshot = FALSE]
    BY <2>5 DEF ExportRecords
  <2>7. r.state = export[e].state /\ r.audited = export[e].audited /\ r.submitted = export[e].submitted
    BY <2>5, <2>6 DEF ExportRecords
  <2>8. export' = [export EXCEPT ![e] = r]
    BY <1>5, <2>6
  <2>9. RecordsGoOn(t) /\ export' \in [Exports -> ExportRecords]
    BY <1>5, <2>7, <2>8, OneRecord DEF Output!Terminal
  <2> QED  BY <1>2, <1>3, <2>4, <2>9, RecordsChange
<1> QED  BY <1>4, <1>5 DEF Output!Take, Output!Exists

LEMMA FailStep ==
  ASSUME ExportInv, NEW t \in Output!Threads, NEW e \in Exports, Output!Fail(t, e)
  PROVE  ExportInv'
<1>1. agenda[t] # <<>> /\ Head(agenda[t]).do = "fail" /\ Output!Then(t, <<Output!Step("finish", e)>>)
  BY AtStep DEF Output!Fail
<1>2. UNCHANGED <<decision, proposed, rows, job, overwrite>> /\ UNCHANGED FolderVars /\ UNCHANGED exportApproval
  BY DEF Output!Fail, FolderVars, Output!authority, Output!folder, Output!records, Output!jobs, Output!threads
<1>3. exportApproval' \in [Exports -> ApprovalStates] /\ Stable
  BY <1>2 DEF Stable, ExportInv, ExportTypes, ApprovalStates
<1>4. Output!Step("finish", e) \in Steps /\ Output!Step("finish", e).do = "finish"
  BY TheStep DEF Doings
<1>5. InOrder(t, <<Output!Step("finish", e)>>) /\ Of(<<Output!Step("finish", e)>>) = {Output!Step("finish", e)}
  BY <1>4, InOrderOne DEF CleanersDo
<1>6. Legit(Output!Step("finish", e))'
  BY <1>4 DEF Legit
<1>7. Goes /\ Output!Step("finish", e) \in All(t)'
  BY <1>1, <1>3, <1>5, <1>6, ThenGoes
<1>8. export' = export \/ (Output!Exists(e) /\ export' = [export EXCEPT ![e].state = "failed"])
  BY DEF Output!Fail, Output!Set
<1>9. "failed" \in ExportStates
  BY DEF ExportStates, Output!Finished
<1>10. RecordsGoOn(t) /\ export' \in [Exports -> ExportRecords]
  BY <1>7, <1>8, <1>9, SameRecords, StateSet
<1> QED  BY <1>2, <1>3, <1>7, <1>10, RecordsChange

LEMMA ApplyStep ==
  ASSUME ExportInv, NEW t \in Output!Threads, NEW e \in Exports, Output!Apply(t, e)
  PROVE  ExportInv'
<1>1. agenda[t] # <<>> /\ Head(agenda[t]).do = "apply" /\ Head(agenda[t]) \in Steps
  BY AtStep DEF Output!Apply
<1>2. UNCHANGED <<decision, proposed, rows, job, overwrite>> /\ UNCHANGED FolderVars /\ UNCHANGED exportApproval
  BY DEF Output!Apply, FolderVars, Output!authority, Output!folder, Output!records, Output!jobs, Output!threads
<1>3. exportApproval' \in [Exports -> ApprovalStates] /\ Stable
  BY <1>2 DEF Stable, ExportInv, ExportTypes, ApprovalStates
<1>4. PICK saw \in Output!JobStates :
         /\ IF Output!Exists(e) THEN export' = [export EXCEPT ![e].state = saw] ELSE UNCHANGED export
         /\ Output!Then(t, IF Output!Exists(e) /\ saw # "running" /\ ~export[e].audited
                           THEN <<Output!Step("finish", e)>> ELSE <<>>)
  <2>1. Head(agenda[t]).saw \in Output!JobStates
    BY <1>1 DEF Steps
  <2> QED  BY <2>1 DEF Output!Apply, Output!Set
<1>5. saw \in ExportStates
  BY DEF ExportStates, Output!Finished, Output!Undecided, Output!JobStates
<1>6. saw \notin {"awaiting", "queued"}
  BY DEF Output!JobStates
<1>7. CASE Output!Exists(e) /\ saw # "running" /\ ~export[e].audited
  <2>1. Output!Then(t, <<Output!Step("finish", e)>>)
    BY <1>4, <1>7
  <2>2. Output!Step("finish", e) \in Steps /\ Output!Step("finish", e).do = "finish"
    BY TheStep DEF Doings
  <2>3. InOrder(t, <<Output!Step("finish", e)>>) /\ Of(<<Output!Step("finish", e)>>) = {Output!Step("finish", e)}
    BY <2>2, InOrderOne DEF CleanersDo
  <2>4. Legit(Output!Step("finish", e))'
    BY <2>2 DEF Legit
  <2>5. Goes /\ Output!Step("finish", e) \in All(t)'
    BY <1>1, <1>3, <2>1, <2>3, <2>4, ThenGoes
  <2>6. RecordsGoOn(t) /\ export' \in [Exports -> ExportRecords]
    BY <1>4, <1>5, <1>6, <1>7, <2>5, StateSet
  <2> QED  BY <1>2, <1>3, <2>5, <2>6, RecordsChange
<1>8. CASE ~(Output!Exists(e) /\ saw # "running" /\ ~export[e].audited)
  <2>1. Output!Then(t, <<>>)
    BY <1>4, <1>8
  <2>2. Goes
    BY <1>1, <1>3, <2>1, ThenNothingGoes
  <2>3. "running" \notin Output!Finished
    BY DEF Output!Finished
  <2>4. RecordsGoOn(t) /\ export' \in [Exports -> ExportRecords]
    BY <1>4, <1>5, <1>6, <1>8, <2>3, SameRecords, StateSet
  <2> QED  BY <1>2, <1>3, <2>2, <2>4, RecordsChange
<1> QED  BY <1>7, <1>8

LEMMA RegisterStep ==
  ASSUME ExportInv, NEW t \in Output!Threads, NEW e \in Exports, Output!Register(t, e)
  PROVE  ExportInv'
<1>1. agenda[t] # <<>> /\ Head(agenda[t]).do = "register" /\ t # Output!Cleaner
  BY AtStep DEF Output!Register, CleanersDo
<1>2. UNCHANGED <<decision, proposed, rows, job, overwrite>> /\ UNCHANGED FolderVars /\ UNCHANGED exportApproval
  BY DEF Output!Register, FolderVars, Output!authority, Output!folder, Output!records, Output!jobs, Output!threads
<1>3. exportApproval' \in [Exports -> ApprovalStates] /\ Stable
  BY <1>2 DEF Stable, ExportInv, ExportTypes, ApprovalStates
<1>4. Output!NotStarted(t, e) \/ Output!Then(t, <<>>)
  BY DEF Output!Register
<1>5. Goes
  BY <1>1, <1>3, <1>4, NotStartedGoes, ThenNothingGoes
<1>6. export' = export \/ (Output!Exists(e) /\ export' = [export EXCEPT ![e].submitted = TRUE, ![e].state = "queued"])
  BY DEF Output!Register
<1>7. ASSUME Output!Exists(e), export' = [export EXCEPT ![e].submitted = TRUE, ![e].state = "queued"]
      PROVE  RecordsGoOn(t) /\ export' \in [Exports -> ExportRecords]
  <2>1. export \in [Exports -> ExportRecords]
    BY DEF ExportInv, ExportTypes, ExportRecords
  <2>2. PICK r \in ExportRecords : r = [export[e] EXCEPT !.submitted = TRUE, !.state = "queued"]
    BY <2>1 DEF ExportRecords, ExportStates, Output!Undecided
  <2>3. r.state = "queued" /\ r.audited = export[e].audited /\ "queued" \notin Output!Finished
    BY <2>1, <2>2 DEF ExportRecords, Output!Finished
  <2>4. export' = [export EXCEPT ![e] = r]
    BY <1>7, <2>2
  <2> QED  BY <1>7, <2>3, <2>4, OneRecord
<1>8. RecordsGoOn(t) /\ export' \in [Exports -> ExportRecords]
  BY <1>6, <1>7, SameRecords
<1> QED  BY <1>2, <1>3, <1>5, <1>8, RecordsChange

LEMMA ReleaseStep ==
  ASSUME ExportInv, NEW e \in Exports, Output!Release(e)
  PROVE  ExportInv'
<1>1. UNCHANGED <<decision, proposed, rows, job, overwrite, agenda>> /\ UNCHANGED FolderVars /\ UNCHANGED exportApproval
  BY DEF Output!Release, FolderVars, Output!authority, Output!folder, Output!records, Output!jobs, Output!threads
<1>2. exportApproval' \in [Exports -> ApprovalStates] /\ Stable
  BY <1>1 DEF Stable, ExportInv, ExportTypes, ApprovalStates
<1>3. Goes
  BY <1>1, <1>2, StandingGoes
<1>4. export' = [export EXCEPT ![e] = Output!NoRecord]
  BY DEF Output!Release
<1>5. export' \in [Exports -> ExportRecords]
  BY <1>4 DEF ExportInv, ExportTypes, ExportRecords, ExportStates, Output!NoRecord
<1>6. RecordsGoOn(Output!Cleaner)
  BY <1>4 DEF RecordsGoOn, Output!Exists, Output!Terminal, Output!NoRecord, ExportInv, ExportTypes
<1> QED  BY <1>1, <1>2, <1>3, <1>5, <1>6, TheThreads, RecordsChange

\* What the withdrawal of approvals leaves: an approval that was used stays used.
LEMMA WithdrawnApprovals ==
  ASSUME ExportInv, NEW S, exportApproval' = Output!Withdrawn(S), UNCHANGED <<decision, proposed>>
  PROVE  exportApproval' \in [Exports -> ApprovalStates] /\ Stable
BY DEF Output!Withdrawn, Stable, ExportInv, ExportTypes, ApprovalStates

LEMMA CancelExportStep ==
  ASSUME ExportInv, NEW e \in Exports, Output!CancelExport(e)
  PROVE  ExportInv'
<1> DEFINE t == Output!Agent(Owner)
           k == Output!Step(IF Output!Active(e) /\ export[e].submitted THEN "kill" ELSE "finish", e)
           l == Output!Step("leave", Nobody)
<1>1. t \in Output!Threads /\ t # Output!Cleaner /\ agenda[t] = <<>> /\ Output!Begin(t, <<k, l>> \o Output!Status(e))
  BY TheThreads DEF Output!CancelExport, Output!Owned, Output!Idle
<1>2. UNCHANGED <<decision, proposed, rows, job, overwrite>> /\ UNCHANGED FolderVars
  BY DEF Output!CancelExport, FolderVars, Output!authority, Output!folder, Output!records, Output!jobs, Output!threads
<1>3. exportApproval' \in [Exports -> ApprovalStates] /\ Stable
  <2>1. CASE exportApproval' = exportApproval
    BY <1>2, <2>1 DEF Stable, ExportInv, ExportTypes, ApprovalStates
  <2>2. CASE exportApproval' = Output!Withdrawn({e})
    BY <1>2, <2>2, WithdrawnApprovals
  <2> QED  BY <2>1, <2>2 DEF Output!CancelExport
<1>4. /\ k \in Steps /\ k.do \notin {"row", "insert"} /\ k.do \in {"kill", "finish"} /\ l \in Steps /\ l.do = "leave"
      /\ ~(Output!Active(e) /\ export[e].submitted) => k = Output!Step("finish", e)
  BY TheStep DEF Doings
<1>5. /\ InOrder(t, <<k, l>> \o Output!Status(e))
      /\ Of(<<k, l>> \o Output!Status(e)) = {k, l, Output!Step("look", e), Output!Step("read", e)}
  <2>1. l.do \in Postponed
    BY <1>4 DEF Postponed
  <2> HIDE DEF t, k, l
  <2>2. PICK d \in Steps : d = l
    BY <1>4
  <2> QED  BY <1>1, <1>4, <2>1, <2>2, WithStatus
<1>6. \A s \in Of(<<k, l>> \o Output!Status(e)) : Legit(s)'
  <2> HIDE DEF k, l
  <2> QED  BY <1>4, <1>5 DEF Legit, Output!Step
<1>7. Goes /\ k \in All(t)'
  <2> HIDE DEF k, l
  <2>1. Goes /\ Of(<<k, l>> \o Output!Status(e)) \subseteq All(t)'
    BY <1>1, <1>3, <1>5, <1>6, BeginGoes
  <2> QED  BY <1>5, <2>1
<1>8. \/ export' = export
      \/ export[e].state = "awaiting" /\ export' = [export EXCEPT ![e].state = "cancelled"]
  BY DEF Output!CancelExport, Output!Set
<1>9. export[e].state = "awaiting" => Output!Step("finish", e) \in All(t)'
  BY <1>4, <1>7 DEF ExportInv, WaitingIsUnsubmitted
<1> HIDE DEF t, k, l
<1>10. "cancelled" \in ExportStates
  BY DEF ExportStates, Output!Finished
<1>11. RecordsGoOn(t) /\ export' \in [Exports -> ExportRecords]
  BY <1>8, <1>9, <1>10, SameRecords, StateSet DEF Output!Exists
<1> QED  BY <1>1, <1>2, <1>3, <1>7, <1>11, RecordsChange

\* An order of a finite set has every element of it.
LEMMA SameCardinality ==
  ASSUME NEW S
  PROVE  Output!Cardinality(S) = Cardinality(S)
BY DEF Output!Cardinality, Cardinality

LEMMA OrdersAreComplete ==
  ASSUME NEW S, IsFiniteSet(S), NEW q \in Output!SetToSeqs(S)
  PROVE  q \in Seq(S) /\ \A x \in S : \E n \in DOMAIN q : q[n] = x
<1>1. Cardinality(S) \in Nat
  BY FS_CardinalityType
<1>2. q \in Injection(1..Cardinality(S), S)
  BY SameCardinality DEF Output!SetToSeqs, Injection, IsInjective
<1>3. Cardinality(1..Cardinality(S)) = Cardinality(S)
  BY <1>1, FS_Interval
<1>4. q \in Surjection(1..Cardinality(S), S)
  BY <1>2, <1>3, FS_Injection
<1>5. q \in [1..Cardinality(S) -> S] /\ \A x \in S : \E n \in 1..Cardinality(S) : q[n] = x
  BY <1>2, <1>4 DEF Surjection, Injection
<1> QED  BY <1>1, <1>5

LEMMA OneMore ==
  ASSUME NEW S, NEW p \in Seq(S), NEW a \in S
  PROVE  p \o <<a>> \in Seq(S) /\ p \o <<a>> # <<>> /\ Of(p \o <<a>>) = Of(p) \cup {a}
<1> DEFINE q == p \o <<a>>
<1>1. /\ q \in Seq(S) /\ Len(q) = Len(p) + 1 /\ Len(p) \in Nat
      /\ \A n \in 1..Len(p) : q[n] = p[n]
      /\ q[Len(p) + 1] = a
  OBVIOUS
<1> HIDE DEF q
<1>2. 1..Len(q) = (1..Len(p)) \cup {Len(p) + 1}
  BY <1>1
<1>3. Of(q) = Of(p) \cup {a}
  BY <1>1, <1>2 DEF Of
<1>4. q # <<>>
  BY <1>1
<1> QED  BY <1>1, <1>3, <1>4 DEF q

\* What the clean-up puts on its agenda.
LEMMA CleanUpIsInOrder ==
  ASSUME NEW S \in SUBSET Exports, NEW q \in Output!SetToSeqs(S)
  PROVE  /\ InOrder(Output!Cleaner, Output!CleanUp(q) \o <<Output!Step("leave", Nobody)>>)
         /\ \A s \in Of(Output!CleanUp(q) \o <<Output!Step("leave", Nobody)>>) : s.do \in {"kill", "finish", "leave"}
         /\ \A e \in S : ~export[e].submitted =>
               Output!Step("finish", e) \in Of(Output!CleanUp(q) \o <<Output!Step("leave", Nobody)>>)
<1> DEFINE p == Output!CleanUp(q)
           l == Output!Step("leave", Nobody)
<1>1. q \in Seq(S) /\ \A x \in S : \E n \in DOMAIN q : q[n] = x
  BY ExportConstants, FS_Subset, OrdersAreComplete
<1>2. \A e \in Exports : /\ Output!Step("kill", e) \in Steps /\ Output!Step("kill", e).do = "kill"
                         /\ Output!Step("finish", e) \in Steps /\ Output!Step("finish", e).do = "finish"
  BY TheStep DEF Doings
<1>3. l \in Steps /\ l.do = "leave"
  BY TheStep DEF Doings
<1>4. /\ p \in Seq(Steps)
      /\ \A n \in DOMAIN q : /\ n \in 1..Len(p)
                            /\ p[n] = Output!Step(IF export[q[n]].submitted THEN "kill" ELSE "finish", q[n])
      /\ \A s \in Of(p) : s.do \in {"kill", "finish"}
  <2>1. PICK N \in Nat : q \in [1..N -> S] /\ DOMAIN q = 1..N
    BY <1>1
  <2>2. \A n \in 1..N : Output!Step(IF export[q[n]].submitted THEN "kill" ELSE "finish", q[n]) \in Steps
    BY <1>2, <2>1
  <2>3. /\ p \in [1..N -> Steps]
        /\ \A n \in 1..N : p[n] = Output!Step(IF export[q[n]].submitted THEN "kill" ELSE "finish", q[n])
    BY <2>1, <2>2 DEF Output!CleanUp
  <2> HIDE DEF p
  <2>4. p \in Seq(Steps) /\ Len(p) = N
    BY <2>3
  <2>5. \A n \in 1..N : p[n].do \in {"kill", "finish"}
    BY <1>2, <2>1, <2>3
  <2> QED  BY <2>1, <2>3, <2>4, <2>5 DEF Of
<1> HIDE DEF p, l
<1>5. p \o <<l>> \in Seq(Steps) /\ p \o <<l>> # <<>> /\ Of(p \o <<l>>) = Of(p) \cup {l}
  BY <1>3, <1>4, OneMore
<1>6. \A s \in Of(p \o <<l>>) : s.do \in {"kill", "finish", "leave"}
  BY <1>3, <1>4, <1>5
<1>7. InOrder(Output!Cleaner, p \o <<l>>)
  BY <1>5, <1>6 DEF InOrder, CleanersDo
<1>8. ASSUME NEW e \in S, ~export[e].submitted
      PROVE  Output!Step("finish", e) \in Of(p \o <<l>>)
  <2>1. PICK n \in DOMAIN q : q[n] = e
    BY <1>1
  <2>2. n \in 1..Len(p) /\ p[n] = Output!Step("finish", e)
    BY <1>4, <1>8, <2>1
  <2> QED  BY <1>5, <2>2 DEF Of
<1> QED  BY <1>6, <1>7, <1>8 DEF p, l

LEMMA CleanStep ==
  ASSUME ExportInv, NEW c, Output!Clean(c)
  PROVE  ExportInv'
<1> DEFINE t == Output!Cleaner
           S == Output!Concerned(c)
<1>1. t \in Output!Threads /\ agenda[t] # <<>> /\ Head(agenda[t]).do = "clean"
  BY TheThreads, AtStep DEF Output!Clean
<1>2. PICK q \in Output!SetToSeqs(Output!ToEnd(S)) : Output!Then(t, Output!CleanUp(q) \o <<Output!Step("leave", Nobody)>>)
  BY DEF Output!Clean
<1>3. UNCHANGED <<decision, proposed, rows, job, overwrite>> /\ UNCHANGED FolderVars
  BY DEF Output!Clean, FolderVars, Output!authority, Output!folder, Output!records, Output!jobs, Output!threads
<1>4. exportApproval' \in [Exports -> ApprovalStates] /\ Stable
  BY <1>3, WithdrawnApprovals DEF Output!Clean
<1>5. Output!ToEnd(S) \in SUBSET Exports
  BY DEF Output!ToEnd, Output!Concerned
<1>6. PICK p : /\ p = Output!CleanUp(q) \o <<Output!Step("leave", Nobody)>>
               /\ InOrder(t, p) /\ \A s \in Of(p) : s.do \in {"kill", "finish", "leave"}
               /\ \A e \in Output!ToEnd(S) : ~export[e].submitted => Output!Step("finish", e) \in Of(p)
  BY <1>5, CleanUpIsInOrder
<1>7. \A s \in Of(p) : Legit(s)'
  BY <1>6 DEF Legit
<1>8. Goes /\ Of(p) \subseteq All(t)'
  BY <1>1, <1>2, <1>4, <1>6, <1>7, ThenGoes
<1>9. export' = [e \in Exports |-> IF e \in S /\ export[e].state = "awaiting"
                                   THEN [export[e] EXCEPT !.state = "cancelled"] ELSE export[e]]
  BY DEF Output!Clean
<1>10. S \in SUBSET Exports
  BY DEF Output!Concerned
<1>11. \A e \in S : export[e].state = "awaiting" => Output!Step("finish", e) \in All(t)'
  BY <1>6, <1>8, <1>10 DEF Output!ToEnd, ExportInv, WaitingIsUnsubmitted
<1> HIDE DEF S, t
<1>12. \A e \in Exports : export[e] \in ExportRecords
  BY DEF ExportInv, ExportTypes, ExportRecords
<1>13. ASSUME NEW e \in Exports, export[e].state = "awaiting"
       PROVE  [export[e] EXCEPT !.state = "cancelled"] \in ExportRecords
  BY <1>12 DEF ExportRecords, ExportStates, Output!Finished
<1>14. export' \in [Exports -> ExportRecords]
  BY <1>9, <1>12, <1>13
<1>15. RecordsGoOn(t)
  <2> SUFFICES ASSUME NEW e \in Exports
               PROVE  \/ export'[e].state = "none" /\ (export'[e].submitted => export[e].submitted)
                      \/ /\ export'[e].audited = export[e].audited /\ Output!Exists(e)
                         /\ export'[e].state = "awaiting" =>
                               export[e].state = "awaiting" /\ export'[e].submitted = export[e].submitted
                         /\ Output!Terminal(e)' =>
                               Output!Terminal(e) \/ export'[e].audited \/ Output!Step("finish", e) \in All(t)'
    BY DEF RecordsGoOn
  <2>1. CASE e \in S /\ export[e].state = "awaiting"
    <3>1. export'[e] = [export[e] EXCEPT !.state = "cancelled"]
      BY <1>9, <2>1
    <3>2. export'[e].audited = export[e].audited /\ export'[e].state = "cancelled"
      BY <1>12, <3>1 DEF ExportRecords
    <3> QED  BY <1>11, <2>1, <3>2 DEF Output!Exists
  <2>2. CASE ~(e \in S /\ export[e].state = "awaiting")
    <3>1. export'[e] = export[e]
      BY <1>9, <2>2
    <3> QED  BY <3>1 DEF Output!Exists, Output!Terminal
  <2> QED  BY <2>1, <2>2
<1> QED  BY <1>1, <1>3, <1>4, <1>8, <1>14, <1>15, RecordsChange

--------------------------------------------------------------------------------
(* Steps of a job, a proposal or an audit row.                             *)

LEMMA JobEndsStep ==
  ASSUME ExportInv, NEW e \in Exports, Output!JobEnds(e)
  PROVE  ExportInv'
<1>1. UNCHANGED <<export, decision, proposed, rows, overwrite, agenda, exportApproval>> /\ UNCHANGED FolderVars
  BY DEF Output!JobEnds, FolderVars, Output!authority, Output!folder, Output!records, Output!jobs, Output!threads
<1>2. Stable
  BY <1>1 DEF Stable
<1>3. Goes
  BY <1>1, <1>2, StandingGoes
<1>4. job[e] = "running" /\ \E s \in {"succeeded", "failed", "cancelled"} : job' = [job EXCEPT ![e] = s]
  BY DEF Output!JobEnds
<1>5. JobsGoOn /\ job' \in [Exports -> Output!JobStates]
  BY <1>1, <1>4 DEF JobsGoOn, ExportInv, ExportTypes, Output!JobStates
<1>6. RecordsGoOn(Output!Cleaner)
  BY <1>1, SameRecords
<1>7. ExportTypes'
  BY <1>1, <1>5 DEF ExportInv, ExportTypes, FolderVars
<1> QED  BY <1>1, <1>2, <1>3, <1>5, <1>6, <1>7, TheThreads, CarriedOn DEF Goes

LEMMA SubmitStep ==
  ASSUME ExportInv, NEW t \in Output!Threads, NEW e \in Exports, Output!Submit(t, e)
  PROVE  ExportInv'
<1>1. PICK do \in {"submit", "replace"} : Output!Doing(t, do, e)
  BY DEF Output!Submit
<1>2. /\ agenda[t] # <<>> /\ Head(agenda[t]).do = do /\ Head(agenda[t]).of = e /\ t # Output!Cleaner
      /\ Legit(Head(agenda[t]))
  BY <1>1, AtStep DEF CleanersDo
<1>3. UNCHANGED <<export, decision, proposed, rows, exportApproval>> /\ UNCHANGED FolderVars
  BY DEF Output!Submit, FolderVars, Output!authority, Output!folder, Output!records, Output!jobs, Output!threads
<1>4. exportApproval' \in [Exports -> ApprovalStates] /\ Stable
  BY <1>3 DEF Stable, ExportInv, ExportTypes, ApprovalStates
<1>5. CASE Output!NotStarted(t, e) /\ UNCHANGED <<job, overwrite>>
  <2>1. Goes
    BY <1>2, <1>4, <1>5, NotStartedGoes
  <2> QED  BY <1>3, <1>4, <1>5, <2>1, StandingRecords DEF RecordVars
<1>6. CASE /\ job' = [job EXCEPT ![e] = IF open THEN "running" ELSE "failed"]
           /\ overwrite' = IF Output!Doing(t, "replace", e) THEN overwrite \cup {e} ELSE overwrite
           /\ Output!Then(t, <<Output!Step("register", e)>>)
  <2>1. proposed[e] /\ Entitled(e) /\ (do = "replace" <=> decision[e] = "critical")
    BY <1>2 DEF Legit
  <2>2. overwrite' = (IF do = "replace" THEN overwrite \cup {e} ELSE overwrite)
    BY <1>1, <1>6 DEF Output!Doing
  <2>3. job' \in [Exports -> Output!JobStates] /\ \A x \in Exports : x # e => job'[x] = job[x]
    BY <1>6 DEF ExportInv, ExportTypes, Output!JobStates
  <2>4. Output!Step("register", e) \in Steps /\ Output!Step("register", e).do \notin {"row", "insert"}
    BY TheStep DEF Doings
  <2>5. InOrder(t, <<Output!Step("register", e)>>) /\ Of(<<Output!Step("register", e)>>) = {Output!Step("register", e)}
    BY <1>2, <2>4, InOrderOne
  <2>6. Legit(Output!Step("register", e))'
    BY <1>3, <2>1 DEF Legit, Output!Step
  <2>7. Goes
    BY <1>2, <1>4, <1>6, <2>5, <2>6, ThenGoes
  <2>8. ExportTypes'
    BY <1>3, <2>2, <2>3, <2>7 DEF ExportInv, ExportTypes, Goes, FolderVars
  <2>9. RecordsAreProposed'
    BY <1>3, <2>1, <2>2, <2>3 DEF ExportInv, RecordsAreProposed, Output!Exists
  <2>10. StartedAsDecided'
    <3> SUFFICES ASSUME NEW x \in Exports, job'[x] # "none"
                 PROVE  /\ decision'[x] = "delegated" \/ exportApproval'[x] = "used"
                        /\ x \in overwrite' <=> decision'[x] = "critical"
      BY DEF StartedAsDecided, Output!StartedAsDecided
    <3>1. CASE x = e
      BY <1>3, <2>1, <2>2, <3>1 DEF Entitled, ExportInv, RecordsAreProposed
    <3>2. CASE x # e
      BY <1>3, <2>2, <2>3, <3>2 DEF ExportInv, StartedAsDecided, Output!StartedAsDecided
    <3> QED  BY <3>1, <3>2
  <2>11. RecordsGoOn(t)
    BY <1>3, SameRecords
  <2> QED  BY <1>3, <1>4, <2>7, <2>8, <2>9, <2>10, <2>11, RowsCarried, Carried DEF Goes
<1> QED  BY <1>5, <1>6 DEF Output!Submit

LEMMA ProposeStep ==
  ASSUME ExportInv, NEW e \in Exports, Output!Propose(e)
  PROVE  ExportInv'
<1> DEFINE t == Output!Agent(Owner)
           i == Output!Step("insert", e)
<1>1. t \in Output!Threads /\ t # Output!Cleaner /\ agenda[t] = <<>> /\ Output!Begin(t, <<i>>)
  BY TheThreads DEF Output!Propose, Output!Idle
<1>2. ~proposed[e] /\ ~Output!Exists(e)
  BY DEF Output!Propose
<1>3. UNCHANGED <<rows, job, overwrite>> /\ UNCHANGED FolderVars
  BY DEF Output!Propose, FolderVars, Output!authority, Output!folder, Output!records, Output!jobs, Output!threads
<1>4. /\ proposed' = [proposed EXCEPT ![e] = TRUE]
      /\ \E d \in Output!Decisions : decision' = [decision EXCEPT ![e] = d]
      /\ \E a \in {"none", "pending"} : exportApproval' = [exportApproval EXCEPT ![e] = a]
      /\ export' = [export EXCEPT ![e].revision = revision]
  <2>1. Output!Decided \in Output!Decisions
    BY DEF Output!Decided, Output!Decisions
  <2> QED  BY <2>1 DEF Output!Propose
<1>5. /\ proposed' \in [Exports -> BOOLEAN] /\ decision' \in [Exports -> Output!Decisions]
      /\ exportApproval' \in [Exports -> ApprovalStates]
      /\ proposed'[e] /\ \A x \in Exports : x # e => /\ proposed'[x] = proposed[x] /\ decision'[x] = decision[x]
                                                     /\ exportApproval'[x] = exportApproval[x]
  <2>1. "none" \in ApprovalStates /\ "pending" \in ApprovalStates
    BY DEF ApprovalStates
  <2>2. /\ proposed \in [Exports -> BOOLEAN] /\ decision \in [Exports -> Output!Decisions]
        /\ exportApproval \in [Exports -> ApprovalStates]
    BY DEF ExportInv, ExportTypes, ApprovalStates
  <2> QED  BY <1>4, <2>1, <2>2
<1>6. /\ export' \in [Exports -> ExportRecords]
      /\ \A x \in Exports : /\ export'[x].state = export[x].state /\ export'[x].submitted = export[x].submitted
                           /\ export'[x].audited = export[x].audited
  <2>1. export \in [Exports -> ExportRecords] /\ revision \in Nat
    BY DEF ExportInv, ExportTypes, ExportRecords
  <2>2. PICK r \in ExportRecords : r = [export[e] EXCEPT !.revision = revision]
    BY <2>1 DEF ExportRecords
  <2>3. r.state = export[e].state /\ r.submitted = export[e].submitted /\ r.audited = export[e].audited
    BY <2>1, <2>2 DEF ExportRecords
  <2>4. export' = [export EXCEPT ![e] = r]
    BY <1>4, <2>2
  <2> HIDE DEF ExportRecords
  <2> QED  BY <2>1, <2>3, <2>4
<1>7. Stable
  BY <1>2, <1>5 DEF Stable
<1>8. i \in Steps /\ i.do = "insert" /\ i.of = e
  BY TheStep DEF Doings
<1>9. Moves(t, {i}, {})
  <2> HIDE DEF t, i
  <2>1. <<i>> \in Seq(Steps) /\ <<i>> # <<>> /\ <<i>>[1] = i
    BY <1>8
  <2>2. Rest(<<i>>) = {}
    BY LiteralOne
  <2> QED  BY <1>1, <2>1, <2>2, BeginSteps DEF ExportInv
<1>10. Legit(i)'
  BY <1>5, <1>8 DEF Legit
<1>11. AgendasAreInOrder' /\ StepsAreLegit'
  <2>1. t = Output!Agent(Owner)
    OBVIOUS
  <2> HIDE DEF t, i
  <2> QED  BY <1>1, <1>7, <1>9, <1>10, <2>1, MovesInOrder
<1>12. ExportTypes'
  BY <1>3, <1>5, <1>6, <1>9 DEF ExportInv, ExportTypes, ExportRecords, Moves, FolderVars, ApprovalStates
<1>13. ASSUME NEW u \in Output!Threads, NEW x \in Exports
       PROVE  /\ Output!Doing(u, "row", x)' => Output!Doing(u, "row", x)
              /\ Output!Doing(u, "insert", x)' => x = e \/ Output!Doing(u, "insert", x)
  <2> HIDE DEF t, i
  <2> QED  BY <1>1, <1>8, <1>9, MovesTo
<1>14. \A x \in Exports : Inserting(x)' => x = e \/ Inserting(x)
  BY <1>13 DEF Inserting
<1>15. RecordsAreProposed'
  BY <1>2, <1>3, <1>5, <1>6 DEF ExportInv, RecordsAreProposed, Output!Exists
<1>16. StartedAsDecided'
  <2> SUFFICES ASSUME NEW x \in Exports, job'[x] # "none"
               PROVE  /\ decision'[x] = "delegated" \/ exportApproval'[x] = "used"
                      /\ x \in overwrite' <=> decision'[x] = "critical"
    BY DEF StartedAsDecided, Output!StartedAsDecided
  <2>1. x # e
    BY <1>2, <1>3 DEF ExportInv, RecordsAreProposed
  <2> QED  BY <1>3, <1>5, <2>1 DEF ExportInv, StartedAsDecided, Output!StartedAsDecided
<1>17. WaitingIsUnsubmitted'
  <2> SUFFICES ASSUME NEW x \in Exports
               PROVE  /\ export'[x].submitted => proposed'[x]
                      /\ export'[x].state = "awaiting" \/ Inserting(x)' => ~export'[x].submitted
    BY DEF WaitingIsUnsubmitted
  <2> HIDE DEF Inserting
  <2> QED  BY <1>2, <1>5, <1>6, <1>14 DEF ExportInv, WaitingIsUnsubmitted
<1>18. ASSUME NEW x \in Exports, Flagged(x)  PROVE x # e /\ Flagged(x)'
  <2>1. x # e
    BY <1>2, <1>18 DEF Flagged
  <2> HIDE DEF Inserting
  <2> QED  BY <1>5, <1>6, <1>14, <1>18, <2>1 DEF Flagged, Output!Exists
<1>19. RowsAreFlagged'
  <2> SUFFICES ASSUME NEW x \in Exports
               PROVE  /\ rows'[x] \in {0, 1} /\ (rows'[x] = 1 => Flagged(x)')
                      /\ Inserting(x)' => ~Output!Exists(x)'
                      /\ \A u \in Output!Threads :
                            Output!Doing(u, "row", x)' =>
                               /\ rows'[x] = 0 /\ Flagged(x)'
                               /\ \A v \in Output!Threads : Output!Doing(v, "row", x)' => v = u
    BY DEF RowsAreFlagged
  <2>1. Inserting(x)' => ~Output!Exists(x)'
    <3> HIDE DEF Inserting
    <3> QED  BY <1>2, <1>6, <1>14 DEF ExportInv, RowsAreFlagged, Output!Exists
  <2> HIDE DEF Inserting, Flagged
  <2> QED  BY <1>3, <1>13, <1>18, <2>1 DEF ExportInv, RowsAreFlagged
<1>20. ASSUME NEW x \in Exports, Output!Terminal(x)'
       PROVE  export'[x].audited \/ \E u \in Output!Threads : Output!Step("finish", x) \in All(u)'
  <2>1. Output!Terminal(x)
    BY <1>6, <1>20 DEF Output!Terminal
  <2>2. ASSUME NEW u \in Output!Threads, Output!Step("finish", x) \in All(u)
        PROVE  Output!Step("finish", x) \in All(u)'
    <3> HIDE DEF t, i
    <3> QED  BY <1>1, <1>9, <2>2, FinishStays
  <2> QED  BY <1>6, <2>1, <2>2, AuditsStand
<1>21. AuditedOnce'
  BY <1>12, <1>19, <1>20, AuditsFollow DEF ExportTypes
<1> QED  BY <1>11, <1>12, <1>15, <1>16, <1>17, <1>19, <1>21 DEF ExportInv

LEMMA InsertStep ==
  ASSUME ExportInv, NEW t \in Output!Threads, NEW e \in Exports, Output!Insert(t, e)
  PROVE  ExportInv'
<1>1. /\ agenda[t] # <<>> /\ Head(agenda[t]).do = "insert" /\ Head(agenda[t]).of = e /\ t # Output!Cleaner
      /\ Legit(Head(agenda[t])) /\ Output!Doing(t, "insert", e)
  BY AtStep DEF Output!Insert, CleanersDo
<1>2. \A u \in Output!Threads : \A x : Output!Doing(u, "insert", x) => u = t
  <2>1. \A u \in Output!Threads : \A x : Output!Doing(u, "insert", x) => u = Output!Agent(Owner)
    BY AtStep, TheStepAtHand DEF ExportInv, AgendasAreInOrder
  <2> QED  BY <1>1, <2>1
<1>3. UNCHANGED <<decision, proposed, rows, job, overwrite, exportApproval>> /\ UNCHANGED FolderVars
  BY DEF Output!Insert, FolderVars, Output!authority, Output!folder, Output!records, Output!jobs, Output!threads
<1>4. Stable
  BY <1>3 DEF Stable
<1>5. PICK state \in {"queued", "awaiting"} : export' = [export EXCEPT ![e].state = state, ![e].snapshot = TRUE]
  BY DEF Output!Insert
<1>6. /\ export' \in [Exports -> ExportRecords] /\ export'[e].state = state
      /\ export'[e].submitted = export[e].submitted
      /\ \A x \in Exports : x # e => export'[x] = export[x]
  <2>1. export \in [Exports -> ExportRecords] /\ state \in ExportStates
    BY DEF ExportInv, ExportTypes, ExportRecords, ExportStates, Output!Undecided
  <2>2. PICK r \in ExportRecords : r = [export[e] EXCEPT !.state = state, !.snapshot = TRUE]
    BY <2>1 DEF ExportRecords
  <2>3. r.state = state /\ r.submitted = export[e].submitted
    BY <2>1, <2>2 DEF ExportRecords
  <2>4. export' = [export EXCEPT ![e] = r]
    BY <1>5, <2>2
  <2> HIDE DEF ExportRecords
  <2> QED  BY <2>1, <2>3, <2>4
<1>7. ASSUME NEW p, Output!Then(t, p), InOrder(t, p), \A s \in Of(p) : Legit(s)'
      PROVE  Goes /\ ~Output!Doing(t, "insert", e)'
  <2>1. Goes
    BY <1>1, <1>4, <1>7, ThenGoes
  <2>2. Moves(t, {p[1]}, Rest(p))
    BY <1>1, <1>7, ThenSteps DEF ExportInv, InOrder
  <2>3. p[1].do # "insert"
    BY <1>7, FirstAndRest DEF InOrder
  <2>4. ~Output!Doing(t, "insert", e)'
    BY <2>2, <2>3, MovesTo
  <2> QED  BY <2>1, <2>4
<1>8. \A do \in Doings : Output!Step(do, e) \in Steps /\ Output!Step(do, e).do = do /\ Output!Step(do, e).of = e
  BY TheStep
<1>9. Output!Step("leave", Nobody) \in Steps /\ Output!Step("leave", Nobody).do = "leave"
  BY TheStep DEF Doings
<1>10. Goes /\ ~Output!Doing(t, "insert", e)'
  <2> DEFINE a == Output!Step("enter", e)
             b == Output!Step("take", e)
             l == Output!Step("leave", Nobody)
             f == Output!Step("fail", e)
             k == Output!Step("look", e)
             r == Output!Step("read", e)
  <2>1. /\ a \in Steps /\ a.do = "enter" /\ a.of = e /\ b \in Steps /\ b.do = "take" /\ b.of = e
        /\ f \in Steps /\ f.do = "fail" /\ k.do = "look" /\ r.do = "read"
    BY <1>8 DEF Doings
  <2>2. l \in Steps /\ l.do = "leave"
    BY <1>9
  <2>3. Legit(f)' /\ Legit(k)' /\ Legit(r)' /\ Legit(l)' /\ Legit(a)'
    BY <1>1, <1>3, <2>1, <2>2 DEF Legit
  <2>4. decision[e] = "delegated" => Legit(b)'
    BY <1>1, <1>3, <2>1 DEF Legit, Entitled
  <2>5. \/ decision[e] = "delegated" /\ Output!Then(t, <<a, b, l>> \o Output!Status(e))
        \/ Output!Then(t, Output!Status(e))
        \/ Output!Then(t, <<f>> \o Output!Status(e))
    BY DEF Output!Insert
  <2>6. /\ a.do \notin {"row", "insert"} /\ b.do \in Postponed /\ l.do \in Postponed /\ f.do \notin {"row", "insert"}
    BY <2>1, <2>2 DEF Postponed
  <2>7. PICK A \in Steps, B \in Steps, C \in Steps, D \in Steps : A = a /\ B = b /\ C = l /\ D = f
    BY <2>1, <2>2
  <2>8. /\ InOrder(t, <<A, B, C>> \o Output!Status(e)) /\ Of(<<A, B, C>> \o Output!Status(e)) = {A, B, C, k, r}
        /\ InOrder(t, Output!Status(e)) /\ Of(Output!Status(e)) = {k, r}
        /\ InOrder(t, <<D>> \o Output!Status(e)) /\ Of(<<D>> \o Output!Status(e)) = {D, k, r}
    <3>1. A.do \notin {"row", "insert"} /\ B.do \in Postponed /\ C.do \in Postponed /\ D.do \notin {"row", "insert"}
      BY <2>6, <2>7
    <3>2. InOrder(t, <<A, B, C>> \o Output!Status(e)) /\ Of(<<A, B, C>> \o Output!Status(e)) = {A, B, C, k, r}
      BY <1>1, <3>1, StartWithStatus
    <3>3. InOrder(t, Output!Status(e)) /\ Of(Output!Status(e)) = {k, r}
      BY <1>1, <3>1, WithStatus
    <3>4. InOrder(t, <<D>> \o Output!Status(e)) /\ Of(<<D>> \o Output!Status(e)) = {D, k, r}
      BY <1>1, <3>1, WithStatus
    <3> QED  BY <3>2, <3>3, <3>4
  <2> HIDE DEF a, b, l, f, k, r
  <2>9. CASE decision[e] = "delegated" /\ Output!Then(t, <<a, b, l>> \o Output!Status(e))
    BY <1>7, <2>3, <2>4, <2>7, <2>8, <2>9
  <2>10. CASE Output!Then(t, Output!Status(e))
    BY <1>7, <2>3, <2>8, <2>10
  <2>11. CASE Output!Then(t, <<f>> \o Output!Status(e))
    BY <1>7, <2>3, <2>7, <2>8, <2>11
  <2> QED  BY <2>5, <2>9, <2>10, <2>11
<1>11. ExportTypes'
  BY <1>3, <1>6, <1>10 DEF ExportInv, ExportTypes, ExportRecords, Goes, FolderVars
<1>12. Inserting(e) /\ \A x \in Exports : ~Inserting(x)'
  <2>1. Inserting(e)
    BY <1>1 DEF Inserting
  <2>2. ASSUME NEW u \in Output!Threads, NEW x \in Exports, Output!Doing(u, "insert", x)'  PROVE FALSE
    <3>1. Output!Doing(u, "insert", x)
      BY <1>10, <2>2 DEF Goes, AgendasGoOn
    <3>2. u = t /\ x = e
      BY <1>1, <1>2, <3>1 DEF Output!Doing
    <3> QED  BY <1>10, <2>2, <3>2
  <2> QED  BY <2>1, <2>2 DEF Inserting
<1>13. RecordsAreProposed'
  <2>1. proposed[e]
    BY <1>1 DEF Legit
  <2> QED  BY <1>3, <1>6, <2>1 DEF ExportInv, RecordsAreProposed, Output!Exists
<1>14. StartedAsDecided'
  BY <1>3 DEF ExportInv, StartedAsDecided, Output!StartedAsDecided
<1> HIDE DEF Inserting
<1>15. WaitingIsUnsubmitted'
  <2> SUFFICES ASSUME NEW x \in Exports
               PROVE  /\ export'[x].submitted => proposed'[x]
                      /\ export'[x].state = "awaiting" \/ Inserting(x)' => ~export'[x].submitted
    BY DEF WaitingIsUnsubmitted
  <2> QED  BY <1>3, <1>6, <1>12 DEF ExportInv, WaitingIsUnsubmitted
<1>16. ASSUME NEW x \in Exports, Flagged(x)  PROVE Flagged(x)' /\ x # e
  <2>1. x # e
    BY <1>12, <1>16 DEF Flagged
  <2> QED  BY <1>3, <1>6, <1>12, <1>16, <2>1 DEF Flagged, Output!Exists
<1>17. RowsAreFlagged'
  <2> SUFFICES ASSUME NEW x \in Exports
               PROVE  /\ rows'[x] \in {0, 1} /\ (rows'[x] = 1 => Flagged(x)')
                      /\ Inserting(x)' => ~Output!Exists(x)'
                      /\ \A u \in Output!Threads :
                            Output!Doing(u, "row", x)' =>
                               /\ rows'[x] = 0 /\ Flagged(x)'
                               /\ \A v \in Output!Threads : Output!Doing(v, "row", x)' => v = u
    BY DEF RowsAreFlagged
  <2>1. \A u \in Output!Threads : Output!Doing(u, "row", x)' => Output!Doing(u, "row", x)
    BY <1>10 DEF Goes, AgendasGoOn
  <2> HIDE DEF Flagged
  <2> QED  BY <1>3, <1>12, <1>16, <2>1 DEF ExportInv, RowsAreFlagged
<1>18. ASSUME NEW x \in Exports, Output!Terminal(x)'
       PROVE  export'[x].audited \/ \E u \in Output!Threads : Output!Step("finish", x) \in All(u)'
  <2>1. x # e
    BY <1>6, <1>18 DEF Output!Terminal, Output!Finished
  <2>2. Output!Terminal(x) /\ export'[x] = export[x]
    BY <1>6, <1>18, <2>1 DEF Output!Terminal
  <2> QED  BY <1>10, <2>2, AuditsStand DEF Goes, AgendasGoOn
<1>19. AuditedOnce'
  BY <1>11, <1>17, <1>18, AuditsFollow DEF ExportTypes
<1> QED  BY <1>10, <1>11, <1>13, <1>14, <1>15, <1>17, <1>19 DEF ExportInv, Goes, AgendasGoOn

LEMMA FinishStep ==
  ASSUME ExportInv, NEW t \in Output!Threads, NEW e \in Exports, Output!Finish(t, e)
  PROVE  ExportInv'
<1>1. agenda[t] # <<>> /\ Head(agenda[t]).do = "finish" /\ Head(agenda[t]).of = e
  BY AtStep DEF Output!Finish
<1>2. UNCHANGED <<decision, proposed, rows, job, overwrite, exportApproval>> /\ UNCHANGED FolderVars
  BY DEF Output!Finish, FolderVars, Output!authority, Output!folder, Output!records, Output!jobs, Output!threads
<1>3. Stable
  BY <1>2 DEF Stable
<1>4. ASSUME NEW x \in Exports, x # e
      PROVE  Head(agenda[t]) # Output!Step("finish", x)
  BY <1>1, <1>4 DEF Output!Step
<1>5. CASE Output!Exists(e) /\ ~export[e].audited
  <2> DEFINE r == Output!Step("row", e)
  <2>1. export' = [export EXCEPT ![e].audited = TRUE] /\ Output!Then(t, <<r>>)
    BY <1>5 DEF Output!Finish, Output!Flagged
  <2>2. /\ export' \in [Exports -> ExportRecords] /\ export'[e].audited
        /\ \A x \in Exports : x # e => export'[x] = export[x]
        /\ export'[e].state = export[e].state /\ export'[e].submitted = export[e].submitted
    <3>1. export \in [Exports -> ExportRecords]
      BY DEF ExportInv, ExportTypes, ExportRecords
    <3>2. PICK q \in ExportRecords : q = [export[e] EXCEPT !.audited = TRUE]
      BY <3>1 DEF ExportRecords
    <3>3. q.state = export[e].state /\ q.submitted = export[e].submitted /\ q.audited
      BY <3>1, <3>2 DEF ExportRecords
    <3>4. export' = [export EXCEPT ![e] = q]
      BY <2>1, <3>2
    <3> HIDE DEF ExportRecords
    <3> QED  BY <3>1, <3>3, <3>4
  <2>20. \A x \in Exports : export'[x].state = export[x].state /\ export'[x].submitted = export[x].submitted
    BY <2>2
  <2>3. r \in Steps /\ r.do = "row" /\ r.of = e
    BY TheStep DEF Doings
  <2>4. Moves(t, {r}, {}) /\ Later(t) \subseteq All(t)'
    <3> HIDE DEF r
    <3>1. <<r>> \in Seq(Steps) /\ <<r>> # <<>> /\ <<r>>[1] = r
      BY <2>3
    <3>2. Rest(<<r>>) = {}
      BY LiteralOne
    <3> QED  BY <1>1, <2>1, <3>1, <3>2, ThenSteps DEF ExportInv
  <2>5. Legit(r)'
    BY <2>3 DEF Legit
  <2> HIDE DEF r
  <2>6. AgendasAreInOrder' /\ StepsAreLegit'
    BY <1>3, <2>3, <2>4, <2>5, MovesInOrder DEF CleanersDo
  <2>7. ASSUME NEW u \in Output!Threads, NEW x \in Exports
        PROVE  /\ Output!Doing(u, "row", x)' => (u = t /\ x = e) \/ Output!Doing(u, "row", x)
               /\ Output!Doing(u, "insert", x)' => Output!Doing(u, "insert", x)
    BY <2>3, <2>4, MovesTo
  <2>8. ExportTypes'
    BY <1>2, <2>2, <2>4 DEF ExportInv, ExportTypes, ExportRecords, Moves, FolderVars
  <2>9. RecordsAreProposed'
    BY <1>2, <2>20 DEF ExportInv, RecordsAreProposed, Output!Exists
  <2>10. StartedAsDecided'
    BY <1>2 DEF ExportInv, StartedAsDecided, Output!StartedAsDecided
  <2>11. \A x \in Exports : Inserting(x)' => Inserting(x)
    BY <2>7 DEF Inserting
  <2>12. rows[e] = 0 /\ (\A u \in Output!Threads : ~Output!Doing(u, "row", e)) /\ proposed[e] /\ ~Inserting(e)
    <3>1. ~Flagged(e)
      BY <1>5 DEF Flagged
    <3> HIDE DEF Flagged, Inserting
    <3> QED  BY <1>5, <3>1 DEF ExportInv, RowsAreFlagged, RecordsAreProposed
  <2> HIDE DEF Inserting
  <2>13. WaitingIsUnsubmitted'
    BY <1>2, <2>20, <2>11 DEF ExportInv, WaitingIsUnsubmitted
  <2>14. Flagged(e)' /\ \A x \in Exports : Flagged(x) => Flagged(x)'
    <3>1. Flagged(e)'
      BY <1>2, <2>2, <2>11, <2>12 DEF Flagged
    <3>2. ASSUME NEW x \in Exports, x # e, Flagged(x)  PROVE Flagged(x)'
      BY <1>2, <2>2, <2>11, <3>2 DEF Flagged, Output!Exists
    <3> HIDE DEF Flagged
    <3> QED  BY <3>1, <3>2
  <2>15. RowsAreFlagged'
    <3> SUFFICES ASSUME NEW x \in Exports
                 PROVE  /\ rows'[x] \in {0, 1} /\ (rows'[x] = 1 => Flagged(x)')
                        /\ Inserting(x)' => ~Output!Exists(x)'
                        /\ \A u \in Output!Threads :
                              Output!Doing(u, "row", x)' =>
                                 /\ rows'[x] = 0 /\ Flagged(x)'
                                 /\ \A v \in Output!Threads : Output!Doing(v, "row", x)' => v = u
      BY DEF RowsAreFlagged
    <3>1. Inserting(x)' => ~Output!Exists(x)'
      BY <2>20, <2>11 DEF ExportInv, RowsAreFlagged, Output!Exists
    <3>2. CASE x = e
      <4>1. \A u \in Output!Threads : Output!Doing(u, "row", e)' => u = t
        BY <2>7, <2>12
      <4> HIDE DEF Flagged
      <4> QED  BY <1>2, <2>12, <2>14, <3>1, <3>2, <4>1
    <3>3. CASE x # e
      <4>1. \A u \in Output!Threads : Output!Doing(u, "row", x)' => Output!Doing(u, "row", x)
        BY <2>7, <3>3
      <4> HIDE DEF Flagged
      <4> QED  BY <1>2, <2>14, <3>1, <4>1 DEF ExportInv, RowsAreFlagged
    <3> QED  BY <3>2, <3>3
  <2>16. ASSUME NEW x \in Exports, Output!Terminal(x)'
         PROVE  export'[x].audited \/ \E u \in Output!Threads : Output!Step("finish", x) \in All(u)'
    <3>1. CASE x = e
      BY <2>2, <3>1
    <3>2. CASE x # e
      <4>1. Output!Terminal(x) /\ export'[x].audited = export[x].audited
        BY <2>2, <2>16, <3>2 DEF Output!Terminal
      <4>2. ASSUME NEW u \in Output!Threads, Output!Step("finish", x) \in All(u)
            PROVE  Output!Step("finish", x) \in All(u)'
        BY <1>4, <2>4, <3>2, <4>2, FinishStays
      <4> QED  BY <4>1, <4>2, AuditsStand
    <3> QED  BY <3>1, <3>2
  <2>17. AuditedOnce'
    BY <2>8, <2>15, <2>16, AuditsFollow DEF ExportTypes
  <2> QED  BY <2>6, <2>8, <2>9, <2>10, <2>13, <2>15, <2>17 DEF ExportInv
<1>6. CASE ~(Output!Exists(e) /\ ~export[e].audited)
  <2>1. export' = export /\ Output!Then(t, <<>>)
    BY <1>6 DEF Output!Finish
  <2>2. Moves(t, {}, {}) /\ Later(t) \subseteq All(t)'
    BY <1>1, <2>1, ThenNothing DEF ExportInv
  <2>3. AgendasAreInOrder' /\ StepsAreLegit'
    BY <1>3, <2>2, MovesInOrder
  <2>4. ASSUME NEW u \in Output!Threads, NEW x \in Exports
        PROVE  /\ Output!Doing(u, "row", x)' => Output!Doing(u, "row", x)
               /\ Output!Doing(u, "insert", x)' => Output!Doing(u, "insert", x)
    BY <2>2, MovesTo
  <2>5. ExportTypes'
    BY <1>2, <2>1, <2>2 DEF ExportInv, ExportTypes, Moves, FolderVars
  <2>6. RecordsAreProposed'
    BY <1>2, <2>1 DEF ExportInv, RecordsAreProposed, Output!Exists
  <2>7. StartedAsDecided'
    BY <1>2 DEF ExportInv, StartedAsDecided, Output!StartedAsDecided
  <2>8. \A x \in Exports : Inserting(x)' => Inserting(x)
    BY <2>4 DEF Inserting
  <2> HIDE DEF Inserting
  <2>9. WaitingIsUnsubmitted'
    BY <1>2, <2>1, <2>8 DEF ExportInv, WaitingIsUnsubmitted
  <2>10. \A x \in Exports : Flagged(x) => Flagged(x)'
    BY <1>2, <2>1, <2>8 DEF Flagged, Output!Exists
  <2>11. \A x \in Exports : Output!Exists(x)' <=> Output!Exists(x)
    BY <2>1 DEF Output!Exists
  <2>12. RowsAreFlagged'
    <3> HIDE DEF Flagged
    <3> QED  BY <1>2, <2>4, <2>8, <2>10, <2>11 DEF ExportInv, RowsAreFlagged
  <2>13. ASSUME NEW x \in Exports, Output!Terminal(x)'
         PROVE  export'[x].audited \/ \E u \in Output!Threads : Output!Step("finish", x) \in All(u)'
    <3>1. Output!Terminal(x)
      BY <2>1, <2>13 DEF Output!Terminal
    <3>2. CASE x = e
      BY <1>6, <2>1, <3>1, <3>2 DEF Output!Terminal, Output!Finished, Output!Exists
    <3>3. CASE x # e
      <4>1. ASSUME NEW u \in Output!Threads, Output!Step("finish", x) \in All(u)
            PROVE  Output!Step("finish", x) \in All(u)'
        BY <1>4, <2>2, <3>3, <4>1, FinishStays
      <4> QED  BY <2>1, <3>1, <4>1, AuditsStand
    <3> QED  BY <3>2, <3>3
  <2>14. AuditedOnce'
    BY <2>5, <2>12, <2>13, AuditsFollow DEF ExportTypes
  <2> QED  BY <2>3, <2>5, <2>6, <2>7, <2>9, <2>12, <2>14 DEF ExportInv
<1> QED  BY <1>5, <1>6

LEMMA WriteRowStep ==
  ASSUME ExportInv, NEW t \in Output!Threads, NEW e \in Exports, Output!WriteRow(t, e)
  PROVE  ExportInv'
<1>1. agenda[t] # <<>> /\ Head(agenda[t]).do = "row" /\ Output!Doing(t, "row", e)
  BY AtStep DEF Output!WriteRow
<1>2. UNCHANGED <<decision, proposed, job, overwrite, exportApproval>> /\ UNCHANGED FolderVars /\ Output!Then(t, <<>>)
  BY DEF Output!WriteRow, FolderVars, Output!authority, Output!folder, Output!records, Output!jobs, Output!threads
<1>3. exportApproval' \in [Exports -> ApprovalStates] /\ Stable
  BY <1>2 DEF Stable, ExportInv, ExportTypes, ApprovalStates
<1>4. Goes
  BY <1>1, <1>2, <1>3, ThenNothingGoes
<1>5. ~Output!Doing(t, "row", e)'
  BY <1>1, <1>2, ThenNothing, MovesTo DEF ExportInv
<1>6. rows[e] = 0 /\ Flagged(e) /\ \A u \in Output!Threads : Output!Doing(u, "row", e) => u = t
  BY <1>1 DEF ExportInv, RowsAreFlagged
<1>7. export \in [Exports -> ExportRecords]
  BY DEF ExportInv, ExportTypes, ExportRecords
<1>8. ASSUME NEW marked \in [Exports -> ExportRecords], Output!RememberTerminal(e, marked),
             marked = export \/ (Output!Exists(e) /\ marked = [export EXCEPT ![e].state = "recovery"])
      PROVE  RecordsGoOn(t) /\ export' \in [Exports -> ExportRecords]
  <2>1. PICK V : export' = [x \in Exports |-> IF x \in V THEN Output!NoRecord ELSE marked[x]]
    BY <1>8 DEF Output!RememberTerminal
  <2>2. Output!NoRecord \in ExportRecords /\ Output!NoRecord.state = "none" /\ ~Output!NoRecord.submitted
    BY DEF Output!NoRecord, ExportRecords, ExportStates
  <2>3. ASSUME NEW x \in Exports
        PROVE  /\ marked[x].audited = export[x].audited /\ marked[x].submitted = export[x].submitted
               /\ x # e \/ marked = export => marked[x].state = export[x].state
               /\ x = e /\ marked # export => marked[x].state = "recovery" /\ Output!Exists(e)
    BY <1>7, <1>8 DEF ExportRecords
  <2>4. export' \in [Exports -> ExportRecords]
    <3> HIDE DEF ExportRecords
    <3> QED  BY <2>1, <2>2
  <2>5. RecordsGoOn(t)
    <3> SUFFICES ASSUME NEW x \in Exports
                 PROVE  \/ export'[x].state = "none" /\ (export'[x].submitted => export[x].submitted)
                        \/ /\ export'[x].audited = export[x].audited /\ Output!Exists(x)
                           /\ export'[x].state = "awaiting" =>
                                 export[x].state = "awaiting" /\ export'[x].submitted = export[x].submitted
                           /\ Output!Terminal(x)' =>
                                 Output!Terminal(x) \/ export'[x].audited \/ Output!Step("finish", x) \in All(t)'
      BY DEF RecordsGoOn
    <3>1. CASE x \in V
      BY <2>1, <2>2, <3>1
    <3>2. CASE x \notin V
      <4>1. export'[x] = marked[x]
        BY <2>1, <3>2
      <4>2. CASE x # e \/ marked = export
        BY <2>3, <4>1, <4>2 DEF Output!Exists, Output!Terminal
      <4>3. CASE x = e /\ marked # export
        <5>1. export[e].audited
          BY <1>6, <2>3, <4>3 DEF Flagged
        <5> QED  BY <2>3, <4>1, <4>3, <5>1
      <4> QED  BY <4>2, <4>3
    <3> QED  BY <3>1, <3>2
  <2> QED  BY <2>4, <2>5
<1>9. Output!Exists(e) => [export EXCEPT ![e].state = "recovery"] \in [Exports -> ExportRecords]
  BY <1>7 DEF ExportRecords, ExportStates, Output!Finished
<1>10. RecordsGoOn(t) /\ export' \in [Exports -> ExportRecords]
  <2>1. CASE Output!RememberTerminal(e, export)
    BY <1>7, <1>8, <2>1
  <2>2. CASE Output!RememberTerminal(e, IF Output!Exists(e) THEN [export EXCEPT ![e].state = "recovery"] ELSE export)
    <3>1. CASE Output!Exists(e)
      <4>1. Output!RememberTerminal(e, [export EXCEPT ![e].state = "recovery"])
        BY <2>2, <3>1
      <4> QED  BY <1>8, <1>9, <3>1, <4>1
    <3>2. CASE ~Output!Exists(e)
      <4>1. Output!RememberTerminal(e, export)
        BY <2>2, <3>2
      <4> QED  BY <1>7, <1>8, <4>1
    <3> QED  BY <3>1, <3>2
  <2> QED  BY <2>1, <2>2 DEF Output!WriteRow
<1>11. CASE rows' = rows
  BY <1>2, <1>3, <1>4, <1>10, <1>11, RecordsChange
<1>12. CASE rows' = [rows EXCEPT ![e] = @ + 1]
  <2>1. rows' \in [Exports -> Nat] /\ rows'[e] = 1 /\ \A x \in Exports : x # e => rows'[x] = rows[x]
    BY <1>6, <1>12 DEF ExportInv, ExportTypes
  <2>2. ExportTypes'
    BY <1>2, <1>3, <1>4, <1>10, <2>1 DEF ExportInv, ExportTypes, ExportRecords, Goes, FolderVars, ApprovalStates
  <2>3. RecordsAreProposed'
    <3>1. proposed[e]
      BY <1>6 DEF Flagged
    <3> QED  BY <1>2, <1>10, <2>1, <3>1 DEF ExportInv, RecordsAreProposed, RecordsGoOn, Output!Exists
  <2>4. StartedAsDecided'
    BY <1>2 DEF ExportInv, StartedAsDecided, Output!StartedAsDecided
  <2>5. ASSUME NEW x \in Exports
        PROVE  (Inserting(x)' => Inserting(x)) /\ (Flagged(x) => Flagged(x)')
    <3>1. Inserting(x)' => Inserting(x)
      BY <1>4 DEF Goes, AgendasGoOn, Inserting
    <3>2. Flagged(x) => (export'[x].audited \/ export'[x].state = "none") /\ proposed'[x]
      BY <1>2, <1>10 DEF Flagged, RecordsGoOn, Output!Exists
    <3> QED  BY <3>1, <3>2 DEF Flagged, Output!Exists
  <2>6. \A u \in Output!Threads, x \in Exports : Output!Doing(u, "row", x)' => Output!Doing(u, "row", x) /\ x # e
    BY <1>4, <1>5, <1>6 DEF Goes, AgendasGoOn
  <2>7. \A x \in Exports : Inserting(x)' => ~Output!Exists(x)'
    BY <1>10, <2>5 DEF ExportInv, RowsAreFlagged, RecordsGoOn, Output!Exists
  <2>8. RowsAreFlagged'
    <3> SUFFICES ASSUME NEW x \in Exports
                 PROVE  /\ rows'[x] \in {0, 1} /\ (rows'[x] = 1 => Flagged(x)')
                        /\ \A u \in Output!Threads :
                              Output!Doing(u, "row", x)' =>
                                 /\ rows'[x] = 0 /\ Flagged(x)'
                                 /\ \A v \in Output!Threads : Output!Doing(v, "row", x)' => v = u
      BY <2>7 DEF RowsAreFlagged
    <3> HIDE DEF Inserting, Flagged
    <3> QED  BY <1>6, <2>1, <2>5, <2>6 DEF ExportInv, RowsAreFlagged
  <2> QED  BY <1>3, <1>4, <1>10, <2>2, <2>3, <2>4, <2>8, Carried DEF Goes
<1> QED  BY <1>11, <1>12 DEF Output!WriteRow

--------------------------------------------------------------------------------
(* The invariant of the exports.                                           *)

LEMMA ExportInitInv ==
  ASSUME Output!ExportInit
  PROVE  ExportInv
<1>1. agenda = [t \in Output!Threads |-> <<>>]
  BY DEF Output!ExportInit
<1>2. ExportTypes
  BY <1>1 DEF Output!ExportInit, ExportTypes, Output!NoRecord, ExportStates, Output!Decisions, Output!JobStates
<1>3. \A t \in Output!Threads : All(t) = {} /\ Later(t) = {}
  BY <1>1 DEF All, Later, Of, Rest
<1>4. AgendasAreInOrder /\ StepsAreLegit
  BY <1>3, TheThreads DEF AgendasAreInOrder, StepsAreLegit
<1>5. \A t \in Output!Threads : \A do, e : ~Output!Doing(t, do, e)
  BY <1>1 DEF Output!Doing
<1>6. \A e \in Exports : /\ ~Output!Exists(e) /\ ~Output!Terminal(e) /\ ~export[e].submitted
                        /\ job[e] = "none" /\ rows[e] = 0 /\ e \notin overwrite
  BY DEF Output!ExportInit, Output!Exists, Output!Terminal, Output!NoRecord, Output!Finished
<1>7. RecordsAreProposed /\ StartedAsDecided
  BY <1>6 DEF RecordsAreProposed, StartedAsDecided, Output!StartedAsDecided
<1>8. WaitingIsUnsubmitted
  BY <1>2, <1>6 DEF WaitingIsUnsubmitted
<1>9. RowsAreFlagged
  BY <1>5, <1>6 DEF RowsAreFlagged, Inserting
<1>10. AuditedOnce
  BY <1>6 DEF AuditedOnce, Output!AuditedOnce
<1> QED  BY <1>2, <1>4, <1>7, <1>8, <1>9, <1>10 DEF ExportInv

LEMMA ExportStep ==
  ASSUME ExportInv, Output!ExportNext
  PROVE  ExportInv'
<1>1. ASSUME NEW e \in Exports,
             \/ Output!Propose(e) \/ Output!DecideApproval(e) \/ Output!JobEnds(e) \/ Output!Forget(e)
             \/ Output!Watch(e) \/ Output!Poll(e) \/ Output!AskStatus(e) \/ Output!CancelExport(e) \/ Output!Release(e)
      PROVE  ExportInv'
  BY <1>1, ProposeStep, OutsideStep, JobEndsStep, WatchStep, PollStep, AskStatusStep, CancelExportStep, ReleaseStep
<1>2. ASSUME NEW t \in Output!Threads, NEW e \in Exports,
             \/ Output!Insert(t, e) \/ Output!Enter(t, e) \/ Output!Look(t, e) \/ Output!Take(t, e)
             \/ Output!Check(t, e) \/ Output!Submit(t, e) \/ Output!Register(t, e) \/ Output!Fail(t, e)
             \/ Output!Finish(t, e) \/ Output!WriteRow(t, e) \/ Output!Read(t, e) \/ Output!Apply(t, e)
             \/ Output!Kill(t, e)
      PROVE  ExportInv'
  BY <1>2, InsertStep, EnterStep, LookStep, TakeStep, CheckStep, SubmitStep, RegisterStep, FailStep, FinishStep,
     WriteRowStep, ReadStep, ApplyStep, KillStep
<1>3. ASSUME NEW t \in Output!Threads, Output!LeaveLane(t)  PROVE ExportInv'
  BY <1>3, LeaveLaneStep
<1>4. ASSUME NEW c \in {Owner}, Output!LoseLease(c)  PROVE ExportInv'
  BY <1>4, LoseLeaseStep
<1>5. ASSUME NEW c, Output!Clean(c)  PROVE ExportInv'
  BY <1>5, CleanStep
<1>6. ASSUME Output!ChangeFolder \/ Output!ChangeContents \/ Output!CloseProject \/ Output!Close  PROVE ExportInv'
  BY <1>6, ChangeFolderStep, OutsideStep, CloseProjectStep, CloseStep
<1> QED  BY <1>1, <1>2, <1>3, <1>4, <1>5, <1>6 DEF Output!ExportNext

LEMMA ExportStutter ==
  ASSUME ExportInv, UNCHANGED exportVars
  PROVE  ExportInv'
<1>1. UNCHANGED RecordVars /\ UNCHANGED FolderVars /\ UNCHANGED exportApproval /\ agenda' = agenda
  BY DEF exportVars, RecordVars, FolderVars
<1>2. exportApproval' \in [Exports -> ApprovalStates] /\ Stable
  BY <1>1 DEF Stable, RecordVars, ExportInv, ExportTypes, ApprovalStates
<1>3. Goes
  BY <1>1, <1>2, StandingGoes
<1> QED  BY <1>1, <1>2, <1>3, StandingRecords

LEMMA ExportInvariant == AgentsSpec => []ExportInv
<1>1. AgentsInit => ExportInv
  BY ExportInitInv DEF AgentsInit
<1>2. ExportInv /\ [AgentsNext]_vars => ExportInv'
  BY ExportStep, ExportStutter DEF AgentsNext, vars
<1> QED  BY <1>1, <1>2, PTL DEF AgentsSpec

\* An export that was started is what was decided: it was delegated, or an approval was
\* used up for it, and files are replaced exactly when a typed confirmation allowed that,
\* whatever happens to the folder, the approval and the connection meanwhile
\* (agent_exports.rs, start_locked).  Besides the records it takes what every thread has
\* yet to do: a start on an agenda has its authority, and no decision changes under it.
THEOREM StartsAreAsDecided == AgentsSpec => []StartedAsDecided
<1>1. ExportInv => StartedAsDecided
  BY DEF ExportInv
<1> QED  BY <1>1, ExportInvariant, PTL

\* An export gets at most one audit row, and one that is at its end is audited or has a
\* thread that is about to, however many threads find it there (agent_exports.rs,
\* finish_terminal).  What carries it: the flag is set before the row, by one thread, and
\* only the cleaner, which is never interrupted, has an export to finish later.
THEOREM AuditsHappenOnce == AgentsSpec => []AuditedOnce
<1>1. ExportInv => AuditedOnce
  BY DEF ExportInv
<1> QED  BY <1>1, ExportInvariant, PTL

--------------------------------------------------------------------------------
(* Exports and the authority they run on.                                  *)

\* What may come behind a step in an agenda: a thread that has left the lane takes it no
\* more, a start is not followed by another.
Precedes(a, b) ==
    /\ a = "leave" => b \in {"fail", "look", "read", "close"}
    /\ a = "look" => b = "read"
    /\ a # "insert"
    /\ a = "clean" => b = "close"
    /\ a = "kill" => b \in {"kill", "finish", "leave", "look", "read", "close"}
    /\ a \in {"take", "check", "submit", "replace", "register"} => b \in {"leave", "look", "read"}

Sorted(p) == \A i, j \in 1..Len(p) : i < j => Precedes(p[i].do, p[j].do)
AgendasAreSorted == \A t \in Output!Threads : Sorted(agenda[t])

Does(t, do) == \E s \in All(t) : s.do = do
Has(t, do, e) == \E s \in All(t) : s.do = do /\ s.of = e

\* Who has yet to leave the lane holds it, once it has entered; a start and a request to
\* the coordinator are made in the lane.
StartSteps == {"take", "check", "submit", "replace", "register"}
NeedsLane == StartSteps \cup {"kill"}
LaneIsHeld ==
    \A t \in Output!Threads :
        /\ Does(t, "leave") /\ ~Does(t, "enter") => exportLane = t
        /\ (\E do \in NeedsLane : Does(t, do)) => Does(t, "leave")

\* An export that runs and was not told to stop; one that does not, and is not about to;
\* one that never will again; one that waits for an answer that does not come any more.
Live(e) == job[e] = "running" /\ e \notin killed
Starting(t, e) == \E do \in StartSteps : Has(t, do, e)
Calm(e) ==
    /\ ~Live(e) /\ proposed[e] /\ ~Inserting(e)
    /\ \A t \in Output!Threads, do \in {"check", "submit", "replace"} : ~Has(t, do, e)
Over(e) == Calm(e) /\ (export[e].snapshot => export[e].state \notin {"queued", "awaiting"})
Unwatched(e) == Output!Watcher(e) \notin alive /\ agenda[Output!Watcher(e)] = <<>>
Lapsed(t, e) ==
    /\ Calm(e) /\ export[e].state = "awaiting" /\ \A u \in Output!Threads : ~Starting(u, e)
    /\ Owner \notin leased \/ exportApproval[e] \in {"denied", "expired"} \/ (t = Output!Agent(Owner) /\ Unwatched(e))

\* What a step on t's agenda relies on: what ends a record finds no export under way.
Sound(t, s) ==
    /\ s.do \notin {"insert", "leave", "clean", "close"} => s.of \in Exports /\ proposed[s.of] /\ ~Inserting(s.of)
    /\ s.do = "look" => t \in {Output!Agent(Owner), Output!Watcher(s.of)}
    /\ s.do \in {"finish", "row"} => Over(s.of)
    /\ s.do = "apply" /\ s.saw # "running" => Over(s.of)
    /\ s.do = "apply" /\ Output!Exists(s.of) => export[s.of].submitted
    /\ s.do = "fail" => Over(s.of) \/ Lapsed(t, s.of)
StepsAreSound == \A t \in Output!Threads : \A s \in All(t) : Sound(t, s)

\* Only a delegated export enters the lane with its start ahead.
EntersDelegated ==
    \A t \in Output!Threads, e \in Exports : Does(t, "enter") /\ Has(t, "take", e) => decision[e] = "delegated"

\* An export starts once: one thread is at it, the coordinator has it when the start is
\* past the coordinator, and a delegated one is started by the agent itself.
StartsOnce(e) ==
    /\ \A t, u \in Output!Threads : Starting(t, e) /\ Starting(u, e) => t = u
    /\ \A t \in Output!Threads :
          /\ Has(t, "register", e) => job[e] # "none"
          /\ \A do \in StartSteps \ {"register"} : Has(t, do, e) => job[e] = "none"
          /\ \A do \in StartSteps \ {"take"} : Has(t, do, e) => ~export[e].snapshot
          /\ Starting(t, e) /\ decision[e] = "delegated" => t = Output!Agent(Owner)
    /\ job[e] # "none" => ~export[e].snapshot /\ ~Inserting(e)
    /\ export[e].submitted => job[e] # "none"
    /\ e \in forgotten => job[e] \notin {"none", "running"}

\* What the state of a record says of its export.
StatesAreTrue(e) ==
    /\ export[e].state = "awaiting" => decision[e] # "delegated"
    /\ ~Output!Active(e) /\ proposed[e] /\ ~Inserting(e) => Over(e)
    /\ export[e].state \in {"queued", "running"} /\ ~export[e].submitted =>
          \E do \in StartSteps \cup {"fail"} : Has(Output!Agent(Owner), do, e)
    /\ ~Unwatched(e) => proposed[e] /\ ~Inserting(e)

\* What runs has the authority it was checked for, or the cleaner is at it.
Trusted(e) == Owner \in leased /\ export[e].revision = revision
Cleaning == Does(Output!Cleaner, "clean")
RunsAreWatched(e) ==
    /\ (\E t \in Output!Threads : Has(t, "submit", e) \/ Has(t, "replace", e)) => Trusted(e) \/ Cleaning
    /\ Live(e) => /\ open
                  /\ export[e].submitted \/ \E t \in Output!Threads : Has(t, "register", e)
                  /\ Trusted(e) \/ Cleaning \/ Has(Output!Cleaner, "kill", e)

RecordIsSound(e) == StartsOnce(e) /\ StatesAreTrue(e) /\ RunsAreWatched(e)
OrderIsOver == order \in Seq(Exports) /\ \A n \in 1..Len(order) : Over(order[n])

OwnerInv ==
    /\ AgendasAreSorted /\ LaneIsHeld /\ StepsAreSound /\ EntersDelegated /\ OrderIsOver
    /\ \A e \in Exports : RecordIsSound(e)

--------------------------------------------------------------------------------
(* Agendas, in order.                                                      *)

\* A thread's steps become those of P and K, the other threads' stay.
Turns(t, P, K) ==
    /\ All(t)' = P \cup K /\ AgendasAreSorted'
    /\ \A u \in Output!Threads : u # t => agenda'[u] = agenda[u] /\ All(u)' = All(u)

LEMMA NoSteps ==
  ASSUME NEW t, agenda[t] = <<>>
  PROVE  All(t) = {} /\ Later(t) = {}
BY DEF All, Later, Of, Rest

LEMMA LaterIsPart ==
  ASSUME NEW t
  PROVE  Later(t) \subseteq All(t)
BY DEF All, Later, Of, Rest

LEMMA FirstPrecedes ==
  ASSUME ExportInv, AgendasAreSorted, NEW t \in Output!Threads, agenda[t] # <<>>
  PROVE  \A s \in Later(t) : Precedes(Head(agenda[t]).do, s.do)
<1>1. agenda[t] \in Seq(Steps) /\ Sorted(agenda[t])
  BY DEF ExportInv, ExportTypes, AgendasAreSorted
<1> SUFFICES ASSUME NEW p \in Seq(Steps), p # <<>>, Sorted(p), NEW n \in 2..Len(p)
             PROVE  Precedes(Head(p).do, p[n].do)
  BY <1>1 DEF Later, Rest
<1>2. 1 \in 1..Len(p) /\ n \in 1..Len(p) /\ 1 < n /\ Head(p) = p[1]
  OBVIOUS
<1> QED  BY <1>2 DEF Sorted

LEMMA AppendedSorted ==
  ASSUME NEW p \in Seq(Steps), NEW r \in Seq(Steps), r # <<>>, Sorted(p), Sorted(r),
         \A a \in Of(p), b \in Rest(r) : Precedes(a.do, b.do)
  PROVE  Sorted(p \o Tail(r))
<1> DEFINE q == p \o Tail(r)
<1>1. /\ q \in Seq(Steps) /\ Len(q) = Len(p) + Len(r) - 1
      /\ \A n \in 1..Len(p) : q[n] = p[n]
      /\ Len(p) \in Nat /\ Len(r) \in Nat \ {0}
      /\ \A n \in 1..Len(q) : n > Len(p) => q[n] = r[n - Len(p) + 1]
  OBVIOUS
<1> HIDE DEF q
<1> SUFFICES ASSUME NEW i \in 1..Len(q), NEW j \in 1..Len(q), i < j
             PROVE  Precedes(q[i].do, q[j].do)
  BY DEF Sorted, q
<1>2. CASE j <= Len(p)
  <2>1. i \in 1..Len(p) /\ j \in 1..Len(p) /\ q[i] = p[i] /\ q[j] = p[j]
    BY <1>1, <1>2
  <2> QED  BY <2>1 DEF Sorted
<1>3. CASE i <= Len(p) /\ j > Len(p)
  <2>1. i \in 1..Len(p) /\ q[i] = p[i] /\ q[j] = r[j - Len(p) + 1] /\ j - Len(p) + 1 \in 2..Len(r)
    BY <1>1, <1>3
  <2>2. q[i] \in Of(p) /\ q[j] \in Rest(r)
    BY <2>1 DEF Of, Rest
  <2> QED  BY <2>2
<1>4. CASE i > Len(p)
  <2> DEFINE a == i - Len(p) + 1
             b == j - Len(p) + 1
  <2>1. q[i] = r[a] /\ q[j] = r[b] /\ a \in 1..Len(r) /\ b \in 1..Len(r) /\ a < b
    BY <1>1, <1>4
  <2> HIDE DEF a, b
  <2> QED  BY <2>1 DEF Sorted
<1> QED  BY <1>1, <1>2, <1>3, <1>4

LEMMA ThenTurns ==
  ASSUME ExportInv, AgendasAreSorted, NEW t \in Output!Threads, agenda[t] # <<>>, NEW p \in Seq(Steps), Sorted(p),
         \A a \in Of(p), b \in Later(t) : Precedes(a.do, b.do), Output!Then(t, p)
  PROVE  Turns(t, Of(p), Later(t))
<1>1. agenda \in [Output!Threads -> Seq(Steps)] /\ agenda' = [agenda EXCEPT ![t] = p \o Tail(agenda[t])]
  BY DEF ExportInv, ExportTypes, Output!Then
<1>2. agenda'[t] = p \o Tail(agenda[t]) /\ \A u \in Output!Threads : u # t => agenda'[u] = agenda[u]
  BY <1>1
<1>3. agenda[t] \in Seq(Steps) /\ Sorted(agenda[t])
  BY <1>1 DEF AgendasAreSorted
<1>4. Of(p \o Tail(agenda[t])) = Of(p) \cup Later(t)
  <2>1. CASE p = <<>>
    <3>1. Of(p) = {}
      BY <2>1 DEF Of
    <3> QED  BY <1>3, <2>1, <3>1, Appended DEF Later
  <2>2. CASE p # <<>>
    BY <1>3, <2>2, Appended DEF Later
  <2> QED  BY <2>1, <2>2
<1>5. Sorted(p \o Tail(agenda[t]))
  BY <1>3, AppendedSorted DEF Later
<1> QED  BY <1>2, <1>4, <1>5 DEF Turns, All, AgendasAreSorted

LEMMA BeginTurns ==
  ASSUME ExportInv, AgendasAreSorted, NEW t \in Output!Threads, NEW p \in Seq(Steps), Sorted(p), Output!Begin(t, p)
  PROVE  Turns(t, Of(p), {})
<1>1. agenda \in [Output!Threads -> Seq(Steps)] /\ agenda' = [agenda EXCEPT ![t] = p]
  BY DEF ExportInv, ExportTypes, Output!Begin
<1>2. agenda'[t] = p /\ \A u \in Output!Threads : u # t => agenda'[u] = agenda[u]
  BY <1>1
<1> QED  BY <1>2 DEF Turns, All, AgendasAreSorted

LEMMA NothingTurns ==
  ASSUME AgendasAreSorted, agenda' = agenda, NEW t \in Output!Threads
  PROVE  Turns(t, {}, All(t))
BY DEF Turns, All, AgendasAreSorted

\* The agendas that are begun.
LEMMA SortedOne ==
  ASSUME NEW a \in Steps
  PROVE  Sorted(<<a>>) /\ <<a>> \in Seq(Steps) /\ Of(<<a>>) = {a}
<1>1. Len(<<a>>) = 1
  OBVIOUS
<1>2. \A i, j \in 1..1 : ~(i < j)
  OBVIOUS
<1> QED  BY <1>1, <1>2, LiteralOne DEF Sorted

LEMMA SortedTwo ==
  ASSUME NEW a \in Steps, NEW b \in Steps, Precedes(a.do, b.do)
  PROVE  Sorted(<<a, b>>) /\ <<a, b>> \in Seq(Steps) /\ Of(<<a, b>>) = {a, b}
<1>1. Len(<<a, b>>) = 2 /\ <<a, b>>[1] = a /\ <<a, b>>[2] = b
  OBVIOUS
<1>2. \A i, j \in 1..2 : i < j => i = 1 /\ j = 2
  OBVIOUS
<1> QED  BY <1>1, <1>2, LiteralTwo DEF Sorted

LEMMA SortedThree ==
  ASSUME NEW a \in Steps, NEW b \in Steps, NEW c \in Steps,
         Precedes(a.do, b.do), Precedes(a.do, c.do), Precedes(b.do, c.do)
  PROVE  Sorted(<<a, b, c>>) /\ <<a, b, c>> \in Seq(Steps) /\ Of(<<a, b, c>>) = {a, b, c}
<1> DEFINE p == <<a, b, c>>
<1>1. Len(p) = 3 /\ p[1] = a /\ p[2] = b /\ p[3] = c /\ p \in Seq(Steps)
  OBVIOUS
<1>2. \A i, j \in 1..3 : i < j => (i = 1 /\ j = 2) \/ (i = 1 /\ j = 3) \/ (i = 2 /\ j = 3)
  OBVIOUS
<1>3. Of(p) = {a, b, c}
  BY LiteralThree
<1> HIDE DEF p
<1>4. Sorted(p)
  BY <1>1, <1>2 DEF Sorted
<1> QED  BY <1>1, <1>3, <1>4 DEF p

LEMMA SortedFour ==
  ASSUME NEW a \in Steps, NEW b \in Steps, NEW c \in Steps, NEW d \in Steps,
         \A y \in {b, c, d} : Precedes(a.do, y.do), \A y \in {c, d} : Precedes(b.do, y.do), Precedes(c.do, d.do)
  PROVE  Sorted(<<a, b, c, d>>) /\ <<a, b, c, d>> \in Seq(Steps) /\ Of(<<a, b, c, d>>) = {a, b, c, d}
<1> DEFINE p == <<a, b, c, d>>
<1>1. Len(p) = 4 /\ p[1] = a /\ p[2] = b /\ p[3] = c /\ p[4] = d /\ p \in Seq(Steps)
  OBVIOUS
<1>2. \A i, j \in 1..4 : i < j => (i = 1 /\ j \in {2, 3, 4}) \/ (i = 2 /\ j \in {3, 4}) \/ (i = 3 /\ j = 4)
  OBVIOUS
<1>3. Of(p) = {a, b, c, d}
  BY LiteralFour
<1> HIDE DEF p
<1>4. Sorted(p)
  BY <1>1, <1>2 DEF Sorted
<1> QED  BY <1>1, <1>3, <1>4 DEF p

LEMMA SortedFive ==
  ASSUME NEW a \in Steps, NEW b \in Steps, NEW c \in Steps, NEW d \in Steps, NEW e \in Steps,
         \A y \in {b, c, d, e} : Precedes(a.do, y.do), \A y \in {c, d, e} : Precedes(b.do, y.do),
         \A y \in {d, e} : Precedes(c.do, y.do), Precedes(d.do, e.do)
  PROVE  Sorted(<<a, b, c, d, e>>) /\ <<a, b, c, d, e>> \in Seq(Steps) /\ Of(<<a, b, c, d, e>>) = {a, b, c, d, e}
<1> DEFINE p == <<a, b, c, d, e>>
<1>1. Len(p) = 5 /\ p[1] = a /\ p[2] = b /\ p[3] = c /\ p[4] = d /\ p[5] = e /\ p \in Seq(Steps)
  OBVIOUS
<1>2. \A i, j \in 1..5 : i < j => \/ (i = 1 /\ j \in {2, 3, 4, 5}) \/ (i = 2 /\ j \in {3, 4, 5})
                                  \/ (i = 3 /\ j \in {4, 5}) \/ (i = 4 /\ j = 5)
  OBVIOUS
<1>3. Of(p) = {a, b, c, d, e}
  BY LiteralFive
<1> HIDE DEF p
<1>4. Sorted(p)
  BY <1>1, <1>2 DEF Sorted
<1> QED  BY <1>1, <1>3, <1>4 DEF p

LEMMA HasBefore ==
  ASSUME NEW t \in Output!Threads, NEW P, NEW K, Turns(t, P, K), K \subseteq All(t), NEW u \in Output!Threads
  PROVE  /\ \A do, e : Has(u, do, e)' => Has(u, do, e) \/ (u = t /\ \E s \in P : s.do = do /\ s.of = e)
         /\ \A do : Does(u, do)' => Does(u, do) \/ (u = t /\ \E s \in P : s.do = do)
<1>1. CASE u = t
  <2>1. All(t)' \subseteq P \cup All(t)
    BY DEF Turns
  <2> QED  BY <1>1, <2>1 DEF Has, Does
<1>2. CASE u # t
  <2>1. All(u)' = All(u)
    BY <1>2 DEF Turns
  <2> QED  BY <2>1 DEF Has, Does
<1> QED  BY <1>1, <1>2

\* A record to insert is the step at hand.
LEMMA InsertComesFirst ==
  ASSUME NEW p \in Seq(Steps), \A s \in Rest(p) : s.do # "insert", NEW e
  PROVE  (p # <<>> /\ Head(p).do = "insert" /\ Head(p).of = e) <=> \E s \in Of(p) : s.do = "insert" /\ s.of = e
<1>1. CASE p = <<>>
  BY <1>1 DEF Of
<1>2. CASE p # <<>>
  <2>1. Of(p) = {p[1]} \cup Rest(p) /\ Head(p) = p[1]
    BY <1>2, FirstAndRest
  <2> QED  BY <1>2, <2>1
<1> QED  BY <1>1, <1>2

LEMMA InsertingHas ==
  ASSUME ExportInv, ExportInv', NEW e
  PROVE  /\ Inserting(e) <=> \E u \in Output!Threads : Has(u, "insert", e)
         /\ Inserting(e)' <=> \E u \in Output!Threads : Has(u, "insert", e)'
<1>1. ASSUME NEW u \in Output!Threads  PROVE Output!Doing(u, "insert", e) <=> Has(u, "insert", e)
  <2>1. agenda[u] \in Seq(Steps) /\ \A s \in Rest(agenda[u]) : s.do # "insert"
    BY DEF ExportInv, ExportTypes, AgendasAreInOrder, Later
  <2> QED  BY <2>1, InsertComesFirst DEF Output!Doing, Has, All
<1>2. ASSUME NEW u \in Output!Threads  PROVE Output!Doing(u, "insert", e)' <=> Has(u, "insert", e)'
  <2>1. agenda'[u] \in Seq(Steps) /\ \A s \in Rest(agenda'[u]) : s.do # "insert"
    BY DEF ExportInv, ExportTypes, AgendasAreInOrder, Later
  <2> QED  BY <2>1, InsertComesFirst DEF Output!Doing, Has, All
<1> QED  BY <1>1, <1>2 DEF Inserting

--------------------------------------------------------------------------------
(* What stands still for an export, whatever else happens.                 *)

StillSteps(e) ==
    /\ Inserting(e)' <=> Inserting(e)
    /\ \A u \in Output!Threads, do \in StartSteps : Has(u, do, e)' => Has(u, do, e)
    /\ \A u \in Output!Threads : Has(u, "register", e) => Has(u, "register", e)' \/ Over(e)
    /\ (\E do \in StartSteps \cup {"fail"} : Has(Output!Agent(Owner), do, e))
          => \/ \E do \in StartSteps \cup {"fail"} : Has(Output!Agent(Owner), do, e)'
             \/ export'[e].state \notin {"queued", "running"}
    /\ Has(Output!Cleaner, "kill", e) => Has(Output!Cleaner, "kill", e)' \/ ~Live(e)'
    /\ Unwatched(e) => Unwatched(e)'

StillJob(e) ==
    /\ proposed'[e] = proposed[e] /\ decision'[e] = decision[e]
    /\ job'[e] = job[e] \/ (job[e] = "running" /\ job'[e] \notin {"none", "running"})
    /\ e \in killed => e \in killed'
    /\ e \in forgotten' => e \in forgotten \/ job'[e] \notin {"none", "running"}
    /\ exportApproval[e] \in {"denied", "expired"} => exportApproval'[e] = exportApproval[e]

StillRecord(e) ==
    /\ export'[e].state \in {"queued", "awaiting"} => export'[e].state = export[e].state
    /\ export'[e].snapshot => export[e].snapshot
    /\ \/ export'[e].submitted = export[e].submitted
       \/ export'[e].state = "none" /\ ~export'[e].submitted /\ Over(e)
    /\ export'[e].revision = export[e].revision \/ Over(e)
    /\ Output!Active(e) /\ ~Output!Active(e)' => Calm(e)
    /\ export'[e].state = "running" => export[e].state = "running" \/ export'[e].submitted
    /\ Output!Exists(e)' => Output!Exists(e)

Still(e) == StillSteps(e) /\ StillJob(e) /\ StillRecord(e)

LEMMA StillStands ==
  ASSUME NEW e \in Exports, Still(e), leased' \subseteq leased
  PROVE  /\ Live(e)' => Live(e)
         /\ Calm(e) => Calm(e)'
         /\ Over(e) => Over(e)'
         /\ \A t \in Output!Threads : Lapsed(t, e) => Lapsed(t, e)' \/ Over(e)'
<1>1. Live(e)' => Live(e)
  BY DEF Still, StillJob, Live
<1>2. Calm(e) => Calm(e)'
  BY <1>1 DEF Still, StillJob, StillSteps, Calm, StartSteps
<1>3. Over(e) => Over(e)'
  BY <1>2 DEF Still, StillRecord, Over
<1>4. ASSUME NEW t \in Output!Threads, Lapsed(t, e)  PROVE Lapsed(t, e)' \/ Over(e)'
  <2>1. Calm(e)' /\ \A u \in Output!Threads : ~Starting(u, e)'
    BY <1>2, <1>4 DEF Lapsed, Starting, Still, StillSteps
  <2>2. CASE export'[e].state = "awaiting"
    <3>1. Owner \notin leased' \/ exportApproval'[e] \in {"denied", "expired"} \/ (t = Output!Agent(Owner) /\ Unwatched(e)')
      BY <1>4 DEF Lapsed, Still, StillSteps, StillJob
    <3> QED  BY <2>1, <2>2, <3>1 DEF Lapsed
  <2>3. CASE export'[e].state # "awaiting"
    <3>1. export'[e].state # "queued"
      BY <1>4, <2>3 DEF Lapsed, Still, StillRecord
    <3> QED  BY <2>1, <2>3, <3>1 DEF Over
  <2> QED  BY <2>2, <2>3
<1> QED  BY <1>1, <1>2, <1>3, <1>4

LEMMA StillStartsOnce ==
  ASSUME NEW e \in Exports, Still(e), StartsOnce(e)
  PROVE  StartsOnce(e)'
<1>1. \A u \in Output!Threads, do \in StartSteps : Has(u, do, e)' => Has(u, do, e)
  BY DEF Still, StillSteps
<1>2. \A u \in Output!Threads : Starting(u, e)' => Starting(u, e)
  BY <1>1 DEF Starting
<1>3. (job'[e] = "none" <=> job[e] = "none") /\ decision'[e] = decision[e]
  BY DEF Still, StillJob
<1>4. (export'[e].snapshot => export[e].snapshot) /\ (export'[e].submitted => export[e].submitted)
  BY DEF Still, StillRecord
<1>5. Inserting(e)' => Inserting(e)
  BY DEF Still, StillSteps
<1>6. e \in forgotten' => job'[e] \notin {"none", "running"}
  BY DEF Still, StillJob, StartsOnce
<1>7. "register" \in StartSteps
  BY DEF StartSteps
<1> HIDE DEF Inserting
<1> QED  BY <1>1, <1>2, <1>3, <1>4, <1>5, <1>6, <1>7 DEF StartsOnce

LEMMA StillStates ==
  ASSUME NEW e \in Exports, Still(e), StatesAreTrue(e), leased' \subseteq leased
  PROVE  StatesAreTrue(e)'
<1>1. export'[e].state = "awaiting" => decision'[e] # "delegated"
  BY DEF StatesAreTrue, Still, StillJob, StillRecord
<1>2. ASSUME ~Output!Active(e)', proposed'[e], ~Inserting(e)'
      PROVE  Over(e)'
  <2>1. proposed[e] /\ ~Inserting(e)
    BY <1>2 DEF Still, StillJob, StillSteps
  <2>2. CASE Output!Active(e)
    <3>1. Calm(e)'
      BY <1>2, <2>2, StillStands DEF Still, StillRecord
    <3> QED  BY <1>2, <3>1 DEF Over, Output!Active, Output!Undecided
  <2>3. CASE ~Output!Active(e)
    BY <2>1, <2>3, StillStands DEF StatesAreTrue
  <2> QED  BY <2>2, <2>3
<1>3. ASSUME export'[e].state \in {"queued", "running"}, ~export'[e].submitted
      PROVE  \E do \in StartSteps \cup {"fail"} : Has(Output!Agent(Owner), do, e)'
  <2>1. export[e].state \in {"queued", "running"} /\ ~export[e].submitted
    BY <1>3 DEF Still, StillRecord
  <2> QED  BY <1>3, <2>1 DEF StatesAreTrue, Still, StillSteps
<1>4. ~Unwatched(e)' => proposed'[e] /\ ~Inserting(e)'
  <2> HIDE DEF Inserting, Unwatched
  <2> QED  BY DEF StatesAreTrue, Still, StillSteps, StillJob
<1> QED  BY <1>1, <1>2, <1>3, <1>4 DEF StatesAreTrue

\* The cleaner has something to take away when authority goes, and does not forget it.
Watching ==
    /\ (leased' = leased /\ revision' = revision) \/ Cleaning'
    /\ Cleaning => Cleaning'

LEMMA StillRuns ==
  ASSUME NEW e \in Exports, Still(e), RunsAreWatched(e), leased' \subseteq leased, Watching, Live(e)' => open'
  PROVE  RunsAreWatched(e)'
<1>1. Trusted(e) /\ ~Over(e) => Trusted(e)' \/ Cleaning'
  BY DEF Trusted, Watching, Still, StillRecord
<1>2. ASSUME NEW t \in Output!Threads, Has(t, "submit", e)' \/ Has(t, "replace", e)'
      PROVE  Trusted(e)' \/ Cleaning'
  <2>1. Has(t, "submit", e) \/ Has(t, "replace", e)
    BY <1>2 DEF Still, StillSteps, StartSteps
  <2>2. ~Over(e)
    BY <2>1 DEF Over, Calm
  <2> QED  BY <1>1, <2>1, <2>2 DEF RunsAreWatched, Watching
<1>3. ASSUME Live(e)'
      PROVE  /\ export'[e].submitted \/ \E t \in Output!Threads : Has(t, "register", e)'
             /\ Trusted(e)' \/ Cleaning' \/ Has(Output!Cleaner, "kill", e)'
  <2>1. Live(e) /\ ~Over(e)
    BY <1>3, StillStands DEF Over, Calm
  <2>2. export'[e].submitted \/ \E t \in Output!Threads : Has(t, "register", e)'
    BY <2>1 DEF RunsAreWatched, Still, StillSteps, StillRecord
  <2>3. Trusted(e)' \/ Cleaning' \/ Has(Output!Cleaner, "kill", e)'
    BY <1>1, <1>3, <2>1 DEF RunsAreWatched, Watching, Still, StillSteps
  <2> QED  BY <2>2, <2>3
<1> HIDE DEF Trusted, Cleaning
<1> QED  BY <1>2, <1>3 DEF RunsAreWatched

LEMMA SoundStays ==
  ASSUME NEW t \in Output!Threads, NEW s, Sound(t, s), leased' \subseteq leased,
         s.do \notin {"insert", "leave", "clean", "close"} => Still(s.of)
  PROVE  Sound(t, s)'
<1>1. CASE s.do \in {"insert", "leave", "clean", "close"}
  BY <1>1 DEF Sound
<1>2. CASE s.do \notin {"insert", "leave", "clean", "close"}
  <2>1. s.of \in Exports /\ proposed[s.of] /\ ~Inserting(s.of) /\ Still(s.of)
    BY <1>2 DEF Sound
  <2>2. proposed'[s.of] /\ ~Inserting(s.of)'
    BY <2>1 DEF Still, StillJob, StillSteps
  <2>3. (Over(s.of) => Over(s.of)') /\ (Lapsed(t, s.of) => Lapsed(t, s.of)' \/ Over(s.of)')
    BY <2>1, StillStands
  <2>4. Output!Exists(s.of)' => Output!Exists(s.of) /\ export'[s.of].submitted = export[s.of].submitted
    BY <2>1 DEF Still, StillRecord, Output!Exists
  <2> HIDE DEF Inserting, Over, Lapsed, Output!Exists
  <2> QED  BY <2>1, <2>2, <2>3, <2>4 DEF Sound
<1> QED  BY <1>1, <1>2

\* A step that leaves an agenda without a trace in what stands still.
Dispensable(t, s) ==
    /\ s.do # "insert"
    /\ s.do = "register" => Over(s.of)
    /\ s.do \in StartSteps \cup {"fail"} =>
          \/ \E do \in StartSteps \cup {"fail"} : Has(t, do, s.of)'
          \/ s.of \in Exports => export'[s.of].state \notin {"queued", "running"}
    /\ s.do = "kill" /\ t = Output!Cleaner => ~Live(s.of)'

NoStart(P) == \A s \in P : s.do \notin StartSteps \cup {"insert"}

LEMMA StepsGoOnFor ==
  ASSUME ExportInv, ExportInv', NEW t \in Output!Threads, NEW P, NEW K, Turns(t, P, K), K \subseteq All(t), NEW e \in Exports,
         \A s \in P : s.of = e => s.do \notin StartSteps \cup {"insert"},
         \A s \in All(t) : s.of = e => s \in All(t)' \/ Dispensable(t, s),
         Output!Watcher(e) \in alive' => Output!Watcher(e) \in alive,
         t = Output!Watcher(e) => ~Unwatched(e)
  PROVE  StillSteps(e)
<1>1. \A u \in Output!Threads, do \in StartSteps \cup {"insert"} : Has(u, do, e)' => Has(u, do, e)
  BY HasBefore
<1>2. ASSUME NEW u \in Output!Threads, NEW do, Has(u, do, e)
      PROVE  Has(u, do, e)' \/ (u = t /\ \E s \in All(t) : s.do = do /\ s.of = e /\ Dispensable(t, s))
  <2>1. CASE u = t
    BY <1>2, <2>1 DEF Has
  <2>2. CASE u # t
    BY <1>2, <2>2 DEF Has, Turns
  <2> QED  BY <2>1, <2>2
<1>3. Inserting(e)' <=> Inserting(e)
  <2>1. \A u \in Output!Threads : Has(u, "insert", e) => Has(u, "insert", e)'
    BY <1>2 DEF Dispensable
  <2> HIDE DEF Inserting
  <2> QED  BY <1>1, <2>1, InsertingHas
<1>4. \A u \in Output!Threads : Has(u, "register", e) => Has(u, "register", e)' \/ Over(e)
  BY <1>2 DEF Dispensable
<1>5. ASSUME NEW do \in StartSteps \cup {"fail"}, Has(Output!Agent(Owner), do, e)
      PROVE  \/ \E d \in StartSteps \cup {"fail"} : Has(Output!Agent(Owner), d, e)'
             \/ export'[e].state \notin {"queued", "running"}
  BY <1>2, <1>5, TheThreads DEF Dispensable
<1>6. Has(Output!Cleaner, "kill", e) => Has(Output!Cleaner, "kill", e)' \/ ~Live(e)'
  BY <1>2, TheThreads DEF Dispensable
<1>7. Unwatched(e) => Unwatched(e)'
  <2>1. Unwatched(e) => Output!Watcher(e) # t
    OBVIOUS
  <2> QED  BY <2>1, TheThreads DEF Unwatched, Turns
<1> HIDE DEF Inserting
<1> QED  BY <1>1, <1>3, <1>4, <1>5, <1>6, <1>7 DEF StillSteps

LEMMA StepsGoOn ==
  ASSUME ExportInv, ExportInv', NEW t \in Output!Threads, NEW P, NEW K, Turns(t, P, K), K \subseteq All(t), NoStart(P),
         \A s \in All(t) : s \in All(t)' \/ Dispensable(t, s),
         \A e \in Exports : Output!Watcher(e) \in alive' => Output!Watcher(e) \in alive,
         \A e \in Exports : t = Output!Watcher(e) => ~Unwatched(e)
  PROVE  \A e \in Exports : StillSteps(e)
BY StepsGoOnFor DEF NoStart

LEMMA NobodyGoesOn ==
  ASSUME ExportInv, agenda' = agenda, \A e \in Exports : Output!Watcher(e) \in alive' => Output!Watcher(e) \in alive
  PROVE  \A e \in Exports : StillSteps(e)
<1>1. \A u : All(u)' = All(u)
  BY DEF All
<1>2. \A u, do, e : Has(u, do, e)' <=> Has(u, do, e)
  BY <1>1 DEF Has
<1>3. \A e : Inserting(e)' <=> Inserting(e)
  BY DEF Inserting, Output!Doing
<1>4. \A e \in Exports : Unwatched(e) => Unwatched(e)'
  BY DEF Unwatched
<1> HIDE DEF Inserting
<1> QED  BY <1>2, <1>3, <1>4 DEF StillSteps

--------------------------------------------------------------------------------
(* The lane.                                                               *)

LEMMA LaneStays ==
  ASSUME LaneIsHeld, NEW t \in Output!Threads, NEW P, NEW K, Turns(t, P, K), exportLane' = exportLane,
         Does(t, "leave")' /\ ~Does(t, "enter")' => Does(t, "leave") /\ ~Does(t, "enter"),
         (\E do \in NeedsLane : Does(t, do)') => Does(t, "leave")'
  PROVE  LaneIsHeld'
<1> SUFFICES ASSUME NEW u \in Output!Threads
             PROVE  /\ Does(u, "leave")' /\ ~Does(u, "enter")' => exportLane' = u
                    /\ (\E do \in NeedsLane : Does(u, do)') => Does(u, "leave")'
  BY DEF LaneIsHeld
<1>1. CASE u = t
  BY <1>1 DEF LaneIsHeld
<1>2. CASE u # t
  <2>1. \A do : Does(u, do)' <=> Does(u, do)
    BY <1>2 DEF Does, Turns
  <2> QED  BY <2>1 DEF LaneIsHeld
<1> QED  BY <1>1, <1>2

LEMMA LaneIsTaken ==
  ASSUME LaneIsHeld, NEW t \in Output!Threads, NEW P, NEW K, Turns(t, P, K), exportLane = Nobody, exportLane' = t,
         (\E do \in NeedsLane : Does(t, do)') => Does(t, "leave")'
  PROVE  LaneIsHeld'
<1> SUFFICES ASSUME NEW u \in Output!Threads
             PROVE  /\ Does(u, "leave")' /\ ~Does(u, "enter")' => exportLane' = u
                    /\ (\E do \in NeedsLane : Does(u, do)') => Does(u, "leave")'
  BY DEF LaneIsHeld
<1>1. CASE u = t
  BY <1>1
<1>2. CASE u # t
  <2>1. \A do : Does(u, do)' <=> Does(u, do)
    BY <1>2 DEF Does, Turns
  <2>2. exportLane # u
    BY ExportConstants
  <2> QED  BY <2>1, <2>2 DEF LaneIsHeld
<1> QED  BY <1>1, <1>2

\* Of the steps for later, none enters the lane or starts an export.
LEMMA NoneEnters ==
  ASSUME ExportInv, NEW t \in Output!Threads
  PROVE  \A s \in Later(t) : s.do \notin {"enter", "insert", "check", "submit", "replace", "register"}
BY LaterIsPart DEF ExportInv, AgendasAreInOrder

LEMMA StepsAtHand ==
  ASSUME ExportInv, NEW t \in Output!Threads, NEW do, NEW e, Output!Doing(t, do, e)
  PROVE  /\ agenda[t] # <<>> /\ Head(agenda[t]).do = do /\ Head(agenda[t]).of = e /\ Head(agenda[t]) \in Steps
         /\ All(t) = {Head(agenda[t])} \cup Later(t)
         /\ Has(t, do, e) /\ Does(t, do)
<1>1. agenda[t] # <<>> /\ Head(agenda[t]).do = do /\ Head(agenda[t]).of = e
  BY DEF Output!Doing
<1>2. Head(agenda[t]) \in Steps /\ All(t) = {Head(agenda[t])} \cup Later(t)
  BY <1>1, TheStepAtHand DEF ExportInv
<1> QED  BY <1>1, <1>2 DEF Has, Does

\* A step in the lane, or outside, that is neither of entering nor of leaving it.
LEMMA LaneGoesOn ==
  ASSUME ExportInv, LaneIsHeld, NEW t \in Output!Threads, NEW do, NEW e, Output!Doing(t, do, e),
         NEW P, Turns(t, P, Later(t)), exportLane' = exportLane, do \notin {"enter", "leave"},
         \A s \in P : s.do \notin {"enter", "leave"} /\ (s.do \in NeedsLane => do \in NeedsLane)
  PROVE  LaneIsHeld'
<1>1. All(t) = {Head(agenda[t])} \cup Later(t) /\ Head(agenda[t]).do = do
  BY StepsAtHand
<1>2. ~Does(t, "enter") /\ ~Does(t, "enter")'
  BY <1>1, NoneEnters DEF Does, Turns
<1>3. Does(t, "leave")' <=> Does(t, "leave")
  BY <1>1 DEF Does, Turns
<1>4. (\E d \in NeedsLane : Does(t, d)') => \E d \in NeedsLane : Does(t, d)
  BY <1>1 DEF Does, Turns
<1>5. (\E d \in NeedsLane : Does(t, d)) => Does(t, "leave")
  BY DEF LaneIsHeld
<1> QED  BY <1>2, <1>3, <1>4, <1>5, LaneStays

\* A thread that begins outside the lane.
LEMMA LaneBegins ==
  ASSUME LaneIsHeld, NEW t \in Output!Threads, NEW P, Turns(t, P, {}), exportLane' = exportLane,
         \A s \in P : s.do \notin NeedsLane \cup {"leave"}
  PROVE  LaneIsHeld'
<1>1. ~Does(t, "leave")' /\ \A do \in NeedsLane : ~Does(t, do)'
  BY DEF Does, Turns
<1> QED  BY <1>1, LaneStays

LEMMA LaneStands ==
  ASSUME LaneIsHeld, agenda' = agenda, exportLane' = exportLane
  PROVE  LaneIsHeld'
BY DEF LaneIsHeld, Does, All

--------------------------------------------------------------------------------
(* A step that starts nothing.                                             *)

LEMMA SoundGoOn ==
  ASSUME StepsAreSound, NEW t \in Output!Threads, NEW P, NEW K, Turns(t, P, K), K \subseteq All(t),
         \A s \in P : Sound(t, s)', \A u \in Output!Threads : \A s \in All(u) : Sound(u, s) => Sound(u, s)'
  PROVE  StepsAreSound'
<1> SUFFICES ASSUME NEW u \in Output!Threads, NEW s \in All(u)'  PROVE Sound(u, s)'
  BY DEF StepsAreSound
<1>1. s \in All(u) \/ (u = t /\ s \in P)
  BY DEF Turns
<1> HIDE DEF Sound
<1> QED  BY <1>1 DEF StepsAreSound

LEMMA EntersGoOn ==
  ASSUME EntersDelegated, NEW t \in Output!Threads, NEW P, NEW K, Turns(t, P, K), K \subseteq All(t),
         \A s \in P : s.do \notin {"enter", "take"},
         \A u \in Output!Threads, e \in Exports : Has(u, "take", e) => decision'[e] = decision[e]
  PROVE  EntersDelegated'
<1> SUFFICES ASSUME NEW u \in Output!Threads, NEW e \in Exports, Does(u, "enter")', Has(u, "take", e)'
             PROVE  decision'[e] = "delegated"
  BY DEF EntersDelegated
<1>1. Does(u, "enter") /\ Has(u, "take", e)
  BY HasBefore
<1> QED  BY <1>1 DEF EntersDelegated

LEMMA OrderStands ==
  ASSUME OrderIsOver, order' = order, \A e \in Exports : Over(e) => Over(e)'
  PROVE  OrderIsOver'
<1> HIDE DEF Over
<1>1. \A n \in 1..Len(order) : order[n] \in Exports
  BY DEF OrderIsOver
<1> QED  BY <1>1 DEF OrderIsOver

LEMMA QuietStep ==
  ASSUME OwnerInv, NEW t \in Output!Threads, NEW P, NEW K, Turns(t, P, K), K \subseteq All(t),
         \A s \in P : Sound(t, s)' /\ s.do \notin {"enter", "take"},
         LaneIsHeld', leased' \subseteq leased, \A e \in Exports : Still(e), Watching, \A e \in Exports : Live(e)' => open',
         OrderIsOver' \/ order' = order
  PROVE  OwnerInv'
<1>1. \A e \in Exports : RecordIsSound(e)'
  BY StillStartsOnce, StillStates, StillRuns DEF OwnerInv, RecordIsSound
<1>2. \A u \in Output!Threads : \A s \in All(u) : Sound(u, s) => Sound(u, s)'
  <2> SUFFICES ASSUME NEW u \in Output!Threads, NEW s \in All(u), Sound(u, s)  PROVE Sound(u, s)'
    OBVIOUS
  <2>1. s.do \notin {"insert", "leave", "clean", "close"} => Still(s.of)
    BY DEF Sound
  <2> QED  BY <2>1, SoundStays
<1>3. StepsAreSound'
  <2> HIDE DEF Sound
  <2> QED  BY <1>2, SoundGoOn DEF OwnerInv
<1>4. \A e \in Exports : decision'[e] = decision[e]
  BY DEF Still, StillJob
<1>5. EntersDelegated'
  BY <1>4, EntersGoOn DEF OwnerInv
<1>6. OrderIsOver'
  BY StillStands, OrderStands DEF OwnerInv
<1> QED  BY <1>1, <1>3, <1>5, <1>6 DEF OwnerInv, Turns

\* What a quiet step leaves to prove of the other variables.
SameAuthority == leased' = leased /\ revision' = revision /\ open' = open
NoNewWatcher == \A e \in Exports : Output!Watcher(e) \in alive' => Output!Watcher(e) \in alive

LEMMA QuietTurn ==
  ASSUME ExportInv, ExportInv', OwnerInv, NEW t \in Output!Threads, NEW P, NEW K, Turns(t, P, K), K \subseteq All(t),
         NoStart(P), \A s \in P : Sound(t, s)' /\ s.do # "enter",
         \A s \in All(t) : s \in All(t)' \/ (Dispensable(t, s) /\ s.do # "clean"),
         \A e \in Exports : t = Output!Watcher(e) => ~Unwatched(e), NoNewWatcher, LaneIsHeld', SameAuthority,
         \A e \in Exports : StillJob(e) /\ StillRecord(e), OrderIsOver' \/ order' = order
  PROVE  OwnerInv'
<1>1. \A e \in Exports : StillSteps(e)
  BY StepsGoOn DEF NoNewWatcher
<1>2. \A e \in Exports : Still(e)
  BY <1>1 DEF Still
<1>3. \A s \in P : s.do \notin {"enter", "take"}
  BY DEF NoStart, StartSteps
<1>4. Cleaning => Cleaning'
  <2>1. CASE t = Output!Cleaner
    BY <2>1 DEF Cleaning, Does
  <2>2. CASE t # Output!Cleaner
    BY <2>2, TheThreads DEF Cleaning, Does, Turns
  <2> QED  BY <2>1, <2>2
<1>5. leased' \subseteq leased /\ Watching
  BY <1>4 DEF SameAuthority, Watching
<1>6. \A e \in Exports : Live(e)' => open'
  BY <1>2, <1>5, StillStands DEF SameAuthority, OwnerInv, RecordIsSound, RunsAreWatched
<1> HIDE DEF Sound
<1> QED  BY <1>2, <1>3, <1>5, <1>6, QuietStep

\* Nobody takes a step.
LEMMA StandingStep ==
  ASSUME ExportInv, ExportInv', OwnerInv, agenda' = agenda, exportLane' = exportLane, alive' = alive, SameAuthority,
         \A e \in Exports : StillJob(e) /\ StillRecord(e), OrderIsOver' \/ order' = order
  PROVE  OwnerInv'
<1> DEFINE t == Output!Cleaner
<1>1. t \in Output!Threads /\ Turns(t, {}, All(t)) /\ All(t)' = All(t)
  BY TheThreads, NothingTurns DEF OwnerInv, All
<1>2. LaneIsHeld' /\ NoNewWatcher
  BY LaneStands DEF OwnerInv, NoNewWatcher
<1>3. \A e \in Exports : t # Output!Watcher(e)
  BY TheThreads
<1>4. NoStart({})
  BY DEF NoStart
<1> QED  BY <1>1, <1>2, <1>3, <1>4, QuietTurn

\* A thread takes a step that is neither of entering nor of leaving the lane.
LEMMA OneStep ==
  ASSUME ExportInv, ExportInv', OwnerInv, NEW t \in Output!Threads, NEW do, NEW e, Output!Doing(t, do, e),
         NEW P, Turns(t, P, Later(t)), do \notin {"enter", "leave", "clean"}, NEW h, h = Head(agenda[t]), Dispensable(t, h), NoStart(P),
         \A s \in P : Sound(t, s)' /\ s.do \notin {"enter", "leave", "kill"},
         UNCHANGED <<exportLane, alive>>, SameAuthority,
         \A x \in Exports : StillJob(x) /\ StillRecord(x), OrderIsOver' \/ order' = order
  PROVE  OwnerInv'
<1>1. /\ agenda[t] # <<>> /\ h.do = do /\ All(t) = {h} \cup Later(t)
  BY StepsAtHand
<1>2. \A s \in All(t) : s \in All(t)' \/ (Dispensable(t, s) /\ s.do # "clean")
  BY <1>1 DEF Turns
<1>3. \A x \in Exports : t = Output!Watcher(x) => ~Unwatched(x)
  BY <1>1 DEF Unwatched
<1>4. LaneIsHeld'
  <2>1. \A s \in P : s.do \notin {"enter", "leave"} /\ (s.do \in NeedsLane => do \in NeedsLane)
    BY DEF NoStart, NeedsLane
  <2> QED  BY <2>1, LaneGoesOn DEF OwnerInv
<1>5. NoNewWatcher
  BY DEF NoNewWatcher
<1> HIDE DEF Sound
<1> QED  BY <1>1, <1>2, <1>3, <1>4, <1>5, QuietTurn

\* A thread at rest begins something outside the lane.
LEMMA OneBegins ==
  ASSUME ExportInv, ExportInv', OwnerInv, NEW t \in Output!Threads, agenda[t] = <<>>, NEW P, Turns(t, P, {}), NoStart(P),
         \A s \in P : Sound(t, s)' /\ s.do \notin {"enter", "leave", "kill"},
         \A e \in Exports : t = Output!Watcher(e) => ~Unwatched(e), UNCHANGED exportLane, NoNewWatcher, SameAuthority,
         \A x \in Exports : StillJob(x) /\ StillRecord(x), OrderIsOver' \/ order' = order
  PROVE  OwnerInv'
<1>1. All(t) = {}
  BY NoSteps
<1>2. LaneIsHeld'
  <2>1. \A s \in P : s.do \notin NeedsLane \cup {"leave"}
    BY DEF NoStart, NeedsLane
  <2> QED  BY <2>1, LaneBegins DEF OwnerInv
<1> HIDE DEF Sound
<1> QED  BY <1>1, <1>2, QuietTurn

LEMMA RecordsUnchanged ==
  ASSUME UNCHANGED export
  PROVE  \A e \in Exports : StillRecord(e)
BY DEF StillRecord, Output!Active, Output!Exists

LEMMA JobsUnchanged ==
  ASSUME UNCHANGED <<proposed, decision, job, killed, forgotten>>,
         \A e \in Exports : exportApproval[e] \in {"denied", "expired"} => exportApproval'[e] = exportApproval[e]
  PROVE  \A e \in Exports : StillJob(e)
BY DEF StillJob

--------------------------------------------------------------------------------
(* Steps outside the agendas, and the simple ones of them.                 *)

LEMMA DecideOwned ==
  ASSUME ExportInv, ExportInv', OwnerInv, NEW e \in Exports, Output!DecideApproval(e)
  PROVE  OwnerInv'
<1>1. /\ UNCHANGED <<leased, open, revision, export, decision, proposed, order, job, killed, forgotten, alive, agenda, exportLane>>
      /\ exportApproval[e] \in {"pending", "approved"} /\ \E s : exportApproval' = [exportApproval EXCEPT ![e] = s]
  BY DEF Output!DecideApproval, Output!authority, Output!folder, Output!records, Output!jobs, Output!threads
<1>2. \A x \in Exports : exportApproval[x] \in {"denied", "expired"} => exportApproval'[x] = exportApproval[x]
  BY <1>1 DEF ExportInv, ExportTypes
<1> QED  BY <1>1, <1>2, JobsUnchanged, RecordsUnchanged, StandingStep DEF SameAuthority

LEMMA JobEndsOwned ==
  ASSUME ExportInv, ExportInv', OwnerInv, NEW e \in Exports, Output!JobEnds(e)
  PROVE  OwnerInv'
<1>1. /\ UNCHANGED <<leased, open, revision, export, decision, proposed, order, exportApproval, killed, forgotten, alive, agenda, exportLane>>
      /\ job[e] = "running" /\ \E s \in {"succeeded", "failed", "cancelled"} : job' = [job EXCEPT ![e] = s]
  BY DEF Output!JobEnds, Output!authority, Output!folder, Output!records, Output!jobs, Output!threads
<1>2. \A x \in Exports : job'[x] = job[x] \/ (job[x] = "running" /\ job'[x] \notin {"none", "running"})
  BY <1>1 DEF ExportInv, ExportTypes
<1>3. \A x \in Exports : StillJob(x)
  BY <1>1, <1>2 DEF StillJob
<1> QED  BY <1>1, <1>3, RecordsUnchanged, StandingStep DEF SameAuthority

LEMMA ForgetOwned ==
  ASSUME ExportInv, ExportInv', OwnerInv, NEW e \in Exports, Output!Forget(e)
  PROVE  OwnerInv'
<1>1. /\ UNCHANGED <<leased, open, revision, export, decision, proposed, order, exportApproval, killed, job, alive, agenda, exportLane>>
      /\ job[e] \notin {"none", "running"} /\ forgotten' = forgotten \cup {e}
  BY DEF Output!Forget, Output!authority, Output!folder, Output!records, Output!jobs, Output!threads
<1>2. \A x \in Exports : StillJob(x)
  BY <1>1 DEF StillJob
<1> QED  BY <1>1, <1>2, RecordsUnchanged, StandingStep DEF SameAuthority

LEMMA ContentsOwned ==
  ASSUME ExportInv, ExportInv', OwnerInv, Output!ChangeContents \/ UNCHANGED exportVars
  PROVE  OwnerInv'
<1>1. UNCHANGED <<leased, open, revision, export, decision, proposed, order, exportApproval, killed, forgotten, job, alive, agenda, exportLane>>
  BY DEF Output!ChangeContents, exportVars, Output!authority, Output!folder, Output!records, Output!jobs, Output!threads
<1> QED  BY <1>1, JobsUnchanged, RecordsUnchanged, StandingStep DEF SameAuthority

\* An export that the coordinator had, and that does not run on, never will.
LEMMA EndedIsOver ==
  ASSUME ExportInv, NEW e \in Exports, StartsOnce(e), job[e] # "none", ~Live(e)
  PROVE  Over(e)
<1>1. proposed[e] /\ ~Inserting(e) /\ ~export[e].snapshot
  BY DEF ExportInv, RecordsAreProposed, StartsOnce
<1>2. \A t \in Output!Threads, do \in {"check", "submit", "replace"} : ~Has(t, do, e)
  BY DEF StartsOnce, StartSteps
<1> QED  BY <1>1, <1>2 DEF Over, Calm

--------------------------------------------------------------------------------
(* Outcome.                                                                *)

LEMMA NothingPut ==
  ASSUME ExportInv, OwnerInv, NEW t \in Output!Threads, agenda[t] # <<>>, Output!Then(t, <<>>)
  PROVE  Turns(t, {}, Later(t))
<1>1. <<>> \in Seq(Steps) /\ Sorted(<<>>) /\ Of(<<>>) = {}
  BY DEF Sorted, Of
<1> QED  BY <1>1, ThenTurns DEF OwnerInv

\* What a thread may put on its agenda in the lane and outside it.
Free == {"fail", "finish", "row", "read", "apply"}

LEMMA OnePut ==
  ASSUME ExportInv, OwnerInv, NEW t \in Output!Threads, agenda[t] # <<>>, NEW s \in Steps, s.do \in Free, Output!Then(t, <<s>>)
  PROVE  Turns(t, {s}, Later(t))
<1>1. \A b \in Later(t) : Precedes(s.do, b.do)
  BY DEF Free, Precedes
<1> QED  BY <1>1, SortedOne, ThenTurns DEF OwnerInv

\* What stands still is known before what is put on the agenda is looked at.
LEMMA OneStill ==
  ASSUME ExportInv, ExportInv', NEW t \in Output!Threads, NEW do, NEW e, Output!Doing(t, do, e),
         NEW P, Turns(t, P, Later(t)), NEW h, h = Head(agenda[t]), Dispensable(t, h), NoStart(P), UNCHANGED alive,
         \A x \in Exports : StillJob(x) /\ StillRecord(x)
  PROVE  \A x \in Exports : Still(x)
<1>1. /\ agenda[t] # <<>> /\ All(t) = {h} \cup Later(t)
  BY StepsAtHand
<1>2. \A s \in All(t) : s \in All(t)' \/ Dispensable(t, s)
  BY <1>1 DEF Turns
<1>3. \A x \in Exports : t = Output!Watcher(x) => ~Unwatched(x)
  BY <1>1 DEF Unwatched
<1>4. Later(t) \subseteq All(t)
  BY <1>1
<1> QED  BY <1>2, <1>3, <1>4, StepsGoOn DEF Still

LEMMA SoundAtHand ==
  ASSUME ExportInv, OwnerInv, NEW t \in Output!Threads, NEW do, NEW e, Output!Doing(t, do, e),
         do \notin {"insert", "leave", "clean", "close"}
  PROVE  /\ Sound(t, Head(agenda[t])) /\ Head(agenda[t]).do = do /\ Head(agenda[t]).of = e /\ agenda[t] # <<>>
         /\ e \in Exports /\ proposed[e] /\ ~Inserting(e) /\ RecordIsSound(e)
<1>1. Head(agenda[t]) \in All(t) /\ Head(agenda[t]).do = do /\ Head(agenda[t]).of = e /\ agenda[t] # <<>>
  BY StepsAtHand
<1>2. Sound(t, Head(agenda[t]))
  BY <1>1 DEF OwnerInv, StepsAreSound
<1> HIDE DEF Inserting
<1> QED  BY <1>1, <1>2 DEF Sound, OwnerInv

\* A step that puts an ending on the agenda, of an export that is over.
LEMMA EndingIsSound ==
  ASSUME NEW t \in Output!Threads, NEW s, NEW e \in Exports, Still(e), leased' \subseteq leased, Over(e) \/ Over(e)',
         s.of = e, s.do \in {"fail", "finish", "row"}
  PROVE  Sound(t, s)'
<1>1. Over(e)'
  BY StillStands
<1>2. proposed'[e] /\ ~Inserting(e)'
  BY <1>1 DEF Over, Calm
<1> HIDE DEF Over, Inserting
<1> QED  BY <1>1, <1>2 DEF Sound

LEMMA FailOwned ==
  ASSUME ExportInv, ExportInv', OwnerInv, NEW t \in Output!Threads, NEW e \in Exports, Output!Fail(t, e)
  PROVE  OwnerInv'
<1> DEFINE f == Output!Step("finish", e)
<1>1. Output!Doing(t, "fail", e) /\ Output!Then(t, <<f>>)
  BY DEF Output!Fail
<1>2. UNCHANGED <<leased, open, revision, decision, proposed, order, exportApproval, job, killed, forgotten, alive, exportLane>>
  BY DEF Output!Fail, Output!authority, Output!folder, Output!records, Output!jobs, Output!threads
<1>3. /\ Sound(t, Head(agenda[t])) /\ Head(agenda[t]).do = "fail" /\ Head(agenda[t]).of = e /\ agenda[t] # <<>>
      /\ RecordIsSound(e)
  BY <1>1, SoundAtHand
<1>4. f \in Steps /\ f.do = "finish" /\ f.of = e
  BY TheStep DEF Doings
<1> HIDE DEF f
<1>5. Turns(t, {f}, Later(t)) /\ NoStart({f})
  BY <1>1, <1>3, <1>4, OnePut DEF Free, NoStart, StartSteps
<1>6. Over(e) \/ Lapsed(t, e)
  BY <1>3 DEF Sound
<1>7. /\ export'[e].state \notin {"queued", "running", "awaiting"}
      /\ export'[e].snapshot = export[e].snapshot /\ export'[e].submitted = export[e].submitted
      /\ export'[e].revision = export[e].revision /\ (Output!Exists(e)' => Output!Exists(e))
      /\ \A x \in Exports : x # e => export'[x] = export[x]
  BY DEF Output!Fail, Output!Set, Output!Exists, ExportInv, ExportTypes
<1>8. \A x \in Exports : StillJob(x)
  BY <1>2, JobsUnchanged
<1>9. \A x \in Exports : StillRecord(x)
  <2>1. StillRecord(e)
    BY <1>6, <1>7 DEF StillRecord, Over, Lapsed
  <2>2. ASSUME NEW x \in Exports, x # e  PROVE StillRecord(x)
    BY <1>7, <2>2 DEF StillRecord, Output!Active, Output!Exists
  <2> QED  BY <2>1, <2>2
<1>10. PICK h : h = Head(agenda[t]) /\ Dispensable(t, h)
  <2>1. PICK h : h = Head(agenda[t])
    OBVIOUS
  <2>2. h.do = Head(agenda[t]).do /\ h.of = Head(agenda[t]).of
    BY <2>1
  <2>3. Dispensable(t, h)
    BY <2>2, <1>3, <1>7 DEF Dispensable
  <2> QED  BY <2>1, <2>3
<1>11. \A x \in Exports : Still(x)
  BY <1>1, <1>2, <1>5, <1>8, <1>9, <1>10, OneStill
<1>12. Over(e)'
  <2>1. Calm(e)'
    BY <1>2, <1>6, <1>11, StillStands DEF Over, Lapsed
  <2> QED  BY <1>7, <2>1 DEF Over
<1>13. Sound(t, f)'
  BY <1>2, <1>4, <1>11, <1>12, EndingIsSound
<1> HIDE DEF Sound, Over
<1>14. \A s \in {f} : Sound(t, s)' /\ s.do \notin {"enter", "leave", "kill"}
  BY <1>4, <1>13
<1> QED  BY <1>1, <1>2, <1>5, <1>8, <1>9, <1>10, <1>14, OneStep DEF SameAuthority

LEMMA FinishOwned ==
  ASSUME ExportInv, ExportInv', OwnerInv, NEW t \in Output!Threads, NEW e \in Exports, Output!Finish(t, e)
  PROVE  OwnerInv'
<1> DEFINE f == Output!Step("row", e)
<1>1. Output!Doing(t, "finish", e) /\ (Output!Then(t, <<f>>) \/ Output!Then(t, <<>>))
  BY DEF Output!Finish
<1>2. UNCHANGED <<leased, open, revision, decision, proposed, order, exportApproval, job, killed, forgotten, alive, exportLane>>
  BY DEF Output!Finish, Output!authority, Output!folder, Output!records, Output!jobs, Output!threads
<1>3. /\ Sound(t, Head(agenda[t])) /\ Head(agenda[t]).do = "finish" /\ Head(agenda[t]).of = e /\ agenda[t] # <<>>
      /\ RecordIsSound(e)
  BY <1>1, SoundAtHand
<1>4. f \in Steps /\ f.do = "row" /\ f.of = e
  BY TheStep DEF Doings
<1> HIDE DEF f
<1>5. PICK P \in {{}, {f}} : Turns(t, P, Later(t)) /\ NoStart(P)
  BY <1>1, <1>3, <1>4, OnePut, NothingPut DEF Free, NoStart, StartSteps
<1>6. Over(e)
  BY <1>3 DEF Sound
<1>7. \A x \in Exports : /\ export'[x].state = export[x].state /\ export'[x].submitted = export[x].submitted
                         /\ export'[x].snapshot = export[x].snapshot /\ export'[x].revision = export[x].revision
  <2>1. CASE export' = export
    BY <2>1
  <2>2. CASE export' = [export EXCEPT ![e].audited = TRUE]
    BY <2>2 DEF ExportInv, ExportTypes
  <2> QED  BY <2>1, <2>2 DEF Output!Finish, Output!Flagged
<1>8. \A x \in Exports : StillJob(x) /\ StillRecord(x)
  BY <1>2, <1>7, JobsUnchanged DEF StillRecord, Output!Active, Output!Exists
<1>10. PICK h : h = Head(agenda[t]) /\ Dispensable(t, h)
  <2>1. PICK h : h = Head(agenda[t])
    OBVIOUS
  <2>2. h.do = Head(agenda[t]).do /\ h.of = Head(agenda[t]).of
    BY <2>1
  <2>3. Dispensable(t, h)
    BY <2>2, <1>3 DEF Dispensable, StartSteps
  <2> QED  BY <2>1, <2>3
<1>11. \A x \in Exports : Still(x)
  BY <1>1, <1>2, <1>5, <1>8, <1>10, OneStill
<1>13. Sound(t, f)'
  BY <1>2, <1>4, <1>6, <1>11, EndingIsSound
<1> HIDE DEF Sound, Over
<1>14. \A s \in P : Sound(t, s)' /\ s.do \notin {"enter", "leave", "kill"}
  BY <1>4, <1>5, <1>13
<1> QED  BY <1>1, <1>2, <1>5, <1>8, <1>10, <1>14, OneStep DEF SameAuthority

LEMMA ReadOwned ==
  ASSUME ExportInv, ExportInv', OwnerInv, NEW t \in Output!Threads, NEW e \in Exports, Output!Read(t, e)
  PROVE  OwnerInv'
<1> DEFINE f == Output!Step("fail", e)
<1>0. PICK a : a = [Output!Step("apply", e) EXCEPT !.saw = job[e]]
  OBVIOUS
<1>1. /\ Output!Doing(t, "read", e)
      /\ \/ Output!Then(t, <<>>)
         \/ Output!Then(t, <<f>>) /\ e \in forgotten
         \/ Output!Then(t, <<a>>) /\ export[e].submitted
  BY <1>0 DEF Output!Read
<1>2. UNCHANGED <<leased, open, revision, export, decision, proposed, order, exportApproval, job, killed, forgotten, alive, exportLane>>
  BY DEF Output!Read, Output!authority, Output!folder, Output!records, Output!jobs, Output!threads
<1>3. /\ Sound(t, Head(agenda[t])) /\ Head(agenda[t]).do = "read" /\ Head(agenda[t]).of = e /\ agenda[t] # <<>>
      /\ proposed[e] /\ ~Inserting(e) /\ RecordIsSound(e)
  BY <1>1, SoundAtHand
<1>4. f \in Steps /\ f.do = "fail" /\ f.of = e
  BY TheStep DEF Doings
<1>5. a \in Steps /\ a.do = "apply" /\ a.of = e /\ a.saw = job[e]
  BY <1>0 DEF Output!Step, Steps, Doings, ExportInv, ExportTypes
<1> HIDE DEF f
<1>6. PICK P : /\ Turns(t, P, Later(t)) /\ P \subseteq {f, a} /\ (f \in P /\ f # a => e \in forgotten)
               /\ a \in P => export[e].submitted
  <2>1. f # a
    BY <1>4, <1>5
  <2>2. CASE Output!Then(t, <<>>)
    BY <1>3, <2>2, NothingPut
  <2>3. CASE Output!Then(t, <<f>>) /\ e \in forgotten
    <3>1. Turns(t, {f}, Later(t))
      BY <1>3, <1>4, <2>3, OnePut DEF Free
    <3> QED  BY <2>1, <2>3, <3>1
  <2>4. CASE Output!Then(t, <<a>>) /\ export[e].submitted
    <3>1. Turns(t, {a}, Later(t))
      BY <1>3, <1>5, <2>4, OnePut DEF Free
    <3> QED  BY <2>1, <2>4, <3>1
  <2> QED  BY <1>1, <2>2, <2>3, <2>4
<1>7. NoStart(P)
  BY <1>4, <1>5, <1>6 DEF NoStart, StartSteps
<1>8. \A x \in Exports : StillJob(x) /\ StillRecord(x)
  BY <1>2, JobsUnchanged, RecordsUnchanged
<1>9. PICK h : h = Head(agenda[t]) /\ Dispensable(t, h)
  <2>1. PICK h : h = Head(agenda[t])
    OBVIOUS
  <2>2. h.do = Head(agenda[t]).do /\ h.of = Head(agenda[t]).of
    BY <2>1
  <2>3. Dispensable(t, h)
    BY <2>2, <1>3 DEF Dispensable, StartSteps
  <2> QED  BY <2>1, <2>3
<1>10. \A x \in Exports : Still(x)
  BY <1>1, <1>2, <1>6, <1>7, <1>8, <1>9, OneStill
<1>11. e \in forgotten => Over(e)
  BY <1>3, EndedIsOver DEF RecordIsSound, StartsOnce, Live
<1>12. export[e].submitted /\ job[e] # "running" => Over(e)
  BY <1>3, EndedIsOver DEF RecordIsSound, StartsOnce, Live
<1>13. f \in P => Sound(t, f)'
  <2>1. f # a
    BY <1>4, <1>5
  <2> QED  BY <1>2, <1>4, <1>6, <1>10, <1>11, <2>1, EndingIsSound
<1>14. a \in P => Sound(t, a)'
  <2> SUFFICES ASSUME a \in P  PROVE Sound(t, a)'
    OBVIOUS
  <2>1. proposed'[e] /\ ~Inserting(e)'
    BY <1>3, <1>10 DEF Still, StillSteps, StillJob
  <2>2. job[e] # "running" => Over(e)'
    BY <1>2, <1>6, <1>10, <1>12, StillStands
  <2>3. export'[e].submitted
    BY <1>2, <1>6
  <2> HIDE DEF Inserting, Over
  <2> QED  BY <1>5, <2>1, <2>2, <2>3 DEF Sound
<1> HIDE DEF Sound, Over
<1>15. \A s \in P : Sound(t, s)' /\ s.do \notin {"enter", "leave", "kill"}
  BY <1>4, <1>5, <1>6, <1>13, <1>14
<1> QED  BY <1>1, <1>2, <1>6, <1>7, <1>8, <1>9, <1>15, OneStep DEF SameAuthority

LEMMA ApplyOwned ==
  ASSUME ExportInv, ExportInv', OwnerInv, NEW t \in Output!Threads, NEW e \in Exports, Output!Apply(t, e)
  PROVE  OwnerInv'
<1> DEFINE f == Output!Step("finish", e)
<1>1. Output!Doing(t, "apply", e)
  BY DEF Output!Apply
<1>2. UNCHANGED <<leased, open, revision, decision, proposed, order, exportApproval, job, killed, forgotten, alive, exportLane>>
  BY DEF Output!Apply, Output!authority, Output!folder, Output!records, Output!jobs, Output!threads
<1>3. /\ Sound(t, Head(agenda[t])) /\ Head(agenda[t]).do = "apply" /\ Head(agenda[t]).of = e /\ agenda[t] # <<>>
      /\ RecordIsSound(e)
  BY <1>1, SoundAtHand
<1>4. PICK saw \in Output!JobStates :
         /\ saw = Head(agenda[t]).saw
         /\ IF Output!Exists(e) THEN export' = [export EXCEPT ![e].state = saw] ELSE UNCHANGED export
         /\ Output!Then(t, <<>>) \/ (Output!Then(t, <<f>>) /\ saw # "running")
  <2>1. Head(agenda[t]).saw \in Output!JobStates
    BY <1>1, AtStep DEF Steps
  <2> QED  BY <2>1 DEF Output!Apply, Output!Set
<1>5. f \in Steps /\ f.do = "finish" /\ f.of = e
  BY TheStep DEF Doings
<1> HIDE DEF f
<1>6. PICK P \in {{}, {f}} : Turns(t, P, Later(t)) /\ NoStart(P) /\ (f \in P => saw # "running")
  <2>1. CASE Output!Then(t, <<>>)
    BY <1>3, <2>1, NothingPut DEF NoStart
  <2>2. CASE Output!Then(t, <<f>>) /\ saw # "running"
    BY <1>3, <1>5, <2>2, OnePut DEF Free, NoStart, StartSteps
  <2> QED  BY <1>4, <2>1, <2>2
<1>7. (saw # "running" => Over(e)) /\ (Output!Exists(e) => export[e].submitted)
  BY <1>3, <1>4 DEF Sound
<1>8. /\ \A x \in Exports : /\ export'[x].submitted = export[x].submitted
                            /\ export'[x].snapshot = export[x].snapshot /\ export'[x].revision = export[x].revision
      /\ \A x \in Exports : x # e => export'[x] = export[x]
      /\ IF Output!Exists(e) THEN export'[e].state = saw ELSE export'[e] = export[e]
  <2>1. CASE Output!Exists(e)
    <3>1. export' = [export EXCEPT ![e].state = saw]
      BY <1>4, <2>1
    <3> QED  BY <2>1, <3>1 DEF ExportInv, ExportTypes
  <2>2. CASE ~Output!Exists(e)
    BY <1>4, <2>2
  <2> QED  BY <2>1, <2>2
<1>9. StillRecord(e)
  <2>1. saw \notin {"queued", "awaiting"}
    BY DEF Output!JobStates
  <2>2. CASE Output!Exists(e)
    <3>1. saw # "running" => Calm(e)
      BY <1>7 DEF Over
    <3>2. saw = "running" => Output!Active(e)'
      BY <1>8, <2>2 DEF Output!Active, Output!Undecided
    <3> QED  BY <1>7, <1>8, <2>1, <2>2, <3>1, <3>2 DEF StillRecord
  <2>3. CASE ~Output!Exists(e)
    BY <1>8, <2>3 DEF StillRecord, Output!Active, Output!Exists
  <2> QED  BY <2>2, <2>3
<1>10. \A x \in Exports : StillJob(x) /\ StillRecord(x)
  <2>1. ASSUME NEW x \in Exports, x # e  PROVE StillRecord(x)
    BY <1>8, <2>1 DEF StillRecord, Output!Active, Output!Exists
  <2> QED  BY <1>2, <1>9, <2>1, JobsUnchanged
<1>11. PICK h : h = Head(agenda[t]) /\ Dispensable(t, h)
  <2>1. PICK h : h = Head(agenda[t])
    OBVIOUS
  <2>2. h.do = Head(agenda[t]).do /\ h.of = Head(agenda[t]).of
    BY <2>1
  <2>3. Dispensable(t, h)
    BY <2>2, <1>3 DEF Dispensable, StartSteps
  <2> QED  BY <2>1, <2>3
<1>12. \A x \in Exports : Still(x)
  BY <1>1, <1>2, <1>6, <1>10, <1>11, OneStill
<1>13. f \in P => Sound(t, f)'
  BY <1>2, <1>5, <1>6, <1>7, <1>12, EndingIsSound
<1> HIDE DEF Sound, Over
<1>14. \A s \in P : Sound(t, s)' /\ s.do \notin {"enter", "leave", "kill"}
  BY <1>5, <1>6, <1>13
<1> QED  BY <1>1, <1>2, <1>6, <1>10, <1>11, <1>14, OneStep DEF SameAuthority

LEMMA WithoutIsPart ==
  ASSUME NEW e \in Exports, order \in Seq(Exports)
  PROVE  Output!Without(e) \in Seq(Exports) /\ Of(Output!Without(e)) \subseteq Of(order)
<1> DEFINE w == Output!Without(e)
<1>1. CASE w = order
  BY <1>1
<1>2. ASSUME NEW n \in 1..Len(order), w = SubSeq(order, 1, n - 1) \o SubSeq(order, n + 1, Len(order))
      PROVE  w \in Seq(Exports) /\ Of(w) \subseteq Of(order)
  <2> HIDE DEF w
  <2>1. PICK a \in Seq(Exports), b \in Seq(Exports) :
           /\ w = a \o b /\ Len(a) = n - 1 /\ Len(b) = Len(order) - n
           /\ \A i \in 1..Len(a) : a[i] = order[i]
           /\ \A i \in 1..Len(b) : b[i] = order[n + i]
    <3>1. SubSeq(order, 1, n - 1) \in Seq(Exports) /\ SubSeq(order, n + 1, Len(order)) \in Seq(Exports)
      OBVIOUS
    <3>2. Len(SubSeq(order, 1, n - 1)) = n - 1 /\ Len(SubSeq(order, n + 1, Len(order))) = Len(order) - n
      OBVIOUS
    <3>3. \A i \in 1..(n - 1) : SubSeq(order, 1, n - 1)[i] = order[i]
      OBVIOUS
    <3>4. \A i \in 1..(Len(order) - n) : SubSeq(order, n + 1, Len(order))[i] = order[n + i]
      OBVIOUS
    <3> QED  BY <1>2, <3>1, <3>2, <3>3, <3>4
  <2>2. /\ w \in Seq(Exports) /\ Len(w) = Len(a) + Len(b)
        /\ \A i \in 1..Len(a) : w[i] = a[i]
        /\ \A i \in 1..Len(w) : i > Len(a) => i - Len(a) \in 1..Len(b) /\ w[i] = b[i - Len(a)]
    <3>1. a \o b \in Seq(Exports) /\ Len(a \o b) = Len(a) + Len(b) /\ Len(a) \in Nat /\ Len(b) \in Nat
      OBVIOUS
    <3>2. \A i \in 1..Len(a) : (a \o b)[i] = a[i]
      OBVIOUS
    <3>3. \A i \in 1..(Len(a) + Len(b)) : i > Len(a) => (a \o b)[i] = b[i - Len(a)]
      OBVIOUS
    <3>4. w = a \o b
      BY <2>1
    <3> HIDE <2>1
    <3> QED  BY <3>1, <3>2, <3>3, <3>4
  <2>3. ASSUME NEW i \in 1..Len(w)  PROVE w[i] \in Of(order)
    <3>1. CASE i <= Len(a)
      BY <2>1, <2>2, <3>1 DEF Of
    <3>2. CASE i > Len(a)
      <4>1. w[i] = order[n + (i - Len(a))] /\ n + (i - Len(a)) \in 1..Len(order)
        BY <2>1, <2>2, <3>2
      <4> QED  BY <4>1 DEF Of
    <3> QED  BY <2>1, <3>1, <3>2
  <2> QED  BY <2>2, <2>3 DEF Of
<1>3. w = order \/ \E n \in 1..Len(order) : w = SubSeq(order, 1, n - 1) \o SubSeq(order, n + 1, Len(order))
  <2>1. DOMAIN order = 1..Len(order)
    OBVIOUS
  <2>2. CASE \E n \in DOMAIN order : order[n] = e
    <3>1. PICK n \in 1..Len(order) : n = CHOOSE k \in DOMAIN order : order[k] = e
      BY <2>1, <2>2
    <3>2. w = SubSeq(order, 1, n - 1) \o SubSeq(order, n + 1, Len(order))
      BY <2>2, <3>1 DEF Output!Without, Output!RemoveAt
    <3> QED  BY <3>2
  <2>3. CASE ~ \E n \in DOMAIN order : order[n] = e
    BY <2>3 DEF Output!Without
  <2> QED  BY <2>2, <2>3
<1> QED  BY <1>1, <1>2, <1>3

LEMMA OrderIsKept ==
  ASSUME NEW q \in Seq(Exports), order' = q, \A e \in Of(q) : Over(e)'
  PROVE  OrderIsOver'
<1> HIDE DEF Over
<1> QED  BY DEF OrderIsOver, Of

\* What is put out to make room is over, as is what stays.
LEMMA RememberedIsOver ==
  ASSUME OwnerInv, NEW e \in Exports, NEW marked, Output!RememberTerminal(e, marked), Over(e)
  PROVE  /\ Output!Evicted(e) \subseteq Exports /\ \A x \in Output!Evicted(e) : Over(x)
         /\ order' \in Seq(Exports) /\ \A x \in Of(order') : x \in Exports /\ Over(x)
<1> HIDE DEF Over
<1>1. order \in Seq(Exports) /\ \A x \in Of(order) : Over(x)
  BY DEF OwnerInv, OrderIsOver, Of
<1>2. Output!Without(e) \in Seq(Exports) /\ Of(Output!Without(e)) \subseteq Of(order)
  BY <1>1, WithoutIsPart
<1> DEFINE w == Output!Without(e)
           r == Append(w, e)
<1>3. Output!Remembered(e) = r
  BY DEF Output!Remembered
<1> HIDE DEF w
<1>4. /\ r \in Seq(Exports) /\ Len(r) = Len(w) + 1 /\ Len(w) \in Nat
      /\ \A n \in 1..Len(w) : r[n] = w[n]
      /\ r[Len(w) + 1] = e
  BY <1>2 DEF w
<1>5. \A x \in Of(r) : x \in Exports /\ Over(x)
  <2> HIDE DEF r
  <2> SUFFICES ASSUME NEW n \in 1..Len(r)  PROVE r[n] \in Exports /\ Over(r[n])
    BY DEF Of
  <2>1. CASE n \in 1..Len(w)
    <3>1. w[n] \in Of(w)
      BY <2>1 DEF Of
    <3> QED  BY <1>1, <1>2, <1>4, <2>1, <3>1 DEF w
  <2>2. CASE n = Len(w) + 1
    BY <1>4, <2>2
  <2> QED  BY <1>4, <2>1, <2>2
<1> HIDE DEF r
<1>6. r # <<>> /\ Head(r) \in Of(r) /\ Tail(r) \in Seq(Exports) /\ Of(Tail(r)) \subseteq Of(r)
  <2>1. r # <<>> /\ 1 \in 1..Len(r) /\ Head(r) = r[1] /\ Tail(r) \in Seq(Exports)
    BY <1>4
  <2>2. \A n \in 1..Len(Tail(r)) : Tail(r)[n] = r[n + 1] /\ n + 1 \in 1..Len(r)
    BY <1>4, <2>1
  <2> QED  BY <2>1, <2>2 DEF Of
<1>7. Output!Evicted(e) \subseteq {Head(r)}
  BY <1>3 DEF Output!Evicted
<1>8. order' = r \/ order' = Tail(r)
  BY <1>3 DEF Output!RememberTerminal
<1> QED  BY <1>4, <1>5, <1>6, <1>7, <1>8

LEMMA WriteRowOwned ==
  ASSUME ExportInv, ExportInv', OwnerInv, NEW t \in Output!Threads, NEW e \in Exports, Output!WriteRow(t, e)
  PROVE  OwnerInv'
<1>1. Output!Doing(t, "row", e) /\ Output!Then(t, <<>>)
  BY DEF Output!WriteRow
<1>2. UNCHANGED <<leased, open, revision, decision, proposed, exportApproval, job, killed, alive, exportLane>>
  BY DEF Output!WriteRow, Output!authority, Output!folder, Output!records, Output!jobs, Output!threads
<1>3. /\ Sound(t, Head(agenda[t])) /\ Head(agenda[t]).do = "row" /\ Head(agenda[t]).of = e /\ agenda[t] # <<>>
  BY <1>1, SoundAtHand
<1>4. Turns(t, {}, Later(t)) /\ NoStart({})
  BY <1>1, <1>3, NothingPut DEF NoStart
<1>5. Over(e)
  BY <1>3 DEF Sound
<1>6. PICK marked : /\ Output!RememberTerminal(e, marked)
                    /\ \/ marked = export
                       \/ Output!Exists(e) /\ marked = [export EXCEPT ![e].state = "recovery"]
  <2>1. \/ Output!RememberTerminal(e, export)
        \/ Output!RememberTerminal(e, IF Output!Exists(e) THEN [export EXCEPT ![e].state = "recovery"] ELSE export)
    BY DEF Output!WriteRow
  <2> QED  BY <2>1
<1>7. \A x \in Exports : /\ marked[x].submitted = export[x].submitted /\ marked[x].snapshot = export[x].snapshot
                         /\ marked[x].revision = export[x].revision
                         /\ marked[x] = export[x] \/ (x = e /\ marked[x].state = "recovery" /\ Output!Exists(x))
  BY <1>6 DEF ExportInv, ExportTypes
<1> DEFINE V == Output!Evicted(e)
<1>8. /\ V \subseteq Exports /\ \A x \in V : Over(x)
      /\ order' \in Seq(Exports) /\ \A x \in Of(order') : x \in Exports /\ Over(x)
  BY <1>5, <1>6, RememberedIsOver
<1>9. /\ \A x \in Exports : export'[x] = IF x \in V THEN Output!NoRecord ELSE marked[x]
      /\ forgotten' = forgotten \cup {x \in V : job[x] \notin {"none", "running"}}
  BY <1>6 DEF Output!RememberTerminal
<1> HIDE DEF V
<1>10. \A x \in Exports : StillJob(x)
  BY <1>2, <1>9 DEF StillJob
<1>11. \A x \in Exports : StillRecord(x)
  <2> SUFFICES ASSUME NEW x \in Exports  PROVE StillRecord(x)
    OBVIOUS
  <2>1. CASE x \in V
    <3>1. export'[x] = Output!NoRecord /\ Over(x)
      BY <1>8, <1>9, <2>1
    <3>2. export'[x].state = "none" /\ ~export'[x].snapshot /\ ~export'[x].submitted
      BY <3>1 DEF Output!NoRecord
    <3>3. Over(x) /\ Calm(x) /\ ~Output!Exists(x)'
      BY <3>1, <3>2 DEF Over, Output!Exists
    <3> HIDE DEF Over, Calm
    <3> QED  BY <3>2, <3>3 DEF StillRecord
  <2>2. CASE x \notin V
    <3>1. export'[x] = marked[x]
      BY <1>9, <2>2
    <3>2. CASE marked[x] = export[x]
      BY <3>1, <3>2 DEF StillRecord, Output!Active, Output!Exists
    <3>3. CASE x = e /\ marked[x].state = "recovery" /\ Output!Exists(x)
      <4>1. Over(x) /\ Calm(x)
        BY <1>5, <3>3 DEF Over
      <4> HIDE DEF Over, Calm
      <4> QED  BY <1>7, <3>1, <3>3, <4>1 DEF StillRecord
    <3> QED  BY <1>7, <3>2, <3>3
  <2> QED  BY <2>1, <2>2
<1>12. PICK h : h = Head(agenda[t]) /\ Dispensable(t, h)
  <2>1. PICK h : h = Head(agenda[t])
    OBVIOUS
  <2>2. h.do = Head(agenda[t]).do /\ h.of = Head(agenda[t]).of
    BY <2>1
  <2>3. Dispensable(t, h)
    BY <2>2, <1>3 DEF Dispensable, StartSteps
  <2> QED  BY <2>1, <2>3
<1>13. \A x \in Exports : Still(x)
  BY <1>1, <1>2, <1>4, <1>10, <1>11, <1>12, OneStill
<1>14. PICK q \in Seq(Exports) : order' = q
  BY <1>8
<1>15. \A x \in Of(q) : Over(x)'
  BY <1>2, <1>8, <1>13, <1>14, StillStands
<1>16. OrderIsOver'
  <2> HIDE DEF Over
  <2> QED  BY <1>14, <1>15, OrderIsKept
<1> QED  BY <1>1, <1>2, <1>4, <1>10, <1>11, <1>12, <1>16, OneStep DEF SameAuthority

\* A record at its end is of an export that is over.
LEMMA TerminalIsOver ==
  ASSUME ExportInv, OwnerInv, NEW e \in Exports, Output!Exists(e), ~Output!Active(e)
  PROVE  Over(e)
<1>1. proposed[e] /\ ~Inserting(e)
  BY DEF ExportInv, RecordsAreProposed, RowsAreFlagged
<1> HIDE DEF Inserting, Over
<1> QED  BY <1>1 DEF OwnerInv, RecordIsSound, StatesAreTrue

LEMMA NobodyStill ==
  ASSUME ExportInv, UNCHANGED <<agenda, alive>>, \A x \in Exports : StillJob(x) /\ StillRecord(x)
  PROVE  \A x \in Exports : Still(x)
BY NobodyGoesOn DEF Still

LEMMA ReleaseOwned ==
  ASSUME ExportInv, ExportInv', OwnerInv, NEW e \in Exports, Output!Release(e)
  PROVE  OwnerInv'
<1>1. UNCHANGED <<leased, open, revision, decision, proposed, exportApproval, job, killed, agenda, alive, exportLane>>
  BY DEF Output!Release, Output!authority, Output!folder, Output!records, Output!jobs, Output!threads
<1>2. Over(e) /\ Calm(e)
  <2>1. Output!Exists(e) /\ ~Output!Active(e)
    BY DEF Output!Release, Output!Owned, Output!Terminal, Output!Active, Output!Finished, Output!Undecided
  <2>2. Over(e)
    BY <2>1, TerminalIsOver
  <2> QED  BY <2>2 DEF Over
<1>3. /\ export'[e] = Output!NoRecord /\ \A x \in Exports : x # e => export'[x] = export[x]
      /\ \A x \in forgotten' : x \in forgotten \/ job[x] \notin {"none", "running"}
      /\ order' = Output!Without(e)
  BY DEF Output!Release, ExportInv, ExportTypes
<1> HIDE DEF Over, Calm
<1>4. \A x \in Exports : StillJob(x)
  BY <1>1, <1>3 DEF StillJob
<1>5. StillRecord(e)
  <2>1. export'[e].state = "none" /\ ~export'[e].snapshot /\ ~export'[e].submitted /\ ~Output!Exists(e)'
    BY <1>3 DEF Output!NoRecord, Output!Exists
  <2> QED  BY <1>2, <2>1 DEF StillRecord
<1>6. ASSUME NEW x \in Exports, x # e  PROVE StillRecord(x)
  BY <1>3, <1>6 DEF StillRecord, Output!Active, Output!Exists
<1>7. \A x \in Exports : Still(x)
  BY <1>1, <1>4, <1>5, <1>6, NobodyStill
<1>8. order \in Seq(Exports) /\ \A x \in Of(order) : Over(x)
  BY DEF OwnerInv, OrderIsOver, Of
<1>9. PICK q \in Seq(Exports) : order' = q /\ Of(q) \subseteq Of(order)
  BY <1>3, <1>8, WithoutIsPart
<1>10. Of(q) \subseteq Exports
  BY <1>9 DEF Of
<1>11. \A x \in Of(q) : Over(x)'
  BY <1>1, <1>7, <1>8, <1>9, <1>10, StillStands
<1>12. OrderIsOver'
  BY <1>9, <1>11, OrderIsKept
<1> QED  BY <1>1, <1>4, <1>5, <1>6, <1>12, StandingStep DEF SameAuthority

--------------------------------------------------------------------------------
(* The lane, and starts that fail.                                         *)

LEMMA EnterOwned ==
  ASSUME ExportInv, ExportInv', OwnerInv, NEW t \in Output!Threads, NEW e \in Exports, Output!Enter(t, e)
  PROVE  OwnerInv'
<1>1. Output!Doing(t, "enter", e) /\ Output!Then(t, <<>>) /\ exportLane = Nobody /\ exportLane' = t
  BY DEF Output!Enter
<1>2. UNCHANGED <<leased, open, revision, export, decision, proposed, order, exportApproval, job, killed, forgotten, alive>>
  BY DEF Output!Enter, Output!authority, Output!folder, Output!records, Output!jobs, Output!threads
<1>3. agenda[t] # <<>> /\ Head(agenda[t]).do = "enter" /\ All(t) = {Head(agenda[t])} \cup Later(t)
  BY <1>1, StepsAtHand
<1>4. Turns(t, {}, Later(t)) /\ NoStart({})
  BY <1>1, <1>3, NothingPut DEF NoStart
<1>5. LaneIsHeld'
  <2>1. (\E d \in NeedsLane : Does(t, d)') => Does(t, "leave")'
    <3>1. (\E d \in NeedsLane : Does(t, d)') => \E d \in NeedsLane : Does(t, d)
      BY <1>3, <1>4 DEF Does, Turns
    <3>2. Does(t, "leave") => Does(t, "leave")'
      BY <1>3, <1>4 DEF Does, Turns
    <3> QED  BY <3>1, <3>2 DEF OwnerInv, LaneIsHeld
  <2> QED  BY <1>1, <1>4, <2>1, LaneIsTaken DEF OwnerInv
<1>6. \A s \in All(t) : s \in All(t)' \/ (Dispensable(t, s) /\ s.do # "clean")
  BY <1>3, <1>4 DEF Turns, Dispensable, StartSteps
<1>7. \A x \in Exports : t = Output!Watcher(x) => ~Unwatched(x)
  BY <1>3 DEF Unwatched
<1>8. \A x \in Exports : StillJob(x) /\ StillRecord(x)
  BY <1>2, JobsUnchanged, RecordsUnchanged
<1> QED  BY <1>2, <1>3, <1>4, <1>5, <1>6, <1>7, <1>8, QuietTurn DEF SameAuthority, NoNewWatcher

LEMMA LeaveLaneOwned ==
  ASSUME ExportInv, ExportInv', OwnerInv, NEW t \in Output!Threads, Output!LeaveLane(t)
  PROVE  OwnerInv'
<1>1. Output!Doing(t, "leave", Nobody) /\ Output!Then(t, <<>>)
  BY DEF Output!LeaveLane
<1>2. UNCHANGED <<leased, open, revision, export, decision, proposed, order, exportApproval, job, killed, forgotten, alive>>
  BY DEF Output!LeaveLane, Output!authority, Output!folder, Output!records, Output!jobs, Output!threads
<1>3. agenda[t] # <<>> /\ Head(agenda[t]).do = "leave" /\ All(t) = {Head(agenda[t])} \cup Later(t) /\ Does(t, "leave")
  BY <1>1, StepsAtHand
<1>4. Turns(t, {}, Later(t)) /\ NoStart({})
  BY <1>1, <1>3, NothingPut DEF NoStart
<1>5. LaneIsHeld'
  <2>1. ~Does(t, "enter")
    BY <1>3, NoneEnters DEF Does
  <2>2. exportLane = t
    BY <1>3, <2>1 DEF OwnerInv, LaneIsHeld
  <2>3. \A s \in Later(t) : s.do \in {"fail", "look", "read", "close"}
    BY <1>3, FirstPrecedes DEF Precedes, OwnerInv
  <2>4. ~Does(t, "leave")' /\ \A d \in NeedsLane : ~Does(t, d)'
    BY <1>4, <2>3 DEF Does, Turns, NeedsLane, StartSteps
  <2>5. ASSUME NEW u \in Output!Threads, u # t
        PROVE  /\ ~(Does(u, "leave")' /\ ~Does(u, "enter")')
               /\ (\E d \in NeedsLane : Does(u, d)') => Does(u, "leave")'
    <3>1. \A d : Does(u, d)' <=> Does(u, d)
      BY <1>4, <2>5 DEF Does, Turns
    <3> QED  BY <2>2, <2>5, <3>1 DEF OwnerInv, LaneIsHeld
  <2> QED  BY <2>4, <2>5 DEF LaneIsHeld
<1>6. \A s \in All(t) : s \in All(t)' \/ (Dispensable(t, s) /\ s.do # "clean")
  BY <1>3, <1>4 DEF Turns, Dispensable, StartSteps
<1>7. \A x \in Exports : t = Output!Watcher(x) => ~Unwatched(x)
  BY <1>3 DEF Unwatched
<1>8. \A x \in Exports : StillJob(x) /\ StillRecord(x)
  BY <1>2, JobsUnchanged, RecordsUnchanged
<1> QED  BY <1>2, <1>3, <1>4, <1>5, <1>6, <1>7, <1>8, QuietTurn DEF SameAuthority, NoNewWatcher

\* A thread in the lane that drops the rest of what it was to do there.
LEMMA LaneIsKept ==
  ASSUME ExportInv, LaneIsHeld, NEW t \in Output!Threads, NEW do \in NeedsLane, NEW e, Output!Doing(t, do, e),
         NEW P, NEW K, Turns(t, P, K), exportLane' = exportLane,
         \E s \in P : s.do = "leave"
  PROVE  LaneIsHeld'
<1>1. All(t) = {Head(agenda[t])} \cup Later(t) /\ Head(agenda[t]).do = do /\ Does(t, do)
  BY StepsAtHand
<1>2. do # "enter"
  BY DEF NeedsLane, StartSteps
<1>3. ~Does(t, "enter")
  BY <1>1, <1>2, NoneEnters DEF Does
<1>4. Does(t, "leave") /\ Does(t, "leave")'
  BY <1>1 DEF LaneIsHeld, Does, Turns
<1> QED  BY <1>3, <1>4, LaneStays

LEMMA KillOwned ==
  ASSUME ExportInv, ExportInv', OwnerInv, NEW t \in Output!Threads, NEW e \in Exports, Output!Kill(t, e)
  PROVE  OwnerInv'
<1> DEFINE r == Output!Step("read", e)
           l == Output!Step("leave", Nobody)
<1>1. /\ Output!Doing(t, "kill", e)
      /\ Output!Then(t, <<r>>) \/ (t # Output!Cleaner /\ Output!Begin(t, <<l>>))
  BY DEF Output!Kill
<1>2. UNCHANGED <<leased, open, revision, export, decision, proposed, order, exportApproval, job, forgotten, alive, exportLane>>
  BY DEF Output!Kill, Output!authority, Output!folder, Output!records, Output!jobs, Output!threads
<1>3. /\ Head(agenda[t]).do = "kill" /\ Head(agenda[t]).of = e /\ agenda[t] # <<>>
      /\ proposed[e] /\ ~Inserting(e)
  BY <1>1, SoundAtHand
<1>4. killed \subseteq killed' /\ ~Live(e)'
  BY <1>2 DEF Output!Kill, Live
<1>5. \A x \in Exports : StillJob(x) /\ StillRecord(x)
  BY <1>2, <1>4, RecordsUnchanged DEF StillJob
<1>6. /\ r \in Steps /\ r.do = "read" /\ r.of = e
      /\ l \in Steps /\ l.do = "leave"
  BY TheStep DEF Doings
<1> HIDE DEF r, l, Inserting
<1>7. PICK h : h = Head(agenda[t]) /\ Dispensable(t, h)
  <2>1. PICK h : h = Head(agenda[t])
    OBVIOUS
  <2>2. h.do = Head(agenda[t]).do /\ h.of = Head(agenda[t]).of
    BY <2>1
  <2>3. Dispensable(t, h)
    BY <2>2, <1>3, <1>4 DEF Dispensable, StartSteps
  <2> QED  BY <2>1, <2>3
<1>8. CASE Output!Then(t, <<r>>)
  <2>1. Turns(t, {r}, Later(t)) /\ NoStart({r})
    BY <1>3, <1>6, <1>8, OnePut DEF Free, NoStart, StartSteps
  <2>2. Still(e)
    BY <1>1, <1>2, <1>5, <1>7, <2>1, OneStill
  <2>3. Sound(t, r)'
    <3>1. proposed'[e] /\ ~Inserting(e)'
      BY <1>3, <2>2 DEF Still, StillJob, StillSteps
    <3> QED  BY <1>6, <3>1 DEF Sound
  <2> HIDE DEF Sound
  <2>4. \A s \in {r} : Sound(t, s)' /\ s.do \notin {"enter", "leave", "kill"}
    BY <1>6, <2>3
  <2> QED  BY <1>1, <1>2, <1>5, <1>7, <2>1, <2>4, OneStep DEF SameAuthority
<1>9. CASE t # Output!Cleaner /\ Output!Begin(t, <<l>>)
  <2>1. Turns(t, {l}, {}) /\ NoStart({l})
    BY <1>6, <1>9, SortedOne, BeginTurns DEF OwnerInv, NoStart, StartSteps
  <2>2. LaneIsHeld'
    <3>1. "kill" \in NeedsLane
      BY DEF NeedsLane
    <3> QED  BY <1>1, <1>2, <1>6, <2>1, <3>1, LaneIsKept DEF OwnerInv
  <2>3. \A s \in All(t) : Dispensable(t, s) /\ s.do # "clean"
    <3>1. \A s \in Later(t) : s.do \in {"kill", "finish", "leave", "look", "read", "close"}
      BY <1>3, FirstPrecedes DEF Precedes, OwnerInv
    <3>2. \A s \in Later(t) : Dispensable(t, s) /\ s.do # "clean"
      BY <1>9, <3>1 DEF Dispensable, StartSteps
    <3>3. All(t) = {Head(agenda[t])} \cup Later(t)
      BY <1>1, StepsAtHand
    <3> QED  BY <1>3, <1>7, <3>2, <3>3
  <2>4. Sound(t, l)'
    BY <1>6 DEF Sound
  <2>5. \A x \in Exports : t = Output!Watcher(x) => ~Unwatched(x)
    BY <1>3 DEF Unwatched
  <2> HIDE DEF Sound
  <2> QED  BY <1>2, <1>5, <1>6, <2>1, <2>2, <2>3, <2>4, <2>5, QuietTurn DEF SameAuthority, NoNewWatcher
<1> QED  BY <1>1, <1>8, <1>9

\* What a start that fails leaves of the agenda.
LEMMA NotStartedTurns ==
  ASSUME ExportInv, OwnerInv, NEW t \in Output!Threads, NEW do \in StartSteps, NEW e \in Exports,
         Output!Doing(t, do, e), Output!NotStarted(t, e), exportLane' = exportLane
  PROVE  \E P, K : /\ Turns(t, P, K) /\ K \subseteq Later(t) /\ LaneIsHeld'
                   /\ P \subseteq {Output!Step("leave", Nobody), Output!Step("fail", e), Output!Step("look", e), Output!Step("read", e)}
                   /\ Output!Step("fail", e) \in P /\ (Output!Step("look", e) \in P => t = Output!Agent(Owner))
                   /\ \A s \in Later(t) : s \in K \/ s.do \in {"leave", "look", "read"}
<1> DEFINE l == Output!Step("leave", Nobody)
           f == Output!Step("fail", e)
           k == Output!Step("look", e)
           r == Output!Step("read", e)
<1>1. /\ Head(agenda[t]).do = do /\ Head(agenda[t]).of = e /\ agenda[t] # <<>> /\ Has(t, do, e)
  BY StepsAtHand
<1>2. /\ l \in Steps /\ f \in Steps /\ k \in Steps /\ r \in Steps
      /\ l.do = "leave" /\ f.do = "fail" /\ k.do = "look" /\ r.do = "read"
  BY TheStep DEF Doings
<1>3. Output!Status(e) = <<k, r>>
  BY DEF Output!Status
<1>4. do \in NeedsLane
  BY DEF NeedsLane
<1>5. CASE decision[e] = "delegated"
  <2>1. Output!Begin(t, <<l, f>> \o <<k, r>>)
    BY <1>3, <1>5 DEF Output!NotStarted
  <2> HIDE DEF l, f, k, r
  <2>2. Output!Begin(t, <<l, f, k, r>>)
    BY <2>1, TwoAndTwo
  <2>3. Sorted(<<l, f, k, r>>) /\ <<l, f, k, r>> \in Seq(Steps) /\ Of(<<l, f, k, r>>) = {l, f, k, r}
    <3>1. /\ \A y \in {f, k, r} : Precedes(l.do, y.do)
          /\ \A y \in {k, r} : Precedes(f.do, y.do)
          /\ Precedes(k.do, r.do)
      BY <1>2 DEF Precedes
    <3> QED  BY <1>2, <3>1, SortedFour
  <2>4. Turns(t, {l, f, k, r}, {})
    BY <2>2, <2>3, BeginTurns DEF OwnerInv
  <2>5. LaneIsHeld'
    <3>1. \E s \in {l, f, k, r} : s.do = "leave"
      BY <1>2
    <3> QED  BY <1>4, <2>4, <3>1, LaneIsKept DEF OwnerInv
  <2>6. t = Output!Agent(Owner)
    BY <1>1, <1>5 DEF OwnerInv, RecordIsSound, StartsOnce, Starting
  <2>7. \A s \in Later(t) : s.do \in {"leave", "look", "read"}
    BY <1>1, FirstPrecedes DEF Precedes, OwnerInv, StartSteps
  <2>8. {} \subseteq Later(t)
    OBVIOUS
  <2> QED  BY <2>4, <2>5, <2>6, <2>7, <2>8 DEF l, f, k, r
<1>6. CASE decision[e] # "delegated"
  <2>1. Output!Then(t, <<f>>)
    BY <1>6 DEF Output!NotStarted
  <2> HIDE DEF l, f, k, r
  <2>2. Turns(t, {f}, Later(t))
    BY <1>1, <1>2, <2>1, OnePut DEF Free
  <2>3. LaneIsHeld'
    <3>1. do \notin {"enter", "leave"} /\ \A s \in {f} : s.do \notin {"enter", "leave"} /\ s.do \notin NeedsLane
      BY <1>2 DEF NeedsLane, StartSteps
    <3> QED  BY <2>2, <3>1, LaneGoesOn DEF OwnerInv
  <2>4. k # f
    BY <1>2
  <2> QED  BY <2>2, <2>3, <2>4 DEF l, f, k, r
<1> QED  BY <1>5, <1>6

\* A thread that starts an export is the only one, and is at the step at hand.
LEMMA StarterIsAlone ==
  ASSUME ExportInv, OwnerInv, NEW t \in Output!Threads, NEW do \in StartSteps, NEW e \in Exports, Output!Doing(t, do, e)
  PROVE  /\ Starting(t, e) /\ \A u \in Output!Threads : Starting(u, e) => u = t
         /\ do # "take" => ~export[e].snapshot
         /\ do # "register" => job[e] = "none"
         /\ do = "register" => job[e] # "none"
         /\ decision[e] = "delegated" => t = Output!Agent(Owner)
         /\ \A s \in Later(t) : s.do \in {"leave", "look", "read"}
<1>1. Head(agenda[t]).do = do /\ agenda[t] # <<>> /\ Has(t, do, e)
  BY StepsAtHand
<1>2. Starting(t, e)
  BY <1>1 DEF Starting
<1>3. StartsOnce(e)
  BY DEF OwnerInv, RecordIsSound
<1>4. \A s \in Later(t) : s.do \in {"leave", "look", "read"}
  BY <1>1, FirstPrecedes DEF Precedes, OwnerInv, StartSteps
<1> QED  BY <1>1, <1>2, <1>3, <1>4 DEF StartsOnce, StartSteps

LEMMA NotStartedOwned ==
  ASSUME ExportInv, ExportInv', OwnerInv, NEW t \in Output!Threads, NEW do \in StartSteps, NEW e \in Exports,
         Output!Doing(t, do, e), Output!NotStarted(t, e),
         UNCHANGED <<leased, open, revision, export, decision, proposed, order, exportApproval, job, killed, forgotten, alive, exportLane>>,
         do = "take" /\ export[e].snapshot => export[e].state \notin {"queued", "awaiting"},
         do = "register" => Over(e)
  PROVE  OwnerInv'
<1> DEFINE l == Output!Step("leave", Nobody)
           f == Output!Step("fail", e)
           k == Output!Step("look", e)
           r == Output!Step("read", e)
<1>2. PICK P, K : /\ Turns(t, P, K) /\ K \subseteq Later(t) /\ LaneIsHeld' /\ P \subseteq {l, f, k, r}
                  /\ f \in P /\ (k \in P => t = Output!Agent(Owner))
                  /\ \A s \in Later(t) : s \in K \/ s.do \in {"leave", "look", "read"}
  BY NotStartedTurns
<1>3. /\ Head(agenda[t]).do = do /\ Head(agenda[t]).of = e /\ agenda[t] # <<>>
      /\ proposed[e] /\ ~Inserting(e)
  BY SoundAtHand DEF StartSteps
<1>4. PICK h : h = Head(agenda[t])
  OBVIOUS
<1>5. h.do = do /\ h.of = e /\ All(t) = {h} \cup Later(t)
  BY <1>3, <1>4, StepsAtHand
<1>6. /\ l.do = "leave" /\ f.do = "fail" /\ k.do = "look" /\ r.do = "read"
      /\ f.of = e /\ k.of = e /\ r.of = e
  BY TheStep DEF Doings
<1> HIDE DEF l, f, k, r, Inserting
<1>7. Has(t, "fail", e)'
  <2>1. f \in All(t)'
    BY <1>2 DEF Turns
  <2> QED  BY <1>6, <2>1 DEF Has
<1>8. Dispensable(t, h)
  <2>1. \E d \in StartSteps \cup {"fail"} : Has(t, d, e)'
    BY <1>7
  <2>2. h.do = "register" => Over(h.of)
    BY <1>5
  <2>3. h.do \notin {"insert", "kill"}
    BY <1>5 DEF StartSteps
  <2> HIDE DEF Over
  <2> QED  BY <1>5, <2>1, <2>2, <2>3 DEF Dispensable
<1>9. \A s \in All(t) : s \in All(t)' \/ (Dispensable(t, s) /\ s.do # "clean")
  <2>1. \A s \in Later(t) : s \in All(t)' \/ s.do \in {"leave", "look", "read"}
    BY <1>2 DEF Turns
  <2>2. \A s \in Later(t) : s.do \in {"leave", "look", "read"} => Dispensable(t, s) /\ s.do # "clean"
    BY DEF Dispensable, StartSteps
  <2>3. h.do # "clean"
    BY <1>5 DEF StartSteps
  <2> HIDE DEF Dispensable
  <2> QED  BY <1>5, <1>8, <2>1, <2>2, <2>3
<1>10. NoStart(P) /\ K \subseteq All(t) /\ NoNewWatcher
  BY <1>2, <1>5, <1>6 DEF NoStart, StartSteps, NoNewWatcher
<1>11. \A x \in Exports : StillJob(x) /\ StillRecord(x)
  BY JobsUnchanged, RecordsUnchanged
<1>12. \A x \in Exports : t = Output!Watcher(x) => ~Unwatched(x)
  BY <1>3 DEF Unwatched
<1>13. Still(e)
  BY <1>2, <1>9, <1>10, <1>11, <1>12, StepsGoOn DEF Still, NoNewWatcher
<1>14. proposed'[e] /\ ~Inserting(e)'
  BY <1>3, <1>13 DEF Still, StillSteps, StillJob
<1>15. Over(e)'
  <2>1. CASE do # "register"
    <3>1. /\ \A u \in Output!Threads : Starting(u, e) => u = t
          /\ \A s \in Later(t) : s.do \in {"leave", "look", "read"}
          /\ job[e] = "none" /\ (do # "take" => ~export[e].snapshot)
      BY <2>1, StarterIsAlone
    <3>2. ~Live(e)' /\ (export'[e].snapshot => export'[e].state \notin {"queued", "awaiting"})
      BY <3>1 DEF Live
    <3>3. ASSUME NEW u \in Output!Threads, NEW d \in {"check", "submit", "replace"}  PROVE ~Has(u, d, e)'
      <4>1. CASE u = t
        <5>1. \A s \in All(t)' : s.do \in {"leave", "look", "read", "fail"}
          BY <1>2, <1>6, <3>1 DEF Turns
        <5> QED  BY <3>3, <4>1, <5>1 DEF Has
      <4>2. CASE u # t
        <5>1. All(u)' = All(u)
          BY <1>2, <4>2 DEF Turns
        <5>2. ~Has(u, d, e)
          BY <3>1, <3>3, <4>2 DEF Starting, StartSteps
        <5> QED  BY <5>1, <5>2 DEF Has
      <4> QED  BY <4>1, <4>2
    <3> QED  BY <1>14, <3>2, <3>3 DEF Over, Calm
  <2>2. CASE do = "register"
    BY <1>13, <2>2, StillStands
  <2> QED  BY <2>1, <2>2
<1> HIDE DEF Over
<1>16. \A s \in P : Sound(t, s)' /\ s.do # "enter"
  <2>1. Sound(t, l)'
    BY <1>6 DEF Sound
  <2>2. Sound(t, f)'
    BY <1>6, <1>14, <1>15 DEF Sound
  <2>3. Sound(t, r)'
    BY <1>6, <1>14 DEF Sound
  <2>4. k \in P => Sound(t, k)'
    BY <1>2, <1>6, <1>14 DEF Sound
  <2> HIDE DEF Sound
  <2> QED  BY <1>2, <1>6, <2>1, <2>2, <2>3, <2>4
<1>17. SameAuthority
  BY DEF SameAuthority
<1> HIDE DEF Sound
<1> QED  BY <1>2, <1>9, <1>10, <1>11, <1>12, <1>16, <1>17, QuietTurn

--------------------------------------------------------------------------------
(* Starts that go on.                                                      *)

NextStarts == {"check", "submit", "replace", "register"}
GoesOn(P, e) == \A s \in P : s.of = e /\ s.do \in NextStarts

LEMMA StartTurns ==
  ASSUME ExportInv, ExportInv', OwnerInv, NEW t \in Output!Threads, NEW do \in StartSteps, NEW e \in Exports,
         Output!Doing(t, do, e), NEW P, Turns(t, P, Later(t)), GoesOn(P, e)
  PROVE  /\ proposed[e] /\ ~Inserting(e) /\ ~Inserting(e)' /\ RecordIsSound(e) /\ t # Output!Cleaner
         /\ \A u \in Output!Threads, d \in StartSteps : Has(u, d, e)' <=> (u = t /\ \E s \in P : s.do = d)
         /\ \A d : d \notin StartSteps => \A u \in Output!Threads : Has(u, d, e) => Has(u, d, e)'
         /\ Cleaning => Cleaning'
<1>1. /\ Head(agenda[t]).do = do /\ Head(agenda[t]).of = e /\ agenda[t] # <<>> /\ All(t) = {Head(agenda[t])} \cup Later(t)
  BY StepsAtHand
<1>2. proposed[e] /\ ~Inserting(e) /\ RecordIsSound(e)
  BY SoundAtHand DEF StartSteps
<1>3. t # Output!Cleaner
  BY AtStep DEF CleanersDo, StartSteps
<1>4. /\ \A u \in Output!Threads : Starting(u, e) => u = t
      /\ \A s \in Later(t) : s.do \in {"leave", "look", "read"}
  BY StarterIsAlone
<1> HIDE DEF Inserting
<1>5. ~Inserting(e)'
  <2>1. \A u \in Output!Threads : Has(u, "insert", e)' => Has(u, "insert", e)
    BY <1>1, HasBefore DEF GoesOn, NextStarts
  <2> QED  BY <1>2, <2>1, InsertingHas
<1>6. ASSUME NEW u \in Output!Threads, NEW d \in StartSteps
      PROVE  Has(u, d, e)' <=> (u = t /\ \E s \in P : s.do = d)
  <2>1. CASE u = t
    <3>1. \A s \in Later(t) : s.do # d
      BY <1>4 DEF StartSteps
    <3> QED  BY <2>1, <3>1 DEF Has, Turns, GoesOn
  <2>2. CASE u # t
    <3>1. ~Has(u, d, e)
      BY <1>4, <2>2 DEF Starting
    <3> QED  BY <2>2, <3>1 DEF Has, Turns
  <2> QED  BY <2>1, <2>2
<1>7. ASSUME NEW u \in Output!Threads, NEW d, d \notin StartSteps, Has(u, d, e)  PROVE Has(u, d, e)'
  <2>1. CASE u = t
    BY <1>1, <1>7, <2>1 DEF Has, Turns
  <2>2. CASE u # t
    BY <1>7, <2>2 DEF Has, Turns
  <2> QED  BY <2>1, <2>2
<1>8. Cleaning => Cleaning'
  BY <1>3, TheThreads DEF Cleaning, Does, Turns
<1> QED  BY <1>2, <1>3, <1>5, <1>6, <1>7, <1>8

\* An export that starts is neither over nor left waiting, but for one the coordinator has.
LEMMA StarterIsNotOver ==
  ASSUME ExportInv, OwnerInv, NEW t \in Output!Threads, NEW do \in StartSteps, NEW e \in Exports, Output!Doing(t, do, e)
  PROVE  /\ \A u \in Output!Threads : ~Lapsed(u, e)
         /\ do \in {"check", "submit", "replace"} => ~Over(e)
<1>1. Starting(t, e) /\ Has(t, do, e)
  BY StarterIsAlone, StepsAtHand
<1> QED  BY <1>1 DEF Lapsed, Over, Calm

\* A step that is of one export: the others stand still.
LEMMA OneMoves ==
  ASSUME ExportInv, ExportInv', OwnerInv, NEW t \in Output!Threads, NEW P, NEW K, Turns(t, P, K), K \subseteq All(t),
         NEW e \in Exports, \A x \in Exports \ {e} : Still(x), RecordIsSound(e)', Over(e) => Over(e)', LaneIsHeld', EntersDelegated',
         \A s \in P : Sound(t, s)',
         \A u \in Output!Threads : \A s \in All(u) :
            s.of = e /\ s.do \notin {"insert", "leave", "clean", "close"} /\ Sound(u, s) => Sound(u, s)',
         SameAuthority, Cleaning => Cleaning', UNCHANGED order
  PROVE  OwnerInv'
<1> HIDE DEF Inserting, Over, Cleaning
<1>1. \A x \in Exports : RecordIsSound(x)'
  <2> SUFFICES ASSUME NEW x \in Exports \ {e}  PROVE RecordIsSound(x)'
    OBVIOUS
  <2>1. Still(x) /\ RecordIsSound(x) /\ leased' \subseteq leased
    BY DEF OwnerInv, SameAuthority
  <2>2. Watching
    BY DEF Watching, SameAuthority
  <2>3. Live(x)' => open'
    BY <2>1, StillStands DEF RecordIsSound, RunsAreWatched, SameAuthority
  <2> QED  BY <2>1, <2>2, <2>3, StillStartsOnce, StillStates, StillRuns DEF RecordIsSound
<1>2. \A x \in Exports : Over(x) => Over(x)'
  BY StillStands DEF SameAuthority
<1>3. StepsAreSound'
  <2>1. ASSUME NEW u \in Output!Threads, NEW s \in All(u)  PROVE Sound(u, s)'
    <3>1. Sound(u, s)
      BY DEF OwnerInv, StepsAreSound
    <3>2. CASE s.do \in {"insert", "leave", "clean", "close"}
      BY <3>2 DEF Sound
    <3>3. CASE s.do \notin {"insert", "leave", "clean", "close"} /\ s.of # e
      <4>1. Still(s.of)
        BY <3>1, <3>3 DEF Sound
      <4> QED  BY <3>1, <4>1, SoundStays DEF SameAuthority
    <3>4. CASE s.do \notin {"insert", "leave", "clean", "close"} /\ s.of = e
      <4> HIDE DEF Sound
      <4> QED  BY <3>1, <3>4
    <3> QED  BY <3>2, <3>3, <3>4
  <2> SUFFICES ASSUME NEW u \in Output!Threads, NEW s \in All(u)'  PROVE Sound(u, s)'
    BY DEF StepsAreSound
  <2>2. s \in All(u) \/ (u = t /\ s \in P)
    BY DEF Turns
  <2> HIDE DEF Sound
  <2> QED  BY <2>1, <2>2
<1>4. OrderIsOver'
  BY <1>2, OrderStands DEF OwnerInv
<1> QED  BY <1>1, <1>3, <1>4 DEF OwnerInv, Turns

LEMMA OthersStill ==
  ASSUME ExportInv, ExportInv', NEW t \in Output!Threads, NEW P, NEW K, Turns(t, P, K), K \subseteq All(t), NEW e \in Exports,
         \A s \in P : s.do \in StartSteps \cup {"insert"} => s.of = e,
         \A s \in All(t) : s \in K \/ s.of = e \/ s.do \in {"leave", "look", "read", "enter"},
         \A x \in Exports \ {e} : Output!Watcher(x) \in alive' => Output!Watcher(x) \in alive,
         \A x \in Exports : t = Output!Watcher(x) => ~Unwatched(x),
         \A x \in Exports \ {e} : StillJob(x) /\ StillRecord(x)
  PROVE  \A x \in Exports \ {e} : Still(x)
<1> SUFFICES ASSUME NEW x \in Exports \ {e}  PROVE StillSteps(x)
  BY DEF Still
<1>1. \A s \in P : s.of = x => s.do \notin StartSteps \cup {"insert"}
  OBVIOUS
<1>2. \A s \in All(t) : s.of = x => s \in All(t)' \/ Dispensable(t, s)
  BY DEF Turns, Dispensable, StartSteps
<1> QED  BY <1>1, <1>2, StepsGoOnFor

LEMMA StartMoves ==
  ASSUME ExportInv, ExportInv', OwnerInv, NEW t \in Output!Threads, NEW do \in StartSteps, NEW e \in Exports,
         Output!Doing(t, do, e), NEW P, NEW K, Turns(t, P, K), K \subseteq Later(t), LaneIsHeld',
         \A s \in P : Sound(t, s)' /\ s.do \notin {"enter", "take", "insert"} /\ (s.of = e \/ s.do = "leave"),
         \A s \in Later(t) : s \in K \/ s.do \in {"leave", "look", "read"}, ~Inserting(e)', Cleaning => Cleaning',
         UNCHANGED <<leased, open, revision, decision, proposed, order, exportApproval, exportLane>>, NoNewWatcher,
         \A x \in Exports \ {e} : StillJob(x) /\ StillRecord(x),
         RecordIsSound(e)', Over(e) => Over(e)', Output!Exists(e),
         export[e].submitted => export'[e].submitted
  PROVE  OwnerInv'
<1>1. /\ Head(agenda[t]).do = do /\ Head(agenda[t]).of = e /\ agenda[t] # <<>> /\ All(t) = {Head(agenda[t])} \cup Later(t)
  BY StepsAtHand
<1>2. proposed[e] /\ ~Inserting(e)
  BY SoundAtHand DEF StartSteps
<1> HIDE DEF Inserting, Over, Cleaning
<1>3. \A x \in Exports \ {e} : Still(x)
  <2>1. \A s \in P : s.do \in StartSteps \cup {"insert"} => s.of = e
    <3> HIDE DEF Sound
    <3> QED  BY DEF StartSteps
  <2>2. \A s \in All(t) : s \in K \/ s.of = e \/ s.do \in {"leave", "look", "read", "enter"}
    BY <1>1
  <2>3. \A x \in Exports : t = Output!Watcher(x) => ~Unwatched(x)
    BY <1>1 DEF Unwatched
  <2>4. K \subseteq All(t) /\ \A x \in Exports \ {e} : Output!Watcher(x) \in alive' => Output!Watcher(x) \in alive
    BY <1>1 DEF NoNewWatcher
  <2> HIDE DEF Sound
  <2> QED  BY <2>1, <2>2, <2>3, <2>4, OthersStill
<1>4. ASSUME NEW u \in Output!Threads, NEW s \in All(u), s.of = e, s.do \notin {"insert", "leave", "clean", "close"}, Sound(u, s)
      PROVE  Sound(u, s)'
  <2>1. s.do \in {"finish", "row", "fail"} => Over(e)
    BY <1>4, StarterIsNotOver DEF Sound
  <2>2. s.do = "apply" /\ s.saw # "running" => Over(e)
    BY <1>4 DEF Sound
  <2>3. s.do = "apply" => export'[e].submitted
    BY <1>4 DEF Sound
  <2>4. s.do = "look" => u \in {Output!Agent(Owner), Output!Watcher(e)}
    BY <1>4 DEF Sound
  <2>5. proposed'[e]
    BY <1>2
  <2> QED  BY <1>4, <2>1, <2>2, <2>3, <2>4, <2>5 DEF Sound
<1>5. EntersDelegated'
  <2>1. K \subseteq All(t)
    BY <1>1
  <2> HIDE DEF Sound
  <2> QED  BY <2>1, EntersGoOn DEF OwnerInv
<1>6. SameAuthority
  BY DEF SameAuthority
<1>7. K \subseteq All(t)
  BY <1>1
<1> HIDE DEF Sound
<1> QED  BY <1>3, <1>4, <1>5, <1>6, <1>7, OneMoves

LEMMA StartGoesOn ==
  ASSUME ExportInv, ExportInv', OwnerInv, NEW t \in Output!Threads, NEW do \in StartSteps, NEW e \in Exports,
         Output!Doing(t, do, e), NEW P, Turns(t, P, Later(t)), GoesOn(P, e),
         UNCHANGED <<leased, open, revision, decision, proposed, order, exportApproval, exportLane>>, NoNewWatcher,
         \A x \in Exports \ {e} : StillJob(x) /\ StillRecord(x),
         RecordIsSound(e)', Over(e) => Over(e)', Output!Exists(e),
         export[e].submitted => export'[e].submitted
  PROVE  OwnerInv'
<1> HIDE DEF Inserting, Over, Cleaning
<1>1. proposed'[e] /\ ~Inserting(e)' /\ (Cleaning => Cleaning')
  BY StartTurns
<1>2. LaneIsHeld'
  <2>1. do \notin {"enter", "leave"} /\ \A s \in P : s.do \notin {"enter", "leave"} /\ (s.do \in NeedsLane => do \in NeedsLane)
    BY DEF GoesOn, NextStarts, NeedsLane, StartSteps
  <2> QED  BY <2>1, LaneGoesOn DEF OwnerInv
<1>3. \A s \in P : Sound(t, s)' /\ s.do \notin {"enter", "take", "insert"} /\ (s.of = e \/ s.do = "leave")
  <2> SUFFICES ASSUME NEW s \in P  PROVE Sound(t, s)' /\ s.do \notin {"enter", "take", "insert"} /\ s.of = e
    OBVIOUS
  <2>1. s.of = e /\ s.do \in NextStarts
    BY DEF GoesOn
  <2> QED  BY <1>1, <2>1 DEF Sound, NextStarts
<1> HIDE DEF Sound
<1> QED  BY <1>1, <1>2, <1>3, StartMoves

\* The next step of a start, on the agenda.
LEMMA NextPut ==
  ASSUME ExportInv, OwnerInv, NEW t \in Output!Threads, NEW do \in StartSteps, NEW e \in Exports, Output!Doing(t, do, e),
         NEW d \in NextStarts, Output!Then(t, <<Output!Step(d, e)>>)
  PROVE  /\ Turns(t, {Output!Step(d, e)}, Later(t)) /\ GoesOn({Output!Step(d, e)}, e)
         /\ Output!Step(d, e).do = d
<1> DEFINE s == Output!Step(d, e)
<1>1. s \in Steps /\ s.do = d /\ s.of = e
  BY TheStep DEF NextStarts, Doings
<1> HIDE DEF s
<1>2. \A b \in Later(t) : Precedes(s.do, b.do)
  BY <1>1, StarterIsAlone DEF Precedes, NextStarts
<1>3. agenda[t] # <<>>
  BY StepsAtHand
<1>4. Turns(t, {s}, Later(t))
  BY <1>1, <1>2, <1>3, SortedOne, ThenTurns DEF OwnerInv, s
<1> QED  BY <1>1, <1>4 DEF GoesOn, s

LEMMA TakeOwned ==
  ASSUME ExportInv, ExportInv', OwnerInv, NEW t \in Output!Threads, NEW e \in Exports, Output!Take(t, e)
  PROVE  OwnerInv'
<1>1. Output!Doing(t, "take", e) /\ "take" \in StartSteps
  BY DEF Output!Take, StartSteps
<1>2. UNCHANGED <<leased, open, revision, decision, proposed, order, exportApproval, job, killed, forgotten, alive, exportLane>>
  BY DEF Output!Take, Output!authority, Output!folder, Output!records, Output!jobs, Output!threads
<1>3. CASE export[e].state \in {"queued", "awaiting"} /\ export[e].snapshot
  <2> DEFINE s == Output!Step("check", e)
  <2>1. export' = [export EXCEPT ![e].snapshot = FALSE] /\ Output!Then(t, <<s>>)
    BY <1>3 DEF Output!Take
  <2>2. Turns(t, {s}, Later(t)) /\ GoesOn({s}, e) /\ s.do = "check"
    BY <1>1, <2>1, NextPut DEF NextStarts
  <2> HIDE DEF s, Inserting
  <2>3. /\ proposed[e] /\ ~Inserting(e) /\ ~Inserting(e)' /\ RecordIsSound(e)
        /\ \A u \in Output!Threads, d \in StartSteps : Has(u, d, e)' <=> (u = t /\ d = "check")
        /\ \A d : d \notin StartSteps => \A u \in Output!Threads : Has(u, d, e) => Has(u, d, e)'
    <3>1. \A d : (\E x \in {s} : x.do = d) <=> d = "check"
      BY <2>2
    <3> QED  BY <1>1, <2>2, <3>1, StartTurns
  <2>4. /\ job[e] = "none" /\ (decision[e] = "delegated" => t = Output!Agent(Owner))
        /\ \A u \in Output!Threads : Starting(u, e) => u = t
    BY <1>1, StarterIsAlone
  <2>5. /\ ~export'[e].snapshot /\ export'[e].state = export[e].state /\ export'[e].submitted = export[e].submitted
        /\ \A x \in Exports : x # e => export'[x] = export[x]
    BY <2>1 DEF ExportInv, ExportTypes
  <2>6. \A x \in Exports \ {e} : StillJob(x) /\ StillRecord(x)
    BY <1>2, <2>5, JobsUnchanged DEF StillRecord, Output!Active, Output!Exists
  <2>7. ~Over(e) /\ Output!Exists(e)
    BY <1>3 DEF Over, Output!Exists
  <2>8. StartsOnce(e) /\ ~export[e].submitted /\ e \notin forgotten
    BY <2>3, <2>4 DEF RecordIsSound, StartsOnce
  <2>9. StartsOnce(e)'
    <3>1. \A u \in Output!Threads : Starting(u, e)' => u = t
      BY <2>3 DEF Starting
    <3> QED  BY <1>2, <2>3, <2>4, <2>5, <2>8, <3>1 DEF StartsOnce, StartSteps
  <2>10. StatesAreTrue(e)'
    <3>1. StatesAreTrue(e) /\ Output!Active(e)'
      BY <1>3, <2>3, <2>5 DEF RecordIsSound, Output!Active, Output!Undecided
    <3>2. export[e].state = "awaiting" => decision[e] # "delegated"
      BY <3>1 DEF StatesAreTrue
    <3>3. ASSUME export[e].state \in {"queued", "running"}
          PROVE  \E d \in StartSteps \cup {"fail"} : Has(Output!Agent(Owner), d, e)'
      <4>1. PICK d \in StartSteps \cup {"fail"} : Has(Output!Agent(Owner), d, e)
        BY <2>8, <3>1, <3>3 DEF StatesAreTrue
      <4>2. CASE d \in StartSteps
        <5>1. t = Output!Agent(Owner)
          BY <2>4, <4>1, <4>2, TheThreads DEF Starting
        <5>2. "check" \in StartSteps /\ Has(t, "check", e)'
          BY <2>3 DEF StartSteps
        <5> QED  BY <5>1, <5>2
      <4>3. CASE d \notin StartSteps
        BY <2>3, <4>1, <4>3, TheThreads
      <4> QED  BY <4>2, <4>3
    <3> QED  BY <1>2, <2>3, <2>5, <3>1, <3>2, <3>3 DEF StatesAreTrue
  <2>11. RunsAreWatched(e)'
    <3>1. ~Live(e)'
      BY <1>2, <2>4 DEF Live
    <3>2. \A u \in Output!Threads : ~Has(u, "submit", e)' /\ ~Has(u, "replace", e)'
      BY <2>3 DEF StartSteps
    <3> QED  BY <3>1, <3>2 DEF RunsAreWatched
  <2>12. RecordIsSound(e)'
    BY <2>9, <2>10, <2>11 DEF RecordIsSound
  <2>13. NoNewWatcher
    BY <1>2 DEF NoNewWatcher
  <2> HIDE DEF Over
  <2> QED  BY <1>1, <1>2, <2>2, <2>5, <2>6, <2>7, <2>12, <2>13, StartGoesOn
<1>4. CASE ~(export[e].state \in {"queued", "awaiting"} /\ export[e].snapshot)
  <2>1. Output!NotStarted(t, e) /\ UNCHANGED export
    BY <1>4 DEF Output!Take
  <2> QED  BY <1>1, <1>2, <1>4, <2>1, NotStartedOwned
<1> QED  BY <1>3, <1>4

\* A start whose record is not changed.
LEMMA StartStatesStay ==
  ASSUME ExportInv, ExportInv', OwnerInv, NEW t \in Output!Threads, NEW do \in {"check", "submit", "replace"}, NEW e \in Exports,
         Output!Doing(t, do, e), NEW P, Turns(t, P, Later(t)), GoesOn(P, e), P # {},
         UNCHANGED <<export, decision, proposed>>
  PROVE  StatesAreTrue(e)' /\ Output!Exists(e) /\ ~export[e].submitted /\ e \notin forgotten
<1> HIDE DEF Inserting, Over, Unwatched
<1>1. do \in StartSteps
  BY DEF StartSteps
<1>2. /\ proposed[e] /\ ~Inserting(e) /\ ~Inserting(e)' /\ RecordIsSound(e)
      /\ \A u \in Output!Threads, d \in StartSteps : Has(u, d, e)' <=> (u = t /\ \E s \in P : s.do = d)
      /\ \A d : d \notin StartSteps => \A u \in Output!Threads : Has(u, d, e) => Has(u, d, e)'
  BY <1>1, StartTurns
<1>3. StatesAreTrue(e) /\ StartsOnce(e) /\ ~Over(e) /\ job[e] = "none" /\ \A u \in Output!Threads : Starting(u, e) => u = t
  BY <1>1, <1>2, StarterIsNotOver, StarterIsAlone DEF RecordIsSound
<1>4. Output!Active(e) /\ ~export[e].submitted /\ e \notin forgotten
  BY <1>2, <1>3 DEF StatesAreTrue, StartsOnce
<1>5. ASSUME export[e].state \in {"queued", "running"}
      PROVE  \E d \in StartSteps \cup {"fail"} : Has(Output!Agent(Owner), d, e)'
  <2>1. PICK d \in StartSteps \cup {"fail"} : Has(Output!Agent(Owner), d, e)
    BY <1>3, <1>4, <1>5 DEF StatesAreTrue
  <2>2. CASE d \in StartSteps
    <3>1. t = Output!Agent(Owner)
      BY <1>3, <2>1, <2>2, TheThreads DEF Starting
    <3>2. PICK s \in P : s.do \in StartSteps
      BY DEF GoesOn, NextStarts, StartSteps
    <3>3. Has(t, s.do, e)'
      BY <3>2 DEF Has, Turns, GoesOn
    <3> QED  BY <3>1, <3>2, <3>3
  <2>3. CASE d \notin StartSteps
    BY <1>2, <2>1, <2>3, TheThreads
  <2> QED  BY <2>2, <2>3
<1>6. StatesAreTrue(e)'
  <2>1. Output!Active(e)'
    BY <1>4 DEF Output!Active
  <2> QED  BY <1>2, <1>3, <1>5, <2>1 DEF StatesAreTrue
<1> QED  BY <1>4, <1>6 DEF Output!Exists, Output!Active, Output!Undecided

LEMMA CheckOwned ==
  ASSUME ExportInv, ExportInv', OwnerInv, NEW t \in Output!Threads, NEW e \in Exports, Output!Check(t, e)
  PROVE  OwnerInv'
<1>1. Output!Doing(t, "check", e) /\ "check" \in StartSteps
  BY DEF Output!Check, StartSteps
<1>2. UNCHANGED <<leased, open, revision, export, decision, proposed, order, exportApproval, job, killed, forgotten, alive, exportLane>>
  BY DEF Output!Check, Output!authority, Output!folder, Output!records, Output!jobs, Output!threads
<1>3. ASSUME NEW d \in {"submit", "replace"}, Output!Then(t, <<Output!Step(d, e)>>), Trusted(e)
      PROVE  OwnerInv'
  <2> DEFINE s == Output!Step(d, e)
  <2>2. Turns(t, {s}, Later(t)) /\ GoesOn({s}, e) /\ s.do = d
    BY <1>1, <1>3, NextPut DEF NextStarts
  <2> HIDE DEF s, Inserting
  <2>3. /\ proposed[e] /\ ~Inserting(e) /\ ~Inserting(e)' /\ RecordIsSound(e)
        /\ \A u \in Output!Threads, x \in StartSteps : Has(u, x, e)' <=> (u = t /\ x = d)
    <3>1. \A x : (\E y \in {s} : y.do = x) <=> x = d
      BY <2>2
    <3> QED  BY <1>1, <2>2, <3>1, StartTurns
  <2>4. /\ job[e] = "none" /\ ~export[e].snapshot /\ (decision[e] = "delegated" => t = Output!Agent(Owner))
    BY <1>1, StarterIsAlone
  <2>5. ~Over(e)
    BY <1>1, StarterIsNotOver
  <2>6. \A x \in Exports \ {e} : StillJob(x) /\ StillRecord(x)
    BY <1>2, JobsUnchanged, RecordsUnchanged
  <2>7. StatesAreTrue(e)' /\ Output!Exists(e) /\ ~export[e].submitted /\ e \notin forgotten
    BY <1>1, <1>2, <2>2, StartStatesStay
  <2>9. StartsOnce(e)'
    <3>1. \A u \in Output!Threads : Starting(u, e)' => u = t
      BY <2>3 DEF Starting
    <3> QED  BY <1>2, <2>3, <2>4, <2>7, <3>1 DEF StartsOnce, StartSteps
  <2>11. RunsAreWatched(e)'
    <3>1. ~Live(e)'
      BY <1>2, <2>4 DEF Live
    <3>2. Trusted(e)'
      BY <1>2, <1>3 DEF Trusted
    <3> QED  BY <3>1, <3>2 DEF RunsAreWatched
  <2>12. RecordIsSound(e)'
    BY <2>7, <2>9, <2>11 DEF RecordIsSound
  <2>13. NoNewWatcher
    BY <1>2 DEF NoNewWatcher
  <2> HIDE DEF Over
  <2> QED  BY <1>1, <1>2, <2>2, <2>5, <2>6, <2>7, <2>12, <2>13, StartGoesOn
<1>4. \/ Output!NotStarted(t, e)
      \/ Output!Then(t, <<Output!Step(IF collision THEN "replace" ELSE "submit", e)>>) /\ Trusted(e)
  BY DEF Output!Check, Output!Authorized, Trusted
<1>5. CASE Output!NotStarted(t, e)
  BY <1>1, <1>2, <1>5, NotStartedOwned
<1>6. CASE Output!Then(t, <<Output!Step(IF collision THEN "replace" ELSE "submit", e)>>) /\ Trusted(e)
  <2>1. PICK d \in {"submit", "replace"} : d = IF collision THEN "replace" ELSE "submit"
    OBVIOUS
  <2>2. Output!Then(t, <<Output!Step(d, e)>>)
    BY <1>6, <2>1
  <2> QED  BY <1>3, <1>6, <2>2
<1> QED  BY <1>4, <1>5, <1>6

LEMMA SubmitOwned ==
  ASSUME ExportInv, ExportInv', OwnerInv, NEW t \in Output!Threads, NEW e \in Exports, Output!Submit(t, e)
  PROVE  OwnerInv'
<1>1. PICK do \in {"submit", "replace"} : Output!Doing(t, do, e)
  BY DEF Output!Submit
<1>2. UNCHANGED <<leased, open, revision, export, decision, proposed, order, exportApproval, killed, forgotten, alive, exportLane>>
  BY DEF Output!Submit, Output!authority, Output!folder, Output!records, Output!jobs, Output!threads
<1>3. do \in StartSteps
  BY DEF StartSteps
<1>4. CASE job' = [job EXCEPT ![e] = IF open THEN "running" ELSE "failed"] /\ Output!Then(t, <<Output!Step("register", e)>>)
  <2> DEFINE s == Output!Step("register", e)
  <2>2. Turns(t, {s}, Later(t)) /\ GoesOn({s}, e) /\ s.do = "register"
    BY <1>1, <1>3, <1>4, NextPut DEF NextStarts
  <2> HIDE DEF s, Inserting, Cleaning
  <2>3. /\ proposed[e] /\ ~Inserting(e) /\ ~Inserting(e)' /\ RecordIsSound(e) /\ (Cleaning => Cleaning')
        /\ \A u \in Output!Threads, x \in StartSteps : Has(u, x, e)' <=> (u = t /\ x = "register")
    <3>1. \A x : (\E y \in {s} : y.do = x) <=> x = "register"
      BY <2>2
    <3> QED  BY <1>1, <1>3, <2>2, <3>1, StartTurns
  <2>4. /\ ~export[e].snapshot /\ (decision[e] = "delegated" => t = Output!Agent(Owner)) /\ Has(t, do, e)
    BY <1>1, <1>3, StarterIsAlone, StepsAtHand
  <2>5. ~Over(e)
    BY <1>1, <1>3, StarterIsNotOver
  <2>6. /\ job'[e] = (IF open THEN "running" ELSE "failed") /\ \A x \in Exports : x # e => job'[x] = job[x]
    BY <1>4 DEF ExportInv, ExportTypes
  <2>8. \A x \in Exports \ {e} : StillJob(x) /\ StillRecord(x)
    BY <1>2, <2>6, RecordsUnchanged DEF StillJob
  <2>7. StatesAreTrue(e)' /\ Output!Exists(e) /\ ~export[e].submitted /\ e \notin forgotten
    BY <1>1, <1>2, <2>2, StartStatesStay
  <2>9. StartsOnce(e)'
    <3>1. \A u \in Output!Threads : Starting(u, e)' => u = t
      BY <2>3 DEF Starting
    <3> QED  BY <1>2, <2>3, <2>4, <2>6, <2>7, <3>1 DEF StartsOnce, StartSteps
  <2>11. RunsAreWatched(e)'
    <3>1. Trusted(e) \/ Cleaning
      BY <1>1, <2>3, <2>4 DEF RecordIsSound, RunsAreWatched
    <3>2. Trusted(e)' \/ Cleaning'
      BY <1>2, <2>3, <3>1 DEF Trusted
    <3>3. Live(e)' => open'
      BY <1>2, <2>6 DEF Live
    <3>4. Has(t, "register", e)'
      BY <2>3 DEF StartSteps
    <3> HIDE DEF Trusted
    <3> QED  BY <3>2, <3>3, <3>4 DEF RunsAreWatched
  <2>12. RecordIsSound(e)'
    BY <2>7, <2>9, <2>11 DEF RecordIsSound
  <2>13. NoNewWatcher
    BY <1>2 DEF NoNewWatcher
  <2> HIDE DEF Over
  <2> QED  BY <1>1, <1>2, <1>3, <2>2, <2>5, <2>7, <2>8, <2>12, <2>13, StartGoesOn
<1>5. CASE Output!NotStarted(t, e) /\ UNCHANGED job
  BY <1>1, <1>2, <1>3, <1>5, NotStartedOwned
<1> QED  BY <1>4, <1>5 DEF Output!Submit

LEMMA RegisterOwned ==
  ASSUME ExportInv, ExportInv', OwnerInv, NEW t \in Output!Threads, NEW e \in Exports, Output!Register(t, e)
  PROVE  OwnerInv'
<1> HIDE DEF Inserting, Over, Cleaning, Sound
<1>1. Output!Doing(t, "register", e) /\ "register" \in StartSteps
  BY DEF Output!Register, StartSteps
<1>2. UNCHANGED <<leased, open, revision, decision, proposed, order, exportApproval, job, forgotten, exportLane>>
  BY DEF Output!Register, Output!authority, Output!folder, Output!records, Output!jobs, Output!threads
<1>3. /\ job[e] # "none" /\ ~export[e].snapshot /\ (decision[e] = "delegated" => t = Output!Agent(Owner))
      /\ \A u \in Output!Threads : Starting(u, e) => u = t
      /\ \A s \in Later(t) : s.do \in {"leave", "look", "read"}
  BY <1>1, StarterIsAlone
<1>4. proposed[e] /\ ~Inserting(e) /\ RecordIsSound(e) /\ agenda[t] # <<>>
  BY <1>1, SoundAtHand
<1>5. e \in forgotten => job[e] # "running"
  BY <1>4 DEF RecordIsSound, StartsOnce
<1>6. t # Output!Cleaner
  BY <1>1, AtStep DEF CleanersDo
\* What holds for a record that is handed to the coordinator, whichever way the start ends.
<1>7. ASSUME Output!Exists(e), export' = [export EXCEPT ![e].submitted = TRUE, ![e].state = "queued"]
      PROVE  /\ export'[e].submitted /\ export'[e].state = "queued" /\ ~export'[e].snapshot
             /\ export'[e].revision = export[e].revision /\ \A x \in Exports : x # e => export'[x] = export[x]
             /\ (\A u \in Output!Threads, d \in StartSteps : ~Has(u, d, e)') /\ ~Inserting(e)'
                   => StartsOnce(e)' /\ StatesAreTrue(e)'
  <2>1. /\ export'[e].submitted /\ export'[e].state = "queued" /\ export'[e].snapshot = export[e].snapshot
        /\ export'[e].revision = export[e].revision /\ \A x \in Exports : x # e => export'[x] = export[x]
    BY <1>7 DEF ExportInv, ExportTypes
  <2>2. ASSUME \A u \in Output!Threads, d \in StartSteps : ~Has(u, d, e)', ~Inserting(e)'
        PROVE  StartsOnce(e)' /\ StatesAreTrue(e)'
    <3>1. StartsOnce(e)'
      <4>1. \A u \in Output!Threads : ~Starting(u, e)'
        BY <2>2 DEF Starting
      <4>2. "register" \in StartSteps
        BY DEF StartSteps
      <4> QED  BY <1>2, <1>3, <1>5, <2>1, <2>2, <4>1, <4>2 DEF StartsOnce
    <3>2. Output!Active(e)'
      BY <2>1 DEF Output!Active, Output!Undecided
    <3>3. StatesAreTrue(e)'
      BY <1>2, <1>4, <2>1, <2>2, <3>2 DEF StatesAreTrue
    <3> QED  BY <3>1, <3>3
  <2> QED  BY <1>3, <2>1, <2>2
<1>8. ASSUME Output!Exists(e), export' = [export EXCEPT ![e].submitted = TRUE, ![e].state = "queued"],
             alive' = alive \cup {Output!Poller(e)}, Output!Then(t, <<>>), UNCHANGED killed
      PROVE  OwnerInv'
  <2>1. Turns(t, {}, Later(t)) /\ GoesOn({}, e)
    BY <1>4, <1>8, NothingPut DEF GoesOn
  <2>2. /\ ~Inserting(e)' /\ (Cleaning => Cleaning')
        /\ \A u \in Output!Threads, d \in StartSteps : ~Has(u, d, e)'
        /\ \A d : d \notin StartSteps => \A u \in Output!Threads : Has(u, d, e) => Has(u, d, e)'
    BY <1>1, <2>1, StartTurns
  <2>3. StartsOnce(e)' /\ StatesAreTrue(e)'
    BY <1>7, <1>8, <2>2
  <2>4. RunsAreWatched(e)'
    <3>1. \A u \in Output!Threads : ~Has(u, "submit", e)' /\ ~Has(u, "replace", e)'
      BY <2>2 DEF StartSteps
    <3>2. Trusted(e)' <=> Trusted(e)
      BY <1>2, <1>7, <1>8 DEF Trusted
    <3>3. Has(Output!Cleaner, "kill", e) => Has(Output!Cleaner, "kill", e)'
      BY <2>2, TheThreads DEF StartSteps
    <3>4. Live(e)' => Live(e)
      BY <1>2, <1>8 DEF Live
    <3> HIDE DEF Trusted, Live
    <3> QED  BY <1>2, <1>4, <1>7, <1>8, <2>2, <3>1, <3>2, <3>3, <3>4 DEF RecordIsSound, RunsAreWatched
  <2>5. RecordIsSound(e)'
    BY <2>3, <2>4 DEF RecordIsSound
  <2>6. NoNewWatcher
    BY <1>8 DEF NoNewWatcher, Output!Watcher, Output!Poller
  <2>7. \A x \in Exports \ {e} : StillJob(x) /\ StillRecord(x)
    BY <1>2, <1>7, <1>8, JobsUnchanged DEF StillRecord, Output!Active, Output!Exists
  <2>8. Over(e) => Over(e)'
    <3> SUFFICES ASSUME Over(e)  PROVE Over(e)'
      OBVIOUS
    <3>1. ~Live(e)'
      BY <1>2, <1>8 DEF Over, Calm, Live
    <3> QED  BY <1>2, <1>4, <1>7, <1>8, <2>2, <3>1 DEF Over, Calm, StartSteps
  <2> QED  BY <1>1, <1>2, <1>7, <1>8, <2>1, <2>5, <2>6, <2>7, <2>8, StartGoesOn
<1>9. ASSUME Output!Exists(e), export' = [export EXCEPT ![e].submitted = TRUE, ![e].state = "queued"],
             UNCHANGED alive, Output!NotStarted(t, e), killed' = IF job[e] = "running" THEN killed \cup {e} ELSE killed
      PROVE  OwnerInv'
  <2> DEFINE l == Output!Step("leave", Nobody)
             f == Output!Step("fail", e)
             k == Output!Step("look", e)
             r == Output!Step("read", e)
  <2>1. PICK P, K : /\ Turns(t, P, K) /\ K \subseteq Later(t) /\ LaneIsHeld' /\ P \subseteq {l, f, k, r}
                    /\ f \in P /\ (k \in P => t = Output!Agent(Owner))
                    /\ \A s \in Later(t) : s \in K \/ s.do \in {"leave", "look", "read"}
    BY <1>1, <1>2, <1>9, NotStartedTurns
  <2>2. /\ l.do = "leave" /\ f.do = "fail" /\ k.do = "look" /\ r.do = "read"
        /\ f.of = e /\ k.of = e /\ r.of = e
    BY TheStep DEF Doings
  <2> HIDE DEF l, f, k, r
  <2>3. \A s \in All(t)' : s.do \in {"leave", "fail", "look", "read"}
    BY <1>3, <2>1, <2>2 DEF Turns
  <2>4. ASSUME NEW u \in Output!Threads, NEW d \in StartSteps  PROVE ~Has(u, d, e)'
    <3>1. CASE u = t
      BY <2>3, <3>1 DEF Has, StartSteps
    <3>2. CASE u # t
      <4>1. ~Has(u, d, e)
        BY <1>3, <3>2 DEF Starting
      <4> QED  BY <2>1, <3>2, <4>1 DEF Has, Turns
    <3> QED  BY <3>1, <3>2
  <2>5. ~Inserting(e)'
    <3>1. \A u \in Output!Threads : Has(u, "insert", e)' => Has(u, "insert", e)
      <4>1. K \subseteq All(t)
        BY <2>1, LaterIsPart
      <4> QED  BY <2>1, <2>2, <4>1, HasBefore
    <3> QED  BY <1>4, <3>1, InsertingHas
  <2>6. Cleaning => Cleaning'
    BY <1>6, <2>1, TheThreads DEF Cleaning, Does, Turns
  <2>7. StartsOnce(e)' /\ StatesAreTrue(e)'
    BY <1>7, <1>9, <2>4, <2>5
  <2>8. ~Live(e)'
    BY <1>2, <1>9 DEF Live
  <2>9. RecordIsSound(e)'
    BY <2>4, <2>7, <2>8 DEF RecordIsSound, RunsAreWatched, StartSteps
  <2>10. Over(e)'
    BY <1>2, <1>4, <1>7, <1>9, <2>4, <2>5, <2>8 DEF Over, Calm, StartSteps
  <2>11. \A s \in P : Sound(t, s)' /\ s.do \notin {"enter", "take", "insert"} /\ (s.of = e \/ s.do = "leave")
    <3>1. proposed'[e]
      BY <1>2, <1>4
    <3>2. Sound(t, l)' /\ Sound(t, f)' /\ Sound(t, r)'
      BY <2>2, <2>5, <2>10, <3>1 DEF Sound
    <3>3. k \in P => Sound(t, k)'
      BY <2>1, <2>2, <2>5, <3>1 DEF Sound
    <3> QED  BY <2>1, <2>2, <3>2, <3>3
  <2>12. NoNewWatcher
    BY <1>9 DEF NoNewWatcher
  <2>13. \A x \in Exports \ {e} : StillJob(x) /\ StillRecord(x)
    <3>1. \A x \in Exports \ {e} : StillJob(x)
      BY <1>2, <1>9 DEF StillJob
    <3>2. \A x \in Exports \ {e} : StillRecord(x)
      BY <1>7, <1>9 DEF StillRecord, Output!Active, Output!Exists
    <3> QED  BY <3>1, <3>2
  <2>14. export'[e].submitted
    BY <1>7, <1>9
  <2> QED  BY <1>1, <1>2, <1>9, <2>1, <2>5, <2>6, <2>9, <2>10, <2>11, <2>12, <2>13, <2>14, StartMoves
<1>10. ASSUME ~Output!Exists(e), UNCHANGED <<export, alive, killed>>, Output!NotStarted(t, e)
       PROVE  OwnerInv'
  <2>1. ~Output!Active(e)
    BY <1>10 DEF Output!Exists, Output!Active, Output!Undecided
  <2>2. Over(e)
    BY <1>4, <2>1 DEF RecordIsSound, StatesAreTrue
  <2> QED  BY <1>1, <1>2, <1>10, <2>2, NotStartedOwned
<1> QED  BY <1>8, <1>9, <1>10 DEF Output!Register

--------------------------------------------------------------------------------
(* What a thread at rest begins.                                           *)

LEMMA BeginStill ==
  ASSUME ExportInv, ExportInv', NEW t \in Output!Threads, agenda[t] = <<>>, NEW P, Turns(t, P, {}), NoStart(P),
         \A x \in Exports : t = Output!Watcher(x) => ~Unwatched(x), NoNewWatcher,
         \A x \in Exports : StillJob(x) /\ StillRecord(x)
  PROVE  \A x \in Exports : Still(x)
<1>1. All(t) = {}
  BY NoSteps
<1>2. \A s \in All(t) : s \in All(t)' \/ Dispensable(t, s)
  BY <1>1
<1> QED  BY <1>1, <1>2, StepsGoOn DEF Still, NoNewWatcher

\* A request for the status of an export.
LEMMA StatusTurns ==
  ASSUME ExportInv, OwnerInv, NEW e \in Exports
  PROVE  /\ Output!Step("look", e) \in Steps /\ Output!Step("look", e).do = "look" /\ Output!Step("look", e).of = e
         /\ Output!Step("read", e) \in Steps /\ Output!Step("read", e).do = "read" /\ Output!Step("read", e).of = e
         /\ Sorted(Output!Status(e)) /\ Output!Status(e) \in Seq(Steps)
         /\ Of(Output!Status(e)) = {Output!Step("look", e), Output!Step("read", e)}
<1> DEFINE k == Output!Step("look", e)
           r == Output!Step("read", e)
<1>1. k \in Steps /\ k.do = "look" /\ k.of = e /\ r \in Steps /\ r.do = "read" /\ r.of = e
  BY TheStep DEF Doings
<1>2. Output!Status(e) = <<k, r>>
  BY DEF Output!Status
<1> HIDE DEF k, r
<1>3. Precedes(k.do, r.do)
  BY <1>1 DEF Precedes
<1>4. Sorted(<<k, r>>) /\ <<k, r>> \in Seq(Steps) /\ Of(<<k, r>>) = {k, r}
  BY <1>1, <1>3, SortedTwo
<1> QED  BY <1>1, <1>2, <1>4 DEF k, r

LEMMA AskStatusOwned ==
  ASSUME ExportInv, ExportInv', OwnerInv, NEW e \in Exports, Output!AskStatus(e)
  PROVE  OwnerInv'
<1> DEFINE k == Output!Step("look", e)
           r == Output!Step("read", e)
<1>0. PICK t \in Output!Threads : t = Output!Agent(Owner)
  BY TheThreads
<1>1. agenda[t] = <<>> /\ Output!Begin(t, Output!Status(e)) /\ Output!Exists(e)
  BY <1>0 DEF Output!AskStatus, Output!Idle, Output!Owned
<1>2. UNCHANGED <<leased, open, revision, export, decision, proposed, order, exportApproval, job, killed, forgotten, alive, exportLane>>
  BY DEF Output!AskStatus, Output!authority, Output!folder, Output!records, Output!jobs, Output!threads
<1>3. /\ k.do = "look" /\ k.of = e /\ r.do = "read" /\ r.of = e
      /\ Turns(t, {k, r}, {})
  <2>1. Sorted(Output!Status(e)) /\ Output!Status(e) \in Seq(Steps) /\ Of(Output!Status(e)) = {k, r}
    BY StatusTurns
  <2> QED  BY <1>1, <2>1, StatusTurns, BeginTurns DEF OwnerInv
<1> HIDE DEF k, r
<1>4. NoStart({k, r}) /\ NoNewWatcher /\ SameAuthority
  BY <1>2, <1>3 DEF NoStart, StartSteps, NoNewWatcher, SameAuthority
<1>5. \A x \in Exports : StillJob(x) /\ StillRecord(x)
  BY <1>2, JobsUnchanged, RecordsUnchanged
<1>6. \A x \in Exports : t # Output!Watcher(x)
  BY <1>0 DEF Output!Agent, Output!Watcher
<1>7. Still(e)
  BY <1>1, <1>3, <1>4, <1>5, <1>6, BeginStill
<1>8. proposed'[e] /\ ~Inserting(e)'
  BY <1>1, <1>7 DEF Still, StillSteps, StillJob, ExportInv, RecordsAreProposed, RowsAreFlagged
<1> HIDE DEF Inserting
<1>9. \A s \in {k, r} : Sound(t, s)' /\ s.do \notin {"enter", "leave", "kill"}
  <2>1. Sound(t, k)' /\ Sound(t, r)'
    BY <1>0, <1>3, <1>8 DEF Sound
  <2> HIDE DEF Sound
  <2> QED  BY <1>3, <2>1
<1> HIDE DEF Sound
<1> QED  BY <1>1, <1>2, <1>3, <1>4, <1>5, <1>6, <1>9, OneBegins

\* A watcher or a poller: it looks at its record, or ends.
LEMMA TickOwned ==
  ASSUME ExportInv, ExportInv', OwnerInv, NEW e \in Exports, NEW t \in Output!Threads, NEW do \in {"look", "read"},
         do = "look" => t = Output!Watcher(e), \A x \in Exports : t = Output!Watcher(x) => ~Unwatched(x),
         t \in alive, agenda[t] = <<>>, Output!Exists(e), Output!Begin(t, <<Output!Step(do, e)>>),
         UNCHANGED <<leased, open, revision, export, decision, proposed, order, exportApproval, job, killed, forgotten, alive, exportLane>>
  PROVE  OwnerInv'
<1> DEFINE s == Output!Step(do, e)
<1>1. s \in Steps /\ s.do = do /\ s.of = e
  BY TheStep DEF Doings
<1> HIDE DEF s
<1>2. Turns(t, {s}, {})
  BY <1>1, SortedOne, BeginTurns DEF OwnerInv, s
<1>3. NoStart({s}) /\ NoNewWatcher /\ SameAuthority
  BY <1>1 DEF NoStart, StartSteps, NoNewWatcher, SameAuthority
<1>4. \A x \in Exports : StillJob(x) /\ StillRecord(x)
  BY JobsUnchanged, RecordsUnchanged
<1>5. Still(e)
  BY <1>2, <1>3, <1>4, BeginStill
<1>6. proposed'[e] /\ ~Inserting(e)'
  BY <1>5 DEF Still, StillSteps, StillJob, ExportInv, RecordsAreProposed, RowsAreFlagged
<1> HIDE DEF Inserting
<1>7. Sound(t, s)' /\ s.do \notin {"enter", "leave", "kill"}
  BY <1>1, <1>6 DEF Sound
<1> HIDE DEF Sound
<1>8. \A y \in {s} : Sound(t, y)' /\ y.do \notin {"enter", "leave", "kill"}
  BY <1>7
<1> QED  BY <1>2, <1>3, <1>4, <1>8, OneBegins

LEMMA EndsOwned ==
  ASSUME ExportInv, ExportInv', OwnerInv, NEW t \in Output!Threads, t \in alive, alive' = alive \ {t},
         UNCHANGED <<leased, open, revision, export, decision, proposed, order, exportApproval, job, killed, forgotten, agenda, exportLane>>
  PROVE  OwnerInv'
<1>1. PICK u \in Output!Threads : u = Output!Cleaner
  BY TheThreads
<1>2. Turns(u, {}, All(u)) /\ All(u)' = All(u) /\ NoStart({})
  BY NothingTurns DEF OwnerInv, All, NoStart
<1>3. \A x \in Exports : StillJob(x) /\ StillRecord(x)
  BY JobsUnchanged, RecordsUnchanged
<1>4. \A x \in Exports : u # Output!Watcher(x)
  BY <1>1, TheThreads
<1>5. LaneIsHeld' /\ NoNewWatcher /\ SameAuthority
  BY LaneStands DEF OwnerInv, NoNewWatcher, SameAuthority
<1> HIDE DEF Sound, Dispensable
<1> QED  BY <1>2, <1>3, <1>4, <1>5, QuietTurn

LEMMA WatchOwned ==
  ASSUME ExportInv, ExportInv', OwnerInv, NEW e \in Exports, Output!Watch(e)
  PROVE  OwnerInv'
<1>0. PICK t \in Output!Threads : t = Output!Watcher(e)
  BY TheThreads
<1>1. /\ t \in alive /\ agenda[t] = <<>>
      /\ \/ Output!Exists(e) /\ Output!Begin(t, <<Output!Step("look", e)>>) /\ UNCHANGED alive
         \/ alive' = alive \ {t} /\ UNCHANGED agenda
  BY <1>0 DEF Output!Watch, Output!Idle, Output!Exists
<1>2. UNCHANGED <<leased, open, revision, export, decision, proposed, order, exportApproval, job, killed, forgotten, exportLane>>
  BY DEF Output!Watch, Output!authority, Output!folder, Output!records, Output!jobs, Output!threads
<1>3. \A x \in Exports : t = Output!Watcher(x) => ~Unwatched(x)
  BY <1>1 DEF Unwatched
<1> QED  BY <1>0, <1>1, <1>2, <1>3, TickOwned, EndsOwned

LEMMA PollOwned ==
  ASSUME ExportInv, ExportInv', OwnerInv, NEW e \in Exports, Output!Poll(e)
  PROVE  OwnerInv'
<1>0. PICK t \in Output!Threads : t = Output!Poller(e)
  BY TheThreads
<1>1. /\ t \in alive /\ agenda[t] = <<>>
      /\ \/ Output!Active(e) /\ Output!Begin(t, <<Output!Step("read", e)>>) /\ UNCHANGED alive
         \/ alive' = alive \ {t} /\ UNCHANGED agenda
  BY <1>0 DEF Output!Poll, Output!Idle
<1>2. UNCHANGED <<leased, open, revision, export, decision, proposed, order, exportApproval, job, killed, forgotten, exportLane>>
  BY DEF Output!Poll, Output!authority, Output!folder, Output!records, Output!jobs, Output!threads
<1>3. \A x \in Exports : t = Output!Watcher(x) => ~Unwatched(x)
  BY <1>1 DEF Unwatched
<1>4. Output!Active(e) => Output!Exists(e)
  BY DEF Output!Active, Output!Undecided, Output!Exists
<1> QED  BY <1>0, <1>1, <1>2, <1>3, <1>4, TickOwned, EndsOwned

LEMMA CloseProjectOwned ==
  ASSUME ExportInv, ExportInv', OwnerInv, Output!CloseProject
  PROVE  OwnerInv'
<1> DEFINE a == Output!Step("clean", Nobody)
           b == Output!Step("close", Nobody)
<1>0. PICK t \in Output!Threads : t = Output!Cleaner
  BY TheThreads
<1>1. agenda[t] = <<>> /\ Output!Begin(t, <<a, b>>)
  BY <1>0 DEF Output!CloseProject, Output!Idle
<1>2. UNCHANGED <<leased, open, revision, export, decision, proposed, order, exportApproval, job, killed, forgotten, alive, exportLane>>
  BY DEF Output!CloseProject, Output!authority, Output!folder, Output!records, Output!jobs, Output!threads
<1>3. a \in Steps /\ a.do = "clean" /\ b \in Steps /\ b.do = "close"
  BY TheStep DEF Doings
<1> HIDE DEF a, b
<1>4. Turns(t, {a, b}, {})
  <2>1. Precedes(a.do, b.do)
    BY <1>3 DEF Precedes
  <2>2. Sorted(<<a, b>>) /\ <<a, b>> \in Seq(Steps) /\ Of(<<a, b>>) = {a, b}
    BY <1>3, <2>1, SortedTwo
  <2>3. Turns(t, Of(<<a, b>>), {})
    BY <1>1, <2>2, BeginTurns DEF OwnerInv
  <2> QED  BY <2>2, <2>3
<1>5. NoStart({a, b}) /\ NoNewWatcher /\ SameAuthority
  BY <1>2, <1>3 DEF NoStart, StartSteps, NoNewWatcher, SameAuthority
<1>6. \A x \in Exports : StillJob(x) /\ StillRecord(x)
  BY <1>2, JobsUnchanged, RecordsUnchanged
<1>7. \A x \in Exports : t # Output!Watcher(x)
  BY <1>0, TheThreads
<1>8. \A s \in {a, b} : Sound(t, s)' /\ s.do \notin {"enter", "leave", "kill"}
  BY <1>3 DEF Sound
<1> HIDE DEF Sound
<1> QED  BY <1>1, <1>2, <1>4, <1>5, <1>6, <1>7, <1>8, OneBegins

--------------------------------------------------------------------------------
(* Authority goes.                                                         *)

\* The clean-up of what relied on authority that goes is begun with that.
LEMMA AuthorityGoes ==
  ASSUME ExportInv, ExportInv', OwnerInv, agenda[Output!Cleaner] = <<>>, NEW c \in {Owner, Nobody},
         Output!Begin(Output!Cleaner, <<Output!Step("clean", c)>>), leased' \subseteq leased,
         UNCHANGED <<open, export, decision, proposed, order, job, killed, forgotten, alive, exportLane>>,
         \A e \in Exports : exportApproval[e] \in {"denied", "expired"} => exportApproval'[e] = exportApproval[e]
  PROVE  OwnerInv'
<1> DEFINE s == Output!Step("clean", c)
<1>0. PICK t \in Output!Threads : t = Output!Cleaner
  BY TheThreads
<1>1. s \in Steps /\ s.do = "clean"
  BY TheStep DEF Doings
<1> HIDE DEF s
<1>2. Turns(t, {s}, {})
  BY <1>0, <1>1, SortedOne, BeginTurns DEF OwnerInv, s
<1>3. NoStart({s}) /\ NoNewWatcher
  BY <1>1 DEF NoStart, StartSteps, NoNewWatcher
<1>4. \A x \in Exports : StillJob(x) /\ StillRecord(x)
  BY JobsUnchanged, RecordsUnchanged
<1>5. \A x \in Exports : t # Output!Watcher(x)
  BY <1>0, TheThreads
<1>6. \A x \in Exports : Still(x)
  BY <1>0, <1>2, <1>3, <1>4, <1>5, BeginStill
<1>7. Watching
  BY <1>0, <1>1, <1>2 DEF Watching, Cleaning, Does, Turns
<1>8. LaneIsHeld'
  <2>1. \A y \in {s} : y.do \notin NeedsLane \cup {"leave"}
    BY <1>1 DEF NeedsLane, StartSteps
  <2> QED  BY <1>2, <2>1, LaneBegins DEF OwnerInv
<1>9. \A x \in Exports : Live(x)' => open'
  BY DEF Live, OwnerInv, RecordIsSound, RunsAreWatched
<1>10. \A y \in {s} : Sound(t, y)' /\ y.do \notin {"enter", "take"}
  BY <1>1 DEF Sound
<1> HIDE DEF Sound
<1> QED  BY <1>2, <1>6, <1>7, <1>8, <1>9, <1>10, QuietStep

LEMMA LoseLeaseOwned ==
  ASSUME ExportInv, ExportInv', OwnerInv, Output!LoseLease(Owner)
  PROVE  OwnerInv'
<1>1. /\ agenda[Output!Cleaner] = <<>> /\ Output!Begin(Output!Cleaner, <<Output!Step("clean", Owner)>>)
      /\ leased' \subseteq leased
  BY DEF Output!LoseLease, Output!Idle
<1>2. UNCHANGED <<open, export, decision, proposed, order, job, killed, forgotten, alive, exportLane>>
  BY DEF Output!LoseLease, Output!authority, Output!folder, Output!records, Output!jobs, Output!threads
<1>3. \A e \in Exports : exportApproval[e] \in {"denied", "expired"} => exportApproval'[e] = exportApproval[e]
  BY DEF Output!LoseLease
<1> QED  BY <1>1, <1>2, <1>3, AuthorityGoes

LEMMA ChangeFolderOwned ==
  ASSUME ExportInv, ExportInv', OwnerInv, Output!ChangeFolder
  PROVE  OwnerInv'
<1>1. agenda[Output!Cleaner] = <<>> /\ Output!Begin(Output!Cleaner, <<Output!Step("clean", Nobody)>>)
  BY DEF Output!ChangeFolder, Output!Idle
<1>2. UNCHANGED <<leased, open, export, decision, proposed, order, exportApproval, job, killed, forgotten, alive, exportLane>>
  BY DEF Output!ChangeFolder, Output!authority, Output!folder, Output!records, Output!jobs, Output!threads
<1> QED  BY <1>1, <1>2, AuthorityGoes

\* The project closes: the engine is told to cancel whatever runs.
LEMMA CloseOwned ==
  ASSUME ExportInv, ExportInv', OwnerInv, Output!Close
  PROVE  OwnerInv'
<1>0. PICK t \in Output!Threads : t = Output!Cleaner
  BY TheThreads
<1>1. /\ Output!Doing(t, "close", Nobody) /\ Output!Then(t, <<>>)
      /\ killed' = killed \cup {e \in Exports : job[e] = "running"}
  BY <1>0 DEF Output!Close
<1>2. UNCHANGED <<leased, revision, export, decision, proposed, order, exportApproval, job, forgotten, alive, exportLane>>
  BY DEF Output!Close, Output!authority, Output!folder, Output!records, Output!jobs, Output!threads
<1>3. agenda[t] # <<>> /\ Head(agenda[t]).do = "close" /\ All(t) = {Head(agenda[t])} \cup Later(t)
  BY <1>1, StepsAtHand
<1>4. Turns(t, {}, Later(t)) /\ NoStart({})
  BY <1>1, <1>3, NothingPut DEF NoStart
<1>5. \A x \in Exports : StillJob(x) /\ StillRecord(x)
  BY <1>1, <1>2, RecordsUnchanged DEF StillJob
<1>6. PICK h : h = Head(agenda[t]) /\ Dispensable(t, h)
  <2>1. PICK h : h = Head(agenda[t])
    OBVIOUS
  <2>2. h.do = "close"
    BY <1>3, <2>1
  <2> QED  BY <2>1, <2>2 DEF Dispensable, StartSteps
<1>7. \A x \in Exports : Still(x)
  BY <1>1, <1>2, <1>4, <1>5, <1>6, OneStill
<1>8. Watching
  BY <1>0, <1>2, <1>3, <1>4 DEF Watching, Cleaning, Does, Turns
<1>9. LaneIsHeld'
  BY <1>1, <1>2, <1>4, LaneGoesOn DEF OwnerInv
<1>10. \A x \in Exports : ~Live(x)'
  BY <1>1, <1>2 DEF Live
<1>11. Later(t) \subseteq All(t)
  BY <1>3
<1> HIDE DEF Sound
<1> QED  BY <1>2, <1>4, <1>7, <1>8, <1>9, <1>10, <1>11, QuietStep

--------------------------------------------------------------------------------
(* Proposals.                                                              *)

\* An export that is not proposed, or whose record is to be inserted, has no other steps.
LEMMA NewExport ==
  ASSUME ExportInv, OwnerInv, NEW e \in Exports, ~proposed[e] \/ Inserting(e)
  PROVE  /\ \A u \in Output!Threads : \A s \in All(u) :
               s.of = e /\ s.do \notin {"insert", "leave", "clean", "close"} => ~Sound(u, s)
         /\ \A u \in Output!Threads : \A d \in StartSteps \cup {"fail", "kill"} : ~Has(u, d, e)
         /\ job[e] = "none" /\ ~export[e].submitted /\ e \notin forgotten /\ ~Over(e) /\ Unwatched(e) /\ ~Output!Exists(e)
         /\ ~proposed[e] => ~Inserting(e)
<1>1. ASSUME NEW u \in Output!Threads, NEW s \in All(u), s.of = e, s.do \notin {"insert", "leave", "clean", "close"}, Sound(u, s)
      PROVE  FALSE
  <2> HIDE DEF Inserting
  <2> QED  BY <1>1 DEF Sound
<1>2. \A u \in Output!Threads : \A s \in All(u) : Sound(u, s)
  BY DEF OwnerInv, StepsAreSound
<1>3. \A u \in Output!Threads : \A d \in StartSteps \cup {"fail", "kill"} : ~Has(u, d, e)
  <2> HIDE DEF Sound, Inserting
  <2> QED  BY <1>1, <1>2 DEF Has, StartSteps
<1>4. StartsOnce(e) /\ StatesAreTrue(e)
  BY DEF OwnerInv, RecordIsSound
<1>5. ~proposed[e] => ~Inserting(e)
  BY AtStep DEF Legit, Inserting
<1> HIDE DEF Inserting, Unwatched
<1>6. job[e] = "none" /\ Unwatched(e) /\ ~Output!Exists(e)
  BY <1>4 DEF StartsOnce, StatesAreTrue, ExportInv, RecordsAreProposed, RowsAreFlagged
<1>7. ~export[e].submitted /\ e \notin forgotten /\ ~Over(e)
  BY <1>4, <1>6 DEF StartsOnce, Over, Calm
<1> HIDE DEF Sound
<1> QED  BY <1>1, <1>3, <1>5, <1>6, <1>7

LEMMA ProposeOwned ==
  ASSUME ExportInv, ExportInv', OwnerInv, NEW e \in Exports, Output!Propose(e)
  PROVE  OwnerInv'
<1> DEFINE i == Output!Step("insert", e)
<1>0. PICK t \in Output!Threads : t = Output!Agent(Owner)
  BY TheThreads
<1>1. agenda[t] = <<>> /\ Output!Begin(t, <<i>>) /\ ~proposed[e]
  BY <1>0 DEF Output!Propose, Output!Idle
<1>2. UNCHANGED <<leased, open, revision, order, job, killed, forgotten, alive, exportLane>>
  BY DEF Output!Propose, Output!authority, Output!folder, Output!records, Output!jobs, Output!threads
<1>3. /\ proposed' = [proposed EXCEPT ![e] = TRUE]
      /\ \E d : decision' = [decision EXCEPT ![e] = d]
      /\ \E a : exportApproval' = [exportApproval EXCEPT ![e] = a]
      /\ export' = [export EXCEPT ![e].revision = revision]
  BY DEF Output!Propose
<1>4. /\ proposed'[e]
      /\ \A x \in Exports : x # e => /\ proposed'[x] = proposed[x] /\ decision'[x] = decision[x]
                                     /\ exportApproval'[x] = exportApproval[x] /\ export'[x] = export[x]
      /\ export'[e].state = export[e].state /\ export'[e].submitted = export[e].submitted
  BY <1>3 DEF ExportInv, ExportTypes
<1>5. i \in Steps /\ i.do = "insert" /\ i.of = e
  BY TheStep DEF Doings
<1> HIDE DEF i, Inserting, Sound, Unwatched, Over
<1>6. Turns(t, {i}, {}) /\ All(t) = {} /\ {} \subseteq All(t)
  BY <1>1, <1>5, NoSteps, SortedOne, BeginTurns DEF OwnerInv
<1>7. /\ \A u \in Output!Threads : \A s \in All(u) :
            s.of = e /\ s.do \notin {"insert", "leave", "clean", "close"} => ~Sound(u, s)
      /\ \A u \in Output!Threads : \A d \in StartSteps \cup {"fail", "kill"} : ~Has(u, d, e)
      /\ job[e] = "none" /\ ~export[e].submitted /\ e \notin forgotten /\ ~Over(e) /\ Unwatched(e) /\ ~Output!Exists(e)
  BY <1>1, NewExport
<1>8. /\ \A u \in Output!Threads : \A d \in StartSteps : ~Has(u, d, e)'
      /\ Inserting(e)'
  <2>1. \A u \in Output!Threads : \A d \in StartSteps : ~Has(u, d, e)'
    BY <1>5, <1>6, <1>7, HasBefore DEF StartSteps
  <2>2. Has(t, "insert", e)'
    BY <1>5, <1>6 DEF Has, Turns
  <2> QED  BY <2>1, <2>2, InsertingHas
<1>9. Unwatched(e)'
  <2>1. Output!Watcher(e) # t
    BY <1>0 DEF Output!Agent, Output!Watcher
  <2> QED  BY <1>2, <1>6, <1>7, <2>1, TheThreads DEF Unwatched, Turns
<1>10. RecordIsSound(e)'
  <2>1. StartsOnce(e)'
    <3>1. \A u \in Output!Threads : ~Starting(u, e)'
      BY <1>8 DEF Starting
    <3>2. "register" \in StartSteps
      BY DEF StartSteps
    <3> QED  BY <1>2, <1>4, <1>7, <1>8, <3>1, <3>2 DEF StartsOnce
  <2>2. StatesAreTrue(e)'
    BY <1>4, <1>7, <1>8, <1>9 DEF StatesAreTrue, Output!Exists
  <2>3. RunsAreWatched(e)'
    BY <1>2, <1>7, <1>8 DEF RunsAreWatched, StartSteps, Live
  <2> QED  BY <2>1, <2>2, <2>3 DEF RecordIsSound
<1>11. \A x \in Exports \ {e} : Still(x)
  <2>1. \A x \in Exports \ {e} : StillJob(x)
    BY <1>2, <1>4 DEF StillJob
  <2>2. \A x \in Exports \ {e} : StillRecord(x)
    BY <1>4 DEF StillRecord, Output!Active, Output!Exists
  <2>3. \A x \in Exports : t = Output!Watcher(x) => ~Unwatched(x)
    BY <1>0 DEF Output!Agent, Output!Watcher
  <2> QED  BY <1>2, <1>5, <1>6, <2>1, <2>2, <2>3, OthersStill
<1>12. LaneIsHeld'
  <2>1. \A s \in {i} : s.do \notin NeedsLane \cup {"leave"}
    BY <1>5 DEF NeedsLane, StartSteps
  <2> QED  BY <1>2, <1>6, <2>1, LaneBegins DEF OwnerInv
<1>13. EntersDelegated'
  <2>1. \A u \in Output!Threads, x \in Exports : Has(u, "take", x) => decision'[x] = decision[x]
    BY <1>4, <1>7 DEF StartSteps
  <2> QED  BY <1>5, <1>6, <2>1, EntersGoOn DEF OwnerInv
<1>14. \A s \in {i} : Sound(t, s)'
  BY <1>5 DEF Sound
<1>15. SameAuthority /\ (Cleaning => Cleaning')
  BY <1>0, <1>2, <1>6, TheThreads DEF SameAuthority, Cleaning, Does, Turns
<1> HIDE DEF Cleaning
<1> QED  BY <1>2, <1>6, <1>7, <1>10, <1>11, <1>12, <1>13, <1>14, <1>15, OneMoves

\* A record is inserted, with what its agent does next.
LEMMA InsertMoves ==
  ASSUME ExportInv, ExportInv', OwnerInv, NEW t \in Output!Threads, NEW e \in Exports, Output!Doing(t, "insert", e),
         UNCHANGED <<leased, open, revision, decision, proposed, order, exportApproval, job, killed, forgotten, exportLane>>,
         NEW P, Turns(t, P, {}), LaneIsHeld',
         \A s \in P : s.do \in {"enter", "take", "leave", "look", "read", "fail"} /\ (s.of = e \/ s.do = "leave"),
         (\E s \in P : s.do = "take" /\ s.of = e) <=> decision[e] = "delegated",
         NEW state \in {"queued", "awaiting"}, (state = "queued") <=> decision[e] = "delegated",
         export' = [export EXCEPT ![e].state = state, ![e].snapshot = TRUE],
         \A x \in Exports \ {e} : Output!Watcher(x) \in alive' => Output!Watcher(x) \in alive,
         (\E s \in P : s.do = "fail") => state = "awaiting" /\ alive' = alive
  PROVE  OwnerInv'
<1>1. /\ agenda[t] # <<>> /\ Head(agenda[t]).do = "insert" /\ Head(agenda[t]).of = e
      /\ All(t) = {Head(agenda[t])} \cup Later(t) /\ Has(t, "insert", e)
  BY StepsAtHand
<1>2. All(t) = {Head(agenda[t])}
  <2>1. \A s \in Later(t) : FALSE
    BY <1>1, FirstPrecedes DEF Precedes, OwnerInv
  <2> QED  BY <1>1, <2>1
<1>3. \A u \in Output!Threads : Has(u, "insert", e) => u = Output!Agent(Owner)
  BY DEF ExportInv, AgendasAreInOrder, Has
<1>4. t = Output!Agent(Owner) /\ proposed[e] /\ Inserting(e)
  <2>1. proposed[e]
    BY <1>1, AtStep DEF Legit
  <2> QED  BY <1>1, <1>3, <2>1 DEF Inserting
<1> HIDE DEF Inserting, Sound, Unwatched, Over
<1>5. /\ \A u \in Output!Threads : \A s \in All(u) :
            s.of = e /\ s.do \notin {"insert", "leave", "clean", "close"} => ~Sound(u, s)
      /\ \A u \in Output!Threads : \A d \in StartSteps \cup {"fail", "kill"} : ~Has(u, d, e)
      /\ job[e] = "none" /\ ~export[e].submitted /\ e \notin forgotten /\ ~Over(e) /\ Unwatched(e)
  BY <1>4, NewExport
<1>6. \A x \in Exports : t # Output!Watcher(x)
  BY <1>4 DEF Output!Agent, Output!Watcher
<1>7. /\ export'[e].state = state /\ export'[e].submitted = export[e].submitted
      /\ \A x \in Exports : x # e => export'[x] = export[x]
  BY DEF ExportInv, ExportTypes
<1>8. \A u \in Output!Threads : u # t => All(u)' = All(u)
  BY DEF Turns
<1>9. ~Inserting(e)'
  <2>1. ASSUME NEW u \in Output!Threads, Has(u, "insert", e)'  PROVE FALSE
    <3>1. CASE u = t
      BY <2>1, <3>1 DEF Has, Turns
    <3>2. CASE u # t
      <4>1. Has(u, "insert", e)
        BY <1>8, <2>1, <3>2 DEF Has
      <4> QED  BY <1>3, <1>4, <3>2, <4>1
    <3> QED  BY <3>1, <3>2
  <2> QED  BY <2>1, InsertingHas
<1>10. \A u \in Output!Threads, d \in StartSteps : Has(u, d, e)' <=> (u = t /\ d = "take" /\ decision[e] = "delegated")
  <2> SUFFICES ASSUME NEW u \in Output!Threads, NEW d \in StartSteps
               PROVE  Has(u, d, e)' <=> (u = t /\ d = "take" /\ decision[e] = "delegated")
    OBVIOUS
  <2>1. CASE u = t
    <3>1. Has(t, d, e)' <=> \E s \in P : s.do = d /\ s.of = e
      BY DEF Has, Turns
    <3>2. \A s \in P : s.do = d => d = "take"
      BY DEF StartSteps
    <3> QED  BY <2>1, <3>1, <3>2
  <2>2. CASE u # t
    <3>1. ~Has(u, d, e)'
      BY <1>5, <1>8, <2>2 DEF Has
    <3> QED  BY <2>2, <3>1
  <2> QED  BY <2>1, <2>2
<1>11. RecordIsSound(e)'
  <2>1. StartsOnce(e)'
    <3>1. \A u \in Output!Threads : Starting(u, e)' => u = t
      BY <1>10 DEF Starting
    <3> QED  BY <1>4, <1>5, <1>7, <1>9, <1>10, <3>1 DEF StartsOnce, StartSteps
  <2>2. StatesAreTrue(e)'
    <3>1. Output!Active(e)'
      BY <1>7 DEF Output!Active, Output!Undecided
    <3>2. state = "queued" => Has(Output!Agent(Owner), "take", e)'
      BY <1>4, <1>10 DEF StartSteps
    <3>3. "take" \in StartSteps
      BY DEF StartSteps
    <3> QED  BY <1>4, <1>7, <1>9, <3>1, <3>2, <3>3 DEF StatesAreTrue
  <2>3. RunsAreWatched(e)'
    BY <1>5, <1>10 DEF RunsAreWatched, StartSteps, Live
  <2> QED  BY <2>1, <2>2, <2>3 DEF RecordIsSound
<1>12. \A x \in Exports \ {e} : Still(x)
  <2>1. \A x \in Exports \ {e} : StillJob(x) /\ StillRecord(x)
    BY <1>7, JobsUnchanged DEF StillRecord, Output!Active, Output!Exists
  <2>2. \A s \in P : s.do \in StartSteps \cup {"insert"} => s.of = e
    BY DEF StartSteps
  <2>3. \A s \in All(t) : s \in {} \/ s.of = e \/ s.do \in {"leave", "look", "read", "enter"}
    BY <1>1, <1>2
  <2>4. {} \subseteq All(t)
    OBVIOUS
  <2> QED  BY <1>6, <2>1, <2>2, <2>3, <2>4, OthersStill
<1>13. EntersDelegated'
  <2> SUFFICES ASSUME NEW u \in Output!Threads, NEW x \in Exports, Does(u, "enter")', Has(u, "take", x)'
               PROVE  decision[x] = "delegated"
    BY DEF EntersDelegated
  <2>1. CASE u = t
    <3>1. x = e
      BY <2>1 DEF Has, Turns
    <3> QED  BY <1>10, <2>1, <3>1 DEF StartSteps
  <2>2. CASE u # t
    BY <1>8, <2>2 DEF OwnerInv, EntersDelegated, Does, Has
  <2> QED  BY <2>1, <2>2
<1>14. \A s \in P : Sound(t, s)'
  <2> SUFFICES ASSUME NEW s \in P  PROVE Sound(t, s)'
    OBVIOUS
  <2>1. CASE s.do = "fail"
    <3>1. Unwatched(e)'
      BY <1>5, <1>6, <2>1, TheThreads DEF Unwatched, Turns
    <3>2. Calm(e)' /\ \A u \in Output!Threads : ~Starting(u, e)'
      BY <1>4, <1>5, <1>9, <1>10, <2>1 DEF Calm, Live, Starting, StartSteps
    <3>3. Lapsed(t, e)'
      BY <1>4, <1>7, <2>1, <3>1, <3>2 DEF Lapsed
    <3> QED  BY <1>4, <1>9, <2>1, <3>3 DEF Sound
  <2>2. CASE s.do # "fail"
    <3>1. s.do \in {"enter", "take", "leave", "look", "read"} /\ (s.of = e \/ s.do = "leave")
      BY <2>2
    <3> QED  BY <1>4, <1>9, <3>1 DEF Sound
  <2> QED  BY <2>1, <2>2
<1>15. SameAuthority /\ (Cleaning => Cleaning')
  BY <1>4, <1>8, TheThreads DEF SameAuthority, Cleaning, Does
<1>16. {} \subseteq All(t)
  OBVIOUS
<1> HIDE DEF Cleaning
<1> QED  BY <1>5, <1>11, <1>12, <1>13, <1>14, <1>15, <1>16, OneMoves

LEMMA InsertOwned ==
  ASSUME ExportInv, ExportInv', OwnerInv, NEW t \in Output!Threads, NEW e \in Exports, Output!Insert(t, e)
  PROVE  OwnerInv'
<1> DEFINE a == Output!Step("enter", e)
           b == Output!Step("take", e)
           l == Output!Step("leave", Nobody)
           f == Output!Step("fail", e)
           k == Output!Step("look", e)
           r == Output!Step("read", e)
<1>1. Output!Doing(t, "insert", e)
  BY DEF Output!Insert
<1>2. UNCHANGED <<leased, open, revision, decision, proposed, order, exportApproval, job, killed, forgotten, exportLane>>
  BY DEF Output!Insert, Output!authority, Output!folder, Output!records, Output!jobs, Output!threads
<1>3. PICK state \in {"queued", "awaiting"} :
         /\ state = "queued" <=> decision[e] = "delegated"
         /\ export' = [export EXCEPT ![e].state = state, ![e].snapshot = TRUE]
  BY DEF Output!Insert
<1>4. /\ a \in Steps /\ a.do = "enter" /\ a.of = e /\ b \in Steps /\ b.do = "take" /\ b.of = e
      /\ l \in Steps /\ l.do = "leave" /\ f \in Steps /\ f.do = "fail" /\ f.of = e
      /\ k \in Steps /\ k.do = "look" /\ k.of = e /\ r \in Steps /\ r.do = "read" /\ r.of = e
  BY TheStep DEF Doings
<1>5. Output!Status(e) = <<k, r>>
  BY DEF Output!Status
<1>6. \/ decision[e] = "delegated" /\ Output!Then(t, <<a, b, l>> \o <<k, r>>) /\ alive' = alive
      \/ decision[e] # "delegated" /\ Output!Then(t, <<k, r>>) /\ alive' = alive \cup {Output!Watcher(e)}
      \/ decision[e] # "delegated" /\ Output!Then(t, <<f>> \o <<k, r>>) /\ alive' = alive
  BY <1>5 DEF Output!Insert
<1> HIDE DEF a, b, l, f, k, r
<1>7. agenda[t] # <<>> /\ Later(t) = {}
  <2>1. agenda[t] # <<>> /\ Head(agenda[t]).do = "insert"
    BY <1>1, StepsAtHand
  <2>2. \A s \in Later(t) : FALSE
    BY <2>1, FirstPrecedes DEF Precedes, OwnerInv
  <2> QED  BY <2>1, <2>2
<1>8. ASSUME NEW p \in Seq(Steps), Sorted(p), Output!Then(t, p)  PROVE Turns(t, Of(p), {})
  <2>1. Turns(t, Of(p), Later(t))
    BY <1>7, <1>8, ThenTurns DEF OwnerInv
  <2> QED  BY <1>7, <2>1
<1>9. CASE decision[e] = "delegated" /\ Output!Then(t, <<a, b, l>> \o <<k, r>>) /\ alive' = alive
  <2>1. Output!Then(t, <<a, b, l, k, r>>)
    BY <1>9, ThreeAndTwo
  <2>2. Sorted(<<a, b, l, k, r>>) /\ <<a, b, l, k, r>> \in Seq(Steps) /\ Of(<<a, b, l, k, r>>) = {a, b, l, k, r}
    <3>1. /\ \A y \in {b, l, k, r} : Precedes(a.do, y.do)
          /\ \A y \in {l, k, r} : Precedes(b.do, y.do)
          /\ \A y \in {k, r} : Precedes(l.do, y.do)
          /\ Precedes(k.do, r.do)
      BY <1>4 DEF Precedes
    <3> QED  BY <1>4, <3>1, SortedFive, SMTT(60)
  <2>3. Turns(t, {a, b, l, k, r}, {})
    BY <1>8, <2>1, <2>2
  <2>4. LaneIsHeld'
    <3>1. All(t)' = {a, b, l, k, r}
      BY <2>3 DEF Turns
    <3>2. Does(t, "enter")' /\ Does(t, "leave")'
      BY <1>4, <3>1 DEF Does
    <3> QED  BY <1>2, <2>3, <3>2, LaneStays DEF OwnerInv
  <2>5. /\ \A s \in {a, b, l, k, r} : s.do \in {"enter", "take", "leave", "look", "read", "fail"} /\ (s.of = e \/ s.do = "leave")
        /\ \E s \in {a, b, l, k, r} : s.do = "take" /\ s.of = e
        /\ ~\E s \in {a, b, l, k, r} : s.do = "fail"
    BY <1>4
  <2>6. PICK P : P = {a, b, l, k, r}
    OBVIOUS
  <2>7. /\ Turns(t, P, {})
        /\ \A s \in P : s.do \in {"enter", "take", "leave", "look", "read", "fail"} /\ (s.of = e \/ s.do = "leave")
        /\ (\E s \in P : s.do = "take" /\ s.of = e) <=> decision[e] = "delegated"
        /\ (\E s \in P : s.do = "fail") => state = "awaiting" /\ alive' = alive
    BY <1>3, <1>9, <2>3, <2>5, <2>6
  <2>8. \A x \in Exports \ {e} : Output!Watcher(x) \in alive' => Output!Watcher(x) \in alive
    BY <1>9 DEF Output!Watcher
  <2> QED  BY <1>1, <1>2, <1>3, <2>4, <2>7, <2>8, InsertMoves
<1>10. CASE decision[e] # "delegated" /\ Output!Then(t, <<k, r>>) /\ alive' = alive \cup {Output!Watcher(e)}
  <2>2. Sorted(<<k, r>>) /\ <<k, r>> \in Seq(Steps) /\ Of(<<k, r>>) = {k, r}
    <3>1. Precedes(k.do, r.do)
      BY <1>4 DEF Precedes
    <3> QED  BY <1>4, <3>1, SortedTwo
  <2>3. Turns(t, {k, r}, {})
    BY <1>8, <1>10, <2>2
  <2>4. LaneIsHeld'
    <3>1. \A s \in {k, r} : s.do \notin NeedsLane \cup {"leave"}
      BY <1>4 DEF NeedsLane, StartSteps
    <3> QED  BY <1>2, <2>3, <3>1, LaneBegins DEF OwnerInv
  <2>5. /\ \A s \in {k, r} : s.do \in {"enter", "take", "leave", "look", "read", "fail"} /\ (s.of = e \/ s.do = "leave")
        /\ ~\E s \in {k, r} : s.do \in {"fail", "take"}
    BY <1>4
  <2>6. PICK P : P = {k, r}
    OBVIOUS
  <2>7. /\ Turns(t, P, {})
        /\ \A s \in P : s.do \in {"enter", "take", "leave", "look", "read", "fail"} /\ (s.of = e \/ s.do = "leave")
        /\ (\E s \in P : s.do = "take" /\ s.of = e) <=> decision[e] = "delegated"
        /\ (\E s \in P : s.do = "fail") => state = "awaiting" /\ alive' = alive
    BY <1>3, <1>10, <2>3, <2>5, <2>6
  <2>8. \A x \in Exports \ {e} : Output!Watcher(x) \in alive' => Output!Watcher(x) \in alive
    BY <1>10 DEF Output!Watcher
  <2> QED  BY <1>1, <1>2, <1>3, <2>4, <2>7, <2>8, InsertMoves
<1>11. CASE decision[e] # "delegated" /\ Output!Then(t, <<f>> \o <<k, r>>) /\ alive' = alive
  <2>1. Output!Then(t, <<f, k, r>>)
    BY <1>11, OneAndTwo
  <2>2. Sorted(<<f, k, r>>) /\ <<f, k, r>> \in Seq(Steps) /\ Of(<<f, k, r>>) = {f, k, r}
    <3>1. Precedes(f.do, k.do) /\ Precedes(f.do, r.do) /\ Precedes(k.do, r.do)
      BY <1>4 DEF Precedes
    <3> QED  BY <1>4, <3>1, SortedThree
  <2>3. Turns(t, {f, k, r}, {})
    BY <1>8, <2>1, <2>2
  <2>4. LaneIsHeld'
    <3>1. \A s \in {f, k, r} : s.do \notin NeedsLane \cup {"leave"}
      BY <1>4 DEF NeedsLane, StartSteps
    <3> QED  BY <1>2, <2>3, <3>1, LaneBegins DEF OwnerInv
  <2>5. /\ \A s \in {f, k, r} : s.do \in {"enter", "take", "leave", "look", "read", "fail"} /\ (s.of = e \/ s.do = "leave")
        /\ ~\E s \in {f, k, r} : s.do = "take"
    BY <1>4
  <2>6. PICK P : P = {f, k, r}
    OBVIOUS
  <2>7. /\ Turns(t, P, {})
        /\ \A s \in P : s.do \in {"enter", "take", "leave", "look", "read", "fail"} /\ (s.of = e \/ s.do = "leave")
        /\ (\E s \in P : s.do = "take" /\ s.of = e) <=> decision[e] = "delegated"
        /\ (\E s \in P : s.do = "fail") => state = "awaiting" /\ alive' = alive
    BY <1>3, <1>11, <2>3, <2>5, <2>6
  <2>8. \A x \in Exports \ {e} : Output!Watcher(x) \in alive' => Output!Watcher(x) \in alive
    BY <1>11 DEF Output!Watcher
  <2> QED  BY <1>1, <1>2, <1>3, <2>4, <2>7, <2>8, InsertMoves
<1> QED  BY <1>6, <1>9, <1>10, <1>11

--------------------------------------------------------------------------------
(* Approvals are looked at.                                                *)

\* While nobody is in the lane, nobody starts an export that awaits its approval.
LEMMA WaitingIsCalm ==
  ASSUME ExportInv, OwnerInv, NEW e \in Exports, export[e].state = "awaiting", exportLane = Nobody
  PROVE  /\ Calm(e) /\ \A u \in Output!Threads : ~Starting(u, e)
         /\ decision[e] # "delegated" /\ proposed[e] /\ ~Inserting(e) /\ ~export[e].submitted
<1>1. decision[e] # "delegated" /\ RecordIsSound(e)
  BY DEF OwnerInv, RecordIsSound, StatesAreTrue
<1>2. proposed[e] /\ ~Inserting(e) /\ ~export[e].submitted
  BY DEF ExportInv, RecordsAreProposed, RowsAreFlagged, WaitingIsUnsubmitted, Output!Exists
<1> HIDE DEF Inserting
<1>3. ASSUME NEW u \in Output!Threads, Starting(u, e)  PROVE FALSE
  <2>1. PICK do \in StartSteps : Has(u, do, e)
    BY <1>3 DEF Starting
  <2>2. Does(u, "leave")
    BY <2>1 DEF OwnerInv, LaneIsHeld, NeedsLane, Does, Has
  <2>3. Does(u, "enter")
    <3>1. u # Nobody
      BY ExportConstants
    <3> QED  BY <2>2, <3>1 DEF OwnerInv, LaneIsHeld
  <2>4. do # "take"
    BY <1>1, <2>1, <2>3 DEF OwnerInv, EntersDelegated
  <2>5. agenda[u] # <<>> /\ All(u) = {Head(agenda[u])} \cup Later(u)
    <3>1. agenda[u] # <<>>
      BY <2>1, NoSteps DEF Has
    <3> QED  BY <3>1, TheStepAtHand DEF ExportInv
  <2>6. Head(agenda[u]).do = "enter"
    BY <2>3, <2>5, NoneEnters DEF Does
  <2> QED  BY <2>1, <2>4, <2>5, <2>6, NoneEnters DEF Has, StartSteps
<1>4. ~Live(e)
  <2>1. "register" \in StartSteps
    BY DEF StartSteps
  <2> QED  BY <1>1, <1>2, <1>3, <2>1 DEF RecordIsSound, RunsAreWatched, Starting
<1>5. Calm(e)
  BY <1>2, <1>3, <1>4 DEF Calm, Starting, StartSteps
<1> QED  BY <1>1, <1>2, <1>3, <1>5

\* A watcher, or an agent, that finds an end to the waiting.
LEMMA LookEnds ==
  ASSUME ExportInv, ExportInv', OwnerInv, NEW t \in Output!Threads, NEW e \in Exports, Output!Doing(t, "look", e),
         NEW P, NEW K, Turns(t, P, K), K \subseteq Later(t), LaneIsHeld',
         \A s \in P : s.do = "leave" \/ (s.do = "fail" /\ s.of = e /\ (Over(e) \/ Lapsed(t, e))),
         UNCHANGED <<leased, open, revision, export, decision, proposed, order, exportApproval, job, killed, forgotten, alive>>
  PROVE  OwnerInv'
<1>1. /\ Head(agenda[t]).do = "look" /\ Head(agenda[t]).of = e /\ agenda[t] # <<>> /\ proposed[e] /\ ~Inserting(e)
  BY SoundAtHand
<1>2. All(t) = {Head(agenda[t])} \cup Later(t)
  BY StepsAtHand
<1>3. \A s \in Later(t) : s.do = "read"
  BY <1>1, FirstPrecedes DEF Precedes, OwnerInv
<1>4. \A s \in All(t) : Dispensable(t, s) /\ s.do # "clean"
  BY <1>1, <1>2, <1>3 DEF Dispensable, StartSteps
<1>5. NoStart(P)
  BY DEF NoStart, StartSteps
<1>6. NoNewWatcher /\ SameAuthority /\ K \subseteq All(t)
  BY <1>2 DEF NoNewWatcher, SameAuthority
<1>7. \A x \in Exports : StillJob(x) /\ StillRecord(x)
  BY JobsUnchanged, RecordsUnchanged
<1>8. \A x \in Exports : t = Output!Watcher(x) => ~Unwatched(x)
  BY <1>1 DEF Unwatched
<1>9. Still(e)
  <2> HIDE DEF Dispensable
  <2> QED  BY <1>4, <1>5, <1>6, <1>7, <1>8, StepsGoOn DEF Still, NoNewWatcher
<1>10. /\ proposed'[e] /\ ~Inserting(e)' /\ (Over(e) => Over(e)') /\ (Lapsed(t, e) => Lapsed(t, e)' \/ Over(e)')
  BY <1>1, <1>9, StillStands DEF Still, StillSteps, StillJob
<1> HIDE DEF Inserting, Over, Lapsed
<1>11. \A s \in P : Sound(t, s)' /\ s.do # "enter"
  BY <1>10 DEF Sound
<1> HIDE DEF Sound, Dispensable
<1> QED  BY <1>4, <1>5, <1>6, <1>7, <1>8, <1>11, QuietTurn

\* An approval is claimed, in the lane, by the thread that starts the export.
LEMMA ClaimOwned ==
  ASSUME ExportInv, ExportInv', OwnerInv, NEW t \in Output!Threads, NEW e \in Exports, Output!Doing(t, "look", e),
         export[e].state = "awaiting", Owner \in leased, exportApproval[e] = "approved", exportApproval' = Output!Claimed(e),
         exportLane = Nobody, exportLane' = t, Output!Then(t, <<Output!Step("take", e), Output!Step("leave", Nobody)>>),
         UNCHANGED <<leased, open, revision, export, decision, proposed, order, job, killed, forgotten, alive>>
  PROVE  OwnerInv'
<1> DEFINE b == Output!Step("take", e)
           l == Output!Step("leave", Nobody)
<1>1. /\ Head(agenda[t]).do = "look" /\ Head(agenda[t]).of = e /\ agenda[t] # <<>> /\ Sound(t, Head(agenda[t]))
  BY SoundAtHand
<1>2. All(t) = {Head(agenda[t])} \cup Later(t)
  BY StepsAtHand
<1>3. \A s \in Later(t) : s.do = "read"
  BY <1>1, FirstPrecedes DEF Precedes, OwnerInv
<1>4. t \in {Output!Agent(Owner), Output!Watcher(e)} /\ t # Output!Cleaner
  BY <1>1, TheThreads DEF Sound
<1>5. b \in Steps /\ b.do = "take" /\ b.of = e /\ l \in Steps /\ l.do = "leave"
  BY TheStep DEF Doings
<1> HIDE DEF b, l, Inserting, Sound, Over, Lapsed, Unwatched
<1>6. Turns(t, {b, l}, Later(t))
  <2>1. Precedes(b.do, l.do) /\ \A y \in {b, l}, s \in Later(t) : Precedes(y.do, s.do)
    BY <1>3, <1>5 DEF Precedes
  <2>2. Sorted(<<b, l>>) /\ <<b, l>> \in Seq(Steps) /\ Of(<<b, l>>) = {b, l}
    BY <1>5, <2>1, SortedTwo
  <2>3. Output!Then(t, <<b, l>>)
    BY DEF b, l
  <2>4. Turns(t, Of(<<b, l>>), Later(t))
    BY <1>1, <2>1, <2>2, <2>3, ThenTurns DEF OwnerInv
  <2> QED  BY <2>2, <2>4
<1>7. /\ \A u \in Output!Threads : ~Starting(u, e)
      /\ decision[e] # "delegated" /\ proposed[e] /\ ~Inserting(e) /\ ~export[e].submitted /\ RecordIsSound(e)
  BY WaitingIsCalm DEF OwnerInv
<1>8. job[e] = "none" /\ e \notin forgotten
  BY <1>7 DEF ExportInv, StartedAsDecided, Output!StartedAsDecided, RecordIsSound, StartsOnce
<1>9. \A x \in Exports : x # e => exportApproval'[x] = exportApproval[x]
  BY DEF Output!Claimed, ExportInv, ExportTypes
<1>10. \A u \in Output!Threads, d \in StartSteps : Has(u, d, e)' <=> (u = t /\ d = "take")
  <2> SUFFICES ASSUME NEW u \in Output!Threads, NEW d \in StartSteps
               PROVE  Has(u, d, e)' <=> (u = t /\ d = "take")
    OBVIOUS
  <2>1. CASE u = t
    <3>1. \A s \in {l} \cup Later(t) : s.do # d
      BY <1>3, <1>5 DEF StartSteps
    <3> QED  BY <1>5, <1>6, <2>1, <3>1 DEF Has, Turns
  <2>2. CASE u # t
    <3>1. ~Has(u, d, e)
      BY <1>7 DEF Starting
    <3> QED  BY <1>6, <2>2, <3>1 DEF Has, Turns
  <2> QED  BY <2>1, <2>2
<1>12. ~Inserting(e)'
  <2>1. Later(t) \subseteq All(t)
    BY <1>2
  <2>2. \A u \in Output!Threads : Has(u, "insert", e)' => Has(u, "insert", e)
    BY <1>5, <1>6, <2>1, HasBefore
  <2> QED  BY <1>7, <2>2, InsertingHas
<1>13. RecordIsSound(e)'
  <2>1. StartsOnce(e)'
    <3>1. \A u \in Output!Threads : Starting(u, e)' => u = t
      BY <1>10 DEF Starting
    <3> QED  BY <1>7, <1>8, <1>10, <1>12, <3>1 DEF StartsOnce, StartSteps
  <2>2. StatesAreTrue(e)'
    <3>1. Output!Active(e)'
      BY DEF Output!Active, Output!Undecided
    <3> QED  BY <1>7, <1>12, <3>1 DEF StatesAreTrue
  <2>3. RunsAreWatched(e)'
    BY <1>8, <1>10 DEF RunsAreWatched, StartSteps, Live
  <2> QED  BY <2>1, <2>2, <2>3 DEF RecordIsSound
<1>14. Over(e) => Over(e)'
  BY <1>7, <1>8, <1>10, <1>12 DEF Over, Calm, Live, StartSteps
<1>15. ASSUME NEW u \in Output!Threads, NEW s \in All(u), s.of = e, s.do \notin {"insert", "leave", "clean", "close"}, Sound(u, s)
       PROVE  Sound(u, s)'
  <2>1. s.do = "fail" => Over(e)
    <3> SUFFICES ASSUME s.do = "fail", Lapsed(u, e)  PROVE FALSE
      BY <1>15 DEF Sound
    <3>1. u = Output!Agent(Owner) /\ Unwatched(e)
      BY DEF Lapsed
    <3>2. t = u
      BY <1>1, <1>4, <3>1 DEF Unwatched
    <3> QED  BY <1>1, <1>2, <1>3, <3>2
  <2> QED  BY <1>7, <1>12, <1>14, <1>15, <2>1 DEF Sound, Output!Exists
<1>16. \A x \in Exports \ {e} : Still(x)
  <2>1. \A x \in Exports \ {e} : StillJob(x) /\ StillRecord(x)
    BY <1>9, RecordsUnchanged DEF StillJob
  <2>2. \A s \in {b, l} : s.do \in StartSteps \cup {"insert"} => s.of = e
    BY <1>5 DEF StartSteps
  <2>3. \A s \in All(t) : s \in Later(t) \/ s.of = e \/ s.do \in {"leave", "look", "read", "enter"}
    BY <1>1, <1>2
  <2>4. Later(t) \subseteq All(t) /\ \A x \in Exports : t = Output!Watcher(x) => ~Unwatched(x)
    BY <1>1, <1>2 DEF Unwatched
  <2> QED  BY <1>6, <2>1, <2>2, <2>3, <2>4, OthersStill
<1>17. EntersDelegated'
  <2> SUFFICES ASSUME NEW u \in Output!Threads, NEW x \in Exports, Does(u, "enter")', Has(u, "take", x)'
               PROVE  decision[x] = "delegated"
    BY DEF EntersDelegated
  <2>1. u # t
    BY <1>3, <1>5, <1>6 DEF Does, Turns
  <2> QED  BY <1>6, <2>1 DEF OwnerInv, EntersDelegated, Does, Has, Turns
<1>18. \A s \in {b, l} : Sound(t, s)'
  BY <1>5, <1>7, <1>12 DEF Sound
<1>19. LaneIsHeld'
  <2>1. Does(t, "leave")'
    BY <1>5, <1>6 DEF Does, Turns
  <2> QED  BY <1>6, <2>1, LaneIsTaken DEF OwnerInv
<1>20. SameAuthority /\ (Cleaning => Cleaning')
  BY <1>4, <1>6, TheThreads DEF SameAuthority, Cleaning, Does, Turns
<1>21. Later(t) \subseteq All(t)
  BY <1>2
<1> HIDE DEF Cleaning
<1> QED  BY <1>6, <1>13, <1>14, <1>15, <1>16, <1>17, <1>18, <1>19, <1>20, <1>21, OneMoves

LEMMA LookOwned ==
  ASSUME ExportInv, ExportInv', OwnerInv, NEW t \in Output!Threads, NEW e \in Exports, Output!Look(t, e)
  PROVE  OwnerInv'
<1> DEFINE f == Output!Step("fail", e)
           l == Output!Step("leave", Nobody)
<1>1. Output!Doing(t, "look", e) /\ exportLane = Nobody
  BY DEF Output!Look
<1>2. UNCHANGED <<leased, open, revision, export, decision, proposed, order, job, killed, forgotten, alive>>
  BY DEF Output!Look, Output!authority, Output!folder, Output!records, Output!jobs, Output!threads
<1>3. /\ Head(agenda[t]).do = "look" /\ Head(agenda[t]).of = e /\ agenda[t] # <<>> /\ Sound(t, Head(agenda[t]))
      /\ proposed[e] /\ ~Inserting(e) /\ RecordIsSound(e)
  BY <1>1, SoundAtHand
<1>4. \A s \in Later(t) : s.do = "read"
  BY <1>3, FirstPrecedes DEF Precedes, OwnerInv
<1>5. f \in Steps /\ f.do = "fail" /\ f.of = e /\ l \in Steps /\ l.do = "leave"
  BY TheStep DEF Doings
<1>6. All(t) = {Head(agenda[t])} \cup Later(t)
  BY <1>1, StepsAtHand
<1>7. \/ Output!Then(t, <<>>) /\ UNCHANGED <<exportApproval, exportLane>>
      \/ ~Output!Exists(e) /\ Output!OnLookError(t, e) /\ UNCHANGED <<exportApproval, exportLane>>
      \/ /\ export[e].state = "awaiting" /\ Owner \notin leased
         /\ Output!OnLookError(t, e) /\ UNCHANGED <<exportApproval, exportLane>>
      \/ /\ export[e].state = "awaiting" /\ Owner \in leased /\ exportApproval[e] = "approved"
         /\ exportApproval' = Output!Claimed(e) /\ exportLane' = t
         /\ Output!Then(t, <<Output!Step("take", e), Output!Step("leave", Nobody)>>)
      \/ /\ export[e].state = "awaiting" /\ exportApproval[e] \in {"denied", "expired"} /\ UNCHANGED exportApproval
         /\ exportLane' = t /\ Output!Then(t, <<f, l>>)
  BY DEF Output!Look
<1> HIDE DEF f, l, Sound, Inserting, Over, Lapsed
<1>8. CASE Output!Then(t, <<>>) /\ UNCHANGED <<exportApproval, exportLane>>
  <2>1. Turns(t, {}, Later(t)) /\ NoStart({})
    BY <1>3, <1>8, NothingPut DEF NoStart
  <2>2. LaneIsHeld'
    BY <1>1, <1>8, <2>1, LaneGoesOn DEF OwnerInv
  <2> QED  BY <1>1, <1>2, <1>8, <2>1, <2>2, LookEnds
<1>9. ASSUME Over(e) \/ Lapsed(t, e), Output!OnLookError(t, e), UNCHANGED <<exportApproval, exportLane>>
      PROVE  OwnerInv'
  <2>1. PICK P \in {{}, {f}} : Turns(t, P, {})
    <3>1. CASE Output!Begin(t, <<f>>)
      BY <1>5, <3>1, SortedOne, BeginTurns DEF OwnerInv
    <3>2. CASE Output!Begin(t, <<>>)
      <4>1. <<>> \in Seq(Steps) /\ Sorted(<<>>) /\ Of(<<>>) = {}
        BY DEF Sorted, Of
      <4> QED  BY <3>2, <4>1, BeginTurns DEF OwnerInv
    <3> QED  BY <1>9, <3>1, <3>2 DEF Output!OnLookError, f
  <2>2. LaneIsHeld'
    <3>1. \A s \in P : s.do \notin NeedsLane \cup {"leave"}
      BY <1>5 DEF NeedsLane, StartSteps
    <3> QED  BY <1>9, <2>1, <3>1, LaneBegins DEF OwnerInv
  <2>3. /\ {} \subseteq Later(t)
        /\ \A s \in P : s.do = "leave" \/ (s.do = "fail" /\ s.of = e /\ (Over(e) \/ Lapsed(t, e)))
    BY <1>5, <1>9
  <2> QED  BY <1>1, <1>2, <1>9, <2>1, <2>2, <2>3, LookEnds
<1>10. CASE ~Output!Exists(e) /\ Output!OnLookError(t, e) /\ UNCHANGED <<exportApproval, exportLane>>
  <2>1. ~Output!Active(e)
    BY <1>10 DEF Output!Exists, Output!Active, Output!Undecided
  <2>2. Over(e)
    BY <1>3, <2>1 DEF RecordIsSound, StatesAreTrue
  <2> QED  BY <1>9, <1>10, <2>2
<1>11. CASE /\ export[e].state = "awaiting" /\ Owner \notin leased
            /\ Output!OnLookError(t, e) /\ UNCHANGED <<exportApproval, exportLane>>
  <2>1. Lapsed(t, e)
    BY <1>1, <1>11, WaitingIsCalm DEF Lapsed
  <2> QED  BY <1>9, <1>11, <2>1
<1>12. CASE /\ export[e].state = "awaiting" /\ Owner \in leased /\ exportApproval[e] = "approved"
            /\ exportApproval' = Output!Claimed(e) /\ exportLane' = t
            /\ Output!Then(t, <<Output!Step("take", e), Output!Step("leave", Nobody)>>)
  BY <1>1, <1>2, <1>12, ClaimOwned
<1>13. CASE /\ export[e].state = "awaiting" /\ exportApproval[e] \in {"denied", "expired"} /\ UNCHANGED exportApproval
            /\ exportLane' = t /\ Output!Then(t, <<f, l>>)
  <2>1. Lapsed(t, e)
    BY <1>1, <1>13, WaitingIsCalm DEF Lapsed
  <2>2. Turns(t, {f, l}, Later(t))
    <3>1. Precedes(f.do, l.do) /\ \A y \in {f, l}, s \in Later(t) : Precedes(y.do, s.do)
      BY <1>4, <1>5 DEF Precedes
    <3>2. Sorted(<<f, l>>) /\ <<f, l>> \in Seq(Steps) /\ Of(<<f, l>>) = {f, l}
      BY <1>5, <3>1, SortedTwo
    <3>3. Turns(t, Of(<<f, l>>), Later(t))
      BY <1>3, <1>13, <3>1, <3>2, ThenTurns DEF OwnerInv
    <3> QED  BY <3>2, <3>3
  <2>3. LaneIsHeld'
    <3>1. Does(t, "leave")'
      BY <1>5, <2>2 DEF Does, Turns
    <3> QED  BY <1>1, <1>13, <2>2, <3>1, LaneIsTaken DEF OwnerInv
  <2>4. \A s \in {f, l} : s.do = "leave" \/ (s.do = "fail" /\ s.of = e /\ (Over(e) \/ Lapsed(t, e)))
    BY <1>5, <2>1
  <2>5. Later(t) \subseteq Later(t)
    OBVIOUS
  <2> QED  BY <1>1, <1>2, <1>13, <2>2, <2>3, <2>4, <2>5, LookEnds
<1> QED  BY <1>7, <1>8, <1>10, <1>11, <1>12, <1>13

--------------------------------------------------------------------------------
(* Exports are cancelled.                                                  *)

LEMMA CancelExportOwned ==
  ASSUME ExportInv, ExportInv', OwnerInv, NEW e \in Exports, Output!CancelExport(e)
  PROVE  OwnerInv'
<1> DEFINE l == Output!Step("leave", Nobody)
           k == Output!Step("look", e)
           r == Output!Step("read", e)
<1> HIDE DEF Inserting, Over, Sound, Cleaning
<1>0. PICK t \in Output!Threads : t = Output!Agent(Owner)
  BY TheThreads
<1>1. PICK d \in {"kill", "finish"} : d = IF Output!Active(e) /\ export[e].submitted THEN "kill" ELSE "finish"
  OBVIOUS
<1>2. PICK a : a = Output!Step(d, e)
  OBVIOUS
<1>3. /\ agenda[t] = <<>> /\ Output!Exists(e) /\ exportLane = Nobody /\ exportLane' = t
      /\ Output!Begin(t, <<a, l>> \o Output!Status(e))
  BY <1>0, <1>1, <1>2 DEF Output!CancelExport, Output!Idle, Output!Owned
<1>4. UNCHANGED <<leased, open, revision, decision, proposed, order, job, killed, forgotten, alive>>
  BY DEF Output!CancelExport, Output!authority, Output!folder, Output!records, Output!jobs, Output!threads
<1>5. /\ a \in Steps /\ a.do = d /\ a.of = e /\ l \in Steps /\ l.do = "leave"
      /\ k \in Steps /\ k.do = "look" /\ k.of = e /\ r \in Steps /\ r.do = "read" /\ r.of = e
  BY <1>2, TheStep DEF Doings
<1>6. Output!Status(e) = <<k, r>>
  BY DEF Output!Status
<1> HIDE DEF l, k, r
<1>7. Turns(t, {a, l, k, r}, {})
  <2>1. Output!Begin(t, <<a, l, k, r>>)
    BY <1>3, <1>6, TwoAndTwo
  <2>2. Sorted(<<a, l, k, r>>) /\ <<a, l, k, r>> \in Seq(Steps) /\ Of(<<a, l, k, r>>) = {a, l, k, r}
    <3>1. /\ \A y \in {l, k, r} : Precedes(a.do, y.do)
          /\ \A y \in {k, r} : Precedes(l.do, y.do)
          /\ Precedes(k.do, r.do)
      BY <1>5 DEF Precedes
    <3> QED  BY <1>5, <3>1, SortedFour
  <2>3. Turns(t, Of(<<a, l, k, r>>), {})
    BY <2>1, <2>2, BeginTurns DEF OwnerInv
  <2> QED  BY <2>2, <2>3
<1>8. PICK P : P = {a, l, k, r}
  OBVIOUS
<1>9. Turns(t, P, {}) /\ All(t) = {}
  BY <1>3, <1>7, <1>8, NoSteps
<1>10. proposed[e] /\ ~Inserting(e) /\ RecordIsSound(e)
  BY <1>3 DEF ExportInv, RecordsAreProposed, RowsAreFlagged, OwnerInv
<1>11. /\ export[e].state = "awaiting" =>
             /\ export'[e].state = "cancelled" /\ export'[e].snapshot = export[e].snapshot
             /\ export'[e].submitted = export[e].submitted /\ export'[e].revision = export[e].revision
       /\ export[e].state # "awaiting" => export'[e] = export[e]
       /\ \A x \in Exports : x # e => export'[x] = export[x]
  BY DEF Output!CancelExport, Output!Set, ExportInv, ExportTypes
<1>12. export[e].state = "awaiting" => Calm(e)
  BY <1>3, WaitingIsCalm
<1>13. \A x \in Exports : StillJob(x) /\ StillRecord(x)
  <2>1. \A x \in Exports : exportApproval[x] \in {"denied", "expired"} => exportApproval'[x] = exportApproval[x]
    BY DEF Output!CancelExport, Output!Withdrawn
  <2>2. StillRecord(e)
    <3>1. CASE export[e].state = "awaiting"
      BY <1>3, <1>11, <1>12, <3>1 DEF StillRecord
    <3>2. CASE export[e].state # "awaiting"
      BY <1>11, <3>2 DEF StillRecord, Output!Active, Output!Exists
    <3> QED  BY <3>1, <3>2
  <2>3. ASSUME NEW x \in Exports, x # e  PROVE StillRecord(x)
    BY <1>11, <2>3 DEF StillRecord, Output!Active, Output!Exists
  <2> QED  BY <1>4, <2>1, <2>2, <2>3, JobsUnchanged
<1>14. NoStart(P) /\ NoNewWatcher /\ SameAuthority
  BY <1>4, <1>5, <1>8 DEF NoStart, StartSteps, NoNewWatcher, SameAuthority
<1>15. \A x \in Exports : t # Output!Watcher(x)
  BY <1>0 DEF Output!Agent, Output!Watcher
<1>16. Still(e)
  BY <1>3, <1>9, <1>13, <1>14, <1>15, BeginStill
<1>17. proposed'[e] /\ ~Inserting(e)'
  BY <1>10, <1>16 DEF Still, StillSteps, StillJob
<1>18. d = "finish" => Over(e)'
  <2>1. CASE export[e].state = "awaiting"
    <3>1. Calm(e)'
      BY <1>4, <1>12, <1>16, <2>1, StillStands
    <3> QED  BY <1>11, <2>1, <3>1 DEF Over
  <2>2. CASE export[e].state # "awaiting" /\ d = "finish"
    <3>1. CASE ~Output!Active(e)
      <4>1. Over(e)
        BY <1>3, <3>1, TerminalIsOver
      <4> QED  BY <1>4, <1>16, <4>1, StillStands
    <3>2. CASE Output!Active(e)
      <4>1. export[e].state \in {"queued", "running"} /\ ~export[e].submitted
        BY <1>1, <2>2, <3>2 DEF Output!Active, Output!Undecided
      <4>2. PICK do : Has(t, do, e)
        BY <1>0, <1>10, <4>1 DEF RecordIsSound, StatesAreTrue
      <4> QED  BY <1>9, <4>2 DEF Has
    <3> QED  BY <3>1, <3>2
  <2> QED  BY <2>1, <2>2
<1>19. \A s \in P : Sound(t, s)' /\ s.do # "enter"
  <2>1. Sound(t, l)' /\ Sound(t, k)' /\ Sound(t, r)'
    BY <1>0, <1>5, <1>17 DEF Sound
  <2>2. Sound(t, a)'
    BY <1>5, <1>17, <1>18 DEF Sound
  <2> QED  BY <1>5, <1>8, <2>1, <2>2
<1>20. LaneIsHeld'
  <2>1. Does(t, "leave")'
    BY <1>5, <1>8, <1>9 DEF Does, Turns
  <2> QED  BY <1>3, <1>9, <2>1, LaneIsTaken DEF OwnerInv
<1>21. order' = order
  BY <1>4
<1> QED  BY <1>9, <1>13, <1>14, <1>15, <1>19, <1>20, <1>21, QuietTurn

--------------------------------------------------------------------------------
(* What relied on authority that is gone is cleaned up.                    *)

\* While nobody is in the lane, no start is past the snapshot.
LEMMA NobodyStarts ==
  ASSUME ExportInv, OwnerInv, exportLane = Nobody
  PROVE  \A u \in Output!Threads, e \in Exports, do \in NextStarts : ~Has(u, do, e)
<1> SUFFICES ASSUME NEW u \in Output!Threads, NEW e \in Exports, NEW do \in NextStarts, Has(u, do, e)
             PROVE  FALSE
  OBVIOUS
<1>1. Does(u, "leave")
  BY DEF OwnerInv, LaneIsHeld, NeedsLane, StartSteps, NextStarts, Does, Has
<1>2. Does(u, "enter")
  <2>1. u # Nobody
    BY ExportConstants
  <2> QED  BY <1>1, <2>1 DEF OwnerInv, LaneIsHeld
<1>3. agenda[u] # <<>> /\ All(u) = {Head(agenda[u])} \cup Later(u)
  <2>1. agenda[u] # <<>>
    BY NoSteps DEF Has
  <2> QED  BY <2>1, TheStepAtHand DEF ExportInv
<1>4. Head(agenda[u]).do = "enter"
  BY <1>2, <1>3, NoneEnters DEF Does
<1> QED  BY <1>3, <1>4, NoneEnters DEF Has, NextStarts

\* The agenda of a clean-up: what the coordinator has is to be told to stop, what never got
\* there is to be finished.
EndOf(s, S) == s.do = "leave" \/ (s.of \in S /\ s.do = IF export[s.of].submitted THEN "kill" ELSE "finish")
Ends(P, S) ==
    /\ \A s \in P : EndOf(s, S)
    /\ \E s \in P : s.do = "leave"
    /\ \A e \in S : export[e].submitted => \E s \in P : s.do = "kill" /\ s.of = e

LEMMA CleanUpTurns ==
  ASSUME ExportInv, OwnerInv, NEW S \in SUBSET Exports, NEW q \in Output!SetToSeqs(S), NEW c,
         Output!Doing(Output!Cleaner, "clean", c),
         Output!Then(Output!Cleaner, Output!CleanUp(q) \o <<Output!Step("leave", Nobody)>>)
  PROVE  \E P : Turns(Output!Cleaner, P, Later(Output!Cleaner)) /\ Ends(P, S)
<1> DEFINE p == Output!CleanUp(q)
           l == Output!Step("leave", Nobody)
<1>0. PICK t \in Output!Threads : t = Output!Cleaner
  BY TheThreads
<1>1. q \in Seq(S) /\ \A x \in S : \E n \in DOMAIN q : q[n] = x
  BY ExportConstants, FS_Subset, OrdersAreComplete
<1>2. l \in Steps /\ l.do = "leave"
  BY TheStep DEF Doings
<1>3. PICK N \in Nat : q \in [1..N -> S] /\ DOMAIN q = 1..N
  BY <1>1
<1>4. ASSUME NEW n \in 1..N
      PROVE  /\ p[n] \in Steps /\ p[n].of = q[n] /\ q[n] \in S
             /\ p[n].do = IF export[q[n]].submitted THEN "kill" ELSE "finish"
  <2>1. PICK d \in {"kill", "finish"} : d = IF export[q[n]].submitted THEN "kill" ELSE "finish"
    OBVIOUS
  <2>2. q[n] \in S /\ q[n] \in Exports
    BY <1>3
  <2>3. p[n] = Output!Step(d, q[n])
    BY <1>3, <2>1 DEF Output!CleanUp
  <2> QED  BY <2>1, <2>2, <2>3, TheStep DEF Doings
<1>5. p \in [1..N -> Steps]
  <2>1. p = [n \in 1..N |-> p[n]]
    BY <1>3 DEF Output!CleanUp
  <2> HIDE DEF p
  <2> QED  BY <1>4, <2>1
<1> HIDE DEF p, l
<1>6. p \in Seq(Steps) /\ Len(p) = N
  BY <1>5
<1>7. p \o <<l>> \in Seq(Steps) /\ p \o <<l>> # <<>> /\ Of(p \o <<l>>) = Of(p) \cup {l}
  BY <1>2, <1>6, OneMore
<1>8. \A s \in Of(p) : EndOf(s, S) /\ s.do # "leave"
  BY <1>4, <1>6 DEF Of, EndOf
<1>9. \A e \in S : export[e].submitted => \E s \in Of(p) : s.do = "kill" /\ s.of = e
  <2> SUFFICES ASSUME NEW e \in S, export[e].submitted  PROVE \E s \in Of(p) : s.do = "kill" /\ s.of = e
    OBVIOUS
  <2>1. PICK n \in 1..N : q[n] = e
    BY <1>1, <1>3
  <2>2. p[n] \in Of(p)
    BY <1>6 DEF Of
  <2> QED  BY <1>4, <2>1, <2>2
<1>10. Ends(Of(p \o <<l>>), S)
  BY <1>2, <1>7, <1>8, <1>9 DEF Ends, EndOf
<1>11. \A s \in Of(p \o <<l>>) : s.do \in {"kill", "finish", "leave"}
  BY <1>10 DEF Ends, EndOf
<1>12. Sorted(p \o <<l>>)
  <2>1. PICK r \in Seq(Steps) : r = p \o <<l>>
    BY <1>7
  <2>2. Len(r) = N + 1 /\ \A n \in 1..N : r[n] = p[n]
    BY <1>2, <1>6, <2>1
  <2>3. \A n \in 1..Len(r) : r[n].do \in {"kill", "finish", "leave"}
    BY <1>11, <2>1 DEF Of
  <2>4. \A n \in 1..N : r[n].do # "leave"
    BY <1>6, <1>8, <2>2 DEF Of
  <2>5. ASSUME NEW i \in 1..Len(r), NEW j \in 1..Len(r), i < j  PROVE Precedes(r[i].do, r[j].do)
    <3>1. i \in 1..N
      BY <2>2, <2>5
    <3>2. r[i].do \in {"kill", "finish"} /\ r[j].do \in {"kill", "finish", "leave"}
      BY <2>3, <2>4, <3>1
    <3> QED  BY <3>2 DEF Precedes
  <2> QED  BY <2>1, <2>5 DEF Sorted
<1>13. agenda[t] # <<>> /\ Head(agenda[t]).do = "clean"
  BY <1>0, StepsAtHand
<1>14. \A s \in Later(t) : s.do = "close"
  BY <1>13, FirstPrecedes DEF Precedes, OwnerInv
<1>15. \A a \in Of(p \o <<l>>), b \in Later(t) : Precedes(a.do, b.do)
  BY <1>11, <1>14 DEF Precedes
<1>16. Turns(t, Of(p \o <<l>>), Later(t))
  <2>1. Output!Then(t, p \o <<l>>)
    BY <1>0 DEF p, l
  <2> QED  BY <1>7, <1>12, <1>13, <1>15, <2>1, ThenTurns DEF OwnerInv
<1> QED  BY <1>0, <1>10, <1>16

LEMMA CleanOwned ==
  ASSUME ExportInv, ExportInv', OwnerInv, NEW c \in {Owner, Nobody}, Output!Clean(c)
  PROVE  OwnerInv'
<1> HIDE DEF Inserting, Over, Sound, Cleaning, Trusted, Dispensable
<1>0. PICK t \in Output!Threads : t = Output!Cleaner
  BY TheThreads
<1>1. PICK S \in SUBSET Exports : S = {e \in Exports : Output!Active(e)}
  OBVIOUS
<1>2. Output!Concerned(c) = S
  BY <1>1 DEF Output!Concerned
<1>3. PICK T \in SUBSET Exports : T = {e \in S : export[e].submitted \/ export[e].state = "awaiting"}
  OBVIOUS
<1>4. /\ Output!Doing(t, "clean", c) /\ exportLane = Nobody /\ exportLane' = t
      /\ exportApproval' = Output!Withdrawn(S)
      /\ export' = [e \in Exports |-> IF e \in S /\ export[e].state = "awaiting"
                                      THEN [export[e] EXCEPT !.state = "cancelled"] ELSE export[e]]
      /\ \E q \in Output!SetToSeqs(T) : Output!Then(t, Output!CleanUp(q) \o <<Output!Step("leave", Nobody)>>)
  BY <1>0, <1>2, <1>3 DEF Output!Clean, Output!ToEnd
<1>5. UNCHANGED <<leased, open, revision, decision, proposed, order, job, killed, forgotten, alive>>
  BY DEF Output!Clean, Output!authority, Output!folder, Output!records, Output!jobs, Output!threads
<1>6. PICK P : Turns(t, P, Later(t)) /\ Ends(P, T)
  BY <1>0, <1>4, CleanUpTurns
<1>7. PICK h : h = Head(agenda[t])
  OBVIOUS
<1>8. agenda[t] # <<>> /\ h.do = "clean" /\ All(t) = {h} \cup Later(t)
  BY <1>4, <1>7, StepsAtHand
<1>9. \A s \in P : s.do \in {"kill", "finish", "leave"} /\ (s.do # "leave" => s.of \in T /\ s.of \in Exports)
  BY <1>6 DEF Ends, EndOf
<1>10. ASSUME NEW e \in Exports
       PROVE  /\ export[e].state = "awaiting" =>
                    /\ export'[e].state = "cancelled" /\ export'[e].snapshot = export[e].snapshot
                    /\ export'[e].submitted = export[e].submitted /\ export'[e].revision = export[e].revision
              /\ export[e].state # "awaiting" => export'[e] = export[e]
  <2>1. export[e].state = "awaiting" => e \in S
    BY <1>1 DEF Output!Active, Output!Undecided
  <2> QED  BY <1>4, <2>1 DEF ExportInv, ExportTypes
<1>11. \A e \in Exports : export[e].state = "awaiting" => Calm(e) /\ ~export[e].submitted
  BY <1>4, WaitingIsCalm
<1>12. \A e \in Exports : StillJob(e)
  <2>1. \A x \in Exports : exportApproval[x] \in {"denied", "expired"} => exportApproval'[x] = exportApproval[x]
    BY <1>4 DEF Output!Withdrawn
  <2> QED  BY <1>5, <2>1, JobsUnchanged
<1>13. ASSUME NEW e \in Exports  PROVE StillRecord(e)
  <2>1. CASE export[e].state = "awaiting"
    BY <1>10, <1>11, <2>1 DEF StillRecord, Output!Exists
  <2>2. CASE export[e].state # "awaiting"
    BY <1>10, <2>2 DEF StillRecord, Output!Active, Output!Exists
  <2> QED  BY <2>1, <2>2
<1>14. \A e \in Exports : Still(e)
  <2>1. NoStart(P)
    BY <1>9 DEF NoStart, StartSteps
  <2>2. \A s \in All(t) : s \in All(t)' \/ Dispensable(t, s)
    <3>1. Dispensable(t, h)
      BY <1>8 DEF Dispensable, StartSteps
    <3> QED  BY <1>6, <1>8, <3>1 DEF Turns
  <2>3. \A e \in Exports : t # Output!Watcher(e)
    BY <1>0, TheThreads
  <2>4. Later(t) \subseteq All(t)
    BY <1>8
  <2> QED  BY <1>5, <1>6, <1>12, <1>13, <2>1, <2>2, <2>3, <2>4, StepsGoOn DEF Still
<1>15. leased' \subseteq leased
  BY <1>5
<1>16. ASSUME NEW e \in Exports
       PROVE  RunsAreWatched(e)'
  <2>1. \A u \in Output!Threads, do \in NextStarts : ~Has(u, do, e) /\ ~Has(u, do, e)'
    <3>1. \A u \in Output!Threads, do \in NextStarts : ~Has(u, do, e)
      BY <1>4, NobodyStarts
    <3> QED  BY <1>14, <3>1 DEF Still, StillSteps, StartSteps, NextStarts
  <2>2. ASSUME Live(e)'
        PROVE  open' /\ export'[e].submitted /\ Has(Output!Cleaner, "kill", e)'
    <3>1. Live(e) /\ ~Over(e)
      BY <1>14, <1>15, <2>2, StillStands DEF Over, Calm
    <3>2. open /\ export[e].submitted
      BY <2>1, <3>1 DEF OwnerInv, RecordIsSound, RunsAreWatched, NextStarts
    <3>3. job[e] # "none"
      BY <3>1 DEF Live
    <3>4. proposed[e] /\ ~Inserting(e)
      BY <3>3 DEF ExportInv, RecordsAreProposed, OwnerInv, RecordIsSound, StartsOnce
    <3>5. Output!Active(e)
      BY <3>1, <3>4 DEF OwnerInv, RecordIsSound, StatesAreTrue
    <3>6. e \in T
      BY <1>1, <1>3, <3>2, <3>5
    <3>7. PICK s \in P : s.do = "kill" /\ s.of = e
      BY <1>6, <3>2, <3>6 DEF Ends
    <3>8. Has(t, "kill", e)'
      BY <1>6, <3>7 DEF Has, Turns
    <3>9. export'[e].submitted
      BY <1>10, <3>2
    <3> QED  BY <1>0, <1>5, <3>2, <3>8, <3>9
  <2> QED  BY <2>1, <2>2 DEF RunsAreWatched, NextStarts
<1>17. \A e \in Exports : RecordIsSound(e)'
  BY <1>14, <1>15, <1>16, StillStartsOnce, StillStates DEF OwnerInv, RecordIsSound
<1>18. StepsAreSound'
  <2>1. \A u \in Output!Threads : \A s \in All(u) : Sound(u, s) => Sound(u, s)'
    <3> SUFFICES ASSUME NEW u \in Output!Threads, NEW s \in All(u), Sound(u, s)  PROVE Sound(u, s)'
      OBVIOUS
    <3>1. s.do \notin {"insert", "leave", "clean", "close"} => Still(s.of)
      BY <1>14 DEF Sound
    <3> QED  BY <1>15, <3>1, SoundStays
  <2>2. ASSUME NEW s \in P  PROVE Sound(t, s)'
    <3>1. CASE s.do = "leave"
      BY <3>1 DEF Sound
    <3>2. CASE s.do # "leave"
      <4>1. PICK e \in Exports : e = s.of /\ e \in T /\ s.do = IF export[e].submitted THEN "kill" ELSE "finish"
        BY <1>6, <1>9, <3>2 DEF Ends, EndOf
      <4>2. Output!Exists(e)
        BY <1>1, <1>3, <4>1 DEF Output!Exists, Output!Active, Output!Undecided
      <4>3. proposed[e] /\ ~Inserting(e)
        BY <4>2 DEF ExportInv, RecordsAreProposed, RowsAreFlagged
      <4>4. proposed'[e] /\ ~Inserting(e)'
        BY <1>14, <4>3 DEF Still, StillSteps, StillJob
      <4>5. ~export[e].submitted => Over(e)'
        <5> SUFFICES ASSUME ~export[e].submitted  PROVE Over(e)'
          OBVIOUS
        <5>1. export[e].state = "awaiting"
          BY <1>3, <4>1
        <5>2. Calm(e)' /\ export'[e].state = "cancelled"
          BY <1>10, <1>11, <1>14, <1>15, <5>1, StillStands
        <5> QED  BY <5>2 DEF Over
      <4> QED  BY <4>1, <4>4, <4>5 DEF Sound
    <3> QED  BY <3>1, <3>2
  <2>3. Later(t) \subseteq All(t)
    BY <1>8
  <2> QED  BY <1>6, <2>1, <2>2, <2>3, SoundGoOn DEF OwnerInv
<1>19. EntersDelegated'
  <2>1. \A e \in Exports : decision'[e] = decision[e]
    BY <1>5
  <2>2. Later(t) \subseteq All(t) /\ \A s \in P : s.do \notin {"enter", "take"}
    BY <1>8, <1>9
  <2> QED  BY <1>6, <2>1, <2>2, EntersGoOn DEF OwnerInv
<1>20. LaneIsHeld'
  <2>1. Does(t, "leave")'
    BY <1>6 DEF Ends, Does, Turns
  <2> QED  BY <1>4, <1>6, <2>1, LaneIsTaken DEF OwnerInv
<1>21. OrderIsOver'
  <2>1. \A e \in Exports : Over(e) => Over(e)'
    BY <1>14, <1>15, StillStands
  <2> QED  BY <1>5, <2>1, OrderStands DEF OwnerInv
<1> QED  BY <1>6, <1>17, <1>18, <1>19, <1>20, <1>21 DEF OwnerInv, Turns

--------------------------------------------------------------------------------
(* No export runs on without its authority.                                *)

LEMMA OwnerInit ==
  ASSUME Output!ExportInit
  PROVE  OwnerInv
<1>1. agenda = [t \in Output!Threads |-> <<>>]
  BY DEF Output!ExportInit
<1>2. \A t \in Output!Threads : All(t) = {} /\ Later(t) = {} /\ Len(agenda[t]) = 0
  BY <1>1, NoSteps
<1>3. /\ \A t \in Output!Threads : \A do : ~Does(t, do)
      /\ \A t \in Output!Threads : \A do, e : ~Has(t, do, e)
  BY <1>2 DEF Does, Has
<1>4. AgendasAreSorted
  BY <1>2 DEF AgendasAreSorted, Sorted
<1>5. LaneIsHeld /\ EntersDelegated
  BY <1>3 DEF LaneIsHeld, EntersDelegated
<1>6. StepsAreSound
  BY <1>2 DEF StepsAreSound
<1>7. OrderIsOver
  <2>1. order = <<>>
    BY DEF Output!ExportInit
  <2> QED  BY <2>1 DEF OrderIsOver
<1>8. ASSUME NEW e \in Exports  PROVE RecordIsSound(e)
  <2>1. /\ export[e].state = "none" /\ ~export[e].submitted /\ ~proposed[e] /\ job[e] = "none" /\ e \notin forgotten
        /\ alive = {}
    BY DEF Output!ExportInit, Output!NoRecord
  <2>2. Unwatched(e)
    BY <1>1, <2>1, TheThreads DEF Unwatched
  <2>3. \A t \in Output!Threads : ~Starting(t, e)
    BY <1>3 DEF Starting
  <2>4. StartsOnce(e)
    BY <1>3, <2>1, <2>3 DEF StartsOnce
  <2>5. StatesAreTrue(e)
    BY <2>1, <2>2 DEF StatesAreTrue
  <2>6. RunsAreWatched(e)
    BY <1>3, <2>1 DEF RunsAreWatched, Live
  <2> QED  BY <2>4, <2>5, <2>6 DEF RecordIsSound
<1> QED  BY <1>4, <1>5, <1>6, <1>7, <1>8 DEF OwnerInv

LEMMA OwnerStep ==
  ASSUME ExportInv, ExportInv', OwnerInv, Output!ExportNext
  PROVE  OwnerInv'
<1>1. ASSUME NEW e \in Exports,
             \/ Output!Propose(e) \/ Output!DecideApproval(e) \/ Output!JobEnds(e) \/ Output!Forget(e)
             \/ Output!Watch(e) \/ Output!Poll(e) \/ Output!AskStatus(e) \/ Output!CancelExport(e) \/ Output!Release(e)
      PROVE  OwnerInv'
  BY <1>1, ProposeOwned, DecideOwned, JobEndsOwned, ForgetOwned, WatchOwned, PollOwned, AskStatusOwned,
     CancelExportOwned, ReleaseOwned
<1>2. ASSUME NEW t \in Output!Threads, NEW e \in Exports,
             \/ Output!Insert(t, e) \/ Output!Enter(t, e) \/ Output!Look(t, e) \/ Output!Take(t, e)
             \/ Output!Check(t, e) \/ Output!Submit(t, e) \/ Output!Register(t, e) \/ Output!Fail(t, e)
             \/ Output!Finish(t, e) \/ Output!WriteRow(t, e) \/ Output!Read(t, e) \/ Output!Apply(t, e)
             \/ Output!Kill(t, e)
      PROVE  OwnerInv'
  BY <1>2, InsertOwned, EnterOwned, LookOwned, TakeOwned, CheckOwned, SubmitOwned, RegisterOwned, FailOwned,
     FinishOwned, WriteRowOwned, ReadOwned, ApplyOwned, KillOwned
<1>3. ASSUME NEW t \in Output!Threads, Output!LeaveLane(t)  PROVE OwnerInv'
  BY <1>3, LeaveLaneOwned
<1>4. ASSUME NEW c \in {Owner}, Output!LoseLease(c)  PROVE OwnerInv'
  BY <1>4, LoseLeaseOwned
<1>5. ASSUME NEW c \in {Owner} \cup {Nobody}, Output!Clean(c)  PROVE OwnerInv'
  BY <1>5, CleanOwned
<1>6. ASSUME Output!ChangeFolder \/ Output!ChangeContents \/ Output!CloseProject \/ Output!Close  PROVE OwnerInv'
  BY <1>6, ChangeFolderOwned, ContentsOwned, CloseProjectOwned, CloseOwned
<1> QED  BY <1>1, <1>2, <1>3, <1>4, <1>5, <1>6 DEF Output!ExportNext

\* An export that runs on after its connection, its project or the version of the folder
\* it was decided on is gone has been told to stop once the clean-up is over, whichever
\* threads start, watch, cancel and audit it meanwhile (agent_exports.rs,
\* cleanup_matching).  What carries it: every start is checked and handed over in the lane,
\* the clean-up goes through the lane after the authority is gone, and until then the
\* cleaner has it on its agenda; a record is ended only when its export never runs again.
THEOREM RunsHaveAuthority == AgentsSpec => []NoOrphanExport
<1>1. AgentsInit => ExportInv /\ OwnerInv
  BY ExportInitInv, OwnerInit DEF AgentsInit
<1>2. ExportInv /\ OwnerInv /\ [AgentsNext]_vars => ExportInv' /\ OwnerInv'
  <2> SUFFICES ASSUME ExportInv, OwnerInv, [AgentsNext]_vars  PROVE ExportInv' /\ OwnerInv'
    OBVIOUS
  <2>1. CASE Output!ExportNext
    BY <2>1, ExportStep, OwnerStep
  <2>2. CASE UNCHANGED exportVars
    BY <2>2, ExportStutter, ContentsOwned
  <2> QED  BY <2>1, <2>2 DEF AgentsNext, vars
<1>3. ExportInv /\ OwnerInv => NoOrphanExport
  <2> SUFFICES ASSUME ExportInv, OwnerInv, agenda[Output!Cleaner] = <<>>, exportLane = Nobody, NEW e \in Exports, Live(e)
               PROVE  Owner \in leased /\ open /\ export[e].revision = revision /\ Output!Active(e)
    BY DEF NoOrphanExport, Output!NoOrphanExport, Output!Idle, Output!Authorized, Live
  <2> HIDE DEF Inserting
  <2>1. ~Cleaning /\ ~Has(Output!Cleaner, "kill", e)
    BY NoSteps DEF Cleaning, Does, Has
  <2>2. open /\ Trusted(e)
    BY <2>1 DEF OwnerInv, RecordIsSound, RunsAreWatched
  <2>3. ~Over(e) /\ job[e] # "none"
    BY DEF Over, Calm, Live
  <2>4. proposed[e] /\ ~Inserting(e)
    BY <2>3 DEF ExportInv, RecordsAreProposed, OwnerInv, RecordIsSound, StartsOnce
  <2>5. Output!Active(e)
    BY <2>3, <2>4 DEF OwnerInv, RecordIsSound, StatesAreTrue
  <2> QED  BY <2>2, <2>5 DEF Trusted
<1> QED  BY <1>1, <1>2, <1>3, PTL DEF AgentsSpec

================================================================================
