----------------------------- MODULE OneUseApproval -----------------------------
(***************************************************************************)
(* What the user's approval of an agent's statement promises: the          *)
(* statement is applied at most once, only after the user approved it, and *)
(* only to the catalog it was proposed for.                                *)
(***************************************************************************)
EXTENDS Naturals

CONSTANT Approvals

VARIABLES
    stage,      \* of each approval
    proposedAt, \* the catalog revision it was proposed for
    revision    \* of the catalog

OneUseTypeOK ==
    /\ stage \in [Approvals -> {"none", "proposed", "approved", "spent", "closed"}]
    /\ proposedAt \in [Approvals -> Nat] /\ revision \in Nat

OneUseInit ==
    /\ stage = [a \in Approvals |-> "none"]
    /\ proposedAt = [a \in Approvals |-> 0] /\ revision = 0

Propose(a) ==
    /\ stage[a] = "none"
    /\ stage' = [stage EXCEPT ![a] = "proposed"]
    /\ proposedAt' = [proposedAt EXCEPT ![a] = revision]
    /\ UNCHANGED revision

Approve(a) ==
    /\ stage[a] = "proposed"
    /\ stage' = [stage EXCEPT ![a] = "approved"]
    /\ UNCHANGED <<proposedAt, revision>>

Apply(a) ==
    /\ stage[a] = "approved" /\ proposedAt[a] = revision
    /\ stage' = [stage EXCEPT ![a] = "spent"]
    /\ revision' \in {revision, revision + 1}
    /\ UNCHANGED proposedAt

\* Denied, expired, failed, or its connection or project is gone.
Close ==
    /\ UNCHANGED <<proposedAt, revision>>
    /\ \A a \in Approvals : stage'[a] # stage[a] => stage[a] \in {"proposed", "approved"}
    /\ stage' = [a \in Approvals |-> IF stage'[a] = stage[a] THEN stage[a] ELSE "closed"]

ChangeCatalog == revision' = revision + 1 /\ UNCHANGED <<stage, proposedAt>>

OneUseNext ==
    \/ Close \/ ChangeCatalog
    \/ \E a \in Approvals : Propose(a) \/ Approve(a) \/ Apply(a)

OneUseSpec == OneUseInit /\ [][OneUseNext]_<<stage, proposedAt, revision>>
================================================================================
