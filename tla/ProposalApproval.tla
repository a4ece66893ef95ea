-------------------------- MODULE ProposalApproval --------------------------
(***************************************************************************)
(* What the approval of agents' proposals promises: a proposal takes effect *)
(* on the items only when it is approved, in the same step, and it is       *)
(* decided once.                                                            *)
(***************************************************************************)
EXTENDS Naturals

CONSTANT Proposal

VARIABLES
    decision,  \* proposal -> "none", "pending", "approved" or "refused"
    effects    \* proposal -> how often it was applied to the items

vars == <<decision, effects>>

Init ==
    /\ decision = [p \in Proposal |-> "none"]
    /\ effects = [p \in Proposal |-> 0]

Propose(p) ==
    /\ decision[p] = "none"
    /\ decision' = [decision EXCEPT ![p] = "pending"]
    /\ UNCHANGED effects

Approve(p) ==
    /\ decision[p] = "pending"
    /\ decision' = [decision EXCEPT ![p] = "approved"]
    /\ effects' = [effects EXCEPT ![p] = @ + 1]

Refuse(p) ==
    /\ decision[p] = "pending"
    /\ decision' = [decision EXCEPT ![p] = "refused"]
    /\ UNCHANGED effects

Next == \E p \in Proposal : Propose(p) \/ Approve(p) \/ Refuse(p)

Spec == Init /\ [][Next]_vars
=============================================================================
