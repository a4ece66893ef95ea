-------------------------- MODULE MCAgentProposals --------------------------
(***************************************************************************)
(* Small instances of AgentProposals; every constant set is symmetric.      *)
(***************************************************************************)
EXTENDS AgentProposals, TLC

Interchangeable ==
    Permutations(Proposal) \cup Permutations(Item) \cup Permutations(Caller)
        \cup Permutations(Handler) \cup Permutations(Key)
=============================================================================
