---------------------------- MODULE AgentProposals ----------------------------
(***************************************************************************)
(* Proposals of agents and their approval, and the messages of Feishu that  *)
(* become proposals.                                                        *)
(*                                                                         *)
(* A decision locks its proposal (SELECT ... FOR UPDATE), reads the item a  *)
(* patch is for without a lock, writes the item and marks the proposal, in  *)
(* one transaction: it is a BeginDecision and an action that finishes it.   *)
(* A delivery of Feishu inserts its row in agent_ingest_events, which makes *)
(* a second insert of the same identity wait, may call the meeting service  *)
(* and commits the row with its proposal: a Receive and a ProposeMessage.   *)
(* Of the items this module keeps what a proposal may touch: whether they   *)
(* exist, and their version.                                                *)
(***************************************************************************)
EXTENDS Naturals, FiniteSets

CONSTANTS
    Proposal,    \* ids of proposals; an id is used once
    Item,        \* ids of items; an id is used once
    Key,         \* identities of deliveries: tenant, chat, event and message id
    Caller,      \* requests that decide, by REST or MCP, at the same time
    Handler,     \* deliveries of Feishu handled at the same time
    MaxVersion,  \* bound on version
    NoProposal, NoItem, NoKey, NoWork

Action   == {"create_item", "patch_item"}
Approved == {"approved", "edited_approved"}
Refused  == {"rejected", "ignored"}

\* A CHECK constraint that was not extended with edited approvals.
StateBeforeEdits == {"pending", "approved"} \cup Refused

State == {"pending"} \cup Approved \cup Refused

\* A decision in progress: the item a patch is for, and the version it must
\* still have when the patch is written.
Decision == [proposal : Proposal, state : State, item : Item \cup {NoItem}, expected : Nat]

ASSUME ConstantsAssumption ==
    /\ MaxVersion \in Nat
    /\ NoProposal \notin Proposal
    /\ NoItem \notin Item
    /\ NoKey \notin Key
    /\ NoWork \notin Decision

VARIABLES
    state,     \* proposal -> state; "none" before it is created
    action,    \* proposal -> proposed_action
    target,    \* proposal -> target_item_id
    applied,   \* proposal -> applied_item_id
    record,    \* create_requests: proposals whose creation is recorded
    stage,     \* item -> "unborn", "live", "deleted" (deleted_at) or "purged"
    version,   \* item -> version
    ingest,    \* agent_ingest_events: delivery -> its proposal_id
    handling,  \* handler -> the delivery whose row it has inserted
    deciding,  \* caller -> the decision it is in the middle of
    source,    \* history: proposal -> the delivery it was made from
    effects    \* history: proposal -> how often it was applied to the items

proposalVars == <<state, action, target, applied, record, source, effects>>
itemVars     == <<stage, version>>
intakeVars   == <<ingest, handling>>
vars == <<proposalVars, itemVars, intakeVars, deciding>>

TypeOK ==
    /\ state \in [Proposal -> State \cup {"none"}]
    /\ action \in [Proposal -> Action]
    /\ target \in [Proposal -> Item \cup {NoItem}]
    /\ applied \in [Proposal -> Item \cup {NoItem}]
    /\ record \in SUBSET Proposal
    /\ stage \in [Item -> {"unborn", "live", "deleted", "purged"}]
    /\ version \in [Item -> Nat]
    /\ ingest \in [Key -> Proposal \cup {NoProposal}]
    /\ handling \in [Handler -> Key \cup {NoKey}]
    /\ deciding \in [Caller -> Decision \cup {NoWork}]
    /\ source \in [Proposal -> Key \cup {NoKey}]
    /\ effects \in [Proposal -> Nat]

Init ==
    /\ state = [p \in Proposal |-> "none"]
    /\ action = [p \in Proposal |-> "create_item"]
    /\ target = [p \in Proposal |-> NoItem]
    /\ applied = [p \in Proposal |-> NoItem]
    /\ record = {}
    /\ stage = [i \in Item |-> "unborn"]
    /\ version = [i \in Item |-> 0]
    /\ ingest = [k \in Key |-> NoProposal]
    /\ handling = [h \in Handler |-> NoKey]
    /\ deciding = [c \in Caller |-> NoWork]
    /\ source = [p \in Proposal |-> NoKey]
    /\ effects = [p \in Proposal |-> 0]

\* A row of items, soft-deleted or not: get_item does not look at deleted_at.
Exists(i) == stage[i] \in {"live", "deleted"}

-----------------------------------------------------------------------------
(* Proposing                                                               *)

\* The INSERT of propose: a new row, pending.
Insert(p, act, i, key) ==
    /\ state[p] = "none"
    /\ state' = [state EXCEPT ![p] = "pending"]
    /\ action' = [action EXCEPT ![p] = act]
    /\ target' = [target EXCEPT ![p] = i]
    /\ source' = [source EXCEPT ![p] = key]
    /\ UNCHANGED <<applied, record, effects>>

\* An agent proposes, by REST or MCP.  A patch names its item here or in its
\* payload, and a creation may name one that nothing comes of; the foreign key
\* asks that the item exists.
Propose(p, act, i) ==
    /\ i # NoItem => Exists(i)
    /\ Insert(p, act, i, NoKey)
    /\ UNCHANGED <<itemVars, intakeVars, deciding>>

\* A look at the delivery's row that no other transaction has to wait for.
NotYetProposed(key) == ingest[key] = NoProposal

\* INSERT ... ON CONFLICT DO UPDATE waits for the transaction that has
\* inserted the identity, and then finds the status it committed.
Received(key) ==
    /\ ingest[key] = NoProposal
    /\ \A h \in Handler : handling[h] # key

\* A delivery whose row is not "received" any more is answered as a duplicate.
Receive(h, key) ==
    /\ handling[h] = NoKey
    /\ Received(key)
    /\ handling' = [handling EXCEPT ![h] = key]
    /\ UNCHANGED <<proposalVars, itemVars, ingest, deciding>>

ProposeMessage(h, p) ==
    /\ handling[h] # NoKey
    /\ Insert(p, "create_item", NoItem, handling[h])
    /\ ingest' = [ingest EXCEPT ![handling[h]] = p]
    /\ handling' = [handling EXCEPT ![h] = NoKey]
    /\ UNCHANGED <<itemVars, deciding>>

\* An exception rolls the row back; Feishu delivers the message again.
DropMessage(h) ==
    /\ handling[h] # NoKey
    /\ handling' = [handling EXCEPT ![h] = NoKey]
    /\ UNCHANGED <<proposalVars, itemVars, ingest, deciding>>

-----------------------------------------------------------------------------
(* Deciding                                                                *)

\* A SELECT that does not lock.
Readable(p) == state[p] # "none"

\* get_for_update waits for the decision that holds the row.
Lockable(p) ==
    /\ state[p] # "none"
    /\ \A c \in Caller : deciding[c] # NoWork => deciding[c].proposal # p

\* approve and reject go on only from pending: an approved proposal is
\* answered as it is, any other is PROPOSAL_ALREADY_DECIDED.
Undecided(p) == state[p] = "pending"

\* The item of a patch is the proposal's target or the one its payload names,
\* and must exist.  Its version, or one the payload gives, is what the
\* UPDATE will ask for.
BeginDecision(c, p, new, i, expected) ==
    /\ deciding[c] = NoWork
    /\ Lockable(p) /\ Undecided(p)
    /\ IF new \in Approved /\ action[p] = "patch_item"
       THEN /\ i # NoItem /\ Exists(i)
            /\ target[p] # NoItem => i = target[p]
            /\ expected \in 1 .. version[i]
       ELSE i = NoItem /\ expected = 0
    /\ deciding' = [deciding EXCEPT ![c] =
           [proposal |-> p, state |-> new, item |-> i, expected |-> expected]]
    /\ UNCHANGED <<proposalVars, itemVars, intakeVars>>

\* mark_decided: applied_item_id is written only when there is an item.
Mark(c, i) ==
    LET d == deciding[c]
    IN  /\ state' = [state EXCEPT ![d.proposal] = d.state]
        /\ applied' = IF i = NoItem THEN applied ELSE [applied EXCEPT ![d.proposal] = i]
        /\ effects' = IF i = NoItem THEN effects ELSE [effects EXCEPT ![d.proposal] = @ + 1]
        /\ deciding' = [deciding EXCEPT ![c] = NoWork]
        /\ UNCHANGED <<action, target, source>>

\* ItemService.create under the client_request_id "proposal:<id>", with the
\* reminder of a meeting.
FinishCreate(c, i) ==
    /\ deciding[c] # NoWork
    /\ deciding[c].state \in Approved
    /\ action[deciding[c].proposal] = "create_item"
    /\ deciding[c].proposal \notin record
    /\ stage[i] = "unborn"
    /\ stage' = [stage EXCEPT ![i] = "live"]
    /\ version' = [version EXCEPT ![i] = 1]
    /\ record' = record \cup {deciding[c].proposal}
    /\ Mark(c, i)
    /\ UNCHANGED intakeVars

\* ItemService.patch, if the item still has the version.
FinishPatch(c) ==
    /\ deciding[c] # NoWork
    /\ deciding[c].item # NoItem
    /\ Exists(deciding[c].item)
    /\ version[deciding[c].item] = deciding[c].expected
    /\ version' = [version EXCEPT ![deciding[c].item] = @ + 1]
    /\ Mark(c, deciding[c].item)
    /\ UNCHANGED <<stage, record, intakeVars>>

FinishRefusal(c) ==
    /\ deciding[c] # NoWork
    /\ deciding[c].state \in Refused
    /\ Mark(c, NoItem)
    /\ UNCHANGED <<itemVars, record, intakeVars>>

\* A payload or transition that is not valid, VERSION_CONFLICT, an item that
\* is gone, or a request that dies: the transaction rolls back.
DropDecision(c) ==
    /\ deciding[c] # NoWork
    /\ deciding' = [deciding EXCEPT ![c] = NoWork]
    /\ UNCHANGED <<proposalVars, itemVars, intakeVars>>

-----------------------------------------------------------------------------
(* Other requests on the items                                             *)

CreateItem(i) ==
    /\ stage[i] = "unborn"
    /\ stage' = [stage EXCEPT ![i] = "live"]
    /\ version' = [version EXCEPT ![i] = 1]
    /\ UNCHANGED <<proposalVars, intakeVars, deciding>>

\* PATCH, soft_delete and restore_deleted.
WriteItem(i) ==
    /\ Exists(i)
    /\ version[i] < MaxVersion
    /\ version' = [version EXCEPT ![i] = @ + 1]
    /\ stage' \in {[stage EXCEPT ![i] = s] : s \in {"live", "deleted"}}
    /\ UNCHANGED <<proposalVars, intakeVars, deciding>>

\* A purge that tells the pending proposals only.
DetachedPending(column, i) ==
    [p \in Proposal |-> IF column[p] = i /\ state[p] = "pending" THEN NoItem ELSE column[p]]

\* ON DELETE SET NULL
Detached(column, i) == [p \in Proposal |-> IF column[p] = i THEN NoItem ELSE column[p]]

\* The foreign keys write the proposals of the item, and wait for a decision
\* that has locked one of them.
Purge(i) ==
    /\ stage[i] = "deleted"
    /\ \A c \in Caller : deciding[c] # NoWork =>
           i \notin {target[deciding[c].proposal], applied[deciding[c].proposal]}
    /\ stage' = [stage EXCEPT ![i] = "purged"]
    /\ target' = Detached(target, i)
    /\ applied' = Detached(applied, i)
    /\ UNCHANGED <<state, action, record, source, effects, version, intakeVars, deciding>>

-----------------------------------------------------------------------------
ItemRequest(i) == CreateItem(i) \/ WriteItem(i) \/ Purge(i)

Message(h) ==
    \/ \E key \in Key : Receive(h, key)
    \/ \E p \in Proposal : ProposeMessage(h, p)
    \/ DropMessage(h)

Decide(c) ==
    \/ \E p \in Proposal, new \in Approved \cup Refused,
          i \in Item \cup {NoItem}, expected \in 0 .. MaxVersion :
              BeginDecision(c, p, new, i, expected)
    \/ \E i \in Item : FinishCreate(c, i)
    \/ FinishPatch(c)
    \/ FinishRefusal(c)
    \/ DropDecision(c)

Next ==
    \/ \E p \in Proposal, act \in Action, i \in Item \cup {NoItem} : Propose(p, act, i)
    \/ \E h \in Handler : Message(h)
    \/ \E c \in Caller : Decide(c)
    \/ \E i \in Item : ItemRequest(i)

Spec == Init /\ [][Next]_vars

-----------------------------------------------------------------------------
(* Properties                                                              *)

\* A delivery that is repeated makes no second proposal (the design asks for
\* it): one identity has at most one proposal, whichever handlers receive it
\* at the same time, and it is the one its row names.
OneProposalPerDelivery ==
    \A p \in Proposal : source[p] # NoKey => ingest[source[p]] = p

\* The items that pending proposals are for, and that approved ones were
\* applied to, exist: a purge forgets them wherever they are named.
NoPurgedItemNamed ==
    \A p \in Proposal :
        \A i \in {target[p], applied[p]} \ {NoItem} : stage[i] # "purged"

\* A proposal is decided once and takes effect exactly when it is approved
\* ("in the same transaction", says the design), whatever callers, retries,
\* purges and item requests come in between.
Told(p) ==
    CASE state[p] \in Approved -> "approved"
      [] state[p] \in Refused  -> "refused"
      [] OTHER                 -> state[p]

decision == [p \in Proposal |-> Told(p)]

Approval == INSTANCE ProposalApproval

DecidedOnce == Approval!Spec
=============================================================================
