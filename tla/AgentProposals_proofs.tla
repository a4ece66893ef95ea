------------------------ MODULE AgentProposals_proofs ------------------------
(***************************************************************************)
(* Proofs about AgentProposals, for any number of proposals, items, message *)
(* deliveries, callers and handlers.                                        *)
(***************************************************************************)
EXTENDS AgentProposals, TLAPS

-----------------------------------------------------------------------------
(* Types                                                                   *)

LEMMA DecisionInHand ==
    ASSUME TypeOK, NEW c \in Caller, deciding[c] # NoWork
    PROVE  /\ deciding[c] \in Decision
           /\ deciding[c].proposal \in Proposal /\ deciding[c].state \in State
           /\ deciding[c].item \in Item \cup {NoItem} /\ deciding[c].expected \in Nat
  BY DEF TypeOK, Decision

LEMMA InsertType ==
    ASSUME TypeOK, NEW p \in Proposal, NEW act \in Action, NEW i \in Item \cup {NoItem},
           NEW key \in Key \cup {NoKey}, Insert(p, act, i, key)
    PROVE  /\ state' \in [Proposal -> State \cup {"none"}]
           /\ action' \in [Proposal -> Action]
           /\ target' \in [Proposal -> Item \cup {NoItem}]
           /\ source' \in [Proposal -> Key \cup {NoKey}]
  BY DEF Insert, TypeOK, State

LEMMA MarkType ==
    ASSUME TypeOK, NEW c \in Caller, deciding[c] # NoWork,
           NEW i \in Item \cup {NoItem}, Mark(c, i)
    PROVE  /\ state' \in [Proposal -> State \cup {"none"}]
           /\ applied' \in [Proposal -> Item \cup {NoItem}]
           /\ effects' \in [Proposal -> Nat]
           /\ deciding' \in [Caller -> Decision \cup {NoWork}]
<1> DEFINE d == deciding[c]
<1>1. d.proposal \in Proposal /\ d.state \in State
  BY DecisionInHand
<1>2. state' = [state EXCEPT ![d.proposal] = d.state]
  BY DEF Mark
<1>3. /\ applied' = IF i = NoItem THEN applied ELSE [applied EXCEPT ![d.proposal] = i]
      /\ effects' = IF i = NoItem THEN effects ELSE [effects EXCEPT ![d.proposal] = @ + 1]
      /\ deciding' = [deciding EXCEPT ![c] = NoWork]
  BY DEF Mark
<1>4. state' \in [Proposal -> State \cup {"none"}]
  BY <1>1, <1>2 DEF TypeOK
<1>5. applied' \in [Proposal -> Item \cup {NoItem}]
  BY <1>1, <1>3 DEF TypeOK
<1>6. effects' \in [Proposal -> Nat]
  BY <1>1, <1>3 DEF TypeOK
<1>7. deciding' \in [Caller -> Decision \cup {NoWork}]
  BY <1>3 DEF TypeOK
<1>8. QED
  BY <1>4, <1>5, <1>6, <1>7

LEMMA MessageType ==
    ASSUME TypeOK, NEW h \in Handler, Message(h)
    PROVE  TypeOK'
<1>1. ASSUME NEW key \in Key, Receive(h, key) PROVE TypeOK'
  BY <1>1 DEF Receive, TypeOK, proposalVars, itemVars
<1>2. ASSUME NEW p \in Proposal, ProposeMessage(h, p) PROVE TypeOK'
  <2>1. handling[h] \in Key
    BY <1>2 DEF ProposeMessage, TypeOK
  <2>2. Insert(p, "create_item", NoItem, handling[h]) /\ "create_item" \in Action
    BY <1>2 DEF ProposeMessage, Action
  <2>3. /\ state' \in [Proposal -> State \cup {"none"}]
        /\ action' \in [Proposal -> Action]
        /\ target' \in [Proposal -> Item \cup {NoItem}]
        /\ source' \in [Proposal -> Key \cup {NoKey}]
    BY <2>1, <2>2, InsertType
  <2>4. QED
    BY <1>2, <2>1, <2>3 DEF ProposeMessage, Insert, TypeOK, itemVars
<1>3. CASE DropMessage(h)
  BY <1>3 DEF DropMessage, TypeOK, proposalVars, itemVars
<1>4. QED
  BY <1>1, <1>2, <1>3 DEF Message

LEMMA DecideType ==
    ASSUME TypeOK, NEW c \in Caller, Decide(c)
    PROVE  TypeOK'
<1>1. ASSUME NEW p \in Proposal, NEW new \in Approved \cup Refused,
             NEW i \in Item \cup {NoItem}, NEW expected \in 0 .. MaxVersion,
             BeginDecision(c, p, new, i, expected)
      PROVE  TypeOK'
  <2>1. [proposal |-> p, state |-> new, item |-> i, expected |-> expected] \in Decision
    BY ConstantsAssumption DEF Decision, State
  <2>2. QED
    BY <1>1, <2>1 DEF BeginDecision, TypeOK, proposalVars, itemVars, intakeVars
<1>2. ASSUME NEW i \in Item, FinishCreate(c, i) PROVE TypeOK'
  <2>1. deciding[c] # NoWork /\ Mark(c, i)
    BY <1>2 DEF FinishCreate
  <2>2. deciding[c].proposal \in Proposal
    BY <2>1, DecisionInHand
  <2>3. stage' \in [Item -> {"unborn", "live", "deleted", "purged"}]
        /\ version' \in [Item -> Nat] /\ record' \in SUBSET Proposal
    BY <1>2, <2>2 DEF FinishCreate, TypeOK
  <2>4. QED
    BY <1>2, <2>1, <2>3, MarkType DEF FinishCreate, Mark, TypeOK, intakeVars
<1>3. CASE FinishPatch(c)
  <2>1. /\ deciding[c] # NoWork /\ deciding[c].item \in Item
        /\ Mark(c, deciding[c].item)
    BY <1>3, DecisionInHand DEF FinishPatch
  <2>2. version' \in [Item -> Nat]
    BY <1>3, <2>1 DEF FinishPatch, TypeOK
  <2>3. QED
    BY <1>3, <2>1, <2>2, MarkType DEF FinishPatch, Mark, TypeOK, intakeVars
<1>4. CASE FinishRefusal(c)
  <2>1. deciding[c] # NoWork /\ Mark(c, NoItem)
    BY <1>4 DEF FinishRefusal
  <2>2. QED
    BY <1>4, <2>1, MarkType DEF FinishRefusal, Mark, TypeOK, intakeVars, itemVars
<1>5. CASE DropDecision(c)
  BY <1>5 DEF DropDecision, TypeOK, proposalVars, itemVars, intakeVars
<1>6. QED
  BY <1>1, <1>2, <1>3, <1>4, <1>5 DEF Decide

LEMMA ItemRequestType ==
    ASSUME TypeOK, NEW i \in Item, ItemRequest(i)
    PROVE  TypeOK'
<1>1. CASE CreateItem(i)
  BY <1>1 DEF CreateItem, TypeOK, proposalVars, intakeVars
<1>2. CASE WriteItem(i)
  BY <1>2 DEF WriteItem, TypeOK, proposalVars, intakeVars
<1>3. CASE Purge(i)
  BY <1>3 DEF Purge, Detached, TypeOK, intakeVars
<1>4. QED
  BY <1>1, <1>2, <1>3 DEF ItemRequest

LEMMA TypeStep == TypeOK /\ [Next]_vars => TypeOK'
<1> SUFFICES ASSUME TypeOK, [Next]_vars PROVE TypeOK'
  OBVIOUS
<1>1. ASSUME NEW p \in Proposal, NEW act \in Action, NEW i \in Item \cup {NoItem},
             Propose(p, act, i)
      PROVE  TypeOK'
  <2>1. Insert(p, act, i, NoKey) /\ NoKey \in Key \cup {NoKey}
    BY <1>1 DEF Propose
  <2>2. /\ state' \in [Proposal -> State \cup {"none"}]
        /\ action' \in [Proposal -> Action]
        /\ target' \in [Proposal -> Item \cup {NoItem}]
        /\ source' \in [Proposal -> Key \cup {NoKey}]
    BY <2>1, InsertType
  <2>3. QED
    BY <1>1, <2>1, <2>2 DEF Propose, Insert, TypeOK, itemVars, intakeVars
<1>2. CASE UNCHANGED vars
  BY <1>2 DEF TypeOK, vars, proposalVars, itemVars, intakeVars
<1>3. QED
  BY <1>1, <1>2, MessageType, DecideType, ItemRequestType DEF Next

\* Every variable keeps its type: states are those of the CHECK constraint,
\* and a decision in progress names a proposal and a version.
THEOREM TypeCorrectness == Spec => []TypeOK
<1>1. Init => TypeOK
  BY DEF Init, TypeOK, Action
<1>2. QED
  BY <1>1, TypeStep, PTL DEF Spec

-----------------------------------------------------------------------------
(* Messages                                                                *)

\* The row a handler has inserted is its own until it commits.
IntakeInv ==
    /\ \A h \in Handler : handling[h] # NoKey => ingest[handling[h]] = NoProposal
    /\ \A g, h \in Handler : handling[g] # NoKey /\ handling[g] = handling[h] => g = h
    /\ OneProposalPerDelivery

LEMMA IntakeStep == TypeOK /\ IntakeInv /\ [Next]_vars => IntakeInv'
<1> SUFFICES ASSUME TypeOK, IntakeInv, [Next]_vars PROVE IntakeInv'
  OBVIOUS
<1> USE DEF IntakeInv, OneProposalPerDelivery
<1>1. ASSUME NEW p \in Proposal, NEW act \in Action, NEW i \in Item \cup {NoItem},
             Propose(p, act, i)
      PROVE  IntakeInv'
  BY <1>1 DEF Propose, Insert, TypeOK, intakeVars
<1>2. ASSUME NEW h \in Handler, NEW key \in Key, Receive(h, key) PROVE IntakeInv'
  BY <1>2 DEF Receive, Received, TypeOK, proposalVars
<1>3. ASSUME NEW h \in Handler, NEW p \in Proposal, ProposeMessage(h, p) PROVE IntakeInv'
  <2> DEFINE key == handling[h]
  <2>1. key \in Key /\ ingest[key] = NoProposal
    BY <1>3 DEF ProposeMessage, TypeOK
  <2>2. /\ source' = [source EXCEPT ![p] = key]
        /\ ingest' = [ingest EXCEPT ![key] = p]
        /\ handling' = [handling EXCEPT ![h] = NoKey]
    BY <1>3 DEF ProposeMessage, Insert
  <2>3. ASSUME NEW q \in Proposal, source'[q] # NoKey PROVE ingest'[source'[q]] = q
    <3>1. CASE q = p
      BY <2>1, <2>2, <3>1 DEF TypeOK
    <3>2. CASE q # p
      <4>1. source'[q] = source[q] /\ ingest[source[q]] = q
        BY <2>2, <2>3, <3>2 DEF TypeOK
      <4>2. source[q] # key
        BY <2>1, <4>1, ConstantsAssumption
      <4>3. QED
        BY <2>2, <2>3, <4>1, <4>2 DEF TypeOK
    <3>3. QED
      BY <3>1, <3>2
  <2>4. ASSUME NEW g \in Handler, handling'[g] # NoKey
        PROVE  ingest'[handling'[g]] = NoProposal
    BY <1>3, <2>1, <2>2, <2>4 DEF TypeOK
  <2>5. QED
    BY <2>2, <2>3, <2>4 DEF TypeOK
<1>4. ASSUME NEW h \in Handler, DropMessage(h) PROVE IntakeInv'
  BY <1>4 DEF DropMessage, TypeOK, proposalVars
<1>5. ASSUME NEW c \in Caller, Decide(c) PROVE IntakeInv'
  BY <1>5 DEF Decide, BeginDecision, FinishCreate, FinishPatch, FinishRefusal,
              DropDecision, Mark, proposalVars, intakeVars
<1>6. ASSUME NEW i \in Item, ItemRequest(i) PROVE IntakeInv'
  BY <1>6 DEF ItemRequest, CreateItem, WriteItem, Purge, proposalVars, intakeVars
<1>7. CASE UNCHANGED vars
  BY <1>7 DEF vars, proposalVars, intakeVars
<1>8. QED
  BY <1>1, <1>2, <1>3, <1>4, <1>5, <1>6, <1>7 DEF Next, Message

\* A delivery of a message, however often and by however many handlers it is
\* received at the same time, makes at most one proposal.
THEOREM DeliveriesMakeOne == Spec => []OneProposalPerDelivery
<1>1. Init => IntakeInv
  BY DEF Init, IntakeInv, OneProposalPerDelivery
<1>2. IntakeInv => OneProposalPerDelivery
  BY DEF IntakeInv
<1>3. QED
  BY <1>1, <1>2, IntakeStep, TypeCorrectness, PTL DEF Spec

-----------------------------------------------------------------------------
(* Items that are named                                                    *)

LEMMA NamedStep == TypeOK /\ NoPurgedItemNamed /\ [Next]_vars => NoPurgedItemNamed'
<1> SUFFICES ASSUME TypeOK, NoPurgedItemNamed, [Next]_vars,
                    NEW q \in Proposal, NEW j \in {target'[q], applied'[q]} \ {NoItem}
             PROVE  stage'[j] # "purged"
  BY DEF NoPurgedItemNamed
<1> USE DEF NoPurgedItemNamed
<1>1. ASSUME NEW p \in Proposal, NEW act \in Action, NEW i \in Item \cup {NoItem},
             Propose(p, act, i)
      PROVE  stage'[j] # "purged"
  BY <1>1 DEF Propose, Insert, Exists, TypeOK, itemVars
<1>2. ASSUME NEW h \in Handler, Message(h) PROVE stage'[j] # "purged"
  BY <1>2 DEF Message, Receive, ProposeMessage, DropMessage, Insert, TypeOK,
              proposalVars, itemVars
<1>3. ASSUME NEW c \in Caller, NEW i \in Item, FinishCreate(c, i)
      PROVE  stage'[j] # "purged"
  <2>1. deciding[c].proposal \in Proposal
    BY <1>3, DecisionInHand DEF FinishCreate
  <2>2. QED
    BY <1>3, <2>1 DEF FinishCreate, Mark, TypeOK
<1>4. ASSUME NEW c \in Caller, FinishPatch(c) PROVE stage'[j] # "purged"
  <2>1. deciding[c].proposal \in Proposal
    BY <1>4, DecisionInHand DEF FinishPatch
  <2>2. QED
    BY <1>4, <2>1 DEF FinishPatch, Mark, Exists, TypeOK
<1>5. ASSUME NEW c \in Caller, FinishRefusal(c) PROVE stage'[j] # "purged"
  BY <1>5 DEF FinishRefusal, Mark, itemVars
<1>6. ASSUME NEW c \in Caller, NEW p \in Proposal, NEW new \in Approved \cup Refused,
             NEW i \in Item \cup {NoItem}, NEW expected \in 0 .. MaxVersion,
             BeginDecision(c, p, new, i, expected)
      PROVE  stage'[j] # "purged"
  BY <1>6 DEF BeginDecision, proposalVars, itemVars
<1>7. ASSUME NEW c \in Caller, DropDecision(c) PROVE stage'[j] # "purged"
  BY <1>7 DEF DropDecision, proposalVars, itemVars
<1>8. ASSUME NEW i \in Item, CreateItem(i) PROVE stage'[j] # "purged"
  BY <1>8 DEF CreateItem, proposalVars, TypeOK
<1>9. ASSUME NEW i \in Item, WriteItem(i) PROVE stage'[j] # "purged"
  BY <1>9 DEF WriteItem, proposalVars, TypeOK
<1>10. ASSUME NEW i \in Item, Purge(i) PROVE stage'[j] # "purged"
  <2>1. j # i
    BY <1>10 DEF Purge, Detached, TypeOK
  <2>2. j \in {target[q], applied[q]}
    BY <1>10, <2>1 DEF Purge, Detached, TypeOK
  <2>3. QED
    BY <1>10, <2>1, <2>2 DEF Purge, TypeOK
<1>11. CASE UNCHANGED vars
  BY <1>11 DEF vars, proposalVars, itemVars
<1>12. QED
  BY <1>1, <1>2, <1>3, <1>4, <1>5, <1>6, <1>7, <1>8, <1>9, <1>10, <1>11
     DEF Next, Decide, ItemRequest

\* No proposal names an item that was purged, neither as the one to patch nor
\* as the one it was applied to.
THEOREM NamedItemsExist == Spec => []NoPurgedItemNamed
<1>1. Init => NoPurgedItemNamed
  BY DEF Init, NoPurgedItemNamed
<1>2. QED
  BY <1>1, NamedStep, TypeCorrectness, PTL DEF Spec

-----------------------------------------------------------------------------
(* Decisions.  The lock of a proposal is why what a decision read of it     *)
(* still holds when it is marked.                                           *)

LockInv ==
    /\ \A c \in Caller : deciding[c] # NoWork =>
           /\ state[deciding[c].proposal] = "pending"
           /\ deciding[c].state \in Approved \cup Refused
           /\ deciding[c].item # NoItem => deciding[c].state \in Approved
    /\ \A c, d \in Caller :
           deciding[c] # NoWork /\ deciding[d] # NoWork /\ c # d
               => deciding[c].proposal # deciding[d].proposal

\* A decision that is marked leaves the other decisions their proposals.
LEMMA MarkLock ==
    ASSUME TypeOK, LockInv, NEW c \in Caller, deciding[c] # NoWork,
           NEW i \in Item \cup {NoItem}, Mark(c, i)
    PROVE  LockInv'
<1>1. deciding' = [deciding EXCEPT ![c] = NoWork]
  BY DEF Mark
<1>2. state' = [state EXCEPT ![deciding[c].proposal] = deciding[c].state]
  BY DEF Mark
<1>3. ASSUME NEW b \in Caller, deciding'[b] # NoWork
      PROVE  b # c /\ deciding'[b] = deciding[b]
  BY <1>1, <1>3 DEF TypeOK
<1>4. ASSUME NEW b \in Caller, deciding'[b] # NoWork
      PROVE  state'[deciding[b].proposal] = "pending"
  <2>1. deciding[b].proposal # deciding[c].proposal
    BY <1>3, <1>4 DEF LockInv
  <2>2. deciding[b].proposal \in Proposal /\ deciding[c].proposal \in Proposal
    BY <1>3, <1>4, DecisionInHand
  <2>3. QED
    BY <1>2, <1>3, <1>4, <2>1, <2>2 DEF LockInv, TypeOK
<1>5. QED
  BY <1>3, <1>4 DEF LockInv

LEMMA LockStep == TypeOK /\ LockInv /\ [Next]_vars => LockInv'
<1> SUFFICES ASSUME TypeOK, LockInv, [Next]_vars PROVE LockInv'
  OBVIOUS
<1>1. ASSUME NEW p \in Proposal, NEW act \in Action, NEW i \in Item \cup {NoItem},
             Propose(p, act, i)
      PROVE  LockInv'
  BY <1>1, DecisionInHand DEF Propose, Insert, LockInv, TypeOK
<1>2. ASSUME NEW h \in Handler, Message(h) PROVE LockInv'
  <2>1. deciding' = deciding
    BY <1>2 DEF Message, Receive, ProposeMessage, DropMessage
  <2>2. \A p \in Proposal : state[p] = "pending" => state'[p] = "pending"
    BY <1>2 DEF Message, Receive, ProposeMessage, DropMessage, Insert, TypeOK, proposalVars
  <2>3. QED
    BY <2>1, <2>2, DecisionInHand DEF LockInv
<1>3. ASSUME NEW c \in Caller, NEW p \in Proposal, NEW new \in Approved \cup Refused,
             NEW i \in Item \cup {NoItem}, NEW expected \in 0 .. MaxVersion,
             BeginDecision(c, p, new, i, expected)
      PROVE  LockInv'
  <2> DEFINE work == [proposal |-> p, state |-> new, item |-> i, expected |-> expected]
  <2>1. state' = state /\ deciding' = [deciding EXCEPT ![c] = work]
    BY <1>3 DEF BeginDecision, proposalVars
  <2>2. state[p] = "pending" /\ (i # NoItem => new \in Approved)
    BY <1>3 DEF BeginDecision, Undecided
  <2>3. \A b \in Caller : deciding[b] # NoWork => deciding[b].proposal # p
    BY <1>3 DEF BeginDecision, Lockable
  <2>4. QED
    BY <2>1, <2>2, <2>3 DEF LockInv, TypeOK
<1>4. ASSUME NEW c \in Caller, NEW i \in Item, FinishCreate(c, i) PROVE LockInv'
  BY <1>4, MarkLock DEF FinishCreate
<1>5. ASSUME NEW c \in Caller, FinishPatch(c) PROVE LockInv'
  BY <1>5, MarkLock, DecisionInHand DEF FinishPatch
<1>6. ASSUME NEW c \in Caller, FinishRefusal(c) PROVE LockInv'
  BY <1>6, MarkLock DEF FinishRefusal
<1>7. ASSUME NEW c \in Caller, DropDecision(c) PROVE LockInv'
  BY <1>7 DEF DropDecision, LockInv, TypeOK, proposalVars
<1>8. ASSUME NEW i \in Item, ItemRequest(i) PROVE LockInv'
  BY <1>8 DEF ItemRequest, CreateItem, WriteItem, Purge, LockInv, proposalVars
<1>9. CASE UNCHANGED vars
  BY <1>9 DEF vars, proposalVars, LockInv
<1>10. QED
  BY <1>1, <1>2, <1>3, <1>4, <1>5, <1>6, <1>7, <1>8, <1>9 DEF Next, Decide

LEMMA InsertProposes ==
    ASSUME TypeOK, NEW p \in Proposal, NEW act, NEW i, NEW key, Insert(p, act, i, key)
    PROVE  Approval!Next
<1>1. state' = [state EXCEPT ![p] = "pending"] /\ state[p] = "none" /\ effects' = effects
  BY DEF Insert
<1>2. Approval!Propose(p)
  BY <1>1 DEF Approval!Propose, decision, Told, Approved, Refused, TypeOK
<1>3. QED
  BY <1>2 DEF Approval!Next

LEMMA MarkDecides ==
    ASSUME TypeOK, LockInv, NEW c \in Caller, deciding[c] # NoWork,
           NEW i \in Item \cup {NoItem}, Mark(c, i),
           i # NoItem <=> deciding[c].state \in Approved
    PROVE  Approval!Next
<1> DEFINE d == deciding[c]
           p == d.proposal
<1>1. p \in Proposal /\ d.state \in Approved \cup Refused /\ state[p] = "pending"
  BY DecisionInHand DEF LockInv
<1>2. state' = [state EXCEPT ![p] = d.state]
  BY DEF Mark
<1>3. CASE i = NoItem
  <2>1. effects' = effects /\ d.state \in Refused
    BY <1>1, <1>3 DEF Mark
  <2>2. Approval!Refuse(p)
    BY <1>1, <1>2, <2>1 DEF Approval!Refuse, decision, Told, Approved, Refused, TypeOK
  <2>3. QED
    BY <1>1, <2>2 DEF Approval!Next
<1>4. CASE i # NoItem
  <2>1. effects' = [effects EXCEPT ![p] = @ + 1] /\ d.state \in Approved
    BY <1>4 DEF Mark
  <2>2. Approval!Approve(p)
    BY <1>1, <1>2, <2>1 DEF Approval!Approve, decision, Told, Approved, Refused, TypeOK
  <2>3. QED
    BY <1>1, <2>2 DEF Approval!Next
<1>5. QED
  BY <1>3, <1>4

LEMMA ApprovalStep == TypeOK /\ LockInv /\ [Next]_vars => [Approval!Next]_(Approval!vars)
<1> SUFFICES ASSUME TypeOK, LockInv, [Next]_vars PROVE [Approval!Next]_(Approval!vars)
  OBVIOUS
<1>1. ASSUME UNCHANGED <<state, effects>> PROVE UNCHANGED Approval!vars
  BY <1>1 DEF Approval!vars, decision, Told
<1>2. ASSUME NEW p \in Proposal, NEW act \in Action, NEW i \in Item \cup {NoItem},
             Propose(p, act, i)
      PROVE  Approval!Next
  BY <1>2, InsertProposes DEF Propose
<1>3. ASSUME NEW h \in Handler, NEW p \in Proposal, ProposeMessage(h, p)
      PROVE  Approval!Next
  BY <1>3, InsertProposes DEF ProposeMessage
<1>4. ASSUME NEW h \in Handler,
             DropMessage(h) \/ \E key \in Key : Receive(h, key)
      PROVE  UNCHANGED <<state, effects>>
  BY <1>4 DEF Receive, DropMessage, proposalVars
<1>5. ASSUME NEW c \in Caller, NEW i \in Item, FinishCreate(c, i) PROVE Approval!Next
  <2>1. i # NoItem
    BY ConstantsAssumption
  <2>2. QED
    BY <1>5, <2>1, MarkDecides DEF FinishCreate
<1>6. ASSUME NEW c \in Caller, FinishPatch(c) PROVE Approval!Next
  <2>1. /\ deciding[c] # NoWork /\ deciding[c].item \in Item \cup {NoItem}
        /\ deciding[c].item # NoItem /\ deciding[c].state \in Approved
        /\ Mark(c, deciding[c].item)
    BY <1>6, DecisionInHand DEF FinishPatch, LockInv
  <2>2. QED
    BY <2>1, MarkDecides
<1>7. ASSUME NEW c \in Caller, FinishRefusal(c) PROVE Approval!Next
  <2>1. /\ deciding[c] # NoWork /\ deciding[c].state \notin Approved
        /\ Mark(c, NoItem)
    BY <1>7 DEF FinishRefusal, Approved, Refused
  <2>2. QED
    BY <2>1, MarkDecides
<1>8. ASSUME NEW c \in Caller, NEW p \in Proposal, NEW new \in Approved \cup Refused,
             NEW i \in Item \cup {NoItem}, NEW expected \in 0 .. MaxVersion,
             BeginDecision(c, p, new, i, expected)
      PROVE  UNCHANGED <<state, effects>>
  BY <1>8 DEF BeginDecision, proposalVars
<1>9. ASSUME NEW c \in Caller, DropDecision(c) PROVE UNCHANGED <<state, effects>>
  BY <1>9 DEF DropDecision, proposalVars
<1>10. ASSUME NEW i \in Item, ItemRequest(i) PROVE UNCHANGED <<state, effects>>
  BY <1>10 DEF ItemRequest, CreateItem, WriteItem, Purge, proposalVars
<1>11. CASE UNCHANGED vars
  BY <1>1, <1>11 DEF vars, proposalVars
<1>12. QED
  BY <1>1, <1>2, <1>3, <1>4, <1>5, <1>6, <1>7, <1>8, <1>9, <1>10, <1>11
     DEF Next, Message, Decide

\* AgentProposals implements ProposalApproval: whatever callers decide at the
\* same time, a proposal is decided once, and applied to the items in the
\* step that approves it and in no other.
THEOREM ProposalsDecidedOnce == Spec => DecidedOnce
<1>1. Init => LockInv
  BY DEF Init, LockInv
<1>2. Init => Approval!Init
  BY DEF Init, Approval!Init, decision, Told, Approved, Refused
<1>3. QED
  BY <1>1, <1>2, LockStep, ApprovalStep, TypeCorrectness, PTL
     DEF Spec, DecidedOnce, Approval!Spec
=============================================================================
