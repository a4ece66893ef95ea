------------------------- MODULE ItemLifecycle_proofs -------------------------
(***************************************************************************)
(* Proofs about ItemLifecycle, for any number of items, keys and concurrent *)
(* requests, and any bounds on counts and versions.                         *)
(***************************************************************************)
EXTENDS ItemLifecycle, TLAPS

-----------------------------------------------------------------------------
(* Types                                                                   *)

LEMMA StatusForPeopleType ==
    ASSUME NEW asked \in Status \cup {"keep"}, NEW people \in People, NEW before
    PROVE  /\ StatusForPeople(asked, people, before) \in Status \cup {"keep"}
           /\ asked # "keep" => StatusForPeople(asked, people, before) \in Status
  BY DEF StatusForPeople, Status

LEMMA AwaitedType ==
    ASSUME TypeOK, NEW i \in Item, NEW people \in People
    PROVE  Awaited(i, people) \in SUBSET Item
  BY DEF TypeOK, Awaited, People

LEMMA StampTypes ==
    ASSUME TypeOK, NEW p \in Patch
    PROVE  /\ CompletedAfter(p) \in SUBSET Item
           /\ CancelledAfter(p) \in SUBSET Item
           /\ StatusAfter(p) \in [Item -> Status \cup {"none"}]
<1>1. p.item \in Item /\ (p.to = "keep" \/ p.to \in Status)
  BY DEF Patch
<1>2. CompletedAfter(p) \in SUBSET Item
  BY <1>1 DEF CompletedAfter, TypeOK, Status
<1>3. CancelledAfter(p) \in SUBSET Item
  BY <1>1 DEF CancelledAfter, TypeOK, Status
<1>4. StatusAfter(p) \in [Item -> Status \cup {"none"}]
  BY <1>1 DEF StatusAfter, TypeOK
<1>5. QED
  BY <1>2, <1>3, <1>4

\* The rule a request writes: what it names of the row of item i.
LEMMA RuleTypes ==
    ASSUME TypeOK, NEW i \in Item, NEW rule \in Rule
    PROVE  /\ RecursAfter(i, rule) \in SUBSET Item
           /\ CountAfter(i, rule) \in 0 .. MaxCount
           /\ SeriesAfter(i, rule) \in [told : 0 .. MaxCount, place : Nat]
<1>1. /\ rule.freq \in {"keep", "none", "some"}
      /\ rule.count \in 0 .. MaxCount \/ rule.count = Keep
  BY DEF Rule, Freq
<1>2. RecursAfter(i, rule) \in SUBSET Item
  BY <1>1 DEF RecursAfter, TypeOK
<1>3. QED
  BY <1>1, <1>2 DEF CountAfter, SeriesAfter, TypeOK

LEMMA BeforeType ==
    ASSUME NEW n \in 0 .. MaxCount
    PROVE  Before(n) \in 0 .. MaxCount
  BY ConstantsAssumption DEF Before

LEMMA RulesType == Rules \subseteq Rule
  BY ConstantsAssumption DEF Rules, Rule

LEMMA PatchInHand ==
    ASSUME TypeOK, NEW s \in Session, patching[s] # NoWork
    PROVE  /\ patching[s] \in Patch
           /\ patching[s].item \in Item /\ patching[s].people \in People
           /\ patching[s].expected \in Nat /\ patching[s].read \in Status
           /\ patching[s].to \in Status \cup {"keep"}
           /\ patching[s].rule \in Rule
  BY DEF TypeOK, Patch

LEMMA CreateType ==
    ASSUME TypeOK, NEW s \in Session, Create(s)
    PROVE  TypeOK'
<1> USE DEF rowVars, history
<1>1. ASSUME NEW key \in Key \cup {NoKey}, NEW asked \in Asked, NEW people \in Named,
             NEW rule \in Rules, BeginCreate(s, key, asked, people, rule)
      PROVE  TypeOK'
  <2>1. asked \in Status /\ people \in People /\ asked # "keep"
    BY ConstantsAssumption DEF Status
  <2>2. [key |-> key, status |-> StatusForPeople(asked, people, "none"),
         people |-> people, rule |-> rule] \in Creation
    BY <2>1, StatusForPeopleType, RulesType DEF Creation
  <2>3. QED
    BY <1>1, <2>2 DEF BeginCreate, TypeOK
<1>2. ASSUME NEW i \in Item, FinishCreate(s, i) PROVE TypeOK'
  <2>1. creating[s] \in Creation
    BY <1>2 DEF FinishCreate, TypeOK
  <2>2. Awaited(i, creating[s].people) \in SUBSET Item
    BY <2>1, AwaitedType DEF Creation
  <2>3. /\ recurs' \in SUBSET Item /\ count' \in [Item -> 0 .. MaxCount]
        /\ series' \in [Item -> [told : 0 .. MaxCount, place : Nat]]
    BY <1>2, <2>1, RuleTypes DEF FinishCreate, Creation, TypeOK
  <2>4. QED
    BY <1>2, <2>1, <2>2, <2>3 DEF FinishCreate, Creation, TypeOK
<1>3. CASE DropCreate(s)
  BY <1>3 DEF DropCreate, TypeOK
<1>4. QED
  BY <1>1, <1>2, <1>3 DEF Create

LEMMA PatchType ==
    ASSUME TypeOK, NEW s \in Session, PatchItem(s)
    PROVE  TypeOK'
<1> USE DEF rowVars, history
<1>1. ASSUME NEW i \in Item, NEW expected \in 1 .. MaxVersion,
             NEW asked \in Asked \cup {"keep"}, NEW people \in Named, NEW rule \in Rules,
             BeginPatch(s, i, expected, asked, people, rule)
      PROVE  TypeOK'
  <2>1. asked \in Status \cup {"keep"} /\ people \in People
    BY ConstantsAssumption
  <2>2. [item |-> i, expected |-> expected, read |-> status[i],
         to |-> StatusForPeople(asked, people, status[i]), people |-> people,
         rule |-> rule] \in Patch
    <3>1. StatusForPeople(asked, people, status[i]) \in Status \cup {"keep"}
      BY <2>1, StatusForPeopleType
    <3>2. status[i] \in Status /\ expected \in Nat
      BY <1>1, ConstantsAssumption DEF BeginPatch, Live, TypeOK
    <3>3. QED
      BY <2>1, <3>1, <3>2, RulesType DEF Patch
  <2>3. QED
    BY <1>1, <2>2 DEF BeginPatch, TypeOK
<1>2. CASE FinishPatch(s)
  <2> DEFINE p == patching[s]
  <2>1. p \in Patch /\ p.item \in Item /\ p.people \in People /\ p.rule \in Rule
    BY <1>2, PatchInHand DEF FinishPatch
  <2>2. /\ recurs' \in SUBSET Item /\ count' \in [Item -> 0 .. MaxCount]
        /\ series' \in [Item -> [told : 0 .. MaxCount, place : Nat]]
    BY <1>2, <2>1, RuleTypes DEF FinishPatch, TypeOK
  <2>3. QED
    BY <1>2, <2>1, <2>2, StampTypes, AwaitedType DEF FinishPatch, TypeOK
<1>3. ASSUME NEW j \in Item, FinishRecurring(s, j) PROVE TypeOK'
  <2> DEFINE p == patching[s]
  <2>1. /\ p \in Patch /\ p.item \in Item /\ p.people \in People /\ p.expected \in Nat
        /\ p.rule \in Rule
    BY <1>3, PatchInHand DEF FinishRecurring
  <2>2. /\ CountOfNext(p) \in 0 .. MaxCount /\ CountAfter(p.item, p.rule) \in 0 .. MaxCount
        /\ recurs' \in SUBSET Item
    BY <1>3, <2>1, RuleTypes, BeforeType DEF FinishRecurring, CountOfNext
  <2>3. status' \in [Item -> Status \cup {"none"}]
    BY <1>3, <2>1, StampTypes DEF FinishRecurring, Status
  <2>4. awaited' \in SUBSET Item
    BY <1>3, <2>1, AwaitedType DEF FinishRecurring
  <2>5. completed' \in SUBSET Item /\ cancelled' \in SUBSET Item
    BY <1>3, <2>1, StampTypes DEF FinishRecurring
  <2>6. origin' \in [Item -> Completion \cup {NoItem}]
    BY <1>3, <2>1 DEF FinishRecurring, Completion, TypeOK
  <2>7. version' \in [Item -> Nat] /\ count' \in [Item -> 0 .. MaxCount]
    BY <1>3, <2>1, <2>2 DEF FinishRecurring, TypeOK
  <2>8. series' \in [Item -> [told : 0 .. MaxCount, place : Nat]]
    <3> DEFINE now == SeriesAfter(p.item, p.rule)
    <3>1. now \in [told : 0 .. MaxCount, place : Nat]
      BY <2>1, RuleTypes
    <3>2. [now EXCEPT !.place = @ + 1] \in [told : 0 .. MaxCount, place : Nat]
      BY <3>1
    <3>3. series' = [series EXCEPT ![p.item] = now, ![j] = [now EXCEPT !.place = @ + 1]]
      BY <1>3 DEF FinishRecurring
    <3>4. QED
      BY <3>1, <3>2, <3>3 DEF TypeOK
  <2>9. QED
    BY <1>3, <2>2, <2>3, <2>4, <2>5, <2>6, <2>7, <2>8 DEF FinishRecurring, TypeOK
<1>4. CASE DropPatch(s)
  BY <1>4 DEF DropPatch, TypeOK
<1>5. QED
  BY <1>1, <1>2, <1>3, <1>4 DEF PatchItem

LEMMA TypeStep == TypeOK /\ [Next]_vars => TypeOK'
<1> SUFFICES ASSUME TypeOK, [Next]_vars PROVE TypeOK'
  OBVIOUS
<1> USE DEF requestVars, history
<1>1. ASSUME NEW i \in Item, ItemRequest(i) PROVE TypeOK'
  <2>1. ASSUME NEW flag \in BOOLEAN, SetArchive(i, flag) PROVE TypeOK'
    BY <2>1 DEF SetArchive, Bump, TypeOK
  <2>2. CASE SoftDelete(i)
    BY <2>2 DEF SoftDelete, Bump, TypeOK
  <2>3. CASE RestoreDeleted(i)
    BY <2>3 DEF RestoreDeleted, Bump, TypeOK
  <2>4. CASE Purge(i)
    BY <2>4 DEF Purge, TypeOK
  <2>5. QED
    BY <1>1, <2>1, <2>2, <2>3, <2>4 DEF ItemRequest
<1>2. CASE UNCHANGED vars
  BY <1>2 DEF vars, rowVars, requestVars, history, TypeOK
<1>3. QED
  BY <1>1, <1>2, CreateType, PatchType DEF Next

LEMMA TypeInit == Init => TypeOK
  BY ConstantsAssumption DEF Init, TypeOK

\* Every variable keeps its type.
THEOREM TypeCorrectness == Spec => []TypeOK
  BY TypeInit, TypeStep, PTL DEF Spec

-----------------------------------------------------------------------------
(* Optimistic locking.  Whatever changes a row raises its version, so a row *)
(* at the version a client has seen is the row that was read after that.    *)

LEMMA LegalReflexive ==
    ASSUME NEW before \in Status
    PROVE  before \in Legal(before)
  BY DEF Legal, Status, Terminal

\* A row exists once it has a version.
Versioned == \A i \in Item : Live(i) => version[i] # 0

ReadInHand ==
    \A s \in Session : patching[s] # NoWork =>
        LET p == patching[s]
        IN  /\ 0 < p.expected /\ p.expected <= version[p.item]
            /\ Accepted(p) => p.read = status[p.item]
            /\ p.to # "keep" => p.to \in Legal(p.read)

LockInv == TypeOK /\ Versioned /\ ReadInHand

\* A step that begins no PATCH, and raises the version of what it changes.
LEMMA LockKept ==
    ASSUME LockInv,
           TypeOK',
           \A s \in Session : patching'[s] \in {patching[s], NoWork},
           \A i \in Item :
               \/ version'[i] = version[i] /\ status'[i] \in {status[i], "none"}
               \/ version'[i] > version[i]
    PROVE  Versioned' /\ ReadInHand'
<1>1. TypeOK /\ Versioned /\ ReadInHand
  BY DEF LockInv
<1>2. ASSUME NEW i \in Item, status'[i] # "none"
      PROVE  version'[i] # 0
  <2>1. version[i] \in Nat /\ version'[i] \in Nat  BY <1>1 DEF TypeOK
  <2>2. status[i] # "none" => version[i] # 0  BY <1>1 DEF Versioned, Live
  <2>3. CASE version'[i] = version[i] /\ status'[i] \in {status[i], "none"}
    BY <1>2, <2>2, <2>3
  <2>4. CASE version'[i] > version[i]  BY <2>1, <2>4
  <2>5. QED  BY <2>3, <2>4
<1>3. ASSUME NEW s \in Session, patching'[s] # NoWork
      PROVE  /\ patching'[s] = patching[s] /\ patching[s] # NoWork
             /\ patching[s].item \in Item /\ patching[s].expected \in Nat
  BY <1>1, <1>3, PatchInHand
<1>4. ReadInHand'
  BY <1>1, <1>3 DEF ReadInHand, Accepted, Live, TypeOK
<1>5. Versioned'  BY <1>2 DEF Versioned, Live
<1>6. QED
  BY <1>4, <1>5

LEMMA LockStep == LockInv /\ [Next]_vars => LockInv'
<1> SUFFICES ASSUME LockInv, [Next]_vars PROVE Versioned' /\ ReadInHand'
  BY TypeStep DEF LockInv
<1> USE DEF rowVars, requestVars, history
<1>1. TypeOK /\ TypeOK' /\ Versioned /\ ReadInHand
  BY TypeStep DEF LockInv
<1>2. CASE UNCHANGED <<status, version, patching>>
  BY <1>1, <1>2, LockKept
<1>3. ASSUME NEW s \in Session, NEW i \in Item, FinishCreate(s, i)
      PROVE  Versioned' /\ ReadInHand'
  BY <1>1, <1>3, LockKept DEF FinishCreate, Unused, TypeOK
<1>4. ASSUME NEW s \in Session, NEW i \in Item, NEW expected \in 1 .. MaxVersion,
             NEW asked, NEW people, NEW rule,
             BeginPatch(s, i, expected, asked, people, rule)
      PROVE  Versioned' /\ ReadInHand'
  <2>1. /\ status' = status /\ version' = version
        /\ \A t \in Session : t # s => patching'[t] = patching[t]
        /\ patching'[s].item = i /\ patching'[s].read = status[i]
        /\ patching'[s].expected = expected
        /\ patching'[s].to # "keep" => patching'[s].to \in Legal(status[i])
        /\ expected \in 1 .. version[i]
    BY <1>1, <1>4 DEF BeginPatch, TypeOK
  <2>2. Versioned'
    BY <1>1, <2>1 DEF Versioned, Live
  <2>3. ReadInHand'
    BY <1>1, <2>1 DEF ReadInHand, Accepted, Live, TypeOK
  <2>4. QED
    BY <2>2, <2>3
<1>5. ASSUME NEW s \in Session, FinishPatch(s) PROVE Versioned' /\ ReadInHand'
  BY <1>1, <1>5, PatchInHand, LockKept DEF FinishPatch, StatusAfter, TypeOK
<1>6. ASSUME NEW s \in Session, NEW j \in Item, FinishRecurring(s, j)
      PROVE  Versioned' /\ ReadInHand'
  <2> DEFINE p == patching[s]
  <2>1. p.item \in Item /\ version[p.item] \in Nat /\ version[j] = 0
    BY <1>1, <1>6, PatchInHand DEF FinishRecurring, Unused, TypeOK
  <2>2. p.item # j
    BY <1>1, <1>6, <2>1 DEF FinishRecurring, Accepted, Versioned
  <2>3. \A i \in Item : i # p.item /\ i # j =>
            version'[i] = version[i] /\ status'[i] = status[i]
    BY <1>1, <1>6 DEF FinishRecurring, StatusAfter, TypeOK
  <2>4. version'[p.item] > version[p.item] /\ version'[j] > version[j]
    BY <1>1, <1>6, <2>1, <2>2 DEF FinishRecurring, TypeOK
  <2>5. \A t \in Session : patching'[t] \in {patching[t], NoWork}
    BY <1>1, <1>6 DEF FinishRecurring, TypeOK
  <2>6. QED
    BY <1>1, <2>3, <2>4, <2>5, LockKept
<1>7. ASSUME NEW s \in Session, DropPatch(s) PROVE Versioned' /\ ReadInHand'
  BY <1>1, <1>7, LockKept DEF DropPatch, TypeOK
<1>8. ASSUME NEW i \in Item, ItemRequest(i) PROVE Versioned' /\ ReadInHand'
  BY <1>1, <1>8, LockKept
  DEF ItemRequest, SetArchive, SoftDelete, RestoreDeleted, Purge, Bump, TypeOK
<1>9. QED
  BY <1>2, <1>3, <1>4, <1>5, <1>6, <1>7, <1>8
  DEF Next, Create, BeginCreate, DropCreate, PatchItem, vars

LEMMA LockInvariant == Spec => []LockInv
<1>1. Init => LockInv
  BY TypeInit DEF Init, LockInv, Versioned, ReadInHand, Live
<1>2. QED
  BY <1>1, LockStep, PTL DEF Spec

\* A PATCH that is accepted was validated on the row as it is.
THEOREM PatchesAreCurrent == Spec => []ValidatedOnCurrent
<1>1. LockInv => ValidatedOnCurrent
  BY DEF LockInv, ReadInHand, ValidatedOnCurrent
<1>2. QED
  BY <1>1, LockInvariant, PTL

\* A PATCH in hand that is accepted moves its item along a legal transition.
LEMMA AcceptedIsLegal ==
    ASSUME LockInv, NEW s \in Session, patching[s] # NoWork, Accepted(patching[s])
    PROVE  /\ patching[s].item \in Item
           /\ status[patching[s].item] \in Status
           /\ patching[s].to # "keep" =>
                  patching[s].to \in Legal(status[patching[s].item])
  BY PatchInHand DEF LockInv, ReadInHand, Accepted, Live, TypeOK

LEMMA LegalStep ==
    LockInv /\ [Next]_vars =>
        \A i \in Item : Live(i) /\ Live(i)' => status'[i] \in Legal(status[i])
<1> SUFFICES ASSUME LockInv, [Next]_vars, NEW i \in Item, Live(i), Live(i)'
             PROVE  status'[i] \in Legal(status[i])
  OBVIOUS
<1> USE DEF rowVars, requestVars, history
<1>1. TypeOK /\ Versioned /\ status[i] \in Status /\ version[i] # 0
  BY DEF LockInv, Versioned, TypeOK, Live
<1>2. status[i] \in Legal(status[i])
  BY <1>1, LegalReflexive
<1>3. CASE status'[i] = status[i]
  BY <1>2, <1>3
<1>4. ASSUME NEW s \in Session, NEW j \in Item, FinishCreate(s, j)
      PROVE  status'[i] = status[i]
  BY <1>1, <1>4 DEF FinishCreate, Unused, TypeOK
<1>5. ASSUME NEW s \in Session, FinishPatch(s) PROVE status'[i] \in Legal(status[i])
  BY <1>1, <1>2, <1>5, AcceptedIsLegal DEF FinishPatch, StatusAfter, TypeOK
<1>6. ASSUME NEW s \in Session, NEW j \in Item, FinishRecurring(s, j)
      PROVE  status'[i] \in Legal(status[i])
  <2>1. i # j
    BY <1>1, <1>6 DEF FinishRecurring, Unused
  <2>2. status'[i] = StatusAfter(patching[s])[i]
    BY <1>1, <1>6, <2>1, PatchInHand, StampTypes DEF FinishRecurring
  <2>3. QED
    BY <1>1, <1>2, <1>6, <2>2, AcceptedIsLegal DEF FinishRecurring, StatusAfter, TypeOK
<1>7. ASSUME NEW k \in Item, ItemRequest(k) PROVE status'[i] = status[i]
  BY <1>1, <1>7 DEF ItemRequest, SetArchive, SoftDelete, RestoreDeleted, Purge, Live, TypeOK
<1>8. QED
  BY <1>3, <1>4, <1>5, <1>6, <1>7
  DEF Next, Create, BeginCreate, DropCreate, PatchItem, BeginPatch, DropPatch, vars

\* No step moves an item against LEGAL_TRANSITIONS.
THEOREM StepsAreLegal == Spec => OnlyLegalSteps
  BY LockInvariant, LegalStep, PTL DEF Spec, OnlyLegalSteps

-----------------------------------------------------------------------------
(* Stamps.  Neither terminal status is reached from the other, so the stamp *)
(* a PATCH leaves alone is never that of a status the item left.            *)

StampInv == LockInv /\ StampsTellStatus

LEMMA StampAfter ==
    ASSUME StampInv, NEW s \in Session, patching[s] # NoWork, Accepted(patching[s])
    PROVE  LET p == patching[s]
           IN  /\ \A i \in CompletedAfter(p) : StatusAfter(p)[i] = "done"
               /\ \A i \in CancelledAfter(p) : StatusAfter(p)[i] = "cancelled"
<1> DEFINE p == patching[s]
<1>1. /\ TypeOK /\ p \in Patch /\ p.item \in Item
      /\ p.to \in Status \cup {"keep"}
      /\ status[p.item] \in Status
      /\ p.to # "keep" => p.to \in Legal(status[p.item])
  BY PatchInHand, AcceptedIsLegal DEF StampInv, LockInv
<1>2. /\ \A i \in completed : i \in Item /\ status[i] = "done"
      /\ \A i \in cancelled : i \in Item /\ status[i] = "cancelled"
  BY <1>1 DEF StampInv, StampsTellStatus, TypeOK
<1>3. \A i \in Item : StatusAfter(p)[i] =
          IF i = p.item /\ p.to # "keep" THEN p.to ELSE status[i]
  BY <1>1 DEF StatusAfter, TypeOK
<1>4. p.to = "done" => p.item \notin cancelled
  BY <1>1, <1>2 DEF Legal, Terminal
<1>5. p.to = "cancelled" => p.item \notin completed
  BY <1>1, <1>2 DEF Legal, Terminal
<1>6. \A i \in CompletedAfter(p) : StatusAfter(p)[i] = "done"
  BY <1>1, <1>2, <1>3, <1>5 DEF CompletedAfter, Status
<1>7. \A i \in CancelledAfter(p) : StatusAfter(p)[i] = "cancelled"
  BY <1>1, <1>2, <1>3, <1>4 DEF CancelledAfter, Status
<1>8. QED
  BY <1>6, <1>7

LEMMA StampStep == StampInv /\ [Next]_vars => StampInv'
<1> SUFFICES ASSUME StampInv, [Next]_vars PROVE StampsTellStatus'
  BY LockStep DEF StampInv
<1> USE DEF rowVars, requestVars, history
<1>1. TypeOK /\ Versioned /\ StampsTellStatus
  BY DEF StampInv, LockInv
<1>2. \A i \in Unused : status[i] = "none" /\ i \notin completed /\ i \notin cancelled
  BY <1>1 DEF Unused, Versioned, Live, StampsTellStatus, TypeOK
<1>3. CASE UNCHANGED <<status, completed, cancelled>>
  BY <1>1, <1>3 DEF StampsTellStatus
<1>4. ASSUME NEW s \in Session, NEW i \in Item, FinishCreate(s, i)
      PROVE  StampsTellStatus'
  BY <1>1, <1>2, <1>4 DEF FinishCreate, StampsTellStatus, TypeOK
<1>5. ASSUME NEW s \in Session, FinishPatch(s) PROVE StampsTellStatus'
  BY <1>5, StampAfter DEF FinishPatch, StampsTellStatus
<1>6. ASSUME NEW s \in Session, NEW j \in Item, FinishRecurring(s, j)
      PROVE  StampsTellStatus'
  <2> DEFINE p == patching[s]
  <2>1. /\ p \in Patch /\ p.item \in Item /\ p.item # j
        /\ StatusAfter(p) \in [Item -> Status \cup {"none"}]
    BY <1>1, <1>2, <1>6, PatchInHand, StampTypes DEF FinishRecurring, Accepted, Live
  <2>2. j \notin CompletedAfter(p) /\ j \notin CancelledAfter(p)
    BY <1>2, <1>6, <2>1 DEF FinishRecurring, CompletedAfter, CancelledAfter
  <2>3. CompletedAfter(p) \subseteq Item /\ CancelledAfter(p) \subseteq Item
    BY <1>1, <2>1, StampTypes
  <2>4. QED
    BY <1>6, <2>1, <2>2, <2>3, StampAfter DEF FinishRecurring, StampsTellStatus
<1>7. ASSUME NEW i \in Item, ItemRequest(i) PROVE StampsTellStatus'
  BY <1>1, <1>7
  DEF ItemRequest, SetArchive, SoftDelete, RestoreDeleted, Purge, StampsTellStatus, TypeOK
<1>8. QED
  BY <1>3, <1>4, <1>5, <1>6, <1>7
  DEF Next, Create, BeginCreate, DropCreate, PatchItem, BeginPatch, DropPatch, vars

\* completed_at and cancelled_at are those of the status the item has now.
THEOREM StampsAreOfStatus == Spec => []StampsTellStatus
<1>1. Init => StampInv
  BY TypeInit
  DEF Init, StampInv, LockInv, Versioned, ReadInHand, Live, StampsTellStatus
<1>2. StampInv => StampsTellStatus
  BY DEF StampInv
<1>3. QED
  BY <1>1, <1>2, StampStep, PTL DEF Spec

-----------------------------------------------------------------------------
(* Series.  A completion is of a version the item has passed since, so the  *)
(* next accepted one is another.  An occurrence is made from the row as the *)
(* completing request wrote it: the count left is what the series was given  *)
(* last, less the occurrences since.                                        *)

OriginsPassed ==
    /\ \A i \in Item : version[i] = 0 => origin[i] = NoItem
    /\ \A j \in Item : origin[j] # NoItem =>
           origin[j].version < version[origin[j].item]

SeriesInv ==
    TypeOK /\ Versioned /\ OriginsPassed /\ OneOccurrencePerCompletion /\ SeriesEnds

\* What is left of a series that has told and place.
Left(s, n) == IF s.told = 0 THEN n = 0 ELSE s.place < s.told /\ n = s.told - s.place

\* Writing a rule keeps the count left and the series in step.
LEMMA RuleKeepsSeries ==
    ASSUME TypeOK, SeriesEnds, NEW i \in Item, NEW rule \in Rule
    PROVE  Left(SeriesAfter(i, rule), CountAfter(i, rule))
<1>1. rule.count \in 0 .. MaxCount \/ rule.count = Keep
  BY DEF Rule
<1>2. Left(series[i], count[i])
  BY DEF SeriesEnds, Left
<1>3. QED
  BY <1>1, <1>2, ConstantsAssumption DEF SeriesAfter, CountAfter, Left

\* A step that makes no occurrence.
LEMMA OriginsKept ==
    ASSUME SeriesInv,
           origin' = origin,
           \A i \in Item : version'[i] \in Nat /\ version'[i] >= version[i]
    PROVE  OriginsPassed' /\ OneOccurrencePerCompletion'
<1>1. TypeOK
  BY DEF SeriesInv
<1>2. \A j \in Item : origin[j] # NoItem =>
          origin[j].item \in Item /\ origin[j].version \in Nat
  BY <1>1 DEF TypeOK, Completion
<1>3. OriginsPassed'
  BY <1>1, <1>2 DEF SeriesInv, OriginsPassed, TypeOK
<1>4. QED
  BY <1>3 DEF SeriesInv, OneOccurrencePerCompletion

LEMMA SeriesStep == SeriesInv /\ [Next]_vars => SeriesInv'
<1> SUFFICES ASSUME SeriesInv, [Next]_vars
             PROVE  /\ Versioned'
                    /\ OriginsPassed' /\ OneOccurrencePerCompletion' /\ SeriesEnds'
  BY TypeStep DEF SeriesInv
<1> USE DEF rowVars, requestVars, history
<1>1. /\ TypeOK /\ TypeOK' /\ Versioned /\ OriginsPassed
      /\ OneOccurrencePerCompletion /\ SeriesEnds
  BY TypeStep DEF SeriesInv
<1>2. \A j \in Item : origin[j] # NoItem =>
          /\ origin[j].item \in Item /\ origin[j].version \in Nat
          /\ version[origin[j].item] # 0
  BY <1>1 DEF TypeOK, Completion, OriginsPassed
<1>3. ASSUME origin' = origin,
             \A i \in Item :
                 \/ version'[i] = version[i] /\ status'[i] \in {status[i], "none"}
                 \/ version'[i] > version[i]
      PROVE  Versioned' /\ OriginsPassed' /\ OneOccurrencePerCompletion'
  <2>1. \A i \in Item : version[i] \in Nat /\ version'[i] \in Nat
    BY <1>1 DEF TypeOK
  <2>2. Versioned' /\ \A i \in Item : version'[i] \in Nat /\ version'[i] >= version[i]
    BY <1>1, <1>3, <2>1 DEF Versioned, Live
  <2>3. QED
    BY <1>3, <2>2, OriginsKept
<1>4. ASSUME UNCHANGED <<count, series>> PROVE SeriesEnds'
  BY <1>1, <1>4 DEF SeriesEnds
<1>5. ASSUME NEW s \in Session, NEW i \in Item, FinishCreate(s, i)
      PROVE  Versioned' /\ OriginsPassed' /\ OneOccurrencePerCompletion' /\ SeriesEnds'
  <2>1. /\ version[i] = 0 /\ origin' = origin /\ version'[i] = 1
        /\ \A k \in Item : k # i => version'[k] = version[k] /\ status'[k] = status[k]
    BY <1>1, <1>5 DEF FinishCreate, Unused, TypeOK
  <2>2. \A k \in Item : \/ version'[k] = version[k] /\ status'[k] \in {status[k], "none"}
                        \/ version'[k] > version[k]
    BY <1>1, <2>1 DEF TypeOK
  <2>3. creating[s].rule \in Rule
    BY <1>1, <1>5 DEF FinishCreate, TypeOK, Creation
  <2>4. SeriesEnds'
    <3>1. /\ count' = [count EXCEPT ![i] = CountAfter(i, creating[s].rule)]
          /\ series' = [series EXCEPT ![i] = SeriesAfter(i, creating[s].rule)]
      BY <1>5 DEF FinishCreate
    <3>2. QED
      BY <1>1, <2>3, <3>1, RuleKeepsSeries DEF SeriesEnds, Left, TypeOK
  <2>5. QED
    BY <1>3, <2>1, <2>2, <2>4
<1>6. ASSUME NEW s \in Session, FinishPatch(s)
      PROVE  Versioned' /\ OriginsPassed' /\ OneOccurrencePerCompletion' /\ SeriesEnds'
  <2> DEFINE p == patching[s]
  <2>1. p.item \in Item /\ p.rule \in Rule
    BY <1>1, <1>6, PatchInHand DEF FinishPatch
  <2>2. Versioned' /\ OriginsPassed' /\ OneOccurrencePerCompletion'
    BY <1>1, <1>3, <1>6, <2>1 DEF FinishPatch, StatusAfter, TypeOK
  <2>3. /\ count' = [count EXCEPT ![p.item] = CountAfter(p.item, p.rule)]
        /\ series' = [series EXCEPT ![p.item] = SeriesAfter(p.item, p.rule)]
    BY <1>6 DEF FinishPatch
  <2>4. SeriesEnds'
    BY <1>1, <2>1, <2>3, RuleKeepsSeries DEF SeriesEnds, Left, TypeOK
  <2>5. QED
    BY <2>2, <2>4
<1>7. ASSUME NEW s \in Session, NEW j \in Item, FinishRecurring(s, j)
      PROVE  Versioned' /\ OriginsPassed' /\ OneOccurrencePerCompletion' /\ SeriesEnds'
  <2> DEFINE p == patching[s]
             now == SeriesAfter(p.item, p.rule)
             n == CountAfter(p.item, p.rule)
  <2>1. /\ p \in Patch /\ p.item \in Item /\ p.expected \in Nat /\ p.rule \in Rule
        /\ p.expected = version[p.item] /\ version[p.item] # 0
        /\ version[j] = 0 /\ j # p.item /\ origin[j] = NoItem
    BY <1>1, <1>7, PatchInHand
    DEF FinishRecurring, Accepted, Unused, Versioned, OriginsPassed, TypeOK
  <2>2. /\ version'[p.item] = version[p.item] + 1 /\ version'[j] = 1
        /\ origin'[j] = [item |-> p.item, version |-> p.expected]
    BY <1>1, <1>7, <2>1 DEF FinishRecurring, TypeOK
  <2>3. \A k \in Item : k # j =>
            /\ origin'[k] = origin[k]
            /\ k # p.item => version'[k] = version[k] /\ status'[k] = status[k]
    BY <1>1, <1>7, <2>1, StampTypes DEF FinishRecurring, StatusAfter, TypeOK
  <2>4. origin'[j] # NoItem
    BY <2>1, <2>2, ConstantsAssumption DEF Completion
  <2>5. \A k \in Item : origin[k] # NoItem => k # j /\ origin[k].item # j
    BY <1>2, <2>1
  <2>6. \A k \in Item : origin[k] # NoItem => origin[k] # origin'[j]
    BY <1>1, <1>2, <2>1, <2>2 DEF OriginsPassed
  <2>7. \A k \in Item : version[k] \in Nat
    BY <1>1 DEF TypeOK
  <2>8. Versioned'
    BY <1>1, <2>1, <2>2, <2>3, <2>7 DEF Versioned, Live
  <2>9. OriginsPassed'
    BY <1>1, <1>2, <2>1, <2>2, <2>3, <2>5, <2>7 DEF OriginsPassed
  <2>10. OneOccurrencePerCompletion'
    BY <1>1, <2>3, <2>4, <2>6 DEF OneOccurrencePerCompletion
  <2>11. SeriesEnds'
    <3>1. /\ count' = [count EXCEPT ![p.item] = n, ![j] = Before(n)]
          /\ series' = [series EXCEPT ![p.item] = now, ![j] = [now EXCEPT !.place = @ + 1]]
          /\ n # 1
      BY <1>7 DEF FinishRecurring, CountOfNext
    <3>2. /\ now.told \in Nat /\ now.place \in Nat /\ n \in Nat
          /\ Left(now, n) /\ now \in [told : 0 .. MaxCount, place : Nat]
      BY <1>1, <2>1, RuleTypes, RuleKeepsSeries, ConstantsAssumption
    <3>3. Left([now EXCEPT !.place = @ + 1], Before(n))
      BY <3>1, <3>2 DEF Left, Before
    <3>4. /\ count'[p.item] = n /\ count'[j] = Before(n)
          /\ series'[p.item] = now /\ series'[j] = [now EXCEPT !.place = @ + 1]
          /\ \A k \in Item : k # j /\ k # p.item => count'[k] = count[k] /\ series'[k] = series[k]
      BY <1>1, <2>1, <3>1 DEF TypeOK
    <3>5. \A k \in Item : Left(series'[k], count'[k])
      BY <1>1, <3>2, <3>3, <3>4 DEF SeriesEnds, Left
    <3>6. QED
      BY <3>5 DEF SeriesEnds, Left
  <2>12. QED
    BY <2>8, <2>9, <2>10, <2>11
<1>8. ASSUME NEW i \in Item, ItemRequest(i)
      PROVE  Versioned' /\ OriginsPassed' /\ OneOccurrencePerCompletion' /\ SeriesEnds'
  BY <1>1, <1>3, <1>4, <1>8
  DEF ItemRequest, SetArchive, SoftDelete, RestoreDeleted, Purge, Bump, TypeOK
<1>9. CASE UNCHANGED <<status, version, count, origin, series>>
  BY <1>1, <1>3, <1>4, <1>9
<1>10. QED
  BY <1>5, <1>6, <1>7, <1>8, <1>9
  DEF Next, Create, BeginCreate, DropCreate, PatchItem, BeginPatch, DropPatch, vars

LEMMA SeriesInvariant == Spec => []SeriesInv
<1>1. Init => SeriesInv
  BY TypeInit
  DEF Init, SeriesInv, Versioned, Live, OriginsPassed, OneOccurrencePerCompletion, SeriesEnds
<1>2. QED
  BY <1>1, SeriesStep, PTL DEF Spec

\* Completing an item at one version makes at most one next occurrence.
THEOREM CompletionsMakeOne == Spec => []OneOccurrencePerCompletion
<1>1. SeriesInv => OneOccurrencePerCompletion
  BY DEF SeriesInv
<1>2. QED
  BY <1>1, SeriesInvariant, PTL

\* From the item a client last gave a count to, a chain of occurrences is no
\* longer than that count, and without one it is not brought to an end.
THEOREM SeriesAreFinite == Spec => []SeriesEnds
<1>1. SeriesInv => SeriesEnds
  BY DEF SeriesInv
<1>2. QED
  BY <1>1, SeriesInvariant, PTL
=============================================================================
