----------------------------- MODULE AtLeastOnce -----------------------------
(***************************************************************************)
(* What the transactional outbox promises to the receivers of webhooks      *)
(* ("at-least-once", 020_event_outbox.sql), with no word about claims,      *)
(* leases, retries or workers.  An event is recorded with the receivers it  *)
(* is owed to; a receiver may get it any number of times; it is settled     *)
(* only when nobody it is owed to is still waiting for it.                  *)
(***************************************************************************)
CONSTANTS Event, Receiver

VARIABLES
    recorded,   \* events that exist
    owed,       \* event -> receivers it is still owed to, whether they got it or not
    received,   \* receiver -> events it has accepted
    settled     \* events the outbox is done with

vars == <<recorded, owed, received, settled>>

TypeOK ==
    /\ recorded \in SUBSET Event
    /\ owed \in [Event -> SUBSET Receiver]
    /\ received \in [Receiver -> SUBSET Event]
    /\ settled \in SUBSET Event

Init ==
    /\ recorded = {}
    /\ owed = [e \in Event |-> {}]
    /\ received = [r \in Receiver |-> {}]
    /\ settled = {}

Record(e, R) ==
    /\ e \notin recorded
    /\ recorded' = recorded \cup {e}
    /\ owed' = [owed EXCEPT ![e] = R]
    /\ UNCHANGED <<received, settled>>

\* A receiver leaves: nothing is owed to it any more.
Leave(r) ==
    /\ owed' = [e \in Event |-> owed[e] \ {r}]
    /\ UNCHANGED <<recorded, received, settled>>

\* Also after the event is settled, and more than once.
Receive(r, e) ==
    /\ e \in recorded
    /\ received' = [received EXCEPT ![r] = @ \cup {e}]
    /\ UNCHANGED <<recorded, owed, settled>>

Settle(e) ==
    /\ e \in recorded
    /\ \A r \in owed[e] : e \in received[r]
    /\ settled' = settled \cup {e}
    /\ UNCHANGED <<recorded, owed, received>>

Next ==
    \/ \E e \in Event, R \in SUBSET Receiver : Record(e, R)
    \/ \E r \in Receiver : Leave(r)
    \/ \E r \in Receiver, e \in Event : Receive(r, e)
    \/ \E e \in Event : Settle(e)

Spec == Init /\ [][Next]_vars
=============================================================================
