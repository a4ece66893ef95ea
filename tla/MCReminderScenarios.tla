------------------------- MODULE MCReminderScenarios -------------------------
(***************************************************************************)
(* The safety run of ReminderDelivery.  Its states are those of two         *)
(* scenarios, which the action constraint keeps apart from their product;   *)
(* the theorems cover what the scenarios leave out.  Workers, items and     *)
(* reminder ids are interchangeable (Init lets any item be the first).      *)
(***************************************************************************)
EXTENDS ReminderDelivery, TLC

Interchangeable == Permutations(Worker) \cup Permutations(Item) \cup Permutations(Reminder)

\* Two workers that may crash, and one alarm in the app.
Race ==
    /\ now <= 1
    /\ \A i \in Item : put[i] # NoPut => put[i].at = 1 /\ put[i].channels = {InApp}
    /\ \A d \in Delivery : status[d] # "absent" => d.at = 1 /\ d.channel = InApp

\* A reminder that is moved between two instants on two channels, while one worker sends
\* each row at most once and the item stays open.
Move ==
    /\ closed = {} /\ archived = {} /\ \A i \in Item : stage[i] = "live"
    /\ crashes = 0
    /\ \A d \in Delivery : attempts[d] <= 1 /\ seen[d] = "new" /\ wake[d] # "now"
    /\ \E w \in Worker : \A v \in Worker \ {w} : batch[v] = {} /\ sent[v] = NoJob

Scenario == (Race /\ Race') \/ (Move /\ Move')
=============================================================================
