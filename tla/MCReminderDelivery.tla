------------------------- MODULE MCReminderDelivery -------------------------
(***************************************************************************)
(* Small instances of ReminderDelivery for liveness, without symmetry.  The *)
(* .cfg files give the constants.                                           *)
(***************************************************************************)
EXTENDS ReminderDelivery

\* That a given item is the first one halves the states.
LiveInit == Init /\ stage[CHOOSE i \in Item : TRUE] = "live"

LiveSpec == LiveInit /\ [][Next]_vars /\ Fairness
=============================================================================
