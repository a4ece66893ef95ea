---------------------------- MODULE MCEventOutbox ----------------------------
(***************************************************************************)
(* Small instances of EventOutbox: every subscription wants every event.     *)
(***************************************************************************)
EXTENDS EventOutbox

EveryoneInterested == [s \in Subscription |-> Event]
=============================================================================
