---------------------------- MODULE ReminderInbox ----------------------------
(***************************************************************************)
(* The bell of the web client: a poll of the deliveries that wait to be    *)
(* seen, the toasts and desktop notifications raised for new ones, and the *)
(* acknowledge, snooze and complete buttons, which take a delivery out of  *)
(* the cached list before the server has answered. The diagnostics dialog  *)
(* retries dead deliveries. The worker that delivers is ReminderDelivery;  *)
(* here it is one step.                                                    *)
(***************************************************************************)
EXTENDS Naturals, FiniteSets

CONSTANTS
    Notices,      \* in-app deliveries
    ToastsShown,  \* new deliveries that get a toast at once
    InboxWrites   \* bound: requests sent by the bell and the dialog

ASSUME InboxAssumption == IsFiniteSet(Notices) /\ InboxWrites \in Nat

VARIABLES
    inboxState,   \* delivery -> what the server says of it
    inboxCalls,   \* requests under way
    inboxSent,    \* bound counter for InboxWrites
    inboxLoaded,  \* the unseen query has data
    inboxList,    \* the cached answer of the unseen query
    inboxFetch,   \* the query behind it: idle, asked, or answered with a set
    inboxStale,   \* history: the last answer was lost, or the server changed by itself since
    inboxToasted, \* toastedRef
    inboxToasts,  \* toasts on the screen
    inboxNotes,   \* desktop notifications that can still be clicked
    inboxAsked    \* history: deliveries acknowledged here and not snoozed since

inboxVars == <<inboxState, inboxCalls, inboxSent, inboxLoaded, inboxList, inboxFetch,
               inboxStale, inboxToasted, inboxToasts, inboxNotes, inboxAsked>>
inboxBell == <<inboxToasted, inboxToasts, inboxNotes, inboxAsked>>

InboxStates == {"waiting", "unseen", "snoozed", "acked", "dead"}
InboxCall == [op : {"ack", "snooze", "complete", "retry"}, id : Notices]

-----------------------------------------------------------------------------

\* list_deliveries with unseen: delivered, not acknowledged, not put off.
InboxUnseen == {n \in Notices : inboxState[n] = "unseen"}

\* invalidateQueries drops the answer of a running fetch and asks again; the first fetch
\* is joined.
InboxAsk ==
    IF ~inboxLoaded /\ inboxFetch.at # "idle" THEN UNCHANGED <<inboxFetch, inboxStale>>
    ELSE inboxFetch' = [at |-> "asked", ids |-> {}] /\ inboxStale' = FALSE

\* The worker, and the clock that ends a snooze.
InboxServerSteps ==
    /\ \E n \in Notices :
          \/ /\ inboxState[n] = "waiting"
             /\ \E to \in {"unseen", "dead"} : inboxState' = [inboxState EXCEPT ![n] = to]
          \/ inboxState[n] = "snoozed" /\ inboxState' = [inboxState EXCEPT ![n] = "unseen"]
    /\ inboxStale' = (inboxStale \/ inboxFetch.at # "asked")
    /\ UNCHANGED <<inboxCalls, inboxSent, inboxLoaded, inboxList, inboxFetch, inboxBell>>

\* acknowledge and snooze update a delivered row, retry a dead one; others are refused.
InboxAfter(call) ==
    CASE call.op = "ack" /\ inboxState[call.id] \in {"unseen", "snoozed", "acked"} -> "acked"
      [] call.op = "snooze" /\ inboxState[call.id] \in {"unseen", "snoozed", "acked"} -> "snoozed"
      [] call.op = "retry" /\ inboxState[call.id] = "dead" -> "waiting"
      [] OTHER -> inboxState[call.id]

\* The mutations of the bell ask again when they settle (onSettled), a retry and a
\* completion only when they succeed.
InboxAskWhenDone(call, ok) ==
    IF ok THEN InboxAsk ELSE UNCHANGED <<inboxFetch, inboxStale>>

InboxSettled(call, ok) ==
    IF ok \/ call.op \in {"ack", "snooze"} THEN InboxAsk
    ELSE UNCHANGED <<inboxFetch, inboxStale>>

\* A request is refused or lost, done but its answer lost, or answered.
InboxServe(call) ==
    /\ inboxCalls' = inboxCalls \ {call}
    /\ \E ok, done \in BOOLEAN :
          /\ ok => done
          /\ inboxState' = IF done THEN [inboxState EXCEPT ![call.id] = InboxAfter(call)]
                           ELSE inboxState
          /\ InboxSettled(call, ok)
    /\ UNCHANGED <<inboxSent, inboxLoaded, inboxList, inboxBell>>

\* refetchInterval: every 30 seconds.
InboxPoll ==
    /\ inboxFetch.at = "idle" /\ InboxAsk
    /\ UNCHANGED <<inboxState, inboxCalls, inboxSent, inboxLoaded, inboxList, inboxBell>>

InboxAnswer ==
    /\ inboxFetch.at = "asked"
    /\ inboxFetch' = [at |-> "answered", ids |-> InboxUnseen]
    /\ inboxStale' = FALSE
    /\ UNCHANGED <<inboxState, inboxCalls, inboxSent, inboxLoaded, inboxList, inboxBell>>

\* A fetch that fails, its retry too, leaves the list as it is until the next poll.
InboxFetchFails ==
    /\ inboxFetch.at # "idle"
    /\ inboxFetch' = [at |-> "idle", ids |-> {}] /\ inboxStale' = TRUE
    /\ UNCHANGED <<inboxState, inboxCalls, inboxSent, inboxLoaded, inboxList, inboxBell>>

\* The effect on a new list: all that are new count as raised, the first few are shown,
\* on the desktop too when the user wants it.
InboxToast(list) ==
    LET fresh == list \ inboxToasted
    IN  /\ inboxToasted' = inboxToasted \cup fresh
        /\ \E shown \in SUBSET fresh :
              /\ Cardinality(shown) =
                     IF Cardinality(fresh) < ToastsShown THEN Cardinality(fresh) ELSE ToastsShown
              /\ inboxToasts' = inboxToasts \cup shown
              /\ inboxNotes' \in {inboxNotes, inboxNotes \cup shown}

InboxFetched ==
    /\ inboxFetch.at = "answered"
    /\ inboxFetch' = [at |-> "idle", ids |-> {}]
    /\ inboxLoaded' = TRUE /\ inboxList' = inboxFetch.ids
    /\ InboxToast(inboxFetch.ids)
    /\ UNCHANGED <<inboxState, inboxCalls, inboxSent, inboxStale, inboxAsked>>

InboxSend(op, n) ==
    /\ inboxSent < InboxWrites
    /\ inboxSent' = inboxSent + 1
    /\ inboxCalls' = inboxCalls \cup {[op |-> op, id |-> n]}

\* The toast, the panel, or the desktop notification, which a click closes: it may be
\* clicked long after the delivery was acknowledged or put off in the tab.
InboxClick(n) ==
    \/ n \in inboxToasts \cup inboxList /\ UNCHANGED inboxNotes
    \/ n \in inboxNotes /\ inboxNotes' = inboxNotes \ {n}

\* An acknowledgement that forgets that the delivery was raised.
InboxAckForgets(n) ==
    /\ InboxClick(n) /\ InboxSend("ack", n)
    /\ inboxList' = inboxList \ {n} /\ inboxToasts' = inboxToasts \ {n}
    /\ inboxAsked' = inboxAsked \cup ({n} \cap inboxToasted)
    /\ inboxToasted' = inboxToasted \ {n}
    /\ UNCHANGED <<inboxState, inboxLoaded, inboxFetch, inboxStale>>

\* ack; opening acknowledges too.  The list loses the delivery at once, a running fetch
\* goes on.  toastedRef is left alone: it does not hold a delivery that was put off.
InboxAck(n) ==
    /\ InboxClick(n) /\ InboxSend("ack", n)
    /\ inboxList' = inboxList \ {n} /\ inboxToasts' = inboxToasts \ {n}
    /\ inboxAsked' = inboxAsked \cup ({n} \cap inboxToasted)
    /\ UNCHANGED <<inboxState, inboxLoaded, inboxFetch, inboxStale, inboxToasted>>

\* snoozeDelivery also forgets that the delivery was raised, so it can be again.
InboxSnooze(n) ==
    /\ n \in inboxToasts \cup inboxList
    /\ InboxSend("snooze", n)
    /\ inboxList' = inboxList \ {n} /\ inboxToasts' = inboxToasts \ {n}
    /\ inboxToasted' = inboxToasted \ {n} /\ inboxAsked' = inboxAsked \ {n}
    /\ UNCHANGED <<inboxState, inboxLoaded, inboxFetch, inboxStale, inboxNotes>>

\* completeDelivery: acknowledge, and patch the item of the delivery to done.
InboxComplete(n) ==
    /\ n \in inboxToasts
    /\ inboxSent + 2 <= InboxWrites
    /\ inboxSent' = inboxSent + 2
    /\ inboxCalls' = inboxCalls \cup [op : {"ack", "complete"}, id : {n}]
    /\ inboxList' = inboxList \ {n} /\ inboxToasts' = inboxToasts \ {n}
    /\ inboxAsked' = inboxAsked \cup {n}
    /\ UNCHANGED <<inboxState, inboxLoaded, inboxFetch, inboxStale, inboxToasted, inboxNotes>>

\* Mark all as read: one acknowledgement each.
InboxAckAll ==
    /\ inboxList # {}
    /\ inboxSent + Cardinality(inboxList) <= InboxWrites
    /\ inboxSent' = inboxSent + Cardinality(inboxList)
    /\ inboxCalls' = inboxCalls \cup [op : {"ack"}, id : inboxList]
    /\ inboxToasts' = inboxToasts \ inboxList /\ inboxList' = {}
    /\ inboxAsked' = inboxAsked \cup inboxList
    /\ UNCHANGED <<inboxState, inboxLoaded, inboxFetch, inboxStale, inboxToasted, inboxNotes>>

\* The dialog of dead deliveries; one retry at a time.
InboxRetry(n) ==
    /\ inboxState[n] = "dead" /\ ~\E c \in inboxCalls : c.op = "retry"
    /\ InboxSend("retry", n)
    /\ UNCHANGED <<inboxState, inboxLoaded, inboxList, inboxFetch, inboxStale, inboxBell>>

InboxInit ==
    /\ inboxState \in [Notices -> {"waiting", "unseen", "snoozed"}]
    /\ inboxCalls = {} /\ inboxSent = 0
    /\ inboxLoaded = FALSE /\ inboxList = {}
    /\ inboxFetch = [at |-> "asked", ids |-> {}] /\ inboxStale = FALSE
    /\ inboxToasted = {} /\ inboxToasts = {} /\ inboxNotes = {} /\ inboxAsked = {}

InboxNext ==
    \/ InboxServerSteps \/ InboxAckAll
    \/ InboxPoll \/ InboxAnswer \/ InboxFetchFails \/ InboxFetched
    \/ \E call \in inboxCalls : InboxServe(call)
    \/ \E n \in Notices : InboxAck(n) \/ InboxSnooze(n) \/ InboxComplete(n) \/ InboxRetry(n)

InboxSpec == InboxInit /\ [][InboxNext]_inboxVars

-----------------------------------------------------------------------------

InboxTypeOK ==
    /\ inboxState \in [Notices -> InboxStates]
    /\ inboxCalls \subseteq InboxCall /\ inboxSent \in 0..InboxWrites
    /\ inboxLoaded \in BOOLEAN /\ inboxList \subseteq Notices /\ inboxStale \in BOOLEAN
    /\ inboxFetch \in [at : {"idle", "asked", "answered"}, ids : SUBSET Notices]
    /\ inboxToasted \subseteq Notices /\ inboxToasts \subseteq inboxToasted
    /\ inboxNotes \subseteq Notices /\ inboxAsked \subseteq Notices

InboxQuiet ==
    /\ inboxFetch.at = "idle" /\ ~inboxStale
    /\ \A c \in inboxCalls : c.op \in {"complete", "retry"}

\* Once the answers are in, the bell counts what the server still has unseen: what was
\* taken out of the list too early, by a request that failed, is back.  Until the next
\* poll it may lack what the worker did since, and all when the fetch failed.
InboxSettles == InboxQuiet => inboxList = InboxUnseen

\* A delivery that was acknowledged from a toast, the panel or its notification does not
\* come back as a toast, not even when an answer that is older than the acknowledgement
\* lists it again or the request failed.  One acknowledgement is not held to this: a click
\* on the notification of a delivery that was put off since, which the tab has forgotten.
InboxAckIsFinal == inboxToasts \cap inboxAsked = {}
=============================================================================
