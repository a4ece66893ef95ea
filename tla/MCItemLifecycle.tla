--------------------------- MODULE MCItemLifecycle ---------------------------
(***************************************************************************)
(* Small instances of ItemLifecycle: item ids and sessions are               *)
(* interchangeable in the safety run.  A behaviour is about every request    *)
(* on one item that does not recur, or about one series: its rules and its   *)
(* completions.  Every step is one of Next with the requests of its scenario. *)
(***************************************************************************)
EXTENDS ItemLifecycle, TLC

Interchangeable ==
    {items @@ sessions : items \in Permutations(Item), sessions \in Permutations(Session)}

VARIABLE scenario

\* Any item would do.
FirstItem == CHOOSE i \in Item : TRUE

Unsaid == [freq |-> "keep", count |-> Keep]

\* A request that was begun is finished or dropped.
Continue(s) ==
    \/ \E i \in Item : FinishCreate(s, i)
    \/ DropCreate(s)
    \/ FinishPatch(s)
    \/ \E j \in Item : FinishRecurring(s, j)
    \/ DropPatch(s)

ItemStep ==
    /\ scenario = "item"
    /\ \/ \E s \in Session, asked \in Asked, people \in Named :
              Unused = Item /\ BeginCreate(s, NoKey, asked, people, Unsaid)
       \/ \E s \in Session, expected \in 1 .. MaxVersion,
             asked \in Asked \cup {"keep"}, people \in Named :
              BeginPatch(s, FirstItem, expected, asked, people, Unsaid)
       \/ \E s \in Session : Continue(s)
       \/ ItemRequest(FirstItem)
    /\ \A i \in Item : version'[i] > 0 => i = FirstItem

\* A series begins with any of three rules; each of its items may be given
\* another one while it is at its first version, also by the request that
\* completes it, and be completed at its first and second.
SeriesStep ==
    /\ scenario = "series"
    /\ \/ \E s \in Session, n \in Counts :
              /\ Unused = Item
              /\ BeginCreate(s, NoKey, "done", "keep", [freq |-> "some", count |-> n])
       \/ \E s \in Session, i \in Item, expected \in 1 .. 2, asked \in {"keep", "done"},
             rule \in {Unsaid, [freq |-> "none", count |-> Keep]}
                        \cup [freq : {"keep"}, count : Counts] :
              /\ version[i] <= 2 /\ (asked = "keep" => rule # Unsaid)
              /\ rule # Unsaid => version[i] = 1
              /\ BeginPatch(s, i, expected, asked, "keep", rule)
       \/ \E s \in Session : Continue(s)

MergedInit == Init /\ scenario \in {"item", "series"}

MergedSpec ==
    MergedInit /\ [][(ItemStep \/ SeriesStep) /\ UNCHANGED scenario]_<<vars, scenario>>
=============================================================================
