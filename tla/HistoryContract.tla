--------------------------- MODULE HistoryContract --------------------------
(***************************************************************************)
(* What the history promises (SPECIFICATION.md FR-05, FR-06): the most     *)
(* recent Depth records, oldest first, and every event reported between    *)
(* two records in exactly the later of the two.                            *)
(***************************************************************************)
EXTENDS Naturals, Sequences

CONSTANTS
    Depth,      \* records kept
    Averages,   \* what a record may say of a temperature
    Alarms,     \* flags that describe the state at the time of the record
    Events      \* flags that report something which happened since the last

VARIABLES
    items,  \* the records, oldest first
    events  \* events since the last record

HistoryRecord == [inner : Averages, outer : Averages,
                  flags : SUBSET (Alarms \cup Events)]

LastItems(s) == IF Len(s) > Depth THEN Tail(s) ELSE s

Init == items = <<>> /\ events \in SUBSET Events

Report(e) == events' = events \cup {e} /\ UNCHANGED items

Record(inner, outer, alarms) ==
    /\ items' = LastItems(Append(items, [inner |-> inner, outer |-> outer,
                                         flags |-> alarms \cup events]))
    /\ events' = {}

Next ==
    \/ \E e \in Events : Report(e)
    \/ \E inner, outer \in Averages, alarms \in SUBSET Alarms :
           Record(inner, outer, alarms)

Spec == Init /\ [][Next]_<<items, events>>
=============================================================================
