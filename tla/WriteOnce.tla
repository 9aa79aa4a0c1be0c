----------------------------- MODULE WriteOnce -----------------------------
(***************************************************************************)
(* What a table of the node promises when nobody looks at how it is        *)
(* filled: a slot is written once, with a permitted value; from time to    *)
(* time the table is made durable; a crash goes back to the durable table. *)
(***************************************************************************)
CONSTANTS
    Slot,       \* keys of the table
    Permitted,  \* Permitted[s]: the values slot s may hold
    None        \* the slot is empty

VARIABLES current, durable

Empty == [s \in Slot |-> None]

Init == current = Empty /\ durable = Empty

\* Any number of empty slots are filled by one step of the node.
Write ==
    /\ current' \in [Slot -> (UNION {Permitted[s] : s \in Slot}) \cup {None}]
    /\ \A s \in Slot :
           \/ current'[s] = current[s]
           \/ current[s] = None /\ current'[s] \in Permitted[s]
    /\ UNCHANGED durable

Persist ==
    /\ durable' = current
    /\ UNCHANGED current

Crash ==
    /\ current' = durable
    /\ UNCHANGED durable

Next == Write \/ Persist \/ Crash

Spec == Init /\ [][Next]_<<current, durable>>

=============================================================================
