--------------------------- MODULE BoundedBuffer ---------------------------
(***************************************************************************)
(* What the mailbox and the I/O queues of the kernel promise: a buffer of   *)
(* at most Capacity items, read from its front, written at its end or, as   *)
(* urgent, at its front, and emptied by a reset.                            *)
(***************************************************************************)
EXTENDS Integers, Sequences

CONSTANTS Capacity, Items, Urgent   \* Urgent: whether items may be put in front

CONSTANT NoItem

VARIABLES items, out   \* out: the item fetched last

Init == items = <<>> /\ out = NoItem

Post(m) == Len(items) < Capacity /\ items' = Append(items, m) /\ UNCHANGED out

PostAhead(m) == Urgent /\ Len(items) < Capacity /\ items' = <<m>> \o items
                /\ UNCHANGED out

Fetch == items # <<>> /\ items' = Tail(items) /\ out' = Head(items)

Reset == items' = <<>> /\ UNCHANGED out

Next == (\E m \in Items : Post(m) \/ PostAhead(m)) \/ Fetch \/ Reset

Spec == Init /\ [][Next]_<<items, out>>
============================================================================
