--------------------------- MODULE PickDelivery ---------------------------
(***************************************************************************)
(* What the publisher promises the picker and the broker: picks are handed *)
(* over one by one, and each is delivered at most once, in that order.     *)
(* Any pick may be left out: the export queue purges the oldest ones, and  *)
(* a broken stream loses the one being written.                            *)
(***************************************************************************)
EXTENDS Integers, Sequences

CONSTANT MaxPicks   \* bound: picks that are offered

VARIABLES
    offered,    \* picks 1 .. offered were handed over
    delivered   \* the picks that reached the broker

\* The last pick delivered, 0 before the first.
Newest == IF delivered = <<>> THEN 0 ELSE delivered[Len(delivered)]

Init == offered = 0 /\ delivered = <<>>

Offer ==
    /\ offered < MaxPicks
    /\ offered' = offered + 1
    /\ UNCHANGED delivered

Deliver ==
    /\ \E pick \in Newest + 1 .. offered : delivered' = Append(delivered, pick)
    /\ UNCHANGED offered

Next == Offer \/ Deliver
Spec == Init /\ [][Next]_<<offered, delivered>>
===========================================================================
