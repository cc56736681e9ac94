------------------------------ MODULE Delivery ------------------------------
(***************************************************************************)
(* Delivery: what buffers and queues promise.  An item that was taken over *)
(* waits until it was delivered at least once or is given up; an item that *)
(* is given up does not wait any more; nothing is delivered that was not   *)
(* taken over.  The logging service and the path of a message through SQS  *)
(* are shown to implement it.                                              *)
(***************************************************************************)
CONSTANT Items
VARIABLES
    waiting,    \* items taken over and not yet done with
    delivered,  \* items delivered at least once
    givenUp     \* items done with that nobody may expect to be delivered

vars == <<waiting, delivered, givenUp>>

Init == waiting = {} /\ delivered = {} /\ givenUp = {}

TakeOver(i) ==
    /\ i \notin waiting \cup delivered \cup givenUp
    /\ waiting' = waiting \cup {i}
    /\ UNCHANGED <<delivered, givenUp>>

\* Some waiting items are delivered, others given up; items that are either may stop waiting.
Deliver ==
    /\ waiting' \subseteq waiting
    /\ delivered \subseteq delivered' /\ delivered' \ delivered \subseteq waiting
    /\ givenUp \subseteq givenUp' /\ givenUp' \ givenUp \subseteq waiting \ waiting'
    /\ waiting \ waiting' \subseteq delivered' \cup givenUp'

Next == (\E i \in Items : TakeOver(i)) \/ Deliver

Spec == Init /\ [][Next]_vars
=============================================================================
