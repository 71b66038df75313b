------------------------------ MODULE Delivery ------------------------------
(***************************************************************************)
(* What the notification outbox promises: a log read by one consumer.      *)
(* Messages are posted at the end and handed out in the order they were    *)
(* posted; the consumer's position is saved now and then, and whatever was *)
(* handed out since the last save may be handed out again (at least once,  *)
(* never out of order, never skipped).                                     *)
(***************************************************************************)
EXTENDS Naturals

VARIABLES
  posted,  \* how many messages there are
  cursor,  \* how many were handed out, counting from the saved position
  saved    \* how many are settled for good

vars == <<posted, cursor, saved>>

Init == posted = 0 /\ cursor = 0 /\ saved = 0

Post == posted' > posted /\ UNCHANGED <<cursor, saved>>

Hand == cursor < posted /\ cursor' = cursor + 1 /\ UNCHANGED <<posted, saved>>

Save == saved < cursor /\ saved' = cursor /\ UNCHANGED <<posted, cursor>>

Lose == saved < cursor /\ cursor' = saved /\ UNCHANGED <<posted, saved>>

Next == Post \/ Hand \/ Save \/ Lose

Spec == Init /\ [][Next]_vars

=============================================================================
