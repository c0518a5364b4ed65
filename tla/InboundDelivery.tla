---------------------------- MODULE InboundDelivery ----------------------------
(***************************************************************************)
(* What polling a platform for inbound messages promises: messages are     *)
(* processed in the order they were posted, and the platform is never told *)
(* to forget one that has not been processed.  Processing a message again  *)
(* is a stuttering step here: delivery is at least once.                   *)
(***************************************************************************)
EXTENDS Naturals

CONSTANT MaxUpdates    \* how many messages users post (a bound)

VARIABLES
  posted,      \* messages 1..posted have been sent by users
  processed,   \* messages 1..processed have reached the message handler
  forgotten    \* the platform has dropped messages 1..forgotten

vars == <<posted, processed, forgotten>>

Init == posted = 0 /\ processed = 0 /\ forgotten = 0

Post ==
  /\ posted < MaxUpdates /\ posted' = posted + 1
  /\ UNCHANGED <<processed, forgotten>>

Process ==
  /\ processed < posted /\ processed' = processed + 1
  /\ UNCHANGED <<posted, forgotten>>

Forget ==
  /\ forgotten' \in forgotten..processed
  /\ UNCHANGED <<posted, processed>>

Next == Post \/ Process \/ Forget

Spec == Init /\ [][Next]_vars
=============================================================================
