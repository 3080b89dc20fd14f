----------------------- MODULE MCSubscriptionBilling -----------------------
(***************************************************************************)
(* A small instance of SubscriptionBilling.                                 *)
(***************************************************************************)
EXTENDS SubscriptionBilling

CONSTANTS c1, c2

\* What the instance leaves out: two invocations after the first payment was booked or
\* a fault happened; an override by an administrator of a company that is disabled or
\* has met a fault.
OverlapFirst == caller[c2] = Idle \/ (purchase = 0 /\ sub = "none" /\ faults = 0)
OverrideAlone == overridden => status = "approved" /\ faults = 0
=============================================================================
