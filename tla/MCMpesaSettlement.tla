------------------------- MODULE MCMpesaSettlement -------------------------
(***************************************************************************)
(* Small instances of MpesaSettlement: two orders and two customer receipts *)
(* at most, two intents, two provider receipts.  Amounts are in tens of     *)
(* shillings; 3 is the price of every order.                                *)
(***************************************************************************)
EXTENDS MpesaSettlement, TLC

CONSTANTS o1, o2, k1, k2, i1, i2, r1, r2

\* Two checkouts of one order, one STK attempt each; the first may leave a third of
\* the order to be paid in cash.
CheckoutSubject == [i \in {i1, i2} |-> o1]
MixPrice        == (i1 :> 2) @@ (i2 :> 3)
CheckoutPrice   == [i \in {i1, i2} |-> 3]
CheckoutOrigin  == (r1 :> <<i1, 1>>) @@ (r2 :> <<i2, 1>>)

\* One checkout retried once, so that the first attempt can be paid late.
RetrySubject == [i \in {i1} |-> o1]
RetryPrice   == [i \in {i1} |-> 3]
RetryOrigin  == (r1 :> <<i1, 1>>) @@ (r2 :> <<i1, 2>>)

\* One checkout, one receipt.
SingleSubject == [i \in {i1} |-> o1]
SinglePrice   == [i \in {i1} |-> 3]
SingleOrigin  == [r \in {r1} |-> <<i1, 1>>]
SinglePaid    == [r \in {r1} |-> 3]

\* A customer pays their account; a second receipt arrives by itself.
AccountSubject == [i \in {i1} |-> k1]
AccountPrice   == [i \in {i1} |-> 3]
AccountOrigin  == (r1 :> <<i1, 1>>) @@ (r2 :> None)

OrderTotal == [s \in Subjects |-> 3]
FullPaid   == [r \in {r1, r2} |-> 3]
PartPaid   == (r1 :> 2) @@ (r2 :> 3)

\* State constraints: what an instance leaves out to stay small.
NoReversals == \A r \in Receipts : reversal[r] = "none"
OneFlag     == Cardinality(flagged) <= 1
\* No period is locked once the last cashier session has begun.
OneClosure  == till.n < MaxTill \/ lockEnd = 0
NoFlags     == flagged = {}
OneOutcome  == \A i \in Intents : /\ intent[i].status \notin {"cancelled", "failed"}
                                  /\ \A n \in AttemptNumbers :
                                       attempt[i][n] \notin {"cancelled", "failed"}
Answered    == \A i \in Intents, n \in AttemptNumbers :
                 attempt[i][n] \notin {"request_unknown", "query_pending"}

-----------------------------------------------------------------------------
(* What the repository says of this code, for the runs that expect a        *)
(* violation.                                                               *)

\* Staff press "Retry accounting post" until it succeeds, whenever it can.
RetrySpec ==
  Spec /\ \A i \in Intents, r \in Receipts :
            SF_vars(RetryPosting(i, r) /\ intent'[i].status = "completed")

FailedButPostable(i) ==
  LET r == intent[i].fulfilled IN
  /\ intent[i].postFailed /\ r # None
  /\ Postable(coll[r], SubjectOf[i]) /\ PostingDayOpen(coll[r].day)

\* "Retry accounting post" repairs a failed posting: once the reason is gone, the
\* order still unpaid and the money undisputed, retrying ends the failure.
RetryRepairsPosting ==
  \A i \in Intents : FailedButPostable(i) ~> ~FailedButPostable(i)

\* "Paid-but-unposted work ... cannot be charged again": no prompt is sent for a
\* subject while provider money for it has arrived and is not posted.
PaidIsNotChargedAgain ==
  [][\A i \in Intents : intent'[i].cur > intent[i].cur =>
       \A r \in Receipts : ~ /\ coll[r].provider = "received" /\ coll[r].class # "closed"
                             /\ coll[r].allocation # "allocated"
                             /\ coll[r].intent # None
                             /\ SubjectOf[coll[r].intent] = SubjectOf[i]]_vars
=============================================================================
