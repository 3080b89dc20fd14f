------------------------ MODULE SubscriptionBilling ------------------------
(***************************************************************************)
(* How a company pays for DukaRun: functions/paystack-charge asks Paystack  *)
(* for a charge, functions/paystack-webhook credits it, the daily scan ends *)
(* paid time, and platform administrators intervene.                        *)
(*                                                                          *)
(* One company.  Its first payment is reserved before Paystack is asked;    *)
(* later ones are not.  Prices, tiers, the length of paid time, exemptions  *)
(* and sales commissions are left out.                                      *)
(***************************************************************************)
EXTENDS Naturals

CONSTANTS
  Caller,     \* invocations of paystack-charge that may overlap
  MaxRef,     \* bound on payments
  MaxCredits, \* bound on how often a payment is credited
  MaxFaults   \* bound on crashes, lost answers and failed database calls

ASSUME BillingAssumption == MaxRef \in Nat /\ MaxCredits \in Nat \ {0} /\ MaxFaults \in Nat

Ref == 1..MaxRef   \* payment references in the order they are made; 0 is null

VARIABLES
  status,     \* companies.status
  sub,        \* companies.subscription_status, "none" for null
  term,       \* where subscription_expires_at lies
  grace,      \* subscription_grace_period_end is set
  lastRef,    \* companies.last_payment_reference
  purchase,   \* the reference in initial_subscription_purchases, or 0
  kind,       \* metadata.type of the charge
  attempt,    \* initial_subscription_payment_attempts.status
  old,        \* attempts made ten seconds ago or more
  charge,     \* what Paystack knows of a reference; "late" is paid after it had ended
  verified,   \* webhooks between the verification and the database
  caller,     \* where an invocation of paystack-charge stands
  credited,   \* how often a reference extended the paid time
  overridden, \* an administrator set the subscription and nobody has paid since
  faults

company  == <<status, sub, term, grace, lastRef, overridden>>
payments == <<purchase, kind, attempt, old, credited>>
paystack == <<charge, verified>>
vars     == <<company, payments, paystack, caller, faults>>

CallerAt == {"idle", "attempt", "verify", "close", "reserve", "charge", "fail", "renew"}
Idle == [at |-> "idle", n |-> 0]

TypeOK ==
  /\ status \in {"unapproved", "approved", "disabled"}
  /\ sub \in {"none", "active", "expired", "cancelled"}
  /\ term \in {"none", "running", "over"} /\ grace \in BOOLEAN
  /\ lastRef \in 0..MaxRef /\ purchase \in 0..MaxRef
  /\ kind \in [Ref -> {"none", "initial", "renewal"}]
  /\ attempt \in [Ref -> {"none", "pending", "failed", "succeeded"}]
  /\ old \subseteq Ref
  /\ charge \in [Ref -> {"none", "pending", "success", "ended", "late", "reversed"}]
  /\ verified \subseteq Ref
  /\ overridden \in BOOLEAN
  /\ caller \in [Caller -> [at : CallerAt, n : 0..MaxRef]]
  /\ credited \in [Ref -> 0..MaxCredits]
  /\ faults \in 0..MaxFaults

Init ==
  /\ status = "unapproved" /\ sub = "none" /\ term = "none" /\ grace = FALSE
  /\ lastRef = 0 /\ purchase = 0
  /\ kind = [n \in Ref |-> "none"] /\ attempt = [n \in Ref |-> "none"]
  /\ old = {} /\ charge = [n \in Ref |-> "none"] /\ verified = {}
  /\ overridden = FALSE
  /\ caller = [c \in Caller |-> Idle]
  /\ credited = [n \in Ref |-> 0]
  /\ faults = 0

(***************************************************************************)
(* paystack-charge.                                                         *)
(***************************************************************************)
Fault == faults < MaxFaults /\ faults' = faults + 1
Goes(c, at, n) == caller' = [caller EXCEPT ![c] = [at |-> at, n |-> n]]
Stops(c) == caller' = [caller EXCEPT ![c] = Idle]
Fresh(n) == kind[n] = "none" /\ \A m \in Ref : m < n => kind[m] # "none"
Pending(n) == attempt[n] = "pending"

\* The company may buy for the first time; what the invocation has read of it may
\* be outdated when it gets to the database again.
FirstTime == status = "approved" /\ sub = "none" /\ lastRef = 0

Read(c) ==
  /\ caller[c].at = "idle"
  /\ \/ FirstTime /\ Goes(c, "attempt", 0)
     \/ sub # "none" /\ Goes(c, "renew", 0)
  /\ UNCHANGED <<company, payments, paystack, faults>>

\* An attempt younger than ten seconds is left alone.
ReadAttempt(c) ==
  /\ caller[c].at = "attempt"
  /\ \/ (\A n \in Ref : ~Pending(n)) /\ Goes(c, "reserve", 0)
     \/ \E n \in Ref : Pending(n) /\ n \in old /\ Goes(c, "verify", n)
     \/ \E n \in Ref : Pending(n) /\ n \notin old /\ Stops(c)
  /\ UNCHANGED <<company, payments, paystack, faults>>

\* fault: a reference that Paystack does not know counts as ended
EndedOrUnknown(n) == charge[n] \in {"none", "ended", "reversed"}
\* fault: "reversed" is missing in the list
EndedUnpaid(n) == charge[n] = "ended"
\* "failed", "timeout", "abandoned" or "reversed"; anything else is inconclusive
HasEnded(n) == charge[n] \in {"ended", "reversed"}

VerifyAttempt(c) ==
  /\ caller[c].at = "verify"
  /\ \/ HasEnded(caller[c].n) /\ Goes(c, "close", caller[c].n)
     \/ ~HasEnded(caller[c].n) /\ Stops(c)
  /\ UNCHANGED <<company, payments, paystack, faults>>

Close(n) == attempt' = IF Pending(n) THEN [attempt EXCEPT ![n] = "failed"] ELSE attempt

CloseAttempt(c) ==
  /\ caller[c].at = "close" /\ Close(caller[c].n) /\ Goes(c, "reserve", 0)
  /\ UNCHANGED <<company, purchase, kind, old, credited, paystack, faults>>

\* reserve_initial_subscription_payment, under the lock of the company's row
Reservable == FirstTime /\ purchase = 0 /\ \A n \in Ref : ~Pending(n)

Reserve(c) ==
  /\ caller[c].at = "reserve" /\ Reservable
  /\ \E n \in Ref :
       /\ Fresh(n) /\ kind' = [kind EXCEPT ![n] = "initial"]
       /\ attempt' = [attempt EXCEPT ![n] = "pending"]
       /\ Goes(c, "charge", n)
  /\ UNCHANGED <<company, purchase, old, credited, paystack, faults>>

RefuseReservation(c) ==
  /\ caller[c].at = "reserve" /\ ~Reservable /\ Stops(c)
  /\ UNCHANGED <<company, payments, paystack, faults>>

\* The answer of Paystack: a prompt was sent, or the charge was refused or ended at
\* once, or the answer is lost or an error of its own, which says nothing.
AskPaystack(c) ==
  /\ caller[c].at = "charge"
  /\ LET n == caller[c].n
         Becomes(s) == charge' = [charge EXCEPT ![n] = s] IN
     \/ Becomes("pending") /\ Stops(c) /\ UNCHANGED faults
     \/ Becomes("ended") /\ Goes(c, "fail", n) /\ UNCHANGED faults
     \/ Becomes("none") /\ Goes(c, "fail", n) /\ UNCHANGED faults
     \/ (Becomes("none") \/ Becomes("pending")) /\ Stops(c) /\ Fault
  /\ UNCHANGED <<company, payments, verified>>

RecordFailure(c) ==
  /\ caller[c].at = "fail" /\ Close(caller[c].n) /\ Stops(c)
  /\ UNCHANGED <<company, purchase, kind, old, credited, paystack, faults>>

\* A renewal reserves nothing; Paystack makes its reference.
Renew(c) ==
  /\ caller[c].at = "renew" /\ Stops(c)
  /\ \/ UNCHANGED <<kind, charge>>
     \/ \E n \in Ref : /\ Fresh(n) /\ kind' = [kind EXCEPT ![n] = "renewal"]
                       /\ charge' = [charge EXCEPT ![n] = "pending"]
  /\ UNCHANGED <<company, purchase, attempt, old, credited, verified, faults>>

\* A call fails or the invocation dies; the customer may press again.
Crash(c) ==
  /\ caller[c].at # "idle" /\ Stops(c) /\ Fault
  /\ UNCHANGED <<company, payments, paystack>>

Charging(c) ==
  \/ ReadAttempt(c) \/ VerifyAttempt(c) \/ CloseAttempt(c)
  \/ Reserve(c) \/ RefuseReservation(c) \/ AskPaystack(c) \/ RecordFailure(c) \/ Renew(c)

(***************************************************************************)
(* Paystack.  A charge that was abandoned may still be paid.  How a renewal *)
(* ends without payment is left out.                                        *)
(***************************************************************************)
Provider(n) ==
  /\ \E s \in {<<"pending", "success">>, <<"pending", "ended">>, <<"ended", "late">>,
               <<"success", "reversed">>, <<"late", "reversed">>} :
       charge[n] = s[1] /\ charge' = [charge EXCEPT ![n] = s[2]]
  /\ kind[n] = "renewal" => charge'[n] = "success"
  /\ UNCHANGED <<company, payments, verified, caller, faults>>

(***************************************************************************)
(* paystack-webhook.  Paystack repeats a webhook until it is answered with  *)
(* success, and may repeat it after that.                                   *)
(***************************************************************************)
\* fault: a payment of an older attempt is not believed
VerifyYoung(n) ==
  /\ charge[n] \in {"success", "late"} /\ n \notin verified \union old
  /\ verified' = verified \union {n}
  /\ UNCHANGED <<company, payments, charge, caller, faults>>

VerifyPayment(n) ==
  /\ charge[n] \in {"success", "late"} /\ n \notin verified
  /\ verified' = verified \union {n}
  /\ UNCHANGED <<company, payments, charge, caller, faults>>

\* fault: the end of the last grace period is kept
CreditInGrace(n) ==
  /\ sub' = "active" /\ term' = "running" /\ grace' = grace /\ lastRef' = n
  /\ overridden' = FALSE
  /\ credited' = [credited EXCEPT ![n] = @ + 1]
  /\ UNCHANGED status

\* What both functions write to the company's row.
Credit(n) ==
  /\ sub' = "active" /\ term' = "running" /\ grace' = FALSE /\ lastRef' = n
  /\ overridden' = FALSE
  /\ credited' = [credited EXCEPT ![n] = @ + 1]
  /\ UNCHANGED status

\* fault: another attempt that still waits is left as it is
Succeed(n) == attempt' = [attempt EXCEPT ![n] = "succeeded"]
\* The attempt has succeeded, and one that still waits is superseded.
Supersede(n) ==
  attempt' = [m \in Ref |-> IF m = n THEN "succeeded"
                            ELSE IF Pending(m) THEN "failed" ELSE attempt[m]]

\* activate_initial_subscription_purchase
Buys(n) == kind[n] = "initial" /\ purchase = 0 /\ FirstTime
\* fault: a repeated webhook is not recognised
RenewsAgain(n) == kind[n] = "renewal"
\* activate_subscription
Renews(n) == kind[n] = "renewal" /\ lastRef # n

BookPurchase(n) ==
  /\ n \in verified /\ Buys(n) /\ credited[n] < MaxCredits
  /\ purchase' = n /\ Credit(n) /\ Supersede(n)
  /\ verified' = verified \ {n}
  /\ UNCHANGED <<kind, old, charge, caller, faults>>

BookRenewal(n) ==
  /\ n \in verified /\ Renews(n) /\ credited[n] < MaxCredits
  /\ Credit(n) /\ verified' = verified \ {n}
  /\ UNCHANGED <<purchase, kind, attempt, old, charge, caller, faults>>

\* The payment was booked before, or the function raises: activate_subscription also
\* does when the tier has been withdrawn since.
BookNothing(n) ==
  /\ n \in verified /\ ~Buys(n) /\ verified' = verified \ {n}
  /\ UNCHANGED <<company, payments, charge, caller, faults>>

LoseWebhook(n) ==
  /\ n \in verified /\ verified' = verified \ {n} /\ Fault
  /\ UNCHANGED <<company, payments, charge, caller>>

Crediting(n) == VerifyPayment(n) \/ BookPurchase(n) \/ BookRenewal(n) \/ BookNothing(n)

(***************************************************************************)
(* Administrators and time.                                                 *)
(***************************************************************************)
\* approve_company_transition starts the company anew, except for what it has paid.
Approve ==
  /\ status # "approved" /\ status' = "approved"
  /\ sub' = "none" /\ term' = "none" /\ grace' = FALSE /\ overridden' = FALSE
  /\ UNCHANGED <<lastRef, payments, paystack, caller, faults>>

\* platform_set_company_status, for every status but approved
Disable ==
  /\ status = "approved" /\ status' = "disabled"
  /\ UNCHANGED <<sub, term, grace, lastRef, overridden, payments, paystack, caller, faults>>

\* fault: the status goes to the wrong column
OverrideTerm(s) ==
  /\ overridden' = TRUE /\ term' = s
  /\ UNCHANGED <<status, sub, grace, lastRef, payments, paystack, caller, faults>>

\* platform_update_subscription: the status, with a new end or without
Override(s) ==
  /\ overridden' = TRUE
  /\ sub' = s /\ term' \in {term, "running", "over"}
  /\ UNCHANGED <<status, grace, lastRef, payments, paystack, caller, faults>>

\* subscription_expiry_scan
Scan ==
  /\ sub = "active" /\ term = "over" /\ ~grace
  /\ sub' = "expired" /\ grace' = TRUE
  /\ UNCHANGED <<status, term, lastRef, overridden, payments, paystack, caller, faults>>

EndTerm ==
  /\ term = "running" /\ term' = "over"
  /\ UNCHANGED <<status, sub, grace, lastRef, overridden, payments, paystack, caller, faults>>

Age(n) ==
  /\ Pending(n) /\ n \notin old /\ old' = old \union {n}
  /\ UNCHANGED <<company, purchase, kind, attempt, credited, paystack, caller, faults>>

Administering ==
  \/ Approve \/ Disable
  \/ \E s \in {sub, "active", "expired", "cancelled"} : Override(s)

Next ==
  \/ \E c \in Caller : Read(c) \/ Charging(c) \/ Crash(c)
  \/ \E n \in Ref : Provider(n) \/ Crediting(n) \/ LoseWebhook(n) \/ Age(n)
  \/ Administering \/ Scan \/ EndTerm

Spec == Init /\ [][Next]_vars

\* Invocations that live go on, Paystack delivers what was paid, the scan runs daily.
\* Customers and administrators need not do anything.
FairSpec ==
  /\ Spec /\ WF_vars(Scan)
  /\ \A c \in Caller : WF_vars(Charging(c))
  /\ \A n \in Ref : WF_vars(Age(n)) /\ WF_vars(Crediting(n))

(***************************************************************************)
(* Properties.                                                              *)
(***************************************************************************)
Live(n) == kind[n] = "initial" /\ charge[n] \in {"pending", "success"}

\* "An inconclusive provider check must not permit a competing charge"
\* (paystack-charge/index.ts:125): two first payments are never under way or paid
\* together, unless Paystack had declared one of them ended.
InitialChargedOnce == \A n, m \in Ref : Live(n) /\ Live(m) => n = m

\* One attempt succeeds, the one that was bought with, and none waits after it.
PurchaseClosesAttempts ==
  \A n \in Ref : /\ attempt[n] = "succeeded" <=> (purchase = n)
                 /\ Pending(n) => purchase = 0

\* A first payment is credited once, whatever is repeated and re-approved; a renewal
\* is credited again only after another payment (0006:719 knows the last one only).
CreditedOnce ==
  \A n \in Ref : credited[n] > 1 =>
    kind[n] = "renewal" /\ \E m \in Ref \ {n} : credited[m] > 0

\* A first payment that was made is credited, although webhooks are lost, as long as
\* it is not reversed and the company may still buy.
PaidIsHonoured ==
  \A n \in Ref :
    kind[n] = "initial" /\ charge[n] = "success"
      ~> purchase # 0 \/ charge[n] # "success" \/ ~FirstTime

\* An attempt that Paystack has ended makes way for a customer who keeps trying.
EndedAttemptMakesWay ==
  []<><<\E c \in Caller : Read(c)>>_vars =>
    \A n \in Ref : Pending(n) /\ charge[n] \in {"ended", "reversed"}
      ~> ~Pending(n) \/ charge[n] = "late" \/ ~FirstTime

\* Paid time that is over is marked as expired, also after it was renewed, unless an
\* administrator has set it: platform_update_subscription keeps the old grace period.
ExpiryIsMarked ==
  sub = "active" /\ term = "over" /\ ~overridden
    ~> sub # "active" \/ term # "over" \/ overridden
=============================================================================
