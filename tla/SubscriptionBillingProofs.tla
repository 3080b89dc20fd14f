---------------------- MODULE SubscriptionBillingProofs ----------------------
(***************************************************************************)
(* Theorems about SubscriptionBilling, for any number of invocations that   *)
(* overlap, payments, faults, repeated webhooks and interventions.          *)
(***************************************************************************)
EXTENDS SubscriptionBilling, TLAPS

(***************************************************************************)
(* Types.                                                                   *)
(***************************************************************************)
LEMMA TypeInit == Init => TypeOK
<1>1. 0 \in 0..MaxRef /\ 0 \in 0..MaxCredits /\ 0 \in 0..MaxFaults
  BY BillingAssumption DEF BillingAssumption
<1>2. Idle \in [at : CallerAt, n : 0..MaxRef]
  BY <1>1 DEF Idle, CallerAt
<1> SUFFICES ASSUME Init PROVE TypeOK
  OBVIOUS
<1>3. /\ kind \in [Ref -> {"none", "initial", "renewal"}]
      /\ attempt \in [Ref -> {"none", "pending", "failed", "succeeded"}]
      /\ charge \in [Ref -> {"none", "pending", "success", "ended", "late", "reversed"}]
  BY DEF Init
<1>4. caller \in [Caller -> [at : CallerAt, n : 0..MaxRef]]
  BY <1>2 DEF Init
<1>5. credited \in [Ref -> 0..MaxCredits] /\ old \subseteq Ref /\ verified \subseteq Ref
  BY <1>1 DEF Init
<1>6. /\ status \in {"unapproved", "approved", "disabled"}
      /\ sub \in {"none", "active", "expired", "cancelled"}
      /\ term \in {"none", "running", "over"} /\ grace \in BOOLEAN /\ overridden \in BOOLEAN
      /\ lastRef \in 0..MaxRef /\ purchase \in 0..MaxRef /\ faults \in 0..MaxFaults
  BY <1>1 DEF Init
<1> QED
  BY <1>3, <1>4, <1>5, <1>6 DEF TypeOK

\* Stops, Goes and Fault write values of their types.
LEMMA HelperTypes ==
  ASSUME TypeOK, NEW c \in Caller
  PROVE  /\ Stops(c) => caller' \in [Caller -> [at : CallerAt, n : 0..MaxRef]]
         /\ \A at \in CallerAt, n \in 0..MaxRef :
              Goes(c, at, n) => caller' \in [Caller -> [at : CallerAt, n : 0..MaxRef]]
         /\ Fault => faults' \in 0..MaxFaults
BY BillingAssumption DEF TypeOK, Stops, Goes, Fault, Idle, CallerAt, BillingAssumption

LEMMA ChargingTypes ==
  ASSUME TypeOK, NEW c \in Caller, Read(c) \/ Charging(c) \/ Crash(c)
  PROVE  TypeOK'
<1> USE HelperTypes DEF company, payments, paystack
<1>r. 0 \in 0..MaxRef /\ Ref \subseteq 0..MaxRef
  BY BillingAssumption DEF BillingAssumption, Ref
<1>1. CASE Read(c)
  BY <1>1, <1>r DEF Read, TypeOK, CallerAt
<1>2. CASE ReadAttempt(c)
  BY <1>2, <1>r DEF ReadAttempt, TypeOK, CallerAt
<1>3. CASE VerifyAttempt(c)
  BY <1>3, <1>r DEF VerifyAttempt, TypeOK, CallerAt
<1>4. CASE CloseAttempt(c)
  BY <1>4, <1>r DEF CloseAttempt, Close, TypeOK, CallerAt
<1>5. CASE Reserve(c)
  BY <1>5, <1>r DEF Reserve, TypeOK, CallerAt
<1>6. CASE RefuseReservation(c)
  BY <1>6, <1>r DEF RefuseReservation, TypeOK, CallerAt
<1>7. CASE AskPaystack(c)
  BY <1>7, <1>r DEF AskPaystack, TypeOK, CallerAt
<1>8. CASE RecordFailure(c)
  BY <1>8, <1>r DEF RecordFailure, Close, TypeOK, CallerAt
<1>9. CASE Renew(c)
  BY <1>9, <1>r DEF Renew, TypeOK, CallerAt
<1>10. CASE Crash(c)
  BY <1>10, <1>r DEF Crash, TypeOK, CallerAt
<1> QED
  BY <1>1, <1>2, <1>3, <1>4, <1>5, <1>6, <1>7, <1>8, <1>9, <1>10 DEF Charging

LEMMA PaymentTypes ==
  ASSUME TypeOK, NEW n \in Ref, Provider(n) \/ Crediting(n) \/ LoseWebhook(n) \/ Age(n)
  PROVE  TypeOK'
<1> USE DEF company, payments, paystack
<1>r. n \in 0..MaxRef
  BY BillingAssumption DEF BillingAssumption, Ref
<1>c. Credit(n) /\ credited[n] < MaxCredits
        => credited' \in [Ref -> 0..MaxCredits] /\ lastRef' \in 0..MaxRef
           /\ sub' = "active" /\ term' = "running" /\ grace' = FALSE /\ overridden' = FALSE
           /\ status' = status
  BY <1>r, BillingAssumption DEF Credit, TypeOK, BillingAssumption
<1>1. CASE Provider(n)
  BY <1>1 DEF Provider, TypeOK
<1>2. CASE VerifyPayment(n)
  BY <1>2 DEF VerifyPayment, TypeOK
<1>3. CASE BookPurchase(n)
  BY <1>3, <1>r, <1>c DEF BookPurchase, Supersede, TypeOK
<1>4. CASE BookRenewal(n)
  BY <1>4, <1>r, <1>c DEF BookRenewal, TypeOK
<1>5. CASE BookNothing(n)
  BY <1>5 DEF BookNothing, TypeOK
<1>6. CASE LoseWebhook(n)
  BY <1>6, BillingAssumption DEF LoseWebhook, Fault, TypeOK, BillingAssumption
<1>7. CASE Age(n)
  BY <1>7 DEF Age, TypeOK
<1> QED
  BY <1>1, <1>2, <1>3, <1>4, <1>5, <1>6, <1>7 DEF Crediting

LEMMA TypeStep ==
  ASSUME TypeOK, [Next]_vars
  PROVE  TypeOK'
<1> USE DEF company, payments, paystack
<1>1. CASE Approve
  BY <1>1 DEF Approve, TypeOK
<1>2. CASE Disable
  BY <1>2 DEF Disable, TypeOK
<1>3. ASSUME NEW s \in {sub, "active", "expired", "cancelled"}, Override(s)
      PROVE  TypeOK'
  BY <1>3 DEF Override, TypeOK
<1>4. CASE Scan
  BY <1>4 DEF Scan, TypeOK
<1>5. CASE EndTerm
  BY <1>5 DEF EndTerm, TypeOK
<1>6. CASE UNCHANGED vars
  BY <1>6 DEF vars, TypeOK
<1> QED
  BY <1>1, <1>2, <1>3, <1>4, <1>5, <1>6, ChargingTypes, PaymentTypes DEF Next, Administering

\* Every action writes only values that its columns admit.
THEOREM TypeCorrect == Spec => []TypeOK
BY TypeInit, TypeStep, PTL DEF Spec

(***************************************************************************)
(* Attempts and the purchase.                                               *)
(***************************************************************************)
\* Nothing is known of a reference that was not made; attempts are first payments.
FreshInv ==
  \A n \in Ref : /\ kind[n] = "none" => /\ attempt[n] = "none" /\ charge[n] = "none"
                                        /\ credited[n] = 0 /\ purchase # n
                 /\ attempt[n] # "none" => kind[n] = "initial"

OnePending == \A n, m \in Ref : Pending(n) /\ Pending(m) => n = m

AttemptInv == TypeOK /\ FreshInv /\ OnePending /\ PurchaseClosesAttempts

\* What a step can do to attempts, purchase and kinds.
Reserves(n) ==
  /\ kind[n] = "none" /\ Reservable
  /\ kind' = [kind EXCEPT ![n] = "initial"] /\ attempt' = [attempt EXCEPT ![n] = "pending"]
  /\ UNCHANGED <<purchase, charge, credited>>

Renewed(n) ==
  /\ kind[n] = "none" /\ kind' = [kind EXCEPT ![n] = "renewal"]
  /\ charge' = [charge EXCEPT ![n] = "pending"]
  /\ UNCHANGED <<attempt, purchase, credited>>

Closes(n) == Close(n) /\ UNCHANGED <<kind, purchase, charge, credited>>

Purchases(n) ==
  /\ Buys(n) /\ purchase' = n /\ Supersede(n)
  /\ credited' = [credited EXCEPT ![n] = @ + 1]
  /\ UNCHANGED <<kind, charge>>

Extends(n) ==
  /\ Renews(n) /\ credited' = [credited EXCEPT ![n] = @ + 1]
  /\ UNCHANGED <<kind, attempt, purchase, charge>>

Charges(n) ==
  /\ kind[n] # "none"
  /\ \E s \in {"none", "pending", "success", "ended", "late", "reversed"} :
       charge' = [charge EXCEPT ![n] = s]
  /\ UNCHANGED <<kind, attempt, purchase, credited>>

Nothing == UNCHANGED <<kind, attempt, purchase, charge, credited>>

LEMMA AttemptEffect ==
  ASSUME AttemptInv, NEW n \in Ref,
         Reserves(n) \/ Renewed(n) \/ Closes(n) \/ Purchases(n) \/ Extends(n) \/ Charges(n)
  PROVE  FreshInv' /\ OnePending' /\ PurchaseClosesAttempts'
<1> USE DEF AttemptInv, FreshInv, OnePending, PurchaseClosesAttempts, Pending
<1>0. 0 \notin Ref /\ attempt \in [Ref -> {"none", "pending", "failed", "succeeded"}]
      /\ kind \in [Ref -> {"none", "initial", "renewal"}]
      /\ charge \in [Ref -> {"none", "pending", "success", "ended", "late", "reversed"}]
      /\ credited \in [Ref -> 0..MaxCredits]
  BY BillingAssumption DEF TypeOK, Ref, BillingAssumption
<1>1. CASE Reserves(n)
  BY <1>0, <1>1 DEF Reserves, Reservable
<1>2. CASE Renewed(n)
  BY <1>0, <1>2 DEF Renewed
<1>3. CASE Closes(n)
  BY <1>0, <1>3 DEF Closes, Close
<1>4. CASE Purchases(n)
  BY <1>0, <1>4 DEF Purchases, Buys, Supersede
<1>5. CASE Extends(n)
  BY <1>0, <1>5 DEF Extends, Renews
<1>6. CASE Charges(n)
  BY <1>0, <1>6 DEF Charges
<1> QED
  BY <1>1, <1>2, <1>3, <1>4, <1>5, <1>6

(***************************************************************************)
(* What an invocation knows of the reference it holds.                      *)
(***************************************************************************)
Holding == {"verify", "close", "charge", "fail"}
Asking(n) == \E c \in Caller : caller[c].at = "charge" /\ caller[c].n = n
Open(n) == kind[n] = "initial" /\ (charge[n] \in {"pending", "success"} \/ Asking(n))

CallerInv ==
  \A c \in Caller :
    LET n == caller[c].n IN
    /\ caller[c].at \in Holding => n \in Ref /\ kind[n] = "initial"
    /\ caller[c].at = "charge" => charge[n] = "none"
    /\ caller[c].at = "close" => charge[n] \in {"ended", "late", "reversed"}
    /\ caller[c].at = "fail" => charge[n] \notin {"pending", "success"}

\* One invocation makes a reference, and no other asks for it or gives it up.
OneAsker ==
  \A c, d \in Caller :
    /\ caller[c].at \in {"charge", "fail"} /\ caller[d].at \in {"charge", "fail"}
    /\ caller[c].n = caller[d].n
    => c = d

\* A first payment that is open keeps its attempt waiting until the company has bought,
\* and there is one at most.
OpenWaits == \A n \in Ref : Open(n) => Pending(n) \/ purchase # 0
OneOpen == \A n, m \in Ref : Open(n) /\ Open(m) => n = m

CreditInv ==
  /\ \A n \in Ref : kind[n] = "initial" => credited[n] <= 1 /\ (credited[n] = 1 => purchase = n)
  /\ \A n \in Ref : credited[n] > 0 => lastRef \in Ref /\ credited[lastRef] > 0
  /\ CreditedOnce

IInv == AttemptInv /\ CallerInv /\ OneAsker /\ OpenWaits /\ OneOpen /\ CreditInv

LEMMA InitIInv == Init => IInv
<1> SUFFICES ASSUME Init PROVE IInv
  OBVIOUS
<1>1. TypeOK
  BY TypeInit
<1>2. \A c \in Caller : caller[c].at = "idle"
  BY DEF Init, Idle
<1>3. 0 \notin Ref
  BY BillingAssumption DEF Ref, BillingAssumption
<1>4. AttemptInv
  BY <1>1, <1>3 DEF Init, AttemptInv, FreshInv, OnePending, PurchaseClosesAttempts, Pending
<1>5. CallerInv /\ OneAsker
  BY <1>2 DEF CallerInv, OneAsker, Holding
<1>6. OpenWaits /\ OneOpen
  BY <1>2 DEF Init, OpenWaits, OneOpen, Open, Asking
<1>7. CreditInv
  BY DEF Init, CreditInv, CreditedOnce
<1> QED
  BY <1>4, <1>5, <1>6, <1>7 DEF IInv

\* Where an invocation stands after its step, for those that write nothing else.
LEMMA CallerMoves ==
  ASSUME IInv, NEW c \in Caller, NEW at \in CallerAt, NEW n \in 0..MaxRef, Goes(c, at, n),
         at \in Holding => n \in Ref /\ kind[n] = "initial",
         at # "charge", at # "fail",
         at = "close" => charge[n] \in {"ended", "late", "reversed"},
         UNCHANGED <<kind, charge>>,
         \A m \in Ref : Pending(m) /\ Open(m) => Pending(m)' \/ purchase' # 0,
         purchase # 0 => purchase' # 0
  PROVE  CallerInv' /\ OneAsker' /\ OpenWaits' /\ OneOpen'
<1>1. \A d \in Caller : caller'[d] = IF d = c THEN [at |-> at, n |-> n] ELSE caller[d]
  BY DEF IInv, AttemptInv, TypeOK, Goes
<1>2. CallerInv'
  BY <1>1 DEF IInv, CallerInv
<1>3. OneAsker'
  BY <1>1 DEF IInv, OneAsker
<1>4. \A m \in Ref : Open(m)' => Open(m)
  BY <1>1 DEF Open, Asking
<1>5. OpenWaits' /\ OneOpen'
  BY <1>4 DEF IInv, OpenWaits, OneOpen
<1> QED
  BY <1>2, <1>3, <1>5

LEMMA CreditKept ==
  ASSUME IInv, UNCHANGED <<lastRef, purchase, credited>>,
         \A n \in Ref : kind[n] # "none" => kind'[n] = kind[n]
  PROVE  CreditInv'
<1>1. \A n \in Ref : credited[n] \in Nat /\ (credited[n] > 0 => kind[n] # "none")
  BY BillingAssumption DEF IInv, AttemptInv, FreshInv, TypeOK, BillingAssumption
<1>2. \A n \in Ref : credited[n] > 0 => kind'[n] = kind[n]
  BY <1>1
<1>3. \A n \in Ref : ~(credited[n] > 0) => credited[n] = 0
  BY <1>1
<1> QED
  BY <1>1, <1>2, <1>3 DEF IInv, CreditInv, CreditedOnce

LEMMA AttemptKept ==
  ASSUME IInv, TypeOK', Nothing
  PROVE  AttemptInv'
BY DEF IInv, AttemptInv, FreshInv, OnePending, PurchaseClosesAttempts, Pending, Nothing

LEMMA Idles ==
  ASSUME NEW c \in Caller, Stops(c)
  PROVE  Goes(c, "idle", 0)
BY DEF Stops, Goes, Idle

\* Steps of an invocation that change neither kinds nor charges.
LEMMA QuietStep ==
  ASSUME IInv, TypeOK', NEW c \in Caller,
         Read(c) \/ ReadAttempt(c) \/ VerifyAttempt(c) \/ RefuseReservation(c) \/ Crash(c)
  PROVE  IInv'
<1> DEFINE h == caller[c].n
<1> USE DEF company, payments, paystack
<1>0. 0 \in 0..MaxRef /\ \A n \in Ref : n \in 0..MaxRef
  BY BillingAssumption DEF BillingAssumption, Ref
<1>1. Nothing /\ UNCHANGED lastRef
  BY DEF Read, ReadAttempt, VerifyAttempt, RefuseReservation, Crash, Nothing
<1>2. AttemptInv' /\ CreditInv'
  BY <1>1, AttemptKept, CreditKept DEF Nothing
<1>3. \/ \E at \in {"idle", "attempt", "renew", "reserve"} : Goes(c, at, 0)
      \/ \E n \in Ref : Pending(n) /\ Goes(c, "verify", n)
      \/ caller[c].at = "verify" /\ HasEnded(h) /\ Goes(c, "close", h)
  BY Idles DEF Read, ReadAttempt, VerifyAttempt, RefuseReservation, Crash
<1>4. \A m \in Ref : Pending(m) => Pending(m)'
  BY <1>1 DEF Nothing, Pending
<1>5. CallerInv' /\ OneAsker' /\ OpenWaits' /\ OneOpen'
  <2>1. CASE \E at \in {"idle", "attempt", "renew", "reserve"} : Goes(c, at, 0)
    <3> PICK at \in {"idle", "attempt", "renew", "reserve"} : Goes(c, at, 0)
      BY <2>1
    <3>1. at \in CallerAt /\ at \notin Holding /\ at \notin {"charge", "fail", "close"}
      BY DEF CallerAt, Holding
    <3> QED
      BY <3>1, <1>0, <1>1, <1>4, CallerMoves DEF Nothing
  <2>2. CASE \E n \in Ref : Pending(n) /\ Goes(c, "verify", n)
    <3> PICK n \in Ref : Pending(n) /\ Goes(c, "verify", n)
      BY <2>2
    <3>1. kind[n] = "initial" /\ "verify" \in CallerAt
      BY DEF IInv, AttemptInv, FreshInv, Pending, CallerAt
    <3> QED
      BY <3>1, <1>0, <1>1, <1>4, CallerMoves DEF Nothing
  <2>3. CASE caller[c].at = "verify" /\ HasEnded(h) /\ Goes(c, "close", h)
    <3>1. h \in Ref /\ kind[h] = "initial" /\ charge[h] \in {"ended", "late", "reversed"}
      BY <2>3 DEF IInv, CallerInv, Holding, HasEnded
    <3>2. "close" \in CallerAt
      BY DEF CallerAt
    <3> QED
      BY <2>3, <3>1, <3>2, <1>0, <1>1, <1>4, CallerMoves DEF Nothing
  <2> QED
    BY <1>3, <2>1, <2>2, <2>3
<1> QED
  BY <1>2, <1>5 DEF IInv

\* An attempt is given up only when its payment is not open.
LEMMA CloseStep ==
  ASSUME IInv, TypeOK', NEW c \in Caller, CloseAttempt(c) \/ RecordFailure(c)
  PROVE  IInv'
<1> DEFINE h == caller[c].n
<1> USE DEF company, payments, paystack
<1>1. h \in Ref /\ 0 \in 0..MaxRef
  BY BillingAssumption
  DEF IInv, CallerInv, Holding, CloseAttempt, RecordFailure, BillingAssumption
<1>2. Closes(h) /\ UNCHANGED lastRef
  BY DEF CloseAttempt, RecordFailure, Closes
<1>3. ~Open(h)
  <2>1. charge[h] \notin {"pending", "success"}
    BY DEF IInv, CallerInv, CloseAttempt, RecordFailure
  <2>2. ~Asking(h)
    <3> SUFFICES ASSUME NEW d \in Caller, caller[d].at = "charge", caller[d].n = h
                 PROVE  FALSE
      BY DEF Asking
    <3>1. charge[h] = "none"
      BY DEF IInv, CallerInv
    <3>2. CASE CloseAttempt(c)
      BY <3>1, <3>2 DEF IInv, CallerInv, CloseAttempt
    <3>3. CASE RecordFailure(c)
      <4>1. caller[c].at = "fail"
        BY <3>3 DEF RecordFailure
      <4>2. c = d
        BY <4>1 DEF IInv, OneAsker
      <4> QED
        BY <4>1, <4>2
    <3> QED
      BY <3>2, <3>3
  <2> QED
    BY <2>1, <2>2 DEF Open
<1>4. AttemptInv'
  BY <1>1, <1>2, AttemptEffect DEF IInv, AttemptInv
<1>5. CreditInv'
  BY <1>2, CreditKept DEF Closes
<1>6. \A m \in Ref : Pending(m) /\ Open(m) => Pending(m)'
  <2> SUFFICES ASSUME NEW m \in Ref, Pending(m), Open(m)
               PROVE  Pending(m)'
    OBVIOUS
  <2>1. m # h
    BY <1>3
  <2> QED
    BY <2>1, <1>1, <1>2 DEF Closes, Close, Pending
<1>7. \E at \in {"idle", "reserve"} : Goes(c, at, 0)
  BY Idles DEF CloseAttempt, RecordFailure
<1>8. CallerInv' /\ OneAsker' /\ OpenWaits' /\ OneOpen'
  <2> PICK at \in {"idle", "reserve"} : Goes(c, at, 0)
    BY <1>7
  <2>1. at \in CallerAt /\ at \notin Holding /\ at \notin {"charge", "fail", "close"}
    BY DEF CallerAt, Holding
  <2> QED
    BY <2>1, <1>1, <1>2, <1>6, CallerMoves DEF Closes
<1> QED
  BY <1>4, <1>5, <1>8 DEF IInv

LEMMA ReserveStep ==
  ASSUME IInv, TypeOK', NEW c \in Caller, Reserve(c)
  PROVE  IInv'
<1> USE DEF company, payments, paystack
<1>1. PICK n \in Ref : Reserves(n) /\ Goes(c, "charge", n) /\ UNCHANGED lastRef
  BY DEF Reserve, Reserves, Fresh
<1>2. \A d \in Caller : caller'[d] = IF d = c THEN [at |-> "charge", n |-> n] ELSE caller[d]
  BY <1>1 DEF IInv, AttemptInv, TypeOK, Goes
<1>3. charge[n] = "none" /\ kind[n] = "none" /\ charge' = charge
  BY <1>1 DEF IInv, AttemptInv, FreshInv, Reserves
<1>4. \A m \in Ref : kind'[m] = IF m = n THEN "initial" ELSE kind[m]
  BY <1>1 DEF IInv, AttemptInv, TypeOK, Reserves
<1>5. \A d \in Caller : caller[d].at \in Holding => caller[d].n \in Ref /\ caller[d].n # n
  BY <1>3 DEF IInv, CallerInv
<1>6. AttemptInv'
  BY <1>1, AttemptEffect DEF IInv, AttemptInv
<1>7. CreditInv'
  BY <1>1, <1>3, <1>4, CreditKept DEF Reserves
<1>8. CallerInv'
  BY <1>2, <1>3, <1>4, <1>5 DEF IInv, CallerInv, Holding
<1>9. OneAsker'
  BY <1>2, <1>5 DEF IInv, OneAsker, Holding
<1>10. \A m \in Ref : ~Open(m)
  BY <1>1 DEF Reserves, Reservable, IInv, OpenWaits
<1>11. \A m \in Ref : Open(m)' => m = n
  BY <1>2, <1>3, <1>4, <1>10 DEF Open, Asking
<1>12. Pending(n)'
  BY <1>1 DEF Reserves, Pending, IInv, AttemptInv, TypeOK
<1> QED
  BY <1>6, <1>7, <1>8, <1>9, <1>11, <1>12 DEF IInv, OpenWaits, OneOpen

LEMMA AskStep ==
  ASSUME IInv, TypeOK', NEW c \in Caller, AskPaystack(c)
  PROVE  IInv'
<1> DEFINE h == caller[c].n
<1> USE DEF company, payments, paystack
<1>1. caller[c].at = "charge" /\ h \in Ref /\ kind[h] = "initial" /\ 0 \in 0..MaxRef
  BY BillingAssumption DEF AskPaystack, IInv, CallerInv, Holding, BillingAssumption
<1>2. PICK s \in {"none", "pending", "ended"}, at \in {"idle", "fail"}, n \in {0, h} :
        /\ charge' = [charge EXCEPT ![h] = s] /\ Goes(c, at, n)
        /\ at = "fail" => n = h /\ s # "pending"
  BY Idles DEF AskPaystack
<1>3. UNCHANGED <<kind, attempt, purchase, credited, lastRef>>
  BY DEF AskPaystack
<1>4. Charges(h)
  BY <1>1, <1>2, <1>3 DEF Charges
<1>5. AttemptInv' /\ CreditInv'
  BY <1>1, <1>3, <1>4, AttemptEffect, CreditKept DEF IInv, AttemptInv
<1>6. /\ \A d \in Caller : caller'[d] = IF d = c THEN [at |-> at, n |-> n] ELSE caller[d]
      /\ \A m \in Ref : charge'[m] = IF m = h THEN s ELSE charge[m]
  BY <1>2 DEF IInv, AttemptInv, TypeOK, Goes
<1>7. \A d \in Caller : d # c /\ caller[d].at \in {"charge", "fail"} => caller[d].n # h
  BY <1>1 DEF IInv, OneAsker
<1>8. \A d \in Caller : caller[d].at = "close" => caller[d].n # h
  BY <1>1 DEF IInv, CallerInv
<1>9. CallerInv'
  BY <1>1, <1>2, <1>3, <1>6, <1>7, <1>8 DEF IInv, CallerInv, Holding
<1>10. OneAsker'
  BY <1>1, <1>2, <1>6, <1>7 DEF IInv, OneAsker
<1>11. Open(h)
  BY <1>1 DEF Open, Asking
<1>12. \A m \in Ref : Open(m)' => Open(m)
  BY <1>2, <1>3, <1>6, <1>11 DEF Open, Asking
<1>13. OpenWaits' /\ OneOpen'
  BY <1>3, <1>12 DEF IInv, OpenWaits, OneOpen, Pending
<1> QED
  BY <1>5, <1>9, <1>10, <1>13 DEF IInv

LEMMA RenewStep ==
  ASSUME IInv, TypeOK', NEW c \in Caller, Renew(c)
  PROVE  IInv'
<1> USE DEF company, payments, paystack
<1>1. Goes(c, "idle", 0) /\ UNCHANGED <<attempt, purchase, credited, lastRef>>
  BY Idles DEF Renew
<1>2. \A d \in Caller : caller'[d] = IF d = c THEN [at |-> "idle", n |-> 0] ELSE caller[d]
  BY <1>1 DEF IInv, AttemptInv, TypeOK, Goes
<1>3. CASE UNCHANGED <<kind, charge>>
  <2>1. AttemptInv' /\ CreditInv'
    BY <1>1, <1>3, AttemptKept, CreditKept DEF Nothing
  <2>2. CallerInv' /\ OneAsker'
    BY <1>2, <1>3 DEF IInv, CallerInv, OneAsker, Holding
  <2>3. \A m \in Ref : Open(m)' => Open(m)
    BY <1>2, <1>3 DEF Open, Asking
  <2>4. OpenWaits' /\ OneOpen'
    BY <1>1, <2>3 DEF IInv, OpenWaits, OneOpen, Pending
  <2> QED
    BY <2>1, <2>2, <2>4 DEF IInv
<1>4. CASE \E n \in Ref : Renewed(n)
  <2> PICK n \in Ref : Renewed(n)
    BY <1>4
  <2>1. /\ \A m \in Ref : kind'[m] = IF m = n THEN "renewal" ELSE kind[m]
        /\ \A m \in Ref : charge'[m] = IF m = n THEN "pending" ELSE charge[m]
        /\ kind[n] = "none"
    BY DEF Renewed, IInv, AttemptInv, TypeOK
  <2>2. AttemptInv' /\ CreditInv'
    BY <1>1, <2>1, AttemptEffect, CreditKept DEF IInv, AttemptInv
  <2>3. \A d \in Caller : caller[d].at \in Holding => caller[d].n \in Ref /\ caller[d].n # n
    BY <2>1 DEF IInv, CallerInv
  <2>4. CallerInv' /\ OneAsker'
    BY <1>2, <2>1, <2>3 DEF IInv, CallerInv, OneAsker, Holding
  <2>5. \A m \in Ref : Open(m)' => Open(m)
    BY <1>2, <2>1 DEF Open, Asking
  <2>6. OpenWaits' /\ OneOpen'
    BY <1>1, <2>5 DEF IInv, OpenWaits, OneOpen, Pending
  <2> QED
    BY <2>2, <2>4, <2>6 DEF IInv
<1> QED
  BY <1>1, <1>3, <1>4 DEF Renew, Renewed, Fresh

\* Steps of others, which leave the invocations alone.
LEMMA OthersKeep ==
  ASSUME IInv, AttemptInv', CreditInv', UNCHANGED <<kind, charge, caller>>,
         \A m \in Ref : Pending(m) => Pending(m)' \/ purchase' # 0,
         purchase # 0 => purchase' # 0
  PROVE  IInv'
<1>1. CallerInv' /\ OneAsker'
  BY DEF IInv, CallerInv, OneAsker
<1>2. \A m \in Ref : Open(m)' => Open(m)
  BY DEF Open, Asking
<1> QED
  BY <1>1, <1>2 DEF IInv, OpenWaits, OneOpen

LEMMA ProviderStep ==
  ASSUME IInv, TypeOK', NEW n \in Ref, Provider(n)
  PROVE  IInv'
<1> USE DEF company, payments, paystack
<1>1. PICK s \in {<<"pending", "success">>, <<"pending", "ended">>, <<"ended", "late">>,
                  <<"success", "reversed">>, <<"late", "reversed">>} :
        charge[n] = s[1] /\ charge' = [charge EXCEPT ![n] = s[2]]
  BY DEF Provider
<1>2. UNCHANGED <<kind, attempt, purchase, credited, lastRef, caller>>
  BY DEF Provider
<1>3. kind[n] # "none"
  BY <1>1 DEF IInv, AttemptInv, FreshInv
<1>4. AttemptInv' /\ CreditInv'
  <2>1. s[2] \in {"none", "pending", "success", "ended", "late", "reversed"}
    OBVIOUS
  <2>2. Charges(n)
    BY <1>1, <1>2, <1>3, <2>1 DEF Charges
  <2> QED
    BY <1>2, <2>2, AttemptEffect, CreditKept DEF IInv, AttemptInv
<1>5. \A m \in Ref : charge'[m] = IF m = n THEN s[2] ELSE charge[m]
  BY <1>1 DEF IInv, AttemptInv, TypeOK
<1>6. CallerInv'
  BY <1>1, <1>2, <1>5 DEF IInv, CallerInv, Holding
<1>7. OneAsker'
  BY <1>2 DEF IInv, OneAsker
<1>8. \A m \in Ref : Open(m)' => Open(m)
  BY <1>1, <1>2, <1>5 DEF Open, Asking
<1>9. OpenWaits' /\ OneOpen'
  BY <1>2, <1>8 DEF IInv, OpenWaits, OneOpen, Pending
<1> QED
  BY <1>4, <1>6, <1>7, <1>9 DEF IInv

LEMMA PurchaseStep ==
  ASSUME IInv, TypeOK', NEW n \in Ref, BookPurchase(n)
  PROVE  IInv'
<1> USE DEF company, payments, paystack
<1>1. Purchases(n) /\ lastRef' = n /\ UNCHANGED caller
  BY DEF BookPurchase, Purchases, Credit
<1>2. AttemptInv'
  BY <1>1, AttemptEffect DEF IInv, AttemptInv
<1>3. 0 \notin Ref /\ \A m \in Ref : credited[m] \in Nat
  BY BillingAssumption DEF Ref, BillingAssumption, IInv, AttemptInv, TypeOK
<1>4. /\ \A m \in Ref : credited'[m] = IF m = n THEN credited[n] + 1 ELSE credited[m]
      /\ kind[n] = "initial" /\ purchase = 0 /\ purchase' = n /\ kind' = kind
  BY <1>1 DEF Purchases, Buys, IInv, AttemptInv, TypeOK
<1>5. credited[n] = 0
  BY <1>3, <1>4 DEF IInv, CreditInv
<1>6. CreditInv'
  BY <1>1, <1>3, <1>4, <1>5 DEF IInv, CreditInv, CreditedOnce
<1> QED
  BY <1>1, <1>2, <1>3, <1>6, OthersKeep DEF Purchases

LEMMA RenewalStep ==
  ASSUME IInv, TypeOK', NEW n \in Ref, BookRenewal(n)
  PROVE  IInv'
<1> USE DEF company, payments, paystack
<1>1. Extends(n) /\ lastRef' = n /\ lastRef # n /\ UNCHANGED caller
  BY DEF BookRenewal, Extends, Credit, Renews
<1>2. AttemptInv'
  BY <1>1, AttemptEffect DEF IInv, AttemptInv
<1>3. \A m \in Ref : credited[m] \in Nat
  BY BillingAssumption DEF BillingAssumption, IInv, AttemptInv, TypeOK
<1>4. /\ \A m \in Ref : credited'[m] = IF m = n THEN credited[n] + 1 ELSE credited[m]
      /\ kind[n] = "renewal" /\ kind' = kind /\ purchase' = purchase
  BY <1>1 DEF Extends, Renews, IInv, AttemptInv, TypeOK
<1>5. CreditInv'
  <2>1. \A m \in Ref : kind'[m] = "initial" =>
          credited'[m] <= 1 /\ (credited'[m] = 1 => purchase' = m)
    BY <1>4 DEF IInv, CreditInv
  <2>2. n \in Ref /\ credited'[n] > 0
    BY <1>3, <1>4
  <2>3. CreditedOnce'
    <3> SUFFICES ASSUME NEW m \in Ref, credited'[m] > 1
                 PROVE  kind'[m] = "renewal" /\ \E k \in Ref \ {m} : credited'[k] > 0
      BY DEF CreditedOnce
    <3>1. CASE m = n
      <4>1. credited[n] > 0
        BY <1>3, <1>4, <3>1
      <4>2. lastRef \in Ref \ {n} /\ credited[lastRef] > 0
        BY <1>1, <4>1 DEF IInv, CreditInv
      <4> QED
        BY <1>4, <3>1, <4>2
    <3>2. CASE m # n
      BY <1>4, <2>2, <3>2 DEF IInv, CreditInv, CreditedOnce
    <3> QED
      BY <3>1, <3>2
  <2> QED
    BY <1>1, <2>1, <2>2, <2>3 DEF CreditInv
<1> QED
  BY <1>1, <1>2, <1>5, OthersKeep DEF Extends, Pending

\* Everybody else writes other columns.
LEMMA OtherStep ==
  ASSUME IInv, TypeOK', Nothing, UNCHANGED <<lastRef, caller>>
  PROVE  IInv'
<1>1. AttemptInv' /\ CreditInv'
  BY AttemptKept, CreditKept DEF Nothing
<1> QED
  BY <1>1, OthersKeep DEF Nothing, Pending

LEMMA IInvStep ==
  ASSUME IInv, [Next]_vars
  PROVE  IInv'
<1>0. TypeOK'
  BY TypeStep DEF IInv, AttemptInv
<1>1. ASSUME NEW c \in Caller, Read(c) \/ Charging(c) \/ Crash(c)
      PROVE  IInv'
  BY <1>0, <1>1, QuietStep, CloseStep, ReserveStep, AskStep, RenewStep DEF Charging
<1>2. ASSUME NEW n \in Ref, Provider(n) \/ Crediting(n) \/ LoseWebhook(n) \/ Age(n)
      PROVE  IInv'
  <2>1. CASE VerifyPayment(n) \/ BookNothing(n) \/ LoseWebhook(n) \/ Age(n)
    <3>1. Nothing /\ UNCHANGED <<lastRef, caller>>
      BY <2>1 DEF VerifyPayment, BookNothing, LoseWebhook, Age, Nothing,
                  company, payments, paystack
    <3> QED
      BY <1>0, <3>1, OtherStep
  <2> QED
    BY <1>0, <1>2, <2>1, ProviderStep, PurchaseStep, RenewalStep DEF Crediting
<1>3. CASE Administering \/ Scan \/ EndTerm \/ UNCHANGED vars
  <2>1. Nothing /\ UNCHANGED <<lastRef, caller>>
    BY <1>3 DEF Administering, Approve, Disable, Override, Scan, EndTerm, vars, Nothing,
                company, payments, paystack
  <2> QED
    BY <1>0, <2>1, OtherStep
<1> QED
  BY <1>1, <1>2, <1>3 DEF Next

\* The invariant, of which the following theorems are parts.
THEOREM Invariance == Spec => []IInv
BY InitIInv, IInvStep, PTL DEF Spec

\* Two first payments are never under way or paid together, unless Paystack had
\* declared one of them ended, whoever presses Pay and whatever dies half-way.
THEOREM NobodyPaysTwice == Spec => []InitialChargedOnce
<1>1. IInv => InitialChargedOnce
  BY DEF IInv, OneOpen, Open, Live, InitialChargedOnce
<1> QED
  BY <1>1, Invariance, PTL

\* The company buys with one attempt and no other waits afterwards.
THEOREM PurchaseIsFinal == Spec => []PurchaseClosesAttempts
<1>1. IInv => PurchaseClosesAttempts
  BY DEF IInv, AttemptInv
<1> QED
  BY <1>1, Invariance, PTL

\* However often webhooks are repeated, a first payment is credited once, and a renewal
\* again only after another payment.
THEOREM CreditIsOnce == Spec => []CreditedOnce
<1>1. IInv => CreditedOnce
  BY DEF IInv, CreditInv
<1> QED
  BY <1>1, Invariance, PTL
=============================================================================
