------------------------- MODULE NotificationOutbox -------------------------
(***************************************************************************)
(* The outbox of messages to customers and staff: rows queued by the        *)
(* database, flushes started every minute that lease rows and send them     *)
(* (functions/notification-flush), the message quota, and the SMS that      *)
(* follows a WhatsApp message that failed.                                  *)
(*                                                                          *)
(* A message is a customer reminder on WhatsApp with an SMS as fallback.    *)
(* Left out: campaigns, e-mail, the batch limit, the number of segments and *)
(* the counters of SMS, and the start of a new quota period.  Any refusal   *)
(* of SMS quota is possible.                                                *)
(***************************************************************************)
EXTENDS Naturals, FiniteSets

CONSTANTS
  Message,
  Worker,       \* flushes that may overlap
  MaxAttempts,  \* outbox.max_attempts
  QuotaLimit,   \* subscription_tiers.whatsapp_per_period
  MaxFaults     \* bound on crashes, failed database calls and overrun leases

ASSUME OutboxAssumption ==
  /\ MaxAttempts \in Nat \ {0} /\ QuotaLimit \in Nat /\ MaxFaults \in Nat
  /\ IsFiniteSet(Message)

Row == Message \X {"whatsapp", "sms"}
Fallback(r) == <<r[1], "sms">>
\* Every claim adds one; a fault may cost the claim that would have failed the row.
Top == MaxAttempts + 1 + MaxFaults

VARIABLES
  status,       \* outbox.status; "refused" is a fallback the shop was told of
  attempts,     \* outbox.attempts
  due,          \* rows whose scheduled_after has come
  quota,        \* outbox.quota_state
  reserved,     \* companies.whatsapp_reserved_this_period
  used,         \* companies.whatsapp_used_this_period
  allowed,      \* external_messaging_allowed
  optedOut,     \* customers with notifications_enabled = false
  worker,       \* where a flush stands
  accepted,     \* how often the provider took a row, 2 for more
  unsure,       \* rows with a fault, or a send without an answer
  faults

rows   == <<status, attempts, due, quota, reserved, used>>
policy == <<allowed, optedOut>>
seen   == <<accepted, unsure>>
vars   == <<rows, policy, worker, seen, faults>>

Status == {"absent", "pending", "sent", "failed", "cancelled", "refused"}
At == {"idle", "turn", "exhausted", "reconcile", "send", "accepted",
       "rejected", "deferred", "unclear", "sent", "fail", "retry", "fallback"}
Nobody == [at |-> "idle", found |-> {}, mine |-> {}, row |-> {}, read |-> [r \in Row |-> 0]]

TypeOK ==
  /\ status \in [Row -> Status] /\ attempts \in [Row -> 0..Top]
  /\ due \subseteq Row /\ unsure \subseteq Row /\ optedOut \subseteq Message
  /\ quota \in [Row -> {"none", "reserved", "used", "released"}]
  /\ reserved \in 0..QuotaLimit /\ used \in 0..QuotaLimit
  /\ allowed \in BOOLEAN
  /\ worker \in [Worker -> [at : At, found : SUBSET Row, mine : SUBSET Row,
                            row : SUBSET Row, read : [Row -> 0..Top]]]
  /\ accepted \in [Row -> 0..2]
  /\ faults \in 0..MaxFaults

Init ==
  /\ status = [r \in Row |-> "absent"] /\ attempts = [r \in Row |-> 0]
  /\ due = {} /\ quota = [r \in Row |-> "none"] /\ reserved = 0 /\ used = 0
  /\ allowed = TRUE /\ optedOut = {}
  /\ worker = [w \in Worker |-> Nobody]
  /\ accepted = [r \in Row |-> 0] /\ unsure = {}
  /\ faults = 0

(***************************************************************************)
(* Quota.                                                                   *)
(***************************************************************************)
\* fault: the state of the row is not looked at
Any(R) == R
Unfinalized(R) == {r \in R : quota[r] = "reserved"}

\* finalize_message_quota on the rows of R, as accepted for those of took
Finalize(R, took) ==
  LET open == Unfinalized(R)
      whatsapp == {r \in open : r[2] = "whatsapp"} IN
  /\ quota' = [r \in Row |-> IF r \in open THEN (IF r \in took THEN "used" ELSE "released")
                                            ELSE quota[r]]
  /\ reserved' = IF Cardinality(whatsapp) > reserved THEN 0 ELSE reserved - Cardinality(whatsapp)
  /\ used' = used + Cardinality(whatsapp \intersect took)

KeepQuota == UNCHANGED <<quota, reserved, used>>

\* queue_message on WhatsApp; it raises when the quota is used up.
Enqueue(m) ==
  LET r == <<m, "whatsapp">> IN
  /\ status[r] = "absent" /\ allowed /\ m \notin optedOut
  /\ used + reserved + 1 <= QuotaLimit
  /\ reserved' = reserved + 1
  /\ status' = [status EXCEPT ![r] = "pending"] /\ quota' = [quota EXCEPT ![r] = "reserved"]
  /\ UNCHANGED <<attempts, due, used, policy, worker, seen, faults>>

\* A row that was claimed may have been sent, and is paid for.
MaybeSent(R) == {r \in R : attempts[r] > 0}

Cancel(R) ==
  /\ Finalize(R, MaybeSent(R))
  /\ status' = [r \in Row |-> IF r \in R THEN "cancelled" ELSE status[r]]

\* update_customer_communication_preferences
OptOut(m) ==
  /\ m \notin optedOut /\ optedOut' = optedOut \union {m}
  /\ Cancel({r \in Row : r[1] = m /\ status[r] = "pending"})
  /\ UNCHANGED <<attempts, due, allowed, worker, seen, faults>>

\* cancel_controlled_external_messages
SwitchOff ==
  /\ allowed /\ allowed' = FALSE
  /\ Cancel({r \in Row : status[r] = "pending"})
  /\ UNCHANGED <<attempts, due, optedOut, worker, seen, faults>>

(***************************************************************************)
(* Time.                                                                    *)
(***************************************************************************)
HeldBy(w) == worker[w].mine \union worker[w].row
Held == UNION {HeldBy(w) : w \in Worker}

\* Quiet hours, the backoff, or the lease of a dead flush end.
ComeDue(r) ==
  /\ status[r] = "pending" /\ r \notin due /\ r \notin Held
  /\ due' = due \union {r}
  /\ UNCHANGED <<status, attempts, quota, reserved, used, policy, worker, seen, faults>>

Fault(R) == faults < MaxFaults /\ faults' = faults + 1 /\ unsure' = unsure \union R

\* The lease ends while its flush is still sending the rows before it.
Overrun(r) ==
  /\ status[r] = "pending" /\ r \notin due /\ r \in Held
  /\ due' = due \union {r} /\ Fault({r})
  /\ UNCHANGED <<status, attempts, quota, reserved, used, policy, worker, accepted>>

(***************************************************************************)
(* A flush: it selects rows, claims each, and then sends one after another. *)
(***************************************************************************)
Goes(w, to) == worker' = [worker EXCEPT ![w].at = to]
\* The current row is done with.
Turns(w) ==
  worker' = [worker EXCEPT ![w].at = "turn", ![w].row = {},
               ![w].read = [r \in Row |-> IF r \in worker[w].row THEN 0 ELSE @[r]]]
\* fault: a row without attempts left is not selected
SendableUnspent == {r \in due : status[r] = "pending" /\ attempts[r] < MaxAttempts}
Sendable == {r \in due : status[r] = "pending"}

Select(w) ==
  /\ worker[w].at = "idle" /\ Sendable # {}
  /\ worker' = [worker EXCEPT ![w] = [Nobody EXCEPT !.at = "turn", !.found = Sendable,
       !.read = [r \in Row |-> IF r \in Sendable THEN attempts[r] ELSE 0]]]
  /\ UNCHANGED <<rows, policy, seen, faults>>

\* fault: the claim compares the status only
ClaimsPending(w, r) == status[r] = "pending"
\* The update matches the status and the attempts that were read.
Claims(w, r) == status[r] = "pending" /\ attempts[r] = worker[w].read[r]

Claim(w, r) ==
  /\ r \in worker[w].found
  /\ IF Claims(w, r)
     THEN /\ attempts' = [attempts EXCEPT ![r] = worker[w].read[r] + 1]
          /\ due' = due \ {r}
          /\ worker' = [worker EXCEPT ![w].found = @ \ {r}, ![w].mine = @ \union {r}]
     ELSE /\ worker' = [worker EXCEPT ![w].found = @ \ {r}, ![w].read[r] = 0]
          /\ UNCHANGED <<attempts, due>>
  /\ UNCHANGED <<status, quota, reserved, used, policy, seen, faults>>

\* prepare_controlled_outbox_delivery, and the test of the attempts
Prepare(w, r) ==
  /\ worker[w].at = "turn" /\ worker[w].found = {} /\ r \in worker[w].mine
  /\ LET goes == status[r] = "pending" /\ allowed
         to == CASE ~goes -> "turn"
                 [] goes /\ worker[w].read[r] >= MaxAttempts -> "exhausted"
                 [] goes /\ worker[w].read[r] < MaxAttempts ->
                      IF r[2] = "sms" THEN "reconcile" ELSE "send" IN
     worker' = [worker EXCEPT ![w].mine = @ \ {r}, ![w].at = to,
                              ![w].row = IF goes THEN {r} ELSE {}]
  /\ IF status[r] = "pending" /\ ~allowed
     THEN Finalize({r}, {}) /\ status' = [status EXCEPT ![r] = "cancelled"]
     ELSE KeepQuota /\ UNCHANGED status
  /\ UNCHANGED <<attempts, due, policy, seen, faults>>

Finish(w) ==
  /\ worker[w].at = "turn" /\ worker[w].found \union worker[w].mine = {}
  /\ worker' = [worker EXCEPT ![w] = Nobody]
  /\ UNCHANGED <<rows, policy, seen, faults>>

\* reconcile_runtime_sms_quota; no quota is final, another error is not.
Reconcile(w) ==
  /\ worker[w].at = "reconcile"
  /\ \E r \in worker[w].row :
       \/ /\ quota' = [quota EXCEPT ![r] = IF status[r] = "pending" THEN "reserved" ELSE @]
          /\ Goes(w, "send")
       \/ UNCHANGED quota /\ \E to \in {"rejected", "deferred"} : Goes(w, to)
  /\ UNCHANGED <<status, attempts, due, reserved, used, policy, seen, faults>>

\* The provider takes the message or does not; without an answer nobody knows.
Send(w) ==
  /\ worker[w].at = "send"
  /\ \E r \in worker[w].row, took \in BOOLEAN, answered \in BOOLEAN :
       /\ accepted' = [accepted EXCEPT ![r] = IF took /\ @ < 2 THEN @ + 1 ELSE @]
       /\ unsure' = IF answered THEN unsure ELSE unsure \union {r}
       /\ IF ~answered THEN Goes(w, "unclear")
          ELSE IF took THEN Goes(w, "accepted")
          ELSE \E to \in {"rejected", "deferred"} : Goes(w, to)
  /\ UNCHANGED <<rows, policy, faults>>

\* fault: only a rejection is final
VerdictNeverLast(w, r) ==
  CASE worker[w].at = "accepted" -> "sent"
    [] worker[w].at = "rejected" -> "fail"
    [] worker[w].at \in {"exhausted", "deferred", "unclear"} -> "retry"

\* What the flush makes of the outcome; read is the number of attempts before this one.
Verdict(w, r) ==
  LET last == worker[w].read[r] + 1 >= MaxAttempts IN
  CASE worker[w].at = "accepted" -> "sent"
    [] worker[w].at \in {"exhausted", "rejected"} -> "fail"
    [] worker[w].at \in {"deferred", "unclear"} -> IF last THEN "fail" ELSE "retry"

\* finalize_message_quota: accepted, or terminal without being accepted
Conclude(w) ==
  /\ worker[w].at \in {"exhausted", "accepted", "rejected", "deferred", "unclear"}
  /\ \E r \in worker[w].row :
       /\ IF worker[w].at \in {"accepted", "unclear"} THEN Finalize({r}, {r})
          ELSE IF Verdict(w, r) = "fail" THEN Finalize({r}, {}) ELSE KeepQuota
       /\ Goes(w, Verdict(w, r))
  /\ UNCHANGED <<status, attempts, due, policy, seen, faults>>

\* fault: the last update does not look at the status
WasClosed(r) == FALSE
\* The last update matches pending rows only.
Closed(r) == status[r] # "pending"

\* fault: every failed attempt is followed by the fallback
EveryFailure(w, r) == worker[w].at # "sent" /\ r[2] = "whatsapp"
FallsBack(w, r) == worker[w].at = "fail" /\ r[2] = "whatsapp"

\* The last update, which writes back the attempts that were read
Record(w) ==
  /\ worker[w].at \in {"sent", "fail", "retry"}
  /\ \E r \in worker[w].row :
       IF Closed(r) THEN Turns(w) /\ UNCHANGED <<status, attempts, due>>
       ELSE /\ status' = [status EXCEPT ![r] =
                 CASE worker[w].at = "sent" -> "sent" [] worker[w].at = "fail" -> "failed"
                   [] worker[w].at = "retry" -> "pending"]
            /\ attempts' = [attempts EXCEPT ![r] = worker[w].read[r] + 1]
            /\ due' = IF worker[w].at = "retry" THEN due \ {r} ELSE due
            /\ IF FallsBack(w, r) THEN Goes(w, "fallback") ELSE Turns(w)
  /\ UNCHANGED <<quota, reserved, used, policy, seen, faults>>

\* fault: nobody is told that there is no fallback
Unsaid(f) == status
\* The notice "Reminder fallback not sent"
Refused(f) == [status EXCEPT ![f] = "refused"]

\* queueFallback and queue_sms_fallback, or the notice that it was not sent
QueueFallback(w) ==
  /\ worker[w].at = "fallback"
  /\ \E r \in worker[w].row :
       LET f == Fallback(r) IN
       \/ status[f] # "absent" /\ UNCHANGED <<status, quota>>
       \/ /\ status[f] = "absent" /\ r[1] \notin optedOut
          /\ status' = [status EXCEPT ![f] = "pending"]
          /\ quota' = [quota EXCEPT ![f] = "reserved"]
       \/ /\ status[f] = "absent"
          /\ status' = Refused(f) /\ UNCHANGED quota
  /\ Turns(w)
  /\ UNCHANGED <<attempts, due, reserved, used, policy, seen, faults>>

(***************************************************************************)
(* Faults.                                                                  *)
(***************************************************************************)
\* A call fails, and the code goes on: a claim or an update changed nothing, a quota
\* was not finalized, the policy could not be read.
FailCall(w) ==
  /\ Fault(worker[w].row)
  /\ \/ \E r \in worker[w].found :
          worker' = [worker EXCEPT ![w].found = @ \ {r}, ![w].read[r] = 0]
     \/ \E r \in worker[w].mine :
          /\ worker[w].at = "turn" /\ worker[w].found = {}
          /\ worker' = [worker EXCEPT ![w].mine = @ \ {r}]
     \/ /\ worker[w].at \in {"exhausted", "accepted", "rejected", "deferred", "unclear"}
        /\ \E r \in worker[w].row : Goes(w, Verdict(w, r))
     \/ worker[w].at \in {"sent", "fail", "retry"} /\ Turns(w)
  /\ UNCHANGED <<rows, policy, accepted>>

\* The call was executed, but its answer is lost: the row is not among those claimed, or
\* failed without its fallback.
LoseAnswer(w) ==
  /\ \/ \E r \in worker[w].found :
          /\ Claims(w, r) /\ Fault({r})
          /\ attempts' = [attempts EXCEPT ![r] = worker[w].read[r] + 1] /\ due' = due \ {r}
          /\ worker' = [worker EXCEPT ![w].found = @ \ {r}, ![w].read[r] = 0]
          /\ UNCHANGED status
     \/ \E r \in worker[w].row :
          /\ worker[w].at = "fail" /\ status[r] = "pending" /\ Fault({r})
          /\ status' = [status EXCEPT ![r] = "failed"]
          /\ attempts' = [attempts EXCEPT ![r] = worker[w].read[r] + 1]
          /\ Turns(w) /\ UNCHANGED due
  /\ UNCHANGED <<quota, reserved, used, policy, accepted>>

Crash(w) ==
  /\ worker[w].at # "idle" /\ Fault(worker[w].row)
  /\ worker' = [worker EXCEPT ![w] = Nobody]
  /\ UNCHANGED <<rows, policy, accepted>>

-----------------------------------------------------------------------------
Flush(w) ==
  \/ Select(w) \/ Finish(w) \/ Reconcile(w) \/ Send(w)
  \/ Conclude(w) \/ Record(w) \/ QueueFallback(w)
  \/ \E r \in Row : Claim(w, r) \/ Prepare(w, r)

Next ==
  \/ \E m \in Message : Enqueue(m) \/ OptOut(m)
  \/ SwitchOff
  \/ \E r \in Row : ComeDue(r) \/ Overrun(r)
  \/ \E w \in Worker : Flush(w) \/ FailCall(w) \/ LoseAnswer(w) \/ Crash(w)

Spec == Init /\ [][Next]_vars

\* The cron starts a flush every minute, a flush that lives goes on, and time passes.
FairSpec ==
  /\ Spec
  /\ \A w \in Worker : WF_vars(Flush(w))
  /\ \A r \in Row : WF_vars(ComeDue(r))

(***************************************************************************)
(* Properties.                                                              *)
(***************************************************************************)
WhatsApp(q) == {r \in Row : r[2] = "whatsapp" /\ quota[r] = q}

\* The company's WhatsApp counters are the sum of its rows' states, although flushes,
\* cancellations and retries finalize the same row more than once (0037:421).
QuotaExact ==
  /\ reserved = Cardinality(WhatsApp("reserved")) /\ used = Cardinality(WhatsApp("used"))
  /\ reserved + used <= QuotaLimit

\* "Claim rows before sending so concurrent invocations don't double-send"
\* (notification-flush:164): unless an answer or a step was lost or the lease ran out,
\* overlapping flushes never send a row twice.  A message that was sent is then paid for,
\* one that failed is not, and one that was cancelled under way is paid for when the
\* provider took it.
SentOnceAndPaid ==
  \A r \in Row : r \notin unsure =>
    /\ accepted[r] <= 1
    /\ status[r] = "sent" => quota[r] = "used"
    /\ status[r] = "failed" => quota[r] = "released"
    /\ status[r] = "cancelled" /\ accepted[r] > 0 => quota[r] = "used"

\* The SMS is the second choice: it exists only where the WhatsApp row has failed for good.
FallbackAfterFailure ==
  \A r \in Row : r[2] = "whatsapp" /\ status[Fallback(r)] # "absent" => status[r] = "failed"

\* What was sent, failed or cancelled is never open again, whatever a flush that was
\* overtaken by another, by the lease or by an opt-out still writes.
FinalIsFinal ==
  [][\A r \in Row : status[r] \in {"sent", "failed", "cancelled"} => status'[r] = status[r]]_vars

\* Every queued message is sent, fails or is cancelled: crashed flushes are taken over
\* and burn an attempt, so that no row is leased for ever.
EveryMessageEnds ==
  \A r \in Row : status[r] = "pending" ~> status[r] # "pending"

\* A WhatsApp message that failed is followed by its SMS or by a notice to the shop,
\* unless the flush died in between.
FailureIsFollowedUp ==
  \A r \in Message \X {"whatsapp"} :
    status[r] = "failed" ~> status[Fallback(r)] # "absent" \/ r \in unsure
=============================================================================
