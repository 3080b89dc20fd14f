-------------------------- MODULE MpesaProcessing --------------------------
(***************************************************************************)
(* How the outcome of an M-PESA prompt finds its way back: the function     *)
(* that sends the prompt (functions/mpesa-initiate), the one that stores    *)
(* callbacks (mpesa-callback), the workers that lease events and status     *)
(* queries (mpesa-process), the minute sweep and the staff who review       *)
(* events, around one payment intent of migration 0119.                     *)
(*                                                                          *)
(* MpesaSettlement models what a settlement does to orders and books; here  *)
(* it is one step with the outcomes the intent can see.  "paid" stands for  *)
(* funds_received, awaiting_cash and completed, "ended" for cancelled,      *)
(* expired and failed.  Left out: C2B events, callbacks that name another   *)
(* checkout or another payload, the manual receipt, and reconciliation of   *)
(* an intent in review.  The provider's answers are final.                  *)
(***************************************************************************)
EXTENDS Naturals

CONSTANTS
  Caller,       \* invocations of mpesa-initiate
  Worker,       \* invocations of mpesa-process
  MaxAttempts,  \* bound on prompts
  MaxFaults     \* bound on crashes and failed database calls

ASSUME ProcessingAssumption == MaxAttempts \in Nat \ {0} /\ MaxFaults \in Nat

Attempt == 1..MaxAttempts

VARIABLES
  intent,       \* mpesa_payment_intents.status
  current,      \* current_attempt_id, 0 before the first attempt
  fulfilled,    \* the attempt whose money the intent holds, or 0
  status,       \* mpesa_payment_attempts.status
  bound,        \* attempts that know their checkout_request_id
  old,          \* attempts created 15 minutes ago or more
  queryLease,   \* attempts under a query lease
  settled,      \* attempts whose money is a collection
  event,        \* mpesa_provider_events.status of an attempt's callback
  evidence,     \* events with a collection_id
  eventOld,     \* events received 15 minutes ago or more
  lease,        \* events under a lease
  provider,     \* what Safaricom knows of an attempt
  caller,       \* where an invocation of mpesa-initiate stands
  worker,       \* where an invocation of mpesa-process stands
  faults

checkout == <<intent, current, fulfilled>>
attempts == <<status, bound, old, queryLease, settled>>
inbox    == <<event, evidence, eventOld, lease>>
vars     == <<checkout, attempts, inbox, provider, caller, worker, faults>>

IntentStatus == {"created", "requesting", "pending", "paid", "ended", "review"}
AttemptStatus == {"none", "requesting", "prompt_sent", "request_unknown",
                  "query_pending", "paid", "ended", "manual_review"}
EventStatus == {"none", "queued", "processing", "retry", "processed",
                "manual_review", "dismissed"}
CallerAt == {"idle", "send", "ask", "accepted", "refused", "unclear", "unknown"}
WorkerAt == {"idle", "events", "settle", "unclear", "finish", "retry",
             "query", "querySettle", "queryEnd", "queryUnclear"}

TypeOK ==
  /\ intent \in IntentStatus /\ current \in 0..MaxAttempts
  /\ fulfilled \in 0..MaxAttempts
  /\ status \in [Attempt -> AttemptStatus]
  /\ bound \subseteq Attempt /\ old \subseteq Attempt
  /\ queryLease \subseteq Attempt /\ settled \subseteq Attempt
  /\ event \in [Attempt -> EventStatus]
  /\ evidence \subseteq Attempt /\ eventOld \subseteq Attempt /\ lease \subseteq Attempt
  /\ provider \in [Attempt -> {"unasked", "asked", "paid", "declined"}]
  /\ caller \in [Caller -> [at : CallerAt, n : 0..MaxAttempts]]
  /\ worker \in [Worker -> [at : WorkerAt, todo : SUBSET Attempt, n : 0..MaxAttempts]]
  /\ faults \in 0..MaxFaults

Idle == [at |-> "idle", n |-> 0]
Resting == [at |-> "idle", todo |-> {}, n |-> 0]

Init ==
  /\ intent = "created" /\ current = 0 /\ fulfilled = 0
  /\ status = [n \in Attempt |-> "none"]
  /\ bound = {} /\ old = {} /\ queryLease = {} /\ settled = {}
  /\ event = [n \in Attempt |-> "none"]
  /\ evidence = {} /\ eventOld = {} /\ lease = {}
  /\ provider = [n \in Attempt |-> "unasked"]
  /\ caller = [c \in Caller |-> Idle]
  /\ worker = [w \in Worker |-> Resting]
  /\ faults = 0

Chargeable == intent \in {"created", "ended"}

CallerGoes(c, to, n) == caller' = [caller EXCEPT ![c] = [at |-> to, n |-> n]]
WorkerGoes(w, to) == worker' = [worker EXCEPT ![w].at = to]
\* The event of w is done with, one way or the other.
NextEvent(w) ==
  worker' = [worker EXCEPT ![w] = [at |-> "events", todo |-> @.todo \ {@.n}, n |-> 0]]
Fault == faults < MaxFaults /\ faults' = faults + 1

(***************************************************************************)
(* Sending the prompt.                                                      *)
(***************************************************************************)
\* prepare_mpesa_checkout answers send_prompt.
Prepare(c) ==
  /\ caller[c].at = "idle" /\ Chargeable
  /\ CallerGoes(c, "send", 0)
  /\ UNCHANGED <<checkout, attempts, inbox, provider, worker, faults>>

\* create_mpesa_payment_attempt
CreateAttempt(c) ==
  /\ caller[c].at = "send" /\ Chargeable /\ fulfilled = 0 /\ settled = {}
  /\ current < MaxAttempts
  /\ current' = current + 1 /\ intent' = "requesting"
  /\ status' = [status EXCEPT ![current + 1] = "requesting"]
  /\ CallerGoes(c, "ask", current + 1)
  /\ UNCHANGED <<fulfilled, bound, old, queryLease, settled, inbox, provider, worker, faults>>

\* It raises, and the invocation ends.
RefuseAttempt(c) ==
  /\ caller[c].at = "send"
  /\ ~Chargeable \/ fulfilled # 0 \/ settled # {}
  /\ CallerGoes(c, "idle", 0)
  /\ UNCHANGED <<checkout, attempts, inbox, provider, worker, faults>>

\* The request to Safaricom, whether or not its answer arrives.
AskProvider(c) ==
  /\ caller[c].at = "ask"
  /\ LET n == caller[c].n IN
       \/ /\ provider' = [provider EXCEPT ![n] = "asked"]
          /\ \E to \in {"accepted", "unclear", "unknown"} : CallerGoes(c, to, n)
       \/ /\ UNCHANGED provider
          /\ \E to \in {"refused", "unclear", "unknown"} : CallerGoes(c, to, n)
  /\ UNCHANGED <<checkout, attempts, inbox, worker, faults>>

\* mpesa_record_stk_request, for the three kinds of answers
RecordRequest(c, knows) ==
  LET n == caller[c].n  at == caller[c].at IN
  /\ at \in {"accepted", "refused", "unclear"}
  /\ at = "accepted" => knows
  /\ n = current /\ intent = "requesting"
  /\ intent' = IF at = "refused" THEN "ended" ELSE "pending"
  /\ status' = [status EXCEPT ![n] =
       CASE at = "accepted" -> "prompt_sent"
         [] at = "refused" -> "ended"
         [] at = "unclear" -> "request_unknown"]
  /\ bound' = IF knows THEN bound \union {n} ELSE bound
  /\ CallerGoes(c, "idle", 0)
  /\ UNCHANGED <<current, fulfilled, old, queryLease, settled, inbox, provider, worker, faults>>

\* It raises: the attempt or the intent has moved on.
FailToRecord(c) ==
  LET n == caller[c].n IN
  /\ caller[c].at \in {"accepted", "refused", "unclear"}
  /\ n # current \/ intent # "requesting"
  /\ CallerGoes(c, "unknown", n)
  /\ UNCHANGED <<checkout, attempts, inbox, provider, worker, faults>>

\* fault: an unknown outcome counts as a failed request
RecordUnknownAsFailed(c) ==
  LET n == caller[c].n IN
  /\ caller[c].at = "unknown"
  /\ IF n = current /\ intent = "requesting"
     THEN intent' = "ended" /\ status' = [status EXCEPT ![n] = "request_unknown"]
     ELSE UNCHANGED <<intent, status>>
  /\ CallerGoes(c, "idle", 0)
  /\ UNCHANGED <<current, fulfilled, bound, old, queryLease, settled, inbox, provider, worker, faults>>

\* mpesa_record_request_unknown
RecordUnknown(c) ==
  LET n == caller[c].n IN
  /\ caller[c].at = "unknown"
  /\ IF n = current /\ intent = "requesting"
     THEN intent' = "pending" /\ status' = [status EXCEPT ![n] = "request_unknown"]
     ELSE UNCHANGED <<intent, status>>
  /\ CallerGoes(c, "idle", 0)
  /\ UNCHANGED <<current, fulfilled, bound, old, queryLease, settled, inbox, provider, worker, faults>>

CrashCaller(c) ==
  /\ caller[c].at # "idle" /\ Fault
  /\ CallerGoes(c, "idle", 0)
  /\ UNCHANGED <<checkout, attempts, inbox, provider, worker>>

(***************************************************************************)
(* Safaricom.                                                               *)
(***************************************************************************)
Decide(n, result) ==
  /\ provider[n] = "asked"
  /\ provider' = [provider EXCEPT ![n] = result]
  /\ UNCHANGED <<checkout, attempts, inbox, caller, worker, faults>>

\* mpesa_ingest_provider_event; a second delivery changes nothing.
Deliver(n) ==
  /\ provider[n] \in {"paid", "declined"} /\ event[n] = "none"
  /\ event' = [event EXCEPT ![n] = "queued"]
  /\ bound' = bound \union {n}
  /\ IF n \in bound THEN UNCHANGED <<intent, status>>
     ELSE /\ status' = [status EXCEPT ![n] =
               IF @ \in {"requesting", "request_unknown"} THEN "query_pending" ELSE @]
          /\ intent' = IF n = current /\ intent = "requesting" THEN "pending" ELSE intent
  /\ UNCHANGED <<current, fulfilled, old, queryLease, settled, evidence, eventOld, lease,
                 provider, caller, worker, faults>>

(***************************************************************************)
(* The settlement, as far as the intent and its attempts show it.           *)
(***************************************************************************)
\* mpesa_finalize_stk_success and mpesa_apply_collection_to_intent
FinalizeSuccess(n) ==
  /\ settled' = settled \union {n}
  /\ queryLease' = queryLease \ {n}
  /\ \/ /\ n # current /\ fulfilled = 0
        /\ intent' = "review" /\ fulfilled' = n
        /\ status' = [status EXCEPT ![n] = "paid",
             ![current] = IF @ \in {"paid", "ended"} THEN @ ELSE "manual_review"]
     \/ /\ n = current /\ fulfilled \in {0, n} /\ intent # "ended"
        /\ intent' \in (IF intent = "paid" THEN {"paid"} ELSE {"paid", "review"})
        /\ fulfilled' = n
        /\ status' = [status EXCEPT ![n] = "paid"]
     \/ /\ IF n = current THEN fulfilled \notin {0, n} \/ intent = "ended" ELSE fulfilled # 0
        /\ status' = [status EXCEPT ![n] = "paid"]
        /\ UNCHANGED <<intent, fulfilled>>
  /\ UNCHANGED <<current, bound, old>>

\* mpesa_finalize_stk_terminal
FinalizeTerminal(n) ==
  /\ IF n = current /\ fulfilled = 0
     THEN /\ status' = [status EXCEPT ![n] = "ended"]
          /\ queryLease' = queryLease \ {n}
          /\ intent' = IF intent = "pending" THEN "ended" ELSE intent
     ELSE UNCHANGED <<intent, status, queryLease>>
  /\ UNCHANGED <<current, fulfilled, bound, old, settled>>

\* mpesa_record_query_pending
RecordQueryPending(n) ==
  /\ status' = [status EXCEPT ![n] = IF n \in old THEN "manual_review" ELSE "query_pending"]
  /\ queryLease' = queryLease \ {n}
  /\ intent' = IF n \in old /\ n = current /\ intent = "pending" THEN "review" ELSE intent
  /\ UNCHANGED <<current, fulfilled, bound, old, settled>>

(***************************************************************************)
(* A worker: a batch of events one after the other, then a query.           *)
(***************************************************************************)
\* fault: an event whose worker died is not leased again
WaitingToRetry == {n \in Attempt : event[n] \in {"queued", "retry"}}
\* mpesa_claim_provider_events
Claimable ==
  {n \in Attempt : event[n] \in {"queued", "retry"} \/ (event[n] = "processing" /\ n \notin lease)}

\* mpesa_claim_status_queries
Queryable ==
  {n \in {current} \ (queryLease \union {0}) :
     /\ n \in bound /\ intent = "pending"
     /\ status[n] \in {"prompt_sent", "query_pending", "request_unknown"}}

ClaimEvents(w) ==
  /\ worker[w].at = "idle" /\ Claimable \union Queryable # {}
  /\ event' = [n \in Attempt |-> IF n \in Claimable THEN "processing" ELSE event[n]]
  /\ lease' = lease \union Claimable
  /\ worker' = [worker EXCEPT ![w] = [at |-> "events", todo |-> Claimable, n |-> 0]]
  /\ UNCHANGED <<checkout, attempts, evidence, eventOld, provider, caller, faults>>

WorkerTakes(w, to, n) == worker' = [worker EXCEPT ![w].at = to, ![w].n = n]

\* processStk: a prompt that was not paid ends at once, unless the code of its callback
\* is none of the final ones: mpesa_finalize_stk_terminal then records a pending query,
\* and the callback is done with all the same.  A paid prompt is queried first.
TakeEvent(w, n) ==
  /\ worker[w].at = "events" /\ n \in worker[w].todo
  /\ \/ /\ provider[n] = "declined"
        /\ FinalizeTerminal(n) \/ RecordQueryPending(n)
        /\ WorkerTakes(w, "finish", n)
     \/ /\ provider[n] = "paid" /\ UNCHANGED <<checkout, attempts>>
        /\ \E to \in {"settle", "unclear", "retry"} : WorkerTakes(w, to, n)
  /\ UNCHANGED <<inbox, provider, caller, faults>>

SettleEvent(w) ==
  /\ worker[w].at = "settle"
  /\ FinalizeSuccess(worker[w].n)
  /\ WorkerGoes(w, "finish")
  /\ UNCHANGED <<inbox, provider, caller, faults>>

\* fault: a callback whose query is inconclusive is done with
PostponeAsDone(w) ==
  /\ worker[w].at = "unclear"
  /\ RecordQueryPending(worker[w].n)
  /\ WorkerGoes(w, "finish")
  /\ UNCHANGED <<inbox, provider, caller, faults>>

\* processStk throws after recording the pending query, so the event is retried.
PostponeEvent(w) ==
  /\ worker[w].at = "unclear"
  /\ RecordQueryPending(worker[w].n)
  /\ WorkerGoes(w, "retry")
  /\ UNCHANGED <<inbox, provider, caller, faults>>

\* mpesa_complete_provider_event
FinishEvent(w) ==
  LET n == worker[w].n IN
  /\ worker[w].at = "finish"
  /\ IF event[n] = "processing"
     THEN /\ event' = [event EXCEPT ![n] = "processed"]
          /\ evidence' = IF provider[n] = "paid" THEN evidence \union {n} ELSE evidence
          /\ lease' = lease \ {n}
     ELSE UNCHANGED <<event, evidence, lease>>
  /\ NextEvent(w)
  /\ UNCHANGED <<checkout, attempts, eventOld, provider, caller, faults>>

\* mpesa_retry_provider_event, whatever has become of the event since
RetryEvent(w) ==
  LET n == worker[w].n IN
  /\ worker[w].at = "retry"
  /\ event' = [event EXCEPT ![n] = IF n \in eventOld THEN "manual_review" ELSE "retry"]
  /\ lease' = lease \ {n}
  /\ NextEvent(w)
  /\ UNCHANGED <<checkout, attempts, evidence, eventOld, provider, caller, faults>>

ClaimQuery(w) ==
  /\ worker[w].at = "events" /\ worker[w].todo = {}
  /\ \/ /\ Queryable = {} /\ worker' = [worker EXCEPT ![w] = Resting]
        /\ UNCHANGED queryLease
     \/ \E n \in Queryable :
          /\ queryLease' = queryLease \union {n}
          /\ WorkerTakes(w, "query", n)
  /\ UNCHANGED <<checkout, status, bound, old, settled, inbox, provider, caller, faults>>

\* The provider's answer, or none
Query(w) ==
  /\ worker[w].at = "query"
  /\ LET result == provider[worker[w].n] IN
       \/ result = "paid" /\ WorkerGoes(w, "querySettle")
       \/ result = "declined" /\ WorkerGoes(w, "queryEnd")
       \/ WorkerGoes(w, "queryUnclear")
  /\ UNCHANGED <<checkout, attempts, inbox, provider, caller, faults>>

\* processStatusQuery; only a callback tells the receipt.
RecordQuery(w) ==
  LET n == worker[w].n  at == worker[w].at
      trusted == event[n] \in {"queued", "processing", "retry", "processed"} IN
  /\ \/ at = "querySettle" /\ trusted /\ FinalizeSuccess(n)
     \/ at = "querySettle" /\ ~trusted /\ RecordQueryPending(n)
     \/ at = "queryEnd" /\ FinalizeTerminal(n)
     \/ at = "queryUnclear" /\ RecordQueryPending(n)
  /\ worker' = [worker EXCEPT ![w] = Resting]
  /\ UNCHANGED <<inbox, provider, caller, faults>>

\* A database call fails: the event is retried, a query's error is ignored.
FailCall(w) ==
  /\ Fault
  /\ \/ worker[w].at \in {"settle", "unclear", "finish"} /\ WorkerGoes(w, "retry")
     \/ /\ worker[w].at = "events"
        /\ \E n \in worker[w].todo : provider[n] = "declined" /\ WorkerTakes(w, "retry", n)
     \/ worker[w].at \in {"querySettle", "queryEnd", "queryUnclear"}
        /\ worker' = [worker EXCEPT ![w] = Resting]
  /\ UNCHANGED <<checkout, attempts, inbox, provider, caller>>

CrashWorker(w) ==
  /\ worker[w].at # "idle" /\ Fault
  /\ worker' = [worker EXCEPT ![w] = Resting]
  /\ UNCHANGED <<checkout, attempts, inbox, provider, caller>>

(***************************************************************************)
(* Time, the sweep and the reviews.                                         *)
(***************************************************************************)
AgeAttempt(n) ==
  /\ n <= current /\ n \notin old
  /\ old' = old \union {n}
  /\ UNCHANGED <<checkout, status, bound, queryLease, settled, inbox, provider, caller, worker, faults>>

AgeEvent(n) ==
  /\ event[n] # "none" /\ n \in old /\ n \notin eventOld
  /\ eventOld' = eventOld \union {n}
  /\ UNCHANGED <<checkout, attempts, event, evidence, lease, provider, caller, worker, faults>>

\* A lease lasts a minute, whether its worker is dead or slow.
ExpireLease(n) ==
  /\ n \in lease
  /\ lease' = lease \ {n}
  /\ UNCHANGED <<checkout, attempts, event, evidence, eventOld, provider, caller, worker, faults>>

ExpireQueryLease(n) ==
  /\ n \in queryLease
  /\ queryLease' = queryLease \ {n}
  /\ UNCHANGED <<checkout, status, bound, old, settled, inbox, provider, caller, worker, faults>>

\* fault: the sweep looks at attempts that can be queried
SweepBound ==
  /\ \/ /\ intent = "pending" /\ status[current] = "request_unknown"
        /\ current \in bound /\ current \in old
        /\ status' = [status EXCEPT ![current] = "manual_review"] /\ intent' = "review"
     \/ intent = "created" /\ intent' = "ended" /\ UNCHANGED status
  /\ UNCHANGED <<current, fulfilled, bound, old, queryLease, settled, inbox,
                 provider, caller, worker, faults>>

\* sweep_mpesa_processing
Sweep ==
  /\ \/ /\ intent = "pending"
        /\ \/ status[current] = "manual_review"
           \/ status[current] = "request_unknown" /\ current \notin bound /\ current \in old
        /\ status' = [status EXCEPT ![current] = "manual_review"] /\ intent' = "review"
     \/ intent = "created" /\ intent' = "ended" /\ UNCHANGED status
  /\ UNCHANGED <<current, fulfilled, bound, old, queryLease, settled, inbox,
                 provider, caller, worker, faults>>

\* review_mpesa_provider_event
Acknowledge(n) ==
  /\ event[n] = "manual_review" /\ n \in evidence
  /\ event' = [event EXCEPT ![n] = "processed"] /\ lease' = lease \ {n}
  /\ UNCHANGED <<checkout, attempts, evidence, eventOld, provider, caller, worker, faults>>

\* fault: the attempt's status is written to the intent
DismissToAttempt(n) ==
  /\ event[n] = "manual_review" /\ n \notin evidence
  /\ event' = [event EXCEPT ![n] = "dismissed"] /\ lease' = lease \ {n}
  /\ IF fulfilled = 0 THEN intent' = "query_pending" ELSE UNCHANGED intent
  /\ UNCHANGED <<current, fulfilled, attempts, evidence, eventOld, provider, caller, worker, faults>>

Dismiss(n) ==
  /\ event[n] = "manual_review" /\ n \notin evidence
  /\ event' = [event EXCEPT ![n] = "dismissed"] /\ lease' = lease \ {n}
  /\ IF fulfilled = 0
     THEN /\ status' = [status EXCEPT ![n] = IF n \in bound THEN "query_pending" ELSE "request_unknown"]
          /\ intent' = "pending"
     ELSE UNCHANGED <<intent, status>>
  /\ UNCHANGED <<current, fulfilled, bound, old, queryLease, settled, evidence, eventOld,
                 provider, caller, worker, faults>>

ReviewRetry(n) ==
  /\ event[n] = "manual_review" /\ n \notin evidence
  /\ event' = [event EXCEPT ![n] = "retry"] /\ lease' = lease \ {n}
  /\ status' = [status EXCEPT ![n] = "query_pending"]
  /\ queryLease' = queryLease \ {n}
  /\ intent' = IF fulfilled = 0 THEN "pending" ELSE intent
  /\ UNCHANGED <<current, fulfilled, bound, old, settled, evidence, eventOld,
                 provider, caller, worker, faults>>

-----------------------------------------------------------------------------
Calling(c) ==
  \/ Prepare(c) \/ CreateAttempt(c) \/ RefuseAttempt(c) \/ AskProvider(c)
  \/ \E knows \in BOOLEAN : RecordRequest(c, knows)
  \/ FailToRecord(c) \/ RecordUnknown(c) \/ CrashCaller(c)

Working(w) ==
  \/ ClaimEvents(w) \/ SettleEvent(w) \/ PostponeEvent(w) \/ FinishEvent(w)
  \/ RetryEvent(w) \/ ClaimQuery(w) \/ Query(w) \/ RecordQuery(w)
  \/ \E n \in Attempt : TakeEvent(w, n)

Failing(w) == FailCall(w) \/ CrashWorker(w)

Passing(n) == AgeAttempt(n) \/ AgeEvent(n) \/ ExpireLease(n) \/ ExpireQueryLease(n)

Reviewing(n) == Acknowledge(n) \/ Dismiss(n) \/ ReviewRetry(n)

Next ==
  \/ \E c \in Caller : Calling(c)
  \/ \E w \in Worker : Working(w) \/ Failing(w)
  \/ \E n \in Attempt :
       \/ \E result \in {"paid", "declined"} : Decide(n, result)
       \/ Deliver(n) \/ Passing(n) \/ Reviewing(n)
  \/ Sweep

Spec == Init /\ [][Next]_vars

\* Time passes, and the sweep runs every minute and starts workers.  Neither
\* Safaricom, nor staff, nor the client has to do anything.
FairSpec ==
  /\ Spec /\ WF_vars(Sweep)
  /\ \A w \in Worker : WF_vars(Working(w))
  /\ \A n \in Attempt :
       /\ WF_vars(AgeAttempt(n)) /\ WF_vars(AgeEvent(n))
       /\ WF_vars(ExpireLease(n)) /\ WF_vars(ExpireQueryLease(n))

(***************************************************************************)
(* Properties.                                                              *)
(***************************************************************************)

\* A customer is asked again only when every earlier prompt is known to have come
\* to nothing, whatever crashed, was late or was processed twice (0119:970).
ChargeableMeansUnpaid ==
  Chargeable => \A n \in Attempt : provider[n] \in {"unasked", "declined"}

\* No callback of a payment is put away as processed before its money is recorded,
\* whatever the query said and whoever else worked on the event.
ProcessedMoneyIsKept ==
  \A n \in Attempt : event[n] = "processed" /\ provider[n] = "paid" => n \in settled

\* "moves unresolved work to review after 15 minutes" (MPESA_INTEGRATION.md:62):
\* an attempt that someone still asks about does not leave its intent pending for
\* ever, with callbacks lost, workers dead and leases run out.
PendingResolves ==
  (intent = "pending" /\ status[current] \notin {"ended", "requesting"})
     ~> intent # "pending"

\* A stored callback is processed or ends on a reviewer's list, although the worker
\* that leased it may die and others may repeat its work.
EventResolves ==
  \A n \in Attempt :
    event[n] = "queued" ~> event[n] \in {"processed", "manual_review", "dismissed"}
=============================================================================
