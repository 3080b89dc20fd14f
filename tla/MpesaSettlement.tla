-------------------------- MODULE MpesaSettlement --------------------------
(***************************************************************************)
(* The settlement half of the M-PESA integration: the rows that             *)
(* supabase/migrations/20260818000021_0119_mpesa_collections.sql keeps for   *)
(* payment intents, STK attempts, received collections, their allocations,  *)
(* late-posting reviews and provider reversals, and every database function *)
(* that changes them.  One action is one call of one function, that is one  *)
(* transaction; a transaction that raises leaves no trace and is not a step.*)
(*                                                                          *)
(* Nothing is assumed here about who calls the functions and when: provider *)
(* answers may come late, twice, or after the intent has moved on.  Module   *)
(* MpesaProcessing adds the callers.                                        *)
(*                                                                          *)
(* Abstractions.  One company with cash control on, one location and one    *)
(* active provider account.  An allocation is always for the whole          *)
(* collection, as in every INSERT of the source.  Verification is reduced   *)
(* to disputed or not; the classifications test, refunded and non_business  *)
(* to "closed"; review_reason to whether it is 'accounting_post_failed'.    *)
(* The provider reports one amount and one time for a receipt, so only a    *)
(* hand-typed receipt can disagree with it.                                 *)
(*                                                                          *)
(* An operator marked "fault:" is a plausible mistake in the definition     *)
(* that follows it.  Nothing here uses it; PROJECT.json pairs it with the   *)
(* property that must notice it.                                            *)
(***************************************************************************)
EXTENDS Integers, FiniteSets

CONSTANTS
  Orders,            \* orders that can be paid
  CustomerReceipts,  \* customer receipt rows that can be created
  Intents,           \* payment intents (one per client_ref)
  Receipts,          \* provider receipt numbers
  None,
  SubjectOf,         \* intent -> the order or customer receipt it pays
  Price,             \* intent -> the M-PESA part of its amount
  Total,             \* subject -> its total
  Paid,              \* receipt -> the amount the provider received
  StkOrigin,         \* receipt -> <<intent, attempt>> that paid it, or None
  ManualFallbackAllowed,   \* the platform setting of that name
  MaxAttempts, MaxTill, MaxDay

Subjects == Orders \union CustomerReceipts
AttemptNumbers == 1..MaxAttempts

ASSUME ConstantsAssumption ==
  /\ Orders \intersect CustomerReceipts = {}
  /\ None \notin Subjects \union Intents \union Receipts
  /\ SubjectOf \in [Intents -> Subjects]
  /\ Price \in [Intents -> Nat \ {0}]
  /\ Total \in [Subjects -> Nat \ {0}]
  /\ Paid \in [Receipts -> Nat \ {0}]
  /\ StkOrigin \in [Receipts -> (Intents \X AttemptNumbers) \union {None}]
  /\ ManualFallbackAllowed \in BOOLEAN
  /\ MaxAttempts \in Nat \ {0} /\ MaxTill \in Nat \ {0} /\ MaxDay \in Nat \ {0}
  /\ \A i \in Intents : /\ Price[i] <= Total[SubjectOf[i]]
                        /\ SubjectOf[i] \in CustomerReceipts => Price[i] = Total[SubjectOf[i]]

VARIABLES
  subject,   \* orders.status or customer_receipts.status, and the till it belongs to
  intent,    \* mpesa_payment_intents
  attempt,   \* mpesa_payment_attempts.status, by intent and attempt number
  bound,     \* the attempts whose checkout_request_id is known
  flagged,   \* the attempts with a callback event in manual_review
  coll,      \* payment_collections
  alloc,     \* payment_collection_allocations.status, by receipt and subject
  review,    \* mpesa_late_posting_reviews, by receipt and subject
  reversal,  \* payment_collection_reversals.status, by receipt
  till,      \* the latest cashier session of the location
  today,     \* the business date
  lockEnd    \* period_locks.lock_end_date, 0 when nothing is locked

provider == <<intent, attempt, bound, flagged>>
money    == <<coll, alloc, review, reversal>>
books    == <<till, today, lockEnd>>
vars     == <<subject, provider, money, books>>

IntentStatus == {"absent", "created", "requesting", "pending", "awaiting_cash",
                 "completed", "cancelled", "expired", "failed", "manual_review"}
AttemptStatus == {"none", "requesting", "prompt_sent", "request_unknown", "query_pending",
                  "paid", "cancelled", "expired", "failed", "manual_review"}
SubjectStatus == {"absent", "pending", "posted", "voided", "cancelled", "reversed"}
Terminal == {"cancelled", "expired", "failed"}

SubjectRow == [status : SubjectStatus, till : 0..MaxTill]
IntentRow == [status : IntentStatus, cur : 0..MaxAttempts, fulfilled : Receipts \union {None},
              postFailed : BOOLEAN, till : 0..MaxTill]
ReviewRow == [status : {"none", "pending", "approved", "rejected"}, intent : Intents \union {None}]
AllocationStatus == {"none", "reserved", "posted", "released", "reversed"}
Row == [provider : {"absent", "received", "reversed"}, amount : Nat, day : 0..MaxDay,
        manual : BOOLEAN, disputed : BOOLEAN, class : {"none", "surplus", "closed"},
        allocation : {"unallocated", "reserved", "allocated", "reversed"},
        intent : Intents \union {None}]

TypeOK ==
  /\ subject \in [Subjects -> SubjectRow]
  /\ intent \in [Intents -> IntentRow]
  /\ attempt \in [Intents -> [AttemptNumbers -> AttemptStatus]]
  /\ bound \subseteq Intents \X AttemptNumbers
  /\ flagged \subseteq Intents \X AttemptNumbers
  /\ coll \in [Receipts -> Row]
  /\ alloc \in [Receipts -> [Subjects -> AllocationStatus]]
  /\ review \in [Receipts -> [Subjects -> ReviewRow]]
  /\ reversal \in [Receipts -> {"none", "accounting_pending", "completed"}]
  /\ till \in [n : 0..MaxTill, open : BOOLEAN]
  /\ today \in 1..MaxDay
  /\ lockEnd \in 0..MaxDay

Init ==
  /\ subject = [s \in Subjects |-> [status |-> "absent", till |-> 0]]
  /\ intent = [i \in Intents |-> [status |-> "absent", cur |-> 0, fulfilled |-> None,
                                  postFailed |-> FALSE, till |-> 0]]
  /\ attempt = [i \in Intents |-> [n \in AttemptNumbers |-> "none"]]
  /\ bound = {} /\ flagged = {}
  /\ coll = [r \in Receipts |-> [provider |-> "absent", amount |-> 0, day |-> 0,
                                 manual |-> FALSE, disputed |-> FALSE, class |-> "none",
                                 allocation |-> "unallocated", intent |-> None]]
  /\ alloc = [r \in Receipts |-> [s \in Subjects |-> "none"]]
  /\ review = [r \in Receipts |-> [s \in Subjects |-> [status |-> "none", intent |-> None]]]
  /\ reversal = [r \in Receipts |-> "none"]
  /\ till = [n |-> 0, open |-> FALSE]
  /\ today = 1 /\ lockEnd = 0

-----------------------------------------------------------------------------
(* Shared conditions.                                                        *)

Resolved == {"absent", "completed"} \union Terminal
Unresolved(i) == intent[i].status \notin Resolved

\* mpesa_intent_one_unresolved_subject: a write that leaves i unresolved raises
\* while another intent of the same subject is unresolved.
IndexAdmits(i) ==
  \A j \in Intents \ {i} : SubjectOf[j] = SubjectOf[i] => ~Unresolved(j)

Split(i) == Price[i] < Total[SubjectOf[i]]
Current(i, n) == n # 0 /\ intent[i].cur = n
Exists(i, n) == attempt[i][n] # "none"

Active == {"reserved", "posted"}
Overallocated(r) == \E s \in Subjects : alloc[r][s] \in Active

DerivedStatus(c, allocs) ==
  IF c.provider = "reversed" THEN "reversed"
  ELSE IF \E s \in Subjects : allocs[s] = "posted" THEN "allocated"
  ELSE IF \E s \in Subjects : allocs[s] = "reserved" THEN "reserved"
  ELSE "unallocated"

\* fault: refresh_payment_collection_status is not called.
NotRefreshed(c, allocs) == c

Refreshed(c, allocs) == [c EXCEPT !.allocation = DerivedStatus(c, allocs)]

Surplus(c) == IF c.allocation = "unallocated" THEN [c EXCEPT !.class = "surplus"] ELSE c
ClearSurplus(c) == IF c.class = "surplus" THEN [c EXCEPT !.class = "none"] ELSE c

PostingDayOpen(d) == d > lockEnd

\* fault: the order may have been settled or voided meanwhile.
PostableTwice(c, s) == c.provider = "received" /\ ~c.disputed

\* fault: the provider may have taken the money back meanwhile.
PostableWhenGone(c, s) == ~c.disputed /\ subject[s].status = "pending"

\* mpesa_post_reserved_allocation of collection row c to subject s can succeed.
Postable(c, s) ==
  /\ c.provider = "received" /\ ~c.disputed
  /\ subject[s].status = "pending" \/ (s \in CustomerReceipts /\ subject[s].status = "posted")

Marked(s, status) == [subject EXCEPT ![s].status = status]
Settled(s) == Marked(s, "posted")

Reviewed(r, s, status, i) == [review EXCEPT ![r][s] = [status |-> status, intent |-> i]]
Moved(i, status) == [intent EXCEPT ![i].status = status]
Served(i, status, r) == [intent EXCEPT ![i] = [@ EXCEPT !.status = status, !.fulfilled = r]]

-----------------------------------------------------------------------------
(* mpesa_upsert_collection: the canonical row of a provider receipt.         *)

TimeConflict(c, isManual) ==
  /\ c.manual \/ isManual
  /\ ~(c.manual /\ ~isManual /\ c.allocation = "unallocated")

Conflict(r, amount, isManual) ==
  /\ coll[r].provider # "absent"
  /\ coll[r].amount # amount \/ TimeConflict(coll[r], isManual)

\* fault: a repeated notification overwrites the row.
Overwritten(r, amount, d, source, i) ==
  [provider |-> "received", amount |-> amount, day |-> d, manual |-> source = "manual",
   disputed |-> FALSE, class |-> "none", allocation |-> "unallocated", intent |-> i]

Upserted(r, amount, d, source, i) ==
  IF coll[r].provider = "absent"
  THEN [provider |-> "received", amount |-> amount, day |-> d, manual |-> source = "manual",
        disputed |-> FALSE, class |-> "none", allocation |-> "unallocated", intent |-> i]
  ELSE [coll[r] EXCEPT !.day = IF coll[r].manual /\ source # "manual" THEN d ELSE @,
                       !.manual = @ /\ source = "manual",
                       !.disputed = @ /\ source # "stk",
                       !.intent = IF @ = None THEN i ELSE @]

\* fault: the status is left as it was.
NotToReview(i, r, failed) ==
  [intent EXCEPT ![i] = [@ EXCEPT !.fulfilled = r, !.postFailed = failed]]

\* fault: fulfilled_collection_id is not recorded.
ToReviewUnnamed(i, r, failed) ==
  [intent EXCEPT ![i] = [@ EXCEPT !.status = "manual_review", !.postFailed = failed]]

ToReview(i, r, failed) ==
  [intent EXCEPT ![i] = [@ EXCEPT !.status = "manual_review", !.fulfilled = r,
                                  !.postFailed = failed]]

\* The conflicting notification disputes the row and reopens the intent it
\* names, or else the intent of the row, unless that intent has ended unpaid.
Dispute(r, named) ==
  LET i == IF named # None THEN named ELSE coll[r].intent IN
  /\ coll' = [coll EXCEPT ![r].disputed = TRUE]
  /\ \/ /\ i = None \/ intent[i].status \in Terminal
        /\ UNCHANGED intent
     \/ /\ i # None /\ intent[i].status \notin Terminal
        /\ IndexAdmits(i)
        /\ intent' = ToReview(i, intent[i].fulfilled, FALSE)
  /\ UNCHANGED <<subject, alloc, review, reversal>>

-----------------------------------------------------------------------------
(* mpesa_apply_collection_to_intent: c is the collection row and atts the    *)
(* attempts as the caller has just left them.                                *)

\* fault: money for the current attempt is taken whatever the intent already has.
AwaitedAlways(i, n, r) == intent[i].cur = n

Awaited(i, n, r) == intent[i].cur = n /\ intent[i].fulfilled \in {None, r}
Genuine(i, c) == c.amount = Price[i] /\ ~c.disputed
\* fault: a completed intent receives money again.
ReceivingAgain ==
  {"created", "requesting", "pending", "awaiting_cash", "manual_review", "completed"}

Receiving == {"created", "requesting", "pending", "awaiting_cash", "manual_review"}

ApplyToStaleAttempt(i, n, r, c, atts) ==
  /\ intent[i].cur # n /\ intent[i].fulfilled = None
  /\ IndexAdmits(i)
  /\ intent' = ToReview(i, r, FALSE)
  /\ attempt' = [atts EXCEPT ![i][intent[i].cur] =
                   IF @ \in {"paid"} \union Terminal THEN @ ELSE "manual_review"]
  /\ coll' = [coll EXCEPT ![r] = c]
  /\ UNCHANGED <<subject, alloc, review>>

KeepAsSurplus(i, n, r, c, atts) ==
  /\ \/ intent[i].cur # n /\ intent[i].fulfilled # None
     \/ intent[i].cur = n /\ intent[i].fulfilled \notin {None, r}
     \/ Awaited(i, n, r) /\ Genuine(i, c) /\ intent[i].status \in Terminal
  /\ coll' = [coll EXCEPT ![r] = Surplus(c)]
  /\ attempt' = atts
  /\ UNCHANGED <<subject, intent, alloc, review>>

ApplyDisputed(i, n, r, c, atts) ==
  /\ Awaited(i, n, r) /\ ~Genuine(i, c)
  /\ IndexAdmits(i)
  /\ intent' = ToReview(i, r, FALSE)
  /\ coll' = [coll EXCEPT ![r] = [c EXCEPT !.disputed = TRUE]]
  /\ attempt' = atts
  /\ UNCHANGED <<subject, alloc, review>>

ApplyAgain(i, n, r, c, atts) ==
  /\ Awaited(i, n, r) /\ Genuine(i, c) /\ intent[i].status = "completed"
  /\ coll' = [coll EXCEPT ![r] = c]
  /\ attempt' = atts
  /\ UNCHANGED <<subject, intent, alloc, review>>

\* The INSERT of a reservation fires enforce_collection_allocation_total before
\* ON CONFLICT is considered, so it raises while any allocation is active.
Reservable(i, n, r, c) ==
  /\ Awaited(i, n, r) /\ Genuine(i, c) /\ intent[i].status \in Receiving
  /\ ~Overallocated(r)

Allocate(r, s, status, c) ==
  LET allocs == [alloc EXCEPT ![r][s] = status] IN
  /\ alloc' = allocs
  /\ coll' = [coll EXCEPT ![r] = Refreshed(c, allocs[r])]

ReserveForCash(i, n, r, c, atts) ==
  /\ Reservable(i, n, r, c) /\ Split(i)
  /\ Allocate(r, SubjectOf[i], "reserved", c)
  /\ intent' = Served(i, IF intent[i].status = "manual_review" THEN "manual_review"
                         ELSE "awaiting_cash", r)
  /\ attempt' = atts
  /\ UNCHANGED <<subject, review>>

ReserveForLateReview(i, n, r, c, atts) ==
  /\ Reservable(i, n, r, c) /\ ~Split(i) /\ ~PostingDayOpen(c.day)
  /\ Allocate(r, SubjectOf[i], "reserved", c)
  /\ review' = Reviewed(r, SubjectOf[i], "pending", i)
  /\ intent' = ToReview(i, r, FALSE)
  /\ attempt' = atts
  /\ UNCHANGED subject

PostAtOnce(i, n, r, c, atts) ==
  /\ Reservable(i, n, r, c) /\ ~Split(i) /\ PostingDayOpen(c.day)
  /\ Postable(c, SubjectOf[i])
  /\ Allocate(r, SubjectOf[i], "posted", c)
  /\ subject' = Settled(SubjectOf[i])
  /\ intent' = Served(i, "completed", r)
  /\ attempt' = atts
  /\ UNCHANGED review

\* Any accounting error: stock, accounts, approvals or a subject settled meanwhile.
PostingFails(i, n, r, c, atts) ==
  /\ Reservable(i, n, r, c) /\ ~Split(i) /\ PostingDayOpen(c.day)
  /\ Allocate(r, SubjectOf[i], "reserved", c)
  /\ intent' = ToReview(i, r, TRUE)
  /\ attempt' = atts
  /\ UNCHANGED <<subject, review>>

Apply(i, n, r, c, atts) ==
  /\ \/ ApplyToStaleAttempt(i, n, r, c, atts)
     \/ KeepAsSurplus(i, n, r, c, atts)
     \/ ApplyDisputed(i, n, r, c, atts)
     \/ ApplyAgain(i, n, r, c, atts)
     \/ ReserveForCash(i, n, r, c, atts)
     \/ ReserveForLateReview(i, n, r, c, atts)
     \/ PostAtOnce(i, n, r, c, atts)
     \/ PostingFails(i, n, r, c, atts)
  /\ UNCHANGED reversal

-----------------------------------------------------------------------------
(* Checkout: intents and STK attempts.                                       *)

\* create_mpesa_payment_intent, for a new client_ref.  Workflow 'sale' creates
\* the order in the same transaction, 'order' takes an existing one.
CreateIntent(i) ==
  LET s == SubjectOf[i] IN
  /\ intent[i].status = "absent" /\ till.open
  /\ \/ s \in Orders /\ subject[s].status = "absent"
     \/ s \in Orders /\ subject[s].status = "pending" /\ subject[s].till \in {0, till.n}
     \/ s \in CustomerReceipts /\ subject[s].status = "absent"
  /\ IndexAdmits(i)
  /\ subject' = [subject EXCEPT ![s] = [status |-> "pending", till |-> till.n]]
  /\ intent' = [intent EXCEPT ![i] = [@ EXCEPT !.status = "created", !.till = till.n]]
  /\ UNCHANGED <<attempt, bound, flagged, money, books>>

\* create_mpesa_payment_attempt
CreateAttempt(i) ==
  LET n == intent[i].cur + 1 IN
  /\ intent[i].status \in {"created"} \union Terminal
  /\ intent[i].status # "created" => IndexAdmits(i)
  /\ intent[i].fulfilled = None
  /\ \A r \in Receipts : ~(coll[r].intent = i /\ coll[r].provider = "received")
  /\ n <= MaxAttempts
  /\ intent' = [intent EXCEPT ![i] = [@ EXCEPT !.status = "requesting", !.cur = n,
                                               !.postFailed = FALSE]]
  /\ attempt' = [attempt EXCEPT ![i][n] = "requesting"]
  /\ UNCHANGED <<subject, bound, flagged, money, books>>

\* mpesa_record_stk_request: the provider's answer to the request, with a
\* checkout reference when known is true.
RecordStkRequest(i, n, answer, known) ==
  /\ Current(i, n) /\ intent[i].status = "requesting"
  /\ answer \in {"prompt_sent", "request_unknown"} \union Terminal
  /\ answer = "prompt_sent" => known
  /\ attempt' = [attempt EXCEPT ![i][n] = answer]
  /\ bound' = IF known THEN bound \union {<<i, n>>} ELSE bound \ {<<i, n>>}
  /\ intent' = Moved(i, IF answer \in Terminal THEN answer ELSE "pending")
  /\ UNCHANGED <<subject, flagged, money, books>>

\* fault: the attempt's status is written to the intent.
RecordUnknownOnIntent(i, n) ==
  /\ Current(i, n) /\ intent[i].status = "requesting"
  /\ intent' = Moved(i, "request_unknown")
  /\ UNCHANGED <<subject, attempt, bound, flagged, money, books>>

\* mpesa_record_request_unknown
RecordRequestUnknown(i, n) ==
  /\ Current(i, n) /\ intent[i].status = "requesting"
  /\ attempt' = [attempt EXCEPT ![i][n] = "request_unknown"]
  /\ intent' = Moved(i, "pending")
  /\ UNCHANGED <<subject, bound, flagged, money, books>>

-----------------------------------------------------------------------------
(* Callbacks, status queries and the minute sweep.                           *)

\* mpesa_ingest_provider_event: the first callback of an attempt whose checkout
\* reference is not known yet supplies it.
BindCallback(i, n) ==
  /\ Exists(i, n) /\ <<i, n>> \notin bound
  /\ bound' = bound \union {<<i, n>>}
  /\ attempt' = [attempt EXCEPT ![i][n] =
                   IF @ \in {"requesting", "request_unknown"} THEN "query_pending" ELSE @]
  /\ intent' = IF Current(i, n) /\ intent[i].status = "requesting"
               THEN Moved(i, "pending") ELSE intent
  /\ UNCHANGED <<subject, flagged, money, books>>

\* mpesa_ingest_provider_event: a callback whose reference is another one.
ConflictingCallback(i, n) ==
  /\ Exists(i, n)
  /\ intent[i].status # "completed" => IndexAdmits(i)
  /\ flagged' = flagged \union {<<i, n>>}
  /\ attempt' = [attempt EXCEPT ![i][n] = "manual_review"]
  /\ intent' = IF intent[i].status = "completed" THEN intent
               ELSE ToReview(i, intent[i].fulfilled, FALSE)
  /\ UNCHANGED <<subject, bound, money, books>>

\* mpesa_retry_provider_event once the event is 15 minutes old, or a second
\* callback with another payload.
GiveUpEvent(i, n) ==
  /\ Exists(i, n) /\ <<i, n>> \in bound \ flagged
  /\ flagged' = flagged \union {<<i, n>>}
  /\ UNCHANGED <<subject, intent, attempt, bound, money, books>>

\* fault: an intent that has its money resumes too.
ResumesPaid(i) == intent[i].status # "completed"

\* A reviewed event puts its intent back into the provider query.
Resumes(i) == intent[i].status # "completed" /\ intent[i].fulfilled = None

\* review_mpesa_provider_event on an event without money evidence:
\* 'dismiss_no_money' resumes the provider query, 'retry' adopts the reference.
ReviewEvent(i, n, adopt) ==
  /\ <<i, n>> \in flagged
  /\ Resumes(i) => IndexAdmits(i)
  /\ flagged' = flagged \ {<<i, n>>}
  /\ bound' = IF adopt THEN bound \union {<<i, n>>} ELSE bound
  /\ attempt' = IF ~adopt /\ ~Resumes(i) THEN attempt
                ELSE [attempt EXCEPT ![i][n] =
                        IF <<i, n>> \in bound' THEN "query_pending" ELSE "request_unknown"]
  /\ intent' = IF Resumes(i)
               THEN [intent EXCEPT ![i] = [@ EXCEPT !.status = "pending", !.postFailed = FALSE]]
               ELSE intent
  /\ UNCHANGED <<subject, money, books>>

\* mpesa_finalize_stk_success
FinalizeSuccess(i, n, r, d) ==
  /\ StkOrigin[r] = <<i, n>> /\ Exists(i, n)
  /\ \/ /\ Conflict(r, Paid[r], FALSE)
        /\ Dispute(r, i)
        /\ attempt' = [attempt EXCEPT ![i][n] = "manual_review"]
     \/ /\ ~Conflict(r, Paid[r], FALSE)
        /\ Apply(i, n, r, Upserted(r, Paid[r], d, "stk", i), [attempt EXCEPT ![i][n] = "paid"])
  /\ UNCHANGED <<bound, flagged, books>>

\* mpesa_finalize_stk_terminal
FinalizeTerminal(i, n, outcome) ==
  /\ Exists(i, n) /\ Current(i, n) /\ intent[i].fulfilled = None
  /\ outcome \in Terminal
  /\ attempt' = [attempt EXCEPT ![i][n] = outcome]
  /\ intent' = IF intent[i].status = "pending" THEN Moved(i, outcome) ELSE intent
  /\ UNCHANGED <<subject, bound, flagged, money, books>>

\* mpesa_record_query_pending; aged is true once the attempt is 15 minutes old.
RecordQueryPending(i, n, aged) ==
  /\ Exists(i, n)
  /\ attempt' = [attempt EXCEPT ![i][n] = IF aged THEN "manual_review" ELSE "query_pending"]
  /\ intent' = IF aged /\ Current(i, n) /\ intent[i].status = "pending"
               THEN ToReview(i, intent[i].fulfilled, FALSE) ELSE intent
  /\ UNCHANGED <<subject, bound, flagged, money, books>>

\* sweep_mpesa_processing; aged is the set of intents whose current attempt is
\* 15 minutes old or, when still created, that have expired.
Sweep(aged) ==
  LET Cur(i) == intent[i].cur
      unanswered == {i \in aged : /\ intent[i].status = "pending" /\ Cur(i) # 0
                                  /\ attempt[i][Cur(i)] = "request_unknown"
                                  /\ <<i, Cur(i)>> \notin bound}
      stuck == {i \in Intents : /\ intent[i].status = "pending" /\ Cur(i) # 0
                                /\ i \in unanswered \/ attempt[i][Cur(i)] = "manual_review"}
  IN
  /\ attempt' = [i \in Intents |-> IF i \in unanswered
                                   THEN [attempt[i] EXCEPT ![Cur(i)] = "manual_review"]
                                   ELSE attempt[i]]
  /\ intent' = [i \in Intents |->
                  IF i \in stuck
                  THEN [intent[i] EXCEPT !.status = "manual_review", !.postFailed = FALSE]
                  ELSE IF i \in aged /\ intent[i].status = "created" /\ intent[i].fulfilled = None
                  THEN [intent[i] EXCEPT !.status = "expired"]
                  ELSE intent[i]]
  /\ UNCHANGED <<subject, bound, flagged, money, books>>

\* mpesa_record_c2b_collection: evidence only, nothing is applied.
RecordC2b(r, d) ==
  /\ \/ Conflict(r, Paid[r], FALSE) /\ Dispute(r, None)
     \/ /\ ~Conflict(r, Paid[r], FALSE)
        /\ coll' = [coll EXCEPT ![r] = Upserted(r, Paid[r], d, "c2b", None)]
        /\ UNCHANGED <<subject, intent, alloc, review, reversal>>
  /\ UNCHANGED <<attempt, bound, flagged, books>>

\* declare_mpesa_manual_fallback: the cashier types receipt r; its time is now.
ManualFallback(i, r) ==
  /\ ManualFallbackAllowed
  /\ intent[i].status = "created" /\ intent[i].cur = 0
  /\ \/ Conflict(r, Price[i], TRUE) /\ Dispute(r, i) /\ UNCHANGED attempt
     \/ /\ ~Conflict(r, Price[i], TRUE)
        /\ Apply(i, 0, r, Upserted(r, Price[i], today, "manual", i), attempt)
  /\ UNCHANGED <<bound, flagged, books>>

-----------------------------------------------------------------------------
(* Settlement by staff.                                                      *)

\* finalize_mpesa_cash_split: only in the till that started the sale.
CashSplit(i) ==
  LET r == intent[i].fulfilled
      s == SubjectOf[i] IN
  /\ intent[i].status = "awaiting_cash" /\ Split(i) /\ s \in Orders
  /\ alloc[r][s] = "reserved"
  /\ till.open /\ till.n = intent[i].till
  /\ PostingDayOpen(today) /\ Postable(coll[r], s)
  /\ Allocate(r, s, "posted", coll[r])
  /\ subject' = Settled(s)
  /\ intent' = Moved(i, "completed")
  /\ UNCHANGED <<attempt, bound, flagged, review, reversal, books>>

\* fault: any posted money of an intent under review completes it.
CompletedByAny(r) ==
  [i \in Intents |->
     IF coll[r].intent = i /\ intent[i].status = "manual_review"
     THEN [intent[i] EXCEPT !.status = "completed", !.postFailed = FALSE]
     ELSE intent[i]]

\* The intents that allocate_mpesa_collection and review_mpesa_late_posting
\* complete because the money that fulfilled them has been posted.
CompletedBy(r) ==
  [i \in Intents |->
     IF coll[r].intent = i /\ intent[i].status = "manual_review" /\ intent[i].fulfilled = r
     THEN [intent[i] EXCEPT !.status = "completed", !.postFailed = FALSE]
     ELSE intent[i]]

\* allocate_mpesa_collection to an unpaid order or to a new customer receipt.
AllocateCollection(r, s) ==
  LET opened == IF s \in Orders THEN subject
                ELSE [subject EXCEPT ![s] = [status |-> "pending", till |-> till.n]] IN
  /\ coll[r].provider = "received" /\ ~coll[r].disputed
  /\ coll[r].allocation = "unallocated" /\ coll[r].class \in {"none", "surplus"}
  /\ ~Overallocated(r)
  /\ Total[s] = coll[r].amount
  /\ \/ s \in Orders /\ subject[s].status = "pending"
     \/ /\ s \in CustomerReceipts /\ subject[s].status = "absent"
        /\ \A i \in Intents : SubjectOf[i] # s
  /\ till.open
  /\ \/ /\ ~PostingDayOpen(coll[r].day)
        /\ Allocate(r, s, "reserved", coll[r])
        /\ review' = Reviewed(r, s, "pending", None)
        /\ subject' = opened
        /\ UNCHANGED intent
     \/ /\ PostingDayOpen(coll[r].day)
        /\ Allocate(r, s, "posted", ClearSurplus(coll[r]))
        /\ subject' = [opened EXCEPT ![s].status = "posted"]
        /\ intent' = CompletedBy(r)
        /\ UNCHANGED review
  /\ UNCHANGED <<attempt, bound, flagged, reversal, books>>

\* review_mpesa_late_posting, approved: posts on today's date.
ApproveLate(r, s) ==
  LET i == review[r][s].intent IN
  /\ review[r][s].status = "pending" /\ alloc[r][s] = "reserved"
  /\ PostingDayOpen(today) /\ Postable(coll[r], s)
  /\ i # None => intent[i].status = "manual_review"
  /\ Allocate(r, s, "posted", ClearSurplus(coll[r]))
  /\ subject' = Settled(s)
  /\ review' = Reviewed(r, s, "approved", i)
  /\ intent' = IF i = None THEN CompletedBy(r)
               ELSE Served(i, "completed", r)
  /\ UNCHANGED <<attempt, bound, flagged, reversal, books>>

\* fault: the review stays pending.
RejectLateUndecided(r, s) ==
  /\ review[r][s].status = "pending" /\ alloc[r][s] = "reserved"
  /\ Allocate(r, s, "released", coll[r])
  /\ UNCHANGED <<subject, review, provider, reversal, books>>

\* review_mpesa_late_posting, rejected: the money goes back to reconciliation.
RejectLate(r, s) ==
  LET i == review[r][s].intent IN
  /\ review[r][s].status = "pending" /\ alloc[r][s] = "reserved"
  /\ Allocate(r, s, "released", coll[r])
  /\ subject' = IF s \in CustomerReceipts /\ subject[s].status = "pending"
                THEN Marked(s, "cancelled") ELSE subject
  /\ review' = Reviewed(r, s, "rejected", i)
  /\ intent' = IF i = None THEN intent ELSE [intent EXCEPT ![i].postFailed = FALSE]
  /\ UNCHANGED <<attempt, bound, flagged, reversal, books>>

\* retry_mpesa_collection_posting
RetryPosting(i, r) ==
  /\ coll[r].intent = i /\ intent[i].status = "manual_review" /\ intent[i].postFailed
  /\ Apply(i, intent[i].cur, r, coll[r], attempt)
  /\ UNCHANGED <<bound, flagged, books>>

\* classify_mpesa_collection as test, refunded or non_business
Classify(r) ==
  /\ coll[r].provider # "absent" /\ coll[r].allocation = "unallocated"
  /\ coll' = [coll EXCEPT ![r].class = "closed"]
  /\ UNCHANGED <<subject, provider, alloc, review, reversal, books>>

-----------------------------------------------------------------------------
(* Reversals and voids.  sync_reversed_collection_allocation follows the     *)
(* cancellation of a payment: with provider evidence the allocation is       *)
(* reversed and the money gone, without it the allocation is only released.  *)

TakenBack(c) == [c EXCEPT !.provider = "reversed", !.allocation = "reversed", !.class = "closed"]

Unwound(rs, s) ==
  /\ alloc' = [r \in Receipts |->
                 IF r \notin rs THEN alloc[r]
                 ELSE [alloc[r] EXCEPT ![s] = IF reversal'[r] # "none" THEN "reversed"
                                              ELSE "released"]]
  /\ coll' = [r \in Receipts |->
                IF r \notin rs THEN coll[r]
                ELSE IF reversal'[r] # "none"
                THEN TakenBack(coll[r])
                ELSE Refreshed(coll[r], alloc'[r])]

PostedTo(s) == {r \in Receipts : alloc[r][s] = "posted"}

\* A customer receipt ends with its payment, an order stays completed.
Unpaid(s) == IF s \in CustomerReceipts THEN Marked(s, "reversed") ELSE subject

\* The payment of r to s is reversed in the books, on today's date.
ReversePosting(r, s) ==
  /\ alloc[r][s] = "posted" /\ PostingDayOpen(today)
  /\ reversal' = [reversal EXCEPT ![r] = IF @ = "none" THEN @ ELSE "completed"]
  /\ Unwound({r}, s)
  /\ subject' = Unpaid(s)
  /\ UNCHANGED <<provider, review, books>>

\* request_mpesa_reversal: the provider has sent the money back.  Whoever may
\* reverse orders reverses the posting at once, others ask for approval.
RequestReversal(r, mayReverse) ==
  /\ coll[r].provider # "absent"
  /\ IF \E s \in Subjects : alloc[r][s] = "posted"
     THEN \E s \in Subjects :
            /\ alloc[r][s] = "posted"
            /\ \/ /\ mayReverse /\ PostingDayOpen(today)
                  /\ reversal' = [reversal EXCEPT ![r] = "completed"]
                  /\ Unwound({r}, s)
                  /\ subject' = Unpaid(s)
               \/ /\ ~mayReverse
                  /\ reversal' = [reversal EXCEPT ![r] = "accounting_pending"]
                  /\ coll' = [coll EXCEPT ![r] = TakenBack(@)]
                  /\ UNCHANGED <<subject, alloc>>
     ELSE /\ reversal' = [reversal EXCEPT ![r] = "completed"]
          /\ coll' = [coll EXCEPT ![r] = TakenBack(@)]
          /\ UNCHANGED <<subject, alloc>>
  /\ UNCHANGED <<provider, review, books>>

\* do_void: every payment of the completed order is cancelled.
VoidOrder(s) ==
  /\ s \in Orders /\ subject[s].status = "posted" /\ PostingDayOpen(today)
  /\ reversal' = [r \in Receipts |-> IF r \in PostedTo(s) /\ reversal[r] # "none"
                                     THEN "completed" ELSE reversal[r]]
  /\ Unwound(PostedTo(s), s)
  /\ subject' = Marked(s, "voided")
  /\ UNCHANGED <<provider, review, books>>

-----------------------------------------------------------------------------
(* The rest of the back office, as far as it touches these rows.             *)

\* complete_order through settle_order: the order is paid in another way.
SettleOtherwise(s) ==
  /\ s \in Orders /\ subject[s].status = "pending"
  /\ till.open /\ subject[s].till \in {0, till.n} /\ PostingDayOpen(today)
  /\ subject' = [subject EXCEPT ![s] = [status |-> "posted", till |-> till.n]]
  /\ UNCHANGED <<provider, money, books>>

\* void_approval_held_order
VoidHeldOrder(s) ==
  /\ s \in Orders /\ subject[s].status = "pending"
  /\ subject' = Marked(s, "voided")
  /\ UNCHANGED <<provider, money, books>>

OpenTill ==
  /\ ~till.open /\ till.n < MaxTill
  /\ till' = [n |-> till.n + 1, open |-> TRUE]
  /\ UNCHANGED <<subject, provider, money, today, lockEnd>>

CloseTill ==
  /\ till.open
  /\ till' = [till EXCEPT !.open = FALSE]
  /\ UNCHANGED <<subject, provider, money, today, lockEnd>>

NextDay ==
  /\ today < MaxDay
  /\ today' = today + 1
  /\ UNCHANGED <<subject, provider, money, till, lockEnd>>

\* period_close_readiness, as far as these rows block a close.
ReadyToClose ==
  /\ ~till.open /\ flagged = {}
  /\ \A i \in Intents : ~Unresolved(i)
  /\ \A r \in Receipts :
       /\ reversal[r] # "accounting_pending"
       /\ \A s \in Subjects : review[r][s].status # "pending"
       /\ coll[r].provider = "received" /\ ~coll[r].manual /\ ~coll[r].disputed
            /\ coll[r].class \in {"none", "surplus"} => coll[r].allocation = "allocated"

\* close_accounting_period
LockPeriod(d) ==
  /\ lockEnd < d /\ d <= today
  /\ ReadyToClose
  /\ lockEnd' = d
  /\ UNCHANGED <<subject, provider, money, till, today>>

-----------------------------------------------------------------------------
\* The provider dates a payment on the day it happened, yesterday at the earliest.
ProviderDays == {d \in 1..today : d >= today - 1}

CheckoutStep ==
  \E i \in Intents :
    \/ CreateIntent(i)
    \/ CreateAttempt(i)
    \/ \E r \in Receipts : ManualFallback(i, r)
    \/ CashSplit(i)
    \/ \E n \in AttemptNumbers :
         \/ \E answer \in AttemptStatus, known \in BOOLEAN : RecordStkRequest(i, n, answer, known)
         \/ RecordRequestUnknown(i, n)

ProviderStep ==
  \/ \E i \in Intents, n \in AttemptNumbers :
       \/ BindCallback(i, n)
       \/ ConflictingCallback(i, n)
       \/ GiveUpEvent(i, n)
       \/ \E r \in Receipts, d \in ProviderDays : FinalizeSuccess(i, n, r, d)
       \/ \E outcome \in Terminal : FinalizeTerminal(i, n, outcome)
       \/ \E aged \in BOOLEAN : RecordQueryPending(i, n, aged)
  \/ \E r \in Receipts, d \in ProviderDays : RecordC2b(r, d)
  \/ \E aged \in SUBSET Intents : Sweep(aged)

StaffStep ==
  \/ \E i \in Intents, n \in AttemptNumbers, adopt \in BOOLEAN : ReviewEvent(i, n, adopt)
  \/ \E i \in Intents, r \in Receipts : RetryPosting(i, r)
  \/ \E r \in Receipts : \/ Classify(r)
                         \/ \E mayReverse \in BOOLEAN : RequestReversal(r, mayReverse)
  \/ \E r \in Receipts, s \in Subjects :
       \/ AllocateCollection(r, s)
       \/ ApproveLate(r, s)
       \/ RejectLate(r, s)
       \/ ReversePosting(r, s)

BooksStep ==
  \/ \E s \in Subjects : SettleOtherwise(s) \/ VoidOrder(s) \/ VoidHeldOrder(s)
  \/ OpenTill \/ CloseTill \/ NextDay
  \/ \E d \in 1..MaxDay : LockPeriod(d)

Next == CheckoutStep \/ ProviderStep \/ StaffStep \/ BooksStep

Spec == Init /\ [][Next]_vars

-----------------------------------------------------------------------------
(* Safety.                                                                   *)

\* The allocation_status that every queue and the period close read is the one
\* that the allocations imply, although eight functions maintain it by hand.
AllocationStatusTruthful ==
  \A r \in Receipts : coll[r].allocation = DerivedStatus(coll[r], alloc[r])

\* A reservation always has somebody who must act on it: a pending late review,
\* or the intent of its subject, which waits for cash or for a manual review.  And
\* the cash part of a split sale is taken against money that is set aside.
ReservationOwned ==
  /\ \A r \in Receipts, s \in Subjects : alloc[r][s] = "reserved" =>
       \/ review[r][s].status = "pending"
       \/ \E i \in Intents : /\ SubjectOf[i] = s /\ intent[i].fulfilled = r
                             /\ intent[i].status \in {"awaiting_cash", "manual_review"}
  /\ \A i \in Intents : intent[i].status = "awaiting_cash" =>
       intent[i].fulfilled # None /\ alloc[intent[i].fulfilled][SubjectOf[i]] = "reserved"

\* A pending late review can always be decided: its reservation is in place and
\* the intent it will complete is still under review.
LateReviewDecidable ==
  \A r \in Receipts, s \in Subjects : review[r][s].status = "pending" =>
    /\ alloc[r][s] = "reserved"
    /\ review[r][s].intent # None =>
         /\ intent[review[r][s].intent].status = "manual_review"
         /\ intent[review[r][s].intent].fulfilled = r

\* An intent that names its money is either waiting for cash, done or under
\* review, so neither a late provider answer nor the sweep can end it unpaid.
FulfilledIntentIsKept ==
  \A i \in Intents : intent[i].fulfilled # None =>
    intent[i].status \in {"awaiting_cash", "completed", "manual_review"}

\* Money the provider took back is in the books only while an approval of the
\* reversal is outstanding.
ReversedMoneyLeavesBooks ==
  \A r \in Receipts, s \in Subjects :
    alloc[r][s] = "posted" /\ coll[r].provider = "reversed" => reversal[r] = "accounting_pending"

\* What is posted stands against a settled subject, to the last shilling, and no other
\* collection does, however the subject is voided or settled meanwhile.
PostedMatchesSubject ==
  \A r \in Receipts, s \in Subjects : alloc[r][s] = "posted" =>
    /\ subject[s].status = "posted"
    /\ \A q \in Receipts : alloc[q][s] = "posted" => q = r
    /\ \/ coll[r].amount = Total[s]
       \/ \E i \in Intents : SubjectOf[i] = s /\ intent[i].fulfilled = r /\ coll[r].amount = Price[i]

\* While no receipt is typed by hand, received money that is not posted can be
\* found by staff.  list_unallocated_mpesa_collections shows it when it is
\* unallocated, when the intent named on its row is under review or when it has a
\* pending late review; the till shows the intent of its row while it waits for
\* cash.  Both follow the row's intent and not the intent that holds the money.
MoneyIsVisible ==
  ~ManualFallbackAllowed =>
    \A r \in Receipts :
      coll[r].provider = "received" /\ coll[r].allocation \in {"unallocated", "reserved"} =>
        \/ coll[r].allocation = "unallocated"
        \/ coll[r].intent # None /\ intent[coll[r].intent].status \in {"manual_review", "awaiting_cash"}
        \/ \E s \in Subjects : review[r][s].status = "pending"

-----------------------------------------------------------------------------
(* Action properties.                                                        *)

\* An intent completes only in a step after which its money is in the books.
CompletionIsPosted ==
  [][\A i \in Intents : intent[i].status # "completed" /\ intent'[i].status = "completed" =>
       \E r \in Receipts, s \in Subjects :
         intent'[i].fulfilled = r /\ alloc'[r][s] = "posted"]_vars

\* The money that fulfils an intent is never exchanged for other money.
FulfilmentIsFinal ==
  [][\A i \in Intents : intent[i].fulfilled # None =>
       intent'[i].fulfilled = intent[i].fulfilled]_vars

\* The money that may concern intent i: what fulfils it, what its rows name and
\* what its attempts were paid with, be it typed by hand for another intent.
MoneyOf(i) ==
  {r \in Receipts : \/ r = intent[i].fulfilled \/ coll[r].intent = i
                    \/ \E n \in AttemptNumbers : StkOrigin[r] = <<i, n>>}

\* A completed payment is reopened only by evidence that disputes its money.
CompletedReopensOnDispute ==
  [][\A i \in Intents : intent[i].status = "completed" /\ intent'[i].status # "completed" =>
       \E r \in MoneyOf(i) : coll'[r].disputed]_vars

-----------------------------------------------------------------------------
(* The promise to the books.                                                 *)

BooksWhere(r) ==
  IF \E s \in Subjects : alloc[r][s] = "posted" THEN "posted"
  ELSE IF coll[r].provider = "absent" THEN "unseen"
  ELSE IF coll[r].provider = "reversed" THEN "gone"
  ELSE IF \E s \in Subjects : alloc[r][s] = "reserved" THEN "set_aside"
  ELSE "free"

BooksHolder(r) ==
  IF BooksWhere(r) \in {"posted", "set_aside"}
  THEN CHOOSE s \in Subjects : alloc[r][s] \in Active ELSE None

BooksState(s) ==
  CASE subject[s].status \in {"absent", "pending"} -> "open"
    [] subject[s].status = "posted" -> "settled"
    [] OTHER -> "closed"

Books == INSTANCE PaymentBooks
           WITH where <- [r \in Receipts |-> BooksWhere(r)],
                holder <- [r \in Receipts |-> BooksHolder(r)],
                state <- [s \in Subjects |-> BooksState(s)]

\* Every function keeps the promise of PaymentBooks: money is never in two
\* places, never back after the provider took it, and settles a subject once.
KeepsTheBooks == Books!BooksSpec
=============================================================================
