------------------------- MODULE MpesaIntentProofs -------------------------
(***************************************************************************)
(* Who must act on an intent and on its money: that no intent which names   *)
(* its money ends unpaid, that a late review stays decidable, that every    *)
(* reservation has an owner and is on somebody's list, and what a step may  *)
(* never do to a fulfilled or completed intent.                             *)
(*                                                                          *)
(* The argument has two halves.  The first classifies the steps: whatever   *)
(* function runs, it either drifts (statuses and notes change, no money     *)
(* moves) or does one of a few things to the money of one receipt.  The     *)
(* second shows that each of these keeps the invariant.                     *)
(***************************************************************************)
EXTENDS MpesaSettlementProofs

-----------------------------------------------------------------------------
(* The invariant.                                                            *)

Created(i) == intent[i].status # "absent"

\* Attempts, events and rows only name intents that were created.
NamesCreated ==
  /\ \A i \in Intents, n \in AttemptNumbers : Exists(i, n) \/ <<i, n>> \in flagged => Created(i)
  /\ \A r \in Receipts : coll[r].intent # None => Created(coll[r].intent)

\* mpesa_intent_one_unresolved_subject
OneUnresolved ==
  \A i, j \in Intents : SubjectOf[i] = SubjectOf[j] /\ Unresolved(i) /\ Unresolved(j) => i = j

\* A completed intent names its money, and money that waits for cash is not
\* under review.
NamesMoney ==
  \A i \in Intents :
    /\ intent[i].status = "completed" => intent[i].fulfilled # None
    /\ intent[i].status = "awaiting_cash" =>
         review[intent[i].fulfilled][SubjectOf[i]].status # "pending"

\* A row carries the intent of the STK attempt that paid it, the one its money
\* fulfils, as long as nobody types receipts.
OriginKnown(r, i) == StkOrigin[r][1] = i

RowsNamed ==
  ~ManualFallbackAllowed =>
    /\ \A r \in Receipts : coll[r].intent # None => OriginKnown(r, coll[r].intent)
    /\ \A i \in Intents : intent[i].fulfilled # None => coll[intent[i].fulfilled].intent = i

\* Both directions: a row is gone exactly when a reversal is recorded.
ReversalRecorded ==
  \A r \in Receipts : coll[r].provider = "reversed" <=> reversal[r] # "none"

WorkInv ==
  /\ MoneyInv
  /\ NamesCreated
  /\ OneUnresolved
  /\ NamesMoney
  /\ FulfilledIntentIsKept
  /\ LateReviewDecidable
  /\ ReservationOwned
  /\ RowsNamed
  /\ ReversalRecorded
  /\ ReversedMoneyLeavesBooks

-----------------------------------------------------------------------------
(* What a step does.                                                         *)

\* From row a to row b of an intent, in a step that moves no money: the status
\* stays, or nothing was and is fulfilled, or the intent goes to a review.
DriftsTo(a, b) ==
  \/ b.status = a.status /\ b.fulfilled = a.fulfilled
  \/ /\ a.status # "absent" /\ a.fulfilled = None /\ b.fulfilled = None
     /\ b.status \notin {"absent", "awaiting_cash", "completed"}
  \/ /\ a.status # "absent" /\ b.status = "manual_review"
     /\ a.fulfilled \in {None, b.fulfilled}

\* No subject gets a second unresolved intent.
Admitted ==
  \A i, j \in Intents : Unresolved(i)' /\ ~Unresolved(i) =>
    IndexAdmits(i) /\ (Unresolved(j)' /\ ~Unresolved(j) => i = j)

\* Attempts and events of an intent that was never created.
MarksKept ==
  \A i \in Intents : ~Created(i) =>
    /\ attempt'[i] = attempt[i]
    /\ \A n \in AttemptNumbers : <<i, n>> \in flagged' => <<i, n>> \in flagged

\* From row a to row b of receipt r, in a step that takes no money back.
RowKept(r, a, b) ==
  /\ \/ b.provider = a.provider /\ b.amount = a.amount
     \/ a.provider = "absent" /\ b.provider = "received"
  /\ \/ b.intent = a.intent
     \/ /\ a.intent = None /\ b.intent \in Intents /\ Created(b.intent)
        /\ ~ManualFallbackAllowed => OriginKnown(r, b.intent)

\* One function writes one row at most.
RowsKept ==
  /\ \A r \in Receipts : RowKept(r, coll[r], coll'[r])
  /\ \A q, r \in Receipts : coll'[q] # coll[q] /\ coll'[r] # coll[r] => q = r

\* Money that newly fulfils an intent is on a row that names it.
FulfilmentNamed ==
  \A i \in Intents :
    ~ManualFallbackAllowed /\ intent'[i].fulfilled \notin {None, intent[i].fulfilled} =>
      coll'[intent'[i].fulfilled].intent = i

\* The part of CompletedReopensOnDispute that is about one step.
ReopensOnDispute ==
  \A i \in Intents : intent[i].status = "completed" /\ intent'[i].status # "completed" =>
    \E r \in MoneyOf(i) : coll'[r].disputed

IntentsDrift ==
  /\ \A i \in Intents : DriftsTo(intent[i], intent'[i])
  /\ Admitted

\* A step that moves no money.
Drift ==
  /\ IntentsDrift /\ MarksKept /\ RowsKept /\ FulfilmentNamed /\ ReopensOnDispute
  /\ UNCHANGED <<subject, alloc, review, reversal>>

\* The money of r is promised to the subject of i, whose row becomes x.
Takes(i, r, x, status) ==
  /\ coll'[r].amount = Price[i]
  /\ intent[i].status \in Receiving /\ intent[i].fulfilled \in {None, r}
  /\ x.fulfilled = r
  /\ ~Overallocated(r)
  /\ MarksKept /\ RowsKept /\ FulfilmentNamed
  /\ \A q \in Receipts \ {r} : coll'[q] = coll[q]
  /\ intent' = [intent EXCEPT ![i] = x]
  /\ alloc' = [alloc EXCEPT ![r][SubjectOf[i]] = status]
  /\ UNCHANGED reversal

\* It is set aside until the cash part is paid or a review decides.
TakesAside(i, r) ==
  \E x \in IntentRow :
    /\ Takes(i, r, x, "reserved")
    /\ x.status \in {"awaiting_cash", "manual_review"}
    /\ \/ UNCHANGED review
       \/ x.status = "manual_review" /\ review' = Reviewed(r, SubjectOf[i], "pending", i)
    /\ UNCHANGED subject

\* It is posted at once.
TakesPosted(i, r) ==
  \E x \in IntentRow :
    /\ Takes(i, r, x, "posted")
    /\ x.status = "completed"
    /\ Postable(coll'[r], SubjectOf[i])
    /\ subject' = Settled(SubjectOf[i])
    /\ UNCHANGED review

\* The provider has taken the money of r back, its posting stands for now.
GoneUnposted(r) ==
  /\ coll[r].provider # "absent"
  /\ coll' = [coll EXCEPT ![r] = TakenBack(coll[r])]
  /\ reversal' = [reversal EXCEPT ![r] =
                     IF \E s \in Subjects : alloc[r][s] = "posted" THEN "accounting_pending"
                     ELSE "completed"]
  /\ UNCHANGED <<subject, provider, alloc, review>>

\* The postings of the receipts rs to s are cancelled, with the order or alone.
Cancels(rs, s) ==
  /\ \A r \in rs : alloc[r][s] = "posted"
  /\ \A r \in Receipts \ rs : reversal'[r] = reversal[r]
  /\ \A r \in rs : reversal'[r] = "completed" \/ (reversal[r] = "none" /\ reversal'[r] = "none")
  /\ Unwound(rs, s)
  /\ \/ \E r \in rs : rs = {r} /\ subject' = Unpaid(s)
     \/ /\ s \in Orders /\ subject[s].status = "posted" /\ rs = PostedTo(s)
        /\ subject' = Marked(s, "voided")
  /\ UNCHANGED <<provider, review>>

\* Everything a step can do.
Move ==
  \/ Drift
  \/ \E i \in Intents : CreateIntent(i) \/ CashSplit(i)
  \/ \E i \in Intents, r \in Receipts : TakesAside(i, r) \/ TakesPosted(i, r)
  \/ \E r \in Receipts, s \in Subjects :
       AllocateCollection(r, s) \/ ApproveLate(r, s) \/ RejectLate(r, s)
  \/ \E r \in Receipts : GoneUnposted(r)
  \/ \E rs \in SUBSET Receipts, s \in Subjects : Cancels(rs, s)
  \/ \E s \in Subjects : SettleOtherwise(s) \/ VoidHeldOrder(s)

-----------------------------------------------------------------------------
(* Steps on intents and attempts alone.                                      *)

LEMMA OneIntentDrifts ==
  ASSUME TypeOK, NEW i \in Intents, NEW x \in IntentRow, intent' = [intent EXCEPT ![i] = x],
         DriftsTo(intent[i], x),
         x.status \in Resolved \/ Unresolved(i) \/ IndexAdmits(i)
  PROVE  IntentsDrift
<1>1. \A j \in Intents : intent'[j] = IF j = i THEN x ELSE intent[j]
  BY DEF TypeOK
<1>2. \A j \in Intents : DriftsTo(intent[j], intent'[j])
  BY <1>1 DEF DriftsTo
<1>3. \A j \in Intents : Unresolved(j)' /\ ~Unresolved(j) => j = i /\ IndexAdmits(i)
  BY <1>1 DEF Unresolved
<1> QED BY <1>2, <1>3 DEF IntentsDrift, Admitted

LEMMA SameIntentsDrift == UNCHANGED intent => IntentsDrift
BY DEF IntentsDrift, DriftsTo, Admitted, Unresolved

LEMMA SameRows == UNCHANGED coll => RowsKept
BY DEF RowsKept, RowKept

\* An intent step that changes no other table, keeps what is fulfilled and
\* leaves completed intents alone.
LEMMA IntentOnlyDrifts ==
  ASSUME IntentsDrift, MarksKept, UNCHANGED <<subject, money>>,
         \A i \in Intents : /\ intent'[i].fulfilled = intent[i].fulfilled
                            /\ intent[i].status = "completed" => intent'[i].status = "completed"
  PROVE  Drift
BY SameRows DEF Drift, FulfilmentNamed, ReopensOnDispute, money

\* One intent changes its status and perhaps its attempt, nothing else.
LEMMA StatusMoves ==
  ASSUME WorkInv, NEW i \in Intents, NEW x \in IntentRow, intent' = [intent EXCEPT ![i] = x],
         x.fulfilled = intent[i].fulfilled, Created(i), intent[i].status # "completed",
         \/ x.status = "manual_review" \/ x.status = intent[i].status
         \/ x.fulfilled = None /\ x.status \notin {"absent", "awaiting_cash", "completed"},
         x.status \in Resolved \/ Unresolved(i) \/ IndexAdmits(i),
         MarksKept, UNCHANGED <<subject, money>>
  PROVE  Drift
<1>1. TypeOK
  BY DEF WorkInv, MoneyInv
<1>2. DriftsTo(intent[i], x)
  BY DEF DriftsTo, Created
<1>3. \A j \in Intents : intent'[j] = IF j = i THEN x ELSE intent[j]
  BY <1>1 DEF TypeOK
<1> QED BY <1>1, <1>2, <1>3, OneIntentDrifts, IntentOnlyDrifts

LEMMA CheckoutDrifts ==
  ASSUME WorkInv, NEW i \in Intents, NEW n \in AttemptNumbers,
         \/ CreateAttempt(i)
         \/ \E answer \in AttemptStatus, known \in BOOLEAN : RecordStkRequest(i, n, answer, known)
         \/ RecordRequestUnknown(i, n)
  PROVE  Drift
<1>t. /\ intent \in [Intents -> IntentRow] /\ intent[i] \in IntentRow
      /\ attempt \in [Intents -> [AttemptNumbers -> AttemptStatus]]
  BY DEF WorkInv, MoneyInv, TypeOK
<1>1. CASE CreateAttempt(i)
  <2> DEFINE m == intent[i].cur + 1
             x == [intent[i] EXCEPT !.status = "requesting", !.cur = m, !.postFailed = FALSE]
  <2>1. m \in 0..MaxAttempts
    BY <1>1, <1>t, ConstantsAssumption DEF CreateAttempt, IntentRow
  <2>2. x \in IntentRow /\ x.status = "requesting" /\ x.fulfilled = intent[i].fulfilled
    BY <1>t, <2>1 DEF IntentRow, IntentStatus
  <2>3. intent' = [intent EXCEPT ![i] = x]
    BY <1>1, <1>t DEF CreateAttempt
  <2>4. Created(i) /\ intent[i].status # "completed" /\ x.fulfilled = None
        /\ (Unresolved(i) \/ IndexAdmits(i))
    BY <1>1, <2>2 DEF CreateAttempt, Created, Terminal, Unresolved, Resolved
  <2>5. MarksKept
    BY <1>1, <1>t, <2>4 DEF MarksKept, CreateAttempt
  <2>6. UNCHANGED <<subject, money>>
    BY <1>1 DEF CreateAttempt
  <2> QED BY <2>2, <2>3, <2>4, <2>5, <2>6, StatusMoves
<1>2. ASSUME NEW status \in {"pending"} \union Terminal, intent[i].status = "requesting",
             intent' = Moved(i, status), UNCHANGED <<subject, flagged, money>>,
             \E answer \in AttemptStatus : attempt' = [attempt EXCEPT ![i][n] = answer]
      PROVE  Drift
  <2> DEFINE x == [intent[i] EXCEPT !.status = status]
  <2>1. x \in IntentRow /\ x.status = status /\ x.fulfilled = intent[i].fulfilled
    BY <1>t DEF IntentRow, IntentStatus, Terminal
  <2>2. intent' = [intent EXCEPT ![i] = x]
    BY <1>2, <1>t DEF Moved
  <2>3. Created(i) /\ Unresolved(i) /\ intent[i].fulfilled = None
    BY <1>2 DEF WorkInv, FulfilledIntentIsKept, Created, Unresolved, Resolved, Terminal
  <2>4. MarksKept
    BY <1>2, <1>t, <2>3 DEF MarksKept
  <2> QED BY <1>2, <2>1, <2>2, <2>3, <2>4, StatusMoves DEF Terminal
<1>3. ASSUME NEW answer \in AttemptStatus, NEW known \in BOOLEAN, RecordStkRequest(i, n, answer, known)
      PROVE  Drift
  BY <1>2, <1>3 DEF RecordStkRequest, Terminal
<1>4. CASE RecordRequestUnknown(i, n)
  BY <1>2, <1>4 DEF RecordRequestUnknown, AttemptStatus
<1> QED BY <1>1, <1>3, <1>4

\* A row of intent i goes to a review and keeps what it is fulfilled by.
LEMMA ReviewedIntent ==
  ASSUME WorkInv, NEW i \in Intents
  PROVE  \E x \in IntentRow : /\ ToReview(i, intent[i].fulfilled, FALSE) = [intent EXCEPT ![i] = x]
                              /\ x.status = "manual_review" /\ x.fulfilled = intent[i].fulfilled
<1> DEFINE x == [intent[i] EXCEPT !.status = "manual_review", !.fulfilled = intent[i].fulfilled,
                                  !.postFailed = FALSE]
<1>1. intent[i] \in IntentRow /\ intent \in [Intents -> IntentRow]
  BY DEF WorkInv, MoneyInv, TypeOK
<1>2. x \in IntentRow /\ x.status = "manual_review" /\ x.fulfilled = intent[i].fulfilled
  BY <1>1 DEF IntentRow, IntentStatus
<1>3. ToReview(i, intent[i].fulfilled, FALSE) = [intent EXCEPT ![i] = x]
  BY <1>1 DEF ToReview
<1> QED BY <1>2, <1>3

LEMMA CallbackDrifts ==
  ASSUME WorkInv, NEW i \in Intents, NEW n \in AttemptNumbers,
         \/ BindCallback(i, n) \/ ConflictingCallback(i, n) \/ GiveUpEvent(i, n)
         \/ \E outcome \in Terminal : FinalizeTerminal(i, n, outcome)
         \/ \E aged \in BOOLEAN : RecordQueryPending(i, n, aged)
  PROVE  Drift
<1>t. /\ intent \in [Intents -> IntentRow] /\ intent[i] \in IntentRow
      /\ attempt \in [Intents -> [AttemptNumbers -> AttemptStatus]]
  BY DEF WorkInv, MoneyInv, TypeOK
<1>c. Exists(i, n) => Created(i)
  BY DEF WorkInv, NamesCreated
<1>s. ASSUME IntentsDrift, MarksKept, UNCHANGED <<intent, subject, money>> PROVE Drift
  BY <1>s, IntentOnlyDrifts
<1>1. ASSUME NEW status \in {"pending"} \union Terminal, intent[i].status \in {"requesting", "pending"},
             intent' = Moved(i, status), UNCHANGED <<subject, money>>, MarksKept
      PROVE  Drift
  <2> DEFINE x == [intent[i] EXCEPT !.status = status]
  <2>1. x \in IntentRow /\ x.status = status /\ x.fulfilled = intent[i].fulfilled
    BY <1>t DEF IntentRow, IntentStatus, Terminal
  <2>2. intent' = [intent EXCEPT ![i] = x]
    BY <1>1, <1>t DEF Moved
  <2>3. Created(i) /\ Unresolved(i) /\ intent[i].fulfilled = None
    BY <1>1 DEF WorkInv, FulfilledIntentIsKept, Created, Unresolved, Resolved, Terminal
  <2> QED BY <1>1, <2>1, <2>2, <2>3, StatusMoves DEF Terminal
<1>2. ASSUME intent' = ToReview(i, intent[i].fulfilled, FALSE), Created(i), MarksKept,
             intent[i].status # "completed", Unresolved(i) \/ IndexAdmits(i),
             UNCHANGED <<subject, money>>
      PROVE  Drift
  <2>1. PICK x \in IntentRow : /\ intent' = [intent EXCEPT ![i] = x]
                               /\ x.status = "manual_review" /\ x.fulfilled = intent[i].fulfilled
    BY <1>2, ReviewedIntent
  <2> QED BY <1>2, <2>1, StatusMoves
<1>3. CASE BindCallback(i, n)
  <2>1. MarksKept
    BY <1>3, <1>t, <1>c DEF BindCallback, MarksKept
  <2>2. UNCHANGED <<subject, money>>
    BY <1>3 DEF BindCallback
  <2>3. CASE UNCHANGED intent
    BY <1>s, <2>1, <2>2, <2>3, SameIntentsDrift
  <2>4. CASE intent[i].status = "requesting" /\ intent' = Moved(i, "pending")
    BY <1>1, <2>1, <2>2, <2>4
  <2> QED BY <1>3, <2>3, <2>4 DEF BindCallback
<1>4. CASE ConflictingCallback(i, n)
  <2>1. MarksKept
    BY <1>4, <1>t, <1>c DEF ConflictingCallback, MarksKept
  <2>2. UNCHANGED <<subject, money>> /\ Created(i)
    BY <1>4, <1>c DEF ConflictingCallback
  <2>3. CASE UNCHANGED intent
    BY <1>s, <2>1, <2>2, <2>3, SameIntentsDrift
  <2>4. CASE intent[i].status # "completed" /\ IndexAdmits(i)
             /\ intent' = ToReview(i, intent[i].fulfilled, FALSE)
    BY <1>2, <2>1, <2>2, <2>4
  <2> QED BY <1>4, <2>3, <2>4 DEF ConflictingCallback
<1>5. CASE GiveUpEvent(i, n)
  <2>1. MarksKept
    BY <1>5, <1>c DEF GiveUpEvent, MarksKept
  <2> QED BY <1>5, <1>s, <2>1, SameIntentsDrift DEF GiveUpEvent
<1>6. ASSUME NEW outcome \in Terminal, FinalizeTerminal(i, n, outcome) PROVE Drift
  <2>1. MarksKept
    BY <1>6, <1>t, <1>c DEF FinalizeTerminal, MarksKept
  <2>2. UNCHANGED <<subject, money>>
    BY <1>6 DEF FinalizeTerminal
  <2>3. CASE UNCHANGED intent
    BY <1>s, <2>1, <2>2, <2>3, SameIntentsDrift
  <2>4. CASE intent[i].status = "pending" /\ intent' = Moved(i, outcome)
    BY <1>1, <2>1, <2>2, <2>4
  <2> QED BY <1>6, <2>3, <2>4 DEF FinalizeTerminal
<1>7. ASSUME NEW aged \in BOOLEAN, RecordQueryPending(i, n, aged) PROVE Drift
  <2>1. MarksKept
    BY <1>7, <1>t, <1>c DEF RecordQueryPending, MarksKept
  <2>2. UNCHANGED <<subject, money>> /\ Created(i)
    BY <1>7, <1>c DEF RecordQueryPending
  <2>3. CASE UNCHANGED intent
    BY <1>s, <2>1, <2>2, <2>3, SameIntentsDrift
  <2>4. CASE intent[i].status = "pending" /\ intent' = ToReview(i, intent[i].fulfilled, FALSE)
    BY <1>2, <2>1, <2>2, <2>4 DEF Unresolved, Resolved, Terminal
  <2> QED BY <1>7, <2>3, <2>4 DEF RecordQueryPending
<1> QED BY <1>3, <1>4, <1>5, <1>6, <1>7

LEMMA SweepDrifts ==
  ASSUME WorkInv, NEW aged \in SUBSET Intents, Sweep(aged)
  PROVE  Drift
<1>t. intent \in [Intents -> IntentRow]
  BY DEF WorkInv, MoneyInv, TypeOK
<1>1. ASSUME NEW i \in Intents
      PROVE  \/ intent'[i] = intent[i]
             \/ /\ intent[i].status = "pending"
                /\ intent'[i] = [intent[i] EXCEPT !.status = "manual_review", !.postFailed = FALSE]
             \/ /\ intent[i].status = "created"
                /\ intent'[i] = [intent[i] EXCEPT !.status = "expired"]
  BY DEF Sweep
<1>2. ASSUME NEW i \in Intents
      PROVE  /\ intent'[i].fulfilled = intent[i].fulfilled
             /\ \/ intent'[i].status = intent[i].status
                \/ intent[i].status = "pending" /\ intent'[i].status = "manual_review"
                \/ intent[i].status = "created" /\ intent'[i].status = "expired"
  <2>1. intent[i] \in IntentRow
    BY <1>t
  <2> QED BY <1>1, <2>1 DEF IntentRow
<1>3. IntentsDrift
  <2>1. \A i \in Intents : intent[i].status \in {"pending", "created"} => intent[i].fulfilled = None
    BY DEF WorkInv, FulfilledIntentIsKept
  <2>2. \A i \in Intents : DriftsTo(intent[i], intent'[i])
    BY <1>2, <2>1 DEF DriftsTo
  <2>3. \A i \in Intents : Unresolved(i)' => Unresolved(i)
    BY <1>2 DEF Unresolved, Resolved, Terminal
  <2> QED BY <2>2, <2>3 DEF IntentsDrift, Admitted
<1>4. MarksKept
  BY DEF Sweep, MarksKept, Created
<1> QED BY <1>2, <1>3, <1>4, IntentOnlyDrifts DEF Sweep

LEMMA ReviewEventDrifts ==
  ASSUME WorkInv, NEW i \in Intents, NEW n \in AttemptNumbers, NEW adopt \in BOOLEAN,
         ReviewEvent(i, n, adopt)
  PROVE  Drift
<1>t. /\ intent \in [Intents -> IntentRow] /\ intent[i] \in IntentRow
      /\ attempt \in [Intents -> [AttemptNumbers -> AttemptStatus]]
  BY DEF WorkInv, MoneyInv, TypeOK
<1>c. Created(i)
  BY DEF WorkInv, NamesCreated, ReviewEvent
<1>1. MarksKept
  BY <1>t, <1>c DEF ReviewEvent, MarksKept
<1>2. UNCHANGED <<subject, money>>
  BY DEF ReviewEvent
<1>3. CASE UNCHANGED intent
  BY <1>1, <1>2, <1>3, SameIntentsDrift, IntentOnlyDrifts
<1>4. CASE Resumes(i) /\ intent' = [intent EXCEPT ![i] = [@ EXCEPT !.status = "pending", !.postFailed = FALSE]]
  <2> DEFINE x == [intent[i] EXCEPT !.status = "pending", !.postFailed = FALSE]
  <2>1. x \in IntentRow /\ x.status = "pending" /\ x.fulfilled = intent[i].fulfilled
    BY <1>t DEF IntentRow, IntentStatus
  <2>2. intent' = [intent EXCEPT ![i] = x]
    BY <1>4, <1>t
  <2>3. IndexAdmits(i) /\ x.fulfilled = None /\ intent[i].status # "completed"
    BY <1>4, <2>1 DEF ReviewEvent, Resumes
  <2> QED BY <1>1, <1>2, <1>c, <2>1, <2>2, <2>3, StatusMoves
<1> QED BY <1>3, <1>4 DEF ReviewEvent

-----------------------------------------------------------------------------
(* Steps of notifications, which bring rows and money.                       *)

LEMMA RowWrittenKept ==
  ASSUME WorkInv, NEW r \in Receipts, NEW c, RowKept(r, coll[r], c), NEW d,
         d.provider = c.provider, d.amount = c.amount, d.intent = c.intent,
         coll' = [coll EXCEPT ![r] = d]
  PROVE  RowsKept
<1>1. \A q \in Receipts : coll'[q] = IF q = r THEN d ELSE coll[q]
  BY DEF WorkInv, MoneyInv, TypeOK
<1> QED BY <1>1 DEF RowsKept, RowKept

\* Allocating refreshes the status of the row, nothing else.
LEMMA AllocateKept ==
  ASSUME WorkInv, NEW r \in Receipts, NEW s \in Subjects, NEW status, NEW c \in Row,
         RowKept(r, coll[r], c), Allocate(r, s, status, c)
  PROVE  /\ RowsKept
         /\ coll'[r].provider = c.provider /\ coll'[r].amount = c.amount
         /\ coll'[r].intent = c.intent /\ coll'[r].disputed = c.disputed
<1> DEFINE d == Refreshed(c, [alloc[r] EXCEPT ![s] = status])
<1>1. coll' = [coll EXCEPT ![r] = d]
  BY DEF Allocate, WorkInv, MoneyInv, TypeOK
<1>2. /\ d.provider = c.provider /\ d.amount = c.amount /\ d.intent = c.intent
      /\ d.disputed = c.disputed
  BY DEF Refreshed, Row
<1>3. RowsKept
  BY <1>1, <1>2, RowWrittenKept
<1>4. coll'[r] = d
  BY <1>1 DEF WorkInv, MoneyInv, TypeOK
<1> QED BY <1>2, <1>3, <1>4

\* Whoever delivers the receipt, its row keeps provider, amount and intent.
LEMMA UpsertedKept ==
  ASSUME WorkInv, NEW r \in Receipts, NEW amount \in Nat, NEW d \in 0..MaxDay,
         NEW source \in {"stk", "c2b", "manual"}, NEW i \in Intents \union {None},
         i # None => Created(i) /\ (~ManualFallbackAllowed => OriginKnown(r, i))
  PROVE  /\ RowKept(r, coll[r], Upserted(r, amount, d, source, i))
         /\ ~ManualFallbackAllowed /\ i # None => Upserted(r, amount, d, source, i).intent = i
<1> DEFINE c == Upserted(r, amount, d, source, i)
<1>1. coll[r] \in Row /\ Consistent(coll[r], alloc[r])
  BY DEF WorkInv, MoneyInv, MoneyConsistent, TypeOK
<1>2. CASE coll[r].provider = "absent"
  <2>1. c.provider = "received" /\ c.intent = i /\ coll[r].intent = None
    BY <1>1, <1>2 DEF Upserted, Consistent
  <2> QED BY <1>2, <2>1 DEF RowKept
<1>3. CASE coll[r].provider # "absent"
  <2>1. /\ c.provider = coll[r].provider /\ c.amount = coll[r].amount
        /\ c.intent = IF coll[r].intent = None THEN i ELSE coll[r].intent
    BY <1>1, <1>3 DEF Upserted, Row
  <2>2. ~ManualFallbackAllowed /\ coll[r].intent # None /\ i # None => coll[r].intent = i
    BY DEF WorkInv, RowsNamed, OriginKnown
  <2> QED BY <2>1, <2>2 DEF RowKept
<1> QED BY <1>2, <1>3

\* A conflicting notification disputes a row and may reopen an intent.
LEMMA DisputeDrifts ==
  ASSUME WorkInv, NEW r \in Receipts, NEW named \in Intents \union {None}, Dispute(r, named),
         named # None => Created(named)
                         /\ (intent[named].status = "completed" => r \in MoneyOf(named)),
         MarksKept
  PROVE  Drift
<1> DEFINE d == [coll[r] EXCEPT !.disputed = TRUE]
           i == IF named # None THEN named ELSE coll[r].intent
<1>1. coll[r] \in Row /\ coll \in [Receipts -> Row] /\ TypeOK
  BY DEF WorkInv, MoneyInv, TypeOK
<1>2. d.provider = coll[r].provider /\ d.amount = coll[r].amount /\ d.intent = coll[r].intent /\ d.disputed
  BY <1>1 DEF Row
<1>3. coll' = [coll EXCEPT ![r] = d]
  BY <1>1 DEF Dispute
<1>4. RowsKept /\ coll'[r] = d
  <2>1. RowsKept
    BY <1>2, <1>3, RowWrittenKept DEF RowKept
  <2> QED BY <1>1, <1>3, <2>1
<1>5. UNCHANGED <<subject, alloc, review, reversal>>
  BY DEF Dispute
<1>6. CASE UNCHANGED intent
  BY <1>4, <1>5, <1>6, SameIntentsDrift DEF Drift, FulfilmentNamed, ReopensOnDispute
<1>7. CASE i # None /\ IndexAdmits(i) /\ intent' = ToReview(i, intent[i].fulfilled, FALSE)
  <2>1. i \in Intents /\ Created(i)
    BY <1>1, <1>7 DEF Row, WorkInv, NamesCreated
  <2>2. intent[i].status = "completed" => r \in MoneyOf(i)
    BY <1>1, <2>1 DEF MoneyOf
  <2>3. PICK x \in IntentRow : /\ intent' = [intent EXCEPT ![i] = x]
                               /\ x.status = "manual_review" /\ x.fulfilled = intent[i].fulfilled
    BY <1>7, <2>1, ReviewedIntent
  <2>4. DriftsTo(intent[i], x)
    BY <2>1, <2>3 DEF DriftsTo, Created
  <2>5. IntentsDrift
    BY <1>1, <1>7, <2>1, <2>3, <2>4, OneIntentDrifts
  <2>6. \A j \in Intents : intent'[j] = IF j = i THEN x ELSE intent[j]
    BY <1>1, <2>3 DEF TypeOK
  <2>7. coll'[r].disputed /\ \A j \in Intents : intent'[j].fulfilled = intent[j].fulfilled
    BY <1>2, <1>4, <2>3, <2>6
  <2>8. \A j \in Intents : intent'[j].status # intent[j].status => j = i
    BY <2>6
  <2>9. FulfilmentNamed /\ ReopensOnDispute
    BY <2>2, <2>7, <2>8 DEF FulfilmentNamed, ReopensOnDispute
  <2> QED BY <1>4, <1>5, <2>5, <2>9 DEF Drift
<1> QED BY <1>6, <1>7 DEF Dispute

\* mpesa_apply_collection_to_intent: the intent is created, c the row of r as
\* the caller has just left it, and atts differs from attempt at i only.
LEMMA ApplyClassified ==
  ASSUME WorkInv, NEW i \in Intents, NEW n, NEW r \in Receipts, NEW c \in Row, NEW atts,
         Created(i), RowKept(r, coll[r], c), ~ManualFallbackAllowed => c.intent = i,
         \A j \in Intents \ {i} : atts[j] = attempt[j], atts \in AttemptRows,
         Apply(i, n, r, c, atts), UNCHANGED flagged
  PROVE  Drift \/ TakesAside(i, r) \/ TakesPosted(i, r)
<1>t. /\ TypeOK /\ intent \in [Intents -> IntentRow] /\ intent[i] \in IntentRow
      /\ SubjectOf[i] \in Subjects
  BY ConstantsAssumption DEF WorkInv, MoneyInv, TypeOK
<1>m. MarksKept
  <2>1. \A j \in Intents \ {i} : attempt'[j] = attempt[j]
    BY DEF Apply, ApplyToStaleAttempt, KeepAsSurplus, ApplyDisputed, ApplyAgain, ReserveForCash,
           ReserveForLateReview, PostAtOnce, PostingFails, AttemptRows
  <2> QED BY <2>1 DEF MarksKept
<1>1. ASSUME NEW d, coll' = [coll EXCEPT ![r] = d],
             d.provider = c.provider, d.amount = c.amount, d.intent = c.intent,
             UNCHANGED <<subject, intent, alloc, review, reversal>>
      PROVE  Drift
  BY <1>m, <1>1, RowWrittenKept, SameIntentsDrift
  DEF Drift, FulfilmentNamed, ReopensOnDispute
<1>2. ASSUME NEW d, coll' = [coll EXCEPT ![r] = d],
             d.provider = c.provider, d.amount = c.amount, d.intent = c.intent,
             intent[i].fulfilled \in {None, r}, IndexAdmits(i),
             intent[i].status = "completed" => d.disputed,
             intent' = ToReview(i, r, FALSE), UNCHANGED <<subject, alloc, review, reversal>>
      PROVE  Drift
  <2> DEFINE x == [intent[i] EXCEPT !.status = "manual_review", !.fulfilled = r, !.postFailed = FALSE]
  <2>1. x \in IntentRow /\ x.status = "manual_review" /\ x.fulfilled = r
    BY <1>t DEF IntentRow, IntentStatus
  <2>2. intent' = [intent EXCEPT ![i] = x]
    BY <1>2, <1>t DEF ToReview
  <2>3. DriftsTo(intent[i], x)
    BY <1>2, <2>1 DEF DriftsTo, Created
  <2>4. IntentsDrift
    BY <1>t, <1>2, <2>1, <2>2, <2>3, OneIntentDrifts
  <2>5. \A j \in Intents : intent'[j] = IF j = i THEN x ELSE intent[j]
    BY <1>t, <2>2
  <2>6. RowsKept /\ coll'[r] = d
    <3>1. RowsKept
      BY <1>2, RowWrittenKept
    <3> QED BY <1>2, <1>t, <3>1 DEF TypeOK
  <2>7. intent[i].status = "completed" => r \in MoneyOf(i)
    BY <1>2 DEF WorkInv, NamesMoney, MoneyOf
  <2>r. ~ManualFallbackAllowed => coll'[r].intent = i
    BY <1>2, <2>6
  <2>f. \A j \in Intents : intent'[j].fulfilled \in {None, intent[j].fulfilled} \/ (j = i /\ intent'[j].fulfilled = r)
    BY <2>1, <2>5
  <2>8. FulfilmentNamed
    BY <2>r, <2>f DEF FulfilmentNamed
  <2>9. intent[i].status = "completed" => coll'[r].disputed
    BY <1>2, <2>6
  <2>10. \A j \in Intents : intent'[j].status # intent[j].status => j = i
    BY <2>5
  <2>11. ReopensOnDispute
    BY <2>7, <2>9, <2>10 DEF ReopensOnDispute
  <2> QED BY <1>m, <1>2, <2>4, <2>6, <2>8, <2>11 DEF Drift
<1>3. ASSUME NEW x \in IntentRow, NEW status, Reservable(i, n, r, c), x.fulfilled = r,
             intent' = [intent EXCEPT ![i] = x], Allocate(r, SubjectOf[i], status, c),
             UNCHANGED reversal
      PROVE  /\ Takes(i, r, x, status)
             /\ coll'[r].provider = c.provider /\ coll'[r].disputed = c.disputed
  <2>1. alloc' = [alloc EXCEPT ![r][SubjectOf[i]] = status]
    BY <1>3 DEF Allocate
  <2>4. /\ RowsKept
        /\ coll'[r].provider = c.provider /\ coll'[r].amount = c.amount
        /\ coll'[r].intent = c.intent /\ coll'[r].disputed = c.disputed
    BY <1>3, <1>t, AllocateKept
  <2>5. \A j \in Intents : intent'[j] = IF j = i THEN x ELSE intent[j]
    BY <1>t, <1>3
  <2>6. FulfilmentNamed
    BY <1>3, <2>4, <2>5 DEF FulfilmentNamed
  <2>7. \A q \in Receipts \ {r} : coll'[q] = coll[q]
    BY <1>t, <1>3 DEF Allocate, TypeOK
  <2> QED BY <1>m, <1>3, <2>1, <2>4, <2>6, <2>7 DEF Takes, Reservable, Awaited, Genuine
<1>4. CASE ApplyToStaleAttempt(i, n, r, c, atts) /\ UNCHANGED reversal
  <2>1. intent[i].status # "completed"
    BY <1>4 DEF ApplyToStaleAttempt, WorkInv, NamesMoney
  <2> QED BY <1>2, <1>4, <2>1 DEF ApplyToStaleAttempt
<1>5. CASE KeepAsSurplus(i, n, r, c, atts) /\ UNCHANGED reversal
  <2> DEFINE d == Surplus(c)
  <2>1. d.provider = c.provider /\ d.amount = c.amount /\ d.intent = c.intent
    BY DEF Surplus, Row
  <2>2. /\ coll' = [coll EXCEPT ![r] = d]
        /\ UNCHANGED <<subject, intent, alloc, review, reversal>>
    BY <1>5 DEF KeepAsSurplus
  <2> HIDE DEF d
  <2> QED BY <1>1, <2>1, <2>2
<1>6. CASE ApplyDisputed(i, n, r, c, atts) /\ UNCHANGED reversal
  <2> DEFINE d == [c EXCEPT !.disputed = TRUE]
  <2>1. d.provider = c.provider /\ d.amount = c.amount /\ d.intent = c.intent /\ d.disputed
    BY DEF Row
  <2>2. /\ coll' = [coll EXCEPT ![r] = d]
        /\ intent[i].fulfilled \in {None, r} /\ IndexAdmits(i)
        /\ intent' = ToReview(i, r, FALSE) /\ UNCHANGED <<subject, alloc, review, reversal>>
    BY <1>6 DEF ApplyDisputed, Awaited
  <2> HIDE DEF d
  <2> QED BY <1>2, <2>1, <2>2
<1>7. CASE ApplyAgain(i, n, r, c, atts) /\ UNCHANGED reversal
  BY <1>1, <1>7 DEF ApplyAgain
<1>8. CASE ReserveForCash(i, n, r, c, atts) /\ UNCHANGED reversal
  <2> DEFINE status == IF intent[i].status = "manual_review" THEN "manual_review" ELSE "awaiting_cash"
             x == [intent[i] EXCEPT !.status = status, !.fulfilled = r]
  <2>1. x \in IntentRow /\ x.fulfilled = r /\ x.status \in {"awaiting_cash", "manual_review"}
    BY <1>t DEF IntentRow, IntentStatus
  <2>2. intent' = [intent EXCEPT ![i] = x]
    BY <1>8, <1>t DEF ReserveForCash, Served
  <2>3. Takes(i, r, x, "reserved")
    BY <1>3, <1>8, <2>1, <2>2 DEF ReserveForCash
  <2> QED BY <1>8, <2>1, <2>3 DEF TakesAside, ReserveForCash
<1>9. ASSUME NEW failed \in BOOLEAN, intent' = ToReview(i, r, failed), Reservable(i, n, r, c),
             Allocate(r, SubjectOf[i], "reserved", c), UNCHANGED <<subject, reversal>>,
             UNCHANGED review \/ review' = Reviewed(r, SubjectOf[i], "pending", i)
      PROVE  TakesAside(i, r)
  <2> DEFINE x == [intent[i] EXCEPT !.status = "manual_review", !.fulfilled = r, !.postFailed = failed]
  <2>1. x \in IntentRow /\ x.fulfilled = r /\ x.status = "manual_review"
    BY <1>t DEF IntentRow, IntentStatus
  <2>2. intent' = [intent EXCEPT ![i] = x]
    BY <1>9, <1>t DEF ToReview
  <2>3. Takes(i, r, x, "reserved")
    BY <1>3, <1>9, <2>1, <2>2
  <2> QED BY <1>9, <2>1, <2>3 DEF TakesAside
<1>10. CASE ReserveForLateReview(i, n, r, c, atts) /\ UNCHANGED reversal
  BY <1>9, <1>10 DEF ReserveForLateReview
<1>11. CASE PostingFails(i, n, r, c, atts) /\ UNCHANGED reversal
  BY <1>9, <1>11 DEF PostingFails
<1>12. CASE PostAtOnce(i, n, r, c, atts) /\ UNCHANGED reversal
  <2> DEFINE x == [intent[i] EXCEPT !.status = "completed", !.fulfilled = r]
  <2>1. x \in IntentRow /\ x.fulfilled = r /\ x.status = "completed"
    BY <1>t DEF IntentRow, IntentStatus
  <2>2. intent' = [intent EXCEPT ![i] = x]
    BY <1>12, <1>t DEF PostAtOnce, Served
  <2>3. Takes(i, r, x, "posted") /\ coll'[r].provider = c.provider /\ coll'[r].disputed = c.disputed
    BY <1>3, <1>12, <2>1, <2>2 DEF PostAtOnce
  <2>4. Postable(coll'[r], SubjectOf[i])
    BY <1>12, <2>3 DEF PostAtOnce, Postable
  <2> QED BY <1>12, <2>1, <2>3, <2>4 DEF TakesPosted, PostAtOnce
<1> QED BY <1>4, <1>5, <1>6, <1>7, <1>8, <1>10, <1>11, <1>12 DEF Apply

LEMMA FinalizeSuccessClassified ==
  ASSUME WorkInv, NEW i \in Intents, NEW n \in AttemptNumbers, NEW r \in Receipts,
         NEW d \in ProviderDays, FinalizeSuccess(i, n, r, d)
  PROVE  Drift \/ TakesAside(i, r) \/ TakesPosted(i, r)
<1> DEFINE c == Upserted(r, Paid[r], d, "stk", i)
           atts == [attempt EXCEPT ![i][n] = "paid"]
<1>t. TypeOK /\ MoneyInv /\ Paid[r] \in Nat /\ d \in 0..MaxDay
      /\ attempt \in [Intents -> [AttemptNumbers -> AttemptStatus]]
  BY ConstantsAssumption DEF WorkInv, MoneyInv, TypeOK, ProviderDays
<1>1. Created(i) /\ OriginKnown(r, i) /\ r \in MoneyOf(i)
  <2>1. StkOrigin[r] = <<i, n>> /\ Exists(i, n)
    BY DEF FinalizeSuccess
  <2>2. Created(i)
    BY <2>1 DEF WorkInv, NamesCreated
  <2>3. OriginKnown(r, i)
    BY <2>1 DEF OriginKnown
  <2>4. r \in MoneyOf(i)
    BY <2>1 DEF MoneyOf
  <2> QED BY <2>2, <2>3, <2>4
<1>2. UNCHANGED flagged
  BY DEF FinalizeSuccess
<1>3. CASE Dispute(r, i) /\ attempt' = [attempt EXCEPT ![i][n] = "manual_review"]
  <2>1. MarksKept
    BY <1>t, <1>1, <1>2, <1>3 DEF MarksKept
  <2> QED BY <1>1, <1>3, <2>1, DisputeDrifts
<1>4. CASE Apply(i, n, r, c, atts)
  <2>1. c \in Row /\ RowKept(r, coll[r], c) /\ (~ManualFallbackAllowed => c.intent = i)
    BY <1>t, <1>1, UpsertedConsistent, UpsertedKept, ConstantsAssumption
  <2>2. atts \in AttemptRows /\ \A j \in Intents \ {i} : atts[j] = attempt[j]
    BY <1>t DEF AttemptRows, AttemptStatus
  <2> HIDE DEF c, atts
  <2> QED BY <1>1, <1>2, <1>4, <2>1, <2>2, ApplyClassified
<1> QED BY <1>3, <1>4 DEF FinalizeSuccess

LEMMA ManualFallbackClassified ==
  ASSUME WorkInv, NEW i \in Intents, NEW r \in Receipts, ManualFallback(i, r)
  PROVE  Drift \/ TakesAside(i, r) \/ TakesPosted(i, r)
<1> DEFINE c == Upserted(r, Price[i], today, "manual", i)
<1>t. TypeOK /\ MoneyInv /\ Price[i] \in Nat /\ today \in 0..MaxDay /\ attempt \in AttemptRows
  BY ConstantsAssumption DEF WorkInv, MoneyInv, TypeOK, AttemptRows
<1>1. Created(i) /\ intent[i].status # "completed" /\ ManualFallbackAllowed /\ UNCHANGED flagged
  BY DEF ManualFallback, Created
<1>2. CASE Dispute(r, i) /\ UNCHANGED attempt
  <2>1. MarksKept
    BY <1>1, <1>2 DEF MarksKept
  <2> QED BY <1>1, <1>2, <2>1, DisputeDrifts
<1>3. CASE Apply(i, 0, r, c, attempt)
  <2>1. c \in Row /\ RowKept(r, coll[r], c)
    BY <1>t, <1>1, UpsertedConsistent, UpsertedKept
  <2> HIDE DEF c
  <2> QED BY <1>t, <1>1, <1>3, <2>1, ApplyClassified
<1> QED BY <1>2, <1>3 DEF ManualFallback

LEMMA RetryPostingClassified ==
  ASSUME WorkInv, NEW i \in Intents, NEW r \in Receipts, RetryPosting(i, r)
  PROVE  Drift \/ TakesAside(i, r) \/ TakesPosted(i, r)
<1>1. coll[r] \in Row /\ attempt \in AttemptRows
  BY DEF WorkInv, MoneyInv, TypeOK, AttemptRows
<1>2. Created(i) /\ UNCHANGED flagged /\ RowKept(r, coll[r], coll[r]) /\ coll[r].intent = i
  BY DEF RetryPosting, Created, RowKept
<1> QED BY <1>1, <1>2, ApplyClassified DEF RetryPosting

LEMMA RecordC2bDrifts ==
  ASSUME WorkInv, NEW r \in Receipts, NEW d \in ProviderDays, RecordC2b(r, d)
  PROVE  Drift
<1> DEFINE c == Upserted(r, Paid[r], d, "c2b", None)
<1>t. TypeOK /\ MoneyInv /\ Paid[r] \in Nat /\ d \in 0..MaxDay
  BY ConstantsAssumption DEF WorkInv, MoneyInv, TypeOK, ProviderDays
<1>1. MarksKept
  BY DEF RecordC2b, MarksKept
<1>2. CASE Dispute(r, None)
  BY <1>1, <1>2, DisputeDrifts
<1>3. CASE coll' = [coll EXCEPT ![r] = c] /\ UNCHANGED <<subject, intent, alloc, review, reversal>>
  <2>1. RowKept(r, coll[r], c)
    BY <1>t, UpsertedKept
  <2> HIDE DEF c
  <2>2. RowsKept
    BY <1>3, <2>1, RowWrittenKept
  <2> QED BY <1>1, <1>3, <2>2, SameIntentsDrift DEF Drift, FulfilmentNamed, ReopensOnDispute
<1> QED BY <1>2, <1>3 DEF RecordC2b

-----------------------------------------------------------------------------
(* The other steps.                                                          *)

LEMMA ClassifyDrifts ==
  ASSUME WorkInv, NEW r \in Receipts, Classify(r)
  PROVE  Drift
<1> DEFINE d == [coll[r] EXCEPT !.class = "closed"]
<1>1. coll[r] \in Row /\ coll \in [Receipts -> Row]
  BY DEF WorkInv, MoneyInv, TypeOK
<1>2. coll' = [coll EXCEPT ![r] = d]
  BY <1>1 DEF Classify
<1>3. d.provider = coll[r].provider /\ d.amount = coll[r].amount /\ d.intent = coll[r].intent
  BY <1>1 DEF Row
<1>4. RowsKept
  BY <1>2, <1>3, RowWrittenKept DEF RowKept
<1> QED BY <1>4, SameIntentsDrift
        DEF Classify, provider, Drift, FulfilmentNamed, ReopensOnDispute, MarksKept

LEMMA SameTablesDrift ==
  ASSUME UNCHANGED <<subject, provider, money>>
  PROVE  Drift
BY SameIntentsDrift, SameRows
DEF provider, money, Drift, FulfilmentNamed, ReopensOnDispute, MarksKept

LEMMA RequestReversalClassified ==
  ASSUME WorkInv, NEW r \in Receipts, NEW mayReverse \in BOOLEAN, RequestReversal(r, mayReverse)
  PROVE  GoneUnposted(r) \/ \E s \in Subjects : Cancels({r}, s)
<1>t. /\ coll \in [Receipts -> Row]
      /\ reversal \in [Receipts -> {"none", "accounting_pending", "completed"}]
  BY DEF WorkInv, MoneyInv, TypeOK
<1>1. ASSUME NEW s \in Subjects, alloc[r][s] = "posted",
             reversal' = [reversal EXCEPT ![r] = "completed"], Unwound({r}, s), subject' = Unpaid(s),
             UNCHANGED <<provider, review>>
      PROVE  Cancels({r}, s)
  BY <1>t, <1>1 DEF Cancels
<1>2. CASE \E s \in Subjects : alloc[r][s] = "posted"
  BY <1>t, <1>1, <1>2 DEF RequestReversal, GoneUnposted
<1>3. CASE ~ \E s \in Subjects : alloc[r][s] = "posted"
  BY <1>t, <1>3 DEF RequestReversal, GoneUnposted
<1> QED BY <1>2, <1>3

LEMMA ReversePostingCancels ==
  ASSUME WorkInv, NEW r \in Receipts, NEW s \in Subjects, ReversePosting(r, s)
  PROVE  Cancels({r}, s)
<1>1. reversal \in [Receipts -> {"none", "accounting_pending", "completed"}]
  BY DEF WorkInv, MoneyInv, TypeOK
<1> QED BY <1>1 DEF ReversePosting, Cancels

LEMMA VoidOrderCancels ==
  ASSUME WorkInv, NEW s \in Subjects, VoidOrder(s)
  PROVE  Cancels(PostedTo(s), s)
<1>1. \A r \in PostedTo(s) : alloc[r][s] = "posted" /\ r \in Receipts
  BY DEF PostedTo
<1>2. \A r \in Receipts : reversal'[r] = IF r \in PostedTo(s) /\ reversal[r] # "none"
                                         THEN "completed" ELSE reversal[r]
  BY DEF VoidOrder
<1> QED BY <1>1, <1>2 DEF VoidOrder, Cancels

\* What any step does, whichever function it is.
LEMMA StepsMove == WorkInv /\ [Next]_vars => Move
<1> SUFFICES ASSUME WorkInv, [Next]_vars PROVE Move
  OBVIOUS
<1>1. CASE CheckoutStep
  <2>1. 1 \in AttemptNumbers
    BY ConstantsAssumption DEF AttemptNumbers
  <2>2. ASSUME NEW i \in Intents, CreateAttempt(i) PROVE Move
    BY <2>1, <2>2, CheckoutDrifts DEF Move
  <2>3. ASSUME NEW i \in Intents, NEW n \in AttemptNumbers,
               \/ \E answer \in AttemptStatus, known \in BOOLEAN : RecordStkRequest(i, n, answer, known)
               \/ RecordRequestUnknown(i, n)
        PROVE  Move
    BY <2>3, CheckoutDrifts DEF Move
  <2> QED BY <1>1, <2>2, <2>3, ManualFallbackClassified DEF CheckoutStep, Move
<1>2. CASE ProviderStep
  BY <1>2, CallbackDrifts, FinalizeSuccessClassified, RecordC2bDrifts, SweepDrifts
  DEF ProviderStep, Move
<1>3. CASE StaffStep
  <2>1. ASSUME NEW r \in Receipts, NEW s \in Subjects, Cancels({r}, s) PROVE Move
    BY <2>1 DEF Move
  <2> QED BY <1>3, <2>1, ReviewEventDrifts, RetryPostingClassified, ClassifyDrifts,
             RequestReversalClassified, ReversePostingCancels
      DEF StaffStep, Move
<1>4. CASE BooksStep
  <2>1. ASSUME NEW s \in Subjects, VoidOrder(s) PROVE Move
    <3>1. PostedTo(s) \in SUBSET Receipts
      BY DEF PostedTo
    <3> QED BY <2>1, <3>1, VoidOrderCancels DEF Move
  <2>2. CASE OpenTill \/ CloseTill \/ NextDay \/ \E d \in 1..MaxDay : LockPeriod(d)
    BY <2>2, SameTablesDrift DEF OpenTill, CloseTill, NextDay, LockPeriod, Move
  <2> QED BY <1>4, <2>1, <2>2 DEF BooksStep, Move
<1>5. CASE UNCHANGED vars
  BY <1>5, SameTablesDrift DEF vars, Move
<1> QED BY <1>1, <1>2, <1>3, <1>4, <1>5 DEF Next

-----------------------------------------------------------------------------
(* What intents, reservations and reviews owe each other.                    *)

\* What intent i is promised stays promised, and a newly named one is reviewed.
PromiseKept(i) ==
  \/ /\ intent'[i].fulfilled = intent[i].fulfilled
     /\ \/ intent'[i].status = intent[i].status \/ intent'[i].status = "manual_review"
        \/ /\ intent[i].fulfilled = None
           /\ intent'[i].status \notin {"awaiting_cash", "completed"}
  \/ intent[i].fulfilled = None /\ intent'[i].status = "manual_review"

\* A step that leaves allocations and reviews alone.
LEMMA PromisesKept ==
  ASSUME WorkInv, \A i \in Intents : PromiseKept(i), UNCHANGED <<alloc, review>>
  PROVE  NamesMoney' /\ FulfilledIntentIsKept' /\ LateReviewDecidable' /\ ReservationOwned'
<1>t. \A r \in Receipts, s \in Subjects : review[r][s] \in ReviewRow
  BY DEF WorkInv, MoneyInv, TypeOK
<1>1. ASSUME NEW i \in Intents
      PROVE  /\ intent[i].fulfilled = None => intent[i].status \notin {"awaiting_cash", "completed"}
             /\ intent[i].fulfilled # None =>
                  intent[i].status \in {"awaiting_cash", "completed", "manual_review"}
  BY DEF WorkInv, NamesMoney, FulfilledIntentIsKept, ReservationOwned
<1>2. ASSUME NEW i \in Intents, intent[i].fulfilled # None
      PROVE  /\ intent'[i].fulfilled = intent[i].fulfilled
             /\ intent'[i].status \in {intent[i].status, "manual_review"}
  BY <1>2 DEF PromiseKept
<1>3. ASSUME NEW i \in Intents, intent[i].fulfilled = None
      PROVE  intent'[i].status \notin {"awaiting_cash", "completed"}
             /\ (intent'[i].fulfilled # None => intent'[i].status = "manual_review")
  BY <1>1, <1>3 DEF PromiseKept
<1>4. FulfilledIntentIsKept'
  BY <1>1, <1>2, <1>3 DEF FulfilledIntentIsKept
<1>5. NamesMoney'
  <2>1. ASSUME NEW i \in Intents, intent'[i].status \in {"awaiting_cash", "completed"}
        PROVE  intent[i].fulfilled # None /\ intent'[i].fulfilled = intent[i].fulfilled
               /\ intent'[i].status = intent[i].status
    BY <1>2, <1>3, <2>1
  <2> QED BY <2>1 DEF WorkInv, NamesMoney
<1>6. LateReviewDecidable'
  <2>1. ASSUME NEW r \in Receipts, NEW s \in Subjects, review[r][s].status = "pending",
               review[r][s].intent # None
        PROVE  intent'[review[r][s].intent].status = "manual_review"
               /\ intent'[review[r][s].intent].fulfilled = r
    <3> DEFINE i == review[r][s].intent
    <3>1. i \in Intents /\ r # None
      BY <1>t, <2>1, ConstantsAssumption DEF ReviewRow
    <3>2. intent[i].status = "manual_review" /\ intent[i].fulfilled = r
      BY <2>1 DEF WorkInv, LateReviewDecidable
    <3> QED BY <1>2, <3>1, <3>2
  <2> QED BY <2>1 DEF WorkInv, LateReviewDecidable
<1>7. ReservationOwned'
  <2>1. ASSUME NEW r \in Receipts, NEW s \in Subjects, alloc[r][s] = "reserved",
               review[r][s].status # "pending"
        PROVE  \E i \in Intents : /\ SubjectOf[i] = s /\ intent'[i].fulfilled = r
                                  /\ intent'[i].status \in {"awaiting_cash", "manual_review"}
    <3>1. PICK i \in Intents : /\ SubjectOf[i] = s /\ intent[i].fulfilled = r
                               /\ intent[i].status \in {"awaiting_cash", "manual_review"}
      BY <2>1 DEF WorkInv, ReservationOwned
    <3>2. r # None
      BY ConstantsAssumption
    <3> QED BY <1>2, <3>1, <3>2
  <2>2. ASSUME NEW i \in Intents, intent'[i].status = "awaiting_cash"
        PROVE  intent'[i].fulfilled # None
               /\ alloc[intent'[i].fulfilled][SubjectOf[i]] = "reserved"
    BY <1>2, <1>3, <2>2 DEF WorkInv, ReservationOwned
  <2> QED BY <2>1, <2>2 DEF ReservationOwned
<1> QED BY <1>4, <1>5, <1>6, <1>7

\* Marks and rows still name created intents, if creation lasts.
LEMMA NamesKept ==
  ASSUME WorkInv, MarksKept, RowsKept, \A i \in Intents : Created(i) => Created(i)'
  PROVE  NamesCreated'
<1>t. \A r \in Receipts : coll[r].intent \in Intents \union {None}
  BY DEF WorkInv, MoneyInv, TypeOK, Row
<1>1. ASSUME NEW i \in Intents, NEW n \in AttemptNumbers, Exists(i, n)' \/ <<i, n>> \in flagged'
      PROVE  Created(i)'
  BY <1>1 DEF WorkInv, NamesCreated, MarksKept, Exists
<1>2. ASSUME NEW r \in Receipts, coll'[r].intent # None
      PROVE  intent'[coll'[r].intent].status # "absent"
  <2>1. coll'[r].intent \in Intents /\ Created(coll'[r].intent)
    BY <1>t, <1>2 DEF WorkInv, NamesCreated, RowsKept, RowKept
  <2> QED BY <2>1 DEF Created
<1> QED BY <1>1, <1>2 DEF NamesCreated, Created

\* Rows still carry the intent of their attempt.
LEMMA NamingKept ==
  ASSUME WorkInv, RowsKept, FulfilmentNamed
  PROVE  RowsNamed'
<1> SUFFICES ASSUME ~ManualFallbackAllowed PROVE RowsNamed'
  BY DEF RowsNamed
<1>t. \A i \in Intents : intent[i].fulfilled \in Receipts \union {None}
  BY DEF WorkInv, MoneyInv, TypeOK, IntentRow
<1>1. ASSUME NEW r \in Receipts, coll'[r].intent # None PROVE OriginKnown(r, coll'[r].intent)
  BY <1>1 DEF WorkInv, RowsNamed, RowsKept, RowKept
<1>2. ASSUME NEW i \in Intents, intent'[i].fulfilled # None
      PROVE  coll'[intent'[i].fulfilled].intent = i
  <2> DEFINE q == intent[i].fulfilled
  <2>1. CASE intent'[i].fulfilled = q
    <3>1. q \in Receipts /\ coll[q].intent = i /\ i # None
      BY <1>t, <1>2, <2>1, ConstantsAssumption DEF WorkInv, RowsNamed
    <3> QED BY <2>1, <3>1 DEF RowsKept, RowKept
  <2>2. CASE intent'[i].fulfilled # q
    BY <1>2, <2>2 DEF FulfilmentNamed
  <2> QED BY <2>1, <2>2
<1> QED BY <1>1, <1>2 DEF RowsNamed, OriginKnown

\* No row goes to the provider, and nothing is posted on one that has gone.
LEMMA ReversalsKept ==
  ASSUME WorkInv, RowsKept, UNCHANGED reversal,
         \A r \in Receipts, s \in Subjects :
           alloc'[r][s] = "posted" => alloc[r][s] = "posted" \/ coll'[r].provider = "received"
  PROVE  ReversalRecorded' /\ ReversedMoneyLeavesBooks'
<1>1. \A r \in Receipts : coll'[r].provider = "reversed" <=> coll[r].provider = "reversed"
  BY DEF RowsKept, RowKept
<1> QED BY <1>1 DEF WorkInv, ReversalRecorded, ReversedMoneyLeavesBooks

LEMMA IndexKept ==
  ASSUME WorkInv, Admitted
  PROVE  OneUnresolved'
<1> SUFFICES ASSUME NEW i \in Intents, NEW j \in Intents, SubjectOf[i] = SubjectOf[j],
                    Unresolved(i)', Unresolved(j)', i # j
             PROVE  FALSE
  BY DEF OneUnresolved
<1>1. CASE ~Unresolved(i)
  <2>1. ~Unresolved(j)
    BY <1>1 DEF Admitted, IndexAdmits
  <2> QED BY <1>1, <2>1 DEF Admitted
<1>2. CASE ~Unresolved(j)
  <2>1. ~Unresolved(i)
    BY <1>2 DEF Admitted, IndexAdmits
  <2> QED BY <1>2, <2>1 DEF Admitted
<1>3. CASE Unresolved(i) /\ Unresolved(j)
  BY <1>3 DEF WorkInv, OneUnresolved
<1> QED BY <1>1, <1>2, <1>3

LEMMA DriftKeeps == WorkInv /\ MoneyInv' /\ Drift => WorkInv'
<1> SUFFICES ASSUME WorkInv, MoneyInv', Drift PROVE WorkInv'
  OBVIOUS
<1>1. \A i \in Intents : Created(i) => Created(i)'
  BY DEF Drift, IntentsDrift, DriftsTo, Created
<1>2. \A i \in Intents : PromiseKept(i)
  BY DEF Drift, IntentsDrift, DriftsTo, PromiseKept
<1>3. NamesMoney' /\ FulfilledIntentIsKept' /\ LateReviewDecidable' /\ ReservationOwned'
  BY <1>2, PromisesKept DEF Drift
<1>4. NamesCreated' /\ RowsNamed' /\ OneUnresolved'
  BY <1>1, NamesKept, NamingKept, IndexKept DEF Drift, IntentsDrift
<1>5. ReversalRecorded' /\ ReversedMoneyLeavesBooks'
  BY ReversalsKept DEF Drift
<1> QED BY <1>3, <1>4, <1>5 DEF WorkInv

-----------------------------------------------------------------------------
(* Promises, receipt by receipt.                                             *)

\* Everything that is promised about the money of receipt r.
Promised(r) ==
  /\ \A s \in Subjects : review[r][s].status = "pending" =>
       /\ alloc[r][s] = "reserved"
       /\ review[r][s].intent # None =>
            /\ intent[review[r][s].intent].status = "manual_review"
            /\ intent[review[r][s].intent].fulfilled = r
  /\ \A s \in Subjects : alloc[r][s] = "reserved" =>
       \/ review[r][s].status = "pending"
       \/ \E i \in Intents : /\ SubjectOf[i] = s /\ intent[i].fulfilled = r
                             /\ intent[i].status \in {"awaiting_cash", "manual_review"}
  /\ \A i \in Intents : intent[i].fulfilled = r =>
       /\ intent[i].status \in {"awaiting_cash", "completed", "manual_review"}
       /\ intent[i].status = "awaiting_cash" =>
            /\ alloc[r][SubjectOf[i]] = "reserved"
            /\ review[r][SubjectOf[i]].status # "pending"

LEMMA EachPromised == WorkInv => \A r \in Receipts : Promised(r)
<1> SUFFICES ASSUME WorkInv, NEW r \in Receipts PROVE Promised(r)
  OBVIOUS
<1>1. r # None
  BY ConstantsAssumption
<1> QED BY <1>1 DEF WorkInv, NamesMoney, FulfilledIntentIsKept, LateReviewDecidable,
                    ReservationOwned, Promised

\* An intent that gets the money of r, or changes what becomes of it.
TouchesOnly(r) ==
  /\ \A q \in Receipts \ {r} : alloc'[q] = alloc[q] /\ review'[q] = review[q]
  /\ \A i \in Intents :
       \/ intent'[i].status = intent[i].status /\ intent'[i].fulfilled = intent[i].fulfilled
       \/ intent[i].fulfilled \in {None, r} /\ intent'[i].fulfilled = r

LEMMA OthersPromised ==
  ASSUME WorkInv, TypeOK', NEW r \in Receipts, TouchesOnly(r), Promised(r)'
  PROVE  NamesMoney' /\ FulfilledIntentIsKept' /\ LateReviewDecidable' /\ ReservationOwned'
<1>t. /\ \A q \in Receipts, s \in Subjects : review[q][s].intent \in Intents \union {None}
      /\ \A i \in Intents : SubjectOf[i] \in Subjects
      /\ \A i \in Intents : intent'[i].fulfilled \in Receipts \union {None}
      /\ None \notin Receipts
  BY ConstantsAssumption DEF WorkInv, MoneyInv, TypeOK, ReviewRow, IntentRow
<1>1. ASSUME NEW i \in Intents, intent'[i].fulfilled = None
      PROVE  intent'[i].status \notin {"awaiting_cash", "completed"}
  <2>1. intent'[i].status = intent[i].status /\ intent[i].fulfilled = None
    BY <1>t, <1>1 DEF TouchesOnly
  <2> QED BY <2>1 DEF WorkInv, NamesMoney, ReservationOwned
<1>2. ASSUME NEW q \in Receipts PROVE Promised(q)'
  <2>1. CASE q = r
    BY <2>1
  <2>2. CASE q # r
    <3>1. Promised(q) /\ alloc'[q] = alloc[q] /\ review'[q] = review[q]
      BY <2>2, EachPromised DEF TouchesOnly
    <3>2. \A i \in Intents : intent[i].fulfilled = q \/ intent'[i].fulfilled = q =>
            intent'[i].status = intent[i].status /\ intent'[i].fulfilled = intent[i].fulfilled
      BY <1>t, <2>2 DEF TouchesOnly
    <3>3. ASSUME NEW s \in Subjects, review'[q][s].status = "pending"
          PROVE  /\ alloc'[q][s] = "reserved"
                 /\ review'[q][s].intent # None =>
                      /\ intent'[review'[q][s].intent].status = "manual_review"
                      /\ intent'[review'[q][s].intent].fulfilled = q
      <4>1. review[q][s].status = "pending" /\ review'[q][s].intent = review[q][s].intent
        BY <3>1, <3>3
      <4> QED BY <1>t, <3>1, <3>2, <4>1 DEF Promised
    <3>4. ASSUME NEW s \in Subjects, alloc'[q][s] = "reserved", review'[q][s].status # "pending"
          PROVE  \E i \in Intents : /\ SubjectOf[i] = s /\ intent'[i].fulfilled = q
                                    /\ intent'[i].status \in {"awaiting_cash", "manual_review"}
      <4>1. PICK i \in Intents : /\ SubjectOf[i] = s /\ intent[i].fulfilled = q
                                 /\ intent[i].status \in {"awaiting_cash", "manual_review"}
        BY <3>1, <3>4 DEF Promised
      <4> QED BY <3>2, <4>1
    <3>5. ASSUME NEW i \in Intents, intent'[i].fulfilled = q
          PROVE  /\ intent'[i].status \in {"awaiting_cash", "completed", "manual_review"}
                 /\ intent'[i].status = "awaiting_cash" =>
                      /\ alloc'[q][SubjectOf[i]] = "reserved"
                      /\ review'[q][SubjectOf[i]].status # "pending"
      BY <1>t, <3>1, <3>2, <3>5 DEF Promised
    <3> QED BY <3>3, <3>4, <3>5 DEF Promised
  <2> QED BY <2>1, <2>2
<1>3. FulfilledIntentIsKept'
  BY <1>t, <1>2 DEF FulfilledIntentIsKept, Promised
<1>4. NamesMoney'
  BY <1>t, <1>1, <1>2 DEF NamesMoney, Promised
<1>5. LateReviewDecidable'
  BY <1>2 DEF LateReviewDecidable, Promised
<1>6. ReservationOwned'
  BY <1>t, <1>1, <1>2 DEF ReservationOwned, Promised
<1> QED BY <1>3, <1>4, <1>5, <1>6

\* Nothing is promised about money that is not set aside.
LEMMA FreeMoney ==
  ASSUME WorkInv, NEW r \in Receipts, ~Overallocated(r)
  PROVE  /\ \A s \in Subjects : review[r][s].status # "pending" /\ alloc[r][s] # "reserved"
         /\ \A i \in Intents : intent[i].fulfilled = r =>
              intent[i].status \in {"completed", "manual_review"}
<1>1. \A s \in Subjects : alloc[r][s] # "reserved"
  BY DEF Overallocated, Active
<1> QED BY <1>1, EachPromised, ConstantsAssumption DEF Promised

LEMMA TakesKeeps ==
  ASSUME WorkInv, MoneyInv', NEW i \in Intents, NEW r \in Receipts, NEW x \in IntentRow, NEW status,
         Takes(i, r, x, status),
         \/ status = "reserved" /\ x.status \in {"awaiting_cash", "manual_review"}
         \/ status = "posted" /\ x.status = "completed" /\ coll'[r].provider = "received",
         \/ UNCHANGED review
         \/ /\ x.status = "manual_review"
            /\ review' = Reviewed(r, SubjectOf[i], "pending", i)
  PROVE  WorkInv'
<1> DEFINE s == SubjectOf[i]
<1>t. /\ s \in Subjects /\ None \notin Receipts
      /\ intent \in [Intents -> IntentRow]
      /\ alloc \in [Receipts -> [Subjects -> AllocationStatus]]
      /\ review \in [Receipts -> [Subjects -> ReviewRow]]
  BY ConstantsAssumption DEF WorkInv, MoneyInv, TypeOK
<1>1. \A j \in Intents : intent'[j] = IF j = i THEN x ELSE intent[j]
  BY <1>t DEF Takes
<1>2. \A q \in Receipts, t \in Subjects :
        alloc'[q][t] = IF q = r /\ t = s THEN status ELSE alloc[q][t]
  BY <1>t DEF Takes
<1>3. \A q \in Receipts, t \in Subjects :
        review'[q][t] = IF q = r /\ t = s /\ review' # review
                        THEN [status |-> "pending", intent |-> i] ELSE review[q][t]
  BY <1>t DEF Reviewed
<1>4. \A q \in Receipts \ {r} : alloc'[q] = alloc[q] /\ review'[q] = review[q]
  BY <1>t DEF Takes, Reviewed
<1>5. TouchesOnly(r)
  BY <1>1, <1>4 DEF TouchesOnly, Takes
<1>6. Promised(r)'
  <2>f. /\ \A t \in Subjects : review[r][t].status # "pending" /\ alloc[r][t] # "reserved"
        /\ \A j \in Intents : intent[j].fulfilled = r => intent[j].status \in {"completed", "manual_review"}
    BY FreeMoney DEF Takes
  <2>x. x.fulfilled = r
    BY DEF Takes
  <2>1. ASSUME NEW t \in Subjects, review'[r][t].status = "pending"
        PROVE  /\ alloc'[r][t] = "reserved"
               /\ review'[r][t].intent # None =>
                    /\ intent'[review'[r][t].intent].status = "manual_review"
                    /\ intent'[review'[r][t].intent].fulfilled = r
    <3>1. t = s /\ review' # review
      BY <1>3, <2>f, <2>1
    <3>2. review'[r][t].intent = i /\ x.status = "manual_review" /\ status = "reserved"
      BY <1>3, <3>1
    <3> QED BY <1>1, <1>2, <2>x, <3>1, <3>2
  <2>2. ASSUME NEW t \in Subjects, alloc'[r][t] = "reserved"
        PROVE  \E j \in Intents : /\ SubjectOf[j] = t /\ intent'[j].fulfilled = r
                                  /\ intent'[j].status \in {"awaiting_cash", "manual_review"}
    <3>1. t = s /\ status = "reserved"
      BY <1>2, <2>f, <2>2
    <3> QED BY <1>1, <2>x, <3>1
  <2>3. ASSUME NEW j \in Intents, intent'[j].fulfilled = r
        PROVE  /\ intent'[j].status \in {"awaiting_cash", "completed", "manual_review"}
               /\ intent'[j].status = "awaiting_cash" =>
                    /\ alloc'[r][SubjectOf[j]] = "reserved"
                    /\ review'[r][SubjectOf[j]].status # "pending"
    <3>1. CASE j = i
      <4>1. x.status = "awaiting_cash" => status = "reserved" /\ UNCHANGED review
        OBVIOUS
      <4> QED BY <1>t, <1>1, <1>2, <2>f, <3>1, <4>1
    <3>2. CASE j # i
      BY <1>1, <2>f, <2>3, <3>2
    <3> QED BY <3>1, <3>2
  <2> QED BY <2>1, <2>2, <2>3 DEF Promised
<1>7. NamesMoney' /\ FulfilledIntentIsKept' /\ LateReviewDecidable' /\ ReservationOwned'
  BY <1>5, <1>6, OthersPromised DEF MoneyInv
<1>8. Admitted
  <2>1. \A j \in Intents : Unresolved(j)' /\ ~Unresolved(j) => j = i
    BY <1>1 DEF Unresolved
  <2>2. Unresolved(i)
    BY DEF Takes, Receiving, Unresolved, Resolved, Terminal
  <2> QED BY <2>1, <2>2 DEF Admitted
<1>9. \A j \in Intents : Created(j) => Created(j)'
  BY <1>1 DEF Created
<1>10. NamesCreated' /\ RowsNamed' /\ OneUnresolved'
  BY <1>8, <1>9, NamesKept, NamingKept, IndexKept DEF Takes
<1>11. ReversalRecorded' /\ ReversedMoneyLeavesBooks'
  <2>1. \A q \in Receipts, t \in Subjects :
          alloc'[q][t] = "posted" => alloc[q][t] = "posted" \/ coll'[q].provider = "received"
    BY <1>2
  <2> QED BY <2>1, ReversalsKept DEF Takes
<1> QED BY <1>7, <1>10, <1>11 DEF WorkInv

\* Staff decide what becomes of the money of r: one allocation is written and
\* the intents it fulfils may complete.
LEMMA DecisionKeeps ==
  ASSUME WorkInv, MoneyInv', NEW r \in Receipts, NEW s \in Subjects, NEW status, NEW c \in Row,
         c.provider = coll[r].provider, c.amount = coll[r].amount, c.intent = coll[r].intent,
         Allocate(r, s, status, c), status = "posted" => c.provider = "received",
         \A q \in Receipts \ {r} : review'[q] = review[q],
         \A i \in Intents :
           \/ intent'[i].status = intent[i].status /\ intent'[i].fulfilled = intent[i].fulfilled
           \/ /\ intent[i].fulfilled = r /\ intent'[i].fulfilled = r
              /\ intent[i].status \in {"awaiting_cash", "manual_review"}
              /\ intent'[i].status = "completed",
         Promised(r)', UNCHANGED <<attempt, flagged, reversal>>
  PROVE  WorkInv'
<1>t. alloc \in [Receipts -> [Subjects -> AllocationStatus]]
  BY DEF WorkInv, MoneyInv, TypeOK
<1>1. \A q \in Receipts, t \in Subjects :
        alloc'[q][t] = IF q = r /\ t = s THEN status ELSE alloc[q][t]
  BY <1>t DEF Allocate
<1>2. \A q \in Receipts \ {r} : alloc'[q] = alloc[q]
  BY <1>t DEF Allocate
<1>3. TouchesOnly(r)
  BY <1>2 DEF TouchesOnly
<1>4. NamesMoney' /\ FulfilledIntentIsKept' /\ LateReviewDecidable' /\ ReservationOwned'
  BY <1>3, OthersPromised DEF MoneyInv
<1>5. RowsKept /\ coll'[r].provider = c.provider
  BY AllocateKept DEF RowKept
<1>6. Admitted /\ MarksKept /\ FulfilmentNamed /\ \A i \in Intents : Created(i) => Created(i)'
  BY DEF Admitted, Unresolved, Resolved, Terminal, MarksKept, FulfilmentNamed, Created
<1>7. NamesCreated' /\ RowsNamed' /\ OneUnresolved'
  BY <1>5, <1>6, NamesKept, NamingKept, IndexKept
<1>8. \A q \in Receipts, t \in Subjects :
        alloc'[q][t] = "posted" => alloc[q][t] = "posted" \/ coll'[q].provider = "received"
  BY <1>1, <1>5
<1>9. ReversalRecorded' /\ ReversedMoneyLeavesBooks'
  BY <1>5, <1>8, ReversalsKept
<1> QED BY <1>4, <1>7, <1>9 DEF WorkInv

LEMMA CashSplitKeeps ==
  ASSUME WorkInv, MoneyInv', NEW i \in Intents, CashSplit(i)
  PROVE  WorkInv'
<1> DEFINE s == SubjectOf[i]
<1>t. /\ s \in Subjects /\ None \notin Receipts /\ intent \in [Intents -> IntentRow]
      /\ alloc \in [Receipts -> [Subjects -> AllocationStatus]]
  BY ConstantsAssumption DEF WorkInv, MoneyInv, TypeOK
<1>2. PICK r \in Receipts : r = intent[i].fulfilled
  <2>1. intent[i].fulfilled \in Receipts \union {None} /\ intent[i].fulfilled # None
    BY <1>t DEF CashSplit, IntentRow, WorkInv, ReservationOwned
  <2> QED BY <2>1
<1>i. intent[i].fulfilled = r
  BY <1>2
<1>1. /\ intent[i].status = "awaiting_cash" /\ alloc[r][s] = "reserved"
      /\ Postable(coll[r], s) /\ Allocate(r, s, "posted", coll[r])
      /\ intent' = Moved(i, "completed") /\ UNCHANGED <<attempt, flagged, review, reversal>>
  BY <1>2 DEF CashSplit
<1>3. coll[r] \in Row /\ coll[r].provider = "received"
  BY <1>1, <1>2 DEF Postable, WorkInv, MoneyInv, TypeOK
<1>4. \A j \in Intents : /\ intent'[j].fulfilled = intent[j].fulfilled
                         /\ intent'[j].status = IF j = i THEN "completed" ELSE intent[j].status
  BY <1>t, <1>1 DEF Moved, IntentRow
<1>5. \A t \in Subjects : alloc'[r][t] = IF t = s THEN "posted" ELSE alloc[r][t]
  BY <1>t, <1>1, <1>2 DEF Allocate
<1>6. Promised(r)'
  <2>1. Promised(r) /\ review[r][s].status # "pending"
    BY <1>t, <1>1, <1>2, <1>i, EachPromised DEF Promised
  <2>2. \A t \in Subjects : review[r][t].intent # None /\ review[r][t].status = "pending" =>
          review[r][t].intent \in Intents /\ review[r][t].intent # i
    BY <1>1, <1>2, <2>1 DEF Promised, WorkInv, MoneyInv, TypeOK, ReviewRow
  <2>3. \A t \in Subjects : review'[r][t].status = "pending" =>
          /\ alloc'[r][t] = "reserved"
          /\ review'[r][t].intent # None =>
               /\ intent'[review'[r][t].intent].status = "manual_review"
               /\ intent'[review'[r][t].intent].fulfilled = r
    BY <1>1, <1>4, <1>5, <2>1, <2>2 DEF Promised
  <2>4. \A t \in Subjects : alloc'[r][t] = "reserved" =>
          \/ review'[r][t].status = "pending"
          \/ \E j \in Intents : /\ SubjectOf[j] = t /\ intent'[j].fulfilled = r
                                /\ intent'[j].status \in {"awaiting_cash", "manual_review"}
    <3> SUFFICES ASSUME NEW t \in Subjects, alloc'[r][t] = "reserved", review'[r][t].status # "pending"
                 PROVE  \E j \in Intents : /\ SubjectOf[j] = t /\ intent'[j].fulfilled = r
                                           /\ intent'[j].status \in {"awaiting_cash", "manual_review"}
      OBVIOUS
    <3>1. t # s /\ alloc[r][t] = "reserved" /\ review[r][t].status # "pending"
      BY <1>1, <1>5
    <3>2. PICK j \in Intents : /\ SubjectOf[j] = t /\ intent[j].fulfilled = r
                               /\ intent[j].status \in {"awaiting_cash", "manual_review"}
      BY <2>1, <3>1 DEF Promised
    <3> QED BY <1>4, <3>1, <3>2
  <2>5. \A j \in Intents : intent'[j].fulfilled = r =>
          /\ intent'[j].status \in {"awaiting_cash", "completed", "manual_review"}
          /\ intent'[j].status = "awaiting_cash" =>
               /\ alloc'[r][SubjectOf[j]] = "reserved"
               /\ review'[r][SubjectOf[j]].status # "pending"
    <3> SUFFICES ASSUME NEW j \in Intents, intent'[j].fulfilled = r, j # i
                 PROVE  /\ intent'[j].status \in {"awaiting_cash", "completed", "manual_review"}
                        /\ intent'[j].status = "awaiting_cash" =>
                             /\ alloc'[r][SubjectOf[j]] = "reserved"
                             /\ review'[r][SubjectOf[j]].status # "pending"
      BY <1>4
    <3>1. intent[j].status = "awaiting_cash" => SubjectOf[j] # s
      BY <1>1 DEF WorkInv, OneUnresolved, Unresolved, Resolved, Terminal
    <3>2. SubjectOf[j] \in Subjects
      BY ConstantsAssumption
    <3> QED BY <1>1, <1>4, <1>5, <2>1, <3>1, <3>2 DEF Promised
  <2> QED BY <2>3, <2>4, <2>5 DEF Promised
<1>7. \A j \in Intents :
         \/ intent'[j].status = intent[j].status /\ intent'[j].fulfilled = intent[j].fulfilled
         \/ /\ intent[j].fulfilled = r /\ intent'[j].fulfilled = r
            /\ intent[j].status \in {"awaiting_cash", "manual_review"}
            /\ intent'[j].status = "completed"
  BY <1>1, <1>4, <1>i
<1> QED BY <1>t, <1>1, <1>2, <1>3, <1>6, <1>7, DecisionKeeps

\* The intents that reconciliation completes: those the money of r fulfils.
LEMMA CompletedByRows ==
  ASSUME WorkInv, NEW r \in Receipts, NEW i \in Intents
  PROVE  \/ CompletedBy(r)[i] = intent[i]
         \/ /\ intent[i].fulfilled = r /\ CompletedBy(r)[i].fulfilled = r
            /\ intent[i].status = "manual_review" /\ CompletedBy(r)[i].status = "completed"
<1>1. intent[i] \in IntentRow
  BY DEF WorkInv, MoneyInv, TypeOK
<1> QED BY <1>1 DEF CompletedBy, IntentRow

LEMMA AllocateCollectionKeeps ==
  ASSUME WorkInv, MoneyInv', NEW r \in Receipts, NEW s \in Subjects, AllocateCollection(r, s)
  PROVE  WorkInv'
<1>t. /\ None \notin Receipts /\ intent \in [Intents -> IntentRow]
      /\ alloc \in [Receipts -> [Subjects -> AllocationStatus]]
      /\ review \in [Receipts -> [Subjects -> ReviewRow]]
      /\ coll[r] \in Row
  BY ConstantsAssumption DEF WorkInv, MoneyInv, TypeOK
<1>c. ClearSurplus(coll[r]) \in Row
  BY <1>t DEF ClearSurplus, Row
<1>f. /\ \A t \in Subjects : review[r][t].status # "pending" /\ alloc[r][t] # "reserved"
      /\ \A j \in Intents : intent[j].fulfilled = r => intent[j].status \in {"completed", "manual_review"}
  BY FreeMoney DEF AllocateCollection
<1>u. coll[r].provider = "received" /\ UNCHANGED <<attempt, flagged, reversal>>
  BY DEF AllocateCollection
<1>1. CASE /\ Allocate(r, s, "reserved", coll[r]) /\ review' = Reviewed(r, s, "pending", None)
           /\ UNCHANGED intent
  <2>1. \A t \in Subjects : /\ alloc'[r][t] = IF t = s THEN "reserved" ELSE alloc[r][t]
                            /\ review'[r][t] = IF t = s THEN [status |-> "pending", intent |-> None]
                                               ELSE review[r][t]
    BY <1>t, <1>1 DEF Allocate, Reviewed
  <2>2. Promised(r)'
    BY <1>1, <1>f, <2>1 DEF Promised
  <2>3. \A q \in Receipts \ {r} : review'[q] = review[q]
    BY <1>t, <1>1 DEF Reviewed
  <2> QED BY <1>t, <1>u, <1>1, <2>2, <2>3, DecisionKeeps
<1>2. CASE /\ Allocate(r, s, "posted", ClearSurplus(coll[r])) /\ intent' = CompletedBy(r)
           /\ UNCHANGED review
  <2> DEFINE c == ClearSurplus(coll[r])
  <2>1. \A t \in Subjects : alloc'[r][t] = IF t = s THEN "posted" ELSE alloc[r][t]
    BY <1>t, <1>2 DEF Allocate
  <2>2. \A j \in Intents :
           \/ intent'[j].status = intent[j].status /\ intent'[j].fulfilled = intent[j].fulfilled
           \/ /\ intent[j].fulfilled = r /\ intent'[j].fulfilled = r
              /\ intent[j].status \in {"awaiting_cash", "manual_review"}
              /\ intent'[j].status = "completed"
    BY <1>2, CompletedByRows
  <2>3. Promised(r)'
    BY <1>2, <1>f, <2>1, <2>2 DEF Promised
  <2>4. c.provider = coll[r].provider /\ c.amount = coll[r].amount /\ c.intent = coll[r].intent
    BY <1>t DEF ClearSurplus, Row
  <2> HIDE DEF c
  <2>5. c \in Row /\ Allocate(r, s, "posted", c)
    BY <1>c, <1>2 DEF c
  <2> QED BY <1>u, <1>2, <2>2, <2>3, <2>4, <2>5, DecisionKeeps
<1> QED BY <1>1, <1>2 DEF AllocateCollection

\* A late review is decided: its money posts, or is released.
LEMMA LateDecisionKeeps ==
  ASSUME WorkInv, MoneyInv', NEW r \in Receipts, NEW s \in Subjects, NEW status, NEW c \in Row,
         c.provider = coll[r].provider, c.amount = coll[r].amount, c.intent = coll[r].intent,
         review[r][s].status = "pending", alloc[r][s] = "reserved",
         status \in {"posted", "released"}, status = "posted" => c.provider = "received",
         Allocate(r, s, status, c), NEW decision \in {"approved", "rejected"},
         review' = Reviewed(r, s, decision, review[r][s].intent),
         \A i \in Intents :
           \/ intent'[i].status = intent[i].status /\ intent'[i].fulfilled = intent[i].fulfilled
           \/ /\ intent[i].fulfilled = r /\ intent'[i].fulfilled = r
              /\ intent[i].status = "manual_review" /\ intent'[i].status = "completed",
         UNCHANGED <<attempt, flagged, reversal>>
  PROVE  WorkInv'
<1>t. /\ alloc \in [Receipts -> [Subjects -> AllocationStatus]]
      /\ review \in [Receipts -> [Subjects -> ReviewRow]]
  BY DEF WorkInv, MoneyInv, TypeOK
<1>1. \A t \in Subjects : alloc'[r][t] = IF t = s THEN status ELSE alloc[r][t]
  BY <1>t DEF Allocate
<1>2. \A t \in Subjects : t # s => review'[r][t] = review[r][t]
  BY <1>t DEF Reviewed
<1>3. review'[r][s].status = decision /\ \A q \in Receipts \ {r} : review'[q] = review[q]
  BY <1>t DEF Reviewed
<1>4. \A t \in Subjects : t # s => alloc[r][t] # "reserved"
  BY DEF WorkInv, MoneyInv, MoneyConsistent, Consistent, Active
<1>5. Promised(r)
  BY EachPromised
<1>6. Promised(r)'
  <2>1. \A t \in Subjects : review'[r][t].status # "pending" /\ alloc'[r][t] # "reserved"
    BY <1>1, <1>2, <1>3, <1>4, <1>5 DEF Promised
  <2>2. \A i \in Intents : intent[i].fulfilled = r => intent[i].status \in {"completed", "manual_review"}
    BY <1>4, <1>5, ConstantsAssumption DEF Promised
  <2> QED BY <2>1, <2>2 DEF Promised
<1>7. \A i \in Intents :
         \/ intent'[i].status = intent[i].status /\ intent'[i].fulfilled = intent[i].fulfilled
         \/ /\ intent[i].fulfilled = r /\ intent'[i].fulfilled = r
            /\ intent[i].status \in {"awaiting_cash", "manual_review"}
            /\ intent'[i].status = "completed"
  OBVIOUS
<1> QED BY <1>3, <1>6, <1>7, DecisionKeeps

LEMMA ApproveLateKeeps ==
  ASSUME WorkInv, MoneyInv', NEW r \in Receipts, NEW s \in Subjects, ApproveLate(r, s)
  PROVE  WorkInv'
<1> DEFINE c == ClearSurplus(coll[r])
           i == review[r][s].intent
<1>t. /\ coll[r] \in Row /\ intent \in [Intents -> IntentRow] /\ i \in Intents \union {None}
  BY DEF WorkInv, MoneyInv, TypeOK, ReviewRow
<1>1. c \in Row
  BY <1>t DEF ClearSurplus, Row
<1>2. c.provider = coll[r].provider /\ c.amount = coll[r].amount /\ c.intent = coll[r].intent
  BY <1>t DEF ClearSurplus, Row
<1>3. /\ coll[r].provider = "received" /\ review[r][s].status = "pending" /\ alloc[r][s] = "reserved"
      /\ Allocate(r, s, "posted", c) /\ review' = Reviewed(r, s, "approved", i)
      /\ UNCHANGED <<attempt, flagged, reversal>>
  BY DEF ApproveLate, Postable
<1>4. ASSUME NEW j \in Intents
      PROVE  \/ intent'[j].status = intent[j].status /\ intent'[j].fulfilled = intent[j].fulfilled
             \/ /\ intent[j].fulfilled = r /\ intent'[j].fulfilled = r
                /\ intent[j].status = "manual_review" /\ intent'[j].status = "completed"
  <2>1. CASE i = None
    <3>1. intent' = CompletedBy(r)
      BY <2>1 DEF ApproveLate
    <3> QED BY <3>1, CompletedByRows
  <2>2. CASE i # None
    <3>1. intent[i].fulfilled = r /\ intent[i].status = "manual_review"
      BY <1>3, <2>2 DEF WorkInv, LateReviewDecidable
    <3>2. intent' = Served(i, "completed", r)
      BY <2>2 DEF ApproveLate
    <3>3. intent'[j].fulfilled = (IF j = i THEN r ELSE intent[j].fulfilled)
          /\ intent'[j].status = (IF j = i THEN "completed" ELSE intent[j].status)
      BY <1>t, <3>2 DEF Served, IntentRow
    <3> QED BY <3>1, <3>3
  <2> QED BY <2>1, <2>2
<1> HIDE DEF c
<1> QED BY <1>1, <1>2, <1>3, <1>4, LateDecisionKeeps

LEMMA RejectLateKeeps ==
  ASSUME WorkInv, MoneyInv', NEW r \in Receipts, NEW s \in Subjects, RejectLate(r, s)
  PROVE  WorkInv'
<1>t. /\ coll[r] \in Row /\ intent \in [Intents -> IntentRow]
  BY DEF WorkInv, MoneyInv, TypeOK
<1>1. /\ review[r][s].status = "pending" /\ alloc[r][s] = "reserved"
      /\ Allocate(r, s, "released", coll[r])
      /\ review' = Reviewed(r, s, "rejected", review[r][s].intent)
      /\ UNCHANGED <<attempt, flagged, reversal>>
  BY DEF RejectLate
<1>2. \A j \in Intents : intent'[j].status = intent[j].status
                         /\ intent'[j].fulfilled = intent[j].fulfilled
  BY <1>t DEF RejectLate, IntentRow
<1> QED BY <1>t, <1>1, <1>2, LateDecisionKeeps

-----------------------------------------------------------------------------
(* Checkouts opened, subjects settled elsewhere, reversals.                  *)

LEMMA CreateIntentKeeps ==
  ASSUME WorkInv, MoneyInv', NEW i \in Intents, CreateIntent(i)
  PROVE  WorkInv'
<1>1. /\ intent \in [Intents -> IntentRow] /\ intent[i].status = "absent" /\ IndexAdmits(i)
      /\ UNCHANGED <<attempt, flagged, coll, alloc, review, reversal>>
  BY DEF WorkInv, MoneyInv, TypeOK, CreateIntent, money
<1>2. \A j \in Intents : /\ intent'[j].fulfilled = intent[j].fulfilled
                         /\ intent'[j].status = IF j = i THEN "created" ELSE intent[j].status
  BY <1>1 DEF CreateIntent, IntentRow
<1>3. intent[i].fulfilled = None
  BY <1>1 DEF WorkInv, FulfilledIntentIsKept
<1>4. \A j \in Intents : PromiseKept(j)
  BY <1>2, <1>3 DEF PromiseKept
<1>5. Admitted /\ MarksKept /\ FulfilmentNamed /\ \A j \in Intents : Created(j) => Created(j)'
  BY <1>1, <1>2 DEF Admitted, Unresolved, MarksKept, FulfilmentNamed, Created
<1>6. NamesMoney' /\ FulfilledIntentIsKept' /\ LateReviewDecidable' /\ ReservationOwned'
  BY <1>1, <1>4, PromisesKept
<1>7. NamesCreated' /\ RowsNamed' /\ OneUnresolved'
  BY <1>1, <1>5, SameRows, NamesKept, NamingKept, IndexKept
<1>8. ReversalRecorded' /\ ReversedMoneyLeavesBooks'
  BY <1>1, SameRows, ReversalsKept
<1> QED BY <1>6, <1>7, <1>8 DEF WorkInv

\* A step on subjects alone.
LEMMA SubjectKeeps ==
  ASSUME WorkInv, MoneyInv', UNCHANGED <<provider, money>>
  PROVE  WorkInv'
<1>1. UNCHANGED <<intent, attempt, flagged, coll, alloc, review, reversal>>
  BY DEF provider, money
<1>2. \A j \in Intents : PromiseKept(j)
  BY <1>1 DEF PromiseKept
<1>3. Admitted /\ MarksKept /\ FulfilmentNamed /\ \A j \in Intents : Created(j) => Created(j)'
  BY <1>1 DEF Admitted, Unresolved, MarksKept, FulfilmentNamed, Created
<1>4. NamesMoney' /\ FulfilledIntentIsKept' /\ LateReviewDecidable' /\ ReservationOwned'
  BY <1>1, <1>2, PromisesKept
<1>5. NamesCreated' /\ RowsNamed' /\ OneUnresolved'
  BY <1>1, <1>3, SameRows, NamesKept, NamingKept, IndexKept
<1>6. ReversalRecorded' /\ ReversedMoneyLeavesBooks'
  BY <1>1, SameRows, ReversalsKept
<1> QED BY <1>4, <1>5, <1>6 DEF WorkInv

\* Rows that change keep the intent they name.
LEMMA NamesOfRows ==
  ASSUME WorkInv, UNCHANGED <<intent, attempt, flagged>>,
         \A r \in Receipts : coll'[r].intent = coll[r].intent
  PROVE  NamesCreated' /\ RowsNamed' /\ OneUnresolved'
<1>t. \A i \in Intents : intent[i].fulfilled \in Receipts \union {None}
  BY DEF WorkInv, MoneyInv, TypeOK, IntentRow
<1>1. NamesCreated'
  BY DEF WorkInv, NamesCreated, Exists, Created
<1>2. RowsNamed'
  BY <1>t DEF WorkInv, RowsNamed
<1>3. OneUnresolved'
  BY DEF WorkInv, OneUnresolved, Unresolved
<1> QED BY <1>1, <1>2, <1>3

LEMMA GoneKeeps ==
  ASSUME WorkInv, MoneyInv', NEW r \in Receipts, GoneUnposted(r)
  PROVE  WorkInv'
<1>t. /\ coll \in [Receipts -> Row] /\ coll[r] \in Row
      /\ reversal \in [Receipts -> {"none", "accounting_pending", "completed"}]
  BY DEF WorkInv, MoneyInv, TypeOK
<1>1. UNCHANGED <<intent, attempt, flagged, alloc, review>>
  BY DEF GoneUnposted, provider
<1>2. TakenBack(coll[r]).provider = "reversed" /\ TakenBack(coll[r]).intent = coll[r].intent
  BY <1>t DEF TakenBack, Row
<1>3. \A q \in Receipts : /\ coll'[q].intent = coll[q].intent
                          /\ coll'[q].provider = IF q = r THEN "reversed" ELSE coll[q].provider
  BY <1>t, <1>2 DEF GoneUnposted
<1>4. \A q \in Receipts : q # r => reversal'[q] = reversal[q]
  BY <1>t DEF GoneUnposted
<1>5. /\ reversal'[r] # "none"
      /\ (\E s \in Subjects : alloc[r][s] = "posted") => reversal'[r] = "accounting_pending"
  BY <1>t DEF GoneUnposted
<1>6. ReversalRecorded' /\ ReversedMoneyLeavesBooks'
  BY <1>1, <1>3, <1>4, <1>5 DEF WorkInv, ReversalRecorded, ReversedMoneyLeavesBooks
<1>7. NamesMoney' /\ FulfilledIntentIsKept' /\ LateReviewDecidable' /\ ReservationOwned'
  BY <1>1, PromisesKept DEF PromiseKept
<1> QED BY <1>1, <1>3, <1>6, <1>7, NamesOfRows DEF WorkInv

\* Cancelled postings: pointwise.
LEMMA CancelsRows ==
  ASSUME WorkInv, NEW rs \in SUBSET Receipts, NEW s \in Subjects, Cancels(rs, s)
  PROVE  /\ \A q \in Receipts, t \in Subjects :
              alloc'[q][t] = IF q \in rs /\ t = s
                             THEN (IF reversal'[q] # "none" THEN "reversed" ELSE "released")
                             ELSE alloc[q][t]
         /\ \A q \in Receipts :
              /\ coll'[q].intent = coll[q].intent /\ coll'[q].amount = coll[q].amount
              /\ coll'[q].provider = IF q \in rs /\ reversal'[q] # "none" THEN "reversed"
                                     ELSE coll[q].provider
<1>1. ASSUME NEW q \in Receipts, NEW t \in Subjects
      PROVE  alloc'[q][t] = IF q \in rs /\ t = s
                            THEN (IF reversal'[q] # "none" THEN "reversed" ELSE "released")
                            ELSE alloc[q][t]
  <2>1. alloc[q] \in [Subjects -> AllocationStatus]
    BY DEF WorkInv, MoneyInv, TypeOK
  <2> QED BY <2>1 DEF Cancels, Unwound
<1>2. ASSUME NEW q \in Receipts
      PROVE  /\ coll'[q].intent = coll[q].intent /\ coll'[q].amount = coll[q].amount
             /\ coll'[q].provider = IF q \in rs /\ reversal'[q] # "none" THEN "reversed"
                                    ELSE coll[q].provider
  <2>1. coll[q] \in Row
    BY DEF WorkInv, MoneyInv, TypeOK
  <2>2. coll'[q] = IF q \notin rs THEN coll[q]
                   ELSE IF reversal'[q] # "none" THEN TakenBack(coll[q])
                   ELSE Refreshed(coll[q], alloc'[q])
    BY DEF Cancels, Unwound
  <2>3. TakenBack(coll[q]).intent = coll[q].intent /\ TakenBack(coll[q]).amount = coll[q].amount
        /\ TakenBack(coll[q]).provider = "reversed"
    BY <2>1 DEF TakenBack, Row
  <2>4. ASSUME NEW allocs
        PROVE  /\ Refreshed(coll[q], allocs).intent = coll[q].intent
               /\ Refreshed(coll[q], allocs).amount = coll[q].amount
               /\ Refreshed(coll[q], allocs).provider = coll[q].provider
    BY <2>1 DEF Refreshed, Row
  <2> QED BY <2>2, <2>3, <2>4
<1> QED BY <1>1, <1>2

LEMMA CancelsKeeps ==
  ASSUME WorkInv, MoneyInv', NEW rs \in SUBSET Receipts, NEW s \in Subjects, Cancels(rs, s)
  PROVE  WorkInv'
<1>1. /\ UNCHANGED <<intent, attempt, flagged, review>>
      /\ \A q \in rs : alloc[q][s] = "posted"
      /\ \A q \in rs : reversal'[q] = "completed" \/ (reversal[q] = "none" /\ reversal'[q] = "none")
      /\ \A q \in Receipts \ rs : reversal'[q] = reversal[q]
  BY DEF Cancels, provider
<1>a. \A q \in Receipts, t \in Subjects :
        alloc'[q][t] = IF q \in rs /\ t = s
                       THEN (IF reversal'[q] # "none" THEN "reversed" ELSE "released")
                       ELSE alloc[q][t]
  BY CancelsRows
<1>p. \A q \in Receipts :
        coll'[q].provider = IF q \in rs /\ reversal'[q] # "none" THEN "reversed"
                            ELSE coll[q].provider
  BY CancelsRows
<1>2. \A q \in Receipts, t \in Subjects : alloc'[q][t] = "reserved" <=> alloc[q][t] = "reserved"
  BY <1>1, <1>a
<1>3. \A q \in Receipts, t \in Subjects : alloc'[q][t] = "posted" => q \notin rs
  <2>1. \A q \in rs, t \in Subjects : t # s => alloc[q][t] # "posted"
    BY <1>1 DEF WorkInv, MoneyInv, MoneyConsistent, Consistent, Active
  <2> QED BY <2>1, <1>a
<1>4. ReversalRecorded'
  <2>1. ASSUME NEW q \in Receipts
        PROVE  coll'[q].provider = "reversed" <=> reversal'[q] # "none"
    <3>1. coll[q].provider = "reversed" <=> reversal[q] # "none"
      BY DEF WorkInv, ReversalRecorded
    <3> QED BY <3>1, <1>1, <1>p
  <2> QED BY <2>1 DEF ReversalRecorded
<1>5. ReversedMoneyLeavesBooks'
  <2>1. ASSUME NEW q \in Receipts, NEW t \in Subjects, alloc'[q][t] = "posted",
               coll'[q].provider = "reversed"
        PROVE  reversal'[q] = "accounting_pending"
    <3>1. q \notin rs
      BY <1>3, <2>1
    <3>2. alloc[q][t] = "posted" /\ coll[q].provider = "reversed" /\ reversal'[q] = reversal[q]
      BY <1>1, <1>a, <1>p, <2>1, <3>1
    <3> QED BY <3>2 DEF WorkInv, ReversedMoneyLeavesBooks
  <2> QED BY <2>1 DEF ReversedMoneyLeavesBooks
<1>6. NamesMoney' /\ FulfilledIntentIsKept' /\ LateReviewDecidable'
  BY <1>1, <1>2 DEF WorkInv, NamesMoney, FulfilledIntentIsKept, LateReviewDecidable
<1>7. ReservationOwned'
  <2>1. \A i \in Intents : intent[i].fulfilled \in Receipts \union {None} /\ SubjectOf[i] \in Subjects
    BY ConstantsAssumption DEF WorkInv, MoneyInv, TypeOK, IntentRow
  <2> QED BY <1>1, <1>2, <2>1 DEF WorkInv, ReservationOwned
<1>8. \A q \in Receipts : coll'[q].intent = coll[q].intent
  BY CancelsRows
<1>9. NamesCreated' /\ RowsNamed' /\ OneUnresolved'
  BY <1>1, <1>8, NamesOfRows
<1> QED BY <1>4, <1>5, <1>6, <1>7, <1>9 DEF WorkInv

-----------------------------------------------------------------------------
(* The invariant of the specification.                                       *)

LEMMA TakesAsideKeeps ==
  ASSUME WorkInv, MoneyInv', NEW i \in Intents, NEW r \in Receipts, TakesAside(i, r)
  PROVE  WorkInv'
<1>1. PICK x \in IntentRow : /\ Takes(i, r, x, "reserved")
                             /\ x.status \in {"awaiting_cash", "manual_review"}
                             /\ \/ UNCHANGED review
                                \/ /\ x.status = "manual_review"
                                   /\ review' = Reviewed(r, SubjectOf[i], "pending", i)
  BY DEF TakesAside
<1> QED BY <1>1, TakesKeeps

LEMMA TakesPostedKeeps ==
  ASSUME WorkInv, MoneyInv', NEW i \in Intents, NEW r \in Receipts, TakesPosted(i, r)
  PROVE  WorkInv'
<1>1. PICK x \in IntentRow : /\ Takes(i, r, x, "posted") /\ x.status = "completed"
                             /\ Postable(coll'[r], SubjectOf[i]) /\ UNCHANGED review
  BY DEF TakesPosted
<1>2. coll'[r].provider = "received"
  BY <1>1 DEF Postable
<1> QED BY <1>1, <1>2, TakesKeeps

LEMMA WorkStep == WorkInv /\ [Next]_vars => WorkInv'
<1> SUFFICES ASSUME WorkInv, [Next]_vars PROVE WorkInv'
  OBVIOUS
<1>1. MoneyInv' /\ Move
  BY MoneyStep, StepsMove DEF WorkInv
<1>2. ASSUME NEW i \in Intents, CreateIntent(i) \/ CashSplit(i) PROVE WorkInv'
  BY <1>1, <1>2, CreateIntentKeeps, CashSplitKeeps
<1>3. ASSUME NEW i \in Intents, NEW r \in Receipts, TakesAside(i, r) \/ TakesPosted(i, r)
      PROVE  WorkInv'
  BY <1>1, <1>3, TakesAsideKeeps, TakesPostedKeeps
<1>4. ASSUME NEW r \in Receipts, NEW s \in Subjects,
             AllocateCollection(r, s) \/ ApproveLate(r, s) \/ RejectLate(r, s)
      PROVE  WorkInv'
  BY <1>1, <1>4, AllocateCollectionKeeps, ApproveLateKeeps, RejectLateKeeps
<1>5. ASSUME NEW r \in Receipts, GoneUnposted(r) PROVE WorkInv'
  BY <1>1, <1>5, GoneKeeps
<1>6. ASSUME NEW rs \in SUBSET Receipts, NEW s \in Subjects, Cancels(rs, s) PROVE WorkInv'
  BY <1>1, <1>6, CancelsKeeps
<1>7. ASSUME NEW s \in Subjects, SettleOtherwise(s) \/ VoidHeldOrder(s) PROVE WorkInv'
  <2>1. UNCHANGED <<provider, money>>
    BY <1>7 DEF SettleOtherwise, VoidHeldOrder
  <2> QED BY <1>1, <2>1, SubjectKeeps
<1> QED BY <1>1, <1>2, <1>3, <1>4, <1>5, <1>6, <1>7, DriftKeeps DEF Move

LEMMA InitWork == Init => WorkInv
<1> SUFFICES ASSUME Init PROVE WorkInv
  OBVIOUS
<1>1. MoneyInv
  <2>1. MoneyConsistent
    BY DEF Init, MoneyConsistent, Consistent, DerivedStatus, Active
  <2> QED BY <2>1, InitType DEF MoneyInv
<1>2. \A i \in Intents : /\ intent[i].status = "absent" /\ intent[i].fulfilled = None
                         /\ \A n \in AttemptNumbers : ~Exists(i, n) /\ <<i, n>> \notin flagged
  BY DEF Init, Exists
<1>3. \A r \in Receipts : /\ coll[r].provider = "absent" /\ coll[r].intent = None
                          /\ reversal[r] = "none"
                          /\ \A s \in Subjects : alloc[r][s] = "none" /\ review[r][s].status = "none"
  BY DEF Init
<1>4. NamesCreated /\ OneUnresolved /\ NamesMoney
  BY <1>2, <1>3 DEF NamesCreated, OneUnresolved, NamesMoney, Unresolved, Resolved
<1>5. FulfilledIntentIsKept /\ LateReviewDecidable /\ ReservationOwned /\ RowsNamed
  BY <1>2, <1>3 DEF FulfilledIntentIsKept, LateReviewDecidable, ReservationOwned, RowsNamed
<1>6. ReversalRecorded /\ ReversedMoneyLeavesBooks
  BY <1>3 DEF ReversalRecorded, ReversedMoneyLeavesBooks
<1> QED BY <1>1, <1>4, <1>5, <1>6 DEF WorkInv

LEMMA WorkInvariant == Spec => []WorkInv
BY InitWork, WorkStep, PTL DEF Spec

-----------------------------------------------------------------------------
(* Who must act.                                                             *)

\* Once money fulfils an intent, neither mpesa_finalize_stk_terminal nor the sweep
\* nor a dismissed event can end the intent unpaid or ask the provider again.
THEOREM FulfilledKept == Spec => []FulfilledIntentIsKept
<1>1. WorkInv => FulfilledIntentIsKept
  BY DEF WorkInv
<1> QED BY <1>1, WorkInvariant, PTL

\* review_mpesa_late_posting never finds its reservation gone, nor the intent it
\* is to complete resolved or holding other money.
THEOREM LateReviewsDecidable == Spec => []LateReviewDecidable
<1>1. WorkInv => LateReviewDecidable
  BY DEF WorkInv
<1> QED BY <1>1, WorkInvariant, PTL

\* No reservation is forgotten: a pending late review or an intent of the same
\* subject that waits for cash or for staff holds each, and cash is only taken
\* for a sale whose M-PESA part is set aside.
THEOREM ReservationsOwned == Spec => []ReservationOwned
<1>1. WorkInv => ReservationOwned
  BY DEF WorkInv
<1> QED BY <1>1, WorkInvariant, PTL

\* request_mpesa_reversal leaves money in the books only with its approval
\* outstanding, and no allocation ever posts a receipt that is gone.
THEOREM ReversedMoneyLeaves == Spec => []ReversedMoneyLeavesBooks
<1>1. WorkInv => ReversedMoneyLeavesBooks
  BY DEF WorkInv
<1> QED BY <1>1, WorkInvariant, PTL

\* Without hand-typed receipts, received money that is not posted is on a list
\* that staff or the till reads, although those lists follow the intent on the
\* row and not the intent the money fulfils.
THEOREM MoneyVisible == Spec => []MoneyIsVisible
<1>1. WorkInv => MoneyIsVisible
  <2> SUFFICES ASSUME WorkInv, ~ManualFallbackAllowed, NEW r \in Receipts,
                      coll[r].allocation = "reserved",
                      \A s \in Subjects : review[r][s].status # "pending"
               PROVE  coll[r].intent # None
                      /\ intent[coll[r].intent].status \in {"manual_review", "awaiting_cash"}
    BY DEF MoneyIsVisible
  <2>1. PICK s \in Subjects : alloc[r][s] = "reserved"
    BY DEF WorkInv, MoneyInv, MoneyConsistent, Consistent, DerivedStatus
  <2>2. PICK i \in Intents : intent[i].fulfilled = r
                             /\ intent[i].status \in {"awaiting_cash", "manual_review"}
    BY <2>1 DEF WorkInv, ReservationOwned
  <2>3. coll[r].intent = i
    BY <2>2, ConstantsAssumption DEF WorkInv, RowsNamed
  <2> QED BY <2>2, <2>3, ConstantsAssumption
<1> QED BY <1>1, WorkInvariant, PTL

-----------------------------------------------------------------------------
(* What a step never does to an intent.                                      *)

\* A step that drifts aside, an intent stays as it is or is opened,
IntentKept(i) ==
  /\ intent'[i].fulfilled = intent[i].fulfilled
  /\ \/ intent'[i].status = intent[i].status
     \/ CreateIntent(i) /\ intent[i].status = "absent" /\ intent'[i].status = "created"

\* or gets money that is set aside,
IntentPromised(i) ==
  /\ intent[i].status \in Receiving /\ intent'[i].status \in {"awaiting_cash", "manual_review"}
  /\ intent[i].fulfilled \in {None, intent'[i].fulfilled}

\* or is completed by money that is now in the books.
IntentPaid(i) ==
  \E r \in Receipts, s \in Subjects :
    /\ Created(i) /\ intent[i].fulfilled \in {None, r} /\ intent'[i].fulfilled = r
    /\ intent'[i].status = "completed" /\ alloc'[r][s] = "posted"

LEMMA TakesMoves ==
  ASSUME WorkInv, NEW i \in Intents, NEW r \in Receipts, TakesAside(i, r) \/ TakesPosted(i, r)
  PROVE  \A j \in Intents : IntentKept(j) \/ IntentPromised(j) \/ IntentPaid(j)
<1>t. /\ intent \in [Intents -> IntentRow] /\ alloc \in [Receipts -> [Subjects -> AllocationStatus]]
      /\ SubjectOf[i] \in Subjects
  BY ConstantsAssumption DEF WorkInv, MoneyInv, TypeOK
<1>1. ASSUME NEW x, NEW status, Takes(i, r, x, status)
      PROVE  /\ \A j \in Intents : intent'[j] = IF j = i THEN x ELSE intent[j]
             /\ alloc'[r][SubjectOf[i]] = status
             /\ intent[i].fulfilled \in {None, r} /\ x.fulfilled = r
             /\ intent[i].status \in Receiving
  BY <1>1, <1>t DEF Takes
<1>2. CASE TakesAside(i, r)
  <2>1. PICK x \in IntentRow : Takes(i, r, x, "reserved") /\ x.status \in {"awaiting_cash", "manual_review"}
    BY <1>2 DEF TakesAside
  <2> QED BY <1>1, <2>1 DEF IntentKept, IntentPromised
<1>3. CASE TakesPosted(i, r)
  <2>1. PICK x \in IntentRow : Takes(i, r, x, "posted") /\ x.status = "completed"
    BY <1>3 DEF TakesPosted
  <2> QED BY <1>1, <1>t, <2>1 DEF IntentKept, IntentPaid, Created, Receiving
<1> QED BY <1>2, <1>3

LEMMA IntentMoves ==
  ASSUME WorkInv, Move
  PROVE  Drift \/ \A i \in Intents : IntentKept(i) \/ IntentPromised(i) \/ IntentPaid(i)
<1>t. /\ intent \in [Intents -> IntentRow] /\ alloc \in [Receipts -> [Subjects -> AllocationStatus]]
      /\ None \notin Receipts
  BY ConstantsAssumption DEF WorkInv, MoneyInv, TypeOK
<1>s. UNCHANGED intent => \A i \in Intents : IntentKept(i)
  BY DEF IntentKept
<1>1. ASSUME NEW i \in Intents, CreateIntent(i) PROVE \A j \in Intents : IntentKept(j)
  <2>1. \A j \in Intents : intent[j] \in IntentRow
    BY <1>t
  <2> QED BY <1>1, <1>t, <2>1 DEF CreateIntent, IntentRow, IntentKept
<1>2. ASSUME NEW i \in Intents, CashSplit(i)
      PROVE  \A j \in Intents : IntentKept(j) \/ IntentPaid(j)
  <2>1. PICK r \in Receipts : r = intent[i].fulfilled
    <3>1. intent[i].fulfilled # None /\ intent[i].fulfilled \in Receipts \union {None}
      BY <1>2, <1>t DEF CashSplit, WorkInv, ReservationOwned, IntentRow
    <3> QED BY <3>1
  <2>2. alloc'[r][SubjectOf[i]] = "posted" /\ SubjectOf[i] \in Subjects
    BY <1>2, <1>t, <2>1, ConstantsAssumption DEF CashSplit, Allocate
  <2>3. \A j \in Intents : /\ intent'[j].fulfilled = intent[j].fulfilled
                           /\ intent'[j].status = IF j = i THEN "completed" ELSE intent[j].status
    BY <1>2, <1>t DEF CashSplit, Moved, IntentRow
  <2>4. Created(i)
    BY <1>2 DEF CashSplit, Created
  <2> QED BY <2>1, <2>2, <2>3, <2>4 DEF IntentKept, IntentPaid
<1>3. ASSUME NEW r \in Receipts, NEW s \in Subjects, alloc'[r][s] = "posted", intent' = CompletedBy(r)
      PROVE  \A j \in Intents : IntentKept(j) \/ IntentPaid(j)
  <2>1. \A j \in Intents : \/ intent'[j] = intent[j]
                           \/ /\ intent[j].fulfilled = r /\ intent'[j].fulfilled = r
                              /\ Created(j) /\ intent'[j].status = "completed"
    BY <1>3, CompletedByRows DEF Created
  <2> QED BY <1>3, <2>1 DEF IntentKept, IntentPaid
<1>4. ASSUME NEW r \in Receipts, NEW s \in Subjects, AllocateCollection(r, s)
      PROVE  \A j \in Intents : IntentKept(j) \/ IntentPaid(j)
  <2>1. CASE UNCHANGED intent
    BY <1>s, <2>1
  <2>2. CASE Allocate(r, s, "posted", ClearSurplus(coll[r])) /\ intent' = CompletedBy(r)
    <3>1. alloc'[r][s] = "posted"
      BY <1>t, <2>2 DEF Allocate
    <3> QED BY <1>3, <2>2, <3>1
  <2> QED BY <1>4, <2>1, <2>2 DEF AllocateCollection
<1>5. ASSUME NEW r \in Receipts, NEW s \in Subjects, ApproveLate(r, s)
      PROVE  \A j \in Intents : IntentKept(j) \/ IntentPaid(j)
  <2> DEFINE i == review[r][s].intent
  <2>1. alloc'[r][s] = "posted"
    BY <1>5, <1>t DEF ApproveLate, Allocate
  <2>2. CASE i = None
    BY <1>3, <1>5, <2>1, <2>2 DEF ApproveLate
  <2>3. CASE i # None
    <3>1. intent[i].fulfilled = r /\ Created(i) /\ intent' = Served(i, "completed", r)
      BY <1>5, <2>3 DEF ApproveLate, WorkInv, LateReviewDecidable, Created
    <3>2. \A j \in Intents : /\ intent'[j].fulfilled = (IF j = i THEN r ELSE intent[j].fulfilled)
                             /\ intent'[j].status = (IF j = i THEN "completed" ELSE intent[j].status)
      BY <1>t, <3>1 DEF Served, IntentRow
    <3> QED BY <2>1, <3>1, <3>2 DEF IntentKept, IntentPaid
  <2> QED BY <2>2, <2>3
<1>6. ASSUME NEW r \in Receipts, NEW s \in Subjects, RejectLate(r, s)
      PROVE  \A j \in Intents : IntentKept(j)
  BY <1>6, <1>t DEF RejectLate, IntentRow, IntentKept
<1>7. ASSUME NEW i \in Intents, NEW r \in Receipts, TakesAside(i, r) \/ TakesPosted(i, r)
      PROVE  \A j \in Intents : IntentKept(j) \/ IntentPromised(j) \/ IntentPaid(j)
  BY <1>7, TakesMoves
<1>8. ASSUME \/ \E r \in Receipts : GoneUnposted(r)
             \/ \E rs \in SUBSET Receipts, s \in Subjects : Cancels(rs, s)
             \/ \E s \in Subjects : SettleOtherwise(s) \/ VoidHeldOrder(s)
      PROVE  \A j \in Intents : IntentKept(j)
  BY <1>8, <1>s DEF GoneUnposted, Cancels, SettleOtherwise, VoidHeldOrder, provider
<1> QED BY <1>1, <1>2, <1>4, <1>5, <1>6, <1>7, <1>8 DEF Move

\* What a step of the specification may do to one intent.
LEMMA IntentStep ==
  ASSUME WorkInv, [Next]_vars
  PROVE  \A i \in Intents :
           /\ intent[i].status # "completed" /\ intent'[i].status = "completed" =>
                \E r \in Receipts, s \in Subjects :
                  intent'[i].fulfilled = r /\ alloc'[r][s] = "posted"
           /\ intent[i].fulfilled # None => intent'[i].fulfilled = intent[i].fulfilled
           /\ intent[i].status = "completed" /\ intent'[i].status # "completed" =>
                \E r \in MoneyOf(i) : coll'[r].disputed
<1>1. Move
  BY StepsMove
<1>2. CASE Drift
  BY <1>2 DEF Drift, IntentsDrift, DriftsTo, ReopensOnDispute
<1>3. CASE \A i \in Intents : IntentKept(i) \/ IntentPromised(i) \/ IntentPaid(i)
  <2> SUFFICES ASSUME NEW i \in Intents
               PROVE  /\ intent[i].status # "completed" /\ intent'[i].status = "completed" =>
                           \E r \in Receipts, s \in Subjects :
                             intent'[i].fulfilled = r /\ alloc'[r][s] = "posted"
                      /\ intent[i].fulfilled # None => intent'[i].fulfilled = intent[i].fulfilled
                      /\ intent[i].status = "completed" => intent'[i].status = "completed"
    OBVIOUS
  <2>1. CASE IntentKept(i)
    BY <2>1 DEF IntentKept
  <2>2. CASE IntentPromised(i)
    BY <2>2 DEF IntentPromised, Receiving
  <2>3. CASE IntentPaid(i)
    BY <2>3 DEF IntentPaid
  <2> QED BY <1>3, <2>1, <2>2, <2>3
<1> QED BY <1>1, <1>2, <1>3, IntentMoves

\* Whichever function completes a checkout, the posting is made in the same
\* transaction, so that a completed intent was never without its money.
THEOREM CompletionPosted == Spec => CompletionIsPosted
<1>1. WorkInv /\ [Next]_vars =>
        [\A i \in Intents : intent[i].status # "completed" /\ intent'[i].status = "completed" =>
           \E r \in Receipts, s \in Subjects :
             intent'[i].fulfilled = r /\ alloc'[r][s] = "posted"]_vars
  BY IntentStep
<1> QED BY <1>1, WorkInvariant, PTL DEF Spec, CompletionIsPosted

\* mpesa_apply_collection_to_intent, the late review and the disputes never write
\* other money over fulfilled_collection_id.
THEOREM FulfilmentFinal == Spec => FulfilmentIsFinal
<1>1. WorkInv /\ [Next]_vars =>
        [\A i \in Intents : intent[i].fulfilled # None =>
           intent'[i].fulfilled = intent[i].fulfilled]_vars
  BY IntentStep
<1> QED BY <1>1, WorkInvariant, PTL DEF Spec, FulfilmentIsFinal

\* Only a notification that contradicts money of the intent takes it out of
\* 'completed': no late callback, query, sweep or review does.
THEOREM ReopenedOnDispute == Spec => CompletedReopensOnDispute
<1>1. WorkInv /\ [Next]_vars =>
        [\A i \in Intents : intent[i].status = "completed" /\ intent'[i].status # "completed" =>
           \E r \in MoneyOf(i) : coll'[r].disputed]_vars
  BY IntentStep
<1> QED BY <1>1, WorkInvariant, PTL DEF Spec, CompletedReopensOnDispute
=============================================================================
