----------------------- MODULE MpesaSettlementProofs -----------------------
(***************************************************************************)
(* Theorems about MpesaSettlement, for all sets of orders, intents and      *)
(* receipts and all prices.                                                 *)
(***************************************************************************)
EXTENDS MpesaSettlement, TLAPS

AttemptRows == [Intents -> [AttemptNumbers -> AttemptStatus]]

\* The rows that the operators of the settlement build are well-formed rows.
LEMMA UpsertedType ==
  ASSUME TypeOK, NEW r \in Receipts, NEW amount \in Nat, NEW d \in 0..MaxDay,
         NEW source \in {"stk", "c2b", "manual"}, NEW i \in Intents \union {None}
  PROVE  Upserted(r, amount, d, source, i) \in Row
<1>1. coll[r] \in Row
  BY DEF TypeOK
<1>2. (source = "manual") \in BOOLEAN
  OBVIOUS
<1>3. CASE coll[r].provider = "absent"
  BY <1>2, <1>3 DEF Upserted, Row
<1>4. CASE coll[r].provider # "absent"
  <2>1. (coll[r].manual /\ source = "manual") \in BOOLEAN /\ (coll[r].disputed /\ source # "stk") \in BOOLEAN
    OBVIOUS
  <2>2. /\ (IF coll[r].manual /\ source # "manual" THEN d ELSE coll[r].day) \in 0..MaxDay
        /\ (IF coll[r].intent = None THEN i ELSE coll[r].intent) \in Intents \union {None}
    BY <1>1 DEF Row
  <2> QED BY <1>1, <1>4, <2>1, <2>2 DEF Upserted, Row
<1> QED BY <1>3, <1>4

LEMMA ToReviewType ==
  ASSUME TypeOK, NEW i \in Intents, NEW r \in Receipts \union {None}, NEW failed \in BOOLEAN
  PROVE  ToReview(i, r, failed) \in [Intents -> IntentRow]
<1>1. intent[i] \in IntentRow
  BY DEF TypeOK
<1>2. [intent[i] EXCEPT !.status = "manual_review", !.fulfilled = r, !.postFailed = failed] \in IntentRow
  BY <1>1 DEF IntentRow, IntentStatus
<1> QED BY <1>2 DEF TypeOK, ToReview

LEMMA RowUpdates ==
  ASSUME TypeOK
  PROVE  /\ \A i \in Intents, status \in IntentStatus :
              Moved(i, status) \in [Intents -> IntentRow]
         /\ \A i \in Intents, status \in IntentStatus, r \in Receipts \union {None} :
              Served(i, status, r) \in [Intents -> IntentRow]
         /\ \A s \in Subjects, status \in SubjectStatus :
              Marked(s, status) \in [Subjects -> SubjectRow]
         /\ \A r \in Receipts, s \in Subjects, i \in Intents \union {None},
               status \in {"pending", "approved", "rejected"} :
              Reviewed(r, s, status, i) \in [Receipts -> [Subjects -> ReviewRow]]
<1>1. ASSUME NEW i \in Intents, NEW status \in IntentStatus
      PROVE  Moved(i, status) \in [Intents -> IntentRow]
  <2>1. intent[i] \in IntentRow
    BY DEF TypeOK
  <2>2. [intent[i] EXCEPT !.status = status] \in IntentRow
    BY <2>1 DEF IntentRow
  <2> QED BY <2>2 DEF Moved, TypeOK
<1>2. ASSUME NEW i \in Intents, NEW status \in IntentStatus, NEW r \in Receipts \union {None}
      PROVE  Served(i, status, r) \in [Intents -> IntentRow]
  <2>1. intent[i] \in IntentRow
    BY DEF TypeOK
  <2>2. [intent[i] EXCEPT !.status = status, !.fulfilled = r] \in IntentRow
    BY <2>1 DEF IntentRow
  <2> QED BY <2>2 DEF Served, TypeOK
<1>3. ASSUME NEW s \in Subjects, NEW status \in SubjectStatus
      PROVE  Marked(s, status) \in [Subjects -> SubjectRow]
  BY DEF Marked, TypeOK, SubjectRow
<1>4. ASSUME NEW r \in Receipts, NEW s \in Subjects, NEW i \in Intents \union {None},
             NEW status \in {"pending", "approved", "rejected"}
      PROVE  Reviewed(r, s, status, i) \in [Receipts -> [Subjects -> ReviewRow]]
  <2>1. [status |-> status, intent |-> i] \in ReviewRow
    BY DEF ReviewRow
  <2> QED BY <2>1 DEF Reviewed, TypeOK
<1> QED BY <1>1, <1>2, <1>3, <1>4

LEMMA DerivedType ==
  ASSUME NEW c \in Row, NEW allocs
  PROVE  DerivedStatus(c, allocs) \in {"unallocated", "reserved", "allocated", "reversed"}
BY DEF DerivedStatus

LEMMA RefreshedType ==
  ASSUME NEW c \in Row, NEW allocs
  PROVE  Refreshed(c, allocs) \in Row
BY DerivedType DEF Refreshed, Row

LEMMA AllocateType ==
  ASSUME TypeOK, NEW r \in Receipts, NEW s \in Subjects, NEW status \in AllocationStatus,
         NEW c \in Row, Allocate(r, s, status, c)
  PROVE  /\ alloc' \in [Receipts -> [Subjects -> AllocationStatus]]
         /\ coll' \in [Receipts -> Row]
<1>1. alloc' \in [Receipts -> [Subjects -> AllocationStatus]]
  BY DEF Allocate, TypeOK
<1>2. coll' \in [Receipts -> Row]
  BY RefreshedType DEF Allocate, TypeOK
<1> QED BY <1>1, <1>2

LEMMA ApplyType ==
  ASSUME TypeOK, NEW i \in Intents, NEW n \in 0..MaxAttempts, NEW r \in Receipts,
         NEW c \in Row, NEW atts \in AttemptRows, Apply(i, n, r, c, atts)
  PROVE  /\ subject' \in [Subjects -> SubjectRow]
         /\ intent' \in [Intents -> IntentRow]
         /\ attempt' \in AttemptRows
         /\ coll' \in [Receipts -> Row]
         /\ alloc' \in [Receipts -> [Subjects -> AllocationStatus]]
         /\ review' \in [Receipts -> [Subjects -> ReviewRow]]
         /\ reversal' \in [Receipts -> {"none", "accounting_pending", "completed"}]
<1>s. SubjectOf[i] \in Subjects
  BY ConstantsAssumption
<1>v. reversal' \in [Receipts -> {"none", "accounting_pending", "completed"}]
  BY DEF Apply, TypeOK
<1>a. /\ "reserved" \in AllocationStatus /\ "posted" \in AllocationStatus
      /\ {"completed", "awaiting_cash", "manual_review"} \subseteq IntentStatus
      /\ "posted" \in SubjectStatus
  BY DEF AllocationStatus, IntentStatus, SubjectStatus
<1>1. CASE ApplyToStaleAttempt(i, n, r, c, atts)
  <2>1. intent' \in [Intents -> IntentRow]
    BY <1>1, ToReviewType DEF ApplyToStaleAttempt
  <2>2. attempt' \in AttemptRows
    <3> DEFINE before == atts[i][intent[i].cur]
               after == IF before \in {"paid"} \union Terminal THEN before ELSE "manual_review"
    <3>1. CASE intent[i].cur \in AttemptNumbers
      <4>1. after \in AttemptStatus
        BY <3>1 DEF AttemptRows, AttemptStatus
      <4> QED BY <1>1, <4>1 DEF ApplyToStaleAttempt, AttemptRows
    <3>2. CASE intent[i].cur \notin AttemptNumbers
      BY <1>1, <3>2 DEF ApplyToStaleAttempt, AttemptRows
    <3> QED BY <3>1, <3>2
  <2> QED BY <1>1, <1>v, <2>1, <2>2 DEF ApplyToStaleAttempt, TypeOK
<1>2. CASE KeepAsSurplus(i, n, r, c, atts)
  <2>1. Surplus(c) \in Row
    BY DEF Surplus, Row
  <2> QED BY <1>2, <1>v, <2>1 DEF KeepAsSurplus, TypeOK
<1>3. CASE ApplyDisputed(i, n, r, c, atts)
  <2>1. [c EXCEPT !.disputed = TRUE] \in Row
    BY DEF Row
  <2> QED BY <1>3, <1>v, <2>1, ToReviewType DEF ApplyDisputed, TypeOK
<1>4. CASE ApplyAgain(i, n, r, c, atts)
  BY <1>4, <1>v DEF ApplyAgain, TypeOK
<1>5. CASE ReserveForCash(i, n, r, c, atts)
  BY <1>5, <1>s, <1>a, <1>v, AllocateType, RowUpdates DEF ReserveForCash, TypeOK
<1>6. CASE ReserveForLateReview(i, n, r, c, atts)
  BY <1>6, <1>s, <1>a, <1>v, AllocateType, ToReviewType, RowUpdates
  DEF ReserveForLateReview, TypeOK
<1>7. CASE PostAtOnce(i, n, r, c, atts)
  BY <1>7, <1>s, <1>a, <1>v, AllocateType, RowUpdates DEF PostAtOnce, Settled, TypeOK
<1>8. CASE PostingFails(i, n, r, c, atts)
  BY <1>8, <1>s, <1>a, <1>v, AllocateType, ToReviewType DEF PostingFails, TypeOK
<1> QED BY <1>1, <1>2, <1>3, <1>4, <1>5, <1>6, <1>7, <1>8 DEF Apply

LEMMA DisputeType ==
  ASSUME TypeOK, NEW r \in Receipts, NEW named \in Intents \union {None}, Dispute(r, named)
  PROVE  /\ coll' \in [Receipts -> Row]
         /\ intent' \in [Intents -> IntentRow]
         /\ UNCHANGED <<subject, alloc, review, reversal>>
<1> DEFINE i == IF named # None THEN named ELSE coll[r].intent
<1>1. coll[r] \in Row
  BY DEF TypeOK
<1>2. [coll[r] EXCEPT !.disputed = TRUE] \in Row
  BY <1>1 DEF Row
<1>3. coll' \in [Receipts -> Row]
  BY <1>2 DEF Dispute, TypeOK
<1>4. i \in Intents \union {None}
  BY <1>1 DEF Row
<1>5. intent' \in [Intents -> IntentRow]
  <2>1. CASE UNCHANGED intent
    BY <2>1 DEF TypeOK
  <2>2. CASE i # None /\ intent' = ToReview(i, intent[i].fulfilled, FALSE)
    <3>1. i \in Intents
      BY <1>4, <2>2
    <3>2. intent[i].fulfilled \in Receipts \union {None}
      BY <3>1 DEF TypeOK, IntentRow
    <3> QED BY <2>2, <3>1, <3>2, ToReviewType
  <2> QED BY <2>1, <2>2 DEF Dispute
<1> QED BY <1>3, <1>5 DEF Dispute

LEMMA UnwoundType ==
  ASSUME TypeOK, NEW rs \in SUBSET Receipts, NEW s \in Subjects, Unwound(rs, s)
  PROVE  /\ alloc' \in [Receipts -> [Subjects -> AllocationStatus]]
         /\ coll' \in [Receipts -> Row]
<1>1. ASSUME NEW r \in Receipts
      PROVE  /\ alloc'[r] \in [Subjects -> AllocationStatus]
             /\ coll'[r] \in Row
  <2>1. coll[r] \in Row /\ alloc[r] \in [Subjects -> AllocationStatus]
    BY DEF TypeOK
  <2>2. TakenBack(coll[r]) \in Row
    BY <2>1 DEF TakenBack, Row
  <2>3. Refreshed(coll[r], alloc'[r]) \in Row
    BY <2>1, RefreshedType
  <2>4. alloc'[r] \in [Subjects -> AllocationStatus]
    BY <2>1 DEF Unwound, AllocationStatus
  <2> QED BY <2>1, <2>2, <2>3, <2>4 DEF Unwound
<1>2. /\ alloc' = [r \in Receipts |-> alloc'[r]]
      /\ coll' = [r \in Receipts |-> coll'[r]]
  BY DEF Unwound
<1> QED BY <1>1, <1>2

LEMMA CheckoutType ==
  ASSUME TypeOK, NEW i \in Intents
  PROVE  /\ CreateIntent(i) => TypeOK'
         /\ CreateAttempt(i) => TypeOK'
         /\ \A n \in AttemptNumbers, answer \in AttemptStatus, known \in BOOLEAN :
              RecordStkRequest(i, n, answer, known) => TypeOK'
         /\ \A n \in AttemptNumbers : RecordRequestUnknown(i, n) => TypeOK'
         /\ \A r \in Receipts : ManualFallback(i, r) => TypeOK'
         /\ CashSplit(i) => TypeOK'
<1> USE DEF provider, money, books
<1>s. SubjectOf[i] \in Subjects /\ Price[i] \in Nat
  BY ConstantsAssumption
<1>t. till.n \in 0..MaxTill /\ today \in 0..MaxDay /\ intent[i] \in IntentRow
  BY ConstantsAssumption DEF TypeOK
<1>1. ASSUME CreateIntent(i) PROVE TypeOK'
  <2>1. [status |-> "pending", till |-> till.n] \in SubjectRow
    BY <1>t DEF SubjectRow, SubjectStatus
  <2>2. [intent[i] EXCEPT !.status = "created", !.till = till.n] \in IntentRow
    BY <1>t DEF IntentRow, IntentStatus
  <2> QED BY <1>1, <1>s, <2>1, <2>2 DEF CreateIntent, TypeOK
<1>2. ASSUME CreateAttempt(i) PROVE TypeOK'
  <2> DEFINE n == intent[i].cur + 1
  <2>1. n \in 0..MaxAttempts /\ n \in AttemptNumbers
    BY <1>2, <1>t, ConstantsAssumption DEF CreateAttempt, IntentRow, AttemptNumbers
  <2>2. [intent[i] EXCEPT !.status = "requesting", !.cur = n, !.postFailed = FALSE] \in IntentRow
    BY <1>t, <2>1 DEF IntentRow, IntentStatus
  <2>3. attempt' \in AttemptRows
    BY <1>2 DEF CreateAttempt, TypeOK, AttemptStatus, AttemptRows
  <2> QED BY <1>2, <2>2, <2>3 DEF CreateAttempt, TypeOK, AttemptRows
<1>3. ASSUME NEW n \in AttemptNumbers, NEW answer \in AttemptStatus, NEW known \in BOOLEAN,
             RecordStkRequest(i, n, answer, known)
      PROVE  TypeOK'
  <2>1. (IF answer \in Terminal THEN answer ELSE "pending") \in IntentStatus
    BY DEF Terminal, IntentStatus
  <2>2. attempt' \in AttemptRows /\ bound' \subseteq Intents \X AttemptNumbers
    BY <1>3 DEF RecordStkRequest, TypeOK, AttemptRows
  <2> QED BY <1>3, <2>1, <2>2, RowUpdates DEF RecordStkRequest, TypeOK, AttemptRows
<1>4. ASSUME NEW n \in AttemptNumbers, RecordRequestUnknown(i, n) PROVE TypeOK'
  <2>1. attempt' \in AttemptRows
    BY <1>4 DEF RecordRequestUnknown, TypeOK, AttemptRows, AttemptStatus
  <2> QED BY <1>4, <2>1, RowUpdates DEF RecordRequestUnknown, TypeOK, AttemptRows, IntentStatus
<1>5. ASSUME NEW r \in Receipts, ManualFallback(i, r) PROVE TypeOK'
  <2>1. Upserted(r, Price[i], today, "manual", i) \in Row
    BY <1>s, <1>t, UpsertedType
  <2>2. CASE Dispute(r, i) /\ UNCHANGED attempt
    BY <1>5, <2>2, DisputeType DEF ManualFallback, TypeOK
  <2>3. CASE Apply(i, 0, r, Upserted(r, Price[i], today, "manual", i), attempt)
    <3>1. 0 \in 0..MaxAttempts /\ attempt \in AttemptRows
      BY ConstantsAssumption DEF TypeOK, AttemptRows
    <3> QED BY <1>5, <2>1, <2>3, <3>1, ApplyType DEF ManualFallback, TypeOK, AttemptRows
  <2> QED BY <1>5, <2>2, <2>3 DEF ManualFallback
<1>6. ASSUME CashSplit(i) PROVE TypeOK'
  <2> DEFINE r == intent[i].fulfilled
  <2>1. CASE r \in Receipts
    <3>1. coll[r] \in Row /\ "posted" \in AllocationStatus
      BY <2>1 DEF TypeOK, AllocationStatus
    <3>2. "completed" \in IntentStatus /\ "posted" \in SubjectStatus
      BY DEF IntentStatus, SubjectStatus
    <3> QED BY <1>6, <1>s, <2>1, <3>1, <3>2, AllocateType, RowUpdates DEF CashSplit, Settled, TypeOK
  <2>2. CASE r \notin Receipts
    <3>1. /\ alloc' = alloc /\ coll' = coll
      BY <1>6, <2>2 DEF CashSplit, Allocate, TypeOK
    <3>2. "completed" \in IntentStatus /\ "posted" \in SubjectStatus
      BY DEF IntentStatus, SubjectStatus
    <3> QED BY <1>6, <1>s, <3>1, <3>2, RowUpdates DEF CashSplit, Settled, TypeOK
  <2> QED BY <2>1, <2>2
<1> QED BY <1>1, <1>2, <1>3, <1>4, <1>5, <1>6

LEMMA ProviderType ==
  ASSUME TypeOK, NEW i \in Intents, NEW n \in AttemptNumbers
  PROVE  /\ BindCallback(i, n) => TypeOK'
         /\ ConflictingCallback(i, n) => TypeOK'
         /\ GiveUpEvent(i, n) => TypeOK'
         /\ \A r \in Receipts, d \in ProviderDays : FinalizeSuccess(i, n, r, d) => TypeOK'
         /\ \A outcome \in Terminal : FinalizeTerminal(i, n, outcome) => TypeOK'
         /\ \A aged \in BOOLEAN : RecordQueryPending(i, n, aged) => TypeOK'
<1> USE DEF provider, money, books
<1>t. /\ intent[i] \in IntentRow /\ intent[i].fulfilled \in Receipts \union {None}
      /\ attempt \in AttemptRows /\ n \in 0..MaxAttempts
  BY ConstantsAssumption DEF TypeOK, AttemptRows, IntentRow, AttemptNumbers
<1>u. /\ \A status \in AttemptStatus : [attempt EXCEPT ![i][n] = status] \in AttemptRows
      /\ {"query_pending", "manual_review", "paid"} \union Terminal \subseteq AttemptStatus
      /\ {"pending", "manual_review", "expired"} \union Terminal \subseteq IntentStatus
  BY <1>t DEF AttemptRows, AttemptStatus, IntentStatus, Terminal
<1>d. ASSUME NEW d \in ProviderDays, NEW r \in Receipts
      PROVE  d \in 0..MaxDay /\ Paid[r] \in Nat
  BY ConstantsAssumption DEF ProviderDays, TypeOK
<1>1. ASSUME BindCallback(i, n) PROVE TypeOK'
  <2>1. attempt' \in AttemptRows
    <3>1. attempt[i][n] \in AttemptStatus
      BY <1>t DEF AttemptRows
    <3> QED BY <1>1, <1>u, <3>1 DEF BindCallback
  <2>2. bound' \subseteq Intents \X AttemptNumbers
    BY <1>1 DEF BindCallback, TypeOK
  <2> QED BY <1>1, <1>u, <2>1, <2>2, RowUpdates DEF BindCallback, TypeOK, AttemptRows
<1>2. ASSUME ConflictingCallback(i, n) PROVE TypeOK'
  <2>1. attempt' \in AttemptRows
    BY <1>2, <1>u DEF ConflictingCallback
  <2>2. flagged' \subseteq Intents \X AttemptNumbers
    BY <1>2 DEF ConflictingCallback, TypeOK
  <2>3. intent' \in [Intents -> IntentRow]
    BY <1>2, <1>t, ToReviewType DEF ConflictingCallback, TypeOK
  <2> QED BY <1>2, <2>1, <2>2, <2>3 DEF ConflictingCallback, TypeOK, AttemptRows
<1>3. ASSUME GiveUpEvent(i, n) PROVE TypeOK'
  BY <1>3 DEF GiveUpEvent, TypeOK
<1>4. ASSUME NEW r \in Receipts, NEW d \in ProviderDays, FinalizeSuccess(i, n, r, d) PROVE TypeOK'
  <2>1. Upserted(r, Paid[r], d, "stk", i) \in Row
    BY <1>d, UpsertedType
  <2>2. CASE Dispute(r, i) /\ attempt' = [attempt EXCEPT ![i][n] = "manual_review"]
    <3>1. attempt' \in AttemptRows
      BY <2>2, <1>u
    <3> QED BY <1>4, <2>2, <3>1, DisputeType DEF FinalizeSuccess, TypeOK, AttemptRows
  <2>3. CASE Apply(i, n, r, Upserted(r, Paid[r], d, "stk", i), [attempt EXCEPT ![i][n] = "paid"])
    <3>1. [attempt EXCEPT ![i][n] = "paid"] \in AttemptRows
      BY <1>u
    <3> QED BY <1>4, <1>t, <2>1, <2>3, <3>1, ApplyType DEF FinalizeSuccess, TypeOK, AttemptRows
  <2> QED BY <1>4, <2>2, <2>3 DEF FinalizeSuccess
<1>5. ASSUME NEW outcome \in Terminal, FinalizeTerminal(i, n, outcome) PROVE TypeOK'
  <2>1. attempt' \in AttemptRows
    BY <1>5, <1>u DEF FinalizeTerminal
  <2> QED BY <1>5, <1>u, <2>1, RowUpdates DEF FinalizeTerminal, TypeOK, AttemptRows
<1>6. ASSUME NEW aged \in BOOLEAN, RecordQueryPending(i, n, aged) PROVE TypeOK'
  <2>1. attempt' \in AttemptRows
    BY <1>6, <1>u DEF RecordQueryPending
  <2>2. intent' \in [Intents -> IntentRow]
    BY <1>6, <1>t, ToReviewType DEF RecordQueryPending, TypeOK
  <2> QED BY <1>6, <2>1, <2>2 DEF RecordQueryPending, TypeOK, AttemptRows
<1> QED BY <1>1, <1>2, <1>3, <1>4, <1>5, <1>6

LEMMA RecordC2bType ==
  ASSUME TypeOK, NEW r \in Receipts, NEW d \in ProviderDays, RecordC2b(r, d)
  PROVE  TypeOK'
<1> USE DEF provider, money, books
<1>t. d \in 0..MaxDay /\ Paid[r] \in Nat
  BY ConstantsAssumption DEF ProviderDays, TypeOK
<1>1. Upserted(r, Paid[r], d, "c2b", None) \in Row
  BY <1>t, UpsertedType
<1>2. CASE Dispute(r, None)
  BY <1>2, DisputeType DEF RecordC2b, TypeOK
<1>3. CASE ~Conflict(r, Paid[r], FALSE)
  BY <1>1, <1>3 DEF RecordC2b, TypeOK
<1> QED BY <1>2, <1>3 DEF RecordC2b

LEMMA SweepType ==
  ASSUME TypeOK, NEW aged \in SUBSET Intents, Sweep(aged)
  PROVE  TypeOK'
<1> USE DEF provider, money, books
<1>1. ASSUME NEW j \in Intents
      PROVE  attempt'[j] \in [AttemptNumbers -> AttemptStatus] /\ intent'[j] \in IntentRow
  <2>1. attempt[j] \in [AttemptNumbers -> AttemptStatus] /\ intent[j] \in IntentRow
    BY DEF TypeOK
  <2>2. /\ [intent[j] EXCEPT !.status = "manual_review", !.postFailed = FALSE] \in IntentRow
        /\ [intent[j] EXCEPT !.status = "expired"] \in IntentRow
    BY <2>1 DEF IntentRow, IntentStatus
  <2>3. [attempt[j] EXCEPT ![intent[j].cur] = "manual_review"] \in [AttemptNumbers -> AttemptStatus]
    BY <2>1 DEF AttemptStatus
  <2>4. attempt'[j] \in {attempt[j], [attempt[j] EXCEPT ![intent[j].cur] = "manual_review"]}
    BY DEF Sweep
  <2>5. intent'[j] \in {intent[j], [intent[j] EXCEPT !.status = "manual_review", !.postFailed = FALSE],
                         [intent[j] EXCEPT !.status = "expired"]}
    BY DEF Sweep
  <2> QED BY <2>1, <2>2, <2>3, <2>4, <2>5
<1>2. attempt' = [j \in Intents |-> attempt'[j]] /\ intent' = [j \in Intents |-> intent'[j]]
  BY DEF Sweep
<1>3. attempt' \in AttemptRows /\ intent' \in [Intents -> IntentRow]
  BY <1>1, <1>2 DEF AttemptRows
<1> QED BY <1>3 DEF Sweep, TypeOK, AttemptRows

LEMMA ReviewEventType ==
  ASSUME TypeOK, NEW i \in Intents, NEW n \in AttemptNumbers, NEW adopt \in BOOLEAN,
         ReviewEvent(i, n, adopt)
  PROVE  TypeOK'
<1> USE DEF provider, money, books
<1>1. bound' \subseteq Intents \X AttemptNumbers /\ flagged' \subseteq Intents \X AttemptNumbers
  BY DEF ReviewEvent, TypeOK
<1>2. attempt' \in AttemptRows
  BY DEF ReviewEvent, TypeOK, AttemptRows, AttemptStatus
<1>3. intent' \in [Intents -> IntentRow]
  <2>1. intent[i] \in IntentRow
    BY DEF TypeOK
  <2>2. [intent[i] EXCEPT !.status = "pending", !.postFailed = FALSE] \in IntentRow
    BY <2>1 DEF IntentRow, IntentStatus
  <2> QED BY <2>2 DEF ReviewEvent, TypeOK
<1> QED BY <1>1, <1>2, <1>3 DEF ReviewEvent, TypeOK, AttemptRows

LEMMA StaffType ==
  ASSUME TypeOK, NEW r \in Receipts
  PROVE  /\ \A i \in Intents : RetryPosting(i, r) => TypeOK'
         /\ Classify(r) => TypeOK'
         /\ \A mayReverse \in BOOLEAN : RequestReversal(r, mayReverse) => TypeOK'
         /\ \A s \in Subjects : AllocateCollection(r, s) => TypeOK'
         /\ \A s \in Subjects : ApproveLate(r, s) => TypeOK'
         /\ \A s \in Subjects : RejectLate(r, s) => TypeOK'
         /\ \A s \in Subjects : ReversePosting(r, s) => TypeOK'
<1> USE DEF provider, money, books
<1>c. coll[r] \in Row
  BY DEF TypeOK
<1>a. /\ {"reserved", "posted", "released"} \subseteq AllocationStatus
      /\ {"pending", "posted", "cancelled", "reversed"} \subseteq SubjectStatus
      /\ {"completed", "pending"} \subseteq IntentStatus
  BY DEF AllocationStatus, SubjectStatus, IntentStatus
<1>u. ASSUME NEW s \in Subjects
      PROVE  Unpaid(s) \in [Subjects -> SubjectRow]
  BY <1>a, RowUpdates DEF Unpaid, TypeOK
<1>k. TakenBack(coll[r]) \in Row
  BY <1>c DEF TakenBack, Row
<1>b. CompletedBy(r) \in [Intents -> IntentRow]
  <2>1. ASSUME NEW i \in Intents
        PROVE  CompletedBy(r)[i] \in IntentRow
    <3>1. intent[i] \in IntentRow
      BY DEF TypeOK
    <3>2. [intent[i] EXCEPT !.status = "completed", !.postFailed = FALSE] \in IntentRow
      BY <3>1 DEF IntentRow, IntentStatus
    <3> QED BY <3>1, <3>2 DEF CompletedBy
  <2> QED BY <2>1 DEF CompletedBy
<1>2. ASSUME NEW i \in Intents, RetryPosting(i, r) PROVE TypeOK'
  <2>1. intent[i].cur \in 0..MaxAttempts /\ attempt \in AttemptRows
    BY DEF TypeOK, IntentRow, AttemptRows
  <2> QED BY <1>2, <1>c, <2>1, ApplyType DEF RetryPosting, TypeOK, AttemptRows
<1>3. ASSUME Classify(r) PROVE TypeOK'
  <2>1. [coll[r] EXCEPT !.class = "closed"] \in Row
    BY <1>c DEF Row
  <2> QED BY <1>3, <2>1 DEF Classify, TypeOK
<1>4. ASSUME NEW mayReverse \in BOOLEAN, RequestReversal(r, mayReverse) PROVE TypeOK'
  <2>1. reversal' \in [Receipts -> {"none", "accounting_pending", "completed"}]
    BY <1>4 DEF RequestReversal, TypeOK
  <2>2. CASE coll' = [coll EXCEPT ![r] = TakenBack(@)] /\ UNCHANGED <<subject, alloc>>
    BY <1>4, <1>k, <2>1, <2>2 DEF RequestReversal, TypeOK
  <2>3. ASSUME NEW s \in Subjects, Unwound({r}, s), subject' = Unpaid(s) PROVE TypeOK'
    BY <1>4, <1>u, <2>1, <2>3, UnwoundType DEF RequestReversal, TypeOK
  <2> QED BY <1>4, <2>2, <2>3 DEF RequestReversal
<1>5. ASSUME NEW s \in Subjects, AllocateCollection(r, s) PROVE TypeOK'
  <2> DEFINE opened == IF s \in Orders THEN subject
                       ELSE [subject EXCEPT ![s] = [status |-> "pending", till |-> till.n]]
  <2>1. opened \in [Subjects -> SubjectRow]
    <3>1. [status |-> "pending", till |-> till.n] \in SubjectRow
      BY DEF TypeOK, SubjectRow, SubjectStatus
    <3> QED BY <3>1 DEF TypeOK
  <2>2. [opened EXCEPT ![s].status = "posted"] \in [Subjects -> SubjectRow]
    <3>1. [opened[s] EXCEPT !.status = "posted"] \in SubjectRow
      BY <2>1, <1>a DEF SubjectRow
    <3> QED BY <2>1, <3>1
  <2>3. ClearSurplus(coll[r]) \in Row
    BY <1>c DEF ClearSurplus, Row
  <2>4. CASE ~PostingDayOpen(coll[r].day)
    <3>1. /\ Allocate(r, s, "reserved", coll[r])
          /\ review' = Reviewed(r, s, "pending", None)
          /\ subject' = opened /\ UNCHANGED intent
          /\ UNCHANGED <<attempt, bound, flagged, reversal, books>>
      BY <1>5, <2>4 DEF AllocateCollection
    <3>2. /\ alloc' \in [Receipts -> [Subjects -> AllocationStatus]]
          /\ coll' \in [Receipts -> Row]
      BY <1>a, <1>c, <3>1, AllocateType
    <3>3. review' \in [Receipts -> [Subjects -> ReviewRow]]
      BY <3>1, RowUpdates
    <3> QED BY <2>1, <3>1, <3>2, <3>3 DEF TypeOK
  <2>5. CASE PostingDayOpen(coll[r].day)
    BY <1>5, <1>a, <1>b, <2>2, <2>3, <2>5, AllocateType DEF AllocateCollection, TypeOK
  <2> QED BY <2>4, <2>5
<1>6. ASSUME NEW s \in Subjects, ApproveLate(r, s) PROVE TypeOK'
  <2> DEFINE i == review[r][s].intent
  <2>1. i \in Intents \union {None}
    BY DEF TypeOK, ReviewRow
  <2>2. ClearSurplus(coll[r]) \in Row
    BY <1>c DEF ClearSurplus, Row
  <2>3. intent' \in [Intents -> IntentRow]
    BY <1>6, <1>a, <1>b, <2>1, RowUpdates DEF ApproveLate
  <2> QED BY <1>6, <1>a, <2>1, <2>2, <2>3, AllocateType, RowUpdates DEF ApproveLate, Settled, TypeOK
<1>7. ASSUME NEW s \in Subjects, RejectLate(r, s) PROVE TypeOK'
  <2> DEFINE i == review[r][s].intent
  <2>1. i \in Intents \union {None}
    BY DEF TypeOK, ReviewRow
  <2>2. intent' \in [Intents -> IntentRow]
    <3>1. CASE i = None
      BY <1>7, <3>1 DEF RejectLate, TypeOK
    <3>2. CASE i # None
      <4>1. [intent[i] EXCEPT !.postFailed = FALSE] \in IntentRow
        <5>1. intent[i] \in IntentRow
          BY <2>1, <3>2 DEF TypeOK
        <5> QED BY <5>1 DEF IntentRow
      <4> QED BY <1>7, <2>1, <3>2, <4>1 DEF RejectLate, TypeOK
    <3> QED BY <3>1, <3>2
  <2> QED BY <1>7, <1>a, <1>c, <2>1, <2>2, AllocateType, RowUpdates DEF RejectLate, TypeOK
<1>8. ASSUME NEW s \in Subjects, ReversePosting(r, s) PROVE TypeOK'
  <2>1. reversal' \in [Receipts -> {"none", "accounting_pending", "completed"}]
    BY <1>8 DEF ReversePosting, TypeOK
  <2> QED BY <1>8, <1>u, <2>1, UnwoundType DEF ReversePosting, TypeOK
<1> QED BY <1>2, <1>3, <1>4, <1>5, <1>6, <1>7, <1>8

LEMMA BooksType ==
  ASSUME TypeOK
  PROVE  /\ \A s \in Subjects : SettleOtherwise(s) => TypeOK'
         /\ \A s \in Subjects : VoidOrder(s) => TypeOK'
         /\ \A s \in Subjects : VoidHeldOrder(s) => TypeOK'
         /\ OpenTill => TypeOK'
         /\ CloseTill => TypeOK'
         /\ NextDay => TypeOK'
         /\ \A d \in 1..MaxDay : LockPeriod(d) => TypeOK'
<1> USE DEF provider, money, books
<1>a. {"posted", "voided"} \subseteq SubjectStatus
  BY DEF SubjectStatus
<1>b. till.n \in 0..MaxTill /\ till.open \in BOOLEAN /\ MaxTill \in Nat /\ MaxDay \in Nat
  BY ConstantsAssumption DEF TypeOK
<1>1. ASSUME NEW s \in Subjects, SettleOtherwise(s) PROVE TypeOK'
  <2>1. [status |-> "posted", till |-> till.n] \in SubjectRow
    BY <1>a, <1>b DEF SubjectRow
  <2> QED BY <1>1, <2>1 DEF SettleOtherwise, TypeOK
<1>2. ASSUME NEW s \in Subjects, VoidOrder(s) PROVE TypeOK'
  <2>1. PostedTo(s) \in SUBSET Receipts
    BY DEF PostedTo
  <2>2. reversal' \in [Receipts -> {"none", "accounting_pending", "completed"}]
    BY <1>2 DEF VoidOrder, TypeOK
  <2> QED BY <1>2, <1>a, <2>1, <2>2, UnwoundType, RowUpdates DEF VoidOrder, TypeOK
<1>3. ASSUME NEW s \in Subjects, VoidHeldOrder(s) PROVE TypeOK'
  BY <1>3, <1>a, RowUpdates DEF VoidHeldOrder, TypeOK
<1>4. ASSUME OpenTill PROVE TypeOK'
  BY <1>4, <1>b DEF OpenTill, TypeOK
<1>5. ASSUME CloseTill PROVE TypeOK'
  BY <1>5, <1>b DEF CloseTill, TypeOK
<1>6. ASSUME NextDay PROVE TypeOK'
  BY <1>6, <1>b DEF NextDay, TypeOK
<1>7. ASSUME NEW d \in 1..MaxDay, LockPeriod(d) PROVE TypeOK'
  BY <1>7, <1>b DEF LockPeriod, TypeOK
<1> QED BY <1>1, <1>2, <1>3, <1>4, <1>5, <1>6, <1>7

LEMMA InitType == Init => TypeOK
<1> SUFFICES ASSUME Init PROVE TypeOK
  OBVIOUS
<1>1. subject \in [Subjects -> SubjectRow]
  BY ConstantsAssumption DEF Init, SubjectRow, SubjectStatus
<1>2. intent \in [Intents -> IntentRow]
  BY ConstantsAssumption DEF Init, IntentRow, IntentStatus
<1>3. coll \in [Receipts -> Row]
  BY ConstantsAssumption DEF Init, Row
<1>4. review \in [Receipts -> [Subjects -> ReviewRow]]
  BY DEF Init, ReviewRow
<1>5. /\ attempt \in [Intents -> [AttemptNumbers -> AttemptStatus]]
      /\ alloc \in [Receipts -> [Subjects -> AllocationStatus]]
  BY DEF Init, AttemptStatus, AllocationStatus
<1>6. /\ till \in [n : 0..MaxTill, open : BOOLEAN]
      /\ today \in 1..MaxDay /\ lockEnd \in 0..MaxDay
  BY ConstantsAssumption DEF Init
<1> QED BY <1>1, <1>2, <1>3, <1>4, <1>5, <1>6 DEF Init, TypeOK

LEMMA TypeStep == TypeOK /\ [Next]_vars => TypeOK'
<1> SUFFICES ASSUME TypeOK, [Next]_vars PROVE TypeOK'
  OBVIOUS
<1>1. CASE CheckoutStep
  BY <1>1, CheckoutType DEF CheckoutStep
<1>2. CASE ProviderStep
  <2>1. ASSUME NEW r \in Receipts, NEW d \in ProviderDays, RecordC2b(r, d) PROVE TypeOK'
    BY <2>1, RecordC2bType
  <2>2. ASSUME NEW aged \in SUBSET Intents, Sweep(aged) PROVE TypeOK'
    BY <2>2, SweepType
  <2> QED BY <1>2, <2>1, <2>2, ProviderType DEF ProviderStep
<1>3. CASE StaffStep
  BY <1>3, ReviewEventType, StaffType DEF StaffStep
<1>4. CASE BooksStep
  <2>1. CASE \E s \in Subjects : SettleOtherwise(s) \/ VoidOrder(s) \/ VoidHeldOrder(s)
    BY <2>1, BooksType
  <2>2. CASE \E d \in 1..MaxDay : LockPeriod(d)
    BY <2>2, BooksType
  <2> QED BY <1>4, <2>1, <2>2, BooksType DEF BooksStep
<1>5. CASE UNCHANGED vars
  BY <1>5 DEF vars, provider, money, books, TypeOK
<1> QED BY <1>1, <1>2, <1>3, <1>4, <1>5 DEF Next

\* Every row keeps to its columns' CHECK constraints and foreign keys, whatever
\* the callers do: no function of the settlement writes a status, an attempt
\* number, a till or a reference that its column does not admit.
THEOREM TypeCorrect == Spec => []TypeOK
<1>1. Init => TypeOK
  BY InitType
<1>2. TypeOK /\ [Next]_vars => TypeOK'
  BY TypeStep
<1> QED BY <1>1, <1>2, PTL DEF Spec
-----------------------------------------------------------------------------
(***************************************************************************)
(* Where the money of a collection is: the status that queues and the       *)
(* period close read is the one its allocations imply, and its money is     *)
(* promised to one subject at most.  Neither is inductive alone: a first    *)
(* notification resets the status of its row, which is right only because   *)
(* no allocation of an unknown receipt exists.                              *)
(***************************************************************************)

\* One collection row c with its allocations.
Consistent(c, allocs) ==
  /\ c.allocation = DerivedStatus(c, allocs)
  /\ \A s, t \in Subjects : allocs[s] \in Active /\ allocs[t] \in Active => s = t
  /\ c.provider = "absent" => c.intent = None /\ \A s \in Subjects : allocs[s] = "none"

MoneyConsistent == \A r \in Receipts : Consistent(coll[r], alloc[r])

MoneyInv == TypeOK /\ MoneyConsistent

\* No collection backs two live allocations: whatever reconciliation, retried
\* postings, rejected reviews and voids do, its money is promised to one
\* subject at most.
NotOverallocated ==
  \A r \in Receipts : \A s, t \in Subjects :
    alloc[r][s] \in Active /\ alloc[r][t] \in Active => s = t

-----------------------------------------------------------------------------
(* How the building blocks of the functions keep a row consistent.           *)

\* Columns other than the provider's, the status and the intent do not matter.
LEMMA OtherColumns ==
  ASSUME NEW c \in Row, NEW d \in Row, NEW allocs, Consistent(c, allocs),
         d.provider = c.provider, d.allocation = c.allocation,
         d.intent = c.intent \/ c.provider # "absent"
  PROVE  Consistent(d, allocs)
BY DEF Consistent, DerivedStatus

\* A notification of a receipt leaves its row consistent, the first one included.
LEMMA UpsertedConsistent ==
  ASSUME MoneyInv, NEW r \in Receipts, NEW amount \in Nat, NEW d \in 0..MaxDay,
         NEW source \in {"stk", "c2b", "manual"}, NEW i \in Intents \union {None}
  PROVE  /\ Upserted(r, amount, d, source, i) \in Row
         /\ Upserted(r, amount, d, source, i).provider # "absent"
         /\ Consistent(Upserted(r, amount, d, source, i), alloc[r])
<1> DEFINE c == Upserted(r, amount, d, source, i)
<1>1. c \in Row /\ coll[r] \in Row /\ Consistent(coll[r], alloc[r])
  BY UpsertedType DEF MoneyInv, MoneyConsistent, TypeOK
<1>2. CASE coll[r].provider = "absent"
  <2>1. c.provider = "received" /\ c.allocation = "unallocated"
    BY <1>2 DEF Upserted
  <2>2. \A s \in Subjects : alloc[r][s] = "none"
    BY <1>1, <1>2 DEF Consistent
  <2> QED BY <1>1, <2>1, <2>2 DEF Consistent, DerivedStatus, Active
<1>3. CASE coll[r].provider # "absent"
  <2>1. c.provider = coll[r].provider /\ c.allocation = coll[r].allocation
    BY <1>1, <1>3 DEF Upserted, Row
  <2> QED BY <1>1, <1>3, <2>1, OtherColumns
<1> QED BY <1>2, <1>3

\* Writing one row whose allocations do not change.
LEMMA RowWritten ==
  ASSUME MoneyInv, NEW r \in Receipts, NEW c \in Row, Consistent(c, alloc[r]),
         coll' = [coll EXCEPT ![r] = c], UNCHANGED alloc
  PROVE  MoneyConsistent'
BY DEF MoneyInv, MoneyConsistent, TypeOK

\* An allocation is written and the status refreshed: consistent as long as no
\* other allocation of the collection is live.
LEMMA AllocateConsistent ==
  ASSUME MoneyInv, NEW r \in Receipts, NEW s \in Subjects, NEW status \in AllocationStatus,
         NEW c \in Row, c.provider # "absent", Allocate(r, s, status, c),
         \A t \in Subjects \ {s} : alloc[r][t] \notin Active
  PROVE  MoneyConsistent'
<1> DEFINE allocs == [alloc[r] EXCEPT ![s] = status]
<1>1. alloc' = [alloc EXCEPT ![r] = allocs] /\ coll' = [coll EXCEPT ![r] = Refreshed(c, allocs)]
  BY DEF Allocate, MoneyInv, TypeOK
<1>2. Refreshed(c, allocs).provider = c.provider
      /\ Refreshed(c, allocs).allocation = DerivedStatus(c, allocs)
      /\ DerivedStatus(Refreshed(c, allocs), allocs) = DerivedStatus(c, allocs)
  BY DEF Refreshed, Row, DerivedStatus
<1>3. \A t \in Subjects : allocs[t] \in Active => t = s
  BY DEF MoneyInv, TypeOK
<1>4. Consistent(Refreshed(c, allocs), allocs)
  BY <1>2, <1>3 DEF Consistent
<1>5. ASSUME NEW q \in Receipts PROVE Consistent(coll'[q], alloc'[q])
  <2>1. CASE q = r
    BY <1>1, <1>4, <2>1 DEF MoneyInv, TypeOK
  <2>2. CASE q # r
    BY <1>1, <2>2 DEF MoneyInv, MoneyConsistent, TypeOK
  <2> QED BY <2>1, <2>2
<1> QED BY <1>5 DEF MoneyConsistent

\* mpesa_apply_collection_to_intent, applied to a consistent row.
LEMMA ApplyConsistent ==
  ASSUME MoneyInv, NEW i \in Intents, NEW n, NEW r \in Receipts, NEW c \in Row, NEW atts,
         c.provider # "absent", Consistent(c, alloc[r]), Apply(i, n, r, c, atts)
  PROVE  MoneyConsistent'
<1>s. SubjectOf[i] \in Subjects /\ {"reserved", "posted"} \subseteq AllocationStatus
  BY ConstantsAssumption DEF AllocationStatus
<1>1. CASE ApplyToStaleAttempt(i, n, r, c, atts) \/ ApplyAgain(i, n, r, c, atts)
  BY <1>1, RowWritten DEF ApplyToStaleAttempt, ApplyAgain
<1>2. CASE KeepAsSurplus(i, n, r, c, atts)
  <2>1. Surplus(c) \in Row /\ Surplus(c).provider = c.provider /\ Surplus(c).allocation = c.allocation
    BY DEF Surplus, Row
  <2> QED BY <1>2, <2>1, OtherColumns, RowWritten DEF KeepAsSurplus
<1>3. CASE ApplyDisputed(i, n, r, c, atts)
  <2> DEFINE d == [c EXCEPT !.disputed = TRUE]
  <2>1. d \in Row /\ d.provider = c.provider /\ d.allocation = c.allocation
    BY DEF Row
  <2> QED BY <1>3, <2>1, OtherColumns, RowWritten DEF ApplyDisputed
<1>4. ASSUME Reservable(i, n, r, c), NEW status \in {"reserved", "posted"},
             Allocate(r, SubjectOf[i], status, c)
      PROVE  MoneyConsistent'
  <2>1. \A t \in Subjects \ {SubjectOf[i]} : alloc[r][t] \notin Active
    BY <1>4 DEF Reservable, Overallocated
  <2> QED BY <1>s, <1>4, <2>1, AllocateConsistent
<1> QED BY <1>1, <1>2, <1>3, <1>4
        DEF Apply, ReserveForCash, ReserveForLateReview, PostAtOnce, PostingFails

\* A conflicting notification marks a row that exists.
LEMMA DisputeConsistent ==
  ASSUME MoneyInv, NEW r \in Receipts, NEW named, Dispute(r, named)
  PROVE  MoneyConsistent'
<1> DEFINE d == [coll[r] EXCEPT !.disputed = TRUE]
<1>1. coll[r] \in Row /\ Consistent(coll[r], alloc[r])
  BY DEF MoneyInv, MoneyConsistent, TypeOK
<1>2. d \in Row /\ d.provider = coll[r].provider /\ d.allocation = coll[r].allocation
      /\ d.intent = coll[r].intent
  BY <1>1 DEF Row
<1>3. Consistent(d, alloc[r])
  BY <1>1, <1>2, OtherColumns
<1> QED BY <1>2, <1>3, RowWritten DEF Dispute, MoneyInv, TypeOK

\* The provider takes the money back and nothing else changes.
LEMMA TakenBackConsistent ==
  ASSUME MoneyInv, NEW r \in Receipts, coll[r].provider # "absent"
  PROVE  TakenBack(coll[r]) \in Row /\ Consistent(TakenBack(coll[r]), alloc[r])
<1>1. coll[r] \in Row /\ Consistent(coll[r], alloc[r])
  BY DEF MoneyInv, MoneyConsistent, TypeOK
<1>2. TakenBack(coll[r]) \in Row /\ TakenBack(coll[r]).provider = "reversed"
      /\ TakenBack(coll[r]).allocation = "reversed"
  BY <1>1 DEF TakenBack, Row
<1> QED BY <1>1, <1>2 DEF Consistent, DerivedStatus

\* Cancelled payments: every receipt of rs was posted to s, and to s only.
LEMMA UnwoundConsistent ==
  ASSUME MoneyInv, NEW rs \in SUBSET Receipts, NEW s \in Subjects, Unwound(rs, s),
         \A r \in rs : alloc[r][s] = "posted"
  PROVE  MoneyConsistent'
<1>1. ASSUME NEW r \in Receipts PROVE Consistent(coll'[r], alloc'[r])
  <2>1. coll[r] \in Row /\ Consistent(coll[r], alloc[r]) /\ alloc[r] \in [Subjects -> AllocationStatus]
    BY DEF MoneyInv, MoneyConsistent, TypeOK
  <2>2. CASE r \notin rs
    BY <2>1, <2>2 DEF Unwound
  <2>3. CASE r \in rs
    <3>1. coll[r].provider # "absent" /\ \A t \in Subjects \ {s} : alloc[r][t] \notin Active
      BY <2>1, <2>3 DEF Consistent, Active
    <3>2. alloc'[r] = [alloc[r] EXCEPT ![s] = IF reversal'[r] # "none" THEN "reversed" ELSE "released"]
      BY <2>3 DEF Unwound
    <3>3. \A t \in Subjects : alloc'[r][t] \notin Active
      BY <2>1, <3>1, <3>2 DEF Active
    <3>4. CASE reversal'[r] # "none"
      <4>1. coll'[r] = TakenBack(coll[r])
        BY <2>3, <3>4 DEF Unwound
      <4>2. coll'[r].provider = "reversed" /\ coll'[r].allocation = "reversed"
        BY <2>1, <4>1 DEF TakenBack, Row
      <4> QED BY <3>3, <4>2 DEF Consistent, DerivedStatus
    <3>5. CASE reversal'[r] = "none"
      <4>1. coll'[r] = Refreshed(coll[r], alloc'[r])
        BY <2>3, <3>5 DEF Unwound
      <4>2. /\ coll'[r].provider = coll[r].provider
            /\ coll'[r].allocation = DerivedStatus(coll[r], alloc'[r])
            /\ DerivedStatus(coll'[r], alloc'[r]) = DerivedStatus(coll[r], alloc'[r])
        BY <2>1, <4>1 DEF Refreshed, Row, DerivedStatus
      <4> QED BY <3>1, <3>3, <4>2 DEF Consistent
    <3> QED BY <3>4, <3>5
  <2> QED BY <2>2, <2>3
<1> QED BY <1>1 DEF MoneyConsistent

-----------------------------------------------------------------------------
(* The steps.                                                                *)

LEMMA CheckoutConsistent == MoneyInv /\ CheckoutStep => MoneyConsistent'
<1> SUFFICES ASSUME MoneyInv, CheckoutStep PROVE MoneyConsistent'
  OBVIOUS
<1>u. ASSUME UNCHANGED <<coll, alloc>> PROVE MoneyConsistent'
  BY <1>u DEF MoneyInv, MoneyConsistent
<1>1. ASSUME NEW i \in Intents, CreateIntent(i) \/ CreateAttempt(i) PROVE MoneyConsistent'
  BY <1>1, <1>u DEF CreateIntent, CreateAttempt, money
<1>2. ASSUME NEW i \in Intents, NEW r \in Receipts, ManualFallback(i, r) PROVE MoneyConsistent'
  <2>1. Price[i] \in Nat /\ today \in 0..MaxDay
    BY ConstantsAssumption DEF MoneyInv, TypeOK
  <2>2. CASE Dispute(r, i)
    BY <2>2, DisputeConsistent
  <2>3. CASE Apply(i, 0, r, Upserted(r, Price[i], today, "manual", i), attempt)
    BY <2>1, <2>3, UpsertedConsistent, ApplyConsistent
  <2> QED BY <1>2, <2>2, <2>3 DEF ManualFallback
<1>3. ASSUME NEW i \in Intents, CashSplit(i) PROVE MoneyConsistent'
  <2> DEFINE r == intent[i].fulfilled
             s == SubjectOf[i]
  <2>1. s \in Subjects /\ alloc[r][s] = "reserved" /\ Allocate(r, s, "posted", coll[r])
    BY <1>3, ConstantsAssumption DEF CashSplit
  <2>2. CASE r \in Receipts
    <3>1. Consistent(coll[r], alloc[r]) /\ coll[r] \in Row
      BY <2>2 DEF MoneyInv, MoneyConsistent, TypeOK
    <3>2. coll[r].provider # "absent" /\ \A t \in Subjects \ {s} : alloc[r][t] \notin Active
      BY <2>1, <3>1 DEF Consistent, Active
    <3> QED BY <2>1, <2>2, <3>1, <3>2, AllocateConsistent DEF AllocationStatus
  <2>3. CASE r \notin Receipts
    BY <1>u, <2>1, <2>3 DEF Allocate, MoneyInv, TypeOK
  <2> QED BY <2>2, <2>3
<1>4. ASSUME NEW i \in Intents, NEW n \in AttemptNumbers,
             RecordRequestUnknown(i, n)
             \/ \E answer \in AttemptStatus, known \in BOOLEAN : RecordStkRequest(i, n, answer, known)
      PROVE  MoneyConsistent'
  BY <1>4, <1>u DEF RecordRequestUnknown, RecordStkRequest, money
<1> QED BY <1>1, <1>2, <1>3, <1>4 DEF CheckoutStep

LEMMA ProviderConsistent == MoneyInv /\ ProviderStep => MoneyConsistent'
<1> SUFFICES ASSUME MoneyInv, ProviderStep PROVE MoneyConsistent'
  OBVIOUS
<1>u. ASSUME UNCHANGED <<coll, alloc>> PROVE MoneyConsistent'
  BY <1>u DEF MoneyInv, MoneyConsistent
<1>d. ASSUME NEW r \in Receipts, NEW d \in ProviderDays PROVE Paid[r] \in Nat /\ d \in 0..MaxDay
  BY ConstantsAssumption DEF ProviderDays, MoneyInv, TypeOK
<1>1. ASSUME NEW i \in Intents, NEW n \in AttemptNumbers,
             \/ BindCallback(i, n) \/ ConflictingCallback(i, n) \/ GiveUpEvent(i, n)
             \/ \E outcome \in Terminal : FinalizeTerminal(i, n, outcome)
             \/ \E aged \in BOOLEAN : RecordQueryPending(i, n, aged)
      PROVE  MoneyConsistent'
  BY <1>1, <1>u
  DEF BindCallback, ConflictingCallback, GiveUpEvent, FinalizeTerminal, RecordQueryPending, money
<1>2. ASSUME NEW i \in Intents, NEW n \in AttemptNumbers, NEW r \in Receipts, NEW d \in ProviderDays,
             FinalizeSuccess(i, n, r, d)
      PROVE  MoneyConsistent'
  <2>1. CASE Dispute(r, i)
    BY <2>1, DisputeConsistent
  <2>2. CASE Apply(i, n, r, Upserted(r, Paid[r], d, "stk", i), [attempt EXCEPT ![i][n] = "paid"])
    BY <1>d, <2>2, UpsertedConsistent, ApplyConsistent
  <2> QED BY <1>2, <2>1, <2>2 DEF FinalizeSuccess
<1>3. ASSUME NEW r \in Receipts, NEW d \in ProviderDays, RecordC2b(r, d) PROVE MoneyConsistent'
  <2>1. CASE Dispute(r, None)
    BY <2>1, DisputeConsistent
  <2>2. CASE ~Conflict(r, Paid[r], FALSE)
    <3> DEFINE c == Upserted(r, Paid[r], d, "c2b", None)
    <3>1. c \in Row /\ Consistent(c, alloc[r])
      BY <1>d, UpsertedConsistent
    <3>2. coll' = [coll EXCEPT ![r] = c] /\ UNCHANGED alloc
      BY <1>3, <2>2 DEF RecordC2b
    <3> QED BY <3>1, <3>2, RowWritten
  <2> QED BY <1>3, <2>1, <2>2 DEF RecordC2b
<1>4. ASSUME NEW aged \in SUBSET Intents, Sweep(aged) PROVE MoneyConsistent'
  BY <1>4, <1>u DEF Sweep, money
<1> QED BY <1>1, <1>2, <1>3, <1>4 DEF ProviderStep

LEMMA StaffConsistent == MoneyInv /\ StaffStep => MoneyConsistent'
<1> SUFFICES ASSUME MoneyInv, StaffStep PROVE MoneyConsistent'
  OBVIOUS
<1>u. ASSUME UNCHANGED <<coll, alloc>> PROVE MoneyConsistent'
  BY <1>u DEF MoneyInv, MoneyConsistent
<1>c. ASSUME NEW r \in Receipts
      PROVE  coll[r] \in Row /\ Consistent(coll[r], alloc[r]) /\ ClearSurplus(coll[r]) \in Row
             /\ ClearSurplus(coll[r]).provider = coll[r].provider
  BY DEF MoneyInv, MoneyConsistent, TypeOK, ClearSurplus, Row
<1>r. ASSUME NEW r \in Receipts, NEW s \in Subjects, alloc[r][s] \in Active
      PROVE  coll[r].provider # "absent" /\ \A t \in Subjects \ {s} : alloc[r][t] \notin Active
  BY <1>c, <1>r DEF Consistent, Active
<1>1. ASSUME NEW i \in Intents, NEW n \in AttemptNumbers, NEW adopt \in BOOLEAN, ReviewEvent(i, n, adopt)
      PROVE  MoneyConsistent'
  BY <1>1, <1>u DEF ReviewEvent, money
<1>2. ASSUME NEW i \in Intents, NEW r \in Receipts, RetryPosting(i, r) PROVE MoneyConsistent'
  <2>1. coll[r].provider # "absent"
    BY <1>2, <1>c, ConstantsAssumption DEF RetryPosting, Consistent
  <2> QED BY <1>2, <1>c, <2>1, ApplyConsistent DEF RetryPosting
<1>3. ASSUME NEW r \in Receipts, Classify(r) PROVE MoneyConsistent'
  <2> DEFINE d == [coll[r] EXCEPT !.class = "closed"]
  <2>1. d \in Row /\ d.provider = coll[r].provider /\ d.allocation = coll[r].allocation
        /\ coll[r].provider # "absent"
    BY <1>3, <1>c DEF Row, Classify
  <2>2. coll' = [coll EXCEPT ![r] = d] /\ UNCHANGED alloc
    BY <1>3 DEF Classify, MoneyInv, TypeOK
  <2>3. Consistent(d, alloc[r])
    BY <1>c, <2>1, OtherColumns
  <2> QED BY <2>1, <2>2, <2>3, RowWritten
<1>4. ASSUME NEW r \in Receipts, NEW mayReverse \in BOOLEAN, RequestReversal(r, mayReverse)
      PROVE  MoneyConsistent'
  <2>1. CASE coll' = [coll EXCEPT ![r] = TakenBack(@)] /\ UNCHANGED <<subject, alloc>>
    <3>1. coll' = [coll EXCEPT ![r] = TakenBack(coll[r])]
      BY <2>1 DEF MoneyInv, TypeOK
    <3>2. coll[r].provider # "absent"
      BY <1>4 DEF RequestReversal
    <3> QED BY <2>1, <3>1, <3>2, TakenBackConsistent, RowWritten
  <2>2. ASSUME NEW s \in Subjects, alloc[r][s] = "posted", Unwound({r}, s) PROVE MoneyConsistent'
    BY <2>2, UnwoundConsistent
  <2> QED BY <1>4, <2>1, <2>2 DEF RequestReversal
<1>5. ASSUME NEW r \in Receipts, NEW s \in Subjects, AllocateCollection(r, s) PROVE MoneyConsistent'
  <2>1. coll[r].provider # "absent" /\ \A t \in Subjects \ {s} : alloc[r][t] \notin Active
    BY <1>5 DEF AllocateCollection, Overallocated
  <2>2. CASE Allocate(r, s, "reserved", coll[r])
    BY <1>c, <2>1, <2>2, AllocateConsistent DEF AllocationStatus
  <2>3. CASE Allocate(r, s, "posted", ClearSurplus(coll[r]))
    BY <1>c, <2>1, <2>3, AllocateConsistent DEF AllocationStatus
  <2> QED BY <1>5, <2>2, <2>3 DEF AllocateCollection
<1>6. ASSUME NEW r \in Receipts, NEW s \in Subjects, ApproveLate(r, s) PROVE MoneyConsistent'
  BY <1>6, <1>c, <1>r, AllocateConsistent DEF ApproveLate, AllocationStatus, Active
<1>7. ASSUME NEW r \in Receipts, NEW s \in Subjects, RejectLate(r, s) PROVE MoneyConsistent'
  BY <1>7, <1>c, <1>r, AllocateConsistent DEF RejectLate, AllocationStatus, Active
<1>8. ASSUME NEW r \in Receipts, NEW s \in Subjects, ReversePosting(r, s) PROVE MoneyConsistent'
  BY <1>8, UnwoundConsistent DEF ReversePosting
<1> QED BY <1>1, <1>2, <1>3, <1>4, <1>5, <1>6, <1>7, <1>8 DEF StaffStep

LEMMA BooksConsistent == MoneyInv /\ BooksStep => MoneyConsistent'
<1> SUFFICES ASSUME MoneyInv, BooksStep PROVE MoneyConsistent'
  OBVIOUS
<1>u. ASSUME UNCHANGED <<coll, alloc>> PROVE MoneyConsistent'
  BY <1>u DEF MoneyInv, MoneyConsistent
<1>1. ASSUME NEW s \in Subjects, VoidOrder(s) PROVE MoneyConsistent'
  BY <1>1, UnwoundConsistent DEF VoidOrder, PostedTo
<1>2. ASSUME NEW s \in Subjects, SettleOtherwise(s) \/ VoidHeldOrder(s) PROVE MoneyConsistent'
  BY <1>2, <1>u DEF SettleOtherwise, VoidHeldOrder, money
<1>3. ASSUME OpenTill \/ CloseTill \/ NextDay \/ \E d \in 1..MaxDay : LockPeriod(d)
      PROVE  MoneyConsistent'
  BY <1>3, <1>u DEF OpenTill, CloseTill, NextDay, LockPeriod, money
<1> QED BY <1>1, <1>2, <1>3 DEF BooksStep

LEMMA MoneyStep == MoneyInv /\ [Next]_vars => MoneyInv'
<1> SUFFICES ASSUME MoneyInv, [Next]_vars PROVE MoneyInv'
  OBVIOUS
<1>1. TypeOK'
  BY TypeStep DEF MoneyInv
<1>2. CASE UNCHANGED vars
  BY <1>1, <1>2 DEF vars, money, MoneyInv, MoneyConsistent
<1>3. CASE Next
  BY <1>1, <1>3, CheckoutConsistent, ProviderConsistent, StaffConsistent, BooksConsistent
  DEF Next, MoneyInv
<1> QED BY <1>2, <1>3

LEMMA MoneyInvariant == Spec => []MoneyInv
<1>1. Init => MoneyInv
  <2>1. Init => MoneyConsistent
    BY DEF Init, MoneyConsistent, Consistent, DerivedStatus, Active
  <2> QED BY <2>1, InitType DEF MoneyInv
<1>2. MoneyInv /\ [Next]_vars => MoneyInv'
  BY MoneyStep
<1> QED BY <1>1, <1>2, PTL DEF Spec

\* payment_collections.allocation_status, which eight functions maintain by
\* hand, is always what refresh_payment_collection_status would compute.
THEOREM StatusCorrect == Spec => []AllocationStatusTruthful
<1>1. MoneyInv => AllocationStatusTruthful
  BY DEF MoneyInv, MoneyConsistent, Consistent, AllocationStatusTruthful
<1> QED BY <1>1, MoneyInvariant, PTL

\* The money of a provider receipt is promised to one subject at most, whatever
\* retries, late reviews, reconciliation, reversals and voids do.
THEOREM MoneyPromisedOnce == Spec => []NotOverallocated
<1>1. MoneyInv => NotOverallocated
  BY DEF MoneyInv, MoneyConsistent, Consistent, NotOverallocated
<1> QED BY <1>1, MoneyInvariant, PTL
=============================================================================
