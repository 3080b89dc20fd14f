----------------------- MODULE MpesaProcessingProofs -----------------------
(***************************************************************************)
(* Theorems about MpesaProcessing, for every number of callers, workers,    *)
(* prompts and faults.                                                      *)
(***************************************************************************)
EXTENDS MpesaProcessing, TLAPS

\* What an update of the attempt rows keeps.
LEMMA StatusUpdate ==
  ASSUME TypeOK, NEW n, NEW s \in AttemptStatus
  PROVE  [status EXCEPT ![n] = s] \in [Attempt -> AttemptStatus]
BY DEF TypeOK

LEMMA EventUpdate ==
  ASSUME TypeOK, NEW n, NEW s \in EventStatus
  PROVE  [event EXCEPT ![n] = s] \in [Attempt -> EventStatus]
BY DEF TypeOK

\* A settlement writes legal values and never makes an intent chargeable.
LEMMA SuccessEffect ==
  ASSUME TypeOK, NEW n \in Attempt, FinalizeSuccess(n)
  PROVE  /\ intent' \in IntentStatus /\ (Chargeable' => Chargeable)
         /\ fulfilled' \in 0..MaxAttempts /\ status' \in [Attempt -> AttemptStatus]
         /\ settled' = settled \union {n} /\ queryLease' = queryLease \ {n}
         /\ UNCHANGED <<current, bound, old>>
<1> USE DEF FinalizeSuccess, Chargeable
<1>1. /\ settled' = settled \union {n} /\ queryLease' = queryLease \ {n}
      /\ UNCHANGED <<current, bound, old>>
  OBVIOUS
<1>2. n \in 0..MaxAttempts
  BY ProcessingAssumption DEF Attempt, ProcessingAssumption
<1>3. CASE n # current /\ fulfilled = 0
  <2>1. /\ intent' = "review" /\ fulfilled' = n
        /\ status' = [status EXCEPT ![n] = "paid",
             ![current] = IF @ \in {"paid", "ended"} THEN @ ELSE "manual_review"]
    BY <1>3
  <2>2. status' \in [Attempt -> AttemptStatus]
    BY <2>1 DEF TypeOK, AttemptStatus
  <2> QED BY <1>1, <1>2, <2>1, <2>2 DEF IntentStatus
<1>4. CASE n = current /\ fulfilled \in {0, n} /\ intent # "ended"
  <2>1. /\ intent' \in {"paid", "review"} /\ fulfilled' = n
        /\ status' = [status EXCEPT ![n] = "paid"]
    BY <1>4
  <2> QED BY <1>1, <1>2, <2>1, StatusUpdate DEF IntentStatus, AttemptStatus
<1>5. CASE status' = [status EXCEPT ![n] = "paid"] /\ UNCHANGED <<intent, fulfilled>>
  BY <1>1, <1>5, StatusUpdate DEF TypeOK, AttemptStatus
<1> QED BY <1>3, <1>4, <1>5

\* A declined prompt ends its intent only when it is the current one.
LEMMA TerminalEffect ==
  ASSUME TypeOK, NEW n \in Attempt, FinalizeTerminal(n)
  PROVE  /\ intent' \in IntentStatus
         /\ Chargeable' => Chargeable \/ (n = current /\ intent = "pending")
         /\ status' \in [Attempt -> AttemptStatus] /\ queryLease' \subseteq queryLease
         /\ UNCHANGED <<current, fulfilled, bound, old, settled>>
<1> USE DEF FinalizeTerminal, Chargeable
<1>1. CASE n = current /\ fulfilled = 0
  <2>1. /\ status' = [status EXCEPT ![n] = "ended"] /\ queryLease' = queryLease \ {n}
        /\ intent' = IF intent = "pending" THEN "ended" ELSE intent
    BY <1>1
  <2> QED BY <1>1, <2>1, StatusUpdate DEF TypeOK, IntentStatus, AttemptStatus
<1>2. CASE UNCHANGED <<intent, status, queryLease>>
  BY <1>2 DEF TypeOK
<1> QED BY <1>1, <1>2

LEMMA QueryPendingEffect ==
  ASSUME TypeOK, NEW n \in Attempt, RecordQueryPending(n)
  PROVE  /\ intent' \in IntentStatus /\ (Chargeable' => Chargeable)
         /\ status' \in [Attempt -> AttemptStatus] /\ queryLease' = queryLease \ {n}
         /\ UNCHANGED <<current, fulfilled, bound, old, settled>>
<1>1. (IF n \in old THEN "manual_review" ELSE "query_pending") \in AttemptStatus
  BY DEF AttemptStatus
<1>2. status' \in [Attempt -> AttemptStatus]
  BY <1>1, StatusUpdate DEF RecordQueryPending
<1> QED BY <1>2 DEF RecordQueryPending, Chargeable, TypeOK, IntentStatus

(***************************************************************************)
(* Types, and the attempt an invocation works on.                           *)
(***************************************************************************)
Numbered ==
  /\ \A c \in Caller : caller[c].at \notin {"idle", "send"} => caller[c].n \in 1..current
  /\ \A w \in Worker : worker[w].at \notin {"idle", "events"} => worker[w].n \in Attempt

CallerRow == [at : CallerAt, n : 0..MaxAttempts]
WorkerRow == [at : WorkerAt, todo : SUBSET Attempt, n : 0..MaxAttempts]

\* The rows of the database, without the invocations.
RowsOK ==
  /\ intent \in IntentStatus /\ current \in 0..MaxAttempts
  /\ fulfilled \in 0..MaxAttempts
  /\ status \in [Attempt -> AttemptStatus]
  /\ bound \subseteq Attempt /\ old \subseteq Attempt
  /\ queryLease \subseteq Attempt /\ settled \subseteq Attempt
  /\ event \in [Attempt -> EventStatus]
  /\ evidence \subseteq Attempt /\ eventOld \subseteq Attempt /\ lease \subseteq Attempt
  /\ provider \in [Attempt -> {"unasked", "asked", "paid", "declined"}]
  /\ faults \in 0..MaxFaults

LEMMA TypeParts ==
  /\ TypeOK <=> RowsOK /\ caller \in [Caller -> CallerRow] /\ worker \in [Worker -> WorkerRow]
  /\ TypeOK' <=> RowsOK' /\ (caller \in [Caller -> CallerRow])' /\ (worker \in [Worker -> WorkerRow])'
BY DEF TypeOK, RowsOK, CallerRow, WorkerRow

\* An invocation of mpesa-initiate moves and works on an attempt that exists.
LEMMA CallerMoves ==
  ASSUME TypeOK, Numbered, NEW c \in Caller, NEW to \in CallerAt, NEW n \in 0..MaxAttempts,
         CallerGoes(c, to, n), current' \in 0..MaxAttempts, current <= current',
         to \notin {"idle", "send"} => n \in 1..current', UNCHANGED worker, RowsOK'
  PROVE  TypeOK' /\ Numbered'
<1>1. caller \in [Caller -> CallerRow] /\ worker \in [Worker -> WorkerRow] /\ current \in 0..MaxAttempts
  BY TypeParts DEF TypeOK
<1>2. [at |-> to, n |-> n] \in CallerRow
  BY DEF CallerRow
<1>3. /\ caller' \in [Caller -> CallerRow] /\ caller'[c] = [at |-> to, n |-> n]
      /\ \A d \in Caller \ {c} : caller'[d] = caller[d]
  BY <1>1, <1>2 DEF CallerGoes
<1>4. 1..current \subseteq 1..current'
  BY <1>1, ProcessingAssumption DEF ProcessingAssumption
<1>5. \A d \in Caller : caller'[d].at \notin {"idle", "send"} => caller'[d].n \in 1..current'
  BY <1>3, <1>4 DEF Numbered
<1> QED BY <1>1, <1>3, <1>5, TypeParts DEF Numbered

LEMMA CallingKeepsTypes ==
  ASSUME TypeOK, Numbered, NEW c \in Caller, Calling(c)
  PROVE  TypeOK' /\ Numbered'
<1>0. /\ RowsOK /\ current \in 0..MaxAttempts /\ 0 \in 0..MaxAttempts
      /\ current <= current /\ MaxAttempts \in Nat
  BY TypeParts, ProcessingAssumption DEF TypeOK, ProcessingAssumption
<1>a. /\ caller[c].n \in 0..MaxAttempts
      /\ caller[c].at \notin {"idle", "send"} => caller[c].n \in 1..current
  BY DEF TypeOK, Numbered
<1>1. CASE Prepare(c)
  <2>1. RowsOK' /\ UNCHANGED <<current, worker>> /\ CallerGoes(c, "send", 0)
    BY <1>0, <1>1 DEF Prepare, RowsOK, checkout, attempts, inbox
  <2> QED BY <1>0, <2>1, CallerMoves DEF CallerAt
<1>2. CASE CreateAttempt(c)
  <2>1. current + 1 \in 1..MaxAttempts /\ current + 1 \in 1..(current + 1) /\ current <= current + 1
    BY <1>0, <1>2 DEF CreateAttempt
  <2>2. status' \in [Attempt -> AttemptStatus] /\ intent' \in IntentStatus
    BY <1>2, StatusUpdate DEF CreateAttempt, AttemptStatus, IntentStatus
  <2>3. RowsOK' /\ current' = current + 1 /\ UNCHANGED worker /\ CallerGoes(c, "ask", current + 1)
    BY <1>0, <1>2, <2>1, <2>2 DEF CreateAttempt, RowsOK, inbox
  <2> QED BY <1>0, <2>1, <2>3, CallerMoves DEF CallerAt
<1>3. CASE RefuseAttempt(c)
  <2>1. RowsOK' /\ UNCHANGED <<current, worker>> /\ CallerGoes(c, "idle", 0)
    BY <1>0, <1>3 DEF RefuseAttempt, RowsOK, checkout, attempts, inbox
  <2> QED BY <1>0, <2>1, CallerMoves DEF CallerAt
<1>4. CASE AskProvider(c)
  <2>1. provider' \in [Attempt -> {"unasked", "asked", "paid", "declined"}]
    BY <1>4 DEF AskProvider, TypeOK
  <2>2. RowsOK' /\ UNCHANGED <<current, worker>> /\ caller[c].n \in 1..current
    BY <1>0, <1>a, <1>4, <2>1 DEF AskProvider, RowsOK, checkout, attempts, inbox
  <2>3. PICK to \in CallerAt : CallerGoes(c, to, caller[c].n)
    BY <1>4 DEF AskProvider, CallerAt
  <2> QED BY <1>0, <1>a, <2>2, <2>3, CallerMoves
<1>5. ASSUME NEW knows \in BOOLEAN, RecordRequest(c, knows) PROVE TypeOK' /\ Numbered'
  <2>1. caller[c].n \in Attempt
    BY <1>0, <1>a, <1>5 DEF RecordRequest, Attempt
  <2>2. PICK s \in AttemptStatus : status' = [status EXCEPT ![caller[c].n] = s]
    BY <1>5 DEF RecordRequest, AttemptStatus
  <2>3. status' \in [Attempt -> AttemptStatus] /\ intent' \in IntentStatus /\ bound' \subseteq Attempt
    BY <1>5, <2>1, <2>2, StatusUpdate DEF RecordRequest, IntentStatus, TypeOK
  <2>4. RowsOK' /\ UNCHANGED <<current, worker>> /\ CallerGoes(c, "idle", 0)
    BY <1>0, <1>5, <2>3 DEF RecordRequest, RowsOK, inbox
  <2> QED BY <1>0, <2>4, CallerMoves DEF CallerAt
<1>6. CASE FailToRecord(c)
  <2>1. RowsOK' /\ UNCHANGED <<current, worker>> /\ CallerGoes(c, "unknown", caller[c].n)
    BY <1>0, <1>6 DEF FailToRecord, RowsOK, checkout, attempts, inbox
  <2>2. caller[c].n \in 1..current
    BY <1>a, <1>6 DEF FailToRecord
  <2> QED BY <1>0, <1>a, <2>1, <2>2, CallerMoves DEF CallerAt
<1>7. CASE RecordUnknown(c)
  <2>0. \/ intent' = "pending" /\ status' = [status EXCEPT ![caller[c].n] = "request_unknown"]
        \/ UNCHANGED <<intent, status>>
    BY <1>7 DEF RecordUnknown
  <2>1. status' \in [Attempt -> AttemptStatus] /\ intent' \in IntentStatus
    BY <2>0, StatusUpdate DEF AttemptStatus, IntentStatus, TypeOK
  <2>2. RowsOK' /\ UNCHANGED <<current, worker>> /\ CallerGoes(c, "idle", 0)
    BY <1>0, <1>7, <2>1 DEF RecordUnknown, RowsOK, inbox
  <2> QED BY <1>0, <2>2, CallerMoves DEF CallerAt
<1>8. CASE CrashCaller(c)
  <2>1. faults' \in 0..MaxFaults
    BY <1>8, ProcessingAssumption DEF CrashCaller, Fault, TypeOK, ProcessingAssumption
  <2>2. RowsOK' /\ UNCHANGED <<current, worker>> /\ CallerGoes(c, "idle", 0)
    BY <1>0, <1>8, <2>1 DEF CrashCaller, RowsOK, checkout, attempts, inbox
  <2> QED BY <1>0, <2>2, CallerMoves DEF CallerAt
<1> QED BY <1>1, <1>2, <1>3, <1>4, <1>5, <1>6, <1>7, <1>8 DEF Calling

\* A worker moves and keeps to events and attempts that exist.
LEMMA WorkerMoves ==
  ASSUME TypeOK, Numbered, NEW w \in Worker, NEW row \in WorkerRow,
         worker' = [worker EXCEPT ![w] = row],
         row.at \notin {"idle", "events"} => row.n \in Attempt,
         UNCHANGED <<current, caller>>, RowsOK'
  PROVE  TypeOK' /\ Numbered'
<1>1. caller \in [Caller -> CallerRow] /\ worker \in [Worker -> WorkerRow]
  BY TypeParts
<1>2. /\ worker' \in [Worker -> WorkerRow] /\ worker'[w] = row
      /\ \A v \in Worker \ {w} : worker'[v] = worker[v]
  BY <1>1
<1>3. \A v \in Worker : worker'[v].at \notin {"idle", "events"} => worker'[v].n \in Attempt
  BY <1>2 DEF Numbered
<1> QED BY <1>1, <1>2, <1>3, TypeParts DEF Numbered

LEMMA RestingRow == Resting \in WorkerRow /\ Resting.at = "idle"
BY ProcessingAssumption DEF Resting, WorkerRow, WorkerAt, Attempt, ProcessingAssumption

\* The rows a worker writes, as the actions name them.
LEMMA WorkerWrites ==
  ASSUME TypeOK, Numbered, NEW w \in Worker
  PROVE  /\ Resting \in WorkerRow
         /\ \A to \in WorkerAt : worker[w].at \notin {"idle", "events"} =>
              \E row \in WorkerRow : /\ WorkerGoes(w, to) => worker' = [worker EXCEPT ![w] = row]
                                     /\ row.at = to /\ row.n = worker[w].n /\ row.n \in Attempt
         /\ \A to \in WorkerAt, n \in Attempt : WorkerTakes(w, to, n) =>
              \E row \in WorkerRow : /\ worker' = [worker EXCEPT ![w] = row]
                                     /\ row.at = to /\ row.n = n
         /\ \E row \in WorkerRow : /\ NextEvent(w) => worker' = [worker EXCEPT ![w] = row]
                                   /\ row.at = "events"
<1> DEFINE old_ == worker[w]
<1>0. old_ \in WorkerRow /\ worker \in [Worker -> WorkerRow] /\ Attempt \subseteq 0..MaxAttempts /\ 0 \in 0..MaxAttempts
  BY TypeParts, ProcessingAssumption DEF Attempt, ProcessingAssumption
<1>1. Resting \in WorkerRow
  BY <1>0 DEF Resting, WorkerRow, WorkerAt
<1>2. ASSUME NEW to \in WorkerAt, worker[w].at \notin {"idle", "events"}
      PROVE  \E row \in WorkerRow : /\ WorkerGoes(w, to) => worker' = [worker EXCEPT ![w] = row]
                                    /\ row.at = to /\ row.n = worker[w].n /\ row.n \in Attempt
  <2>1. [old_ EXCEPT !.at = to] \in WorkerRow
    BY <1>0 DEF WorkerRow
  <2>2. worker[w].n \in Attempt
    BY <1>2 DEF Numbered
  <2>3. /\ WorkerGoes(w, to) => worker' = [worker EXCEPT ![w] = [old_ EXCEPT !.at = to]]
        /\ [old_ EXCEPT !.at = to].at = to /\ [old_ EXCEPT !.at = to].n = worker[w].n
    BY <1>0 DEF WorkerGoes, WorkerRow
  <2> QED BY <2>1, <2>2, <2>3
<1>3. ASSUME NEW to \in WorkerAt, NEW n \in Attempt, WorkerTakes(w, to, n)
      PROVE  \E row \in WorkerRow : /\ worker' = [worker EXCEPT ![w] = row]
                                    /\ row.at = to /\ row.n = n
  <2>1. [old_ EXCEPT !.at = to, !.n = n] \in WorkerRow
    BY <1>0 DEF WorkerRow
  <2>2. /\ worker' = [worker EXCEPT ![w] = [old_ EXCEPT !.at = to, !.n = n]]
        /\ [old_ EXCEPT !.at = to, !.n = n].at = to /\ [old_ EXCEPT !.at = to, !.n = n].n = n
    BY <1>0, <1>3 DEF WorkerTakes, WorkerRow
  <2> QED BY <2>1, <2>2
<1>4. \E row \in WorkerRow : /\ NextEvent(w) => worker' = [worker EXCEPT ![w] = row]
                             /\ row.at = "events"
  <2>1. [at |-> "events", todo |-> old_.todo \ {old_.n}, n |-> 0] \in WorkerRow
    BY <1>0 DEF WorkerRow, WorkerAt
  <2> QED BY <2>1 DEF NextEvent
<1> QED BY <1>1, <1>2, <1>3, <1>4

LEMMA WorkingKeepsTypes ==
  ASSUME TypeOK, Numbered, NEW w \in Worker, Working(w) \/ Failing(w)
  PROVE  TypeOK' /\ Numbered'
<1>0. /\ RowsOK /\ worker[w] \in WorkerRow
      /\ worker[w].at \notin {"idle", "events"} => worker[w].n \in Attempt
  BY TypeParts DEF Numbered
<1>1. CASE ClaimEvents(w)
  <2>1. Claimable \subseteq Attempt
    BY DEF Claimable
  <2>2. event' \in [Attempt -> EventStatus] /\ lease' \subseteq Attempt
    BY <1>1, <2>1 DEF ClaimEvents, TypeOK, EventStatus
  <2>3. RowsOK' /\ UNCHANGED <<current, caller>>
    BY <1>0, <1>1, <2>2 DEF ClaimEvents, RowsOK, checkout, attempts
  <2>4. [at |-> "events", todo |-> Claimable, n |-> 0] \in WorkerRow
    BY <2>1, ProcessingAssumption DEF WorkerRow, WorkerAt, ProcessingAssumption
  <2>5. worker' = [worker EXCEPT ![w] = [at |-> "events", todo |-> Claimable, n |-> 0]]
    BY <1>1 DEF ClaimEvents
  <2> QED BY <2>3, <2>4, <2>5, WorkerMoves
<1>2. ASSUME NEW n \in Attempt, TakeEvent(w, n) PROVE TypeOK' /\ Numbered'
  <2>1. PICK to \in WorkerAt : WorkerTakes(w, to, n)
    BY <1>2 DEF TakeEvent, WorkerAt
  <2>2. PICK row \in WorkerRow : worker' = [worker EXCEPT ![w] = row] /\ row.n = n
    BY <2>1, WorkerWrites
  <2>3. CASE FinalizeTerminal(n)
    BY <1>0, <1>2, <2>2, <2>3, TerminalEffect, WorkerMoves DEF TakeEvent, RowsOK, inbox
  <2>4. CASE RecordQueryPending(n)
    BY <1>0, <1>2, <2>2, <2>4, QueryPendingEffect, WorkerMoves DEF TakeEvent, RowsOK, inbox
  <2>5. CASE UNCHANGED <<checkout, attempts>>
    BY <1>0, <1>2, <2>2, <2>5, WorkerMoves DEF TakeEvent, RowsOK, inbox, checkout, attempts
  <2> QED BY <1>2, <2>3, <2>4, <2>5 DEF TakeEvent
<1>3. CASE SettleEvent(w)
  <2>1. FinalizeSuccess(worker[w].n) /\ worker[w].n \in Attempt
    BY <1>0, <1>3 DEF SettleEvent
  <2>2. PICK row \in WorkerRow : worker' = [worker EXCEPT ![w] = row] /\ row.n \in Attempt
    BY <1>3, WorkerWrites DEF SettleEvent, WorkerAt
  <2>3. RowsOK' /\ UNCHANGED <<current, caller>>
    BY <1>0, <1>3, <2>1, SuccessEffect DEF SettleEvent, RowsOK, inbox
  <2> QED BY <2>2, <2>3, WorkerMoves
<1>4. CASE PostponeEvent(w)
  <2>1. RecordQueryPending(worker[w].n) /\ worker[w].n \in Attempt
    BY <1>0, <1>4 DEF PostponeEvent
  <2>2. PICK row \in WorkerRow : worker' = [worker EXCEPT ![w] = row] /\ row.n \in Attempt
    BY <1>4, WorkerWrites DEF PostponeEvent, WorkerAt
  <2>3. RowsOK' /\ UNCHANGED <<current, caller>>
    BY <1>0, <1>4, <2>1, QueryPendingEffect DEF PostponeEvent, RowsOK, inbox
  <2> QED BY <2>2, <2>3, WorkerMoves
<1>5. CASE FinishEvent(w)
  <2>1. worker[w].n \in Attempt
    BY <1>0, <1>5 DEF FinishEvent
  <2>2. PICK row \in WorkerRow : worker' = [worker EXCEPT ![w] = row] /\ row.at = "events"
    BY <1>5, WorkerWrites DEF FinishEvent
  <2>3. \/ /\ event' = [event EXCEPT ![worker[w].n] = "processed"]
           /\ evidence' \subseteq evidence \union {worker[w].n} /\ lease' \subseteq lease
        \/ UNCHANGED <<event, evidence, lease>>
    BY <1>5 DEF FinishEvent
  <2>4. event' \in [Attempt -> EventStatus] /\ evidence' \subseteq Attempt /\ lease' \subseteq Attempt
    BY <2>1, <2>3, EventUpdate DEF TypeOK, EventStatus
  <2>5. RowsOK' /\ UNCHANGED <<current, caller>>
    BY <1>0, <1>5, <2>4 DEF FinishEvent, RowsOK, checkout, attempts
  <2> QED BY <2>2, <2>5, WorkerMoves
<1>6. CASE RetryEvent(w)
  <2>1. PICK row \in WorkerRow : worker' = [worker EXCEPT ![w] = row] /\ row.at = "events"
    BY <1>6, WorkerWrites DEF RetryEvent
  <2>2. PICK s \in EventStatus : event' = [event EXCEPT ![worker[w].n] = s]
    BY <1>6 DEF RetryEvent, EventStatus
  <2>3. event' \in [Attempt -> EventStatus] /\ lease' \subseteq Attempt
    BY <1>6, <2>2, EventUpdate DEF RetryEvent, TypeOK
  <2>4. RowsOK' /\ UNCHANGED <<current, caller>>
    BY <1>0, <1>6, <2>3 DEF RetryEvent, RowsOK, checkout, attempts
  <2> QED BY <2>1, <2>4, WorkerMoves
<1>7. CASE ClaimQuery(w)
  <2>1. CASE worker' = [worker EXCEPT ![w] = Resting] /\ UNCHANGED queryLease
    <3>1. RowsOK' /\ UNCHANGED <<current, caller>>
      BY <1>0, <1>7, <2>1 DEF ClaimQuery, RowsOK, checkout, inbox
    <3> QED BY <2>1, <3>1, RestingRow, WorkerMoves
  <2>2. ASSUME NEW n \in Queryable, queryLease' = queryLease \union {n},
               WorkerTakes(w, "query", n)
        PROVE  TypeOK' /\ Numbered'
    <3>1. n \in Attempt
      BY ProcessingAssumption DEF Queryable, TypeOK, Attempt, ProcessingAssumption
    <3>0. "query" \in WorkerAt /\ WorkerTakes(w, "query", n)
      BY <2>2 DEF WorkerAt
    <3>2. PICK row \in WorkerRow : worker' = [worker EXCEPT ![w] = row] /\ row.n = n
      BY <3>0, <3>1, WorkerWrites
    <3>3. RowsOK' /\ UNCHANGED <<current, caller>>
      BY <1>0, <1>7, <2>2, <3>1 DEF ClaimQuery, RowsOK, checkout, inbox
    <3> QED BY <3>1, <3>2, <3>3, WorkerMoves
  <2> QED BY <1>7, <2>1, <2>2 DEF ClaimQuery
<1>8. CASE Query(w)
  <2>1. PICK to \in WorkerAt : WorkerGoes(w, to)
    BY <1>8 DEF Query, WorkerAt
  <2>2. PICK row \in WorkerRow : worker' = [worker EXCEPT ![w] = row] /\ row.n \in Attempt
    BY <1>8, <2>1, WorkerWrites DEF Query
  <2>3. RowsOK' /\ UNCHANGED <<current, caller>>
    BY <1>0, <1>8 DEF Query, RowsOK, checkout, attempts, inbox
  <2> QED BY <2>2, <2>3, WorkerMoves
<1>9. CASE RecordQuery(w)
  <2> DEFINE n == worker[w].n
  <2>1. n \in Attempt
    BY <1>0, <1>9 DEF RecordQuery
  <2>2. worker' = [worker EXCEPT ![w] = Resting] /\ UNCHANGED <<inbox, provider, caller, faults>>
    BY <1>9 DEF RecordQuery
  <2>3. FinalizeSuccess(n) \/ FinalizeTerminal(n) \/ RecordQueryPending(n)
    BY <1>9 DEF RecordQuery
  <2>4. RowsOK' /\ UNCHANGED current
    BY <1>0, <2>1, <2>2, <2>3, SuccessEffect, TerminalEffect, QueryPendingEffect DEF RowsOK, inbox
  <2> QED BY <2>2, <2>4, RestingRow, WorkerMoves
<1>10. CASE FailCall(w)
  <2>1. RowsOK' /\ UNCHANGED <<current, caller>>
    BY <1>0, <1>10, ProcessingAssumption DEF FailCall, Fault, RowsOK, checkout, attempts, inbox, ProcessingAssumption
  <2>2. CASE worker' = [worker EXCEPT ![w] = Resting]
    BY <2>1, <2>2, RestingRow, WorkerMoves
  <2>3. CASE worker[w].at \in {"settle", "unclear", "finish"} /\ WorkerGoes(w, "retry")
    <3>0. "retry" \in WorkerAt /\ worker[w].at \notin {"idle", "events"} /\ WorkerGoes(w, "retry")
      BY <2>3 DEF WorkerAt
    <3>1. PICK row \in WorkerRow : worker' = [worker EXCEPT ![w] = row] /\ row.n \in Attempt
      BY <3>0, WorkerWrites
    <3> QED BY <2>1, <3>1, WorkerMoves
  <2>4. ASSUME NEW n \in worker[w].todo, WorkerTakes(w, "retry", n)
        PROVE  TypeOK' /\ Numbered'
    <3>1. "retry" \in WorkerAt /\ n \in Attempt
      BY <1>0 DEF WorkerAt, WorkerRow
    <3>2. PICK row \in WorkerRow : worker' = [worker EXCEPT ![w] = row] /\ row.n = n
      BY <2>4, <3>1, WorkerWrites
    <3> QED BY <2>1, <3>1, <3>2, WorkerMoves
  <2> QED BY <1>10, <2>2, <2>3, <2>4 DEF FailCall
<1>11. CASE CrashWorker(w)
  <2>1. RowsOK' /\ UNCHANGED <<current, caller>> /\ worker' = [worker EXCEPT ![w] = Resting]
    BY <1>0, <1>11, ProcessingAssumption DEF CrashWorker, Fault, RowsOK, checkout, attempts, inbox, ProcessingAssumption
  <2> QED BY <2>1, RestingRow, WorkerMoves
<1> QED BY <1>1, <1>2, <1>3, <1>4, <1>5, <1>6, <1>7, <1>8, <1>9, <1>10, <1>11 DEF Working, Failing

\* What Safaricom, time, the sweep and the reviewers do keeps every row's type.
LEMMA OthersKeepTypes ==
  ASSUME TypeOK, Numbered,
         \/ \E n \in Attempt :
              \/ \E result \in {"paid", "declined"} : Decide(n, result)
              \/ Deliver(n) \/ Passing(n) \/ Reviewing(n)
         \/ Sweep
  PROVE  TypeOK' /\ Numbered'
<1>1. ASSUME RowsOK', UNCHANGED <<current, caller, worker>> PROVE TypeOK' /\ Numbered'
  BY <1>1, TypeParts DEF Numbered
<1>2. RowsOK
  BY TypeParts
<1> USE <1>1, <1>2
<1>3. ASSUME NEW n \in Attempt, NEW result \in {"paid", "declined"}, Decide(n, result)
      PROVE  TypeOK' /\ Numbered'
  BY <1>3 DEF Decide, RowsOK, checkout, attempts, inbox
<1>4. ASSUME NEW n \in Attempt, Deliver(n) PROVE TypeOK' /\ Numbered'
  <2>1. event' \in [Attempt -> EventStatus] /\ bound' \subseteq Attempt /\ intent' \in IntentStatus
    BY <1>4, EventUpdate DEF Deliver, EventStatus, IntentStatus, TypeOK
  <2>2. status' \in [Attempt -> AttemptStatus]
    BY <1>4 DEF Deliver, TypeOK, AttemptStatus
  <2> QED BY <1>4, <2>1, <2>2 DEF Deliver, RowsOK
<1>5. ASSUME NEW n \in Attempt, Passing(n) PROVE TypeOK' /\ Numbered'
  BY <1>5 DEF Passing, AgeAttempt, AgeEvent, ExpireLease, ExpireQueryLease, RowsOK,
              checkout, attempts, inbox
<1>6. ASSUME NEW n \in Attempt, Reviewing(n) PROVE TypeOK' /\ Numbered'
  <2>1. /\ event' \in [Attempt -> EventStatus] /\ lease' \subseteq Attempt /\ queryLease' \subseteq Attempt
        /\ status' \in [Attempt -> AttemptStatus] /\ intent' \in IntentStatus
        /\ UNCHANGED <<current, fulfilled, bound, old, settled, evidence, eventOld, provider, caller, worker, faults>>
    <3>1. CASE Acknowledge(n)
      BY <3>1, EventUpdate DEF Acknowledge, EventStatus, TypeOK, checkout, attempts
    <3>2. CASE Dismiss(n)
      <4>1. status' = status \/ \E s \in AttemptStatus : status' = [status EXCEPT ![n] = s]
        BY <3>2 DEF Dismiss, AttemptStatus
      <4> QED BY <3>2, <4>1, EventUpdate, StatusUpdate DEF Dismiss, EventStatus, IntentStatus, TypeOK
    <3>3. CASE ReviewRetry(n)
      BY <3>3, EventUpdate, StatusUpdate DEF ReviewRetry, EventStatus, AttemptStatus, IntentStatus, TypeOK
    <3> QED BY <1>6, <3>1, <3>2, <3>3 DEF Reviewing
  <2> QED BY <2>1 DEF RowsOK
<1>7. ASSUME Sweep PROVE TypeOK' /\ Numbered'
  <2>1. intent' \in IntentStatus /\ status' \in [Attempt -> AttemptStatus]
    BY <1>7, StatusUpdate DEF Sweep, IntentStatus, AttemptStatus, TypeOK
  <2> QED BY <1>7, <2>1 DEF Sweep, RowsOK, inbox
<1> QED BY <1>3, <1>4, <1>5, <1>6, <1>7

LEMMA TypeInit == Init => TypeOK /\ Numbered
<1> SUFFICES ASSUME Init PROVE TypeOK /\ Numbered
  OBVIOUS
<1>1. 0 \in 0..MaxAttempts /\ 0 \in 0..MaxFaults
  BY ProcessingAssumption DEF ProcessingAssumption
<1>2. RowsOK
  BY <1>1 DEF Init, RowsOK, IntentStatus, AttemptStatus, EventStatus
<1>3. caller \in [Caller -> CallerRow] /\ worker \in [Worker -> WorkerRow]
  BY <1>1, RestingRow DEF Init, CallerRow, CallerAt, Idle
<1>4. Numbered
  BY RestingRow DEF Init, Numbered, Idle
<1> QED BY <1>2, <1>3, <1>4, TypeParts

LEMMA TypeStep == TypeOK /\ Numbered /\ [Next]_vars => TypeOK' /\ Numbered'
<1> SUFFICES ASSUME TypeOK, Numbered, [Next]_vars PROVE TypeOK' /\ Numbered'
  OBVIOUS
<1>1. CASE UNCHANGED vars
  BY <1>1 DEF vars, checkout, attempts, inbox, TypeOK, Numbered
<1> QED BY <1>1, CallingKeepsTypes, WorkingKeepsTypes, OthersKeepTypes DEF Next

\* Every row keeps its type however callers, workers, time and faults interleave.
THEOREM TypeCorrect == Spec => []TypeOK
<1>1. Spec => [](TypeOK /\ Numbered)
  BY TypeInit, TypeStep, PTL DEF Spec
<1> QED BY <1>1, PTL

(***************************************************************************)
(* Money.                                                                   *)
(***************************************************************************)
Safe(n) == provider[n] \in {"unasked", "declined"}
Answered(n) == provider[n] \in {"paid", "declined"}
Busy(c) == caller[c].at \notin {"idle", "send"}

\* A caller about to ask has the newest attempt, and nobody else has it.
AskingInv ==
  /\ \A c \in Caller : caller[c].at = "ask" =>
       caller[c].n = current /\ provider[caller[c].n] = "unasked" /\ ~Chargeable
  /\ \A c \in Caller : caller[c].at = "refused" => provider[caller[c].n] = "unasked"
  /\ \A c, d \in Caller : c # d /\ Busy(c) /\ Busy(d) => caller[c].n # caller[d].n

\* Only the newest attempt can be open at Safaricom, and not on a chargeable intent.
ChargingInv ==
  /\ \A n \in Attempt : (n > current => provider[n] = "unasked") /\ (n < current => Safe(n))
  /\ ChargeableMeansUnpaid

\* Events and workers know final answers only, and a paid event done with is settled.
AnswerInv ==
  /\ \A n \in Attempt : event[n] # "none" => Answered(n)
  /\ \A w \in Worker :
       /\ worker[w].at \in {"settle", "unclear", "finish", "retry"} => Answered(worker[w].n)
       /\ worker[w].at = "queryEnd" => provider[worker[w].n] = "declined"
       /\ worker[w].at = "finish" /\ provider[worker[w].n] = "paid" => worker[w].n \in settled

KeptInv == ProcessedMoneyIsKept /\ evidence \subseteq settled

IInv == TypeOK /\ Numbered /\ AskingInv /\ ChargingInv /\ AnswerInv /\ KeptInv

\* The intent may become chargeable only when the newest prompt was declined.
LEMMA IntentMoves ==
  ASSUME IInv, UNCHANGED <<provider, caller, current>>,
         Chargeable' => Chargeable \/ (current \in Attempt /\ provider[current] = "declined")
  PROVE  AskingInv' /\ ChargingInv'
<1>0. current \in Nat /\ \A n \in Attempt : n \in Nat
  BY ProcessingAssumption DEF IInv, TypeOK, Attempt, ProcessingAssumption
<1>1. AskingInv'
  <2>1. \A c \in Caller : caller[c].at = "ask" => ~Chargeable'
    BY DEF IInv, AskingInv
  <2> QED BY <2>1 DEF IInv, AskingInv, Busy
<1>2. ChargeableMeansUnpaid'
  <2>1. CASE Chargeable
    BY <2>1 DEF IInv, ChargingInv, ChargeableMeansUnpaid
  <2>2. CASE provider[current] = "declined"
    <3>1. \A n \in Attempt : n > current \/ n < current \/ n = current
      BY <1>0
    <3> QED BY <2>2, <3>1 DEF IInv, ChargingInv, Safe, ChargeableMeansUnpaid
  <2> QED BY <2>1, <2>2 DEF ChargeableMeansUnpaid
<1> QED BY <1>1, <1>2 DEF IInv, ChargingInv, Safe

\* Answers are final, so what is known of them stays true.
LEMMA AnswersStay ==
  ASSUME IInv, UNCHANGED <<event, evidence, worker, settled>>,
         \A n \in Attempt : Answered(n) => provider'[n] = provider[n]
  PROVE  AnswerInv' /\ KeptInv'
<1>1. \A w \in Worker : worker[w].at \notin {"idle", "events"} => worker[w].n \in Attempt
  BY DEF IInv, Numbered
<1>2. \A n \in Attempt : event[n] # "none" => provider'[n] = provider[n]
  BY DEF IInv, AnswerInv
<1>3. \A w \in Worker : worker[w].at \in {"settle", "unclear", "finish", "retry", "queryEnd"} =>
        /\ provider'[worker[w].n] = provider[worker[w].n]
        /\ worker[w].at # "queryEnd" => Answered(worker[w].n)
  BY <1>1 DEF IInv, AnswerInv, Answered
<1>4. AnswerInv'
  BY <1>2, <1>3 DEF IInv, AnswerInv, Answered
<1>5. KeptInv'
  BY <1>2 DEF IInv, KeptInv, ProcessedMoneyIsKept
<1> QED BY <1>4, <1>5

\* One worker moves, to a place where what it knows is true.
LEMMA AnswersHold ==
  ASSUME IInv, NEW w \in Worker, UNCHANGED provider, settled \subseteq settled',
         \A v \in Worker \ {w} : worker'[v] = worker[v],
         \A n \in Attempt : event'[n] # "none" => event[n] # "none",
         worker'[w].at \in {"settle", "unclear", "finish", "retry"} => Answered(worker'[w].n),
         worker'[w].at = "queryEnd" => provider[worker'[w].n] = "declined",
         worker'[w].at = "finish" /\ provider[worker'[w].n] = "paid" => worker'[w].n \in settled'
  PROVE  AnswerInv'
<1>1. \A n \in Attempt : event'[n] # "none" => Answered(n)
  BY DEF IInv, AnswerInv
<1> QED BY <1>1 DEF IInv, AnswerInv, Answered

\* Nothing is put away as processed, and no evidence is added.
LEMMA KeptStays ==
  ASSUME IInv, UNCHANGED <<provider, evidence>>, settled \subseteq settled',
         \A n \in Attempt : event'[n] = "processed" => event[n] = "processed" \/ n \in evidence
  PROVE  KeptInv'
BY DEF IInv, KeptInv, ProcessedMoneyIsKept

LEMMA WorkerShapes ==
  ASSUME TypeOK, NEW w \in Worker
  PROVE  /\ \A to : WorkerGoes(w, to) =>
              /\ worker'[w].at = to /\ worker'[w].n = worker[w].n
              /\ \A v \in Worker \ {w} : worker'[v] = worker[v]
         /\ \A to, n : WorkerTakes(w, to, n) =>
              /\ worker'[w].at = to /\ worker'[w].n = n
              /\ \A v \in Worker \ {w} : worker'[v] = worker[v]
         /\ NextEvent(w) => /\ worker'[w].at = "events"
                            /\ \A v \in Worker \ {w} : worker'[v] = worker[v]
         /\ \A row : worker' = [worker EXCEPT ![w] = row] =>
              worker'[w] = row /\ \A v \in Worker \ {w} : worker'[v] = worker[v]
<1>1. worker \in [Worker -> WorkerRow] /\ worker[w] \in WorkerRow
  BY TypeParts
<1> QED BY <1>1 DEF WorkerGoes, WorkerTakes, NextEvent, WorkerRow

LEMMA CallingKeepsMoney ==
  ASSUME IInv, NEW c \in Caller, Calling(c)
  PROVE  AskingInv' /\ ChargingInv' /\ AnswerInv' /\ KeptInv'
<1> DEFINE n == caller[c].n
<1>0. /\ TypeOK /\ caller \in [Caller -> CallerRow] /\ current \in Nat
      /\ \A m \in Attempt : m \in Nat /\ (m < current \/ m = current \/ m > current)
      /\ Busy(c) => n \in Attempt /\ n <= current
      /\ \A d \in Caller : Busy(d) => caller[d].n \in Nat /\ caller[d].n <= current
  BY TypeParts, ProcessingAssumption DEF IInv, TypeOK, Numbered, Attempt, Busy, ProcessingAssumption
<1>1. UNCHANGED <<event, evidence, worker, settled>>
  BY DEF Calling, Prepare, CreateAttempt, RefuseAttempt, AskProvider, RecordRequest, FailToRecord,
         RecordUnknown, CrashCaller, attempts, inbox
\* A caller that keeps its attempt, or drops it, is told apart from the others as before.
<1>2. ASSUME NEW to, CallerGoes(c, to, n) \/ (CallerGoes(c, to, 0) /\ to \in {"idle", "send"}),
             to # "ask", to = "refused" => caller[c].at = "ask", to \notin {"idle", "send"} => Busy(c),
             UNCHANGED <<provider, current>>, Chargeable' => Chargeable \/ (n = current /\ Busy(c))
      PROVE  AskingInv'
  <2>1. /\ caller'[c].at = to /\ (to \in {"idle", "send"} \/ caller'[c].n = n)
        /\ \A d \in Caller \ {c} : caller'[d] = caller[d]
    BY <1>0, <1>2 DEF CallerGoes
  <2>2. \A d \in Caller \ {c} : caller[d].at = "ask" => ~Chargeable'
    BY <1>2 DEF IInv, AskingInv, Busy
  <2>3. \A d, e \in Caller : d # e /\ Busy(d)' /\ Busy(e)' => caller'[d].n # caller'[e].n
    BY <1>2, <2>1 DEF IInv, AskingInv, Busy
  <2>4. \A d \in Caller : caller'[d].at = "ask" =>
          caller'[d].n = current' /\ provider'[caller'[d].n] = "unasked" /\ ~Chargeable'
    BY <1>2, <2>1, <2>2 DEF IInv, AskingInv
  <2>5. \A d \in Caller : caller'[d].at = "refused" => provider'[caller'[d].n] = "unasked"
    BY <1>2, <2>1 DEF IInv, AskingInv
  <2> QED BY <2>3, <2>4, <2>5 DEF AskingInv
<1>3. ASSUME UNCHANGED <<provider, current>>,
             Chargeable' => Chargeable \/ (n = current /\ n \in Attempt /\ provider[n] = "unasked")
      PROVE  ChargingInv' /\ AnswerInv' /\ KeptInv'
  <2>1. ChargeableMeansUnpaid'
    BY <1>0, <1>3 DEF IInv, ChargingInv, ChargeableMeansUnpaid, Safe
  <2>2. AnswerInv' /\ KeptInv'
    BY <1>1, <1>3, AnswersStay
  <2> QED BY <1>3, <2>1, <2>2 DEF IInv, ChargingInv, Safe
<1>4. CASE Prepare(c)
  BY <1>2, <1>3, <1>4 DEF Prepare, checkout, Chargeable
<1>5. CASE CreateAttempt(c)
  <2>1. /\ current' = current + 1 /\ UNCHANGED <<provider, worker>> /\ ~Chargeable'
        /\ ChargeableMeansUnpaid /\ Chargeable /\ current + 1 \in Attempt
    BY <1>0, <1>5, ProcessingAssumption DEF CreateAttempt, Chargeable, IInv, ChargingInv, Attempt, ProcessingAssumption
  <2>2. /\ caller'[c].at = "ask" /\ caller'[c].n = current + 1
        /\ \A d \in Caller \ {c} : caller'[d] = caller[d]
    BY <1>0, <1>5 DEF CreateAttempt, CallerGoes
  <2>3. provider[current + 1] = "unasked"
    BY <1>0, <2>1 DEF IInv, ChargingInv
  <2>4. \A d \in Caller \ {c} : caller[d].at # "ask" /\ (Busy(d) => caller[d].n # current + 1)
    BY <1>0, <2>1 DEF IInv, AskingInv
  <2>5. AskingInv'
    BY <2>1, <2>2, <2>3, <2>4 DEF IInv, AskingInv, Busy
  <2>6. ChargingInv'
    BY <1>0, <2>1 DEF IInv, ChargingInv, ChargeableMeansUnpaid, Safe
  <2>7. AnswerInv' /\ KeptInv'
    BY <1>1, <2>1, AnswersStay
  <2> QED BY <2>5, <2>6, <2>7
<1>6. CASE RefuseAttempt(c)
  BY <1>2, <1>3, <1>6 DEF RefuseAttempt, checkout, Chargeable
<1>7. CASE AskProvider(c)
  <2>1. /\ Busy(c) /\ n = current /\ provider[n] = "unasked" /\ ~Chargeable
        /\ UNCHANGED <<checkout, worker>> /\ ~Chargeable' /\ current' = current
    BY <1>7 DEF AskProvider, Busy, IInv, AskingInv, checkout, Chargeable
  <2>2. CASE UNCHANGED provider
    <3>1. PICK to \in {"refused", "unclear", "unknown", "accepted"} : CallerGoes(c, to, n)
      BY <1>7 DEF AskProvider
    <3> QED BY <1>2, <1>3, <1>7, <2>1, <2>2, <3>1 DEF AskProvider
  <2>3. CASE provider' = [provider EXCEPT ![n] = "asked"] /\ \E to \in {"accepted", "unclear", "unknown"} : CallerGoes(c, to, n)
    <3>1. PICK to \in {"accepted", "unclear", "unknown"} : CallerGoes(c, to, n)
      BY <2>3
    <3>2. /\ caller'[c].at = to /\ caller'[c].n = n
          /\ \A d \in Caller \ {c} : caller'[d] = caller[d]
      BY <1>0, <3>1 DEF CallerGoes
    <3>3. \A m : m # n => provider'[m] = provider[m]
      BY <1>0, <2>1, <2>3 DEF TypeOK
    <3>4. \A d \in Caller \ {c} : caller[d].at # "ask" /\ (Busy(d) => caller[d].n # n)
      BY <2>1 DEF IInv, AskingInv, Busy
    <3>5. AskingInv'
      BY <2>1, <3>2, <3>3, <3>4 DEF IInv, AskingInv, Busy
    <3>6. ChargingInv'
      BY <1>0, <2>1, <3>3 DEF IInv, ChargingInv, ChargeableMeansUnpaid, Safe
    <3>7. \A m \in Attempt : Answered(m) => provider'[m] = provider[m]
      BY <2>1, <3>3 DEF Answered
    <3> QED BY <1>1, <3>5, <3>6, <3>7, AnswersStay
  <2> QED BY <1>7, <2>2, <2>3 DEF AskProvider
<1>8. ASSUME NEW knows \in BOOLEAN, RecordRequest(c, knows)
      PROVE  AskingInv' /\ ChargingInv' /\ AnswerInv' /\ KeptInv'
  <2>1. /\ Busy(c) /\ n = current /\ CallerGoes(c, "idle", 0) /\ UNCHANGED <<provider, current>>
        /\ Chargeable' => caller[c].at = "refused"
    BY <1>8 DEF RecordRequest, Busy, Chargeable
  <2>2. Chargeable' => n \in Attempt /\ provider[n] = "unasked"
    BY <1>0, <2>1 DEF IInv, AskingInv
  <2> QED BY <1>2, <1>3, <2>1, <2>2
<1>9. CASE FailToRecord(c)
  <2>1. Busy(c) /\ CallerGoes(c, "unknown", n) /\ UNCHANGED <<provider, current, intent>>
    BY <1>9 DEF FailToRecord, Busy, checkout
  <2> QED BY <1>2, <1>3, <2>1 DEF Chargeable
<1>10. CASE RecordUnknown(c)
  <2>1. CallerGoes(c, "idle", 0) /\ UNCHANGED <<provider, current>> /\ (Chargeable' => Chargeable)
    BY <1>10 DEF RecordUnknown, Chargeable
  <2> QED BY <1>2, <1>3, <2>1
<1>11. CASE CrashCaller(c)
  <2>1. CallerGoes(c, "idle", 0) /\ UNCHANGED <<provider, current, intent>>
    BY <1>11 DEF CrashCaller, checkout
  <2> QED BY <1>2, <1>3, <2>1 DEF Chargeable
<1> QED BY <1>4, <1>5, <1>6, <1>7, <1>8, <1>9, <1>10, <1>11 DEF Calling

\* What a worker's row says allows it to write, and what it writes is kept.
LEMMA WorkingKeepsMoney ==
  ASSUME IInv, NEW w \in Worker, Working(w) \/ Failing(w)
  PROVE  AskingInv' /\ ChargingInv' /\ AnswerInv' /\ KeptInv'
<1> DEFINE n == worker[w].n
<1>0. /\ TypeOK
      /\ worker[w].at \notin {"idle", "events"} => n \in Attempt
      /\ worker[w].at \in {"settle", "unclear", "finish", "retry"} => Answered(n)
      /\ worker[w].at = "queryEnd" => provider[n] = "declined"
      /\ worker[w].at = "finish" /\ provider[n] = "paid" => n \in settled
      /\ "idle" \notin {"settle", "unclear", "finish", "retry", "queryEnd"}
  BY DEF IInv, Numbered, AnswerInv
\* Steps that leave the events' statuses, the evidence and the collections alone.
<1>1. ASSUME UNCHANGED <<provider, caller, current, evidence, event>>, settled \subseteq settled',
             Chargeable' => Chargeable \/ (current \in Attempt /\ provider[current] = "declined"),
             AnswerInv'
      PROVE  AskingInv' /\ ChargingInv' /\ AnswerInv' /\ KeptInv'
  BY <1>1, IntentMoves, KeptStays
<1>2. ASSUME UNCHANGED <<provider, event>>, settled \subseteq settled', worker' = [worker EXCEPT ![w] = Resting]
      PROVE  AnswerInv'
  BY <1>0, <1>2, RestingRow, WorkerShapes, AnswersHold
<1>3. CASE ClaimEvents(w)
  <2>1. \A m \in Attempt : /\ event'[m] # "none" => event[m] # "none"
                           /\ event'[m] = "processed" => event[m] = "processed"
    BY <1>3 DEF ClaimEvents, Claimable
  <2>2. worker' = [worker EXCEPT ![w] = [at |-> "events", todo |-> Claimable, n |-> 0]]
        /\ UNCHANGED <<provider, caller, current, evidence, settled, intent>>
    BY <1>3 DEF ClaimEvents, checkout, attempts
  <2>3. worker'[w].at = "events" /\ \A v \in Worker \ {w} : worker'[v] = worker[v]
    BY <1>0, <2>2 DEF TypeOK
  <2>4. AnswerInv' /\ KeptInv'
    BY <2>1, <2>2, <2>3, AnswersHold, KeptStays
  <2> QED BY <2>2, <2>4, IntentMoves DEF Chargeable
<1>4. ASSUME NEW m \in Attempt, TakeEvent(w, m)
      PROVE  AskingInv' /\ ChargingInv' /\ AnswerInv' /\ KeptInv'
  <2>1. UNCHANGED <<provider, caller, event, evidence>>
    BY <1>4 DEF TakeEvent, inbox
  <2>2. CASE /\ provider[m] = "declined" /\ WorkerTakes(w, "finish", m)
             /\ FinalizeTerminal(m) \/ RecordQueryPending(m)
    <3>1. /\ UNCHANGED <<current, settled>>
          /\ Chargeable' => Chargeable \/ (current \in Attempt /\ provider[current] = "declined")
      <4>1. CASE FinalizeTerminal(m)
        BY <1>0, <2>2, <4>1, TerminalEffect
      <4>2. CASE RecordQueryPending(m)
        BY <1>0, <4>2, QueryPendingEffect
      <4> QED BY <2>2, <4>1, <4>2
    <3>2. AnswerInv'
      BY <1>0, <2>1, <2>2, <3>1, WorkerShapes, AnswersHold DEF Answered
    <3> QED BY <1>1, <2>1, <3>1, <3>2
  <2>3. ASSUME NEW to \in {"settle", "unclear", "retry"}, provider[m] = "paid",
               UNCHANGED <<checkout, attempts>>, WorkerTakes(w, to, m)
        PROVE  AskingInv' /\ ChargingInv' /\ AnswerInv' /\ KeptInv'
    <3>1. UNCHANGED <<current, settled, intent>>
      BY <2>3 DEF checkout, attempts
    <3>2. worker'[w].at = to /\ worker'[w].n = m /\ \A v \in Worker \ {w} : worker'[v] = worker[v]
      BY <1>0, <2>3, WorkerShapes
    <3>3. AnswerInv'
      BY <2>1, <2>3, <3>1, <3>2, AnswersHold DEF Answered
    <3> QED BY <1>1, <2>1, <3>1, <3>3 DEF Chargeable
  <2> QED BY <1>4, <2>2, <2>3 DEF TakeEvent
<1>5. CASE SettleEvent(w)
  <2>1. /\ WorkerGoes(w, "finish") /\ FinalizeSuccess(n) /\ Answered(n) /\ n \in Attempt
        /\ UNCHANGED <<provider, caller, event, evidence>>
    BY <1>0, <1>5 DEF SettleEvent, inbox
  <2>2. UNCHANGED current /\ settled' = settled \union {n} /\ (Chargeable' => Chargeable)
    BY <1>0, <2>1, SuccessEffect
  <2>3. AnswerInv'
    BY <1>0, <2>1, <2>2, WorkerShapes, AnswersHold
  <2> QED BY <1>1, <2>1, <2>2, <2>3
<1>6. CASE PostponeEvent(w)
  <2>1. /\ WorkerGoes(w, "retry") /\ RecordQueryPending(n) /\ Answered(n) /\ n \in Attempt
        /\ UNCHANGED <<provider, caller, event, evidence>>
    BY <1>0, <1>6 DEF PostponeEvent, inbox
  <2>2. UNCHANGED <<current, settled>> /\ (Chargeable' => Chargeable)
    BY <1>0, <2>1, QueryPendingEffect
  <2>3. AnswerInv'
    BY <1>0, <2>1, <2>2, WorkerShapes, AnswersHold
  <2> QED BY <1>1, <2>1, <2>2, <2>3
<1>7. CASE FinishEvent(w)
  <2>1. /\ worker[w].at = "finish" /\ NextEvent(w)
        /\ UNCHANGED <<provider, caller, current, settled, intent>>
        /\ \/ /\ event[n] = "processing" /\ event' = [event EXCEPT ![n] = "processed"]
              /\ evidence' = IF provider[n] = "paid" THEN evidence \union {n} ELSE evidence
           \/ UNCHANGED <<event, evidence>>
    BY <1>7 DEF FinishEvent, checkout, attempts
  <2>2. \A m \in Attempt : event'[m] # "none" => event[m] # "none"
    BY <1>0, <2>1 DEF TypeOK
  <2>3. AnswerInv'
    BY <1>0, <2>1, <2>2, WorkerShapes, AnswersHold
  <2>4. KeptInv'
    BY <1>0, <2>1 DEF IInv, KeptInv, ProcessedMoneyIsKept, TypeOK
  <2> QED BY <2>1, <2>3, <2>4, IntentMoves DEF Chargeable
<1>8. CASE RetryEvent(w)
  <2>1. /\ worker[w].at = "retry" /\ NextEvent(w) /\ n \in Attempt
        /\ UNCHANGED <<provider, caller, current, settled, intent, evidence>>
        /\ \E s \in {"retry", "manual_review"} : event' = [event EXCEPT ![n] = s]
    BY <1>0, <1>8 DEF RetryEvent, checkout, attempts
  <2>2. event[n] # "none" \/ Answered(n)
    BY <1>0, <2>1
  <2>3. \A m \in Attempt : event'[m] = "processed" => event[m] = "processed"
    BY <1>0, <2>1 DEF TypeOK
  <2>4. \A m \in Attempt : event'[m] # "none" => Answered(m)
    BY <1>0, <2>1 DEF TypeOK, IInv, AnswerInv
  <2>5. worker'[w].at = "events" /\ \A v \in Worker \ {w} : worker'[v] = worker[v]
    BY <1>0, <2>1, WorkerShapes
  <2>6. AnswerInv'
    BY <2>1, <2>4, <2>5 DEF IInv, AnswerInv, Answered
  <2>7. KeptInv'
    BY <2>1, <2>3, KeptStays
  <2> QED BY <2>1, <2>6, <2>7, IntentMoves DEF Chargeable
<1>9. CASE ClaimQuery(w)
  <2>1. UNCHANGED <<provider, caller, current, evidence, event, settled, intent>>
    BY <1>9 DEF ClaimQuery, checkout, inbox
  <2>2. worker' = [worker EXCEPT ![w] = Resting] \/ \E m \in Attempt : WorkerTakes(w, "query", m)
    BY <1>9, ProcessingAssumption DEF ClaimQuery, WorkerTakes, Queryable, IInv, TypeOK, Attempt, ProcessingAssumption
  <2>3. AnswerInv'
    BY <1>0, <1>2, <2>1, <2>2, WorkerShapes, AnswersHold
  <2> QED BY <1>1, <2>1, <2>3 DEF Chargeable
<1>10. CASE Query(w)
  <2>1. /\ UNCHANGED <<provider, caller, current, evidence, event, settled, intent>>
        /\ \/ WorkerGoes(w, "querySettle") \/ WorkerGoes(w, "queryUnclear")
           \/ WorkerGoes(w, "queryEnd") /\ provider[n] = "declined"
    BY <1>10 DEF Query, checkout, attempts, inbox
  <2>2. AnswerInv'
    BY <1>0, <2>1, WorkerShapes, AnswersHold
  <2> QED BY <1>1, <2>1, <2>2 DEF Chargeable
<1>11. CASE RecordQuery(w)
  <2>1. /\ worker' = [worker EXCEPT ![w] = Resting] /\ UNCHANGED <<provider, caller, evidence, event>>
        /\ n \in Attempt
        /\ \/ FinalizeSuccess(n) \/ RecordQueryPending(n)
           \/ FinalizeTerminal(n) /\ provider[n] = "declined"
    BY <1>0, <1>11 DEF RecordQuery, inbox
  <2>2. /\ UNCHANGED current /\ settled \subseteq settled'
        /\ Chargeable' => Chargeable \/ (current \in Attempt /\ provider[current] = "declined")
    <3>1. CASE FinalizeSuccess(n)
      BY <1>0, <2>1, <3>1, SuccessEffect
    <3>2. CASE RecordQueryPending(n)
      BY <1>0, <2>1, <3>2, QueryPendingEffect
    <3>3. CASE FinalizeTerminal(n) /\ provider[n] = "declined"
      BY <1>0, <2>1, <3>3, TerminalEffect
    <3> QED BY <2>1, <3>1, <3>2, <3>3
  <2> QED BY <1>1, <1>2, <2>1, <2>2
<1>12. CASE FailCall(w)
  <2>1. /\ UNCHANGED <<provider, caller, current, evidence, event, settled, intent>>
        /\ \/ worker' = [worker EXCEPT ![w] = Resting]
           \/ worker[w].at \in {"settle", "unclear", "finish"} /\ WorkerGoes(w, "retry")
           \/ \E m \in worker[w].todo : provider[m] = "declined" /\ WorkerTakes(w, "retry", m)
    BY <1>12 DEF FailCall, checkout, attempts, inbox
  <2>2. CASE worker' = [worker EXCEPT ![w] = Resting]
    BY <1>1, <1>2, <2>1, <2>2 DEF Chargeable
  <2>3. CASE worker[w].at \in {"settle", "unclear", "finish"} /\ WorkerGoes(w, "retry")
    <3>1. AnswerInv'
      BY <1>0, <2>1, <2>3, WorkerShapes, AnswersHold
    <3> QED BY <1>1, <2>1, <3>1 DEF Chargeable
  <2>4. ASSUME NEW m \in worker[w].todo, provider[m] = "declined", WorkerTakes(w, "retry", m)
        PROVE  AskingInv' /\ ChargingInv' /\ AnswerInv' /\ KeptInv'
    <3>1. AnswerInv'
      BY <1>0, <2>1, <2>4, WorkerShapes, AnswersHold DEF Answered
    <3> QED BY <1>1, <2>1, <3>1 DEF Chargeable
  <2> QED BY <2>1, <2>2, <2>3, <2>4
<1>13. CASE CrashWorker(w)
  <2>1. UNCHANGED <<provider, caller, current, evidence, event, settled, intent>>
        /\ worker' = [worker EXCEPT ![w] = Resting]
    BY <1>13 DEF CrashWorker, checkout, attempts, inbox
  <2> QED BY <1>1, <1>2, <2>1 DEF Chargeable
<1> QED BY <1>3, <1>4, <1>5, <1>6, <1>7, <1>8, <1>9, <1>10, <1>11, <1>12, <1>13 DEF Working, Failing

\* Safaricom decides open prompts only; the rest writes no money and opens no intent.
LEMMA OthersKeepMoney ==
  ASSUME IInv,
         \/ \E n \in Attempt :
              \/ \E result \in {"paid", "declined"} : Decide(n, result)
              \/ Deliver(n) \/ Passing(n) \/ Reviewing(n)
         \/ Sweep
  PROVE  AskingInv' /\ ChargingInv' /\ AnswerInv' /\ KeptInv'
<1>0. TypeOK
  BY DEF IInv
<1>1. ASSUME UNCHANGED <<provider, caller, current, worker, settled, evidence>>, Chargeable' => Chargeable,
             \A m \in Attempt : /\ event'[m] # "none" => Answered(m)
                                /\ event'[m] = "processed" => event[m] = "processed" \/ m \in evidence
      PROVE  AskingInv' /\ ChargingInv' /\ AnswerInv' /\ KeptInv'
  <2>1. AnswerInv'
    BY <1>1 DEF IInv, AnswerInv, Answered
  <2> QED BY <1>1, <2>1, IntentMoves, KeptStays
<1>2. ASSUME NEW n \in Attempt, NEW result \in {"paid", "declined"}, Decide(n, result)
      PROVE  AskingInv' /\ ChargingInv' /\ AnswerInv' /\ KeptInv'
  <2>1. /\ provider[n] = "asked" /\ provider'[n] = result
        /\ \A m \in Attempt \ {n} : provider'[m] = provider[m]
        /\ UNCHANGED <<intent, current, event, evidence, worker, settled, caller>>
    BY <1>0, <1>2 DEF Decide, TypeOK, checkout, attempts, inbox
  <2>2. ~Chargeable /\ ~Chargeable'
    BY <2>1 DEF IInv, ChargingInv, ChargeableMeansUnpaid, Chargeable
  <2>3. \A c \in Caller : Busy(c) => caller[c].n \in Attempt
    BY <1>0, ProcessingAssumption DEF IInv, Numbered, Busy, Attempt, TypeOK, ProcessingAssumption
  <2>4. AskingInv'
    BY <2>1, <2>2, <2>3 DEF IInv, AskingInv, Busy
  <2>5. ChargingInv'
    BY <2>1, <2>2 DEF IInv, ChargingInv, ChargeableMeansUnpaid, Safe
  <2>6. \A m \in Attempt : Answered(m) => provider'[m] = provider[m]
    BY <2>1 DEF Answered
  <2> QED BY <2>1, <2>4, <2>5, <2>6, AnswersStay
<1>3. ASSUME NEW n \in Attempt, Deliver(n) PROVE AskingInv' /\ ChargingInv' /\ AnswerInv' /\ KeptInv'
  BY <1>0, <1>1, <1>3 DEF Deliver, Chargeable, IInv, AnswerInv, Answered, TypeOK
<1>4. ASSUME NEW n \in Attempt, Passing(n) PROVE AskingInv' /\ ChargingInv' /\ AnswerInv' /\ KeptInv'
  BY <1>1, <1>4 DEF Passing, AgeAttempt, AgeEvent, ExpireLease, ExpireQueryLease, Chargeable, IInv, AnswerInv,
                    checkout, attempts, inbox
<1>5. ASSUME NEW n \in Attempt, Reviewing(n) PROVE AskingInv' /\ ChargingInv' /\ AnswerInv' /\ KeptInv'
  BY <1>0, <1>1, <1>5 DEF Reviewing, Acknowledge, Dismiss, ReviewRetry, Chargeable, IInv, AnswerInv, TypeOK,
                          checkout, attempts
<1>6. ASSUME Sweep PROVE AskingInv' /\ ChargingInv' /\ AnswerInv' /\ KeptInv'
  BY <1>1, <1>6 DEF Sweep, Chargeable, IInv, AnswerInv, inbox
<1> QED BY <1>2, <1>3, <1>4, <1>5, <1>6

LEMMA MoneyInit == Init => IInv
<1> SUFFICES ASSUME Init PROVE IInv
  OBVIOUS
<1>1. TypeOK /\ Numbered
  BY TypeInit
<1>2. AskingInv /\ AnswerInv
  BY RestingRow DEF Init, AskingInv, AnswerInv, Busy, Idle
<1>3. ChargingInv /\ KeptInv
  BY DEF Init, ChargingInv, ChargeableMeansUnpaid, Safe, KeptInv, ProcessedMoneyIsKept
<1> QED BY <1>1, <1>2, <1>3 DEF IInv

LEMMA MoneyStep == IInv /\ [Next]_vars => IInv'
<1> SUFFICES ASSUME IInv, [Next]_vars PROVE IInv'
  OBVIOUS
<1>1. TypeOK' /\ Numbered'
  BY TypeStep DEF IInv
<1>2. CASE UNCHANGED vars
  BY <1>1, <1>2 DEF vars, checkout, attempts, inbox, IInv, AskingInv, ChargingInv, AnswerInv, KeptInv,
       Busy, Safe, Answered, Chargeable, ChargeableMeansUnpaid, ProcessedMoneyIsKept
<1>3. CASE Next
  <2>1. AskingInv' /\ ChargingInv' /\ AnswerInv' /\ KeptInv'
    BY <1>3, CallingKeepsMoney, WorkingKeepsMoney, OthersKeepMoney DEF Next
  <2> QED BY <1>1, <2>1 DEF IInv
<1> QED BY <1>2, <1>3

\* However many invocations, workers, late answers and crashes there are, an intent is
\* chargeable only when no prompt of it was paid or can still be (0119:970).
THEOREM ChargedOnce == Spec => []ChargeableMeansUnpaid
<1>1. IInv => ChargeableMeansUnpaid
  BY DEF IInv, ChargingInv
<1> QED BY <1>1, MoneyInit, MoneyStep, PTL DEF Spec

\* However many workers overlap on it, the callback of a payment is put away as
\* processed only after its money is a collection (mpesa-process:131).
THEOREM CallbackMoneyIsKept == Spec => []ProcessedMoneyIsKept
<1>1. IInv => ProcessedMoneyIsKept
  BY DEF IInv, KeptInv
<1> QED BY <1>1, MoneyInit, MoneyStep, PTL DEF Spec
=============================================================================
