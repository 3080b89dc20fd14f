---------------------- MODULE NotificationOutboxProofs ----------------------
(***************************************************************************)
(* Theorems about NotificationOutbox, for every number of messages,         *)
(* overlapping flushes, attempts and faults.                                *)
(***************************************************************************)
EXTENDS NotificationOutbox, FiniteSetTheorems, TLAPS

FlushRow == [at : At, found : SUBSET Row, mine : SUBSET Row, row : SUBSET Row, read : [Row -> Nat]]

\* The types, without the bounds that the faults put on the attempts.
Shape ==
  /\ status \in [Row -> Status] /\ attempts \in [Row -> Nat] /\ due \subseteq Row
  /\ quota \in [Row -> {"none", "reserved", "used", "released"}]
  /\ worker \in [Worker -> FlushRow]

\* What a flush knows of its current row.
Stage ==
  \A w \in Worker :
    /\ \A r, s \in worker[w].row : r = s
    /\ worker[w].at = "reconcile" => \A r \in worker[w].row : r[2] = "sms"
    /\ worker[w].at = "fallback" => \A r \in worker[w].row : r[2] = "whatsapp" /\ status[r] = "failed"

LEMMA RowParts ==
  /\ \A r \in Row : r = <<r[1], r[2]>> /\ r[1] \in Message /\ r[2] \in {"whatsapp", "sms"}
  /\ \A r \in Row : Fallback(r) \in Row /\ Fallback(r)[2] = "sms" /\ Fallback(r)[1] = r[1]
  /\ \A m \in Message : <<m, "whatsapp">> \in Row /\ <<m, "whatsapp">>[2] = "whatsapp"
BY DEF Row, Fallback

(***************************************************************************)
(* What a step does to the statuses.                                        *)
(***************************************************************************)
Final == {"sent", "failed", "cancelled"}

\* No step changes a status that is final.
LEMMA StatusStep ==
  ASSUME Shape, [Next]_vars
  PROVE  \A r \in Row : status[r] \in Final => status'[r] = status[r]
<1>1. CASE UNCHANGED status
  BY <1>1
<1>2. ASSUME NEW m \in Message, Enqueue(m) PROVE \A r \in Row : status[r] \in Final => status'[r] = status[r]
  BY <1>2, RowParts DEF Enqueue, Shape, Final
<1>3. ASSUME NEW R \in SUBSET Row, Cancel(R), \A r \in R : status[r] = "pending"
      PROVE  \A r \in Row : status[r] \in Final => status'[r] = status[r]
  BY <1>3 DEF Cancel, Shape, Final
<1>4. ASSUME NEW m \in Message, OptOut(m) PROVE \A r \in Row : status[r] \in Final => status'[r] = status[r]
  BY <1>3, <1>4 DEF OptOut
<1>5. CASE SwitchOff
  BY <1>3, <1>5 DEF SwitchOff
<1>6. ASSUME NEW w \in Worker, NEW q \in Row, Prepare(w, q)
      PROVE  \A r \in Row : status[r] \in Final => status'[r] = status[r]
  BY <1>6 DEF Prepare, Shape, Final
<1>7. ASSUME NEW w \in Worker, Record(w) \/ LoseAnswer(w)
      PROVE  \A r \in Row : status[r] \in Final => status'[r] = status[r]
  BY <1>7 DEF Record, Closed, LoseAnswer, Shape, Final
<1>8. ASSUME NEW w \in Worker, QueueFallback(w)
      PROVE  \A r \in Row : status[r] \in Final => status'[r] = status[r]
  BY <1>8 DEF QueueFallback, Refused, Shape, Final
<1>9. ASSUME NEW w \in Worker, Select(w) \/ Finish(w) \/ Reconcile(w) \/ Send(w) \/ Conclude(w)
                               \/ (\E r \in Row : Claim(w, r)) \/ FailCall(w) \/ Crash(w)
      PROVE  UNCHANGED status
  BY <1>9 DEF Select, Finish, Reconcile, Send, Conclude, Claim, FailCall, Crash, rows
<1>10. ASSUME NEW q \in Row, ComeDue(q) \/ Overrun(q) PROVE UNCHANGED status
  BY <1>10 DEF ComeDue, Overrun
<1>11. UNCHANGED vars => UNCHANGED status
  BY DEF vars, rows
<1> QED BY <1>1, <1>2, <1>4, <1>5, <1>6, <1>7, <1>8, <1>9, <1>10, <1>11 DEF Next, Flush

(***************************************************************************)
(* Types and stages.                                                        *)
(***************************************************************************)
\* What must hold of the row a flush moves to.
Fits(row) ==
  /\ \A r, s \in row.row : r = s
  /\ row.at = "reconcile" => \A r \in row.row : r[2] = "sms"
  /\ row.at = "fallback" => \A r \in row.row : r[2] = "whatsapp" /\ status'[r] = "failed"

\* One flush moves to a row of the right type, at a stage where what it knows holds.
LEMMA FlushMoves ==
  ASSUME Shape, Stage, NEW w \in Worker, NEW row \in FlushRow,
         worker' = [worker EXCEPT ![w] = row],
         \A r \in Row : status[r] \in Final => status'[r] = status[r],
         Fits(row)
  PROVE  worker' \in [Worker -> FlushRow] /\ Stage'
<1>1. /\ worker' \in [Worker -> FlushRow] /\ worker'[w] = row
      /\ \A v \in Worker \ {w} : worker'[v] = worker[v]
  BY DEF Shape
<1>2. \A v \in Worker : \A r \in worker[v].row : r \in Row /\ (status[r] = "failed" => status'[r] = "failed")
  BY DEF Shape, FlushRow, Final
<1>3. Stage'
  BY <1>1, <1>2 DEF Stage, Fits
<1> QED BY <1>1, <1>3

\* The forms in which the actions write it.
LEMMA FlushForms ==
  ASSUME Shape, NEW w \in Worker
  PROVE  /\ Nobody \in FlushRow
         /\ \A to \in At : [worker[w] EXCEPT !.at = to] \in FlushRow
         /\ \A to \in At : Goes(w, to) <=> worker' = [worker EXCEPT ![w] = [worker[w] EXCEPT !.at = to]]
         /\ \E row \in FlushRow : /\ Turns(w) => worker' = [worker EXCEPT ![w] = row]
                                  /\ row.at = "turn" /\ row.row = {}
<1>1. worker[w] \in FlushRow /\ worker \in [Worker -> FlushRow]
  BY DEF Shape
<1>2. Nobody \in FlushRow
  BY DEF Nobody, FlushRow, At
<1>3. \A to \in At : [worker[w] EXCEPT !.at = to] \in FlushRow
  BY <1>1 DEF FlushRow
<1>4. \A to \in At : Goes(w, to) <=> worker' = [worker EXCEPT ![w] = [worker[w] EXCEPT !.at = to]]
  BY <1>1 DEF Goes, FlushRow
<1>5. \E row \in FlushRow : /\ Turns(w) => worker' = [worker EXCEPT ![w] = row]
                            /\ row.at = "turn" /\ row.row = {}
  <2> DEFINE new == [worker[w] EXCEPT !.at = "turn", !.row = {},
                       !.read = [r \in Row |-> IF r \in worker[w].row THEN 0 ELSE @[r]]]
  <2>1. new \in FlushRow /\ new.at = "turn" /\ new.row = {}
    BY <1>1 DEF FlushRow, At
  <2>2. Turns(w) => worker' = [worker EXCEPT ![w] = new]
    BY <1>1 DEF Turns, FlushRow
  <2> QED BY <2>1, <2>2
<1> QED BY <1>2, <1>3, <1>4, <1>5

LEMMA FlushKeepsShape ==
  ASSUME Shape, Stage, NEW w \in Worker, Flush(w),
         \A r \in Row : status[r] \in Final => status'[r] = status[r]
  PROVE  Shape' /\ Stage'
<1> DEFINE old == worker[w]
<1>0. old \in FlushRow /\ worker \in [Worker -> FlushRow] /\ old.row \subseteq Row /\ old.at \in At
  BY DEF Shape, FlushRow
<1>a. /\ \A r, s \in old.row : r = s
      /\ old.at = "reconcile" => \A r \in old.row : r[2] = "sms"
  BY DEF Stage
<1>1. ASSUME NEW to \in At \ {"reconcile", "fallback"}, Goes(w, to)
      PROVE  worker' \in [Worker -> FlushRow] /\ Stage'
  <2>1. [old EXCEPT !.at = to] \in FlushRow /\ worker' = [worker EXCEPT ![w] = [old EXCEPT !.at = to]]
    BY <1>1, FlushForms
  <2>2. [old EXCEPT !.at = to].at = to /\ [old EXCEPT !.at = to].row = old.row
    BY <1>0 DEF FlushRow
  <2>3. Fits([old EXCEPT !.at = to])
    BY <1>a, <2>2 DEF Fits
  <2> QED BY <2>1, <2>3, FlushMoves
<1>2. ASSUME Turns(w) PROVE worker' \in [Worker -> FlushRow] /\ Stage'
  <2>1. PICK row \in FlushRow : worker' = [worker EXCEPT ![w] = row] /\ row.at = "turn" /\ row.row = {}
    BY <1>2, FlushForms
  <2>2. Fits(row)
    BY <2>1 DEF Fits
  <2> QED BY <2>1, <2>2, FlushMoves
<1>3. CASE Select(w)
  <2> DEFINE new == [Nobody EXCEPT !.at = "turn", !.found = Sendable,
                       !.read = [r \in Row |-> IF r \in Sendable THEN attempts[r] ELSE 0]]
  <2>0. Sendable \subseteq Row
    BY DEF Sendable, Shape
  <2>1. new \in FlushRow /\ new.at = "turn" /\ new.row = {}
    BY <2>0 DEF Nobody, FlushRow, At, Shape
  <2>2. worker' = [worker EXCEPT ![w] = new] /\ UNCHANGED <<status, attempts, due, quota>>
    BY <1>3 DEF Select, rows
  <2>3. worker' \in [Worker -> FlushRow] /\ Stage'
    BY <2>1, <2>2, FlushMoves DEF Fits
  <2> QED BY <2>2, <2>3 DEF Shape
<1>4. CASE Finish(w)
  <2>1. worker' = [worker EXCEPT ![w] = Nobody] /\ UNCHANGED <<status, attempts, due, quota>>
    BY <1>4 DEF Finish, rows
  <2>2. Nobody \in FlushRow /\ Nobody.at = "idle" /\ Nobody.row = {}
    BY FlushForms DEF Nobody
  <2>3. worker' \in [Worker -> FlushRow] /\ Stage'
    BY <2>1, <2>2, FlushMoves DEF Fits
  <2> QED BY <2>1, <2>3 DEF Shape
<1>5. CASE Reconcile(w)
  <2>1. \E to \in {"send", "rejected", "deferred"} : Goes(w, to)
    BY <1>5 DEF Reconcile
  <2>2. UNCHANGED <<status, attempts, due>> /\ quota' \in [Row -> {"none", "reserved", "used", "released"}]
    BY <1>5 DEF Reconcile, Shape
  <2>3. worker' \in [Worker -> FlushRow] /\ Stage'
    BY <1>1, <2>1 DEF At
  <2> QED BY <2>2, <2>3 DEF Shape
<1>6. CASE Send(w)
  <2>1. \E to \in {"unclear", "accepted", "rejected", "deferred"} : Goes(w, to)
    BY <1>6 DEF Send
  <2>2. UNCHANGED <<status, attempts, due, quota>>
    BY <1>6 DEF Send, rows
  <2>3. worker' \in [Worker -> FlushRow] /\ Stage'
    BY <1>1, <2>1 DEF At
  <2> QED BY <2>2, <2>3 DEF Shape
<1>7. CASE Conclude(w)
  <2>1. PICK r \in old.row : Goes(w, Verdict(w, r)) /\ old.at \in {"exhausted", "accepted", "rejected", "deferred", "unclear"}
    BY <1>7 DEF Conclude
  <2>2. Verdict(w, r) \in {"sent", "fail", "retry"}
    BY <2>1 DEF Verdict
  <2>3. UNCHANGED <<status, attempts, due>> /\ quota' \in [Row -> {"none", "reserved", "used", "released"}]
    BY <1>7 DEF Conclude, Finalize, KeepQuota, Shape
  <2>4. worker' \in [Worker -> FlushRow] /\ Stage'
    BY <1>1, <2>1, <2>2 DEF At
  <2> QED BY <2>3, <2>4 DEF Shape
<1>8. CASE Record(w)
  <2>1. PICK r \in old.row :
          /\ old.at \in {"sent", "fail", "retry"}
          /\ \/ Turns(w) /\ UNCHANGED <<status, attempts>>
             \/ /\ status' = [status EXCEPT ![r] =
                      CASE old.at = "sent" -> "sent" [] old.at = "fail" -> "failed"
                        [] old.at = "retry" -> "pending"]
                /\ attempts' = [attempts EXCEPT ![r] = old.read[r] + 1]
                /\ Turns(w) \/ (Goes(w, "fallback") /\ old.at = "fail" /\ r[2] = "whatsapp")
    BY <1>8 DEF Record, FallsBack
  <2>2. quota' = quota /\ due' \subseteq due /\ r \in Row /\ old.read[r] + 1 \in Nat
    BY <1>0, <1>8, <2>1 DEF Record, FlushRow
  <2>3. status' \in [Row -> Status] /\ attempts' \in [Row -> Nat]
    BY <2>1, <2>2 DEF Shape, Status
  <2>4. CASE Goes(w, "fallback") /\ status' = [status EXCEPT ![r] = "failed"] /\ r[2] = "whatsapp"
    <3>1. /\ [old EXCEPT !.at = "fallback"] \in FlushRow
          /\ worker' = [worker EXCEPT ![w] = [old EXCEPT !.at = "fallback"]]
      BY <2>4, FlushForms DEF At
    <3>2. [old EXCEPT !.at = "fallback"].at = "fallback" /\ [old EXCEPT !.at = "fallback"].row = old.row
      BY <1>0 DEF FlushRow
    <3>3. \A s \in old.row : s[2] = "whatsapp" /\ status'[s] = "failed"
      BY <1>a, <2>1, <2>2, <2>4 DEF Shape
    <3>4. Fits([old EXCEPT !.at = "fallback"])
      BY <1>a, <3>2, <3>3 DEF Fits
    <3>5. worker' \in [Worker -> FlushRow] /\ Stage'
      BY <3>1, <3>4, FlushMoves
    <3> QED BY <2>2, <2>3, <3>5 DEF Shape
  <2>5. CASE Turns(w)
    BY <1>2, <2>2, <2>3, <2>5 DEF Shape
  <2> QED BY <2>1, <2>4, <2>5
<1>9. CASE QueueFallback(w)
  <2>1. Turns(w) /\ UNCHANGED <<attempts, due>>
    BY <1>9 DEF QueueFallback
  <2>2. status' \in [Row -> Status] /\ quota' \in [Row -> {"none", "reserved", "used", "released"}]
    BY <1>9 DEF QueueFallback, Refused, Shape, Status
  <2> QED BY <1>2, <2>1, <2>2 DEF Shape
<1>10. ASSUME NEW q \in Row, Claim(w, q) PROVE Shape' /\ Stage'
  <2>1. /\ UNCHANGED <<status, quota>> /\ due' \subseteq due /\ old.read[q] + 1 \in Nat
        /\ attempts' = [attempts EXCEPT ![q] = old.read[q] + 1] \/ attempts' = attempts
    BY <1>0, <1>10 DEF Claim, FlushRow
  <2>2. attempts' \in [Row -> Nat]
    BY <2>1 DEF Shape
  <2>3. PICK new \in FlushRow : worker' = [worker EXCEPT ![w] = new] /\ new.at = old.at /\ new.row = old.row
    <3>1. CASE worker' = [worker EXCEPT ![w].found = @ \ {q}, ![w].mine = @ \union {q}]
      <4>1. worker' = [worker EXCEPT ![w] = [old EXCEPT !.found = @ \ {q}, !.mine = @ \union {q}]]
        BY <1>0, <3>1 DEF FlushRow
      <4>2. [old EXCEPT !.found = @ \ {q}, !.mine = @ \union {q}] \in FlushRow
        BY <1>0 DEF FlushRow
      <4> QED BY <1>0, <4>1, <4>2 DEF FlushRow
    <3>2. CASE worker' = [worker EXCEPT ![w].found = @ \ {q}, ![w].read[q] = 0]
      <4>1. worker' = [worker EXCEPT ![w] = [old EXCEPT !.found = @ \ {q}, !.read[q] = 0]]
        BY <1>0, <3>2 DEF FlushRow
      <4>2. [old EXCEPT !.found = @ \ {q}, !.read[q] = 0] \in FlushRow
        BY <1>0 DEF FlushRow
      <4> QED BY <1>0, <4>1, <4>2 DEF FlushRow
    <3> QED BY <1>10, <3>1, <3>2 DEF Claim
  <2>4. old.at = "fallback" => \A r \in old.row : r[2] = "whatsapp" /\ status'[r] = "failed"
    BY <2>1 DEF Stage
  <2>5. Fits(new)
    BY <1>a, <2>3, <2>4 DEF Fits
  <2>6. worker' \in [Worker -> FlushRow] /\ Stage'
    BY <2>3, <2>5, FlushMoves
  <2> QED BY <2>1, <2>2, <2>6 DEF Shape
<1>11. ASSUME NEW q \in Row, Prepare(w, q) PROVE Shape' /\ Stage'
  <2>1. /\ UNCHANGED <<attempts, due>> /\ status' \in [Row -> Status]
        /\ quota' \in [Row -> {"none", "reserved", "used", "released"}]
    BY <1>11 DEF Prepare, Finalize, KeepQuota, Shape, Status
  <2>2. PICK to \in {"turn", "exhausted", "reconcile", "send"}, R \in {{}, {q}} :
          /\ worker' = [worker EXCEPT ![w].mine = @ \ {q}, ![w].at = to, ![w].row = R]
          /\ to = "reconcile" => q[2] = "sms"
    <3> DEFINE goes == status[q] = "pending" /\ allowed
               next == CASE ~goes -> "turn"
                         [] goes /\ old.read[q] >= MaxAttempts -> "exhausted"
                         [] goes /\ old.read[q] < MaxAttempts -> IF q[2] = "sms" THEN "reconcile" ELSE "send"
    <3>1. worker' = [worker EXCEPT ![w].mine = @ \ {q}, ![w].at = next, ![w].row = IF goes THEN {q} ELSE {}]
      BY <1>11 DEF Prepare
    <3>2. old.read[q] >= MaxAttempts \/ old.read[q] < MaxAttempts
      BY <1>0, OutboxAssumption DEF FlushRow, OutboxAssumption
    <3>3. next \in {"turn", "exhausted", "reconcile", "send"} /\ (next = "reconcile" => q[2] = "sms")
      BY <3>2
    <3> QED BY <3>1, <3>3
  <2> DEFINE new == [old EXCEPT !.mine = @ \ {q}, !.at = to, !.row = R]
  <2>3. new \in FlushRow /\ new.at = to /\ new.row = R
    BY <1>0, <2>2 DEF FlushRow, At
  <2>4. worker' = [worker EXCEPT ![w] = new]
    BY <1>0, <2>2 DEF FlushRow
  <2>5. Fits(new)
    BY <2>2, <2>3 DEF Fits
  <2>6. worker' \in [Worker -> FlushRow] /\ Stage'
    BY <2>3, <2>4, <2>5, FlushMoves
  <2> QED BY <2>1, <2>6 DEF Shape
<1> QED BY <1>3, <1>4, <1>5, <1>6, <1>7, <1>8, <1>9, <1>10, <1>11 DEF Flush

LEMMA FaultsKeepShape ==
  ASSUME Shape, Stage, NEW w \in Worker, FailCall(w) \/ LoseAnswer(w) \/ Crash(w),
         \A r \in Row : status[r] \in Final => status'[r] = status[r]
  PROVE  Shape' /\ Stage'
<1> DEFINE old == worker[w]
<1>0. /\ old \in FlushRow /\ worker \in [Worker -> FlushRow]
      /\ old.row \subseteq Row /\ old.found \subseteq Row /\ \A r \in Row : old.read[r] + 1 \in Nat
  BY DEF Shape, FlushRow
<1>a. /\ \A r, s \in old.row : r = s
      /\ old.at = "reconcile" => \A r \in old.row : r[2] = "sms"
      /\ old.at = "fallback" => \A r \in old.row : r[2] = "whatsapp" /\ status'[r] = "failed"
  <2>1. \A r \in old.row : status[r] = "failed" => status'[r] = "failed"
    BY <1>0 DEF Final
  <2> QED BY <2>1 DEF Stage
\* The three forms in which a flush is written here.
<1>1. ASSUME NEW new \in FlushRow, worker' = [worker EXCEPT ![w] = new], new.at = old.at, new.row = old.row
      PROVE  worker' \in [Worker -> FlushRow] /\ Stage'
  <2>1. Fits(new)
    BY <1>1, <1>a DEF Fits
  <2> QED BY <1>1, <2>1, FlushMoves
<1>2. ASSUME NEW to \in {"sent", "fail", "retry"}, Goes(w, to) PROVE worker' \in [Worker -> FlushRow] /\ Stage'
  <2>1. [old EXCEPT !.at = to] \in FlushRow /\ worker' = [worker EXCEPT ![w] = [old EXCEPT !.at = to]]
    <3>1. to \in At
      BY DEF At
    <3> QED BY <1>2, <3>1, FlushForms
  <2>2. [old EXCEPT !.at = to].at = to /\ [old EXCEPT !.at = to].row = old.row
    BY <1>0 DEF FlushRow
  <2>3. Fits([old EXCEPT !.at = to])
    BY <1>a, <2>2 DEF Fits
  <2> QED BY <2>1, <2>3, FlushMoves
<1>3. ASSUME Turns(w) PROVE worker' \in [Worker -> FlushRow] /\ Stage'
  <2>1. PICK row \in FlushRow : worker' = [worker EXCEPT ![w] = row] /\ row.at = "turn" /\ row.row = {}
    BY <1>3, FlushForms
  <2>2. Fits(row)
    BY <2>1 DEF Fits
  <2> QED BY <2>1, <2>2, FlushMoves
<1>4. ASSUME NEW q \in Row, worker' = [worker EXCEPT ![w].found = @ \ {q}, ![w].read[q] = 0]
      PROVE  worker' \in [Worker -> FlushRow] /\ Stage'
  <2> DEFINE new == [old EXCEPT !.found = @ \ {q}, !.read[q] = 0]
  <2>1. worker' = [worker EXCEPT ![w] = new]
    BY <1>0, <1>4 DEF FlushRow
  <2>2. new \in FlushRow /\ new.at = old.at /\ new.row = old.row
    BY <1>0 DEF FlushRow
  <2> QED BY <1>1, <2>1, <2>2
<1>5. CASE FailCall(w)
  <2>1. UNCHANGED <<status, attempts, due, quota>>
    BY <1>5 DEF FailCall, rows
  <2>2. \/ \E q \in Row : worker' = [worker EXCEPT ![w].found = @ \ {q}, ![w].read[q] = 0]
        \/ \E q \in Row : worker' = [worker EXCEPT ![w].mine = @ \ {q}]
        \/ \E to \in {"sent", "fail", "retry"} : Goes(w, to)
        \/ Turns(w)
    BY <1>0, <1>5 DEF FailCall, Verdict, FlushRow
  <2>3. ASSUME NEW q \in Row, worker' = [worker EXCEPT ![w].mine = @ \ {q}]
        PROVE  worker' \in [Worker -> FlushRow] /\ Stage'
    <3> DEFINE new == [old EXCEPT !.mine = @ \ {q}]
    <3>1. worker' = [worker EXCEPT ![w] = new]
      BY <1>0, <2>3 DEF FlushRow
    <3>2. new \in FlushRow /\ new.at = old.at /\ new.row = old.row
      BY <1>0 DEF FlushRow
    <3> QED BY <1>1, <3>1, <3>2
  <2> QED BY <1>2, <1>3, <1>4, <2>1, <2>2, <2>3 DEF Shape
<1>6. CASE LoseAnswer(w)
  <2>1. PICK q \in Row :
          /\ attempts' = [attempts EXCEPT ![q] = old.read[q] + 1] /\ due' \subseteq due
          /\ status' = status \/ status' = [status EXCEPT ![q] = "failed"]
          /\ \/ worker' = [worker EXCEPT ![w].found = @ \ {q}, ![w].read[q] = 0]
             \/ Turns(w)
    BY <1>0, <1>6 DEF LoseAnswer
  <2>2. status' \in [Row -> Status] /\ attempts' \in [Row -> Nat] /\ quota' = quota
    BY <1>0, <1>6, <2>1 DEF LoseAnswer, Shape, Status
  <2> QED BY <1>3, <1>4, <2>1, <2>2 DEF Shape
<1>7. CASE Crash(w)
  <2>1. worker' = [worker EXCEPT ![w] = Nobody] /\ UNCHANGED <<status, attempts, due, quota>>
    BY <1>7 DEF Crash, rows
  <2>2. Nobody \in FlushRow /\ Fits(Nobody)
    BY FlushForms DEF Nobody, Fits
  <2>3. worker' \in [Worker -> FlushRow] /\ Stage'
    BY <2>1, <2>2, FlushMoves
  <2> QED BY <2>1, <2>3 DEF Shape
<1> QED BY <1>5, <1>6, <1>7

LEMMA OthersKeepShape ==
  ASSUME Shape, Stage,
         \/ \E m \in Message : Enqueue(m) \/ OptOut(m)
         \/ SwitchOff
         \/ \E r \in Row : ComeDue(r) \/ Overrun(r)
         \/ UNCHANGED vars,
         \A r \in Row : status[r] \in Final => status'[r] = status[r]
  PROVE  Shape' /\ Stage'
<1>1. worker' = worker
  BY DEF Enqueue, OptOut, SwitchOff, ComeDue, Overrun, vars
<1>2. \A w \in Worker : \A r \in worker[w].row : r \in Row
  BY DEF Shape, FlushRow
<1>3. Stage'
  BY <1>1, <1>2 DEF Stage, Final
<1>4. ASSUME NEW R \in SUBSET Row, Cancel(R)
      PROVE  status' \in [Row -> Status] /\ quota' \in [Row -> {"none", "reserved", "used", "released"}]
  BY <1>4 DEF Cancel, Finalize, Shape, Status
<1>5. ASSUME NEW m \in Message, Enqueue(m) PROVE Shape'
  BY <1>1, <1>5, RowParts DEF Enqueue, Shape, Status
<1>6. ASSUME NEW m \in Message, OptOut(m) PROVE Shape'
  BY <1>1, <1>4, <1>6 DEF OptOut, Shape
<1>7. CASE SwitchOff
  <2> DEFINE R == {r \in Row : status[r] = "pending"}
  <2>1. R \in SUBSET Row /\ Cancel(R) /\ UNCHANGED <<attempts, due>>
    BY <1>7 DEF SwitchOff
  <2>2. status' \in [Row -> Status] /\ quota' \in [Row -> {"none", "reserved", "used", "released"}]
    BY <1>4, <2>1
  <2> QED BY <1>1, <1>3, <2>1, <2>2 DEF Shape
<1>8. ASSUME NEW r \in Row, ComeDue(r) \/ Overrun(r) PROVE Shape'
  BY <1>1, <1>8 DEF ComeDue, Overrun, Shape
<1>9. CASE UNCHANGED vars
  <2>1. UNCHANGED <<status, attempts, due, quota, worker>>
    BY <1>9 DEF vars, rows
  <2> QED BY <1>3, <2>1 DEF Shape
<1> QED BY <1>3, <1>5, <1>6, <1>7, <1>8, <1>9

LEMMA ShapeStep == Shape /\ Stage /\ [Next]_vars => Shape' /\ Stage'
<1> SUFFICES ASSUME Shape, Stage, [Next]_vars PROVE Shape' /\ Stage'
  OBVIOUS
<1>1. \A r \in Row : status[r] \in Final => status'[r] = status[r]
  BY StatusStep
<1> QED BY <1>1, FlushKeepsShape, FaultsKeepShape, OthersKeepShape DEF Next

LEMMA ShapeInit == Init => Shape /\ Stage
BY DEF Init, Shape, Stage, Status, Nobody, FlushRow, At

\* What was sent, failed or cancelled is never open again, however many flushes, opt-outs
\* and lost calls work on the same row (notification-flush:272 and :307).
THEOREM FinalStaysFinal == Spec => FinalIsFinal
<1>1. Shape /\ Stage /\ [Next]_vars =>
        [\A r \in Row : status[r] \in {"sent", "failed", "cancelled"} => status'[r] = status[r]]_vars
  BY StatusStep DEF Final
<1> QED BY <1>1, ShapeInit, ShapeStep, PTL DEF Spec, FinalIsFinal

(***************************************************************************)
(* The fallback.                                                            *)
(***************************************************************************)
\* An SMS row is created by QueueFallback only.
LEMMA FallbackStep ==
  ASSUME Shape, Stage, [Next]_vars, NEW r \in Row, r[2] = "sms",
         status[r] = "absent", status'[r] # "absent"
  PROVE  \E w \in Worker : \E q \in worker[w].row : worker[w].at = "fallback" /\ r = Fallback(q)
<1>1. ASSUME NEW m \in Message, Enqueue(m) PROVE FALSE
  BY <1>1 DEF Enqueue, Shape
<1>2. ASSUME NEW R \in SUBSET Row, Cancel(R), \A q \in R : status[q] = "pending" PROVE FALSE
  BY <1>2 DEF Cancel
<1>3. ASSUME NEW m \in Message, OptOut(m) PROVE FALSE
  BY <1>2, <1>3 DEF OptOut
<1>4. ~SwitchOff
  BY <1>2 DEF SwitchOff
<1>5. ASSUME NEW w \in Worker, NEW q \in Row, Prepare(w, q) PROVE FALSE
  BY <1>5 DEF Prepare, Shape
<1>6. ASSUME NEW w \in Worker, Record(w) \/ LoseAnswer(w) PROVE FALSE
  BY <1>6 DEF Record, Closed, LoseAnswer, Shape
<1>7. ASSUME NEW w \in Worker, QueueFallback(w)
      PROVE  \E q \in worker[w].row : worker[w].at = "fallback" /\ r = Fallback(q)
  BY <1>7 DEF QueueFallback, Refused, Shape
<1>8. ASSUME NEW w \in Worker, Select(w) \/ Finish(w) \/ Reconcile(w) \/ Send(w) \/ Conclude(w)
                               \/ (\E q \in Row : Claim(w, q)) \/ FailCall(w) \/ Crash(w)
      PROVE  FALSE
  <2>1. UNCHANGED status
    BY <1>8 DEF Select, Finish, Reconcile, Send, Conclude, Claim, FailCall, Crash, rows
  <2> QED BY <2>1
<1>9. ASSUME NEW q \in Row, ComeDue(q) \/ Overrun(q) PROVE FALSE
  BY <1>9 DEF ComeDue, Overrun
<1>10. ~UNCHANGED vars
  BY DEF vars, rows
<1> QED BY <1>1, <1>3, <1>4, <1>5, <1>6, <1>7, <1>8, <1>9, <1>10 DEF Next, Flush

\* A message never has an SMS while its WhatsApp may still go out, although the fallback is
\* queued after the row was recorded as failed (notification-flush:312).
THEOREM FallbackIsSecond == Spec => []FallbackAfterFailure
<1>1. Init => FallbackAfterFailure
  BY RowParts DEF Init, FallbackAfterFailure
<1>2. Shape /\ Stage /\ FallbackAfterFailure /\ [Next]_vars => FallbackAfterFailure'
  <2> SUFFICES ASSUME Shape, Stage, FallbackAfterFailure, [Next]_vars,
                      NEW r \in Row, r[2] = "whatsapp", status'[Fallback(r)] # "absent"
               PROVE  status'[r] = "failed"
    BY DEF FallbackAfterFailure, Fallback
  <2>1. status[r] = "failed" => status'[r] = "failed"
    BY StatusStep DEF Final
  <2>2. CASE status[Fallback(r)] # "absent"
    BY <2>1, <2>2 DEF FallbackAfterFailure
  <2>3. CASE status[Fallback(r)] = "absent"
    <3>1. PICK w \in Worker : \E q \in worker[w].row : worker[w].at = "fallback" /\ Fallback(r) = Fallback(q)
      BY <2>3, RowParts, FallbackStep
    <3>2. PICK q \in worker[w].row : worker[w].at = "fallback" /\ Fallback(r) = Fallback(q)
      BY <3>1
    <3>3. q \in Row /\ q[2] = "whatsapp" /\ status[q] = "failed"
      BY <3>2 DEF Shape, FlushRow, Stage
    <3>4. q = r
      BY <3>2, <3>3, RowParts
    <3> QED BY <2>1, <3>3, <3>4
  <2> QED BY <2>2, <2>3
<1> QED BY <1>1, <1>2, ShapeInit, ShapeStep, PTL DEF Spec
(***************************************************************************)
(* The quota.                                                               *)
(***************************************************************************)
\* The counters are numbers, and a row that was never queued holds no quota.
Counted ==
  /\ reserved \in Nat /\ used \in Nat /\ QuotaExact
  /\ \A r \in Row : status[r] = "absent" => quota[r] = "none"

LEMMA RowsAreFinite ==
  ASSUME NEW R \in SUBSET Row
  PROVE  IsFiniteSet(R) /\ Cardinality(R) \in Nat
<1>1. IsFiniteSet({"whatsapp"}) /\ IsFiniteSet({"whatsapp"} \union {"sms"})
  BY FS_Singleton, FS_Union
<1>2. {"whatsapp"} \union {"sms"} = {"whatsapp", "sms"}
  OBVIOUS
<1>3. IsFiniteSet(Row)
  BY <1>1, <1>2, FS_Product, OutboxAssumption DEF Row, OutboxAssumption
<1> QED BY <1>3, FS_Subset, FS_CardinalityType

\* Finalizing takes from the reserved what it marks as used or released, and no more.
LEMMA FinalizeCounts ==
  ASSUME Shape, reserved \in Nat, used \in Nat, QuotaExact,
         NEW R \in SUBSET Row, NEW took \in SUBSET Row, Finalize(R, took)
  PROVE  reserved' \in Nat /\ used' \in Nat /\ QuotaExact'
<1> DEFINE W == {r \in Unfinalized(R) : r[2] = "whatsapp"}
           T == W \intersect took
           A == WhatsApp("reserved")
           B == WhatsApp("used")
<1>1. W \in SUBSET A /\ T \in SUBSET W /\ A \in SUBSET Row /\ B \in SUBSET Row
  BY DEF Unfinalized, WhatsApp
<1>2. /\ IsFiniteSet(A) /\ IsFiniteSet(B) /\ IsFiniteSet(W) /\ IsFiniteSet(T)
      /\ Cardinality(A) \in Nat /\ Cardinality(B) \in Nat
      /\ Cardinality(W) \in Nat /\ Cardinality(T) \in Nat
  BY <1>1, RowsAreFinite
<1>3. Cardinality(W) <= Cardinality(A) /\ Cardinality(T) <= Cardinality(W)
  BY <1>1, <1>2, FS_Subset
<1>4. Cardinality(A \ W) = Cardinality(A) - Cardinality(W)
  <2>1. A \intersect W = W
    BY <1>1
  <2> QED BY <1>2, <2>1, FS_Difference
<1>5. Cardinality(B \union T) = Cardinality(B) + Cardinality(T)
  <2>1. B \intersect T = {}
    BY <1>1 DEF WhatsApp
  <2>2. Cardinality(B \union T) = Cardinality(B) + Cardinality(T) - Cardinality(B \intersect T)
    BY <1>2, FS_Union
  <2>3. Cardinality(B \intersect T) = 0
    BY <2>1, FS_EmptySet
  <2> HIDE DEF B, T
  <2> QED BY <1>2, <2>2, <2>3
<1>6. WhatsApp("reserved")' = A \ W /\ WhatsApp("used")' = B \union T
  <2>1. \A r \in Row : quota'[r] = IF r \in Unfinalized(R) THEN (IF r \in took THEN "used" ELSE "released")
                                                           ELSE quota[r]
    BY DEF Finalize
  <2>2. \A r \in Row : r \in Unfinalized(R) <=> r \in R /\ quota[r] = "reserved"
    BY DEF Unfinalized
  <2> QED BY <2>1, <2>2, <1>1 DEF WhatsApp
<1>7. reserved = Cardinality(A) /\ used = Cardinality(B) /\ reserved + used <= QuotaLimit
  BY DEF QuotaExact
<1>8. reserved' = reserved - Cardinality(W) /\ used' = used + Cardinality(T)
  BY <1>2, <1>3, <1>7 DEF Finalize
<1>9. QuotaLimit \in Nat
  BY OutboxAssumption DEF OutboxAssumption
<1>10. reserved' = Cardinality(A \ W) /\ used' = Cardinality(B \union T)
  BY <1>4, <1>5, <1>7, <1>8
<1>11. reserved' \in Nat /\ used' \in Nat /\ reserved' + used' <= QuotaLimit
  <2> HIDE DEF A, B, W, T
  <2> QED BY <1>2, <1>3, <1>7, <1>8, <1>9
<1> HIDE DEF A, B, W, T
<1> QED BY <1>6, <1>10, <1>11 DEF QuotaExact

\* A step that leaves the WhatsApp rows' quota and the counters alone.
LEMMA OtherCounts ==
  ASSUME Counted, UNCHANGED <<reserved, used>>,
         \A r \in Row : r[2] = "whatsapp" => quota'[r] = quota[r]
  PROVE  reserved' \in Nat /\ used' \in Nat /\ QuotaExact'
<1>1. WhatsApp("reserved")' = WhatsApp("reserved") /\ WhatsApp("used")' = WhatsApp("used")
  BY DEF WhatsApp
<1> QED BY <1>1 DEF Counted, QuotaExact

LEMMA EnqueueCounts ==
  ASSUME Shape, Counted, NEW m \in Message, Enqueue(m)
  PROVE  Counted'
<1> DEFINE r == <<m, "whatsapp">>
           A == WhatsApp("reserved")
<1>1. r \in Row /\ r[2] = "whatsapp" /\ r \notin A /\ quota[r] = "none"
  BY RowParts DEF Enqueue, Counted, WhatsApp
<1>2. WhatsApp("reserved")' = A \union {r} /\ WhatsApp("used")' = WhatsApp("used")
  BY <1>1 DEF Enqueue, Shape, WhatsApp
<1>3. Cardinality(A \union {r}) = Cardinality(A) + 1
  <2>1. IsFiniteSet(A)
    BY RowsAreFinite DEF WhatsApp
  <2> QED BY <1>1, <2>1, FS_AddElement
<1>4. reserved' = reserved + 1 /\ used' = used /\ used + reserved + 1 <= QuotaLimit
  BY DEF Enqueue
<1>5. QuotaLimit \in Nat
  BY OutboxAssumption DEF OutboxAssumption
<1>6. \A q \in Row : status'[q] = "absent" => quota'[q] = "none"
  BY <1>1 DEF Enqueue, Shape, Counted
<1>7. reserved = Cardinality(A) /\ used = Cardinality(WhatsApp("used")) /\ reserved \in Nat /\ used \in Nat
  BY DEF Counted, QuotaExact
<1> HIDE DEF A
<1>8. /\ reserved' = Cardinality(WhatsApp("reserved")') /\ used' = Cardinality(WhatsApp("used")')
      /\ reserved' \in Nat /\ used' \in Nat /\ reserved' + used' <= QuotaLimit
  BY <1>2, <1>3, <1>4, <1>5, <1>7
<1> QED BY <1>6, <1>8 DEF Counted, QuotaExact

LEMMA CountedInit == Init => Counted
<1>1. ASSUME Init PROVE WhatsApp("reserved") = {} /\ WhatsApp("used") = {}
  BY <1>1 DEF Init, WhatsApp
<1> QED BY <1>1, FS_EmptySet, OutboxAssumption DEF Init, Counted, QuotaExact, OutboxAssumption

LEMMA CountedStep == Shape /\ Stage /\ Counted /\ [Next]_vars => Counted'
<1> SUFFICES ASSUME Shape, Stage, Counted, [Next]_vars PROVE Counted'
  OBVIOUS
\* The two ways a step leaves a row that is absent without quota.
<1>1. ASSUME NEW R \in SUBSET Row, NEW took \in SUBSET Row, Finalize(R, took),
             \A r \in Row : status'[r] = "absent" => status[r] = "absent"
      PROVE  Counted'
  <2>1. \A r \in Row : quota[r] = "none" => quota'[r] = "none"
    BY <1>1 DEF Finalize, Unfinalized
  <2>2. reserved' \in Nat /\ used' \in Nat /\ QuotaExact'
    BY <1>1, FinalizeCounts DEF Counted
  <2> QED BY <1>1, <2>1, <2>2 DEF Counted
<1>2. ASSUME KeepQuota, \A r \in Row : status'[r] = "absent" => status[r] = "absent"
      PROVE  Counted'
  BY <1>2, OtherCounts DEF KeepQuota, Counted
<1>3. ASSUME NEW R \in SUBSET Row, Cancel(R) PROVE Counted'
  BY <1>1, <1>3 DEF Cancel, MaybeSent, Shape
<1>4. ASSUME NEW m \in Message, OptOut(m) PROVE Counted'
  BY <1>3, <1>4 DEF OptOut
<1>5. CASE SwitchOff
  BY <1>3, <1>5 DEF SwitchOff
<1>6. ASSUME NEW w \in Worker, NEW q \in Row, Prepare(w, q) PROVE Counted'
  <2>1. \A r \in Row : status'[r] = "absent" => status[r] = "absent"
    BY <1>6 DEF Prepare, Shape
  <2> QED BY <1>1, <1>2, <1>6, <2>1 DEF Prepare
<1>7. ASSUME NEW w \in Worker, Reconcile(w) PROVE Counted'
  <2>1. PICK r \in worker[w].row : \/ quota' = [quota EXCEPT ![r] = IF status[r] = "pending" THEN "reserved" ELSE @]
                                  \/ UNCHANGED quota
    BY <1>7 DEF Reconcile
  <2>2. r[2] = "sms" /\ UNCHANGED <<status, reserved, used>>
    BY <1>7 DEF Reconcile, Stage
  <2>3. reserved' \in Nat /\ used' \in Nat /\ QuotaExact'
    BY <2>1, <2>2, OtherCounts DEF Shape
  <2> QED BY <2>1, <2>2, <2>3 DEF Shape, Counted
<1>8. ASSUME NEW w \in Worker, Conclude(w) PROVE Counted'
  <2>1. PICK r \in worker[w].row : Finalize({r}, {r}) \/ Finalize({r}, {}) \/ KeepQuota
    BY <1>8 DEF Conclude
  <2>2. r \in Row /\ status' = status
    BY <1>8 DEF Conclude, Shape, FlushRow
  <2> QED BY <1>1, <1>2, <2>1, <2>2
<1>9. ASSUME NEW w \in Worker, Record(w) \/ LoseAnswer(w) PROVE Counted'
  BY <1>2, <1>9 DEF Record, LoseAnswer, KeepQuota, Shape
<1>10. ASSUME NEW w \in Worker, QueueFallback(w) PROVE Counted'
  <2>1. PICK r \in worker[w].row :
          \/ UNCHANGED <<status, quota>>
          \/ /\ status' = [status EXCEPT ![Fallback(r)] = "pending"]
             /\ quota' = [quota EXCEPT ![Fallback(r)] = "reserved"]
          \/ status' = Refused(Fallback(r)) /\ UNCHANGED quota
    BY <1>10 DEF QueueFallback
  <2>2. Fallback(r) \in Row /\ Fallback(r)[2] = "sms" /\ UNCHANGED <<reserved, used>>
    BY <1>10, RowParts DEF QueueFallback, Shape, FlushRow
  <2>3. reserved' \in Nat /\ used' \in Nat /\ QuotaExact'
    BY <2>1, <2>2, OtherCounts DEF Shape
  <2> QED BY <2>1, <2>2, <2>3 DEF Shape, Counted, Refused
<1>11. ASSUME NEW w \in Worker, Select(w) \/ Finish(w) \/ Send(w) \/ (\E r \in Row : Claim(w, r))
                                \/ FailCall(w) \/ Crash(w)
       PROVE  UNCHANGED <<status, quota, reserved, used>>
  BY <1>11 DEF Select, Finish, Send, Claim, FailCall, Crash, rows
<1>12. ASSUME NEW q \in Row, ComeDue(q) \/ Overrun(q) PROVE UNCHANGED <<status, quota, reserved, used>>
  BY <1>12 DEF ComeDue, Overrun
<1>13. UNCHANGED vars => UNCHANGED <<status, quota, reserved, used>>
  BY DEF vars, rows
<1>14. UNCHANGED <<status, quota, reserved, used>> => Counted'
  BY <1>2 DEF KeepQuota
<1> QED
  BY <1>4, <1>5, <1>6, <1>7, <1>8, <1>9, <1>10, <1>11, <1>12, <1>13, <1>14, EnqueueCounts DEF Next, Flush

\* The counters of WhatsApp never drift from the rows, and never pass the limit, although
\* flushes, opt-outs and retries may finalize one row several times (0037:421).
THEOREM QuotaStaysExact == Spec => []QuotaExact
<1>1. Counted => QuotaExact
  BY DEF Counted
<1> QED BY <1>1, CountedInit, CountedStep, ShapeInit, ShapeStep, PTL DEF Spec

-----------------------------------------------------------------------------
(***************************************************************************)
(* The two invariants that need to know where every flush stands: how often *)
(* a row is claimed, and what a row without a fault has been through.       *)
(***************************************************************************)
\* What a flush works on: found rows only while it claims, one row only while it sends.
Desk ==
  \A w \in Worker :
    /\ worker[w].at = "idle" => worker[w].mine = {}
    /\ worker[w].at \in {"idle", "turn"} => worker[w].row = {}
    /\ worker[w].at # "turn" => worker[w].found = {}
    /\ worker[w].found \intersect HeldBy(w) = {}
    /\ worker[w].mine \intersect worker[w].row = {}

\* The claim with the attempts of r spent is held by a flush that will fail the row.
LastClaim(r) == \E w \in Worker : r \in HeldBy(w) /\ worker[w].read[r] >= MaxAttempts

\* Claims beyond the attempts are paid for with faults, except the last one.
Spent(r) ==
  /\ status[r] = "absent" => attempts[r] = 0
  /\ attempts[r] <= MaxAttempts + 1 + faults
  /\ status[r] = "pending" /\ attempts[r] = MaxAttempts + 1 + faults => r \notin due /\ LastClaim(r)

ReadsBounded == \A w \in Worker, r \in Row : worker[w].read[r] <= MaxAttempts + faults

\* A row with its attempts spent is failed without another send.
SpendsNoMore ==
  \A w \in Worker : \A r \in worker[w].row :
    /\ worker[w].at \notin {"exhausted", "fail", "fallback"} => worker[w].read[r] < MaxAttempts
    /\ worker[w].at = "retry" => worker[w].read[r] + 1 < MaxAttempts

Bounded ==
  /\ faults \in 0..MaxFaults
  /\ ReadsBounded
  /\ \A r \in Row : Spent(r)
  /\ SpendsNoMore

\* One flush at most holds the row, under its lease, with the attempts it has claimed;
\* what others have found of it is out of date.
Claimed(r) ==
  /\ \A v, w \in Worker : r \in HeldBy(v) /\ r \in HeldBy(w) => v = w
  /\ \A w \in Worker : r \in HeldBy(w) => r \notin due /\ attempts[r] = worker[w].read[r] + 1
  /\ \A w \in Worker : r \in worker[w].found =>
       /\ worker[w].read[r] <= attempts[r]
       /\ r \notin due => worker[w].read[r] < attempts[r]

\* What is true of a row whose flush stands at a stage.
Standing(r, at) ==
  CASE at \in {"exhausted", "reconcile", "send", "rejected", "deferred", "retry"} ->
         /\ accepted[r] = 0
         /\ \/ status[r] = "pending" /\ quota[r] = "reserved"
            \/ status[r] = "cancelled" /\ (at \in {"reconcile", "send"} => quota[r] = "used")
    [] at = "accepted" -> 
         /\ accepted[r] = 1
         /\ \/ status[r] = "pending" /\ quota[r] = "reserved"
            \/ status[r] = "cancelled" /\ quota[r] = "used"
    [] at = "sent" -> accepted[r] = 1 /\ status[r] \in {"pending", "cancelled"} /\ quota[r] = "used"
    [] at = "fail" -> 
         /\ accepted[r] = 0
         /\ status[r] = "cancelled" \/ (status[r] = "pending" /\ quota[r] = "released")
    [] at = "fallback" -> status[r] = "failed" /\ quota[r] = "released" /\ accepted[r] = 0
    [] OTHER -> FALSE

\* What is true of a row that no flush is sending.
Settled(r) ==
  /\ accepted[r] <= 1
  /\ status[r] \in {"absent", "refused"} => accepted[r] = 0
  /\ status[r] = "pending" => accepted[r] = 0 /\ quota[r] = "reserved"
  /\ status[r] = "sent" => quota[r] = "used"
  /\ status[r] = "failed" => quota[r] = "released"
  /\ status[r] = "cancelled" /\ accepted[r] > 0 => quota[r] = "used"

Straight(r) ==
  /\ Claimed(r)
  /\ \A w \in Worker : r \in worker[w].row => Standing(r, worker[w].at)
  /\ (\A w \in Worker : r \notin worker[w].row) => Settled(r)
Paths == \A r \in Row : r \notin unsure => Straight(r)
(***************************************************************************)
(* What a step writes into a flush.                                         *)
(***************************************************************************)
Writes(w, at, found, mine, row) ==
  /\ worker'[w].at = at /\ worker'[w].found = found
  /\ worker'[w].mine = mine /\ worker'[w].row = row
  /\ \A v \in Worker \ {w} : worker'[v] = worker[v]

LEMMA GoesWrites ==
  ASSUME Shape, NEW w \in Worker, NEW to \in At, Goes(w, to)
  PROVE  /\ Writes(w, to, worker[w].found, worker[w].mine, worker[w].row)
         /\ \A r \in Row : worker'[w].read[r] = worker[w].read[r]
BY DEF Goes, Writes, Shape, FlushRow

LEMMA TurnsWrites ==
  ASSUME Shape, NEW w \in Worker, Turns(w)
  PROVE  /\ Writes(w, "turn", worker[w].found, worker[w].mine, {})
         /\ \A r \in Row : worker'[w].read[r] = IF r \in worker[w].row THEN 0 ELSE worker[w].read[r]
BY DEF Turns, Writes, Shape, FlushRow

LEMMA ClaimWrites ==
  ASSUME Shape, NEW w \in Worker, NEW q \in Row,
         worker' = [worker EXCEPT ![w].found = @ \ {q}, ![w].mine = @ \union {q}]
  PROVE  /\ Writes(w, worker[w].at, worker[w].found \ {q}, worker[w].mine \union {q}, worker[w].row)
         /\ \A r \in Row : worker'[w].read[r] = worker[w].read[r]
BY DEF Writes, Shape, FlushRow

LEMMA DropWrites ==
  ASSUME Shape, NEW w \in Worker, NEW q \in Row,
         worker' = [worker EXCEPT ![w].found = @ \ {q}, ![w].read[q] = 0]
  PROVE  /\ Writes(w, worker[w].at, worker[w].found \ {q}, worker[w].mine, worker[w].row)
         /\ \A r \in Row : worker'[w].read[r] = IF r = q THEN 0 ELSE worker[w].read[r]
BY DEF Writes, Shape, FlushRow

LEMMA PrepareWrites ==
  ASSUME Shape, NEW w \in Worker, NEW q \in Row, NEW to \in At, NEW R \in SUBSET Row,
         worker' = [worker EXCEPT ![w].mine = @ \ {q}, ![w].at = to, ![w].row = R]
  PROVE  /\ Writes(w, to, worker[w].found, worker[w].mine \ {q}, R)
         /\ \A r \in Row : worker'[w].read[r] = worker[w].read[r]
BY DEF Writes, Shape, FlushRow

LEMMA ForgetWrites ==
  ASSUME Shape, NEW w \in Worker, NEW q \in Row,
         worker' = [worker EXCEPT ![w].mine = @ \ {q}]
  PROVE  /\ Writes(w, worker[w].at, worker[w].found, worker[w].mine \ {q}, worker[w].row)
         /\ \A r \in Row : worker'[w].read[r] = worker[w].read[r]
BY DEF Writes, Shape, FlushRow

LEMMA NobodyWrites ==
  ASSUME Shape, NEW w \in Worker, worker' = [worker EXCEPT ![w] = Nobody]
  PROVE  /\ Writes(w, "idle", {}, {}, {})
         /\ \A r \in Row : worker'[w].read[r] = 0
BY DEF Writes, Shape, FlushRow, Nobody

LEMMA SelectWrites ==
  ASSUME Shape, NEW w \in Worker, Select(w)
  PROVE  /\ Writes(w, "turn", Sendable, {}, {})
         /\ \A r \in Row : worker'[w].read[r] = IF r \in Sendable THEN attempts[r] ELSE 0
BY DEF Select, Writes, Shape, FlushRow, Nobody

LEMMA PrepareDoes ==
  ASSUME Shape, Desk, NEW w \in Worker, NEW q \in Row, Prepare(w, q)
  PROVE  /\ worker[w].at = "turn" /\ worker[w].found = {} /\ q \in worker[w].mine /\ worker[w].row = {}
         /\ UNCHANGED <<attempts, due, seen, faults>>
         /\ \A r \in Row : worker'[w].read[r] = worker[w].read[r]
         /\ \/ /\ status[q] = "pending" /\ UNCHANGED <<status, quota>>
               /\ \E to \in {"exhausted", "reconcile", "send"} :
                    /\ to # "exhausted" => worker[w].read[q] < MaxAttempts
                    /\ Writes(w, to, {}, worker[w].mine \ {q}, {q})
            \/ /\ Writes(w, "turn", {}, worker[w].mine \ {q}, {})
               /\ \/ status[q] # "pending" /\ UNCHANGED <<status, quota>>
                  \/ /\ status[q] = "pending" /\ status' = [status EXCEPT ![q] = "cancelled"]
                     /\ Finalize({q}, {})
<1> DEFINE goes == status[q] = "pending" /\ allowed
           next == CASE ~goes -> "turn"
                     [] goes /\ worker[w].read[q] >= MaxAttempts -> "exhausted"
                     [] goes /\ worker[w].read[q] < MaxAttempts ->
                          IF q[2] = "sms" THEN "reconcile" ELSE "send"
           R == IF goes THEN {q} ELSE {}
<1>1. /\ worker[w].at = "turn" /\ worker[w].found = {} /\ q \in worker[w].mine /\ worker[w].row = {}
      /\ UNCHANGED <<attempts, due, seen, faults>>
  BY DEF Prepare, Desk
<1>2. worker' = [worker EXCEPT ![w].mine = @ \ {q}, ![w].at = next, ![w].row = R]
  BY DEF Prepare
<1>3. worker[w].read[q] \in Nat /\ MaxAttempts \in Nat
  BY OutboxAssumption DEF Shape, FlushRow, OutboxAssumption
<1>4. /\ goes => next \in {"exhausted", "reconcile", "send"}
      /\ goes /\ next # "exhausted" => worker[w].read[q] < MaxAttempts
      /\ ~goes => next = "turn"
  BY <1>3
<1>5. next \in At /\ R \in SUBSET Row
  BY <1>4 DEF At
<1> HIDE DEF next, R
<1>6. /\ Writes(w, next, {}, worker[w].mine \ {q}, R)
      /\ \A r \in Row : worker'[w].read[r] = worker[w].read[r]
  BY <1>1, <1>2, <1>5, PrepareWrites
<1>7. CASE goes
  <2>1. UNCHANGED <<status, quota>>
    BY <1>7 DEF Prepare, KeepQuota
  <2>2. R = {q}
    BY <1>7 DEF R
  <2> QED BY <1>1, <1>4, <1>6, <1>7, <2>1, <2>2
<1>8. CASE ~goes
  <2>1. R = {}
    BY <1>8 DEF R
  <2>2. \/ status[q] # "pending" /\ UNCHANGED <<status, quota>>
        \/ /\ status[q] = "pending" /\ status' = [status EXCEPT ![q] = "cancelled"]
           /\ Finalize({q}, {})
    BY <1>8 DEF Prepare, KeepQuota
  <2> QED BY <1>1, <1>4, <1>6, <1>8, <2>1, <2>2
<1> QED BY <1>7, <1>8

\* The verdict on the row that a flush has tried to send
LEMMA VerdictIs ==
  ASSUME Shape, NEW w \in Worker, NEW q \in worker[w].row,
         worker[w].at \in {"exhausted", "accepted", "rejected", "deferred", "unclear"}
  PROVE  /\ Verdict(w, q) \in {"sent", "fail", "retry"}
         /\ Verdict(w, q) = "sent" <=> worker[w].at = "accepted"
         /\ Verdict(w, q) = "retry" => /\ worker[w].at \in {"deferred", "unclear"}
                                       /\ worker[w].read[q] + 1 < MaxAttempts
<1>1. worker[w].read[q] + 1 \in Nat /\ MaxAttempts \in Nat
  BY OutboxAssumption DEF Shape, FlushRow, OutboxAssumption
<1>2. CASE worker[w].at = "accepted"
  BY <1>2 DEF Verdict
<1>3. CASE worker[w].at \in {"exhausted", "rejected"}
  BY <1>3 DEF Verdict
<1>4. CASE worker[w].at \in {"deferred", "unclear"}
  BY <1>1, <1>4 DEF Verdict
<1> QED BY <1>2, <1>3, <1>4

LEMMA DeskWrites ==
  ASSUME Desk, NEW w \in Worker, NEW at, NEW found, NEW mine, NEW row,
         Writes(w, at, found, mine, row),
         at = "idle" => mine = {},
         at \in {"idle", "turn"} => row = {},
         at # "turn" => found = {},
         found \intersect (mine \union row) = {},
         mine \intersect row = {}
  PROVE  Desk'
BY DEF Desk, Writes, HeldBy

LEMMA DeskStep == Shape /\ Stage /\ Desk /\ [Next]_vars => Desk'
<1> SUFFICES ASSUME Shape, Stage, Desk, [Next]_vars PROVE Desk'
  OBVIOUS
<1>1. CASE UNCHANGED worker
  BY <1>1 DEF Desk, HeldBy
<1>2. ASSUME NEW w \in Worker, Flush(w) \/ FailCall(w) \/ LoseAnswer(w) \/ Crash(w)
      PROVE  Desk'
  <2> DEFINE o == worker[w]
  <2>0. /\ o.at = "idle" => o.mine = {}
        /\ o.at \in {"idle", "turn"} => o.row = {}
        /\ o.at # "turn" => o.found = {}
        /\ o.found \intersect (o.mine \union o.row) = {}
        /\ o.mine \intersect o.row = {}
    BY DEF Desk, HeldBy
  <2>g. ASSUME NEW to \in At \ {"idle", "turn"}, o.at # "turn", Goes(w, to) PROVE Desk'
    <3>1. Writes(w, to, o.found, o.mine, o.row)
      BY <2>g, GoesWrites
    <3> QED BY <2>0, <2>g, <3>1, DeskWrites
  <2>t. ASSUME Turns(w) PROVE Desk'
    BY <2>0, <2>t, TurnsWrites, DeskWrites
  <2>d. ASSUME NEW q \in o.found, worker' = [worker EXCEPT ![w].found = @ \ {q}, ![w].read[q] = 0]
        PROVE  Desk'
    <3>1. q \in Row
      BY DEF Shape, FlushRow
    <3>2. Writes(w, o.at, o.found \ {q}, o.mine, o.row)
      BY <2>d, <3>1, DropWrites
    <3> QED BY <2>0, <3>2, DeskWrites
  <2>n. ASSUME worker' = [worker EXCEPT ![w] = Nobody] PROVE Desk'
    <3>1. Writes(w, "idle", {}, {}, {})
      BY <2>n, NobodyWrites
    <3> QED BY <3>1, DeskWrites
  <2>1. CASE Select(w)
    BY <2>1, SelectWrites, DeskWrites
  <2>2. CASE Finish(w) \/ Crash(w)
    BY <2>2, <2>n DEF Finish, Crash
  <2>3. CASE Reconcile(w) \/ Send(w)
    BY <2>3, <2>g DEF Reconcile, Send, At
  <2>4. CASE Conclude(w)
    <3>1. PICK q \in o.row : Goes(w, Verdict(w, q)) /\ o.at \in {"exhausted", "accepted", "rejected", "deferred", "unclear"}
      BY <2>4 DEF Conclude
    <3> QED BY <2>g, <3>1, VerdictIs DEF At
  <2>5. CASE Record(w)
    BY <2>5, <2>g, <2>t DEF Record, At
  <2>6. CASE QueueFallback(w)
    BY <2>6, <2>t DEF QueueFallback
  <2>7. ASSUME NEW q \in Row, Claim(w, q) PROVE Desk'
    <3>1. q \in o.found
      BY <2>7 DEF Claim
    <3>2. CASE worker' = [worker EXCEPT ![w].found = @ \ {q}, ![w].mine = @ \union {q}]
      <4>1. Writes(w, o.at, o.found \ {q}, o.mine \union {q}, o.row)
        BY <3>2, ClaimWrites
      <4>2. o.at = "turn" /\ o.row = {}
        BY <2>0, <3>1
      <4> QED BY <2>0, <4>1, <4>2, DeskWrites
    <3> QED BY <2>7, <2>d, <3>1, <3>2 DEF Claim
  <2>8. ASSUME NEW q \in Row, Prepare(w, q) PROVE Desk'
    <3>1. CASE \E to \in {"exhausted", "reconcile", "send"} : Writes(w, to, {}, o.mine \ {q}, {q})
      BY <3>1, DeskWrites
    <3>2. CASE Writes(w, "turn", {}, o.mine \ {q}, {})
      BY <3>2, DeskWrites
    <3> QED BY <2>8, <3>1, <3>2, PrepareDoes
  <2>9. CASE FailCall(w)
    <3>1. ASSUME NEW q \in o.mine, o.at = "turn", worker' = [worker EXCEPT ![w].mine = @ \ {q}] PROVE Desk'
      <4>1. q \in Row
        BY DEF Shape, FlushRow
      <4>2. Writes(w, o.at, o.found, o.mine \ {q}, o.row)
        BY <3>1, <4>1, ForgetWrites
      <4> QED BY <2>0, <4>2, DeskWrites
    <3>2. ASSUME NEW q \in o.row, Goes(w, Verdict(w, q)),
                 o.at \in {"exhausted", "accepted", "rejected", "deferred", "unclear"}
          PROVE  Desk'
      BY <2>g, <3>2, VerdictIs DEF At
    <3> QED BY <2>9, <2>d, <2>t, <3>1, <3>2 DEF FailCall
  <2>10. CASE LoseAnswer(w)
    BY <2>10, <2>d, <2>t DEF LoseAnswer
  <2> QED BY <1>2, <2>1, <2>2, <2>3, <2>4, <2>5, <2>6, <2>7, <2>8, <2>9, <2>10 DEF Flush
<1>3. ASSUME ~\E w \in Worker : Flush(w) \/ FailCall(w) \/ LoseAnswer(w) \/ Crash(w)
      PROVE  UNCHANGED worker
  BY <1>3 DEF Next, Enqueue, OptOut, SwitchOff, ComeDue, Overrun, vars
<1> QED BY <1>1, <1>2, <1>3

(***************************************************************************)
(* The attempts.                                                            *)
(***************************************************************************)
LEMMA Numbers ==
  ASSUME Shape, Bounded
  PROVE  /\ MaxAttempts \in Nat /\ MaxAttempts >= 1 /\ faults \in Nat /\ MaxFaults \in Nat
         /\ \A r \in Row : attempts[r] \in Nat
         /\ \A w \in Worker, r \in Row : worker[w].read[r] \in Nat
         /\ \A w \in Worker : /\ worker[w].row \subseteq Row /\ worker[w].mine \subseteq Row
                              /\ worker[w].found \subseteq Row
BY OutboxAssumption DEF Shape, FlushRow, Bounded, OutboxAssumption

LEMMA ReadsKeep ==
  ASSUME Shape, Bounded, NEW w \in Worker, faults' \in {faults, faults + 1},
         \A v \in Worker \ {w} : worker'[v] = worker[v],
         \A r \in Row : worker'[w].read[r] \in {0, worker[w].read[r]}
  PROVE  ReadsBounded'
<1>1. \A v \in Worker, r \in Row : worker'[v].read[r] \in {0, worker[v].read[r]}
  OBVIOUS
<1> QED BY <1>1, Numbers DEF Bounded, ReadsBounded

LEMMA SpendKeeps ==
  ASSUME Bounded, NEW w \in Worker, NEW at, NEW found, NEW mine, NEW row,
         Writes(w, at, found, mine, row),
         \A r \in row :
           /\ at \notin {"exhausted", "fail", "fallback"} => worker'[w].read[r] < MaxAttempts
           /\ at = "retry" => worker'[w].read[r] + 1 < MaxAttempts
  PROVE  SpendsNoMore'
BY DEF Writes, SpendsNoMore, Bounded

\* A row whose columns stay as they are, and that nobody lets go
LEMMA SpentKeeps ==
  ASSUME NEW r \in Row, Spent(r), faults' = faults,
         status'[r] = status[r], attempts'[r] = attempts[r], r \in due' => r \in due,
         status[r] = "pending" /\ LastClaim(r) => LastClaim(r)'
  PROVE  Spent(r)'
BY DEF Spent

LEMMA StillHeld ==
  ASSUME NEW w \in Worker, NEW r \in Row, \A v \in Worker \ {w} : worker'[v] = worker[v],
         r \in HeldBy(w) /\ worker[w].read[r] >= MaxAttempts =>
           r \in HeldBy(w)' /\ worker'[w].read[r] = worker[w].read[r],
         LastClaim(r)
  PROVE  LastClaim(r)'
<1>1. PICK v \in Worker : r \in HeldBy(v) /\ worker[v].read[r] >= MaxAttempts
  BY DEF LastClaim
<1>2. v # w => HeldBy(v)' = HeldBy(v) /\ worker'[v] = worker[v]
  BY DEF HeldBy
<1> QED BY <1>1, <1>2 DEF LastClaim

\* A fault pays for one more claim.
LEMMA FaultPays ==
  ASSUME Shape, Bounded, NEW w \in Worker, NEW R, Fault(R),
         \A v \in Worker \ {w} : worker'[v] = worker[v],
         \A r \in Row : worker'[w].read[r] \in {0, worker[w].read[r]},
         \A r \in Row : /\ attempts'[r] = attempts[r] \/ attempts'[r] = worker[w].read[r] + 1
                        /\ status'[r] = "absent" => status[r] = "absent" /\ attempts'[r] = attempts[r],
         SpendsNoMore'
  PROVE  Bounded'
<1>1. faults' = faults + 1 /\ faults < MaxFaults
  BY DEF Fault
<1>2. ReadsBounded'
  BY <1>1, ReadsKeep
<1>3. faults' \in 0..MaxFaults
  BY <1>1, Numbers
<1>4. ASSUME NEW r \in Row PROVE Spent(r)'
  <2>1. attempts'[r] <= MaxAttempts + 1 + faults /\ attempts'[r] \in Nat
    BY Numbers DEF Bounded, Spent, ReadsBounded
  <2>2. status'[r] = "absent" => attempts'[r] = 0
    BY DEF Bounded, Spent
  <2> QED BY <1>1, <2>1, <2>2, Numbers DEF Spent
<1> QED BY <1>2, <1>3, <1>4 DEF Bounded

LEMMA FaultsBound ==
  ASSUME Shape, Stage, Desk, Bounded, NEW w \in Worker, FailCall(w) \/ LoseAnswer(w) \/ Crash(w)
  PROVE  Bounded'
<1> DEFINE o == worker[w]
<1>0. /\ o.row \subseteq Row /\ o.found \subseteq Row /\ o.mine \subseteq Row /\ o.at \in At
      /\ \A r \in o.row : /\ o.at \notin {"exhausted", "fail", "fallback"} => o.read[r] < MaxAttempts
                          /\ o.at = "retry" => o.read[r] + 1 < MaxAttempts
  BY DEF Bounded, SpendsNoMore, Shape, FlushRow
<1>d. ASSUME NEW q \in Row, worker' = [worker EXCEPT ![w].found = @ \ {q}, ![w].read[q] = 0],
             q \in o.found
      PROVE  /\ \A v \in Worker \ {w} : worker'[v] = worker[v]
             /\ \A r \in Row : worker'[w].read[r] \in {0, o.read[r]}
             /\ SpendsNoMore'
  <2>1. /\ Writes(w, o.at, o.found \ {q}, o.mine, o.row)
        /\ \A r \in Row : worker'[w].read[r] = IF r = q THEN 0 ELSE o.read[r]
    BY <1>d, DropWrites
  <2>2. o.row = {}
    BY <1>0, <1>d DEF Desk
  <2>3. SpendsNoMore'
    BY <2>1, <2>2, SpendKeeps
  <2> QED BY <2>1, <2>3 DEF Writes
<1>t. ASSUME Turns(w)
      PROVE  /\ \A v \in Worker \ {w} : worker'[v] = worker[v]
             /\ \A r \in Row : worker'[w].read[r] \in {0, o.read[r]}
             /\ SpendsNoMore'
  <2>1. /\ Writes(w, "turn", o.found, o.mine, {})
        /\ \A r \in Row : worker'[w].read[r] = IF r \in o.row THEN 0 ELSE o.read[r]
    BY <1>t, TurnsWrites
  <2>2. SpendsNoMore'
    BY <2>1, SpendKeeps
  <2> QED BY <2>1, <2>2 DEF Writes
<1>1. CASE FailCall(w)
  <2>1. Fault(o.row) /\ UNCHANGED <<status, attempts>>
    BY <1>1 DEF FailCall, rows
  <2> SUFFICES /\ \A v \in Worker \ {w} : worker'[v] = worker[v]
               /\ \A r \in Row : worker'[w].read[r] \in {0, o.read[r]}
               /\ SpendsNoMore'
    BY <2>1, FaultPays
  <2>2. ASSUME NEW q \in o.mine, worker' = [worker EXCEPT ![w].mine = @ \ {q}], o.at = "turn"
        PROVE  /\ \A v \in Worker \ {w} : worker'[v] = worker[v]
               /\ \A r \in Row : worker'[w].read[r] \in {0, o.read[r]}
               /\ SpendsNoMore'
    <3>1. /\ Writes(w, o.at, o.found, o.mine \ {q}, o.row)
          /\ \A r \in Row : worker'[w].read[r] = o.read[r]
      BY <1>0, <2>2, ForgetWrites
    <3>2. SpendsNoMore'
      BY <1>0, <3>1, SpendKeeps
    <3> QED BY <3>1, <3>2 DEF Writes
  <2>3. ASSUME NEW q \in o.row, Goes(w, Verdict(w, q)),
               o.at \in {"exhausted", "accepted", "rejected", "deferred", "unclear"}
        PROVE  /\ \A v \in Worker \ {w} : worker'[v] = worker[v]
               /\ \A r \in Row : worker'[w].read[r] \in {0, o.read[r]}
               /\ SpendsNoMore'
    <3>1. /\ Verdict(w, q) \in At /\ Verdict(w, q) \in {"sent", "fail", "retry"}
          /\ Verdict(w, q) = "sent" => o.at = "accepted"
          /\ Verdict(w, q) = "retry" => o.at \in {"deferred", "unclear"} /\ o.read[q] + 1 < MaxAttempts
      BY <2>3, VerdictIs DEF At
    <3>2. /\ Writes(w, Verdict(w, q), o.found, o.mine, o.row)
          /\ \A r \in Row : worker'[w].read[r] = o.read[r]
      BY <2>3, <3>1, GoesWrites
    <3>3. \A r \in o.row : r = q
      BY DEF Stage
    <3>4. SpendsNoMore'
      BY <1>0, <2>3, <3>1, <3>2, <3>3, SpendKeeps
    <3> QED BY <3>2, <3>4 DEF Writes
  <2> QED BY <1>0, <1>1, <1>d, <1>t, <2>2, <2>3 DEF FailCall
<1>2. CASE LoseAnswer(w)
  <2>1. PICK q \in Row :
          /\ Fault({q}) /\ status[q] = "pending"
          /\ attempts' = [attempts EXCEPT ![q] = o.read[q] + 1]
          /\ status' = status \/ status' = [status EXCEPT ![q] = "failed"]
          /\ \/ q \in o.found /\ worker' = [worker EXCEPT ![w].found = @ \ {q}, ![w].read[q] = 0]
             \/ Turns(w)
    BY <1>0, <1>2 DEF LoseAnswer, Claims
  <2>2. \A r \in Row : /\ attempts'[r] = attempts[r] \/ attempts'[r] = o.read[r] + 1
                       /\ status'[r] = "absent" => status[r] = "absent" /\ attempts'[r] = attempts[r]
    BY <2>1 DEF Shape
  <2>3. /\ \A v \in Worker \ {w} : worker'[v] = worker[v]
        /\ \A r \in Row : worker'[w].read[r] \in {0, o.read[r]}
        /\ SpendsNoMore'
    BY <1>d, <1>t, <2>1
  <2> QED BY <2>1, <2>2, <2>3, FaultPays
<1>3. CASE Crash(w)
  <2>1. Fault(o.row) /\ UNCHANGED <<status, attempts>> /\ worker' = [worker EXCEPT ![w] = Nobody]
    BY <1>3 DEF Crash, rows
  <2>2. Writes(w, "idle", {}, {}, {}) /\ \A r \in Row : worker'[w].read[r] = 0
    BY <2>1, NobodyWrites
  <2>3. SpendsNoMore'
    BY <2>2, SpendKeeps
  <2>4. /\ \A v \in Worker \ {w} : worker'[v] = worker[v]
        /\ \A r \in Row : worker'[w].read[r] \in {0, o.read[r]}
    BY <2>2 DEF Writes
  <2> QED BY <2>1, <2>3, <2>4, FaultPays
<1> QED BY <1>1, <1>2, <1>3

LEMMA FlushBounds ==
  ASSUME Shape, Stage, Desk, Bounded, NEW w \in Worker, Flush(w)
  PROVE  Bounded'
<1> DEFINE o == worker[w]
<1>0. /\ o.row \subseteq Row /\ o.found \subseteq Row /\ o.mine \subseteq Row /\ o.at \in At
      /\ \A r \in o.row : /\ o.at \notin {"exhausted", "fail", "fallback"} => o.read[r] < MaxAttempts
                          /\ o.at = "retry" => o.read[r] + 1 < MaxAttempts
      /\ \A r \in Row : o.read[r] \in Nat /\ attempts[r] \in Nat
      /\ MaxAttempts \in Nat /\ MaxAttempts >= 1 /\ faults \in Nat
  BY Numbers DEF Bounded, SpendsNoMore, Shape, FlushRow
<1>1. faults' = faults
  BY DEF Flush, Select, Finish, Reconcile, Send, Conclude, Record, QueueFallback, Claim, Prepare
<1>b. ASSUME ReadsBounded', SpendsNoMore', \A r \in Row : Spent(r)' PROVE Bounded'
  BY <1>1, <1>b DEF Bounded
<1>r. ASSUME NEW at, NEW found, NEW mine, NEW row, Writes(w, at, found, mine, row),
             \A r \in Row : worker'[w].read[r] \in {0, o.read[r]}
      PROVE  ReadsBounded'
  BY <1>1, <1>r, ReadsKeep DEF Writes
\* A step of this flush that keeps the row and what it holds
<1>s. ASSUME NEW r \in Row, NEW at, NEW found, NEW mine, NEW row, Writes(w, at, found, mine, row),
             status'[r] = status[r], attempts'[r] = attempts[r], r \in due' => r \in due,
             r \in o.mine \union o.row /\ status[r] = "pending" /\ o.read[r] >= MaxAttempts =>
               r \in mine \union row /\ worker'[w].read[r] = o.read[r]
      PROVE  Spent(r)'
  <2>1. status[r] = "pending" /\ LastClaim(r) => LastClaim(r)'
    BY <1>s, StillHeld DEF Writes, HeldBy
  <2> QED BY <1>1, <1>s, <2>1, SpentKeeps DEF Bounded
<1>2. CASE Select(w)
  <2>1. /\ Writes(w, "turn", Sendable, {}, {})
        /\ \A r \in Row : worker'[w].read[r] = IF r \in Sendable THEN attempts[r] ELSE 0
    BY <1>2, SelectWrites
  <2>2. UNCHANGED <<status, attempts, due>> /\ o.at = "idle"
    BY <1>2 DEF Select, rows
  <2>3. \A r \in Sendable : r \in Row /\ attempts[r] <= MaxAttempts + faults
    BY <1>0 DEF Sendable, Bounded, Spent, Shape
  <2>4. ReadsBounded'
    <3>1. \A v \in Worker \ {w} : worker'[v] = worker[v]
      BY <2>1 DEF Writes
    <3> QED BY <1>0, <1>1, <2>1, <2>3, <3>1 DEF Bounded, ReadsBounded
  <2>5. SpendsNoMore'
    BY <2>1, SpendKeeps
  <2>6. \A r \in Row : Spent(r)'
    BY <1>s, <2>1, <2>2 DEF Desk
  <2> QED BY <1>b, <2>4, <2>5, <2>6
<1>3. CASE Finish(w)
  <2>1. Writes(w, "idle", {}, {}, {}) /\ \A r \in Row : worker'[w].read[r] = 0
    BY <1>3, NobodyWrites DEF Finish
  <2>2. UNCHANGED <<status, attempts, due>> /\ o.mine = {} /\ o.row = {}
    BY <1>3 DEF Finish, rows, Desk
  <2>3. SpendsNoMore'
    BY <2>1, SpendKeeps
  <2>4. \A r \in Row : Spent(r)'
    BY <1>s, <2>1, <2>2
  <2> QED BY <1>b, <1>r, <2>1, <2>3, <2>4
<1>4. ASSUME NEW to \in At, Goes(w, to), UNCHANGED <<status, attempts, due>>,
             \A r \in o.row : /\ to \notin {"exhausted", "fail", "fallback"} => o.read[r] < MaxAttempts
                              /\ to = "retry" => o.read[r] + 1 < MaxAttempts
      PROVE  Bounded'
  <2>1. Writes(w, to, o.found, o.mine, o.row) /\ \A r \in Row : worker'[w].read[r] = o.read[r]
    BY <1>4, GoesWrites
  <2>2. SpendsNoMore'
    BY <1>0, <1>4, <2>1, SpendKeeps
  <2>3. \A r \in Row : Spent(r)'
    BY <1>s, <1>4, <2>1
  <2> QED BY <1>b, <1>r, <2>1, <2>2, <2>3
<1>5. CASE Reconcile(w) \/ Send(w)
  <2>1. /\ o.at \in {"reconcile", "send"} /\ UNCHANGED <<status, attempts, due>>
        /\ \E to \in {"send", "unclear", "accepted", "rejected", "deferred"} : Goes(w, to)
    BY <1>5 DEF Reconcile, Send, rows
  <2> QED BY <1>0, <1>4, <2>1 DEF At
<1>6. CASE Conclude(w)
  <2>1. PICK q \in o.row : Goes(w, Verdict(w, q)) /\ o.at \in {"exhausted", "accepted", "rejected", "deferred", "unclear"}
    BY <1>6 DEF Conclude
  <2>2. /\ Verdict(w, q) \in {"sent", "fail", "retry"}
        /\ Verdict(w, q) = "sent" => o.at = "accepted"
        /\ Verdict(w, q) = "retry" => o.at \in {"deferred", "unclear"} /\ o.read[q] + 1 < MaxAttempts
    BY <2>1, VerdictIs
  <2>3. \A r \in o.row : r = q
    BY DEF Stage
  <2>4. UNCHANGED <<status, attempts, due>>
    BY <1>6 DEF Conclude
  <2> QED BY <1>0, <1>4, <2>1, <2>2, <2>3, <2>4 DEF At
<1>7. CASE Record(w)
  <2>1. PICK q \in o.row :
          /\ o.at \in {"sent", "fail", "retry"}
          /\ \/ status[q] # "pending" /\ Turns(w) /\ UNCHANGED <<status, attempts, due>>
             \/ /\ status[q] = "pending"
                /\ status' = [status EXCEPT ![q] =
                      CASE o.at = "sent" -> "sent" [] o.at = "fail" -> "failed"
                        [] o.at = "retry" -> "pending"]
                /\ attempts' = [attempts EXCEPT ![q] = o.read[q] + 1]
                /\ due' \subseteq due
                /\ Turns(w) \/ Goes(w, "fallback")
    BY <1>7 DEF Record, Closed
  <2>2. \A r \in o.row : r = q
    BY DEF Stage
  <2>3. PICK at \in {"turn", "fallback"}, row \in SUBSET Row :
          /\ Writes(w, at, o.found, o.mine, row)
          /\ at = "turn" => row = {}
          /\ \A r \in Row \ {q} : worker'[w].read[r] = o.read[r]
          /\ worker'[w].read[q] \in {0, o.read[q]}
    <3>1. CASE Turns(w)
      <4>1. /\ Writes(w, "turn", o.found, o.mine, {})
            /\ \A r \in Row : worker'[w].read[r] = IF r \in o.row THEN 0 ELSE o.read[r]
        BY <3>1, TurnsWrites
      <4>2. /\ \A r \in Row \ {q} : worker'[w].read[r] = o.read[r]
            /\ worker'[w].read[q] \in {0, o.read[q]}
        BY <1>0, <2>2, <4>1
      <4> QED BY <4>1, <4>2
    <3>2. CASE Goes(w, "fallback")
      BY <1>0, <3>2, GoesWrites DEF At
    <3> QED BY <2>1, <3>1, <3>2
  <2>4. ReadsBounded'
    BY <1>r, <2>3
  <2>5. SpendsNoMore'
    BY <2>3, SpendKeeps
  <2>6. ASSUME NEW r \in Row \ {q} PROVE Spent(r)'
    <3>1. status'[r] = status[r] /\ attempts'[r] = attempts[r] /\ (r \in due' => r \in due)
      BY <2>1 DEF Shape
    <3> QED BY <1>s, <2>2, <2>3, <2>6, <3>1
  <2>7. Spent(q)'
    <3>1. CASE status[q] # "pending" /\ UNCHANGED <<status, attempts, due>>
      BY <1>0, <1>s, <2>3, <3>1
    <3>2. CASE /\ status[q] = "pending"
               /\ status' = [status EXCEPT ![q] =
                     CASE o.at = "sent" -> "sent" [] o.at = "fail" -> "failed"
                       [] o.at = "retry" -> "pending"]
               /\ attempts' = [attempts EXCEPT ![q] = o.read[q] + 1]
      <4>1. attempts'[q] = o.read[q] + 1 /\ o.read[q] <= MaxAttempts + faults
        BY <1>0, <3>2 DEF Shape, Bounded, ReadsBounded
      <4>2. status'[q] # "absent" /\ (status'[q] = "pending" => o.at = "retry")
        BY <1>0, <2>1, <3>2 DEF Shape
      <4> QED BY <1>0, <1>1, <4>1, <4>2 DEF Spent
    <3> QED BY <2>1, <3>1, <3>2
  <2> QED BY <1>b, <2>4, <2>5, <2>6, <2>7
<1>8. CASE QueueFallback(w)
  <2>1. PICK q \in o.row :
          /\ o.at = "fallback" /\ status[q] = "failed"
          /\ \/ UNCHANGED status
             \/ /\ status[Fallback(q)] = "absent"
                /\ \E s \in {"pending", "refused"} : status' = [status EXCEPT ![Fallback(q)] = s]
    BY <1>8 DEF QueueFallback, Refused, Stage
  <2>2. UNCHANGED <<attempts, due>> /\ Turns(w)
    BY <1>8 DEF QueueFallback
  <2>3. /\ Writes(w, "turn", o.found, o.mine, {})
        /\ \A r \in Row : worker'[w].read[r] = IF r \in o.row THEN 0 ELSE o.read[r]
    BY <2>2, TurnsWrites
  <2>4. \A r \in o.row : r = q
    BY DEF Stage
  <2>5. SpendsNoMore'
    BY <2>3, SpendKeeps
  <2>6. ASSUME NEW r \in Row PROVE Spent(r)'
    <3>1. CASE status'[r] = status[r]
      BY <1>s, <2>1, <2>2, <2>3, <2>4, <3>1
    <3>2. CASE status'[r] # status[r]
      <4>1. status[r] = "absent" /\ status'[r] # "absent" /\ attempts'[r] = attempts[r]
        BY <2>1, <2>2, <3>2 DEF Shape
      <4>2. attempts'[r] = 0
        BY <4>1 DEF Bounded, Spent
      <4> QED BY <1>0, <1>1, <4>1, <4>2 DEF Spent
    <3> QED BY <3>1, <3>2
  <2> QED BY <1>b, <1>r, <2>3, <2>5, <2>6
<1>9. ASSUME NEW q \in Row, Claim(w, q) PROVE Bounded'
  <2>1. q \in o.found /\ UNCHANGED status /\ o.row = {} /\ q \notin o.mine
    BY <1>9 DEF Claim, Desk, HeldBy
  <2>2. CASE Claims(w, q)
    <3>1. /\ status[q] = "pending" /\ due' = due \ {q}
          /\ attempts' = [attempts EXCEPT ![q] = o.read[q] + 1]
          /\ worker' = [worker EXCEPT ![w].found = @ \ {q}, ![w].mine = @ \union {q}]
      BY <1>9, <2>2 DEF Claim, Claims
    <3>2. /\ Writes(w, o.at, o.found \ {q}, o.mine \union {q}, o.row)
          /\ \A r \in Row : worker'[w].read[r] = o.read[r]
      BY <3>1, ClaimWrites
    <3>3. SpendsNoMore'
      BY <2>1, <3>2, SpendKeeps
    <3>4. ASSUME NEW r \in Row \ {q} PROVE Spent(r)'
      <4>1. status'[r] = status[r] /\ attempts'[r] = attempts[r] /\ (r \in due' => r \in due)
        BY <2>1, <3>1 DEF Shape
      <4> QED BY <1>s, <3>2, <4>1
    <3>5. Spent(q)'
      <4>1. attempts'[q] = o.read[q] + 1 /\ o.read[q] <= MaxAttempts + faults
        BY <1>0, <3>1 DEF Shape, Bounded, ReadsBounded
      <4>2. o.read[q] >= MaxAttempts => LastClaim(q)'
        BY <3>2 DEF LastClaim, HeldBy, Writes
      <4> QED BY <1>0, <1>1, <2>1, <3>1, <4>1, <4>2 DEF Spent
    <3> QED BY <1>b, <1>r, <3>2, <3>3, <3>4, <3>5
  <2>3. CASE ~Claims(w, q)
    <3>1. /\ UNCHANGED <<attempts, due>>
          /\ worker' = [worker EXCEPT ![w].found = @ \ {q}, ![w].read[q] = 0]
      BY <1>9, <2>3 DEF Claim
    <3>2. /\ Writes(w, o.at, o.found \ {q}, o.mine, o.row)
          /\ \A r \in Row : worker'[w].read[r] = IF r = q THEN 0 ELSE o.read[r]
      BY <3>1, DropWrites
    <3>3. SpendsNoMore'
      BY <2>1, <3>2, SpendKeeps
    <3>4. \A r \in Row : Spent(r)'
      BY <1>s, <2>1, <3>1, <3>2
    <3> QED BY <1>b, <1>r, <3>2, <3>3, <3>4
  <2> QED BY <2>2, <2>3
<1>10. ASSUME NEW q \in Row, Prepare(w, q) PROVE Bounded'
  <2>1. /\ o.found = {} /\ o.row = {} /\ q \in o.mine /\ UNCHANGED <<attempts, due>>
        /\ \A r \in Row : worker'[w].read[r] = o.read[r]
    BY <1>10, PrepareDoes
  <2>2. ASSUME NEW to \in {"exhausted", "reconcile", "send"}, UNCHANGED status,
               to # "exhausted" => o.read[q] < MaxAttempts, Writes(w, to, {}, o.mine \ {q}, {q})
        PROVE  Bounded'
    <3>1. SpendsNoMore'
      BY <2>1, <2>2, SpendKeeps
    <3>2. \A r \in Row : Spent(r)'
      BY <1>s, <2>1, <2>2
    <3> QED BY <1>b, <1>r, <2>1, <2>2, <3>1, <3>2
  <2>3. ASSUME Writes(w, "turn", {}, o.mine \ {q}, {}),
               \/ status[q] # "pending" /\ UNCHANGED status
               \/ status[q] = "pending" /\ status' = [status EXCEPT ![q] = "cancelled"]
        PROVE  Bounded'
    <3>1. SpendsNoMore'
      BY <2>3, SpendKeeps
    <3>2. ASSUME NEW r \in Row \ {q} PROVE Spent(r)'
      <4>1. status'[r] = status[r]
        BY <2>3 DEF Shape
      <4> QED BY <1>s, <2>1, <2>3, <4>1
    <3>3. Spent(q)'
      <4>1. status'[q] \notin {"pending", "absent"} \/ (status[q] # "pending" /\ status'[q] = status[q])
        BY <2>3 DEF Shape
      <4> QED BY <1>1, <2>1, <4>1 DEF Bounded, Spent
    <3> QED BY <1>b, <1>r, <2>1, <2>3, <3>1, <3>2, <3>3
  <2> QED BY <1>10, <2>2, <2>3, PrepareDoes
<1> QED BY <1>2, <1>3, <1>5, <1>6, <1>7, <1>8, <1>9, <1>10 DEF Flush

LEMMA OthersBound ==
  ASSUME Shape, Stage, Desk, Bounded,
         \/ \E m \in Message : Enqueue(m) \/ OptOut(m)
         \/ SwitchOff
         \/ \E r \in Row : ComeDue(r) \/ Overrun(r)
         \/ UNCHANGED vars
  PROVE  Bounded'
<1>1. worker' = worker /\ attempts' = attempts
  BY DEF Enqueue, OptOut, SwitchOff, ComeDue, Overrun, vars, rows
<1>2. SpendsNoMore'
  BY <1>1 DEF Bounded, SpendsNoMore
<1>3. CASE faults' = faults
  <2>1. ReadsBounded'
    BY <1>1, <1>3 DEF Bounded, ReadsBounded
  <2>2. \A r \in Row : LastClaim(r) => LastClaim(r)'
    BY <1>1 DEF LastClaim, HeldBy
  <2>3. ASSUME NEW r \in Row, status'[r] = "cancelled" PROVE Spent(r)'
    BY <1>1, <1>3, <2>3 DEF Bounded, Spent
  <2>4. ASSUME NEW r \in Row, status'[r] = status[r], r \in due' => r \in due PROVE Spent(r)'
    BY <1>1, <1>3, <2>2, <2>4 DEF Bounded, Spent
  <2>5. ASSUME NEW m \in Message, Enqueue(m), NEW r \in Row PROVE Spent(r)'
    <3>1. CASE r = <<m, "whatsapp">>
      <4>1. attempts'[r] = 0 /\ status'[r] = "pending"
        BY <1>1, <2>5, <3>1 DEF Enqueue, Bounded, Spent, Shape
      <4> QED BY <1>3, <4>1, Numbers DEF Spent
    <3>2. CASE r # <<m, "whatsapp">>
      BY <2>4, <2>5, <3>2 DEF Enqueue, Shape
    <3> QED BY <3>1, <3>2
  <2>6. ASSUME NEW R \in SUBSET Row, Cancel(R), due' = due, NEW r \in Row PROVE Spent(r)'
    BY <2>3, <2>4, <2>6 DEF Cancel
  <2>7. ASSUME NEW q \in Row, ComeDue(q), NEW r \in Row PROVE Spent(r)'
    <3>1. CASE r # q
      BY <2>4, <2>7, <3>1 DEF ComeDue
    <3>2. CASE r = q
      <4>1. ~LastClaim(q)
        BY <2>7 DEF ComeDue, LastClaim, Held
      <4> QED BY <1>1, <1>3, <2>7, <3>2, <4>1 DEF ComeDue, Bounded, Spent
    <3> QED BY <3>1, <3>2
  <2>8. ASSUME NEW m \in Message, OptOut(m), NEW r \in Row PROVE Spent(r)'
    BY <2>6, <2>8 DEF OptOut
  <2>9. ASSUME SwitchOff, NEW r \in Row PROVE Spent(r)'
    BY <2>6, <2>9 DEF SwitchOff
  <2>10. ASSUME UNCHANGED vars, NEW r \in Row PROVE Spent(r)'
    BY <2>4, <2>10 DEF vars, rows
  <2>11. \A r \in Row : Spent(r)'
    <3>1. \A q \in Row : ~Overrun(q)
      BY <1>3, Numbers DEF Overrun, Fault
    <3> QED BY <2>5, <2>7, <2>8, <2>9, <2>10, <3>1
  <2> QED BY <1>2, <1>3, <2>1, <2>11 DEF Bounded
<1>4. CASE faults' # faults
  <2>1. PICK q \in Row : Overrun(q)
    BY <1>4 DEF Enqueue, OptOut, SwitchOff, ComeDue, vars
  <2>2. status' = status /\ faults' = faults + 1 /\ faults < MaxFaults
    BY <2>1 DEF Overrun, Fault
  <2>3. \A w \in Worker, r \in Row : worker'[w].read[r] <= MaxAttempts + faults'
    BY <1>1, <2>2, Numbers DEF Bounded, ReadsBounded
  <2>4. \A r \in Row : Spent(r)'
    BY <1>1, <2>2, Numbers DEF Bounded, Spent
  <2>5. faults' \in 0..MaxFaults
    BY <2>2, Numbers
  <2> QED BY <1>2, <2>3, <2>4, <2>5 DEF Bounded, ReadsBounded
<1> QED BY <1>3, <1>4

LEMMA BoundedStep == Shape /\ Stage /\ Desk /\ Bounded /\ [Next]_vars => Bounded'
BY FlushBounds, FaultsBound, OthersBound DEF Next

(***************************************************************************)
(* The types, bounds included.                                              *)
(***************************************************************************)
LEMMA SeenStep ==
  ASSUME Shape, [Next]_vars,
         allowed \in BOOLEAN, optedOut \subseteq Message,
         unsure \subseteq Row, accepted \in [Row -> 0..2]
  PROVE  /\ allowed' \in BOOLEAN /\ optedOut' \subseteq Message
         /\ unsure' \subseteq Row /\ accepted' \in [Row -> 0..2]
<1>0. \A w \in Worker : worker[w].row \subseteq Row /\ worker[w].found \subseteq Row
  BY DEF Shape, FlushRow
<1>1. CASE UNCHANGED <<policy, seen>>
  BY <1>1 DEF policy, seen
<1>2. ASSUME NEW m \in Message, Enqueue(m) \/ OptOut(m)
      PROVE  /\ allowed' \in BOOLEAN /\ optedOut' \subseteq Message
             /\ unsure' \subseteq Row /\ accepted' \in [Row -> 0..2]
  BY <1>2 DEF Enqueue, OptOut, policy, seen
<1>3. ASSUME SwitchOff
      PROVE  /\ allowed' \in BOOLEAN /\ optedOut' \subseteq Message
             /\ unsure' \subseteq Row /\ accepted' \in [Row -> 0..2]
  BY <1>3 DEF SwitchOff, seen
<1>4. ASSUME NEW r \in Row, Overrun(r)
      PROVE  /\ allowed' \in BOOLEAN /\ optedOut' \subseteq Message
             /\ unsure' \subseteq Row /\ accepted' \in [Row -> 0..2]
  BY <1>4 DEF Overrun, Fault, policy
<1>5. ASSUME NEW w \in Worker, Send(w)
      PROVE  /\ allowed' \in BOOLEAN /\ optedOut' \subseteq Message
             /\ unsure' \subseteq Row /\ accepted' \in [Row -> 0..2]
  <2>1. PICK r \in Row, took \in BOOLEAN :
          /\ accepted' = [accepted EXCEPT ![r] = IF took /\ @ < 2 THEN @ + 1 ELSE @]
          /\ unsure' \in {unsure, unsure \union {r}}
    BY <1>0, <1>5 DEF Send
  <2>2. accepted' \in [Row -> 0..2]
    BY <2>1
  <2> QED BY <1>5, <2>1, <2>2 DEF Send, policy
<1>6. ASSUME NEW w \in Worker, FailCall(w) \/ LoseAnswer(w) \/ Crash(w)
      PROVE  /\ allowed' \in BOOLEAN /\ optedOut' \subseteq Message
             /\ unsure' \subseteq Row /\ accepted' \in [Row -> 0..2]
  BY <1>0, <1>6 DEF FailCall, LoseAnswer, Crash, Fault, policy
<1>7. ASSUME NEW w \in Worker, Flush(w), ~Send(w) PROVE UNCHANGED <<policy, seen>>
  BY <1>7 DEF Flush, Select, Finish, Reconcile, Conclude, Record, QueueFallback, Claim, Prepare
<1>8. ASSUME NEW r \in Row, ComeDue(r) PROVE UNCHANGED <<policy, seen>>
  BY <1>8 DEF ComeDue
<1>9. UNCHANGED vars => UNCHANGED <<policy, seen>>
  BY DEF vars
<1> QED BY <1>1, <1>2, <1>3, <1>4, <1>5, <1>6, <1>7, <1>8, <1>9 DEF Next

OutboxInv ==
  /\ Shape /\ Stage /\ Counted /\ Desk /\ Bounded
  /\ allowed \in BOOLEAN /\ optedOut \subseteq Message
  /\ unsure \subseteq Row /\ accepted \in [Row -> 0..2]

LEMMA OutboxInit == Init => OutboxInv
<1> SUFFICES ASSUME Init PROVE OutboxInv
  OBVIOUS
<1>1. Shape /\ Stage
  BY ShapeInit
<1>2. Counted
  BY CountedInit
<1>3. Desk
  BY DEF Init, Desk, Nobody, HeldBy
<1>4. Bounded
  BY OutboxAssumption DEF Init, Bounded, ReadsBounded, Spent, SpendsNoMore, Nobody, OutboxAssumption
<1> QED BY <1>1, <1>2, <1>3, <1>4 DEF Init, OutboxInv

LEMMA OutboxStep == OutboxInv /\ [Next]_vars => OutboxInv'
BY ShapeStep, CountedStep, DeskStep, BoundedStep, SeenStep DEF OutboxInv

LEMMA OutboxInvariant == Spec => []OutboxInv
BY OutboxInit, OutboxStep, PTL DEF Spec

LEMMA OutboxTypes == OutboxInv => TypeOK
<1> SUFFICES ASSUME OutboxInv PROVE TypeOK
  OBVIOUS
<1>1. /\ MaxAttempts \in Nat /\ faults \in 0..MaxFaults /\ MaxFaults \in Nat /\ QuotaLimit \in Nat
      /\ Top \in Nat /\ MaxAttempts + 1 + faults <= Top
  BY Numbers, OutboxAssumption DEF OutboxInv, Bounded, OutboxAssumption, Top
<1>2. attempts \in [Row -> 0..Top]
  <2>1. \A r \in Row : attempts[r] \in Nat /\ attempts[r] <= MaxAttempts + 1 + faults
    BY Numbers DEF OutboxInv, Bounded, Spent
  <2>2. \A r \in Row : attempts[r] \in 0..Top
    BY <1>1, <2>1
  <2> QED BY <2>2 DEF OutboxInv, Shape
<1>3. \A w \in Worker : worker[w].read \in [Row -> 0..Top]
  <2>1. \A w \in Worker, r \in Row : worker[w].read[r] \in Nat /\ worker[w].read[r] <= MaxAttempts + faults
    BY Numbers DEF OutboxInv, Bounded, ReadsBounded
  <2>2. \A w \in Worker, r \in Row : worker[w].read[r] \in 0..Top
    BY <1>1, <2>1
  <2> QED BY <2>2 DEF OutboxInv, Shape, FlushRow
<1>4. worker \in [Worker -> [at : At, found : SUBSET Row, mine : SUBSET Row,
                             row : SUBSET Row, read : [Row -> 0..Top]]]
  BY <1>3 DEF OutboxInv, Shape, FlushRow
<1>5. reserved \in 0..QuotaLimit /\ used \in 0..QuotaLimit
  BY <1>1 DEF OutboxInv, Counted, QuotaExact
<1> QED BY <1>1, <1>2, <1>4, <1>5 DEF OutboxInv, Shape, TypeOK

\* Every row, lease and counter keeps to its range; in particular a row is claimed at
\* most max_attempts + 1 times, but for the claims that were lost to faults
\* (notification-flush:223).
THEOREM OutboxTypeCorrect == Spec => []TypeOK
BY OutboxInvariant, OutboxTypes, PTL

(***************************************************************************)
(* A row without a fault.                                                   *)
(***************************************************************************)
\* A row whose columns stay, held by no flush that did not hold it, and sent by the same one
NoNewHold(r) ==
  \A v \in Worker :
    /\ r \in worker'[v].found => r \in worker[v].found /\ worker'[v].read[r] = worker[v].read[r]
    /\ r \in HeldBy(v)' => r \in HeldBy(v) /\ worker'[v].read[r] = worker[v].read[r]
    /\ r \in worker'[v].row <=> r \in worker[v].row
    /\ r \in worker[v].row => worker'[v].at = worker[v].at

SameColumns(r) ==
  /\ status'[r] = status[r] /\ attempts'[r] = attempts[r] /\ quota'[r] = quota[r]
  /\ accepted'[r] = accepted[r] /\ (r \in due' <=> r \in due)

LEMMA StaysStraight ==
  ASSUME NEW r \in Row, Straight(r), SameColumns(r), NoNewHold(r)
  PROVE  Straight(r)'
<1>1. Claimed(r)'
  <2>1. \A v \in Worker : r \in worker'[v].found => r \in worker[v].found /\ worker'[v].read[r] = worker[v].read[r]
    BY DEF NoNewHold
  <2>2. \A v \in Worker : r \in HeldBy(v)' => r \in HeldBy(v) /\ worker'[v].read[r] = worker[v].read[r]
    BY DEF NoNewHold
  <2>3. \A v, w \in Worker : r \in HeldBy(v)' /\ r \in HeldBy(w)' => v = w
    BY <2>2 DEF Straight, Claimed
  <2>4. \A w \in Worker : r \in HeldBy(w)' => r \notin due' /\ attempts'[r] = worker'[w].read[r] + 1
    BY <2>2 DEF Straight, Claimed, SameColumns
  <2>5. \A w \in Worker : r \in worker'[w].found =>
          /\ worker'[w].read[r] <= attempts'[r]
          /\ r \notin due' => worker'[w].read[r] < attempts'[r]
    BY <2>1 DEF Straight, Claimed, SameColumns
  <2> QED BY <2>3, <2>4, <2>5 DEF Claimed
<1>2. \A at : Standing(r, at) => Standing(r, at)'
  BY DEF Standing, SameColumns
<1>3. Settled(r) => Settled(r)'
  BY DEF Settled, SameColumns
<1>4. \A w \in Worker : /\ r \in worker'[w].row <=> r \in worker[w].row
                        /\ r \in worker[w].row => worker'[w].at = worker[w].at
  BY DEF NoNewHold
<1> QED BY <1>1, <1>2, <1>3, <1>4 DEF Straight

\* The flush that holds a row is the only one.
LEMMA SoleHolder ==
  ASSUME NEW r \in Row, Claimed(r), NEW w \in Worker, r \in HeldBy(w)
  PROVE  /\ \A v \in Worker \ {w} : r \notin HeldBy(v) /\ r \notin worker[v].row /\ r \notin worker[v].mine
         /\ r \notin due /\ attempts[r] = worker[w].read[r] + 1
BY DEF Claimed, HeldBy

\* A step of flush w writes the row it sends: what is left to show is where that leaves it.
LEMMA SenderStraight ==
  ASSUME Shape, Desk, NEW w \in Worker, NEW q \in worker[w].row, Straight(q),
         NEW to, NEW found, NEW row, Writes(w, to, found, worker[w].mine, row),
         found \subseteq worker[w].found,
         (row = worker[w].row /\ worker'[w].read[q] = worker[w].read[q]) \/ row = {},
         q \in due' => q \in due, attempts'[q] = attempts[q],
         IF row = {} THEN Settled(q)' ELSE Standing(q, to)'
  PROVE  Straight(q)'
<1>0. q \in Row /\ q \in HeldBy(w) /\ q \notin worker[w].found /\ q \notin worker[w].mine
  BY DEF Shape, FlushRow, HeldBy, Desk
<1>1. /\ \A v \in Worker \ {w} : q \notin HeldBy(v) /\ q \notin worker[v].row /\ q \notin worker[v].mine
      /\ q \notin due /\ attempts[q] = worker[w].read[q] + 1
  BY <1>0, SoleHolder DEF Straight
<1>2. /\ worker'[w].at = to /\ worker'[w].found = found
      /\ worker'[w].mine = worker[w].mine /\ worker'[w].row = row
      /\ \A v \in Worker \ {w} : worker'[v] = worker[v]
  BY DEF Writes
<1>3. \A v \in Worker : (q \in worker'[v].row => v = w) /\ (q \in HeldBy(v)' => v = w)
  BY <1>1, <1>2 DEF HeldBy
<1>4. \A v \in Worker : q \in worker'[v].found => v # w /\ q \in worker[v].found
  BY <1>0, <1>2
<1>5. q \in HeldBy(w)' => worker'[w].read[q] = worker[w].read[q]
  BY <1>0, <1>2 DEF HeldBy
<1>6. Claimed(q)'
  <2>1. \A v, u \in Worker : q \in HeldBy(v)' /\ q \in HeldBy(u)' => v = u
    BY <1>3
  <2>2. \A v \in Worker : q \in HeldBy(v)' => q \notin due' /\ attempts'[q] = worker'[v].read[q] + 1
    BY <1>1, <1>3, <1>5
  <2>3. \A v \in Worker : q \in worker'[v].found =>
          /\ worker'[v].read[q] <= attempts'[q]
          /\ q \notin due' => worker'[v].read[q] < attempts'[q]
    BY <1>1, <1>2, <1>4 DEF Straight, Claimed
  <2> QED BY <2>1, <2>2, <2>3 DEF Claimed
<1>7. (\A v \in Worker : q \in worker'[v].row => Standing(q, to)')
      /\ ((\A v \in Worker : q \notin worker'[v].row) => Settled(q)')
  BY <1>0, <1>2, <1>3
<1>8. \A v \in Worker : q \in worker'[v].row => Standing(q, worker[v].at)'
  <2>1. Standing(q, to)' => Standing(q, worker[w].at)'
    BY <1>2 DEF Standing
  <2> QED BY <1>3, <1>7, <2>1
<1> QED BY <1>6, <1>7, <1>8 DEF Straight

\* What finalize_message_quota does to one row
LEMMA FinalizeOne ==
  ASSUME Shape, NEW q \in Row, NEW took \in SUBSET {q}, Finalize({q}, took)
  PROVE  /\ quota'[q] = IF quota[q] = "reserved" THEN (IF q \in took THEN "used" ELSE "released")
                        ELSE quota[q]
         /\ \A r \in Row \ {q} : quota'[r] = quota[r]
BY DEF Finalize, Unfinalized, Shape

\* The queue, the people and the clock
LEMMA OthersStraight ==
  ASSUME Shape, Stage, Desk, NEW r \in Row, Straight(r), r \notin unsure',
         accepted \in [Row -> 0..2],
         \/ \E m \in Message : Enqueue(m) \/ OptOut(m)
         \/ SwitchOff
         \/ \E q \in Row : ComeDue(q) \/ Overrun(q)
         \/ UNCHANGED vars
  PROVE  Straight(r)'
<1>1. worker' = worker /\ attempts' = attempts /\ accepted' = accepted
  BY DEF Enqueue, OptOut, SwitchOff, ComeDue, Overrun, vars, rows, seen
<1>2. NoNewHold(r)
  BY <1>1 DEF NoNewHold, HeldBy
<1>3. SameColumns(r) => Straight(r)'
  BY <1>2, StaysStraight
<1>4. ASSUME due' = due, Settled(r) => Settled(r)', \A at \in At : Standing(r, at) => Standing(r, at)'
      PROVE  Straight(r)'
  <2>1. Claimed(r)'
    BY <1>1, <1>4 DEF Straight, Claimed, HeldBy
  <2>2. \A w \in Worker : worker[w].at \in At
    BY DEF Shape, FlushRow
  <2> QED BY <1>1, <1>4, <2>1, <2>2 DEF Straight
<1>5. ASSUME NEW m \in Message, Enqueue(m) PROVE Straight(r)'
  <2>1. CASE r = <<m, "whatsapp">>
    <3>1. status[r] = "absent" /\ status'[r] = "pending" /\ quota'[r] = "reserved" /\ due' = due
      BY <1>5, <2>1 DEF Enqueue, Shape
    <3>2. \A at \in At : ~Standing(r, at)
      BY <3>1 DEF Standing, At
    <3>3. Settled(r) => Settled(r)'
      BY <1>1, <3>1 DEF Settled
    <3> QED BY <1>4, <3>1, <3>2, <3>3
  <2>2. CASE r # <<m, "whatsapp">>
    BY <1>1, <1>3, <1>5, <2>2 DEF Enqueue, Shape, SameColumns
  <2> QED BY <2>1, <2>2
<1>6. ASSUME NEW R \in SUBSET Row, Cancel(R), due' = due, \A q \in R : status[q] = "pending"
      PROVE  Straight(r)'
  <2>1. CASE r \in R
    <3>1. /\ status[r] = "pending" /\ status'[r] = "cancelled"
          /\ quota'[r] = IF quota[r] = "reserved"
                         THEN (IF attempts[r] > 0 THEN "used" ELSE "released") ELSE quota[r]
      BY <1>6, <2>1 DEF Cancel, Finalize, Unfinalized, MaybeSent
    <3>2. (\E w \in Worker : r \in worker[w].row) => attempts[r] > 0
      <4>1. \A w \in Worker : r \in HeldBy(w) => attempts[r] = worker[w].read[r] + 1 /\ worker[w].read[r] \in Nat
        BY DEF Straight, Claimed, Shape, FlushRow
      <4> QED BY <4>1 DEF HeldBy
    <3>3. Settled(r) => Settled(r)'
      BY <1>1, <3>1 DEF Settled
    <3>4. attempts[r] > 0 => \A at \in At : Standing(r, at) => Standing(r, at)'
      BY <1>1, <3>1 DEF Standing, At
    <3>5. Claimed(r)'
      BY <1>1, <1>6 DEF Straight, Claimed, HeldBy
    <3>6. \A w \in Worker : worker[w].at \in At
      BY DEF Shape, FlushRow
    <3> QED BY <1>1, <3>2, <3>3, <3>4, <3>5, <3>6 DEF Straight
  <2>2. CASE r \notin R
    <3>1. status'[r] = status[r] /\ quota'[r] = quota[r]
      BY <1>6, <2>2 DEF Cancel, Finalize, Unfinalized
    <3> QED BY <1>1, <1>3, <1>6, <3>1 DEF SameColumns
  <2> QED BY <2>1, <2>2
<1>7. ASSUME NEW m \in Message, OptOut(m) PROVE Straight(r)'
  BY <1>6, <1>7 DEF OptOut
<1>8. CASE SwitchOff
  BY <1>6, <1>8 DEF SwitchOff
<1>9. ASSUME NEW q \in Row, ComeDue(q) PROVE Straight(r)'
  <2>1. CASE r = q
    <3>1. \A w \in Worker : r \notin HeldBy(w)
      BY <1>9, <2>1 DEF ComeDue, Held
    <3>2. Claimed(r)'
      BY <1>1, <1>9, <2>1, <3>1 DEF Straight, Claimed, HeldBy, ComeDue
    <3>3. Settled(r)'
      BY <1>1, <1>9, <3>1 DEF Straight, Settled, HeldBy, ComeDue
    <3>4. \A w \in Worker : r \notin worker'[w].row
      BY <1>1, <3>1 DEF HeldBy
    <3> QED BY <3>2, <3>3, <3>4 DEF Straight
  <2>2. CASE r # q
    BY <1>1, <1>3, <1>9, <2>2 DEF ComeDue, SameColumns
  <2> QED BY <2>1, <2>2
<1>10. ASSUME NEW q \in Row, Overrun(q) PROVE Straight(r)'
  BY <1>1, <1>3, <1>10 DEF Overrun, Fault, SameColumns
<1>11. CASE UNCHANGED vars
  BY <1>3, <1>11 DEF vars, rows, seen, SameColumns
<1> QED BY <1>5, <1>7, <1>8, <1>9, <1>10, <1>11

LEMMA HoldsNoMore ==
  ASSUME NEW r \in Row, NEW w \in Worker, NEW at, NEW found, NEW mine, NEW row,
         Writes(w, at, found, mine, row),
         r \in found => r \in worker[w].found /\ worker'[w].read[r] = worker[w].read[r],
         r \in mine \union row => r \in HeldBy(w) /\ worker'[w].read[r] = worker[w].read[r],
         r \in row <=> r \in worker[w].row,
         r \in row => at = worker[w].at
  PROVE  NoNewHold(r)
BY DEF NoNewHold, Writes, HeldBy

\* The claim, which only the first of several flushes makes: that the row is due shows
\* that nobody holds it.
LEMMA ClaimStraight ==
  ASSUME Shape, Desk, NEW w \in Worker, NEW q \in Row, Claim(w, q), Claims(w, q), Straight(q)
  PROVE  Straight(q)'
<1> DEFINE o == worker[w]
<1>1. /\ q \in o.found /\ status[q] = "pending" /\ attempts[q] = o.read[q] /\ due' = due \ {q}
      /\ attempts' = [attempts EXCEPT ![q] = o.read[q] + 1]
      /\ worker' = [worker EXCEPT ![w].found = @ \ {q}, ![w].mine = @ \union {q}]
      /\ UNCHANGED <<status, quota, accepted>>
  BY DEF Claim, Claims, seen
<1>2. q \in due /\ \A v \in Worker : q \notin HeldBy(v) /\ q \notin worker[v].row
  <2>1. o.read[q] \in Nat
    BY DEF Shape, FlushRow
  <2>2. q \in due
    BY <1>1, <2>1 DEF Straight, Claimed
  <2> QED BY <2>2 DEF Straight, Claimed, HeldBy
<1>3. /\ Writes(w, o.at, o.found \ {q}, o.mine \union {q}, o.row)
      /\ \A r \in Row : worker'[w].read[r] = o.read[r]
  BY <1>1, ClaimWrites
<1>4. /\ \A v \in Worker : q \notin worker'[v].row /\ (q \in HeldBy(v)' => v = w)
      /\ \A v \in Worker : q \in worker'[v].found => v # w /\ worker'[v] = worker[v]
  BY <1>2, <1>3 DEF Writes, HeldBy
<1>5. attempts'[q] = worker'[w].read[q] + 1 /\ attempts'[q] = attempts[q] + 1 /\ attempts[q] \in Nat
  BY <1>1, <1>3 DEF Shape
<1>6. Claimed(q)'
  <2>1. \A v \in Worker : q \in HeldBy(v)' => q \notin due' /\ attempts'[q] = worker'[v].read[q] + 1
    BY <1>1, <1>4, <1>5
  <2>2. \A v \in Worker : q \in worker'[v].found => worker'[v].read[q] < attempts'[q]
    <3>1. \A v \in Worker : worker[v].read[q] \in Nat
      BY DEF Shape, FlushRow
    <3>2. \A v \in Worker : q \in worker[v].found => worker[v].read[q] <= attempts[q]
      BY DEF Straight, Claimed
    <3> QED BY <1>4, <1>5, <3>1, <3>2
  <2>3. \A v \in Worker : q \in worker'[v].found => worker'[v].read[q] <= attempts'[q]
    <3>1. \A v \in Worker : q \in worker'[v].found => worker'[v].read[q] \in Nat
      BY <1>4 DEF Shape, FlushRow
    <3> QED BY <1>5, <2>2, <3>1
  <2> QED BY <1>4, <2>1, <2>2, <2>3 DEF Claimed
<1>7. Settled(q)'
  BY <1>1, <1>2 DEF Straight, Settled
<1> QED BY <1>4, <1>6, <1>7 DEF Straight

LEMMA PrepareStraight ==
  ASSUME Shape, Desk, NEW w \in Worker, NEW q \in Row, Prepare(w, q), Straight(q)
  PROVE  Straight(q)'
<1> DEFINE o == worker[w]
<1>0. /\ o.found = {} /\ q \in o.mine /\ o.row = {} /\ UNCHANGED <<attempts, due, accepted>>
      /\ \A r \in Row : worker'[w].read[r] = o.read[r]
  BY PrepareDoes DEF seen
<1>1. /\ \A v \in Worker \ {w} : q \notin HeldBy(v) /\ q \notin worker[v].row
      /\ q \notin due /\ attempts[q] = o.read[q] + 1
  BY <1>0, SoleHolder DEF Straight, HeldBy
<1>2. Settled(q)
  BY <1>0, <1>1 DEF Straight
\* Whatever is prepared, the row is held by this flush or by none.
<1>3. ASSUME NEW to, NEW row \in {{}, {q}}, Writes(w, to, {}, o.mine \ {q}, row)
      PROVE  /\ Claimed(q)'
             /\ \A v \in Worker : q \in worker'[v].row => v = w /\ row = {q} /\ worker'[v].at = to
             /\ row = {q} => q \in worker'[w].row
  <2>1. /\ worker'[w].at = to /\ worker'[w].found = {}
        /\ worker'[w].mine = o.mine \ {q} /\ worker'[w].row = row
        /\ \A v \in Worker \ {w} : worker'[v] = worker[v]
    BY <1>3 DEF Writes
  <2>2. \A v \in Worker : q \in HeldBy(v)' => v = w
    BY <1>1, <2>1 DEF HeldBy
  <2>3. \A v \in Worker : q \in worker'[v].found => v # w
    BY <2>1
  <2>4. \A v \in Worker : q \in HeldBy(v)' => q \notin due' /\ attempts'[q] = worker'[v].read[q] + 1
    BY <1>0, <1>1, <2>2
  <2>5. \A v \in Worker : q \in worker'[v].found =>
          /\ worker'[v].read[q] <= attempts'[q]
          /\ q \notin due' => worker'[v].read[q] < attempts'[q]
    BY <1>0, <2>1, <2>3 DEF Straight, Claimed
  <2> QED BY <1>1, <2>1, <2>2, <2>4, <2>5 DEF Claimed
<1>4. ASSUME NEW to \in {"exhausted", "reconcile", "send"}, status[q] = "pending",
             UNCHANGED <<status, quota>>, Writes(w, to, {}, o.mine \ {q}, {q})
      PROVE  Straight(q)'
  <2>1. Standing(q, to)'
    BY <1>0, <1>2, <1>4 DEF Standing, Settled
  <2>2. /\ Claimed(q)' /\ q \in worker'[w].row
        /\ \A v \in Worker : q \in worker'[v].row => worker'[v].at = to
    BY <1>3, <1>4
  <2>3. \A v \in Worker : q \in worker'[v].row => Standing(q, worker[v].at)'
    BY <2>1, <2>2 DEF Standing
  <2> QED BY <2>2, <2>3 DEF Straight
<1>5. ASSUME Writes(w, "turn", {}, o.mine \ {q}, {}),
             \/ status[q] # "pending" /\ UNCHANGED <<status, quota>>
             \/ /\ status[q] = "pending" /\ status' = [status EXCEPT ![q] = "cancelled"]
                /\ Finalize({q}, {})
      PROVE  Straight(q)'
  <2>1. Claimed(q)' /\ \A v \in Worker : q \notin worker'[v].row
    BY <1>3, <1>5
  <2>2. CASE status[q] # "pending" /\ UNCHANGED <<status, quota>>
    <3>1. Settled(q)'
      BY <1>0, <1>2, <2>2 DEF Settled
    <3> QED BY <2>1, <3>1 DEF Straight
  <2>3. CASE /\ status[q] = "pending" /\ status' = [status EXCEPT ![q] = "cancelled"]
             /\ Finalize({q}, {})
    <3>1. status'[q] = "cancelled" /\ accepted'[q] = 0
      BY <1>0, <1>2, <2>3 DEF Shape, Settled
    <3>2. Settled(q)'
      BY <3>1 DEF Settled
    <3> QED BY <2>1, <3>2 DEF Straight
  <2> QED BY <1>5, <2>2, <2>3
<1> QED BY <1>4, <1>5, PrepareDoes

\* What a flush does with the row that it sends
LEMMA SendingStraight ==
  ASSUME Shape, Stage, Desk, accepted \in [Row -> 0..2], NEW w \in Worker, NEW q \in worker[w].row,
         Reconcile(w) \/ Send(w) \/ Conclude(w) \/ Record(w) \/ QueueFallback(w),
         Straight(q), q \notin unsure'
  PROVE  Straight(q)'
<1> DEFINE o == worker[w]
<1>0. q \in Row /\ o.row = {q} /\ Standing(q, o.at)
  BY DEF Shape, FlushRow, Stage, Straight
<1>g. ASSUME NEW to \in At, Goes(w, to), attempts'[q] = attempts[q], q \in due' => q \in due, Standing(q, to)'
      PROVE  Straight(q)'
  <2>1. Writes(w, to, o.found, o.mine, o.row) /\ worker'[w].read[q] = o.read[q]
    BY <1>0, <1>g, GoesWrites
  <2> QED BY <1>0, <1>g, <2>1, SenderStraight
<1>t. ASSUME Turns(w), attempts'[q] = attempts[q], q \in due' => q \in due, Settled(q)'
      PROVE  Straight(q)'
  <2>1. Writes(w, "turn", o.found, o.mine, {})
    BY <1>t, TurnsWrites
  <2> QED BY <1>t, <2>1, SenderStraight
<1>1. CASE Reconcile(w)
  <2>1. /\ o.at = "reconcile" /\ UNCHANGED <<status, attempts, due, accepted>>
        /\ \/ /\ quota' = [quota EXCEPT ![q] = IF status[q] = "pending" THEN "reserved" ELSE @]
              /\ Goes(w, "send")
           \/ UNCHANGED quota /\ \E to \in {"rejected", "deferred"} : Goes(w, to)
    BY <1>0, <1>1 DEF Reconcile, seen
  <2>2. quota'[q] = quota[q]
    BY <1>0, <2>1 DEF Standing, Shape
  <2>3. \A to \in {"send", "rejected", "deferred"} : Standing(q, to)'
    BY <1>0, <2>1, <2>2 DEF Standing
  <2> QED BY <1>g, <2>1, <2>3 DEF At
<1>2. CASE Send(w)
  <2>1. PICK took \in BOOLEAN, answered \in BOOLEAN :
          /\ accepted' = [accepted EXCEPT ![q] = IF took /\ @ < 2 THEN @ + 1 ELSE @]
          /\ unsure' = IF answered THEN unsure ELSE unsure \union {q}
          /\ IF ~answered THEN Goes(w, "unclear")
             ELSE IF took THEN Goes(w, "accepted")
             ELSE \E to \in {"rejected", "deferred"} : Goes(w, to)
    BY <1>0, <1>2 DEF Send
  <2>2. answered /\ o.at = "send" /\ UNCHANGED <<status, attempts, due, quota>>
    BY <1>2, <2>1 DEF Send, rows
  <2>3. accepted[q] = 0
    BY <1>0, <2>2 DEF Standing
  <2>4. CASE took
    <3>1. accepted'[q] = 1
      BY <1>0, <2>1, <2>3, <2>4
    <3>2. Standing(q, "accepted")'
      BY <1>0, <2>2, <3>1 DEF Standing
    <3> QED BY <1>g, <2>1, <2>2, <2>4, <3>2 DEF At
  <2>5. CASE ~took
    <3>1. accepted'[q] = 0
      BY <1>0, <2>1, <2>3, <2>5
    <3>2. \A to \in {"rejected", "deferred"} : Standing(q, to)'
      BY <1>0, <2>2, <3>1 DEF Standing
    <3> QED BY <1>g, <2>1, <2>2, <2>5, <3>2 DEF At
  <2> QED BY <2>4, <2>5
<1>3. CASE Conclude(w)
  <2>1. /\ o.at \in {"exhausted", "accepted", "rejected", "deferred", "unclear"}
        /\ IF o.at \in {"accepted", "unclear"} THEN Finalize({q}, {q})
           ELSE IF Verdict(w, q) = "fail" THEN Finalize({q}, {}) ELSE KeepQuota
        /\ Goes(w, Verdict(w, q))
        /\ UNCHANGED <<status, attempts, due, accepted>>
    BY <1>0, <1>3 DEF Conclude, seen
  <2>2. o.at # "unclear"
    BY <1>0 DEF Standing
  <2>3. PICK to \in {"sent", "fail", "retry"} : to = Verdict(w, q)
    BY <2>1, VerdictIs
  <2>4. /\ to = "sent" <=> o.at = "accepted"
        /\ to = "retry" => o.at = "deferred"
    BY <2>1, <2>2, <2>3, VerdictIs
  <2>5. Standing(q, to)'
    <3>1. CASE to = "sent"
      <4>1. quota'[q] = IF quota[q] = "reserved" THEN "used" ELSE quota[q]
        BY <1>0, <2>1, <2>4, <3>1, FinalizeOne
      <4> QED BY <1>0, <2>1, <2>4, <3>1, <4>1 DEF Standing
    <3>2. CASE to = "fail"
      <4>1. quota'[q] = IF quota[q] = "reserved" THEN "released" ELSE quota[q]
        BY <1>0, <2>1, <2>2, <2>3, <2>4, <3>2, FinalizeOne
      <4> QED BY <1>0, <2>1, <2>2, <2>4, <3>2, <4>1 DEF Standing
    <3>3. CASE to = "retry"
      <4>1. quota' = quota
        BY <2>1, <2>3, <2>4, <3>3 DEF KeepQuota
      <4> QED BY <1>0, <2>1, <2>4, <3>3, <4>1 DEF Standing
    <3> QED BY <3>1, <3>2, <3>3
  <2>6. to \in At
    BY DEF At
  <2> QED BY <1>g, <2>1, <2>3, <2>5, <2>6
<1>4. CASE Record(w)
  <2>1. /\ o.at \in {"sent", "fail", "retry"} /\ UNCHANGED <<quota, accepted>>
        /\ \/ status[q] # "pending" /\ Turns(w) /\ UNCHANGED <<status, attempts, due>>
           \/ /\ status[q] = "pending" /\ due' \subseteq due
              /\ status' = [status EXCEPT ![q] =
                    CASE o.at = "sent" -> "sent" [] o.at = "fail" -> "failed"
                      [] o.at = "retry" -> "pending"]
              /\ attempts' = [attempts EXCEPT ![q] = o.read[q] + 1]
              /\ Turns(w) \/ (Goes(w, "fallback") /\ o.at = "fail")
    BY <1>0, <1>4 DEF Record, Closed, FallsBack, seen
  <2>2. attempts[q] = o.read[q] + 1
    BY <1>0, SoleHolder DEF Straight, HeldBy
  <2>3. attempts'[q] = attempts[q] /\ (q \in due' => q \in due)
    BY <1>0, <2>1, <2>2 DEF Shape
  <2>4. Settled(q)'
    <3>1. CASE status[q] # "pending" /\ UNCHANGED status
      BY <1>0, <2>1, <3>1 DEF Standing, Settled
    <3>2. CASE /\ status[q] = "pending"
               /\ status' = [status EXCEPT ![q] =
                    CASE o.at = "sent" -> "sent" [] o.at = "fail" -> "failed"
                      [] o.at = "retry" -> "pending"]
      <4>1. status'[q] = CASE o.at = "sent" -> "sent" [] o.at = "fail" -> "failed"
                           [] o.at = "retry" -> "pending"
        BY <1>0, <3>2 DEF Shape
      <4> QED BY <1>0, <2>1, <3>2, <4>1 DEF Standing, Settled
    <3> QED BY <2>1, <3>1, <3>2
  <2>5. CASE Turns(w)
    BY <1>t, <2>3, <2>4, <2>5
  <2>6. CASE Goes(w, "fallback") /\ o.at = "fail" /\ status[q] = "pending" /\ status'[q] = "failed"
    <3>1. Standing(q, "fallback")'
      BY <1>0, <2>1, <2>6 DEF Standing
    <3> QED BY <1>g, <2>3, <2>6, <3>1 DEF At
  <2>7. Turns(w) \/ (Goes(w, "fallback") /\ o.at = "fail" /\ status[q] = "pending" /\ status'[q] = "failed")
    BY <1>0, <2>1 DEF Shape
  <2> QED BY <2>5, <2>6, <2>7
<1>5. CASE QueueFallback(w)
  <2>1. o.at = "fallback" /\ Turns(w) /\ UNCHANGED <<attempts, due, accepted>>
    BY <1>5 DEF QueueFallback, seen
  <2>2. Fallback(q) # q
    BY <1>0, <2>1, RowParts DEF Stage
  <2>3. status'[q] = status[q] /\ quota'[q] = quota[q]
    BY <1>0, <1>5, <2>2 DEF QueueFallback, Refused, Shape
  <2>4. Settled(q)'
    BY <1>0, <2>1, <2>3 DEF Standing, Settled
  <2> QED BY <1>t, <2>1, <2>4
<1> QED BY <1>1, <1>2, <1>3, <1>4, <1>5

\* What a flush does to every other row
LEMMA FlushStraight ==
  ASSUME Shape, Stage, Desk, accepted \in [Row -> 0..2], NEW w \in Worker, Flush(w),
         NEW r \in Row, Straight(r), r \notin unsure'
  PROVE  Straight(r)'
<1> DEFINE o == worker[w]
<1>0. /\ o.row \subseteq Row /\ o.found \subseteq Row /\ o.mine \subseteq Row
      /\ \A p, q \in o.row : p = q
  BY DEF Shape, FlushRow, Stage
<1>s. SameColumns(r) /\ NoNewHold(r) => Straight(r)'
  BY StaysStraight
<1>1. CASE Select(w)
  <2>1. /\ Writes(w, "turn", Sendable, {}, {})
        /\ \A q \in Row : worker'[w].read[q] = IF q \in Sendable THEN attempts[q] ELSE 0
    BY <1>1, SelectWrites
  <2>2. UNCHANGED <<status, attempts, due, quota, accepted>> /\ o.mine = {} /\ o.row = {}
    BY <1>1 DEF Select, rows, seen, Desk
  <2>3. /\ \A v \in Worker \ {w} : worker'[v] = worker[v]
        /\ worker'[w].found = Sendable /\ worker'[w].mine = {} /\ worker'[w].row = {}
    BY <2>1 DEF Writes
  <2>4. Claimed(r)'
    <3>1. \A v \in Worker : HeldBy(v)' = HeldBy(v) /\ (r \in HeldBy(v)' => worker'[v].read[r] = worker[v].read[r])
      BY <2>2, <2>3 DEF HeldBy
    <3>2. r \in Sendable => r \in due /\ worker'[w].read[r] = attempts[r] /\ attempts[r] \in Nat
      BY <2>1 DEF Sendable, Shape
    <3>3. \A v \in Worker : r \in worker'[v].found =>
            /\ worker'[v].read[r] <= attempts'[r]
            /\ r \notin due' => worker'[v].read[r] < attempts'[r]
      BY <2>2, <2>3, <3>2 DEF Straight, Claimed
    <3> QED BY <2>2, <3>1, <3>3 DEF Straight, Claimed
  <2>5. /\ \A at : Standing(r, at) => Standing(r, at)'
        /\ Settled(r) => Settled(r)'
    BY <2>2 DEF Standing, Settled
  <2>6. \A v \in Worker : worker'[v].row = worker[v].row /\ (r \in worker[v].row => worker'[v] = worker[v])
    BY <2>2, <2>3
  <2> QED BY <2>4, <2>5, <2>6 DEF Straight
<1>2. CASE Finish(w)
  <2>1. Writes(w, "idle", {}, {}, {}) /\ o.row = {}
    BY <1>2, NobodyWrites DEF Finish, Desk
  <2>2. NoNewHold(r)
    BY <2>1, HoldsNoMore
  <2>3. SameColumns(r)
    BY <1>2 DEF Finish, SameColumns, rows, seen
  <2> QED BY <1>s, <2>2, <2>3
<1>g. ASSUME NEW to \in At, Goes(w, to), r \notin o.row PROVE NoNewHold(r)
  <2>1. /\ Writes(w, to, o.found, o.mine, o.row)
        /\ \A q \in Row : worker'[w].read[q] = o.read[q]
    BY <1>g, GoesWrites
  <2> QED BY <1>g, <2>1, HoldsNoMore DEF HeldBy
<1>t. ASSUME Turns(w), r \notin o.row PROVE NoNewHold(r)
  <2>1. /\ Writes(w, "turn", o.found, o.mine, {})
        /\ \A q \in Row : worker'[w].read[q] = IF q \in o.row THEN 0 ELSE o.read[q]
    BY <1>t, TurnsWrites
  <2> QED BY <1>t, <2>1, HoldsNoMore DEF HeldBy
<1>3. CASE /\ Reconcile(w) \/ Send(w) \/ Conclude(w) \/ Record(w) \/ QueueFallback(w)
           /\ r \in o.row
  BY <1>3, SendingStraight
<1>4. CASE (Reconcile(w) \/ Send(w)) /\ r \notin o.row
  <2>1. \E to \in At : Goes(w, to)
    BY <1>4 DEF Reconcile, Send, At
  <2>2. SameColumns(r)
    BY <1>0, <1>4 DEF Reconcile, Send, SameColumns, rows, seen, Shape
  <2> QED BY <1>g, <1>4, <1>s, <2>1, <2>2
<1>5. CASE Conclude(w) /\ r \notin o.row
  <2>1. PICK q \in o.row :
          /\ IF o.at \in {"accepted", "unclear"} THEN Finalize({q}, {q})
             ELSE IF Verdict(w, q) = "fail" THEN Finalize({q}, {}) ELSE KeepQuota
          /\ Goes(w, Verdict(w, q))
          /\ o.at \in {"exhausted", "accepted", "rejected", "deferred", "unclear"}
    BY <1>5 DEF Conclude
  <2>2. q \in Row /\ r # q
    BY <1>0, <1>5
  <2>3. quota'[r] = quota[r]
    BY <2>1, <2>2, FinalizeOne DEF KeepQuota
  <2>4. SameColumns(r)
    BY <1>5, <2>3 DEF Conclude, SameColumns, seen
  <2>5. Verdict(w, q) \in At
    BY <2>1, VerdictIs DEF At
  <2> QED BY <1>g, <1>5, <1>s, <2>1, <2>4, <2>5
<1>6. CASE Record(w) /\ r \notin o.row
  <2>1. Turns(w) \/ Goes(w, "fallback")
    BY <1>6 DEF Record
  <2>2. SameColumns(r)
    BY <1>0, <1>6 DEF Record, SameColumns, seen, Shape
  <2> QED BY <1>g, <1>t, <1>6, <1>s, <2>1, <2>2 DEF At
<1>7. CASE QueueFallback(w) /\ r \notin o.row
  <2>1. PICK q \in o.row :
          \/ UNCHANGED <<status, quota>>
          \/ /\ status[Fallback(q)] = "absent"
             /\ \/ /\ status' = [status EXCEPT ![Fallback(q)] = "pending"]
                   /\ quota' = [quota EXCEPT ![Fallback(q)] = "reserved"]
                \/ status' = [status EXCEPT ![Fallback(q)] = "refused"] /\ UNCHANGED quota
    BY <1>7 DEF QueueFallback, Refused
  <2>2. Turns(w) /\ UNCHANGED <<attempts, due, accepted>>
    BY <1>7 DEF QueueFallback, seen
  <2>3. NoNewHold(r)
    BY <1>t, <1>7, <2>2
  <2>4. CASE status[Fallback(q)] # "absent" \/ r # Fallback(q) \/ UNCHANGED <<status, quota>>
    <3>1. SameColumns(r)
      BY <2>1, <2>2, <2>4 DEF SameColumns, Shape
    <3> QED BY <1>s, <2>3, <3>1
  <2>5. CASE status[r] = "absent" /\ ~UNCHANGED <<status, quota>> /\ r = Fallback(q)
    <3>1. \/ status'[r] = "pending" /\ quota'[r] = "reserved"
          \/ status'[r] = "refused"
      BY <2>1, <2>5 DEF Shape
    <3>2. \A v \in Worker : r \notin worker[v].row
      BY <2>5 DEF Straight, Standing
    <3>3. Settled(r)'
      BY <2>2, <2>5, <3>1, <3>2 DEF Straight, Settled
    <3>4. \A v \in Worker : r \notin worker'[v].row
      BY <2>3, <3>2 DEF NoNewHold
    <3>5. Claimed(r)'
      <4>1. \A v \in Worker : /\ r \in worker'[v].found => r \in worker[v].found /\ worker'[v].read[r] = worker[v].read[r]
                              /\ r \in HeldBy(v)' => r \in HeldBy(v) /\ worker'[v].read[r] = worker[v].read[r]
        BY <2>3 DEF NoNewHold
      <4> QED BY <2>2, <4>1 DEF Straight, Claimed
    <3> QED BY <3>3, <3>4, <3>5 DEF Straight
  <2> QED BY <2>4, <2>5
<1>8. ASSUME NEW q \in Row, Claim(w, q) PROVE Straight(r)'
  <2>1. CASE Claims(w, q) /\ r = q
    BY <1>8, <2>1, ClaimStraight
  <2>2. CASE Claims(w, q) /\ r # q
    <3>1. /\ Writes(w, o.at, o.found \ {q}, o.mine \union {q}, o.row)
          /\ \A p \in Row : worker'[w].read[p] = o.read[p]
      BY <1>8, <2>2, ClaimWrites DEF Claim
    <3>2. NoNewHold(r)
      BY <2>2, <3>1, HoldsNoMore DEF HeldBy
    <3>3. SameColumns(r)
      BY <1>8, <2>2 DEF Claim, SameColumns, seen, Shape
    <3> QED BY <1>s, <3>2, <3>3
  <2>3. CASE ~Claims(w, q)
    <3>1. /\ Writes(w, o.at, o.found \ {q}, o.mine, o.row)
          /\ \A p \in Row : worker'[w].read[p] = IF p = q THEN 0 ELSE o.read[p]
      BY <1>8, <2>3, DropWrites DEF Claim
    <3>2. q \notin o.mine \union o.row
      BY <1>8 DEF Claim, Desk, HeldBy
    <3>3. NoNewHold(r)
      BY <3>1, <3>2, HoldsNoMore DEF HeldBy
    <3>4. SameColumns(r)
      BY <1>8, <2>3 DEF Claim, SameColumns, seen
    <3> QED BY <1>s, <3>3, <3>4
  <2> QED BY <2>1, <2>2, <2>3
<1>9. ASSUME NEW q \in Row, Prepare(w, q) PROVE Straight(r)'
  <2>1. CASE r = q
    BY <1>9, <2>1, PrepareStraight
  <2>2. CASE r # q
    <3>1. /\ o.found = {} /\ o.row = {} /\ UNCHANGED <<attempts, due, accepted>>
          /\ \A p \in Row : worker'[w].read[p] = o.read[p]
          /\ \E to \in At, row \in {{}, {q}} : Writes(w, to, {}, o.mine \ {q}, row)
          /\ \/ UNCHANGED <<status, quota>>
             \/ status' = [status EXCEPT ![q] = "cancelled"] /\ Finalize({q}, {})
      BY <1>9, PrepareDoes DEF seen, At
    <3>2. SameColumns(r)
      <4>1. Finalize({q}, {}) => quota'[r] = quota[r]
        BY <2>2, FinalizeOne
      <4> QED BY <2>2, <3>1, <4>1 DEF SameColumns, Shape
    <3>3. NoNewHold(r)
      BY <2>2, <3>1, HoldsNoMore DEF HeldBy
    <3> QED BY <1>s, <3>2, <3>3
  <2> QED BY <2>1, <2>2
<1> QED BY <1>1, <1>2, <1>3, <1>4, <1>5, <1>6, <1>7, <1>8, <1>9 DEF Flush

\* A fault leaves the row that was being sent unsure, and takes hold of no other.
LEMMA FaultsStraight ==
  ASSUME Shape, Stage, Desk, NEW w \in Worker, FailCall(w) \/ LoseAnswer(w) \/ Crash(w),
         NEW r \in Row, Straight(r), r \notin unsure'
  PROVE  Straight(r)'
<1> DEFINE o == worker[w]
<1>0. /\ o.row \subseteq Row /\ o.found \subseteq Row /\ o.mine \subseteq Row
      /\ \A p, q \in o.row : p = q
      /\ \A q \in o.found : q \notin o.mine \union o.row
      /\ \A q \in o.mine : q \notin o.row
  BY DEF Shape, FlushRow, Stage, Desk, HeldBy
<1>g. ASSUME NEW to \in At, Goes(w, to), r \notin o.row PROVE NoNewHold(r)
  <2>1. /\ Writes(w, to, o.found, o.mine, o.row)
        /\ \A q \in Row : worker'[w].read[q] = o.read[q]
    BY <1>g, GoesWrites
  <2> QED BY <1>g, <2>1, HoldsNoMore DEF HeldBy
<1>t. ASSUME Turns(w), r \notin o.row PROVE NoNewHold(r)
  <2>1. /\ Writes(w, "turn", o.found, o.mine, {})
        /\ \A q \in Row : worker'[w].read[q] = IF q \in o.row THEN 0 ELSE o.read[q]
    BY <1>t, TurnsWrites
  <2> QED BY <1>t, <2>1, HoldsNoMore DEF HeldBy
<1>d. ASSUME NEW q \in o.found, worker' = [worker EXCEPT ![w].found = @ \ {q}, ![w].read[q] = 0]
      PROVE  NoNewHold(r)
  <2>1. /\ Writes(w, o.at, o.found \ {q}, o.mine, o.row)
        /\ \A p \in Row : worker'[w].read[p] = IF p = q THEN 0 ELSE o.read[p]
    BY <1>0, <1>d, DropWrites
  <2> QED BY <1>0, <2>1, HoldsNoMore DEF HeldBy
<1>1. CASE FailCall(w)
  <2>1. UNCHANGED <<status, attempts, due, quota, accepted>> /\ r \notin o.row
    BY <1>1 DEF FailCall, Fault, rows
  <2>2. SameColumns(r)
    BY <2>1 DEF SameColumns
  <2>3. ASSUME NEW q \in o.mine, worker' = [worker EXCEPT ![w].mine = @ \ {q}] PROVE NoNewHold(r)
    <3>1. /\ Writes(w, o.at, o.found, o.mine \ {q}, o.row)
          /\ \A p \in Row : worker'[w].read[p] = o.read[p]
      BY <1>0, <2>3, ForgetWrites
    <3> QED BY <3>1, HoldsNoMore DEF HeldBy
  <2>4. ASSUME NEW q \in o.row, Goes(w, Verdict(w, q)),
               o.at \in {"exhausted", "accepted", "rejected", "deferred", "unclear"}
        PROVE  NoNewHold(r)
    <3>1. Verdict(w, q) \in At
      BY <2>4, VerdictIs DEF At
    <3> QED BY <1>g, <2>1, <2>4, <3>1
  <2>5. NoNewHold(r)
    BY <1>1, <1>d, <1>t, <2>1, <2>3, <2>4 DEF FailCall
  <2> QED BY <2>2, <2>5, StaysStraight
<1>2. CASE LoseAnswer(w)
  <2>1. PICK q \in Row :
          /\ q \in unsure' /\ UNCHANGED <<quota, accepted>>
          /\ attempts' = [attempts EXCEPT ![q] = o.read[q] + 1]
          /\ status' = status \/ status' = [status EXCEPT ![q] = "failed"]
          /\ due' = due \/ due' = due \ {q}
          /\ \/ q \in o.found /\ worker' = [worker EXCEPT ![w].found = @ \ {q}, ![w].read[q] = 0]
             \/ q \in o.row /\ Turns(w)
    BY <1>0, <1>2 DEF LoseAnswer, Fault
  <2>2. SameColumns(r)
    BY <2>1 DEF SameColumns, Shape
  <2>3. NoNewHold(r)
    BY <1>0, <1>d, <1>t, <2>1
  <2> QED BY <2>2, <2>3, StaysStraight
<1>3. CASE Crash(w)
  <2>1. UNCHANGED <<status, attempts, due, quota, accepted>> /\ r \notin o.row
    BY <1>3 DEF Crash, Fault, rows
  <2>2. Writes(w, "idle", {}, {}, {})
    BY <1>3, NobodyWrites DEF Crash
  <2>3. SameColumns(r)
    BY <2>1 DEF SameColumns
  <2>4. NoNewHold(r)
    BY <2>1, <2>2, HoldsNoMore
  <2> QED BY <2>3, <2>4, StaysStraight
<1> QED BY <1>1, <1>2, <1>3

LEMMA PathsStep == OutboxInv /\ Paths /\ [Next]_vars => Paths'
<1> SUFFICES ASSUME OutboxInv, Paths, [Next]_vars, NEW r \in Row, r \notin unsure' PROVE Straight(r)'
  BY DEF Paths
<1>1. unsure \subseteq unsure'
  <2>1. ASSUME NEW w \in Worker, Flush(w), ~Send(w) PROVE unsure' = unsure
    BY <2>1 DEF Flush, Select, Finish, Reconcile, Conclude, Record, QueueFallback, Claim, Prepare, seen
  <2>2. ASSUME NEW w \in Worker, Send(w) PROVE unsure \subseteq unsure'
    BY <2>2 DEF Send
  <2>3. ASSUME NEW w \in Worker, FailCall(w) \/ LoseAnswer(w) \/ Crash(w) PROVE unsure \subseteq unsure'
    BY <2>3 DEF FailCall, LoseAnswer, Crash, Fault
  <2>4. ASSUME NEW q \in Row, ComeDue(q) \/ Overrun(q) PROVE unsure \subseteq unsure'
    BY <2>4 DEF ComeDue, Overrun, Fault, seen
  <2>5. ASSUME NEW m \in Message, Enqueue(m) \/ OptOut(m) PROVE unsure' = unsure
    BY <2>5 DEF Enqueue, OptOut, seen
  <2>6. SwitchOff \/ UNCHANGED vars => unsure' = unsure
    BY DEF SwitchOff, vars, seen
  <2> QED BY <2>1, <2>2, <2>3, <2>4, <2>5, <2>6 DEF Next
<1>2. Straight(r) /\ Shape /\ Stage /\ Desk /\ accepted \in [Row -> 0..2]
  BY <1>1 DEF Paths, OutboxInv
<1> QED BY <1>2, FlushStraight, FaultsStraight, OthersStraight DEF Next

LEMMA PathsInit == Init => Paths
BY DEF Init, Paths, Straight, Claimed, Settled, Nobody, HeldBy

\* Overlapping flushes, opt-outs and a policy that is switched off between the steps of a
\* flush never send a row twice nor book its quota wrongly: only a fault can, and it
\* leaves the row unsure (notification-flush:164).
THEOREM SentOnce == Spec => []SentOnceAndPaid
<1>1. OutboxInv /\ Paths => SentOnceAndPaid
  <2> SUFFICES ASSUME OutboxInv, Paths, NEW r \in Row, r \notin unsure
               PROVE  /\ accepted[r] <= 1
                      /\ status[r] = "sent" => quota[r] = "used"
                      /\ status[r] = "failed" => quota[r] = "released"
                      /\ status[r] = "cancelled" /\ accepted[r] > 0 => quota[r] = "used"
    BY DEF SentOnceAndPaid
  <2>1. /\ \A w \in Worker : r \in worker[w].row => Standing(r, worker[w].at)
        /\ (\A w \in Worker : r \notin worker[w].row) => Settled(r)
    BY DEF Paths, Straight
  <2>2. CASE Settled(r)
    BY <2>2 DEF Settled
  <2>3. CASE \E at : Standing(r, at)
    BY <2>3 DEF Standing
  <2> QED BY <2>1, <2>2, <2>3
<1> QED BY <1>1, OutboxInit, OutboxStep, PathsInit, PathsStep, PTL DEF Spec
=============================================================================
