------------------------ MODULE OfflineOutboxProofs ------------------------
(***************************************************************************)
(* Theorems about OfflineOutbox, for every number of sales, tabs that       *)
(* replay the same queue, days and reloads.                                 *)
(***************************************************************************)
EXTENDS OfflineOutbox, FiniteSetTheorems, TLAPS

\* The rows and days that a posting reads and writes.
BookTypes ==
  /\ books \in [Ref -> Seq(Day)]
  /\ review \in [Ref -> {"none", "pending", "approved", "rejected"}]
  /\ today \in Day /\ lock \in 0..MaxDay /\ day \in [Ref -> 0..MaxDay]

IInv == BookTypes /\ BookedOnce

\* A posting writes one more day to one sale, after the last closed one.
Posted(r) ==
  \E d \in Day : /\ d > lock /\ books[r] = <<>>
                 /\ Post(r, d)

LEMMA DayArithmetic ==
  ASSUME BookTypes
  PROVE  /\ \A r \in Ref : day[r] > lock => day[r] \in Day
         /\ lock \in Nat /\ today \in Nat
BY OutboxAssumption DEF BookTypes, OutboxAssumption, Day

LEMMA PostedBooks ==
  ASSUME BookTypes, NEW r \in Ref, Posted(r)
  PROVE  /\ books' \in [Ref -> Seq(Day)]
         /\ Len(books'[r]) <= 1 /\ Last(books'[r]) > lock /\ books'[r] # <<>>
         /\ \A s \in Ref \ {r} : books'[s] = books[s]
<1>1. PICK d \in Day : d > lock /\ books[r] = <<>> /\ Post(r, d)
  BY DEF Posted
<1>2. books' = [books EXCEPT ![r] = Append(<<>>, d)]
  BY <1>1 DEF Post
<1>3. Append(<<>>, d) \in Seq(Day) /\ Append(<<>>, d) = <<d>> /\ Len(<<d>>) = 1 /\ <<d>>[1] = d
  OBVIOUS
<1>4. books'[r] = <<d>> /\ books' \in [Ref -> Seq(Day)]
  BY <1>2, <1>3 DEF BookTypes
<1>5. \A s \in Ref \ {r} : books'[s] = books[s]
  BY <1>2 DEF BookTypes
<1>6. Last(<<d>>) = d
  BY <1>3 DEF Last
<1> QED BY <1>1, <1>3, <1>4, <1>5, <1>6

\* Every step posts one sale or none, and approves only a sale it posts.
LEMMA StepPosts ==
  ASSUME BookTypes, [Next]_vars
  PROVE  /\ (\E r \in Ref : Posted(r)) \/ UNCHANGED books
         /\ review' \in [Ref -> {"none", "pending", "approved", "rejected"}]
         /\ \A r \in Ref : review'[r] = "approved" => review[r] = "approved" \/ Posted(r)
         /\ today' \in Day /\ lock' \in 0..MaxDay /\ day' \in [Ref -> 0..MaxDay]
<1> DEFINE Kept == UNCHANGED <<books, review, today, lock, day>>
           Goal == /\ (\E r \in Ref : Posted(r)) \/ UNCHANGED books
                   /\ review' \in [Ref -> {"none", "pending", "approved", "rejected"}]
                   /\ \A r \in Ref : review'[r] = "approved" => review[r] = "approved" \/ Posted(r)
                   /\ today' \in Day /\ lock' \in 0..MaxDay /\ day' \in [Ref -> 0..MaxDay]
<1>1. Kept => Goal
  BY DEF BookTypes
<1>2. CASE NextDay
  BY <1>2, OutboxAssumption DEF NextDay, BookTypes, Day, device, disk, OutboxAssumption
<1>3. ASSUME NEW d \in Day, ClosePeriod(d) PROVE Goal
  BY <1>3, OutboxAssumption DEF ClosePeriod, BookTypes, Day, disk, OutboxAssumption
<1>4. CASE RetireDevice
  BY <1>1, <1>4 DEF RetireDevice, disk
<1>5. ASSUME NEW r \in Ref, ApproveLate(r) PROVE Goal
  <2>1. Posted(r)
    BY <1>5 DEF ApproveLate, MayPost, BookTypes, Posted
  <2>2. review' = [review EXCEPT ![r] = "approved"] /\ UNCHANGED <<today, lock, day>>
    BY <1>5 DEF ApproveLate, disk
  <2> QED BY <2>1, <2>2 DEF BookTypes
<1>6. ASSUME NEW r \in Ref, RejectLate(r) PROVE Goal
  BY <1>6 DEF RejectLate, BookTypes, disk
<1>7. CASE PostOnline
  <2>1. UNCHANGED <<review, today, lock, day>>
    BY <1>7 DEF PostOnline, disk
  <2>2. UNCHANGED books \/ (MayPost(attempt, today) /\ Post(attempt, today))
    BY <1>7 DEF PostOnline
  <2>3. MayPost(attempt, today) /\ Post(attempt, today) => Posted(attempt)
    BY DEF MayPost, Posted, BookTypes
  <2>4. attempt \notin Ref /\ Post(attempt, today) => UNCHANGED books
    BY DEF Post, BookTypes
  <2> QED BY <2>1, <2>2, <2>3, <2>4 DEF BookTypes
<1>8. CASE Enqueue
  <2>1. day' = [day EXCEPT ![attempt] = today] /\ UNCHANGED <<books, review, today, lock>>
    BY <1>8 DEF Enqueue, server
  <2>2. today \in 0..MaxDay
    BY OutboxAssumption DEF BookTypes, Day, OutboxAssumption
  <2> QED BY <2>1, <2>2 DEF BookTypes
<1>9. ASSUME NEW t \in Tab, Replay(t) PROVE Goal
  <2>1. PICK r \in Oldest(list[t]), answer \in {"ok", "refused"} :
               PostOffline(r, Cardinality(list[t]), answer)
    BY <1>9 DEF Replay
  <2>2. UNCHANGED <<today, lock, day>>
    BY <1>9 DEF Replay, disk
  <2>3. review' = review \/ review' = [review EXCEPT ![r] = IF @ = "none" THEN "pending" ELSE @]
    BY <2>1 DEF PostOffline
  <2>4. UNCHANGED books \/ (MayPost(r, day[r]) /\ Post(r, day[r]))
    BY <2>1 DEF PostOffline
  <2>5. r \in Ref /\ MayPost(r, day[r]) /\ Post(r, day[r]) => Posted(r)
    BY DayArithmetic DEF MayPost, Posted
  <2>6. r \notin Ref /\ Post(r, day[r]) => UNCHANGED books
    BY DEF Post, BookTypes
  <2>7. review' \in [Ref -> {"none", "pending", "approved", "rejected"}]
    BY <2>3 DEF BookTypes
  <2>8. \A s \in Ref : review'[s] = "approved" => review[s] = "approved"
    BY <2>3 DEF BookTypes
  <2> QED BY <2>2, <2>4, <2>5, <2>6, <2>7, <2>8 DEF BookTypes
<1>10. CASE GoOffline \/ GoOnline
  BY <1>1, <1>10 DEF GoOffline, GoOnline, server, disk
<1>11. CASE FillCart \/ Complete \/ EditCart \/ LosePost \/ ShowRefusal \/ ClearCart
  BY <1>1, <1>11 DEF FillCart, Complete, EditCart, LosePost, ShowRefusal, ClearCart, server, disk
<1>12. ASSUME NEW t \in Tab, StartSync(t) \/ SettleEntry(t) \/ ReportPending(t) \/ Failing(t) PROVE Goal
  BY <1>1, <1>12 DEF StartSync, SettleEntry, ReportPending, Failing, StopPass, LoseReport, Reload, server, disk
<1>13. ASSUME NEW r \in Ref, Retry(r) \/ Discard(r) PROVE Goal
  BY <1>1, <1>13 DEF Retry, Discard, server
<1>14. UNCHANGED vars => Goal
  BY <1>1 DEF vars, server, disk
<1> QED BY <1>2, <1>3, <1>4, <1>5, <1>6, <1>7, <1>8, <1>9, <1>10, <1>11, <1>12, <1>13, <1>14
        DEF Next, Company, Selling, Syncing

LEMMA BooksInit == Init => IInv
<1> SUFFICES ASSUME Init PROVE IInv
  OBVIOUS
<1>1. <<>> \in Seq(Day) /\ Len(<<>>) = 0
  OBVIOUS
<1>2. 1 \in Day /\ 0 \in 0..MaxDay
  BY OutboxAssumption DEF Day, OutboxAssumption
<1> QED BY <1>1, <1>2 DEF Init, IInv, BookTypes, BookedOnce

LEMMA BooksStep == IInv /\ [Next]_vars => IInv'
<1> SUFFICES ASSUME IInv, [Next]_vars PROVE IInv'
  OBVIOUS
<1>1. /\ (\E r \in Ref : Posted(r)) \/ UNCHANGED books
      /\ review' \in [Ref -> {"none", "pending", "approved", "rejected"}]
      /\ \A r \in Ref : review'[r] = "approved" => review[r] = "approved" \/ Posted(r)
      /\ today' \in Day /\ lock' \in 0..MaxDay /\ day' \in [Ref -> 0..MaxDay]
  BY StepPosts DEF IInv
<1>2. /\ \A r \in Ref : Len(books[r]) <= 1
      /\ \A r \in Ref : review[r] = "approved" => books[r] # <<>>
  BY DEF IInv, BookedOnce
<1>3. \A s \in Ref : Posted(s) => books'[s] # <<>>
  BY PostedBooks DEF IInv
<1>4. CASE UNCHANGED books
  BY <1>1, <1>2, <1>3, <1>4 DEF IInv, BookTypes, BookedOnce
<1>5. ASSUME NEW r \in Ref, Posted(r) PROVE IInv'
  <2>1. /\ books' \in [Ref -> Seq(Day)] /\ Len(books'[r]) <= 1 /\ books'[r] # <<>>
        /\ \A s \in Ref \ {r} : books'[s] = books[s]
    BY <1>5, PostedBooks DEF IInv
  <2>2. ASSUME NEW s \in Ref PROVE Len(books'[s]) <= 1
    <3>1. CASE s = r
      BY <2>1, <3>1
    <3>2. CASE s # r
      BY <1>2, <2>1, <3>2
    <3> QED BY <3>1, <3>2
  <2>3. \A s \in Ref : review'[s] = "approved" => books'[s] # <<>>
    BY <1>1, <1>2, <1>3, <2>1
  <2> QED BY <1>1, <2>1, <2>2, <2>3 DEF IInv, BookTypes, BookedOnce
<1> QED BY <1>1, <1>4, <1>5

\* However often the screen, several tabs and a review send a reference, it is in the
\* books once, and a sale approved late is there (0114:1116, 0132:83).
THEOREM SaleIsBookedOnce == Spec => []BookedOnce
<1>1. IInv => BookedOnce
  BY DEF IInv
<1> QED BY <1>1, BooksInit, BooksStep, PTL DEF Spec

\* However late a sale is replayed or approved, and by however many tabs, it is posted on
\* a day after the last closed one (0114:1092, 0082:184).
THEOREM PeriodStaysClosed == Spec => ClosedStaysClosed
<1>1. IInv /\ [Next]_vars => [\A r \in Ref : books'[r] # books[r] => Last(books'[r]) > lock]_vars
  <2> SUFFICES ASSUME IInv, [Next]_vars, NEW r \in Ref, books'[r] # books[r]
               PROVE  Last(books'[r]) > lock
    OBVIOUS
  <2>1. PICK s \in Ref : Posted(s)
    BY StepPosts DEF IInv
  <2>2. Last(books'[s]) > lock /\ \A q \in Ref \ {s} : books'[q] = books[q]
    BY <2>1, PostedBooks DEF IInv
  <2> QED BY <2>2
<1> QED BY <1>1, BooksInit, BooksStep, PTL DEF Spec, ClosedStaysClosed

-----------------------------------------------------------------------------
(***************************************************************************)
(* The queue: its counts are finite and its values stay in their sets.      *)
(***************************************************************************)
LEMMA CountsAreNat ==
  ASSUME NEW S \in SUBSET Ref
  PROVE  IsFiniteSet(S) /\ Cardinality(S) \in Nat
BY FS_Subset, FS_CardinalityType, OutboxAssumption DEF OutboxAssumption

LEMMA FreshIsUnused == used # Ref /\ used \in SUBSET Ref => Fresh \in Ref /\ Fresh \notin used
BY DEF Fresh

LEMMA HeartbeatCounts == \A n \in Nat : Heartbeat(n) \in Nat /\ Heartbeat(n) - 1 \in Nat
BY DEF Heartbeat

\* The values of the screen, the queue and the passes, without those of a posting.
QueueTypes ==
  /\ pending \in Nat /\ retired \in BOOLEAN
  /\ online \in BOOLEAN /\ reloads \in 0..MaxReloads
  /\ outbox \in [Ref -> {"absent", "queued", "failed"}]
  /\ arrived \in [Ref -> Nat]
  /\ saved \in BOOLEAN
  /\ list \in [Tab -> SUBSET Ref]
  /\ step \in [Tab -> {"idle", "sending", "answered", "counting"}]
  /\ reply \in [Tab -> Reply]
  /\ cart \in BOOLEAN /\ attempt \in Ref \union {None}
  /\ at \in {"idle", "posting", "posted", "refused", "queueing", "clearing"}
  /\ used \in SUBSET Ref
  /\ dropped \in SUBSET Ref

LEMMA TypesSplit == TypeOK <=> BookTypes /\ QueueTypes
BY DEF TypeOK, BookTypes, QueueTypes

LEMMA QueueTypesCompany ==
  ASSUME QueueTypes, Company
  PROVE  QueueTypes'
<1>1. CASE NextDay \/ \E d \in Day : ClosePeriod(d)
  BY <1>1 DEF NextDay, ClosePeriod, QueueTypes, device, disk, pass, screen
<1>2. CASE RetireDevice
  BY <1>2 DEF RetireDevice, QueueTypes, device, disk, pass, screen
<1>3. CASE \E r \in Ref : ApproveLate(r) \/ RejectLate(r)
  BY <1>3 DEF ApproveLate, RejectLate, QueueTypes, device, disk, pass, screen
<1> QED BY <1>1, <1>2, <1>3 DEF Company

LEMMA QueueTypesSelling ==
  ASSUME QueueTypes, Selling
  PROVE  QueueTypes'
<1>1. CASE FillCart \/ EditCart \/ ClearCart
  BY <1>1 DEF FillCart, EditCart, ClearCart, QueueTypes, server, device, disk, pass, screen
<1>2. CASE Complete
  <2>1. attempt' \in Ref
    BY <1>2, FreshIsUnused DEF Complete, QueueTypes
  <2> QED BY <1>2, <2>1 DEF Complete, QueueTypes, server, device, disk, pass
<1>3. CASE PostOnline
  BY <1>3 DEF PostOnline, QueueTypes, device, disk, pass
<1>4. CASE LosePost \/ ShowRefusal
  BY <1>4 DEF LosePost, ShowRefusal, QueueTypes, server, device, disk, pass
<1>5. CASE Enqueue
  <2>1. Cardinality(Arrivals) + 1 \in Nat
    BY CountsAreNat DEF Arrivals
  <2> QED BY <1>5, <2>1 DEF Enqueue, QueueTypes, server, device, pass
<1> QED BY <1>1, <1>2, <1>3, <1>4, <1>5 DEF Selling

LEMMA QueueTypesPass ==
  ASSUME QueueTypes, NEW t \in Tab, Syncing(t) \/ Failing(t)
  PROVE  QueueTypes'
<1>1. CASE StartSync(t)
  BY <1>1 DEF StartSync, Queued, QueueTypes, server, device, disk, screen
<1>2. CASE Replay(t)
  <2>1. PICK r \in Oldest(list[t]), answer \in {"ok", "refused"} :
               /\ PostOffline(r, Cardinality(list[t]), answer)
               /\ reply' = [reply EXCEPT ![t] = answer]
    BY <1>2 DEF Replay
  <2>2. Cardinality(list[t]) \in Nat
    BY CountsAreNat DEF QueueTypes
  <2>3. pending' \in Nat
    BY <2>1, <2>2, HeartbeatCounts DEF PostOffline, QueueTypes
  <2>4. reply' \in [Tab -> Reply]
    BY <2>1 DEF QueueTypes, Reply
  <2> QED BY <1>2, <2>3, <2>4 DEF Replay, QueueTypes, device, disk, screen
<1>3. CASE SettleEntry(t)
  <2>1. PICK r \in Oldest(list[t]) :
          /\ outbox' = [outbox EXCEPT ![r] = IF reply[t] = "ok" THEN "absent" ELSE "failed"]
          /\ list' = [list EXCEPT ![t] = @ \ {r}]
          /\ step' = [step EXCEPT ![t] = IF list[t] = {r} THEN "counting" ELSE "sending"]
    BY <1>3 DEF SettleEntry
  <2>2. /\ outbox' \in [Ref -> {"absent", "queued", "failed"}]
        /\ list' \in [Tab -> SUBSET Ref]
        /\ step' \in [Tab -> {"idle", "sending", "answered", "counting"}]
    BY <2>1 DEF QueueTypes
  <2>3. reply' \in [Tab -> Reply]
    BY <1>3 DEF SettleEntry, QueueTypes, Reply
  <2> QED BY <1>3, <2>2, <2>3 DEF SettleEntry, QueueTypes, server, device, screen
<1>4. CASE ReportPending(t)
  <2>1. Cardinality(Queued) \in Nat
    BY CountsAreNat DEF Queued
  <2> QED BY <1>4, <2>1 DEF ReportPending, QueueTypes, device, disk, screen
<1>5. CASE StopPass(t) \/ LoseReport(t)
  BY <1>5 DEF StopPass, LoseReport, QueueTypes, Reply, server, device, disk, screen
<1>6. CASE Reload(t)
  <2>1. reloads' \in 0..MaxReloads
    BY <1>6, OutboxAssumption DEF Reload, QueueTypes, OutboxAssumption
  <2>2. /\ cart' \in BOOLEAN /\ attempt' \in Ref \union {None}
        /\ at' \in {"idle", "posting", "posted", "refused", "queueing", "clearing"}
    BY <1>6 DEF Reload, QueueTypes
  <2> QED BY <1>6, <2>1, <2>2 DEF Reload, QueueTypes, Reply, server, disk
<1> QED BY <1>1, <1>2, <1>3, <1>4, <1>5, <1>6 DEF Syncing, Failing

LEMMA TypeStep == TypeOK /\ [Next]_vars => TypeOK'
<1> SUFFICES ASSUME TypeOK, [Next]_vars PROVE TypeOK'
  OBVIOUS
<1>1. BookTypes /\ QueueTypes
  BY TypesSplit
<1>2. BookTypes'
  <2>1. \A r \in Ref : Posted(r) => books' \in [Ref -> Seq(Day)]
    BY <1>1, PostedBooks
  <2>2. books' = books => books' \in [Ref -> Seq(Day)]
    BY <1>1 DEF BookTypes
  <2> QED BY <1>1, <2>1, <2>2, StepPosts DEF BookTypes
<1>3. QueueTypes'
  <2>1. CASE GoOffline \/ GoOnline
    BY <1>1, <2>1 DEF GoOffline, GoOnline, QueueTypes, server, disk, pass, screen
  <2>2. ASSUME NEW r \in Ref, Retry(r) \/ Discard(r) PROVE QueueTypes'
    BY <1>1, <2>2 DEF Retry, Discard, QueueTypes, server, device, pass, screen
  <2>3. CASE UNCHANGED vars
    BY <1>1, <2>3 DEF vars, QueueTypes, server, device, disk, pass, screen
  <2> QED BY <1>1, <2>1, <2>2, <2>3, QueueTypesCompany, QueueTypesSelling, QueueTypesPass DEF Next
<1> QED BY <1>2, <1>3, TypesSplit, PTL

LEMMA TypeInit == Init => TypeOK
<1> SUFFICES ASSUME Init PROVE TypeOK
  OBVIOUS
<1>1. BookTypes
  BY BooksInit DEF IInv
<1>2. QueueTypes
  <2>1. pending \in Nat /\ reloads \in 0..MaxReloads
    BY OutboxAssumption DEF Init, OutboxAssumption
  <2>2. arrived \in [Ref -> Nat] /\ outbox \in [Ref -> {"absent", "queued", "failed"}]
    BY DEF Init
  <2>3. /\ list \in [Tab -> SUBSET Ref] /\ reply \in [Tab -> Reply]
        /\ step \in [Tab -> {"idle", "sending", "answered", "counting"}]
    BY DEF Init, Reply
  <2>4. /\ retired \in BOOLEAN /\ online \in BOOLEAN /\ saved \in BOOLEAN /\ cart \in BOOLEAN
        /\ attempt \in Ref \union {None} /\ used \in SUBSET Ref /\ dropped \in SUBSET Ref
        /\ at \in {"idle", "posting", "posted", "refused", "queueing", "clearing"}
    BY DEF Init
  <2> QED BY <2>1, <2>2, <2>3, <2>4 DEF QueueTypes
<1> QED BY <1>1, <1>2, TypesSplit

\* The queue, the passes of every tab, the screen and the books keep to their types;
\* no count the server notes, of which one is subtracted for the sale it posts, is
\* ever negative (sync.service.ts:139-226, 0114:1073).
THEOREM OutboxTypes == Spec => []TypeOK
BY TypeInit, TypeStep, PTL DEF Spec

-----------------------------------------------------------------------------
(***************************************************************************)
(* What the device knows of a sale it has queued.                           *)
(***************************************************************************)
\* The server answers for the sale: it has posted it or keeps it for a review.
Accepted(r) == books[r] # <<>> \/ review[r] # "none"

\* Every queued sale has a place of its own in the order of queueing.
Places ==
  /\ \A r \in Ref : arrived[r] <= Cardinality(Arrivals)
  /\ \A r, s \in Arrivals : arrived[r] = arrived[s] => r = s

\* Only a sale that was queued is in the outbox, discarded or under review.
Taken ==
  \A r \in Ref :
    /\ arrived[r] > 0 => r \in used
    /\ outbox[r] # "absent" \/ r \in dropped => arrived[r] > 0
    /\ review[r] # "none" => arrived[r] > 0 /\ day[r] <= lock

\* The screen posts under a reference that was never queued.
OnScreen ==
  /\ at # "idle" => attempt # None
  /\ at # "clearing" /\ attempt # None => attempt \in used /\ arrived[attempt] = 0

\* A pass works on sales that were queued, and removes only an accepted one.
InPass ==
  \A t \in Tab :
    /\ list[t] \subseteq Arrivals
    /\ step[t] = "answered" /\ reply[t] = "ok" => \A r \in Oldest(list[t]) : Accepted(r)

\* A sale that was queued is answered for by the server, still in the outbox, or
\* was discarded by the cashier.
NoSaleIsLost == \A r \in Arrivals : Accepted(r) \/ outbox[r] # "absent" \/ r \in dropped

QueueInv == TypeOK /\ BookedOnce /\ Places /\ Taken /\ OnScreen /\ InPass /\ NoSaleIsLost

LEMMA QueueFacts ==
  ASSUME TypeOK
  PROVE  /\ \A r \in Ref : r \in Arrivals <=> arrived[r] # 0
         /\ \A r \in Ref : arrived[r] \in Nat /\ day[r] \in 0..MaxDay
         /\ Arrivals \in SUBSET Ref /\ lock \in 0..MaxDay /\ 0..MaxDay \subseteq Nat
         /\ attempt \in Ref \union {None}
BY OutboxAssumption DEF TypeOK, Arrivals, OutboxAssumption

\* Which steps touch the queue, the order of queueing and the discarded sales.
LEMMA QueueFrame ==
  ASSUME [Next]_vars
  PROVE  /\ UNCHANGED <<arrived, day>> \/ Enqueue
         /\ lock' = lock \/ \E d \in Day : ClosePeriod(d)
         /\ used' = used \/ Complete
         /\ dropped' = dropped \/ \E r \in Ref : Discard(r)
         /\ \/ outbox' = outbox \/ Enqueue
            \/ \E t \in Tab : SettleEntry(t)
            \/ \E r \in Ref : Retry(r) \/ Discard(r)
         /\ \/ review' = review
            \/ \E r \in Ref : ApproveLate(r) \/ RejectLate(r)
            \/ \E t \in Tab : Replay(t)
         /\ \/ UNCHANGED <<attempt, at>>
            \/ Complete \/ EditCart \/ PostOnline \/ LosePost \/ ShowRefusal \/ Enqueue \/ ClearCart
            \/ \E t \in Tab : Reload(t)
<1>1. CASE UNCHANGED vars
  BY <1>1 DEF vars, server, disk, screen
<1>2. CASE Company
  BY <1>2 DEF Company, NextDay, RetireDevice, ClosePeriod, ApproveLate, RejectLate, disk, screen
<1>3. CASE Selling
  BY <1>3 DEF Selling, FillCart, Complete, EditCart, PostOnline, LosePost, ShowRefusal, Enqueue,
              ClearCart, server, disk
<1>4. CASE GoOffline \/ GoOnline
  BY <1>4 DEF GoOffline, GoOnline, server, disk, screen
<1>5. CASE \E t \in Tab : Syncing(t)
  BY <1>5 DEF Syncing, StartSync, Replay, SettleEntry, ReportPending, server, disk, screen
<1>6. CASE \E t \in Tab : Failing(t)
  BY <1>6 DEF Failing, StopPass, LoseReport, Reload, server, disk, screen
<1>7. CASE \E r \in Ref : Retry(r) \/ Discard(r)
  BY <1>7 DEF Retry, Discard, server, screen
<1> QED BY <1>1, <1>2, <1>3, <1>4, <1>5, <1>6, <1>7 DEF Next

\* A review begins with a late replay of a queued sale, and is never withdrawn.
LEMMA ReviewStep ==
  ASSUME QueueInv, [Next]_vars
  PROVE  \A r \in Ref :
           /\ review[r] # "none" => review'[r] # "none"
           /\ review'[r] # "none" => arrived[r] > 0 /\ day[r] <= lock
<1> SUFFICES ASSUME NEW q \in Ref
             PROVE  /\ review[q] # "none" => review'[q] # "none"
                    /\ review'[q] # "none" => arrived[q] > 0 /\ day[q] <= lock
  OBVIOUS
<1>t. review \in [Ref -> {"none", "pending", "approved", "rejected"}]
  BY DEF QueueInv, TypeOK
<1>1. review[q] # "none" => arrived[q] > 0 /\ day[q] <= lock
  BY DEF QueueInv, Taken
<1>2. CASE review' = review
  BY <1>1, <1>2
<1>3. ASSUME NEW r \in Ref, ApproveLate(r) \/ RejectLate(r)
      PROVE  /\ review[q] # "none" => review'[q] # "none"
             /\ review'[q] # "none" => arrived[q] > 0 /\ day[q] <= lock
  BY <1>t, <1>1, <1>3 DEF ApproveLate, RejectLate
<1>4. ASSUME NEW t \in Tab, Replay(t)
      PROVE  /\ review[q] # "none" => review'[q] # "none"
             /\ review'[q] # "none" => arrived[q] > 0 /\ day[q] <= lock
  <2>1. PICK r \in Oldest(list[t]), answer \in {"ok", "refused"} :
               PostOffline(r, Cardinality(list[t]), answer)
    BY <1>4 DEF Replay
  <2>2. r \in Arrivals
    BY <2>1 DEF Oldest, QueueInv, InPass
  <2>3. r \in Ref /\ arrived[r] > 0
    BY <2>2 DEF Arrivals
  <2>4. \/ review' = review
        \/ Late(r) /\ review' = [review EXCEPT ![r] = IF @ = "none" THEN "pending" ELSE @]
    BY <2>1 DEF PostOffline
  <2> QED BY <1>t, <1>1, <2>3, <2>4 DEF Late
<1> QED BY <1>2, <1>3, <1>4, QueueFrame

\* What the server has answered for, it still answers for.
LEMMA AcceptedStays ==
  ASSUME QueueInv, [Next]_vars, NEW r \in Ref, Accepted(r)
  PROVE  Accepted(r)'
<1>1. BookTypes
  BY TypesSplit DEF QueueInv
<1>2. CASE UNCHANGED books
  BY <1>2, ReviewStep DEF Accepted
<1>3. ASSUME NEW s \in Ref, Posted(s) PROVE Accepted(r)'
  BY <1>1, <1>3, PostedBooks, ReviewStep DEF Accepted
<1> QED BY <1>1, <1>2, <1>3, StepPosts

\* Queueing gives the sale of the screen the next place.
LEMMA EnqueuePlaces ==
  ASSUME QueueInv, Enqueue
  PROVE  /\ attempt \in Ref /\ attempt \in used /\ attempt \notin Arrivals
         /\ Arrivals' = Arrivals \union {attempt}
         /\ \A r \in Ref \ {attempt} : arrived'[r] = arrived[r] /\ day'[r] = day[r]
         /\ \A r \in Arrivals : arrived[r] < arrived'[attempt]
         /\ Places'
<1>1. attempt \in Ref /\ attempt \in used /\ arrived[attempt] = 0
  BY DEF Enqueue, QueueInv, OnScreen, TypeOK
<1>2. /\ arrived' = [arrived EXCEPT ![attempt] = Cardinality(Arrivals) + 1]
      /\ day' = [day EXCEPT ![attempt] = today]
  BY DEF Enqueue
<1>3. /\ arrived \in [Ref -> Nat] /\ day \in [Ref -> 0..MaxDay]
      /\ Arrivals \in SUBSET Ref /\ IsFiniteSet(Arrivals) /\ Cardinality(Arrivals) \in Nat
  BY CountsAreNat DEF QueueInv, TypeOK, Arrivals
<1>4. attempt \notin Arrivals
  BY <1>1 DEF Arrivals
<1>5. Arrivals' = Arrivals \union {attempt}
  BY <1>1, <1>2, <1>3 DEF Arrivals
<1>6. Cardinality(Arrivals)' = Cardinality(Arrivals) + 1
  BY <1>3, <1>4, <1>5, FS_AddElement
<1>7. \A r \in Ref \ {attempt} : arrived'[r] = arrived[r] /\ day'[r] = day[r]
  BY <1>2, <1>3
<1>8. arrived'[attempt] = Cardinality(Arrivals) + 1
  BY <1>1, <1>2, <1>3
<1>9. \A r \in Ref : arrived[r] \in Nat /\ arrived[r] <= Cardinality(Arrivals)
  BY <1>3 DEF QueueInv, Places
<1>10. \A r \in Arrivals : r # attempt /\ r \in Ref /\ arrived[r] < arrived'[attempt]
  BY <1>3, <1>4, <1>8, <1>9
<1>11. \A r \in Ref : arrived'[r] <= Cardinality(Arrivals)'
  BY <1>3, <1>6, <1>7, <1>8, <1>9
<1>12. ASSUME NEW r \in Arrivals', NEW s \in Arrivals', arrived'[r] = arrived'[s] PROVE r = s
  <2>1. CASE r \in Arrivals /\ s \in Arrivals
    BY <1>3, <1>7, <1>10, <1>12, <2>1 DEF QueueInv, Places
  <2>2. CASE r \in Arrivals /\ s = attempt
    BY <1>3, <1>7, <1>9, <1>10, <1>12, <2>2
  <2>3. CASE r = attempt /\ s \in Arrivals
    BY <1>3, <1>7, <1>9, <1>10, <1>12, <2>3
  <2> QED BY <1>5, <2>1, <2>2, <2>3
<1> QED BY <1>1, <1>4, <1>5, <1>7, <1>10, <1>11, <1>12 DEF Places

LEMMA PlacesStep ==
  ASSUME QueueInv, [Next]_vars
  PROVE  Places' /\ Arrivals \subseteq Arrivals'
<1>1. CASE arrived' = arrived
  BY <1>1 DEF QueueInv, Places, Arrivals
<1>2. CASE Enqueue
  BY <1>2, EnqueuePlaces
<1> QED BY <1>1, <1>2, QueueFrame

\* Which step moves a sale in or out of the outbox, and under which condition.
LEMMA OutboxStep ==
  ASSUME QueueInv, [Next]_vars
  PROVE  /\ \A r \in Ref : outbox'[r] # "absent" => r \in Arrivals'
         /\ \A r \in Ref : outbox'[r] = "absent" =>
              outbox[r] = "absent" \/ Accepted(r) \/ r \in dropped'
<1> DEFINE Comes(r) == outbox'[r] # "absent" => r \in Arrivals'
           Goes(r) == outbox'[r] = "absent" => outbox[r] = "absent" \/ Accepted(r) \/ r \in dropped'
<1> SUFFICES ASSUME NEW q \in Ref PROVE Comes(q) /\ Goes(q)
  OBVIOUS
<1>t. /\ outbox \in [Ref -> {"absent", "queued", "failed"}]
      /\ \A r \in Ref : outbox[r] # "absent" => r \in Arrivals
      /\ Arrivals \subseteq Arrivals'
  BY PlacesStep DEF QueueInv, TypeOK, Taken, Arrivals
<1>1. CASE outbox' = outbox
  BY <1>t, <1>1
<1>2. CASE Enqueue
  <2>1. attempt \in Arrivals' /\ outbox' = [outbox EXCEPT ![attempt] = "queued"]
    BY <1>2, EnqueuePlaces DEF Enqueue
  <2> QED BY <1>t, <2>1
<1>3. ASSUME NEW t \in Tab, SettleEntry(t) PROVE Comes(q) /\ Goes(q)
  <2>1. PICK r \in Oldest(list[t]) :
          outbox' = [outbox EXCEPT ![r] = IF reply[t] = "ok" THEN "absent" ELSE "failed"]
    BY <1>3 DEF SettleEntry
  <2>2. r \in Arrivals /\ (reply[t] = "ok" => Accepted(r))
    BY <1>3, <2>1 DEF Oldest, QueueInv, InPass, SettleEntry
  <2>3. CASE q = r
    BY <1>t, <2>1, <2>2, <2>3
  <2>4. CASE q # r
    BY <1>t, <2>1, <2>4
  <2> QED BY <2>3, <2>4
<1>4. ASSUME NEW r \in Ref, Retry(r) PROVE Comes(q) /\ Goes(q)
  BY <1>t, <1>4 DEF Retry
<1>5. ASSUME NEW r \in Ref, Discard(r) PROVE Comes(q) /\ Goes(q)
  BY <1>t, <1>5 DEF Discard
<1> QED BY <1>1, <1>2, <1>3, <1>4, <1>5, QueueFrame

LEMMA TakenStep ==
  ASSUME QueueInv, [Next]_vars
  PROVE  Taken'
<1> SUFFICES ASSUME NEW q \in Ref
             PROVE  /\ arrived'[q] > 0 => q \in used'
                    /\ outbox'[q] # "absent" \/ q \in dropped' => arrived'[q] > 0
                    /\ review'[q] # "none" => arrived'[q] > 0 /\ day'[q] <= lock'
  BY DEF Taken
<1>t. TypeOK /\ TypeOK' /\ Taken
  BY TypeStep DEF QueueInv
<1>1. used \subseteq used'
  BY QueueFrame DEF Complete
<1>2. lock \in Nat /\ lock' \in Nat /\ lock <= lock'
  <2>1. lock \in 0..MaxDay /\ lock' \in 0..MaxDay /\ today \in 1..MaxDay /\ MaxDay \in Nat
    BY <1>t, OutboxAssumption DEF TypeOK, OutboxAssumption, Day
  <2> QED BY <2>1, QueueFrame DEF ClosePeriod
<1>3. arrived[q] \in Nat /\ arrived'[q] \in Nat /\ day[q] \in Nat /\ day'[q] \in Nat
  BY <1>t, OutboxAssumption DEF TypeOK, OutboxAssumption
<1>4. q \in Arrivals' => arrived'[q] > 0
  BY DEF Arrivals
<1>5. \/ arrived'[q] = arrived[q] /\ day'[q] = day[q]
      \/ Enqueue /\ q = attempt /\ q \in used /\ arrived[q] = 0 /\ arrived'[q] > 0
  <2>1. CASE UNCHANGED <<arrived, day>>
    BY <2>1
  <2>2. CASE Enqueue
    <3>1. /\ attempt \in Ref /\ attempt \in used /\ attempt \notin Arrivals
          /\ Arrivals' = Arrivals \union {attempt}
          /\ \A r \in Ref \ {attempt} : arrived'[r] = arrived[r] /\ day'[r] = day[r]
      BY <2>2, EnqueuePlaces DEF QueueInv
    <3>2. CASE q = attempt
      BY <1>3, <1>4, <2>2, <3>1, <3>2 DEF Arrivals
    <3> QED BY <3>1, <3>2
  <2> QED BY <2>1, <2>2, QueueFrame
<1>6. arrived'[q] > 0 => q \in used'
  BY <1>t, <1>1, <1>5 DEF Taken
<1>7. outbox'[q] # "absent" => arrived'[q] > 0
  BY <1>4, OutboxStep
<1>8. q \in dropped' => arrived'[q] > 0
  <2>1. q \in dropped' => q \in dropped \/ outbox[q] = "failed"
    BY QueueFrame DEF Discard
  <2>2. q \in dropped' => arrived[q] > 0
    BY <1>t, <2>1 DEF Taken
  <2> QED BY <1>3, <1>5, <2>2
<1>9. review'[q] # "none" => arrived'[q] > 0 /\ day'[q] <= lock'
  <2>1. review'[q] # "none" => arrived[q] > 0 /\ day[q] <= lock
    BY ReviewStep
  <2> QED BY <1>2, <1>3, <1>5, <2>1
<1> QED BY <1>6, <1>7, <1>8, <1>9

LEMMA OnScreenStep ==
  ASSUME QueueInv, [Next]_vars
  PROVE  OnScreen'
<1>t. /\ OnScreen /\ attempt \in Ref \union {None} /\ used \in SUBSET Ref /\ None \notin Ref
      /\ \A r \in Ref : arrived[r] > 0 => r \in used
      /\ \A r \in Ref : arrived[r] \in Nat
  BY OutboxAssumption DEF QueueInv, TypeOK, Taken, OutboxAssumption
<1>1. used \subseteq used'
  BY QueueFrame DEF Complete
<1>2. CASE Enqueue
  BY <1>t, <1>2 DEF Enqueue, OnScreen
<1>3. CASE arrived' = arrived /\ UNCHANGED <<attempt, at>>
  BY <1>t, <1>1, <1>3 DEF OnScreen
<1>4. CASE Complete
  <2>1. attempt = None => Fresh \in Ref /\ Fresh \notin used
    BY <1>t, <1>4, FreshIsUnused DEF Complete
  <2>2. attempt' \in Ref /\ arrived[attempt'] = 0
    <3>1. CASE attempt = None
      BY <1>t, <1>4, <2>1, <3>1 DEF Complete
    <3>2. CASE attempt # None
      BY <1>t, <1>4, <3>2 DEF Complete, OnScreen
    <3> QED BY <3>1, <3>2
  <2> QED BY <1>t, <1>4, <2>2 DEF Complete, OnScreen, disk
<1>5. CASE EditCart \/ PostOnline \/ LosePost \/ ShowRefusal \/ ClearCart
  BY <1>t, <1>1, <1>5 DEF EditCart, PostOnline, LosePost, ShowRefusal, ClearCart, OnScreen, disk
<1>6. ASSUME NEW t \in Tab, Reload(t) PROVE OnScreen'
  BY <1>t, <1>1, <1>6 DEF Reload, OnScreen, disk
<1>7. CASE UNCHANGED <<arrived, day>> /\ UNCHANGED <<attempt, at>>
  BY <1>3, <1>7
<1> QED BY <1>2, <1>4, <1>5, <1>6, <1>7, QueueFrame

\* A step of another tab, of the screen or of the company leaves a pass as it is.
LEMMA PassFrame ==
  ASSUME TypeOK, [Next]_vars, NEW v \in Tab
  PROVE  \/ list'[v] = list[v] /\ step'[v] = step[v] /\ reply'[v] = reply[v]
         \/ StartSync(v) \/ Replay(v) \/ SettleEntry(v) \/ ReportPending(v) \/ Failing(v)
<1>t. /\ list \in [Tab -> SUBSET Ref] /\ reply \in [Tab -> Reply]
      /\ step \in [Tab -> {"idle", "sending", "answered", "counting"}]
  BY DEF TypeOK
<1>1. CASE UNCHANGED pass
  BY <1>1 DEF pass
<1>2. CASE Company \/ Selling \/ GoOffline \/ GoOnline \/ UNCHANGED vars
  BY <1>1, <1>2 DEF Company, NextDay, RetireDevice, ClosePeriod, ApproveLate, RejectLate,
       Selling, FillCart, Complete, EditCart, PostOnline, LosePost, ShowRefusal, Enqueue, ClearCart,
       GoOffline, GoOnline, vars
<1>3. ASSUME NEW r \in Ref, Retry(r) \/ Discard(r) PROVE UNCHANGED pass
  BY <1>3 DEF Retry, Discard
<1>4. ASSUME NEW t \in Tab \ {v}, Syncing(t)
      PROVE  list'[v] = list[v] /\ step'[v] = step[v] /\ reply'[v] = reply[v]
  <2>1. CASE StartSync(t) \/ ReportPending(t)
    BY <1>t, <2>1 DEF StartSync, ReportPending
  <2>2. CASE Replay(t)
    BY <1>t, <2>2 DEF Replay
  <2>3. CASE SettleEntry(t)
    <3>1. /\ list' = [list EXCEPT ![t] = list'[t]] /\ step' = [step EXCEPT ![t] = step'[t]]
          /\ reply' = [reply EXCEPT ![t] = "none"]
      BY <1>t, <2>3 DEF SettleEntry
    <3> QED BY <1>t, <3>1
  <2> QED BY <1>4, <2>1, <2>2, <2>3 DEF Syncing
<1>5. ASSUME NEW t \in Tab \ {v}, Failing(t)
      PROVE  list'[v] = list[v] /\ step'[v] = step[v] /\ reply'[v] = reply[v]
  BY <1>t, <1>5 DEF Failing, StopPass, LoseReport, Reload
<1> QED BY <1>1, <1>2, <1>3, <1>4, <1>5 DEF Next, Syncing

\* A sale keeps its place in the order of queueing.
LEMMA PlacesKept ==
  ASSUME QueueInv, [Next]_vars
  PROVE  \A r \in Arrivals : arrived'[r] = arrived[r]
<1>1. CASE Enqueue
  BY <1>1, EnqueuePlaces DEF Arrivals
<1> QED BY <1>1, QueueFrame

\* The entry that a pass works on is one: no two sales have the same place.
LEMMA OneIsOldest ==
  ASSUME TypeOK, Places, NEW S \in SUBSET Arrivals, NEW r \in Oldest(S), NEW s \in Oldest(S)
  PROVE  r = s
<1>1. r \in S /\ s \in S /\ arrived[r] <= arrived[s] /\ arrived[s] <= arrived[r]
  BY DEF Oldest
<1>2. arrived[r] \in Nat /\ arrived[s] \in Nat
  BY <1>1 DEF TypeOK, Arrivals
<1> QED BY <1>1, <1>2 DEF Places

LEMMA InPassStep ==
  ASSUME QueueInv, [Next]_vars
  PROVE  InPass'
<1> SUFFICES ASSUME NEW v \in Tab
             PROVE  /\ list'[v] \subseteq Arrivals'
                    /\ step'[v] = "answered" /\ reply'[v] = "ok"
                         => \A r \in Oldest(list[v])' : Accepted(r)'
  BY DEF InPass
<1>t. /\ TypeOK /\ Places /\ list[v] \in SUBSET Arrivals /\ Arrivals \subseteq Arrivals'
      /\ step[v] = "answered" /\ reply[v] = "ok" => \A r \in Oldest(list[v]) : Accepted(r)
  BY PlacesStep DEF QueueInv, InPass
<1>f. /\ list \in [Tab -> SUBSET Ref] /\ reply \in [Tab -> Reply]
      /\ step \in [Tab -> {"idle", "sending", "answered", "counting"}]
  BY <1>t DEF TypeOK
<1>1. list'[v] = list[v] => Oldest(list[v])' = Oldest(list[v])
  BY <1>t, PlacesKept DEF Oldest
<1>2. CASE list'[v] = list[v] /\ step'[v] = step[v] /\ reply'[v] = reply[v]
  <2>1. \A r \in list[v] : Accepted(r) => Accepted(r)'
    BY <1>t, AcceptedStays DEF Arrivals
  <2> QED BY <1>t, <1>1, <1>2, <2>1 DEF Oldest
<1>3. CASE StartSync(v)
  <2>1. list'[v] = Queued /\ step'[v] # "answered"
    BY <1>3, <1>f DEF StartSync
  <2>2. Queued \subseteq Arrivals
    BY DEF Queued, QueueInv, Taken, Arrivals
  <2> QED BY <1>t, <2>1, <2>2
<1>4. CASE Replay(v)
  <2>1. PICK r \in Oldest(list[v]), answer \in {"ok", "refused"} :
               /\ PostOffline(r, Cardinality(list[v]), answer)
               /\ reply' = [reply EXCEPT ![v] = answer]
    BY <1>4 DEF Replay
  <2>2. r \in Ref /\ list' = list
    BY <1>t, <1>4, <2>1 DEF Oldest, Arrivals, Replay
  <2>3. answer = "ok" => Accepted(r)'
    <3>1. ASSUME answer = "ok", Late(r),
                 review' = [review EXCEPT ![r] = IF @ = "none" THEN "pending" ELSE @]
          PROVE  Accepted(r)'
      BY <1>t, <2>2, <3>1 DEF Accepted, TypeOK
    <3>2. ASSUME Completed(r), UNCHANGED <<books, review>>
          PROVE  Accepted(r)'
      BY <3>2 DEF Accepted, Completed
    <3>3. ASSUME ~Late(r), MayPost(r, day[r]), Post(r, day[r])
          PROVE  Accepted(r)'
      <4>1. BookTypes
        BY <1>t, TypesSplit
      <4>2. Posted(r)
        BY <2>2, <3>3, <4>1, DayArithmetic DEF MayPost, Posted
      <4> QED BY <2>2, <4>1, <4>2, PostedBooks DEF Accepted
    <3> QED BY <2>1, <3>1, <3>2, <3>3 DEF PostOffline
  <2>4. \A s \in Oldest(list[v])' : s = r
    BY <1>t, <1>1, <2>1, <2>2, OneIsOldest
  <2> QED BY <1>t, <1>f, <2>1, <2>2, <2>3, <2>4
<1>5. CASE SettleEntry(v)
  <2>1. list'[v] \subseteq list[v] /\ step'[v] # "answered"
    BY <1>5, <1>f DEF SettleEntry
  <2> QED BY <1>t, <2>1
<1>6. CASE ReportPending(v) \/ Failing(v)
  <2>1. list'[v] \subseteq list[v] /\ step'[v] # "answered"
    BY <1>6, <1>f DEF ReportPending, Failing, StopPass, LoseReport, Reload
  <2> QED BY <1>t, <2>1
<1> QED BY <1>t, <1>2, <1>3, <1>4, <1>5, <1>6, PassFrame

LEMMA NoSaleIsLostStep ==
  ASSUME QueueInv, [Next]_vars
  PROVE  NoSaleIsLost'
<1> SUFFICES ASSUME NEW q \in Arrivals'
             PROVE  Accepted(q)' \/ outbox'[q] # "absent" \/ q \in dropped'
  BY DEF NoSaleIsLost
<1>1. q \in Ref /\ (Accepted(q) => Accepted(q)')
  BY AcceptedStays DEF Arrivals
<1>2. dropped \subseteq dropped'
  BY QueueFrame DEF Discard
<1>3. CASE q \in Arrivals
  BY <1>1, <1>2, <1>3, OutboxStep DEF QueueInv, NoSaleIsLost
<1>4. CASE Enqueue /\ q = attempt
  BY <1>1, <1>4 DEF Enqueue, QueueInv, TypeOK
<1>5. Arrivals' = Arrivals \/ (Enqueue /\ Arrivals' = Arrivals \union {attempt})
  BY QueueFrame, EnqueuePlaces DEF Arrivals
<1> QED BY <1>3, <1>4, <1>5

LEMMA QueueInit == Init => QueueInv
<1> SUFFICES ASSUME Init PROVE QueueInv
  OBVIOUS
<1>1. TypeOK /\ BookedOnce
  BY TypeInit, BooksInit DEF IInv
<1>2. Arrivals = {}
  BY DEF Init, Arrivals
<1>3. Places
  <2>1. Cardinality(Arrivals) \in Nat
    BY CountsAreNat DEF Arrivals
  <2> QED BY <1>2, <2>1 DEF Init, Places
<1>4. Taken /\ OnScreen
  BY OutboxAssumption DEF Init, Taken, OnScreen, OutboxAssumption
<1>5. InPass /\ NoSaleIsLost
  BY <1>2 DEF Init, InPass, NoSaleIsLost
<1> QED BY <1>1, <1>3, <1>4, <1>5 DEF QueueInv

LEMMA QueueStep == QueueInv /\ [Next]_vars => QueueInv'
<1> SUFFICES ASSUME QueueInv, [Next]_vars PROVE QueueInv'
  OBVIOUS
<1>1. TypeOK'
  BY TypeStep DEF QueueInv
<1>2. BookedOnce'
  BY BooksStep, TypesSplit DEF QueueInv, IInv
<1> QED BY <1>1, <1>2, PlacesStep, TakenStep, OnScreenStep, InPassStep, NoSaleIsLostStep DEF QueueInv

LEMMA QueueInvariant == Spec => []QueueInv
BY QueueInit, QueueStep, PTL DEF Spec

\* However many tabs replay the queue, whatever answers are lost and wherever a tab is
\* reloaded, a sale the device has taken over leaves the outbox only when the server has
\* posted it or keeps it for a review, or the cashier discards it (sync.service.ts:200-212).
THEOREM NoSaleDisappears == Spec => []NoSaleIsLost
<1>1. QueueInv => NoSaleIsLost
  BY DEF QueueInv
<1> QED BY <1>1, QueueInvariant, PTL

-----------------------------------------------------------------------------
(***************************************************************************)
(* One tab: the fate of a sale.  With two tabs a stale pass may post a sale *)
(* that was refused and discarded in the other one.                         *)
(***************************************************************************)
\* No other pass settles an entry of this one, and a discarded sale is not replayed.
Alone ==
  /\ \A t \in Tab : list[t] \subseteq Queued
  /\ \A r \in dropped : outbox[r] = "absent"

LEMMA AloneStep ==
  ASSUME Tab = {SellTab}, QueueInv, Alone, [Next]_vars
  PROVE  Alone'
<1>t. /\ TypeOK /\ SellTab \in Tab /\ list[SellTab] \subseteq Queued
      /\ \A r \in dropped : outbox[r] = "absent" /\ r \in Arrivals
      /\ list[SellTab] \in SUBSET Ref
  BY OutboxAssumption DEF QueueInv, TypeOK, Alone, Taken, Arrivals, OutboxAssumption
<1>f. /\ list \in [Tab -> SUBSET Ref] /\ outbox \in [Ref -> {"absent", "queued", "failed"}]
  BY <1>t DEF TypeOK
<1>1. CASE outbox' = outbox /\ dropped' = dropped
  <2>1. Queued' = Queued
    BY <1>1 DEF Queued
  <2>2. list'[SellTab] \subseteq Queued
    <3>1. CASE StartSync(SellTab)
      BY <1>f, <3>1, <1>t DEF StartSync
    <3>2. CASE Replay(SellTab) \/ ReportPending(SellTab) \/ Failing(SellTab)
      BY <1>f, <3>2, <1>t DEF Replay, ReportPending, Failing, StopPass, LoseReport, Reload
    <3>3. CASE SettleEntry(SellTab)
      BY <1>f, <3>3, <1>t DEF SettleEntry
    <3> QED BY <1>t, <3>1, <3>2, <3>3, PassFrame
  <2> QED BY <1>t, <1>1, <2>1, <2>2 DEF Alone
<1>2. CASE Enqueue
  <2>1. /\ attempt \in Ref /\ attempt \notin Arrivals /\ UNCHANGED <<list, dropped>>
        /\ outbox' = [outbox EXCEPT ![attempt] = "queued"]
    BY <1>2, EnqueuePlaces DEF Enqueue, pass
  <2>2. Queued \subseteq Queued'
    BY <1>f, <2>1 DEF Queued
  <2> QED BY <1>t, <1>f, <2>1, <2>2 DEF Alone
<1>3. CASE SettleEntry(SellTab)
  <2>1. PICK r \in Oldest(list[SellTab]) :
          /\ outbox' = [outbox EXCEPT ![r] = IF reply[SellTab] = "ok" THEN "absent" ELSE "failed"]
          /\ list' = [list EXCEPT ![SellTab] = @ \ {r}]
    BY <1>3 DEF SettleEntry
  <2>2. dropped' = dropped /\ r \in Queued
    BY <1>t, <1>3, <2>1 DEF SettleEntry, Oldest
  <2>3. r \notin dropped
    BY <1>t, <2>2 DEF Queued
  <2>4. list'[SellTab] \subseteq Queued'
    BY <1>t, <1>f, <2>1 DEF Queued
  <2>5. \A q \in dropped' : outbox'[q] = "absent"
    BY <1>t, <1>f, <2>1, <2>2, <2>3
  <2> QED BY <2>4, <2>5 DEF Alone
<1>4. ASSUME NEW r \in Ref, Retry(r) \/ Discard(r) PROVE Alone'
  <2>1. list' = list /\ outbox[r] = "failed" /\ r \notin Queued
    BY <1>4 DEF Retry, Discard, pass, Queued
  <2>2. Queued \subseteq Queued'
    BY <1>f, <1>4, <2>1 DEF Retry, Discard, Queued
  <2>3. \A q \in dropped' : outbox'[q] = "absent"
    <3>1. dropped \subseteq Ref
      BY <1>t DEF TypeOK
    <3>2. CASE Retry(r)
      BY <1>t, <1>f, <2>1, <3>1, <3>2 DEF Retry
    <3>3. CASE Discard(r)
      BY <1>t, <1>f, <2>1, <3>1, <3>3 DEF Discard
    <3> QED BY <1>4, <3>2, <3>3
  <2> QED BY <1>t, <2>1, <2>2, <2>3 DEF Alone
<1> QED BY <1>1, <1>2, <1>3, <1>4, QueueFrame

FateIsOf(r) ==
  /\ books[r] # <<>> => FateOf(r) = "posted"
  /\ books[r] = <<>> /\ review[r] = "pending" => FateOf(r) = "inReview"
  /\ books[r] = <<>> /\ review[r] = "rejected" => FateOf(r) = "refused"
  /\ books[r] = <<>> /\ review[r] = "none" =>
       FateOf(r) = IF outbox[r] # "absent" THEN "held"
                   ELSE IF r \in dropped THEN "dropped" ELSE "new"

LEMMA FateIs == TypeOK => \A r \in Ref : FateIsOf(r)
BY DEF TypeOK, FateOf, FateIsOf

LEMMA FateIsNext == TypeOK' => (\A r \in Ref : FateIsOf(r))'
BY FateIs, PTL

\* A step moves the fate of one sale along a lead, or of none.
LEMMA MovesFate ==
  ASSUME NEW r \in Ref, \A q \in Ref \ {r} : FateOf(q)' = FateOf(q),
         FateOf(r)' = FateOf(r) \/ <<FateOf(r), FateOf(r)'>> \in Fates!Leads
  PROVE  [Fates!FateNext]_(Fates!fvars)
<1>1. CASE FateOf(r)' = FateOf(r)
  BY <1>1 DEF Fates!fvars
<1>2. CASE <<FateOf(r), FateOf(r)'>> \in Fates!Leads
  <2>1. FateOf(r)' \in Fates!Fate
    BY <1>2 DEF Fates!Leads, Fates!Fate
  <2>2. [s \in Ref |-> FateOf(s)]' = [[s \in Ref |-> FateOf(s)] EXCEPT ![r] = FateOf(r)']
    OBVIOUS
  <2> QED BY <1>2, <2>1, <2>2 DEF Fates!Move, Fates!FateNext
<1> QED BY <1>1, <1>2

\* A sale is not touched: its fate stays.
Still(r) ==
  /\ books'[r] = books[r] /\ review'[r] = review[r] /\ outbox'[r] = outbox[r]
  /\ r \in dropped' <=> r \in dropped

LEMMA StillFate ==
  ASSUME TypeOK, TypeOK', NEW r \in Ref, Still(r)
  PROVE  FateOf(r)' = FateOf(r)
BY DEF Still, FateOf

\* Every fate that a touched sale may get is a lead from the one it has.
LeadsOn(r) == FateOf(r)' = FateOf(r) \/ <<FateOf(r), FateOf(r)'>> \in Fates!Leads

LEMMA LeadsOnward ==
  ASSUME TypeOK, TypeOK', BookedOnce, NEW r \in Ref,
         books[r] # <<>> => books'[r] # <<>>,
         \/ \* it is posted before it is refused or discarded
            books[r] = <<>> /\ books'[r] # <<>> /\ review[r] \in {"none", "pending"}
              /\ (review[r] = "none" => outbox[r] # "absent" \/ r \notin dropped)
         \/ \* it is posted already
            books[r] # <<>>
         \/ \* its review goes on
            /\ books'[r] = <<>>
            /\ review[r] \in {"pending", "rejected"} /\ review'[r] = review[r]
         \/ \* its review begins, or ends in a refusal
            /\ books'[r] = <<>>
            /\ \/ review[r] = "none" /\ review'[r] = "pending" /\ outbox[r] # "absent"
               \/ review[r] = "pending" /\ review'[r] = "rejected"
         \/ \* the device takes it over, keeps it or drops it
            /\ books'[r] = <<>> /\ review[r] = "none" /\ review'[r] = "none"
            /\ \/ outbox[r] = "absent" /\ r \notin dropped /\ outbox'[r] # "absent"
               \/ outbox[r] # "absent" /\ outbox'[r] # "absent"
               \/ outbox[r] # "absent" /\ r \in dropped'
  PROVE  LeadsOn(r)
<1>1. FateIsOf(r) /\ FateIsOf(r)'
  BY FateIs, FateIsNext
<1> QED BY <1>1 DEF LeadsOn, Fates!Leads, FateIsOf

LEMMA OneMoves ==
  ASSUME TypeOK, TypeOK', NEW r \in Ref, \A q \in Ref \ {r} : Still(q), LeadsOn(r)
  PROVE  [Fates!FateNext]_(Fates!fvars)
<1>1. \A q \in Ref \ {r} : FateOf(q)' = FateOf(q)
  BY StillFate
<1> QED BY <1>1, MovesFate DEF LeadsOn

LEMMA NoneMoves ==
  ASSUME TypeOK, TypeOK', UNCHANGED <<books, review, outbox, dropped>>
  PROVE  [Fates!FateNext]_(Fates!fvars)
<1>1. \A q \in Ref : Still(q)
  BY DEF Still
<1>2. \A q \in Ref : FateOf(q)' = FateOf(q)
  BY <1>1, StillFate
<1> QED BY <1>2 DEF Fates!fvars

LEMMA FateStep ==
  ASSUME Tab = {SellTab}, QueueInv, Alone, TypeOK', [Next]_vars
  PROVE  [Fates!FateNext]_(Fates!fvars)
<1> DEFINE Goal == [Fates!FateNext]_(Fates!fvars)
<1>t. /\ TypeOK /\ BookedOnce /\ SellTab \in Tab /\ list[SellTab] \subseteq Queued
      /\ \A r \in Ref : review[r] = "approved" => books[r] # <<>>
      /\ \A r \in Ref : arrived[r] = 0 => outbox[r] = "absent" /\ r \notin dropped /\ review[r] = "none"
      /\ \A r \in Ref : review[r] # "none" => day[r] <= lock
      /\ \A r \in Queued : r \in Ref /\ outbox[r] = "queued"
  <2>1. \A r \in Ref : arrived[r] \in Nat /\ (arrived[r] = 0 => ~(arrived[r] > 0))
    BY DEF QueueInv, TypeOK
  <2> QED BY <2>1, OutboxAssumption DEF QueueInv, BookedOnce, Alone, Taken, Queued, OutboxAssumption
<1>f. /\ books \in [Ref -> Seq(Day)] /\ outbox \in [Ref -> {"absent", "queued", "failed"}]
      /\ review \in [Ref -> {"none", "pending", "approved", "rejected"}]
      /\ BookTypes /\ attempt \in Ref \union {None}
  BY <1>t, TypesSplit DEF TypeOK
<1>1. CASE UNCHANGED <<books, review, outbox, dropped>>
  BY <1>t, <1>1, NoneMoves
<1>2. CASE PostOnline
  <2>1. attempt \in Ref /\ arrived[attempt] = 0
    BY <1>2, <1>f DEF PostOnline, QueueInv, OnScreen
  <2>2. UNCHANGED <<review, outbox, dropped>>
    BY <1>2 DEF PostOnline, disk
  <2>3. CASE UNCHANGED books
    BY <1>1, <2>2, <2>3
  <2>4. CASE MayPost(attempt, today) /\ Post(attempt, today)
    <3>1. Posted(attempt)
      BY <1>f, <2>4 DEF MayPost, Posted, BookTypes
    <3>2. \A q \in Ref \ {attempt} : Still(q)
      BY <1>f, <2>1, <2>2, <3>1, PostedBooks DEF Still
    <3>3. books[attempt] = <<>> /\ books'[attempt] # <<>>
      BY <1>f, <2>1, <2>4, <3>1, PostedBooks DEF MayPost
    <3>4. LeadsOn(attempt)
      BY <1>t, <2>1, <3>3, LeadsOnward
    <3> QED BY <1>t, <2>1, <3>2, <3>4, OneMoves
  <2> QED BY <1>2, <2>3, <2>4 DEF PostOnline
<1>3. ASSUME NEW r \in Ref, ApproveLate(r) PROVE Goal
  <2>1. /\ Posted(r) /\ books[r] = <<>> /\ review[r] = "pending"
        /\ UNCHANGED <<outbox, dropped>> /\ review' = [review EXCEPT ![r] = "approved"]
    BY <1>3, <1>f DEF ApproveLate, MayPost, Posted, BookTypes, disk
  <2>2. books'[r] # <<>> /\ \A q \in Ref \ {r} : Still(q)
    BY <1>f, <2>1, PostedBooks DEF Still
  <2>3. LeadsOn(r)
    BY <1>t, <2>1, <2>2, LeadsOnward
  <2> QED BY <1>t, <2>2, <2>3, OneMoves
<1>4. ASSUME NEW r \in Ref, RejectLate(r) PROVE Goal
  <2>1. /\ review[r] = "pending" /\ UNCHANGED <<books, outbox, dropped>>
        /\ review' = [review EXCEPT ![r] = "rejected"]
    BY <1>4 DEF RejectLate, disk
  <2>2. review'[r] = "rejected" /\ \A q \in Ref \ {r} : Still(q)
    BY <1>f, <2>1 DEF Still
  <2>3. LeadsOn(r)
    BY <1>t, <2>1, <2>2, LeadsOnward
  <2> QED BY <1>t, <2>2, <2>3, OneMoves
<1>5. CASE Enqueue
  <2>1. /\ attempt \in Ref /\ arrived[attempt] = 0 /\ UNCHANGED <<books, review, dropped>>
        /\ outbox' = [outbox EXCEPT ![attempt] = "queued"]
    BY <1>5, <1>f DEF Enqueue, QueueInv, OnScreen, server
  <2>2. outbox'[attempt] = "queued" /\ \A q \in Ref \ {attempt} : Still(q)
    BY <1>f, <2>1 DEF Still
  <2>3. LeadsOn(attempt)
    BY <1>t, <2>1, <2>2, LeadsOnward
  <2> QED BY <1>t, <2>1, <2>2, <2>3, OneMoves
<1>6. CASE Replay(SellTab)
  <2>1. PICK r \in Oldest(list[SellTab]), answer \in {"ok", "refused"} :
               PostOffline(r, Cardinality(list[SellTab]), answer)
    BY <1>6 DEF Replay
  <2>2. /\ UNCHANGED <<outbox, dropped>> /\ r \in Ref /\ outbox[r] = "queued"
    BY <1>6, <1>t, <2>1 DEF Replay, disk, Oldest
  <2>3. CASE /\ UNCHANGED books
             /\ review' = [review EXCEPT ![r] = IF @ = "none" THEN "pending" ELSE @]
    <3>1. \A q \in Ref \ {r} : Still(q)
      BY <1>f, <2>2, <2>3 DEF Still
    <3>2. review'[r] = IF review[r] = "none" THEN "pending" ELSE review[r]
      BY <1>f, <2>2, <2>3
    <3>3. LeadsOn(r)
      BY <1>t, <1>f, <2>2, <2>3, <3>2, LeadsOnward
    <3> QED BY <1>t, <2>2, <3>1, <3>3, OneMoves
  <2>4. CASE ~Late(r) /\ MayPost(r, day[r]) /\ Post(r, day[r]) /\ UNCHANGED review
    <3>1. Posted(r)
      BY <1>f, <2>2, <2>4, DayArithmetic DEF MayPost, Posted
    <3>2. books[r] = <<>> /\ books'[r] # <<>> /\ \A q \in Ref \ {r} : Still(q)
      BY <1>f, <2>2, <2>4, <3>1, PostedBooks DEF Still, MayPost
    <3>3. review[r] = "none"
      BY <1>t, <2>2, <2>4 DEF Late
    <3>4. LeadsOn(r)
      BY <1>t, <2>2, <3>2, <3>3, LeadsOnward
    <3> QED BY <1>t, <2>2, <3>2, <3>4, OneMoves
  <2>5. CASE UNCHANGED <<books, review>>
    BY <1>1, <2>2, <2>5
  <2> QED BY <2>1, <2>3, <2>4, <2>5 DEF PostOffline
<1>7. CASE SettleEntry(SellTab)
  <2>1. PICK r \in Oldest(list[SellTab]) :
          outbox' = [outbox EXCEPT ![r] = IF reply[SellTab] = "ok" THEN "absent" ELSE "failed"]
    BY <1>7 DEF SettleEntry
  <2>2. /\ UNCHANGED <<books, review, dropped>> /\ r \in Ref /\ outbox[r] = "queued"
        /\ reply[SellTab] = "ok" => books[r] # <<>> \/ review[r] # "none"
    BY <1>7, <1>t, <2>1 DEF SettleEntry, server, Oldest, QueueInv, InPass, Accepted
  <2>3. \A q \in Ref \ {r} : Still(q)
    BY <1>f, <2>1, <2>2 DEF Still
  <2>4. outbox'[r] = IF reply[SellTab] = "ok" THEN "absent" ELSE "failed"
    BY <1>f, <2>1, <2>2
  <2>5. LeadsOn(r)
    BY <1>t, <1>f, <2>2, <2>4, LeadsOnward
  <2> QED BY <1>t, <2>2, <2>3, <2>5, OneMoves
<1>8. ASSUME NEW r \in Ref, Retry(r) \/ Discard(r) PROVE Goal
  <2>1. /\ outbox[r] = "failed" /\ UNCHANGED <<books, review>>
        /\ \/ outbox'[r] = "queued" \/ r \in dropped'
        /\ \A q \in Ref \ {r} : Still(q)
    BY <1>8, <1>f DEF Retry, Discard, server, Still
  <2>2. LeadsOn(r)
    BY <1>t, <1>f, <2>1, LeadsOnward
  <2> QED BY <1>t, <2>1, <2>2, OneMoves
<1>9. CASE UNCHANGED vars \/ NextDay \/ RetireDevice \/ \E d \in Day : ClosePeriod(d)
  BY <1>1, <1>9 DEF vars, server, disk, NextDay, RetireDevice, ClosePeriod
<1>10. CASE GoOffline \/ GoOnline \/ FillCart \/ Complete \/ EditCart \/ LosePost \/ ShowRefusal \/ ClearCart
  BY <1>1, <1>10 DEF GoOffline, GoOnline, FillCart, Complete, EditCart, LosePost, ShowRefusal, ClearCart,
                     server, disk
<1>11. CASE StartSync(SellTab) \/ ReportPending(SellTab) \/ Failing(SellTab)
  BY <1>1, <1>11 DEF StartSync, ReportPending, Failing, StopPass, LoseReport, Reload, server, disk
<1> QED BY <1>2, <1>3, <1>4, <1>5, <1>6, <1>7, <1>8, <1>9, <1>10, <1>11
        DEF Next, Company, Selling, Syncing

LEMMA FateInitIs == Init => Fates!FateInit
<1> SUFFICES ASSUME Init PROVE \A r \in Ref : FateOf(r) = "new"
  BY DEF Fates!FateInit
<1>1. TypeOK
  BY TypeInit
<1> QED BY <1>1, FateIs DEF Init, FateIsOf

LEMMA AloneInit == Init => Alone
BY DEF Init, Alone

\* A browser that replays the queue from one tab gives every sale one fate: held until the
\* server posts it or keeps it for a review, or the cashier drops it, and these are final;
\* the outbox implements SaleFate.
THEOREM OneFate ==
  ASSUME Tab = {SellTab}
  PROVE  Spec => HasOneFate
<1>1. QueueInv /\ QueueInv' /\ Alone /\ [Next]_vars
        => Alone' /\ [Fates!FateNext]_(Fates!fvars)
  BY AloneStep, FateStep DEF QueueInv
<1> QED BY <1>1, QueueInvariant, AloneInit, FateInitIs, PTL
        DEF Spec, HasOneFate, Fates!FateSpec
=============================================================================
