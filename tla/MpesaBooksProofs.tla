-------------------------- MODULE MpesaBooksProofs --------------------------
(***************************************************************************)
(* What the settlement promises to the books: that posted money stands      *)
(* alone against a settled subject, to the last shilling, and that every    *)
(* step of every function is a step of PaymentBooks or none at all.         *)
(*                                                                          *)
(* The work invariant of MpesaIntentProofs does not say what a live         *)
(* allocation is worth, nor who else may pay its subject.  For an order the *)
(* answer is its status, which every posting requires to be 'pending'.  A   *)
(* customer receipt may be posted to while it is 'posted' already, so there *)
(* it is the history: one intent or one collection opens it, and no other   *)
(* collection is ever allocated to it.                                      *)
(***************************************************************************)
EXTENDS MpesaIntentProofs

-----------------------------------------------------------------------------
(* The invariant.                                                            *)

AmountFits(r, s) ==
  \/ coll[r].amount = Total[s]
  \/ \E i \in Intents : SubjectOf[i] = s /\ intent[i].fulfilled = r /\ coll[r].amount = Price[i]

LiveAmount == \A r \in Receipts, s \in Subjects : alloc[r][s] \in Active => AmountFits(r, s)

SettledByOne ==
  \A r \in Receipts, s \in Subjects : alloc[r][s] = "posted" =>
    /\ subject[s].status = "posted"
    /\ \A q \in Receipts : alloc[q][s] = "posted" => q = r

\* create_mpesa_payment_intent opens the customer receipt it pays, so it has one
\* intent.
OneCustomerIntent ==
  \A i \in Intents : SubjectOf[i] \in CustomerReceipts /\ Created(i) =>
    /\ subject[SubjectOf[i]].status # "absent"
    /\ \A j \in Intents : SubjectOf[j] = SubjectOf[i] /\ Created(j) => j = i

\* Only the money of that intent is ever allocated to it, or else only the
\* collection it was opened for.
OnlyMoneyOf(s, r) ==
  /\ subject[s].status # "absent"
  /\ \A i \in Intents : SubjectOf[i] = s /\ Created(i) => intent[i].fulfilled = r
  /\ \A q \in Receipts : alloc[q][s] # "none" => q = r

CustomerMoney ==
  \A r \in Receipts, s \in CustomerReceipts : alloc[r][s] # "none" => OnlyMoneyOf(s, r)

CustomerSettled ==
  \A s \in CustomerReceipts : subject[s].status = "posted" =>
    \E r \in Receipts : alloc[r][s] = "posted"

BooksInv ==
  /\ WorkInv
  /\ LiveAmount
  /\ SettledByOne
  /\ OneCustomerIntent
  /\ CustomerMoney
  /\ CustomerSettled

-----------------------------------------------------------------------------
(* What a step does to allocations and subjects.                             *)

OtherSubjects(s) == \A t \in Subjects \ {s} : subject'[t] = subject[t]
Now(s, status) == subject'[s].status = status /\ OtherSubjects(s)

\* No intent is opened and no money exchanged.
IntentsKept ==
  \A i \in Intents : /\ Created(i)' => Created(i)
                     /\ intent[i].fulfilled # None => intent'[i].fulfilled = intent[i].fulfilled

\* The money of r is promised to s, or the promise is carried out.
Promises(r, s, status) ==
  /\ alloc[r][s] = "reserved" \/ ~Overallocated(r)
  /\ alloc' = [alloc EXCEPT ![r][s] = status]
  /\ \A q \in Receipts \ {r} : coll'[q] = coll[q]
  /\ RowsKept /\ IntentsKept
  /\ AmountFits(r, s)'
  /\ s \in CustomerReceipts => OnlyMoneyOf(s, r)'

SetsAside(r, s) ==
  /\ ~Overallocated(r)
  /\ Promises(r, s, "reserved")
  /\ \/ UNCHANGED subject
     \/ subject[s].status = "absent" /\ Now(s, "pending")

Posts(r, s) ==
  /\ Promises(r, s, "posted")
  /\ coll'[r].provider = "received"
  /\ subject[s].status \in {"absent", "pending"} /\ Now(s, "posted")

\* A step that opens, settles or ends subject s and moves no money.
Turns(s) ==
  /\ UNCHANGED <<coll, alloc>>
  /\ \/ /\ \E i \in Intents : SubjectOf[i] = s /\ CreateIntent(i)
        /\ subject[s].status \in {"absent", "pending"} /\ Now(s, "pending")
     \/ /\ IntentsKept /\ s \in Orders /\ subject[s].status = "pending"
        /\ Now(s, "posted") \/ Now(s, "voided")

\* A late review of the money of r for s is rejected.
Releases(r, s) ==
  /\ alloc[r][s] = "reserved" /\ alloc' = [alloc EXCEPT ![r][s] = "released"]
  /\ \A q \in Receipts \ {r} : coll'[q] = coll[q]
  /\ coll'[r].provider = coll[r].provider /\ coll'[r].amount = coll[r].amount
  /\ IntentsKept
  /\ \/ UNCHANGED subject
     \/ subject[s].status = "pending" /\ Now(s, "cancelled")

BooksMove ==
  \/ Drift /\ IntentsKept
  \/ \E r \in Receipts, s \in Subjects : SetsAside(r, s) \/ Posts(r, s) \/ Releases(r, s)
  \/ \E s \in Subjects : Turns(s)
  \/ \E r \in Receipts : GoneUnposted(r) /\ IntentsKept
  \/ \E rs \in SUBSET Receipts, s \in Subjects : Cancels(rs, s) /\ IntentsKept

-----------------------------------------------------------------------------
(* The steps are of these kinds.                                             *)

LEMMA IntentsAreKept ==
  ASSUME WorkInv, [Next]_vars, \A i \in Intents : ~CreateIntent(i)
  PROVE  IntentsKept
<1>1. Move
  BY StepsMove
<1>2. ASSUME NEW i \in Intents, Created(i)' PROVE Created(i)
  <2>1. CASE Drift
    BY <1>2, <2>1 DEF Drift, IntentsDrift, DriftsTo, Created
  <2>2. CASE IntentKept(i) \/ IntentPromised(i) \/ IntentPaid(i)
    BY <1>2, <2>2 DEF IntentKept, IntentPromised, IntentPaid, Created, Receiving
  <2> QED BY <1>1, <2>1, <2>2, IntentMoves
<1> QED BY <1>2, IntentStep DEF IntentsKept

LEMMA OpensSubject ==
  ASSUME WorkInv, NEW i \in Intents, CreateIntent(i)
  PROVE  Turns(SubjectOf[i])
<1> DEFINE s == SubjectOf[i]
<1>1. s \in Subjects /\ subject \in [Subjects -> SubjectRow]
  BY ConstantsAssumption DEF WorkInv, MoneyInv, TypeOK
<1>2. subject[s].status \in {"absent", "pending"}
      /\ subject' = [subject EXCEPT ![s] = [status |-> "pending", till |-> till.n]]
      /\ UNCHANGED <<coll, alloc>>
  BY DEF CreateIntent, money
<1>3. Now(s, "pending")
  BY <1>1, <1>2 DEF Now, OtherSubjects
<1> QED BY <1>2, <1>3 DEF Turns

LEMMA FitsStill ==
  ASSUME NEW r \in Receipts, NEW s \in Subjects, AmountFits(r, s), IntentsKept,
         coll'[r].amount = coll[r].amount
  PROVE  AmountFits(r, s)'
BY ConstantsAssumption DEF AmountFits, IntentsKept

LEMMA OnlyStill ==
  ASSUME NEW r \in Receipts, NEW s \in Subjects, OnlyMoneyOf(s, r), IntentsKept,
         subject'[s].status # "absent",
         \A q \in Receipts : alloc'[q][s] # "none" => alloc[q][s] # "none"
  PROVE  OnlyMoneyOf(s, r)'
BY ConstantsAssumption DEF OnlyMoneyOf, IntentsKept

\* An intent takes money for its subject.
LEMMA TakesPromises ==
  ASSUME BooksInv, NEW i \in Intents, NEW r \in Receipts, NEW x, NEW status,
         Takes(i, r, x, status), IntentsKept,
         subject'[SubjectOf[i]].status = "absent" => subject[SubjectOf[i]].status = "absent"
  PROVE  Promises(r, SubjectOf[i], status)
<1> DEFINE s == SubjectOf[i]
<1>t. /\ s \in Subjects /\ None \notin Receipts
      /\ intent \in [Intents -> IntentRow] /\ alloc \in [Receipts -> [Subjects -> AllocationStatus]]
  BY ConstantsAssumption DEF BooksInv, WorkInv, MoneyInv, TypeOK
<1>1. /\ coll'[r].amount = Price[i] /\ intent[i].status \in Receiving
      /\ intent[i].fulfilled \in {None, r} /\ ~Overallocated(r) /\ RowsKept
      /\ \A q \in Receipts \ {r} : coll'[q] = coll[q]
      /\ alloc' = [alloc EXCEPT ![r][s] = status]
  BY DEF Takes
<1>2. intent'[i].fulfilled = r
  BY <1>t DEF Takes
<1>3. AmountFits(r, s)'
  BY <1>1, <1>2 DEF AmountFits
<1>4. ASSUME s \in CustomerReceipts PROVE OnlyMoneyOf(s, r)'
  <2>1. Created(i)
    BY <1>1 DEF Created, Receiving
  <2>2. subject'[s].status # "absent" /\ \A j \in Intents : SubjectOf[j] = s /\ Created(j) => j = i
    BY <1>4, <2>1 DEF BooksInv, OneCustomerIntent
  <2>3. \A j \in Intents : SubjectOf[j] = s /\ Created(j)' => intent'[j].fulfilled = r
    BY <1>2, <2>2 DEF IntentsKept
  <2>4. ASSUME NEW q \in Receipts, alloc'[q][s] # "none" PROVE q = r
    <3> SUFFICES ASSUME q # r PROVE FALSE
      OBVIOUS
    <3>1. alloc[q][s] # "none"
      BY <1>1, <1>t, <2>4
    <3>2. intent[i].fulfilled = q
      BY <1>4, <2>1, <3>1 DEF BooksInv, CustomerMoney, OnlyMoneyOf
    <3> QED BY <1>1, <1>t, <3>2
  <2> QED BY <2>2, <2>3, <2>4 DEF OnlyMoneyOf
<1> QED BY <1>1, <1>3, <1>4 DEF Promises

\* A settled customer receipt has its money, so nothing more can be posted to it.
LEMMA NotPostedTwice ==
  ASSUME BooksInv, NEW c, NEW s \in Subjects, Postable(c, s), NEW r \in Receipts,
         \/ alloc[r][s] = "reserved"
         \/ ~Overallocated(r) /\ \E i \in Intents : /\ SubjectOf[i] = s /\ Created(i)
                                                    /\ intent[i].fulfilled \in {None, r}
  PROVE  subject[s].status = "pending"
<1> SUFFICES ASSUME s \in CustomerReceipts, subject[s].status = "posted" PROVE FALSE
  BY DEF Postable
<1>1. PICK q \in Receipts : alloc[q][s] = "posted"
  BY DEF BooksInv, CustomerSettled
<1>2. OnlyMoneyOf(s, q)
  BY <1>1 DEF BooksInv, CustomerMoney
<1>3. alloc[r][s] # "reserved"
  BY <1>1, <1>2 DEF OnlyMoneyOf
<1>4. PICK i \in Intents : SubjectOf[i] = s /\ Created(i) /\ intent[i].fulfilled \in {None, r}
  BY <1>3
<1>5. q = r
  BY <1>2, <1>4, ConstantsAssumption DEF OnlyMoneyOf
<1> QED BY <1>1, <1>3, <1>5 DEF Overallocated, Active

LEMMA TakesAsideBooks ==
  ASSUME BooksInv, NEW i \in Intents, NEW r \in Receipts, TakesAside(i, r), IntentsKept
  PROVE  SetsAside(r, SubjectOf[i])
<1>1. PICK x \in IntentRow : Takes(i, r, x, "reserved") /\ UNCHANGED subject
  BY DEF TakesAside
<1>2. Promises(r, SubjectOf[i], "reserved")
  BY <1>1, TakesPromises
<1> QED BY <1>1, <1>2 DEF SetsAside, Takes

LEMMA TakesPostedBooks ==
  ASSUME BooksInv, NEW i \in Intents, NEW r \in Receipts, TakesPosted(i, r), IntentsKept
  PROVE  Posts(r, SubjectOf[i])
<1> DEFINE s == SubjectOf[i]
<1>t. s \in Subjects /\ subject \in [Subjects -> SubjectRow]
  BY ConstantsAssumption DEF BooksInv, WorkInv, MoneyInv, TypeOK
<1>1. PICK x \in IntentRow : Takes(i, r, x, "posted") /\ subject' = Settled(s) /\ Postable(coll'[r], s)
  BY DEF TakesPosted
<1>2. Now(s, "posted")
  BY <1>1, <1>t DEF Settled, Marked, Now, OtherSubjects, SubjectRow
<1>3. Promises(r, s, "posted")
  BY <1>1, <1>2, TakesPromises DEF Now
<1>4. Created(i) /\ ~Overallocated(r) /\ intent[i].fulfilled \in {None, r}
  BY <1>1 DEF Takes, Receiving, Created
<1>5. subject[s].status = "pending"
  BY <1>1, <1>4, <1>t, NotPostedTwice
<1> QED BY <1>1, <1>2, <1>3, <1>5 DEF Posts, Postable

\* The allocation of r to s is written, its row otherwise unchanged.
LEMMA Allocated ==
  ASSUME WorkInv, NEW r \in Receipts, NEW s \in Subjects, NEW status, NEW c \in Row,
         c.provider = coll[r].provider, c.amount = coll[r].amount, c.intent = coll[r].intent,
         Allocate(r, s, status, c)
  PROVE  /\ alloc' = [alloc EXCEPT ![r][s] = status]
         /\ \A q \in Receipts \ {r} : coll'[q] = coll[q]
         /\ RowsKept
         /\ coll'[r].provider = coll[r].provider /\ coll'[r].amount = coll[r].amount
<1>1. RowKept(r, coll[r], c)
  BY DEF RowKept
<1>2. /\ RowsKept
      /\ coll'[r].provider = c.provider /\ coll'[r].amount = c.amount
  BY <1>1, AllocateKept
<1>3. \A q \in Receipts \ {r} : coll'[q] = coll[q]
  BY DEF Allocate, WorkInv, MoneyInv, TypeOK
<1> QED BY <1>2, <1>3 DEF Allocate

LEMMA ClearedRow ==
  ASSUME WorkInv, NEW r \in Receipts
  PROVE  /\ coll[r] \in Row /\ ClearSurplus(coll[r]) \in Row
         /\ ClearSurplus(coll[r]).provider = coll[r].provider
         /\ ClearSurplus(coll[r]).amount = coll[r].amount
         /\ ClearSurplus(coll[r]).intent = coll[r].intent
BY DEF WorkInv, MoneyInv, TypeOK, ClearSurplus, Row

\* A reservation of r for s is posted.
LEMMA ReservedPosts ==
  ASSUME BooksInv, NEW r \in Receipts, NEW s \in Subjects, NEW c \in Row,
         c.provider = coll[r].provider, c.amount = coll[r].amount, c.intent = coll[r].intent,
         alloc[r][s] = "reserved", Allocate(r, s, "posted", c), IntentsKept,
         Postable(coll[r], s), subject' = Settled(s)
  PROVE  Posts(r, s)
<1>t. /\ subject \in [Subjects -> SubjectRow] /\ WorkInv
      /\ alloc \in [Receipts -> [Subjects -> AllocationStatus]]
  BY DEF BooksInv, WorkInv, MoneyInv, TypeOK
<1>1. /\ alloc' = [alloc EXCEPT ![r][s] = "posted"]
      /\ \A q \in Receipts \ {r} : coll'[q] = coll[q]
      /\ RowsKept
      /\ coll'[r].provider = coll[r].provider /\ coll'[r].amount = coll[r].amount
  BY <1>t, Allocated
<1>2. Now(s, "posted")
  BY <1>t DEF Settled, Marked, Now, OtherSubjects, SubjectRow
<1>3. AmountFits(r, s)'
  <2>1. AmountFits(r, s)
    BY DEF BooksInv, LiveAmount, Active
  <2> QED BY <1>1, <2>1, FitsStill
<1>4. ASSUME s \in CustomerReceipts PROVE OnlyMoneyOf(s, r)'
  <2>1. OnlyMoneyOf(s, r)
    BY <1>4 DEF BooksInv, CustomerMoney
  <2>2. \A q \in Receipts : alloc'[q][s] # "none" => alloc[q][s] # "none"
    BY <1>1, <1>t
  <2>3. subject'[s].status # "absent"
    BY <1>2 DEF Now
  <2> QED BY <2>1, <2>2, <2>3, OnlyStill
<1>5. subject[s].status = "pending"
  BY NotPostedTwice
<1>6. Promises(r, s, "posted")
  BY <1>1, <1>3, <1>4 DEF Promises
<1> QED BY <1>1, <1>2, <1>5, <1>6 DEF Posts, Postable

LEMMA CashSplitBooks ==
  ASSUME BooksInv, NEW i \in Intents, CashSplit(i), IntentsKept
  PROVE  Posts(intent[i].fulfilled, SubjectOf[i]) /\ intent[i].fulfilled \in Receipts
<1> DEFINE s == SubjectOf[i]
           r == intent[i].fulfilled
<1>1. r \in Receipts
  <2>1. r # None /\ r \in Receipts \union {None}
    BY DEF CashSplit, BooksInv, WorkInv, ReservationOwned, MoneyInv, TypeOK, IntentRow
  <2> QED BY <2>1
<1>2. s \in Subjects /\ coll[r] \in Row
  BY <1>1, ConstantsAssumption DEF BooksInv, WorkInv, MoneyInv, TypeOK
<1>3. /\ alloc[r][s] = "reserved" /\ Allocate(r, s, "posted", coll[r])
      /\ Postable(coll[r], s) /\ subject' = Settled(s)
  BY DEF CashSplit
<1> HIDE DEF r, s
<1>4. Posts(r, s)
  BY <1>1, <1>2, <1>3, ReservedPosts
<1> QED BY <1>1, <1>4 DEF r, s

LEMMA ApproveLateBooks ==
  ASSUME BooksInv, NEW r \in Receipts, NEW s \in Subjects, ApproveLate(r, s), IntentsKept
  PROVE  Posts(r, s)
<1> DEFINE c == ClearSurplus(coll[r])
<1>1. /\ c \in Row /\ c.provider = coll[r].provider /\ c.amount = coll[r].amount
      /\ c.intent = coll[r].intent
  BY ClearedRow DEF BooksInv
<1>2. /\ alloc[r][s] = "reserved" /\ Allocate(r, s, "posted", c)
      /\ Postable(coll[r], s) /\ subject' = Settled(s)
  BY DEF ApproveLate
<1> HIDE DEF c
<1> QED BY <1>1, <1>2, ReservedPosts

LEMMA RejectLateBooks ==
  ASSUME BooksInv, NEW r \in Receipts, NEW s \in Subjects, RejectLate(r, s), IntentsKept
  PROVE  Releases(r, s)
<1>t. WorkInv /\ coll[r] \in Row /\ subject \in [Subjects -> SubjectRow]
  BY DEF BooksInv, WorkInv, MoneyInv, TypeOK
<1>1. alloc[r][s] = "reserved" /\ Allocate(r, s, "released", coll[r])
  BY DEF RejectLate
<1>2. /\ alloc' = [alloc EXCEPT ![r][s] = "released"]
      /\ \A q \in Receipts \ {r} : coll'[q] = coll[q]
      /\ coll'[r].provider = coll[r].provider /\ coll'[r].amount = coll[r].amount
  BY <1>1, <1>t, Allocated
<1>3. UNCHANGED subject \/ (subject[s].status = "pending" /\ Now(s, "cancelled"))
  BY <1>t DEF RejectLate, Marked, Now, OtherSubjects, SubjectRow
<1> QED BY <1>1, <1>2, <1>3 DEF Releases

LEMMA AllocateCollectionBooks ==
  ASSUME BooksInv, NEW r \in Receipts, NEW s \in Subjects, AllocateCollection(r, s), IntentsKept
  PROVE  SetsAside(r, s) \/ Posts(r, s)
<1> DEFINE opened == IF s \in Orders THEN subject
                     ELSE [subject EXCEPT ![s] = [status |-> "pending", till |-> till.n]]
<1>t. /\ WorkInv /\ subject \in [Subjects -> SubjectRow]
      /\ alloc \in [Receipts -> [Subjects -> AllocationStatus]]
      /\ Orders \intersect CustomerReceipts = {}
  BY ConstantsAssumption DEF BooksInv, WorkInv, MoneyInv, TypeOK
<1>1. /\ coll[r].provider = "received" /\ ~Overallocated(r) /\ Total[s] = coll[r].amount
      /\ \/ s \in Orders /\ subject[s].status = "pending"
         \/ /\ s \in CustomerReceipts /\ subject[s].status = "absent"
            /\ \A i \in Intents : SubjectOf[i] # s
  BY DEF AllocateCollection
<1>2. ASSUME NEW status, NEW c \in Row, Allocate(r, s, status, c), c.provider = coll[r].provider,
             c.amount = coll[r].amount, c.intent = coll[r].intent, subject'[s].status # "absent"
      PROVE  Promises(r, s, status) /\ coll'[r].provider = "received"
  <2>1. /\ alloc' = [alloc EXCEPT ![r][s] = status]
        /\ \A q \in Receipts \ {r} : coll'[q] = coll[q]
        /\ RowsKept
        /\ coll'[r].provider = coll[r].provider /\ coll'[r].amount = coll[r].amount
    BY <1>2, <1>t, Allocated
  <2>2. AmountFits(r, s)'
    BY <1>1, <2>1 DEF AmountFits
  <2>3. ASSUME s \in CustomerReceipts PROVE OnlyMoneyOf(s, r)'
    <3>1. subject[s].status = "absent" /\ \A i \in Intents : SubjectOf[i] # s
      BY <1>1, <1>t, <2>3
    <3>2. \A q \in Receipts : alloc[q][s] = "none"
      BY <2>3, <3>1 DEF BooksInv, CustomerMoney, OnlyMoneyOf
    <3>3. \A q \in Receipts : alloc'[q][s] # "none" => q = r
      BY <1>t, <2>1, <3>2
    <3> QED BY <1>2, <3>1, <3>3 DEF OnlyMoneyOf
  <2> QED BY <1>1, <2>1, <2>2, <2>3 DEF Promises
<1>3. CASE Allocate(r, s, "reserved", coll[r]) /\ subject' = opened
  <2>1. UNCHANGED subject \/ (subject[s].status = "absent" /\ Now(s, "pending"))
    BY <1>1, <1>3, <1>t DEF Now, OtherSubjects
  <2>2. subject'[s].status # "absent"
    BY <1>1, <1>3, <1>t
  <2>3. Promises(r, s, "reserved")
    BY <1>2, <1>3, <1>t, <2>2, ClearedRow
  <2> QED BY <1>1, <2>1, <2>3 DEF SetsAside
<1>4. CASE /\ Allocate(r, s, "posted", ClearSurplus(coll[r]))
           /\ subject' = [opened EXCEPT ![s].status = "posted"]
  <2>1. Now(s, "posted")
    BY <1>1, <1>4, <1>t DEF Now, OtherSubjects, SubjectRow
  <2>2. Promises(r, s, "posted") /\ coll'[r].provider = "received"
    BY <1>2, <1>4, <1>t, <2>1, ClearedRow DEF Now
  <2> QED BY <1>1, <2>1, <2>2 DEF Posts
<1> QED BY <1>3, <1>4 DEF AllocateCollection

LEMMA StepsBooks == BooksInv /\ [Next]_vars => BooksMove
<1> SUFFICES ASSUME BooksInv, [Next]_vars PROVE BooksMove
  OBVIOUS
<1>t. WorkInv /\ Move /\ subject \in [Subjects -> SubjectRow]
  BY StepsMove DEF BooksInv, WorkInv, MoneyInv, TypeOK
<1>s. \A i \in Intents : SubjectOf[i] \in Subjects
  BY ConstantsAssumption
<1>1. ASSUME NEW i \in Intents, CreateIntent(i) PROVE BooksMove
  BY <1>1, <1>s, <1>t, OpensSubject DEF BooksMove
<1>2. CASE \A i \in Intents : ~CreateIntent(i)
  <2>k. IntentsKept
    BY <1>2, <1>t, IntentsAreKept
  <2>1. ASSUME NEW i \in Intents, CashSplit(i) PROVE BooksMove
    BY <1>s, <2>k, <2>1, CashSplitBooks DEF BooksMove
  <2>2. ASSUME NEW i \in Intents, NEW r \in Receipts, TakesAside(i, r) \/ TakesPosted(i, r)
        PROVE  BooksMove
    BY <1>s, <2>k, <2>2, TakesAsideBooks, TakesPostedBooks DEF BooksMove
  <2>3. ASSUME NEW r \in Receipts, NEW s \in Subjects,
               AllocateCollection(r, s) \/ ApproveLate(r, s) \/ RejectLate(r, s)
        PROVE  BooksMove
    BY <2>k, <2>3, AllocateCollectionBooks, ApproveLateBooks, RejectLateBooks DEF BooksMove
  <2>4. ASSUME NEW s \in Subjects, SettleOtherwise(s) \/ VoidHeldOrder(s) PROVE BooksMove
    <3>1. /\ s \in Orders /\ subject[s].status = "pending" /\ UNCHANGED <<coll, alloc>>
          /\ Now(s, "posted") \/ Now(s, "voided")
      BY <1>t, <2>4 DEF SettleOtherwise, VoidHeldOrder, Marked, Now, OtherSubjects, SubjectRow, money
    <3> QED BY <2>k, <3>1 DEF Turns, BooksMove
  <2> QED BY <1>2, <1>t, <2>k, <2>1, <2>2, <2>3, <2>4 DEF Move, BooksMove
<1> QED BY <1>1, <1>2

-----------------------------------------------------------------------------
(* Each kind of step keeps the invariant.                                    *)

\* Amounts: what is live after the step was live with the same amount, or fits.
LEMMA AmountsKept ==
  ASSUME BooksInv, IntentsKept,
         \A r \in Receipts, s \in Subjects : alloc'[r][s] \in Active =>
           \/ AmountFits(r, s)'
           \/ alloc[r][s] \in Active /\ coll'[r].amount = coll[r].amount
  PROVE  LiveAmount'
<1> SUFFICES ASSUME NEW r \in Receipts, NEW s \in Subjects, alloc'[r][s] \in Active,
                    alloc[r][s] \in Active, coll'[r].amount = coll[r].amount
             PROVE  AmountFits(r, s)'
  BY DEF LiveAmount
<1>1. AmountFits(r, s)
  BY DEF BooksInv, LiveAmount
<1> QED BY <1>1, FitsStill

\* Customer receipts: none is opened by an intent or forgotten, and what is
\* allocated was allocated before.
LEMMA CustomersKept ==
  ASSUME BooksInv, IntentsKept,
         \A s \in Subjects : subject'[s].status = "absent" => subject[s].status = "absent"
  PROVE  /\ OneCustomerIntent'
         /\ (\A r \in Receipts, s \in Subjects : alloc'[r][s] # "none" => alloc[r][s] # "none")
              => CustomerMoney'
<1>s. \A i \in Intents : SubjectOf[i] \in Subjects
  BY ConstantsAssumption
<1>1. OneCustomerIntent'
  <2> SUFFICES ASSUME NEW i \in Intents, SubjectOf[i] \in CustomerReceipts, Created(i)'
               PROVE  /\ subject'[SubjectOf[i]].status # "absent"
                      /\ \A j \in Intents : SubjectOf[j] = SubjectOf[i] /\ Created(j)' => j = i
    BY DEF OneCustomerIntent
  <2>1. Created(i)
    BY DEF IntentsKept
  <2>2. /\ subject[SubjectOf[i]].status # "absent"
        /\ \A j \in Intents : SubjectOf[j] = SubjectOf[i] /\ Created(j) => j = i
    BY <2>1 DEF BooksInv, OneCustomerIntent
  <2> QED BY <1>s, <2>2 DEF IntentsKept
<1>2. ASSUME \A r \in Receipts, s \in Subjects : alloc'[r][s] # "none" => alloc[r][s] # "none"
      PROVE  CustomerMoney'
  <2> SUFFICES ASSUME NEW r \in Receipts, NEW s \in CustomerReceipts, alloc'[r][s] # "none"
               PROVE  OnlyMoneyOf(s, r)'
    BY DEF CustomerMoney
  <2>1. s \in Subjects
    BY DEF Subjects
  <2>2. OnlyMoneyOf(s, r)
    BY <1>2, <2>1 DEF BooksInv, CustomerMoney
  <2>3. subject'[s].status # "absent"
    BY <2>1, <2>2 DEF OnlyMoneyOf
  <2>4. \A q \in Receipts : alloc'[q][s] # "none" => alloc[q][s] # "none"
    BY <1>2, <2>1
  <2> QED BY <2>1, <2>2, <2>3, <2>4, OnlyStill
<1> QED BY <1>1, <1>2

\* Money that is promised.
LEMMA PromisesKeep ==
  ASSUME BooksInv, NEW r \in Receipts, NEW s \in Subjects, NEW status, Promises(r, s, status),
         OtherSubjects(s), subject'[s].status # "absent" \/ UNCHANGED subject
  PROVE  LiveAmount' /\ OneCustomerIntent' /\ CustomerMoney'
<1>t. alloc \in [Receipts -> [Subjects -> AllocationStatus]]
  BY DEF BooksInv, WorkInv, MoneyInv, TypeOK
<1>1. /\ IntentsKept /\ RowsKept
      /\ \A q \in Receipts \ {r} : coll'[q] = coll[q]
      /\ AmountFits(r, s)'
      /\ s \in CustomerReceipts => OnlyMoneyOf(s, r)'
  BY DEF Promises
<1>2. \A q \in Receipts, t \in Subjects :
        alloc'[q][t] = IF q = r /\ t = s THEN status ELSE alloc[q][t]
  BY <1>t DEF Promises
<1>3. \A t \in Subjects : subject'[t].status = "absent" => subject[t].status = "absent"
  BY DEF OtherSubjects
<1>4. LiveAmount'
  <2>1. ASSUME NEW t \in Subjects \ {s}, alloc[r][t] \in Active PROVE FALSE
    <3>1. alloc[r][s] = "reserved"
      BY <2>1 DEF Promises, Overallocated
    <3> QED BY <2>1, <3>1 DEF BooksInv, WorkInv, MoneyInv, MoneyConsistent, Consistent, Active
  <2>2. ASSUME NEW q \in Receipts, NEW t \in Subjects, alloc'[q][t] \in Active
        PROVE  \/ AmountFits(q, t)'
               \/ alloc[q][t] \in Active /\ coll'[q].amount = coll[q].amount
    <3>1. CASE q # r
      BY <1>1, <1>2, <2>2, <3>1
    <3>2. CASE q = r /\ t = s
      BY <1>1, <3>2
    <3>3. CASE q = r /\ t # s
      BY <1>2, <2>1, <2>2, <3>3
    <3> QED BY <3>1, <3>2, <3>3
  <2> QED BY <1>1, <2>2, AmountsKept
<1>5. OneCustomerIntent'
  BY <1>1, <1>3, CustomersKept
<1>6. CustomerMoney'
  <2> SUFFICES ASSUME NEW q \in Receipts, NEW t \in CustomerReceipts, alloc'[q][t] # "none"
               PROVE  OnlyMoneyOf(t, q)'
    BY DEF CustomerMoney
  <2>1. t \in Subjects
    BY DEF Subjects
  <2>2. CASE t = s
    BY <1>1, <2>2 DEF OnlyMoneyOf
  <2>3. CASE t # s
    <3>1. OnlyMoneyOf(t, q)
      BY <1>2, <2>1, <2>3 DEF BooksInv, CustomerMoney
    <3>2. \A p \in Receipts : alloc'[p][t] # "none" => alloc[p][t] # "none"
      BY <1>2, <2>1, <2>3
    <3>3. subject'[t].status # "absent"
      BY <1>3, <2>1, <3>1 DEF OnlyMoneyOf
    <3> QED BY <1>1, <2>1, <3>1, <3>2, <3>3, OnlyStill
  <2> QED BY <2>2, <2>3
<1> QED BY <1>4, <1>5, <1>6

LEMMA SetsAsideKeeps ==
  ASSUME BooksInv, WorkInv', NEW r \in Receipts, NEW s \in Subjects, SetsAside(r, s)
  PROVE  BooksInv'
<1>t. alloc \in [Receipts -> [Subjects -> AllocationStatus]]
  BY DEF BooksInv, WorkInv, MoneyInv, TypeOK
<1>0. \/ UNCHANGED subject
      \/ /\ subject[s].status = "absent" /\ subject'[s].status = "pending"
         /\ OtherSubjects(s)
  BY DEF SetsAside, Now
<1>1. /\ Promises(r, s, "reserved") /\ ~Overallocated(r) /\ OtherSubjects(s)
      /\ subject'[s].status # "absent" \/ UNCHANGED subject
  BY <1>0 DEF SetsAside, OtherSubjects
<1>2. LiveAmount' /\ OneCustomerIntent' /\ CustomerMoney'
  BY <1>1, PromisesKeep
<1>3. \A q \in Receipts, t \in Subjects : alloc'[q][t] = "posted" <=> alloc[q][t] = "posted"
  BY <1>1, <1>t DEF Promises, Overallocated, Active
<1>4. \A t \in Subjects : subject'[t].status = "posted" <=> subject[t].status = "posted"
  BY <1>0 DEF OtherSubjects
<1>5. SettledByOne' /\ CustomerSettled'
  BY <1>3, <1>4 DEF BooksInv, SettledByOne, CustomerSettled, Subjects
<1> QED BY <1>2, <1>5 DEF BooksInv

LEMMA PostsKeeps ==
  ASSUME BooksInv, WorkInv', NEW r \in Receipts, NEW s \in Subjects, Posts(r, s)
  PROVE  BooksInv'
<1>t. alloc \in [Receipts -> [Subjects -> AllocationStatus]]
  BY DEF BooksInv, WorkInv, MoneyInv, TypeOK
<1>1. /\ Promises(r, s, "posted") /\ OtherSubjects(s)
      /\ subject[s].status \in {"absent", "pending"} /\ subject'[s].status = "posted"
  BY DEF Posts, Now
<1>2. LiveAmount' /\ OneCustomerIntent' /\ CustomerMoney'
  BY <1>1, PromisesKeep
<1>3. \A q \in Receipts, t \in Subjects :
        alloc'[q][t] = "posted" <=> (alloc[q][t] = "posted" \/ (q = r /\ t = s))
  BY <1>1, <1>t DEF Promises
<1>4. \A q \in Receipts : alloc[q][s] # "posted"
  BY <1>1 DEF BooksInv, SettledByOne
<1>5. SettledByOne'
  BY <1>1, <1>3, <1>4 DEF BooksInv, SettledByOne, OtherSubjects
<1>6. CustomerSettled'
  BY <1>1, <1>3 DEF BooksInv, CustomerSettled, OtherSubjects, Subjects
<1> QED BY <1>2, <1>5, <1>6 DEF BooksInv

\* A step that promises nothing new and gives no subject its money.
LEMMA NothingPromised ==
  ASSUME BooksInv, IntentsKept,
         \A r \in Receipts, s \in Subjects :
           /\ alloc'[r][s] \in Active => /\ alloc'[r][s] = alloc[r][s]
                                         /\ coll'[r].amount = coll[r].amount
           /\ alloc'[r][s] # "none" => alloc[r][s] # "none",
         \A s \in Subjects : subject'[s].status = "absent" => subject[s].status = "absent"
  PROVE  LiveAmount' /\ OneCustomerIntent' /\ CustomerMoney'
BY AmountsKept, CustomersKept

\* The amount of a receipt with a live allocation stands.
LEMMA AmountStands ==
  ASSUME BooksInv, RowsKept, NEW r \in Receipts, NEW s \in Subjects, alloc[r][s] \in Active
  PROVE  coll'[r].amount = coll[r].amount /\ coll'[r].provider = coll[r].provider
<1>1. coll[r].provider # "absent"
  BY DEF BooksInv, WorkInv, MoneyInv, MoneyConsistent, Consistent, Active
<1> QED BY <1>1 DEF RowsKept, RowKept

LEMMA DriftBooks ==
  ASSUME BooksInv, WorkInv', Drift, IntentsKept
  PROVE  BooksInv'
<1>1. UNCHANGED <<subject, alloc>> /\ RowsKept
  BY DEF Drift
<1>2. \A r \in Receipts, s \in Subjects :
        alloc'[r][s] \in Active => coll'[r].amount = coll[r].amount
  BY <1>1, AmountStands
<1>3. LiveAmount' /\ OneCustomerIntent' /\ CustomerMoney'
  BY <1>1, <1>2, NothingPromised
<1>4. SettledByOne' /\ CustomerSettled'
  BY <1>1 DEF BooksInv, SettledByOne, CustomerSettled
<1> QED BY <1>3, <1>4 DEF BooksInv

LEMMA GoneBooks ==
  ASSUME BooksInv, WorkInv', NEW r \in Receipts, GoneUnposted(r), IntentsKept
  PROVE  BooksInv'
<1>1. UNCHANGED <<subject, alloc>>
  BY DEF GoneUnposted
<1>2. \A q \in Receipts : coll'[q].amount = coll[q].amount
  BY DEF GoneUnposted, TakenBack, BooksInv, WorkInv, MoneyInv, TypeOK, Row
<1>3. LiveAmount' /\ OneCustomerIntent' /\ CustomerMoney'
  BY <1>1, <1>2, NothingPromised
<1>4. SettledByOne' /\ CustomerSettled'
  BY <1>1 DEF BooksInv, SettledByOne, CustomerSettled
<1> QED BY <1>3, <1>4 DEF BooksInv

LEMMA ReleasesKeeps ==
  ASSUME BooksInv, WorkInv', NEW r \in Receipts, NEW s \in Subjects, Releases(r, s)
  PROVE  BooksInv'
<1>t. alloc \in [Receipts -> [Subjects -> AllocationStatus]]
  BY DEF BooksInv, WorkInv, MoneyInv, TypeOK
<1>1. \A q \in Receipts, t \in Subjects :
        alloc'[q][t] = IF q = r /\ t = s THEN "released" ELSE alloc[q][t]
  BY <1>t DEF Releases
<1>2. IntentsKept /\ alloc[r][s] = "reserved" /\ \A q \in Receipts : coll'[q].amount = coll[q].amount
  BY DEF Releases
<1>3. \A t \in Subjects : /\ subject'[t].status = "absent" => subject[t].status = "absent"
                          /\ subject'[t].status = "posted" <=> subject[t].status = "posted"
  BY DEF Releases, Now, OtherSubjects
<1>4. \A q \in Receipts, t \in Subjects :
        /\ alloc'[q][t] \in Active => alloc'[q][t] = alloc[q][t]
        /\ alloc'[q][t] # "none" => alloc[q][t] # "none"
        /\ alloc'[q][t] = "posted" <=> alloc[q][t] = "posted"
  BY <1>1, <1>2 DEF Active
<1>5. LiveAmount' /\ OneCustomerIntent' /\ CustomerMoney'
  BY <1>2, <1>3, <1>4, NothingPromised
<1>6. SettledByOne' /\ CustomerSettled'
  BY <1>3, <1>4 DEF BooksInv, SettledByOne, CustomerSettled, Subjects
<1> QED BY <1>5, <1>6 DEF BooksInv

LEMMA TurnsKeeps ==
  ASSUME BooksInv, WorkInv', NEW s \in Subjects, Turns(s)
  PROVE  BooksInv'
<1>o. Orders \intersect CustomerReceipts = {} /\ None \notin Receipts
      /\ \A i \in Intents : SubjectOf[i] \in Subjects
  BY ConstantsAssumption
<1>1. /\ UNCHANGED <<coll, alloc>> /\ OtherSubjects(s)
      /\ subject[s].status \in {"absent", "pending"}
      /\ subject'[s].status \in {"pending", "posted", "voided"}
      /\ subject'[s].status # "pending" => s \in Orders
  BY DEF Turns, Now
<1>2. SettledByOne'
  <2>1. \A r \in Receipts : alloc[r][s] # "posted"
    BY <1>1 DEF BooksInv, SettledByOne
  <2> QED BY <1>1, <2>1 DEF BooksInv, SettledByOne, OtherSubjects
<1>3. CustomerSettled'
  BY <1>1, <1>o DEF BooksInv, CustomerSettled, OtherSubjects, Subjects
<1>4. CASE IntentsKept
  <2>1. LiveAmount' /\ OneCustomerIntent' /\ CustomerMoney'
    BY <1>1, <1>4, NothingPromised DEF OtherSubjects
  <2> QED BY <1>2, <1>3, <2>1 DEF BooksInv
<1>5. CASE \E i \in Intents : SubjectOf[i] = s /\ CreateIntent(i)
  <2>1. PICK i \in Intents : SubjectOf[i] = s /\ CreateIntent(i)
    BY <1>5
  <2>2. intent \in [Intents -> IntentRow]
    BY DEF BooksInv, WorkInv, MoneyInv, TypeOK
  <2>3. \A j \in Intents : /\ intent'[j].fulfilled = intent[j].fulfilled
                           /\ Created(j)' => Created(j) \/ j = i
    BY <2>1, <2>2 DEF CreateIntent, IntentRow, Created
  <2>4. s \in CustomerReceipts => subject[s].status = "absent"
    BY <1>o, <2>1 DEF CreateIntent
  <2>5. LiveAmount'
    BY <1>1, <2>3 DEF BooksInv, LiveAmount, AmountFits
  <2>6. OneCustomerIntent'
    <3>1. s \in CustomerReceipts => \A j \in Intents : SubjectOf[j] = s => ~Created(j)
      BY <2>4 DEF BooksInv, OneCustomerIntent
    <3> QED BY <1>1, <1>o, <2>1, <2>3, <3>1 DEF BooksInv, OneCustomerIntent, OtherSubjects
  <2>7. CustomerMoney'
    <3>1. s \in CustomerReceipts => \A r \in Receipts : alloc[r][s] = "none"
      BY <2>4 DEF BooksInv, CustomerMoney, OnlyMoneyOf
    <3>2. ASSUME NEW r \in Receipts, NEW t \in CustomerReceipts, alloc'[r][t] # "none"
          PROVE  OnlyMoneyOf(t, r)'
      <4>1. t # s /\ t \in Subjects /\ alloc[r][t] # "none"
        BY <1>1, <3>1, <3>2 DEF Subjects
      <4>2. OnlyMoneyOf(t, r)
        BY <4>1 DEF BooksInv, CustomerMoney
      <4>3. \A j \in Intents : SubjectOf[j] = t /\ Created(j)' => Created(j)
        BY <2>1, <2>3, <4>1
      <4> QED BY <1>1, <2>3, <4>1, <4>2, <4>3 DEF OnlyMoneyOf, OtherSubjects
    <3> QED BY <3>2 DEF CustomerMoney
  <2> QED BY <1>2, <1>3, <2>5, <2>6, <2>7 DEF BooksInv
<1> QED BY <1>4, <1>5 DEF Turns

\* Cancelled payments: afterwards nothing is posted to the subject, which is
\* settled only if it is an order whose payment alone was reversed.
LEMMA CancelledSubject ==
  ASSUME BooksInv, NEW rs \in SUBSET Receipts, NEW s \in Subjects, Cancels(rs, s)
  PROVE  /\ OtherSubjects(s)
         /\ subject[s].status = "posted"
         /\ \/ s \in Orders /\ UNCHANGED subject
            \/ s \in CustomerReceipts /\ subject'[s].status = "reversed"
            \/ s \in Orders /\ subject'[s].status = "voided" /\ rs = PostedTo(s)
<1>t. subject \in [Subjects -> SubjectRow] /\ Subjects = Orders \union CustomerReceipts
  BY DEF BooksInv, WorkInv, MoneyInv, TypeOK, Subjects
<1>1. \A q \in rs : alloc[q][s] = "posted"
  BY DEF Cancels
<1>2. subject[s].status = "posted"
  BY <1>1 DEF Cancels, BooksInv, SettledByOne
<1>3. /\ OtherSubjects(s)
      /\ \/ s \in Orders /\ UNCHANGED subject
         \/ s \in CustomerReceipts /\ subject'[s].status = "reversed"
         \/ s \in Orders /\ subject'[s].status = "voided" /\ rs = PostedTo(s)
  BY <1>t DEF Cancels, Unpaid, Marked, OtherSubjects, SubjectRow
<1> QED BY <1>2, <1>3

LEMMA CancelledMoney ==
  ASSUME BooksInv, NEW rs \in SUBSET Receipts, NEW s \in Subjects, Cancels(rs, s)
  PROVE  /\ \A q \in Receipts : alloc[q][s] = "posted" <=> q \in rs
         /\ \A q, p \in rs : q = p
<1>1. \A q \in rs : alloc[q][s] = "posted"
  BY DEF Cancels
<1>2. \A q, p \in rs : q = p
  BY <1>1 DEF BooksInv, SettledByOne
<1>3. ASSUME NEW q \in Receipts, alloc[q][s] = "posted" PROVE q \in rs
  <2>1. ASSUME NEW r \in rs PROVE q = r
    BY <1>1, <1>3, <2>1 DEF BooksInv, SettledByOne
  <2> QED BY <1>3, <2>1 DEF Cancels, PostedTo
<1> QED BY <1>1, <1>2, <1>3

LEMMA CancelsBooks ==
  ASSUME BooksInv, WorkInv', NEW rs \in SUBSET Receipts, NEW s \in Subjects, Cancels(rs, s),
         IntentsKept
  PROVE  BooksInv'
<1>0. \A q \in Receipts, t \in Subjects :
        alloc'[q][t] = IF q \in rs /\ t = s
                       THEN (IF reversal'[q] # "none" THEN "reversed" ELSE "released")
                       ELSE alloc[q][t]
  BY CancelsRows DEF BooksInv
<1>1. \A q \in Receipts : alloc[q][s] = "posted" <=> q \in rs
  BY CancelledMoney
<1>a. \A q \in Receipts : alloc'[q][s] # "posted"
  BY <1>0, <1>1
<1>b. \A q \in Receipts, t \in Subjects :
        /\ alloc'[q][t] \in Active => alloc'[q][t] = alloc[q][t]
        /\ alloc'[q][t] # "none" => alloc[q][t] # "none"
        /\ t # s => alloc'[q][t] = alloc[q][t]
  BY <1>0, <1>1 DEF Active
<1>c. /\ OtherSubjects(s)
      /\ \/ s \in Orders /\ UNCHANGED subject
         \/ s \in CustomerReceipts /\ subject'[s].status = "reversed"
         \/ s \in Orders /\ subject'[s].status = "voided"
  BY CancelledSubject
<1>2. \A q \in Receipts : coll'[q].amount = coll[q].amount
  BY CancelsRows DEF BooksInv
<1>3. \A t \in Subjects : subject'[t].status = "absent" => subject[t].status = "absent"
  BY <1>c DEF OtherSubjects
<1>4. LiveAmount' /\ OneCustomerIntent' /\ CustomerMoney'
  BY <1>b, <1>2, <1>3, NothingPromised
<1>5. SettledByOne'
  BY <1>a, <1>b, <1>c DEF BooksInv, SettledByOne, OtherSubjects, Active
<1>6. CustomerSettled'
  <2> SUFFICES ASSUME NEW t \in CustomerReceipts, subject'[t].status = "posted"
               PROVE  \E r \in Receipts : alloc'[r][t] = "posted"
    BY DEF CustomerSettled
  <2>1. t # s /\ t \in Subjects
    BY <1>c, ConstantsAssumption DEF Subjects
  <2> QED BY <1>b, <1>c, <2>1 DEF BooksInv, CustomerSettled, OtherSubjects
<1> QED BY <1>4, <1>5, <1>6 DEF BooksInv

LEMMA BooksInvStep == BooksInv /\ [Next]_vars => BooksInv'
<1> SUFFICES ASSUME BooksInv, [Next]_vars PROVE BooksInv'
  OBVIOUS
<1>1. WorkInv' /\ BooksMove
  BY WorkStep, StepsBooks DEF BooksInv
<1>2. ASSUME NEW r \in Receipts, NEW s \in Subjects, SetsAside(r, s) \/ Posts(r, s) \/ Releases(r, s)
      PROVE  BooksInv'
  BY <1>1, <1>2, SetsAsideKeeps, PostsKeeps, ReleasesKeeps
<1> QED BY <1>1, <1>2, DriftBooks, TurnsKeeps, GoneBooks, CancelsBooks DEF BooksMove

LEMMA InitBooks == Init => BooksInv
<1>1. Init => LiveAmount /\ SettledByOne /\ OneCustomerIntent /\ CustomerMoney /\ CustomerSettled
  BY DEF Init, LiveAmount, SettledByOne, OneCustomerIntent, CustomerMoney, CustomerSettled, Created,
         Active, Subjects
<1> QED BY <1>1, InitWork DEF BooksInv

LEMMA BooksInvariant == Spec => []BooksInv
BY InitBooks, BooksInvStep, PTL DEF Spec

\* Whatever is voided, settled in cash, rejected or posted late meanwhile, posted
\* money stands alone against a settled order or customer receipt, for its total or
\* for the M-PESA part of the checkout it fulfils.
THEOREM PostedMatches == Spec => []PostedMatchesSubject
<1>1. BooksInv => PostedMatchesSubject
  BY DEF BooksInv, LiveAmount, SettledByOne, AmountFits, PostedMatchesSubject, Active
<1> QED BY <1>1, BooksInvariant, PTL

-----------------------------------------------------------------------------
(* The refinement mapping, receipt by receipt and subject by subject.        *)

View ==
  \A r \in Receipts :
    /\ \A s \in Subjects : alloc[r][s] = "posted" => BooksWhere(r) = "posted" /\ BooksHolder(r) = s
    /\ \A s \in Subjects : alloc[r][s] = "reserved" =>
         \/ coll[r].provider = "received" /\ BooksWhere(r) = "set_aside" /\ BooksHolder(r) = s
         \/ coll[r].provider = "reversed" /\ BooksWhere(r) = "gone" /\ BooksHolder(r) = None
    /\ ~Overallocated(r) =>
         /\ BooksHolder(r) = None
         /\ BooksWhere(r) = CASE coll[r].provider = "absent" -> "unseen"
                              [] coll[r].provider = "reversed" -> "gone"
                              [] coll[r].provider = "received" -> "free"

LEMMA BooksView == BooksInv => View
<1> SUFFICES ASSUME BooksInv, NEW r \in Receipts
             PROVE  /\ \A s \in Subjects : alloc[r][s] = "posted" =>
                         BooksWhere(r) = "posted" /\ BooksHolder(r) = s
                    /\ \A s \in Subjects : alloc[r][s] = "reserved" =>
                         \/ /\ coll[r].provider = "received" /\ BooksWhere(r) = "set_aside"
                            /\ BooksHolder(r) = s
                         \/ /\ coll[r].provider = "reversed" /\ BooksWhere(r) = "gone"
                            /\ BooksHolder(r) = None
                    /\ ~Overallocated(r) =>
                         /\ BooksHolder(r) = None
                         /\ BooksWhere(r) = CASE coll[r].provider = "absent" -> "unseen"
                                              [] coll[r].provider = "reversed" -> "gone"
                                              [] coll[r].provider = "received" -> "free"
  BY DEF View
<1>t. Consistent(coll[r], alloc[r]) /\ coll[r].provider \in {"absent", "received", "reversed"}
  BY DEF BooksInv, WorkInv, MoneyInv, MoneyConsistent, TypeOK, Row
<1>1. ASSUME NEW s \in Subjects, alloc[r][s] \in Active
      PROVE  /\ (CHOOSE t \in Subjects : alloc[r][t] \in Active) = s
             /\ coll[r].provider \in {"received", "reversed"}
             /\ \A t \in Subjects : alloc[r][t] \in Active => t = s
  <2>1. \A t \in Subjects : alloc[r][t] \in Active => t = s
    BY <1>t, <1>1 DEF Consistent
  <2>2. coll[r].provider \in {"received", "reversed"}
    BY <1>t, <1>1 DEF Consistent, Active
  <2> QED BY <1>1, <2>1, <2>2
<1>2. ASSUME NEW s \in Subjects, alloc[r][s] = "posted"
      PROVE  BooksWhere(r) = "posted" /\ BooksHolder(r) = s
  <2>1. BooksWhere(r) = "posted"
    BY <1>2 DEF BooksWhere
  <2> QED BY <1>1, <1>2, <2>1 DEF BooksHolder, Active
<1>3. ASSUME NEW s \in Subjects, alloc[r][s] = "reserved"
      PROVE  \/ coll[r].provider = "received" /\ BooksWhere(r) = "set_aside" /\ BooksHolder(r) = s
             \/ coll[r].provider = "reversed" /\ BooksWhere(r) = "gone" /\ BooksHolder(r) = None
  <2>1. /\ \A t \in Subjects : alloc[r][t] # "posted"
        /\ coll[r].provider \in {"received", "reversed"}
        /\ (CHOOSE t \in Subjects : alloc[r][t] \in Active) = s
    BY <1>1, <1>3 DEF Active
  <2>2. CASE coll[r].provider = "received"
    <3>1. BooksWhere(r) = "set_aside"
      BY <1>3, <2>1, <2>2 DEF BooksWhere
    <3> QED BY <2>1, <2>2, <3>1 DEF BooksHolder
  <2>3. CASE coll[r].provider = "reversed"
    <3>1. BooksWhere(r) = "gone"
      BY <2>1, <2>3 DEF BooksWhere
    <3> QED BY <2>3, <3>1 DEF BooksHolder
  <2> QED BY <2>1, <2>2, <2>3
<1>4. ASSUME ~Overallocated(r)
      PROVE  /\ BooksHolder(r) = None
             /\ BooksWhere(r) = CASE coll[r].provider = "absent" -> "unseen"
                                  [] coll[r].provider = "reversed" -> "gone"
                                  [] coll[r].provider = "received" -> "free"
  <2>1. \A t \in Subjects : alloc[r][t] # "posted" /\ alloc[r][t] # "reserved"
    BY <1>4 DEF Overallocated, Active
  <2>2. BooksWhere(r) = CASE coll[r].provider = "absent" -> "unseen"
                          [] coll[r].provider = "reversed" -> "gone"
                          [] coll[r].provider = "received" -> "free"
    BY <1>t, <2>1 DEF BooksWhere
  <2> QED BY <1>t, <2>2 DEF BooksHolder
<1> QED BY <1>2, <1>3, <1>4

LEMMA ViewNext == BooksInv' => View'
BY BooksView, PTL

LEMMA MovesAs ==
  ASSUME NEW r \in Receipts, NEW w, NEW h,
         \A q \in Receipts : /\ BooksWhere(q)' = IF q = r THEN w ELSE BooksWhere(q)
                             /\ BooksHolder(q)' = IF q = r THEN h ELSE BooksHolder(q)
  PROVE  Books!Move(r, w, h)
BY DEF Books!Move

LEMMA BecomesAs ==
  ASSUME NEW s \in Subjects, NEW x,
         \A t \in Subjects : BooksState(t)' = IF t = s THEN x ELSE BooksState(t)
  PROVE  Books!Becomes(s, x)
BY DEF Books!Becomes

\* A receipt whose row and allocations stand, stands.
LEMMA ReceiptStands ==
  ASSUME View, View', TypeOK, TypeOK', NEW q \in Receipts, alloc'[q] = alloc[q],
         coll'[q].provider = coll[q].provider
  PROVE  BooksWhere(q)' = BooksWhere(q) /\ BooksHolder(q)' = BooksHolder(q)
<1>1. CASE \E s \in Subjects : alloc[q][s] = "posted"
  BY <1>1 DEF View
<1>2. CASE \E s \in Subjects : alloc[q][s] = "reserved"
  BY <1>2 DEF View
<1>3. CASE ~Overallocated(q)
  <2>1. ~Overallocated(q)'
    BY <1>3 DEF Overallocated
  <2> QED BY <1>3, <2>1 DEF View
<1> QED BY <1>1, <1>2, <1>3 DEF Overallocated, Active

\* Nothing in the books changes.
LEMMA BooksStutter ==
  ASSUME \A r \in Receipts : BooksWhere(r)' = BooksWhere(r) /\ BooksHolder(r)' = BooksHolder(r),
         \A s \in Subjects : BooksState(s)' = BooksState(s)
  PROVE  UNCHANGED Books!bvars
BY DEF Books!bvars

-----------------------------------------------------------------------------
(* Every step is one of PaymentBooks, or none.                               *)

Kept == /\ BooksInv /\ BooksInv'
        /\ View /\ View'

LEMMA KeptTypes ==
  ASSUME Kept
  PROVE  /\ TypeOK /\ TypeOK'
         /\ \A r \in Receipts : Consistent(coll[r], alloc[r]) /\ Consistent(coll'[r], alloc'[r])
         /\ \A r \in Receipts : /\ coll[r].provider \in {"absent", "received", "reversed"}
                                /\ coll'[r].provider \in {"absent", "received", "reversed"}
BY DEF Kept, BooksInv, WorkInv, MoneyInv, MoneyConsistent, TypeOK, Row

LEMMA SubjectsStand ==
  ASSUME UNCHANGED subject
  PROVE  \A s \in Subjects : BooksState(s)' = BooksState(s)
BY DEF BooksState

\* A subject that nothing is posted to.
LEMMA NobodyHolds ==
  ASSUME Kept, NEW s \in Subjects, \A r \in Receipts : alloc[r][s] # "posted"
  PROVE  \A r \in Receipts : ~(BooksWhere(r) = "posted" /\ BooksHolder(r) = s)
<1> SUFFICES ASSUME NEW r \in Receipts, BooksWhere(r) = "posted", BooksHolder(r) = s PROVE FALSE
  OBVIOUS
<1>1. PICK t \in Subjects : alloc[r][t] = "posted"
  BY DEF BooksWhere
<1>2. BooksHolder(r) = t
  BY <1>1 DEF Kept, View
<1> QED BY <1>1, <1>2

LEMMA DriftRefines ==
  ASSUME Kept, Drift
  PROVE  [Books!BooksNext]_(Books!bvars)
<1>t. /\ TypeOK /\ TypeOK' /\ View /\ View'
      /\ \A r \in Receipts : Consistent(coll[r], alloc[r])
  BY KeptTypes DEF Kept
<1>1. UNCHANGED <<subject, alloc>> /\ RowsKept
  BY DEF Drift
<1>2. \A s \in Subjects : BooksState(s)' = BooksState(s)
  BY <1>1, SubjectsStand
<1>3. CASE \A r \in Receipts : coll'[r].provider = coll[r].provider
  <2>1. \A r \in Receipts : BooksWhere(r)' = BooksWhere(r) /\ BooksHolder(r)' = BooksHolder(r)
    BY <1>1, <1>3, <1>t, ReceiptStands
  <2> QED BY <1>2, <2>1, BooksStutter
<1>4. ASSUME NEW r \in Receipts, coll'[r].provider # coll[r].provider
      PROVE  Books!Arrive(r)
  <2>1. coll[r].provider = "absent" /\ coll'[r].provider = "received"
    BY <1>1, <1>4 DEF RowsKept, RowKept
  <2>2. ~Overallocated(r) /\ ~Overallocated(r)'
    BY <1>1, <1>t, <2>1 DEF Consistent, Overallocated, Active
  <2>3. /\ BooksWhere(r) = "unseen" /\ BooksHolder(r) = None
        /\ BooksWhere(r)' = "free" /\ BooksHolder(r)' = None
    BY <1>t, <2>1, <2>2 DEF View
  <2>4. \A q \in Receipts \ {r} : coll'[q] = coll[q]
    BY <1>1, <1>4 DEF RowsKept
  <2>5. \A q \in Receipts \ {r} : BooksWhere(q)' = BooksWhere(q) /\ BooksHolder(q)' = BooksHolder(q)
    BY <1>1, <1>t, <2>4, ReceiptStands
  <2>6. Books!Move(r, "free", None)
    BY <2>3, <2>5, MovesAs
  <2> QED BY <1>2, <2>3, <2>6 DEF Books!Arrive
<1> QED BY <1>3, <1>4 DEF Books!BooksNext

\* An allocation of r to s is written: the other receipts stand.
LEMMA OthersStand ==
  ASSUME Kept, NEW r \in Receipts, NEW s \in Subjects, NEW status,
         alloc' = [alloc EXCEPT ![r][s] = status],
         \A q \in Receipts \ {r} : coll'[q] = coll[q]
  PROVE  /\ \A q \in Receipts \ {r} :
              BooksWhere(q)' = BooksWhere(q) /\ BooksHolder(q)' = BooksHolder(q)
         /\ alloc'[r][s] = status
         /\ \A t \in Subjects \ {s} : alloc'[r][t] = alloc[r][t]
<1>t. TypeOK /\ TypeOK' /\ View /\ View'
  BY KeptTypes DEF Kept
<1>1. \A q \in Receipts \ {r} : alloc'[q] = alloc[q]
  BY <1>t DEF TypeOK
<1>2. alloc'[r][s] = status /\ \A t \in Subjects \ {s} : alloc'[r][t] = alloc[r][t]
  BY <1>t DEF TypeOK
<1>3. \A q \in Receipts \ {r} : BooksWhere(q)' = BooksWhere(q) /\ BooksHolder(q)' = BooksHolder(q)
  BY <1>1, <1>t, ReceiptStands
<1> QED BY <1>2, <1>3

LEMMA SetsAsideRefines ==
  ASSUME Kept, NEW r \in Receipts, NEW s \in Subjects, SetsAside(r, s)
  PROVE  [Books!BooksNext]_(Books!bvars)
<1>t. View /\ View' /\ coll[r].provider \in {"absent", "received", "reversed"}
  BY KeptTypes DEF Kept
<1>1. /\ ~Overallocated(r) /\ RowsKept
      /\ alloc' = [alloc EXCEPT ![r][s] = "reserved"]
      /\ \A q \in Receipts \ {r} : coll'[q] = coll[q]
  BY DEF SetsAside, Promises
<1>2. \A t \in Subjects : BooksState(t)' = BooksState(t)
  <2>1. CASE UNCHANGED subject
    BY <2>1, SubjectsStand
  <2>2. CASE subject[s].status = "absent" /\ Now(s, "pending")
    BY <2>2 DEF Now, OtherSubjects, BooksState
  <2> QED BY <2>1, <2>2 DEF SetsAside
<1>3. /\ \A q \in Receipts \ {r} :
           BooksWhere(q)' = BooksWhere(q) /\ BooksHolder(q)' = BooksHolder(q)
      /\ alloc'[r][s] = "reserved"
  BY <1>1, OthersStand
<1>4. CASE coll'[r].provider = "reversed"
  <2>1. coll[r].provider = "reversed"
    BY <1>1, <1>4 DEF RowsKept, RowKept
  <2>2. BooksWhere(r)' = BooksWhere(r) /\ BooksHolder(r)' = BooksHolder(r)
    BY <1>1, <1>3, <1>4, <1>t, <2>1 DEF View
  <2> QED BY <1>2, <1>3, <2>2, BooksStutter
<1>5. CASE coll'[r].provider # "reversed"
  <2>1. BooksWhere(r)' = "set_aside" /\ BooksHolder(r)' = s
    BY <1>3, <1>5, <1>t DEF View
  <2>2. BooksWhere(r) \in {"unseen", "free"}
    BY <1>1, <1>5, <1>t DEF View, RowsKept, RowKept
  <2>3. Books!Move(r, "set_aside", s)
    BY <1>3, <2>1, MovesAs
  <2>4. Books!SetAside(r, s)
    BY <1>2, <2>2, <2>3 DEF Books!SetAside
  <2> QED BY <2>4 DEF Books!BooksNext
<1> QED BY <1>4, <1>5

LEMMA PostsRefines ==
  ASSUME Kept, NEW r \in Receipts, NEW s \in Subjects, Posts(r, s)
  PROVE  [Books!BooksNext]_(Books!bvars)
<1>t. View /\ View' /\ coll[r].provider \in {"absent", "received", "reversed"}
  BY KeptTypes DEF Kept
<1>1. /\ alloc[r][s] = "reserved" \/ ~Overallocated(r)
      /\ RowsKept /\ coll'[r].provider = "received"
      /\ alloc' = [alloc EXCEPT ![r][s] = "posted"]
      /\ \A q \in Receipts \ {r} : coll'[q] = coll[q]
      /\ subject[s].status \in {"absent", "pending"} /\ Now(s, "posted")
  BY DEF Posts, Promises
<1>2. /\ \A q \in Receipts \ {r} :
           BooksWhere(q)' = BooksWhere(q) /\ BooksHolder(q)' = BooksHolder(q)
      /\ alloc'[r][s] = "posted"
  BY <1>1, OthersStand
<1>3. BooksWhere(r)' = "posted" /\ BooksHolder(r)' = s
  BY <1>2, <1>t DEF View
<1>4. \/ BooksWhere(r) \in {"unseen", "free"}
      \/ BooksWhere(r) = "set_aside" /\ BooksHolder(r) = s
  BY <1>1, <1>t DEF View, RowsKept, RowKept
<1>5. /\ BooksState(s) = "open"
      /\ \A t \in Subjects : BooksState(t)' = IF t = s THEN "settled" ELSE BooksState(t)
  BY <1>1 DEF BooksState, Now, OtherSubjects
<1>6. Books!Move(r, "posted", s) /\ Books!Becomes(s, "settled")
  BY <1>2, <1>3, <1>5, MovesAs, BecomesAs
<1>7. Books!Post(r, s)
  BY <1>4, <1>5, <1>6 DEF Books!Post
<1> QED BY <1>7 DEF Books!BooksNext

\* The money of r has left s: it is free, or gone.
LEMMA LeavesAs ==
  ASSUME Kept, NEW r \in Receipts, NEW s \in Subjects,
         BooksWhere(r) \in {"set_aside", "posted"}, BooksHolder(r) = s,
         BooksWhere(r)' \in {"free", "gone"}, BooksHolder(r)' = None,
         \A q \in Receipts \ {r} : BooksWhere(q)' = BooksWhere(q) /\ BooksHolder(q)' = BooksHolder(q),
         \/ \A t \in Subjects : BooksState(t)' = BooksState(t)
         \/ \A t \in Subjects : BooksState(t)' = IF t = s THEN "closed" ELSE BooksState(t)
  PROVE  [Books!BooksNext]_(Books!bvars)
<1>1. PICK w \in {"free", "gone"} : w = BooksWhere(r)'
  OBVIOUS
<1>2. Books!Move(r, w, None)
  BY <1>1, MovesAs
<1>3. CASE \A t \in Subjects : BooksState(t)' = BooksState(t)
  BY <1>1, <1>2, <1>3 DEF Books!Leave, Books!BooksNext
<1>4. CASE \A t \in Subjects : BooksState(t)' = IF t = s THEN "closed" ELSE BooksState(t)
  <2>1. Books!Becomes(s, "closed")
    BY <1>4, BecomesAs
  <2> QED BY <1>1, <1>2, <2>1 DEF Books!Leave, Books!BooksNext
<1> QED BY <1>3, <1>4

\* A subject ends, and nothing was posted to it.
LEMMA ClosesAs ==
  ASSUME Kept, NEW s \in Subjects, \A r \in Receipts : alloc[r][s] # "posted",
         \A r \in Receipts : BooksWhere(r)' = BooksWhere(r) /\ BooksHolder(r)' = BooksHolder(r),
         \A t \in Subjects : BooksState(t)' = IF t = s THEN "closed" ELSE BooksState(t)
  PROVE  [Books!BooksNext]_(Books!bvars)
<1>1. \A r \in Receipts : ~(BooksWhere(r) = "posted" /\ BooksHolder(r) = s)
  BY NobodyHolds
<1>2. Books!Becomes(s, "closed")
  BY BecomesAs
<1> QED BY <1>1, <1>2 DEF Books!Close, Books!BooksNext

LEMMA ReleasesRefines ==
  ASSUME Kept, NEW r \in Receipts, NEW s \in Subjects, Releases(r, s)
  PROVE  [Books!BooksNext]_(Books!bvars)
<1>t. View /\ View' /\ Consistent(coll[r], alloc[r])
  BY KeptTypes DEF Kept
<1>1. /\ alloc[r][s] = "reserved" /\ alloc' = [alloc EXCEPT ![r][s] = "released"]
      /\ \A q \in Receipts \ {r} : coll'[q] = coll[q]
      /\ coll'[r].provider = coll[r].provider
  BY DEF Releases
<1>2. /\ \A q \in Receipts \ {r} :
           BooksWhere(q)' = BooksWhere(q) /\ BooksHolder(q)' = BooksHolder(q)
      /\ alloc'[r][s] = "released"
      /\ \A t \in Subjects \ {s} : alloc'[r][t] = alloc[r][t]
  BY <1>1, OthersStand
<1>3. ~Overallocated(r)'
  BY <1>1, <1>2, <1>t DEF Overallocated, Consistent, Active
<1>4. \/ \A t \in Subjects : BooksState(t)' = BooksState(t)
      \/ /\ subject[s].status = "pending"
         /\ \A t \in Subjects : BooksState(t)' = IF t = s THEN "closed" ELSE BooksState(t)
  BY DEF Releases, Now, OtherSubjects, BooksState
<1>5. CASE coll[r].provider = "received"
  <2>1. /\ BooksWhere(r) = "set_aside" /\ BooksHolder(r) = s
        /\ BooksWhere(r)' = "free" /\ BooksHolder(r)' = None
    BY <1>1, <1>3, <1>5, <1>t DEF View
  <2> QED BY <1>2, <1>4, <2>1, LeavesAs
<1>6. CASE coll[r].provider = "reversed"
  <2>1. \A q \in Receipts : BooksWhere(q)' = BooksWhere(q) /\ BooksHolder(q)' = BooksHolder(q)
    BY <1>1, <1>2, <1>3, <1>6, <1>t DEF View
  <2>2. CASE \A t \in Subjects : BooksState(t)' = BooksState(t)
    BY <2>1, <2>2, BooksStutter
  <2>3. CASE /\ subject[s].status = "pending"
             /\ \A t \in Subjects : BooksState(t)' = IF t = s THEN "closed" ELSE BooksState(t)
    <3>1. \A q \in Receipts : alloc[q][s] # "posted"
      BY <2>3 DEF Kept, BooksInv, SettledByOne
    <3> QED BY <2>1, <2>3, <3>1, ClosesAs
  <2> QED BY <1>4, <2>2, <2>3
<1>7. coll[r].provider \in {"received", "reversed"}
  BY <1>1, <1>t DEF View
<1> QED BY <1>5, <1>6, <1>7

LEMMA TurnsRefines ==
  ASSUME Kept, NEW s \in Subjects, Turns(s)
  PROVE  [Books!BooksNext]_(Books!bvars)
<1>t. View /\ View' /\ TypeOK /\ TypeOK'
  BY KeptTypes DEF Kept
<1>1. \A r \in Receipts : BooksWhere(r)' = BooksWhere(r) /\ BooksHolder(r)' = BooksHolder(r)
  BY <1>t, ReceiptStands DEF Turns
<1>2. CASE subject[s].status \in {"absent", "pending"} /\ Now(s, "pending")
  <2>1. \A t \in Subjects : BooksState(t)' = BooksState(t)
    BY <1>2 DEF Now, OtherSubjects, BooksState
  <2> QED BY <1>1, <2>1, BooksStutter
<1>3. CASE subject[s].status = "pending" /\ Now(s, "posted")
  <2>1. /\ BooksState(s) = "open"
        /\ \A t \in Subjects : BooksState(t)' = IF t = s THEN "settled" ELSE BooksState(t)
    BY <1>3 DEF Now, OtherSubjects, BooksState
  <2>2. Books!Becomes(s, "settled")
    BY <2>1, BecomesAs
  <2> QED BY <1>1, <2>1, <2>2 DEF Books!SettleElsewhere, Books!BooksNext
<1>4. CASE subject[s].status = "pending" /\ Now(s, "voided")
  <2>1. \A t \in Subjects : BooksState(t)' = IF t = s THEN "closed" ELSE BooksState(t)
    BY <1>4 DEF Now, OtherSubjects, BooksState
  <2>2. \A r \in Receipts : alloc[r][s] # "posted"
    BY <1>4 DEF Kept, BooksInv, SettledByOne
  <2> QED BY <1>1, <2>1, <2>2, ClosesAs
<1> QED BY <1>2, <1>3, <1>4 DEF Turns

LEMMA GoneRefines ==
  ASSUME Kept, NEW r \in Receipts, GoneUnposted(r)
  PROVE  [Books!BooksNext]_(Books!bvars)
<1>t. /\ View /\ View' /\ TypeOK /\ TypeOK'
      /\ coll[r].provider \in {"absent", "received", "reversed"}
  BY KeptTypes DEF Kept
<1>1. /\ UNCHANGED <<subject, alloc>> /\ coll[r].provider # "absent"
      /\ coll'[r].provider = "reversed"
      /\ \A q \in Receipts \ {r} : coll'[q] = coll[q]
  BY <1>t DEF GoneUnposted, TakenBack, TypeOK, Row
<1>2. \A t \in Subjects : BooksState(t)' = BooksState(t)
  BY <1>1, SubjectsStand
<1>3. \A q \in Receipts \ {r} : BooksWhere(q)' = BooksWhere(q) /\ BooksHolder(q)' = BooksHolder(q)
  BY <1>1, <1>t, ReceiptStands
<1>4. CASE \E s \in Subjects : alloc[r][s] = "posted"
  <2>1. BooksWhere(r)' = BooksWhere(r) /\ BooksHolder(r)' = BooksHolder(r)
    BY <1>1, <1>4, <1>t DEF View
  <2> QED BY <1>2, <1>3, <2>1, BooksStutter
<1>5. CASE \A s \in Subjects : alloc[r][s] # "posted"
  <2>1. /\ BooksWhere(r)' = "gone" /\ BooksHolder(r)' = None
        /\ BooksWhere(r) \notin {"unseen", "posted"}
    <3>1. CASE \E s \in Subjects : alloc[r][s] = "reserved"
      BY <1>1, <1>t, <3>1 DEF View
    <3>2. CASE \A s \in Subjects : alloc[r][s] # "reserved"
      <4>1. ~Overallocated(r) /\ ~Overallocated(r)'
        BY <1>1, <1>5, <3>2 DEF Overallocated, Active
      <4> QED BY <1>1, <1>t, <4>1 DEF View
    <3> QED BY <3>1, <3>2
  <2>2. Books!Move(r, "gone", None)
    BY <1>3, <2>1, MovesAs
  <2> QED BY <1>2, <2>1, <2>2 DEF Books!TakeBack, Books!BooksNext
<1> QED BY <1>4, <1>5

LEMMA CancelsRefines ==
  ASSUME Kept, NEW rs \in SUBSET Receipts, NEW s \in Subjects, Cancels(rs, s)
  PROVE  [Books!BooksNext]_(Books!bvars)
<1>t. /\ View /\ View' /\ TypeOK /\ TypeOK' /\ BooksInv /\ WorkInv
      /\ \A r \in Receipts : Consistent(coll[r], alloc[r]) /\ Consistent(coll'[r], alloc'[r])
  BY KeptTypes DEF Kept, BooksInv
<1>1. /\ \A q \in Receipts : alloc[q][s] = "posted" <=> q \in rs
      /\ \A q, p \in rs : q = p
  BY <1>t, CancelledMoney
<1>2. \/ \A t \in Subjects : BooksState(t)' = BooksState(t)
      \/ \A t \in Subjects : BooksState(t)' = IF t = s THEN "closed" ELSE BooksState(t)
  <2>1. /\ OtherSubjects(s)
        /\ \/ UNCHANGED subject
           \/ subject'[s].status \in {"reversed", "voided"}
    BY <1>t, CancelledSubject
  <2> QED BY <2>1 DEF OtherSubjects, BooksState
<1>3. \A q \in Receipts \ rs : BooksWhere(q)' = BooksWhere(q) /\ BooksHolder(q)' = BooksHolder(q)
  <2>1. \A q \in Receipts \ rs : alloc'[q] = alloc[q] /\ coll'[q] = coll[q]
    BY DEF Cancels, Unwound
  <2> QED BY <2>1, <1>t, ReceiptStands
<1>4. CASE rs = {}
  <2>1. \A q \in Receipts : alloc[q][s] # "posted"
    BY <1>1, <1>4
  <2> QED BY <1>2, <1>3, <1>4, <2>1, BooksStutter, ClosesAs
<1>5. CASE rs # {}
  <2>1. PICK r \in Receipts : r \in rs
    BY <1>5
  <2>2. BooksWhere(r) = "posted" /\ BooksHolder(r) = s
    BY <1>1, <1>t, <2>1 DEF View
  <2>3. ~Overallocated(r)' /\ coll'[r].provider # "absent"
    <3>1. /\ \A t \in Subjects \ {s} : alloc[r][t] \notin Active
          /\ coll[r].provider # "absent"
      BY <1>1, <1>t, <2>1 DEF Consistent, Active
    <3>2. \A q \in Receipts, t \in Subjects :
            alloc'[q][t] = IF q \in rs /\ t = s
                           THEN (IF reversal'[q] # "none" THEN "reversed" ELSE "released")
                           ELSE alloc[q][t]
      BY <1>t, CancelsRows
    <3>3. \A q \in Receipts : coll'[q].provider = IF q \in rs /\ reversal'[q] # "none" THEN "reversed"
                                                 ELSE coll[q].provider
      BY <1>t, CancelsRows
    <3>4. \A t \in Subjects : alloc'[r][t] \notin Active
      BY <2>1, <3>1, <3>2 DEF Active
    <3>5. coll'[r].provider # "absent"
      BY <2>1, <3>1, <3>3
    <3> QED BY <3>4, <3>5 DEF Overallocated, Active
  <2>4. BooksWhere(r)' \in {"free", "gone"} /\ BooksHolder(r)' = None
    <3>1. coll'[r].provider \in {"received", "reversed"}
      BY <2>3, KeptTypes
    <3> QED BY <1>t, <2>3, <3>1 DEF View
  <2>5. \A q \in Receipts \ {r} : BooksWhere(q)' = BooksWhere(q) /\ BooksHolder(q)' = BooksHolder(q)
    BY <1>1, <1>3, <2>1
  <2> QED BY <1>2, <2>2, <2>4, <2>5, LeavesAs
<1> QED BY <1>4, <1>5

LEMMA BooksStepRefines ==
  BooksInv /\ BooksInv' /\ [Next]_vars => [Books!BooksNext]_(Books!bvars)
<1> SUFFICES ASSUME BooksInv, BooksInv', [Next]_vars PROVE [Books!BooksNext]_(Books!bvars)
  OBVIOUS
<1>1. Kept /\ BooksMove
  BY BooksView, ViewNext, StepsBooks DEF Kept
<1>2. ASSUME NEW r \in Receipts, NEW s \in Subjects, SetsAside(r, s) \/ Posts(r, s) \/ Releases(r, s)
      PROVE  [Books!BooksNext]_(Books!bvars)
  BY <1>1, <1>2, SetsAsideRefines, PostsRefines, ReleasesRefines
<1> QED BY <1>1, <1>2, DriftRefines, TurnsRefines, GoneRefines, CancelsRefines DEF BooksMove

LEMMA BooksInitRefines == Init => Books!BooksInit
<1> SUFFICES ASSUME Init PROVE Books!BooksInit
  OBVIOUS
<1>1. \A r \in Receipts : BooksWhere(r) = "unseen" /\ BooksHolder(r) = None
  BY DEF Init, BooksWhere, BooksHolder
<1>2. \A s \in Subjects : BooksState(s) = "open"
  BY DEF Init, BooksState
<1> QED BY <1>1, <1>2 DEF Books!BooksInit

\* Whatever function runs, the money of a receipt is outside the books, set aside
\* for one subject, posted to one subject, or gone for good, and a subject is
\* settled once: the settlement implements PaymentBooks.
THEOREM BooksKept == Spec => KeepsTheBooks
<1>1. BooksInv /\ BooksInv' /\ [Next]_vars => [Books!BooksNext]_(Books!bvars)
  BY BooksStepRefines
<1> QED BY <1>1, BooksInitRefines, BooksInvariant, PTL DEF Spec, KeepsTheBooks, Books!BooksSpec
=============================================================================
