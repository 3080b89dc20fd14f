--------------------------- MODULE OfflineOutbox ---------------------------
(***************************************************************************)
(* Selling while the connection comes and goes: the sell screen and its     *)
(* cart (apps/web/src/app/pos/sell/sell.component.ts, cart.service.ts), the *)
(* outbox and its replay (pos/offline/sync.service.ts), and the functions   *)
(* of migration 0114 that receive a replayed sale, with the period lock and  *)
(* the retirement of devices they depend on.                                *)
(*                                                                          *)
(* A client reference stands for one payload of one cart; the server never  *)
(* sees it with another payload.  All references come from one device.      *)
(* Left out: M-PESA and credit sales (which are never queued), sales that   *)
(* wait for an approval, the proforma a cart was loaded from, and the       *)
(* conditions of a period close that no offline sale touches.  The till     *)
(* opens and closes at any time, so it is a choice wherever it is read; so  *)
(* is a refusal that depends on stock, prices or a void.                    *)
(***************************************************************************)
EXTENDS Naturals, FiniteSets, Sequences, SequencesExt

CONSTANTS
  Ref,        \* client references
  Tab,        \* tabs of the browser; they share IndexedDB
  SellTab,    \* the tab that shows the sell screen
  None,
  MaxDay,     \* bound on business days
  MaxReloads  \* bound on reloads

ASSUME OutboxAssumption ==
  /\ SellTab \in Tab
  /\ IsFiniteSet(Ref) /\ None \notin Ref
  /\ MaxDay \in Nat \ {0} /\ MaxReloads \in Nat

VARIABLES
  books,     \* the business days on which a reference was posted
  review,    \* late_sale_reviews.status
  pending,   \* pos_devices.pending_count
  retired,   \* pos_devices.retired_at is set
  today,
  lock,      \* period_locks.lock_end_date
  online,
  reloads,
  outbox,    \* the outbox store of IndexedDB
  arrived,   \* queued_at: the place of a reference in the order of queueing, 0 before
  day,       \* occurred_at of a queued sale
  saved,     \* the cart store holds a cart
  list,      \* the entries that are left of a sync pass
  step,      \* where the pass stands
  reply,     \* the answer it has got
  cart,      \* the sell screen has a cart
  attempt,   \* saleAttempt.clientRef
  at,        \* where completeSale stands
  used,      \* references given to a cart
  dropped    \* references the cashier discarded

server == <<books, review, pending, retired, today, lock>>
device == <<online, reloads>>
disk   == <<outbox, arrived, day, saved>>
pass   == <<list, step, reply>>
screen == <<cart, attempt, at, used>>
vars   == <<server, device, disk, pass, screen, dropped>>

Day == 1..MaxDay
Reply == {"none", "ok", "refused"}

TypeOK ==
  /\ books \in [Ref -> Seq(Day)]
  /\ review \in [Ref -> {"none", "pending", "approved", "rejected"}]
  /\ pending \in Nat /\ retired \in BOOLEAN
  /\ today \in Day /\ lock \in 0..MaxDay
  /\ online \in BOOLEAN /\ reloads \in 0..MaxReloads
  /\ outbox \in [Ref -> {"absent", "queued", "failed"}]
  /\ arrived \in [Ref -> Nat] /\ day \in [Ref -> 0..MaxDay]
  /\ saved \in BOOLEAN
  /\ list \in [Tab -> SUBSET Ref]
  /\ step \in [Tab -> {"idle", "sending", "answered", "counting"}]
  /\ reply \in [Tab -> Reply]
  /\ cart \in BOOLEAN /\ attempt \in Ref \union {None}
  /\ at \in {"idle", "posting", "posted", "refused", "queueing", "clearing"}
  /\ used \in SUBSET Ref
  /\ dropped \in SUBSET Ref

Init ==
  /\ books = [r \in Ref |-> <<>>]
  /\ review = [r \in Ref |-> "none"]
  /\ pending = 0 /\ retired = FALSE /\ today = 1 /\ lock = 0
  /\ online = TRUE /\ reloads = 0
  /\ outbox = [r \in Ref |-> "absent"] /\ arrived = [r \in Ref |-> 0]
  /\ day = [r \in Ref |-> 0] /\ saved = FALSE
  /\ list = [t \in Tab |-> {}]
  /\ step = [t \in Tab |-> "idle"]
  /\ reply = [t \in Tab |-> "none"]
  /\ cart = FALSE /\ attempt = None /\ at = "idle"
  /\ used = {}
  /\ dropped = {}

(***************************************************************************)
(* The company: days, the close of a period, and devices.                   *)
(***************************************************************************)
NextDay ==
  /\ today < MaxDay
  /\ today' = today + 1
  /\ UNCHANGED <<books, review, pending, retired, lock,
                 device, disk, pass, screen, dropped>>

\* close_accounting_period, with the blockers that concern offline sales
ClosePeriod(d) ==
  /\ d \in (lock + 1)..today
  /\ retired \/ pending = 0
  /\ \A r \in Ref : review[r] # "pending"
  /\ lock' = d
  /\ UNCHANGED <<books, review, pending, retired, today,
                 device, disk, pass, screen, dropped>>

RetireDevice ==
  /\ ~retired
  /\ retired' = TRUE /\ pending' = 0
  /\ UNCHANGED <<books, review, today, lock,
                 device, disk, pass, screen, dropped>>

(***************************************************************************)
(* Posting.                                                                 *)
(***************************************************************************)
\* fault: a reference that was posted before is posted again
MayPostAgain(r, d) == d > lock
\* post_sale and complete_order_core post a new sale, if the till is open; the
\* trigger on journal entries refuses the days of a closed period.
MayPost(r, d) == books[r] = <<>> /\ d > lock

Post(r, d) == books' = [books EXCEPT ![r] = Append(@, d)]

\* post_offline_sale_at_location asks for a review before anything else
Late(r) == day[r] <= lock

\* The order is completed, if it was not voided: posting it again changes nothing.
Completed(r) == books[r] # <<>>

\* fault: the sale that is being posted is not counted
HeartbeatOfOthers(n) == n - 1
\* The pending count the server notes before it posts one of n sales.
Heartbeat(n) == IF n > 1 THEN n ELSE 1

\* The answer to one replayed sale when n sales of the pass are not yet posted.
PostOffline(r, n, answer) ==
  \/ /\ answer = "ok" /\ ~retired /\ Late(r)
     /\ review' = [review EXCEPT ![r] = IF @ = "none" THEN "pending" ELSE @]
     /\ pending' = Heartbeat(n)
     /\ UNCHANGED books
  \/ /\ answer = "ok" /\ ~retired /\ ~Late(r) /\ Completed(r)
     /\ pending' = Heartbeat(n)
     /\ UNCHANGED <<books, review>>
  \/ /\ answer = "ok" /\ ~retired /\ ~Late(r) /\ MayPost(r, day[r])
     /\ Post(r, day[r])
     /\ pending' = Heartbeat(n) - 1
     /\ UNCHANGED review
  \/ /\ answer = "refused"
     /\ retired \/ ~Late(r)
     /\ UNCHANGED <<books, review, pending>>

\* fault: an approved late sale is posted on the day it was made
ApproveOnSaleDay(r) ==
  /\ review[r] = "pending" /\ books[r] = <<>>
  /\ Post(r, day[r])
  /\ review' = [review EXCEPT ![r] = "approved"]
  /\ UNCHANGED <<pending, retired, today, lock,
                 device, disk, pass, screen, dropped>>

\* review_late_sale: an approved sale is posted today.
ApproveLate(r) ==
  /\ review[r] = "pending" /\ MayPost(r, today)
  /\ Post(r, today)
  /\ review' = [review EXCEPT ![r] = "approved"]
  /\ UNCHANGED <<pending, retired, today, lock,
                 device, disk, pass, screen, dropped>>

RejectLate(r) ==
  /\ review[r] = "pending"
  /\ review' = [review EXCEPT ![r] = "rejected"]
  /\ UNCHANGED <<books, pending, retired, today, lock,
                 device, disk, pass, screen, dropped>>

(***************************************************************************)
(* The sell screen.                                                         *)
(***************************************************************************)
GoOffline ==
  /\ online
  /\ online' = FALSE
  /\ UNCHANGED <<server, reloads, disk, pass, screen, dropped>>

GoOnline ==
  /\ ~online
  /\ online' = TRUE
  /\ UNCHANGED <<server, reloads, disk, pass, screen, dropped>>

\* A cart is filled; every change of it is saved.
FillCart ==
  /\ ~cart /\ at = "idle" /\ used # Ref
  /\ cart' = TRUE /\ saved' = TRUE
  /\ UNCHANGED <<server, device, outbox, arrived, day, pass, attempt, at, used, dropped>>

\* A random reference; which of the unused ones makes no difference.
Fresh == CHOOSE r \in Ref : r \notin used

\* completeSale: one reference for all attempts of an unchanged cart
Complete ==
  /\ cart /\ at = "idle" /\ (attempt # None \/ used # Ref)
  /\ attempt' = IF attempt # None THEN attempt ELSE Fresh
  /\ used' = used \union {attempt'}
  /\ at' = IF online THEN "posting" ELSE "queueing"
  /\ UNCHANGED <<server, device, disk, pass, cart, dropped>>

\* The fingerprint changes, and with it the reference of the next attempt.
EditCart ==
  /\ cart /\ at = "idle" /\ attempt # None
  /\ attempt' = None
  /\ UNCHANGED <<server, device, disk, pass, cart, at, used, dropped>>

\* post_sale_at_location, called by the screen
PostOnline ==
  /\ at = "posting" /\ online
  /\ \/ books[attempt] # <<>> /\ at' = "posted" /\ UNCHANGED books
     \/ MayPost(attempt, today) /\ Post(attempt, today) /\ at' = "posted"
     \/ books[attempt] = <<>> /\ at' = "refused" /\ UNCHANGED books
  /\ UNCHANGED <<review, pending, retired, today, lock,
                 device, disk, pass, cart, attempt, used, dropped>>

\* The connection drops, and the request or its answer is lost: the sale stays in
\* the cart under its reference, or is queued under it.
LosePost ==
  /\ at \in {"posting", "posted", "refused"} /\ ~online
  /\ at' \in {"idle", "queueing"}
  /\ UNCHANGED <<server, device, disk, pass, cart, attempt, used, dropped>>

ShowRefusal ==
  /\ at = "refused"
  /\ at' = "idle"
  /\ UNCHANGED <<server, device, disk, pass, cart, attempt, used, dropped>>

Arrivals == {r \in Ref : arrived[r] > 0}

\* queueSale: the entry is written before the cart is cleared.
Enqueue ==
  /\ at = "queueing"
  /\ outbox' = [outbox EXCEPT ![attempt] = "queued"]
  /\ arrived' = [arrived EXCEPT ![attempt] = Cardinality(Arrivals) + 1]
  /\ day' = [day EXCEPT ![attempt] = today]
  /\ at' = "clearing"
  /\ UNCHANGED <<server, device, saved, pass, cart, attempt, used, dropped>>

ClearCart ==
  /\ at \in {"posted", "clearing"}
  /\ cart' = FALSE /\ saved' = FALSE /\ attempt' = None /\ at' = "idle"
  /\ UNCHANGED <<server, device, outbox, arrived, day, pass, used, dropped>>

(***************************************************************************)
(* Replay.                                                                  *)
(***************************************************************************)
Queued == {r \in Ref : outbox[r] = "queued"}

\* The index by-queued-at: entries are sent first in, first out.
Oldest(S) == {r \in S : \A s \in S : arrived[r] <= arrived[s]}

\* sync(): the pass works on the entries queued when it begins.
StartSync(t) ==
  /\ step[t] = "idle" /\ online
  /\ list' = [list EXCEPT ![t] = Queued]
  /\ step' = [step EXCEPT ![t] = IF Queued = {} THEN "counting" ELSE "sending"]
  /\ UNCHANGED <<server, device, disk, reply, screen, dropped>>

Replay(t) ==
  /\ step[t] = "sending" /\ online
  /\ \E r \in Oldest(list[t]), answer \in {"ok", "refused"} :
       /\ PostOffline(r, Cardinality(list[t]), answer)
       /\ reply' = [reply EXCEPT ![t] = answer]
  /\ step' = [step EXCEPT ![t] = "answered"]
  /\ UNCHANGED <<retired, today, lock, device, disk, list, screen, dropped>>

\* fault: an unanswered entry is removed like an accepted one
StopPassForgetting(t) ==
  /\ step[t] \in {"sending", "answered"} /\ ~online
  /\ \E r \in Oldest(list[t]) : outbox' = [outbox EXCEPT ![r] = "absent"]
  /\ step' = [step EXCEPT ![t] = "counting"]
  /\ list' = [list EXCEPT ![t] = {}]
  /\ reply' = [reply EXCEPT ![t] = "none"]
  /\ UNCHANGED <<server, device, arrived, day, saved, screen, dropped>>

\* The connection drops, and the request or its answer is lost: everything stays
\* queued.
StopPass(t) ==
  /\ step[t] \in {"sending", "answered"} /\ ~online
  /\ step' = [step EXCEPT ![t] = "counting"]
  /\ list' = [list EXCEPT ![t] = {}]
  /\ reply' = [reply EXCEPT ![t] = "none"]
  /\ UNCHANGED <<server, device, disk, screen, dropped>>

\* fault: a refused entry stays queued and ends the pass like a lost answer
SettleEntryQueued(t) ==
  /\ step[t] = "answered"
  /\ \E r \in Oldest(list[t]) :
       /\ outbox' = [outbox EXCEPT ![r] = IF reply[t] = "ok" THEN "absent" ELSE "queued"]
       /\ list' = [list EXCEPT ![t] = @ \ {r}]
       /\ step' = [step EXCEPT ![t] = IF list[t] = {r} THEN "counting" ELSE "sending"]
  /\ reply' = [reply EXCEPT ![t] = "none"]
  /\ UNCHANGED <<server, device, arrived, day, saved, screen, dropped>>

\* An accepted entry is removed; a refused one waits for the cashier.
SettleEntry(t) ==
  /\ step[t] = "answered"
  /\ \E r \in Oldest(list[t]) :
       /\ outbox' = [outbox EXCEPT ![r] = IF reply[t] = "ok" THEN "absent" ELSE "failed"]
       /\ list' = [list EXCEPT ![t] = @ \ {r}]
       /\ step' = [step EXCEPT ![t] = IF list[t] = {r} THEN "counting" ELSE "sending"]
  /\ reply' = [reply EXCEPT ![t] = "none"]
  /\ UNCHANGED <<server, device, arrived, day, saved, screen, dropped>>

\* The pass ends with pos_device_heartbeat, whose failure changes nothing else.
ReportPending(t) ==
  /\ step[t] = "counting"
  /\ pending' = IF online /\ ~retired THEN Cardinality(Queued) ELSE pending
  /\ step' = [step EXCEPT ![t] = "idle"]
  /\ UNCHANGED <<books, review, retired, today, lock,
                 device, disk, list, reply, screen, dropped>>

LoseReport(t) ==
  /\ step[t] = "counting" /\ ~online
  /\ step' = [step EXCEPT ![t] = "idle"]
  /\ UNCHANGED <<server, device, disk, list, reply, screen, dropped>>

Retry(r) ==
  /\ outbox[r] = "failed"
  /\ outbox' = [outbox EXCEPT ![r] = "queued"]
  /\ UNCHANGED <<server, device, arrived, day, saved, pass, screen, dropped>>

Discard(r) ==
  /\ outbox[r] = "failed"
  /\ outbox' = [outbox EXCEPT ![r] = "absent"]
  /\ dropped' = dropped \union {r}
  /\ UNCHANGED <<server, device, arrived, day, saved, pass, screen>>

\* A tab is reloaded or killed: its pass ends, and the sell screen starts again
\* with the cart as it was last saved, under no reference.
Reload(t) ==
  /\ reloads < MaxReloads
  /\ reloads' = reloads + 1
  /\ list' = [list EXCEPT ![t] = {}]
  /\ step' = [step EXCEPT ![t] = "idle"]
  /\ reply' = [reply EXCEPT ![t] = "none"]
  /\ IF t = SellTab
     THEN cart' = saved /\ attempt' = None /\ at' = "idle"
     ELSE UNCHANGED <<cart, attempt, at>>
  /\ UNCHANGED <<server, online, disk, used, dropped>>

-----------------------------------------------------------------------------
Company ==
  \/ NextDay \/ RetireDevice
  \/ \E d \in Day : ClosePeriod(d)
  \/ \E r \in Ref : ApproveLate(r) \/ RejectLate(r)

Selling ==
  \/ FillCart \/ Complete \/ EditCart \/ PostOnline \/ LosePost
  \/ ShowRefusal \/ Enqueue \/ ClearCart

Syncing(t) == StartSync(t) \/ Replay(t) \/ SettleEntry(t) \/ ReportPending(t)

Failing(t) == StopPass(t) \/ LoseReport(t) \/ Reload(t)

Next ==
  \/ Company \/ Selling \/ GoOffline \/ GoOnline
  \/ \E t \in Tab : Syncing(t) \/ Failing(t)
  \/ \E r \in Ref : Retry(r) \/ Discard(r)

Spec == Init /\ [][Next]_vars

\* The timer of every tab starts a pass again, and requests are answered.
FairSpec == Spec /\ \A t \in Tab : WF_vars(Syncing(t))

(***************************************************************************)
(* Properties.                                                              *)
(***************************************************************************)

\* However often a reference is sent, by the screen, by passes of several tabs and
\* by an approved review, it is posted once, and a sale approved late is
\* posted (0114:1116, 0127:990, 0132:83).
BookedOnce ==
  /\ \A r \in Ref : Len(books[r]) <= 1
  /\ \A r \in Ref : review[r] = "approved" => books[r] # <<>>

\* No sale enters the books of a period after its close, although sales arrive
\* days late and reviews are decided later still.
ClosedStaysClosed ==
  [][\A r \in Ref : books'[r] # books[r] => Last(books'[r]) > lock]_vars

\* When the connection is back and stays, a queued sale leaves the queue: it is
\* accepted, or handed back to the cashier with the reason it was refused for.
QueuedIsSettled ==
  (<>[]online) => \A r \in Ref : outbox[r] = "queued" ~> outbox[r] # "queued"

\* Every sale the device has taken over ends in one way, and stays there.
FateOf(r) ==
  CASE books[r] # <<>> -> "posted"
    [] books[r] = <<>> /\ review[r] = "pending" -> "inReview"
    [] books[r] = <<>> /\ review[r] = "rejected" -> "refused"
    [] books[r] = <<>> /\ review[r] = "none" /\ outbox[r] # "absent" -> "held"
    [] books[r] = <<>> /\ review[r] = "none" /\ outbox[r] = "absent" ->
         IF r \in dropped THEN "dropped" ELSE "new"

Fates == INSTANCE SaleFate WITH fate <- [r \in Ref |-> FateOf(r)]
HasOneFate == Fates!FateSpec
=============================================================================
