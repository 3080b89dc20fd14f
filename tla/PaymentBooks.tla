---------------------------- MODULE PaymentBooks ----------------------------
(***************************************************************************)
(* What payment collections promise to the books, whatever intents,         *)
(* attempts, reviews and provider events do.  The money of a receipt is     *)
(* outside the books, set aside for one subject, posted to one subject, or  *)
(* gone for good once the provider has taken it back.  A subject, that is   *)
(* an order or a customer receipt, is settled once, and by the money of one *)
(* receipt if by a receipt at all.                                          *)
(***************************************************************************)
CONSTANTS Receipts, Subjects, None

VARIABLES
  where,     \* receipt -> "unseen", "free", "set_aside", "posted" or "gone"
  holder,    \* receipt -> the subject its money is set aside for or posted to
  state      \* subject -> "open", "settled" or "closed"

bvars == <<where, holder, state>>

BooksInit ==
  /\ where = [r \in Receipts |-> "unseen"]
  /\ holder = [r \in Receipts |-> None]
  /\ state = [s \in Subjects |-> "open"]

Move(r, w, s) ==
  /\ where' = [where EXCEPT ![r] = w]
  /\ holder' = [holder EXCEPT ![r] = s]

Becomes(s, status) == state' = [state EXCEPT ![s] = status]

Arrive(r) == where[r] = "unseen" /\ Move(r, "free", None) /\ UNCHANGED state

\* Arriving money may be set aside or posted in the same transaction.
SetAside(r, s) ==
  where[r] \in {"unseen", "free"} /\ Move(r, "set_aside", s) /\ UNCHANGED state

Post(r, s) ==
  /\ \/ where[r] \in {"unseen", "free"}
     \/ where[r] = "set_aside" /\ holder[r] = s
  /\ state[s] = "open" /\ Becomes(s, "settled")
  /\ Move(r, "posted", s)

\* A reservation is rejected or a posting reversed: the money is free again, or
\* gone if the provider has it.  The subject may end with it.
Leave(r, w) ==
  /\ where[r] \in {"set_aside", "posted"} /\ w \in {"free", "gone"}
  /\ Move(r, w, None)
  /\ UNCHANGED state \/ Becomes(holder[r], "closed")

TakeBack(r) ==
  where[r] \notin {"unseen", "posted"} /\ Move(r, "gone", None) /\ UNCHANGED state

\* The subject is settled by other means, or voided.
SettleElsewhere(s) == state[s] = "open" /\ Becomes(s, "settled") /\ UNCHANGED <<where, holder>>

Close(s) ==
  /\ \A r \in Receipts : ~(where[r] = "posted" /\ holder[r] = s)
  /\ Becomes(s, "closed")
  /\ UNCHANGED <<where, holder>>

BooksNext ==
  \/ \E r \in Receipts : \/ Arrive(r) \/ TakeBack(r)
                         \/ \E w \in {"free", "gone"} : Leave(r, w)
                         \/ \E s \in Subjects : SetAside(r, s) \/ Post(r, s)
  \/ \E s \in Subjects : SettleElsewhere(s) \/ Close(s)

BooksSpec == BooksInit /\ [][BooksNext]_bvars
=============================================================================
