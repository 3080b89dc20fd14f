------------------------------ MODULE SaleFate ------------------------------
(***************************************************************************)
(* What the offline outbox promises for every client reference: a sale that *)
(* the device has taken over is held until the server posts it, keeps it    *)
(* for review, or the cashier drops it, and these ends are final.           *)
(***************************************************************************)
CONSTANT Ref

VARIABLE fate

Fate == {"new", "held", "posted", "inReview", "refused", "dropped"}

Leads == {<<"new", "held">>, <<"new", "posted">>,
          <<"held", "posted">>, <<"held", "inReview">>, <<"held", "dropped">>,
          <<"inReview", "posted">>, <<"inReview", "refused">>}

FateInit == fate = [r \in Ref |-> "new"]

Move(r) == \E f \in Fate : <<fate[r], f>> \in Leads /\ fate' = [fate EXCEPT ![r] = f]

FateNext == \E r \in Ref : Move(r)

fvars == <<fate>>

FateSpec == FateInit /\ [][FateNext]_fvars
=============================================================================
