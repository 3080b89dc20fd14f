------------------------- MODULE MCMpesaProcessing -------------------------
(***************************************************************************)
(* Small instances of MpesaProcessing.                                      *)
(***************************************************************************)
EXTENDS MpesaProcessing

CONSTANTS k1, k2, w1, w2

\* The second worker takes events only, beside the first one, before any fault or status query.
OverlapOnce ==
  worker[w2] # Resting =>
    /\ current <= 1 /\ faults = 0 /\ queryLease = {}
    /\ worker[w2].at \in {"events", "settle", "unclear", "finish", "retry"}

\* An event grows old after a fault during the first prompt only.
AgedFaultEarly == faults = 0 \/ current <= 1 \/ eventOld = {}
=============================================================================
