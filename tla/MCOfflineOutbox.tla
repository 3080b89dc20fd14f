-------------------------- MODULE MCOfflineOutbox --------------------------
(***************************************************************************)
(* Small instances of OfflineOutbox.                                        *)
(***************************************************************************)
EXTENDS OfflineOutbox

CONSTANTS a1, a2, t1, t2
=============================================================================
