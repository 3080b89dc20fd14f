----------------------- MODULE MCNotificationOutbox -----------------------
(***************************************************************************)
(* Small instances of NotificationOutbox.                                   *)
(***************************************************************************)
EXTENDS NotificationOutbox

CONSTANTS m1, m2, w1, w2
=============================================================================
