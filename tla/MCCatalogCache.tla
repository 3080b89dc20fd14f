-------------------------- MODULE MCCatalogCache ---------------------------
(***************************************************************************)
(* Small instances of CatalogCache: two rows that are each created before   *)
(* the browser is looked at, so that the log starts with two changes.       *)
(***************************************************************************)
EXTENDS CatalogCache

CONSTANTS e1, e2, t1, t2

TwoRows == <<e1, e2>>
=============================================================================
