--------------------------- MODULE MCStoreSchema ---------------------------
(***************************************************************************)
(* A small instance of StoreSchema: three processes open one file.         *)
(***************************************************************************)
EXTENDS StoreSchema, TLC

CONSTANTS p1, p2, p3

ProcessSet == {p1, p2, p3}
============================================================================
