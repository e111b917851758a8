--------------------------- MODULE MCReceiptStore ---------------------------
(***************************************************************************)
(* A small instance of ReceiptStore for TLC.                               *)
(***************************************************************************)
EXTENDS ReceiptStore
=============================================================================
