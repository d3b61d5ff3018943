----------------------------- MODULE MCReceipt -----------------------------
(* Receipt for TLC: model values for keys and raw values.                  *)
EXTENDS Receipt
=============================================================================
