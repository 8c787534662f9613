--------------------------- MODULE MCTokenLedger ---------------------------
(* TokenLedger on a small instance; the values are in MCTokenLedger.cfg.    *)
EXTENDS TokenLedger
=============================================================================
