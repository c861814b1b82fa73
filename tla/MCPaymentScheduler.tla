------------------------- MODULE MCPaymentScheduler -------------------------
(* PaymentScheduler on small sets of subscriptions.                        *)
EXTENDS PaymentScheduler, TLC
=============================================================================
