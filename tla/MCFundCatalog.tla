--------------------------- MODULE MCFundCatalog ---------------------------
(* FundCatalog on small instances. *)
EXTENDS FundCatalog

CONSTANTS w1, w2
MCWorkers == {w1, w2}
OneFund   == {1}
TwoFunds  == {1, 2}
=============================================================================
