------------------------- MODULE MCFundPriceSync -------------------------
(* Two overlapping syncs of one fund over a few days. *)
EXTENDS FundPriceSync

CONSTANTS w1, w2

MCWorkers == {w1, w2}
OneWorker == {w1}

\* No explicit window, as the cron job and the batch CLIs call it.
ScheduledWindows == {[from |-> NoDate, to |-> NoDate]}

\* The windows an operator may pass with --from and --to.
OperatorWindows == [from : {NoDate, 0, 2}, to : {NoDate}]
=============================================================================
