----------------------------- MODULE MCAutostart -----------------------------
(* Every combination of the two init scripts, of a receipt and of an Xray  *)
(* that runs in order, runs for S24xray, or does not run.                  *)
EXTENDS Autostart

First(by, up) == [epoch |-> 1, by |-> by, listens |-> up]

MCInitial ==
  [s23 : Switch, s24 : Switch, receipt : {"file", "odd"},
   xray : {NoXray, First("S23", TRUE), First("S24", FALSE)}, fit : BOOLEAN]
=============================================================================
