-------------------------------- MODULE MCSetup --------------------------------
(* Setup from a source and by reuse, with and without its transactions; a  *)
(* plan only; and install with a stage skipped.                            *)
EXTENDS Setup

Setting(mode, apply, transactions) ==
  [install |-> FALSE, mode |-> mode, apply |-> apply, bootstrap |-> transactions,
   autostart |-> transactions, skip |-> {}]

MCOptions ==
  {Setting("source", TRUE, TRUE), Setting("reuse", TRUE, FALSE), Setting("wizard", FALSE, FALSE),
   [Setting("source", TRUE, FALSE) EXCEPT !.install = TRUE, !.autostart = TRUE, !.skip = {"backup"}]}
=============================================================================
