--------------------------- MODULE MCBootstrapApply ---------------------------
(* Two releases, of which one prints upstream's banner, and an older       *)
(* executable that no longer runs: no Xray, that one, or a release without *)
(* a receipt may be there to begin with.                                   *)
EXTENDS BootstrapApply

CONSTANTS r1, r2, old

MCBinary == {r1, r2, old}
MCRelease == {r1, r2}
MCBare == {r2}
MCInitial ==
  [target : {Absent, old, r1}, packages : {{}, Package}, release : {r1, r2}]
=============================================================================
