----------------------------- MODULE MCXrayInit -----------------------------
(***************************************************************************)
(* Sizes for model checking XrayInit.                                      *)
(***************************************************************************)
EXTENDS XrayInit, TLC

CONSTANTS c1, c2, p1, p2

MCCaller == {c1, c2}
MCPid    == {p1, p2}
MCSame   == Permutations(MCCaller) \cup Permutations(MCPid)
=============================================================================
