---------------------------- MODULE MCLiveInstall ----------------------------
(***************************************************************************)
(* Evidence documents for model checking LiveInstall: a good document and  *)
(* one document per thing that can be wrong with it, for each epoch.       *)
(***************************************************************************)
EXTENDS LiveInstall

CONSTANTS m1, m2

MCOneManifest  == {m1}
MCTwoManifests == {m1, m2}

Good(e, change) ==
  [epoch |-> e, change |-> change, network |-> TRUE, xray |-> TRUE, runtime |-> m1,
   component |-> "ready", completed |-> change = "reboot", dns |-> TRUE, client |-> TRUE]

(* A first document, what it may lack, every state change that a local     *)
(* campaign can answer it with, and a second epoch for the native write.   *)
MCEvidenceLocal ==
  LET first == Good(0, "none") IN
  {first, [first EXCEPT !.network = FALSE], [first EXCEPT !.component = "ready+reboot"],
   [first EXCEPT !.component = "absent", !.dns = FALSE, !.client = FALSE],
   [Good(1, "reboot") EXCEPT !.component = "ready+reboot"], Good(2, "native")}
    \cup {Good(1, c) : c \in {"component", "native", "reboot", "opt", "contradictory"}}

(* Two native epochs, so that a campaign can answer a write with a new     *)
(* epoch before the epochs are used up.                                    *)
MCEvidenceDelivery ==
  {Good(0, "none"), Good(1, "native"), Good(2, "native")}

(* A snapshot is kept from the moment it was taken.                        *)
MCNoSnapshots   == {{}}
MCSnapshotChain == {{}, {"pre"}, {"pre", "post"}, {"pre", "post", "saved"}}
=============================================================================
