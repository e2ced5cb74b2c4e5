--------------------------- MODULE InstallReceipt ---------------------------
(***************************************************************************)
(* The live-install receipt: the record that scripts/                      *)
(* routerkit_live_install.py keeps on disk between two runs, and the pure  *)
(* functions that change it.  Stages are numbered in STAGE_ORDER, so that  *)
(* "earlier stage" is "smaller number".                                    *)
(*                                                                         *)
(* Abstracted: the identity part of the intent (contract, transport,       *)
(* device, slot, artifact) is fixed for the life of a receipt and is the   *)
(* CONSTANTS of LiveInstall; a fingerprint is the thing it is taken of.    *)
(***************************************************************************)
EXTENDS Integers, FiniteSets

CONSTANTS
  Manifest,     \* endpoint manifests a setup may generate
  NoManifest,   \* no manifest file, or no fingerprint locked yet
  Evidence,     \* the evidence documents an operator may hand in
  NoEvidence,   \* discovery not accepted yet, or --evidence-file not given
  NoPacket      \* no external transaction packet

-----------------------------------------------------------------------------
(* Stages *)

network_preflight               == 1
usb_ext4_entware_readiness      == 2
pinned_xray_bootstrap           == 3
protected_profile_source        == 4
generate                        == 5
strict_plan                     == 6
backup                          == 7
install                         == 8
healthcheck                     == 9
autostart                       == 10
native_proxy_component          == 11
controlled_reboot               == 12
post_reboot_proof               == 13
native_proxy_policy_transaction == 14
protected_dns_gate              == 15
selected_client_acceptance      == 16
final_result                    == 17

Stage == 1..17
INSTALLATION_STAGES == 1..10

NoEpoch == -1
Epoch   == Nat \cup {NoEpoch}

Status      == {"PENDING", "PASS", "FAIL", "SKIPPED"}
Disposition == {"PENDING", "EXECUTED", "ADOPTED", "EXTERNAL_EXECUTED"}

-----------------------------------------------------------------------------
(* Evidence documents, reduced to what the orchestrator's branches read:   *)
(*  network    every network and storage check passed                      *)
(*  xray       the xray and loopback_listeners checks passed               *)
(*  runtime    the manifest for which the runtime section is sufficient    *)
(*             (NoManifest when some runtime fact is missing)              *)
(*  component  the native Proxy component: absent, present without its     *)
(*             check, present and checked without or with a reboot due     *)
(*  completed  the reboot section says a reboot was completed              *)
(*  dns        what dns_gate decides of the dns section                    *)
(*  client     what client_acceptance_gate decides of the client section   *)

StateChange ==
  {"none", "component", "reboot", "native", "opt", "routerkit-xray", "contradictory"}

EvidenceDocument ==
  [epoch : Nat, change : StateChange, network : BOOLEAN, xray : BOOLEAN,
   runtime : Manifest \cup {NoManifest},
   component : {"absent", "unproven", "ready", "ready+reboot"},
   completed : BOOLEAN, dns : BOOLEAN, client : BOOLEAN]

ASSUME EvidenceAssumption ==
  /\ Evidence \subseteq EvidenceDocument
  /\ NoEvidence \notin Evidence
  /\ NoManifest \notin Manifest

-----------------------------------------------------------------------------
(* The receipt *)

Packet == [manifest : Manifest, write_required : BOOLEAN]

(* write_required, save_required and dns_refresh_required are always given *)
(* the same value by the stage that sets them, so one field stands for     *)
(* the three.                                                              *)
NativeTransaction ==
  [status : {"PENDING", "PLANNED", "RUNNING_VERIFIED", "PASS"},
   packet : Packet \cup {NoPacket}, write_required : BOOLEAN, pre_epoch : Epoch]

FinalArea ==
  {"installation", "xray", "autostart", "native_routing", "dns", "client_domain_https"}

Receipt ==
  [stages : [Stage -> [status : Status, epoch : Epoch]],
   state_epoch : Nat,
   discovery : Evidence \cup {NoEvidence},
   runtime_disposition : Disposition,
   runtime_evidence : BOOLEAN,
   endpoint_manifest : Manifest \cup {NoManifest},
   reboot_required : {"unknown", "yes", "no"},
   completed_reboot_epoch : Epoch,
   native_transaction : NativeTransaction,
   dns_gate_status : {"PENDING", "PASS"},
   final_verification : SUBSET FinalArea,
   reboot_authorized : BOOLEAN]

Pending == [status |-> "PENDING", epoch |-> NoEpoch]

EmptyNativeTransaction ==
  [status |-> "PENDING", packet |-> NoPacket, write_required |-> FALSE, pre_epoch |-> NoEpoch]

InitialReceipt(authorize) ==
  [stages |-> [s \in Stage |-> Pending],
   state_epoch |-> 0,
   discovery |-> NoEvidence,
   runtime_disposition |-> "PENDING",
   runtime_evidence |-> FALSE,
   endpoint_manifest |-> NoManifest,
   reboot_required |-> "unknown",
   completed_reboot_epoch |-> NoEpoch,
   native_transaction |-> EmptyNativeTransaction,
   dns_gate_status |-> "PENDING",
   final_verification |-> {},
   reboot_authorized |-> authorize]

StageDone(r, s) == r.stages[s].status \in {"PASS", "SKIPPED"}

AllDone(r, S) == \A s \in S : StageDone(r, s)

MarkStages(r, S, status) ==
  [r EXCEPT !.stages =
     [s \in Stage |-> IF s \in S THEN [status |-> status, epoch |-> r.state_epoch]
                                 ELSE r.stages[s]]]

(* What _sync_final_verification writes and validate_receipt expects.      *)
DerivedFinal(r) ==
  {a \in FinalArea :
     \/ a = "installation"        /\ AllDone(r, INSTALLATION_STAGES)
     \/ a = "xray"                /\ StageDone(r, healthcheck)
     \/ a = "autostart"           /\ StageDone(r, autostart)
     \/ a = "native_routing"      /\ StageDone(r, native_proxy_policy_transaction)
     \/ a = "dns"                 /\ StageDone(r, protected_dns_gate)
     \/ a = "client_domain_https" /\ StageDone(r, selected_client_acceptance)}

Verified(r, areas) == [r EXCEPT !.final_verification = @ \cup areas]

(* Mutant: the stage the reset starts from keeps its result.               *)
ResetAfter(r, first) ==
  LET cut == [r EXCEPT
        !.stages = [s \in Stage |-> IF s > first THEN Pending ELSE r.stages[s]],
        !.runtime_disposition = IF first <= autostart THEN "PENDING" ELSE @]
  IN  [cut EXCEPT !.final_verification = DerivedFinal(cut)]

(* _reset_from_stage: every stage from first on is pending again, and the  *)
(* facts those stages had recorded are forgotten with them.                *)
ResetFrom(r, first) ==
  LET cut == [r EXCEPT
        !.stages = [s \in Stage |-> IF s >= first THEN Pending ELSE r.stages[s]],
        !.endpoint_manifest   = IF first <= generate THEN NoManifest ELSE @,
        !.runtime_disposition = IF first <= autostart THEN "PENDING" ELSE @,
        !.runtime_evidence    = IF first <= autostart THEN FALSE ELSE @,
        !.reboot_required     = IF first <= native_proxy_component THEN "unknown" ELSE @,
        !.completed_reboot_epoch = IF first <= controlled_reboot THEN NoEpoch ELSE @,
        !.native_transaction  = IF first <= native_proxy_policy_transaction
                                THEN EmptyNativeTransaction ELSE @,
        !.dns_gate_status     = IF first <= protected_dns_gate THEN "PENDING" ELSE @]
  IN  [cut EXCEPT !.final_verification = DerivedFinal(cut)]

-----------------------------------------------------------------------------
(* Accepting discovery evidence *)

Known(r, ev) == r.discovery # NoEvidence /\ r.discovery.epoch = ev.epoch

(* Mutant: evidence is good for one use only.                              *)
AcceptableOnce(r, ev) ==
  /\ ~Known(r, ev)
  /\ \/ ev.epoch = r.state_epoch     /\ ev.change = "none"
     \/ ev.epoch = r.state_epoch + 1 /\ ev.change # "none"

Acceptable(r, ev) ==
  IF Known(r, ev)
  THEN r.discovery = ev
  ELSE \/ ev.epoch = r.state_epoch     /\ ev.change = "none"
       \/ ev.epoch = r.state_epoch + 1 /\ ev.change # "none"

(* The "native" evidence a mutating native transaction asked for itself.   *)
ExpectedRefresh(r, ev) ==
  /\ r.native_transaction.status = "PASS"
  /\ r.native_transaction.write_required
  /\ r.native_transaction.pre_epoch # NoEpoch
  /\ ev.epoch = r.native_transaction.pre_epoch + 1

(* The receipt r, already moved to the epoch of ev, with the stages that   *)
(* the reported state change invalidates opened again.                     *)
Reopen(r, ev) ==
  CASE ev.change = "component" /\ StageDone(r, native_proxy_component) ->
         ResetFrom(r, native_proxy_component)
    [] ev.change = "reboot" /\ StageDone(r, controlled_reboot) ->
         [ResetFrom(r, controlled_reboot) EXCEPT !.reboot_required = "yes"]
    [] ev.change = "opt" -> ResetFrom(r, usb_ext4_entware_readiness)
    [] ev.change = "routerkit-xray" -> ResetFrom(r, pinned_xray_bootstrap)
    [] ev.change = "contradictory" -> ResetFrom(r, network_preflight)
    [] /\ ev.change = "native"
       /\ ~ExpectedRefresh(r, ev)
       /\ StageDone(r, native_proxy_policy_transaction) ->
         ResetFrom(r, native_proxy_policy_transaction)
    [] OTHER -> r

(* Mutants: the epoch does not move; the accepted document is not kept.    *)
AcceptedInPlace(r, ev) ==
  IF Known(r, ev) THEN r ELSE [Reopen(r, ev) EXCEPT !.discovery = ev]

AcceptedUnrecorded(r, ev) ==
  IF Known(r, ev) \/ ev.epoch = r.state_epoch THEN r
  ELSE Reopen([r EXCEPT !.state_epoch = ev.epoch], ev)

Accepted(r, ev) ==
  IF Known(r, ev) THEN r
  ELSE IF ev.epoch = r.state_epoch THEN [r EXCEPT !.discovery = ev]
  ELSE [Reopen([r EXCEPT !.state_epoch = ev.epoch], ev) EXCEPT !.discovery = ev]

-----------------------------------------------------------------------------
(* validate_receipt: the consistency write_receipt demands of what it is   *)
(* given and load_receipt of what it reads.                                *)

(* Mutant: gaps in the stage order are accepted.                           *)
AnyOrder(r) == \A s \in Stage : r.stages[s].status \in Status

InOrder(r) == \A s \in Stage, t \in Stage : s < t /\ StageDone(r, t) => StageDone(r, s)

AdoptedStatus(s) ==
  IF s \in {pinned_xray_bootstrap, protected_profile_source, generate, strict_plan,
            backup, install}
  THEN "SKIPPED" ELSE "PASS"

DispositionValid(r, runtimeMode, adopt) ==
  LET d == r.runtime_disposition
      external == runtimeMode = "external-evidence" /\ r.runtime_evidence
  IN
  /\ d = "PENDING" => ~AllDone(r, INSTALLATION_STAGES)
  /\ d = "EXECUTED" => runtimeMode = "local-router" /\ ~r.runtime_evidence
  /\ d = "ADOPTED" => /\ external /\ adopt
                      /\ \A s \in INSTALLATION_STAGES : r.stages[s].status = AdoptedStatus(s)
  /\ d = "EXTERNAL_EXECUTED" => external /\ ~adopt
  /\ d \in {"EXECUTED", "EXTERNAL_EXECUTED"} =>
       \A s \in INSTALLATION_STAGES : r.stages[s].status = "PASS"

Valid(r, runtimeMode, adopt) ==
  /\ InOrder(r)
  /\ StageDone(r, strict_plan) => r.endpoint_manifest # NoManifest
  /\ DispositionValid(r, runtimeMode, adopt)
  /\ r.stages[native_proxy_component].status = "PASS" => r.reboot_required # "unknown"
  /\ r.stages[controlled_reboot].status = "SKIPPED" =>
       r.stages[post_reboot_proof].status \in {"PENDING", "SKIPPED"}
  /\ r.stages[controlled_reboot].status = "PASS" => r.completed_reboot_epoch # NoEpoch
  /\ r.stages[native_proxy_policy_transaction].status = "PASS"
       <=> r.native_transaction.status = "PASS"
  /\ r.stages[protected_dns_gate].status = "PASS" <=> r.dns_gate_status = "PASS"
  /\ r.final_verification = DerivedFinal(r)
  /\ r.stages[final_result].status = "PASS" => r.final_verification = FinalArea
=============================================================================
