----------------------------- MODULE LiveInstall -----------------------------
(***************************************************************************)
(* The live-install orchestrator (scripts/routerkit_live_install.py): the  *)
(* "apply" and "resume" commands an operator gives one after the other,    *)
(* each a run that works through the stages from the receipt it finds on   *)
(* disk, calls the owner of a stage, records the result and stops at the   *)
(* first failure or at a handoff to the operator.                          *)
(*                                                                         *)
(* A step ends where the outside world can see it: a write of the receipt, *)
(* an effect of a subprocess, or the end of the run.  Between two steps    *)
(* the process may be killed; what it held in memory is then lost.         *)
(***************************************************************************)
EXTENDS InstallReceipt

CONSTANTS
  RuntimeMode,  \* --runtime-mode: "local-router" or "external-evidence"
  Transport,    \* --transport: "local-ndmc" or "external"
  Adopt,        \* --adopt-existing-runtime, part of the receipt's identity
  NoReceipt,    \* no receipt on disk, or no run in progress
  Supplied,     \* the sets of native snapshots a command line may name
  MaxFaults     \* bound on failures, kills and manifest changes together

ASSUME ModeAssumption ==
  /\ RuntimeMode \in {"local-router", "external-evidence"}
  /\ Transport \in {"local-ndmc", "external"}
  /\ Transport = "local-ndmc" => RuntimeMode = "local-router"
  /\ Adopt \in BOOLEAN
  /\ Adopt => RuntimeMode = "external-evidence"
  /\ Supplied \subseteq SUBSET {"pre", "post", "saved"}
  /\ MaxFaults \in Nat
  /\ NoReceipt \notin Receipt

VARIABLES
  disk,      \* the receipt file
  mem,       \* the receipt the running process holds
  pc,        \* where the run is
  run,       \* the command line of the run
  result,    \* what a subprocess did that the receipt does not record yet
  outcome,   \* how the last run ended
  manifest,  \* the endpoint manifest file
  packet,    \* the external transaction file
  router,    \* native configuration, by the manifest it implements
  ran,       \* history: the state epoch in which an owner last succeeded
  faults     \* how much of MaxFaults is used

vars == <<disk, mem, pc, run, result, outcome, manifest, packet, router, ran,
          faults>>

world == <<manifest, packet, router, ran>>

-----------------------------------------------------------------------------
(* Owners of the local installation stages, in the order they are called   *)

Owner == {"preflight", "bootstrap", "setup", "backup", "install", "healthcheck", "autostart"}

(* Mutant: the result of backup is recorded for install as well.           *)
RecordedTogether == [o \in Owner |->
  CASE o = "preflight"   -> {network_preflight, usb_ext4_entware_readiness}
    [] o = "bootstrap"   -> {pinned_xray_bootstrap}
    [] o = "setup"       -> {protected_profile_source, generate, strict_plan}
    [] o = "backup"      -> {backup, install}
    [] o = "install"     -> {install}
    [] o = "healthcheck" -> {healthcheck}
    [] OTHER             -> {autostart}]

(* The stages whose PASS a successful owner records.                       *)
Recorded == [o \in Owner |->
  CASE o = "preflight"   -> {network_preflight, usb_ext4_entware_readiness}
    [] o = "bootstrap"   -> {pinned_xray_bootstrap}
    [] o = "setup"       -> {protected_profile_source, generate, strict_plan}
    [] o = "backup"      -> {backup}
    [] o = "install"     -> {install}
    [] o = "healthcheck" -> {healthcheck}
    [] OTHER             -> {autostart}]

(* The stage whose completion makes the orchestrator pass an owner by.     *)
Gate(o) == CHOOSE s \in Recorded[o] : \A t \in Recorded[o] : t <= s

After == [o \in Owner |->
  CASE o = "preflight"   -> "bootstrap"
    [] o = "bootstrap"   -> "setup"
    [] o = "setup"       -> "backup"
    [] o = "backup"      -> "install"
    [] o = "install"     -> "healthcheck"
    [] o = "healthcheck" -> "autostart"
    [] OTHER             -> "component"]

Label == Owner \cup {"idle", "runtime", "component", "inspect", "reboot", "native",
                     "dns", "client", "final"}

Handoffs ==
  {"FAILED_PREFLIGHT_STATE_CHANGE_REQUIRED", "NETWORK_PREFLIGHT_EVIDENCE_REQUIRED",
   "NETWORK_OR_STORAGE_READINESS_REQUIRED", "ROUTERKIT_RUNTIME_EXECUTION_REQUIRED",
   "PROXY_COMPONENT_INSPECTION_REQUIRED", "PROXY_COMPONENT_INSTALL_REQUIRED",
   "CONTROLLED_REBOOT_AUTHORIZATION_REQUIRED", "CONTROLLED_REBOOT_REQUIRED",
   "EXTERNAL_NATIVE_PRE_STATE_REQUIRED", "EXTERNAL_NATIVE_TRANSACTION_DELIVERY_REQUIRED",
   "EXTERNAL_NATIVE_NOOP_READBACK_REQUIRED", "EXTERNAL_NATIVE_SAVE_REQUIRED",
   "PROTECTED_DNS_EVIDENCE_REQUIRED", "PROTECTED_DNS_POST_NATIVE_EVIDENCE_REQUIRED",
   "PROTECTED_DNS_DELTA_REQUIRED", "CLIENT_FUNCTIONAL_VERIFICATION_REQUIRED"}

(* "failed": a stage was marked FAIL; "error": the run stopped without     *)
(* writing; "refused": write_receipt would not write; "traceback": an      *)
(* exception nothing catches.                                              *)
Outcome == Handoffs \cup
  {"none", "running", "failed", "error", "refused", "traceback", "killed", "complete"}

Snapshot == {"pre", "post", "saved"}
NoRun    == [mode |-> "none", evidence |-> NoEvidence, snapshots |-> {}]
Run      == [mode : {"none", "apply", "resume"}, evidence : Evidence \cup {NoEvidence},
             snapshots : SUBSET Snapshot]

Result == {"none", "ok", "fail", "packet", "noop", "writing", "wrote"}

TypeOK ==
  /\ disk \in Receipt \cup {NoReceipt}
  /\ mem \in Receipt \cup {NoReceipt}
  /\ pc \in Label
  /\ mem = NoReceipt <=> pc = "idle"
  /\ pc # "idle" => disk # NoReceipt
  /\ run \in Run
  /\ result \in Result
  /\ outcome \in Outcome
  /\ manifest \in Manifest \cup {NoManifest}
  /\ packet \in Packet \cup {NoPacket}
  /\ router \in [running : Manifest \cup {NoManifest}, startup : Manifest \cup {NoManifest}]
  /\ ran \in [Owner -> Epoch]
  /\ faults \in Nat

-----------------------------------------------------------------------------
(* Ends of a run and writes of the receipt *)

Evident == run.evidence # NoEvidence

Writable(r) == Valid(r, RuntimeMode, Adopt)

Stop(why) ==
  /\ pc' = "idle"
  /\ mem' = NoReceipt
  /\ run' = NoRun
  /\ result' = "none"
  /\ outcome' = why

(* write_receipt, then on with the run; a receipt that does not validate   *)
(* is not written and ends the run.                                        *)
WriteThen(r, next) ==
  \/ /\ Writable(r)
     /\ disk' = r /\ mem' = r /\ pc' = next /\ result' = "none"
     /\ UNCHANGED <<run, outcome>>
  \/ /\ ~Writable(r)
     /\ Stop("refused")
     /\ UNCHANGED disk

WriteAndStop(r, why) ==
  /\ Stop(IF Writable(r) THEN why ELSE "refused")
  /\ disk' = IF Writable(r) THEN r ELSE disk

Handoff(action) == WriteAndStop(mem, action)

Fail(s) == WriteAndStop(MarkStages(mem, {s}, "FAIL"), "failed")

GoOn(next) == pc' = next /\ UNCHANGED <<disk, mem, run, result, outcome>>

Error == Stop("error") /\ UNCHANGED disk

Calm  == UNCHANGED faults
Quiet == UNCHANGED <<world, faults>>
Fault == faults < MaxFaults /\ faults' = faults + 1

-----------------------------------------------------------------------------
(* main: apply and resume *)

FirstLabel == IF RuntimeMode = "local-router" THEN "preflight" ELSE "runtime"

Begin(mode, ev, snaps, r) ==
  /\ disk' = r
  /\ mem' = r
  /\ pc' = FirstLabel
  /\ run' = [mode |-> mode, evidence |-> ev, snapshots |-> snaps]
  /\ outcome' = "running"
  /\ UNCHANGED <<result, world, faults>>

Apply(ev, snaps, authorize) ==
  /\ pc = "idle"
  /\ disk = NoReceipt
  /\ Begin("apply", ev, snaps, InitialReceipt(authorize))

(* Resume keeps the authority the receipt grants and may only widen it.    *)
Resume(ev, snaps, authorize) ==
  /\ pc = "idle"
  /\ disk # NoReceipt
  /\ Writable(disk)
  /\ Begin("resume", ev, snaps, [disk EXCEPT !.reboot_authorized = @ \/ authorize])

-----------------------------------------------------------------------------
(* Local installation stages: preflight *)

ReadinessStage ==
  IF ~StageDone(mem, network_preflight) THEN network_preflight ELSE usb_ext4_entware_readiness

PreflightNeeded == pc = "preflight" /\ result = "none" /\ ~AllDone(mem, Recorded["preflight"])

FailedEpochRepeated ==
  LET record == mem.stages[ReadinessStage] IN
  record.status = "FAIL" /\ (Evident => run.evidence.epoch <= record.epoch)

PassPreflight ==
  /\ pc = "preflight" /\ result = "none"
  /\ AllDone(mem, Recorded["preflight"])
  /\ GoOn("bootstrap")
  /\ Quiet

PreflightHandoff ==
  /\ PreflightNeeded
  /\ \/ FailedEpochRepeated /\ Handoff("FAILED_PREFLIGHT_STATE_CHANGE_REQUIRED")
     \/ ~FailedEpochRepeated /\ ~Evident /\ Handoff("NETWORK_PREFLIGHT_EVIDENCE_REQUIRED")
  /\ Quiet

PreflightEvidence ==
  /\ PreflightNeeded /\ ~FailedEpochRepeated /\ Evident
  /\ \/ ~Acceptable(mem, run.evidence) /\ Error
     \/ /\ Acceptable(mem, run.evidence) /\ ~run.evidence.network
        /\ WriteAndStop(Accepted(mem, run.evidence), "NETWORK_OR_STORAGE_READINESS_REQUIRED")
  /\ Quiet

(* The evidence is accepted in memory only; preflight.sh runs before the   *)
(* receipt is written.  ran keeps the epoch of an owner's last success.    *)
RunPreflight ==
  /\ PreflightNeeded /\ ~FailedEpochRepeated /\ Evident
  /\ Acceptable(mem, run.evidence) /\ run.evidence.network
  /\ mem' = Accepted(mem, run.evidence)
  /\ \/ result' = "ok" /\ ran' = [ran EXCEPT !["preflight"] = mem'.state_epoch] /\ Calm
     \/ result' = "fail" /\ UNCHANGED ran /\ Fault
  /\ UNCHANGED <<disk, pc, run, outcome, manifest, packet, router>>

RecordPreflight ==
  /\ pc = "preflight"
  /\ \/ /\ result = "ok"
        /\ WriteThen(MarkStages(mem, Recorded["preflight"], "PASS"), "bootstrap")
     \/ result = "fail" /\ Fail(ReadinessStage)
  /\ Quiet

-----------------------------------------------------------------------------
(* Local installation stages: the other owners *)

(* Mutant: the manifest of a finished setup is not compared.               *)
PassOwnerUnchecked(o) ==
  /\ pc = o /\ result = "none"
  /\ StageDone(mem, Gate(o))
  /\ GoOn(After[o])
  /\ Quiet

(* A stage already done is passed by; the manifest of a finished setup is  *)
(* compared with the one the receipt locked.                               *)
PassOwner(o) ==
  /\ pc = o /\ result = "none"
  /\ StageDone(mem, Gate(o))
  /\ \/ o = "setup" /\ manifest # mem.endpoint_manifest /\ Error
     \/ (o = "setup" => manifest = mem.endpoint_manifest) /\ GoOn(After[o])
  /\ Quiet

(* setup may have published a new manifest even when it fails afterwards.  *)
RunOwner(o) ==
  /\ pc = o /\ result = "none"
  /\ ~StageDone(mem, Gate(o))
  /\ \/ /\ result' = "ok" /\ Calm
        /\ ran' = [ran EXCEPT ![o] = mem.state_epoch]
        /\ IF o = "setup" THEN manifest' \in Manifest ELSE UNCHANGED manifest
     \/ /\ result' = "fail" /\ Fault /\ UNCHANGED ran
        /\ IF o = "setup" THEN manifest' \in Manifest \cup {manifest} ELSE UNCHANGED manifest
  /\ UNCHANGED <<disk, mem, pc, run, outcome, packet, router>>

OwnerReceipt(o) ==
  LET done == MarkStages(mem, Recorded[o], "PASS") IN
  CASE o = "setup"       -> [done EXCEPT !.endpoint_manifest = manifest]
    [] o = "healthcheck" -> Verified(done, {"xray"})
    [] o = "autostart"   ->
         Verified([done EXCEPT !.runtime_disposition = "EXECUTED"], {"installation", "autostart"})
    [] OTHER             -> done

FailedStage(o) == CHOOSE s \in Recorded[o] : \A t \in Recorded[o] : s <= t

RecordOwner(o) ==
  /\ pc = o
  /\ \/ result = "ok" /\ WriteThen(OwnerReceipt(o), After[o])
     \/ result = "fail" /\ Fail(FailedStage(o))
  /\ Quiet

-----------------------------------------------------------------------------
(* External runtime: _accept_external_runtime *)

Sufficient == /\ Evident /\ run.evidence.network /\ run.evidence.xray
              /\ manifest # NoManifest /\ run.evidence.runtime = manifest

RuntimeAccepted == mem.runtime_disposition \in {"ADOPTED", "EXTERNAL_EXECUTED"}

(* The receipt after the first acceptance, for a runtime accepted before.  *)
Reviewed == IF RuntimeAccepted /\ Evident THEN Accepted(mem, run.evidence) ELSE mem

RuntimeKept == RuntimeAccepted /\ Reviewed.runtime_disposition = mem.runtime_disposition

RuntimeError ==
  /\ pc = "runtime"
  /\ \/ RuntimeAccepted /\ manifest # mem.endpoint_manifest
     \/ RuntimeAccepted /\ Evident /\ ~Acceptable(mem, run.evidence)
     \/ ~RuntimeAccepted /\ (Adopt \/ run.mode = "resume") /\ Sufficient
          /\ ~Acceptable(mem, run.evidence)
  /\ Error
  /\ Quiet

RuntimeReviewed ==
  /\ pc = "runtime"
  /\ RuntimeAccepted =>
       manifest = mem.endpoint_manifest /\ (Evident => Acceptable(mem, run.evidence))

KeepRuntime ==
  /\ RuntimeReviewed /\ RuntimeKept
  /\ mem' = Reviewed
  /\ pc' = "component"
  /\ Calm /\ UNCHANGED <<disk, run, result, outcome, world>>

RuntimeHandoff ==
  /\ RuntimeReviewed /\ ~RuntimeKept
  /\ (~Adopt /\ run.mode = "apply") \/ ~Sufficient
  /\ WriteAndStop(Reviewed, "ROUTERKIT_RUNTIME_EXECUTION_REQUIRED")
  /\ Quiet

RuntimeReceipt ==
  LET r == Accepted(Reviewed, run.evidence)
      located == [r EXCEPT !.endpoint_manifest = manifest, !.runtime_evidence = TRUE,
                    !.runtime_disposition = IF Adopt THEN "ADOPTED" ELSE "EXTERNAL_EXECUTED",
                    !.stages = [s \in Stage |->
                       IF s \in INSTALLATION_STAGES
                       THEN [status |-> IF Adopt THEN AdoptedStatus(s) ELSE "PASS",
                             epoch |-> r.state_epoch]
                       ELSE r.stages[s]]]
  IN  [located EXCEPT !.final_verification = DerivedFinal(located)]

RecordRuntime ==
  /\ RuntimeReviewed /\ ~RuntimeKept
  /\ Adopt \/ run.mode = "resume"
  /\ Sufficient
  /\ Acceptable(Reviewed, run.evidence)
  /\ WriteThen(RuntimeReceipt, "component")
  /\ Quiet

-----------------------------------------------------------------------------
(* _component_and_reboot *)

AcceptAtComponent ==
  /\ pc = "component"
  /\ \/ ~Evident /\ GoOn("inspect")
     \/ Evident /\ ~Acceptable(mem, run.evidence) /\ Error
     \/ /\ Evident /\ Acceptable(mem, run.evidence)
        /\ WriteThen(Accepted(mem, run.evidence), "inspect")
  /\ Quiet

ComponentReceipt ==
  [MarkStages(mem, {native_proxy_component}, "PASS") EXCEPT
     !.reboot_required = IF run.evidence.component = "ready+reboot" THEN "yes" ELSE "no"]

InspectComponent ==
  /\ pc = "inspect"
  /\ LET done == StageDone(mem, native_proxy_component)
         component == IF Evident THEN run.evidence.component ELSE "unknown"
     IN \/ done /\ GoOn("reboot")
        \/ ~done /\ ~Evident /\ Handoff("PROXY_COMPONENT_INSPECTION_REQUIRED")
        \/ ~done /\ component = "absent" /\ Handoff("PROXY_COMPONENT_INSTALL_REQUIRED")
        \/ ~done /\ component = "unproven" /\ Error
        \/ ~done /\ component \in {"ready", "ready+reboot"} /\ WriteThen(ComponentReceipt, "reboot")
  /\ Quiet

RebootOpen == pc = "reboot" /\ ~StageDone(mem, controlled_reboot)

PassReboot ==
  /\ pc = "reboot" /\ StageDone(mem, controlled_reboot)
  /\ GoOn("native")
  /\ Quiet

SkipReboot ==
  /\ RebootOpen /\ mem.reboot_required # "yes"
  /\ WriteThen(MarkStages(mem, {controlled_reboot, post_reboot_proof}, "SKIPPED"), "native")
  /\ Quiet

RebootCompleted == Evident /\ run.evidence.completed

ProofPassed == run.evidence.network /\ run.evidence.xray

FreshReboot == run.evidence.change = "reboot" /\ run.evidence.epoch >= 1

(* Mutant: the post-reboot proof is left for later.                        *)
RebootReceiptUnproven ==
  [MarkStages(mem, {controlled_reboot}, "PASS") EXCEPT !.completed_reboot_epoch = mem.state_epoch]

RebootReceipt ==
  [MarkStages(mem, {controlled_reboot, post_reboot_proof}, "PASS") EXCEPT
     !.completed_reboot_epoch = mem.state_epoch]

ProveReboot ==
  /\ RebootOpen /\ mem.reboot_required = "yes" /\ RebootCompleted
  /\ \/ ~(FreshReboot /\ ProofPassed) /\ Error
     \/ FreshReboot /\ ProofPassed /\ WriteThen(RebootReceipt, "native")
  /\ Quiet

(* Without --evidence-file the last branch reads evidence["reboot"] of     *)
(* None: a TypeError that main does not catch.                             *)
RebootHandoff ==
  /\ RebootOpen /\ mem.reboot_required = "yes" /\ ~RebootCompleted
  /\ \/ ~mem.reboot_authorized /\ Handoff("CONTROLLED_REBOOT_AUTHORIZATION_REQUIRED")
     \/ mem.reboot_authorized /\ ~Evident /\ Stop("traceback") /\ UNCHANGED disk
     \/ mem.reboot_authorized /\ Evident /\ Handoff("CONTROLLED_REBOOT_REQUIRED")
  /\ Quiet

-----------------------------------------------------------------------------
(* Native transaction through the local adapter: one subprocess that       *)
(* writes the running configuration, saves it and reports.  Its commands   *)
(* are taken together: a kill leaves the whole change or none of it.       *)

NativeOpen == pc = "native" /\ ~StageDone(mem, native_proxy_policy_transaction)

LocalNative    == NativeOpen /\ Transport = "local-ndmc"
ExternalNative == NativeOpen /\ Transport = "external"

NativeSubprocess == UNCHANGED <<disk, mem, pc, run, outcome, manifest, packet, ran>>

PassNative ==
  /\ pc = "native" /\ StageDone(mem, native_proxy_policy_transaction)
  /\ GoOn("dns")
  /\ Quiet

LocalNativePlan ==
  /\ LocalNative /\ result = "none"
  /\ \/ router.running = manifest /\ result' = "noop" /\ Calm /\ UNCHANGED router
     \/ /\ router.running # manifest /\ result' = "writing" /\ Calm
        /\ router' = [router EXCEPT !.running = manifest]
     \/ result' = "fail" /\ Fault /\ UNCHANGED router
  /\ NativeSubprocess

LocalNativeSave ==
  /\ LocalNative /\ result = "writing"
  /\ result' = "wrote"
  /\ router' = [router EXCEPT !.startup = router.running]
  /\ Calm /\ NativeSubprocess

(* A rollback that works takes the change back and saves; one that cannot  *)
(* be proven leaves it where it is.                                        *)
LocalNativeRollback ==
  /\ LocalNative /\ result = "writing"
  /\ result' = "fail"
  /\ \/ router' = [running |-> NoManifest, startup |-> NoManifest]
     \/ UNCHANGED router
  /\ Fault /\ NativeSubprocess

LocalNativeReceipt ==
  Verified([MarkStages(mem, {native_proxy_policy_transaction}, "PASS") EXCEPT
              !.native_transaction =
                [@ EXCEPT !.status = "PASS", !.write_required = (result = "wrote"),
                          !.pre_epoch = mem.state_epoch]],
           {"native_routing"})

RecordLocalNative ==
  /\ LocalNative
  /\ \/ result \in {"noop", "wrote"} /\ WriteThen(LocalNativeReceipt, "dns")
     \/ result = "fail" /\ Fail(native_proxy_policy_transaction)
  /\ Quiet

-----------------------------------------------------------------------------
(* Native transaction through an external agent.  A snapshot shows the     *)
(* configuration as it is when the run reads it.                           *)

NativeStatus == mem.native_transaction.status

NativeFailed == Fail(native_proxy_policy_transaction)

ExternalPreState ==
  /\ ExternalNative /\ NativeStatus = "PENDING" /\ result = "none"
  /\ "pre" \notin run.snapshots
  /\ Handoff("EXTERNAL_NATIVE_PRE_STATE_REQUIRED")
  /\ Quiet

(* The transaction file is created exclusively and before the receipt      *)
(* knows of it; an unusable snapshot fails before the file is written.     *)
ExternalBuildPacket ==
  /\ ExternalNative /\ NativeStatus = "PENDING" /\ result = "none"
  /\ "pre" \in run.snapshots
  /\ \/ /\ packet = NoPacket
        /\ packet' = [manifest |-> manifest, write_required |-> router.running # manifest]
        /\ result' = "packet"
        /\ UNCHANGED <<disk, mem, pc, run, outcome>> /\ Calm
     \/ packet # NoPacket /\ NativeFailed /\ Calm /\ UNCHANGED packet
     \/ NativeFailed /\ Fault /\ UNCHANGED packet
  /\ UNCHANGED <<manifest, router, ran>>

ExternalPlanned ==
  /\ ExternalNative /\ NativeStatus = "PENDING" /\ result = "packet"
  /\ WriteThen([mem EXCEPT !.native_transaction =
                  [status |-> "PLANNED", packet |-> packet,
                   write_required |-> packet.write_required,
                   pre_epoch |-> mem.state_epoch]], "native")
  /\ Quiet

(* Past planning every run first loads the packet and compares it.         *)
PacketOpen(status) == ExternalNative /\ NativeStatus = status

PacketMatches == packet = mem.native_transaction.packet /\ packet.manifest = manifest

ExternalPacketLost ==
  /\ ExternalNative /\ NativeStatus # "PENDING"
  /\ ~PacketMatches
  /\ NativeFailed
  /\ Quiet

ExternalDelivery ==
  /\ PacketOpen("PLANNED") /\ PacketMatches /\ "post" \notin run.snapshots
  /\ Handoff(IF mem.native_transaction.write_required
             THEN "EXTERNAL_NATIVE_TRANSACTION_DELIVERY_REQUIRED"
             ELSE "EXTERNAL_NATIVE_NOOP_READBACK_REQUIRED")
  /\ Quiet

ExternalRunning ==
  /\ PacketOpen("PLANNED") /\ PacketMatches /\ "post" \in run.snapshots
  /\ \/ /\ router.running = manifest
        /\ WriteThen([mem EXCEPT !.native_transaction.status = "RUNNING_VERIFIED"], "native")
     \/ router.running # manifest /\ NativeFailed
  /\ Quiet

ExternalSave ==
  /\ PacketOpen("RUNNING_VERIFIED") /\ PacketMatches
  /\ mem.native_transaction.write_required /\ "saved" \notin run.snapshots
  /\ Handoff("EXTERNAL_NATIVE_SAVE_REQUIRED")
  /\ Quiet

ExternalNativeReceipt ==
  Verified([MarkStages(mem, {native_proxy_policy_transaction}, "PASS") EXCEPT
              !.native_transaction.status = "PASS"], {"native_routing"})

ExternalSaved ==
  /\ PacketOpen("RUNNING_VERIFIED") /\ PacketMatches
  /\ mem.native_transaction.write_required => "saved" \in run.snapshots
  /\ LET verified == mem.native_transaction.write_required => router.startup = manifest
     IN \/ verified /\ WriteThen(ExternalNativeReceipt, "dns")
        \/ ~verified /\ NativeFailed
  /\ Quiet

-----------------------------------------------------------------------------
(* DNS gate, client acceptance, final result *)

DnsOpen == pc = "dns" /\ ~StageDone(mem, protected_dns_gate)

PassDns ==
  /\ pc = "dns" /\ StageDone(mem, protected_dns_gate)
  /\ GoOn("client")
  /\ Quiet

(* Mutant: evidence of the epoch of the native write will do.              *)
PredatesNativeEpoch ==
  /\ mem.native_transaction.write_required
  /\ run.evidence.epoch < mem.native_transaction.pre_epoch

PredatesNative ==
  /\ mem.native_transaction.write_required
  /\ run.evidence.epoch <= mem.native_transaction.pre_epoch

DnsHandoff ==
  /\ DnsOpen
  /\ \/ ~Evident /\ Handoff("PROTECTED_DNS_EVIDENCE_REQUIRED")
     \/ Evident /\ PredatesNative /\ Handoff("PROTECTED_DNS_POST_NATIVE_EVIDENCE_REQUIRED")
     \/ /\ Evident /\ ~PredatesNative /\ ~run.evidence.dns
        /\ Handoff("PROTECTED_DNS_DELTA_REQUIRED")
  /\ Quiet

DnsReceipt ==
  Verified([MarkStages(mem, {protected_dns_gate}, "PASS") EXCEPT !.dns_gate_status = "PASS"],
           {"dns"})

RecordDns ==
  /\ DnsOpen /\ Evident /\ ~PredatesNative /\ run.evidence.dns
  /\ WriteThen(DnsReceipt, "client")
  /\ Quiet

ClientStage ==
  /\ pc = "client"
  /\ LET done == StageDone(mem, selected_client_acceptance)
         proven == Evident /\ run.evidence.client
     IN \/ done /\ GoOn("final")
        \/ ~done /\ ~proven /\ Handoff("CLIENT_FUNCTIONAL_VERIFICATION_REQUIRED")
        \/ /\ ~done /\ proven
           /\ WriteThen(Verified(MarkStages(mem, {selected_client_acceptance}, "PASS"),
                                 {"client_domain_https"}), "final")
  /\ Quiet

FinalResult ==
  /\ pc = "final"
  /\ WriteAndStop(MarkStages(mem, {final_result}, "PASS"), "complete")
  /\ Quiet

-----------------------------------------------------------------------------
(* The surroundings: kills, and what the operator does between two runs *)

Kill ==
  /\ pc # "idle"
  /\ Stop("killed")
  /\ Fault /\ UNCHANGED <<disk, world>>

Idle == pc = "idle" /\ UNCHANGED <<disk, mem, pc, run, result, outcome, ran>>

(* The external agent executes the packet commands it was asked for.       *)
Deliver ==
  /\ Idle /\ outcome = "EXTERNAL_NATIVE_TRANSACTION_DELIVERY_REQUIRED"
  /\ packet # NoPacket
  /\ router.running # packet.manifest
  /\ router' = [router EXCEPT !.running = packet.manifest]
  /\ Calm /\ UNCHANGED <<manifest, packet>>

SaveConfiguration ==
  /\ Idle /\ outcome = "EXTERNAL_NATIVE_SAVE_REQUIRED"
  /\ router.startup # router.running
  /\ router' = [router EXCEPT !.startup = router.running]
  /\ Calm /\ UNCHANGED <<manifest, packet>>

(* A packet of an earlier attempt stands in the way until it is removed.   *)
RemovePacket ==
  /\ Idle /\ outcome = "failed" /\ packet # NoPacket
  /\ disk.native_transaction.status = "PENDING"
  /\ packet' = NoPacket
  /\ Calm /\ UNCHANGED <<manifest, router>>

LosePacket ==
  /\ Idle /\ packet # NoPacket
  /\ packet' = NoPacket
  /\ Fault /\ UNCHANGED <<manifest, router>>

(* The recorded transaction file is put back where a run misses it.        *)
RestorePacket ==
  /\ Idle /\ disk # NoReceipt /\ packet = NoPacket
  /\ disk.native_transaction.packet # NoPacket
  /\ packet' = disk.native_transaction.packet
  /\ Calm /\ UNCHANGED <<manifest, router>>

(* The manifest of an external runtime is exported by the target.          *)
ExportManifest(m) ==
  /\ Idle /\ RuntimeMode = "external-evidence" /\ manifest = NoManifest
  /\ manifest' = m
  /\ Calm /\ UNCHANGED <<packet, router>>

ReplaceManifest(m) ==
  /\ Idle /\ manifest # NoManifest /\ m # manifest
  /\ manifest' = m
  /\ Fault /\ UNCHANGED <<packet, router>>

RestoreManifest ==
  /\ Idle /\ disk # NoReceipt
  /\ disk.endpoint_manifest \notin {NoManifest, manifest}
  /\ manifest' = disk.endpoint_manifest
  /\ Calm /\ UNCHANGED <<packet, router>>

-----------------------------------------------------------------------------
(* The specification *)

Init ==
  /\ disk = NoReceipt /\ mem = NoReceipt
  /\ pc = "idle" /\ run = NoRun /\ result = "none" /\ outcome = "none"
  /\ manifest = NoManifest /\ packet = NoPacket
  /\ router = [running |-> NoManifest, startup |-> NoManifest]
  /\ ran = [o \in Owner |-> NoEpoch]
  /\ faults = 0

Command ==
  \E ev \in Evidence \cup {NoEvidence}, snaps \in Supplied, authorize \in BOOLEAN :
    Apply(ev, snaps, authorize) \/ Resume(ev, snaps, authorize)

Installation ==
  \/ PassPreflight \/ PreflightHandoff \/ PreflightEvidence \/ RunPreflight \/ RecordPreflight
  \/ \E o \in Owner \ {"preflight"} : PassOwner(o) \/ RunOwner(o) \/ RecordOwner(o)
  \/ RuntimeError \/ KeepRuntime \/ RuntimeHandoff \/ RecordRuntime

ComponentAndReboot ==
  \/ AcceptAtComponent \/ InspectComponent
  \/ PassReboot \/ SkipReboot \/ ProveReboot \/ RebootHandoff

NativeTransactionStage ==
  \/ PassNative
  \/ LocalNativePlan \/ LocalNativeSave \/ LocalNativeRollback \/ RecordLocalNative
  \/ ExternalPreState \/ ExternalBuildPacket \/ ExternalPlanned \/ ExternalPacketLost
  \/ ExternalDelivery \/ ExternalRunning \/ ExternalSave \/ ExternalSaved

Acceptance == PassDns \/ DnsHandoff \/ RecordDns \/ ClientStage \/ FinalResult

Process == Installation \/ ComponentAndReboot \/ NativeTransactionStage \/ Acceptance

Operator ==
  \/ Command
  \/ Deliver \/ SaveConfiguration
  \/ RemovePacket \/ LosePacket \/ RestorePacket \/ RestoreManifest
  \/ \E m \in Manifest : ExportManifest(m)
  \/ \E m \in Manifest \cup {NoManifest} : ReplaceManifest(m)

Next == Process \/ Operator \/ Kill

Spec == Init /\ [][Next]_vars

-----------------------------------------------------------------------------
(* Safety *)

OnDisk(s) == disk # NoReceipt /\ StageDone(disk, s)

(* A receipt never credits a later stage to an earlier state epoch than a  *)
(* stage it builds on: whatever evidence, failures and kills came between, *)
(* the epochs of the done stages grow along STAGE_ORDER and none lies in   *)
(* the future.  _reset_from_stage and the epoch step of                    *)
(* accept_discovery_evidence have to agree for this.                       *)
StageEpochsOrdered ==
  \A s \in Stage, t \in Stage :
    s <= t /\ OnDisk(t) =>
      /\ 0 <= disk.stages[s].epoch
      /\ disk.stages[s].epoch <= disk.stages[t].epoch
      /\ disk.stages[t].epoch <= disk.state_epoch

(* The first stage that the state change reported by ev invalidates.       *)
FirstInvalidated(ev) ==
  CASE ev.change = "component"      -> native_proxy_component
    [] ev.change = "reboot"         -> controlled_reboot
    [] ev.change = "opt"            -> usb_ext4_entware_readiness
    [] ev.change = "routerkit-xray" -> pinned_xray_bootstrap
    [] ev.change = "contradictory"  -> network_preflight
    [] ev.change = "native"         -> native_proxy_policy_transaction
    [] OTHER                        -> final_result + 1

(* Once evidence of a state change is accepted, no stage that the change   *)
(* invalidates still counts with a result of an older epoch: it was reset  *)
(* and, if it is done, redone.  The one exception is the native stage      *)
(* whose own write the "native" evidence reports.                          *)
NoStaleStage ==
  disk # NoReceipt /\ disk.discovery # NoEvidence =>
    \A s \in Stage :
      s >= FirstInvalidated(disk.discovery) /\ OnDisk(s) =>
        \/ disk.stages[s].epoch = disk.state_epoch
        \/ s = native_proxy_policy_transaction /\ ExpectedRefresh(disk, disk.discovery)

(* The accepted discovery always belongs to the current state epoch, so an *)
(* epoch beyond the first is never entered without evidence for it.        *)
DiscoveryIsCurrent ==
  disk # NoReceipt =>
    IF disk.discovery = NoEvidence
    THEN disk.state_epoch = 0
    ELSE disk.discovery.epoch = disk.state_epoch

(* A local stage on record was really carried out by its owner, in the     *)
(* epoch the receipt names, also when runs were killed between the effect  *)
(* of a subprocess and the write.                                          *)
RecordedMeansRan ==
  RuntimeMode = "local-router" =>
    \A o \in Owner : OnDisk(Gate(o)) => ran[o] = disk.stages[Gate(o)].epoch

(* A controlled reboot is on record only together with its proof, and only *)
(* as the component stage's decision demands.                              *)
RebootProven ==
  /\ OnDisk(controlled_reboot) <=> OnDisk(post_reboot_proof)
  /\ OnDisk(controlled_reboot) =>
       disk.stages[controlled_reboot].status =
         (IF disk.reboot_required = "yes" THEN "PASS" ELSE "SKIPPED")

(* DNS passes only on evidence from an epoch after the one in which the    *)
(* recorded native transaction was planned, when that transaction wrote.   *)
DnsAfterNative ==
  OnDisk(protected_dns_gate) /\ disk.native_transaction.write_required =>
    disk.stages[protected_dns_gate].epoch > disk.native_transaction.pre_epoch

(* A done native stage means that the router runs the configuration of the *)
(* very manifest the receipt has locked, and, if the transaction wrote,    *)
(* that this configuration is also the one saved for the next start.       *)
NativeConfigured ==
  OnDisk(native_proxy_policy_transaction) =>
    /\ router.running = disk.endpoint_manifest
    /\ disk.native_transaction.write_required => router.startup = disk.endpoint_manifest

(* The native configuration changes only while the receipt on disk has     *)
(* every earlier stage done, the post-reboot proof included.               *)
NativeOnlyAfterProof ==
  [][\A s \in Stage : s < native_proxy_policy_transaction => OnDisk(s)]_(router.running)

-----------------------------------------------------------------------------
(* The inductive invariant: what holds of every receipt the program writes *)
(* and of every receipt a run holds, and how the two are related.          *)

Dated(r) ==
  \A s \in Stage : StageDone(r, s) =>
    0 <= r.stages[s].epoch /\ r.stages[s].epoch <= r.state_epoch

EpochsGrow(r) ==
  \A s \in Stage, t \in Stage :
    s <= t /\ StageDone(r, t) => r.stages[s].epoch <= r.stages[t].epoch

Current(r) ==
  IF r.discovery = NoEvidence THEN r.state_epoch = 0 ELSE r.discovery.epoch = r.state_epoch

Fresh(r) ==
  r.discovery # NoEvidence =>
    \A s \in Stage :
      s >= FirstInvalidated(r.discovery) /\ StageDone(r, s) =>
        \/ r.stages[s].epoch = r.state_epoch
        \/ s = native_proxy_policy_transaction /\ ExpectedRefresh(r, r.discovery)

DnsLate(r) ==
  StageDone(r, protected_dns_gate) /\ r.native_transaction.write_required =>
    r.stages[protected_dns_gate].epoch > r.native_transaction.pre_epoch

Proven(r) ==
  /\ StageDone(r, controlled_reboot) <=> StageDone(r, post_reboot_proof)
  /\ StageDone(r, controlled_reboot) =>
       r.stages[controlled_reboot].status = (IF r.reboot_required = "yes" THEN "PASS" ELSE "SKIPPED")

Sound(r) ==
  /\ InOrder(r) /\ Dated(r) /\ EpochsGrow(r)
  /\ Current(r) /\ Fresh(r) /\ DnsLate(r) /\ Proven(r)

(* A run is at most one accepted document ahead of the receipt on disk,    *)
(* and past the component stage it has accepted the document it was given. *)
InStep ==
  mem # NoReceipt =>
    \/ mem = disk
    \/ /\ Evident /\ Acceptable(disk, run.evidence)
       /\ mem = Accepted(disk, run.evidence)
       /\ pc = "component" \/ (pc = "preflight" /\ result # "none")

Inductive ==
  /\ TypeOK
  /\ disk # NoReceipt => Sound(disk) /\ Writable(disk)
  /\ InStep
  /\ pc = "idle" => result = "none"
  /\ disk = NoReceipt => outcome = "none"
  /\ pc \in Owner /\ result # "none" => ~AllDone(mem, Recorded[pc])
  /\ pc = "runtime" => RuntimeMode = "external-evidence"
  /\ pc \in Label \ {"idle", "preflight", "bootstrap", "setup", "runtime"} =>
       manifest # NoManifest
  /\ pc = "setup" /\ result = "ok" => manifest # NoManifest
  /\ result = "packet" => packet \in Packet
  /\ pc \in {"inspect", "reboot", "native", "dns", "client", "final"} /\ Evident =>
       mem.discovery = run.evidence

-----------------------------------------------------------------------------
(* Refinement *)

DoneOnDisk == {s \in Stage : OnDisk(s)}

Ledger == INSTANCE StageLedger WITH
  Stages <- final_result,
  ledger <- [i \in 1..Cardinality(DoneOnDisk) |-> disk.stages[i].epoch],
  epoch  <- IF disk = NoReceipt THEN 0 ELSE disk.state_epoch

(* The receipt file is such a ledger: between two writes of it no done     *)
(* stage is lost unless a new state epoch opens, and no write reorders     *)
(* stages or back-dates one.                                               *)
ImplementsLedger == Ledger!Spec

-----------------------------------------------------------------------------
(* Liveness under an operator who answers handoffs *)

UsefulEvidence(ev) ==
  /\ ev.network /\ ev.xray /\ ev.dns /\ ev.client
  /\ ev.component \in {"ready", "ready+reboot"}
  /\ RuntimeMode = "external-evidence" => ev.runtime = manifest

(* A new epoch is declared only to answer the way the last run ended.      *)
Answers(ev) ==
  CASE outcome = "CONTROLLED_REBOOT_REQUIRED" -> ev.change = "reboot" /\ ev.completed
    [] outcome = "PROTECTED_DNS_POST_NATIVE_EVIDENCE_REQUIRED" -> ev.change = "native"
    [] OTHER -> \/ outcome = "FAILED_PREFLIGHT_STATE_CHANGE_REQUIRED"
                \/ disk.discovery # NoEvidence /\ ~UsefulEvidence(disk.discovery)

(* The snapshots that fit how far the external transaction has come.       *)
FittingSnapshots ==
  IF Transport = "local-ndmc" \/ disk = NoReceipt THEN {}
  ELSE {"pre"} \cup
       (IF disk.native_transaction.status \in {"PLANNED", "RUNNING_VERIFIED"}
           /\ packet # NoPacket /\ router.running = packet.manifest
        THEN {"post"} \cup (IF router.startup = router.running THEN {"saved"} ELSE {})
        ELSE {})

(* The same evidence again, or the first of a campaign.                    *)
RepeatCommand ==
  \E ev \in Evidence :
    /\ UsefulEvidence(ev)
    /\ \/ Apply(ev, FittingSnapshots, TRUE)
       \/ /\ Resume(ev, FittingSnapshots, TRUE)
          /\ Acceptable(disk, ev)
          /\ ev.epoch = disk.state_epoch

AnswerCommand ==
  \E ev \in Evidence :
    /\ UsefulEvidence(ev)
    /\ Resume(ev, FittingSnapshots, TRUE)
    /\ Acceptable(disk, ev)
    /\ ev.epoch > disk.state_epoch
    /\ Answers(ev)

Help ==
  \/ Deliver \/ SaveConfiguration
  \/ RemovePacket \/ RestorePacket \/ RestoreManifest
  \/ \E m \in Manifest : ExportManifest(m)

(* A run does not stop by itself short of its end, and the operator does   *)
(* not for ever withhold the command, the snapshot, the delivery or the    *)
(* file that the last handoff asked for.                                   *)
Fairness ==
  WF_vars(Process) /\ SF_vars(RepeatCommand) /\ SF_vars(AnswerCommand) /\ SF_vars(Help)

FairSpec == Spec /\ Fairness

EpochsUsedUp == disk # NoReceipt /\ \A ev \in Evidence : ev.epoch <= disk.state_epoch

(* No sequence of failures, kills, rejected documents and handoffs leaves  *)
(* a campaign for ever short of its final result while a new state epoch   *)
(* can still be opened.                                                    *)
CampaignCompletes == <>(outcome = "complete" \/ EpochsUsedUp)

-----------------------------------------------------------------------------
(* What the documents say and the code does not do *)

=============================================================================
